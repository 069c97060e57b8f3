SPECIFICATION Spec
CONSTANTS
  Users = {u1}
  Wrong = wrong
  NoArg = nil
  MaxAsks = 1
  MaxTimeouts = 1
  Callers = {c1}
  Nobody = nobody
PROPERTY
  AuthenticateValidates
