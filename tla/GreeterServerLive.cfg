SPECIFICATION FairSpec
CONSTANTS
  Users = {u1}
  Wrong = wrong
  NoArg = nil
  MaxAsks = 1
  MaxTimeouts = 1
  Callers = {c1, c2}
  Nobody = nobody
PROPERTY
  EveryCallReturns
