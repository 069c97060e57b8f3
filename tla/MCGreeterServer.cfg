SPECIFICATION RecordedSpec
CONSTANTS
  Users = {u1, u2}
  Wrong = wrong
  NoArg = nil
  MaxAsks = 2
  MaxTimeouts = 1
  Callers = {c1, c2}
  Nobody = nobody
INVARIANTS
  TypeOK
  ReplyLag
  CreateFindsNoConversation
  PasswordGoesToItsUser
  SavedUserWasStarted
PROPERTIES
  ReportsMatchGreetd
  NothingLeftBehind
  HandlersAreAtomic
SYMMETRY Symmetry
