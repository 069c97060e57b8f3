SPECIFICATION FairSpec
CONSTANTS
  Calls = {c1, c2, c3}
  Navigate = navigate
  NoJob = nojob
  MaxIndex = 3
  Other = {}
INVARIANTS
  TypeOK
  SettledOnce
  NoSilentLoss
PROPERTIES
  AnsweredOrPanic
  AnsweredUnlessOverlap
CHECK_DEADLOCK FALSE
