SPECIFICATION Spec
CONSTANTS
  Users = {u1, u2}
  Nobody = nobody
  Jobs = {j1, j2}
  MaxPower = 1
INVARIANTS
  TypeOK
  SuccessMeansStarted
  OneAtATime
  SavedUserIsStarted
PROPERTIES
  PasswordGoesToItsUser
CHECK_DEADLOCK FALSE
