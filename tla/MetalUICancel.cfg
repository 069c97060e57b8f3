SPECIFICATION Spec
CONSTANTS
  Users = {u1, u2}
  Nobody = nobody
  Jobs = {j1, j2}
  MaxPower = 0
PROPERTY
  OneConversation
CHECK_DEADLOCK FALSE
