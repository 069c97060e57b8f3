SPECIFICATION FairSpec
CONSTANTS
  Users = {u1}
  Nobody = nobody
  Jobs = {j1, j2}
  MaxPower = 1
PROPERTY
  PowerEndsTheGreeter
CHECK_DEADLOCK FALSE
