SPECIFICATION FairSpec
CONSTANTS
  Calls = {c1, c2}
  Navigate = navigate
  NoJob = nojob
  MaxIndex = 2
  Other = {}
PROPERTY
  DispatchRuns
CHECK_DEADLOCK FALSE
