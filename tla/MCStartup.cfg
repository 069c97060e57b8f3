SPECIFICATION StartupSpec
CONSTANTS
  Starts <- MCStarts
  Heads = {1, 2, 3}
  Modes = {m1, m2}
  NoMode = nomode
  NoHead = 0
  MAX_HEADS = 2
  MAX_MODES = 1
  Versions = {0, 3, 5}
  Scales = {0, 1, 1536}
  MaxSerial = 2
  KeyCap = 1
  VtCap = 2
  Calls = {c1, c2}
  Navigate = navigate
  NoJob = nojob
  MaxIndex = 2
  Quit = quit
  Depleted = depleted
  Other = {c1, c2, quit, depleted}
  MaxReloads = 1
  Args <- MCArgs
  Respond <- MCRespond
  Systems <- MCSystems
INVARIANTS
  StartupTypeOK
  OneDisplay
  NoProtocolError
  ResultIsVerdict
  ConsoleRestored
  DisplayHandedOver
  SwitchSettled
  NoStuckModifier
  OwnAnswer
  RequestIntact
  OnlyLateTouch
  Answered
  SignalObeyed
PROPERTIES
  OnlyScaleChanges
  AllScaled
  KeysStayAway
CHECK_DEADLOCK FALSE
