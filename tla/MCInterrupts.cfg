CONSTANTS
  NPins = 2
  CmdBytes <- MCCmdBytes
  DataBytes <- MCDataBytes
  Gates <- MCGates
  Redirected <- MCRedirected
  Length = 2
  Nest = 2
  Pams = {0, 1}
  PamValues <- MCPamValues
  SmramValues <- MCSmramValues
  Tracked = {12}
  Enables1 <- MCEnables1
  Enables2 <- MCEnables2
  Limit <- MCLimit
  Alarms <- MCAlarms
  Times <- MCTimes
  Enables <- MCEnables
  Writes = 1
SPECIFICATION MCSpec
INVARIANTS
  NoForgottenRequest
  NoPhantomIntr
  LevelsAgree
PROPERTIES
  BridgeRight
  CausesServed
  AlarmRings
  RequestSurvives
  AcknowledgesHighest
  TimerTaken
  ReturnsExact
