SPECIFICATION PartSpec
CONSTANTS
  Workers = {w1, w2, w3}
  Static = {recall, remember}
  Served = {recall, graph}
  MaxSpawns = 3
  Limited = {"brain_restart"}
  LimitOf <- MCLimitOf
  Minute = 2
  Grain = 2
  MaxTime = 2
  MaxBack = 1
  Lines <- MCLines
  Kind <- MCKind
  ToolOf <- MCToolOf
  RestartTool = "brain_restart"
  NoId = NoId
  Silent = Silent
  NoLine = NoLine
  MaxFaults = 1
  MaxPipe = 1
INVARIANTS OneChild FirstHasTools LimiterHolds AnswersHold
PROPERTIES NotKilledInUse Replaced ImplementsService
ACTION_CONSTRAINT TimeAtRest
CHECK_DEADLOCK FALSE
