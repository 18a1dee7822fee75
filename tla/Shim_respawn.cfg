SPECIFICATION Spec
CONSTANTS
  Workers = {w1, w2}
  Static = {recall}
  Served = {recall}
  MaxSpawns = 2
INVARIANT ToolsFollowRespawn
CHECK_DEADLOCK FALSE
