SPECIFICATION FairSpec
CONSTANTS
  Files = {f1, f2}
  Pieces = {p1, p2}
  Split <- OneEach
  TooLarge <- NoBody
  MaxTime = 3
  MaxFaults <- NoFaults
INVARIANT SyncedFileIsSearchable
PROPERTY Converges
CHECK_DEADLOCK FALSE
