SPECIFICATION Spec
CONSTANTS
  Files = {f1}
  Pieces = {p1, p2}
  Split <- OneEach
  TooLarge <- NoBody
  MaxTime = 2
  MaxFaults <- EmbedFault
INVARIANT SyncedFileIsSearchable
CHECK_DEADLOCK FALSE
