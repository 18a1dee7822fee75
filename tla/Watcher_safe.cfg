SPECIFICATION Spec
CONSTANTS
  Files = {f1, f2}
  Pieces = {p1, p2}
  Split <- OneEach
  TooLarge <- WholeBody
  MaxTime = 3
  MaxFaults <- EveryFault
SYMMETRY Symmetric
INVARIANTS OwnIds NothingUntracked HashIsTrue
CHECK_DEADLOCK FALSE
