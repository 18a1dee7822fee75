SPECIFICATION Spec
CONSTANTS
  a = a
  a2 = a2
  b = b
  c = c
  c1 = c1
  c2 = c2
  c3 = c3
  i1 = i1
  i2 = i2
  Facts = {a, a2, b, c}
  Tiers = {1}
  Dist <- Distances
  Calls = {c1, c2, c3}
  Instances = {i1, i2}
  Instance <- Shared
  Allowed = {"forget", "supersede", "reconcile"}
  MaxFaults = 2
  Nobody = Nobody
  Manual = Manual
CONSTRAINT Trouble
SYMMETRY CallSymmetry
INVARIANTS NoVisibleTwins SupersederIsYounger HiddenHasSuccessor
CHECK_DEADLOCK FALSE
