CONSTANTS
  Slots = 3
  Capacity = 4
  Sizes = {1, 2, 3}
  r1 = r1
  r2 = r2
  Releasers = {r1}
  MaxRefs = 1
  MaxRevision = 7
SPECIFICATION Spec
INVARIANTS DistinctRanges
CHECK_DEADLOCK FALSE
