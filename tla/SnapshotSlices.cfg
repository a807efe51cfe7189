CONSTANTS
  Slots = 2
  Capacity = 4
  Sizes = {1, 2, 3}
  r1 = r1
  r2 = r2
  Releasers = {r1, r2}
  MaxRefs = 2
  MaxRevision = 5
SPECIFICATION Spec
INVARIANTS HoleIsRetired NegativeCacheSound PageOutlivesReleasers DistinctUnlessStraddled
PROPERTIES LeaseIsImmutable
CHECK_DEADLOCK FALSE
