CONSTANTS
  VaFloor = 4
  ReserveFloor = 4
  PageUnits = 2
  Cap = 4
  FallbackCap = 2
  MaxPages = 2
  Slots = 1
  CreatesPerFrame = 2
  Sizes = {1, 3}
  Lifetimes = {short, long}
  Heaps = {h1, h2}
  Samples <- MCSamples
  MaxId = 4
  MaxFrame = 2
  MaxEpoch = 3
SPECIFICATION Spec
INVARIANTS ResidentExact ListedPagesLive
PROPERTIES NoLegalTailOmitted CreatedPageServes
