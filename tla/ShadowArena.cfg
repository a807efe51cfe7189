CONSTANTS
  PageUnits = 2
  FramePages = 2
  FrameCount = 2
  FixedLimit = 4
  TrimWindow = 2
  Sizes = {1, 2}
  MaxParts = 2
  MaxGens = 4
  MaxSerial = 4
SPECIFICATION Spec
INVARIANTS InFlightDisjoint CursorAtLastCommit SealIsSignalled
PROPERTIES GenerationsRetire
