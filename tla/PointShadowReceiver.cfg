SPECIFICATION Spec
SYMMETRY PoseSymmetry
CONSTANTS
  NFaces = 2
  Poses = {p1, p2}
  Scenes <- MCScenes
  Policies <- MCPolicies
  Modes = {"Off", "Consume"}
  None = None
  MaxFrame = 3
  MaxAuthored = 2
  MaxEpoch = 2
INVARIANTS
  CubeWhole
  ProposalIsCanonical
  PendingIsTheSlot
CHECK_DEADLOCK FALSE
