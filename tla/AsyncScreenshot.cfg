CONSTANTS
  SlotCount = 2
  BurstLength = 2
  Readbacks = {j1}
  None = None
  MaxShots = 2
  MaxRequests = 2
SPECIFICATION FairSpec
INVARIANTS ReadsCompleted NothingRecycledUnderCopy RequestsAccounted
PROPERTIES SubmittedSettles
CHECK_DEADLOCK FALSE
