CONSTANTS
  Keys = {k1}
  Pre = 1
  Post = 2
  MaxSession = 1
  MaxSerial = 2
SPECIFICATION FairRecorderSpec
INVARIANTS CompleteIsWhole
PROPERTIES RecordingSettles ReleaseReturns
CHECK_DEADLOCK FALSE
