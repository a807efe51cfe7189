CONSTANTS
  MaxSerial = 2
  MaxRequests = 1
  MaxResets = 1
  MaxOverflows = 1
  MaxStream = 3
SPECIFICATION Spec
INVARIANT RetiredSignalledInAnyMode
