CONSTANTS
  Producers = {p1, p2}
  Ctl = ctl
  Capacity = 4
  MaxSeq = 4
  Window = 1
  Windows = {0}
  MaxSession = 2
  Tickets <- MCTickets
  AsksAgain = FALSE
  None = None
SPECIFICATION Spec
SYMMETRY Symmetry
INVARIANTS StorageIsQuiet ExportIsExact FreezeEndsSession
PROPERTIES NewestLapKept ImplementsSession
CHECK_DEADLOCK FALSE
