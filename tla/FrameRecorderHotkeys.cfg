CONSTANTS
  Keys = {k1, k2}
  Pre = 2
  Post = 1
  MaxSession = 2
  MaxSerial = 1
SPECIFICATION RecorderSpec
SYMMETRY KeySymmetry
PROPERTIES HotkeyKept
CHECK_DEADLOCK FALSE
