SPECIFICATION Spec
CONSTANTS
  Base = 16
  Low = 4
  ShortBytes = 1
  LongBytes = 2
  MaskBytes = 3
  Key <- Keys
  XorByte <- XorOfBits
  InputBuffer = 4
  Room = 5
  Message <- Messages
  MaxMessages = 2
CHECK_DEADLOCK FALSE
PROPERTIES
  IsFifo
