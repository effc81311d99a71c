SPECIFICATION Spec
CONSTANTS
  Interval = 5
  Timeout = 10
  UsbTime = 3
  MaxFrames = 2
  TxCap = 2
INVARIANTS
  InactiveClientIsDropped
