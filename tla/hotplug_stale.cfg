SPECIFICATION Spec
CONSTANTS
  A1 = A1
  B1 = B1
  A = A
  B = B
  None = None
  Devices <- MCOneDevice
  Serials <- MCOneSerial
  SerialOf <- MCSerialOf
  MaxChildSlots = 1
  SecondaryPort = 5344
  MaxPort = 65535
  HotplugCap = 2
  TxCap = 1
INVARIANTS
  NoPhantomDeck
