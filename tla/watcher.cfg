SPECIFICATION Spec
CONSTANTS
  A1 = A1
  A2 = A2
  B1 = B1
  B2 = B2
  A = A
  B = B
  None = None
  Devices <- MCDevices
  Serials <- MCSerials
  SerialOf <- MCSerialOf
  MaxChildSlots = 2
  SecondaryPort = 5344
  MaxPort = 65535
  SignalCap = 1
  BusyPorts = {5345}
  SharedSerials = {B}
INVARIANTS
  TypeOK
  SlotsBacked
  ActiveIsListed
  OneSlotPerSerial
  StickyIsWhereItSits
  DedicatedPort
  BindFailsOnlyWhenBusy
PROPERTIES
  NoLiveTeardown
  ReservationHonoured
  DockSpec
