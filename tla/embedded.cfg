SPECIFICATION Spec
CONSTANTS
  Keys = {0, 1, 2}
  Others = {"DialPress", "TouchTap"}
  ReportKeys = 2
  MaxEvents = 4
  MaxUnread = 3
  OutRoom = 1
  None = None
INVARIANTS
  TypeOK
  NoEventIsLostOnTheWay
  ClientKnowsKeys
PROPERTIES
  EveryEventIsHeard
