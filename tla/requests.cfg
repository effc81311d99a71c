SPECIFICATION Spec
CONSTANTS
  None = None
  Failed = Failed
  FieldLen = 4
  Frames <- MCFrames
  UsbData <- MCUsbData
  Slots <- MCSlots
  OwnSlot = 1
  BasePort = 5344
  LocalIps <- MCLocalIps
  IdSpace = 4
  Config <- MCConfig
INVARIANTS
  WhoAsksIsAnsweredOnce
  AnswerNamesTheReport
  KeepalivesStayLocal
  BoardAnswersLikeServer
  ChildInfoSurvives
  ConnectionIdsDiffer
