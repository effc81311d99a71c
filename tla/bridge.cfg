SPECIFICATION FairSpec
CONSTANTS
  P = P
  S = S
  None = None
  Conns <- MCConns
  Direct <- MCDirect
  MaxFrames <- MCFrames
  Sends <- MCSends
  MaxReports = 2
  InCap = 1
  TxCap = 1
INVARIANTS
  TypeOK
  AnswersAddUp
  InputAddsUp
  OneTransferAtATime
PROPERTIES
  EndpointIsGivenBack
  EveryRequestIsAnswered
CHECK_DEADLOCK FALSE
