SPECIFICATION Spec
CONSTANTS
  P = P
  S = S
  None = None
  Conns <- MCConns
  Direct = {}
  MaxFrames <- MCFrames
  Sends <- MCSends
  MaxReports = 1
  InCap = 1
  TxCap = 1
INVARIANTS
  OnlyClientHasInput
CHECK_DEADLOCK FALSE
