SPECIFICATION Spec
CONSTANTS
  Clients = {a, b, c}
  Talkers = {a, b}
  MaxTexts = 1
  BUF = 1
  SendCap = 1
  FD_SIZE = 2
INVARIANTS SurvivesFailedSends ReceivesOnlyWhenReady
CHECK_DEADLOCK FALSE
