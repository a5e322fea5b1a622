SPECIFICATION Spec
CONSTANTS
  Clients = {a, b, c}
  Talkers = {a, b}
  MaxTexts = 1
  BUF = 1
  SendCap = 1
INVARIANT ReceivesOnlyWhenReady
PROPERTY ChatSpec
CHECK_DEADLOCK FALSE
