SPECIFICATION FairSpec
CONSTANTS
  a = a
  b = b
  Clients = {a}
  Requests <- MCLegalRequests
  Keys = {"k"}
  Values = {"v"}
  BufSize = 8
  InSize = 8
  OutSize = 1
  MaxRequests <- MCMaxRequests
  Asks <- MCLegalAsks
  Window = 2
  MallocFails = FALSE
INVARIANTS FillAssertion SurvivesClosedClients
PROPERTY NoneIsLeftInTheBuffer
CHECK_DEADLOCK FALSE
