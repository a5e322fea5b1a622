SPECIFICATION FairSpec
CONSTANTS
  a = a
  b = b
  Clients = {a, b}
  Requests <- MCRequests
  Keys = {"k"}
  Values = {"v"}
  BufSize = 8
  InSize = 4
  OutSize = 1
  MaxRequests <- MCMaxRequests
  Asks <- MCAsks
  Window = 2
  MallocFails = TRUE
INVARIANTS ResponsesAreWhole DescriptorsAreFresh
PROPERTIES ServiceSpec RequestsAreAnswered
CHECK_DEADLOCK FALSE
