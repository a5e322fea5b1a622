SPECIFICATION MCSpec
CONSTANTS
  Keys = {"a", "b", "c", "d"}
  Values <- MCValues
  HashA <- MCHashA
  HashB <- MCHashB
  HT_INITIAL_BASE_SIZE = 5
  MaxBaseSize = 10
  MaxFailing = 1
  MallocFails = TRUE
  Elements = {"p", "q"}
  FIRST_CAPACITY = 1
  Blocks = {"b1", "b2"}
  Indices = {0, 1, 2, 3, 4, 5}
  MaxSize = 4
  MaxDropped = 1
  AllocFails = TRUE
INVARIANTS BlockIsTheVectors ItemsAreReachable InsertEnds SearchIsRightUnlessDoubted
PROPERTY SequenceSpec
CHECK_DEADLOCK FALSE
