CONSTANTS
  FRAME_BYTES = 2
  ScratchBytes = 7
  BufferBytes = 10
  Grains = {2, 4}
  MaxSamples = 4
  MaxHead = 20
SPECIFICATION Spec
INVARIANTS ReadFailsOnlyWhenBehind
PROPERTIES DiscardFailsOnlyWhenBehind
CHECK_DEADLOCK FALSE
