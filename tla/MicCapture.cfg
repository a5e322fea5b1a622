CONSTANTS
  ScratchSamples = 4
  BufferSamples = 6
  READ_SAMPLES = 4
  FRAME_SAMPLES = 3
  WARMUP_SAMPLES = 2
  METER_SAMPLES = 5
  FRAME_TIMEOUT = 5
  PROBE_TIMEOUT = 1
  MaxTime = 22
SPECIFICATION Spec
INVARIANT FramesAreContiguous
PROPERTIES FramesAdjoin ProbingIsFree
CHECK_DEADLOCK FALSE
