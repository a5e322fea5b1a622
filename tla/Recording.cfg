SPECIFICATION SamplesSpec
CONSTANTS
  FRAME_BYTES = 2
  ScratchBytes = 7
  BufferBytes = 10
  Grains = {1, 2, 3}
  MaxSamples = 4
  MaxHead = 16
  SampleBits = 8
  Sound <- MCSound
  METER_SAMPLES = 2
  MaxFed = 7
INVARIANTS PhaseNeverSlips SamplesAreTheSound RefusedOnlyWithReason
PROPERTIES DiscardIsExact
CHECK_DEADLOCK FALSE
