SPECIFICATION FairMCSpec
CONSTANTS
  Descriptions <- MCEmbedded
  Embedded <- MCEmbedded
  DATA_FORMAT <- MCDataFormat
  DescriptorSlots = 3
  Capacity = 6
  STAGE_FRAMES = 2
  CHUNK_SAMPLES = 3
  Faults = FALSE
INVARIANT UnderrunIsCounted
CHECK_DEADLOCK FALSE
