SPECIFICATION FairMCSpec
CONSTANTS
  Descriptions <- MCDescriptions
  Embedded <- MCEmbedded
  DATA_FORMAT <- MCDataFormat
  DescriptorSlots = 3
  Capacity = 12
  STAGE_FRAMES = 2
  CHUNK_SAMPLES = 3
  Faults = TRUE
INVARIANTS PlayedInOrder TailIsHeard ReadsWhatIsThere
PROPERTY ClipsEnd
CHECK_DEADLOCK FALSE
