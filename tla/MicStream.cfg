CONSTANTS
  Magic <- MCMagic
  Payloads <- MCMagicPayloads
  MaxPayload = 4
  SeqModulus = 2
  PipeSize = 2
  MaxFrames = 5
SPECIFICATION FairSpec
INVARIANTS YieldsAreGenuineOrSpliced GapsAreCounted
PROPERTY WholeFramesArrive
CHECK_DEADLOCK FALSE
