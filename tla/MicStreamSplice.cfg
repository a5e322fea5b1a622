CONSTANTS
  Magic <- MCMagic
  Payloads <- MCHeaderPayloads
  MaxPayload = 4
  SeqModulus = 8
  PipeSize = 2
  MaxFrames = 4
SPECIFICATION Spec
INVARIANTS YieldsAreGenuineOrSpliced YieldsAreGenuine
CHECK_DEADLOCK FALSE
