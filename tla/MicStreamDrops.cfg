CONSTANTS
  Magic <- MCMagic
  Payloads <- MCPayloads
  MaxPayload = 4
  SeqModulus = 8
  PipeSize = 2
  MaxFrames = 5
SPECIFICATION Spec
INVARIANTS DropsAreTheFirmwares
CHECK_DEADLOCK FALSE
