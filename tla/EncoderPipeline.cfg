SPECIFICATION LiveSpec
CONSTANTS
  Sizes = {1, 2}
  Pids = {pat, video}
  Modulus = 3
  EncoderDepth = 2
  DrainLimit = 2
  PacketLimit = 2
  MaxStamp = 3
INVARIANTS
  EnforcedPacketsOrdered
  EnforcedPacketsAdvance
  ContinuityKept
PROPERTIES
  EncodeReturns
CHECK_DEADLOCK FALSE
