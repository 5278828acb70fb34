SPECIFICATION Spec
CONSTANTS
  Sizes <- MCSizes
  Messages = 2
  SizeMax = 129
  UintSpan = 256
INVARIANTS DigestExact BufferBounded
CHECK_DEADLOCK FALSE
