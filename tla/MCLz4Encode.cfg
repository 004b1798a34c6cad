\* Every block of up to 11 bytes of two values, with the format's sizes scaled down.
SPECIFICATION FairSpec
CONSTANTS
  Byte = {0, 1}
  MaxLen = 11
  Inputs <- MCInputs
  MinMatch = 2
  LastMatch = 5
  LastLiterals = 2
  MaxOffset = 4
  Nibble = 2
  Continue = 2
INVARIANT RoundTrip
PROPERTY EncoderEnds
CHECK_DEADLOCK FALSE
