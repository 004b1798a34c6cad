\* Two frames of up to three blocks through a window shorter than the output.
SPECIFICATION Spec
CONSTANTS
  Byte = {"a", "b"}
  Dictionaries <- MCDictionaries
  Window = 2
  MaxOffset = 2
  MinMatch = 1
  BlockMaxes = {2, 3}
  LegacyMax = 3
  MaxOutput = 4
  MaxFrames = 2
  MaxBlocks = 3
  MaxRun = 2
  MaxMatch = 3
INVARIANTS WithinBudget
PROPERTIES ImplementsStream
CHECK_DEADLOCK FALSE
