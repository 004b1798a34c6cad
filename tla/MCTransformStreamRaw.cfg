\* Is a whole stream ever refused as truncated?
SPECIFICATION Spec
CONSTANTS
  Streams <- MCStreams
  MCLength = 2
  MCYield = 2
  MaxChunk = 2
  MaxLimit = 3
  MaxSize = 0
INVARIANTS OnlyCutIsTruncated
CHECK_DEADLOCK FALSE
