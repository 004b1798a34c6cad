\* The research side: streams, commands, AV01 and NR01, one at a time.
SPECIFICATION AnySpec
CONSTANTS
  Streams <- MCStreams
  MCLength = 3
  MCYield = 2
  MaxChunk = 2
  MaxLimit = 3
  MaxSize = 3
  Byte = 32
  PhraseCap = 3
  AvCases <- MCAvCases
  AvNoise = {0, 2, 15, 17, 31}
  MaxSide = 4
  MaxTotal = 70
  VarintBytes = 3
  Level = 16
  NrCases <- MCNrCases
  Proc = {p1, p2}
  Inputs <- MCInputs
  Base <- MCBase
  NoKey = 0
  Strides = {1, 2}
  DefaultLimit = 3
  Ceiling = 4
  Jobs <- MCJobs
  MaxCommands = 3
INVARIANTS Complete RefusedForCause AvRoundTrip AvHeaderKept NrPartition NrRoundTrip CmdUndone
PROPERTY CmdExclusive
SYMMETRY Symm
CHECK_DEADLOCK FALSE
