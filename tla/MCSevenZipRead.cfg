\* Every graph of an encoded header; all headers of two folders.
SPECIFICATION ReadSpec
CONSTANTS
  MaxFolders = 2
  OutSize = 2
  MCStreams = 3
  MaxDepth = 2
  Headers <- MCHeaders
  HeaderCoders <- MCHeaderCoders
  FolderCoders <- MCFolderCoders
INVARIANTS OwnBytes OnlyOwnFailure Solved SoundFoldersDecode
PROPERTY DecodeEnds
CHECK_DEADLOCK FALSE
