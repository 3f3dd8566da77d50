SPECIFICATION FairSpec
CONSTANTS
  Debug = FALSE
  FileLen = 5
  BlockSize = 2
  BufSize = 5
  SpanSize = 4
  Targets <- MCTargets
  NoSeek = NoSeek
  MaxOps = 3
  MaxFaults = 1
INVARIANTS
  MainOwnsBuffer
  ObjectOutlivesThread
  RestartNeverRefused
  WriteInOrder
PROPERTIES
  CallsReturn
  PlaybackEnds
CHECK_DEADLOCK FALSE
