SPECIFICATION Spec
CONSTANTS
  Debug = TRUE
  FileLen = 4
  BlockSize = 2
  BufSize = 3
  SpanSize = 4
  Targets <- MCTargets
  NoSeek = NoSeek
  MaxOps = 2
  MaxFaults = 0
INVARIANT NeverFatal
CHECK_DEADLOCK FALSE
