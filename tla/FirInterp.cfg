CONSTANTS
  Decimation = 1
  Interpolation = 2
  SyncBase = TRUE
  ArrayItems = 2
  ResetItems = 2
  Taps = 3
  Descriptors = {3, 4}
  NoFd = NoFd
  MaxItems = 4
  MaxFailures = 1
  MaxBlocks = 1
  MaxStarts = 1

SPECIFICATION Spec

INVARIANTS
  AnswerFits
