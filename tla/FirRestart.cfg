CONSTANTS
  Decimation = 1
  Interpolation = 1
  SyncBase = FALSE
  ArrayItems = 2
  ResetItems = 2
  Taps = 3
  Descriptors = {3, 4}
  NoFd = NoFd
  MaxItems = 4
  MaxFailures = 0
  MaxBlocks = 1
  MaxStarts = 2

SPECIFICATION Spec

INVARIANTS
  UsesOwnDevices
