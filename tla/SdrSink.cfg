CONSTANTS
  Capacity = 3
  BlockItems = 2
  OutputMultiple = 1
  Descriptors = {3, 4}
  NoFd = NoFd
  MaxItems = 4
  MaxBlocks = 2
  MaxStarts = 2

SPECIFICATION FairSpec

INVARIANTS
  StreamConserved
  WritesOwnDevice
  ThreadEndsFirst

PROPERTIES
  StopReturns
  Delivered
