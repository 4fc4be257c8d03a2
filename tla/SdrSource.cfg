CONSTANTS
  Capacity = 2
  BlockWords = 2
  OutputMultiple = 1
  MaxOutput = 2
  DummyReads = 2
  Descriptors = {3}
  NoFd = NoFd
  MaxWords = 4
  MaxBlocks = 2
  MaxStarts = 2

SPECIFICATION FairSpec

INVARIANTS
  StreamConserved
  ReadsOwnDevice
  ThreadEndsFirst

PROPERTIES
  DropsNewest
  ClosesOwnDevice
  StopReturns
  Delivered
