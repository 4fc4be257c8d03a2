CONSTANTS
  Capacity = 3
  BlockItems = 2
  OutputMultiple = 1
  Descriptors = {3, 4}
  NoFd = NoFd
  MaxItems = 1
  MaxBlocks = 1
  MaxStarts = 1

SPECIFICATION FairSpec

PROPERTIES
  ClosesOwnDevice
