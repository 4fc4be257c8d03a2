SPECIFICATION Spec
CONSTANTS
  Item = {a, b}
  Junk = junk
  Types = {"uint8", "complex"}
  ByteSizes <- MCSizes
  Readers = {"fifo_read", "fifo_read_2", "fifo_read_3"}
  MaxWrite = 2
  MaxRead = 4
  UintBound = 64
SYMMETRY MCSymmetry
INVARIANTS
  ContentsAreQueue
  ReadsOldest
  CutShortOnlyAtLimit
