CONSTANTS
  Item = {a, b}
  Junk = junk
  Writers = {w}
  Readers = {r}
  ByteSizes <- MCByteSizes
  MaxBatch = 3
  Nobody = nobody

SPECIFICATION FairSpec

INVARIANTS
  NoJunkRead

PROPERTIES
  ImplementsQueue
  CallsReturn
