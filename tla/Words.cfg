CONSTANTS
  s5A = s5A
  s0F = s0F
  sBE = sBE
  s66 = s66
  other = other
  Byte <- MCByte
  SyncWord <- MCSyncWord
  BlockBytes = 8
  SyncMaxCount = 12
  WordLengths = {8, 10, 11, 12, 13, 14, 15, 16}
  Scales = {8192}
  Parts <- MCParts

SPECIFICATION WordsSpec

INVARIANTS
  StorageFits
  FrameEndsOnWord
  WordsWhole
  LockedOnSync
  MissesOnlyBrokenMatch
  RadioKeepsSample
  FirKeepsSample

PROPERTIES
  FrameEnds
