CONSTANTS
  Readers = {r1, r2}
  Writers = {w1}
  Size = 2
  ReadSizes = {1, 3}
  WriteSizes = {1, 3}
  MayClose = TRUE
  MaxVl = 2
  Modulus = 5
  None = None
SPECIFICATION FairSpec
INVARIANTS
  PipeTypeOK
  CriticalSection
  UnreadInOrder
  SleepersFlagged
PROPERTY CallsReturn
CHECK_DEADLOCK FALSE
