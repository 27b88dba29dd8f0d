CONSTANTS
  Task = {t1, t2, t3}
  NPages = 2
  Value = {x, y}
  Bits = 1
  Words = 6
  KPages = 5
  Buffers = {2}
  Sharable = {1}
  ShareAny = TRUE
  NoFrame = NoFrame
  Forgotten = Forgotten
SPECIFICATION SpecShort
INVARIANT NoneFreedInUse
CHECK_DEADLOCK FALSE
