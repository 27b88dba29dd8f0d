CONSTANTS
  Task = {t1, t2, t3}
  NPages = 2
  Value = {x, y}
  Bits = 1
  Words = 6
  KPages = 9
  Buffers = {2}
  Sharable = {1}
  ShareAny = FALSE
  NoFrame = NoFrame
  Forgotten = Forgotten
SPECIFICATION Spec
SYMMETRY Symmetry
INVARIANTS
  MmTypeOK
  FramesExact
  WritableAlone
PROPERTIES
  ImplementsAddressSpaces
CHECK_DEADLOCK FALSE
