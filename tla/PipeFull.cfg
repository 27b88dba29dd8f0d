CONSTANTS
  Readers = {r1}
  Writers = {w1}
  Size = 2
  ReadSizes = {1, 3}
  WriteSizes = {1, 3}
  MayClose = FALSE
  MaxVl = 2
  Modulus = 5
  None = None
SPECIFICATION Spec
INVARIANT FitsInBuffer
CHECK_DEADLOCK FALSE
