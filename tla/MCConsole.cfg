CONSTANTS
  Task = {t1, t2}
  Console = {e, c1, c2}
  empty_console = e
  Null = Null
  Size = 2
  Byte = 5
  ReadSizes = {1, 2, 3}
  SharedReads = FALSE
  Modulus = 3
SPECIFICATION Spec
SYMMETRY Symmetry
INVARIANTS
  ConsoleTypeOK
  AllReachable
  HoldersCounted
  KeysInOrder
  WokenWhenEnough
CHECK_DEADLOCK FALSE
