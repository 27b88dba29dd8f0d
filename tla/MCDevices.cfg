CONSTANTS
  Task = {t1, t2, t3}
  MAX_FD = 2
  Page = {p1, p2}
  Modulus = 8
  None = None
  cpuid_dev = cpuid_dev
  PartialPipes = FALSE
SPECIFICATION Spec
SYMMETRY Symmetry
INVARIANTS
  RefsCounted
  PagesExact
  StartsClosed
CHECK_DEADLOCK FALSE
