CONSTANTS
  MaxPid = 4
  Quantum = 1
  Sem = {s1, s2}
  MaxVl = 2
SPECIFICATION Spec
INVARIANTS
  KernelTypeOK
  PidsAccounted
  QueuesExact
  CountersExact
  CurrentIsAlive
PROPERTIES
  ImplementsSemaphores
  WaitersWoken
CHECK_DEADLOCK FALSE
