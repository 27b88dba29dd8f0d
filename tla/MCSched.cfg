CONSTANTS
  MaxPid = 5
  Quantum = 2
SPECIFICATION SchedFairSpec
INVARIANTS
  TypeOK
  RingOK
  NoTaskLost
  CurrentOK
PROPERTIES
  OrderKept
  RoundRobin
