CONSTANTS
  Boot = t0
  Tasks = {t1, t2}
  None = None
  Cylinders = 2
  Heads = 2
  SectPerTrack = 2
  Positions = {1, 2}
  Counts = {1, 2}
  Timeout = 3
  MaxVl = 2
SPECIFICATION Spec
INVARIANTS
  FddTypeOK
  SectionExclusive
  BootNeverBlocks
  ReadsRight
PROPERTIES
  CallsReturn
CHECK_DEADLOCK FALSE
