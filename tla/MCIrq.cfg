CONSTANTS
  Idle = t0
  Tasks = {t1, t2}
  SERIAL_BUFF_SIZE = 2
  Fifo = 2
SPECIFICATION Spec
INVARIANTS
  IrqTypeOK
  ClockNeverMasked
PROPERTIES
  NothingOverwritten
  IrqDelivered
