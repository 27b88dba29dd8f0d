------------------------------- MODULE Serial -------------------------------
(* The receiving side of the serial port (kernel/serial.c): the ring that  *)
(* the interrupt handler fills and serial_read empties.  Both run with     *)
(* interrupts off, so each is one action.  The bytes themselves are left   *)
(* out: only where they are counts.                                        *)
(*                                                                         *)
(* External: the UART.  It raises its line when it holds bytes and drops   *)
(* it when the handler reads one; the interrupt controller sees the edge.  *)
EXTENDS Integers, FiniteSets

CONSTANTS
  SERIAL_BUFF_SIZE,
  Fifo              \* bytes the UART holds

ASSUME SerialAssumption ==
  SERIAL_BUFF_SIZE \in Nat /\ SERIAL_BUFF_SIZE > 1 /\ Fifo \in Nat \ {0}

VARIABLES
  serial_buf_pos, serial_buf_end,  \* next cell to read, next cell to fill
  fifo,                            \* bytes in the UART
  level                            \* its interrupt line is up

serialVars == <<serial_buf_pos, serial_buf_end, fifo, level>>

Next1(i, n) == (i + n) % SERIAL_BUFF_SIZE

(* Cells from the read to the fill index: the bytes the ring holds.        *)
Held == (serial_buf_end - serial_buf_pos) % SERIAL_BUFF_SIZE
Full == Next1(serial_buf_end, 1) = serial_buf_pos

(* serial_init writes an 'H' at 0 and advances the wrong index: the ring   *)
(* counts as full.                                                         *)
serial_init == serial_buf_end = 0 /\ serial_buf_pos = 1 /\ fifo = 0 /\ level = FALSE

(* configure_serial_port clears the UART.                                  *)
configure_serial_port == fifo' = 0 /\ level' = FALSE

serial_open == configure_serial_port /\ UNCHANGED <<serial_buf_pos, serial_buf_end>>

ByteArrives ==
  /\ fifo < Fifo
  /\ fifo' = fifo + 1
  /\ UNCHANGED <<serial_buf_pos, serial_buf_end, level>>

(* The loop of isr_serial_c.  Mutant: it goes on when the ring is full.    *)
DrainAll ==
  /\ serial_buf_end' = Next1(serial_buf_end, fifo)
  /\ fifo' = 0 /\ level' = FALSE
  /\ UNCHANGED serial_buf_pos

Drain ==
  LET room  == SERIAL_BUFF_SIZE - 1 - Held
      taken == IF fifo < room THEN fifo ELSE room
  IN  /\ serial_buf_end' = Next1(serial_buf_end, taken)
      /\ fifo' = fifo - taken
      /\ level' = (level /\ taken = 0)
      /\ UNCHANGED serial_buf_pos

(* Mutant: the index is not taken modulo the size.                         *)
serial_read_straight ==
  /\ \E n \in 1 .. SERIAL_BUFF_SIZE : serial_buf_pos' = serial_buf_pos + n
  /\ UNCHANGED <<serial_buf_end, fifo, level>>

(* serial_read: the counter i is never initialised, so the loop ends after *)
(* any number of bytes up to size + 1 (i may start at -1), or where pos    *)
(* meets end; from an empty ring it reads on, through cells that hold none.*)
serial_read ==
  /\ \E size \in 1 .. SERIAL_BUFF_SIZE, n \in 1 .. SERIAL_BUFF_SIZE :
       /\ n <= size + 1 /\ (Held # 0 => n <= Held)
       /\ serial_buf_pos' = Next1(serial_buf_pos, n)
  /\ UNCHANGED <<serial_buf_end, fifo, level>>
=============================================================================
