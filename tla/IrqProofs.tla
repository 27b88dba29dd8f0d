----------------------------- MODULE IrqProofs -----------------------------
(***************************************************************************)
(* Proofs, for every set of tasks, every size of the receive ring and of   *)
(* the UART, that the clock's line is never left in service and that the   *)
(* serial handler overwrites nothing.                                      *)
(***************************************************************************)
EXTENDS Irq, TLAPS

IrqInv == IrqTypeOK /\ ClockNeverMasked

(* An end of interrupt never leaves line 0 in service: it is the highest.  *)
LEMMA EOIClearsClock ==
  ASSUME NEW S \in SUBSET Lines
  PROVE  EOI(S) \subseteq S /\ 0 \notin EOI(S)
BY DEF EOI, Lines

(* Indices of the ring stay in the ring.                                   *)
LEMMA IndexInRing ==
  ASSUME NEW i \in Nat, NEW n \in Nat
  PROVE  Next1(i, n) \in 0 .. SERIAL_BUFF_SIZE - 1
BY SerialAssumption, SMT DEF Next1

(* The bytes the ring holds, by cases instead of by remainder.             *)
LEMMA HeldByCases ==
  ASSUME IrqTypeOK
  PROVE  /\ Held \in 0 .. SERIAL_BUFF_SIZE - 1
         /\ Held = IF serial_buf_end >= serial_buf_pos
                   THEN serial_buf_end - serial_buf_pos
                   ELSE serial_buf_end - serial_buf_pos + SERIAL_BUFF_SIZE
BY SerialAssumption, SMT DEF Held, IrqTypeOK

(* The index that follows another, by cases. *)
LEMMA NextByCases ==
  ASSUME NEW i \in 0 .. SERIAL_BUFF_SIZE - 1, NEW n \in 0 .. SERIAL_BUFF_SIZE - 1
  PROVE  Next1(i, n) = IF i + n < SERIAL_BUFF_SIZE THEN i + n ELSE i + n - SERIAL_BUFF_SIZE
BY SerialAssumption, SMT DEF Next1

(* Handing the CPU over, with an end of interrupt if one is owed, leaves   *)
(* the clock out of service when it was not in it.                         *)
LEMMA SwitchKeepsClock ==
  ASSUME IrqTypeOK, NEW u \in Pid, NEW S \in SUBSET Lines, 0 \notin S,
         NEW owing \in SUBSET Pid, SwitchTo(u, S, owing)
  PROVE  cur' \in Pid /\ isr' \subseteq Lines /\ 0 \notin isr' /\ owes' \subseteq Pid
BY EOIClearsClock DEF SwitchTo

(* Who gets the CPU next is a pid.                                         *)
LEMMA ScheduledIsPid ==
  ASSUME NEW u, Scheduled(u)
  PROVE  u \in Pid
BY DEF Scheduled, Ready, Pid

(* Every action keeps types, and keeps the clock out of service.  Here the *)
(* clock handler, with its two ends of interrupt.                          *)
LEMMA TimerKeeps ==
  ASSUME IrqInv, NEW u \in Pid, isr_timerTick_c(u)
  PROVE  IrqInv'
<1> USE DEF IrqInv
<1>1. InService(0) \in SUBSET Lines /\ 0 \in Lines
  BY DEF InService, IrqTypeOK, Lines
<1>2. EOI(InService(0)) \in SUBSET Lines /\ 0 \notin EOI(InService(0))
  BY <1>1, EOIClearsClock
<1>3. cur' \in Pid /\ isr' \subseteq Lines /\ 0 \notin isr' /\ owes' \subseteq Pid
  <2>1. CASE u = cur
    BY <2>1, <1>2, EOIClearsClock DEF isr_timerTick_c, IrqTypeOK
  <2>2. CASE u # cur
    <3>1. SwitchTo(u, EOI(InService(0)), owes \cup {cur})
      BY <2>2 DEF isr_timerTick_c
    <3>2. owes \cup {cur} \in SUBSET Pid
      BY DEF IrqTypeOK
    <3> QED BY <3>1, <3>2, <1>2, SwitchKeepsClock
  <2> QED BY <2>1, <2>2
<1>4. irr' \subseteq Lines /\ UNCHANGED <<waits, command, serialVars>>
  BY DEF isr_timerTick_c, Accepts, IrqTypeOK
<1> QED BY <1>3, <1>4 DEF IrqTypeOK, ClockNeverMasked, serialVars

(* A handler that wakes a task, from idle with a switch. *)
LEMMA WakeKeeps ==
  ASSUME IrqInv, NEW n \in {1, 6}, NEW t \in Tasks, Wake(n, t)
  PROVE  /\ cur' \in Pid /\ isr' \subseteq Lines /\ 0 \notin isr' /\ owes' \subseteq Pid
         /\ waits' \in [Tasks -> {-1, 1, 6}]
<1> USE DEF IrqInv
<1>1. InService(n) \in SUBSET Lines /\ 0 \notin InService(n)
  BY DEF InService, IrqTypeOK, Lines, ClockNeverMasked
<1>2. waits' \in [Tasks -> {-1, 1, 6}]
  BY DEF Wake, IrqTypeOK
<1>3. CASE cur = Idle
  <2>1. SwitchTo(t, InService(n), owes \cup {Idle})
    BY <1>3 DEF Wake
  <2>2. owes \cup {Idle} \in SUBSET Pid /\ t \in Pid
    BY DEF IrqTypeOK, Pid
  <2> QED BY <2>1, <2>2, <1>1, <1>2, SwitchKeepsClock
<1>4. CASE cur # Idle
  BY <1>4, <1>1, <1>2, EOIClearsClock DEF Wake, IrqTypeOK
<1> QED BY <1>3, <1>4

(* The keyboard handler. *)
LEMMA KeyboardKeeps ==
  ASSUME IrqInv, isr_keyboard_c
  PROVE  IrqInv'
<1>1. /\ cur' \in Pid /\ isr' \subseteq Lines /\ 0 \notin isr' /\ owes' \subseteq Pid
      /\ waits' \in [Tasks -> {-1, 1, 6}]
  <2>1. CASE \E t \in Tasks : Wake(1, t)
    BY <2>1, WakeKeeps
  <2>2. CASE isr' = EOI(InService(1)) /\ UNCHANGED <<cur, owes, waits>>
    <3>1. InService(1) \in SUBSET Lines
      BY DEF InService, IrqInv, IrqTypeOK, Lines
    <3> QED BY <2>2, <3>1, EOIClearsClock DEF IrqInv, IrqTypeOK
  <2> QED BY <2>1, <2>2 DEF isr_keyboard_c
<1>2. irr' \subseteq Lines /\ UNCHANGED <<command, serialVars>>
  BY DEF isr_keyboard_c, Accepts, IrqInv, IrqTypeOK
<1> QED BY <1>1, <1>2 DEF IrqInv, IrqTypeOK, ClockNeverMasked, serialVars

(* The floppy handler. *)
LEMMA FloppyKeeps ==
  ASSUME IrqInv, isr_fdd_c
  PROVE  IrqInv'
<1>1. /\ cur' \in Pid /\ isr' \subseteq Lines /\ 0 \notin isr' /\ owes' \subseteq Pid
      /\ waits' \in [Tasks -> {-1, 1, 6}]
  BY WakeKeeps DEF isr_fdd_c
<1>2. irr' \subseteq Lines /\ UNCHANGED <<command, serialVars>>
  BY DEF isr_fdd_c, Accepts, IrqInv, IrqTypeOK
<1> QED BY <1>1, <1>2 DEF IrqInv, IrqTypeOK, ClockNeverMasked, serialVars

(* The bytes the handler takes: no more than the UART has, no more than    *)
(* the ring has room for.                                                  *)
LEMMA DrainMoves ==
  ASSUME IrqTypeOK, Drain
  PROVE  /\ serial_buf_end' \in 0 .. SERIAL_BUFF_SIZE - 1
         /\ fifo' \in 0 .. Fifo /\ level' \in BOOLEAN
         /\ serial_buf_pos' = serial_buf_pos
         /\ Held' - Held = fifo - fifo'
<1> DEFINE room  == SERIAL_BUFF_SIZE - 1 - Held
           taken == IF fifo < room THEN fifo ELSE room
<1>1. /\ serial_buf_end' = Next1(serial_buf_end, taken) /\ fifo' = fifo - taken
      /\ level' = (level /\ taken = 0) /\ serial_buf_pos' = serial_buf_pos
  BY DEF Drain
<1>2. /\ SERIAL_BUFF_SIZE \in Nat /\ fifo \in 0 .. Fifo /\ Fifo \in Nat
      /\ serial_buf_end \in 0 .. SERIAL_BUFF_SIZE - 1
      /\ serial_buf_pos \in 0 .. SERIAL_BUFF_SIZE - 1 /\ level \in BOOLEAN
  BY SerialAssumption DEF IrqTypeOK
<1>3. /\ Held \in 0 .. SERIAL_BUFF_SIZE - 1
      /\ Held = IF serial_buf_end >= serial_buf_pos
                THEN serial_buf_end - serial_buf_pos
                ELSE serial_buf_end - serial_buf_pos + SERIAL_BUFF_SIZE
  BY HeldByCases
<1>4. taken \in 0 .. SERIAL_BUFF_SIZE - 1 /\ taken <= fifo /\ taken <= SERIAL_BUFF_SIZE - 1 - Held
  BY <1>2, <1>3
<1>5. serial_buf_end' = IF serial_buf_end + taken < SERIAL_BUFF_SIZE
                        THEN serial_buf_end + taken
                        ELSE serial_buf_end + taken - SERIAL_BUFF_SIZE
  BY <1>1, <1>2, <1>4, NextByCases
<1>6. Held' = (serial_buf_end' - serial_buf_pos) % SERIAL_BUFF_SIZE
  BY <1>1 DEF Held
<1> HIDE DEF taken, room
<1>7. /\ serial_buf_end' \in 0 .. SERIAL_BUFF_SIZE - 1
      /\ fifo' \in 0 .. Fifo /\ level' \in BOOLEAN
  BY <1>1, <1>2, <1>4, <1>5
<1>8. Held' = IF serial_buf_end' >= serial_buf_pos
              THEN serial_buf_end' - serial_buf_pos
              ELSE serial_buf_end' - serial_buf_pos + SERIAL_BUFF_SIZE
  BY <1>2, <1>6, <1>7, SMT
<1>9. Held' = Held + taken
  BY <1>2, <1>3, <1>4, <1>5, <1>8, SMT
<1> QED BY <1>1, <1>2, <1>3, <1>4, <1>7, <1>9

(* The handler of the serial port. *)
LEMMA SerialKeeps ==
  ASSUME IrqInv, isr_serial_c
  PROVE  IrqInv' /\ Held' - Held = fifo - fifo'
<1> USE DEF IrqInv
<1>1. InService(4) \in SUBSET Lines /\ 0 \notin InService(4)
  BY DEF InService, IrqTypeOK, Lines, ClockNeverMasked
<1>2. irr' \subseteq Lines /\ UNCHANGED <<cur, waits, owes, command>>
  BY DEF isr_serial_c, Accepts, IrqTypeOK
<1>3. CASE Full
  <2>1. isr' = InService(4) /\ UNCHANGED serialVars
    BY <1>3 DEF isr_serial_c
  <2>2. Held' = Held /\ Held \in Int /\ fifo' = fifo /\ fifo \in Int
    BY <2>1, HeldByCases DEF serialVars, Held, IrqTypeOK
  <2> QED BY <2>1, <2>2, <1>1, <1>2 DEF IrqTypeOK, ClockNeverMasked, serialVars
<1>4. CASE ~Full
  <2>1. isr' = EOI(InService(4)) /\ Drain
    BY <1>4 DEF isr_serial_c
  <2>2. isr' \subseteq Lines /\ 0 \notin isr'
    BY <2>1, <1>1, EOIClearsClock
  <2>3. /\ serial_buf_end' \in 0 .. SERIAL_BUFF_SIZE - 1
        /\ fifo' \in 0 .. Fifo /\ level' \in BOOLEAN
        /\ serial_buf_pos' = serial_buf_pos
        /\ Held' - Held = fifo - fifo'
    BY <2>1, DrainMoves
  <2> QED BY <2>2, <2>3, <1>2 DEF IrqTypeOK, ClockNeverMasked
<1> QED BY <1>3, <1>4

(* A task gives the CPU up in a system call. *)
LEMMA BlockKeeps ==
  ASSUME IrqInv, NEW n \in {1, 6}, Block(n)
  PROVE  IrqInv'
<1> USE DEF IrqInv
<1>1. PICK u \in IF Ready = {cur} THEN {Idle} ELSE Ready \ {cur} : SwitchTo(u, isr, owes)
  BY DEF Block
<1>2. u \in Pid /\ cur \in Tasks
  BY DEF Ready, Pid, Block, IrqTypeOK
<1>3. cur' \in Pid /\ isr' \subseteq Lines /\ 0 \notin isr' /\ owes' \subseteq Pid
  BY <1>1, <1>2, SwitchKeepsClock DEF IrqTypeOK, ClockNeverMasked
<1>4. waits' \in [Tasks -> {-1, 1, 6}] /\ command' \in BOOLEAN
  BY <1>2 DEF Block, IrqTypeOK
<1>5. UNCHANGED <<irr, serialVars>>
  BY DEF Block
<1> QED BY <1>3, <1>4, <1>5 DEF IrqTypeOK, ClockNeverMasked, serialVars

(* The calls on the serial port. *)
LEMMA CallKeeps ==
  ASSUME IrqInv, SerialRead \/ SerialOpen \/ Arrives
  PROVE  IrqInv'
<1> USE DEF IrqInv
<1>1. CASE SerialRead
  <2>1. PICK n \in 1 .. SERIAL_BUFF_SIZE : serial_buf_pos' = Next1(serial_buf_pos, n)
    BY <1>1 DEF SerialRead, serial_read
  <2>2. serial_buf_pos' \in 0 .. SERIAL_BUFF_SIZE - 1
    BY <2>1, IndexInRing, SerialAssumption DEF IrqTypeOK
  <2> QED BY <1>1, <2>2 DEF SerialRead, serial_read, irqVars, IrqTypeOK, ClockNeverMasked
<1>2. CASE SerialOpen
  <2>1. fifo' = 0 /\ level' = FALSE /\ UNCHANGED <<serial_buf_pos, serial_buf_end, irqVars>>
    BY <1>2 DEF SerialOpen, serial_open, configure_serial_port
  <2>2. fifo' \in 0 .. Fifo
    BY <2>1, SerialAssumption
  <2>3. level' \in BOOLEAN
    BY <2>1
  <2> QED BY <2>1, <2>2, <2>3 DEF irqVars, IrqTypeOK, ClockNeverMasked
<1>3. CASE Arrives
  BY <1>3, SerialAssumption DEF Arrives, ByteArrives, irqVars, IrqTypeOK, ClockNeverMasked
<1> QED BY <1>1, <1>2, <1>3

(* A device asks for an interrupt. *)
LEMMA RaiseKeeps ==
  ASSUME IrqInv, NEW S \in SUBSET Lines, Raise(S)
  PROVE  IrqInv'
BY DEF IrqInv, Raise, IrqTypeOK, ClockNeverMasked

----------------------------------------------------------------------------
(* The invariant is inductive.                                             *)
LEMMA IrqInvInductive ==
  /\ Init => IrqInv
  /\ IrqInv /\ [Next]_vars => IrqInv'
<1>1. Init => IrqInv
  <2> SUFFICES ASSUME Init PROVE IrqInv
    OBVIOUS
  <2>1. command \in BOOLEAN /\ level \in BOOLEAN
    BY DEF Init, serial_init
  <2>2. waits \in [Tasks -> {-1, 1, 6}]
    BY DEF Init
  <2>3. /\ serial_buf_pos \in 0 .. SERIAL_BUFF_SIZE - 1
        /\ serial_buf_end \in 0 .. SERIAL_BUFF_SIZE - 1
        /\ fifo \in 0 .. Fifo
    BY SerialAssumption DEF Init, serial_init
  <2> QED BY <2>1, <2>2, <2>3 DEF Init, IrqInv, IrqTypeOK, ClockNeverMasked, Pid
<1>2. ASSUME IrqInv, Next PROVE IrqInv'
  <2>1. CASE \E u \in Pid : isr_timerTick_c(u)
    BY <1>2, <2>1, TimerKeeps
  <2>2. CASE isr_keyboard_c
    BY <1>2, <2>2, KeyboardKeeps
  <2>3. CASE isr_fdd_c
    BY <1>2, <2>3, FloppyKeeps
  <2>4. CASE isr_serial_c
    BY <1>2, <2>4, SerialKeeps
  <2>5. CASE Block(1) \/ Block(6)
    BY <1>2, <2>5, BlockKeeps
  <2>6. CASE SerialRead \/ SerialOpen \/ Arrives
    BY <1>2, <2>6, CallKeeps
  <2>7. CASE \E S \in SUBSET Lines \ {{}} : Raise(S)
    BY <1>2, <2>7, RaiseKeeps
  <2> QED BY <1>2, <2>1, <2>2, <2>3, <2>4, <2>5, <2>6, <2>7 DEF Next
<1>3. ASSUME IrqInv, UNCHANGED vars PROVE IrqInv'
  BY <1>3 DEF IrqInv, IrqTypeOK, ClockNeverMasked, vars, irqVars, serialVars
<1> QED BY <1>1, <1>2, <1>3

(* Type correctness: requests, lines in service, owed ends of interrupt    *)
(* and the two indices of the ring stay within their ranges.               *)
THEOREM IrqTypeCorrect == Spec => []IrqTypeOK
<1>1. IrqInv => IrqTypeOK
  BY DEF IrqInv
<1> QED BY IrqInvInductive, <1>1, PTL DEF Spec

(* The clock's line is never left in service, however many tasks left the  *)
(* CPU inside a handler and owe an end of interrupt.                       *)
THEOREM IrqClockNeverMasked == Spec => []ClockNeverMasked
<1>1. IrqInv => ClockNeverMasked
  BY DEF IrqInv
<1> QED BY IrqInvInductive, <1>1, PTL DEF Spec

(* Each byte the handler takes out of the UART is one more in the ring:    *)
(* none of those that wait to be read is overwritten.                      *)
THEOREM IrqNothingOverwritten == Spec => NothingOverwritten
<1>1. IrqInv /\ [Next]_vars => [isr_serial_c => Held' - Held = fifo - fifo']_vars
  BY SerialKeeps
<1> QED BY IrqInvInductive, <1>1, PTL DEF Spec, NothingOverwritten
=============================================================================
