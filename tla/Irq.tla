-------------------------------- MODULE Irq --------------------------------
(* The interrupt lines in use, the handlers behind them, and the switches  *)
(* of task they cause: the clock (0), the keyboard (1), the serial port    *)
(* (4) and the floppy (6).  A gate clears IF and each handler restores it  *)
(* only when it returns, so a handler is one action up to the point where  *)
(* it hands the CPU to another task; what it has left to do then, one end  *)
(* of interrupt, is owed until that task gets the CPU back.                *)
(*                                                                         *)
(* External: the 8259.  irr are the lines that ask, isr those in service;  *)
(* it accepts the highest request above all that is in service, and an end *)
(* of interrupt clears the highest line in service, whichever it belongs   *)
(* to.  The second 8259 has no line in use.                                *)
EXTENDS Serial

CONSTANTS Idle, Tasks

ASSUME IrqAssumption == Idle \notin Tasks

Pid   == Tasks \cup {Idle}
Lines == {0, 1, 4, 6}

VARIABLES
  irr, isr,     \* requests; lines in service
  cur,          \* who has the CPU
  waits,        \* the line each task waits for, -1 when it is runnable
  owes,         \* who left the CPU in a handler that has an EOI to send
  command       \* the floppy controller executes a command

irqVars == <<irr, isr, cur, waits, owes, command>>
vars    == <<irqVars, serialVars>>

Ready == {t \in Tasks : waits[t] = -1}

Init ==
  /\ irr = {} /\ isr = {} /\ cur = Idle
  /\ waits = [t \in Tasks |-> -1]
  /\ owes = {} /\ command = FALSE
  /\ serial_init

(* outb(0x20, 0x20) *)
EOI(S) == {m \in S : \E n \in S : n < m}

(* The CPU goes to u, which first sends the EOI it owes.  S is in service. *)
SwitchTo(u, S, owing) ==
  /\ cur' = u
  /\ isr' = IF u \in owing THEN EOI(S) ELSE S
  /\ owes' = owing \ {u}

Accepts(n) ==
  /\ n \in irr
  /\ \A m \in irr : n <= m
  /\ \A m \in isr : n < m
  /\ irr' = irr \ {n}

InService(n) == isr \cup {n}

(* sched_tick may choose any runnable task; the idle task if there is none.*)
Scheduled(u) == u \in IF Ready = {} THEN {Idle} ELSE Ready

(* Mutants: the EOI that comes before loader_tick, or the other one, is    *)
(* not sent.                                                               *)
TimerOneEOI(u) ==
  /\ Scheduled(u) /\ Accepts(0)
  /\ IF u = cur THEN isr' = EOI(InService(0)) /\ UNCHANGED <<cur, owes>>
                ELSE SwitchTo(u, InService(0), owes \cup {cur})
  /\ UNCHANGED <<waits, command, serialVars>>

TimerNoSecondEOI(u) ==
  /\ Scheduled(u) /\ Accepts(0)
  /\ IF u = cur THEN isr' = EOI(InService(0)) /\ UNCHANGED <<cur, owes>>
                ELSE SwitchTo(u, EOI(InService(0)), owes)
  /\ UNCHANGED <<waits, command, serialVars>>

(* isr_timerTick_c: an EOI, loader_tick, which may switch to u, and a      *)
(* second EOI when the task goes on.                                       *)
isr_timerTick_c(u) ==
  /\ Scheduled(u) /\ Accepts(0)
  /\ LET served == EOI(InService(0))
     IN  IF u = cur THEN isr' = EOI(served) /\ UNCHANGED <<cur, owes>>
                    ELSE SwitchTo(u, served, owes \cup {cur})
  /\ UNCHANGED <<waits, command, serialVars>>

(* sem_signal in a handler and the EOI after it.  sched_unblock switches   *)
(* to the task it wakes at once when the idle task has the CPU.            *)
Wake(n, t) ==
  /\ waits[t] = n
  /\ waits' = [waits EXCEPT ![t] = -1]
  /\ IF cur = Idle THEN SwitchTo(t, InService(n), owes \cup {Idle})
                   ELSE isr' = EOI(InService(n)) /\ UNCHANGED <<cur, owes>>

(* isr_keyboard_c: a key that completes what a reader waits for wakes it.  *)
isr_keyboard_c ==
  /\ Accepts(1)
  /\ \/ \E t \in Tasks : Wake(1, t)
     \/ isr' = EOI(InService(1)) /\ UNCHANGED <<cur, owes, waits>>
  /\ UNCHANGED <<command, serialVars>>

isr_fdd_c ==
  /\ Accepts(6)
  /\ \E t \in Tasks : Wake(6, t)
  /\ UNCHANGED <<command, serialVars>>

(* isr_serial_c returns without an EOI when it finds the ring full.        *)
isr_serial_c ==
  /\ Accepts(4)
  /\ IF Full THEN isr' = InService(4) /\ UNCHANGED serialVars
             ELSE isr' = EOI(InService(4)) /\ Drain
  /\ UNCHANGED <<cur, waits, owes, command>>

----------------------------------------------------------------------------
(* Nothing to be taken: a program executes with interrupts on, and what    *)
(* may be taken is taken before its next instruction.                      *)
Quiet == \A n \in irr : \E m \in isr : m <= n

(* A system call that waits for a key (con_read) or for the end of a       *)
(* command (fdd_wait_for_interrupt; fdc_sem admits one at a time).         *)
Block(n) ==
  /\ cur # Idle /\ Quiet
  /\ n = 6 => ~command /\ 6 \notin irr /\ \A t \in Tasks : waits[t] # 6
  /\ waits' = [waits EXCEPT ![cur] = n]
  /\ command' = (command \/ n = 6)
  /\ \E u \in IF Ready = {cur} THEN {Idle} ELSE Ready \ {cur} : SwitchTo(u, isr, owes)
  /\ UNCHANGED <<irr, serialVars>>

SerialRead == cur # Idle /\ Quiet /\ serial_read /\ UNCHANGED irqVars
SerialOpen == cur # Idle /\ Quiet /\ serial_open /\ UNCHANGED irqVars

(* Devices ask, several at a time perhaps, but more slowly than the CPU    *)
(* takes what it may take.                                                 *)
Raise(S) ==
  /\ Quiet
  /\ irr' = irr \cup S
  /\ 4 \in S => fifo > 0 /\ ~level
  /\ level' = (level \/ 4 \in S)
  /\ 6 \in S => command
  /\ command' = (command /\ 6 \notin S)
  /\ UNCHANGED <<isr, cur, waits, owes, serial_buf_pos, serial_buf_end, fifo>>

Arrives == ByteArrives /\ UNCHANGED irqVars

Next ==
  \/ \E u \in Pid : isr_timerTick_c(u)
  \/ isr_keyboard_c \/ isr_fdd_c \/ isr_serial_c
  \/ Block(1) \/ Block(6) \/ SerialRead \/ SerialOpen
  \/ Arrives
  \/ \E S \in SUBSET Lines \ {{}} : Raise(S)

(* The clock ticks, an interrupt that can be taken is taken, and a tick    *)
(* gives every runnable task its turn (RoundRobin of Sched).               *)
Fairness ==
  /\ SF_vars(Raise({0}))
  /\ SF_vars(isr_keyboard_c) /\ SF_vars(isr_fdd_c) /\ SF_vars(isr_serial_c)
  /\ \A u \in Pid : SF_vars(isr_timerTick_c(u))

Spec == Init /\ [][Next]_vars /\ Fairness

----------------------------------------------------------------------------
IrqTypeOK ==
  /\ irr \subseteq Lines /\ isr \subseteq Lines
  /\ cur \in Pid /\ owes \subseteq Pid
  /\ waits \in [Tasks -> {-1, 1, 6}]
  /\ command \in BOOLEAN /\ level \in BOOLEAN
  /\ serial_buf_pos \in 0 .. SERIAL_BUFF_SIZE - 1
  /\ serial_buf_end \in 0 .. SERIAL_BUFF_SIZE - 1
  /\ fifo \in 0 .. Fifo

(* The clock is never left in service, though its handler may give the CPU *)
(* away before it ends: line 0 comes before all others, so that would mask *)
(* every interrupt.                                                        *)
ClockNeverMasked == 0 \notin isr

(* The handler overwrites no byte that has not been read: what it takes    *)
(* out of the UART it adds to the ring.                                    *)
NothingOverwritten ==
  [][isr_serial_c => Held' - Held = fifo - fifo']_vars

(* A request is taken in the end, whatever is in service meanwhile and     *)
(* however the tasks call, as long as the serial port is not opened over   *)
(* and over: its handler masks lines 4 to 7 each time it finds the ring    *)
(* full, and opening the port makes the UART interrupt again.              *)
IrqDelivered ==
  <>[][~SerialOpen]_vars => \A n \in Lines : n \in irr ~> n \notin irr
=============================================================================
