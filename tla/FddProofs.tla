----------------------------- MODULE FddProofs -----------------------------
(***************************************************************************)
(* Proofs, for any number of tasks, any disk and any timeout, that         *)
(* fdc_sem makes the body of fdd_block_read a critical section, that every *)
(* variable keeps its type, and that, as long as driver and controller     *)
(* keep step, the idle task, which runs the driver while the kernel boots, *)
(* never waits in a semaphore's queue, and a read that succeeds has copied *)
(* the sectors it was asked for.  The first rests on the order of fdd_init *)
(* (FddInv): no task calls the driver before Booted, and Boot does not     *)
(* after it.  The last two rest on the protocol between driver and         *)
(* controller (InStep): a command that interrupts has one waiter and       *)
(* leaves no unit behind in floppy_sem.  So no interrupt falls into Boot's *)
(* wait once its spin has ended, and the buffer holds the sector of the    *)
(* task that copies it.                                                    *)
(***************************************************************************)
EXTENDS Fdd, Numbers, SequenceTheorems, TLAPS

Early == {"reset", "configure", "calibrate", "calibrated", "devices"}
WaitPhases == {"no", "spin", "clear", "test", "taken", "enqueue", "queued"}
PCs   == Section \cup Early \cup {"mount", "mounted", "failed", "user"}

(* The semaphores, and that nobody waits twice in a queue.                 *)
SemOK(S) ==
  /\ S \in [vl : Nat, q : Seq(Pid)]
  /\ \A i, j \in 1 .. Len(S.q) : S.q[i] = S.q[j] => i = j

Control ==
  /\ pc \in [Pid -> PCs] /\ cpu \in Pid \cup {None}
  /\ boot_wait \in WaitPhases /\ taken \in Nat /\ (boot_wait = "taken" => taken > 0)
  /\ fdd_int_recv \in BOOLEAN /\ up \in BOOLEAN
  /\ SemOK(fdc_sem) /\ floppy_sem \in [vl : Nat, q : Seq(Pid)]

(* Who waits for fdc_sem is at the entrance, and its unit is either there  *)
(* and everybody outside, or with the one task that is inside.             *)
Mutex ==
  /\ \A t \in Pid : Contains(fdc_sem.q, t) => pc[t] = "section"
  /\ fdc_sem.vl \in {0, 1}
  /\ fdc_sem.vl = 1 => fdc_sem.q = <<>> /\ Inside = {}
  /\ \A t, u \in Inside : t = u

(* Before Booted only Boot uses the driver; after it Boot does not use it  *)
(* any more.                                                               *)
BootAlone ==
  /\ up => /\ pc[Boot] \in {"user", "failed"} /\ boot_wait = "no"
           /\ ~Contains(floppy_sem.q, Boot)
  /\ ~up => /\ \A t \in Tasks : pc[t] = "user"
            /\ fdc_sem.q = <<>>
            /\ pc[Boot] \in {"mount", "mounted", "user"} => fdc_sem.vl = 1
  /\ ~Contains(fdc_sem.q, Boot)

FddInv == Control /\ Mutex /\ BootAlone

----------------------------------------------------------------------------
(* Boot is not a task, and both are pids.                                  *)
LEMMA Pids == Boot \in Pid /\ Boot \notin Tasks /\ Tasks \subseteq Pid /\ Pid = Tasks \cup {Boot}
BY FddAssumption DEF Pid

(* What sem_wait does to a queue.                                          *)
LEMMA WaitMoves ==
  ASSUME NEW S \in [vl : Nat, q : Seq(Pid)], NEW t \in Pid
  PROVE  /\ Wait(S, t) \in [vl : Nat, q : Seq(Pid)]
         /\ S.vl > 0 => Wait(S, t).q = S.q /\ Wait(S, t).vl = S.vl - 1
         /\ S.vl = 0 => /\ Wait(S, t).vl = 0
                        /\ \A u : Contains(Wait(S, t).q, u) <=> Contains(S.q, u) \/ u = t
         /\ SemOK(S) /\ ~Contains(S.q, t) => SemOK(Wait(S, t))
<1>1. CASE S.vl > 0
  BY <1>1 DEF Wait, SemOK
<1>2. CASE S.vl = 0
  <2>1. Wait(S, t) = [S EXCEPT !.q = Append(@, t)]
    BY <1>2 DEF Wait
  <2>2. /\ Append(S.q, t) \in Seq(Pid) /\ Len(Append(S.q, t)) = Len(S.q) + 1
        /\ \A i \in 1 .. Len(S.q) : Append(S.q, t)[i] = S.q[i]
        /\ Append(S.q, t)[Len(S.q) + 1] = t /\ Len(S.q) \in Nat
    BY AppendProperties, LenProperties
  <2>3. Wait(S, t).q = Append(S.q, t) /\ Wait(S, t).vl = 0 /\ Wait(S, t) \in [vl : Nat, q : Seq(Pid)]
    BY <2>1, <2>2, <1>2
  <2>4. ASSUME NEW u PROVE Contains(Wait(S, t).q, u) <=> Contains(S.q, u) \/ u = t
    <3>1. ASSUME Contains(Wait(S, t).q, u) PROVE Contains(S.q, u) \/ u = t
      BY <3>1, <2>2, <2>3 DEF Contains
    <3>2. ASSUME Contains(S.q, u) PROVE Contains(Wait(S, t).q, u)
      BY <3>2, <2>2, <2>3 DEF Contains
    <3>3. ASSUME u = t PROVE Contains(Wait(S, t).q, u)
      BY <3>3, <2>2, <2>3 DEF Contains
    <3> QED BY <3>1, <3>2, <3>3
  <2>5. ASSUME SemOK(S), ~Contains(S.q, t) PROVE SemOK(Wait(S, t))
    BY <2>5, <2>2, <2>3 DEF SemOK, Contains
  <2> QED BY <1>2, <2>3, <2>4, <2>5
<1> QED BY <1>1, <1>2

Leaves(S, t) == Contains(S.q, t) /\ ~Contains(Signal(S).q, t)

(* What sem_signal does to a queue.                                        *)
LEMMA SignalMoves ==
  ASSUME NEW S \in [vl : Nat, q : Seq(Pid)]
  PROVE  /\ Signal(S) \in [vl : Nat, q : Seq(Pid)]
         /\ S.q = <<>> => Signal(S).q = <<>> /\ Signal(S).vl = S.vl + 1
         /\ S.vl = 0 /\ S.q # <<>> => Signal(S).vl = 0
         /\ \A u : Contains(Signal(S).q, u) => Contains(S.q, u)
         /\ SemOK(S) => SemOK(Signal(S))
         /\ SemOK(S) /\ S.vl = 0 =>
              \A t, u : Leaves(S, t) /\ Leaves(S, u) => t = u
<1>1. CASE S.vl = 0 /\ S.q # <<>>
  <2>1. /\ Signal(S).q = Tail(S.q) /\ Signal(S).vl = S.vl /\ Tail(S.q) \in Seq(Pid)
        /\ Signal(S) \in [vl : Nat, q : Seq(Pid)]
    BY <1>1, HeadTailProperties DEF Signal
  <2>2. /\ Len(Tail(S.q)) = Len(S.q) - 1 /\ Len(S.q) \in Nat /\ Len(S.q) > 0
        /\ \A i \in 1 .. Len(Tail(S.q)) : Tail(S.q)[i] = S.q[i + 1]
    BY <1>1, HeadTailProperties, EmptySeq, LenProperties
  <2>3. \A u : Contains(Signal(S).q, u) => Contains(S.q, u)
    BY <2>1, <2>2 DEF Contains
  <2>4. SemOK(S) => SemOK(Signal(S))
    BY <2>1, <2>2 DEF SemOK
  <2>5. ASSUME NEW u, Contains(S.q, u), ~Contains(Signal(S).q, u) PROVE u = S.q[1]
    <3>1. PICK i \in 1 .. Len(S.q) : S.q[i] = u
      BY <2>5 DEF Contains
    <3>2. CASE i > 1
      <4>1. i - 1 \in 1 .. Len(Tail(S.q)) /\ Tail(S.q)[i - 1] = u
        BY <3>1, <3>2, <2>2
      <4> QED BY <4>1, <2>1, <2>5 DEF Contains
    <3> QED BY <3>1, <3>2
  <2>6. \A t, u : Leaves(S, t) /\ Leaves(S, u) => t = u
    BY <2>5 DEF Leaves
  <2>7. S.q = <<>> => Signal(S).q = <<>> /\ Signal(S).vl = S.vl + 1
    BY <1>1
  <2>8. S.vl = 0 /\ S.q # <<>> => Signal(S).vl = 0
    BY <2>1
  <2> QED BY <2>1, <2>3, <2>4, <2>6, <2>7, <2>8, Zenon
<1>2. CASE ~(S.vl = 0 /\ S.q # <<>>)
  <2>1. Signal(S) = [S EXCEPT !.vl = @ + 1]
    BY <1>2 DEF Signal
  <2>2. /\ Signal(S).q = S.q /\ Signal(S).vl = S.vl + 1
        /\ Signal(S) \in [vl : Nat, q : Seq(Pid)]
    BY <2>1
  <2>3. SemOK(S) => SemOK(Signal(S))
    BY <2>2 DEF SemOK
  <2>4. S.q = <<>> => Signal(S).q = <<>> /\ Signal(S).vl = S.vl + 1
    BY <2>2
  <2>5. S.vl = 0 /\ S.q # <<>> => Signal(S).vl = 0
    BY <1>2
  <2>6. \A t : Contains(Signal(S).q, t) <=> Contains(S.q, t)
    BY <2>2, Zenon
  <2>7. \A t : ~Leaves(S, t)
    BY <2>6 DEF Leaves
  <2> QED BY <2>2, <2>3, <2>4, <2>5, <2>6, <2>7, Zenon
<1> QED BY <1>1, <1>2

(* Who can run the driver is not in a queue; before Booted that is Boot.   *)
LEMMA RunsDriver ==
  ASSUME FddInv, NEW t \in Pid, NEW at, At(t, at), at # "user"
  PROVE  /\ pc[t] = at /\ ~Contains(fdc_sem.q, t)
         /\ ~up => t = Boot
         /\ up /\ at # "failed" => t # Boot
         /\ t = Boot => boot_wait = "no"
BY Pids DEF FddInv, BootAlone, At, Asleep

(* A task that is in no queue goes on, leaves, or stays outside.           *)
LEMMA MovesKeepMutex ==
  ASSUME FddInv, NEW t \in Pid, NEW to \in PCs, pc' = [pc EXCEPT ![t] = to],
         UNCHANGED fdc_sem, ~Contains(fdc_sem.q, t), to \in Section => pc[t] \in Section
  PROVE  Mutex'
<1>1. pc \in [Pid -> PCs] /\ \A u \in Pid : pc'[u] = IF u = t THEN to ELSE pc[u]
  BY DEF FddInv, Control
<1>2. \A u \in Pid : Contains(fdc_sem'.q, u) => pc'[u] = "section"
  BY <1>1 DEF FddInv, Mutex
<1>3. Inside' \subseteq Inside
  BY <1>1 DEF Inside
<1> QED BY <1>2, <1>3 DEF FddInv, Mutex

(* A step that only moves one task.                                        *)
LEMMA MoveKeeps ==
  ASSUME FddInv, NEW t \in Pid, NEW to \in PCs, pc' = [pc EXCEPT ![t] = to],
         cpu' \in Pid \cup {None}, UNCHANGED <<boot_wait, taken, floppy_sem, fdd_int_recv, up, fdc_sem>>,
         ~Contains(fdc_sem.q, t), to \in Section => pc[t] \in Section,
         ~up => t = Boot, up => t # Boot,
         t = Boot /\ to \in {"mount", "mounted", "user"} => fdc_sem.vl = 1
  PROVE  FddInv'
<1>1. Mutex'
  BY MovesKeepMutex
<1>2. Control'
  BY DEF FddInv, Control, SemOK
<1>3. /\ pc'[Boot] = IF t = Boot THEN to ELSE pc[Boot]
      /\ ~up => \A u \in Tasks : pc'[u] = pc[u]
  BY Pids DEF FddInv, Control
<1>4. BootAlone'
  BY <1>3, Pids DEF FddInv, BootAlone
<1> QED BY <1>1, <1>2, <1>4 DEF FddInv

(* A step that ends in fdd_wait_for_interrupt.                             *)
LEMMA WaitKeeps ==
  ASSUME FddInv, NEW t \in Pid, NEW to \in PCs, fdd_wait_for_interrupt(t, to),
         UNCHANGED <<fdd_int_recv, up, fdc_sem>>,
         ~Contains(fdc_sem.q, t), to \in Section => pc[t] \in Section,
         ~up => t = Boot, up => t # Boot, to \notin {"mount", "mounted", "user"}
  PROVE  FddInv'
<1>1. pc' = [pc EXCEPT ![t] = to] /\ Mutex'
  BY MovesKeepMutex DEF fdd_wait_for_interrupt
<1>2. /\ pc'[Boot] = IF t = Boot THEN to ELSE pc[Boot]
      /\ ~up => \A u \in Tasks : pc'[u] = pc[u]
  BY <1>1, Pids DEF FddInv, Control
<1>3. CASE t = Boot
  <2>1. boot_wait' = "spin" /\ cpu' = Boot /\ UNCHANGED <<floppy_sem, taken>>
    BY <1>3 DEF fdd_wait_for_interrupt
  <2>2. Control'
    BY <1>1, <2>1, Pids DEF FddInv, Control, SemOK, WaitPhases
  <2>3. BootAlone'
    BY <1>2, <1>3, <2>1 DEF FddInv, BootAlone
  <2> QED BY <1>1, <2>2, <2>3 DEF FddInv
<1>4. CASE t # Boot
  <2>1. floppy_sem' = Wait(floppy_sem, t) /\ cpu' \in {t, None} /\ UNCHANGED <<boot_wait, taken>> /\ up
    BY <1>4 DEF fdd_wait_for_interrupt
  <2>2. /\ floppy_sem' \in [vl : Nat, q : Seq(Pid)]
        /\ ~Contains(floppy_sem'.q, Boot)
    <3>1. floppy_sem \in [vl : Nat, q : Seq(Pid)] /\ ~Contains(floppy_sem.q, Boot)
      BY <2>1 DEF FddInv, Control, BootAlone
    <3>2. CASE floppy_sem.vl > 0
      BY <2>1, <3>1, <3>2, WaitMoves
    <3>3. CASE floppy_sem.vl = 0
      BY <2>1, <3>1, <3>3, <1>4, WaitMoves
    <3> QED BY <3>1, <3>2, <3>3
  <2>3. Control'
    BY <1>1, <2>1, <2>2 DEF FddInv, Control, SemOK
  <2>4. BootAlone'
    BY <1>2, <1>4, <2>1, <2>2 DEF FddInv, BootAlone
  <2> QED BY <1>1, <2>3, <2>4 DEF FddInv
<1> QED BY <1>3, <1>4

(* fdd_recalibrate, on the boot path and in a read.                        *)
LEMMA RecalibrateKeeps ==
  ASSUME FddInv, NEW t \in Pid, NEW at, At(t, at), at # "user", at # "failed",
         NEW drive, NEW then \in PCs, NEW onError \in PCs,
         fdd_recalibrate(t, drive, then, onError),
         {then, onError} \cap {"mount", "mounted", "user"} = {},
         {then, onError} \cap Section # {} => at \in Section,
         UNCHANGED <<fdd_int_recv, up, fdc_sem>>
  PROVE  FddInv'
<1>1. /\ pc[t] = at /\ ~Contains(fdc_sem.q, t) /\ (~up => t = Boot) /\ (up => t # Boot)
  BY RunsDriver
<1>2. \/ fdd_wait_for_interrupt(t, then)
      \/ Goto(t, onError) /\ UNCHANGED waitVars
  BY DEF fdd_recalibrate
<1>3. CASE fdd_wait_for_interrupt(t, then)
  BY <1>1, <1>3, WaitKeeps
<1>4. CASE Goto(t, onError) /\ UNCHANGED waitVars
  BY <1>1, <1>4, MoveKeeps DEF Goto, waitVars
<1> QED BY <1>2, <1>3, <1>4

----------------------------------------------------------------------------
(* The steps of fdd_init.                                                  *)
LEMMA BootingKeeps ==
  ASSUME FddInv, Booting
  PROVE  FddInv'
<1> USE Pids
<1>1. ASSUME NEW at \in PCs \ {"user", "failed"}, At(Boot, at)
      PROVE  pc[Boot] = at /\ ~Contains(fdc_sem.q, Boot) /\ ~up
  BY <1>1, RunsDriver
<1>2. CASE Reset
  <2>1. /\ At(Boot, "reset") /\ fdd_wait_for_interrupt(Boot, "configure")
        /\ UNCHANGED <<fdd_int_recv, up, fdc_sem>>
    BY <1>2 DEF Reset, deviceVars, bootVars
  <2> QED BY <2>1, <1>1, WaitKeeps DEF PCs, Early, Section
<1>3. ASSUME NEW at \in {"configure", "calibrated"}, Quiet(at) PROVE FddInv'
  <2>1. /\ At(Boot, at) /\ \E to \in {"calibrate", "devices"} : Goto(Boot, to)
        /\ UNCHANGED <<fdd_int_recv, up, fdc_sem, boot_wait, taken, floppy_sem>>
    BY <1>3 DEF Quiet, deviceVars, bootVars, waitVars
  <2> QED BY <2>1, <1>1, MoveKeeps DEF PCs, Early, Section, Goto
<1>4. CASE Calibrate
  <2>1. /\ At(Boot, "calibrate") /\ fdd_recalibrate(Boot, count - 1, "calibrated", "devices")
        /\ UNCHANGED <<fdd_int_recv, up, fdc_sem>>
    BY <1>4 DEF Calibrate, deviceVars
  <2> QED BY <2>1, RecalibrateKeeps DEF PCs, Early, Section
<1>5. CASE MotorsOff
  <2>1. /\ At(Boot, "calibrate") /\ Goto(Boot, "devices")
        /\ UNCHANGED <<fdd_int_recv, up, fdc_sem, boot_wait, taken, floppy_sem>>
    BY <1>5 DEF MotorsOff, deviceVars, bootVars, waitVars
  <2> QED BY <2>1, <1>1, MoveKeeps DEF PCs, Early, Section, Goto
<1>6. CASE Devices
  <2>1. /\ At(Boot, "devices") /\ Goto(Boot, "mount") /\ fdc_sem' = SEM_NEW(1)
        /\ UNCHANGED <<fdd_int_recv, up, boot_wait, taken, floppy_sem>>
    BY <1>6 DEF Devices, deviceVars, waitVars
  <2>2. /\ ~up /\ pc[Boot] = "devices" /\ pc' = [pc EXCEPT ![Boot] = "mount"] /\ cpu' = Boot
        /\ fdc_sem'.vl = 1 /\ fdc_sem'.q = <<>> /\ fdc_sem' \in [vl : Nat, q : Seq(Pid)]
    BY <2>1, <1>1, EmptySeq DEF PCs, Early, Goto, SEM_NEW
  <2>3. Control'
    BY <2>1, <2>2 DEF FddInv, Control, SemOK, PCs
  <2>4. \A t \in Pid : pc'[t] \in {"user", "mount"} /\ ~Contains(fdc_sem'.q, t)
    BY <2>2, EmptySeq DEF FddInv, Control, BootAlone, Contains
  <2>5. Mutex'
    BY <2>2, <2>4 DEF Mutex, Inside, Section
  <2>6. BootAlone'
    BY <2>1, <2>2, <2>4 DEF FddInv, Control, BootAlone
  <2> QED BY <2>3, <2>5, <2>6 DEF FddInv
<1> QED BY <1>2, <1>3, <1>4, <1>5, <1>6 DEF Booting

(* The mounting ends, and the tasks are started.                           *)
LEMMA BootedKeeps ==
  ASSUME FddInv, fdd_block_ioctl \/ Booted
  PROVE  FddInv'
<1> USE Pids
<1>1. CASE fdd_block_ioctl
  <2>1. /\ At(Boot, "mounted") /\ Return(Boot, "user")
        /\ UNCHANGED <<fdd_int_recv, up, fdc_sem, boot_wait, taken, floppy_sem>>
    BY <1>1 DEF fdd_block_ioctl, deviceVars, waitVars
  <2>2. pc[Boot] = "mounted" /\ ~Contains(fdc_sem.q, Boot) /\ ~up
    BY <2>1, RunsDriver
  <2>3. fdc_sem.vl = 1
    BY <2>2 DEF FddInv, BootAlone
  <2> QED BY <2>1, <2>2, <2>3, MoveKeeps DEF PCs, Section, Return
<1>2. CASE Booted
  <2>1. /\ pc[Boot] \in {"user", "failed"} /\ boot_wait = "no" /\ up' = TRUE /\ cpu' = None
        /\ ~Contains(floppy_sem.q, Boot)
        /\ UNCHANGED <<pc, fdd_int_recv, fdc_sem, boot_wait, taken, floppy_sem>>
    BY <1>2 DEF Booted, At, Asleep, deviceVars, waitVars
  <2> QED BY <2>1 DEF FddInv, Control, Mutex, BootAlone, Inside, SemOK
<1> QED BY <1>1, <1>2

(* Interrupts, and the steps of Boot's wait.                               *)
LEMMA InterruptKeeps ==
  ASSUME FddInv, isr_fdd_c \/ BootWaits
  PROVE  FddInv'
<1> DEFINE S == floppy_sem
<1>1. S \in [vl : Nat, q : Seq(Pid)] /\ (up => ~Contains(S.q, Boot) /\ boot_wait = "no")
  BY DEF FddInv, Control, BootAlone
<1>2. UNCHANGED <<pc, cpu, up, fdc_sem>>
  BY DEF isr_fdd_c, BootWaits, BootWait, Spin, Clear, Take, Put, NoUnit, Enqueue, callVars, bootVars
<1>3. /\ floppy_sem' \in [vl : Nat, q : Seq(Pid)] /\ fdd_int_recv' \in BOOLEAN
      /\ boot_wait' \in WaitPhases /\ taken' \in Nat /\ (boot_wait' = "taken" => taken' > 0)
      /\ up => ~Contains(floppy_sem'.q, Boot) /\ boot_wait' = "no"
  <2>1. CASE isr_fdd_c
    <3>1. floppy_sem' = Signal(S) /\ fdd_int_recv' = TRUE /\ UNCHANGED <<boot_wait, taken>>
      BY <2>1 DEF isr_fdd_c
    <3>2. Signal(S) \in [vl : Nat, q : Seq(Pid)] /\ (up => ~Contains(Signal(S).q, Boot))
      BY <1>1, SignalMoves
    <3> QED BY <1>1, <3>1, <3>2 DEF FddInv, Control
  <2>2. CASE Spin \/ Clear \/ NoUnit
    <3>1. /\ UNCHANGED <<floppy_sem, taken>> /\ fdd_int_recv' \in BOOLEAN
          /\ boot_wait # "no" /\ boot_wait' \in {"clear", "test", "enqueue"}
      BY <2>2 DEF Spin, Clear, NoUnit, BootWait, FddInv, Control
    <3> QED BY <1>1, <3>1 DEF FddInv, Control, WaitPhases
  <2>3. CASE Take
    BY <1>1, <2>3 DEF Take, BootWait, FddInv, Control, WaitPhases
  <2>4. CASE Put
    <3>1. /\ boot_wait = "taken" /\ boot_wait' = "no" /\ taken' = 0 /\ UNCHANGED fdd_int_recv
          /\ floppy_sem' = [S EXCEPT !.vl = taken - 1]
      BY <2>4 DEF Put, BootWait
    <3>2. taken - 1 \in Nat /\ 0 \in Nat
      BY <3>1 DEF FddInv, Control
    <3> QED BY <1>1, <3>1, <3>2 DEF FddInv, Control, WaitPhases
  <2>5. CASE Enqueue
    <3>1. /\ boot_wait = "enqueue" /\ boot_wait' = "queued" /\ UNCHANGED <<fdd_int_recv, taken>>
          /\ floppy_sem' = [S EXCEPT !.q = Append(@, Boot)]
      BY <2>5 DEF Enqueue, BootWait
    <3>2. Append(S.q, Boot) \in Seq(Pid)
      BY <1>1, AppendProperties, Pids
    <3> QED BY <1>1, <3>1, <3>2 DEF FddInv, Control, WaitPhases
  <2> QED BY <2>1, <2>2, <2>3, <2>4, <2>5 DEF BootWaits
<1>4. Control' /\ Mutex'
  BY <1>2, <1>3 DEF FddInv, Control, Mutex, SemOK, Inside
<1>5. BootAlone'
  BY <1>2, <1>3 DEF FddInv, BootAlone
<1> QED BY <1>4, <1>5 DEF FddInv

----------------------------------------------------------------------------
(* sem_wait at the entrance of the section: it gives the unit to one task  *)
(* at most, and Boot finds it there.                                       *)
LEMMA EnterKeeps ==
  ASSUME FddInv, NEW t \in Pid, fdd_block_read(t)
  PROVE  FddInv'
<1> USE Pids
<1>1. /\ pc[t] \in {"user", "mount"} /\ ~Contains(fdc_sem.q, t)
      /\ fdc_sem' = Wait(fdc_sem, t) /\ pc' = [pc EXCEPT ![t] = "section"]
      /\ cpu' \in {t, None}
      /\ UNCHANGED <<up, boot_wait, taken, floppy_sem, fdd_int_recv>>
  BY DEF fdd_block_read, At, Asleep, bootVars, waitVars, deviceVars
<1>2. (~up => t = Boot) /\ (up => t # Boot)
  <2>1. PICK call : call \in Calls(t)
    BY DEF fdd_block_read
  <2> QED BY <2>1 DEF Calls
<1>3. pc \in [Pid -> PCs] /\ SemOK(fdc_sem) /\ fdc_sem \in [vl : Nat, q : Seq(Pid)]
  BY DEF FddInv, Control, SemOK
<1>4. /\ SemOK(Wait(fdc_sem, t)) /\ Wait(fdc_sem, t) \in [vl : Nat, q : Seq(Pid)]
      /\ fdc_sem.vl > 0 => Wait(fdc_sem, t).q = fdc_sem.q /\ Wait(fdc_sem, t).vl = fdc_sem.vl - 1
      /\ fdc_sem.vl = 0 => /\ Wait(fdc_sem, t).vl = 0
                           /\ \A u : Contains(Wait(fdc_sem, t).q, u) <=> Contains(fdc_sem.q, u) \/ u = t
  BY <1>1, <1>3, WaitMoves
<1>5. Control'
  BY <1>1, <1>3, <1>4 DEF FddInv, Control, PCs, Section
<1>6. CASE fdc_sem.vl = 1
  <2>1. Inside = {} /\ fdc_sem.q = <<>> /\ fdc_sem'.q = <<>> /\ fdc_sem'.vl = 0
    BY <1>1, <1>4, <1>6 DEF FddInv, Mutex
  <2>2. \A u \in Pid : ~Contains(fdc_sem'.q, u) /\ ~Contains(fdc_sem.q, u)
    BY <2>1, EmptySeq DEF Contains
  <2>3. Inside' \subseteq {t}
    BY <1>1, <1>3, <2>1, <2>2 DEF Inside
  <2>4. Mutex'
    BY <2>1, <2>2, <2>3 DEF Mutex
  <2>5. BootAlone'
    <3>1. ~Contains(fdc_sem'.q, Boot) /\ fdc_sem'.q = <<>>
      BY <2>1, <2>2
    <3> QED BY <1>1, <1>2, <1>3, <3>1 DEF FddInv, BootAlone
  <2> QED BY <1>5, <2>4, <2>5 DEF FddInv
<1>7. CASE fdc_sem.vl = 0
  <2>1. t # Boot /\ up
    BY <1>1, <1>2, <1>7 DEF FddInv, BootAlone
  <2>2. \A u \in Pid : Contains(fdc_sem'.q, u) <=> Contains(fdc_sem.q, u) \/ u = t
    BY <1>1, <1>4, <1>7
  <2>3. Inside' \subseteq Inside
    BY <1>1, <1>3, <2>2 DEF Inside
  <2>4. \A u \in Pid : Contains(fdc_sem'.q, u) => pc'[u] = "section"
    BY <1>1, <1>3, <2>2 DEF FddInv, Mutex
  <2>5. Mutex'
    BY <1>1, <1>4, <1>7, <2>3, <2>4 DEF FddInv, Mutex
  <2>6. BootAlone'
    BY <1>1, <1>3, <2>1, <2>2 DEF FddInv, BootAlone
  <2> QED BY <1>5, <2>5, <2>6 DEF FddInv
<1> QED BY <1>6, <1>7 DEF FddInv, Mutex

(* sem_signal at the end of the section: the unit is put back, or goes to  *)
(* the one task that leaves the queue.                                     *)
LEMMA LeaveKeeps ==
  ASSUME FddInv, NEW t \in Pid, Leave(t)
  PROVE  FddInv'
<1> USE Pids
<1>1. /\ At(t, "leave") /\ fdc_sem' = Signal(fdc_sem)
      /\ UNCHANGED <<up, boot_wait, taken, floppy_sem, fdd_int_recv>>
  BY DEF Leave, bootVars, waitVars, deviceVars
<1>2. PICK to \in {"mounted", "user"} : pc' = [pc EXCEPT ![t] = to] /\ cpu' \in Pid \cup {None}
  BY DEF Leave, Return
<1>3. /\ pc[t] = "leave" /\ ~Contains(fdc_sem.q, t) /\ (~up => t = Boot) /\ (up => t # Boot)
  BY <1>1, RunsDriver
<1>4. pc \in [Pid -> PCs] /\ SemOK(fdc_sem) /\ fdc_sem \in [vl : Nat, q : Seq(Pid)]
  BY DEF FddInv, Control, SemOK
<1>5. t \in Inside /\ fdc_sem.vl = 0 /\ Inside = {t}
  <2>1. t \in Inside
    BY <1>3 DEF Inside, Section
  <2> QED BY <2>1 DEF FddInv, Mutex
<1>6. /\ SemOK(fdc_sem') /\ fdc_sem' \in [vl : Nat, q : Seq(Pid)]
      /\ fdc_sem.q = <<>> => fdc_sem'.q = <<>> /\ fdc_sem'.vl = 1
      /\ fdc_sem.q # <<>> => fdc_sem'.vl = 0
      /\ \A u : Contains(fdc_sem'.q, u) => Contains(fdc_sem.q, u)
      /\ \A u, v : Leaves(fdc_sem, u) /\ Leaves(fdc_sem, v) => u = v
  <2>1. /\ SemOK(Signal(fdc_sem)) /\ Signal(fdc_sem) \in [vl : Nat, q : Seq(Pid)]
        /\ \A u : Contains(Signal(fdc_sem).q, u) => Contains(fdc_sem.q, u)
        /\ \A u, v : Leaves(fdc_sem, u) /\ Leaves(fdc_sem, v) => u = v
    BY <1>4, <1>5, SignalMoves, Zenon
  <2>2. /\ fdc_sem.q = <<>> => Signal(fdc_sem).q = <<>> /\ Signal(fdc_sem).vl = 1
        /\ fdc_sem.q # <<>> => Signal(fdc_sem).vl = 0
    BY <1>5 DEF Signal
  <2> QED BY <2>1, <2>2, <1>1, Zenon
<1>7. ASSUME NEW u \in Inside' PROVE Leaves(fdc_sem, u)
  <2>1. u \in Pid /\ pc'[u] \in Section /\ ~Contains(fdc_sem'.q, u)
    BY DEF Inside
  <2>2. u # t /\ pc[u] \in Section
    BY <2>1, <1>2, <1>4 DEF Section
  <2>3. Contains(fdc_sem.q, u)
    BY <2>1, <2>2, <1>5, Zenon DEF Inside
  <2> QED BY <2>1, <2>3, <1>1 DEF Leaves
<1>8. Control'
  BY <1>1, <1>2, <1>4, <1>6 DEF FddInv, Control, PCs
<1>9. \A u \in Pid : Contains(fdc_sem'.q, u) => pc'[u] = "section"
  BY <1>2, <1>3, <1>4, <1>6 DEF FddInv, Mutex
<1>10. fdc_sem.q = <<>> => Inside' = {}
  BY <1>7, EmptySeq DEF Leaves, Contains
<1>11. Mutex'
  BY <1>6, <1>7, <1>9, <1>10 DEF Mutex
<1>12. BootAlone'
  BY <1>1, <1>2, <1>3, <1>4, <1>6 DEF FddInv, BootAlone
<1> QED BY <1>8, <1>11, <1>12 DEF FddInv

(* The steps between.                                                      *)
LEMMA StepKeeps ==
  ASSUME FddInv, NEW t \in Pid, Step(t)
  PROVE  FddInv'
<1>1. ASSUME NEW at \in Section, At(t, at)
      PROVE  /\ pc[t] = at /\ ~Contains(fdc_sem.q, t) /\ (~up => t = Boot) /\ (up => t # Boot)
  BY <1>1, RunsDriver DEF Section
<1>2. ASSUME NEW at \in Section, At(t, at), NEW to \in Section \cup {"failed"} \cup (IF up THEN {"user"} ELSE {}),
             pc' = [pc EXCEPT ![t] = to], cpu' \in Pid \cup {None},
             UNCHANGED <<boot_wait, taken, floppy_sem, fdd_int_recv, up, fdc_sem>>
      PROVE  FddInv'
  BY <1>1, <1>2, MoveKeeps DEF Section, PCs
<1>3. ASSUME Abandon(t), NEW at \in Section, At(t, at)
      PROVE  \E to \in {"failed"} \cup (IF up THEN {"user"} ELSE {}) :
               pc' = [pc EXCEPT ![t] = to] /\ cpu' \in Pid \cup {None}
  BY <1>1, <1>3, Pids DEF Abandon, Return
<1>4. ASSUME Failed(t), NEW at \in Section, At(t, at)
      PROVE  \E to \in Section \cup {"failed"} \cup (IF up THEN {"user"} ELSE {}) :
               pc' = [pc EXCEPT ![t] = to] /\ cpu' \in Pid \cup {None}
  BY <1>3, <1>4 DEF Failed, Goto, Section
<1>5. CASE Overhead(t)
  <2>1. /\ At(t, "section") /\ Abandon(t)
        /\ UNCHANGED <<boot_wait, taken, floppy_sem, fdd_int_recv, up, fdc_sem>>
    BY <1>5 DEF Overhead, bootVars, waitVars, deviceVars
  <2> QED BY <2>1, <1>2, <1>3 DEF Section
<1>6. CASE Recalibrate(t)
  <2>1. /\ At(t, "section") /\ fdd_recalibrate(t, 0, "sense", "command")
        /\ UNCHANGED <<fdd_int_recv, up, fdc_sem>>
    BY <1>6 DEF Recalibrate, bootVars, deviceVars
  <2> QED BY <2>1, RecalibrateKeeps DEF Section, PCs
<1>7. CASE Sense(t)
  <2>1. /\ At(t, "sense") /\ Goto(t, "command")
        /\ UNCHANGED <<boot_wait, taken, floppy_sem, fdd_int_recv, up, fdc_sem>>
    BY <1>7 DEF Sense, bootVars, waitVars, deviceVars
  <2> QED BY <2>1, <1>2 DEF Section, Goto
<1>8. CASE Command(t)
  <2>1. /\ At(t, "command") /\ UNCHANGED <<fdd_int_recv, up, fdc_sem>>
        /\ \/ fdd_wait_for_interrupt(t, "result")
           \/ Failed(t) /\ UNCHANGED waitVars
    BY <1>8 DEF Command, bootVars, deviceVars
  <2>2. CASE fdd_wait_for_interrupt(t, "result")
    BY <2>1, <2>2, <1>1, WaitKeeps DEF Section, PCs
  <2>3. CASE Failed(t) /\ UNCHANGED waitVars
    BY <2>1, <2>3, <1>2, <1>4 DEF Section, waitVars
  <2> QED BY <2>1, <2>2, <2>3
<1>9. CASE Result(t)
  <2>1. /\ At(t, "result") /\ UNCHANGED <<boot_wait, taken, floppy_sem, fdd_int_recv, up, fdc_sem>>
        /\ Failed(t) \/ \E to \in {"section", "leave"} : Goto(t, to)
    BY <1>9, Zenon DEF Result, bootVars, waitVars, deviceVars
  <2> QED BY <2>1, <1>2, <1>4 DEF Section, Goto
<1> QED BY <1>5, <1>6, <1>7, <1>8, <1>9, LeaveKeeps DEF Step

----------------------------------------------------------------------------
(* The invariant holds in every reachable state.                           *)
LEMMA FddSafety == Spec => []FddInv
<1>1. Init => FddInv
  <2> SUFFICES ASSUME Init PROVE FddInv
    OBVIOUS
  <2>1. \A t \in Pid : ~Contains(<<>>, t)
    BY EmptySeq DEF Contains
  <2>2. Control
    <3>1. <<>> \in Seq(Pid) /\ Len(<<>>) = 0
      BY EmptySeq
    <3>2. SEM_NEW(0) \in [vl : Nat, q : Seq(Pid)] /\ SemOK(SEM_NEW(0))
      BY <3>1 DEF SemOK, SEM_NEW
    <3> QED BY <3>2, Pids DEF Init, Control, PCs, Early, WaitPhases
  <2>3. Mutex
    BY <2>1, Pids DEF Init, Mutex, Inside, Section, SEM_NEW
  <2>4. BootAlone
    BY <2>1, Pids DEF Init, BootAlone, SEM_NEW
  <2> QED BY <2>2, <2>3, <2>4 DEF FddInv
<1>2. FddInv /\ [Next]_vars => FddInv'
  <2> SUFFICES ASSUME FddInv, [Next]_vars PROVE FddInv'
    OBVIOUS
  <2>1. CASE UNCHANGED <<pc, cpu, boot_wait, taken, floppy_sem, fdd_int_recv, up, fdc_sem>>
    BY <2>1 DEF FddInv, Control, Mutex, BootAlone, Inside, SemOK
  <2>2. UNCHANGED vars \/ Finish \/ Spurious
        => UNCHANGED <<pc, cpu, boot_wait, taken, floppy_sem, fdd_int_recv, up, fdc_sem>>
    BY DEF vars, Finish, Spurious, callVars, bootVars, waitVars, deviceVars
  <2> QED BY <2>1, <2>2, BootingKeeps, BootedKeeps, InterruptKeeps, EnterKeeps, StepKeeps DEF Next
<1> QED BY <1>1, <1>2, PTL DEF Spec

(* fdc_sem makes the body of fdd_block_read a critical section.            *)
THEOREM FddSectionExclusive == Spec => []SectionExclusive
<1>1. FddInv => SectionExclusive
  BY DEF FddInv, Mutex, SectionExclusive
<1> QED BY <1>1, FddSafety, PTL

----------------------------------------------------------------------------
(* Where a sector is, and what the variables hold.                         *)
Place    == [c : Nat, h : Nat, s : Nat]
Commands == {"none", "reset", "recalibrate", "read"}
Phases   == {"idle", "exec", "result", "lost"}
Jobs     == [pos : Positions \cup {0}, n : Counts \cup {0, 1}, chs : Place,
             out : Seq(Place \cup {None}), ok : BOOLEAN]

FddTypes ==
  /\ job \in [Pid -> Jobs]
  /\ dor \in [mot : SUBSET (0 .. 3), sel : 0 .. 3]
  /\ buffer \in Place \cup {None}
  /\ geometry \in {"none", "disk", "wrong"} /\ count \in 0 .. 4 /\ irq \in BOOLEAN
  /\ ctl \in [phase : Phases, cmd : Commands, chs : Place, good : BOOLEAN]

(* Who sleeps in floppy_sem is inside the section.  As long as driver and  *)
(* controller keep step, an interrupt to come has exactly one waiter, and  *)
(* no unit of floppy_sem is left over from an earlier one.                 *)
Busy == ctl.phase = "exec" \/ irq

Protocol ==
  /\ pc[Boot] = "reset" => ctl.phase = "idle"
  /\ \A t \in Tasks : Contains(floppy_sem.q, t) => pc[t] \in {"sense", "result"}
  /\ ctl.phase # "lost" =>
       /\ ctl.phase = "exec" => ~irq
       /\ Busy => /\ floppy_sem.vl = 0
                  /\ up => \E t \in Tasks : floppy_sem.q = <<t>>
                  /\ ~up => floppy_sem.q = <<>> /\ boot_wait = "spin" /\ ~fdd_int_recv
       /\ ~Busy => /\ floppy_sem.q = <<>>
                   /\ floppy_sem.vl = IF boot_wait = "no" THEN 0 ELSE 1
                   /\ boot_wait \notin {"enqueue", "queued"}
                   /\ boot_wait = "taken" => taken = 1
                   /\ ~up => (boot_wait \in {"spin", "clear"} <=> fdd_int_recv)

(* The drive and the command of whoever is inside.                         *)
Selected == \A t \in Pid : pc[t] \in {"sense", "command", "result"} => dor.sel = 0 /\ 0 \in dor.mot

Reading ==
  ctl.phase # "lost" =>
    \A t \in Pid : pc[t] = "result" =>
      /\ ctl.cmd = "read" /\ ctl.chs = job[t].chs /\ ctl.phase \in {"exec", "result"}
      /\ ctl.phase = "result" /\ ctl.good => buffer = ctl.chs

(* The sector k places after pos on its track, and what a job has read.    *)
Sector(pos, k) == [c |-> pos \div (SectPerTrack * 2),
                   h |-> (pos % (SectPerTrack * 2)) \div SectPerTrack,
                   s |-> (pos % SectPerTrack) + 1 + k]

Under == {"section", "sense", "command", "result"}

HasRead(t) ==
  /\ pc[t] \in Under => job[t].ok /\ Len(job[t].out) < job[t].n
  /\ pc[t] \in Section \cup {"mounted"} /\ job[t].ok /\ OnOneTrack(job[t]) =>
       /\ \A i \in 1 .. Len(job[t].out) : job[t].out[i] = Sector(job[t].pos, i - 1)
       /\ pc[t] \in Under => job[t].chs = Sector(job[t].pos, Len(job[t].out))
       /\ pc[t] \in {"leave", "mounted"} => Len(job[t].out) = job[t].n

Data == ctl.phase # "lost" /\ geometry # "wrong" => \A t \in Pid : HasRead(t)

----------------------------------------------------------------------------
(* What the constants are.                                                 *)
LEMMA Geometry ==
  /\ Cylinders \in Nat /\ Heads \in Nat /\ SectPerTrack \in Nat \ {0}
  /\ SectPerTrack * 2 \in Nat \ {0}
  /\ Positions \subseteq Nat /\ Counts \subseteq Nat \ {0} /\ None \notin Place
BY FddAssumption DEF Place

(* The arithmetic of fdd_block_read: a place for every position.           *)
LEMMA PlacesExist ==
  ASSUME NEW pos \in Nat
  PROVE  /\ CHS(pos) \in Place /\ CHS(pos) = Sector(pos, 0)
         /\ \A k \in Nat : Sector(pos, k) \in Place
<1> DEFINE q == pos \div (SectPerTrack * 2)
           r == pos % (SectPerTrack * 2)
           h == r \div SectPerTrack
           s == pos % SectPerTrack
<1>1. /\ CHS(pos) = [c |-> q, h |-> h, s |-> s + 1]
      /\ \A k : Sector(pos, k) = [c |-> q, h |-> h, s |-> s + 1 + k]
  BY DEF CHS, Sector
<1>2. q \in Nat /\ r \in Nat /\ s \in Nat
  BY Geometry
<1>3. h \in Nat
  BY <1>2, Geometry
<1> HIDE DEF q, r, h, s
<1> QED BY <1>1, <1>2, <1>3 DEF Place

(* With two heads, the place it computes is where the sector is.           *)
LEMMA PlacesRight ==
  ASSUME Heads = 2, NEW pos \in Nat, NEW k \in Nat
  PROVE  Linear(Sector(pos, k)) = pos + k
<1> DEFINE N == SectPerTrack
           M == N * 2
           q == pos \div M
           r == pos % M
           h == r \div N
           u == r % N
           x == q * 2 + h
<1>1. N \in Nat \ {0} /\ M \in Nat \ {0} /\ M = N * 2
  BY Geometry
<1>2. Linear(Sector(pos, k)) = x * N + ((pos % N) + 1 + k) - 1
  BY DEF Linear, Sector
<1> HIDE DEF N, M
<1>3. r \in 0 .. M - 1 /\ q \in Int /\ pos = M * q + r
  <2>1. pos \in Int /\ M \in Nat \ {0}
    BY <1>1
  <2> QED BY <2>1, DivMod, Zenon
<1> HIDE DEF q, r
<1>4. u \in 0 .. N - 1 /\ h \in Int /\ r = N * h + u
  BY <1>1, <1>3, DivMod
<1> HIDE DEF h, u
<1>5. pos = N * x + u /\ x \in Int
  BY <1>1, <1>3, <1>4
<1> HIDE DEF x
<1>6. pos % N = u
  BY <1>1, <1>4, <1>5, ModUnique
<1>7. x * N + (u + 1 + k) - 1 = pos + k
  BY <1>1, <1>4, <1>5
<1> QED BY <1>2, <1>6, <1>7

(* What a bounded poll can do to a command or a result.                    *)
LEMMA Transfers ==
  ASSUME NEW next, NEW r \in Transfer(next)
  PROVE  /\ r.ok \in BOOLEAN
         /\ r.ctl = Lost \/ (r.ctl = next /\ r.ok /\ ctl.phase # "lost")
<1>1. PICK n \in 1 .. Timeout + 1 :
        r = IF Polled(n) = "passed" /\ ctl.phase # "lost"
              THEN [ok |-> TRUE, ctl |-> next]
              ELSE [ok |-> Polled(n) # "refused", ctl |-> Lost]
  BY DEF Transfer
<1>2. CASE Polled(n) = "passed" /\ ctl.phase # "lost"
  BY <1>1, <1>2
<1>3. CASE ~(Polled(n) = "passed" /\ ctl.phase # "lost")
  BY <1>1, <1>3
<1> QED BY <1>2, <1>3

Controls == [phase : Phases, cmd : Commands, chs : Place, good : BOOLEAN]

(* The controller's states and the places that the steps assign.           *)
LEMMA StatesTyped ==
  /\ Sector0 \in Place /\ Lost \in Controls /\ Idle \in Controls /\ NoJob \in Jobs
  /\ \A cmd \in Commands, chs \in Place : Executes(cmd, chs) \in Controls
<1>1. Sector0 \in Place
  BY DEF Sector0, Place
<1>2. Lost \in Controls
  BY <1>1 DEF Lost, Controls, Phases, Commands
<1>3. Idle \in Controls
  BY <1>2 DEF Idle, Controls, Phases
<1>4. NoJob \in Jobs
  BY <1>1, EmptySeq DEF NoJob, Jobs
<1>5. \A cmd \in Commands, chs \in Place : Executes(cmd, chs) \in Controls
  BY DEF Executes, Controls, Phases
<1> QED BY <1>1, <1>2, <1>3, <1>4, <1>5

(* The places fdd_block_read goes to, wherever the geometry sends it.      *)
LEMMA NextPlaces ==
  ASSUME NEW chs \in Place
  PROVE  NextCHS(chs) \in Place /\ Places(chs) \subseteq Place
<1>1. NextCHS(chs) \in Place
  <2>1. chs.c \in Nat /\ chs.h \in Nat /\ chs.s \in Nat
    BY DEF Place
  <2>2. NextCHS(chs) \in {[chs EXCEPT !.s = @ + 1], [c |-> 0, h |-> chs.h + 1, s |-> 1],
                         [chs EXCEPT !.c = @ + 1, !.s = 1]}
    BY DEF NextCHS
  <2>3. [chs EXCEPT !.s = @ + 1] \in Place
    BY <2>1 DEF Place
  <2>4. [c |-> 0, h |-> chs.h + 1, s |-> 1] \in Place
    BY <2>1 DEF Place
  <2>5. [chs EXCEPT !.c = @ + 1, !.s = 1] \in Place
    <3>1. chs.c + 1 \in Nat /\ 1 \in Nat
      BY <2>1
    <3> QED BY <3>1, Zenon DEF Place
  <2> QED BY <2>2, <2>3, <2>4, <2>5
<1>2. Astray \subseteq Place
  BY Geometry DEF Astray, Place
<1> QED BY <1>1, <1>2 DEF Places

(* What a call may ask for.                                                *)
LEMMA CallArguments ==
  ASSUME NEW t \in Pid, NEW call \in Calls(t)
  PROVE  /\ call[1] \in Positions \cup {0} /\ call[1] \in Nat
         /\ call[2] \in Counts \cup {1} /\ call[2] \in Nat \ {0}
<1>1. \/ call = <<0, 1>>
      \/ call \in (Positions \ {0}) \X {1}
      \/ call \in (Positions \ {0}) \X Counts
  BY DEF Calls
<1>2. CASE call = <<0, 1>>
  <2>1. call[1] = 0 /\ call[2] = 1
    BY <1>2
  <2>2. 0 \in Nat /\ 1 \in Nat \ {0}
    OBVIOUS
  <2> QED BY <2>1, <2>2, Zenon
<1>3. CASE call \in (Positions \ {0}) \X {1}
  <2>1. call[1] \in Positions /\ call[2] = 1
    BY <1>3
  <2>2. Positions \subseteq Nat /\ 1 \in Nat \ {0}
    BY Geometry
  <2> QED BY <2>1, <2>2, Zenon
<1>4. CASE call \in (Positions \ {0}) \X Counts
  <2>1. call[1] \in Positions /\ call[2] \in Counts
    BY <1>4
  <2> QED BY <2>1, Geometry
<1> QED BY <1>1, <1>2, <1>3, <1>4

(* How a call that goes on, returns or fails leaves the jobs.              *)
LEMMA JobsTyped ==
  ASSUME FddTypes, NEW t \in Pid
  PROVE  /\ \A to : Return(t, to) => job' \in [Pid -> Jobs]
         /\ Failed(t) => job' \in [Pid -> Jobs]
<1>1. job \in [Pid -> Jobs] /\ NoJob \in Jobs
  BY StatesTyped DEF FddTypes
<1>2. ASSUME NEW to, Return(t, to) PROVE job' \in [Pid -> Jobs]
  BY <1>1, <1>2 DEF Return
<1>3. ASSUME Failed(t) PROVE job' \in [Pid -> Jobs]
  <2>1. CASE Alone(job[t])
    <3>1. job' = [job EXCEPT ![t].out = <<buffer>>, ![t].ok = FALSE]
      BY <1>3, <2>1 DEF Failed
    <3>2. <<buffer>> \in Seq(Place \cup {None})
      BY DEF FddTypes
    <3>3. [job[t] EXCEPT !.out = <<buffer>>, !.ok = FALSE] \in Jobs
      BY <1>1, <3>2 DEF Jobs
    <3> QED BY <1>1, <3>1, <3>3
  <2>2. CASE ~Alone(job[t])
    BY <1>2, <1>3, <2>2 DEF Failed, Abandon
  <2> QED BY <2>1, <2>2
<1> QED BY <1>2, <1>3

(* fdd_recalibrate of a drive.                                             *)
LEMMA RecalibrateTyped ==
  ASSUME FddTypes, NEW t, NEW drive \in 0 .. 3, NEW then, NEW onError,
         fdd_recalibrate(t, drive, then, onError)
  PROVE  /\ dor' \in [mot : SUBSET (0 .. 3), sel : 0 .. 3]
         /\ dor'.sel = drive /\ drive \in dor'.mot
         /\ ctl' \in Controls
<1>1. dor' = fdd_dev_sel(fdd_mot_en(dor, drive, TRUE), drive)
  BY DEF fdd_recalibrate
<1>2. dor' = [dor EXCEPT !.mot = @ \cup {drive}, !.sel = drive]
  BY <1>1 DEF fdd_dev_sel, fdd_mot_en, FddTypes
<1>3. PICK r \in Transfer(Executes("recalibrate", Sector0)) : ctl' = r.ctl
  BY DEF fdd_recalibrate
<1>4. ctl' \in Controls
  BY <1>3, Transfers, StatesTyped DEF Commands
<1> QED BY <1>2, <1>4 DEF FddTypes

(* The types hold along every step.                                        *)
LEMMA TypesKept ==
  ASSUME FddTypes, [Next]_vars
  PROVE  FddTypes'
<1> DEFINE Dors == [mot : SUBSET (0 .. 3), sel : 0 .. 3]
<1> USE StatesTyped, Pids DEF Controls
<1>1. CASE UNCHANGED vars
  BY <1>1 DEF vars, callVars, bootVars, deviceVars, FddTypes
<1>2. CASE Reset
  <2>1. /\ dor' = [mot |-> {}, sel |-> 0] /\ ctl' = Executes("reset", Sector0)
        /\ UNCHANGED <<job, geometry, count, irq, buffer>>
    BY <1>2 DEF Reset, bootVars, deviceVars
  <2>2. dor' \in Dors
    BY <2>1
  <2> QED BY <2>1, <2>2 DEF FddTypes, Commands
<1>3. ASSUME NEW at, Quiet(at) PROVE FddTypes'
  <2>1. PICK r \in Transfer(ctl) : ctl' = r.ctl
    BY <1>3 DEF Quiet
  <2>2. ctl' \in Controls
    BY <2>1, Transfers DEF FddTypes
  <2> QED BY <1>3, <2>2 DEF Quiet, bootVars, deviceVars, FddTypes
<1>4. CASE Calibrate
  <2>1. count \in 0 .. 4 /\ count > 0 /\ count' = count - 1 /\ count - 1 \in 0 .. 3
    BY <1>4 DEF Calibrate, FddTypes
  <2>2. dor' \in Dors /\ ctl' \in Controls
    BY <1>4, <2>1, RecalibrateTyped DEF Calibrate
  <2> QED BY <1>4, <2>1, <2>2 DEF Calibrate, deviceVars, FddTypes
<1>5. CASE MotorsOff
  <2>1. dor' = [dor EXCEPT !.mot = {}, !.sel = 0]
    BY <1>5 DEF MotorsOff, fdd_dev_sel, FddTypes
  <2>2. dor' \in Dors
    <3>1. dor \in Dors /\ {} \in SUBSET (0 .. 3) /\ 0 \in 0 .. 3
      BY DEF FddTypes
    <3> QED BY <2>1, <3>1
  <2> QED BY <1>5, <2>2 DEF MotorsOff, bootVars, deviceVars, FddTypes
<1>6. CASE Devices
  BY <1>6 DEF Devices, deviceVars, FddTypes
<1>7. CASE fdd_block_ioctl
  <2>1. Return(Boot, "user") /\ geometry' \in {"disk", "wrong", "none"}
        /\ UNCHANGED <<dor, buffer, count, irq, ctl>>
    BY <1>7 DEF fdd_block_ioctl, deviceVars
  <2> QED BY <2>1, JobsTyped DEF FddTypes
<1>8. CASE Booted \/ BootWaits \/ isr_fdd_c
  BY <1>8 DEF Booted, BootWaits, BootWait, Spin, Clear, Take, Put, NoUnit, Enqueue, isr_fdd_c, callVars, bootVars, deviceVars, FddTypes
<1>9. CASE Finish
  <2>1. ctl' \in Controls /\ buffer' \in Place \cup {None}
    <3>1. CASE ctl.cmd # "read" /\ ctl' = Idle /\ UNCHANGED buffer
      BY <3>1 DEF FddTypes
    <3>2. CASE \E good \in BOOLEAN :
                 /\ ctl' = [ctl EXCEPT !.good = good, !.phase = "result"]
                 /\ buffer' = IF good /\ dor.sel = 0 /\ 0 \in dor.mot THEN ctl.chs ELSE None
      BY <3>2 DEF FddTypes, Phases
    <3> QED BY <1>9, <3>1, <3>2 DEF Finish
  <2> QED BY <1>9, <2>1 DEF Finish, callVars, bootVars, FddTypes
<1>10. CASE Spurious
  BY <1>10 DEF Spurious, callVars, bootVars, FddTypes
<1>11. ASSUME NEW t \in Pid, fdd_block_read(t) PROVE FddTypes'
  <2>0. PICK call \in Calls(t) : \E chs \in Places(CHS(call[1])) :
          job' = [job EXCEPT ![t] = [NoJob EXCEPT !.pos = call[1], !.n = call[2], !.chs = chs]]
    BY <1>11, Zenon DEF fdd_block_read
  <2>1. PICK chs \in Places(CHS(call[1])) :
          job' = [job EXCEPT ![t] = [NoJob EXCEPT !.pos = call[1], !.n = call[2], !.chs = chs]]
    BY <2>0
  <2>2. call[1] \in Positions \cup {0} /\ call[2] \in Counts \cup {0, 1} /\ call[1] \in Nat
    BY CallArguments
  <2>3. chs \in Place
    BY <2>1, <2>2, PlacesExist, NextPlaces
  <2>4. [NoJob EXCEPT !.pos = call[1], !.n = call[2], !.chs = chs] \in Jobs
    BY <2>2, <2>3 DEF Jobs
  <2>5. job' \in [Pid -> Jobs]
    BY <2>1, <2>4 DEF FddTypes
  <2> QED BY <1>11, <2>5 DEF fdd_block_read, bootVars, deviceVars, FddTypes
<1>12. ASSUME NEW t \in Pid, Overhead(t) \/ Leave(t) PROVE FddTypes'
  <2>1. job' \in [Pid -> Jobs]
    BY <1>12, JobsTyped DEF Overhead, Abandon, Leave
  <2> QED BY <1>12, <2>1 DEF Overhead, Leave, bootVars, deviceVars, FddTypes
<1>13. ASSUME NEW t \in Pid, Recalibrate(t) PROVE FddTypes'
  <2>1. dor' \in Dors /\ ctl' \in Controls
    BY <1>13, RecalibrateTyped DEF Recalibrate
  <2> QED BY <1>13, <2>1 DEF Recalibrate, bootVars, deviceVars, FddTypes
<1>14. ASSUME NEW t \in Pid, Sense(t) PROVE FddTypes'
  <2>1. PICK r \in Transfer(ctl) : ctl' = r.ctl
    BY <1>14 DEF Sense
  <2>2. ctl' \in Controls
    BY <2>1, Transfers DEF FddTypes
  <2> QED BY <1>14, <2>2 DEF Sense, bootVars, deviceVars, FddTypes
<1>15. ASSUME NEW t \in Pid, Command(t) PROVE FddTypes'
  <2>1. PICK r \in Transfer(Executes("read", job[t].chs)) : ctl' = r.ctl
    BY <1>15 DEF Command
  <2>2. job[t].chs \in Place
    BY DEF FddTypes, Jobs
  <2>3. ctl' \in Controls
    BY <2>1, <2>2, Transfers DEF Commands
  <2>4. job' \in [Pid -> Jobs]
    BY <1>15, JobsTyped DEF Command, FddTypes
  <2> QED BY <1>15, <2>3, <2>4 DEF Command, bootVars, deviceVars, FddTypes
<1>16. ASSUME NEW t \in Pid, Result(t) PROVE FddTypes'
  <2>1. PICK r \in Transfer(Idle) : ctl' = r.ctl
    BY <1>16 DEF Result
  <2>2. ctl' \in Controls
    BY <2>1, Transfers
  <2>3. \/ Failed(t)
        \/ \E chs \in Places(NextCHS(job[t].chs)) :
             job' = [job EXCEPT ![t].out = Append(job[t].out, buffer), ![t].chs = chs]
    BY <1>16, Zenon DEF Result
  <2>4. job \in [Pid -> Jobs] /\ job[t].chs \in Place /\ job[t].out \in Seq(Place \cup {None})
        /\ buffer \in Place \cup {None}
    BY DEF FddTypes, Jobs
  <2>5. Append(job[t].out, buffer) \in Seq(Place \cup {None})
        /\ Places(NextCHS(job[t].chs)) \subseteq Place
    BY <2>4, NextPlaces, AppendProperties
  <2>6. ASSUME NEW chs \in Place
        PROVE  [job EXCEPT ![t].out = Append(job[t].out, buffer), ![t].chs = chs] \in [Pid -> Jobs]
    BY <2>4, <2>5 DEF Jobs
  <2>7. job' \in [Pid -> Jobs]
    <3>1. CASE Failed(t)
      BY <3>1, JobsTyped
    <3>2. ASSUME NEW chs \in Places(NextCHS(job[t].chs)),
                 job' = [job EXCEPT ![t].out = Append(job[t].out, buffer), ![t].chs = chs]
          PROVE  job' \in [Pid -> Jobs]
      <4>1. chs \in Place
        BY <2>5
      <4> QED BY <3>2, <4>1, <2>6
    <3> QED BY <2>3, <3>1, <3>2
  <2> QED BY <1>16, <2>2, <2>7 DEF Result, bootVars, deviceVars, FddTypes
<1> QED BY <1>1, <1>2, <1>3, <1>4, <1>5, <1>6, <1>7, <1>8, <1>9, <1>10, <1>11, <1>12, <1>13,
           <1>14, <1>15, <1>16 DEF Next, Booting, Step

----------------------------------------------------------------------------
InStep == FddTypes /\ Protocol /\ Selected /\ Reading /\ Data

(* No interrupt is to come, and none is left over.                         *)
Quiescent ==
  /\ ctl.phase # "lost" /\ ~Busy
  /\ floppy_sem.q = <<>> /\ floppy_sem.vl = 0 /\ boot_wait = "no"
  /\ ~up => ~fdd_int_recv

Commanding == {"sense", "command", "result"}

(* Who runs the driver runs it alone, and with every interrupt taken.      *)
LEMMA RunsAlone ==
  ASSUME FddInv, Protocol, NEW t \in Pid, NEW at \in PCs \ {"user", "failed"}, At(t, at),
         at \in Section \/ t = Boot
  PROVE  /\ pc[t] = at /\ (t = Boot <=> ~up) /\ boot_wait = "no"
         /\ ~Contains(fdc_sem.q, t) /\ ~Contains(floppy_sem.q, t)
         /\ \A u \in Pid \ {t} : pc[u] \notin Commanding
         /\ ~up => \A u \in Pid \ {t} : pc[u] = "user"
         /\ ctl.phase # "lost" => Quiescent
<1>1. /\ pc[t] = at /\ (t = Boot <=> ~up)
      /\ ~Contains(fdc_sem.q, t) /\ ~Contains(floppy_sem.q, t)
  BY RunsDriver, Pids DEF At, Asleep
<1>2. boot_wait = "no"
  BY <1>1 DEF FddInv, BootAlone, At, Control
<1>3. ~up => \A u \in Pid \ {t} : pc[u] = "user"
  BY <1>1, Pids DEF FddInv, BootAlone
<1>4. ASSUME NEW u \in Pid, pc[u] \in Commanding PROVE u = t
  <2>1. CASE ~up
    BY <1>3, <1>4, <2>1 DEF Commanding
  <2>2. CASE up
    <3>1. pc[t] \in Section
      BY <1>1, <2>2
    <3>2. t \in Inside /\ u \in Inside
      BY <1>1, <1>4, <3>1 DEF Inside, FddInv, Mutex, Section, Commanding
    <3> QED BY <3>2 DEF FddInv, Mutex
  <2> QED BY <2>1, <2>2
<1>5. ASSUME ctl.phase # "lost" PROVE Quiescent
  <2>1. ~Busy
    <3>1. CASE ~up
      BY <1>2, <1>5, <3>1 DEF Protocol
    <3>2. ASSUME up, Busy PROVE FALSE
      <4>1. PICK w \in Tasks : floppy_sem.q = <<w>>
        BY <1>5, <3>2 DEF Protocol
      <4>2. Contains(floppy_sem.q, w)
        BY <4>1 DEF Contains
      <4>3. pc[w] \in Commanding
        BY <4>2, Pids DEF Protocol, Commanding
      <4> QED BY <1>1, <1>4, <4>2, <4>3, Pids
    <3> QED BY <3>1, <3>2
  <2> QED BY <1>2, <1>5, <2>1 DEF Protocol, Quiescent
<1> QED BY <1>1, <1>2, <1>3, <1>4, <1>5

(* What a step of the driver by task t, to a place in its code, does: it   *)
(* goes on with the controller idle or out of step, or it waits for the    *)
(* one interrupt of the command it has given.                              *)
GoesOn == UNCHANGED <<boot_wait, taken, floppy_sem>> /\ (ctl' \in {ctl, Lost} \/ (ctl.phase # "lost" /\ ~Busy /\ ctl' = Idle))

Awaits(t, to) ==
  /\ fdd_wait_for_interrupt(t, to) /\ (t = Boot \/ to \in {"sense", "result"})
  /\ ctl' = Lost \/ (ctl'.phase = "exec" /\ Quiescent)

Turn(t, to) ==
  /\ pc' = [pc EXCEPT ![t] = to] /\ to # "reset"
  /\ ~Contains(floppy_sem.q, t) /\ (t = Boot <=> ~up)
  /\ UNCHANGED <<up, fdd_int_recv, irq, buffer>>
  /\ GoesOn \/ Awaits(t, to)
  /\ to \in Commanding => dor'.sel = 0 /\ 0 \in dor'.mot
  /\ to = "result" => ctl' = Lost \/ ctl' = Executes("read", job'[t].chs)
  /\ (\A u \in Pid \ {t} : pc[u] \notin Commanding) \/ UNCHANGED <<dor, ctl>>
  /\ \A u \in Pid \ {t} : job'[u] = job[u]
  /\ ctl'.phase # "lost" /\ geometry' # "wrong" =>
       /\ HasRead(t)'
       /\ \/ ctl.phase # "lost" /\ geometry # "wrong"
          \/ \A u \in Pid \ {t} : pc[u] = "user"

(* Such a step keeps the protocol.                                         *)
LEMMA TurnKeepsProtocol ==
  ASSUME FddInv, InStep, NEW t \in Pid, NEW to, Turn(t, to)
  PROVE  Protocol'
<1>1. /\ pc \in [Pid -> PCs] /\ \A u \in Pid : pc'[u] = IF u = t THEN to ELSE pc[u]
      /\ UNCHANGED <<up, fdd_int_recv, irq>> /\ ~Contains(floppy_sem.q, t)
  BY DEF FddInv, Control, Turn
<1>2. pc'[Boot] # "reset"
  BY <1>1, Pids DEF Turn, FddInv, BootAlone
<1>3. floppy_sem \in [vl : Nat, q : Seq(Pid)] /\ Lost.phase = "lost" /\ Idle.phase = "idle"
  BY DEF FddInv, Control, Lost, Idle
<1>4. CASE GoesOn
  <2>1. UNCHANGED <<boot_wait, taken, floppy_sem>> /\ (ctl' \in {ctl, Lost} \/ (ctl.phase # "lost" /\ ~Busy /\ ctl' = Idle))
    BY <1>4 DEF GoesOn
  <2>2. \A u \in Tasks : Contains(floppy_sem'.q, u) => pc'[u] \in {"sense", "result"}
    BY <1>1, <2>1, Pids DEF InStep, Protocol
  <2> QED
    <3>1. CASE ctl' = ctl
      BY <1>1, <1>2, <2>1, <2>2, <3>1 DEF InStep, Protocol, Busy
    <3>2. CASE ctl' = Lost
      BY <1>2, <1>3, <2>2, <3>2 DEF Protocol
    <3>3. CASE ctl.phase # "lost" /\ ~Busy /\ ctl' = Idle
      BY <1>1, <1>2, <1>3, <2>1, <2>2, <3>3 DEF InStep, Protocol, Busy
    <3> QED BY <2>1, <3>1, <3>2, <3>3
<1>5. CASE Awaits(t, to)
  <2>1. \A u \in Tasks : Contains(floppy_sem'.q, u) => pc'[u] \in {"sense", "result"}
    <3>1. CASE t = Boot
      BY <1>1, <1>5, <3>1 DEF Awaits, fdd_wait_for_interrupt, InStep, Protocol
    <3>2. CASE t # Boot
      <4>1. floppy_sem' = Wait(floppy_sem, t) /\ to \in {"sense", "result"}
        BY <1>5, <3>2 DEF Awaits, fdd_wait_for_interrupt
      <4>2. \A u \in Tasks : Contains(floppy_sem'.q, u) => Contains(floppy_sem.q, u) \/ u = t
        <5>1. CASE floppy_sem.vl > 0
          BY <4>1, <5>1, <1>3, WaitMoves
        <5>2. CASE floppy_sem.vl = 0
          BY <4>1, <5>2, <1>3, WaitMoves
        <5> QED BY <1>3, <5>1, <5>2
      <4> QED BY <1>1, <4>1, <4>2, Pids DEF InStep, Protocol
    <3> QED BY <3>1, <3>2
  <2>2. CASE ctl' = Lost
    BY <1>2, <1>3, <2>1, <2>2 DEF Protocol
  <2>3. CASE ctl'.phase = "exec" /\ Quiescent
    <3>1. ~irq' /\ floppy_sem.q = <<>> /\ floppy_sem.vl = 0 /\ (~up => ~fdd_int_recv')
      BY <1>1, <2>3 DEF Quiescent, Busy
    <3>2. CASE t = Boot
      <4>1. boot_wait' = "spin" /\ UNCHANGED floppy_sem /\ ~up'
        BY <1>1, <1>5, <3>2 DEF Awaits, fdd_wait_for_interrupt, Turn
      <4> QED BY <1>1, <1>2, <2>1, <2>3, <3>1, <4>1 DEF Protocol, Busy
    <3>3. CASE t # Boot
      <4>1. floppy_sem' = Wait(floppy_sem, t) /\ up' /\ t \in Tasks
        BY <1>1, <1>5, <3>3, Pids DEF Awaits, fdd_wait_for_interrupt, Turn
      <4>2. floppy_sem'.q = <<t>> /\ floppy_sem'.vl = 0
        BY <1>3, <3>1, <4>1 DEF Wait
      <4> QED BY <1>1, <1>2, <2>1, <2>3, <3>1, <4>1, <4>2 DEF Protocol, Busy
    <3> QED BY <3>2, <3>3
  <2> QED BY <1>5, <2>2, <2>3 DEF Awaits
<1> QED BY <1>4, <1>5 DEF Turn

(* And with it the drive, the command and what has been read.              *)
LEMMA TurnKeepsReading ==
  ASSUME FddInv, InStep, NEW t \in Pid, NEW to, Turn(t, to)
  PROVE  Selected' /\ Reading' /\ Data'
<1>1. /\ pc \in [Pid -> PCs] /\ \A u \in Pid : pc'[u] = IF u = t THEN to ELSE pc[u]
      /\ \A u \in Pid \ {t} : job'[u] = job[u]
      /\ buffer' = buffer
  BY DEF FddInv, Control, Turn
<1>2. Lost.phase = "lost"
  BY DEF Lost
<1>3. Selected'
  BY <1>1, Zenon DEF InStep, Selected, Turn, Commanding
<1>4. Reading'
  <2> SUFFICES ASSUME ctl'.phase # "lost", NEW u \in Pid, pc'[u] = "result"
               PROVE  /\ ctl'.cmd = "read" /\ ctl'.chs = job'[u].chs /\ ctl'.phase \in {"exec", "result"}
                      /\ ctl'.phase = "result" /\ ctl'.good => buffer' = ctl'.chs
    BY DEF Reading
  <2>1. CASE u = t
    BY <1>1, <1>2, <2>1 DEF Turn, Executes
  <2>2. CASE u # t
    <3>1. ctl' = ctl /\ pc[u] = "result" /\ job'[u] = job[u]
      BY <1>1, <2>2 DEF Turn, Commanding
    <3> QED BY <1>1, <3>1 DEF InStep, Reading
  <2> QED BY <2>1, <2>2
<1>5. Data'
  <2> SUFFICES ASSUME ctl'.phase # "lost", geometry' # "wrong", NEW u \in Pid PROVE HasRead(u)'
    BY DEF Data
  <2>1. CASE u = t
    BY <2>1 DEF Turn
  <2>2. CASE u # t /\ ctl.phase # "lost" /\ geometry # "wrong"
    <3>1. HasRead(u) /\ pc'[u] = pc[u] /\ job'[u] = job[u]
      BY <1>1, <2>2 DEF InStep, Data
    <3> QED BY <3>1 DEF HasRead
  <2>3. CASE u # t /\ pc[u] = "user"
    BY <1>1, <2>3 DEF HasRead, Section, Under
  <2> QED BY <2>1, <2>2, <2>3 DEF Turn
<1> QED BY <1>3, <1>4, <1>5

(* A place outside the section has nothing read; nothing is claimed out of *)
(* step.                                                                   *)
LEMMA NothingRead ==
  ASSUME FddInv, NEW t \in Pid, NEW to, pc' = [pc EXCEPT ![t] = to],
         to \notin Section \cup {"mounted"} \/ ctl' = Lost
  PROVE  ctl'.phase # "lost" => HasRead(t)'
<1>1. pc'[t] = to
  BY DEF FddInv, Control
<1> QED BY <1>1 DEF HasRead, Lost, Under, Section

(* The steps of fdd_init are such steps.                                   *)
LEMMA BootingTurns ==
  ASSUME FddInv, InStep, Booting
  PROVE  \E to : Turn(Boot, to)
<1> USE Pids
<1>1. ASSUME NEW at \in Early, At(Boot, at)
      PROVE  /\ ~up /\ ~Contains(floppy_sem.q, Boot) /\ pc[Boot] = at
             /\ \A u \in Pid \ {Boot} : pc[u] = "user" /\ pc[u] \notin Commanding
             /\ ctl.phase # "lost" => Quiescent
  BY <1>1, RunsAlone DEF PCs, Early, Section, InStep
<1>2. CASE Reset
  <2>1. /\ At(Boot, "reset") /\ fdd_wait_for_interrupt(Boot, "configure")
        /\ ctl' = Executes("reset", Sector0)
        /\ UNCHANGED <<job, up, fdd_int_recv, irq, buffer>>
    BY <1>2 DEF Reset, bootVars, deviceVars
  <2>2. pc' = [pc EXCEPT ![Boot] = "configure"] /\ ctl'.phase = "exec"
    BY <2>1 DEF fdd_wait_for_interrupt, Executes
  <2>3. Quiescent
    BY <2>1, <1>1 DEF Early, InStep, Protocol
  <2> QED BY <2>1, <2>2, <2>3, <1>1, NothingRead DEF Turn, Awaits, Early, Commanding, Section
<1>3. ASSUME NEW at \in {"configure", "calibrated"}, Quiet(at) PROVE \E to : Turn(Boot, to)
  <2>1. PICK to \in {"calibrate", "devices"}, r \in Transfer(ctl) : Goto(Boot, to) /\ ctl' = r.ctl
    BY <1>3 DEF Quiet
  <2>2. ctl' \in {ctl, Lost} /\ pc' = [pc EXCEPT ![Boot] = to] /\ at \in Early /\ At(Boot, at)
    BY <1>3, <2>1, Transfers DEF Goto, Early, Quiet
  <2>3. UNCHANGED <<job, up, fdd_int_recv, irq, buffer, boot_wait, taken, floppy_sem, dor>>
    BY <1>3 DEF Quiet, bootVars, waitVars, deviceVars
  <2> QED BY <2>2, <2>3, <1>1, NothingRead DEF Turn, GoesOn, Commanding, Section
<1>4. CASE Calibrate
  <2>1. /\ At(Boot, "calibrate") /\ fdd_recalibrate(Boot, count - 1, "calibrated", "devices")
        /\ UNCHANGED <<job, up, fdd_int_recv, irq, buffer>>
    BY <1>4 DEF Calibrate, deviceVars
  <2>2. PICK r \in Transfer(Executes("recalibrate", Sector0)) :
          /\ ctl' = r.ctl
          /\ IF r.ok THEN fdd_wait_for_interrupt(Boot, "calibrated")
                     ELSE Goto(Boot, "devices") /\ UNCHANGED waitVars
    BY <2>1 DEF fdd_recalibrate
  <2>3. /\ Executes("recalibrate", Sector0).phase = "exec"
        /\ ctl' = Lost \/ (ctl' = Executes("recalibrate", Sector0) /\ r.ok /\ ctl.phase # "lost")
    BY <2>2, Transfers DEF Executes
  <2>4. CASE r.ok
    <3>1. pc' = [pc EXCEPT ![Boot] = "calibrated"] /\ Awaits(Boot, "calibrated")
      BY <2>1, <2>2, <2>3, <2>4, <1>1 DEF fdd_wait_for_interrupt, Awaits, Early
    <3> QED BY <3>1, <2>1, <1>1, NothingRead DEF Turn, Early, Commanding, Section
  <2>5. CASE ~r.ok
    <3>1. pc' = [pc EXCEPT ![Boot] = "devices"] /\ GoesOn
      BY <2>2, <2>3, <2>5 DEF Goto, GoesOn, waitVars
    <3> QED BY <3>1, <2>1, <1>1, NothingRead DEF Turn, Early, Commanding, Section
  <2> QED BY <2>4, <2>5
<1>5. CASE MotorsOff \/ Devices
  <2>1. PICK at \in {"calibrate", "devices"}, to \in {"devices", "mount"} :
          /\ At(Boot, at) /\ Goto(Boot, to)
          /\ UNCHANGED <<job, up, fdd_int_recv, irq, buffer, boot_wait, taken, floppy_sem, ctl>>
    BY <1>5 DEF MotorsOff, Devices, bootVars, waitVars, deviceVars
  <2>2. pc' = [pc EXCEPT ![Boot] = to] /\ GoesOn /\ at \in Early
    BY <2>1 DEF Goto, GoesOn, Early
  <2> QED BY <2>1, <2>2, <1>1, NothingRead DEF Turn, Commanding, Section
<1> QED BY <1>2, <1>3, <1>4, <1>5 DEF Booting

(* So are the end of the mounting and the entrance of a read.              *)
LEMMA CallTurns ==
  ASSUME FddInv, InStep, NEW t \in Pid, fdd_block_read(t) \/ (t = Boot /\ fdd_block_ioctl)
  PROVE  \E to : Turn(t, to)
<1> USE Pids
<1>1. CASE t = Boot /\ fdd_block_ioctl
  <2>1. /\ At(Boot, "mounted") /\ geometry = "none" /\ Return(Boot, "user")
        /\ UNCHANGED <<up, fdd_int_recv, irq, buffer, boot_wait, taken, floppy_sem, ctl, dor>>
    BY <1>1 DEF fdd_block_ioctl, waitVars, deviceVars
  <2>2. ~up /\ ~Contains(floppy_sem.q, Boot)
    BY <2>1, RunsAlone DEF PCs, InStep
  <2>3. pc' = [pc EXCEPT ![Boot] = "user"] /\ \A u \in Pid \ {Boot} : job'[u] = job[u]
    BY <2>1 DEF Return, InStep, FddTypes
  <2> QED BY <1>1, <2>1, <2>2, <2>3, NothingRead DEF Turn, GoesOn, Commanding, Section
<1>2. CASE fdd_block_read(t)
  <2>1. PICK call \in Calls(t) : \E chs \in Places(CHS(call[1])) :
          job' = [job EXCEPT ![t] = [NoJob EXCEPT !.pos = call[1], !.n = call[2], !.chs = chs]]
    BY <1>2, Zenon DEF fdd_block_read
  <2>2. PICK chs \in Places(CHS(call[1])) :
          job' = [job EXCEPT ![t] = [NoJob EXCEPT !.pos = call[1], !.n = call[2], !.chs = chs]]
    BY <2>1
  <2>3. /\ pc' = [pc EXCEPT ![t] = "section"]
        /\ At(t, "user") \/ At(t, "mount")
        /\ UNCHANGED <<up, fdd_int_recv, irq, buffer, boot_wait, taken, floppy_sem, ctl, dor, geometry>>
    BY <1>2 DEF fdd_block_read, bootVars, waitVars, deviceVars
  <2>4. (t = Boot <=> ~up) /\ ~Contains(floppy_sem.q, t)
    BY <2>1, <2>3 DEF Calls, At, Asleep
  <2>5. call[1] \in Nat /\ call[2] \in Nat \ {0}
    BY CallArguments
  <2>6. /\ job'[t].ok /\ job'[t].out = <<>> /\ job'[t].n = call[2] /\ job'[t].pos = call[1]
        /\ job'[t].chs = chs /\ pc'[t] = "section"
        /\ \A u \in Pid \ {t} : job'[u] = job[u]
    <3>1. /\ pc'[t] = "section" /\ \A u \in Pid \ {t} : job'[u] = job[u]
          /\ job'[t] = [NoJob EXCEPT !.pos = call[1], !.n = call[2], !.chs = chs]
      <4> DEFINE new == [NoJob EXCEPT !.pos = call[1], !.n = call[2], !.chs = chs]
      <4>1. job' = [job EXCEPT ![t] = new]
        BY <2>2
      <4> HIDE DEF new
      <4>2. job' = [u \in Pid |-> IF u = t THEN new ELSE job[u]]
        BY <4>1 DEF InStep, FddTypes
      <4>3. job'[t] = new /\ (\A u \in Pid \ {t} : job'[u] = job[u])
        BY <4>2
      <4>4. pc'[t] = "section"
        BY <2>3 DEF FddInv, Control
      <4> QED BY <4>3, <4>4 DEF new
    <3>2. job'[t] = [pos |-> call[1], n |-> call[2], chs |-> chs, out |-> <<>>, ok |-> TRUE]
      BY <3>1 DEF NoJob
    <3>3. job'[t].ok
      <4>1. job'[t].ok = TRUE
        BY <3>2
      <4> QED BY <4>1, Zenon
    <3>4. /\ job'[t].out = <<>> /\ job'[t].n = call[2] /\ job'[t].pos = call[1]
          /\ job'[t].chs = chs
      BY <3>2
    <3> QED BY <3>1, <3>3, <3>4, Zenon
  <2>7. ASSUME geometry' # "wrong" PROVE HasRead(t)'
    <3>1. chs = Sector(call[1], 0)
      BY <2>2, <2>3, <2>5, <2>7, PlacesExist DEF Places
    <3>2. Len(job'[t].out) = 0 /\ 0 < job'[t].n
      BY <2>5, <2>6, EmptySeq
    <3> QED BY <2>6, <3>1, <3>2 DEF HasRead, Under
  <2> QED
    <3>1. ctl'.phase # "lost" /\ geometry' # "wrong" => ctl.phase # "lost" /\ geometry # "wrong"
      BY <2>3
    <3>2. "section" # "reset" /\ "section" # "result" /\ "section" \notin Commanding /\ GoesOn
      BY <2>3 DEF Commanding, GoesOn
    <3>3. Turn(t, "section")
      BY <2>3, <2>4, <2>6, <2>7, <3>1, <3>2 DEF Turn
    <3> QED BY <3>3
<1> QED BY <1>1, <1>2

(* A call that fails has read nothing that it claims to be right.          *)
LEMMA FailsTurn ==
  ASSUME FddInv, InStep, NEW t \in Pid, Failed(t) \/ Abandon(t)
  PROVE  /\ \E to \in {"leave", "failed", "user"} : pc' = [pc EXCEPT ![t] = to]
         /\ \A u \in Pid \ {t} : job'[u] = job[u]
         /\ HasRead(t)'
<1>1. pc \in [Pid -> PCs] /\ job \in [Pid -> Jobs]
  BY DEF FddInv, Control, InStep, FddTypes
<1>2. CASE Abandon(t)
  <2>1. PICK to \in {"failed", "user"} : pc' = [pc EXCEPT ![t] = to] /\ job' = [job EXCEPT ![t] = NoJob]
    BY <1>2 DEF Abandon, Return
  <2>2. pc'[t] = to /\ \A u \in Pid \ {t} : job'[u] = job[u]
    BY <1>1, <2>1
  <2> QED BY <2>1, <2>2 DEF HasRead, Under, Section
<1>3. CASE Failed(t) /\ Alone(job[t])
  <2>1. pc' = [pc EXCEPT ![t] = "leave"] /\ job' = [job EXCEPT ![t].out = <<buffer>>, ![t].ok = FALSE]
    BY <1>3 DEF Failed, Goto
  <2>2. /\ pc'[t] = "leave" /\ (\A u \in Pid \ {t} : job'[u] = job[u])
        /\ job'[t].ok = FALSE
    BY <1>1, <2>1 DEF Jobs
  <2> QED BY <2>1, <2>2 DEF HasRead, Under
<1> QED BY <1>2, <1>3 DEF Failed

(* The steps of a read up to its wait for the interrupt of the command.    *)
LEMMA CommandTurns ==
  ASSUME FddInv, InStep, NEW t \in Pid, Recalibrate(t) \/ Sense(t) \/ Command(t)
  PROVE  \E to : Turn(t, to)
<1>1. ASSUME NEW at \in Under, At(t, at)
      PROVE  /\ (t = Boot <=> ~up) /\ ~Contains(floppy_sem.q, t) /\ pc[t] = at
             /\ \A u \in Pid \ {t} : pc[u] \notin Commanding
             /\ ctl.phase # "lost" => Quiescent
  BY <1>1, RunsAlone DEF PCs, Under, Section, InStep
<1>2. pc \in [Pid -> PCs]
  BY DEF FddInv, Control
<1>3. ASSUME NEW to \in Under, pc' = [pc EXCEPT ![t] = to], job' = job, pc[t] \in Under,
             UNCHANGED geometry, ctl.phase # "lost", geometry # "wrong"
      PROVE  HasRead(t)'
  <2>1. pc'[t] = to
    BY <1>2, <1>3
  <2>2. HasRead(t)
    BY <1>3 DEF InStep, Data
  <2>3. pc'[t] \in Section \cup {"mounted"} /\ pc[t] \in Section \cup {"mounted"}
        /\ pc'[t] \in Under /\ pc'[t] \notin {"leave", "mounted"}
    BY <1>3, <2>1 DEF Under, Section
  <2> QED BY <1>3, <2>2, <2>3 DEF HasRead
<1>4. CASE Recalibrate(t)
  <2>1. /\ At(t, "section") /\ fdd_recalibrate(t, 0, "sense", "command")
        /\ UNCHANGED <<job, up, fdd_int_recv, irq, buffer, geometry>>
    BY <1>4 DEF Recalibrate, bootVars, deviceVars
  <2>2. PICK r \in Transfer(Executes("recalibrate", Sector0)) :
          /\ ctl' = r.ctl
          /\ IF r.ok THEN fdd_wait_for_interrupt(t, "sense")
                     ELSE Goto(t, "command") /\ UNCHANGED waitVars
    BY <2>1 DEF fdd_recalibrate
  <2>3. /\ Executes("recalibrate", Sector0).phase = "exec" /\ Lost.phase = "lost"
        /\ ctl' = Lost \/ (ctl' = Executes("recalibrate", Sector0) /\ r.ok /\ ctl.phase # "lost")
    BY <2>2, Transfers DEF Executes, Lost
  <2>4. dor'.sel = 0 /\ 0 \in dor'.mot
    BY <2>1, RecalibrateTyped DEF InStep
  <2>5. CASE r.ok
    <3>1. pc' = [pc EXCEPT ![t] = "sense"] /\ Awaits(t, "sense")
      BY <2>1, <2>2, <2>3, <2>5, <1>1 DEF fdd_wait_for_interrupt, Awaits, Under
    <3>2. Turn(t, "sense")
      BY <3>1, <2>1, <2>3, <2>4, <1>1, <1>3 DEF Turn, Under
    <3> QED BY <3>2
  <2>6. CASE ~r.ok
    <3>1. pc' = [pc EXCEPT ![t] = "command"] /\ GoesOn
      BY <2>2, <2>3, <2>6 DEF Goto, GoesOn, waitVars
    <3>2. Turn(t, "command")
      BY <3>1, <2>1, <2>3, <2>4, <2>6, <1>1, <1>3 DEF Turn, Under
    <3> QED BY <3>2
  <2> QED BY <2>5, <2>6
<1>5. CASE Sense(t)
  <2>1. /\ At(t, "sense") /\ Goto(t, "command")
        /\ UNCHANGED <<job, up, fdd_int_recv, irq, buffer, geometry, boot_wait, taken, floppy_sem, dor>>
    BY <1>5 DEF Sense, bootVars, waitVars, deviceVars
  <2>2. PICK r \in Transfer(ctl) : ctl' = r.ctl
    BY <1>5 DEF Sense
  <2>3. (ctl' = Lost \/ (ctl' = ctl /\ ctl.phase # "lost")) /\ Lost.phase = "lost"
    BY <2>2, Transfers DEF Lost
  <2>4. pc' = [pc EXCEPT ![t] = "command"] /\ GoesOn /\ dor'.sel = 0 /\ 0 \in dor'.mot
    BY <2>1, <2>3, <1>1 DEF Goto, GoesOn, InStep, Selected, Under
  <2>5. Turn(t, "command")
    BY <2>1, <2>3, <2>4, <1>1, <1>3 DEF Turn, Under
  <2> QED BY <2>5
<1>6. CASE Command(t)
  <2>1. /\ At(t, "command")
        /\ UNCHANGED <<up, fdd_int_recv, irq, buffer, geometry, dor>>
    BY <1>6 DEF Command, bootVars, deviceVars
  <2>2. PICK r \in Transfer(Executes("read", job[t].chs)) :
          /\ ctl' = r.ctl
          /\ IF r.ok THEN fdd_wait_for_interrupt(t, "result") /\ UNCHANGED job
                     ELSE Failed(t) /\ UNCHANGED waitVars
    BY <1>6 DEF Command
  <2>3. /\ Executes("read", job[t].chs).phase = "exec" /\ Lost.phase = "lost"
        /\ ctl' = Lost \/ (ctl' = Executes("read", job[t].chs) /\ r.ok /\ ctl.phase # "lost")
    BY <2>2, Transfers DEF Executes, Lost
  <2>4. dor'.sel = 0 /\ 0 \in dor'.mot
    BY <2>1, <1>1 DEF InStep, Selected, Under
  <2>5. CASE r.ok
    <3>1. pc' = [pc EXCEPT ![t] = "result"] /\ Awaits(t, "result") /\ job' = job
      BY <2>1, <2>2, <2>3, <2>5, <1>1 DEF fdd_wait_for_interrupt, Awaits, Under
    <3>2. Turn(t, "result")
      BY <3>1, <2>1, <2>3, <2>4, <1>1, <1>3 DEF Turn, Under
    <3> QED BY <3>2
  <2>6. CASE ~r.ok
    <3>1. ctl' = Lost /\ Failed(t) /\ UNCHANGED waitVars /\ GoesOn
      BY <2>2, <2>3, <2>6 DEF GoesOn, waitVars
    <3>2. PICK to \in {"leave", "failed", "user"} : pc' = [pc EXCEPT ![t] = to]
      BY <3>1, FailsTurn
    <3>3. Turn(t, to)
      BY <3>1, <3>2, <2>1, <2>3, <1>1, FailsTurn DEF Turn, Under, Commanding
    <3> QED BY <3>3
  <2> QED BY <2>5, <2>6
<1> QED BY <1>4, <1>5, <1>6

(* The place after k sectors of a request that stays on its track.         *)
LEMMA NextOnTrack ==
  ASSUME NEW pos \in Nat, NEW k \in Nat, NEW n \in Nat, k + 1 < n,
         (pos % SectPerTrack) + n <= SectPerTrack
  PROVE  NextCHS(Sector(pos, k)) = Sector(pos, k + 1)
<1> DEFINE c == pos \div (SectPerTrack * 2)
           h == (pos % (SectPerTrack * 2)) \div SectPerTrack
           s == pos % SectPerTrack
<1>1. /\ Sector(pos, k) = [c |-> c, h |-> h, s |-> s + 1 + k]
      /\ Sector(pos, k + 1) = [c |-> c, h |-> h, s |-> s + 1 + (k + 1)]
  BY DEF Sector
<1>2. s \in Nat /\ SectPerTrack \in Nat /\ s + n <= SectPerTrack
  BY Geometry
<1> HIDE DEF c, h, s
<1>3. s + 1 + k < SectPerTrack /\ (s + 1 + k) + 1 = s + 1 + (k + 1)
  BY <1>2
<1>4. NextCHS(Sector(pos, k)) = [c |-> c, h |-> h, s |-> (s + 1 + k) + 1]
  BY <1>1, <1>3 DEF NextCHS
<1> QED BY <1>1, <1>3, <1>4

(* A sector more: the one after the sectors read so far.                   *)
LEMMA ReadsOneMore ==
  ASSUME FddInv, InStep, NEW t \in Pid, pc[t] = "result", HasRead(t),
         buffer = job[t].chs, geometry # "wrong",
         NEW to \in {"section", "leave"}, pc' = [pc EXCEPT ![t] = to],
         NEW chs \in Places(NextCHS(job[t].chs)),
         job' = [job EXCEPT ![t].out = Append(job[t].out, buffer), ![t].chs = chs],
         to = IF Len(Append(job[t].out, buffer)) < job[t].n THEN "section" ELSE "leave"
  PROVE  HasRead(t)'
<1> DEFINE out == job[t].out
           k   == Len(out)
           pos == job[t].pos
           n   == job[t].n
           new == Append(out, buffer)
<1>1. /\ pc[t] \in Under /\ pc[t] \in Section \cup {"mounted"} /\ pc'[t] = to
      /\ job[t] \in Jobs /\ job \in [Pid -> Jobs]
  BY DEF FddInv, Control, InStep, FddTypes, Under, Section
<1>2. /\ pos \in Nat /\ n \in Nat /\ out \in Seq(Place \cup {None}) /\ k \in Nat
      /\ job[t].ok \in BOOLEAN /\ job[t].ok = TRUE /\ k < n
  <2>1. pos \in Nat /\ n \in Nat /\ out \in Seq(Place \cup {None}) /\ job[t].ok \in BOOLEAN
    BY <1>1, Geometry DEF Jobs
  <2>2. job[t].ok /\ k < n
    BY <1>1 DEF HasRead
  <2> QED BY <2>1, <2>2, LenProperties
<1>3. job'[t] = [job[t] EXCEPT !.out = new, !.chs = chs]
  BY <1>1
<1>4. /\ job'[t].out = new /\ job'[t].chs = chs /\ job'[t].pos = pos /\ job'[t].n = n
      /\ job'[t].ok = TRUE
  <2> HIDE DEF new
  <2> QED BY <1>1, <1>2, <1>3 DEF Jobs
<1>5. /\ Len(new) = k + 1 /\ new[k + 1] = buffer
      /\ \A i \in 1 .. k : new[i] = out[i]
  <2>1. buffer \in Place \cup {None}
    BY DEF InStep, FddTypes
  <2> QED BY <1>2, <2>1, AppendProperties
<1>6. chs = NextCHS(job[t].chs)
  BY DEF Places
<1>7. pc'[t] = IF k + 1 < n THEN "section" ELSE "leave"
  BY <1>1, <1>5
<1>8. pc'[t] \in Under => job'[t].ok /\ Len(job'[t].out) < job'[t].n
  BY <1>4, <1>5, <1>7 DEF Under
<1>9. ASSUME OnOneTrack(job'[t])
      PROVE  /\ \A i \in 1 .. Len(job'[t].out) : job'[t].out[i] = Sector(job'[t].pos, i - 1)
             /\ pc'[t] \in Under => job'[t].chs = Sector(job'[t].pos, Len(job'[t].out))
             /\ pc'[t] \in {"leave", "mounted"} => Len(job'[t].out) = job'[t].n
  <2>1. (pos % SectPerTrack) + n <= SectPerTrack /\ OnOneTrack(job[t])
    BY <1>4, <1>9 DEF OnOneTrack
  <2>2. /\ \A i \in 1 .. k : out[i] = Sector(pos, i - 1)
        /\ job[t].chs = Sector(pos, k)
    BY <1>1, <1>2, <2>1 DEF HasRead
  <2> HIDE DEF out, pos, n, new
  <2> DEFINE m == k
  <2>3. \A i \in 1 .. k + 1 : new[i] = Sector(pos, i - 1)
    <3> SUFFICES ASSUME NEW i \in 1 .. k + 1 PROVE new[i] = Sector(pos, i - 1)
      OBVIOUS
    <3>1. CASE i \in 1 .. k
      BY <3>1, <1>5, <2>2
    <3>2. CASE i = k + 1
      <4>1. i - 1 = k
        BY <3>2, <1>2
      <4>2. new[i] = Sector(pos, k)
        BY <3>2, <1>5, <2>2
      <4> QED BY <4>1, <4>2
    <3> QED BY <3>1, <3>2, <1>2
  <2>4. k + 1 < n => chs = Sector(pos, k + 1)
    BY <1>2, <1>6, <2>1, <2>2, NextOnTrack
  <2>5. ~(k + 1 < n) => k + 1 = n
    BY <1>2
  <2> QED BY <1>4, <1>5, <1>7, <2>3, <2>4, <2>5 DEF Under
<1> QED BY <1>8, <1>9 DEF HasRead

(* The steps of a read that end a sector, or the call.                     *)
LEMMA ResultTurns ==
  ASSUME FddInv, InStep, NEW t \in Pid, Overhead(t) \/ Result(t) \/ Leave(t)
  PROVE  \E to : Turn(t, to)
<1>1. ASSUME NEW at \in Section, At(t, at)
      PROVE  /\ (t = Boot <=> ~up) /\ ~Contains(floppy_sem.q, t) /\ pc[t] = at
             /\ \A u \in Pid \ {t} : pc[u] \notin Commanding
             /\ ctl.phase # "lost" => Quiescent
  BY <1>1, RunsAlone DEF PCs, Section, InStep
<1>2. pc \in [Pid -> PCs] /\ job \in [Pid -> Jobs] /\ Lost.phase = "lost" /\ Idle.phase = "idle"
  BY DEF FddInv, Control, InStep, FddTypes, Lost, Idle
<1>3. CASE Overhead(t)
  <2>1. /\ At(t, "section") /\ Abandon(t)
        /\ UNCHANGED <<up, fdd_int_recv, irq, buffer, geometry, boot_wait, taken, floppy_sem, dor, ctl>>
    BY <1>3 DEF Overhead, bootVars, waitVars, deviceVars
  <2>2. PICK to \in {"leave", "failed", "user"} : pc' = [pc EXCEPT ![t] = to]
    BY <2>1, FailsTurn
  <2>3. Turn(t, to)
    BY <2>1, <2>2, <1>1, FailsTurn DEF Turn, GoesOn, Section, Commanding
  <2> QED BY <2>3
<1>4. CASE Leave(t)
  <2>1. PICK to \in {"mounted", "user"} :
          /\ At(t, "leave") /\ Return(t, to)
          /\ UNCHANGED <<up, fdd_int_recv, irq, buffer, geometry, boot_wait, taken, floppy_sem, dor, ctl>>
    BY <1>4 DEF Leave, bootVars, waitVars, deviceVars
  <2>2. pc' = [pc EXCEPT ![t] = to] /\ pc'[t] = to /\ \A u \in Pid \ {t} : job'[u] = job[u]
    BY <2>1, <1>2 DEF Return
  <2>3. ASSUME ctl'.phase # "lost", geometry' # "wrong" PROVE HasRead(t)'
    <3>1. CASE to = "user"
      BY <2>2, <3>1 DEF HasRead, Under, Section
    <3>2. CASE to = "mounted"
      <4>1. job'[t] = job[t]
        BY <2>1, <3>2, <1>2 DEF Return
      <4>2. HasRead(t) /\ pc[t] = "leave"
        BY <2>1, <2>3, <1>1 DEF InStep, Data, Section
      <4>3. pc[t] \in Section \cup {"mounted"} /\ pc'[t] \notin Under
        BY <4>2, <3>2, <2>2 DEF Section, Under
      <4>4. job[t].ok /\ OnOneTrack(job[t]) =>
              /\ \A i \in 1 .. Len(job[t].out) : job[t].out[i] = Sector(job[t].pos, i - 1)
              /\ Len(job[t].out) = job[t].n
        BY <4>2, <4>3 DEF HasRead
      <4> QED BY <4>1, <4>3, <4>4 DEF HasRead
    <3> QED BY <3>1, <3>2
  <2>4. Turn(t, to)
    BY <2>1, <2>2, <2>3, <1>1 DEF Turn, GoesOn, Section, Commanding
  <2> QED BY <2>4
<1>5. CASE Result(t)
  <2>1. /\ At(t, "result")
        /\ UNCHANGED <<up, fdd_int_recv, irq, buffer, geometry, boot_wait, taken, floppy_sem, dor>>
    BY <1>5 DEF Result, bootVars, waitVars, deviceVars
  <2>2. PICK r \in Transfer(Idle) :
          /\ ctl' = r.ctl
          /\ \E good \in IF r.ctl.phase = "lost" THEN BOOLEAN ELSE {ctl.good} :
               IF ~(r.ok /\ good) THEN Failed(t)
               ELSE LET out == Append(job[t].out, buffer)
                    IN  /\ \E chs \in Places(NextCHS(job[t].chs)) :
                             job' = [job EXCEPT ![t].out = out, ![t].chs = chs]
                        /\ Goto(t, IF Len(out) < job[t].n THEN "section" ELSE "leave")
    BY <1>5, Zenon DEF Result
  <2>3. ctl' = Lost \/ (ctl' = Idle /\ r.ok /\ ctl.phase # "lost")
    BY <2>2, Transfers
  <2>4. GoesOn
    BY <2>1, <2>3, <1>1 DEF GoesOn, Section, Quiescent
  <2>5. PICK good \in IF r.ctl.phase = "lost" THEN BOOLEAN ELSE {ctl.good} :
               IF ~(r.ok /\ good) THEN Failed(t)
               ELSE LET out == Append(job[t].out, buffer)
                    IN  /\ \E chs \in Places(NextCHS(job[t].chs)) :
                             job' = [job EXCEPT ![t].out = out, ![t].chs = chs]
                        /\ Goto(t, IF Len(out) < job[t].n THEN "section" ELSE "leave")
    BY <2>2, Zenon
  <2>6. CASE ~(r.ok /\ good)
    <3>1. Failed(t)
      BY <2>5, <2>6
    <3>2. PICK to \in {"leave", "failed", "user"} : pc' = [pc EXCEPT ![t] = to]
      BY <3>1, FailsTurn
    <3>3. ctl'.phase # "lost" => ctl.phase # "lost"
      BY <2>3, <1>2
    <3>4. Turn(t, to)
      BY <3>1, <3>2, <3>3, <2>1, <2>4, <1>1, FailsTurn DEF Turn, Section, Commanding
    <3> QED BY <3>4
  <2>7. CASE r.ok /\ good
    <3> DEFINE to == IF Len(Append(job[t].out, buffer)) < job[t].n THEN "section" ELSE "leave"
    <3>1. PICK chs \in Places(NextCHS(job[t].chs)) :
            job' = [job EXCEPT ![t].out = Append(job[t].out, buffer), ![t].chs = chs]
      BY <2>5, <2>7
    <3>2. pc' = [pc EXCEPT ![t] = to] /\ to \in {"section", "leave"}
      BY <2>5, <2>7 DEF Goto
    <3>3. \A u \in Pid \ {t} : job'[u] = job[u]
      BY <3>1, <1>2
    <3>4. ASSUME ctl'.phase # "lost", geometry' # "wrong" PROVE HasRead(t)'
      <4>1. ctl.phase # "lost" /\ ctl' = Idle /\ r.ctl.phase # "lost"
        BY <2>2, <2>3, <3>4, <1>2
      <4>2. ctl.good
        BY <4>1, <2>7, <2>5
      <4>3. pc[t] = "result" /\ ~Busy
        BY <2>1, <1>1, <4>1 DEF Section, Quiescent
      <4>4. buffer = job[t].chs
        BY <4>1, <4>2, <4>3 DEF InStep, Reading, Busy
      <4>5. HasRead(t) /\ geometry # "wrong"
        BY <4>1, <3>4, <2>1 DEF InStep, Data
      <4> QED BY <4>3, <4>4, <4>5, <3>1, <3>2, ReadsOneMore
    <3>5. ctl'.phase # "lost" => ctl.phase # "lost"
      BY <2>3, <1>2
    <3>6. Turn(t, to)
      <4> HIDE DEF to
      <4> QED BY <3>2, <3>3, <3>4, <3>5, <2>1, <2>4, <1>1 DEF Turn, Section, Commanding
    <3> QED BY <3>6
  <2> QED BY <2>6, <2>7
<1> QED BY <1>3, <1>4, <1>5

(* The steps that are not a task's: the tasks are started, and interrupts. *)
LEMMA InterruptsKeepStep ==
  ASSUME FddInv, InStep, Booted \/ BootWaits \/ isr_fdd_c \/ Finish \/ Spurious \/ UNCHANGED vars
  PROVE  Protocol' /\ Selected' /\ Reading' /\ Data'
<1>1. floppy_sem \in [vl : Nat, q : Seq(Pid)] /\ up \in BOOLEAN /\ fdd_int_recv \in BOOLEAN
  BY DEF FddInv, Control
<1>2. pc' = pc /\ job' = job /\ dor' = dor /\ geometry' = geometry
  BY DEF Booted, BootWaits, BootWait, Spin, Clear, Take, Put, NoUnit, Enqueue, isr_fdd_c, Finish, Spurious,
         vars, callVars, bootVars
<1>3. Selected'
  BY <1>2 DEF InStep, Selected
<1>4. CASE UNCHANGED vars
  BY <1>4 DEF vars, callVars, bootVars, waitVars, deviceVars, InStep, Protocol, Busy, Selected, Reading, Data, HasRead
<1>5. CASE Booted \/ BootWaits \/ isr_fdd_c \/ Spurious
  <2>1. ctl' = ctl /\ (buffer' = buffer \/ ctl.phase = "lost")
    BY <1>5 DEF Booted, BootWaits, BootWait, Spin, Clear, Take, Put, NoUnit, Enqueue, isr_fdd_c, Spurious,
                deviceVars
  <2>2. Reading' /\ Data'
    BY <1>2, <2>1 DEF InStep, Reading, Data, HasRead
  <2>3. CASE Booted
    <3>1. boot_wait = "no" /\ ~up /\ up' = TRUE /\ UNCHANGED <<floppy_sem, boot_wait, taken, fdd_int_recv, irq>>
      BY <2>3 DEF Booted, At, waitVars, deviceVars
    <3> QED BY <1>2, <1>3, <2>1, <2>2, <3>1 DEF InStep, Protocol, Busy
  <2>4. CASE BootWaits
    <3>1. boot_wait # "no" /\ ~up /\ UNCHANGED <<up, irq>>
      BY <2>4 DEF BootWaits, BootWait, Spin, Clear, Take, Put, NoUnit, Enqueue, FddInv, BootAlone, bootVars
    <3>2. \A t \in Tasks : Contains(floppy_sem'.q, t) => pc[t] \in {"sense", "result"}
      <4>1. CASE UNCHANGED floppy_sem
        BY <4>1 DEF InStep, Protocol
      <4>2. CASE Put
        <5>1. floppy_sem'.q = floppy_sem.q
          BY <1>1, <4>2 DEF Put
        <5> QED BY <5>1 DEF InStep, Protocol
      <4>3. CASE Enqueue
        <5>1. floppy_sem'.q = Append(floppy_sem.q, Boot) /\ floppy_sem.q \in Seq(Pid)
          BY <1>1, <4>3 DEF Enqueue
        <5>2. ASSUME NEW t \in Tasks, Contains(floppy_sem'.q, t) PROVE Contains(floppy_sem.q, t)
          <6>1. PICK i \in 1 .. Len(floppy_sem'.q) : floppy_sem'.q[i] = t
            BY <5>2 DEF Contains
          <6>2. /\ Len(floppy_sem'.q) = Len(floppy_sem.q) + 1 /\ Len(floppy_sem.q) \in Nat
                /\ floppy_sem'.q[Len(floppy_sem.q) + 1] = Boot
                /\ \A j \in 1 .. Len(floppy_sem.q) : floppy_sem'.q[j] = floppy_sem.q[j]
            BY <5>1, AppendProperties, LenProperties, Pids
          <6>3. i \in 1 .. Len(floppy_sem.q)
            BY <6>1, <6>2, Pids
          <6> QED BY <6>1, <6>2, <6>3 DEF Contains
        <5> QED BY <5>2 DEF InStep, Protocol
      <4> QED BY <2>4, <4>1, <4>2, <4>3 DEF BootWaits, Spin, Clear, Take, NoUnit
    <3>3. CASE ctl.phase = "lost"
      BY <1>2, <1>3, <2>1, <2>2, <3>2, <3>3 DEF InStep, Protocol
    <3>4. CASE ctl.phase # "lost"
      <4>1. ~Busy /\ ~Busy'
        BY <2>1, <2>4, <3>1, <3>4
        DEF Busy, InStep, Protocol, BootWaits, BootWait, Spin, Clear, Take, Put, NoUnit, Enqueue
      <4>2. /\ floppy_sem.q = <<>> /\ floppy_sem.vl = 1 /\ (boot_wait = "taken" => taken = 1)
            /\ boot_wait \notin {"enqueue", "queued"}
            /\ boot_wait \in {"spin", "clear"} <=> fdd_int_recv
            /\ ~(ctl.phase = "exec" /\ irq)
        BY <3>1, <3>4, <4>1 DEF InStep, Protocol
      <4>3. /\ floppy_sem'.q = <<>> /\ floppy_sem'.vl = IF boot_wait' = "no" THEN 0 ELSE 1
            /\ boot_wait' \notin {"enqueue", "queued"}
            /\ boot_wait' = "taken" => taken' = 1
            /\ boot_wait' \in {"spin", "clear"} <=> fdd_int_recv'
        <5>1. CASE Spin \/ Clear
          <6>1. fdd_int_recv \in BOOLEAN /\ UNCHANGED <<floppy_sem, taken>>
            BY <1>1, <5>1 DEF Spin, Clear
          <6> QED BY <4>2, <5>1, <6>1 DEF Spin, Clear, BootWait
        <5>2. CASE Take
          BY <4>2, <5>2 DEF Take, BootWait
        <5>3. CASE Put
          <6>1. floppy_sem' = [floppy_sem EXCEPT !.vl = 0] /\ boot_wait' = "no" /\ UNCHANGED fdd_int_recv
                /\ boot_wait = "taken"
            BY <4>2, <5>3 DEF Put, BootWait
          <6>2. floppy_sem'.q = <<>> /\ floppy_sem'.vl = 0
            BY <1>1, <4>2, <6>1
          <6> QED BY <4>2, <6>1, <6>2
        <5>4. ~NoUnit /\ ~Enqueue
          BY <4>2 DEF NoUnit, Enqueue, BootWait
        <5> QED BY <2>4, <5>1, <5>2, <5>3, <5>4 DEF BootWaits
      <4>4. pc'[Boot] = "reset" => ctl'.phase = "idle"
        BY <1>2, <2>1 DEF InStep, Protocol
      <4>5. ctl'.phase = "exec" => ~irq'
        BY <4>1 DEF Busy
      <4> QED BY <1>2, <1>3, <2>2, <3>1, <3>2, <4>1, <4>3, <4>4, <4>5 DEF Protocol
    <3> QED BY <1>3, <2>2, <3>3, <3>4
  <2>5. CASE isr_fdd_c
    <3>1. /\ irq /\ irq' = FALSE /\ fdd_int_recv' = TRUE /\ floppy_sem' = Signal(floppy_sem)
          /\ UNCHANGED <<up, boot_wait, taken>>
      BY <2>5 DEF isr_fdd_c, bootVars
    <3>2. \A t \in Tasks : Contains(floppy_sem'.q, t) => Contains(floppy_sem.q, t)
      BY <1>1, <3>1, SignalMoves
    <3>3. ASSUME ctl.phase # "lost"
          PROVE  ~Busy' /\ floppy_sem'.q = <<>> /\ floppy_sem'.vl = IF boot_wait = "no" THEN 0 ELSE 1
      <4>1. ~Busy' /\ floppy_sem.vl = 0
        BY <2>1, <3>1, <3>3 DEF Busy, InStep, Protocol
      <4>2. CASE up
        <5>1. PICK t \in Tasks : floppy_sem.q = <<t>>
          BY <3>1, <3>3, <4>2 DEF Busy, InStep, Protocol
        <5>2. floppy_sem' = [floppy_sem EXCEPT !.q = Tail(@)] /\ Tail(<<t>>) = <<>>
          <6>1. <<t>> # <<>> /\ Tail(<<t>>) = <<>>
            OBVIOUS
          <6> QED BY <3>1, <4>1, <5>1, <6>1 DEF Signal
        <5>3. boot_wait = "no"
          BY <4>2 DEF FddInv, BootAlone
        <5>4. floppy_sem'.q = <<>> /\ floppy_sem'.vl = 0
          BY <1>1, <4>1, <5>1, <5>2
        <5> QED BY <4>1, <5>3, <5>4, Zenon
      <4>3. CASE ~up
        <5>1. boot_wait = "spin" /\ floppy_sem.q = <<>>
          BY <3>1, <3>3, <4>3 DEF Busy, InStep, Protocol, FddInv, BootAlone
        <5>2. floppy_sem' = [floppy_sem EXCEPT !.vl = @ + 1]
          BY <3>1, <5>1 DEF Signal
        <5>3. floppy_sem'.q = <<>> /\ floppy_sem'.vl = 1
          BY <1>1, <4>1, <5>1, <5>2
        <5> QED BY <4>1, <5>1, <5>3, Zenon
      <4> QED BY <4>2, <4>3
    <3>4. ctl.phase # "lost" => boot_wait \in {"no", "spin"} /\ (~up => boot_wait = "spin")
      BY <3>1 DEF Busy, FddInv, BootAlone, InStep, Protocol
    <3> QED BY <1>2, <1>3, <2>1, <2>2, <3>1, <3>2, <3>3, <3>4 DEF InStep, Protocol
  <2>6. CASE Spurious
    <3>1. ctl.phase = "lost" /\ UNCHANGED floppy_sem
      BY <2>6 DEF Spurious, waitVars
    <3> QED BY <1>2, <1>3, <2>1, <2>2, <3>1 DEF InStep, Protocol
  <2> QED BY <1>3, <1>5, <2>2, <2>3, <2>4, <2>5, <2>6
<1>6. CASE Finish
  <2>1. /\ ctl.phase = "exec" /\ irq' = TRUE
        /\ UNCHANGED <<up, boot_wait, taken, floppy_sem, fdd_int_recv>>
    BY <1>6 DEF Finish, bootVars, waitVars
  <2>2. \/ ctl.cmd # "read" /\ ctl' = Idle /\ UNCHANGED buffer
        \/ /\ ctl.cmd = "read"
           /\ \E good \in BOOLEAN :
                /\ ctl' = [ctl EXCEPT !.good = good, !.phase = "result"]
                /\ buffer' = IF good /\ dor.sel = 0 /\ 0 \in dor.mot THEN ctl.chs ELSE None
    BY <1>6 DEF Finish
  <2>3. ctl'.phase \in {"idle", "result"}
    BY <2>2 DEF Idle, Lost, InStep, FddTypes
  <2>4. Protocol'
    <3>1. pc'[Boot] # "reset"
      BY <1>2, <2>1 DEF InStep, Protocol
    <3>2. Busy /\ Busy'
      BY <2>1 DEF Busy
    <3> QED BY <1>2, <2>1, <2>3, <3>1, <3>2 DEF InStep, Protocol
  <2>5. Reading'
    <3> SUFFICES ASSUME NEW t \in Pid, pc[t] = "result"
                 PROVE  /\ ctl'.cmd = "read" /\ ctl'.chs = job[t].chs /\ ctl'.phase \in {"exec", "result"}
                        /\ ctl'.phase = "result" /\ ctl'.good => buffer' = ctl'.chs
      BY <1>2 DEF Reading
    <3>1. ctl.cmd = "read" /\ ctl.chs = job[t].chs /\ dor.sel = 0 /\ 0 \in dor.mot
      BY <2>1 DEF InStep, Reading, Selected
    <3>2. PICK good \in BOOLEAN :
                /\ ctl' = [ctl EXCEPT !.good = good, !.phase = "result"]
                /\ buffer' = IF good /\ dor.sel = 0 /\ 0 \in dor.mot THEN ctl.chs ELSE None
      BY <2>2, <3>1
    <3>3. /\ ctl'.cmd = "read" /\ ctl'.chs = job[t].chs /\ ctl'.phase = "result" /\ ctl'.chs = ctl.chs
          /\ ctl'.good = good
      BY <3>1, <3>2 DEF InStep, FddTypes
    <3> QED BY <3>1, <3>2, <3>3
  <2>6. Data'
    BY <1>2, <2>1 DEF InStep, Data, HasRead
  <2> QED BY <1>3, <2>4, <2>5, <2>6
<1> QED BY <1>4, <1>5, <1>6

(* Driver and controller keep step in every reachable state, or say so.    *)
LEMMA FddKeepsStep == Spec => []InStep
<1>1. Init => InStep
  <2> SUFFICES ASSUME Init PROVE InStep
    OBVIOUS
  <2> USE Pids, StatesTyped, EmptySeq
  <2>1. FddTypes
    <3>1. [mot |-> {}, sel |-> 0] \in [mot : SUBSET (0 .. 3), sel : 0 .. 3]
      OBVIOUS
    <3>2. /\ job \in [Pid -> Jobs] /\ dor \in [mot : SUBSET (0 .. 3), sel : 0 .. 3]
          /\ buffer \in Place \cup {None} /\ geometry = "none" /\ count = 4 /\ irq = FALSE
          /\ ctl \in Controls
      BY <3>1 DEF Init
    <3>3. geometry \in {"none", "disk", "wrong"} /\ count \in 0 .. 4
      BY <3>2
    <3>4. irq \in BOOLEAN
      BY <3>2, Zenon
    <3> QED BY <3>2, <3>3, <3>4, Zenon DEF FddTypes, Controls
  <2>2. \A t \in Pid : pc[t] \in {"reset", "user"}
    BY DEF Init
  <2>3. Protocol
    BY DEF Init, Protocol, Busy, SEM_NEW, Idle, Lost, Contains
  <2>4. Selected /\ Reading /\ Data
    BY <2>2 DEF Selected, Reading, Data, HasRead, Section, Under
  <2> QED BY <2>1, <2>3, <2>4 DEF InStep
<1>2. FddInv /\ InStep /\ [Next]_vars => InStep'
  <2> SUFFICES ASSUME FddInv, InStep, [Next]_vars PROVE InStep'
    OBVIOUS
  <2>1. FddTypes'
    BY TypesKept DEF InStep
  <2>2. ASSUME NEW t \in Pid, NEW to, Turn(t, to) PROVE InStep'
    BY <2>1, <2>2, TurnKeepsProtocol, TurnKeepsReading DEF InStep
  <2>3. CASE Booting
    BY <2>2, <2>3, BootingTurns, Pids
  <2>4. CASE fdd_block_ioctl
    BY <2>2, <2>4, CallTurns, Pids
  <2>5. ASSUME NEW t \in Pid, fdd_block_read(t) \/ Step(t) PROVE InStep'
    <3>1. \E to : Turn(t, to)
      BY <2>5, CallTurns, CommandTurns, ResultTurns DEF Step
    <3> QED BY <3>1, <2>2
  <2>6. CASE Booted \/ BootWaits \/ isr_fdd_c \/ Finish \/ Spurious \/ UNCHANGED vars
    BY <2>1, <2>6, InterruptsKeepStep DEF InStep
  <2> QED BY <2>3, <2>4, <2>5, <2>6 DEF Next
<1> QED BY <1>1, <1>2, FddSafety, PTL DEF Spec

(* Every variable of the driver and of the controller keeps its type: the  *)
(* places stay places and the drives drives, along every error path.       *)
THEOREM FddTypeCorrect == Spec => []FddTypeOK
<1>1. FddInv /\ InStep => FddTypeOK
  <2> SUFFICES ASSUME FddInv, InStep PROVE FddTypeOK
    OBVIOUS
  <2>1. /\ pc \in [Pid -> Section \cup {"reset", "configure", "calibrate", "calibrated", "devices",
                                        "mount", "mounted", "failed", "user"}]
        /\ cpu \in Pid \cup {None}
        /\ {fdd_int_recv, up, irq} \subseteq BOOLEAN
        /\ boot_wait \in {"no", "spin", "clear", "test", "taken", "enqueue", "queued"}
        /\ taken \in Nat
    BY DEF FddInv, Control, PCs, Early, WaitPhases, InStep, FddTypes
  <2>2. /\ fdc_sem.q \in Seq(Pid) /\ floppy_sem.q \in Seq(Pid)
        /\ fdc_sem.vl \in Nat /\ floppy_sem.vl \in Nat
    BY DEF FddInv, Control, SemOK
  <2>3. \A t \in Pid : job[t].pos \in Positions \cup {0} /\ job[t].ok \in BOOLEAN
    BY DEF InStep, FddTypes, Jobs
  <2>4. /\ geometry \in {"none", "disk", "wrong"} /\ count \in 0 .. 4
        /\ dor.mot \subseteq 0 .. 3 /\ dor.sel \in 0 .. 3
        /\ ctl.phase \in {"idle", "exec", "result", "lost"}
    BY DEF InStep, FddTypes, Phases
  <2> QED BY <2>1, <2>2, <2>3, <2>4 DEF FddTypeOK
<1> QED BY <1>1, FddSafety, FddKeepsStep, PTL

(* The idle task never waits in a semaphore's queue as long as driver and  *)
(* controller keep step: no interrupt falls between the end of its spin    *)
(* and the end of vl--, and each finds the unit of its own command.  When  *)
(* a byte is lost this ends, and so does the promise.                      *)
THEOREM FddBootNeverBlocks == Spec => []BootNeverBlocks
<1>1. FddInv /\ InStep => BootNeverBlocks
  <2> SUFFICES ASSUME FddInv, InStep, ctl.phase # "lost" PROVE ~Asleep(Boot)
    BY DEF BootNeverBlocks
  <2>1. ~Contains(fdc_sem.q, Boot)
    BY DEF FddInv, BootAlone
  <2>2. ~Contains(floppy_sem.q, Boot)
    <3>1. CASE up
      BY <3>1 DEF FddInv, BootAlone
    <3>2. CASE ~up
      <4>1. floppy_sem.q = <<>>
        BY <3>2 DEF InStep, Protocol
      <4> QED BY <4>1, EmptySeq DEF Contains
    <3> QED BY <3>1, <3>2
  <2> QED BY <2>1, <2>2 DEF Asleep
<1> QED BY <1>1, FddSafety, FddKeepsStep, PTL

(* What a read that succeeds copies out is what was asked for, on a disk   *)
(* with two heads, the number that fdd_block_read computes places with:    *)
(* whatever the number of cylinders and sectors, of tasks, of polls and of *)
(* spurious interrupts, and whichever tasks read in between.               *)
THEOREM FddReadsRight ==
  ASSUME Heads = 2
  PROVE  Spec => []ReadsRight
<1>1. FddInv /\ InStep => ReadsRight
  <2> SUFFICES ASSUME FddInv, InStep, NEW t \in Pid,
                      pc[t] \in {"leave", "mounted"}, ctl.phase # "lost", geometry # "wrong",
                      job[t].ok, OnOneTrack(job[t])
               PROVE  /\ Len(job[t].out) = job[t].n
                      /\ \A i \in 1 .. job[t].n :
                           job[t].out[i] # None /\ Linear(job[t].out[i]) = job[t].pos + i - 1
    BY DEF ReadsRight
  <2>1. /\ Len(job[t].out) = job[t].n
        /\ \A i \in 1 .. Len(job[t].out) : job[t].out[i] = Sector(job[t].pos, i - 1)
    BY DEF InStep, Data, HasRead, Section
  <2>2. job[t].pos \in Nat /\ job[t].n \in Nat
    <3>1. job[t].pos \in Positions \cup {0} /\ job[t].n \in Counts \cup {0, 1}
      BY DEF InStep, FddTypes, Jobs
    <3>2. Positions \cup {0} \subseteq Nat /\ Counts \cup {0, 1} \subseteq Nat
      BY Geometry
    <3> QED BY <3>1, <3>2
  <2>3. ASSUME NEW i \in 1 .. job[t].n
        PROVE  job[t].out[i] # None /\ Linear(job[t].out[i]) = job[t].pos + i - 1
    <3>1. i - 1 \in Nat /\ job[t].out[i] = Sector(job[t].pos, i - 1)
      BY <2>1, <2>2
    <3>2. Sector(job[t].pos, i - 1) \in Place
      BY <2>2, <3>1, PlacesExist
    <3>3. Linear(Sector(job[t].pos, i - 1)) = job[t].pos + (i - 1)
      BY <2>2, <3>1, PlacesRight
    <3> QED BY <2>2, <3>1, <3>2, <3>3, Geometry
  <2> QED BY <2>1, <2>3
<1> QED BY <1>1, FddSafety, FddKeepsStep, PTL
=============================================================================
