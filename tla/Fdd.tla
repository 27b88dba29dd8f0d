-------------------------------- MODULE Fdd --------------------------------
(***************************************************************************)
(* The floppy driver (kernel/fdd.c): fdd_init on the boot path, then reads *)
(* of sectors by several tasks.  fdc_sem makes fdd_block_read a critical   *)
(* section; floppy_sem, signalled by the interrupt handler, is what a      *)
(* command waits on.  Boot (pid 0) runs with interrupts on and spins on    *)
(* fdd_int_recv before it waits, because the idle task must not block: an  *)
(* interrupt may come between any two of the steps of its wait, inside     *)
(* vl-- too.  Every other task runs the driver with interrupts off and     *)
(* keeps the CPU (variable cpu) until it has to wait.                      *)
(*                                                                         *)
(* External: the controller.  It executes a complete command and then      *)
(* interrupts once, with a good or a bad status.  When a bounded poll of   *)
(* fdd_send_byte or fdd_get_byte goes wrong, driver and controller lose    *)
(* step: phase "lost", in which anything may come from the controller, as  *)
(* the driver never resets it again.                                       *)
(***************************************************************************)
EXTENDS Integers, Sequences, FiniteSets, SequencesExt

CONSTANTS
  Boot, Tasks,      \* pid 0, and the tasks that run once it has booted
  None,
  Cylinders, Heads, SectPerTrack,  \* the geometry of the disk in drive 0
  Positions, Counts,   \* the sectors and numbers of sectors a call may ask for
  Timeout,          \* FDD_DEFAULT_TIMEOUT, in polls
  MaxVl             \* bound of the model: spurious interrupts stop here

ASSUME FddAssumption ==
  /\ Boot \notin Tasks /\ None \notin Tasks \cup {Boot}
  /\ Cylinders \in Nat \ {0} /\ Heads \in Nat \ {0} /\ SectPerTrack \in Nat \ {0}
  /\ Positions \subseteq Nat /\ Counts \subseteq Nat \ {0}
  /\ Timeout \in Nat /\ Timeout > 1 /\ MaxVl \in Nat
  /\ None \notin [c : Nat, h : Nat, s : Nat]     \* no place on a disk

Pid == Tasks \cup {Boot}

VARIABLES
  pc, cpu,        \* where each task is in the driver, and who runs
  job,            \* the call of each task and the place it has come to
  fdc_sem, floppy_sem,  \* the semaphores: vl and q
  boot_wait,      \* where Boot is in fdd_wait_for_interrupt, "no" outside
  taken,          \* floppy_sem.vl as Boot's vl-- has loaded it, 0 outside
  fdd_int_recv,
  dor,            \* fdc->dor: the motors that are on, the selected drive
  buffer,         \* the sector the driver's buffer holds, None if it is partial
  geometry,       \* as fdd_block_ioctl left it: "none", "disk" or "wrong"
  up,             \* Boot has started the tasks
  count,          \* count in fdd_full_reset
  ctl, irq        \* the controller, and its interrupt request

callVars   == <<pc, cpu, job>>
bootVars   == <<geometry, up, count>>
waitVars   == <<floppy_sem, boot_wait, taken>>
deviceVars == <<fdd_int_recv, buffer, irq>>
vars == <<callVars, bootVars, waitVars, deviceVars, fdc_sem, dor, ctl>>

----------------------------------------------------------------------------
(* Semaphores, as sem_wait and sem_signal leave them. *)
Wait(S, t) == IF S.vl > 0 THEN [S EXCEPT !.vl = @ - 1] ELSE [S EXCEPT !.q = Append(@, t)]
Signal(S)  == IF S.vl = 0 /\ S.q # <<>> THEN [S EXCEPT !.q = Tail(@)] ELSE [S EXCEPT !.vl = @ + 1]
SEM_NEW(n) == [vl |-> n, q |-> <<>>]
Asleep(t)  == Contains(fdc_sem.q, t) \/ Contains(floppy_sem.q, t)

(* fdd_send_byte and fdd_get_byte leave their loop with timeout = Timeout-1 *)
(* - n when the controller is ready at the n-th poll, and wrapped around    *)
(* when it never is.  They report FDD_ERROR_TIMEOUT when it is 0: a byte is *)
(* refused although the controller is ready at last, and lost, unnoticed,   *)
(* when it is never ready.                                                  *)
TimeLeft(n) == IF n < Timeout THEN Timeout - 1 - n ELSE -1
Polled(n)   == IF TimeLeft(n) = 0 THEN "refused" ELSE IF n > Timeout THEN "lost" ELSE "passed"

Sector0 == [c |-> 0, h |-> 0, s |-> 1]
Lost    == [phase |-> "lost", cmd |-> "none", chs |-> Sector0, good |-> TRUE]
Idle    == [Lost EXCEPT !.phase = "idle"]

(* One command or one result through those two functions, ctl being in     *)
(* step when all of its bytes pass.                                        *)
Transfer(next) ==
  {IF Polled(n) = "passed" /\ ctl.phase # "lost"
     THEN [ok |-> TRUE, ctl |-> next]
     ELSE [ok |-> Polled(n) # "refused", ctl |-> Lost]
   : n \in 1 .. Timeout + 1}

(* fdd_mot_en and fdd_dev_sel *)
fdd_mot_en(d, motor, on) == [d EXCEPT !.mot = IF on THEN @ \cup {motor} ELSE @ \ {motor}]
fdd_dev_sel(d, dev)      == [d EXCEPT !.sel = dev]

(* Where fdd_block_read finds sector pos, and where it goes after chs; with *)
(* a wrong geometry, off the disk or beyond its heads.                     *)
CHS(pos) == [c |-> pos \div (SectPerTrack * 2),
             h |-> (pos % (SectPerTrack * 2)) \div SectPerTrack,
             s |-> (pos % SectPerTrack) + 1]

NextCHS(chs) ==
  IF chs.s < SectPerTrack THEN [chs EXCEPT !.s = @ + 1]
  ELSE IF chs.c + 1 > Cylinders THEN [c |-> 0, h |-> chs.h + 1, s |-> 1]
  ELSE [chs EXCEPT !.c = @ + 1, !.s = 1]

Astray == {[c |-> Cylinders, h |-> h, s |-> 1] : h \in {0, Heads}}
Places(chs) == IF geometry = "wrong" THEN Astray ELSE {chs}

NoJob == [pos |-> 0, n |-> 0, chs |-> Sector0, out |-> <<>>, ok |-> TRUE]

----------------------------------------------------------------------------
Init ==
  /\ pc = [t \in Pid |-> IF t = Boot THEN "reset" ELSE "user"]
  /\ cpu = Boot
  /\ job = [t \in Pid |-> NoJob]
  /\ fdc_sem = SEM_NEW(0) /\ floppy_sem = SEM_NEW(0)
  /\ boot_wait = "no" /\ taken = 0 /\ fdd_int_recv = FALSE
  /\ dor = [mot |-> {}, sel |-> 0]
  /\ buffer = None /\ geometry = "none" /\ up = FALSE
  /\ count = 4
  /\ ctl = Idle /\ irq = FALSE

At(t, at) == cpu \in {None, t} /\ pc[t] = at /\ ~Asleep(t) /\ (t = Boot => boot_wait = "no")

Goto(t, to) == pc' = [pc EXCEPT ![t] = to] /\ cpu' = t

Return(t, to) ==
  /\ pc' = [pc EXCEPT ![t] = to]
  /\ cpu' = IF t = Boot THEN Boot ELSE None
  /\ job' = [job EXCEPT ![t] = IF to = "mounted" THEN @ ELSE NoJob]

(* fdd_wait_for_interrupt: Boot spins first, the others wait at once.      *)
fdd_wait_for_interrupt(t, to) ==
  /\ pc' = [pc EXCEPT ![t] = to]
  /\ IF t = Boot
       THEN boot_wait' = "spin" /\ cpu' = Boot /\ UNCHANGED <<floppy_sem, taken>>
       ELSE /\ floppy_sem' = Wait(floppy_sem, t)
            /\ cpu' = IF floppy_sem.vl > 0 THEN t ELSE None
            /\ UNCHANGED <<boot_wait, taken>>

(* The wait of Boot goes on to its next step.                              *)
BootWait(from, to) ==
  /\ boot_wait = from /\ boot_wait' = to
  /\ UNCHANGED <<callVars, bootVars, buffer, irq, fdc_sem, dor, ctl>>

Spin == fdd_int_recv /\ BootWait("spin", "clear") /\ UNCHANGED <<fdd_int_recv, floppy_sem, taken>>

(* Mutant: the flag of the previous interrupt is left set.                 *)
ClearNothing == BootWait("clear", "test") /\ UNCHANGED <<fdd_int_recv, floppy_sem, taken>>

Clear == BootWait("clear", "test") /\ fdd_int_recv' = FALSE /\ UNCHANGED <<floppy_sem, taken>>

(* sem_wait(&floppy_sem), by Boot: vl is tested and, when a unit is there, *)
(* loaded (what comes in between only adds to it); then the loaded value,  *)
(* less one, is stored, over the units that came in between.               *)
Take ==
  /\ floppy_sem.vl > 0
  /\ BootWait("test", "taken")
  /\ taken' = floppy_sem.vl
  /\ UNCHANGED <<fdd_int_recv, floppy_sem>>

Put ==
  /\ BootWait("taken", "no")
  /\ floppy_sem' = [floppy_sem EXCEPT !.vl = taken - 1]
  /\ taken' = 0
  /\ UNCHANGED fdd_int_recv

(* Without a unit it goes on to loader_enqueue, with pid 0, which is not   *)
(* in the ring that sched_block takes it out of.  What that does then is   *)
(* not modelled: Boot stays in the queue, or goes no further.              *)
NoUnit ==
  /\ floppy_sem.vl = 0
  /\ BootWait("test", "enqueue")
  /\ UNCHANGED <<fdd_int_recv, floppy_sem, taken>>

Enqueue ==
  /\ BootWait("enqueue", "queued")
  /\ floppy_sem' = [floppy_sem EXCEPT !.q = Append(@, Boot)]
  /\ UNCHANGED <<fdd_int_recv, taken>>

BootWaits == Spin \/ Clear \/ Take \/ Put \/ NoUnit \/ Enqueue

(* Mutant: an interrupt is signalled only if none is noted already.        *)
isr_fdd_c_once ==
  /\ irq /\ cpu \in {None, Boot}
  /\ irq' = FALSE /\ fdd_int_recv' = TRUE
  /\ floppy_sem' = IF fdd_int_recv THEN floppy_sem ELSE Signal(floppy_sem)
  /\ UNCHANGED <<callVars, bootVars, boot_wait, taken, buffer, fdc_sem, dor, ctl>>

isr_fdd_c ==
  /\ irq /\ cpu \in {None, Boot}
  /\ irq' = FALSE /\ fdd_int_recv' = TRUE
  /\ floppy_sem' = Signal(floppy_sem)
  /\ UNCHANGED <<callVars, bootVars, boot_wait, taken, buffer, fdc_sem, dor, ctl>>

(* The controller ends what it executes: a reset and a recalibration leave *)
(* their status for the sense command; a read transfers its sector, from   *)
(* the selected drive, if all goes well.                                   *)
Finish ==
  /\ ctl.phase = "exec"
  /\ irq' = TRUE
  /\ \/ ctl.cmd # "read" /\ ctl' = Idle /\ UNCHANGED buffer
     \/ /\ ctl.cmd = "read"
        /\ \E good \in BOOLEAN :
             /\ ctl' = [ctl EXCEPT !.good = good, !.phase = "result"]
             /\ buffer' = IF good /\ dor.sel = 0 /\ 0 \in dor.mot THEN ctl.chs ELSE None
  /\ UNCHANGED <<callVars, bootVars, waitVars, fdd_int_recv, fdc_sem, dor>>

Spurious ==
  /\ ctl.phase = "lost" /\ ~irq /\ floppy_sem.vl < MaxVl
  /\ irq' = TRUE
  /\ buffer' \in {buffer, None}
  /\ UNCHANGED <<callVars, bootVars, waitVars, fdd_int_recv, fdc_sem, dor, ctl>>

Executes(cmd, chs) == [phase |-> "exec", cmd |-> cmd, chs |-> chs, good |-> TRUE]

----------------------------------------------------------------------------
(* fdd_init.  An error in fdd_full_reset is printed and the rest goes on.  *)
Reset ==
  /\ At(Boot, "reset")
  /\ dor' = [mot |-> {}, sel |-> 0]
  /\ ctl' = Executes("reset", Sector0)
  /\ fdd_wait_for_interrupt(Boot, "configure")
  /\ UNCHANGED <<job, bootVars, deviceVars, fdc_sem>>

(* Commands that do not interrupt: four senses, configure and specify; the *)
(* sense that ends a recalibration.  A bad status or a refused byte ends   *)
(* fdd_full_reset, except that NOTRK0 is forgiven.                         *)
Quiet(at) ==
  /\ At(Boot, at)
  /\ \E r \in Transfer(ctl), sensed \in BOOLEAN :
       /\ ctl' = r.ctl
       /\ Goto(Boot, IF r.ok /\ sensed THEN "calibrate" ELSE "devices")
  /\ UNCHANGED <<job, bootVars, waitVars, deviceVars, fdc_sem, dor>>

(* fdd_recalibrate(t, ds): it returns before the wait if a byte is refused. *)
fdd_recalibrate(t, drive, then, onError) ==
  /\ dor' = fdd_dev_sel(fdd_mot_en(dor, drive, TRUE), drive)
  /\ \E r \in Transfer(Executes("recalibrate", Sector0)) :
       /\ ctl' = r.ctl
       /\ IF r.ok THEN fdd_wait_for_interrupt(t, then)
                  ELSE Goto(t, onError) /\ UNCHANGED waitVars

(* Mutant: a drive too many.                                               *)
CalibrateTooMany ==
  /\ At(Boot, "calibrate") /\ count >= 0
  /\ fdd_recalibrate(Boot, count - 1, "calibrated", "devices")
  /\ count' = count - 1
  /\ UNCHANGED <<job, geometry, up, deviceVars, fdc_sem>>

Calibrate ==
  /\ At(Boot, "calibrate") /\ count > 0
  /\ fdd_recalibrate(Boot, count - 1, "calibrated", "devices")
  /\ count' = count - 1
  /\ UNCHANGED <<job, geometry, up, deviceVars, fdc_sem>>

MotorsOff ==
  /\ At(Boot, "calibrate") /\ count = 0
  /\ dor' = fdd_dev_sel([dor EXCEPT !.mot = {}], 0)
  /\ Goto(Boot, "devices")
  /\ UNCHANGED <<job, bootVars, waitVars, deviceVars, fdc_sem, ctl>>

Devices ==
  /\ At(Boot, "devices")
  /\ geometry' = "none"
  /\ fdc_sem' = SEM_NEW(1)
  /\ Goto(Boot, "mount")
  /\ UNCHANGED <<job, up, count, waitVars, deviceVars, dor, ctl>>

(* fat12_create sets the geometry it finds in what it has read as sector 0 *)
(* (job[Boot].ok: it is sector 0), reads on, and the tasks are started.    *)
fdd_block_ioctl ==
  /\ At(Boot, "mounted") /\ geometry = "none"
  /\ geometry' \in IF job[Boot].ok THEN {"disk"} ELSE {"wrong", "none"}
  /\ Return(Boot, "user")
  /\ UNCHANGED <<up, count, waitVars, deviceVars, fdc_sem, dor, ctl>>

Booted ==
  /\ At(Boot, "user") \/ At(Boot, "failed")
  /\ ~up
  /\ up' = TRUE /\ cpu' = None
  /\ UNCHANGED <<pc, job, geometry, count, waitVars, deviceVars, fdc_sem, dor, ctl>>

----------------------------------------------------------------------------
(* fdd_block_read.  fat12_create reads sector 0 alone, while no geometry is *)
(* set, and then several sectors at once; fat12_open reads one at a time.  *)
(* Without a geometry the call returns NOCONFIG and changes nothing.       *)
Alone(j) == j.pos = 0 /\ j.n = 1

Calls(t) ==
  IF t # Boot THEN IF up /\ cpu = None THEN (Positions \ {0}) \X {1} ELSE {}
  ELSE IF up THEN {} ELSE IF pc[t] = "mount" THEN {<<0, 1>>} ELSE (Positions \ {0}) \X Counts

fdd_block_read(t) ==
  /\ At(t, "user") \/ At(t, "mount")
  /\ \E call \in Calls(t) :
       /\ geometry # "none" \/ call[1] = 0
       /\ \E chs \in Places(CHS(call[1])) :
            job' = [job EXCEPT ![t] = [NoJob EXCEPT !.pos = call[1], !.n = call[2], !.chs = chs]]
  /\ fdc_sem' = Wait(fdc_sem, t)
  /\ pc' = [pc EXCEPT ![t] = "section"]
  /\ cpu' = IF fdc_sem.vl > 0 THEN t ELSE None
  /\ UNCHANGED <<bootVars, waitVars, deviceVars, dor, ctl>>

(* The section left by an early return, OVERHEAD or NOREAD: the caller is  *)
(* outside and fdc_sem is not signalled.  fat12_create reads no further.   *)
Abandon(t) == Return(t, IF t = Boot THEN "failed" ELSE "user")

(* fdd_read_sector has failed; sector 0 alone is copied all the same.      *)
Failed(t) ==
  IF Alone(job[t])
    THEN Goto(t, "leave") /\ job' = [job EXCEPT ![t].out = <<buffer>>, ![t].ok = FALSE]
    ELSE Abandon(t)

Overhead(t) ==
  /\ At(t, "section") /\ ~Alone(job[t]) /\ job[t].chs.h >= Heads
  /\ Abandon(t)
  /\ UNCHANGED <<bootVars, waitVars, deviceVars, fdc_sem, dor, ctl>>

(* fdd_read_sector first tests for the motor, at the wrong bits of dor; as *)
(* fdd_recalibrate, whose result is ignored, switches it on in any case,   *)
(* the test makes no difference.                                           *)
Recalibrate(t) ==
  /\ At(t, "section") /\ (Alone(job[t]) \/ job[t].chs.h < Heads)
  /\ fdd_recalibrate(t, 0, "sense", "command")
  /\ UNCHANGED <<job, bootVars, deviceVars, fdc_sem>>

Sense(t) ==
  /\ At(t, "sense")
  /\ \E r \in Transfer(ctl) : ctl' = r.ctl
  /\ Goto(t, "command")
  /\ UNCHANGED <<job, bootVars, waitVars, deviceVars, fdc_sem, dor>>

(* Mutant: the driver does not wait for the interrupt of the read.         *)
CommandNoWait(t) ==
  /\ At(t, "command")
  /\ \E r \in Transfer(Executes("read", job[t].chs)) : ctl' = r.ctl
  /\ Goto(t, "result")
  /\ UNCHANGED <<job, bootVars, waitVars, deviceVars, fdc_sem, dor>>

(* DMA set up, the nine bytes of the command, and the wait.                *)
Command(t) ==
  /\ At(t, "command")
  /\ \E r \in Transfer(Executes("read", job[t].chs)) :
       /\ ctl' = r.ctl
       /\ IF r.ok THEN fdd_wait_for_interrupt(t, "result") /\ UNCHANGED job
                  ELSE Failed(t) /\ UNCHANGED waitVars
  /\ UNCHANGED <<bootVars, deviceVars, fdc_sem, dor>>

(* The seven result bytes, the status, the copy to the caller, and the     *)
(* place of the next sector.                                               *)
Result(t) ==
  /\ At(t, "result")
  /\ \E r \in Transfer(Idle) :
       /\ ctl' = r.ctl
       /\ \E good \in IF r.ctl.phase = "lost" THEN BOOLEAN ELSE {ctl.good} :
            IF ~(r.ok /\ good) THEN Failed(t)
            ELSE LET out == Append(job[t].out, buffer)
                 IN  /\ \E chs \in Places(NextCHS(job[t].chs)) :
                          job' = [job EXCEPT ![t].out = out, ![t].chs = chs]
                     /\ Goto(t, IF Len(out) < job[t].n THEN "section" ELSE "leave")
  /\ UNCHANGED <<bootVars, waitVars, deviceVars, fdc_sem, dor>>

(* Mutant: the section is left with two units.                             *)
LeaveTwice(t) ==
  /\ At(t, "leave")
  /\ fdc_sem' = Signal(Signal(fdc_sem))
  /\ Return(t, IF Alone(job[t]) THEN "mounted" ELSE "user")
  /\ UNCHANGED <<bootVars, waitVars, deviceVars, dor, ctl>>

Leave(t) ==
  /\ At(t, "leave")
  /\ fdc_sem' = Signal(fdc_sem)
  /\ Return(t, IF Alone(job[t]) THEN "mounted" ELSE "user")
  /\ UNCHANGED <<bootVars, waitVars, deviceVars, dor, ctl>>

Step(t) == Overhead(t) \/ Recalibrate(t) \/ Sense(t) \/ Command(t) \/ Result(t) \/ Leave(t)

Booting ==
  Reset \/ Quiet("configure") \/ Calibrate \/ Quiet("calibrated") \/ MotorsOff \/ Devices

Next ==
  \/ Booting \/ fdd_block_ioctl \/ Booted \/ BootWaits
  \/ isr_fdd_c \/ Finish \/ Spurious
  \/ \E t \in Pid : fdd_block_read(t) \/ Step(t)

(* The controller ends what it executes and its interrupt is taken (module *)
(* Irq); whoever may run the driver's code is scheduled and goes on, calls *)
(* by others notwithstanding, as the ring of Sched gives each its turn.    *)
Fairness ==
  /\ WF_vars(Finish) /\ SF_vars(isr_fdd_c) /\ WF_vars(BootWaits)
  /\ WF_vars(Booting)
  /\ \A t \in Pid : SF_vars(Step(t))

Spec == Init /\ [][Next]_vars /\ Fairness

----------------------------------------------------------------------------
Section == {"section", "sense", "command", "result", "leave"}

Inside == {t \in Pid : pc[t] \in Section /\ ~Contains(fdc_sem.q, t)}

(* What the variables hold.                                                *)
FddTypeOK ==
  /\ pc \in [Pid -> Section \cup {"reset", "configure", "calibrate", "calibrated", "devices",
                                  "mount", "mounted", "failed", "user"}]
  /\ cpu \in Pid \cup {None}
  /\ \A t \in Pid : job[t].pos \in Positions \cup {0} /\ job[t].ok \in BOOLEAN
  /\ fdc_sem.q \in Seq(Pid) /\ floppy_sem.q \in Seq(Pid)
  /\ fdc_sem.vl \in Nat /\ floppy_sem.vl \in Nat
  /\ {fdd_int_recv, up, irq} \subseteq BOOLEAN
  /\ boot_wait \in {"no", "spin", "clear", "test", "taken", "enqueue", "queued"}
  /\ taken \in Nat
  /\ geometry \in {"none", "disk", "wrong"} /\ count \in 0 .. 4
  /\ dor.mot \subseteq 0 .. 3 /\ dor.sel \in 0 .. 3
  /\ ctl.phase \in {"idle", "exec", "result", "lost"}

(* fdc_sem makes the body of fdd_block_read a critical section: one task   *)
(* at most is inside, and its unit is not there for another one.           *)
SectionExclusive ==
  /\ fdc_sem.vl \in {0, 1}
  /\ \A t \in Inside : fdc_sem.vl = 0 /\ Inside = {t}

(* Boot, the idle task, never waits in a semaphore's queue: the busy wait  *)
(* of fdd_wait_for_interrupt sees to it that sem_wait finds a unit, as     *)
(* long as driver and controller keep step, so that no interrupt comes     *)
(* between the end of the busy wait and the end of vl--.                   *)
BootNeverBlocks == ctl.phase # "lost" => ~Asleep(Boot)

(* What a read that succeeds copies out is what was asked for, sector by   *)
(* sector, as long as driver and controller keep step, the geometry is the *)
(* disk's, and the request does not cross the end of a track (from which   *)
(* the advance of chs goes to the next cylinder instead of the next head). *)
OnOneTrack(j) == (j.pos % SectPerTrack) + j.n <= SectPerTrack
Linear(chs)   == (chs.c * Heads + chs.h) * SectPerTrack + chs.s - 1
ReadsRight ==
  \A t \in Pid :
    pc[t] \in {"leave", "mounted"} /\ ctl.phase # "lost" /\ geometry # "wrong"
      /\ job[t].ok /\ OnOneTrack(job[t])
    => /\ Len(job[t].out) = job[t].n
       /\ \A i \in 1 .. job[t].n :
            job[t].out[i] # None /\ Linear(job[t].out[i]) = job[t].pos + i - 1

(* Whoever is outside has given the section back: fdc_sem is only taken by *)
(* someone inside, as the comments at its two ends promise, even when the  *)
(* disk's geometry is known and driver and controller keep step.           *)
SectionReturned ==
  geometry = "disk" /\ ctl.phase # "lost" => fdc_sem.vl = 1 \/ Inside # {}

(* Every call returns, unless the section was leaked or step lost.         *)
CallsReturn ==
  \A t \in Tasks :
    pc[t] = "section" ~> (pc[t] = "user" \/ ctl.phase = "lost" \/ (fdc_sem.vl = 0 /\ Inside = {}))
=============================================================================
