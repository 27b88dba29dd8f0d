------------------------------- MODULE Sched -------------------------------
(***************************************************************************)
(* The round-robin scheduler of kernel/sched.c.                            *)
(*                                                                         *)
(* tasks[] holds, for every pid, a state and the two links of a circular   *)
(* doubly linked queue of the runnable tasks (the ring).  current_pid is   *)
(* the task that owns the CPU, or Idle; last is where the idle task jumps  *)
(* to at the next tick.  The operators below carry the names of the C      *)
(* functions; each is an action on all the scheduler's variables, so that  *)
(* Kernel can conjoin them with what the callers change.                   *)
(***************************************************************************)
EXTENDS Integers, FiniteSets

CONSTANTS
  MaxPid,    \* length of tasks[]; pids are 0 .. MaxPid-1, 0 is the idle task
  Quantum    \* clock ticks a task keeps the CPU (QUANTUM, 2 in the code)

ASSUME SchedAssumption ==
  /\ MaxPid \in Nat \ {0}
  /\ Quantum \in Nat \ {0}

VARIABLES
  state,        \* tasks[p].state
  next,         \* tasks[p].next
  prev,         \* tasks[p].prev
  quantum,      \* ticks left to the current task
  current_pid,  \* the task that owns the CPU
  last          \* the task a tick resumes from idle, Idle when there is none

schedVars == <<state, next, prev, quantum, current_pid, last>>

Idle == 0
None == -1
Pid  == 0 .. MaxPid - 1
Task == 1 .. MaxPid - 1

RUNNING  == "running"
BLOCKED  == "blocked"
FINISHED == "finished"

(***************************************************************************)
(* The ring: the tasks whose link leads to a task.  A pid that was never   *)
(* loaded still has the link 0 of the zeroed array, and configure_task     *)
(* writes -1 into the links of a task that blocks or ends.                 *)
(***************************************************************************)
Ready == {p \in Task : next[p] \in Task}

NeverLoaded(p) == state[p] = RUNNING /\ next[p] = Idle

----------------------------------------------------------------------------
(* The functions of sched.c. *)

(* Static data starts as zeros: every state is RUNNING and every link 0. *)
sched_init ==
  /\ state = [p \in Pid |-> RUNNING]
  /\ next = [p \in Pid |-> Idle]
  /\ prev = [p \in Pid |-> Idle]
  /\ quantum = 0
  /\ current_pid = Idle
  /\ last = Idle

AloneInRing(pd) ==
  /\ next' = [next EXCEPT ![pd] = pd]
  /\ prev' = [prev EXCEPT ![pd] = pd]

(* Mutants: the back link of the successor forgotten; insertion at last.  *)
LinkNoBackLink(pd) ==
  /\ next' = [next EXCEPT ![pd] = next[current_pid], ![current_pid] = pd]
  /\ prev' = [prev EXCEPT ![pd] = current_pid]

LinkAfterLast(pd) ==
  /\ next' = [next EXCEPT ![pd] = next[last], ![last] = pd]
  /\ prev' = [prev EXCEPT ![pd] = last, ![next[last]] = pd]

LinkAfterCurrent(pd) ==
  /\ next' = [next EXCEPT ![pd] = next[current_pid], ![current_pid] = pd]
  /\ prev' = [prev EXCEPT ![pd] = current_pid, ![next[current_pid]] = pd]

(* The test is on current_pid, not on last: a load made while the idle     *)
(* task runs replaces the ring by the new task alone.                      *)
LinkLoaded(pd) ==
  /\ IF current_pid = Idle THEN AloneInRing(pd) ELSE LinkAfterCurrent(pd)
  /\ last' = pd
  /\ UNCHANGED <<quantum, current_pid>>

(* The last line of sched_load; during boot a step of its own (Kernel).    *)
MarkRunning(pd) == state' = [state EXCEPT ![pd] = RUNNING]

sched_load(pd) == LinkLoaded(pd) /\ MarkRunning(pd)

(* Mutant: the woken task is marked but not linked. *)
UnblockUnlinked(pd) ==
  /\ state' = [state EXCEPT ![pd] = RUNNING]
  /\ UNCHANGED <<next, prev, quantum, current_pid, last>>

(* From idle the woken task takes the CPU at once, and the quantum is not  *)
(* reset: the block or exit that led to idle has set it.                   *)
sched_unblock(pd) ==
  /\ state' = [state EXCEPT ![pd] = RUNNING]
  /\ IF current_pid = Idle
     THEN AloneInRing(pd) /\ current_pid' = pd /\ last' = pd
     ELSE LinkAfterCurrent(pd) /\ UNCHANGED <<current_pid, last>>
  /\ UNCHANGED quantum

(* What sched_exit and sched_block share: the current task leaves the ring *)
(* in state st and its successor, or the idle task, takes the CPU.         *)
RemoveCurrent(st, newLast) ==
  LET n == next[current_pid]
      b == prev[current_pid]
  IN  /\ quantum' = Quantum
      /\ state' = [state EXCEPT ![current_pid] = st]
      /\ \/ /\ n = current_pid
            /\ last' = Idle
            /\ current_pid' = Idle
            /\ next' = [next EXCEPT ![current_pid] = None]
            /\ prev' = [prev EXCEPT ![current_pid] = None]
         \/ /\ n # current_pid
            /\ last' = newLast
            /\ current_pid' = n
            /\ next' = [next EXCEPT ![b] = n, ![current_pid] = None]
            /\ prev' = [prev EXCEPT ![n] = b, ![current_pid] = None]

(* Mutant: last may name the task that has just ended. *)
ExitKeepsLast == RemoveCurrent(FINISHED, last)

sched_exit == RemoveCurrent(FINISHED, prev[current_pid])

sched_block ==
  RemoveCurrent(BLOCKED, IF current_pid = last THEN prev[current_pid] ELSE last)

TickIdle ==
  /\ current_pid = Idle
  /\ \/ /\ last # Idle
        /\ quantum' = Quantum
        /\ current_pid' = last
     \/ last = Idle /\ UNCHANGED <<quantum, current_pid>>

(* Mutants: no refill at the end of the quantum; a tick that refills the   *)
(* quantum of the same task.                                               *)
TickTaskNoRefill ==
  /\ current_pid # Idle
  /\ quantum' = quantum - 1
  /\ current_pid' = IF quantum - 1 = 0 THEN next[current_pid] ELSE current_pid

TickTaskNoSwitch ==
  /\ current_pid # Idle
  /\ quantum' = IF quantum - 1 = 0 THEN Quantum ELSE quantum - 1
  /\ UNCHANGED current_pid

(* quantum is unsigned: decremented at 0 it would wrap and the task would  *)
(* keep the CPU for 2^32 ticks.  Here it would leave Nat (see TypeOK).     *)
TickTask ==
  /\ current_pid # Idle
  /\ \/ /\ quantum - 1 = 0
        /\ quantum' = Quantum
        /\ current_pid' = next[current_pid]
     \/ /\ quantum - 1 # 0
        /\ quantum' = quantum - 1
        /\ UNCHANGED current_pid

sched_tick ==
  /\ TickIdle \/ TickTask
  /\ UNCHANGED <<state, next, prev, last>>

----------------------------------------------------------------------------
(***************************************************************************)
(* The scheduler under the calls the kernel makes.  kernel_init loads the  *)
(* first task from the idle task; later loads come from the system calls   *)
(* of a running task.  Only a blocked task is unblocked, and only a task   *)
(* that owns the CPU blocks or ends.  Each call is one step here; the tick *)
(* that may fall into the first load is in Kernel.                         *)
(***************************************************************************)
Load(pd) ==
  /\ NeverLoaded(pd) \/ state[pd] = FINISHED
  /\ current_pid # Idle \/ \A p \in Task : NeverLoaded(p)
  /\ sched_load(pd)

Unblock(pd) == state[pd] = BLOCKED /\ sched_unblock(pd)

Exit == current_pid # Idle /\ sched_exit

Block == current_pid # Idle /\ sched_block

SchedNext ==
  \/ \E pd \in Task : Load(pd) \/ Unblock(pd)
  \/ Exit
  \/ Block
  \/ sched_tick

SchedSpec == sched_init /\ [][SchedNext]_schedVars

(* The clock keeps ticking: interrupts are masked only inside the kernel.  *)
SchedFairSpec == SchedSpec /\ WF_schedVars(sched_tick)

----------------------------------------------------------------------------
(* Types.  A link is a pid, or None once configure_task has cleared it. *)
TypeOK ==
  /\ state \in [Pid -> {RUNNING, BLOCKED, FINISHED}]
  /\ next \in [Pid -> Pid \cup {None}]
  /\ prev \in [Pid -> Pid \cup {None}]
  /\ quantum \in 0 .. Quantum
  /\ current_pid \in Pid
  /\ last \in Pid

(* next and prev of tasks[] are inverse to each other on the ring, and the *)
(* ring holds only runnable tasks (informe.tex: "solo mantenemos           *)
(* enlazadas a las tareas que estan en estado RUNNING").                   *)
LinksInverse ==
  \A p \in Ready : /\ state[p] = RUNNING
                   /\ next[p] \in Ready /\ prev[next[p]] = p
                   /\ prev[p] \in Ready /\ next[prev[p]] = p

(* The links of tasks[] form one cycle, not several: a set of runnable     *)
(* tasks closed under next holds all of them.  Following next from any     *)
(* task therefore gives every runnable task its turn.                      *)
SingleRing ==
  \A S \in SUBSET Ready :
     S # {} /\ (\A p \in S : next[p] \in S) => S = Ready

(* The links are those of one circular list of the runnable tasks, over    *)
(* any sequence of loads, blocks, wake-ups and exits.                      *)
RingOK == LinksInverse /\ SingleRing

(* A task that is loaded and RUNNING is in the ring: no call sequence      *)
(* leaves it runnable and unreachable, hence never scheduled again.        *)
NoTaskLost ==
  \A p \in Task : state[p] = RUNNING => p \in Ready \/ NeverLoaded(p)

(* current_pid and last point into the ring.  The idle task has the CPU    *)
(* with a runnable task around only between the first load and the first   *)
(* tick, and then last is that task and no other was ever loaded.          *)
CurrentInRing ==
  /\ current_pid # Idle => current_pid \in Ready /\ last \in Ready
  /\ current_pid = Idle => Ready = {last} \cap Task
  /\ current_pid = Idle /\ last # Idle => \A p \in Task \ {last} : NeverLoaded(p)

(* A task that owns the CPU, and one that will take it over from idle when *)
(* it is woken (it has given it up before, so its links are cleared), has  *)
(* at least one tick left: the unsigned quantum of sched_tick is never     *)
(* decremented at zero.                                                    *)
QuantumPositive ==
  current_pid # Idle \/ (\E p \in Task : next[p] = None) =>
    quantum \in 1 .. Quantum

(* The CPU has an owner from the ring who has ticks left, and idles only   *)
(* when nobody can run.                                                    *)
CurrentOK == CurrentInRing /\ QuantumPositive

(* No step reorders the tasks that stay: a ready task's successor changes  *)
(* only when the task or the successor is the one that owns the CPU.       *)
OrderKept ==
  [][\A p \in Ready \cap Ready' :
        p # current_pid /\ next[p] # current_pid => next'[p] = next[p]]_schedVars

(* Once no task is loaded or woken any more, every task that stays         *)
(* runnable is given the CPU again and again.  (A steady stream of wake-   *)
(* ups, each linked right after the current task, can starve the rest.)    *)
RoundRobin ==
  <>[][sched_tick \/ Exit \/ Block]_schedVars =>
     \A p \in Task : []<>(current_pid = p \/ p \notin Ready)
=============================================================================
