----------------------------- MODULE Semaphores -----------------------------
(***************************************************************************)
(* What the kernel promises its drivers: counting semaphores whose wait    *)
(* queues are first in, first out, and whose signal hands the unit to the  *)
(* task it wakes, so that nobody can take it in between.  There are no     *)
(* links, counters or pid lists here; Kernel implements this module.       *)
(***************************************************************************)
EXTENDS Naturals, Sequences

CONSTANTS
  Sem,     \* the semaphores
  Task     \* the pids of the tasks

VARIABLES
  val,      \* units left, per semaphore
  waiting,  \* the tasks that wait, in order of arrival, per semaphore
  runnable  \* the tasks that may run

vars == <<val, waiting, runnable>>

Blocked == {p \in Task : \E s \in Sem : \E i \in DOMAIN waiting[s] : waiting[s][i] = p}

Init ==
  /\ val \in [Sem -> {0, 1}]
  /\ waiting = [s \in Sem |-> <<>>]
  /\ runnable = {}

Start(p) ==
  /\ p \notin runnable \cup Blocked
  /\ runnable' = runnable \cup {p}
  /\ UNCHANGED <<val, waiting>>

End(p) ==
  /\ p \in runnable
  /\ runnable' = runnable \ {p}
  /\ UNCHANGED <<val, waiting>>

(* By a runnable task, or by the boot code. *)
Acquire(s) ==
  /\ val[s] > 0
  /\ val' = [val EXCEPT ![s] = @ - 1]
  /\ UNCHANGED <<waiting, runnable>>

Enqueue(p, s) ==
  /\ p \in runnable
  /\ val[s] = 0
  /\ waiting' = [waiting EXCEPT ![s] = Append(@, p)]
  /\ runnable' = runnable \ {p}
  /\ UNCHANGED val

HandOver(s) ==
  /\ waiting[s] # <<>>
  /\ runnable' = runnable \cup {Head(waiting[s])}
  /\ waiting' = [waiting EXCEPT ![s] = Tail(@)]
  /\ UNCHANGED val

Release(s) ==
  /\ waiting[s] = <<>>
  /\ val' = [val EXCEPT ![s] = @ + 1]
  /\ UNCHANGED <<waiting, runnable>>

Next ==
  \/ \E p \in Task : Start(p) \/ End(p)
  \/ \E p \in Task, s \in Sem : Enqueue(p, s)
  \/ \E s \in Sem : Acquire(s) \/ HandOver(s) \/ Release(s)

Spec == Init /\ [][Next]_vars
=============================================================================
