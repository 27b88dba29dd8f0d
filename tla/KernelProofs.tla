---------------------------- MODULE KernelProofs ----------------------------
(***************************************************************************)
(* Proofs, for every MaxPid and Quantum and every set of semaphores, about *)
(* the scheduler, the loader and the semaphores.                           *)
(*                                                                         *)
(* First, that the invariants of Sched hold in every state of SchedSpec.   *)
(* Their conjunction is inductive.  The two lemmas about the ring carry    *)
(* the argument: linking a task after the current one and unlinking the    *)
(* current one both turn one ring into one ring.                           *)
(*                                                                         *)
(* Then, that the loader and the semaphores use the scheduler only in the  *)
(* ways Sched allows, and that pids, wait queues, counters and the current *)
(* task stay consistent.  The first lemmas of this part say what each call *)
(* of the scheduler does to the sets of ready and blocked tasks; then come *)
(* the list of free pids, the wait queues and the counters, each in terms  *)
(* of those sets alone; then one lemma per action.                         *)
(*                                                                         *)
(* At last, that loader and semaphores implement Semaphores: the links of  *)
(* a wait queue run through a sequence of tasks, loader_enqueue appends to *)
(* it and loader_unqueue takes its head.                                   *)
(***************************************************************************)
EXTENDS Kernel, Numbers, FiniteSetTheorems, FunctionTheorems, SequenceTheorems, TLAPS

(* The scheduler *)

(* A task that was never linked still has the state of the zeroed array.   *)
NewIsRunning == \A p \in Task : next[p] = Idle => state[p] = RUNNING

(* What holds of the ring whatever the state of a task outside it says.    *)
RingInv ==
  /\ TypeOK
  /\ LinksInverse
  /\ SingleRing
  /\ NewIsRunning
  /\ CurrentInRing
  /\ QuantumPositive

SchedInv == RingInv /\ NoTaskLost

(* A task linked after the current one joins the ring, and the result is   *)
(* again one ring (sched_load and sched_unblock outside idle).             *)
LEMMA LinkKeepsRing ==
  ASSUME TypeOK, RingOK, NEW pd \in Task, pd \notin Ready,
         current_pid \in Ready,
         LinkAfterCurrent(pd), state' = [state EXCEPT ![pd] = RUNNING]
  PROVE  RingOK' /\ Ready' = Ready \cup {pd} /\ TypeOK!2' /\ TypeOK!3'
<1> DEFINE c == current_pid
           n == next[c]
<1>0. /\ c \in Task /\ n \in Ready /\ n \in Task /\ pd # c /\ pd # n
      /\ c \in Pid /\ n \in Pid /\ pd \in Pid /\ prev[n] = c
  BY DEF RingOK, LinksInverse, Ready, Task, Pid
<1>1. /\ next' \in [Pid -> Pid \cup {None}]
      /\ prev' \in [Pid -> Pid \cup {None}]
      /\ state' \in [Pid -> {RUNNING, BLOCKED, FINISHED}]
  BY <1>0 DEF LinkAfterCurrent, TypeOK
<1>2. /\ next'[pd] = n /\ next'[c] = pd
      /\ \A p \in Pid : p # pd /\ p # c => next'[p] = next[p]
  BY <1>0 DEF LinkAfterCurrent, TypeOK
<1>3. /\ prev'[pd] = c /\ prev'[n] = pd
      /\ \A p \in Pid : p # pd /\ p # n => prev'[p] = prev[p]
  BY <1>0 DEF LinkAfterCurrent, TypeOK
<1>4. Task \subseteq Pid
  BY DEF Task, Pid
<1>5. Ready' = Ready \cup {pd}
  BY <1>0, <1>2, <1>4 DEF Ready
<1>6. LinksInverse'
  <2> SUFFICES ASSUME NEW p \in Ready'
               PROVE  /\ state'[p] = RUNNING
                      /\ next'[p] \in Ready' /\ prev'[next'[p]] = p
                      /\ prev'[p] \in Ready' /\ next'[prev'[p]] = p
    BY DEF LinksInverse
  <2>1. p \in Ready => /\ state[p] = RUNNING
                       /\ next[p] \in Ready /\ prev[next[p]] = p
                       /\ prev[p] \in Ready /\ next[prev[p]] = p
    BY DEF RingOK, LinksInverse
  <2>2. p \in Pid /\ Ready \subseteq Pid
    BY <1>4 DEF Ready
  <2>3. state'[p] = RUNNING
    BY <1>5, <2>1, <2>2 DEF TypeOK
  <2>4. next'[p] \in Ready' /\ prev'[next'[p]] = p
    <3>1. CASE p = pd
      BY <3>1, <1>0, <1>2, <1>3, <1>5
    <3>2. CASE p = c
      BY <3>2, <1>0, <1>2, <1>3, <1>5
    <3>3. CASE p # pd /\ p # c
      <4>1. p \in Ready /\ next'[p] = next[p]
        BY <3>3, <1>5, <1>2, <2>2
      <4>2. next[p] # n /\ next[p] # pd
        BY <4>1, <3>3, <2>1, <1>0
      <4> QED BY <4>1, <4>2, <2>1, <2>2, <1>3, <1>5
    <3> QED BY <3>1, <3>2, <3>3
  <2>5. prev'[p] \in Ready' /\ next'[prev'[p]] = p
    <3>1. CASE p = pd
      BY <3>1, <1>0, <1>2, <1>3, <1>5
    <3>2. CASE p = n
      BY <3>2, <1>0, <1>2, <1>3, <1>5
    <3>3. CASE p # pd /\ p # n
      <4>1. p \in Ready /\ prev'[p] = prev[p]
        BY <3>3, <1>5, <1>3, <2>2
      <4>2. prev[p] # c /\ prev[p] # pd
        BY <4>1, <3>3, <2>1, <1>0
      <4> QED BY <4>1, <4>2, <2>1, <2>2, <1>2, <1>5
    <3> QED BY <3>1, <3>2, <3>3
  <2> QED BY <2>3, <2>4, <2>5
<1>7. SingleRing'
  <2> SUFFICES ASSUME NEW S \in SUBSET Ready', S # {},
                      \A p \in S : next'[p] \in S
               PROVE  S = Ready'
    BY DEF SingleRing
  <2> DEFINE T == S \ {pd}
  <2>1. T \subseteq Ready
    BY <1>5
  <2>2. \A p \in T : next[p] \in T
    <3> SUFFICES ASSUME NEW p \in T PROVE next[p] \in T
      OBVIOUS
    <3>1. p \in Ready /\ p \in Pid /\ next[p] \in Ready
      BY <2>1, <1>4 DEF RingOK, LinksInverse, Ready
    <3>2. CASE p = c
      <4>1. pd \in S
        BY <3>2, <1>2
      <4> QED BY <4>1, <3>2, <1>0, <1>2
    <3>3. CASE p # c
      BY <3>1, <3>3, <1>2
    <3> QED BY <3>2, <3>3
  <2>3. T # {}
    <3>1. CASE pd \in S
      BY <3>1, <1>0, <1>2
    <3>2. CASE pd \notin S
      BY <3>2
    <3> QED BY <3>1, <3>2
  <2>4. T = Ready
    BY <2>1, <2>2, <2>3 DEF RingOK, SingleRing
  <2>5. pd \in S
    BY <2>4, <1>2
  <2> QED BY <2>4, <2>5, <1>5
<1> QED BY <1>1, <1>5, <1>6, <1>7 DEF RingOK

(* When the current task leaves, its neighbours are linked to each other   *)
(* and the rest is still one ring, empty if it was alone (sched_exit and   *)
(* sched_block).                                                           *)
LEMMA RemoveKeepsRing ==
  ASSUME TypeOK, RingOK, current_pid \in Ready,
         NEW st \in {BLOCKED, FINISHED}, NEW newLast,
         RemoveCurrent(st, newLast)
  PROVE  /\ RingOK' /\ Ready' = Ready \ {current_pid}
         /\ TypeOK!1' /\ TypeOK!2' /\ TypeOK!3'
         /\ \A p \in Pid : p # current_pid =>
              state'[p] = state[p] /\ (NeverLoaded(p) => NeverLoaded(p)')
         /\ state'[current_pid] = st
<1> DEFINE c == current_pid
           n == next[c]
           b == prev[c]
<1>0. /\ c \in Task /\ n \in Ready /\ n \in Task /\ prev[n] = c
      /\ b \in Ready /\ b \in Task /\ next[b] = c
      /\ c \in Pid /\ n \in Pid /\ b \in Pid
  BY DEF RingOK, LinksInverse, Ready, Task, Pid
<1>1. /\ next' \in [Pid -> Pid \cup {None}]
      /\ prev' \in [Pid -> Pid \cup {None}]
      /\ state' \in [Pid -> {RUNNING, BLOCKED, FINISHED}]
  BY <1>0 DEF RemoveCurrent, TypeOK
<1>2. /\ state'[c] = st
      /\ \A p \in Pid : p # c => state'[p] = state[p]
  BY <1>0 DEF RemoveCurrent, TypeOK
<1>3. Task \subseteq Pid /\ None \notin Task /\ Idle \notin Task
  BY DEF Task, Pid, None, Idle
<1>4. n = c <=> b = c
  BY <1>0
<1>5. CASE n = c
  <2>1. next'[c] = None /\ \A p \in Pid : p # c => next'[p] = next[p]
    BY <1>0, <1>5 DEF RemoveCurrent, TypeOK
  <2>2. Ready = {c}
    BY <1>5, <1>0 DEF RingOK, SingleRing
  <2>3. Ready' = {}
    BY <2>1, <2>2, <1>3 DEF Ready
  <2>4. RingOK'
    BY <2>3 DEF RingOK, LinksInverse, SingleRing
  <2>5. \A p \in Pid : p # c => (NeverLoaded(p) => NeverLoaded(p)')
    BY <2>1, <1>2 DEF NeverLoaded
  <2> QED BY <1>1, <1>2, <2>2, <2>3, <2>4, <2>5
<1>6. CASE n # c
  <2>1. /\ next'[c] = None /\ next'[b] = n
        /\ \A p \in Pid : p # c /\ p # b => next'[p] = next[p]
    BY <1>0, <1>4, <1>6 DEF RemoveCurrent, TypeOK
  <2>2. /\ prev'[c] = None /\ prev'[n] = b
        /\ \A p \in Pid : p # c /\ p # n => prev'[p] = prev[p]
    BY <1>0, <1>4, <1>6 DEF RemoveCurrent, TypeOK
  <2>3. Ready' = Ready \ {c}
    BY <2>1, <1>0, <1>3, <1>6, <1>4 DEF Ready
  <2>4. LinksInverse'
    <3> SUFFICES ASSUME NEW p \in Ready'
                 PROVE  /\ state'[p] = RUNNING
                        /\ next'[p] \in Ready' /\ prev'[next'[p]] = p
                        /\ prev'[p] \in Ready' /\ next'[prev'[p]] = p
      BY DEF LinksInverse
    <3>1. /\ p \in Ready /\ p # c /\ p \in Pid
          /\ state[p] = RUNNING
          /\ next[p] \in Ready /\ prev[next[p]] = p
          /\ prev[p] \in Ready /\ next[prev[p]] = p
          /\ next[p] \in Pid /\ prev[p] \in Pid
      BY <2>3, <1>3 DEF RingOK, LinksInverse, Ready
    <3>2. state'[p] = RUNNING
      BY <3>1, <1>2
    <3>3. next'[p] \in Ready' /\ prev'[next'[p]] = p
      <4>1. CASE p = b
        BY <4>1, <1>0, <1>6, <2>1, <2>2, <2>3
      <4>2. CASE p # b
        <5>1. next'[p] = next[p] /\ next[p] # c /\ next[p] # n
          BY <4>2, <3>1, <2>1, <1>0
        <5> QED BY <5>1, <3>1, <2>2, <2>3
      <4> QED BY <4>1, <4>2
    <3>4. prev'[p] \in Ready' /\ next'[prev'[p]] = p
      <4>1. CASE p = n
        BY <4>1, <1>0, <1>4, <1>6, <2>1, <2>2, <2>3
      <4>2. CASE p # n
        <5>1. prev'[p] = prev[p] /\ prev[p] # c /\ prev[p] # b
          BY <4>2, <3>1, <2>2, <1>0
        <5> QED BY <5>1, <3>1, <2>1, <2>3
      <4> QED BY <4>1, <4>2
    <3> QED BY <3>2, <3>3, <3>4
  <2>5. SingleRing'
    <3> SUFFICES ASSUME NEW S \in SUBSET Ready', S # {},
                        \A p \in S : next'[p] \in S
                 PROVE  S = Ready'
      BY DEF SingleRing
    <3> DEFINE T == S \cup {c}
    <3>0. S \subseteq Ready /\ S \subseteq Pid /\ c \notin S
      BY <2>3, <1>3 DEF Ready
    <3>1. CASE b \in S
      <4>1. T \in SUBSET Ready /\ T # {}
        BY <3>0
      <4>2. \A p \in T : next[p] \in T
        <5> SUFFICES ASSUME NEW p \in T PROVE next[p] \in T
          OBVIOUS
        <5>1. CASE p = c
          BY <5>1, <3>1, <2>1
        <5>2. CASE p = b
          BY <5>2, <1>0
        <5>3. CASE p # c /\ p # b
          BY <5>3, <3>0, <2>1
        <5> QED BY <5>1, <5>2, <5>3
      <4>3. T = Ready
        BY <4>1, <4>2 DEF RingOK, SingleRing
      <4> QED BY <4>3, <3>0, <2>3
    <3>2. CASE b \notin S
      <4>1. \A p \in S : next[p] \in S
        BY <3>0, <3>2, <2>1
      <4>2. S = Ready
        BY <4>1, <3>0 DEF RingOK, SingleRing
      <4> QED BY <4>2, <3>0
    <3> QED BY <3>1, <3>2
  <2>6. \A p \in Pid : p # c => (NeverLoaded(p) => NeverLoaded(p)')
    <3> SUFFICES ASSUME NEW p \in Pid, p # c, NeverLoaded(p)
                 PROVE  NeverLoaded(p)'
      OBVIOUS
    <3>1. p # b
      BY <1>0, <1>3 DEF NeverLoaded
    <3> QED BY <3>1, <2>1, <1>2 DEF NeverLoaded
  <2> QED BY <1>1, <1>2, <2>3, <2>4, <2>5, <2>6 DEF RingOK
<1> QED BY <1>5, <1>6

(* A task that starts a ring of its own, when no task is runnable.         *)
LEMMA AloneMakesRing ==
  ASSUME TypeOK, Ready = {}, NEW pd \in Task,
         AloneInRing(pd), state' = [state EXCEPT ![pd] = RUNNING]
  PROVE  /\ RingOK' /\ Ready' = {pd}
         /\ TypeOK!1' /\ TypeOK!2' /\ TypeOK!3'
<1>0. Task \subseteq Pid
  BY DEF Task, Pid
<1>1. /\ next' \in [Pid -> Pid \cup {None}]
      /\ prev' \in [Pid -> Pid \cup {None}]
      /\ state' \in [Pid -> {RUNNING, BLOCKED, FINISHED}]
  BY <1>0 DEF AloneInRing, TypeOK
<1>2. /\ next'[pd] = pd /\ prev'[pd] = pd /\ state'[pd] = RUNNING
      /\ \A p \in Pid : p # pd => next'[p] = next[p]
  BY <1>0 DEF AloneInRing, TypeOK
<1>3. Ready' = {pd}
  BY <1>0, <1>2 DEF Ready
<1>4. LinksInverse'
  BY <1>2, <1>3 DEF LinksInverse
<1>5. SingleRing'
  BY <1>3 DEF SingleRing
<1> QED BY <1>1, <1>3, <1>4, <1>5 DEF RingOK

----------------------------------------------------------------------------
(* Nothing is loaded yet. *)
LEMMA SchedInitInv == sched_init => SchedInv
<1> SUFFICES ASSUME sched_init PROVE SchedInv
  OBVIOUS
<1>1. Ready = {}
  BY DEF sched_init, Ready, Task, Pid, Idle
<1>2. TypeOK
  BY SchedAssumption DEF sched_init, TypeOK, Pid, Idle
<1>3. RingOK
  BY <1>1 DEF RingOK, LinksInverse, SingleRing
<1>4. NoTaskLost /\ NewIsRunning /\ CurrentInRing /\ QuantumPositive
  BY <1>1 DEF sched_init, NoTaskLost, NewIsRunning, NeverLoaded, CurrentInRing,
              QuantumPositive, Task, Pid, Idle, None, RUNNING, BLOCKED
<1> QED BY <1>2, <1>3, <1>4 DEF SchedInv, RingInv, RingOK

(* The pids, and who is in the ring. *)
LEMMA RingFacts ==
  ASSUME RingInv
  PROVE  /\ RingOK /\ TypeOK /\ Ready \subseteq Task
         /\ Task \subseteq Pid /\ Idle \in Pid /\ Idle \notin Task /\ None \notin Pid
         /\ Idle # None /\ RUNNING # BLOCKED /\ RUNNING # FINISHED /\ BLOCKED # FINISHED
BY SchedAssumption
   DEF RingInv, RingOK, Ready, Task, Pid, Idle, None, RUNNING, BLOCKED, FINISHED

(* A task is loaded: it was not in the ring, and is then.                  *)
LEMMA LoadKeepsRing ==
  ASSUME RingInv, NEW pd \in Task, pd \notin Ready, sched_load(pd),
         current_pid # Idle \/ \A p \in Task : NeverLoaded(p)
  PROVE  /\ RingInv' /\ Ready' = Ready \cup {pd}
         /\ \A p \in Task \ Ready : p # pd => next'[p] = next[p]
<1> USE DEF RingInv
<1>0. /\ pd \in Pid /\ Task \subseteq Pid /\ Idle \notin Task /\ pd # Idle
      /\ RUNNING # BLOCKED /\ RUNNING # FINISHED /\ RingOK /\ Ready \subseteq Task
      /\ None \notin Pid
  BY RingFacts
<1>1. /\ state' = [state EXCEPT ![pd] = RUNNING] /\ last' = pd
      /\ quantum' = quantum /\ current_pid' = current_pid
  BY DEF sched_load, LinkLoaded, MarkRunning
<1>2. CASE current_pid = Idle
  <2>1. (\A p \in Task : NeverLoaded(p)) /\ Ready = {}
    BY <1>2, <1>0 DEF NeverLoaded, Ready
  <2>2. AloneInRing(pd)
    BY <1>2 DEF sched_load, LinkLoaded
  <2>3. /\ RingOK' /\ Ready' = {pd}
        /\ TypeOK!1' /\ TypeOK!2' /\ TypeOK!3'
    BY <2>1, <2>2, <1>1, AloneMakesRing
  <2>4. next'[pd] = pd /\ \A p \in Task : p # pd => next'[p] = next[p] /\ NeverLoaded(p)'
    BY <2>1, <2>2, <1>0, <1>1 DEF AloneInRing, NeverLoaded, TypeOK
  <2>5. TypeOK'
    BY <2>3, <1>0, <1>1 DEF TypeOK
  <2>6. NewIsRunning'
    BY <2>4, <1>0 DEF NewIsRunning, NeverLoaded
  <2>7. CurrentInRing'
    BY <2>3, <2>4, <1>0, <1>1, <1>2 DEF CurrentInRing
  <2>8. QuantumPositive'
    <3>1. \A p \in Task : next'[p] # None
      BY <2>4, <1>0 DEF NeverLoaded, None, Idle
    <3> QED BY <3>1, <1>1, <1>2 DEF QuantumPositive
  <2> QED BY <2>1, <2>3, <2>4, <2>5, <2>6, <2>7, <2>8 DEF RingOK
<1>3. CASE current_pid # Idle
  <2>1. LinkAfterCurrent(pd)
    BY <1>3 DEF sched_load, LinkLoaded
  <2>2. current_pid \in Ready
    BY <1>3 DEF CurrentInRing
  <2>3. /\ RingOK' /\ Ready' = Ready \cup {pd}
        /\ TypeOK!2' /\ TypeOK!3'
    BY <2>1, <2>2, <1>0, <1>1, LinkKeepsRing
  <2>4. TypeOK'
    BY <2>3, <1>0, <1>1 DEF TypeOK
  <2>5. \A p \in Task \ Ready : p # pd => next'[p] = next[p]
    BY <2>1, <2>2, <1>0 DEF LinkAfterCurrent, TypeOK
  <2>6. NewIsRunning'
    BY <2>3, <2>5, <1>0, <1>1 DEF NewIsRunning, TypeOK, Ready
  <2>7. CurrentInRing'
    BY <2>2, <2>3, <1>1, <1>3 DEF CurrentInRing
  <2>8. QuantumPositive'
    BY <1>1, <1>3 DEF QuantumPositive
  <2> QED BY <2>3, <2>4, <2>5, <2>6, <2>7, <2>8 DEF RingOK
<1> QED BY <1>2, <1>3

(* A task that has left the ring is woken: it goes behind the current one, *)
(* or gets the CPU.                                                        *)
LEMMA UnblockKeepsRing ==
  ASSUME RingInv, NEW pd \in Task, next[pd] = None, sched_unblock(pd)
  PROVE  /\ RingInv' /\ Ready' = Ready \cup {pd} /\ pd \notin Ready
         /\ \A p \in Task \ Ready : p # pd => next'[p] = next[p]
         /\ current_pid' # Idle
<1> USE DEF RingInv
<1>0. /\ pd \in Pid /\ Task \subseteq Pid /\ Idle \notin Task /\ pd # Idle
      /\ RUNNING # BLOCKED /\ RingOK /\ None # Idle /\ None \notin Pid /\ Ready \subseteq Task
  BY RingFacts
<1>1. pd \notin Ready
  BY <1>0 DEF Ready
<1>2. /\ state' = [state EXCEPT ![pd] = RUNNING] /\ quantum' = quantum
      /\ quantum \in 1 .. Quantum
  BY <1>0 DEF sched_unblock, QuantumPositive
<1>3. CASE current_pid = Idle
  <2>1. last = Idle
    <3> SUFFICES ASSUME last # Idle PROVE FALSE
      OBVIOUS
    <3>1. last \in Ready
      BY <1>3 DEF CurrentInRing, TypeOK, Task, Pid, Idle
    <3>2. NeverLoaded(pd)
      BY <3>1, <1>1, <1>3 DEF CurrentInRing
    <3> QED BY <3>2, <1>0 DEF NeverLoaded
  <2>2. Ready = {}
    BY <2>1, <1>3, <1>0 DEF CurrentInRing
  <2>3. AloneInRing(pd) /\ current_pid' = pd /\ last' = pd
    BY <1>3 DEF sched_unblock
  <2>4. /\ RingOK' /\ Ready' = {pd}
        /\ TypeOK!1' /\ TypeOK!2' /\ TypeOK!3'
    BY <2>2, <2>3, <1>2, AloneMakesRing
  <2>5. TypeOK'
    BY <2>3, <2>4, <1>0, <1>2 DEF TypeOK
  <2>6. next'[pd] = pd /\ \A p \in Task : p # pd => next'[p] = next[p]
    BY <2>3, <1>0 DEF AloneInRing, TypeOK
  <2>7. NewIsRunning'
    BY <2>6, <1>0, <1>2 DEF NewIsRunning, TypeOK
  <2>8. CurrentInRing'
    BY <2>3, <2>4, <1>0 DEF CurrentInRing
  <2>9. QuantumPositive'
    BY <1>2 DEF QuantumPositive
  <2> QED BY <1>0, <1>1, <2>2, <2>3, <2>4, <2>5, <2>6, <2>7, <2>8, <2>9 DEF RingOK
<1>4. CASE current_pid # Idle
  <2>1. LinkAfterCurrent(pd) /\ current_pid' = current_pid /\ last' = last
    BY <1>4 DEF sched_unblock
  <2>2. current_pid \in Ready /\ last \in Ready
    BY <1>4 DEF CurrentInRing
  <2>3. /\ RingOK' /\ Ready' = Ready \cup {pd}
        /\ TypeOK!2' /\ TypeOK!3'
    BY <2>1, <2>2, <1>0, <1>1, <1>2, LinkKeepsRing
  <2>4. TypeOK'
    BY <2>1, <2>3, <1>0, <1>2 DEF TypeOK
  <2>5. \A p \in Task \ Ready : p # pd => next'[p] = next[p]
    BY <2>1, <2>2, <1>0 DEF LinkAfterCurrent, TypeOK
  <2>6. NewIsRunning'
    BY <2>3, <2>5, <1>0, <1>2 DEF NewIsRunning, TypeOK, Ready
  <2>7. CurrentInRing'
    BY <2>1, <2>2, <2>3, <1>4 DEF CurrentInRing
  <2>8. QuantumPositive'
    BY <1>2 DEF QuantumPositive
  <2> QED BY <1>1, <1>4, <2>1, <2>3, <2>4, <2>5, <2>6, <2>7, <2>8 DEF RingOK
<1> QED BY <1>3, <1>4

(* sched_exit and sched_block differ only in the state they leave behind   *)
(* and in what becomes of last: any task left in the ring will do.         *)
LEMMA RemoveKeepsInv ==
  ASSUME RingInv, current_pid # Idle,
         NEW st \in {BLOCKED, FINISHED}, NEW newLast,
         newLast \in Ready,
         next[current_pid] # current_pid => newLast # current_pid,
         RemoveCurrent(st, newLast)
  PROVE  /\ RingInv' /\ Ready' = Ready \ {current_pid} /\ current_pid \in Ready
         /\ next'[current_pid] = None /\ \A p \in Task \ Ready : next'[p] = next[p]
         /\ state' = [state EXCEPT ![current_pid] = st]
         /\ current_pid' = Idle => last' = Idle
<1> USE DEF RingInv
<1>0. /\ Task \subseteq Pid /\ Idle \notin Task /\ Idle \in Pid /\ RingOK
      /\ Ready \subseteq Task /\ None \notin Pid
      /\ RUNNING # BLOCKED /\ RUNNING # FINISHED
  BY RingFacts
<1>1. current_pid \in Ready /\ current_pid \in Task /\ current_pid \in Pid
  BY <1>0 DEF CurrentInRing
<1>2. /\ RingOK' /\ Ready' = Ready \ {current_pid}
      /\ TypeOK!1' /\ TypeOK!2' /\ TypeOK!3'
      /\ \A p \in Pid : p # current_pid =>
           state'[p] = state[p] /\ (NeverLoaded(p) => NeverLoaded(p)')
      /\ state'[current_pid] = st
  BY <1>0, <1>1, RemoveKeepsRing
<1>3. quantum' = Quantum /\ quantum' \in 1 .. Quantum
  BY SchedAssumption DEF RemoveCurrent
<1>4. next'[current_pid] = None /\ \A p \in Task \ Ready : next'[p] = next[p]
  <2>1. prev[current_pid] \in Ready
    BY <1>1 DEF LinksInverse
  <2> QED BY <2>1, <1>0, <1>1 DEF RemoveCurrent, TypeOK
<1>5. state' = [state EXCEPT ![current_pid] = st]
  BY DEF RemoveCurrent
<1>6. NewIsRunning'
  <2> SUFFICES ASSUME NEW p \in Task, next'[p] = Idle PROVE state'[p] = RUNNING
    BY DEF NewIsRunning
  <2>1. p # current_pid
    BY <1>0, <1>4 DEF Idle, None
  <2>2. p \notin Ready
    BY <2>1, <1>0, <1>2 DEF Ready
  <2> QED BY <2>1, <2>2, <1>0, <1>2, <1>4 DEF NewIsRunning
<1>7. QuantumPositive'
  BY <1>3 DEF QuantumPositive
<1>8. CASE next[current_pid] = current_pid
  <2>1. current_pid' = Idle /\ last' = Idle
    BY <1>8 DEF RemoveCurrent
  <2>2. Ready = {current_pid}
    BY <1>1, <1>8 DEF SingleRing
  <2>3. CurrentInRing'
    BY <2>1, <2>2, <1>0, <1>2 DEF CurrentInRing
  <2>4. TypeOK'
    BY <2>1, <1>0, <1>2, <1>3 DEF TypeOK
  <2> QED BY <2>1, <2>3, <2>4, <1>1, <1>2, <1>4, <1>5, <1>6, <1>7 DEF RingOK
<1>9. CASE next[current_pid] # current_pid
  <2>1. current_pid' = next[current_pid] /\ last' = newLast
    BY <1>9 DEF RemoveCurrent
  <2>2. current_pid' \in Ready' /\ last' \in Ready'
    BY <2>1, <1>1, <1>2, <1>9 DEF LinksInverse
  <2>3. CurrentInRing'
    BY <2>2, <1>0, <1>2 DEF CurrentInRing
  <2>4. TypeOK'
    BY <2>2, <1>0, <1>2, <1>3 DEF TypeOK
  <2>5. current_pid' # Idle
    BY <2>2, <1>0, <1>2
  <2> QED BY <2>3, <2>4, <2>5, <1>1, <1>2, <1>4, <1>5, <1>6, <1>7 DEF RingOK
<1> QED BY <1>8, <1>9

(* The current task leaves the ring in state st. *)
Leaves(st) ==
  /\ RingInv' /\ Ready' = Ready \ {current_pid} /\ current_pid \in Ready
  /\ next'[current_pid] = None /\ \A p \in Task \ Ready : next'[p] = next[p]
  /\ state' = [state EXCEPT ![current_pid] = st]
  /\ current_pid' = Idle => last' = Idle

(* The current task ends, *)
LEMMA ExitKeepsRing ==
  ASSUME RingInv, Exit
  PROVE  Leaves(FINISHED)
<1>1. current_pid # Idle /\ RemoveCurrent(FINISHED, prev[current_pid])
  BY DEF Exit, sched_exit
<1>2. prev[current_pid] \in Ready /\ next[prev[current_pid]] = current_pid
  BY <1>1 DEF RingInv, CurrentInRing, LinksInverse
<1> QED BY <1>1, <1>2, RemoveKeepsInv DEF Leaves

(* or waits. *)
LEMMA BlockKeepsRing ==
  ASSUME RingInv, Block
  PROVE  Leaves(BLOCKED)
<1> DEFINE newLast == IF current_pid = last THEN prev[current_pid] ELSE last
<1>1. current_pid # Idle /\ RemoveCurrent(BLOCKED, newLast)
  BY DEF Block, sched_block
<1>2. /\ prev[current_pid] \in Ready /\ last \in Ready
      /\ next[prev[current_pid]] = current_pid
  BY <1>1 DEF RingInv, CurrentInRing, LinksInverse
<1>3. newLast \in Ready /\ (next[current_pid] # current_pid => newLast # current_pid)
  BY <1>2
<1> HIDE DEF newLast
<1> QED BY <1>1, <1>3, RemoveKeepsInv DEF Leaves

(* The clock decrements the quantum or moves on to the next task. *)
LEMMA TickKeepsRing ==
  ASSUME RingInv, sched_tick
  PROVE  RingInv' /\ Ready' = Ready /\ (current_pid' = Idle => current_pid = Idle /\ last' = Idle)
<1> USE DEF RingInv
<1>0. /\ UNCHANGED <<state, next, prev, last>> /\ Idle \in Pid
      /\ Ready' = Ready /\ Ready \subseteq Task
      /\ Task \subseteq Pid /\ Idle \notin Task
  BY SchedAssumption DEF sched_tick, Ready, Task, Pid, Idle
<1>1. LinksInverse' /\ SingleRing' /\ NewIsRunning'
  BY <1>0 DEF LinksInverse, SingleRing, NewIsRunning
<1>2. CASE TickIdle /\ last = Idle
  <2>1. UNCHANGED <<quantum, current_pid>> /\ current_pid = Idle
    BY <1>2 DEF TickIdle
  <2> QED BY <2>1, <1>0, <1>1, <1>2
          DEF TypeOK, CurrentInRing, QuantumPositive, NeverLoaded
<1>3. CASE TickIdle /\ last # Idle
  <2>1. current_pid = Idle /\ quantum' = Quantum /\ current_pid' = last
    BY <1>3 DEF TickIdle
  <2>2. last \in Ready
    BY <2>1, <1>3 DEF CurrentInRing, TypeOK, Task, Pid, Idle
  <2>3. quantum' \in 1 .. Quantum
    BY <2>1, SchedAssumption
  <2> QED BY <2>1, <2>2, <2>3, <1>0, <1>1
          DEF TypeOK, CurrentInRing, QuantumPositive
<1>4. CASE TickTask
  <2>1. current_pid # Idle /\ current_pid \in Ready /\ last \in Ready
        /\ next[current_pid] \in Ready
    BY <1>4 DEF TickTask, CurrentInRing, LinksInverse
  <2>2. quantum' \in 1 .. Quantum
    BY <1>4, <2>1, SchedAssumption DEF TickTask, QuantumPositive
  <2>3. current_pid' \in Ready
    BY <1>4, <2>1 DEF TickTask
  <2> QED BY <2>1, <2>2, <2>3, <1>0, <1>1
          DEF TypeOK, CurrentInRing, QuantumPositive
<1> QED BY <1>2, <1>3, <1>4 DEF sched_tick, TickIdle

(* Writing RUNNING into the state of a task changes nothing of the ring.   *)
LEMMA MarkKeepsRing ==
  ASSUME RingInv, NEW pd \in Task, MarkRunning(pd),
         UNCHANGED <<next, prev, quantum, current_pid, last>>
  PROVE  RingInv' /\ Ready' = Ready
<1>0. pd \in Pid /\ Task \subseteq Pid /\ Ready \subseteq Task
  BY RingFacts
<1>1. Ready' = Ready
  BY DEF Ready
<1>2. TypeOK' /\ state'[pd] = RUNNING /\ \A p \in Pid : p # pd => state'[p] = state[p]
  BY <1>0 DEF RingInv, TypeOK, MarkRunning
<1>3. LinksInverse' /\ SingleRing' /\ NewIsRunning'
  BY <1>0, <1>1, <1>2 DEF RingInv, LinksInverse, SingleRing, NewIsRunning
<1>4. CurrentInRing' /\ QuantumPositive'
  BY <1>0, <1>1, <1>2 DEF RingInv, CurrentInRing, NeverLoaded, QuantumPositive
<1> QED BY <1>1, <1>2, <1>3, <1>4 DEF RingInv

(* A load and a wake-up lose no task either,                               *)
LEMMA LoadKeepsInv ==
  ASSUME SchedInv, NEW pd \in Task, Load(pd)
  PROVE  SchedInv'
<1>0. /\ RingInv /\ pd \in Pid /\ Task \subseteq Pid /\ Ready \subseteq Task /\ Idle \notin Task
      /\ RUNNING # FINISHED /\ TypeOK
  BY RingFacts DEF SchedInv
<1>1. pd \notin Ready /\ sched_load(pd) /\ (current_pid # Idle \/ \A p \in Task : NeverLoaded(p))
  BY <1>0 DEF Load, NeverLoaded, Ready, RingInv, LinksInverse
<1>2. /\ RingInv' /\ Ready' = Ready \cup {pd}
      /\ \A p \in Task \ Ready : p # pd => next'[p] = next[p]
  BY <1>0, <1>1, LoadKeepsRing
<1>3. state' = [state EXCEPT ![pd] = RUNNING]
  BY <1>1 DEF sched_load, MarkRunning
<1>4. NoTaskLost'
  BY <1>0, <1>2, <1>3 DEF SchedInv, NoTaskLost, NeverLoaded, TypeOK
<1> QED BY <1>2, <1>4 DEF SchedInv

(* a blocked task being one that has left the ring;                        *)
LEMMA UnblockKeepsInv ==
  ASSUME SchedInv, NEW pd \in Task, Unblock(pd)
  PROVE  SchedInv'
<1>0. /\ RingInv /\ pd \in Pid /\ Task \subseteq Pid /\ Ready \subseteq Task
      /\ RUNNING # BLOCKED /\ TypeOK
  BY RingFacts DEF SchedInv
<1>1. state[pd] = BLOCKED /\ sched_unblock(pd)
  BY DEF Unblock
<1>2. next[pd] = None
  BY <1>0, <1>1 DEF RingInv, LinksInverse, NewIsRunning, Ready, TypeOK, Task, Pid, Idle
<1>3. /\ RingInv' /\ Ready' = Ready \cup {pd}
      /\ \A p \in Task \ Ready : p # pd => next'[p] = next[p]
  BY <1>0, <1>1, <1>2, UnblockKeepsRing
<1>4. state' = [state EXCEPT ![pd] = RUNNING]
  BY <1>1 DEF sched_unblock
<1>5. NoTaskLost'
  BY <1>0, <1>3, <1>4 DEF SchedInv, NoTaskLost, NeverLoaded, TypeOK
<1> QED BY <1>3, <1>5 DEF SchedInv

(* nor does a block or an exit, or a tick.                                 *)
LEMMA LeaveKeepsInv ==
  ASSUME SchedInv, Exit \/ Block
  PROVE  SchedInv'
<1>0. /\ RingInv /\ Task \subseteq Pid /\ Ready \subseteq Task
      /\ RUNNING # BLOCKED /\ RUNNING # FINISHED /\ TypeOK
  BY RingFacts DEF SchedInv
<1>1. PICK st \in {BLOCKED, FINISHED} : Leaves(st)
  BY <1>0, ExitKeepsRing, BlockKeepsRing
<1>2. NoTaskLost'
  BY <1>0, <1>1 DEF Leaves, SchedInv, NoTaskLost, NeverLoaded, TypeOK
<1> QED BY <1>1, <1>2 DEF SchedInv, Leaves

(* The tick leaves states and links alone.                                 *)
LEMMA TickKeepsInv == SchedInv /\ sched_tick => SchedInv'
<1> SUFFICES ASSUME SchedInv, sched_tick PROVE SchedInv'
  OBVIOUS
<1>1. RingInv' /\ Ready' = Ready
  BY TickKeepsRing DEF SchedInv
<1>2. NoTaskLost'
  BY <1>1 DEF SchedInv, NoTaskLost, NeverLoaded, sched_tick
<1> QED BY <1>1, <1>2 DEF SchedInv

(* Every call keeps the invariant. *)
LEMMA SchedStepInv == SchedInv /\ [SchedNext]_schedVars => SchedInv'
<1> SUFFICES ASSUME SchedInv, [SchedNext]_schedVars PROVE SchedInv'
  OBVIOUS
<1>1. CASE UNCHANGED schedVars
  <2>1. UNCHANGED <<state, next, prev, quantum, current_pid, last, Ready>>
    BY <1>1 DEF schedVars, Ready
  <2> QED BY <2>1 DEF SchedInv, RingInv, TypeOK, LinksInverse, SingleRing, NewIsRunning,
                      NoTaskLost, NeverLoaded, CurrentInRing, QuantumPositive
<1>2. CASE SchedNext
  BY <1>2, LoadKeepsInv, UnblockKeepsInv, LeaveKeepsInv, TickKeepsInv DEF SchedNext
<1> QED BY <1>1, <1>2

(* For every MaxPid and Quantum, whatever the kernel calls: the types, one *)
(* ring with inverse links that holds exactly the runnable tasks, current  *)
(* and last in it, and no decrement of a zero quantum.                     *)
THEOREM SchedSafety == SchedSpec => []SchedInv
<1>1. SchedInv /\ [SchedNext]_schedVars => SchedInv'
  BY SchedStepInv
<1> QED BY <1>1, SchedInitInv, PTL DEF SchedSpec

(* Every variable of the scheduler keeps its type; in particular quantum   *)
(* never wraps below zero.                                                 *)
THEOREM SchedTypeCorrect == SchedSpec => []TypeOK
<1>1. SchedInv => TypeOK
  BY DEF SchedInv, RingInv
<1> QED BY <1>1, SchedSafety, PTL

(* Following tasks[].next from any runnable task reaches all the others.   *)
THEOREM SchedRing == SchedSpec => []RingOK
<1>1. SchedInv => RingOK
  BY DEF SchedInv, RingInv, RingOK
<1> QED BY <1>1, SchedSafety, PTL

(* A loaded task in state RUNNING is always in the ring.                   *)
THEOREM SchedNoTaskLost == SchedSpec => []NoTaskLost
<1>1. SchedInv => NoTaskLost
  BY DEF SchedInv
<1> QED BY <1>1, SchedSafety, PTL

(* The task that owns the CPU is in the ring with ticks left, and the CPU  *)
(* idles only when no task is runnable (or before the first tick).         *)
THEOREM SchedCurrent == SchedSpec => []CurrentOK
<1>1. SchedInv => CurrentOK
  BY DEF SchedInv, RingInv, CurrentOK
<1> QED BY <1>1, SchedSafety, PTL

(* No call reorders the tasks that stay in the ring.                       *)
THEOREM SchedOrderKept == SchedSpec => OrderKept
<1> DEFINE Kept == \A p \in Ready \cap Ready' :
                     p # current_pid /\ next[p] # current_pid => next'[p] = next[p]
<1>1. SchedInv /\ [SchedNext]_schedVars => [Kept]_schedVars
  <2> SUFFICES ASSUME SchedInv, SchedNext,
                      NEW p \in Ready \cap Ready',
                      p # current_pid, next[p] # current_pid
               PROVE  next'[p] = next[p]
    OBVIOUS
  <2> USE DEF SchedInv, RingInv
  <2>0. p \in Task /\ Task \subseteq Pid /\ state[p] = RUNNING /\ Idle \notin Task
    BY DEF Ready, Task, Pid, Idle, LinksInverse
  <2>1. ASSUME NEW pd \in Task, Load(pd) PROVE next'[p] = next[p]
    <3>1. p # pd
      BY <2>0, <2>1 DEF Load, NeverLoaded, Ready, RUNNING, FINISHED
    <3>2. pd \in Pid /\ p \in Pid
      BY <2>0
    <3> QED BY <2>1, <3>1, <3>2
            DEF Load, sched_load, LinkLoaded, AloneInRing, LinkAfterCurrent, TypeOK
  <2>2. ASSUME NEW pd \in Task, Unblock(pd) PROVE next'[p] = next[p]
    <3>1. p # pd
      BY <2>0, <2>2 DEF Unblock, RUNNING, BLOCKED
    <3>2. pd \in Pid /\ p \in Pid
      BY <2>0
    <3> QED BY <2>2, <3>1, <3>2
            DEF Unblock, sched_unblock, AloneInRing, LinkAfterCurrent, TypeOK
  <2>3. ASSUME Exit \/ Block PROVE next'[p] = next[p]
    <3>1. current_pid # Idle /\ current_pid \in Ready
      BY <2>3 DEF Exit, Block, CurrentInRing
    <3>2. next[prev[current_pid]] = current_pid
      BY <3>1 DEF LinksInverse
    <3>3. p # prev[current_pid]
      BY <3>2
    <3> QED BY <2>0, <2>3, <3>3
            DEF Exit, Block, sched_exit, sched_block, RemoveCurrent, TypeOK
  <2>4. ASSUME sched_tick PROVE next'[p] = next[p]
    BY <2>4 DEF sched_tick
  <2> QED BY <2>1, <2>2, <2>3, <2>4 DEF SchedNext
<1> QED BY <1>1, SchedSafety, PTL DEF SchedSpec, OrderKept

----------------------------------------------------------------------------
(* The loader and the semaphores *)

LoaderTypes ==
  /\ cur_pid \in Pid
  /\ qnext \in [Pid -> Pid \cup {None}] /\ qprev \in [Pid -> Pid \cup {None}]
  /\ has_dir \in [Pid -> BOOLEAN]
  /\ tasks_running \in Int /\ tasks_blocked \in Int
  /\ free_pids \in [Pid -> Task \cup {None}] /\ next_free \in Task \cup {None}
  /\ vl \in [Sem -> 0 .. MaxVl] /\ q \in [Sem -> Task \cup {None}]
  /\ boot \in {"init", "linked", "loaded", "counting", "idle"} /\ overrun \in BOOLEAN
  /\ taken \in [Sem -> 0 .. MaxVl] /\ counted \in {-1, 0} /\ miscount \in {0, 1}

(* Before the first load no task was ever loaded; boot's s->vl-- and its   *)
(* tasks_running++ are over, or not begun, outside their own phase; what   *)
(* was loaded is -1 only if the first task had gone, and then the idle     *)
(* task gets the CPU only when nobody is left in the ring.                 *)
NoneLoaded == \A p \in Task : NeverLoaded(p)

BootInv ==
  /\ boot = "init" => next_free = FirstPid /\ NoneLoaded
  /\ boot # "init" => \A s \in Sem : taken[s] = 0
  /\ boot # "counting" => counted = 0
  /\ boot # "idle" => miscount = 0
  /\ counted = -1 => (current_pid = Idle => last = Idle)

(* Whoever runs or may run again has a page directory. *)
DirsAlive == \A p \in Ready \cup Blocked \cup {Idle} : has_dir[p]

(* Who waits has left the ring. *)
SleepersUnlinked == \A p \in Blocked : next[p] = None

(* The part of QueuesExact that is about the links of task_table.          *)
QueuesLinked == \E w \in [Blocked -> Sem] : QueueLinks(w) /\ QueueRings(w)

KernelInv ==
  /\ RingInv /\ LoaderTypes /\ BootInv
  /\ cur_pid = current_pid /\ DirsAlive /\ SleepersUnlinked
  /\ PidsAccounted /\ StatesTold /\ QueuesLinked /\ CountersExact

----------------------------------------------------------------------------
(* The scheduler that Sched describes, with the states of the tasks as the *)
(* links tell them: tasks[].state itself differs for the first task when   *)
(* the boot code has marked it RUNNING late.                               *)

ToldState(p) ==
  IF p \in Blocked THEN BLOCKED
  ELSE IF p \in Task /\ next[p] = None THEN FINISHED ELSE RUNNING

Told == [p \in Pid |-> ToldState(p)]

Scheduler == INSTANCE Sched WITH state <- Told

SchedStep == [Scheduler!SchedNext]_(Scheduler!schedVars)

(* The state told changes only for tasks whose links change.               *)
LEMMA ToldChanges ==
  ASSUME NEW c \in Pid,
         \A p \in Task : p # c => /\ p \in Blocked' <=> p \in Blocked
                                  /\ next'[p] = None <=> next[p] = None,
         Blocked \subseteq Task, Blocked' \subseteq Task
  PROVE  Told' = [Told EXCEPT ![c] = ToldState(c)']
<1>1. ASSUME NEW p \in Pid, p # c PROVE ToldState(p)' = ToldState(p)
  BY <1>1 DEF ToldState
<1>2. Told = [p \in Pid |-> ToldState(p)] /\ Told' = [p \in Pid |-> ToldState(p)']
  BY DEF Told
<1> HIDE DEF Told
<1>3. [Told EXCEPT ![c] = ToldState(c)'] = [p \in Pid |-> IF p = c THEN ToldState(c)' ELSE ToldState(p)]
  BY <1>2
<1> QED BY <1>1, <1>2, <1>3

(* Types, and who is ready, blocked or idle.                               *)
LEMMA SetsOfTasks ==
  ASSUME RingInv, SleepersUnlinked
  PROVE  /\ Ready \subseteq Task /\ Blocked \subseteq Task /\ Ready \cap Blocked = {}
         /\ Task \subseteq Pid /\ Idle \in Pid /\ Idle \notin Task /\ None \notin Pid /\ None \notin Task
         /\ \A p \in Ready : next[p] # None
         /\ \A p \in Task : p \in Free <=> p \notin Ready /\ p \notin Blocked
<1>1. /\ Ready \subseteq Task /\ Blocked \subseteq Task
      /\ Task \subseteq Pid /\ Idle \in Pid /\ Idle \notin Task /\ None \notin Pid
  BY RingFacts DEF Blocked
<1>2. \A p \in Ready : next[p] # None
  BY <1>1 DEF Ready
<1>3. Ready \cap Blocked = {}
  BY <1>2 DEF SleepersUnlinked
<1>4. \A p \in Task : p \in Free <=> p \notin Ready /\ p \notin Blocked
  BY DEF Free
<1> QED BY <1>1, <1>2, <1>3, <1>4

(* A free pid is a pid and no task of the scheduler.                       *)
LEMMA FreeOf ==
  ASSUME RingInv, SleepersUnlinked
  PROVE  None \notin Free /\ Free \subseteq Pid /\ None \notin Task
BY SetsOfTasks DEF Free

----------------------------------------------------------------------------
(* The calls of the scheduler, seen from the sets of ready and blocked     *)
(* tasks.  Each is a step that Sched allows.                               *)

(* sched_load makes a task that is neither ready nor blocked ready.        *)
LEMMA LoadMoves ==
  ASSUME RingInv, SleepersUnlinked, NEW pd \in Free, sched_load(pd), Blocked' = Blocked,
         current_pid # Idle \/ NoneLoaded
  PROVE  /\ RingInv' /\ Ready' = Ready \cup {pd} /\ SleepersUnlinked' /\ SchedStep
         /\ pd \notin Ready /\ pd \notin Blocked /\ pd \in Task /\ pd \in Pid
         /\ state' = [state EXCEPT ![pd] = RUNNING]
<1>1. /\ pd \in Task /\ pd \in Pid /\ pd \notin Ready /\ pd \notin Blocked
      /\ Ready \subseteq Task /\ Blocked \subseteq Task /\ Ready \cap Blocked = {}
      /\ Task \subseteq Pid /\ None \notin Pid /\ None \notin Task /\ Idle \notin Task
      /\ \A p \in Ready : next[p] # None
  BY SetsOfTasks DEF Free
<1>2. /\ RingInv' /\ Ready' = Ready \cup {pd}
      /\ \A p \in Task \ Ready : p # pd => next'[p] = next[p]
  BY <1>1, LoadKeepsRing DEF NoneLoaded
<1>3. SleepersUnlinked'
  BY <1>1, <1>2 DEF SleepersUnlinked
<1>4. \A p \in Ready' : next'[p] # None
  BY <1>1 DEF Ready
<1>5. Told' = [Told EXCEPT ![pd] = ToldState(pd)']
  <2>1. \A p \in Task : p # pd => next'[p] = None <=> next[p] = None
    BY <1>1, <1>2, <1>4
  <2> QED BY <1>1, <2>1, ToldChanges
<1>6. ToldState(pd)' = RUNNING
  BY <1>1, <1>2, <1>4 DEF ToldState
<1>7. Scheduler!sched_load(pd)
  <2>1. Scheduler!LinkLoaded(pd)
    BY DEF sched_load, LinkLoaded, AloneInRing, LinkAfterCurrent, Idle,
           Scheduler!LinkLoaded, Scheduler!AloneInRing, Scheduler!LinkAfterCurrent, Scheduler!Idle
  <2>2. Scheduler!MarkRunning(pd)
    BY <1>5, <1>6 DEF Scheduler!MarkRunning, Scheduler!RUNNING, RUNNING
  <2> QED BY <2>1, <2>2 DEF Scheduler!sched_load
<1>8. Scheduler!Load(pd)
  <2>1. Scheduler!NeverLoaded(pd) \/ Told[pd] = Scheduler!FINISHED
    <3>1. next[pd] \in Pid \cup {None} /\ next[pd] \notin Task
      BY <1>1 DEF RingInv, TypeOK, Ready
    <3>2. next[pd] = Idle \/ next[pd] = None
      BY <3>1 DEF Pid, Task, Idle
    <3> QED BY <1>1, <3>2 DEF Told, ToldState, Scheduler!NeverLoaded, Scheduler!RUNNING, RUNNING,
                              Scheduler!FINISHED, FINISHED, Scheduler!Idle, Idle, None
  <2>2. current_pid # Scheduler!Idle \/ \A p \in Scheduler!Task : Scheduler!NeverLoaded(p)
    <3>1. ASSUME NoneLoaded, NEW p \in Task PROVE Scheduler!NeverLoaded(p)
      <4>1. next[p] = Idle /\ p \in Pid /\ Idle # None
        BY <1>1, <3>1, RingFacts DEF NoneLoaded, NeverLoaded
      <4>2. Told[p] = RUNNING
        BY <4>1 DEF Told, ToldState, SleepersUnlinked
      <4> QED BY <4>1, <4>2 DEF Scheduler!NeverLoaded, Scheduler!RUNNING, RUNNING, Scheduler!Idle, Idle
    <3>2. Scheduler!Task = Task /\ Scheduler!Idle = Idle
      BY DEF Scheduler!Task, Task, Scheduler!Idle, Idle
    <3> QED BY <3>1, <3>2
  <2> QED BY <1>7, <2>1, <2>2 DEF Scheduler!Load
<1>9. SchedStep
  BY <1>1, <1>8 DEF SchedStep, Scheduler!SchedNext, Scheduler!Task, Task
<1>10. state' = [state EXCEPT ![pd] = RUNNING]
  BY DEF sched_load, MarkRunning
<1> QED BY <1>1, <1>2, <1>3, <1>9, <1>10

(* sched_unblock moves a task from blocked to ready.                       *)
LEMMA UnblockMoves ==
  ASSUME RingInv, SleepersUnlinked, NEW pd \in Blocked, sched_unblock(pd), Blocked' = Blocked \ {pd}
  PROVE  /\ RingInv' /\ Ready' = Ready \cup {pd} /\ SleepersUnlinked' /\ SchedStep
         /\ pd \notin Ready /\ pd \in Task /\ pd \in Pid
         /\ state' = [state EXCEPT ![pd] = RUNNING] /\ current_pid' # Idle
<1>1. /\ pd \in Task /\ pd \in Pid /\ next[pd] = None
      /\ Ready \subseteq Task /\ Blocked \subseteq Task /\ Ready \cap Blocked = {}
      /\ Task \subseteq Pid /\ None \notin Pid /\ None \notin Task
      /\ \A p \in Ready : next[p] # None
  BY SetsOfTasks DEF SleepersUnlinked
<1>2. /\ RingInv' /\ Ready' = Ready \cup {pd} /\ pd \notin Ready
      /\ \A p \in Task \ Ready : p # pd => next'[p] = next[p]
      /\ current_pid' # Idle
  BY <1>1, UnblockKeepsRing
<1>3. SleepersUnlinked'
  BY <1>1, <1>2 DEF SleepersUnlinked
<1>4. \A p \in Ready' : next'[p] # None
  BY <1>1 DEF Ready
<1>5. Told' = [Told EXCEPT ![pd] = ToldState(pd)']
  <2>1. \A p \in Task : p # pd => next'[p] = None <=> next[p] = None
    BY <1>1, <1>2, <1>4
  <2>2. \A p \in Task : p # pd => p \in Blocked' <=> p \in Blocked
    OBVIOUS
  <2>3. Blocked' \subseteq Task
    BY <1>1
  <2> QED BY <1>1, <2>1, <2>2, <2>3, ToldChanges
<1>6. ToldState(pd)' = RUNNING
  BY <1>2, <1>4 DEF ToldState
<1>7. Scheduler!sched_unblock(pd)
  <2>1. Told' = [Told EXCEPT ![pd] = Scheduler!RUNNING]
    BY <1>5, <1>6 DEF Scheduler!RUNNING, RUNNING
  <2> QED BY <2>1 DEF sched_unblock, AloneInRing, LinkAfterCurrent, Idle, Scheduler!sched_unblock,
                Scheduler!AloneInRing, Scheduler!LinkAfterCurrent, Scheduler!Idle
<1>8. Scheduler!Unblock(pd)
  BY <1>1, <1>7 DEF Scheduler!Unblock, Told, ToldState, Scheduler!BLOCKED, BLOCKED
<1>9. SchedStep
  BY <1>1, <1>8 DEF SchedStep, Scheduler!SchedNext, Scheduler!Task, Task
<1>10. state' = [state EXCEPT ![pd] = RUNNING]
  BY DEF sched_unblock
<1> QED BY <1>1, <1>2, <1>3, <1>9, <1>10

(* What sched_block and sched_exit have in common: the current task goes   *)
(* from ready to blocked or to neither, and its state is told right.       *)
LEMMA LeaveMoves ==
  ASSUME RingInv, SleepersUnlinked, NEW st \in {BLOCKED, FINISHED}, Leaves(st),
         Blocked' = IF st = BLOCKED THEN Blocked \cup {current_pid} ELSE Blocked
  PROVE  /\ RingInv' /\ Ready' = Ready \ {current_pid} /\ SleepersUnlinked'
         /\ current_pid \in Ready /\ current_pid \notin Blocked /\ current_pid \in Task
         /\ state' = [state EXCEPT ![current_pid] = st]
         /\ Told' = [Told EXCEPT ![current_pid] = st]
         /\ current_pid' = Idle => last' = Idle
<1>0. PICK c : c = current_pid
  OBVIOUS
<1>1. /\ RingInv' /\ Ready' = Ready \ {c} /\ c \in Ready
      /\ next'[c] = None /\ \A p \in Task \ Ready : next'[p] = next[p]
      /\ state' = [state EXCEPT ![c] = st]
      /\ current_pid' = Idle => last' = Idle
  BY <1>0 DEF Leaves
<1>2. /\ c \in Task /\ c \in Pid /\ c \notin Blocked
      /\ Ready \subseteq Task /\ Blocked \subseteq Task /\ Ready \cap Blocked = {}
      /\ Task \subseteq Pid /\ None \notin Pid /\ None \notin Task
      /\ \A p \in Ready : next[p] # None
  BY <1>1, SetsOfTasks
<1>3. SleepersUnlinked'
  BY <1>0, <1>1, <1>2 DEF SleepersUnlinked
<1>4. \A p \in Ready' : next'[p] # None
  BY <1>2 DEF Ready
<1>5. Told' = [Told EXCEPT ![c] = ToldState(c)']
  <2>1. \A p \in Task : p # c => next'[p] = None <=> next[p] = None
    BY <1>1, <1>2, <1>4
  <2>2. \A p \in Task : p # c => p \in Blocked' <=> p \in Blocked
    BY <1>0
  <2>3. Blocked' \subseteq Task
    BY <1>0, <1>2
  <2> QED BY <1>2, <2>1, <2>2, <2>3, ToldChanges
<1>6. ToldState(c)' = st
  <2>1. c \in Blocked' <=> st = BLOCKED
    BY <1>0, <1>2
  <2> QED BY <1>1, <1>2, <2>1 DEF ToldState
<1> QED BY <1>0, <1>1, <1>2, <1>3, <1>5, <1>6

(* sched_block moves the current task from ready to blocked.               *)
LEMMA BlockMoves ==
  ASSUME RingInv, SleepersUnlinked, Block, Blocked' = Blocked \cup {current_pid}
  PROVE  /\ RingInv' /\ Ready' = Ready \ {current_pid} /\ SleepersUnlinked' /\ SchedStep
         /\ current_pid \in Ready /\ current_pid \notin Blocked
         /\ state' = [state EXCEPT ![current_pid] = BLOCKED]
         /\ current_pid' = Idle => last' = Idle
<1>1. Leaves(BLOCKED)
  BY BlockKeepsRing
<1>2. /\ RingInv' /\ Ready' = Ready \ {current_pid} /\ SleepersUnlinked'
      /\ current_pid \in Ready /\ current_pid \notin Blocked
      /\ state' = [state EXCEPT ![current_pid] = BLOCKED]
      /\ Told' = [Told EXCEPT ![current_pid] = BLOCKED]
      /\ current_pid' = Idle => last' = Idle
  BY <1>1, LeaveMoves
<1>3. Scheduler!Block
  BY <1>2 DEF Block, sched_block, RemoveCurrent, Idle, None, BLOCKED, Scheduler!Block,
              Scheduler!sched_block, Scheduler!RemoveCurrent, Scheduler!Idle, Scheduler!None,
              Scheduler!BLOCKED
<1> QED BY <1>2, <1>3 DEF SchedStep, Scheduler!SchedNext

(* sched_exit takes the current task out of both sets.                     *)
LEMMA ExitMoves ==
  ASSUME RingInv, SleepersUnlinked, Exit, Blocked' = Blocked
  PROVE  /\ RingInv' /\ Ready' = Ready \ {current_pid} /\ SleepersUnlinked' /\ SchedStep
         /\ current_pid \in Ready /\ current_pid \notin Blocked
         /\ state' = [state EXCEPT ![current_pid] = FINISHED]
         /\ current_pid' = Idle => last' = Idle
<1>1. Leaves(FINISHED) /\ FINISHED # BLOCKED
  BY ExitKeepsRing, RingFacts
<1>2. /\ RingInv' /\ Ready' = Ready \ {current_pid} /\ SleepersUnlinked'
      /\ current_pid \in Ready /\ current_pid \notin Blocked
      /\ state' = [state EXCEPT ![current_pid] = FINISHED]
      /\ Told' = [Told EXCEPT ![current_pid] = FINISHED]
      /\ current_pid' = Idle => last' = Idle
  BY <1>1, LeaveMoves
<1>3. Scheduler!Exit
  BY <1>2 DEF Exit, sched_exit, RemoveCurrent, Idle, None, FINISHED, Scheduler!Exit,
              Scheduler!sched_exit, Scheduler!RemoveCurrent, Scheduler!Idle, Scheduler!None,
              Scheduler!FINISHED
<1> QED BY <1>2, <1>3 DEF SchedStep, Scheduler!SchedNext

(* Steps that leave links, current and last alone leave the sets alone and *)
(* are none of the scheduler that Sched describes.                         *)
LEMMA NothingMoves ==
  ASSUME RingInv, SleepersUnlinked, UNCHANGED <<next, prev, quantum, current_pid, last, qnext>>
  PROVE  /\ Ready' = Ready /\ Blocked' = Blocked /\ Free' = Free
         /\ SleepersUnlinked' /\ SchedStep
<1>1. Ready' = Ready /\ Blocked' = Blocked /\ Free' = Free
  BY DEF Ready, Blocked, Free
<1>2. SleepersUnlinked'
  BY <1>1 DEF SleepersUnlinked
<1>3. Told' = Told
  BY <1>1 DEF Told, ToldState
<1> QED BY <1>1, <1>2, <1>3 DEF SchedStep, Scheduler!schedVars

(* The clock moves the CPU only.                                           *)
LEMMA TickMoves ==
  ASSUME RingInv, SleepersUnlinked, sched_tick, UNCHANGED qnext
  PROVE  /\ RingInv' /\ Ready' = Ready /\ Blocked' = Blocked /\ Free' = Free
         /\ SleepersUnlinked' /\ SchedStep
         /\ UNCHANGED <<state, next, last>> /\ (current_pid' = Idle => current_pid = Idle /\ last' = Idle)
<1>1. UNCHANGED <<state, next, prev, last>>
  BY DEF sched_tick
<1>2. RingInv' /\ (current_pid' = Idle => current_pid = Idle /\ last' = Idle)
  BY TickKeepsRing
<1>3. Ready' = Ready /\ Blocked' = Blocked /\ Free' = Free
  BY <1>1 DEF Ready, Blocked, Free
<1>4. SleepersUnlinked'
  BY <1>1, <1>3 DEF SleepersUnlinked
<1>5. Told' = Told
  BY <1>1, <1>3 DEF Told, ToldState
<1>6. Scheduler!sched_tick
  BY <1>5 DEF sched_tick, TickIdle, TickTask, Idle, Scheduler!sched_tick, Scheduler!TickIdle,
              Scheduler!TickTask, Scheduler!Idle
<1> QED BY <1>1, <1>2, <1>3, <1>4, <1>6 DEF SchedStep, Scheduler!SchedNext

----------------------------------------------------------------------------
(* The list of free pids *)

(* The list only depends on its two variables and the set of tasks.        *)
LEMMA FreeListSame ==
  ASSUME FreeList, Free' = Free, UNCHANGED <<free_pids, next_free>>
  PROVE  FreeList'
BY DEF FreeList

(* get_new_pid takes the first of the list. *)
LEMMA FreeListPop ==
  ASSUME FreeList, None \notin Free, next_free # None, Free' = Free \ {next_free},
         next_free' = free_pids[next_free], UNCHANGED free_pids
  PROVE  FreeList'
<1> DEFINE h == next_free
<1>1. /\ h \in Free
      /\ \A p \in Free :
           /\ free_pids[p] \in Free \cup {None}
           /\ free_pids[p] # h
           /\ \A r \in Free \ {p} : free_pids[r] = free_pids[p] => free_pids[p] = None
  BY DEF FreeList
<1>2. next_free' \in Free' \cup {None}
  BY <1>1
<1>3. ASSUME NEW p \in Free'
      PROVE  /\ free_pids'[p] \in Free' \cup {None}
             /\ free_pids'[p] = next_free' => next_free' = None
             /\ \A r \in Free' \ {p} : free_pids'[r] = free_pids'[p] => free_pids'[p] = None
  BY <1>1
<1>4. ASSUME NEW S \in SUBSET Free', next_free' # None => next_free' \in S,
             \A p \in S : free_pids'[p] \in S \cup {None}
      PROVE  S = Free'
  <2>1. S \cup {h} \in SUBSET Free
    BY <1>1
  <2>2. \A p \in S \cup {h} : free_pids[p] \in (S \cup {h}) \cup {None}
    BY <1>4
  <2>3. S \cup {h} = Free
    BY <2>1, <2>2 DEF FreeList
  <2> QED BY <2>3
<1> QED BY <1>2, <1>3, <1>4 DEF FreeList

(* free_pid puts a pid in front. *)
LEMMA FreeListPush ==
  ASSUME FreeList, LoaderTypes, None \notin Pid, Free \subseteq Pid,
         NEW c \in Pid, c \notin Free, Free' = Free \cup {c},
         free_pids' = [free_pids EXCEPT ![c] = next_free], next_free' = c
  PROVE  FreeList'
<1>1. /\ next_free \in Free \cup {None}
      /\ \A p \in Free :
           /\ free_pids[p] \in Free \cup {None}
           /\ free_pids[p] = next_free => next_free = None
           /\ \A r \in Free \ {p} : free_pids[r] = free_pids[p] => free_pids[p] = None
  BY DEF FreeList
<1>2. /\ free_pids'[c] = next_free
      /\ \A p \in Free : free_pids'[p] = free_pids[p]
  BY DEF LoaderTypes
<1>3. ASSUME NEW p \in Free'
      PROVE  /\ free_pids'[p] \in Free' \cup {None}
             /\ free_pids'[p] = next_free' => next_free' = None
             /\ \A r \in Free' \ {p} : free_pids'[r] = free_pids'[p] => free_pids'[p] = None
  <2>1. free_pids'[p] \in Free \cup {None}
    BY <1>1, <1>2
  <2>2. free_pids'[p] # c
    BY <2>1
  <2>3. ASSUME NEW r \in Free' \ {p}, free_pids'[r] = free_pids'[p] PROVE free_pids'[p] = None
    BY <1>1, <1>2, <2>3
  <2> QED BY <2>1, <2>2, <2>3
<1>4. ASSUME NEW S \in SUBSET Free', next_free' # None => next_free' \in S,
             \A p \in S : free_pids'[p] \in S \cup {None}
      PROVE  S = Free'
  <2>1. c \in S
    BY <1>4
  <2>2. S \ {c} \in SUBSET Free
    OBVIOUS
  <2>3. next_free # None => next_free \in S \ {c}
    BY <1>1, <1>2, <1>4, <2>1
  <2>4. \A p \in S \ {c} : free_pids[p] \in (S \ {c}) \cup {None}
    BY <1>1, <1>2, <1>4, <2>2
  <2>5. S \ {c} = Free
    BY <2>2, <2>3, <2>4 DEF FreeList
  <2> QED BY <2>1, <2>5
<1> QED BY <1>3, <1>4 DEF FreeList

(* The list is empty only when no pid is free. *)
LEMMA FreeListEmpty ==
  ASSUME FreeList, next_free = None
  PROVE  Free = {}
<1>1. {} \in SUBSET Free /\ \A p \in {} : free_pids[p] \in {} \cup {None}
  OBVIOUS
<1> QED BY <1>1 DEF FreeList

----------------------------------------------------------------------------
(* The wait queues *)

(* The queues only depend on their links and the set of blocked tasks.     *)
LEMMA QueuesSame ==
  ASSUME QueuesLinked, Blocked' = Blocked, UNCHANGED <<qnext, qprev, q>>
  PROVE  QueuesLinked'
<1>1. PICK w \in [Blocked -> Sem] : QueueLinks(w) /\ QueueRings(w)
  BY DEF QueuesLinked
<1>2. QueueLinks(w)' /\ QueueRings(w)'
  BY <1>1 DEF QueueLinks, QueueRings, Waiting
<1> QED BY <1>2 DEF QueuesLinked

(* What loader_enqueue does to the links and the head of a queue.          *)
Linked(c, s) ==
  \/ /\ q[s] = None
     /\ qnext' = [qnext EXCEPT ![c] = c]
     /\ qprev' = [qprev EXCEPT ![c] = c]
     /\ q' = [q EXCEPT ![s] = c]
  \/ /\ q[s] # None
     /\ qnext' = [qnext EXCEPT ![qprev[q[s]]] = c, ![c] = q[s]]
     /\ qprev' = [qprev EXCEPT ![q[s]] = c, ![c] = qprev[q[s]]]
     /\ UNCHANGED q

(* The links of who waits lead to who waits, and so does the head.         *)
LEMMA LinksOfQueues ==
  ASSUME QueuesLinked
  PROVE  /\ \A p \in Blocked : qnext[p] \in Blocked /\ qprev[p] \in Blocked
         /\ \A s \in Sem : q[s] # None => q[s] \in Blocked
BY DEF QueuesLinked, QueueLinks, QueueRings, Waiting

(* The task that joins a queue is one more that waits.                     *)
LEMMA LinkedBlocks ==
  ASSUME LoaderTypes, QueuesLinked, Task \subseteq Pid,
         NEW c \in Task, NEW s \in Sem, Linked(c, s)
  PROVE  Blocked' = Blocked \cup {c}
<1>1. /\ \A p \in Blocked : qnext[p] \in Blocked /\ qprev[p] \in Blocked
      /\ q[s] # None => q[s] \in Blocked
      /\ Blocked \subseteq Task /\ c \in Pid
      /\ qnext \in [Pid -> Pid \cup {None}]
  BY LinksOfQueues DEF Blocked, LoaderTypes
<1>2. CASE q[s] = None
  <2>1. qnext' = [qnext EXCEPT ![c] = c]
    BY <1>2 DEF Linked
  <2>2. qnext'[c] = c /\ \A p \in Task : p # c => qnext'[p] = qnext[p]
    BY <2>1, <1>1
  <2> QED BY <2>2 DEF Blocked
<1>3. CASE q[s] # None
  <2> DEFINE h == q[s]
             b == qprev[h]
  <2>1. qnext' = [qnext EXCEPT ![b] = c, ![c] = h] /\ h \in Blocked /\ b \in Blocked /\ h \in Task
    BY <1>1, <1>3 DEF Linked
  <2>2. qnext'[c] = h /\ qnext'[b] \in Task /\ \A p \in Task : p # c /\ p # b => qnext'[p] = qnext[p]
    BY <2>1, <1>1
  <2> QED BY <2>1, <2>2, <1>1 DEF Blocked
<1> QED BY <1>2, <1>3

(* A task that joins a queue makes it one longer ring; the others stay.    *)
LEMMA EnqueueKeepsQueues ==
  ASSUME LoaderTypes, QueuesLinked, None \notin Task, Blocked \subseteq Task, Task \subseteq Pid,
         NEW c \in Task, c \notin Blocked, Blocked' = Blocked \cup {c},
         NEW s \in Sem, Linked(c, s)
  PROVE  QueuesLinked' /\ LoaderTypes!2' /\ q' \in [Sem -> Task \cup {None}]
<1>1. PICK w \in [Blocked -> Sem] : QueueLinks(w) /\ QueueRings(w)
  BY DEF QueuesLinked
<1>2. PICK v \in [Blocked' -> Sem] : v[c] = s /\ \A p \in Blocked : v[p] = w[p]
  <2> DEFINE u == [p \in Blocked' |-> IF p = c THEN s ELSE w[p]]
  <2>1. u \in [Blocked' -> Sem] /\ u[c] = s /\ \A p \in Blocked : u[p] = w[p]
    OBVIOUS
  <2> QED BY <2>1
<1>3. /\ \A p \in Blocked : /\ qnext[p] \in Blocked /\ qprev[qnext[p]] = p
                            /\ qprev[p] \in Blocked /\ qnext[qprev[p]] = p
                            /\ w[qnext[p]] = w[p] /\ w[qprev[p]] = w[p]
      /\ \A t \in Sem : IF q[t] = None THEN Waiting(w, t) = {} ELSE q[t] \in Waiting(w, t)
      /\ \A t \in Sem : \A S \in SUBSET Waiting(w, t) :
           S # {} /\ (\A p \in S : qnext[p] \in S) => S = Waiting(w, t)
  BY <1>1 DEF QueueLinks, QueueRings
<1>4. /\ Waiting(v, s)' = Waiting(w, s) \cup {c}
      /\ \A t \in Sem \ {s} : Waiting(v, t)' = Waiting(w, t)
      /\ \A t \in Sem : Waiting(w, t) \subseteq Blocked
  BY <1>2 DEF Waiting
<1>5. CASE q[s] = None
  <2>1. /\ qnext' = [qnext EXCEPT ![c] = c] /\ qprev' = [qprev EXCEPT ![c] = c]
        /\ q' = [q EXCEPT ![s] = c]
    BY <1>5 DEF Linked
  <2>2. /\ qnext'[c] = c /\ qprev'[c] = c
        /\ \A p \in Blocked : qnext'[p] = qnext[p] /\ qprev'[p] = qprev[p]
    BY <2>1 DEF LoaderTypes
  <2>3. q'[s] = c /\ \A t \in Sem \ {s} : q'[t] = q[t]
    BY <2>1 DEF LoaderTypes
  <2>4. LoaderTypes!2' /\ q' \in [Sem -> Task \cup {None}]
    BY <2>1 DEF LoaderTypes
  <2>5. QueueLinks(v)'
    BY <1>2, <1>3, <2>2 DEF QueueLinks
  <2>6. ASSUME NEW t \in Sem
        PROVE  /\ IF q'[t] = None THEN Waiting(v, t)' = {} ELSE q'[t] \in Waiting(v, t)'
               /\ \A S \in SUBSET Waiting(v, t)' :
                    S # {} /\ (\A p \in S : qnext'[p] \in S) => S = Waiting(v, t)'
    <3>1. CASE t = s
      <4>1. Waiting(v, s)' = {c}
        BY <1>3, <1>4, <1>5
      <4> QED BY <3>1, <4>1, <2>3
    <3>2. CASE t # s
      BY <3>2, <1>3, <1>4, <2>2, <2>3
    <3> QED BY <3>1, <3>2
  <2>7. QueueRings(v)'
    BY <2>6 DEF QueueRings
  <2> QED BY <2>4, <2>5, <2>7 DEF QueuesLinked
<1>6. CASE q[s] # None
  <2> DEFINE h == q[s]
             b == qprev[h]
  <2>1. /\ h \in Waiting(w, s) /\ h \in Blocked /\ b \in Blocked /\ qnext[b] = h
        /\ w[h] = s /\ w[b] = s /\ h # c /\ b # c /\ b \in Waiting(w, s)
    BY <1>3, <1>6 DEF Waiting
  <2>2. /\ qnext' = [qnext EXCEPT ![b] = c, ![c] = h]
        /\ qprev' = [qprev EXCEPT ![h] = c, ![c] = b]
        /\ q' = q
    BY <1>6 DEF Linked
  <2>3. /\ qnext'[c] = h /\ qnext'[b] = c
        /\ \A p \in Blocked : p # b => qnext'[p] = qnext[p]
    BY <2>1, <2>2 DEF LoaderTypes
  <2>4. /\ qprev'[c] = b /\ qprev'[h] = c
        /\ \A p \in Blocked : p # h => qprev'[p] = qprev[p]
    BY <2>1, <2>2 DEF LoaderTypes
  <2>5. LoaderTypes!2' /\ q' \in [Sem -> Task \cup {None}]
    BY <2>1, <2>2 DEF LoaderTypes
  <2> HIDE DEF h, b
  <2>6. ASSUME NEW p \in Blocked'
        PROVE  /\ qnext'[p] \in Blocked' /\ qprev'[qnext'[p]] = p
               /\ qprev'[p] \in Blocked' /\ qnext'[qprev'[p]] = p
               /\ v[qnext'[p]] = v[p]
    <3>1. CASE p = c
      BY <3>1, <1>2, <2>1, <2>3, <2>4
    <3>2. CASE p # c
      <4>1. /\ p \in Blocked
            /\ qnext[p] \in Blocked /\ qprev[qnext[p]] = p
            /\ qprev[p] \in Blocked /\ qnext[qprev[p]] = p
            /\ w[qnext[p]] = w[p]
        BY <3>2, <1>3
      <4>2. qnext'[p] \in Blocked' /\ qprev'[qnext'[p]] = p /\ v[qnext'[p]] = v[p]
        <5>1. CASE p = b
          BY <5>1, <2>1, <2>3, <2>4, <1>2
        <5>2. CASE p # b
          <6>1. qnext[p] # h
            BY <5>2, <4>1 DEF b
          <6> QED BY <5>2, <6>1, <4>1, <2>3, <2>4, <1>2
        <5> QED BY <5>1, <5>2
      <4>3. qprev'[p] \in Blocked' /\ qnext'[qprev'[p]] = p
        <5>1. CASE p = h
          BY <5>1, <2>1, <2>3, <2>4
        <5>2. CASE p # h
          <6>1. qprev[p] # b
            BY <5>2, <4>1, <2>1
          <6> QED BY <5>2, <6>1, <4>1, <2>3, <2>4
        <5> QED BY <5>1, <5>2
      <4> QED BY <4>2, <4>3
    <3> QED BY <3>1, <3>2
  <2>7. QueueLinks(v)'
    BY <2>6 DEF QueueLinks
  <2>8. ASSUME NEW t \in Sem, NEW S \in SUBSET Waiting(v, t)', S # {},
               \A p \in S : qnext'[p] \in S
        PROVE  S = Waiting(v, t)'
    <3>1. CASE t # s
      <4>1. \A p \in S : p \in Blocked /\ p # b
        BY <3>1, <1>4, <2>1 DEF Waiting
      <4> QED BY <3>1, <4>1, <1>3, <1>4, <2>3, <2>8
    <3>2. CASE t = s
      <4> DEFINE T == S \ {c}
      <4>1. T \in SUBSET Waiting(w, s) /\ T \subseteq Blocked
        BY <3>2, <1>4
      <4>2. T # {}
        BY <2>1, <2>3, <2>8
      <4>3. ASSUME NEW p \in T PROVE qnext[p] \in T
        <5>1. p \in Blocked /\ p \in S /\ qnext[p] \in Blocked /\ qnext[p] # c
          BY <4>1, <1>3
        <5>2. CASE p = b
          BY <5>1, <5>2, <2>1, <2>3, <2>8
        <5>3. CASE p # b
          BY <5>1, <5>3, <2>3, <2>8
        <5> QED BY <5>2, <5>3
      <4>4. T = Waiting(w, s)
        BY <4>1, <4>2, <4>3, <1>3
      <4>5. c \in S
        BY <4>4, <2>1, <2>3, <2>8
      <4> QED BY <3>2, <4>4, <4>5, <1>4
    <3> QED BY <3>1, <3>2
  <2>9. ASSUME NEW t \in Sem
        PROVE  IF q'[t] = None THEN Waiting(v, t)' = {} ELSE q'[t] \in Waiting(v, t)'
    BY <1>3, <1>4, <1>6, <2>1, <2>2 DEF h
  <2>10. QueueRings(v)'
    BY <2>8, <2>9 DEF QueueRings
  <2> QED BY <2>5, <2>7, <2>10 DEF QueuesLinked
<1> QED BY <1>5, <1>6

(* What loader_unqueue does to them.                                       *)
Unlinked(s) ==
  LET h == q[s]
      n == qnext[h]
      b == qprev[h]
  IN  /\ qnext' = [qnext EXCEPT ![b] = n, ![h] = None]
      /\ qprev' = [qprev EXCEPT ![n] = b, ![h] = None]
      /\ q' = [q EXCEPT ![s] = IF n = h THEN None ELSE n]

(* The task taken out is one less.                                         *)
LEMMA UnlinkedUnblocks ==
  ASSUME LoaderTypes, QueuesLinked, Task \subseteq Pid, None \notin Task,
         NEW s \in Sem, q[s] # None, Unlinked(s)
  PROVE  q[s] \in Blocked /\ Blocked' = Blocked \ {q[s]}
<1> DEFINE h == q[s]
           n == qnext[h]
           b == qprev[h]
<1>1. /\ h \in Blocked /\ n \in Blocked /\ b \in Blocked
      /\ Blocked \subseteq Task
      /\ qnext \in [Pid -> Pid \cup {None}]
  BY LinksOfQueues DEF Blocked, LoaderTypes
<1>2. qnext' = [qnext EXCEPT ![b] = n, ![h] = None]
  BY DEF Unlinked
<1>3. /\ qnext'[h] = None
      /\ b # h => qnext'[b] = n
      /\ \A p \in Task : p # h /\ p # b => qnext'[p] = qnext[p]
  BY <1>1, <1>2
<1>4. Blocked' = Blocked \ {h}
  <2>1. ASSUME NEW p \in Task PROVE qnext'[p] \in Task <=> qnext[p] \in Task /\ p # h
    <3> HIDE DEF h, n, b
    <3>1. \A r \in Blocked : qnext[r] \in Task /\ r \in Task
      BY DEF Blocked
    <3> QED BY <1>1, <1>3, <3>1
  <2> QED BY <2>1 DEF Blocked
<1> QED BY <1>1, <1>4

(* Taking the head out leaves one shorter ring, or an empty queue.         *)
LEMMA DequeueKeepsQueues ==
  ASSUME LoaderTypes, QueuesLinked, None \notin Task, Blocked \subseteq Task, Task \subseteq Pid,
         NEW s \in Sem, q[s] # None, Blocked' = Blocked \ {q[s]}, Unlinked(s)
  PROVE  QueuesLinked' /\ LoaderTypes!2' /\ q' \in [Sem -> Task \cup {None}] /\ q[s] \in Blocked
<1> DEFINE h == q[s]
           n == qnext[h]
           b == qprev[h]
<1>1. PICK w \in [Blocked -> Sem] : QueueLinks(w) /\ QueueRings(w)
  BY DEF QueuesLinked
<1>2. PICK v \in [Blocked' -> Sem] : \A p \in Blocked' : v[p] = w[p]
  <2>1. [p \in Blocked' |-> w[p]] \in [Blocked' -> Sem]
    OBVIOUS
  <2> QED BY <2>1
<1>3. /\ \A p \in Blocked : /\ qnext[p] \in Blocked /\ qprev[qnext[p]] = p
                            /\ qprev[p] \in Blocked /\ qnext[qprev[p]] = p
                            /\ w[qnext[p]] = w[p] /\ w[qprev[p]] = w[p]
      /\ \A t \in Sem : IF q[t] = None THEN Waiting(w, t) = {} ELSE q[t] \in Waiting(w, t)
      /\ \A t \in Sem : \A S \in SUBSET Waiting(w, t) :
           S # {} /\ (\A p \in S : qnext[p] \in S) => S = Waiting(w, t)
  BY <1>1 DEF QueueLinks, QueueRings
<1>4. /\ Waiting(v, s)' = Waiting(w, s) \ {h}
      /\ \A t \in Sem \ {s} : Waiting(v, t)' = Waiting(w, t)
      /\ \A t \in Sem : Waiting(w, t) \subseteq Blocked
      /\ h \in Blocked /\ w[h] = s /\ h \in Waiting(w, s)
  <2>1. h \in Waiting(w, s)
    BY <1>3
  <2>2. h \in Blocked /\ w[h] = s
    BY <2>1 DEF Waiting
  <2> QED BY <1>2, <2>1, <2>2 DEF Waiting
<1>5. /\ n \in Blocked /\ b \in Blocked /\ qprev[n] = h /\ qnext[b] = h
      /\ w[n] = s /\ w[b] = s /\ n \in Pid /\ b \in Pid /\ h \in Pid
      /\ (n = h <=> b = h)
  BY <1>3, <1>4
<1>6. /\ qnext' = [qnext EXCEPT ![b] = n, ![h] = None]
      /\ qprev' = [qprev EXCEPT ![n] = b, ![h] = None]
      /\ q' = [q EXCEPT ![s] = IF n = h THEN None ELSE n]
  BY DEF Unlinked
<1>7. /\ \A p \in Blocked : p # b /\ p # h => qnext'[p] = qnext[p]
      /\ \A p \in Blocked : p # n /\ p # h => qprev'[p] = qprev[p]
      /\ n # h => qnext'[b] = n /\ qprev'[n] = b
  BY <1>5, <1>6 DEF LoaderTypes
<1>8. q'[s] = (IF n = h THEN None ELSE n) /\ \A t \in Sem \ {s} : q'[t] = q[t]
  BY <1>6 DEF LoaderTypes
<1>9. LoaderTypes!2' /\ q' \in [Sem -> Task \cup {None}]
  <2>1. n \in Pid \cup {None} /\ b \in Pid \cup {None} /\ None \in Pid \cup {None}
    BY <1>5
  <2>2. qnext' \in [Pid -> Pid \cup {None}] /\ qprev' \in [Pid -> Pid \cup {None}]
    BY <1>6, <2>1 DEF LoaderTypes
  <2>3. n \in Task
    BY <1>5
  <2>4. q' \in [Sem -> Task \cup {None}]
    BY <1>6, <2>3 DEF LoaderTypes
  <2> QED BY <2>2, <2>4
<1>10. h \in Blocked
  BY <1>4
<1> HIDE DEF h, n, b
<1>11. Blocked' = Blocked \ {h}
  BY DEF h
<1>12. ASSUME NEW p \in Blocked'
       PROVE  /\ qnext'[p] \in Blocked' /\ qprev'[qnext'[p]] = p
              /\ qprev'[p] \in Blocked' /\ qnext'[qprev'[p]] = p
              /\ v[qnext'[p]] = v[p]
  <2>1. /\ p \in Blocked /\ p # h
        /\ qnext[p] \in Blocked /\ qprev[qnext[p]] = p
        /\ qprev[p] \in Blocked /\ qnext[qprev[p]] = p
        /\ w[qnext[p]] = w[p]
    BY <1>3, <1>11
  <2>2. qnext'[p] \in Blocked' /\ qprev'[qnext'[p]] = p /\ v[qnext'[p]] = v[p]
    <3>1. CASE p = b
      <4>1. n # h
        BY <3>1, <2>1, <1>5
      <4> QED BY <3>1, <4>1, <2>1, <1>2, <1>5, <1>7, <1>11
    <3>2. CASE p # b
      <4>1. qnext[p] # h
        BY <3>2, <2>1 DEF b
      <4>2. qnext[p] # n
        BY <2>1, <1>5
      <4> QED BY <3>2, <4>1, <4>2, <2>1, <1>2, <1>7, <1>11
    <3> QED BY <3>1, <3>2
  <2>3. qprev'[p] \in Blocked' /\ qnext'[qprev'[p]] = p
    <3>1. CASE p = n
      <4>1. n # h
        BY <3>1, <2>1
      <4> QED BY <3>1, <4>1, <2>1, <1>5, <1>7, <1>11
    <3>2. CASE p # n
      <4>1. qprev[p] # h
        BY <3>2, <2>1 DEF n
      <4>2. qprev[p] # b
        BY <2>1, <1>5
      <4> QED BY <3>2, <4>1, <4>2, <2>1, <1>7, <1>11
    <3> QED BY <3>1, <3>2
  <2> QED BY <2>2, <2>3
<1>13. QueueLinks(v)'
  BY <1>12 DEF QueueLinks
<1>14. ASSUME NEW t \in Sem
       PROVE  IF q'[t] = None THEN Waiting(v, t)' = {} ELSE q'[t] \in Waiting(v, t)'
  <2>1. CASE t # s
    BY <2>1, <1>3, <1>4, <1>8
  <2>2. CASE t = s /\ n = h
    <3>1. {h} \in SUBSET Waiting(w, s) /\ \A p \in {h} : qnext[p] \in {h}
      BY <2>2, <1>4 DEF n
    <3>2. {h} = Waiting(w, s)
      BY <3>1, <1>3
    <3> QED BY <2>2, <3>2, <1>4, <1>8
  <2>3. CASE t = s /\ n # h
    <3>1. n \in Waiting(w, s) \ {h}
      BY <2>3, <1>5 DEF Waiting
    <3>2. n # None
      BY <1>5
    <3> QED BY <2>3, <3>1, <3>2, <1>4, <1>8
  <2> QED BY <2>1, <2>2, <2>3
<1>15. ASSUME NEW t \in Sem, NEW S \in SUBSET Waiting(v, t)', S # {},
              \A p \in S : qnext'[p] \in S
       PROVE  S = Waiting(v, t)'
  <2>1. CASE t # s
    <3>1. \A p \in S : p \in Blocked /\ p # b /\ p # h
      BY <2>1, <1>4, <1>5 DEF Waiting
    <3>2. \A p \in S : qnext[p] \in S
      BY <3>1, <1>7, <1>15
    <3>3. Waiting(v, t)' = Waiting(w, t) /\ S \in SUBSET Waiting(w, t)
      BY <2>1, <1>4, <1>15
    <3> QED BY <3>2, <3>3, <1>3, <1>15
  <2>2. CASE t = s
    <3>1. S \subseteq Waiting(w, s) /\ h \notin S /\ S \subseteq Blocked
      BY <2>2, <1>4
    <3>2. CASE b \in S
      <4>1. b # h /\ n # h /\ n \in S
        BY <3>1, <3>2, <1>5, <1>7, <1>15
      <4>2. S \cup {h} \in SUBSET Waiting(w, s)
        BY <3>1, <1>4
      <4>3. ASSUME NEW p \in S \cup {h} PROVE qnext[p] \in S \cup {h}
        <5>1. CASE p = h
          BY <5>1, <4>1 DEF n
        <5>2. CASE p = b
          BY <5>2, <1>5
        <5>3. CASE p # h /\ p # b
          BY <5>3, <3>1, <1>7, <1>15
        <5> QED BY <5>1, <5>2, <5>3
      <4>4. S \cup {h} = Waiting(w, s)
        BY <4>2, <4>3, <1>3
      <4> QED BY <2>2, <4>4, <3>1, <1>4
    <3>3. CASE b \notin S
      <4>1. \A p \in S : qnext[p] \in S
        BY <3>1, <3>3, <1>7, <1>15
      <4>2. S = Waiting(w, s)
        BY <4>1, <3>1, <1>3, <1>15
      <4> QED BY <4>2, <3>1, <1>4
    <3> QED BY <3>2, <3>3
  <2> QED BY <2>1, <2>2
<1>16. QueueRings(v)'
  BY <1>14, <1>15 DEF QueueRings
<1> QED BY <1>9, <1>10, <1>13, <1>16 DEF QueuesLinked, h

----------------------------------------------------------------------------
(* The counters *)

(* There are finitely many tasks, fewer than MaxPid.                       *)
LEMMA TasksAreFinite ==
  ASSUME NEW S \in SUBSET Task
  PROVE  IsFiniteSet(S) /\ Cardinality(S) \in 0 .. MaxPid - 1
<1>1. IsFiniteSet(Task) /\ Cardinality(Task) = MaxPid - 1
  BY SchedAssumption, FS_Interval DEF Task
<1>2. IsFiniteSet(S) /\ Cardinality(S) <= MaxPid - 1
  BY <1>1, FS_Subset
<1>3. Cardinality(S) \in Nat
  BY <1>2, FS_CardinalityType
<1> QED BY <1>2, <1>3, SchedAssumption

(* The counters, when one task more is ready or blocked.                   *)
LEMMA OneMore ==
  ASSUME NEW S \in SUBSET Task, NEW p, p \notin S
  PROVE  Cardinality(S) \in Nat /\ Cardinality(S \cup {p}) = Cardinality(S) + 1
BY TasksAreFinite, FS_AddElement

(* The counters, when one task less is ready or blocked.                   *)
LEMMA OneLess ==
  ASSUME NEW S \in SUBSET Task, NEW p \in S
  PROVE  Cardinality(S) \in Nat /\ Cardinality(S \ {p}) = Cardinality(S) - 1
BY TasksAreFinite, FS_RemoveElement

----------------------------------------------------------------------------
(* The actions, one lemma each.  Every one of them is a call that Sched    *)
(* allows, or leaves its scheduler alone.                                  *)

(* A set of pids that holds 1 and, with each, the next one holds them all. *)
LEMMA AllTasks ==
  ASSUME NEW S \in SUBSET Task, 1 \in S, \A p \in S : p + 1 \in Task => p + 1 \in S
  PROVE  S = Task
<1> SUFFICES ASSUME Task \ S # {} PROVE FALSE
  OBVIOUS
<1>1. PICK x \in Task \ S : \A y \in Task \ S : x <= y
  <2>1. Task \ S \in SUBSET Nat
    BY SchedAssumption DEF Task
  <2> QED BY <2>1, Least
<1>2. x \in Nat /\ x # 1 /\ x - 1 \in Task /\ (x - 1) + 1 = x /\ ~(x <= x - 1)
  BY <1>1, SchedAssumption DEF Task
<1>3. x - 1 \in S
  BY <1>1, <1>2
<1> QED BY <1>1, <1>2, <1>3

(* Before the first load everything is free: the list holds every pid.     *)
LEMMA InitInv == Init => KernelInv
<1> SUFFICES ASSUME Init PROVE KernelInv
  OBVIOUS
<1> USE DEF Init
<1>1. RingInv
  BY SchedInitInv DEF SchedInv
<1>2. Task \subseteq Pid /\ 1 \in Task /\ Idle \in Pid /\ None \notin Task /\ Idle \notin Task
  BY SchedAssumption, KernelAssumption DEF Task, Pid, Idle, None
<1>3. /\ Ready = {} /\ Blocked = {} /\ Free = Task
      /\ \A p \in Task : NeverLoaded(p)
  BY <1>2 DEF sched_init, loader_init, Idle, Ready, Blocked, Free, NeverLoaded
<1>4. LoaderTypes
  <2>1. free_pids \in [Pid -> Task \cup {None}]
    BY SchedAssumption DEF loader_init, Task, Pid, None
  <2>2. /\ vl \in [Sem -> 0 .. MaxVl]
        /\ q \in [Sem -> Task \cup {None}]
    BY KernelAssumption DEF SEM_NEW
  <2>3. /\ qnext \in [Pid -> Pid \cup {None}] /\ qprev \in [Pid -> Pid \cup {None}]
        /\ has_dir \in [Pid -> BOOLEAN]
    BY <1>2 DEF loader_init, Idle
  <2>4. cur_pid \in Pid /\ tasks_running \in Int /\ tasks_blocked \in Int
    BY <1>2 DEF loader_init
  <2>5. /\ overrun \in BOOLEAN /\ boot \in {"init", "linked", "loaded", "counting", "idle"}
        /\ counted \in {-1, 0} /\ miscount \in {0, 1}
    OBVIOUS
  <2>7. taken \in [Sem -> 0 .. MaxVl]
    <3>1. 0 \in 0 .. MaxVl
      BY KernelAssumption
    <3> QED BY <3>1
  <2>6. next_free \in Task \cup {None}
    BY <1>2 DEF loader_init
  <2> QED BY <2>1, <2>2, <2>3, <2>4, <2>5, <2>6, <2>7 DEF LoaderTypes
<1>5. BootInv /\ cur_pid = current_pid /\ DirsAlive /\ SleepersUnlinked
  BY <1>2, <1>3 DEF BootInv, NoneLoaded, FirstPid, DirsAlive, SleepersUnlinked,
                    loader_init, sched_init
<1>6. FreeList
  <2>1. next_free = 1 /\ \A p \in Task : free_pids[p] = IF p + 1 \in Task THEN p + 1 ELSE None
    BY <1>2, SchedAssumption DEF loader_init, Task
  <2>2. \A p \in Task : p \in Int /\ p >= 1
    BY DEF Task
  <2>3. ASSUME NEW S \in SUBSET Task, 1 \in S, \A p \in S : free_pids[p] \in S \cup {None}
        PROVE  S = Task
    BY <1>2, <2>1, <2>2, <2>3, AllTasks DEF None
  <2>4. ASSUME NEW p \in Task
        PROVE  /\ free_pids[p] \in Task \cup {None}
               /\ free_pids[p] = next_free => next_free = None
               /\ \A r \in Task \ {p} : free_pids[r] = free_pids[p] => free_pids[p] = None
    BY <2>1, <2>2 DEF None
  <2> QED BY <1>2, <1>3, <2>1, <2>3, <2>4 DEF FreeList, None
<1>7. PidsAccounted
  BY <1>6 DEF PidsAccounted
<1>8. StatesTold /\ QueuesLinked
  <2>1. PICK w : w \in [Blocked -> Sem]
    <3>1. [p \in Blocked |-> CHOOSE s : s \in Sem] \in [Blocked -> Sem]
      BY <1>3
    <3> QED BY <3>1
  <2>2. QueueLinks(w)
    BY <1>3 DEF QueueLinks
  <2>3. QueueRings(w)
    BY <1>3 DEF QueueRings, Waiting, SEM_NEW
  <2>4. StatesTold
    BY <1>2, <1>3 DEF StatesTold, sched_init, RUNNING, BLOCKED
  <2> QED BY <2>1, <2>2, <2>3, <2>4 DEF QueuesLinked
<1>9. CountersExact
  BY <1>3, FS_EmptySet DEF CountersExact, Uncounted, loader_init
<1> QED BY <1>1, <1>4, <1>5, <1>7, <1>8, <1>9 DEF KernelInv

(* What every load has in common: the first free pid becomes a task.       *)
LEMMA NewTaskKeeps ==
  ASSUME KernelInv, NewTask, current_pid # Idle \/ NoneLoaded,
         ~overrun, UNCHANGED <<vl, q, overrun, taken, counted, miscount>>, tasks_running' \in Int,
         boot' \in {"linked", "loaded", "counting", "idle"}
  PROVE  /\ SchedStep /\ RingInv' /\ LoaderTypes' /\ SleepersUnlinked'
         /\ cur_pid' = current_pid' /\ DirsAlive' /\ PidsAccounted' /\ StatesTold' /\ QueuesLinked'
         /\ tasks_blocked' = Cardinality(Blocked') /\ current_pid' = current_pid
         /\ Cardinality(Ready) \in Nat /\ Cardinality(Ready') = Cardinality(Ready) + 1
<1> DEFINE pd == next_free
<1>1. /\ pd # None /\ next_free' = free_pids[pd] /\ has_dir' = [has_dir EXCEPT ![pd] = TRUE]
      /\ sched_load(pd) /\ current_pid' = current_pid
      /\ UNCHANGED <<cur_pid, qnext, qprev, tasks_blocked, free_pids>>
  BY DEF NewTask, NewPid, get_new_pid, sched_load, LinkLoaded
<1>2. pd \in Free /\ FreeList
  BY <1>1 DEF KernelInv, PidsAccounted, FreeList
<1>3. Blocked' = Blocked
  BY <1>1 DEF Blocked
<1>4. /\ RingInv' /\ Ready' = Ready \cup {pd} /\ SleepersUnlinked' /\ SchedStep
      /\ pd \notin Ready /\ pd \notin Blocked /\ pd \in Task /\ pd \in Pid
      /\ state' = [state EXCEPT ![pd] = RUNNING]
  <2> HIDE DEF pd
  <2> QED BY <1>1, <1>2, <1>3, LoadMoves DEF KernelInv
<1>5. Free' = Free \ {pd}
  BY <1>3, <1>4 DEF Free
<1>6. FreeList'
  BY <1>1, <1>2, <1>5, FreeOf, FreeListPop DEF KernelInv
<1>7. QueuesLinked'
  BY <1>1, <1>3, QueuesSame DEF KernelInv
<1>8. StatesTold'
  BY <1>3, <1>4, RingFacts DEF StatesTold, KernelInv, TypeOK
<1>9. LoaderTypes'
  <2>1. next_free' \in Task \cup {None}
    BY <1>1, <1>4 DEF LoaderTypes, KernelInv
  <2>2. has_dir' \in [Pid -> BOOLEAN]
    BY <1>1, <1>4 DEF LoaderTypes, KernelInv
  <2> QED BY <1>1, <2>1, <2>2 DEF LoaderTypes, KernelInv
<1>10. DirsAlive'
  BY <1>1, <1>3, <1>4 DEF DirsAlive, LoaderTypes, KernelInv
<1>11. PidsAccounted'
  BY <1>6 DEF PidsAccounted
<1>12. tasks_blocked' = Cardinality(Blocked')
  BY <1>1, <1>3 DEF KernelInv, CountersExact
<1>13. Cardinality(Ready) \in Nat /\ Cardinality(Ready') = Cardinality(Ready) + 1
  BY <1>4, SetsOfTasks, OneMore DEF KernelInv
<1> QED BY <1>1, <1>4, <1>6, <1>7, <1>8, <1>9, <1>10, <1>11, <1>12, <1>13 DEF KernelInv

(* The boot code's load.  Its write of RUNNING is still to come, but that  *)
(* is what the state says of a task that was never loaded.                 *)
LEMMA BootLoads ==
  ASSUME KernelInv, BootLoad
  PROVE  NewTask /\ NoneLoaded
<1>1. boot = "init" /\ NewPid /\ LinkLoaded(next_free) /\ UNCHANGED state
  BY DEF BootLoad
<1>2. NoneLoaded /\ next_free \in Task /\ state[next_free] = RUNNING
  <2>1. next_free # None
    BY <1>1 DEF NewPid, get_new_pid
  <2> QED BY <1>1, <2>1 DEF KernelInv, BootInv, LoaderTypes, NoneLoaded, NeverLoaded
<1>3. state \in [Pid -> {RUNNING, BLOCKED, FINISHED}] /\ next_free \in Pid
  BY <1>2, RingFacts DEF KernelInv, TypeOK
<1>4. state' = [state EXCEPT ![next_free] = RUNNING]
  BY <1>1, <1>2, <1>3
<1> QED BY <1>1, <1>2, <1>4 DEF NewTask, sched_load, MarkRunning

(* Its count is still to come too.                                         *)
LEMMA BootLoadKeeps ==
  ASSUME KernelInv, BootLoad
  PROVE  KernelInv' /\ SchedStep
<1>1. /\ boot = "init" /\ boot' = "linked" /\ ~overrun /\ (\A s \in Sem : taken[s] = 0)
      /\ UNCHANGED <<tasks_running, vl, q, overrun, taken, counted, miscount>>
  BY DEF BootLoad, BootGoesOn, Defined
<1>2. NewTask /\ NoneLoaded
  BY BootLoads
<1>3. tasks_running' \in Int /\ boot' \in {"linked", "loaded", "counting", "idle"}
  BY <1>1 DEF KernelInv, LoaderTypes
<1>4. /\ SchedStep /\ RingInv' /\ LoaderTypes' /\ SleepersUnlinked'
      /\ cur_pid' = current_pid' /\ DirsAlive' /\ PidsAccounted' /\ StatesTold' /\ QueuesLinked'
      /\ tasks_blocked' = Cardinality(Blocked')
      /\ Cardinality(Ready) \in Nat /\ Cardinality(Ready') = Cardinality(Ready) + 1
  BY <1>1, <1>2, <1>3, NewTaskKeeps
<1>5. CountersExact'
  <2>1. tasks_running = Cardinality(Ready) /\ miscount = 0
    BY <1>1, <1>4 DEF CountersExact, KernelInv, LoaderTypes, Uncounted, BootInv
  <2> QED BY <1>1, <1>4, <2>1 DEF CountersExact, Uncounted
<1>6. BootInv'
  BY <1>1 DEF BootInv, KernelInv
<1> QED BY <1>4, <1>5, <1>6 DEF KernelInv

(* Who gives the CPU up is not the idle task, and boot is past its load.   *)
LEMMA RunningTask ==
  ASSUME KernelInv, cur_pid # Idle
  PROVE  /\ current_pid = cur_pid /\ current_pid # Idle
         /\ cur_pid \in Ready /\ cur_pid \in Task /\ cur_pid \in Pid
         /\ cur_pid \notin Blocked /\ cur_pid \notin Free /\ boot # "init"
<1>1. current_pid = cur_pid /\ current_pid # Idle /\ cur_pid \in Ready
  BY DEF KernelInv, RingInv, CurrentInRing
<1>2. boot # "init"
  BY <1>1, SetsOfTasks DEF KernelInv, BootInv, NoneLoaded, NeverLoaded, Ready
<1> QED BY <1>1, <1>2, SetsOfTasks DEF KernelInv

(* Outside boot's own steps its variables only watch: what they say stays  *)
(* true if the CPU does not fall to idle with a task left in the ring.     *)
LEMMA BootWatches ==
  ASSUME KernelInv, boot # "init" \/ UNCHANGED <<state, next, next_free>>,
         UNCHANGED bootVars,
         current_pid' = Idle => last' = Idle \/ UNCHANGED <<current_pid, last>>
  PROVE  BootInv' /\ Uncounted' = Uncounted /\ UNCHANGED <<boot, taken, counted, miscount>>
<1>1. UNCHANGED <<boot, taken, counted, miscount>>
  BY DEF bootVars
<1>2. boot' = "init" => next_free' = FirstPid /\ NoneLoaded'
  BY <1>1 DEF KernelInv, BootInv, NoneLoaded, NeverLoaded
<1>3. counted' = -1 => (current_pid' = Idle => last' = Idle)
  BY <1>1 DEF KernelInv, BootInv
<1>4. Uncounted' = Uncounted
  BY <1>1 DEF Uncounted
<1> QED BY <1>1, <1>2, <1>3, <1>4 DEF KernelInv, BootInv

(* A load or a fork by a running task.                                     *)
LEMMA LoaderLoadKeeps ==
  ASSUME KernelInv, loader_load
  PROVE  KernelInv' /\ SchedStep
<1>1. /\ cur_pid # Idle /\ NewTask /\ tasks_running' = tasks_running + 1 /\ ~overrun
      /\ UNCHANGED <<vl, q, bootVars, overrun>>
  BY DEF loader_load, Defined
<1>2. current_pid # Idle /\ boot # "init"
  BY <1>1, RunningTask
<1>3. /\ tasks_running' \in Int /\ tasks_running \in Int
      /\ UNCHANGED <<boot, taken, counted, miscount>>
      /\ boot' \in {"linked", "loaded", "counting", "idle"}
  BY <1>1, <1>2 DEF KernelInv, LoaderTypes, bootVars
<1>4. /\ SchedStep /\ RingInv' /\ LoaderTypes' /\ SleepersUnlinked' /\ current_pid' = current_pid
      /\ cur_pid' = current_pid' /\ DirsAlive' /\ PidsAccounted' /\ StatesTold' /\ QueuesLinked'
      /\ tasks_blocked' = Cardinality(Blocked')
      /\ Cardinality(Ready) \in Nat /\ Cardinality(Ready') = Cardinality(Ready) + 1
  BY <1>1, <1>2, <1>3, NewTaskKeeps
<1>5. BootInv' /\ Uncounted' = Uncounted
  BY <1>1, <1>2, <1>4, BootWatches
<1>6. CountersExact'
  <2>1. Uncounted \in Int /\ miscount \in Int
    BY DEF Uncounted, KernelInv, LoaderTypes
  <2> QED BY <1>1, <1>3, <1>4, <1>5, <2>1 DEF CountersExact, KernelInv
<1> QED BY <1>4, <1>5, <1>6 DEF KernelInv

(* Steps that leave the scheduler, the queues and the free list alone.     *)
LEMMA UntouchedKeeps ==
  ASSUME KernelInv, UNCHANGED <<schedVars, cur_pid, qnext, qprev, has_dir, tasks_blocked,
                                free_pids, next_free, q>>
  PROVE  /\ SchedStep /\ RingInv' /\ cur_pid' = current_pid' /\ DirsAlive' /\ SleepersUnlinked'
         /\ FreeList' /\ StatesTold' /\ QueuesLinked'
         /\ Ready' = Ready /\ Blocked' = Blocked /\ Free' = Free
         /\ UNCHANGED <<state, next, prev, quantum, current_pid, last>>
<1>1. UNCHANGED <<state, next, prev, quantum, current_pid, last>>
  BY DEF schedVars
<1>2. Ready' = Ready /\ Blocked' = Blocked /\ Free' = Free /\ SleepersUnlinked' /\ SchedStep
  BY <1>1, NothingMoves DEF KernelInv
<1>3. RingInv'
  BY <1>1, <1>2 DEF KernelInv, RingInv, TypeOK, LinksInverse, SingleRing, NewIsRunning,
                    NeverLoaded, CurrentInRing, QuantumPositive
<1>4. FreeList' /\ QueuesLinked' /\ StatesTold'
  BY <1>1, <1>2, FreeListSame, QueuesSame DEF KernelInv, PidsAccounted, StatesTold
<1>5. DirsAlive' /\ cur_pid' = current_pid'
  BY <1>1, <1>2 DEF DirsAlive, KernelInv
<1> QED BY <1>1, <1>2, <1>3, <1>4, <1>5

(* The boot code marks its task RUNNING, whatever has become of it.        *)
LEMMA BootStateKeeps ==
  ASSUME KernelInv, BootState
  PROVE  KernelInv' /\ SchedStep
<1>1. /\ boot = "linked" /\ boot' = "loaded" /\ MarkRunning(FirstPid) /\ ~overrun
      /\ UNCHANGED <<next, prev, quantum, current_pid, last>>
      /\ UNCHANGED <<cur_pid, qnext, qprev, has_dir, tasks_running, tasks_blocked,
                     free_pids, next_free, vl, q, taken, counted, miscount, overrun>>
  BY DEF BootState, BootGoesOn, Defined, loaderVars
<1>2. FirstPid \in Task /\ FirstPid \in Pid
  BY SchedAssumption, KernelAssumption DEF FirstPid, Task, Pid
<1>3. RingInv'
  BY <1>1, <1>2, MarkKeepsRing DEF KernelInv
<1>4. Ready' = Ready /\ Blocked' = Blocked /\ Free' = Free /\ SleepersUnlinked' /\ SchedStep
  BY <1>1, NothingMoves DEF KernelInv
<1>5. FreeList' /\ QueuesLinked' /\ DirsAlive' /\ cur_pid' = current_pid'
  BY <1>1, <1>4, FreeListSame, QueuesSame DEF KernelInv, PidsAccounted, DirsAlive
<1>6. StatesTold'
  <2>1. state'[FirstPid] = RUNNING /\ \A p \in Pid : p # FirstPid => state'[p] = state[p]
    BY <1>1, <1>2 DEF MarkRunning, KernelInv, RingInv, TypeOK
  <2> QED BY <1>4, <2>1, RingFacts DEF KernelInv, StatesTold
<1>7. LoaderTypes' /\ BootInv' /\ PidsAccounted'
  BY <1>1, <1>5 DEF KernelInv, LoaderTypes, BootInv, PidsAccounted
<1>8. CountersExact'
  BY <1>1, <1>4 DEF KernelInv, CountersExact, Uncounted
<1> QED BY <1>3, <1>4, <1>5, <1>6, <1>7, <1>8 DEF KernelInv

(* While the boot code goes on, nobody but its own task was ever loaded:   *)
(* the counter is short by that task, or right if the task has gone.       *)
LEMMA BootSeesOne ==
  ASSUME KernelInv, cur_pid = Idle, boot \in {"loaded", "counting"}
  PROVE  tasks_running = IF last = Idle THEN -1 ELSE 0
<1>1. Ready = {last} \cap Task /\ last \in Pid
  BY DEF KernelInv, RingInv, CurrentInRing, TypeOK
<1>2. tasks_running + 1 = Cardinality(Ready) /\ tasks_running \in Int
  <2>1. Uncounted = 1 /\ miscount = 0 /\ tasks_running \in Int
    BY DEF Uncounted, KernelInv, BootInv, LoaderTypes
  <2>2. Cardinality(Ready) \in Nat
    BY SetsOfTasks, TasksAreFinite DEF KernelInv
  <2> QED BY <2>1, <2>2 DEF KernelInv, CountersExact
<1>3. CASE last = Idle
  <2>1. Ready = {}
    BY <1>1, <1>3, SetsOfTasks DEF KernelInv
  <2> QED BY <1>2, <1>3, <2>1, FS_EmptySet
<1>4. CASE last # Idle
  <2>1. Ready = {last}
    BY <1>1, <1>4 DEF Task, Pid, Idle
  <2>2. Cardinality(Ready) = 1
    BY <2>1, FS_Singleton
  <2> QED BY <1>2, <1>4, <2>2
<1> QED BY <1>3, <1>4

(* The load of its tasks_running++ reads no more than that,                *)
LEMMA BootReadKeeps ==
  ASSUME KernelInv, BootRead
  PROVE  KernelInv' /\ SchedStep
<1>1. /\ boot = "loaded" /\ boot' = "counting" /\ counted' = tasks_running /\ cur_pid = Idle
      /\ UNCHANGED <<schedVars, cur_pid, qnext, qprev, has_dir, tasks_running, tasks_blocked,
                     free_pids, next_free, vl, q, taken, miscount, overrun>>
  BY DEF BootRead, BootGoesOn, Defined, loaderVars
<1>2. /\ SchedStep /\ RingInv' /\ cur_pid' = current_pid' /\ DirsAlive' /\ SleepersUnlinked'
      /\ FreeList' /\ StatesTold' /\ QueuesLinked'
      /\ Ready' = Ready /\ Blocked' = Blocked /\ Free' = Free
      /\ UNCHANGED <<current_pid, last>>
  BY <1>1, UntouchedKeeps
<1>3. counted' \in {-1, 0} /\ (counted' = -1 => last = Idle)
  BY <1>1, BootSeesOne
<1>4. LoaderTypes' /\ BootInv' /\ PidsAccounted'
  BY <1>1, <1>2, <1>3 DEF KernelInv, LoaderTypes, BootInv, PidsAccounted
<1>5. CountersExact'
  BY <1>1, <1>2 DEF KernelInv, CountersExact, Uncounted
<1> QED BY <1>2, <1>4, <1>5 DEF KernelInv

(* and its store leaves the counter right, or one too high for good.       *)
LEMMA BootCountKeeps ==
  ASSUME KernelInv, BootCount
  PROVE  KernelInv' /\ SchedStep
<1>1. /\ boot = "counting" /\ boot' = "idle" /\ tasks_running' = counted + 1 /\ cur_pid = Idle
      /\ miscount' = counted - tasks_running /\ counted' = 0
      /\ UNCHANGED <<schedVars, cur_pid, qnext, qprev, has_dir, tasks_blocked,
                     free_pids, next_free, vl, q, taken, overrun>>
  BY DEF BootCount, BootGoesOn, Defined
<1>2. /\ SchedStep /\ RingInv' /\ cur_pid' = current_pid' /\ DirsAlive' /\ SleepersUnlinked'
      /\ FreeList' /\ StatesTold' /\ QueuesLinked'
      /\ Ready' = Ready /\ Blocked' = Blocked /\ Free' = Free
  BY <1>1, UntouchedKeeps
<1>3. tasks_running \in Int /\ counted \in {-1, 0}
  BY DEF KernelInv, LoaderTypes
<1>4. miscount' \in {0, 1}
  <2>1. tasks_running = IF last = Idle THEN -1 ELSE 0
    BY <1>1, BootSeesOne
  <2>2. counted = -1 => last = Idle
    BY <1>1 DEF KernelInv, BootInv
  <2> QED BY <1>1, <1>3, <2>1, <2>2
<1>5. LoaderTypes' /\ BootInv' /\ PidsAccounted'
  BY <1>1, <1>2, <1>3, <1>4 DEF KernelInv, LoaderTypes, BootInv, PidsAccounted
<1>6. CountersExact'
  <2>1. tasks_running + 1 = Cardinality(Ready)
    BY <1>1, SetsOfTasks, TasksAreFinite
       DEF KernelInv, CountersExact, Uncounted, BootInv, LoaderTypes
  <2> QED BY <1>1, <1>2, <1>3, <1>4, <2>1 DEF KernelInv, CountersExact, Uncounted
<1> QED BY <1>2, <1>5, <1>6 DEF KernelInv

(* get_new_pid is called on an empty list.                                 *)
LEMMA PidsExhaustedKeeps ==
  ASSUME KernelInv, PidsExhausted
  PROVE  KernelInv' /\ SchedStep
<1>1. /\ next_free = None /\ overrun' = TRUE
      /\ UNCHANGED <<schedVars, loaderVars, vl, q, bootVars>>
      /\ UNCHANGED <<cur_pid, qnext, qprev, has_dir, tasks_running, tasks_blocked,
                     free_pids, next_free>>
  BY DEF PidsExhausted, loaderVars
<1>2. /\ SchedStep /\ RingInv' /\ cur_pid' = current_pid' /\ DirsAlive' /\ SleepersUnlinked'
      /\ FreeList' /\ StatesTold' /\ QueuesLinked'
      /\ Ready' = Ready /\ Blocked' = Blocked /\ Free' = Free
      /\ UNCHANGED <<state, next, current_pid, last>>
  BY <1>1, UntouchedKeeps
<1>3. BootInv' /\ Uncounted' = Uncounted /\ UNCHANGED <<boot, taken, counted, miscount>>
  BY <1>1, <1>2, BootWatches
<1>4. LoaderTypes'
  <2>1. overrun' \in BOOLEAN
    BY <1>1
  <2> QED BY <1>1, <1>3, <2>1 DEF KernelInv, LoaderTypes
<1>5. Free' = {}
  BY <1>1, <1>2, FreeListEmpty DEF KernelInv, PidsAccounted
<1>6. CountersExact'
  BY <1>1, <1>2, <1>3 DEF KernelInv, CountersExact
<1> QED BY <1>2, <1>3, <1>4, <1>5, <1>6 DEF KernelInv, PidsAccounted

(* Steps on the value of a semaphore, of tasks, interrupts or boot.        *)
LEMMA ValueKeeps ==
  ASSUME KernelInv, vl' \in [Sem -> 0 .. MaxVl], ~overrun,
         taken' \in [Sem -> 0 .. MaxVl], boot # "init" => \A s \in Sem : taken'[s] = 0,
         UNCHANGED <<schedVars, loaderVars, q, boot, counted, miscount, overrun>>
  PROVE  KernelInv' /\ SchedStep
<1>1. UNCHANGED <<cur_pid, qnext, qprev, has_dir, tasks_running, tasks_blocked,
                  free_pids, next_free>>
  BY DEF loaderVars
<1>2. /\ SchedStep /\ RingInv' /\ cur_pid' = current_pid' /\ DirsAlive' /\ SleepersUnlinked'
      /\ FreeList' /\ StatesTold' /\ QueuesLinked'
      /\ Ready' = Ready /\ Blocked' = Blocked /\ Free' = Free
      /\ UNCHANGED <<state, next, current_pid, last>>
  BY <1>1, UntouchedKeeps
<1>3. LoaderTypes'
  BY <1>1 DEF KernelInv, LoaderTypes
<1>4. CountersExact' /\ PidsAccounted'
  BY <1>1, <1>2 DEF KernelInv, CountersExact, PidsAccounted, Uncounted
<1>5. BootInv'
  BY <1>1, <1>2 DEF BootInv, NoneLoaded, NeverLoaded, KernelInv
<1> QED BY <1>2, <1>3, <1>4, <1>5 DEF KernelInv

(* The clock tick, which may change the current task.                      *)
LEMMA TickKeeps ==
  ASSUME KernelInv, loader_tick
  PROVE  KernelInv' /\ SchedStep
<1>1. /\ sched_tick /\ cur_pid' = current_pid' /\ ~overrun
      /\ UNCHANGED <<qnext, qprev, has_dir, tasks_running, tasks_blocked,
                     free_pids, next_free, vl, q, bootVars, overrun>>
  BY DEF loader_tick, Defined
<1>2. /\ RingInv' /\ Ready' = Ready /\ Blocked' = Blocked /\ Free' = Free
      /\ SleepersUnlinked' /\ SchedStep
      /\ UNCHANGED <<state, next, last>> /\ (current_pid' = Idle => current_pid = Idle /\ last' = Idle)
  BY <1>1, TickMoves DEF KernelInv
<1>3. BootInv' /\ Uncounted' = Uncounted /\ UNCHANGED <<boot, taken, counted, miscount>>
  BY <1>1, <1>2, BootWatches
<1>4. LoaderTypes'
  <2>1. cur_pid' \in Pid
    BY <1>1, <1>2 DEF RingInv, TypeOK
  <2> QED BY <1>1, <1>3, <2>1 DEF KernelInv, LoaderTypes
<1>5. FreeList' /\ QueuesLinked'
  BY <1>1, <1>2, FreeListSame, QueuesSame DEF KernelInv, PidsAccounted
<1>6. DirsAlive' /\ PidsAccounted' /\ CountersExact' /\ StatesTold'
  BY <1>1, <1>2, <1>3, <1>5 DEF DirsAlive, PidsAccounted, CountersExact, StatesTold, KernelInv
<1> QED BY <1>1, <1>2, <1>3, <1>4, <1>5, <1>6 DEF KernelInv

(* The current task ends and its pid is free again.                        *)
LEMMA ExitKeeps ==
  ASSUME KernelInv, loader_exit
  PROVE  KernelInv' /\ SchedStep
<1> DEFINE c == cur_pid
<1>1. /\ c # Idle /\ free_pids' = [free_pids EXCEPT ![c] = next_free] /\ next_free' = c
      /\ tasks_running' = tasks_running - 1 /\ sched_exit /\ cur_pid' = current_pid'
      /\ has_dir' = [has_dir EXCEPT ![c] = FALSE] /\ ~overrun
      /\ UNCHANGED <<qnext, qprev, tasks_blocked, vl, q, bootVars, overrun>>
  BY DEF loader_exit, free_pid, Defined
<1>2. /\ current_pid = c /\ current_pid # Idle /\ c \in Ready /\ c \in Task /\ c \in Pid
      /\ c \notin Blocked /\ c \notin Free /\ boot # "init"
  BY <1>1, RunningTask
<1>3. Exit /\ Blocked' = Blocked
  BY <1>1, <1>2 DEF Exit, Blocked
<1>4. /\ RingInv' /\ Ready' = Ready \ {c} /\ SleepersUnlinked' /\ SchedStep
      /\ state' = [state EXCEPT ![c] = FINISHED] /\ (current_pid' = Idle => last' = Idle)
  BY <1>2, <1>3, ExitMoves DEF KernelInv
<1>5. Free' = Free \cup {c}
  BY <1>2, <1>3, <1>4 DEF Free
<1>6. FreeList'
  BY <1>1, <1>2, <1>5, FreeOf, SetsOfTasks, FreeListPush DEF KernelInv, PidsAccounted
<1>7. QueuesLinked'
  BY <1>1, <1>3, QueuesSame DEF KernelInv
<1>8. StatesTold'
  BY <1>2, <1>3, <1>4, RingFacts DEF StatesTold, KernelInv, TypeOK
<1>9. BootInv' /\ Uncounted' = Uncounted /\ UNCHANGED <<boot, taken, counted, miscount>>
  BY <1>1, <1>2, <1>4, BootWatches
<1>10. LoaderTypes'
  <2>1. cur_pid' \in Pid
    BY <1>1, <1>4 DEF RingInv, TypeOK
  <2>2. free_pids' \in [Pid -> Task \cup {None}] /\ next_free' \in Task \cup {None}
    BY <1>1, <1>2 DEF KernelInv, LoaderTypes
  <2>3. has_dir' \in [Pid -> BOOLEAN]
    BY <1>1 DEF KernelInv, LoaderTypes
  <2>4. tasks_running' \in Int
    BY <1>1 DEF KernelInv, LoaderTypes
  <2> QED BY <1>1, <1>9, <2>1, <2>2, <2>3, <2>4 DEF KernelInv, LoaderTypes
<1>11. DirsAlive'
  <2>1. ASSUME NEW p \in Ready' \cup Blocked' \cup {Idle} PROVE has_dir'[p]
    <3>1. p # c /\ p \in Ready \cup Blocked \cup {Idle} /\ p \in Pid
      BY <1>1, <1>2, <1>3, <1>4, SetsOfTasks DEF KernelInv
    <3>2. has_dir'[p] = has_dir[p]
      BY <1>1, <3>1 DEF KernelInv, LoaderTypes
    <3> QED BY <3>1, <3>2 DEF KernelInv, DirsAlive
  <2> QED BY <2>1 DEF DirsAlive, Idle
<1>12. PidsAccounted'
  BY <1>1, <1>6 DEF PidsAccounted
<1>13. CountersExact'
  <2>1. Cardinality(Ready) \in Nat /\ Cardinality(Ready') = Cardinality(Ready) - 1
    BY <1>2, <1>4, SetsOfTasks, OneLess DEF KernelInv
  <2>2. tasks_running \in Int /\ Uncounted \in Int /\ miscount \in Int
    BY DEF KernelInv, LoaderTypes, Uncounted
  <2> QED BY <2>1, <2>2, <1>1, <1>3, <1>9 DEF CountersExact, KernelInv
<1> QED BY <1>1, <1>4, <1>7, <1>8, <1>9, <1>10, <1>11, <1>12, <1>13 DEF KernelInv

(* The current task joins a wait queue.                                    *)
LEMMA EnqueueKeeps ==
  ASSUME KernelInv, NEW s \in Sem, cur_pid # Idle, loader_enqueue(s),
         ~overrun, UNCHANGED <<vl, bootVars, overrun>>
  PROVE  KernelInv' /\ SchedStep
<1> DEFINE c == cur_pid
<1>1. /\ Linked(c, s) /\ sched_block /\ cur_pid' = current_pid'
      /\ tasks_blocked' = tasks_blocked + 1 /\ tasks_running' = tasks_running - 1
      /\ UNCHANGED <<has_dir, free_pids, next_free>>
  BY DEF loader_enqueue, Linked
<1>2. /\ current_pid = c /\ current_pid # Idle /\ c \in Ready /\ c \in Task /\ c \in Pid
      /\ c \notin Blocked /\ c \notin Free /\ boot # "init"
  BY RunningTask
<1>3. /\ None \notin Task /\ Blocked \subseteq Task /\ Task \subseteq Pid
      /\ Block /\ Blocked' = Blocked \cup {c}
  <2>1. None \notin Task /\ Blocked \subseteq Task /\ Task \subseteq Pid
    BY SetsOfTasks DEF KernelInv
  <2> QED BY <1>1, <1>2, <2>1, LinkedBlocks DEF Block, KernelInv
<1>4. /\ RingInv' /\ Ready' = Ready \ {c} /\ SleepersUnlinked' /\ SchedStep
      /\ state' = [state EXCEPT ![c] = BLOCKED] /\ (current_pid' = Idle => last' = Idle)
  BY <1>2, <1>3, BlockMoves DEF KernelInv
<1>5. Free' = Free
  BY <1>2, <1>3, <1>4 DEF Free
<1>6. FreeList' /\ PidsAccounted'
  BY <1>1, <1>5, FreeListSame DEF KernelInv, PidsAccounted
<1>7. QueuesLinked' /\ LoaderTypes!2' /\ q' \in [Sem -> Task \cup {None}]
  BY <1>1, <1>2, <1>3, EnqueueKeepsQueues DEF KernelInv
<1>8. StatesTold'
  BY <1>2, <1>3, <1>4, RingFacts DEF StatesTold, KernelInv, TypeOK
<1>9. BootInv' /\ Uncounted' = Uncounted /\ UNCHANGED <<boot, taken, counted, miscount>>
  BY <1>1, <1>2, <1>4, BootWatches
<1>10. LoaderTypes'
  <2>1. cur_pid' \in Pid
    BY <1>1, <1>4 DEF RingInv, TypeOK
  <2>2. tasks_running' \in Int /\ tasks_blocked' \in Int
    BY <1>1 DEF KernelInv, LoaderTypes
  <2> QED BY <1>1, <1>7, <1>9, <2>1, <2>2 DEF KernelInv, LoaderTypes
<1>11. DirsAlive'
  BY <1>1, <1>2, <1>3, <1>4 DEF DirsAlive, KernelInv
<1>12. CountersExact'
  <2>1. /\ Cardinality(Ready) \in Nat /\ Cardinality(Ready') = Cardinality(Ready) - 1
        /\ Cardinality(Blocked) \in Nat /\ Cardinality(Blocked') = Cardinality(Blocked) + 1
    BY <1>2, <1>3, <1>4, SetsOfTasks, OneLess, OneMore DEF KernelInv
  <2>2. tasks_running \in Int /\ Uncounted \in Int /\ miscount \in Int
    BY DEF KernelInv, LoaderTypes, Uncounted
  <2> QED BY <2>1, <2>2, <1>1, <1>9 DEF CountersExact, KernelInv
<1> QED BY <1>1, <1>4, <1>6, <1>7, <1>8, <1>9, <1>10, <1>11, <1>12 DEF KernelInv

(* The head of a wait queue is woken.                                      *)
LEMMA UnqueueKeeps ==
  ASSUME KernelInv, NEW s \in Sem, q[s] # None, loader_unqueue(s),
         ~overrun, UNCHANGED <<vl, bootVars, overrun>>
  PROVE  KernelInv' /\ SchedStep
<1> DEFINE h == q[s]
<1>1. /\ Unlinked(s) /\ sched_unblock(h)
      /\ tasks_blocked' = tasks_blocked - 1 /\ tasks_running' = tasks_running + 1
      /\ cur_pid' = IF current_pid = Idle THEN h ELSE cur_pid
      /\ UNCHANGED <<has_dir, free_pids, next_free>>
  BY DEF loader_unqueue, Unlinked
<1>2. /\ None \notin Task /\ Blocked \subseteq Task /\ Task \subseteq Pid
      /\ h \in Blocked /\ Blocked' = Blocked \ {h}
  <2>1. None \notin Task /\ Blocked \subseteq Task /\ Task \subseteq Pid
    BY SetsOfTasks DEF KernelInv
  <2> QED BY <1>1, <2>1, UnlinkedUnblocks DEF KernelInv
<1>3. /\ RingInv' /\ Ready' = Ready \cup {h} /\ SleepersUnlinked' /\ SchedStep
      /\ h \notin Ready /\ h \in Task /\ h \in Pid
      /\ state' = [state EXCEPT ![h] = RUNNING] /\ current_pid' # Idle
  <2> HIDE DEF h
  <2> QED BY <1>1, <1>2, UnblockMoves DEF KernelInv
<1>4. boot # "init"
  BY <1>2, RingFacts DEF KernelInv, BootInv, NoneLoaded, NeverLoaded, SleepersUnlinked
<1>5. Free' = Free
  BY <1>2, <1>3 DEF Free
<1>6. FreeList' /\ PidsAccounted'
  BY <1>1, <1>5, FreeListSame DEF KernelInv, PidsAccounted
<1>7. QueuesLinked' /\ LoaderTypes!2' /\ q' \in [Sem -> Task \cup {None}]
  BY <1>1, <1>2, DequeueKeepsQueues DEF KernelInv
<1>8. StatesTold'
  BY <1>2, <1>3, RingFacts DEF StatesTold, KernelInv, TypeOK
<1>9. BootInv' /\ Uncounted' = Uncounted /\ UNCHANGED <<boot, taken, counted, miscount>>
  BY <1>3, <1>4, BootWatches
<1>10. cur_pid' = current_pid'
  BY <1>1 DEF sched_unblock, KernelInv
<1>11. LoaderTypes'
  <2>1. cur_pid' \in Pid
    BY <1>3, <1>10 DEF RingInv, TypeOK
  <2>2. tasks_running' \in Int /\ tasks_blocked' \in Int
    BY <1>1 DEF KernelInv, LoaderTypes
  <2> QED BY <1>1, <1>7, <1>9, <2>1, <2>2 DEF KernelInv, LoaderTypes
<1>12. DirsAlive'
  BY <1>1, <1>2, <1>3 DEF DirsAlive, KernelInv
<1>13. CountersExact'
  <2>1. /\ Cardinality(Ready) \in Nat /\ Cardinality(Ready') = Cardinality(Ready) + 1
        /\ Cardinality(Blocked) \in Nat /\ Cardinality(Blocked') = Cardinality(Blocked) - 1
    BY <1>2, <1>3, SetsOfTasks, OneLess, OneMore DEF KernelInv
  <2>2. tasks_running \in Int /\ Uncounted \in Int /\ miscount \in Int
    BY DEF KernelInv, LoaderTypes, Uncounted
  <2> QED BY <2>1, <2>2, <1>1, <1>9 DEF CountersExact, KernelInv
<1> QED BY <1>3, <1>6, <1>7, <1>8, <1>9, <1>10, <1>11, <1>12, <1>13 DEF KernelInv

(* sem_wait, with a unit or without.                                       *)
LEMMA WaitKeeps ==
  ASSUME KernelInv, NEW s \in Sem, sem_wait(s)
  PROVE  KernelInv' /\ SchedStep
<1>1. CASE vl[s] > 0
  <2>1. /\ vl' = [vl EXCEPT ![s] = @ - 1] /\ ~overrun
        /\ UNCHANGED <<schedVars, loaderVars, q, boot, taken, counted, miscount, overrun>>
    BY <1>1 DEF sem_wait, Defined, bootVars
  <2>2. vl' \in [Sem -> 0 .. MaxVl]
    BY <1>1, <2>1, KernelAssumption DEF KernelInv, LoaderTypes
  <2> QED BY <2>1, <2>2, ValueKeeps DEF KernelInv, LoaderTypes, BootInv
<1>2. CASE ~(vl[s] > 0)
  <2>1. cur_pid # Idle /\ loader_enqueue(s) /\ ~overrun /\ UNCHANGED <<vl, bootVars, overrun>>
    BY <1>2 DEF sem_wait, Defined
  <2> QED BY <2>1, EnqueueKeeps
<1> QED BY <1>1, <1>2

(* sem_signal, with a waiting task or without.                             *)
LEMMA SignalKeeps ==
  ASSUME KernelInv, NEW s \in Sem, sem_signal(s)
  PROVE  KernelInv' /\ SchedStep
<1>1. CASE vl[s] = 0 /\ q[s] # None
  <2>1. loader_unqueue(s) /\ ~overrun /\ UNCHANGED <<vl, bootVars, overrun>>
    BY <1>1 DEF sem_signal, Defined
  <2> QED BY <1>1, <2>1, UnqueueKeeps
<1>2. CASE ~(vl[s] = 0 /\ q[s] # None)
  <2>1. /\ vl[s] < MaxVl /\ vl' = [vl EXCEPT ![s] = @ + 1] /\ ~overrun
        /\ UNCHANGED <<schedVars, loaderVars, q, boot, taken, counted, miscount, overrun>>
    BY <1>2 DEF sem_signal, Defined, bootVars
  <2>2. vl' \in [Sem -> 0 .. MaxVl]
    BY <2>1, KernelAssumption DEF KernelInv, LoaderTypes
  <2> QED BY <2>1, <2>2, ValueKeeps DEF KernelInv, LoaderTypes, BootInv
<1> QED BY <1>1, <1>2

(* The load and the store of boot's own sem_wait.                          *)
LEMMA BootWaitKeeps ==
  ASSUME KernelInv, NEW s \in Sem, BootTake(s) \/ BootPut(s)
  PROVE  KernelInv' /\ SchedStep
<1>0. /\ vl \in [Sem -> 0 .. MaxVl] /\ taken \in [Sem -> 0 .. MaxVl] /\ MaxVl \in Nat
  BY KernelAssumption DEF KernelInv, LoaderTypes
<1>1. /\ boot = "init" /\ ~overrun
      /\ UNCHANGED <<schedVars, loaderVars, q, boot, counted, miscount, overrun>>
  <2>1. BootPut(s) => boot = "init"
    BY <1>0 DEF BootPut, KernelInv, BootInv
  <2> QED BY <2>1 DEF BootTake, BootPut, BootGoesOn, Defined
<1>2. taken' \in [Sem -> 0 .. MaxVl] /\ vl' \in [Sem -> 0 .. MaxVl]
  <2>1. CASE BootTake(s)
    BY <1>0, <2>1 DEF BootTake
  <2>2. CASE BootPut(s)
    <3>1. taken[s] \in 0 .. MaxVl /\ taken[s] > 0 /\ taken[s] - 1 \in 0 .. MaxVl
      BY <1>0, <2>2 DEF BootPut
    <3> QED BY <1>0, <2>2, <3>1 DEF BootPut
  <2> QED BY <2>1, <2>2
<1> QED BY <1>1, <1>2, ValueKeeps

----------------------------------------------------------------------------
(* Every step keeps the invariant and is a step of the scheduler.          *)
LEMMA KernelStep ==
  ASSUME KernelInv, [Next]_vars
  PROVE  KernelInv' /\ SchedStep
<1>1. CASE UNCHANGED vars
  <2>1. UNCHANGED <<schedVars, loaderVars, q, bootVars, overrun, vl>>
    BY <1>1 DEF vars
  <2>2. UNCHANGED <<cur_pid, qnext, qprev, has_dir, tasks_running, tasks_blocked,
                    free_pids, next_free>>
    BY <2>1 DEF loaderVars
  <2>3. /\ SchedStep /\ RingInv' /\ cur_pid' = current_pid' /\ DirsAlive' /\ SleepersUnlinked'
        /\ FreeList' /\ StatesTold' /\ QueuesLinked'
        /\ Ready' = Ready /\ Blocked' = Blocked /\ Free' = Free
        /\ UNCHANGED <<state, next, current_pid, last>>
    BY <2>1, <2>2, UntouchedKeeps
  <2>4. BootInv' /\ Uncounted' = Uncounted /\ UNCHANGED <<boot, taken, counted, miscount>>
    BY <2>1, <2>2, <2>3, BootWatches
  <2>5. LoaderTypes' /\ CountersExact' /\ PidsAccounted'
    BY <2>1, <2>2, <2>3, <2>4 DEF KernelInv, LoaderTypes, CountersExact, PidsAccounted
  <2> QED BY <2>3, <2>4, <2>5 DEF KernelInv
<1>2. CASE BootLoad \/ BootState \/ BootRead \/ BootCount
  BY <1>2, BootLoadKeeps, BootStateKeeps, BootReadKeeps, BootCountKeeps
<1>3. CASE loader_load \/ sys_fork
  BY <1>3, LoaderLoadKeeps DEF sys_fork
<1>4. CASE PidsExhausted
  BY <1>4, PidsExhaustedKeeps
<1>5. CASE loader_exit
  BY <1>5, ExitKeeps
<1>6. CASE loader_tick
  BY <1>6, TickKeeps
<1>7. CASE \E s \in Sem : sem_wait(s) \/ sem_signal(s) \/ BootTake(s) \/ BootPut(s)
  BY <1>7, WaitKeeps, SignalKeeps, BootWaitKeeps
<1> QED BY <1>1, <1>2, <1>3, <1>4, <1>5, <1>6, <1>7 DEF Next

(* The invariant holds in every reachable state.                           *)
LEMMA KernelSafety == Spec => []KernelInv
<1>1. KernelInv /\ [Next]_vars => KernelInv'
  BY KernelStep
<1> QED BY InitInv, <1>1, PTL DEF Spec

(* The loader and the semaphores call the scheduler only in the ways Sched *)
(* allows: a free pid is loaded, the owner of the CPU blocks or ends, a    *)
(* blocked task is woken.  Read with the states that the links tell, every *)
(* step of the kernel, boot's late mark included, is one of SchedSpec.     *)
THEOREM KernelImplementsSched == Spec => Scheduler!SchedSpec
<1>1. Init => Scheduler!sched_init
  <2> SUFFICES ASSUME Init PROVE Scheduler!sched_init
    OBVIOUS
  <2>1. sched_init /\ qnext = [p \in Pid |-> 0] /\ Task \subseteq Pid /\ Idle \notin Task /\ None # Idle
    BY RingFacts, SchedInitInv DEF Init, loader_init, SchedInv
  <2>2. Blocked = {}
    BY <2>1 DEF Blocked, Idle
  <2>3. \A p \in Pid : ToldState(p) = RUNNING
    BY <2>1, <2>2 DEF ToldState, sched_init
  <2>4. Told = [p \in Pid |-> RUNNING]
    BY <2>3 DEF Told
  <2> QED BY <2>1, <2>4 DEF sched_init, Scheduler!sched_init, Pid, Scheduler!Pid, Idle, Scheduler!Idle,
                            RUNNING, Scheduler!RUNNING
<1>2. KernelInv /\ [Next]_vars => [Scheduler!SchedNext]_(Scheduler!schedVars)
  BY KernelStep DEF SchedStep
<1> QED BY <1>1, <1>2, KernelSafety, PTL DEF Spec, Scheduler!SchedSpec

(* Type correctness of loader and semaphores; the counter of running tasks *)
(* falls below zero at most by the one that boot has still to count.       *)
THEOREM KernelTypeCorrect == Spec => []KernelTypeOK
<1>1. ASSUME KernelInv PROVE KernelTypeOK
  <2>1. LoaderTypes /\ CountersExact
    BY <1>1 DEF KernelInv
  <2>2. Cardinality(Ready) \in 0 .. MaxPid - 1 /\ Cardinality(Blocked) \in 0 .. MaxPid - 1
    BY <1>1, SetsOfTasks, TasksAreFinite DEF KernelInv
  <2>3. tasks_running \in -1 .. MaxPid /\ tasks_blocked \in 0 .. MaxPid
    BY <2>1, <2>2, SchedAssumption DEF CountersExact, Uncounted, LoaderTypes
  <2> QED BY <2>1, <2>3 DEF LoaderTypes, KernelTypeOK
<1> QED BY <1>1, KernelSafety, PTL

(* The free list has every pid of no task exactly once, and get_new_pid    *)
(* runs off its end only when every pid is in use.                         *)
THEOREM KernelPids == Spec => []PidsAccounted
<1>1. KernelInv => PidsAccounted
  BY DEF KernelInv
<1> QED BY <1>1, KernelSafety, PTL

(* Every blocked task is in the ring of exactly one wait queue, and only   *)
(* the first task may wait there without being marked BLOCKED.             *)
THEOREM KernelQueues == Spec => []QueuesExact
<1>1. KernelInv => QueuesExact
  BY DEF KernelInv, QueuesExact, QueuesLinked
<1> QED BY <1>1, KernelSafety, PTL

(* The status bar counts the tasks there are, and for good one more if     *)
(* tasks ran between the load and the store of boot's tasks_running++.     *)
THEOREM KernelCounters == Spec => []CountersExact
<1>1. KernelInv => CountersExact
  BY DEF KernelInv
<1> QED BY <1>1, KernelSafety, PTL

(* Loader and scheduler agree on the current task, its page directory is   *)
(* alive, and once a task has run the CPU idles only when nobody can run.  *)
THEOREM KernelCurrent == Spec => []CurrentIsAlive
<1>1. ASSUME KernelInv PROVE CurrentIsAlive
  <2>1. cur_pid = current_pid /\ DirsAlive /\ CurrentInRing
    BY <1>1 DEF KernelInv, RingInv
  <2>2. has_dir[cur_pid]
    BY <2>1 DEF DirsAlive, CurrentInRing
  <2>3. cur_pid = Idle /\ last = Idle => Ready = {}
    BY <2>1, SetsOfTasks, <1>1 DEF CurrentInRing, KernelInv
  <2> QED BY <2>1, <2>2, <2>3 DEF CurrentIsAlive
<1> QED BY <1>1, KernelSafety, PTL

----------------------------------------------------------------------------
(* The wait queues as sequences, and the semaphores they implement *)

(* The k-th element of a list of links, up to n, as a function of k.       *)
Walk(f, n, first, link) ==
  f = [k \in 0 .. n |-> IF k = 0 THEN first ELSE IF f[k - 1] \in Pid THEN link[f[k - 1]] ELSE None]

(* There is such a function for every n.                                   *)
LEMMA WalkExists ==
  ASSUME NEW first, NEW link, NEW n \in Nat
  PROVE  \E f : Walk(f, n, first, link)
<1> DEFINE S == {m \in Nat : \E f : Walk(f, m, first, link)}
           step(x) == IF x \in Pid THEN link[x] ELSE None
<1>1. 0 \in S
  <2> DEFINE g == [k \in 0 .. 0 |-> first]
  <2>1. g = [k \in 0 .. 0 |-> IF k = 0 THEN first ELSE IF g[k - 1] \in Pid THEN link[g[k - 1]] ELSE None]
    OBVIOUS
  <2>2. Walk(g, 0, first, link)
    BY <2>1 DEF Walk
  <2> QED BY <2>2
<1>2. ASSUME NEW m \in Nat, m \in S PROVE m + 1 \in S
  <2>1. PICK f : Walk(f, m, first, link)
    BY <1>2
  <2>2. /\ f = [k \in 0 .. m |-> IF k = 0 THEN first ELSE IF f[k - 1] \in Pid THEN link[f[k - 1]] ELSE None]
    BY <2>1 DEF Walk
  <2> DEFINE g == [k \in 0 .. m + 1 |-> IF k = m + 1 THEN step(f[m]) ELSE f[k]]
  <2>3. \A k \in 0 .. m : g[k] = f[k]
    OBVIOUS
  <2>4. ASSUME NEW k \in 0 .. m + 1
        PROVE  g[k] = IF k = 0 THEN first ELSE IF g[k - 1] \in Pid THEN link[g[k - 1]] ELSE None
    <3>1. CASE k \in 0 .. m
      <4>1. g[k] = f[k] /\ (k # 0 => k - 1 \in 0 .. m /\ g[k - 1] = f[k - 1])
        BY <2>3, <3>1
      <4> HIDE DEF g
      <4> QED BY <4>1, <2>2, <3>1
    <3>2. CASE k = m + 1
      <4>1. g[k] = step(f[m]) /\ k # 0 /\ k - 1 = m /\ g[k - 1] = f[m]
        BY <2>3, <3>2
      <4> HIDE DEF g
      <4> QED BY <4>1
    <3> QED BY <3>1, <3>2
  <2>5. Walk(g, m + 1, first, link)
    <3>1. g = [k \in 0 .. m + 1 |-> g[k]]
      OBVIOUS
    <3> HIDE DEF g
    <3> QED BY <2>4, <3>1 DEF Walk
  <2> QED BY <2>5
<1> HIDE DEF S
<1>3. Nat \subseteq S
  BY <1>1, <1>2, Induction
<1> QED BY <1>3 DEF S

(* How Nth goes from link to link.                                         *)
LEMMA NthSteps ==
  ASSUME NEW first, NEW link
  PROVE  /\ Nth(first, link, 0) = first
         /\ \A n \in 1 .. MaxPid :
              Nth(first, link, n) = IF Nth(first, link, n - 1) \in Pid
                                      THEN link[Nth(first, link, n - 1)] ELSE None
<1> DEFINE at[k \in 0 .. MaxPid] ==
             IF k = 0 THEN first ELSE IF at[k - 1] \in Pid THEN link[at[k - 1]] ELSE None
<1>1. \A n : Nth(first, link, n) = at[n]
  BY DEF Nth
<1>2. MaxPid \in Nat
  BY SchedAssumption
<1>3. Walk(at, MaxPid, first, link)
  <2>1. at = CHOOSE f : Walk(f, MaxPid, first, link)
    BY DEF Walk
  <2> HIDE DEF at
  <2> QED BY <2>1, <1>2, WalkExists
<1> HIDE DEF at
<1>4. /\ at[0] = first
      /\ \A n \in 1 .. MaxPid : at[n] = IF at[n - 1] \in Pid THEN link[at[n - 1]] ELSE None
  BY <1>2, <1>3 DEF Walk
<1> QED BY <1>1, <1>4

(* Q is the wait queue that begins with head and follows the links.        *)
Ring(head, next1, prev1, Q) ==
  /\ Q \in Seq(Task)
  /\ head = None <=> Q = <<>>
  /\ Q # <<>> => head = Q[1] /\ next1[Q[Len(Q)]] = Q[1] /\ prev1[Q[1]] = Q[Len(Q)]
  /\ \A i \in 1 .. Len(Q) - 1 : next1[Q[i]] = Q[i + 1] /\ prev1[Q[i + 1]] = Q[i]
  /\ \A i, j \in 1 .. Len(Q) : Q[i] = Q[j] => i = j

(* A queue holds no more tasks than there are.                             *)
LEMMA QueueFits ==
  ASSUME NEW Q \in Seq(Task), \A i, j \in 1 .. Len(Q) : Q[i] = Q[j] => i = j
  PROVE  Len(Q) \in 0 .. MaxPid - 1
<1>1. IsFiniteSet(Task) /\ Cardinality(Task) = MaxPid - 1
  <2>1. 1 \in Int /\ MaxPid - 1 \in Int /\ MaxPid - 1 >= 1
    BY SchedAssumption, KernelAssumption
  <2>2. IsFiniteSet(1 .. MaxPid - 1) /\ Cardinality(1 .. MaxPid - 1) = (MaxPid - 1) - 1 + 1
    BY <2>1, FS_Interval
  <2> QED BY <2>1, <2>2 DEF Task
<1>2. Len(Q) \in Nat /\ Q \in [1 .. Len(Q) -> Task]
  BY LenProperties
<1>3. Q \in Injection(1 .. Len(Q), Task)
  BY <1>2 DEF Injection, IsInjective
<1>4. Cardinality(1 .. Len(Q)) <= Cardinality(Task)
  BY <1>1, <1>3, FS_Injection
<1>5. Cardinality(1 .. Len(Q)) = Len(Q)
  <2>1. 1 \in Int /\ Len(Q) \in Int
    BY <1>2
  <2>2. Cardinality(1 .. Len(Q)) = IF 1 > Len(Q) THEN 0 ELSE Len(Q) - 1 + 1
    BY <2>1, FS_Interval
  <2> QED BY <2>2, <1>2
<1> QED BY <1>1, <1>2, <1>4, <1>5, SchedAssumption

(* One step of it, from the element before.                                *)
LEMMA NthNext ==
  ASSUME NEW first, NEW link, NEW n \in 1 .. MaxPid, NEW m, m = n - 1
  PROVE  Nth(first, link, n) = IF Nth(first, link, m) \in Pid
                                 THEN link[Nth(first, link, m)] ELSE None
BY NthSteps

(* Nth, from the head of a queue, goes round it.                           *)
LEMMA NthInRing ==
  ASSUME NEW s \in Sem, NEW Q, Ring(q[s], qnext, qprev, Q), Q # <<>>
  PROVE  /\ Len(Q) \in 1 .. MaxPid - 1
         /\ \A k \in 0 .. Len(Q) - 1 : Nth(q[s], qnext, k) = Q[k + 1]
         /\ Nth(q[s], qnext, Len(Q)) = Q[1]
<1> DEFINE at(k) == Nth(q[s], qnext, k)
           L == Len(Q)
           S == {k \in Nat : k <= L - 1 => at(k) = Q[k + 1]}
<1>1. /\ Q \in Seq(Task) /\ q[s] = Q[1] /\ qnext[Q[L]] = Q[1]
      /\ \A i \in 1 .. L - 1 : qnext[Q[i]] = Q[i + 1]
      /\ \A i, j \in 1 .. L : Q[i] = Q[j] => i = j
  BY DEF Ring
<1>2. L \in 1 .. MaxPid - 1 /\ L \in Nat /\ MaxPid \in Nat
  <2>1. Len(Q) \in 0 .. MaxPid - 1
    BY <1>1, QueueFits
  <2>2. Len(Q) # 0
    BY <1>1, EmptySeq
  <2> QED BY <2>1, <2>2, SchedAssumption
<1>3. \A i \in 1 .. L : Q[i] \in Pid
  BY <1>1, SchedAssumption, ElementOfSeq DEF Task, Pid
<1>4. /\ at(0) = q[s]
      /\ \A n \in 1 .. MaxPid : at(n) = IF at(n - 1) \in Pid THEN qnext[at(n - 1)] ELSE None
  <2>1. at(0) = q[s]
    BY NthSteps
  <2>2. ASSUME NEW n \in 1 .. MaxPid
        PROVE  at(n) = IF at(n - 1) \in Pid THEN qnext[at(n - 1)] ELSE None
    <3> DEFINE m == n - 1
    <3>1. m = n - 1
      OBVIOUS
    <3> HIDE DEF m
    <3>2. Nth(q[s], qnext, n) = IF Nth(q[s], qnext, m) \in Pid
                                  THEN qnext[Nth(q[s], qnext, m)] ELSE None
      BY <3>1, NthNext
    <3> QED BY <3>1, <3>2
  <2> QED BY <2>1, <2>2
<1> HIDE DEF at, L
<1>5. 0 \in S
  BY <1>1, <1>4
<1>6. ASSUME NEW k \in Nat, k \in S PROVE k + 1 \in S
  <2> SUFFICES ASSUME k + 1 <= L - 1 PROVE at(k + 1) = Q[(k + 1) + 1]
    OBVIOUS
  <2>1. at(k) = Q[k + 1] /\ k + 1 \in 1 .. L - 1 /\ k + 1 \in 1 .. L
    BY <1>2, <1>6
  <2>2. k + 1 \in 1 .. MaxPid /\ (k + 1) - 1 = k
    BY <1>2, <2>1
  <2> QED BY <1>1, <1>3, <1>4, <2>1, <2>2
<1>7. Nat \subseteq S
  <2> HIDE DEF S
  <2> QED BY <1>5, <1>6, Induction
<1>8. \A k \in 0 .. L - 1 : at(k) = Q[k + 1]
  BY <1>2, <1>7
<1>9. at(L) = Q[1]
  <2>1. at(L - 1) = Q[L] /\ L \in 1 .. MaxPid /\ L \in 1 .. L
    <3>1. L - 1 \in 0 .. L - 1 /\ (L - 1) + 1 = L
      BY <1>2
    <3> QED BY <1>2, <1>8, <3>1
  <2> QED BY <1>1, <1>3, <1>4, <2>1
<1> QED BY <1>2, <1>8, <1>9 DEF at, L

(* So the queue is what Queue says.                                        *)
LEMMA QueueIsRing ==
  ASSUME NEW s \in Sem, NEW Q, Ring(q[s], qnext, qprev, Q)
  PROVE  Queue(s) = Q
<1>1. Q \in Seq(Task)
  BY DEF Ring
<1>2. CASE Q = <<>>
  <2>1. QueueLength(s) = 0
    BY <1>2 DEF Ring, QueueLength
  <2>2. Queue(s) = [i \in 1 .. 0 |-> Nth(q[s], qnext, i - 1)]
    BY <2>1 DEF Queue
  <2>3. Queue(s) = <<>>
    BY <2>2
  <2> QED BY <1>2, <2>3
<1>3. CASE Q # <<>>
  <2> DEFINE at(k) == Nth(q[s], qnext, k)
             L == Len(Q)
             P(n) == /\ at(n) = q[s] \/ n = MaxPid
                     /\ \A k \in 1 .. n - 1 : at(k) # q[s]
  <2>1. /\ L \in 1 .. MaxPid - 1 /\ MaxPid \in Nat
        /\ \A k \in 0 .. L - 1 : at(k) = Q[k + 1]
        /\ at(L) = Q[1] /\ q[s] = Q[1] /\ q[s] # None
        /\ \A i, j \in 1 .. L : Q[i] = Q[j] => i = j
    BY <1>3, NthInRing, SchedAssumption DEF Ring
  <2> HIDE DEF at, L
  <2>2. \A k \in 1 .. L - 1 : at(k) # q[s]
    <3> TAKE k \in 1 .. L - 1
    <3>1. k \in 0 .. L - 1 /\ k + 1 \in 1 .. L /\ 1 \in 1 .. L /\ k + 1 # 1
      BY <2>1
    <3> QED BY <2>1, <3>1
  <2>3. L \in 1 .. MaxPid /\ P(L)
    BY <2>1, <2>2
  <2>4. ASSUME NEW n \in 1 .. MaxPid, P(n) PROVE n = L
    <3>1. CASE n < L
      <4>1. n \in 1 .. L - 1 /\ n # MaxPid
        BY <2>1, <3>1
      <4> QED BY <2>2, <2>4, <4>1
    <3>2. CASE n > L
      <4>1. L \in 1 .. n - 1
        BY <2>1, <3>2
      <4> QED BY <2>1, <2>4, <4>1
    <3> QED BY <2>1, <3>1, <3>2
  <2>5. QueueLength(s) = CHOOSE n \in 1 .. MaxPid : P(n)
    BY <2>1 DEF QueueLength, at
  <2>6. QueueLength(s) = L
    <3> HIDE DEF P
    <3> QED BY <2>3, <2>4, <2>5
  <2>7. Queue(s) = [i \in 1 .. L |-> at(i - 1)]
    BY <2>6 DEF Queue, at
  <2>8. \A i \in 1 .. L : at(i - 1) = Q[i]
    <3> TAKE i \in 1 .. L
    <3>1. i - 1 \in 0 .. L - 1 /\ (i - 1) + 1 = i
      BY <2>1
    <3> QED BY <2>1, <3>1
  <2>9. Q = [i \in 1 .. L |-> Q[i]]
    BY <1>1, LenProperties DEF L
  <2> QED BY <2>7, <2>8, <2>9
<1> QED BY <1>2, <1>3

(* A queue none of whose tasks had a link changed is the same queue.       *)
LEMMA RingElsewhere ==
  ASSUME NEW head, NEW next1, NEW prev1, NEW next2, NEW prev2, NEW Q, Ring(head, next1, prev1, Q),
         \A i \in 1 .. Len(Q) : next2[Q[i]] = next1[Q[i]] /\ prev2[Q[i]] = prev1[Q[i]]
  PROVE  Ring(head, next2, prev2, Q)
<1>1. Len(Q) \in Nat /\ (Q # <<>> => 1 \in 1 .. Len(Q) /\ Len(Q) \in 1 .. Len(Q))
  <2>1. Q \in Seq(Task)
    BY DEF Ring
  <2>2. Len(Q) \in Nat /\ (Len(Q) = 0 => Q = <<>>)
    BY <2>1, LenProperties, EmptySeq
  <2> QED BY <2>2
<1>2. ASSUME NEW i \in 1 .. Len(Q) - 1 PROVE i \in 1 .. Len(Q) /\ i + 1 \in 1 .. Len(Q)
  BY <1>1
<1> QED BY <1>1, <1>2 DEF Ring

(* The first task of a queue is a ring of its own.                         *)
LEMMA RingOfOne ==
  ASSUME NEW next1, NEW prev1, NEW c \in Task, None \notin Task, next1[c] = c, prev1[c] = c
  PROVE  Ring(c, next1, prev1, Append(<<>>, c))
<1> DEFINE R == Append(<<>>, c)
<1>1. R \in Seq(Task) /\ R # <<>> /\ Len(R) = 1 /\ R[1] = c
  OBVIOUS
<1> HIDE DEF R
<1>2. Ring(c, next1, prev1, R)
  BY <1>1 DEF Ring
<1> QED BY <1>2 DEF R

(* c is linked in between the last and the first of Q.                     *)
LinkedLast(c, next1, prev1, next2, prev2, Q) ==
  /\ \A i \in 1 .. Len(Q) : Q[i] # c
  /\ next2[Q[Len(Q)]] = c /\ next2[c] = Q[1] /\ prev2[Q[1]] = c /\ prev2[c] = Q[Len(Q)]
  /\ \A i \in 1 .. Len(Q) - 1 : next2[Q[i]] = next1[Q[i]] /\ prev2[Q[i + 1]] = prev1[Q[i + 1]]

(* A task linked in like that is the new last of the queue.                *)
LEMMA RingAppend ==
  ASSUME NEW head, NEW next1, NEW prev1, NEW next2, NEW prev2, NEW Q, Ring(head, next1, prev1, Q),
         Q # <<>>, NEW c \in Task, LinkedLast(c, next1, prev1, next2, prev2, Q)
  PROVE  Ring(head, next2, prev2, Append(Q, c))
<1> DEFINE L == Len(Q)
           R == Append(Q, c)
<1>1. /\ Q \in Seq(Task) /\ head # None /\ head = Q[1]
      /\ \A i \in 1 .. L - 1 : next1[Q[i]] = Q[i + 1] /\ prev1[Q[i + 1]] = Q[i]
      /\ \A i, j \in 1 .. L : Q[i] = Q[j] => i = j
  BY DEF Ring
<1>0. /\ \A i \in 1 .. L : Q[i] # c
      /\ next2[Q[L]] = c /\ next2[c] = head /\ prev2[head] = c /\ prev2[c] = Q[L]
      /\ \A i \in 1 .. L - 1 : next2[Q[i]] = next1[Q[i]] /\ prev2[Q[i + 1]] = prev1[Q[i + 1]]
  BY <1>1 DEF LinkedLast
<1>2. L \in Nat /\ L >= 1
  BY <1>1, LenProperties, EmptySeq
<1>3. /\ R \in Seq(Task) /\ R # <<>> /\ Len(R) = L + 1
      /\ \A i \in 1 .. L : R[i] = Q[i]
      /\ R[L + 1] = c
  BY <1>1, AppendProperties
<1> HIDE DEF L, R
<1>4. head = R[1] /\ next2[R[Len(R)]] = R[1] /\ prev2[R[1]] = R[Len(R)]
  BY <1>0, <1>1, <1>2, <1>3
<1>5. ASSUME NEW i \in 1 .. Len(R) - 1 PROVE next2[R[i]] = R[i + 1] /\ prev2[R[i + 1]] = R[i]
  <2>1. CASE i = L
    <3>1. i \in 1 .. L /\ R[i] = Q[L] /\ R[i + 1] = c
      BY <1>2, <1>3, <2>1
    <3> QED BY <1>0, <3>1
  <2>2. CASE i # L
    <3>1. i \in 1 .. L - 1 /\ i \in 1 .. L /\ i + 1 \in 1 .. L
      BY <1>2, <1>3, <2>2
    <3>2. R[i] = Q[i] /\ R[i + 1] = Q[i + 1]
      BY <1>3, <3>1
    <3>3. next2[Q[i]] = Q[i + 1] /\ prev2[Q[i + 1]] = Q[i]
      BY <1>0, <1>1, <3>1
    <3> QED BY <3>2, <3>3
  <2> QED BY <2>1, <2>2
<1>6. ASSUME NEW i \in 1 .. Len(R), NEW j \in 1 .. Len(R), R[i] = R[j] PROVE i = j
  <2>1. \A k \in 1 .. L : R[k] # c
    BY <1>0, <1>3
  <2>2. (i \in 1 .. L \/ i = L + 1) /\ (j \in 1 .. L \/ j = L + 1)
    BY <1>2, <1>3
  <2> QED BY <1>1, <1>3, <1>6, <2>1, <2>2
<1>7. Ring(head, next2, prev2, R)
  BY <1>1, <1>3, <1>4, <1>5, <1>6 DEF Ring
<1> QED BY <1>7 DEF R

(* The second and the last of Q are linked to each other.                  *)
UnlinkedFirst(next1, prev1, next2, prev2, Q) ==
  /\ next2[Q[Len(Q)]] = Q[2] /\ prev2[Q[2]] = Q[Len(Q)]
  /\ \A i \in 2 .. Len(Q) - 1 : next2[Q[i]] = next1[Q[i]] /\ prev2[Q[i + 1]] = prev1[Q[i + 1]]

(* With its first task taken out, the rest of a queue is the queue.        *)
LEMMA RingTail ==
  ASSUME NEW head, NEW next1, NEW prev1, NEW next2, NEW prev2, NEW Q, Ring(head, next1, prev1, Q),
         Len(Q) > 1, None \notin Task, UnlinkedFirst(next1, prev1, next2, prev2, Q)
  PROVE  Ring(Q[2], next2, prev2, Tail(Q))
<1> DEFINE L == Len(Q)
           R == Tail(Q)
<1>1. /\ Q \in Seq(Task)
      /\ \A i \in 1 .. L - 1 : next1[Q[i]] = Q[i + 1] /\ prev1[Q[i + 1]] = Q[i]
      /\ \A i, j \in 1 .. L : Q[i] = Q[j] => i = j
  BY DEF Ring
<1>2. L \in Nat /\ L > 1 /\ Q # <<>>
  BY <1>1, LenProperties, EmptySeq
<1>3. R \in Seq(Task) /\ Len(R) = L - 1 /\ \A i \in 1 .. L - 1 : R[i] = Q[i + 1]
  BY <1>1, <1>2, HeadTailProperties
<1>4. /\ next2[Q[L]] = Q[2] /\ prev2[Q[2]] = Q[L] /\ Q[2] \in Task
      /\ \A i \in 2 .. L - 1 : next2[Q[i]] = next1[Q[i]] /\ prev2[Q[i + 1]] = prev1[Q[i + 1]]
  BY <1>1, <1>2, ElementOfSeq DEF UnlinkedFirst
<1> HIDE DEF R
<1>5. R # <<>>
  BY <1>2, <1>3
<1>6. Q[2] = R[1] /\ next2[R[Len(R)]] = R[1] /\ prev2[R[1]] = R[Len(R)]
  <2>1. 1 \in 1 .. L - 1 /\ L - 1 \in 1 .. L - 1 /\ (L - 1) + 1 = L
    BY <1>2
  <2>2. R[1] = Q[2] /\ R[L - 1] = Q[L]
    BY <1>3, <2>1
  <2> QED BY <1>3, <1>4, <2>2
<1>7. ASSUME NEW i \in 1 .. Len(R) - 1 PROVE next2[R[i]] = R[i + 1] /\ prev2[R[i + 1]] = R[i]
  <2> DEFINE k == i + 1
  <2>1. i \in 1 .. L - 1 /\ k \in 1 .. L - 1 /\ k \in 2 .. L - 1
    BY <1>2, <1>3
  <2>2. R[i] = Q[k] /\ R[k] = Q[k + 1]
    BY <1>3, <2>1
  <2> HIDE DEF k
  <2>3. next2[Q[k]] = Q[k + 1] /\ prev2[Q[k + 1]] = Q[k]
    BY <1>1, <1>4, <2>1
  <2> QED BY <2>2, <2>3 DEF k
<1>8. ASSUME NEW i \in 1 .. Len(R), NEW j \in 1 .. Len(R), R[i] = R[j] PROVE i = j
  <2> DEFINE a == i + 1
             b == j + 1
  <2>1. R[i] = Q[a] /\ R[j] = Q[b] /\ a \in 1 .. L /\ b \in 1 .. L
    BY <1>2, <1>3
  <2> HIDE DEF a, b, L
  <2>2. Q[a] = Q[b]
    BY <1>8, <2>1
  <2>3. a = b
    BY <1>1, <2>1, <2>2
  <2> QED BY <2>3 DEF a, b
<1>9. Ring(Q[2], next2, prev2, R)
  BY <1>3, <1>4, <1>5, <1>6, <1>7, <1>8 DEF Ring
<1> QED BY <1>9 DEF R

(* W[s] is the wait queue of s; only blocked tasks wait, each in one queue. *)
Queued(W) ==
  /\ W \in [Sem -> Seq(Task)]
  /\ \A s \in Sem : Ring(q[s], qnext, qprev, W[s])
  /\ \A s \in Sem : \A i \in 1 .. Len(W[s]) : W[s][i] \in Blocked
  /\ \A s, t \in Sem : \A i \in 1 .. Len(W[s]), j \in 1 .. Len(W[t]) :
       W[s][i] = W[t][j] => s = t

(* The queues are sequences, and no unit is left while a task waits.       *)
QueuesOrdered ==
  /\ \E W : Queued(W)
  /\ \A s \in Sem : Value(s) > 0 => q[s] = None

(* The indices of the first and the last of a queue that is not empty.     *)
LEMMA Ends ==
  ASSUME NEW Q \in Seq(Task)
  PROVE  /\ Len(Q) \in Nat /\ (Q = <<>> <=> Len(Q) = 0)
         /\ Q # <<>> => 1 \in 1 .. Len(Q) /\ Len(Q) \in 1 .. Len(Q)
         /\ \A i \in 1 .. Len(Q) : Q[i] \in Task
<1>1. Len(Q) \in Nat /\ (Len(Q) = 0 => Q = <<>>) /\ (Q = <<>> => Len(Q) = 0)
  BY LenProperties, EmptySeq
<1> QED BY <1>1, ElementOfSeq

(* loader_enqueue appends the task to the queue.                           *)
LEMMA EnqueueOrders ==
  ASSUME LoaderTypes, NEW W, Queued(W), None \notin Task, Task \subseteq Pid,
         Blocked \subseteq Task, NEW c \in Task, c \notin Blocked, Blocked' = Blocked \cup {c},
         NEW s \in Sem, Linked(c, s)
  PROVE  Queued([W EXCEPT ![s] = Append(@, c)])'
<1> DEFINE V == [W EXCEPT ![s] = Append(@, c)]
           Q == W[s]
           L == Len(Q)
<1>1. /\ W \in [Sem -> Seq(Task)]
      /\ \A t \in Sem : Ring(q[t], qnext, qprev, W[t])
      /\ \A t \in Sem : \A i \in 1 .. Len(W[t]) : W[t][i] \in Blocked
      /\ \A t, u \in Sem : \A i \in 1 .. Len(W[t]), j \in 1 .. Len(W[u]) :
           W[t][i] = W[u][j] => t = u
  BY DEF Queued
<1>2. /\ Q \in Seq(Task) /\ L \in Nat /\ (Q = <<>> <=> L = 0)
      /\ Q # <<>> => 1 \in 1 .. L /\ L \in 1 .. L
      /\ \A i \in 1 .. L : Q[i] \in Blocked /\ Q[i] # c /\ Q[i] \in Pid
      /\ (q[s] = None <=> Q = <<>>)
      /\ Q # <<>> => q[s] = Q[1] /\ qprev[q[s]] = Q[L]
      /\ \A i, j \in 1 .. L : Q[i] = Q[j] => i = j
  <2>1. Q \in Seq(Task) /\ Ring(q[s], qnext, qprev, Q) /\ \A i \in 1 .. L : Q[i] \in Blocked
    BY <1>1
  <2>2. \A i \in 1 .. L : Q[i] # c /\ Q[i] \in Pid
    BY <2>1
  <2>3. /\ (q[s] = None <=> Q = <<>>)
        /\ Q # <<>> => q[s] = Q[1] /\ qprev[Q[1]] = Q[L]
        /\ \A i, j \in 1 .. L : Q[i] = Q[j] => i = j
    BY <2>1 DEF Ring
  <2> HIDE DEF Q
  <2>4. L \in Nat /\ (Q = <<>> <=> L = 0) /\ (Q # <<>> => 1 \in 1 .. L /\ L \in 1 .. L)
    BY <2>1, Ends
  <2> QED BY <2>1, <2>2, <2>3, <2>4
<1>3. /\ V \in [Sem -> Seq(Task)] /\ V[s] = Append(Q, c)
      /\ \A t \in Sem \ {s} : V[t] = W[t]
  <2>1. Append(Q, c) \in Seq(Task)
    BY <1>2, AppendProperties
  <2> QED BY <1>1, <2>1
<1>4. qnext \in [Pid -> Pid \cup {None}] /\ qprev \in [Pid -> Pid \cup {None}]
      /\ q \in [Sem -> Task \cup {None}] /\ c \in Pid
  BY DEF LoaderTypes
<1> HIDE DEF V, Q, L
<1>5. /\ \A t \in Sem \ {s} : q'[t] = q[t]
      /\ \A t \in Sem \ {s} : \A i \in 1 .. Len(W[t]) :
           qnext'[W[t][i]] = qnext[W[t][i]] /\ qprev'[W[t][i]] = qprev[W[t][i]]
  <2>1. ASSUME NEW t \in Sem \ {s}, NEW i \in 1 .. Len(W[t])
        PROVE  qnext'[W[t][i]] = qnext[W[t][i]] /\ qprev'[W[t][i]] = qprev[W[t][i]]
    <3> DEFINE p == W[t][i]
    <3>1. p \in Blocked /\ p # c /\ p \in Pid
      BY <1>1
    <3>2. \A j \in 1 .. L : p # Q[j]
      BY <1>1 DEF Q, L
    <3> HIDE DEF p
    <3>3. q[s] # None => p # q[s] /\ p # qprev[q[s]]
      BY <1>2, <3>2
    <3>4. qnext'[p] = qnext[p] /\ qprev'[p] = qprev[p]
      BY <1>4, <3>1, <3>3 DEF Linked
    <3> QED BY <3>4 DEF p
  <2>2. \A t \in Sem \ {s} : q'[t] = q[t]
    BY <1>4 DEF Linked
  <2> QED BY <2>1, <2>2
<1>6. ASSUME NEW t \in Sem \ {s} PROVE Ring(q'[t], qnext', qprev', V[t])
  <2>1. Ring(q[t], qnext', qprev', W[t])
    BY <1>1, <1>5, RingElsewhere
  <2> QED BY <1>3, <1>5, <2>1
<1>7. Ring(q'[s], qnext', qprev', V[s])
  <2>1. CASE q[s] = None
    <3>1. Q = <<>> /\ q'[s] = c /\ qnext'[c] = c /\ qprev'[c] = c
      BY <1>2, <1>4, <2>1 DEF Linked
    <3>2. Ring(c, qnext', qprev', Append(<<>>, c))
      BY <3>1, RingOfOne
    <3> QED BY <1>3, <3>1, <3>2
  <2>2. CASE q[s] # None
    <3>1. /\ Q # <<>> /\ q[s] = Q[1] /\ qprev[q[s]] = Q[L] /\ Q[1] \in Pid /\ Q[L] \in Pid
          /\ Q[1] # c /\ Q[L] # c /\ 1 \in 1 .. L /\ L \in 1 .. L
      BY <1>2, <2>2
    <3>2. /\ qnext' = [qnext EXCEPT ![Q[L]] = c, ![c] = Q[1]]
          /\ qprev' = [qprev EXCEPT ![Q[1]] = c, ![c] = Q[L]]
          /\ q'[s] = q[s]
      BY <2>2, <3>1 DEF Linked
    <3>3. qnext'[Q[L]] = c /\ qnext'[c] = q[s] /\ qprev'[q[s]] = c /\ qprev'[c] = Q[L]
      BY <1>4, <3>1, <3>2
    <3>4. ASSUME NEW i \in 1 .. L - 1
          PROVE  qnext'[Q[i]] = qnext[Q[i]] /\ qprev'[Q[i + 1]] = qprev[Q[i + 1]]
      <4>1. i \in 1 .. L /\ i + 1 \in 1 .. L /\ i # L /\ i + 1 # 1
        BY <1>2
      <4>2. Q[i] # Q[L] /\ Q[i + 1] # Q[1] /\ Q[i] # c /\ Q[i + 1] # c
            /\ Q[i] \in Pid /\ Q[i + 1] \in Pid
        BY <1>2, <3>1, <4>1
      <4> QED BY <1>4, <3>2, <4>2
    <3>5. LinkedLast(c, qnext, qprev, qnext', qprev', Q)
      BY <1>2, <3>1, <3>3, <3>4 DEF LinkedLast, L
    <3>6. Ring(q[s], qnext', qprev', Append(Q, c))
      <4>1. Ring(q[s], qnext, qprev, Q)
        BY <1>1 DEF Q
      <4> QED BY <3>1, <3>5, <4>1, RingAppend
    <3> QED BY <1>3, <3>2, <3>6
  <2> QED BY <2>1, <2>2
<1>8. \A t \in Sem : \A i \in 1 .. Len(V[t]) :
        \/ i \in 1 .. Len(W[t]) /\ V[t][i] = W[t][i]
        \/ t = s /\ V[t][i] = c
  <2>1. ASSUME NEW i \in 1 .. Len(V[s])
        PROVE  (i \in 1 .. Len(W[s]) /\ V[s][i] = W[s][i]) \/ V[s][i] = c
    <3>1. /\ Len(Append(Q, c)) = L + 1 /\ Append(Q, c)[L + 1] = c
          /\ \A k \in 1 .. L : Append(Q, c)[k] = Q[k]
      BY <1>2, AppendProperties DEF L
    <3>2. i \in 1 .. L + 1 /\ (i \in 1 .. L \/ i = L + 1)
      BY <1>2, <1>3, <3>1
    <3> QED BY <1>3, <3>1, <3>2 DEF Q, L
  <2> QED BY <1>3, <2>1
<1>9. \A t \in Sem : \A i \in 1 .. Len(V[t]) : V[t][i] \in Blocked'
  BY <1>1, <1>8
<1>10. ASSUME NEW t \in Sem, NEW u \in Sem,
              NEW i \in 1 .. Len(V[t]), NEW j \in 1 .. Len(V[u]), V[t][i] = V[u][j]
       PROVE  t = u
  <2>1. \A v \in Sem : \A k \in 1 .. Len(W[v]) : W[v][k] # c
    BY <1>1
  <2> QED BY <1>1, <1>8, <1>10, <2>1
<1>11. Queued(V)'
  BY <1>3, <1>6, <1>7, <1>9, <1>10 DEF Queued
<1> QED BY <1>11 DEF V, Q

(* loader_unqueue takes the first task out of the queue.                   *)
LEMMA DequeueOrders ==
  ASSUME LoaderTypes, NEW W, Queued(W), None \notin Task, Task \subseteq Pid,
         Blocked \subseteq Task, NEW s \in Sem, q[s] # None,
         Blocked' = Blocked \ {q[s]}, Unlinked(s)
  PROVE  /\ Queued([W EXCEPT ![s] = Tail(@)])'
         /\ W[s] # <<>> /\ Head(W[s]) = q[s]
<1> DEFINE V == [W EXCEPT ![s] = Tail(@)]
           Q == W[s]
           L == Len(Q)
           h == q[s]
<1>1. /\ W \in [Sem -> Seq(Task)]
      /\ \A t \in Sem : Ring(q[t], qnext, qprev, W[t])
      /\ \A t \in Sem : \A i \in 1 .. Len(W[t]) : W[t][i] \in Blocked
      /\ \A t, u \in Sem : \A i \in 1 .. Len(W[t]), j \in 1 .. Len(W[u]) :
           W[t][i] = W[u][j] => t = u
  BY DEF Queued
<1>2. /\ Q \in Seq(Task) /\ Q # <<>> /\ L \in Nat /\ L >= 1
      /\ 1 \in 1 .. L /\ L \in 1 .. L
      /\ \A i \in 1 .. L : Q[i] \in Blocked /\ Q[i] \in Pid
      /\ h = Q[1] /\ qnext[Q[L]] = Q[1] /\ qprev[Q[1]] = Q[L]
      /\ \A i \in 1 .. L - 1 : qnext[Q[i]] = Q[i + 1] /\ qprev[Q[i + 1]] = Q[i]
      /\ \A i, j \in 1 .. L : Q[i] = Q[j] => i = j
  <2>1. Q \in Seq(Task) /\ Ring(q[s], qnext, qprev, Q) /\ \A i \in 1 .. L : Q[i] \in Blocked
    BY <1>1
  <2>2. \A i \in 1 .. L : Q[i] \in Pid
    BY <2>1
  <2>3. /\ Q # <<>> /\ q[s] = Q[1] /\ qnext[Q[L]] = Q[1] /\ qprev[Q[1]] = Q[L]
        /\ \A i \in 1 .. L - 1 : qnext[Q[i]] = Q[i + 1] /\ qprev[Q[i + 1]] = Q[i]
        /\ \A i, j \in 1 .. L : Q[i] = Q[j] => i = j
    BY <2>1 DEF Ring
  <2> HIDE DEF Q
  <2>4. L \in Nat /\ L >= 1 /\ 1 \in 1 .. L /\ L \in 1 .. L
    BY <2>1, <2>3, Ends
  <2> QED BY <2>1, <2>2, <2>3, <2>4
<1>3. /\ V \in [Sem -> Seq(Task)] /\ V[s] = Tail(Q)
      /\ \A t \in Sem \ {s} : V[t] = W[t]
  <2>1. Tail(Q) \in Seq(Task)
    BY <1>2, HeadTailProperties
  <2> QED BY <1>1, <2>1
<1>4. /\ qnext \in [Pid -> Pid \cup {None}] /\ qprev \in [Pid -> Pid \cup {None}]
      /\ q \in [Sem -> Task \cup {None}]
  BY DEF LoaderTypes
<1>5. /\ qnext' = [qnext EXCEPT ![qprev[h]] = qnext[h], ![h] = None]
      /\ qprev' = [qprev EXCEPT ![qnext[h]] = qprev[h], ![h] = None]
      /\ q' = [q EXCEPT ![s] = IF qnext[h] = h THEN None ELSE qnext[h]]
  BY DEF Unlinked
<1>6. Len(Tail(Q)) = L - 1 /\ \A i \in 1 .. L - 1 : Tail(Q)[i] = Q[i + 1]
  BY <1>2, HeadTailProperties
<1>7. Head(Q) = h
  BY <1>2
<1> HIDE DEF V, Q, L, h
<1>8. qnext[h] \in Pid /\ qprev[h] = Q[L] /\ \E i \in 1 .. L : qnext[h] = Q[i]
  <2>1. CASE L = 1
    BY <1>2, <2>1
  <2>2. CASE L # 1
    <3>1. 1 \in 1 .. L - 1 /\ 2 \in 1 .. L
      BY <1>2, <2>2
    <3> QED BY <1>2, <3>1
  <2> QED BY <1>2, <2>1, <2>2
<1>9. /\ \A t \in Sem \ {s} : q'[t] = q[t]
      /\ \A t \in Sem \ {s} : \A i \in 1 .. Len(W[t]) :
           /\ W[t][i] # h
           /\ qnext'[W[t][i]] = qnext[W[t][i]] /\ qprev'[W[t][i]] = qprev[W[t][i]]
  <2>1. ASSUME NEW t \in Sem \ {s}, NEW i \in 1 .. Len(W[t])
        PROVE  /\ W[t][i] # h
               /\ qnext'[W[t][i]] = qnext[W[t][i]] /\ qprev'[W[t][i]] = qprev[W[t][i]]
    <3> DEFINE p == W[t][i]
    <3>1. p \in Pid
      BY <1>1
    <3>2. \A j \in 1 .. L : p # Q[j]
      BY <1>1 DEF Q, L
    <3> HIDE DEF p
    <3>3. p # h /\ p # qprev[h] /\ p # qnext[h]
      BY <1>2, <1>8, <3>2
    <3>4. qnext'[p] = qnext[p] /\ qprev'[p] = qprev[p]
      BY <1>4, <1>5, <3>1, <3>3
    <3> QED BY <3>3, <3>4 DEF p
  <2>2. \A t \in Sem \ {s} : q'[t] = q[t]
    BY <1>4, <1>5
  <2> QED BY <2>1, <2>2
<1>10. ASSUME NEW t \in Sem \ {s} PROVE Ring(q'[t], qnext', qprev', V[t])
  <2>1. Ring(q[t], qnext', qprev', W[t])
    BY <1>1, <1>9, RingElsewhere
  <2> QED BY <1>3, <1>9, <2>1
<1>11. Ring(q'[s], qnext', qprev', V[s])
  <2>1. CASE L = 1
    <3>1. qnext[h] = h
      BY <1>2, <2>1
    <3>2. q'[s] = None
      BY <1>4, <1>5, <3>1
    <3>3. V[s] = <<>>
      <4>1. V[s] \in Seq(Task)
        BY <1>3
      <4>2. Len(V[s]) = L - 1 /\ L - 1 = 0
        BY <1>3, <1>6, <2>1
      <4> QED BY <4>1, <4>2, Ends
    <3>4. Ring(None, qnext', qprev', <<>>)
      BY DEF Ring
    <3> QED BY <3>2, <3>3, <3>4
  <2>2. CASE L # 1
    <3>1. L > 1 /\ 1 \in 1 .. L - 1 /\ 2 \in 1 .. L
      BY <1>2, <2>2
    <3>2. qnext[h] = Q[2] /\ Q[2] # h /\ Q[L] # h /\ Q[2] \in Pid /\ Q[L] \in Pid /\ h \in Pid
      BY <1>2, <2>2, <3>1
    <3>3. q'[s] = Q[2] /\ qnext'[Q[L]] = Q[2] /\ qprev'[Q[2]] = Q[L]
      BY <1>4, <1>5, <1>8, <3>2
    <3>4. ASSUME NEW i \in 2 .. L - 1
          PROVE  qnext'[Q[i]] = qnext[Q[i]] /\ qprev'[Q[i + 1]] = qprev[Q[i + 1]]
      <4>1. i \in 1 .. L /\ i + 1 \in 1 .. L /\ i # L /\ i # 1 /\ i + 1 # 1 /\ i + 1 # 2
        BY <1>2
      <4>2. /\ Q[i] # Q[L] /\ Q[i] # h /\ Q[i] \in Pid
            /\ Q[i + 1] # Q[2] /\ Q[i + 1] # h /\ Q[i + 1] \in Pid
        BY <1>2, <3>1, <4>1
      <4> QED BY <1>4, <1>5, <1>8, <3>2, <4>2
    <3>5. UnlinkedFirst(qnext, qprev, qnext', qprev', Q)
      BY <3>3, <3>4 DEF UnlinkedFirst, L
    <3>6. Ring(Q[2], qnext', qprev', Tail(Q))
      <4>1. Ring(q[s], qnext, qprev, Q) /\ Len(Q) > 1
        BY <1>1, <3>1 DEF Q, L
      <4> QED BY <3>5, <4>1, RingTail
    <3> QED BY <1>3, <3>3, <3>6
  <2> QED BY <2>1, <2>2
<1>12. \A i \in 1 .. Len(V[s]) : i + 1 \in 1 .. Len(W[s]) /\ V[s][i] = W[s][i + 1] /\ V[s][i] # h
  <2>1. ASSUME NEW i \in 1 .. Len(V[s])
        PROVE  i + 1 \in 1 .. L /\ V[s][i] = Q[i + 1] /\ V[s][i] # h
    <3>1. i \in 1 .. L - 1 /\ i + 1 \in 1 .. L /\ i + 1 # 1
      BY <1>2, <1>3, <1>6
    <3>2. V[s][i] = Q[i + 1]
      BY <1>3, <1>6, <3>1
    <3> QED BY <1>2, <3>1, <3>2
  <2> QED BY <2>1 DEF Q, L
<1>13. \A t \in Sem : \A i \in 1 .. Len(V[t]) :
         /\ V[t][i] # h
         /\ \E k \in 1 .. Len(W[t]) : V[t][i] = W[t][k]
  <2> TAKE t \in Sem
  <2> TAKE i \in 1 .. Len(V[t])
  <2>1. CASE t = s
    <3>1. i \in 1 .. Len(V[s])
      BY <2>1
    <3>2. i + 1 \in 1 .. Len(W[s]) /\ V[s][i] = W[s][i + 1] /\ V[s][i] # h
      BY <1>12, <3>1
    <3>3. \E k \in 1 .. Len(W[s]) : V[s][i] = W[s][k]
      BY <3>2
    <3> QED BY <2>1, <3>2, <3>3
  <2>2. CASE t # s
    BY <1>3, <1>9, <2>2
  <2> QED BY <2>1, <2>2
<1>14. \A t \in Sem : \A i \in 1 .. Len(V[t]) : V[t][i] \in Blocked'
  <2>1. \A p \in Blocked : p # h => p \in Blocked'
    BY DEF h
  <2> HIDE DEF V, h
  <2> TAKE t \in Sem
  <2> TAKE i \in 1 .. Len(V[t])
  <2>2. V[t][i] # h /\ \E k \in 1 .. Len(W[t]) : V[t][i] = W[t][k]
    BY <1>13
  <2>3. V[t][i] \in Blocked
    BY <1>1, <2>2
  <2> QED BY <2>1, <2>2, <2>3
<1>15. ASSUME NEW t \in Sem, NEW u \in Sem,
              NEW i \in 1 .. Len(V[t]), NEW j \in 1 .. Len(V[u]), V[t][i] = V[u][j]
       PROVE  t = u
  BY <1>1, <1>13, <1>15
<1>16. Queued(V)'
  BY <1>3, <1>10, <1>11, <1>14, <1>15 DEF Queued
<1> QED BY <1>2, <1>7, <1>16 DEF V, Q, h

(* The queues of Queue, for all semaphores at once.                        *)
Waits == [s \in Sem |-> Queue(s)]

(* They are the sequences that the rings of links spell out.               *)
LEMMA WaitsAre == \A W : Queued(W) => Waits = W
<1> SUFFICES ASSUME NEW W, Queued(W) PROVE Waits = W
  OBVIOUS
<1>1. W \in [Sem -> Seq(Task)] /\ \A s \in Sem : Ring(q[s], qnext, qprev, W[s])
  BY DEF Queued
<1>2. \A s \in Sem : Queue(s) = W[s]
  BY <1>1, QueueIsRing
<1> QED BY <1>1, <1>2 DEF Waits

(* The same after a step.                                                  *)
LEMMA WaitsAreNext == \A W : Queued(W)' => Waits' = W
<1>1. (\A W : Queued(W) => Waits = W)'
  BY WaitsAre, PTL
<1> QED BY <1>1

(* Who is not blocked waits nowhere, and an empty queue has no head.       *)
LEMMA WaitsFacts ==
  ASSUME NEW W, Queued(W)
  PROVE  /\ Abstract!Blocked \subseteq Blocked
         /\ \A s \in Sem : Waits[s] = W[s] /\ (q[s] = None <=> Waits[s] = <<>>)
<1>1. Waits = W /\ W \in [Sem -> Seq(Task)]
  BY WaitsAre DEF Queued
<1>2. Abstract!Blocked = {p \in Task : \E s \in Sem : \E i \in DOMAIN Waits[s] : Waits[s][i] = p}
  BY DEF Abstract!Blocked, Waits
<1>3. \A s \in Sem : W[s] \in Seq(Task) /\ DOMAIN W[s] = 1 .. Len(W[s])
  BY <1>1, LenProperties
<1>4. \A s \in Sem : q[s] = None <=> W[s] = <<>>
  BY DEF Queued, Ring
<1>5. \A s \in Sem : \A i \in 1 .. Len(W[s]) : W[s][i] \in Blocked
  BY DEF Queued
<1> QED BY <1>1, <1>2, <1>3, <1>4, <1>5

(* Steps that leave the links and the blocked tasks alone keep the queues. *)
LEMMA StillQueued ==
  ASSUME NEW W, Queued(W), Blocked' = Blocked, UNCHANGED <<q, qnext, qprev>>
  PROVE  Queued(W)' /\ Waits' = Waits
<1>1. Queued(W)'
  BY DEF Queued
<1> QED BY <1>1, WaitsAre, WaitsAreNext

(* The values the semaphores have, for all of them at once, are vl outside *)
(* the boot code's wait.                                                   *)
Values == [s \in Sem |-> Value(s)]

(* While the boot code may be waiting nobody sleeps.                       *)
LEMMA BootAloneWaits ==
  ASSUME KernelInv, boot = "init"
  PROVE  \A s \in Sem : q[s] = None
<1>1. Blocked = {}
  BY RingFacts DEF KernelInv, BootInv, NoneLoaded, NeverLoaded, SleepersUnlinked, Blocked
<1> QED BY <1>1, LinksOfQueues DEF KernelInv

(* Nothing of boot's wait is left once it is over.                         *)
LEMMA ValuesOutside ==
  ASSUME KernelInv, boot # "init"
  PROVE  Values = vl
<1>1. \A s \in Sem : Value(s) = vl[s]
  BY DEF KernelInv, BootInv, Value
<1>2. vl = [s \in Sem |-> vl[s]]
  BY DEF KernelInv, LoaderTypes
<1> QED BY <1>1, <1>2 DEF Values

(* The same after a step.                                                  *)
LEMMA ValuesOutsideNext ==
  ASSUME KernelInv', boot' # "init"
  PROVE  Values' = vl'
<1>1. \A s \in Sem : Value(s)' = vl'[s]
  BY DEF KernelInv, BootInv, Value
<1>2. vl' = [s \in Sem |-> vl'[s]]
  BY DEF KernelInv, LoaderTypes
<1> QED BY <1>1, <1>2 DEF Values

(* The initial states are initial states of the semaphores.                *)
LEMMA InitOrdered == Init => QueuesOrdered /\ Abstract!Init
<1> SUFFICES ASSUME Init PROVE QueuesOrdered /\ Abstract!Init
  OBVIOUS
<1>1. /\ \A s \in Sem : q[s] = None
      /\ vl \in [Sem -> {0, 1}] /\ Ready = {} /\ \A s \in Sem : Value(s) = vl[s]
  BY DEF Init, SEM_NEW, sched_init, Ready, Idle, Task, Pid, Value
<1> DEFINE W == [s \in Sem |-> <<>>]
<1>2. W \in [Sem -> Seq(Task)] /\ \A s \in Sem : W[s] = <<>>
  OBVIOUS
<1>3. Len(<<>>) = 0
  OBVIOUS
<1>4. \A s \in Sem : Ring(q[s], qnext, qprev, W[s])
  BY <1>1, <1>2, <1>3 DEF Ring
<1> HIDE DEF W
<1>5. Queued(W)
  BY <1>2, <1>3, <1>4 DEF Queued
<1>6. Waits = [s \in Sem |-> <<>>]
  BY <1>5, WaitsAre DEF W
<1>7. QueuesOrdered
  BY <1>1, <1>5 DEF QueuesOrdered
<1>8. Abstract!Init
  <2>1. [s \in Sem |-> Value(s)] \in [Sem -> {0, 1}]
    BY <1>1
  <2> QED BY <1>1, <1>6, <2>1 DEF Abstract!Init, Waits
<1> QED BY <1>7, <1>8

(* A load starts a task.                                                   *)
LEMMA NewTaskStarts ==
  ASSUME KernelInv, QueuesOrdered, NewTask, current_pid # Idle \/ NoneLoaded,
         UNCHANGED <<vl, q, taken>>
  PROVE  QueuesOrdered' /\ Abstract!Next
<1>1. PICK W : Queued(W)
  BY DEF QueuesOrdered
<1> DEFINE pd == next_free
<1>2. pd # None /\ sched_load(pd) /\ UNCHANGED <<qnext, qprev>>
  BY DEF NewTask, NewPid, get_new_pid
<1>3. pd \in Free /\ Blocked' = Blocked
  BY <1>2 DEF KernelInv, PidsAccounted, FreeList, Blocked
<1>4. /\ Ready' = Ready \cup {pd} /\ pd \in Task
      /\ pd \notin Ready /\ pd \notin Blocked
  <2> HIDE DEF pd
  <2> QED BY <1>2, <1>3, LoadMoves DEF KernelInv
<1> HIDE DEF pd
<1>5. Queued(W)' /\ Waits' = Waits
  BY <1>1, <1>2, <1>3, StillQueued
<1>6. pd \notin Abstract!Blocked
  BY <1>1, <1>4, WaitsFacts
<1>7. Values' = Values
  BY DEF Values, Value
<1>8. Abstract!Start(pd)
  BY <1>4, <1>5, <1>6, <1>7 DEF Abstract!Start, Waits, Values
<1>9. Abstract!Next
  BY <1>4, <1>8 DEF Abstract!Next
<1>10. QueuesOrdered'
  BY <1>5 DEF QueuesOrdered, Value
<1> QED BY <1>9, <1>10

(* sys_exit ends a task.                                                   *)
LEMMA ExitEnds ==
  ASSUME KernelInv, QueuesOrdered, loader_exit
  PROVE  QueuesOrdered' /\ Abstract!Next
<1>1. PICK W : Queued(W)
  BY DEF QueuesOrdered
<1>2. cur_pid # Idle /\ sched_exit /\ UNCHANGED <<qnext, qprev, vl, q, taken>>
  BY DEF loader_exit, bootVars
<1>3. current_pid = cur_pid /\ current_pid # Idle /\ cur_pid \in Ready /\ cur_pid \in Task
  BY <1>2, RunningTask
<1>4. Exit /\ Blocked' = Blocked
  BY <1>2, <1>3 DEF Exit, Blocked
<1>5. Ready' = Ready \ {cur_pid}
  BY <1>3, <1>4, ExitMoves DEF KernelInv
<1>6. Queued(W)' /\ Waits' = Waits
  BY <1>1, <1>2, <1>4, StillQueued
<1>7. Values' = Values
  BY <1>2 DEF Values, Value
<1>8. Abstract!End(cur_pid)
  BY <1>3, <1>5, <1>6, <1>7 DEF Abstract!End, Waits, Values
<1>9. Abstract!Next
  BY <1>3, <1>8 DEF Abstract!Next
<1>10. QueuesOrdered'
  BY <1>2, <1>6 DEF QueuesOrdered, Value
<1> QED BY <1>9, <1>10

(* Steps that touch neither ring, nor links, nor values change nothing.    *)
LEMMA UntouchedStutters ==
  ASSUME QueuesOrdered, UNCHANGED <<next, q, qnext, qprev>>, \A s \in Sem : Value(s)' = Value(s)
  PROVE  QueuesOrdered' /\ UNCHANGED Abstract!vars
<1>1. PICK W : Queued(W)
  BY DEF QueuesOrdered
<1>2. Ready' = Ready /\ Blocked' = Blocked
  BY DEF Ready, Blocked
<1>3. Queued(W)' /\ Waits' = Waits
  BY <1>1, <1>2, StillQueued
<1>4. QueuesOrdered'
  BY <1>3 DEF QueuesOrdered
<1>5. Values' = Values
  BY DEF Values
<1>6. UNCHANGED Abstract!vars
  BY <1>2, <1>3, <1>5 DEF Abstract!vars, Waits, Values
<1> QED BY <1>4, <1>6

(* sem_wait takes a unit, or appends its caller to the queue.              *)
LEMMA WaitAcquires ==
  ASSUME KernelInv, QueuesOrdered, NEW s \in Sem, sem_wait(s)
  PROVE  QueuesOrdered' /\ Abstract!Next
<1>1. PICK W : Queued(W)
  BY DEF QueuesOrdered
<1>2. vl \in [Sem -> 0 .. MaxVl] /\ MaxVl \in Nat /\ LoaderTypes
  BY KernelAssumption DEF KernelInv, LoaderTypes
<1>0. /\ KernelInv' /\ boot # "init" /\ boot' = boot
      /\ Values = vl /\ Values' = vl'
      /\ \A t \in Sem : Value(t) = vl[t] /\ Value(t)' = vl'[t]
  <2>1. KernelInv' /\ boot # "init" /\ UNCHANGED bootVars
    BY WaitKeeps, RunningTask DEF sem_wait
  <2>2. boot' = boot /\ taken' = taken /\ \A t \in Sem : taken[t] = 0
    BY <2>1 DEF bootVars, KernelInv, BootInv
  <2> QED BY <2>1, <2>2, ValuesOutside, ValuesOutsideNext DEF Value
<1>3. CASE vl[s] > 0
  <2>1. /\ vl' = [vl EXCEPT ![s] = @ - 1]
        /\ UNCHANGED <<schedVars, loaderVars, q>>
    BY <1>3 DEF sem_wait
  <2>2. UNCHANGED <<state, next, qnext, qprev>>
    BY <2>1 DEF schedVars, loaderVars
  <2>3. Ready' = Ready /\ Blocked' = Blocked
    BY <2>2 DEF Ready, Blocked
  <2>4. Queued(W)' /\ Waits' = Waits
    BY <1>1, <2>1, <2>2, <2>3, StillQueued
  <2>5. Values[s] > 0 /\ Values' = [Values EXCEPT ![s] = @ - 1]
    BY <1>0, <1>3, <2>1
  <2>6. Abstract!Acquire(s)
    BY <2>3, <2>4, <2>5 DEF Abstract!Acquire, Waits, Values
  <2>7. \A t \in Sem : Value(t)' > 0 => q'[t] = None
    <3>1. \A t \in Sem : vl'[t] > 0 => vl[t] > 0
      BY <1>2, <1>3, <2>1
    <3> QED BY <1>0, <2>1, <3>1 DEF QueuesOrdered
  <2> QED BY <2>4, <2>6, <2>7 DEF QueuesOrdered, Abstract!Next
<1>4. CASE ~(vl[s] > 0)
  <2>0. PICK c : c = cur_pid
    OBVIOUS
  <2> DEFINE V == [W EXCEPT ![s] = Append(@, c)]
  <2>1. vl[s] = 0 /\ c # Idle /\ loader_enqueue(s) /\ UNCHANGED vl
    BY <1>4, <1>2, <2>0 DEF sem_wait
  <2>2. Linked(c, s) /\ sched_block
    BY <2>0, <2>1 DEF loader_enqueue, Linked
  <2>3. /\ current_pid = c /\ current_pid # Idle /\ c \in Ready /\ c \in Task /\ c \notin Blocked
    BY <2>0, <2>1, RunningTask
  <2>4. /\ None \notin Task /\ Blocked \subseteq Task /\ Task \subseteq Pid
        /\ Block /\ Blocked' = Blocked \cup {c}
    <3>1. None \notin Task /\ Blocked \subseteq Task /\ Task \subseteq Pid
      BY SetsOfTasks DEF KernelInv
    <3> QED BY <1>2, <2>2, <2>3, <3>1, LinkedBlocks DEF Block, KernelInv
  <2>5. Ready' = Ready \ {c}
    BY <2>3, <2>4, BlockMoves DEF KernelInv
  <2>6. Queued(V)'
    BY <1>1, <1>2, <2>2, <2>3, <2>4, EnqueueOrders
  <2>7. Waits = W /\ Waits' = [Waits EXCEPT ![s] = Append(@, c)]
    <3>1. Waits = W
      BY <1>1, WaitsAre
    <3>2. Waits' = V
      <4> HIDE DEF V
      <4> QED BY <2>6, WaitsAreNext
    <3> QED BY <3>1, <3>2
  <2>8. Abstract!Enqueue(c, s)
    <3>1. Values[s] = 0 /\ Values' = Values
      BY <1>0, <2>1
    <3> QED BY <2>3, <2>5, <2>7, <3>1 DEF Abstract!Enqueue, Waits, Values
  <2>9. \A t \in Sem : Value(t)' > 0 => q'[t] = None
    <3>1. \A t \in Sem : vl[t] > 0 => t # s /\ q[t] = None
      BY <1>0, <2>1 DEF QueuesOrdered
    <3>2. \A t \in Sem \ {s} : q'[t] = q[t]
      BY <1>2, <2>2 DEF Linked, LoaderTypes
    <3> QED BY <1>0, <2>1, <3>1, <3>2
  <2>10. QueuesOrdered'
    <3> HIDE DEF V
    <3> QED BY <2>6, <2>9 DEF QueuesOrdered
  <2> QED BY <2>3, <2>8, <2>10 DEF Abstract!Next
<1> QED BY <1>3, <1>4

(* sem_signal hands its unit to the first that waits,                      *)
LEMMA SignalHandsOver ==
  ASSUME KernelInv, QueuesOrdered, NEW s \in Sem, sem_signal(s), vl[s] = 0 /\ q[s] # None
  PROVE  QueuesOrdered' /\ Abstract!Next
<1>1. PICK W : Queued(W)
  BY DEF QueuesOrdered
<1>2. LoaderTypes
  BY DEF KernelInv
<1>3. /\ loader_unqueue(s) /\ UNCHANGED <<vl, taken>>
      /\ \A t \in Sem : Value(t) = vl[t] /\ Value(t)' = vl'[t]
  <2>1. loader_unqueue(s) /\ UNCHANGED vl /\ UNCHANGED bootVars
    BY DEF sem_signal
  <2>2. boot # "init"
    BY BootAloneWaits
  <2>3. boot' = boot /\ taken' = taken /\ \A t \in Sem : taken[t] = 0
    BY <2>1, <2>2 DEF bootVars, KernelInv, BootInv
  <2> QED BY <2>1, <2>3 DEF Value
<1> DEFINE h == q[s]
           V == [W EXCEPT ![s] = Tail(@)]
<1>4. Unlinked(s) /\ sched_unblock(h)
  BY <1>3 DEF loader_unqueue, Unlinked
<1>5. /\ None \notin Task /\ Blocked \subseteq Task /\ Task \subseteq Pid
      /\ h \in Blocked /\ Blocked' = Blocked \ {h}
  <2>1. None \notin Task /\ Blocked \subseteq Task /\ Task \subseteq Pid
    BY SetsOfTasks DEF KernelInv
  <2> QED BY <1>4, <2>1, UnlinkedUnblocks DEF KernelInv
<1>6. Ready' = Ready \cup {h}
  <2> HIDE DEF h
  <2> QED BY <1>4, <1>5, UnblockMoves DEF KernelInv
<1>7. Queued(V)' /\ W[s] # <<>> /\ Head(W[s]) = h
  BY <1>1, <1>2, <1>4, <1>5, DequeueOrders
<1>8. Waits = W /\ Waits' = [Waits EXCEPT ![s] = Tail(@)]
  <2>1. Waits = W
    BY <1>1, WaitsAre
  <2>2. Waits' = V
    <3> HIDE DEF V
    <3> QED BY <1>7, WaitsAreNext
  <2> QED BY <2>1, <2>2
<1>9. Abstract!HandOver(s)
  <2>1. Waits[s] # <<>> /\ Head(Waits[s]) = h
    BY <1>7, <1>8
  <2>2. Values' = Values
    BY <1>3 DEF Values, Value
  <2> QED BY <1>6, <1>8, <2>1, <2>2 DEF Abstract!HandOver, Waits, Values
<1>10. \A t \in Sem : Value(t)' > 0 => q'[t] = None
  <2>1. \A t \in Sem : Value(t)' > 0 => t # s /\ q[t] = None
    BY <1>3 DEF QueuesOrdered
  <2>2. \A t \in Sem \ {s} : q'[t] = q[t]
    BY <1>2, <1>4 DEF Unlinked, LoaderTypes
  <2> QED BY <2>1, <2>2
<1>11. QueuesOrdered'
  <2> HIDE DEF V
  <2> QED BY <1>7, <1>10 DEF QueuesOrdered
<1> QED BY <1>9, <1>11 DEF Abstract!Next

(* or adds it; one that boot's s->vl-- will overwrite is none.             *)
LEMMA SignalReleases ==
  ASSUME KernelInv, QueuesOrdered, NEW s \in Sem, sem_signal(s), ~(vl[s] = 0 /\ q[s] # None)
  PROVE  QueuesOrdered' /\ (Abstract!Next \/ UNCHANGED Abstract!vars)
<1>1. PICK W : Queued(W)
  BY DEF QueuesOrdered
<1>2. vl \in [Sem -> 0 .. MaxVl] /\ taken \in [Sem -> 0 .. MaxVl] /\ MaxVl \in Nat
  BY KernelAssumption DEF KernelInv, LoaderTypes
<1>3. /\ vl' = [vl EXCEPT ![s] = @ + 1] /\ taken' = taken
      /\ UNCHANGED <<schedVars, loaderVars, q>>
  BY DEF sem_signal, bootVars
<1>4. UNCHANGED <<state, next, qnext, qprev>>
  BY <1>3 DEF schedVars, loaderVars
<1>5. CASE taken[s] > 0
  <2>1. \A t \in Sem : Value(t)' = Value(t)
    BY <1>2, <1>3, <1>5 DEF Value
  <2> QED BY <1>3, <1>4, <2>1, UntouchedStutters
<1>6. CASE ~(taken[s] > 0)
  <2>1. Ready' = Ready /\ Blocked' = Blocked
    BY <1>4 DEF Ready, Blocked
  <2>2. Queued(W)' /\ Waits' = Waits
    BY <1>1, <1>3, <1>4, <2>1, StillQueued
  <2>3. Value(s) = vl[s] /\ q[s] = None
    BY <1>2, <1>6 DEF Value, QueuesOrdered
  <2>4. Waits[s] = <<>>
    BY <1>1, <2>3, WaitsFacts
  <2>5. Value(s)' = Value(s) + 1 /\ \A t \in Sem \ {s} : Value(t)' = Value(t)
    BY <1>2, <1>3, <1>6 DEF Value
  <2>6. Values' = [Values EXCEPT ![s] = @ + 1]
    BY <2>5 DEF Values
  <2>7. Abstract!Release(s)
    BY <2>1, <2>2, <2>4, <2>6 DEF Abstract!Release, Waits, Values
  <2>8. \A t \in Sem : Value(t)' > 0 => q'[t] = None
    BY <1>3, <2>3, <2>5 DEF QueuesOrdered
  <2> QED BY <2>2, <2>7, <2>8 DEF QueuesOrdered, Abstract!Next
<1> QED BY <1>5, <1>6

(* The boot code takes its unit with the load of s->vl--; the store writes *)
(* what it computed.                                                       *)
LEMMA BootAcquires ==
  ASSUME KernelInv, QueuesOrdered, NEW s \in Sem, BootTake(s) \/ BootPut(s)
  PROVE  QueuesOrdered' /\ (Abstract!Next \/ UNCHANGED Abstract!vars)
<1>1. PICK W : Queued(W)
  BY DEF QueuesOrdered
<1>2. vl \in [Sem -> 0 .. MaxVl] /\ taken \in [Sem -> 0 .. MaxVl] /\ MaxVl \in Nat
  BY KernelAssumption DEF KernelInv, LoaderTypes
<1>3. UNCHANGED <<schedVars, loaderVars, q>>
  BY DEF BootTake, BootPut
<1>4. UNCHANGED <<state, next, qnext, qprev>>
  BY <1>3 DEF schedVars, loaderVars
<1>5. CASE BootTake(s)
  <2>1. /\ boot = "init" /\ (\A r \in Sem : taken[r] = 0) /\ vl[s] > 0
        /\ taken' = [taken EXCEPT ![s] = vl[s]] /\ vl' = vl
    BY <1>5 DEF BootTake
  <2>2. Ready' = Ready /\ Blocked' = Blocked
    BY <1>4 DEF Ready, Blocked
  <2>3. Queued(W)' /\ Waits' = Waits
    BY <1>1, <1>3, <1>4, <2>2, StillQueued
  <2>4. /\ Value(s) > 0 /\ Value(s)' = Value(s) - 1
        /\ \A t \in Sem \ {s} : Value(t)' = Value(t)
    BY <1>2, <2>1 DEF Value
  <2>5. Values[s] > 0 /\ Values' = [Values EXCEPT ![s] = @ - 1]
    BY <2>4 DEF Values
  <2>6. Abstract!Acquire(s)
    BY <2>2, <2>3, <2>5 DEF Abstract!Acquire, Waits, Values
  <2>7. \A t \in Sem : q'[t] = None
    BY <1>3, <2>1, BootAloneWaits
  <2> QED BY <2>3, <2>6, <2>7 DEF QueuesOrdered, Abstract!Next
<1>6. CASE BootPut(s)
  <2>1. /\ taken[s] > 0 /\ vl' = [vl EXCEPT ![s] = taken[s] - 1]
        /\ taken' = [taken EXCEPT ![s] = 0]
    BY <1>6 DEF BootPut
  <2>2. \A t \in Sem : Value(t)' = Value(t)
    BY <1>2, <2>1 DEF Value
  <2> QED BY <1>3, <1>4, <2>2, UntouchedStutters
<1> QED BY <1>5, <1>6

(* Every step of the kernel is a step of the semaphores, or none of theirs. *)
LEMMA AbstractStep ==
  ASSUME KernelInv, QueuesOrdered, [Next]_vars
  PROVE  QueuesOrdered' /\ [Abstract!Next]_(Abstract!vars)
<1>1. CASE \/ UNCHANGED vars \/ BootState \/ BootRead \/ BootCount
           \/ PidsExhausted \/ loader_tick
  <2>1. UNCHANGED <<next, vl, q, qnext, qprev, taken>>
    BY <1>1 DEF vars, BootState, BootRead, BootCount, PidsExhausted, loader_tick, sched_tick,
                schedVars, loaderVars, bootVars
  <2>2. \A s \in Sem : Value(s)' = Value(s)
    BY <2>1 DEF Value
  <2> QED BY <2>1, <2>2, UntouchedStutters
<1>2. CASE BootLoad
  <2>1. NewTask /\ NoneLoaded /\ UNCHANGED <<vl, q, taken>>
    BY <1>2, BootLoads DEF BootLoad
  <2> QED BY <2>1, NewTaskStarts
<1>3. CASE loader_load \/ sys_fork
  <2>1. cur_pid # Idle /\ NewTask /\ UNCHANGED <<vl, q, taken>>
    BY <1>3 DEF loader_load, sys_fork, bootVars
  <2>2. current_pid # Idle
    BY <2>1 DEF KernelInv
  <2> QED BY <2>1, <2>2, NewTaskStarts
<1>4. CASE loader_exit
  BY <1>4, ExitEnds
<1>5. CASE \E s \in Sem : sem_wait(s) \/ sem_signal(s)
  BY <1>5, WaitAcquires, SignalHandsOver, SignalReleases
<1>6. CASE \E s \in Sem : BootTake(s) \/ BootPut(s)
  BY <1>6, BootAcquires
<1> QED BY <1>1, <1>2, <1>3, <1>4, <1>5, <1>6 DEF Next

(* The links of task_table form first-in first-out queues, and a signal    *)
(* hands its unit to the task it wakes: loader_enqueue and loader_unqueue  *)
(* under sem_wait and sem_signal implement the abstract semaphores.        *)
THEOREM KernelImplementsSemaphores == Spec => ImplementsSemaphores
<1>1. Init => Abstract!Init /\ QueuesOrdered
  BY InitOrdered
<1>2. KernelInv /\ QueuesOrdered /\ [Next]_vars
        => QueuesOrdered' /\ [Abstract!Next]_(Abstract!vars)
  BY AbstractStep
<1> QED BY <1>1, <1>2, KernelSafety, PTL DEF Spec, ImplementsSemaphores, Abstract!Spec
=============================================================================
