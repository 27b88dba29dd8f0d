----------------------------- MODULE PipeProofs -----------------------------
(***************************************************************************)
(* Proofs, for any number of readers and writers and any size of buffer    *)
(* and calls: the semaphore of a pipe's write end is a mutex through all   *)
(* the places where a call lets it go and takes it back; cursors and       *)
(* counts keep their types; the unread bytes lie in the buffer in order;   *)
(* and between one reader and one writer no wakeup is lost.                *)
(*                                                                         *)
(* Every step does one of four things to the mutex: a task waits for it,   *)
(* signals it, works on with it, or moves outside; one lemma each.  The    *)
(* data are changed by CopyOut and Put only, and the condition variable by *)
(* the two places where a call sleeps and the two where a call ends.       *)
(***************************************************************************)
EXTENDS Pipe, Numbers, SequenceTheorems, FiniteSetTheorems, TLAPS

Critical == {"r_check", "r_copy", "w_loop", "w_put"}
Outside  == {"user", "closed", "r_woken", "w_woken"}
PCs      == Critical \cup Outside

Semaphore == [vl : Nat, q : Seq(Task)]

Inside == {t \in Task : pc[t] \in Critical /\ ~WaitsAt(t, mutex)}

Types ==
  /\ pc \in [Task -> PCs] /\ cpu \in Task \cup {None}
  /\ sem \in [End -> Semaphore]
  /\ want \in [Task -> Nat] /\ got \in [Task -> Nat]
  /\ busy \in [End -> BOOLEAN] /\ cursor \in [End -> 0 .. Size - 1]
  /\ buffer_cant \in [End -> Nat] /\ buffer_cant["r"] = buffer_cant["w"]
  /\ buffer \in [0 .. Size - 1 -> 0 .. Modulus - 1]
  /\ written \in Nat /\ taken \in Nat

(* Nobody queues twice for the mutex, who queues is about to enter, and    *)
(* the unit is either there or with the one task inside.                   *)
MutexOK ==
  /\ \A i, j \in 1 .. Len(sem[mutex].q) : sem[mutex].q[i] = sem[mutex].q[j] => i = j
  /\ \A t \in Task : WaitsAt(t, mutex) => pc[t] \in Critical
  /\ sem[mutex].vl \in {0, 1}
  /\ sem[mutex].vl = 1 => sem[mutex].q = <<>> /\ Inside = {}
  /\ sem[mutex].vl = 0 => \E t \in Inside : Inside = {t}

PipeInv == Types /\ MutexOK

----------------------------------------------------------------------------
(* Who waits, by the positions of the queue.                               *)
LEMMA WaitsAtDef ==
  ASSUME sem \in [End -> Semaphore], NEW t, NEW s \in End
  PROVE  WaitsAt(t, s) <=> \E i \in 1 .. Len(sem[s].q) : sem[s].q[i] = t
<1>1. sem[s].q \in Seq(Task)
  BY DEF Semaphore
<1> QED BY <1>1, LenProperties DEF WaitsAt

(* The steps that leave the queue of the mutex and everybody's place in    *)
(* or out of the section alone.                                            *)
LEMMA StaysKeepsMutex ==
  ASSUME PipeInv, NEW t \in Task, NEW to \in PCs, pc' = [pc EXCEPT ![t] = to],
         sem'[mutex] = sem[mutex], pc[t] \in Critical <=> to \in Critical
  PROVE  MutexOK'
<1>1. \A u \in Task : pc'[u] \in Critical <=> pc[u] \in Critical
  BY DEF PipeInv, Types
<1>2. \A u \in Task : WaitsAt(u, mutex)' <=> WaitsAt(u, mutex)
  BY DEF WaitsAt
<1>3. Inside' = Inside
  BY <1>1, <1>2 DEF Inside
<1> QED BY <1>1, <1>2, <1>3 DEF PipeInv, MutexOK

(* sem_wait on the mutex by a task outside that is in no queue.            *)
LEMMA TakesKeepsMutex ==
  ASSUME PipeInv, NEW t \in Task, NEW to \in Critical, pc' = [pc EXCEPT ![t] = to],
         pc[t] \in Outside, sem' = Wait(sem, mutex, t)
  PROVE  MutexOK' /\ sem' \in [End -> Semaphore]
<1> DEFINE Q == sem[mutex].q
<1>1. mutex \in End /\ sem \in [End -> Semaphore] /\ pc \in [Task -> PCs] /\ Q \in Seq(Task)
      /\ Len(Q) \in Nat
  BY LenProperties DEF PipeInv, Types, End, mutex, Semaphore
<1>2. pc[t] \notin Critical /\ ~WaitsAt(t, mutex) /\ t \notin Inside
  BY DEF PipeInv, MutexOK, Inside, Critical, Outside
<1>3. CASE sem[mutex].vl = 1
  <2>1. /\ sem' = [sem EXCEPT ![mutex].vl = 0] /\ sem' \in [End -> Semaphore]
        /\ sem'[mutex].vl = 0 /\ sem'[mutex].q = Q /\ Q = <<>> /\ Inside = {}
    BY <1>1, <1>3 DEF Wait, Semaphore, PipeInv, MutexOK
  <2>2. \A u : ~WaitsAt(u, mutex) /\ ~WaitsAt(u, mutex)'
    BY <2>1, EmptySeq DEF WaitsAt
  <2>3. Inside' = {t}
    BY <1>1, <2>1, <2>2 DEF Inside
  <2>4. Len(Q) = 0
    BY <2>1, EmptySeq
  <2> QED BY <2>1, <2>2, <2>3, <2>4 DEF MutexOK
<1>4. CASE sem[mutex].vl = 0
  <2>1. /\ sem' = [sem EXCEPT ![mutex].q = Append(Q, t)]
    BY <1>1, <1>4 DEF Wait
  <2>2. /\ Append(Q, t) \in Seq(Task) /\ Len(Append(Q, t)) = Len(Q) + 1
        /\ \A i \in 1 .. Len(Q) : Append(Q, t)[i] = Q[i]
        /\ Append(Q, t)[Len(Q) + 1] = t
    BY <1>1, AppendProperties
  <2>3. sem' \in [End -> Semaphore] /\ sem'[mutex].q = Append(Q, t) /\ sem'[mutex].vl = 0
    BY <2>1, <2>2, <1>1, <1>4 DEF Semaphore
  <2>4. ASSUME NEW u \in Task PROVE WaitsAt(u, mutex)' <=> WaitsAt(u, mutex) \/ u = t
    <3>1. WaitsAt(u, mutex)' <=> \E i \in 1 .. Len(Q) + 1 : Append(Q, t)[i] = u
      BY <2>2, <2>3, LenProperties DEF WaitsAt
    <3>2. WaitsAt(u, mutex) <=> \E i \in 1 .. Len(Q) : Q[i] = u
      BY <1>1, WaitsAtDef
    <3> QED BY <3>1, <3>2, <2>2, <1>1
  <2>5. Inside' = Inside
    BY <1>1, <1>2, <2>4 DEF Inside
  <2>6. \A i, j \in 1 .. Len(Append(Q, t)) : Append(Q, t)[i] = Append(Q, t)[j] => i = j
    <3>1. \A i \in 1 .. Len(Q) : Q[i] # t
      BY <1>1, <1>2, WaitsAtDef
    <3>2. \A i, j \in 1 .. Len(Q) : Q[i] = Q[j] => i = j
      BY DEF PipeInv, MutexOK
    <3> QED BY <3>1, <3>2, <2>2, <1>1
  <2>7. \A u \in Task : WaitsAt(u, mutex)' => pc'[u] \in Critical
    BY <1>1, <2>4 DEF PipeInv, MutexOK
  <2> QED BY <1>4, <2>3, <2>5, <2>6, <2>7 DEF PipeInv, MutexOK
<1> QED BY <1>3, <1>4 DEF PipeInv, MutexOK

(* sem_signal on the mutex by the task that is inside.                     *)
LEMMA ReleasesKeepsMutex ==
  ASSUME PipeInv, NEW t \in Inside, NEW to \in Outside, pc' = [pc EXCEPT ![t] = to],
         sem'[mutex] = Signal(sem, mutex)[mutex]
  PROVE  MutexOK'
<1> DEFINE Q == sem[mutex].q
<1>1. mutex \in End /\ sem \in [End -> Semaphore] /\ pc \in [Task -> PCs] /\ Q \in Seq(Task)
      /\ Len(Q) \in Nat /\ t \in Task
  BY LenProperties DEF PipeInv, Types, End, mutex, Semaphore, Inside
<1>2. sem[mutex].vl = 0 /\ Inside = {t} /\ ~WaitsAt(t, mutex) /\ to \notin Critical
  BY DEF PipeInv, MutexOK, Inside, Critical, Outside
<1>3. CASE Q = <<>>
  <2>1. sem'[mutex].vl = 1 /\ sem'[mutex].q = <<>>
    BY <1>1, <1>2, <1>3 DEF Signal, Semaphore
  <2>2. \A u : ~WaitsAt(u, mutex) /\ ~WaitsAt(u, mutex)'
    BY <2>1, <1>3, EmptySeq DEF WaitsAt
  <2>3. Inside' = {}
    BY <1>1, <1>2, <2>2 DEF Inside
  <2>4. Len(sem'[mutex].q) = 0
    BY <2>1, EmptySeq
  <2> QED BY <2>1, <2>2, <2>3, <2>4 DEF MutexOK
<1>4. CASE Q # <<>>
  <2>1. sem'[mutex].q = Tail(Q) /\ sem'[mutex].vl = 0
    BY <1>1, <1>2, <1>4 DEF Signal
  <2>2. /\ Tail(Q) \in Seq(Task) /\ Len(Tail(Q)) = Len(Q) - 1 /\ Len(Q) > 0
        /\ \A i \in 1 .. Len(Q) - 1 : Tail(Q)[i] = Q[i + 1]
    BY <1>1, <1>4, HeadTailProperties, EmptySeq
  <2>3. \A i, j \in 1 .. Len(Q) : Q[i] = Q[j] => i = j
    BY DEF PipeInv, MutexOK
  <2>4. \A u \in Task : WaitsAt(u, mutex) <=> \E i \in 1 .. Len(Q) : Q[i] = u
    BY <1>1, WaitsAtDef
  <2>5. \A u \in Task : WaitsAt(u, mutex)' <=> \E i \in 1 .. Len(Q) - 1 : Q[i + 1] = u
    <3>1. ASSUME NEW u \in Task
          PROVE  WaitsAt(u, mutex)' <=> \E i \in 1 .. Len(Q) - 1 : Tail(Q)[i] = u
      <4>1. DOMAIN Tail(Q) = 1 .. Len(Q) - 1
        BY <2>2, LenProperties
      <4>2. WaitsAt(u, mutex)' <=> \E i \in DOMAIN Tail(Q) : Tail(Q)[i] = u
        <5> HIDE DEF Q
        <5> QED BY <2>1 DEF WaitsAt
      <4> QED BY <4>1, <4>2
    <3> QED BY <3>1, <2>2
  <2>6. PICK h \in Task : h = Q[1]
    BY <1>1, <2>2, ElementOfSeq
  <2>7. WaitsAt(h, mutex) /\ ~WaitsAt(h, mutex)'
    <3>1. WaitsAt(h, mutex)
      <4>1. 1 \in 1 .. Len(Q)
        BY <2>2, <1>1
      <4> QED BY <4>1, <2>4, <2>6
    <3>2. ASSUME NEW i \in 1 .. Len(Q) - 1, Q[i + 1] = h PROVE FALSE
      <4>1. i + 1 \in 1 .. Len(Q) /\ 1 \in 1 .. Len(Q) /\ i + 1 # 1
        BY <1>1, <2>2
      <4> QED BY <4>1, <3>2, <2>3, <2>6
    <3> QED BY <3>1, <3>2, <2>5
  <2>8. ASSUME NEW u \in Task, u # h PROVE WaitsAt(u, mutex)' <=> WaitsAt(u, mutex)
    <3>1. ASSUME NEW i \in 1 .. Len(Q), Q[i] = u PROVE \E k \in 1 .. Len(Q) - 1 : Q[k + 1] = u
      <4>1. i - 1 \in 1 .. Len(Q) - 1 /\ (i - 1) + 1 = i
        BY <3>1, <2>6, <2>8, <1>1
      <4> QED BY <4>1, <3>1
    <3>2. ASSUME NEW k \in 1 .. Len(Q) - 1, Q[k + 1] = u PROVE \E i \in 1 .. Len(Q) : Q[i] = u
      <4>1. k + 1 \in 1 .. Len(Q)
        BY <1>1
      <4> QED BY <4>1, <3>2
    <3> QED BY <3>1, <3>2, <2>4, <2>5
  <2>9. h # t /\ pc'[h] = pc[h] /\ pc[h] \in Critical
    BY <1>1, <1>2, <2>7 DEF PipeInv, MutexOK
  <2>10. Inside' = {h}
    <3>1. h \in Inside'
      BY <2>7, <2>9 DEF Inside
    <3>2. ASSUME NEW u \in Inside', u # h PROVE FALSE
      <4>1. u \in Task /\ pc'[u] \in Critical /\ ~WaitsAt(u, mutex)'
        BY DEF Inside
      <4>2. u # t /\ u \in Inside
        BY <1>1, <1>2, <2>8, <3>2, <4>1 DEF Inside
      <4> QED BY <4>2, <1>2
    <3> QED BY <3>1, <3>2
  <2>11. ASSUME NEW i \in 1 .. Len(Tail(Q)), NEW j \in 1 .. Len(Tail(Q)), Tail(Q)[i] = Tail(Q)[j]
         PROVE  i = j
    <3>1. i + 1 \in 1 .. Len(Q) /\ j + 1 \in 1 .. Len(Q) /\ Q[i + 1] = Q[j + 1]
      BY <1>1, <2>2, <2>11
    <3>2. i + 1 = j + 1
      BY <3>1, <2>3
    <3> QED BY <3>2, <1>1, <2>2
  <2>12. ASSUME NEW u \in Task, WaitsAt(u, mutex)' PROVE pc'[u] \in Critical
    <3>1. u # h /\ WaitsAt(u, mutex)
      BY <2>7, <2>8, <2>12
    <3>2. u # t /\ pc[u] \in Critical
      BY <3>1, <1>2 DEF PipeInv, MutexOK
    <3> QED BY <3>2, <1>1
  <2> QED BY <2>1, <2>10, <2>11, <2>12 DEF MutexOK
<1> QED BY <1>3, <1>4

(* What the calls on the other semaphore leave alone.                      *)
LEMMA CondMoves ==
  ASSUME NEW S \in [End -> Semaphore], NEW t \in Task, NEW s \in End
  PROVE  /\ Signal(S, s) \in [End -> Semaphore] /\ Wait(S, s, t) \in [End -> Semaphore]
         /\ \A e \in End \ {s} : Signal(S, s)[e] = S[e] /\ Wait(S, s, t)[e] = S[e]
<1>1. S[s].q \in Seq(Task) /\ S[s].vl \in Nat
  BY DEF Semaphore
<1>2. Append(S[s].q, t) \in Seq(Task) /\ (S[s].q # <<>> => Tail(S[s].q) \in Seq(Task))
  BY <1>1, AppendProperties, HeadTailProperties
<1>3. [S EXCEPT ![s].vl = @ + 1] \in [End -> Semaphore]
  BY <1>1 DEF Semaphore
<1>4. S[s].vl > 0 => [S EXCEPT ![s].vl = @ - 1] \in [End -> Semaphore]
  BY <1>1 DEF Semaphore
<1>5. [S EXCEPT ![s].q = Append(@, t)] \in [End -> Semaphore]
  BY <1>1, <1>2 DEF Semaphore
<1>6. S[s].q # <<>> => [S EXCEPT ![s].q = Tail(@)] \in [End -> Semaphore]
  BY <1>1, <1>2 DEF Semaphore
<1> QED BY <1>1, <1>3, <1>4, <1>5, <1>6 DEF Signal, Wait

----------------------------------------------------------------------------
(* A task that executes kernel code is in no queue, and inside if it is    *)
(* at one of the places that need the mutex.                               *)
LEMMA Runs ==
  ASSUME PipeInv, NEW t \in Task, NEW at \in PCs, At(t, at)
  PROVE  pc[t] = at /\ (at \in Critical => t \in Inside)
BY DEF At, Asleep, Inside, End, mutex

(* Where a task goes on, and that only a task or nobody has the CPU.       *)
LEMMA Goes ==
  ASSUME PipeInv, NEW t \in Task, NEW to \in PCs, NEW S, Goto(t, to, S)
  PROVE  /\ pc' = [pc EXCEPT ![t] = to] /\ sem' = S
         /\ pc' \in [Task -> PCs] /\ cpu' \in Task \cup {None}
BY DEF Goto, PipeInv, Types

(* Numbers that wrap around stay in range.                                 *)
LEMMA Wraps ==
  ASSUME NEW i \in Nat, NEW n \in Nat
  PROVE  (i + n) % Size \in 0 .. Size - 1 /\ (i + n) % Modulus \in 0 .. Modulus - 1
BY PipeAssumption, SMT

(* The end of every read.                                                  *)
LEMMA CopyOutKeeps ==
  ASSUME PipeInv, NEW t \in Inside, NEW n \in Nat, n <= buffer_cant["r"], CopyOut(t, n)
  PROVE  PipeInv'
<1> DEFINE S == IF busy["w"] THEN Signal(sem, cond) ELSE sem
<1>1. t \in Task /\ sem \in [End -> Semaphore] /\ "r" \in End /\ "w" \in End
  BY DEF Inside, PipeInv, Types, End
<1>2. S \in [End -> Semaphore] /\ S[mutex] = sem[mutex] /\ Signal(S, mutex) \in [End -> Semaphore]
  BY <1>1, CondMoves DEF mutex, cond
<1>3. /\ pc' = [pc EXCEPT ![t] = "user"] /\ sem' = Signal(S, mutex)
      /\ pc' \in [Task -> PCs] /\ cpu' \in Task \cup {None}
  BY <1>1, Goes DEF CopyOut, PCs, Outside
<1>4. sem'[mutex] = Signal(sem, mutex)[mutex]
  BY <1>1, <1>2, <1>3 DEF Signal, mutex
<1>5. MutexOK'
  BY <1>3, <1>4, ReleasesKeepsMutex DEF Outside
<1>6. cursor["r"] \in Nat /\ taken \in Nat /\ Size \in Nat
  BY <1>1, PipeAssumption DEF PipeInv, Types
<1>7. cursor' \in [End -> 0 .. Size - 1] /\ taken' \in Nat
  <2>1. (cursor["r"] + n) % Size \in 0 .. Size - 1 /\ (taken + n) % Modulus \in Nat
    <3>1. (cursor["r"] + n) % Size \in 0 .. Size - 1
      BY <1>6, Wraps
    <3>2. (taken + n) % Modulus \in 0 .. Modulus - 1
      BY <1>6, Wraps
    <3>3. 0 .. Modulus - 1 \subseteq Nat
      BY PipeAssumption
    <3> QED BY <3>1, <3>2, <3>3, Zenon
  <2> QED BY <2>1, <1>1 DEF CopyOut, PipeInv, Types
<1>8. buffer_cant' \in [End -> Nat] /\ buffer_cant'["r"] = buffer_cant'["w"]
  <2>1. \A e \in End : buffer_cant[e] \in Nat /\ buffer_cant[e] - n \in Nat
    BY <1>1 DEF PipeInv, Types, End
  <2>2. buffer_cant' = [e \in End |-> buffer_cant[e] - n]
    BY DEF CopyOut
  <2>3. buffer_cant["r"] = buffer_cant["w"]
    BY DEF PipeInv, Types
  <2> QED BY <2>1, <2>2, <2>3, <1>1
<1>9. Types'
  BY <1>2, <1>3, <1>7, <1>8 DEF CopyOut, PipeInv, Types
<1> QED BY <1>5, <1>9 DEF PipeInv

(* Going to sleep at the condition semaphore: the mutex is let go, and     *)
(* perhaps the other side is signalled, before the wait.                   *)
LEMMA SleepKeeps ==
  ASSUME PipeInv, NEW t \in Inside, NEW to \in {"r_woken", "w_woken"}, NEW b \in [End -> BOOLEAN],
         NEW S \in [End -> Semaphore], S[mutex] = Signal(sem, mutex)[mutex],
         Goto(t, to, Wait(S, cond, t)), busy' = b,
         UNCHANGED <<want, got, cursor, buffer_cant, buffer, written, taken>>
  PROVE  PipeInv'
<1>1. t \in Task /\ cond \in End /\ mutex \in End \ {cond}
  BY DEF Inside, End, mutex, cond
<1>2. /\ pc' = [pc EXCEPT ![t] = to] /\ sem' = Wait(S, cond, t)
      /\ pc' \in [Task -> PCs] /\ cpu' \in Task \cup {None}
  BY <1>1, Goes DEF PCs, Outside
<1>3. sem' \in [End -> Semaphore] /\ sem'[mutex] = Signal(sem, mutex)[mutex]
  BY <1>1, <1>2, CondMoves
<1>4. MutexOK'
  BY <1>2, <1>3, ReleasesKeepsMutex DEF Outside
<1> QED BY <1>2, <1>3, <1>4 DEF PipeInv, Types

(* Entering a call, and taking the mutex again after a wait.               *)
LEMMA TakeKeeps ==
  ASSUME PipeInv, NEW t \in Task, NEW at \in Outside, At(t, at), NEW to \in Critical,
         Goto(t, to, Wait(sem, mutex, t)),
         want' \in [Task -> Nat], got' \in [Task -> Nat], UNCHANGED pipeVars
  PROVE  PipeInv'
<1>1. pc[t] = at /\ at \in PCs /\ to \in PCs
  BY Runs DEF PCs
<1>2. /\ pc' = [pc EXCEPT ![t] = to] /\ sem' = Wait(sem, mutex, t)
      /\ pc' \in [Task -> PCs] /\ cpu' \in Task \cup {None}
  BY <1>1, Goes
<1>3. MutexOK' /\ sem' \in [End -> Semaphore]
  BY <1>1, <1>2, TakesKeepsMutex
<1> QED BY <1>2, <1>3 DEF PipeInv, Types, pipeVars

(* A byte is stored.                                                       *)
LEMMA PutKeeps ==
  ASSUME PipeInv, NEW t \in Inside, Put(t)
  PROVE  PipeInv'
<1>1. t \in Task /\ pc[t] \in Critical /\ "r" \in End /\ "w" \in End
  BY DEF Inside, End
<1>2. /\ pc' = [pc EXCEPT ![t] = "w_loop"] /\ sem' = sem
      /\ pc' \in [Task -> PCs] /\ cpu' \in Task \cup {None}
  BY <1>1, Goes DEF Put, PCs, Critical
<1>3. MutexOK'
  BY <1>1, <1>2, StaysKeepsMutex DEF PCs, Critical
<1>4. cursor["w"] \in 0 .. Size - 1 /\ cursor["w"] \in Nat /\ written \in Nat /\ 1 \in Nat
  BY <1>1, PipeAssumption DEF PipeInv, Types
<1>5. (cursor["w"] + 1) % Size \in 0 .. Size - 1 /\ (written + 1) % Modulus \in 0 .. Modulus - 1
  BY <1>4, Wraps
<1>6. cursor' \in [End -> 0 .. Size - 1]
  BY <1>5 DEF Put, PipeInv, Types
<1>7. buffer' \in [0 .. Size - 1 -> 0 .. Modulus - 1] /\ written' \in Nat
  BY <1>4, <1>5, PipeAssumption DEF Put, PipeInv, Types
<1>8. buffer_cant' \in [End -> Nat] /\ buffer_cant'["r"] = buffer_cant'["w"]
  <2>1. buffer_cant \in [End -> Nat] /\ buffer_cant["r"] = buffer_cant["w"]
    BY DEF PipeInv, Types
  <2>2. buffer_cant' = [e \in End |-> buffer_cant[e] + 1]
    BY DEF Put
  <2> QED BY <1>1, <2>1, <2>2
<1>9. got' \in [Task -> Nat]
  BY <1>1 DEF Put, PipeInv, Types
<1>10. want' = want /\ busy' = busy /\ taken' = taken
  BY DEF Put
<1> QED BY <1>2, <1>3, <1>6, <1>7, <1>8, <1>9, <1>10 DEF PipeInv, Types

----------------------------------------------------------------------------
(* Every step keeps the invariant.                                         *)
LEMMA PipeStep == PipeInv /\ [Next]_vars => PipeInv'
<1> SUFFICES ASSUME PipeInv, [Next]_vars PROVE PipeInv'
  OBVIOUS
<1> Types /\ Readers \subseteq Task /\ Writers \subseteq Task /\ mutex \in End /\ cond \in End
  BY DEF PipeInv, Task, End, mutex, cond
<1>1. ASSUME NEW t \in Task, NEW other, NEW sizes \in SUBSET (Nat \ {0}), NEW to \in Critical,
             Enter(t, other, sizes, to)
      PROVE  PipeInv'
  <2>1. /\ At(t, "user") /\ Goto(t, to, Wait(sem, mutex, t)) /\ UNCHANGED pipeVars
        /\ want' \in [Task -> Nat] /\ got' \in [Task -> Nat]
    BY <1>1 DEF Enter, Types
  <2> QED BY <2>1, TakeKeeps DEF Outside
<1>2. ASSUME NEW t \in Task, ReadEnter(t) \/ WriteEnter(t) PROVE PipeInv'
  <2>1. ReadSizes \in SUBSET (Nat \ {0}) /\ WriteSizes \in SUBSET (Nat \ {0})
    BY PipeAssumption
  <2> QED BY <1>1, <1>2, <2>1 DEF ReadEnter, WriteEnter, Critical
<1>3. ASSUME NEW t \in Task, ReadCheck(t) PROVE PipeInv'
  <2>1. t \in Inside /\ want[t] \in Nat /\ buffer_cant["r"] \in Nat
    BY <1>3, Runs DEF ReadCheck, PCs, Critical, Types, End
  <2>2. CASE buffer_cant["r"] >= want[t] /\ CopyOut(t, want[t])
    BY <2>1, <2>2, CopyOutKeeps
  <2>3. CASE CopyOut(t, buffer_cant["r"])
    BY <2>1, <2>3, CopyOutKeeps
  <2>4. CASE /\ busy' = [busy EXCEPT !["r"] = TRUE]
             /\ Goto(t, "r_woken", Wait(Signal(sem, mutex), cond, t))
             /\ UNCHANGED <<want, got, cursor, buffer_cant, buffer, written, taken>>
    <3>1. [busy EXCEPT !["r"] = TRUE] \in [End -> BOOLEAN] /\ Signal(sem, mutex) \in [End -> Semaphore]
      BY CondMoves, <1>3 DEF Types
    <3> QED BY <2>1, <2>4, <3>1, SleepKeeps
  <2> QED BY <1>3, <2>2, <2>3, <2>4 DEF ReadCheck
<1>4. ASSUME NEW t \in Task, ReadWoken(t) \/ WriteWoken(t) PROVE PipeInv'
  <2>1. \E at \in {"r_woken", "w_woken"}, to \in {"r_copy", "w_put"} :
          /\ At(t, at) /\ Goto(t, to, Wait(sem, mutex, t))
          /\ UNCHANGED <<want, got, pipeVars>>
    BY <1>4 DEF ReadWoken, WriteWoken
  <2> QED BY <2>1, TakeKeeps DEF Outside, Critical, Types
<1>5. ASSUME NEW t \in Task, ReadCopy(t) PROVE PipeInv'
  <2>1. t \in Inside /\ want[t] \in Nat /\ buffer_cant["r"] \in Nat
    BY <1>5, Runs DEF ReadCopy, PCs, Critical, Types, End
  <2> DEFINE n == IF buffer_cant["r"] < want[t] THEN buffer_cant["r"] ELSE want[t]
  <2>2. n \in Nat /\ n <= buffer_cant["r"] /\ CopyOut(t, n)
    BY <2>1, <1>5 DEF ReadCopy
  <2> HIDE DEF n
  <2> QED BY <2>1, <2>2, CopyOutKeeps
<1>6. ASSUME NEW t \in Task, WritePut(t) \/ WriteAfterWait(t) PROVE PipeInv'
  <2>1. t \in Inside /\ Put(t)
    BY <1>6, Runs DEF WritePut, WriteAfterWait, PCs, Critical
  <2> QED BY <2>1, PutKeeps
<1>7. ASSUME NEW t \in Task, WriteFull(t) PROVE PipeInv'
  <2> DEFINE freed == Signal(sem, mutex)
             S == IF busy["r"] THEN Signal(freed, cond) ELSE freed
  <2>1. t \in Inside
    BY <1>7, Runs DEF WriteFull, PCs, Critical
  <2>2. freed \in [End -> Semaphore]
    BY CondMoves, <1>7 DEF Types
  <2>3. S \in [End -> Semaphore] /\ S[mutex] = freed[mutex]
    BY <2>2, <1>7, CondMoves DEF mutex, cond
  <2>4. /\ busy' = [e \in End |-> e = "w"] /\ Goto(t, "w_woken", Wait(S, cond, t))
        /\ UNCHANGED <<want, got, cursor, buffer_cant, buffer, written, taken>>
    BY <1>7 DEF WriteFull
  <2>5. [e \in End |-> e = "w"] \in [End -> BOOLEAN]
    OBVIOUS
  <2> HIDE DEF S
  <2> QED BY <2>1, <2>3, <2>4, <2>5, SleepKeeps
<1>8. ASSUME NEW t \in Task, WriteDone(t) PROVE PipeInv'
  <2> DEFINE S == IF busy["r"] THEN Signal(sem, cond) ELSE sem
  <2>1. t \in Inside
    BY <1>8, Runs DEF WriteDone, PCs, Critical
  <2>2. S \in [End -> Semaphore] /\ S[mutex] = sem[mutex]
    <3>1. /\ sem \in [End -> Semaphore] /\ mutex \in End \ {cond}
      BY DEF Types, mutex, cond
    <3>2. Signal(sem, cond) \in [End -> Semaphore] /\ Signal(sem, cond)[mutex] = sem[mutex]
      BY <1>8, <3>1, CondMoves
    <3> QED BY <3>1, <3>2
  <2>3. /\ pc' = [pc EXCEPT ![t] = "user"] /\ sem' = Signal(S, mutex)
        /\ pc' \in [Task -> PCs] /\ cpu' \in Task \cup {None} /\ UNCHANGED <<want, got, pipeVars>>
    BY <1>8, Goes DEF WriteDone, PCs, Outside
  <2>4. sem' \in [End -> Semaphore] /\ sem'[mutex] = Signal(sem, mutex)[mutex]
    <3> HIDE DEF S
    <3>1. Signal(S, mutex) \in [End -> Semaphore]
      BY <1>8, <2>2, CondMoves
    <3> QED BY <2>2, <2>3, <3>1 DEF Signal, Types
  <2>5. MutexOK'
    BY <2>1, <2>3, <2>4, ReleasesKeepsMutex DEF Outside
  <2> QED BY <2>3, <2>4, <2>5 DEF PipeInv, Types, pipeVars
<1>9. ASSUME NEW t \in Task, pipe_flush(t) PROVE PipeInv'
  <2>1. pc[t] = "user" /\ pc' = [pc EXCEPT ![t] = "closed"] /\ UNCHANGED <<cpu, want, got, sem, pipeVars>>
    BY <1>9 DEF pipe_flush, At
  <2>2. MutexOK'
    BY <2>1, StaysKeepsMutex DEF PCs, Critical, Outside
  <2> QED BY <2>1, <2>2 DEF PipeInv, Types, pipeVars, PCs, Outside
<1>10. CASE UNCHANGED vars
  <2>1. Types'
    BY <1>10 DEF vars, pipeVars, PipeInv, Types
  <2>2. MutexOK'
    BY <1>10 DEF vars, PipeInv, MutexOK, Inside, WaitsAt
  <2> QED BY <2>1, <2>2 DEF PipeInv
<1> QED BY <1>2, <1>3, <1>4, <1>5, <1>6, <1>7, <1>8, <1>9, <1>10 DEF Next, ReadStep, WriteStep

(* The invariant holds in every reachable state.                           *)
LEMMA PipeSafety == Spec => []PipeInv
<1>1. Init => PipeInv
  <2> SUFFICES ASSUME Init PROVE PipeInv
    OBVIOUS
  <2>1. <<>> \in Seq(Task) /\ Len(<<>>) = 0
    BY EmptySeq
  <2>2. sem \in [End -> Semaphore] /\ sem[mutex] = [vl |-> 1, q |-> <<>>]
    BY <2>1 DEF Init, pipe_open, Semaphore, End, mutex
  <2>3. Types
    BY <2>2, PipeAssumption DEF Init, pipe_open, Types, PCs, Outside, End
  <2>4. Inside = {} /\ \A t \in Task : ~WaitsAt(t, mutex)
    BY <2>1, <2>2 DEF Init, Inside, Critical, WaitsAt
  <2>5. MutexOK
    BY <2>1, <2>2, <2>4 DEF MutexOK
  <2> QED BY <2>3, <2>5 DEF PipeInv
<1> QED BY <1>1, PipeStep, PTL DEF Spec

(* The semaphore of the write end is a mutex: it is free, or exactly one   *)
(* task is in the critical section.                                        *)
THEOREM PipeCriticalSection == Spec => []CriticalSection
<1>1. ASSUME PipeInv PROVE CriticalSection
  <2>1. CASE sem[mutex].vl = 1
    <3>1. Inside = {} /\ Cardinality({}) = 0
      BY <1>1, <2>1, FS_EmptySet DEF PipeInv, MutexOK
    <3>2. Cardinality(Inside) + sem[mutex].vl = 1
      BY <3>1, <2>1
    <3> QED BY <3>2 DEF CriticalSection, Inside, Critical
  <2>2. CASE sem[mutex].vl = 0
    <3>1. PICK t \in Task : Inside = {t}
      BY <1>1, <2>2 DEF PipeInv, MutexOK, Inside
    <3>2. Cardinality({t}) = 1
      BY FS_Singleton
    <3>3. Cardinality(Inside) + sem[mutex].vl = 1
      BY <3>1, <3>2, <2>2
    <3> QED BY <3>3 DEF CriticalSection, Inside, Critical
  <2> QED BY <1>1, <2>1, <2>2 DEF PipeInv, MutexOK
<1> QED BY <1>1, PipeSafety, PTL

(* Types; cursors stay in the buffer and counts do not fall below zero.    *)
THEOREM PipeTypeCorrect == Spec => []PipeTypeOK
<1>1. PipeInv => PipeTypeOK
  BY DEF PipeInv, Types, PipeTypeOK, Semaphore, PCs, Critical, Outside, End
<1> QED BY <1>1, PipeSafety, PTL

----------------------------------------------------------------------------
(* The bytes *)

(* The ends agree on how far the cursors are apart and how many bytes are  *)
(* unread, and the last bytes written, as many as are unread or fit in the *)
(* buffer, lie behind the write cursor.                                    *)
OrderInv ==
  /\ Congruent(Size, cursor["w"], cursor["r"] + buffer_cant["r"])
  /\ Congruent(Modulus, written, taken + buffer_cant["r"])
  /\ \A j \in 0 .. Size - 1 : j < buffer_cant["r"] =>
        buffer[(cursor["w"] - 1 - j) % Size] = (written - j) % Modulus

(* Every step copies bytes out, stores one, or leaves the data alone.      *)
LEMMA DataSteps ==
  ASSUME PipeInv, [Next]_vars
  PROVE  \/ UNCHANGED <<cursor, buffer_cant, buffer, written, taken>>
         \/ \E t \in Task, n \in Nat : n <= buffer_cant["r"] /\ CopyOut(t, n)
         \/ \E t \in Task : Put(t)
<1> DEFINE Still == UNCHANGED <<cursor, buffer_cant, buffer, written, taken>>
           Out == \E t \in Task, n \in Nat : n <= buffer_cant["r"] /\ CopyOut(t, n)
<1>1. /\ want \in [Task -> Nat] /\ buffer_cant["r"] \in Nat
      /\ Readers \subseteq Task /\ Writers \subseteq Task
  BY DEF PipeInv, Types, End, Task
<1>2. ASSUME NEW t \in Task, ReadEnter(t) \/ ReadWoken(t) \/ WriteEnter(t) \/ WriteFull(t)
                             \/ WriteWoken(t) \/ WriteDone(t) \/ pipe_flush(t)
      PROVE  Still
  BY <1>2 DEF ReadEnter, ReadWoken, WriteEnter, WriteFull, WriteWoken, WriteDone, pipe_flush,
              Enter, pipeVars
<1>3. ASSUME NEW t \in Task, ReadCheck(t) PROVE Still \/ Out
  <2>1. CASE buffer_cant["r"] >= want[t] /\ CopyOut(t, want[t])
    BY <1>1, <2>1
  <2>2. CASE CopyOut(t, buffer_cant["r"])
    BY <1>1, <2>2
  <2>3. CASE UNCHANGED <<want, got, cursor, buffer_cant, buffer, written, taken>>
    BY <2>3
  <2> QED BY <1>3, <2>1, <2>2, <2>3 DEF ReadCheck
<1>4. ASSUME NEW t \in Task, ReadCopy(t) PROVE Out
  <2> DEFINE n == IF buffer_cant["r"] < want[t] THEN buffer_cant["r"] ELSE want[t]
  <2>1. n \in Nat /\ n <= buffer_cant["r"] /\ CopyOut(t, n)
    BY <1>1, <1>4 DEF ReadCopy
  <2> QED BY <2>1
<1>5. UNCHANGED vars => Still
  BY DEF vars, pipeVars
<1> QED BY <1>1, <1>2, <1>3, <1>4, <1>5 DEF Next, ReadStep, WriteStep, WritePut, WriteAfterWait

(* Bytes are copied out: the read cursor and the count move together.      *)
LEMMA CopyOutKeepsOrder ==
  ASSUME PipeInv, OrderInv, NEW t, NEW n \in Nat, n <= buffer_cant["r"], CopyOut(t, n)
  PROVE  OrderInv'
<1> DEFINE r == cursor["r"]
           k == buffer_cant["r"]
<1>1. /\ Size \in Nat \ {0} /\ Modulus \in Nat \ {0} /\ r \in Int /\ cursor["w"] \in Int
      /\ k \in Nat /\ written \in Int /\ taken \in Int
  BY PipeAssumption DEF PipeInv, Types, End
<1>2. /\ cursor'["r"] = (r + n) % Size /\ cursor'["w"] = cursor["w"]
      /\ buffer_cant'["r"] = k - n /\ taken' = (taken + n) % Modulus
      /\ buffer' = buffer /\ written' = written
  BY DEF CopyOut, PipeInv, Types, End
<1> HIDE DEF r, k
<1>3. ASSUME NEW N \in Nat \ {0}, NEW a \in Int, NEW b \in Int, Congruent(N, b, a + k)
      PROVE  Congruent(N, b, ((a + n) % N) + (k - n))
  <2>1. Congruent(N, a + n, (a + n) % N) /\ (a + n) % N \in Int
    BY <1>1, CongruentMod
  <2>2. Congruent(N, a + k, ((a + n) % N) + (k - n))
    BY <1>1, <2>1, CongruentStep
  <2> QED BY <1>3, <2>2, CongruentSame
<1>4. /\ Congruent(Size, cursor["w"], ((r + n) % Size) + (k - n))
      /\ Congruent(Modulus, written, ((taken + n) % Modulus) + (k - n))
  BY <1>1, <1>3 DEF OrderInv, r, k
<1>5. \A j \in 0 .. Size - 1 : j < k - n => j < k
  BY <1>1
<1> QED BY <1>2, <1>4, <1>5 DEF OrderInv, r, k

(* A byte is stored at the write cursor, and becomes the last one.         *)
LEMMA PutKeepsOrder ==
  ASSUME PipeInv, OrderInv, NEW t, Put(t)
  PROVE  OrderInv'
<1> DEFINE w == cursor["w"]
           r == cursor["r"]
           k == buffer_cant["r"]
<1>1. /\ Size \in Nat \ {0} /\ Modulus \in Nat \ {0} /\ w \in 0 .. Size - 1 /\ w \in Int
      /\ r \in Int /\ k \in Nat /\ written \in Int /\ taken \in Int
      /\ buffer \in [0 .. Size - 1 -> 0 .. Modulus - 1]
  BY PipeAssumption DEF PipeInv, Types, End
<1>2. /\ cursor'["w"] = (w + 1) % Size /\ cursor'["r"] = r /\ buffer_cant'["r"] = k + 1
      /\ written' = (written + 1) % Modulus /\ taken' = taken
      /\ buffer' = [buffer EXCEPT ![w] = (written + 1) % Modulus]
  BY DEF Put, PipeInv, Types, End
<1> HIDE DEF w, r, k
<1>3. ASSUME NEW N \in Nat \ {0}, NEW a \in Int, NEW b \in Int, Congruent(N, a, b + k)
      PROVE  Congruent(N, (a + 1) % N, b + (k + 1))
  <2>1. Congruent(N, (a + 1) % N, a + 1)
    BY CongruentMod
  <2>2. Congruent(N, a + 1, b + (k + 1))
    BY <1>1, <1>3, CongruentStep
  <2> QED BY <2>1, <2>2, CongruentSame
<1>4. /\ Congruent(Size, (w + 1) % Size, r + (k + 1))
      /\ Congruent(Modulus, (written + 1) % Modulus, taken + (k + 1))
  BY <1>1, <1>3 DEF OrderInv, w, r, k
<1>6. ASSUME NEW j \in 0 .. Size - 1, j < k + 1
      PROVE  buffer'[(((w + 1) % Size) - 1 - j) % Size] = (((written + 1) % Modulus) - j) % Modulus
  <2>1. ASSUME NEW N \in Nat \ {0}, NEW a \in Int
        PROVE  /\ Congruent(N, ((a + 1) % N) - 1 - j, a - j)
               /\ Congruent(N, ((a + 1) % N) - j, a - (j - 1))
    <3> DEFINE m == (a + 1) % N
    <3>1. Congruent(N, m, a + 1) /\ m \in Int
      BY CongruentMod
    <3> HIDE DEF m
    <3>2. Congruent(N, m - 1 - j, a - j)
      BY <3>1, CongruentStep
    <3>3. Congruent(N, m - j, a - (j - 1))
      BY <3>1, CongruentStep
    <3> QED BY <3>2, <3>3 DEF m
  <2>2. (((w + 1) % Size) - 1 - j) % Size = (w - j) % Size
    BY <1>1, <2>1 DEF Congruent
  <2>3. (((written + 1) % Modulus) - j) % Modulus = (written - (j - 1)) % Modulus
    BY <1>1, <2>1 DEF Congruent
  <2>4. w % Size = w
    BY <1>1, ModSmall
  <2>5. CASE j = 0
    <3>1. w - j = w /\ written - (j - 1) = written + 1
      BY <1>1, <2>5
    <3> QED BY <1>1, <1>2, <2>2, <2>3, <2>4, <3>1
  <2>6. CASE j # 0
    <3>1. j - 1 \in 0 .. Size - 1 /\ j - 1 < k /\ w - 1 - (j - 1) = w - j /\ w - j \in Int
      BY <1>1, <1>6, <2>6
    <3>2. buffer[(w - j) % Size] = (written - (j - 1)) % Modulus
      BY <3>1 DEF OrderInv, w, k
    <3>3. (w - j) % Size # w
      <4>1. w - (w - j) < Size /\ 0 - Size < w - (w - j) /\ w # w - j
        BY <1>1, <2>6
      <4>2. ~Congruent(Size, w, w - j)
        BY <1>1, <3>1, <4>1, CongruentNear
      <4> QED BY <2>4, <4>2 DEF Congruent
    <3>4. (w - j) % Size \in 0 .. Size - 1
      BY <1>1, <3>1, DivMod
    <3>5. buffer'[(w - j) % Size] = buffer[(w - j) % Size]
      <4> DEFINE c == (w - j) % Size
      <4>1. c \in 0 .. Size - 1 /\ c # w
        BY <3>3, <3>4
      <4> HIDE DEF c
      <4>2. buffer'[c] = buffer[c]
        BY <1>1, <1>2, <4>1
      <4> QED BY <4>2 DEF c
    <3> QED BY <2>2, <2>3, <3>2, <3>5
  <2> QED BY <2>5, <2>6
<1> QED BY <1>2, <1>4, <1>6 DEF OrderInv, w, r, k

(* The unread bytes lie in the buffer in the order they were written, from *)
(* the read cursor on, as long as they fit in it; whatever the sizes of    *)
(* reads and writes, and however often a full buffer was overwritten       *)
(* before.                                                                 *)
THEOREM PipeUnreadInOrder == Spec => []UnreadInOrder
<1>1. Init => OrderInv
  BY PipeAssumption DEF Init, pipe_open, OrderInv, End, Congruent
<1>2. PipeInv /\ OrderInv /\ [Next]_vars => OrderInv'
  <2> SUFFICES ASSUME PipeInv, OrderInv, [Next]_vars PROVE OrderInv'
    OBVIOUS
  <2>1. CASE UNCHANGED <<cursor, buffer_cant, buffer, written, taken>>
    BY <2>1 DEF OrderInv
  <2> QED BY <2>1, DataSteps, CopyOutKeepsOrder, PutKeepsOrder
<1>3. ASSUME PipeInv, OrderInv PROVE UnreadInOrder
  <2> DEFINE w == cursor["w"]
             r == cursor["r"]
             k == buffer_cant["r"]
  <2>1. /\ Size \in Nat \ {0} /\ Modulus \in Nat \ {0} /\ w \in Int /\ r \in Int /\ k \in Nat
        /\ written \in Int /\ taken \in Int /\ k = buffer_cant["w"]
    BY <1>3, PipeAssumption DEF PipeInv, Types, End
  <2>2. (w - r - k) % Size = 0
    <3> DEFINE v == r + k
               d == w - v
    <3>1. w - r - k = d /\ v \in Int
      BY <2>1
    <3>2. Congruent(Size, w, v)
      BY <1>3 DEF OrderInv
    <3>3. d % Size = 0
      <4> HIDE DEF w, r, k, v
      <4> QED BY <2>1, <3>1, <3>2, ModDifference
    <3> HIDE DEF d
    <3> QED BY <3>1, <3>3
  <2>3. ASSUME k <= Size, NEW i \in 0 .. k - 1
        PROVE  buffer[(r + i) % Size] = (taken + 1 + i) % Modulus
    <3> DEFINE j == k - 1 - i
    <3>1. j \in 0 .. Size - 1 /\ j < k /\ 0 - 1 - j \in Int /\ 0 - j \in Int
      BY <2>1, <2>3
    <3>2. buffer[(w - 1 - j) % Size] = (written - j) % Modulus
      BY <1>3, <3>1 DEF OrderInv
    <3>3. Congruent(Size, w, r + k) /\ Congruent(Modulus, written, taken + k)
      BY <1>3 DEF OrderInv
    <3>4. i \in Int /\ j = k - 1 - i
      BY <2>1
    <3>5. Congruent(Size, w - 1 - j, r + i)
      <4> HIDE DEF w, r, k, j
      <4>1. r + k \in Int /\ w - 1 - j \in Int /\ r + i \in Int /\ (w - 1 - j) - w = (r + i) - (r + k)
        BY <2>1, <3>1, <3>4
      <4> QED BY <2>1, <3>3, <4>1, CongruentStep
    <3>6. Congruent(Modulus, written - j, taken + 1 + i)
      <4> HIDE DEF w, r, k, j
      <4>1. /\ taken + k \in Int /\ written - j \in Int /\ taken + 1 + i \in Int
            /\ (written - j) - written = (taken + 1 + i) - (taken + k)
        BY <2>1, <3>1, <3>4
      <4> QED BY <2>1, <3>3, <4>1, CongruentStep
    <3> QED BY <3>2, <3>5, <3>6 DEF Congruent
  <2> QED BY <2>1, <2>2, <2>3 DEF UnreadInOrder, EndsAgree
<1> QED BY <1>1, <1>2, <1>3, PipeSafety, PTL DEF Spec

----------------------------------------------------------------------------
(* The flags *)

Waiting(S, s) == {S[s].q[i] : i \in 1 .. Len(S[s].q)}
Once(q)       == \A i, j \in 1 .. Len(q) : q[i] = q[j] => i = j
EndOf(t)      == IF t \in Readers THEN "r" ELSE "w"
SleepPlace(t) == IF t \in Readers THEN "r_woken" ELSE "w_woken"

(* At most one of the tasks has ever called.                               *)
OneCalls(tasks) == \A t, u \in tasks : want[t] # 0 /\ want[u] # 0 => t = u

(* A semaphore whose queue holds nobody twice and is empty when there are  *)
(* units.                                                                  *)
Tidy(S, s) == Once(S[s].q) /\ (S[s].q = <<>> \/ S[s].vl = 0)

(* Who queues at the condition variable is at the place where calls sleep. *)
QueueOK == Tidy(sem, cond) /\ \A t \in Waiting(sem, cond) : pc[t] = SleepPlace(t)

(* Who is in a call has asked for something.                               *)
Asked == \A t \in Task : want[t] = 0 => pc[t] \in {"user", "closed"}

(* With one task on each side the sleepers are flagged.                    *)
Flagged == OneCalls(Readers) /\ OneCalls(Writers) =>
             \A t \in Waiting(sem, cond) : busy[EndOf(t)]

FlagInv == QueueOK /\ Asked /\ Flagged

(* A signal keeps a semaphore tidy, adds no waiter, and leaves none if     *)
(* there was one at most.                                                  *)
LEMMA SignalQueue ==
  ASSUME NEW S \in [End -> Semaphore], NEW s \in End, Tidy(S, s)
  PROVE  /\ Tidy(Signal(S, s), s) /\ Waiting(Signal(S, s), s) \subseteq Waiting(S, s)
         /\ (\A t, u \in Waiting(S, s) : t = u) => Waiting(Signal(S, s), s) = {}
<1> DEFINE Q == S[s].q
           R == Signal(S, s)
<1>1. Q \in Seq(Task) /\ Len(Q) \in Nat /\ S[s].vl \in Nat /\ Once(Q)
  BY LenProperties DEF Semaphore, Tidy
<1>2. CASE Q = <<>>
  <2>1. R[s].q = Q /\ Len(Q) = 0
    BY <1>1, <1>2, EmptySeq DEF Signal, Semaphore
  <2>2. Waiting(R, s) = {}
    BY <2>1 DEF Waiting
  <2> QED BY <1>1, <1>2, <2>1, <2>2 DEF Tidy
<1>3. CASE Q # <<>>
  <2>1. R[s].q = Tail(Q) /\ R[s].vl = 0
    BY <1>1, <1>3 DEF Signal, Semaphore, Tidy
  <2>2. /\ Tail(Q) \in Seq(Task) /\ Len(Tail(Q)) = Len(Q) - 1 /\ Len(Q) > 0
        /\ \A i \in 1 .. Len(Q) - 1 : Tail(Q)[i] = Q[i + 1]
    BY <1>1, <1>3, HeadTailProperties, EmptySeq
  <2>3. \A i \in 1 .. Len(Q) - 1 : i + 1 \in 1 .. Len(Q) /\ i + 1 # 1 /\ 1 \in 1 .. Len(Q)
    BY <1>1
  <2>4. Once(R[s].q)
    BY <1>1, <2>1, <2>2, <2>3 DEF Once
  <2>5. Waiting(R, s) \subseteq Waiting(S, s)
    BY <2>1, <2>2, <2>3 DEF Waiting
  <2>6. ASSUME \A t, u \in Waiting(S, s) : t = u, NEW t \in Waiting(R, s) PROVE FALSE
    <3>1. PICK i \in 1 .. Len(Q) - 1 : t = Q[i + 1]
      BY <2>1, <2>2 DEF Waiting
    <3>2. Q[i + 1] = Q[1]
      BY <2>3, <2>6 DEF Waiting
    <3> QED BY <1>1, <2>3, <3>2 DEF Once
  <2> QED BY <2>1, <2>4, <2>5, <2>6 DEF Tidy
<1> QED BY <1>2, <1>3

(* A wait of a task that does not queue keeps a semaphore tidy and adds    *)
(* this task at most.                                                      *)
LEMMA WaitQueue ==
  ASSUME NEW S \in [End -> Semaphore], NEW s \in End, Tidy(S, s),
         NEW t \in Task, t \notin Waiting(S, s)
  PROVE  Tidy(Wait(S, s, t), s) /\ Waiting(Wait(S, s, t), s) \subseteq Waiting(S, s) \cup {t}
<1> DEFINE Q == S[s].q
           R == Wait(S, s, t)
<1>1. Q \in Seq(Task) /\ Len(Q) \in Nat /\ S[s].vl \in Nat /\ Once(Q)
  BY LenProperties DEF Semaphore, Tidy
<1>2. CASE S[s].vl > 0
  <2>1. R[s].q = Q /\ Q = <<>>
    BY <1>1, <1>2 DEF Wait, Semaphore, Tidy
  <2> QED BY <1>1, <2>1 DEF Tidy, Waiting
<1>3. CASE S[s].vl = 0
  <2>1. R[s].q = Append(Q, t) /\ R[s].vl = 0
    BY <1>1, <1>3 DEF Wait, Semaphore
  <2>2. /\ Len(Append(Q, t)) = Len(Q) + 1 /\ Append(Q, t)[Len(Q) + 1] = t
        /\ \A i \in 1 .. Len(Q) : Append(Q, t)[i] = Q[i]
    BY <1>1, AppendProperties
  <2>3. \A i \in 1 .. Len(Q) + 1 : i \in 1 .. Len(Q) \/ i = Len(Q) + 1
    BY <1>1
  <2>4. \A i \in 1 .. Len(Q) : Q[i] # t
    BY DEF Waiting
  <2>5. Once(R[s].q)
    BY <1>1, <2>1, <2>2, <2>3, <2>4 DEF Once
  <2>6. Waiting(R, s) \subseteq Waiting(S, s) \cup {t}
    BY <2>1, <2>2, <2>3 DEF Waiting
  <2> QED BY <2>1, <2>5, <2>6 DEF Tidy
<1> QED BY <1>1, <1>2, <1>3

(* Where the mutex is waited for or signalled the other queue stays.       *)
LEMMA WaitingElsewhere ==
  ASSUME NEW S, NEW R, NEW s, R[s] = S[s]
  PROVE  Waiting(R, s) = Waiting(S, s) /\ (Tidy(S, s) => Tidy(R, s))
BY DEF Waiting, Tidy

(* Who executes kernel code does not queue.                                *)
LEMMA RunsAwake ==
  ASSUME PipeInv, NEW t \in Task, NEW at, At(t, at)
  PROVE  pc[t] = at /\ t \notin Waiting(sem, cond)
BY WaitsAtDef DEF At, Asleep, PipeInv, Types, End, cond, Waiting

(* What a step must show: the sleepers after it, where they are, that who  *)
(* is in a call asked for something, and that sleepers are flagged.        *)
LEMMA FlagMoves ==
  ASSUME PipeInv, FlagInv, NEW t \in Task, t \notin Waiting(sem, cond),
         NEW to, pc' = [pc EXCEPT ![t] = to],
         Tidy(sem', cond), Waiting(sem', cond) \subseteq Waiting(sem, cond) \cup {t},
         t \in Waiting(sem', cond) => to = SleepPlace(t),
         \A u \in Task : want'[u] = 0 => want[u] = 0,
         to \in {"user", "closed"} \/ want'[t] # 0,
         OneCalls(Readers) /\ OneCalls(Writers) =>
            \A u \in Waiting(sem', cond) : busy'[EndOf(u)]
  PROVE  FlagInv'
<1>1. pc \in [Task -> PCs] /\ Readers \subseteq Task /\ Writers \subseteq Task
      /\ \A u \in Waiting(sem, cond) : u \in Task
  <2>1. sem[cond].q \in Seq(Task) /\ Len(sem[cond].q) \in Nat
    BY LenProperties DEF PipeInv, Types, Semaphore, End, cond
  <2>2. \A i \in 1 .. Len(sem[cond].q) : sem[cond].q[i] \in Task
    BY <2>1, ElementOfSeq
  <2> QED BY <2>2 DEF PipeInv, Types, Task, Waiting
<1>2. \A u \in Waiting(sem', cond) : pc'[u] = SleepPlace(u)
  <2> SUFFICES ASSUME NEW u \in Waiting(sem', cond) PROVE pc'[u] = SleepPlace(u)
    OBVIOUS
  <2>1. CASE u = t
    BY <1>1, <2>1
  <2>2. CASE u # t
    BY <1>1, <2>2 DEF FlagInv, QueueOK
  <2> QED BY <2>1, <2>2
<1>3. QueueOK'
  BY <1>2 DEF QueueOK, Tidy, Once, Waiting, SleepPlace, cond
<1>4. Asked'
  BY <1>1 DEF FlagInv, Asked
<1>5. (OneCalls(Readers) /\ OneCalls(Writers))' => OneCalls(Readers) /\ OneCalls(Writers)
  BY <1>1 DEF OneCalls
<1>6. Flagged'
  BY <1>5 DEF Flagged, Waiting, EndOf, cond
<1> QED BY <1>3, <1>4, <1>6 DEF FlagInv

(* The common case: the condition variable and the flags are left alone.   *)
LEMMA QuietMoves ==
  ASSUME PipeInv, FlagInv, NEW t \in Task, t \notin Waiting(sem, cond),
         NEW to, pc' = [pc EXCEPT ![t] = to], sem'[cond] = sem[cond], busy' = busy,
         \A u \in Task : want'[u] = 0 => want[u] = 0,
         to \in {"user", "closed"} \/ want'[t] # 0
  PROVE  FlagInv'
<1>1. Waiting(sem', cond) = Waiting(sem, cond) /\ Tidy(sem', cond)
  BY WaitingElsewhere DEF FlagInv, QueueOK
<1> QED BY <1>1, FlagMoves DEF FlagInv, Flagged

(* In a call of one side of a pair all sleepers are of the other side, so  *)
(* there is one at most.                                                   *)
LEMMA OtherSideSleeps ==
  ASSUME PipeInv, FlagInv, NEW tasks \in {Readers, Writers}, OneCalls(Readers), OneCalls(Writers),
         NEW t \in tasks, t \notin Waiting(sem, cond), pc[t] \notin {"user", "closed"}
  PROVE  /\ \A u \in Waiting(sem, cond) : u \in Task \ tasks
         /\ \A u, v \in Waiting(sem, cond) : u = v
<1>1. \A u \in Waiting(sem, cond) : u \in Task
  <2>1. sem[cond].q \in Seq(Task) /\ Len(sem[cond].q) \in Nat
    BY LenProperties DEF PipeInv, Types, Semaphore, End, cond
  <2>2. \A i \in 1 .. Len(sem[cond].q) : sem[cond].q[i] \in Task
    BY <2>1, ElementOfSeq
  <2> QED BY <2>2 DEF Waiting
<1>2. \A u \in Waiting(sem, cond) : want[u] # 0
  BY <1>1 DEF FlagInv, QueueOK, Asked, SleepPlace
<1>3. t \in Task /\ want[t] # 0
  BY DEF FlagInv, Asked, Task
<1> QED BY <1>1, <1>2, <1>3 DEF OneCalls, Task

(* A reader that leaves with its bytes has woken the writer that slept.    *)
LEMMA CopyOutKeepsFlags ==
  ASSUME PipeInv, FlagInv, NEW t \in Readers, NEW n, NEW at \in Critical, At(t, at), CopyOut(t, n)
  PROVE  FlagInv'
<1> DEFINE S == IF busy["w"] THEN Signal(sem, cond) ELSE sem
<1>1. t \in Task /\ t \notin Waiting(sem, cond) /\ pc[t] = at
  BY RunsAwake DEF Task
<1>2. sem \in [End -> Semaphore] /\ cond \in End /\ mutex \in End /\ cond # mutex /\ Tidy(sem, cond)
  BY DEF PipeInv, Types, End, cond, mutex, FlagInv, QueueOK
<1>3. S \in [End -> Semaphore] /\ Tidy(S, cond) /\ Waiting(S, cond) \subseteq Waiting(sem, cond)
  BY <1>1, <1>2, CondMoves, SignalQueue
<1>4. pc' = [pc EXCEPT ![t] = "user"] /\ sem' = Signal(S, mutex) /\ want' = want
  BY DEF CopyOut, Goto
<1>5. sem'[cond] = S[cond]
  <2> HIDE DEF S
  <2> QED BY <1>1, <1>2, <1>3, <1>4, CondMoves
<1>6. Waiting(sem', cond) = Waiting(S, cond) /\ Tidy(sem', cond)
  BY <1>3, <1>5, WaitingElsewhere
<1>7. ASSUME OneCalls(Readers), OneCalls(Writers), NEW u \in Waiting(S, cond) PROVE FALSE
  <2>1. /\ u \in Writers
        /\ \A v, x \in Waiting(sem, cond) : v = x
    BY <1>1, <1>3, <1>7, OtherSideSleeps DEF Critical, Task
  <2>2. busy[EndOf(u)] /\ EndOf(u) = "w"
    BY <1>3, <1>7, <2>1, PipeAssumption DEF FlagInv, Flagged, EndOf
  <2> QED BY <1>2, <1>7, <2>1, <2>2, SignalQueue
<1> HIDE DEF S
<1>8. Waiting(sem', cond) \subseteq Waiting(sem, cond)
  BY <1>3, <1>6
<1> QED BY <1>1, <1>4, <1>6, <1>7, <1>8, FlagMoves

(* A reader goes to sleep with its flag set.                               *)
LEMMA ReadSleepKeepsFlags ==
  ASSUME PipeInv, FlagInv, NEW t \in Readers, At(t, "r_check"),
         busy' = [busy EXCEPT !["r"] = TRUE],
         Goto(t, "r_woken", Wait(Signal(sem, mutex), cond, t)), want' = want
  PROVE  FlagInv'
<1> DEFINE S == Signal(sem, mutex)
<1>1. t \in Task /\ t \notin Waiting(sem, cond) /\ pc[t] = "r_check"
  BY RunsAwake DEF Task
<1>2. sem \in [End -> Semaphore] /\ cond \in End /\ mutex \in End /\ cond # mutex /\ Tidy(sem, cond)
      /\ busy \in [End -> BOOLEAN]
  BY DEF PipeInv, Types, End, cond, mutex, FlagInv, QueueOK
<1>3. S \in [End -> Semaphore] /\ S[cond] = sem[cond]
  BY <1>1, <1>2, CondMoves
<1> HIDE DEF S
<1>4. Tidy(S, cond) /\ Waiting(S, cond) = Waiting(sem, cond)
  BY <1>2, <1>3, WaitingElsewhere
<1>5. pc' = [pc EXCEPT ![t] = "r_woken"] /\ sem' = Wait(S, cond, t)
  BY DEF Goto, S
<1>6. Tidy(sem', cond) /\ Waiting(sem', cond) \subseteq Waiting(sem, cond) \cup {t}
  BY <1>1, <1>2, <1>3, <1>4, <1>5, WaitQueue
<1>7. \A e \in End : busy[e] => busy'[e]
  BY <1>2
<1>8. \A u : EndOf(u) \in End
  BY DEF EndOf, End
<1>9. busy'[EndOf(t)]
  BY <1>2 DEF EndOf, End
<1>10. want[t] # 0 /\ SleepPlace(t) = "r_woken"
  BY <1>1 DEF FlagInv, Asked, SleepPlace
<1>11. OneCalls(Readers) /\ OneCalls(Writers) => \A u \in Waiting(sem', cond) : busy'[EndOf(u)]
  BY <1>6, <1>7, <1>8, <1>9 DEF FlagInv, Flagged
<1> QED BY <1>1, <1>5, <1>6, <1>10, <1>11, FlagMoves

(* A writer that goes to sleep because the buffer is full clears the flag  *)
(* of the read end, and has woken the reader that slept.                   *)
LEMMA WriteFullKeepsFlags ==
  ASSUME PipeInv, FlagInv, NEW t \in Writers, WriteFull(t)
  PROVE  FlagInv'
<1> DEFINE freed == Signal(sem, mutex)
           S == IF busy["r"] THEN Signal(freed, cond) ELSE freed
<1>1. t \in Task /\ t \notin Waiting(sem, cond) /\ pc[t] = "w_loop" /\ t \notin Readers
  BY RunsAwake, PipeAssumption DEF Task, WriteFull
<1>2. sem \in [End -> Semaphore] /\ cond \in End /\ mutex \in End /\ cond # mutex /\ Tidy(sem, cond)
  BY DEF PipeInv, Types, End, cond, mutex, FlagInv, QueueOK
<1>3. freed \in [End -> Semaphore] /\ freed[cond] = sem[cond]
  BY <1>1, <1>2, CondMoves
<1>4. /\ pc' = [pc EXCEPT ![t] = "w_woken"] /\ sem' = Wait(S, cond, t) /\ want' = want
      /\ busy' = [e \in End |-> e = "w"]
  BY DEF WriteFull, Goto
<1> HIDE DEF freed
<1>5. Tidy(freed, cond) /\ Waiting(freed, cond) = Waiting(sem, cond)
  BY <1>2, <1>3, WaitingElsewhere
<1>6. S \in [End -> Semaphore] /\ Tidy(S, cond) /\ Waiting(S, cond) \subseteq Waiting(sem, cond)
  BY <1>1, <1>2, <1>3, <1>5, CondMoves, SignalQueue
<1>7. ASSUME OneCalls(Readers), OneCalls(Writers), NEW u \in Waiting(S, cond) PROVE FALSE
  <2>1. /\ u \in Readers
        /\ \A v, x \in Waiting(sem, cond) : v = x
    BY <1>1, <1>6, <1>7, OtherSideSleeps DEF Task
  <2>2. busy[EndOf(u)] /\ EndOf(u) = "r"
    BY <1>6, <1>7, <2>1 DEF FlagInv, Flagged, EndOf
  <2> QED BY <1>2, <1>3, <1>5, <1>7, <2>1, <2>2, SignalQueue
<1> HIDE DEF S
<1>8. Tidy(sem', cond) /\ Waiting(sem', cond) \subseteq Waiting(S, cond) \cup {t}
  BY <1>1, <1>2, <1>4, <1>6, WaitQueue
<1>9. want[t] # 0 /\ SleepPlace(t) = "w_woken" /\ busy'[EndOf(t)]
  BY <1>1, <1>4 DEF FlagInv, Asked, SleepPlace, EndOf, End
<1>10. OneCalls(Readers) /\ OneCalls(Writers) => \A u \in Waiting(sem', cond) : busy'[EndOf(u)]
  BY <1>7, <1>8, <1>9
<1>11. Waiting(sem', cond) \subseteq Waiting(sem, cond) \cup {t}
  BY <1>6, <1>8
<1> QED BY <1>1, <1>4, <1>8, <1>9, <1>10, <1>11, FlagMoves

(* The end of a write wakes a sleeper or not, and changes no flag.         *)
LEMMA WriteDoneKeepsFlags ==
  ASSUME PipeInv, FlagInv, NEW t \in Writers, WriteDone(t)
  PROVE  FlagInv'
<1> DEFINE S == IF busy["r"] THEN Signal(sem, cond) ELSE sem
<1>1. t \in Task /\ t \notin Waiting(sem, cond)
  BY RunsAwake DEF Task, WriteDone
<1>2. sem \in [End -> Semaphore] /\ cond \in End /\ mutex \in End /\ cond # mutex /\ Tidy(sem, cond)
  BY DEF PipeInv, Types, End, cond, mutex, FlagInv, QueueOK
<1>3. S \in [End -> Semaphore] /\ Tidy(S, cond) /\ Waiting(S, cond) \subseteq Waiting(sem, cond)
  BY <1>1, <1>2, CondMoves, SignalQueue
<1>4. pc' = [pc EXCEPT ![t] = "user"] /\ sem' = Signal(S, mutex) /\ want' = want /\ busy' = busy
  BY DEF WriteDone, Goto, pipeVars
<1> HIDE DEF S
<1>5. sem'[cond] = S[cond]
  BY <1>1, <1>2, <1>3, <1>4, CondMoves
<1>6. Tidy(sem', cond) /\ Waiting(sem', cond) \subseteq Waiting(sem, cond)
  BY <1>3, <1>5, WaitingElsewhere
<1>7. OneCalls(Readers) /\ OneCalls(Writers) => \A u \in Waiting(sem', cond) : busy'[EndOf(u)]
  BY <1>4, <1>6 DEF FlagInv, Flagged
<1> QED BY <1>1, <1>4, <1>6, <1>7, FlagMoves

(* Every step keeps the flags true.                                        *)
LEMMA FlagStep == PipeInv /\ FlagInv /\ [Next]_vars => FlagInv'
<1> SUFFICES ASSUME PipeInv, FlagInv, [Next]_vars PROVE FlagInv'
  OBVIOUS
<1>0. /\ Readers \subseteq Task /\ Writers \subseteq Task /\ cond # mutex /\ cond \in End /\ mutex \in End
      /\ sem \in [End -> Semaphore] /\ want \in [Task -> Nat]
  BY DEF Task, cond, mutex, End, PipeInv, Types
<1>1. ASSUME NEW t \in Task, ReadEnter(t) \/ WriteEnter(t) PROVE FlagInv'
  <2>1. \E to \in Critical :
          /\ At(t, "user") /\ Goto(t, to, Wait(sem, mutex, t)) /\ UNCHANGED pipeVars
          /\ \E n \in Nat \ {0} : want' = [want EXCEPT ![t] = n]
    BY <1>1, PipeAssumption DEF ReadEnter, WriteEnter, Enter, Critical
  <2>2. PICK to \in Critical :
          /\ At(t, "user") /\ Goto(t, to, Wait(sem, mutex, t)) /\ UNCHANGED pipeVars
          /\ \E n \in Nat \ {0} : want' = [want EXCEPT ![t] = n]
    BY <2>1
  <2>3. t \notin Waiting(sem, cond) /\ pc' = [pc EXCEPT ![t] = to] /\ busy' = busy
    BY <2>2, RunsAwake DEF Goto, pipeVars
  <2>4. sem'[cond] = sem[cond]
    BY <1>0, <2>2, CondMoves DEF Goto
  <2>5. want'[t] # 0 /\ \A u \in Task : want'[u] = 0 => want[u] = 0
    BY <1>0, <2>2
  <2> QED BY <2>3, <2>4, <2>5, QuietMoves
<1>2. ASSUME NEW t \in Task, ReadWoken(t) \/ WriteWoken(t) \/ WritePut(t) \/ WriteAfterWait(t)
      PROVE  FlagInv'
  <2>1. \E at \in {"r_woken", "w_woken", "w_loop", "w_put"} : \E to :
          /\ At(t, at) /\ (Goto(t, to, Wait(sem, mutex, t)) \/ Goto(t, to, sem))
          /\ want' = want /\ busy' = busy
    BY <1>2 DEF ReadWoken, WriteWoken, WritePut, WriteAfterWait, Put, pipeVars
  <2>2a. PICK at \in {"r_woken", "w_woken", "w_loop", "w_put"} : \E to :
          /\ At(t, at) /\ (Goto(t, to, Wait(sem, mutex, t)) \/ Goto(t, to, sem))
          /\ want' = want /\ busy' = busy
    BY <2>1
  <2>2. PICK to :
          /\ At(t, at) /\ (Goto(t, to, Wait(sem, mutex, t)) \/ Goto(t, to, sem))
          /\ want' = want /\ busy' = busy
    BY <2>2a
  <2>3. t \notin Waiting(sem, cond) /\ pc[t] = at /\ pc' = [pc EXCEPT ![t] = to]
    BY <2>2, RunsAwake DEF Goto
  <2>4. sem'[cond] = sem[cond]
    BY <1>0, <2>2, CondMoves DEF Goto
  <2>5. want'[t] # 0 /\ \A u \in Task : want'[u] = 0 => want[u] = 0
    BY <2>2, <2>3 DEF FlagInv, Asked
  <2> QED BY <2>2, <2>3, <2>4, <2>5, QuietMoves
<1>3. ASSUME NEW t \in Readers, ReadCheck(t) PROVE FlagInv'
  <2>1. "r_check" \in Critical
    BY DEF Critical
  <2> QED BY <1>3, <2>1, CopyOutKeepsFlags, ReadSleepKeepsFlags DEF ReadCheck
<1>4. ASSUME NEW t \in Readers, ReadCopy(t) PROVE FlagInv'
  <2>1. "r_copy" \in Critical
    BY DEF Critical
  <2> QED BY <1>4, <2>1, CopyOutKeepsFlags DEF ReadCopy
<1>5. ASSUME NEW t \in Task, pipe_flush(t) PROVE FlagInv'
  <2>1. /\ t \notin Waiting(sem, cond) /\ pc' = [pc EXCEPT ![t] = "closed"]
        /\ busy' = busy /\ sem' = sem /\ want' = want
    BY <1>5, RunsAwake DEF pipe_flush, pipeVars
  <2> QED BY <2>1, QuietMoves
<1>6. CASE UNCHANGED vars
  BY <1>6 DEF vars, pipeVars, FlagInv, QueueOK, Asked, Flagged, OneCalls, Tidy, Waiting
<1> QED BY <1>0, <1>1, <1>2, <1>3, <1>4, <1>5, <1>6, WriteFullKeepsFlags, WriteDoneKeepsFlags
        DEF Next, ReadStep, WriteStep

(* Between one reader and one writer whoever sleeps on the condition       *)
(* variable is flagged, so the other side knows that it must signal: no    *)
(* wakeup is lost.  A third task that calls would break it.                *)
THEOREM PipeSleepersFlagged == Spec => []SleepersFlagged
<1>1. Init => FlagInv
  <2> SUFFICES ASSUME Init PROVE FlagInv
    OBVIOUS
  <2>1. sem[cond].q = <<>> /\ Len(sem[cond].q) = 0
    BY EmptySeq DEF Init, pipe_open, End, cond
  <2>2. Waiting(sem, cond) = {} /\ Tidy(sem, cond)
    BY <2>1 DEF Waiting, Tidy, Once
  <2> QED BY <2>2 DEF Init, FlagInv, QueueOK, Asked, Flagged
<1>2. ASSUME PipeInv, FlagInv, Pair PROVE OneCalls(Readers) /\ OneCalls(Writers)
  BY <1>2 DEF Pair, Alone, OneCalls
<1>3. ASSUME PipeInv, FlagInv PROVE SleepersFlagged
  <2>1. sem \in [End -> Semaphore] /\ cond \in End
    BY <1>3 DEF PipeInv, Types, End, cond
  <2>2. \A t \in Task : WaitsAt(t, cond) => t \in Waiting(sem, cond)
    BY <2>1, WaitsAtDef DEF Waiting
  <2> QED BY <1>2, <1>3, <2>2 DEF SleepersFlagged, FlagInv, Flagged, EndOf
<1> QED BY <1>1, <1>3, FlagStep, PipeSafety, PTL DEF Spec
=============================================================================
