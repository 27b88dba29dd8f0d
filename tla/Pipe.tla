-------------------------------- MODULE Pipe --------------------------------
(***************************************************************************)
(* One pipe (kernel/pipe.c), used by tasks that inherited its two ends     *)
(* through fork.  Each end is a pipedev: busy, cursor and buffer_cant, and *)
(* a semaphore: the one of the write end is the mutex of the pipe, the one *)
(* of the read end serves readers and writers as a condition variable.     *)
(*                                                                         *)
(* The semaphores are those of module Semaphores, which Kernel implements. *)
(* Kernel code is not preempted: a task that entered pipe_read or          *)
(* pipe_write keeps the CPU until it blocks or returns (variable cpu), and *)
(* any task that is not blocked may be the next to get it.                 *)
(***************************************************************************)
EXTENDS Integers, Sequences, FiniteSets

CONSTANTS
  Readers, Writers,       \* the tasks that hold the read and the write end
  Size,                   \* PIPE_BUFF_SIZE
  ReadSizes, WriteSizes,  \* how much a call may ask for
  MayClose,               \* whether the tasks close their end
  MaxVl,     \* bound of the model: no write starts once the condition
             \* semaphore has collected so many signals
  Modulus,   \* bound of the model: bytes are numbered modulo this
  None

ASSUME PipeAssumption ==
  /\ Readers \cap Writers = {} /\ None \notin Readers \cup Writers
  /\ Size \in Nat \ {0} /\ Modulus \in Nat /\ Modulus > 2 * Size
  /\ ReadSizes \subseteq Nat \ {0} /\ WriteSizes \subseteq Nat \ {0}
  /\ MayClose \in BOOLEAN /\ MaxVl \in Nat

Task == Readers \cup Writers

VARIABLES
  pc,            \* where each task is in pipe_read or pipe_write
  cpu,           \* the task that executes kernel code, None between calls
  want,          \* the size each task has asked for
  got,           \* bytes already written by the call of a writer
  sem,           \* the two semaphores: value and queue
  busy, cursor, buffer_cant,   \* fields of the ends "r" and "w"
  buffer,        \* the shared buffer; a cell holds the number of its byte
  written, taken \* number of the last byte written, of the last one read

pipeVars == <<busy, cursor, buffer_cant, buffer, written, taken>>
vars == <<pc, cpu, want, got, sem, pipeVars>>

End == {"r", "w"}
mutex == "w"   \* write_pipe.sem
cond  == "r"   \* read_pipe.sem

Open(end) == {t \in IF end = "r" THEN Readers ELSE Writers : pc[t] # "closed"}
refcount(end) == Cardinality(Open(end))

(* Wait and Signal on one semaphore of S, as sem_wait and sem_signal do. *)
Wait(S, s, t) ==
  IF S[s].vl > 0 THEN [S EXCEPT ![s].vl = @ - 1]
                 ELSE [S EXCEPT ![s].q = Append(@, t)]

Signal(S, s) ==
  IF S[s].vl = 0 /\ S[s].q # <<>> THEN [S EXCEPT ![s].q = Tail(@)]
                                  ELSE [S EXCEPT ![s].vl = @ + 1]

WaitsAt(t, s) == \E i \in DOMAIN sem[s].q : sem[s].q[i] = t
Asleep(t)     == \E s \in End : WaitsAt(t, s)

----------------------------------------------------------------------------
(* pipe_open: the ends are open at Init, the page is zeroed by kalloc. *)
pipe_open ==
  /\ sem = [s \in End |-> [vl |-> IF s = mutex THEN 1 ELSE 0, q |-> <<>>]]
  /\ busy = [e \in End |-> FALSE]
  /\ cursor = [e \in End |-> 0]
  /\ buffer_cant = [e \in End |-> 0]
  /\ buffer = [i \in 0 .. Size - 1 |-> 0]

Init ==
  /\ pipe_open
  /\ pc = [t \in Task |-> "user"] /\ cpu = None
  /\ want = [t \in Task |-> 0] /\ got = [t \in Task |-> 0]
  /\ written = 0 /\ taken = 0

(* Task t may execute from point `at`; with S it goes on at `to`, and if S *)
(* has it queued somewhere it has left the CPU.                            *)
At(t, at) == cpu \in {None, t} /\ pc[t] = at /\ ~Asleep(t)

Goto(t, to, S) ==
  /\ pc' = [pc EXCEPT ![t] = to]
  /\ sem' = S
  /\ cpu' = IF to = "user" \/ \E s \in End : \E i \in DOMAIN S[s].q : S[s].q[i] = t
            THEN None ELSE t

(* Entry: PIPE_ERROR_CLOSED at once when the other end is closed, else     *)
(* wait for the mutex.                                                     *)
Enter(t, otherEnd, sizes, to) ==
  /\ At(t, "user") /\ cpu = None
  /\ refcount(otherEnd) # 0
  /\ \E n \in sizes : want' = [want EXCEPT ![t] = n]
  /\ got' = [got EXCEPT ![t] = 0]
  /\ Goto(t, to, Wait(sem, mutex, t))
  /\ UNCHANGED pipeVars

----------------------------------------------------------------------------
(* pipe_read *)

(* Mutant: the cursor runs past the end of the buffer.                     *)
CopyOutNoWrap(t, n) ==
  /\ cursor' = [cursor EXCEPT !["r"] = @ + n]
  /\ buffer_cant' = [e \in End |-> buffer_cant[e] - n]
  /\ taken' = (taken + n) % Modulus
  /\ busy' = [busy EXCEPT !["w"] = FALSE]
  /\ Goto(t, "user",
          Signal(IF busy["w"] THEN Signal(sem, cond) ELSE sem, mutex))
  /\ UNCHANGED <<want, got, buffer, written>>

(* Copy n bytes out, wake the writer that waits for room, leave.           *)
CopyOut(t, n) ==
  /\ cursor' = [cursor EXCEPT !["r"] = (@ + n) % Size]
  /\ buffer_cant' = [e \in End |-> buffer_cant[e] - n]
  /\ taken' = (taken + n) % Modulus
  /\ busy' = [busy EXCEPT !["w"] = FALSE]
  /\ Goto(t, "user",
          Signal(IF busy["w"] THEN Signal(sem, cond) ELSE sem, mutex))
  /\ UNCHANGED <<want, got, buffer, written>>

ReadEnter(t) == Enter(t, "w", ReadSizes, "r_check")

(* Mutant: the reader goes to sleep without a flag.                        *)
ReadCheckUnflagged(t) ==
  /\ At(t, "r_check")
  /\ \/ buffer_cant["r"] >= want[t] /\ CopyOut(t, want[t])
     \/ buffer_cant["r"] < want[t] /\ busy["w"] /\ CopyOut(t, buffer_cant["r"])
     \/ /\ buffer_cant["r"] < want[t] /\ ~busy["w"]
        /\ Goto(t, "r_woken", Wait(Signal(sem, mutex), cond, t))
        /\ UNCHANGED <<want, got, pipeVars>>

ReadCheck(t) ==
  /\ At(t, "r_check")
  /\ \/ buffer_cant["r"] >= want[t] /\ CopyOut(t, want[t])
     \/ buffer_cant["r"] < want[t] /\ busy["w"] /\ CopyOut(t, buffer_cant["r"])
     \/ /\ buffer_cant["r"] < want[t] /\ ~busy["w"]
        /\ busy' = [busy EXCEPT !["r"] = TRUE]
        /\ Goto(t, "r_woken", Wait(Signal(sem, mutex), cond, t))
        /\ UNCHANGED <<want, got, cursor, buffer_cant, buffer, written, taken>>

(* Mutant: the woken reader copies without the mutex.                      *)
ReadWokenNoMutex(t) ==
  /\ At(t, "r_woken")
  /\ Goto(t, "r_copy", sem)
  /\ UNCHANGED <<want, got, pipeVars>>

(* Woken: take the mutex again.  busy stays set, see pipe.c:119.           *)
ReadWoken(t) ==
  /\ At(t, "r_woken")
  /\ Goto(t, "r_copy", Wait(sem, mutex, t))
  /\ UNCHANGED <<want, got, pipeVars>>

ReadCopy(t) ==
  /\ At(t, "r_copy")
  /\ CopyOut(t, IF buffer_cant["r"] < want[t] THEN buffer_cant["r"] ELSE want[t])

----------------------------------------------------------------------------
(* pipe_write *)

(* Bounds of the model: no write starts while the condition semaphore has  *)
(* collected MaxVl signals or the buffer is overfull (see FitsInBuffer).   *)
WriteEnter(t) ==
  /\ sem[cond].vl < MaxVl /\ buffer_cant["w"] <= Size
  /\ Enter(t, "r", WriteSizes, "w_loop")

(* Mutant: the cursor moves before the byte is stored. *)
PutAfterAdvance(t) ==
  /\ cursor' = [cursor EXCEPT !["w"] = (@ + 1) % Size]
  /\ buffer' = [buffer EXCEPT ![cursor'["w"]] = (written + 1) % Modulus]
  /\ buffer_cant' = [e \in End |-> buffer_cant[e] + 1]
  /\ written' = (written + 1) % Modulus
  /\ got' = [got EXCEPT ![t] = @ + 1]
  /\ Goto(t, "w_loop", sem)
  /\ UNCHANGED <<want, busy, taken>>

(* Write the next byte. *)
Put(t) ==
  /\ buffer' = [buffer EXCEPT ![cursor["w"]] = (written + 1) % Modulus]
  /\ cursor' = [cursor EXCEPT !["w"] = (@ + 1) % Size]
  /\ buffer_cant' = [e \in End |-> buffer_cant[e] + 1]
  /\ written' = (written + 1) % Modulus
  /\ got' = [got EXCEPT ![t] = @ + 1]
  /\ Goto(t, "w_loop", sem)
  /\ UNCHANGED <<want, busy, taken>>

WritePut(t) ==
  /\ At(t, "w_loop") /\ got[t] < want[t] /\ buffer_cant["w"] # Size
  /\ Put(t)

(* Mutant: the writer goes to sleep without waking the reader.             *)
WriteFullSilent(t) ==
  /\ At(t, "w_loop") /\ got[t] < want[t] /\ buffer_cant["w"] = Size
  /\ busy' = [e \in End |-> e = "w"]
  /\ Goto(t, "w_woken", Wait(Signal(sem, mutex), cond, t))
  /\ UNCHANGED <<want, got, cursor, buffer_cant, buffer, written, taken>>

(* The buffer is full: release the mutex, wake a waiting reader, and wait  *)
(* at the condition variable.                                              *)
WriteFull(t) ==
  /\ At(t, "w_loop") /\ got[t] < want[t] /\ buffer_cant["w"] = Size
  /\ busy' = [e \in End |-> e = "w"]
  /\ LET freed == Signal(sem, mutex)
     IN  Goto(t, "w_woken",
              Wait(IF busy["r"] THEN Signal(freed, cond) ELSE freed, cond, t))
  /\ UNCHANGED <<want, got, cursor, buffer_cant, buffer, written, taken>>

WriteWoken(t) ==
  /\ At(t, "w_woken")
  /\ Goto(t, "w_put", Wait(sem, mutex, t))
  /\ UNCHANGED <<want, got, pipeVars>>

(* After the wait the byte is written without a new test for room. *)
WriteAfterWait(t) == At(t, "w_put") /\ Put(t)

(* The end of the loop: a waiting reader is signalled, its busy flag is    *)
(* not cleared.                                                            *)
WriteDone(t) ==
  /\ At(t, "w_loop") /\ got[t] = want[t]
  /\ Goto(t, "user",
          Signal(IF busy["r"] THEN Signal(sem, cond) ELSE sem, mutex))
  /\ UNCHANGED <<want, got, pipeVars>>

----------------------------------------------------------------------------
(* pipe_flush, by close or exit: the reference goes, nobody is signalled.  *)
pipe_flush(t) ==
  /\ MayClose
  /\ At(t, "user") /\ cpu = None
  /\ pc' = [pc EXCEPT ![t] = "closed"]
  /\ UNCHANGED <<cpu, want, got, sem, pipeVars>>

ReadStep(t)  == ReadCheck(t) \/ ReadWoken(t) \/ ReadCopy(t)
WriteStep(t) == WritePut(t) \/ WriteFull(t) \/ WriteWoken(t) \/ WriteAfterWait(t)
                \/ WriteDone(t)

Next ==
  \/ \E t \in Readers : ReadEnter(t) \/ ReadStep(t)
  \/ \E t \in Writers : WriteEnter(t) \/ WriteStep(t)
  \/ \E t \in Task : pipe_flush(t)

Spec == Init /\ [][Next]_vars

(* Every runnable task gets the CPU (RoundRobin of Sched) and the programs *)
(* go on reading and writing.                                              *)
FairSpec ==
  /\ Spec
  /\ \A t \in Readers : WF_vars(ReadEnter(t)) /\ WF_vars(ReadStep(t))
  /\ \A t \in Writers : WF_vars(WriteEnter(t)) /\ WF_vars(WriteStep(t))

----------------------------------------------------------------------------
(* Types.  buffer_cant is not bounded by Size: see FitsInBuffer. *)
PipeTypeOK ==
  /\ pc \in [Task -> {"user", "closed", "r_check", "r_woken", "r_copy",
                      "w_loop", "w_woken", "w_put"}]
  /\ cpu \in Task \cup {None}
  /\ busy \in [End -> BOOLEAN]
  /\ cursor \in [End -> 0 .. Size - 1]
  /\ buffer_cant["r"] \in Nat /\ buffer_cant["w"] \in Nat
  /\ buffer \in [0 .. Size - 1 -> 0 .. Modulus - 1]
  /\ \A s \in End : sem[s].vl \in Nat /\ sem[s].q \in Seq(Task)

(* The mutex is a mutex: either it is free, or exactly one task is in the  *)
(* critical section, through all the places where a call lets it go and    *)
(* takes it back.                                                          *)
CriticalSection ==
  LET inside == {t \in Task : /\ pc[t] \in {"r_check", "r_copy", "w_loop", "w_put"}
                              /\ ~WaitsAt(t, mutex)}
  IN  Cardinality(inside) + sem[mutex].vl = 1

(* The two ends agree on how much the buffer holds, and the distance       *)
(* between the cursors agrees with it.                                     *)
EndsAgree ==
  /\ buffer_cant["r"] = buffer_cant["w"]
  /\ (cursor["w"] - cursor["r"] - buffer_cant["r"]) % Size = 0

(* The ends agree, and as long as what is counted fits in the buffer the   *)
(* cells from the read cursor on hold the bytes written and not yet read,  *)
(* in order.                                                               *)
UnreadInOrder ==
  /\ EndsAgree
  /\ buffer_cant["r"] <= Size =>
       \A i \in 0 .. buffer_cant["r"] - 1 :
          buffer[(cursor["r"] + i) % Size] = (taken + 1 + i) % Modulus

(* The pipe is used as the program of the tests uses it: one open reader   *)
(* and one open writer, the other tasks closed their end without a call.   *)
Alone(tasks) == \E t \in tasks :
  pc[t] # "closed" /\ \A u \in tasks \ {t} : pc[u] = "closed" /\ want[u] = 0
Pair == Alone(Readers) /\ Alone(Writers)

(* A reader or writer of a pair that sleeps on the condition variable has  *)
(* its end flagged busy, so the other side knows that it must signal.      *)
(* With a second reader it fails: the flag is one per end.                 *)
SleepersFlagged == Pair =>
  \A t \in Task : WaitsAt(t, cond) => busy[IF t \in Readers THEN "r" ELSE "w"]

(* Between a pair every call returns as long as both programs go on        *)
(* calling and neither closes (informe: each end has its semaphore "de     *)
(* manera que puedan despertarse constantemente y se eviten los            *)
(* deadlocks").                                                            *)
CallsReturn == \A t \in Task :
  pc[t] \notin {"user", "closed"} ~> pc[t] = "user" \/ ~Pair

(* pipe.c:164: with a full buffer nothing is written ("El buffer esta      *)
(* lleno no puedo escribir"); buffer_cant stays within buffer_size.        *)
FitsInBuffer == buffer_cant["w"] <= Size
=============================================================================
