------------------------------ MODULE Console ------------------------------
(***************************************************************************)
(* The consoles (kernel/con.c) and the keyboard interrupt.  Every console  *)
(* is a page: a buffer of keys, a semaphore for the task that waits for    *)
(* keys, a reference count, and the links of the ring the user walks with  *)
(* Alt-Shift and the arrows.  Keys go to current_console.                  *)
(*                                                                         *)
(* A task holds at most one console here.  The semaphore is the one of     *)
(* module Semaphores; con_read is atomic up to its wait and after it, and  *)
(* the keyboard interrupts between the two.                                *)
(***************************************************************************)
EXTENDS Integers, Sequences, FiniteSets

CONSTANTS
  Task,          \* the tasks that use consoles
  Console,       \* the consoles, empty_console among them
  empty_console,
  Null,          \* no console: the null pointer
  Size,          \* CON_BUFF_SIZE
  Byte,          \* the range of the uint_8 buff_cant (256 in the code)
  ReadSizes,     \* how many keys a read may ask for
  SharedReads,   \* whether two tasks may be in con_read of one console
  Modulus        \* bound of the model: keys are numbered modulo this

ASSUME ConsoleAssumption ==
  /\ IsFiniteSet(Task)
  /\ empty_console \in Console /\ Null \notin Console
  /\ Size \in Nat \ {0} /\ Byte \in Nat /\ Byte > Size
  /\ ReadSizes \subseteq Nat \ {0}
  /\ Modulus \in Nat /\ Modulus > Size

VARIABLES
  current_console,
  next, prev, refcount, open,    \* open: the consoles whose page is allocated
  buff, buff_index_start, buff_index_end, buff_cant,
  busy, read_expected, sem,
  fd,            \* the console each task holds, or Null
  pc, want,      \* the read each task is in: where, and its size
  typed          \* per console, the number of the last key that was stored

links == <<next, prev, open>>
keys  == <<buff, buff_index_start, buff_index_end, buff_cant, typed>>
flags == <<busy, read_expected, sem>>
reads == <<pc, want>>
vars  == <<current_console, links, refcount, keys, flags, fd, reads>>

Waits(t) == \E c \in Console : \E i \in DOMAIN sem[c].q : sem[c].q[i] = t

Wait(S, t) == IF S.vl > 0 THEN [S EXCEPT !.vl = @ - 1] ELSE [S EXCEPT !.q = Append(@, t)]

Signal(S) == IF S.vl = 0 /\ S.q # <<>> THEN [S EXCEPT !.q = Tail(@)]
                                       ELSE [S EXCEPT !.vl = @ + 1]

----------------------------------------------------------------------------
(* con_init opens the empty console while there is no current one, and     *)
(* then forgets it again.  NUL is what a cell holds that has no key.       *)
NUL == 0

con_init ==
  /\ current_console = Null
  /\ open = {empty_console}
  /\ next = [c \in Console |-> c] /\ prev = [c \in Console |-> c]
  /\ refcount = [c \in Console |-> 0]
  /\ buff = [c \in Console |-> [i \in 0 .. Size - 1 |-> NUL]]
  /\ buff_index_start = [c \in Console |-> 0]
  /\ buff_index_end = [c \in Console |-> 0]
  /\ buff_cant = [c \in Console |-> 0]
  /\ typed = [c \in Console |-> 0]
  /\ busy = [c \in Console |-> FALSE]
  /\ read_expected = [c \in Console |-> 0]
  /\ sem = [c \in Console |-> [vl |-> 0, q |-> <<>>]]

Init ==
  /\ con_init
  /\ fd = [t \in Task |-> Null]
  /\ pc = [t \in Task |-> "user"] /\ want = [t \in Task |-> 0]

----------------------------------------------------------------------------
(* Opening, sharing and closing *)

(* Mutant: the successor's back link is forgotten.                         *)
JoinOneWay(c) ==
  \/ /\ current_console = Null
     /\ next' = [next EXCEPT ![c] = c] /\ prev' = [prev EXCEPT ![c] = c]
  \/ /\ current_console # Null
     /\ next' = [next EXCEPT ![c] = next[current_console], ![current_console] = c]
     /\ prev' = [prev EXCEPT ![c] = current_console]

(* The new console becomes the right neighbour of the current one.         *)
Join(c) ==
  \/ /\ current_console = Null
     /\ next' = [next EXCEPT ![c] = c] /\ prev' = [prev EXCEPT ![c] = c]
  \/ /\ current_console # Null
     /\ next' = [next EXCEPT ![c] = next[current_console], ![current_console] = c]
     /\ prev' = [prev EXCEPT ![c] = current_console, ![next[current_console]] = c]

(* What con_open writes in the fields of a page that has to do with keys.   *)
Clean(c) ==
  /\ buff' = [buff EXCEPT ![c] = [i \in 0 .. Size - 1 |-> NUL]]
  /\ buff_index_start' = [buff_index_start EXCEPT ![c] = 0]
  /\ buff_index_end' = [buff_index_end EXCEPT ![c] = 0]
  /\ buff_cant' = [buff_cant EXCEPT ![c] = 0]
  /\ typed' = [typed EXCEPT ![c] = 0]
  /\ busy' = [busy EXCEPT ![c] = FALSE]
  /\ read_expected' = [read_expected EXCEPT ![c] = 0]
  /\ sem' = [sem EXCEPT ![c] = [vl |-> 0, q |-> <<>>]]

(* con_open on a fresh page, and the descriptor that sys_open then makes.  *)
con_open(t, c) ==
  /\ pc[t] = "user" /\ fd[t] = Null
  /\ c \notin open
  /\ open' = open \cup {c}
  /\ Join(c)
  /\ current_console' = c
  /\ refcount' = [refcount EXCEPT ![c] = 1]
  /\ Clean(c)
  /\ fd' = [fd EXCEPT ![t] = c]
  /\ UNCHANGED reads

(* fork: a child u that inherits the console of t.                         *)
Inherit(t, u) ==
  /\ pc[t] = "user" /\ fd[t] # Null
  /\ pc[u] = "user" /\ fd[u] = Null
  /\ fd' = [fd EXCEPT ![u] = fd[t]]
  /\ refcount' = [refcount EXCEPT ![fd[t]] = @ + 1]
  /\ UNCHANGED <<current_console, links, keys, flags, reads>>

(* Mutant: the page is freed although others hold the console.             *)
FlushAlways(t) ==
  /\ pc[t] = "user" /\ fd[t] # Null
  /\ LET c == fd[t]
     IN  /\ next' = [next EXCEPT ![prev[c]] = next[c]]
         /\ prev' = [prev EXCEPT ![next[c]] = prev[c]]
         /\ open' = open \ {c}
         /\ current_console' =
              IF current_console # c THEN current_console
              ELSE IF next[c] = c THEN empty_console ELSE next[c]
  /\ fd' = [fd EXCEPT ![t] = Null]
  /\ UNCHANGED <<refcount, keys, flags, reads>>

(* close or exit.  The last holder takes the console out of the ring and   *)
(* frees its page; the user is moved to the right, or to the empty console *)
(* when there is no other.  The contents of a free page mean nothing; the  *)
(* model keeps them clean.                                                 *)
con_flush(t) ==
  /\ pc[t] = "user" /\ fd[t] # Null
  /\ LET c == fd[t]
     IN  \/ /\ refcount[c] > 1
            /\ refcount' = [refcount EXCEPT ![c] = @ - 1]
            /\ UNCHANGED <<current_console, links, keys, flags>>
         \/ /\ refcount[c] <= 1
            /\ next' = [next EXCEPT ![prev[c]] = next[c], ![c] = c]
            /\ prev' = [prev EXCEPT ![next[c]] = prev[c], ![c] = c]
            /\ open' = open \ {c}
            /\ Clean(c)
            /\ current_console' =
                 IF current_console # c THEN current_console
                 ELSE IF next[c] = c THEN empty_console ELSE next[c]
            /\ refcount' = [refcount EXCEPT ![c] = 0]
  /\ fd' = [fd EXCEPT ![t] = Null]
  /\ UNCHANGED reads

----------------------------------------------------------------------------
(* Reading *)

(* Mutant: the read index does not wrap with the buffer.                   *)
TakeNoWrap(c, n) ==
  /\ buff_index_start' = [buff_index_start EXCEPT ![c] = (@ + n) % (Size + 1)]
  /\ buff_cant' = [buff_cant EXCEPT ![c] = (@ - n) % Byte]

(* Take n keys out of the buffer: buff_cant is an unsigned byte.           *)
Take(c, n) ==
  /\ buff_index_start' = [buff_index_start EXCEPT ![c] = (@ + n) % Size]
  /\ buff_cant' = [buff_cant EXCEPT ![c] = (@ - n) % Byte]

(* No two tasks read one console at a time, unless SharedReads.            *)
MayRead(t, c) ==
  SharedReads \/ \A u \in Task : fd[u] = c => pc[u] = "user"

(* A read that asks for more than the buffer can hold is refused at once.  *)
con_read(t) ==
  /\ pc[t] = "user" /\ fd[t] # Null
  /\ MayRead(t, fd[t])
  /\ \E n \in ReadSizes :
       /\ n <= Size
       /\ LET c == fd[t]
          IN  \/ /\ buff_cant[c] >= n
                 /\ Take(c, n)
                 /\ read_expected' = [read_expected EXCEPT ![c] = 0]
                 /\ UNCHANGED <<buff, buff_index_end, typed, busy, sem, reads>>
              \/ /\ buff_cant[c] < n
                 /\ busy' = [busy EXCEPT ![c] = TRUE]
                 /\ read_expected' = [read_expected EXCEPT ![c] = n]
                 /\ sem' = [sem EXCEPT ![c] = Wait(@, t)]
                 /\ pc' = [pc EXCEPT ![t] = "woken"]
                 /\ want' = [want EXCEPT ![t] = n]
                 /\ UNCHANGED keys
  /\ UNCHANGED <<current_console, links, refcount, fd>>

(* After the wait the keys are taken without a new test.                   *)
ReadWoken(t) ==
  /\ pc[t] = "woken" /\ ~Waits(t)
  /\ Take(fd[t], want[t])
  /\ read_expected' = [read_expected EXCEPT ![fd[t]] = 0]
  /\ pc' = [pc EXCEPT ![t] = "user"]
  /\ want' = [want EXCEPT ![t] = 0]
  /\ UNCHANGED <<current_console, links, refcount, buff, buff_index_end, typed,
                 busy, sem, fd>>

----------------------------------------------------------------------------
(* The keyboard interrupt.  With no console open yet it would use the null *)
(* pointer; that is not modelled.                                          *)

(* Keys are numbered 1 .. Modulus, over and over. *)
Successor(k) == (k % Modulus) + 1

(* Mutant: the key goes one cell too far.                                  *)
StoreAhead(c) ==
  /\ buff' = [buff EXCEPT ![c][(buff_index_end[c] + 1) % Size] = Successor(typed[c])]
  /\ typed' = [typed EXCEPT ![c] = Successor(@)]
  /\ buff_index_end' = [buff_index_end EXCEPT ![c] = (@ + 1) % Size]
  /\ buff_cant' = [buff_cant EXCEPT ![c] = @ + 1]

Store(c) ==
  /\ buff' = [buff EXCEPT ![c][buff_index_end[c]] = Successor(typed[c])]
  /\ typed' = [typed EXCEPT ![c] = Successor(@)]
  /\ buff_index_end' = [buff_index_end EXCEPT ![c] = (@ + 1) % Size]
  /\ buff_cant' = [buff_cant EXCEPT ![c] = @ + 1]

(* Mutant: the reader is woken one key early.                              *)
WakeEarly(c) ==
  IF buff_cant[c] + 2 >= read_expected[c] /\ busy[c]
  THEN /\ busy' = [busy EXCEPT ![c] = FALSE]
       /\ sem' = [sem EXCEPT ![c] = Signal(@)]
  ELSE UNCHANGED <<busy, sem>>

(* The key makes it enough for the task that waits. *)
WakeReader(c) ==
  IF buff_cant[c] + 1 >= read_expected[c] /\ busy[c]
  THEN /\ busy' = [busy EXCEPT ![c] = FALSE]
       /\ sem' = [sem EXCEPT ![c] = Signal(@)]
  ELSE UNCHANGED <<busy, sem>>

(* A key that prints.  With a full buffer it is dropped.                   *)
console_keyPressed ==
  /\ current_console # Null
  /\ buff_cant[current_console] < Size
  /\ Store(current_console)
  /\ WakeReader(current_console)
  /\ UNCHANGED <<current_console, links, refcount, buff_index_start,
                 read_expected, fd, reads>>

move_to_right_console ==
  /\ current_console # Null
  /\ current_console' = next[current_console]
  /\ UNCHANGED <<links, refcount, keys, flags, fd, reads>>

move_to_left_console ==
  /\ current_console # Null
  /\ current_console' = prev[current_console]
  /\ UNCHANGED <<links, refcount, keys, flags, fd, reads>>

(* The system call run clears the cells of the current console, whoever    *)
(* called it, and not their count.                                         *)
sys_run ==
  /\ current_console # Null
  /\ buff' = [buff EXCEPT ![current_console] = [i \in 0 .. Size - 1 |-> NUL]]
  /\ UNCHANGED <<current_console, links, refcount, buff_index_start,
                 buff_index_end, buff_cant, typed, flags, fd, reads>>

----------------------------------------------------------------------------
Next ==
  \/ \E t \in Task, c \in Console : con_open(t, c)
  \/ \E t, u \in Task : Inherit(t, u)
  \/ \E t \in Task : con_flush(t) \/ con_read(t) \/ ReadWoken(t)
  \/ console_keyPressed \/ move_to_right_console \/ move_to_left_console
  \/ sys_run

Spec == Init /\ [][Next]_vars

----------------------------------------------------------------------------
(* Types. *)
ConsoleTypeOK ==
  /\ current_console \in Console \cup {Null}
  /\ next \in [Console -> Console] /\ prev \in [Console -> Console]
  /\ open \subseteq Console
  /\ refcount \in [Console -> 0 .. Cardinality(Task)]
  /\ buff \in [Console -> [0 .. Size - 1 -> 0 .. Modulus]]
  /\ buff_index_start \in [Console -> 0 .. Size - 1]
  /\ buff_index_end \in [Console -> 0 .. Size - 1]
  /\ buff_cant \in [Console -> 0 .. Byte - 1]
  /\ busy \in [Console -> BOOLEAN] /\ read_expected \in [Console -> 0 .. Size]
  /\ \A c \in Console : sem[c].vl \in Nat /\ sem[c].q \in Seq(Task)
  /\ fd \in [Task -> Console \cup {Null}]
  /\ pc \in [Task -> {"user", "woken"}] /\ want \in [Task -> 0 .. Size]

(* From the current console the user reaches the same consoles to the     *)
(* right and to the left, every open one among them; only the empty        *)
(* console may be out of the ring.  What is reached is what every set has  *)
(* that has the current console and is closed under the steps.             *)
AllReachable ==
  current_console # Null =>
    LET Reached(step) ==
          {c \in Console : \A S \in SUBSET Console :
              current_console \in S /\ (\A d \in S : step[d] \in S) => c \in S}
        ring == Reached(next)
    IN  /\ Reached(prev) = ring
        /\ open \ {empty_console} \subseteq ring
        /\ ring \subseteq open
        /\ \A c \in ring : prev[next[c]] = c /\ next[prev[c]] = c

(* The reference count is the number of tasks that hold the console, so    *)
(* nobody reads or waits on a freed page and every unheld page is freed.   *)
HoldersCounted ==
  \A c \in Console \ {empty_console} :
    LET holders == {t \in Task : fd[t] = c}
    IN  /\ c \in open <=> holders # {}
        /\ c \in open => refcount[c] = Cardinality(holders)

(* The unread cells hold the last keys in the order they were typed, or    *)
(* NUL where sys_run has cleared them; count and indices agree.            *)
KeysInOrder ==
  \A c \in open :
    /\ (buff_index_end[c] - buff_index_start[c] - buff_cant[c]) % Size = 0
    /\ buff_cant[c] <= Size
    /\ \A i \in 0 .. buff_cant[c] - 1 :
         buff[c][(buff_index_start[c] + i) % Size] \in
           {NUL, Successor(typed[c] - buff_cant[c] + i)}

(* A task that waits for keys is flagged and does not have them yet, and   *)
(* a task that was woken has them.                                         *)
WokenWhenEnough ==
  \A t \in Task : pc[t] = "woken" =>
    LET c == fd[t]
    IN  IF Waits(t) THEN busy[c] /\ read_expected[c] = want[t] /\ buff_cant[c] < want[t]
                    ELSE buff_cant[c] >= want[t]
=============================================================================
