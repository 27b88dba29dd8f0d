--------------------------- MODULE ConsoleProofs ---------------------------
(***************************************************************************)
(* Proofs, for any number of tasks and consoles and any size of buffer     *)
(* and reads: the reference count of a console is the number of its        *)
(* holders; indices and counts keep their types; from the current console  *)
(* the user reaches every open one; a task that waits for keys is woken    *)
(* when they are there and not earlier; and the unread keys lie in the     *)
(* buffer in order.  The last two are about programs that never have two   *)
(* reads on one console at a time (SharedReads = FALSE).                   *)
(*                                                                         *)
(* HoldInv, the holders, carries the others: a page that is freed under a  *)
(* waiting reader would lose it, and one that is freed twice the ring.     *)
(***************************************************************************)
EXTENDS Console, Numbers, SequenceTheorems, FiniteSetTheorems, TLAPS

Holders(c) == {t \in Task : fd[t] = c}

Counted == \A c \in Console \ {empty_console} :
  /\ c \in open <=> Holders(c) # {}
  /\ c \in open => refcount[c] = Cardinality(Holders(c))

HoldInv ==
  /\ fd \in [Task -> Console \cup {Null}] /\ refcount \in [Console -> Nat]
  /\ open \subseteq Console /\ empty_console \in open
  /\ \A t \in Task : fd[t] # empty_console
  /\ Counted

(* The semaphore of a console never has a unit: it is signalled only when  *)
(* the one task that reads waits, and busy says whether it does.           *)
WaiterAt(c, t) ==
  /\ sem[c].q = <<t>> /\ pc[t] = "woken" /\ fd[t] = c
  /\ read_expected[c] = want[t] /\ buff_cant[c] < want[t]

ReadTypes ==
  /\ pc \in [Task -> {"user", "woken"}] /\ want \in [Task -> Nat]
  /\ buff_cant \in [Console -> 0 .. Size] /\ read_expected \in [Console -> Nat]
  /\ busy \in [Console -> BOOLEAN]
  /\ sem \in [Console -> [vl : {0}, q : Seq(Task)]]
  /\ current_console \in Console \cup {Null} /\ next \in [Console -> Console]
  /\ prev \in [Console -> Console]

ReadInv ==
  /\ ReadTypes
  /\ \A t \in Task : pc[t] = "woken" => fd[t] \in Console
  /\ \A t, u \in Task : pc[t] = "woken" /\ pc[u] = "woken" /\ fd[t] = fd[u] => t = u
  /\ \A c \in Console : IF busy[c] THEN \E t \in Task : WaiterAt(c, t) ELSE sem[c].q = <<>>
  /\ \A t \in Task : pc[t] = "woken" /\ sem[fd[t]].q # <<t>> => buff_cant[fd[t]] >= want[t]

----------------------------------------------------------------------------
(* Holders *)

(* There are finitely many of them.                                        *)
LEMMA HoldersFinite ==
  ASSUME NEW S \in SUBSET Task
  PROVE  IsFiniteSet(S) /\ Cardinality(S) \in Nat /\ (Cardinality(S) = 0 <=> S = {})
BY ConsoleAssumption, FS_Subset, FS_CardinalityType, FS_EmptySet

(* A task that holds nothing gets a console, one that holds one loses it.  *)
LEMMA HoldersMove ==
  ASSUME HoldInv, NEW t \in Task, NEW d \in Console \cup {Null}, fd' = [fd EXCEPT ![t] = d],
         fd[t] = Null \/ d = Null
  PROVE  /\ \A c \in Console : Holders(c)' = IF c = d THEN Holders(c) \cup {t} ELSE Holders(c) \ {t}
         /\ fd' \in [Task -> Console \cup {Null}]
BY ConsoleAssumption DEF HoldInv, Holders

(* con_open on a fresh page.                                               *)
LEMMA OpenKeepsHolders ==
  ASSUME HoldInv, NEW t \in Task, NEW c \in Console, con_open(t, c)
  PROVE  HoldInv'
<1>1. /\ fd[t] = Null /\ c \notin open /\ open' = open \cup {c}
      /\ refcount' = [refcount EXCEPT ![c] = 1] /\ fd' = [fd EXCEPT ![t] = c]
  BY DEF con_open
<1>2. Holders(c) = {} /\ c # empty_console
  BY <1>1 DEF HoldInv, Counted, Holders
<1>3. \A x \in Console : Holders(x)' = IF x = c THEN {t} ELSE Holders(x)
  <2>1. \A x \in Console : Holders(x)' = IF x = c THEN Holders(x) \cup {t} ELSE Holders(x) \ {t}
    BY <1>1, HoldersMove
  <2>2. \A x \in Console : t \notin Holders(x)
    BY <1>1, ConsoleAssumption DEF Holders
  <2> QED BY <1>2, <2>1, <2>2
<1>4. Cardinality({t}) = 1
  BY FS_Singleton
<1>5. ASSUME NEW x \in Console \ {empty_console}
      PROVE  /\ x \in open' <=> Holders(x)' # {}
             /\ x \in open' => refcount'[x] = Cardinality(Holders(x)')
  <2>1. CASE x = c
    BY <1>1, <1>3, <1>4, <2>1 DEF HoldInv
  <2>2. CASE x # c
    BY <1>1, <1>3, <2>2 DEF HoldInv, Counted
  <2> QED BY <2>1, <2>2
<1>6. \A u \in Task : fd'[u] # empty_console
  BY <1>1, <1>2 DEF HoldInv
<1>7. Counted' /\ fd' \in [Task -> Console \cup {Null}]
  BY <1>1, <1>5, HoldersMove DEF Counted
<1> QED BY <1>1, <1>6, <1>7 DEF HoldInv

(* A child inherits.                                                       *)
LEMMA InheritKeepsHolders ==
  ASSUME HoldInv, NEW t \in Task, NEW u \in Task, Inherit(t, u)
  PROVE  HoldInv'
<1> DEFINE c == fd[t]
<1>1. /\ c # Null /\ fd[u] = Null /\ fd' = [fd EXCEPT ![u] = c]
      /\ refcount' = [refcount EXCEPT ![c] = @ + 1] /\ open' = open /\ c \in Console
  BY DEF Inherit, links, HoldInv
<1>2. \A x \in Console : Holders(x)' = IF x = c THEN Holders(x) \cup {u} ELSE Holders(x)
  <2> HIDE DEF c
  <2>1. \A x \in Console : Holders(x)' = IF x = c THEN Holders(x) \cup {u} ELSE Holders(x) \ {u}
    BY <1>1, HoldersMove
  <2>2. \A x \in Console : u \notin Holders(x)
    BY <1>1, ConsoleAssumption DEF Holders
  <2> QED BY <2>1, <2>2
<1>3. c # empty_console /\ c \in open /\ refcount[c] = Cardinality(Holders(c)) /\ u \notin Holders(c)
  BY <1>1, ConsoleAssumption DEF HoldInv, Counted, Holders
<1>4. Cardinality(Holders(c) \cup {u}) = refcount[c] + 1
  BY <1>3, HoldersFinite, FS_AddElement DEF Holders
<1>5. Counted'
  BY <1>1, <1>2, <1>3, <1>4 DEF HoldInv, Counted
<1> QED BY <1>1, <1>5, HoldersMove, <1>3 DEF HoldInv

(* A holder closes; the last one frees the page.                           *)
LEMMA FlushKeepsHolders ==
  ASSUME HoldInv, NEW t \in Task, con_flush(t)
  PROVE  HoldInv'
<1> DEFINE c == fd[t]
<1>1. c # Null /\ c \in Console /\ fd' = [fd EXCEPT ![t] = Null]
  BY DEF con_flush, HoldInv
<1>2. \A x \in Console : Holders(x)' = IF x = fd[t] THEN Holders(x) \ {t} ELSE Holders(x)
  BY <1>1, HoldersMove, ConsoleAssumption DEF Holders
<1>3. c # empty_console /\ c \in open /\ refcount[c] = Cardinality(Holders(c)) /\ t \in Holders(c)
  BY <1>1 DEF HoldInv, Counted, Holders
<1>4. /\ Cardinality(Holders(c) \ {t}) = refcount[c] - 1
      /\ Holders(c) \ {t} = {} <=> refcount[c] = 1
  <2>1. Holders(c) \in SUBSET Task /\ Holders(c) \ {t} \in SUBSET Task
    BY DEF Holders
  <2>2. IsFiniteSet(Holders(c)) /\ Cardinality(Holders(c)) \in Nat
    BY <2>1, HoldersFinite
  <2>3. Cardinality(Holders(c) \ {t}) = Cardinality(Holders(c)) - 1
    BY <1>3, <2>2, FS_RemoveElement
  <2>4. Cardinality(Holders(c) \ {t}) = 0 <=> Holders(c) \ {t} = {}
    BY <2>1, HoldersFinite
  <2> QED BY <1>3, <2>2, <2>3, <2>4
<1>5. fd' \in [Task -> Console \cup {Null}] /\ \A u \in Task : fd'[u] # empty_console
  BY <1>1, ConsoleAssumption DEF HoldInv
<1>6. CASE refcount[c] > 1 /\ refcount' = [refcount EXCEPT ![c] = @ - 1] /\ open' = open
  <2>1. ASSUME NEW x \in Console \ {empty_console}
        PROVE  /\ x \in open' <=> Holders(x)' # {}
               /\ x \in open' => refcount'[x] = Cardinality(Holders(x)')
    <3>1. CASE x = c
      <4>1. Holders(x)' = Holders(c) \ {t} /\ refcount'[x] = refcount[c] - 1 /\ x \in open'
        BY <1>1, <1>2, <1>3, <1>6, <3>1 DEF HoldInv
      <4> QED BY <4>1, <1>4, <1>6
    <3>2. CASE x # c
      BY <1>1, <1>2, <1>6, <3>2 DEF HoldInv, Counted
    <3> QED BY <3>1, <3>2
  <2>2. Counted'
    BY <2>1 DEF Counted
  <2>3. refcount' \in [Console -> Nat]
    BY <1>1, <1>6 DEF HoldInv
  <2> QED BY <1>5, <1>6, <2>2, <2>3 DEF HoldInv
<1>7. CASE refcount[c] <= 1 /\ open' = open \ {c} /\ refcount' = [refcount EXCEPT ![c] = 0]
  <2>1. Holders(c) \ {t} = {}
    BY <1>3, <1>4, <1>7, HoldersFinite DEF Holders
  <2> QED BY <1>1, <1>2, <1>3, <2>1, <1>5, <1>7 DEF HoldInv, Counted
<1> QED BY <1>6, <1>7 DEF con_flush, links

(* Every step keeps the holders counted; the others leave them alone.      *)
LEMMA HoldStep == HoldInv /\ [Next]_vars => HoldInv'
<1> SUFFICES ASSUME HoldInv, [Next]_vars PROVE HoldInv'
  OBVIOUS
<1>1. CASE UNCHANGED <<fd, refcount, open>>
  BY <1>1 DEF HoldInv, Counted, Holders
<1>2. ASSUME NEW t \in Task, con_read(t) \/ ReadWoken(t) PROVE UNCHANGED <<fd, refcount, open>>
  BY <1>2 DEF con_read, ReadWoken, links
<1>3. UNCHANGED vars \/ console_keyPressed \/ move_to_right_console \/ move_to_left_console \/ sys_run
        => UNCHANGED <<fd, refcount, open>>
  BY DEF vars, links, console_keyPressed, move_to_right_console, move_to_left_console, sys_run
<1> QED BY <1>1, <1>2, <1>3, OpenKeepsHolders, InheritKeepsHolders, FlushKeepsHolders DEF Next

(* The holders are counted in every reachable state.                       *)
LEMMA HoldSafety == Spec => []HoldInv
<1>1. Init => HoldInv
  BY ConsoleAssumption DEF Init, con_init, HoldInv, Counted, Holders
<1> QED BY <1>1, HoldStep, PTL DEF Spec

(* The reference count is the number of holders, and exactly the consoles  *)
(* that are held have a page.                                              *)
THEOREM ConsoleHoldersCounted == Spec => []HoldersCounted
<1>1. HoldInv => HoldersCounted
  BY DEF HoldInv, Counted, Holders, HoldersCounted
<1> QED BY <1>1, HoldSafety, PTL

----------------------------------------------------------------------------
(* Readers *)

(* Steps that have nothing to do with reading.                             *)
LEMMA FrameKeepsReaders ==
  ASSUME ReadInv, UNCHANGED <<pc, want, buff_cant, read_expected, busy, sem>>,
         \A u \in Task : pc[u] = "woken" => fd'[u] = fd[u],
         current_console' \in Console \cup {Null}, next' \in [Console -> Console],
         prev' \in [Console -> Console]
  PROVE  ReadInv'
<1>1. ReadTypes'
  BY DEF ReadInv, ReadTypes
<1>2. ASSUME NEW x \in Console
      PROVE  IF busy'[x] THEN \E u \in Task : WaiterAt(x, u)' ELSE sem'[x].q = <<>>
  BY DEF ReadInv, WaiterAt
<1> QED BY <1>1, <1>2 DEF ReadInv

(* A page is made clean while nobody is in a read on it.                   *)
LEMMA CleanKeepsReaders ==
  ASSUME ReadInv, NEW c \in Console, Clean(c), UNCHANGED <<pc, want>>,
         \A u \in Task : pc[u] = "woken" => fd'[u] = fd[u] /\ fd[u] # c,
         current_console' \in Console \cup {Null}, next' \in [Console -> Console],
         prev' \in [Console -> Console]
  PROVE  ReadInv'
<1>1. ReadTypes
  BY DEF ReadInv
<1>2. /\ buff_cant' = [buff_cant EXCEPT ![c] = 0] /\ busy' = [busy EXCEPT ![c] = FALSE]
      /\ read_expected' = [read_expected EXCEPT ![c] = 0]
      /\ sem' = [sem EXCEPT ![c] = [vl |-> 0, q |-> <<>>]]
  BY DEF Clean
<1>3. [vl |-> 0, q |-> <<>>] \in [vl : {0}, q : Seq(Task)]
  BY EmptySeq
<1>4. ReadTypes'
  <2>1. sem' \in [Console -> [vl : {0}, q : Seq(Task)]]
    BY <1>1, <1>2, <1>3, Zenon DEF ReadTypes
  <2>2. buff_cant' \in [Console -> 0 .. Size]
    BY <1>1, <1>2, ConsoleAssumption DEF ReadTypes
  <2> QED BY <1>1, <1>2, <2>1, <2>2 DEF ReadTypes
<1>5. ASSUME NEW x \in Console
      PROVE  IF busy'[x] THEN \E u \in Task : WaiterAt(x, u)' ELSE sem'[x].q = <<>>
  <2>1. CASE x = c
    BY <1>1, <1>2, <2>1 DEF ReadTypes
  <2>2. CASE x # c
    <3>1. busy'[x] = busy[x] /\ sem'[x] = sem[x] /\ buff_cant'[x] = buff_cant[x]
          /\ read_expected'[x] = read_expected[x]
      BY <1>1, <1>2, <2>2 DEF ReadTypes
    <3> QED BY <3>1 DEF ReadInv, WaiterAt
  <2> QED BY <2>1, <2>2
<1>6. ASSUME NEW u \in Task, pc'[u] = "woken", sem'[fd'[u]].q # <<u>>
      PROVE  buff_cant'[fd'[u]] >= want'[u]
  <2>1. fd'[u] = fd[u] /\ fd[u] # c /\ fd[u] \in Console
    BY <1>6 DEF ReadInv
  <2>2. sem'[fd[u]] = sem[fd[u]] /\ buff_cant'[fd[u]] = buff_cant[fd[u]]
    BY <1>1, <1>2, <2>1 DEF ReadTypes
  <2> QED BY <1>6, <2>1, <2>2 DEF ReadInv
<1> QED BY <1>4, <1>5, <1>6 DEF ReadInv

(* A console without a page has no holder, so nobody reads from it.        *)
LEMMA OpenKeepsReaders ==
  ASSUME HoldInv, ReadInv, NEW t \in Task, NEW c \in Console, con_open(t, c)
  PROVE  ReadInv'
<1>1. /\ pc[t] = "user" /\ c \notin open /\ fd' = [fd EXCEPT ![t] = c] /\ UNCHANGED <<pc, want>>
      /\ Clean(c) /\ Join(c) /\ current_console' = c
  BY DEF con_open, reads
<1>2. Holders(c) = {}
  BY <1>1 DEF HoldInv, Counted
<1>3. \A u \in Task : pc[u] = "woken" => fd'[u] = fd[u] /\ fd[u] # c
  BY <1>1, <1>2 DEF Holders, HoldInv
<1>4. next' \in [Console -> Console] /\ prev' \in [Console -> Console]
  <2>1. ReadTypes
    BY DEF ReadInv
  <2>2. CASE current_console = Null
    <3>1. next' = [next EXCEPT ![c] = c] /\ prev' = [prev EXCEPT ![c] = c]
      BY <1>1, <2>2, Zenon DEF Join
    <3> QED BY <2>1, <3>1 DEF ReadTypes
  <2>3. CASE current_console # Null
    <3>1. current_console \in Console /\ next[current_console] \in Console
      BY <2>1, <2>3 DEF ReadTypes
    <3>2. /\ next' = [next EXCEPT ![c] = next[current_console], ![current_console] = c]
          /\ prev' = [prev EXCEPT ![c] = current_console, ![next[current_console]] = c]
      BY <1>1, <2>3 DEF Join
    <3> QED BY <2>1, <3>1, <3>2 DEF ReadTypes
  <2> QED BY <2>2, <2>3
<1> QED BY <1>1, <1>3, <1>4, CleanKeepsReaders

(* The last holder of a console is not in a read while it closes it.       *)
LEMMA FlushKeepsReaders ==
  ASSUME HoldInv, ReadInv, NEW t \in Task, con_flush(t)
  PROVE  ReadInv'
<1> DEFINE c == fd[t]
<1>1. /\ pc[t] = "user" /\ c \in Console /\ fd' = [fd EXCEPT ![t] = Null]
      /\ UNCHANGED <<pc, want>>
  BY DEF con_flush, reads, HoldInv
<1>2. \A u \in Task : pc[u] = "woken" => fd'[u] = fd[u] /\ u # t
  BY <1>1 DEF HoldInv
<1>3. CASE UNCHANGED <<current_console, links, keys, flags>>
  BY <1>1, <1>2, <1>3, FrameKeepsReaders DEF links, keys, flags, ReadInv, ReadTypes
<1>4. CASE /\ refcount[c] <= 1 /\ Clean(c)
           /\ next' = [next EXCEPT ![prev[c]] = next[c], ![c] = c]
           /\ prev' = [prev EXCEPT ![next[c]] = prev[c], ![c] = c]
           /\ current_console' = IF current_console # c THEN current_console
                                 ELSE IF next[c] = c THEN empty_console ELSE next[c]
  <2>1. /\ next' \in [Console -> Console] /\ prev' \in [Console -> Console]
        /\ current_console' \in Console \cup {Null}
    BY <1>1, <1>4, ConsoleAssumption DEF ReadInv, ReadTypes
  <2>2. t \in Holders(c) /\ Holders(c) \in SUBSET Task /\ c # empty_console
    BY <1>1 DEF Holders, HoldInv
  <2>3. Cardinality(Holders(c)) = refcount[c]
    BY <1>1, <2>2 DEF HoldInv, Counted
  <2>4. Holders(c) \ {t} = {}
    <3>1. IsFiniteSet(Holders(c)) /\ Cardinality(Holders(c)) \in Nat
      BY <2>2, HoldersFinite
    <3>2. Cardinality(Holders(c) \ {t}) = Cardinality(Holders(c)) - 1
      BY <2>2, <3>1, FS_RemoveElement
    <3>3. Holders(c) \ {t} \in SUBSET Task
      BY <2>2
    <3>4. /\ Cardinality(Holders(c) \ {t}) \in Nat
          /\ Cardinality(Holders(c) \ {t}) = 0 <=> Holders(c) \ {t} = {}
      BY <3>3, HoldersFinite
    <3> QED BY <1>4, <2>3, <3>1, <3>2, <3>4
  <2>5. \A u \in Task : pc[u] = "woken" => fd'[u] = fd[u] /\ fd[u] # c
    BY <1>2, <2>4 DEF Holders
  <2> QED BY <1>1, <1>4, <2>1, <2>5, CleanKeepsReaders
<1> QED BY <1>3, <1>4 DEF con_flush

(* The remainder of the unsigned byte does nothing while there are enough  *)
(* keys in the buffer.                                                     *)
LEMMA TakeExact ==
  ASSUME NEW b \in 0 .. Size, NEW n \in Nat, n <= b
  PROVE  (b - n) % Byte = b - n /\ b - n \in 0 .. Size
BY ConsoleAssumption, SMT

(* con_read with enough keys, or up to its wait.  Whoever holds the same   *)
(* console is in no read.                                                  *)
LEMMA ReadKeepsReaders ==
  ASSUME HoldInv, ReadInv, ~SharedReads, NEW t \in Task, con_read(t)
  PROVE  ReadInv'
<1> DEFINE c == fd[t]
<1>1. /\ pc[t] = "user" /\ c \in Console /\ \A u \in Task : fd[u] = c => pc[u] = "user"
      /\ UNCHANGED <<fd, current_console, next, prev>>
  BY DEF con_read, MayRead, HoldInv, links
<1>2. ReadTypes
  BY DEF ReadInv
<1>3. busy[c] = FALSE /\ sem[c].q = <<>> /\ sem[c].vl = 0
  BY <1>1, <1>2 DEF ReadInv, WaiterAt, ReadTypes
<1>4. PICK n \in ReadSizes :
        \/ /\ buff_cant[c] >= n /\ Take(c, n) /\ read_expected' = [read_expected EXCEPT ![c] = 0]
           /\ UNCHANGED <<busy, sem, pc, want>>
        \/ /\ buff_cant[c] < n /\ busy' = [busy EXCEPT ![c] = TRUE]
           /\ read_expected' = [read_expected EXCEPT ![c] = n]
           /\ sem' = [sem EXCEPT ![c] = Wait(@, t)]
           /\ pc' = [pc EXCEPT ![t] = "woken"] /\ want' = [want EXCEPT ![t] = n]
           /\ UNCHANGED buff_cant
  BY DEF con_read, reads, keys
<1>5. n \in Nat /\ buff_cant[c] \in 0 .. Size
  BY <1>1, <1>2, ConsoleAssumption DEF ReadTypes
<1>6. CASE /\ buff_cant[c] >= n /\ Take(c, n) /\ read_expected' = [read_expected EXCEPT ![c] = 0]
           /\ UNCHANGED <<busy, sem, pc, want>>
  <2>1. buff_cant' = [buff_cant EXCEPT ![c] = buff_cant[c] - n] /\ buff_cant[c] - n \in 0 .. Size
    BY <1>5, <1>6, TakeExact DEF Take
  <2>2. ReadTypes'
    BY <1>1, <1>2, <1>6, <2>1 DEF ReadTypes
  <2>3. ASSUME NEW x \in Console
        PROVE  IF busy'[x] THEN \E u \in Task : WaiterAt(x, u)' ELSE sem'[x].q = <<>>
    <3>1. CASE x = c
      BY <1>3, <1>6, <3>1
    <3>2. CASE x # c
      <4>1. buff_cant'[x] = buff_cant[x] /\ read_expected'[x] = read_expected[x]
        BY <1>2, <1>6, <2>1, <3>2 DEF ReadTypes
      <4> QED BY <1>1, <1>6, <4>1 DEF ReadInv, WaiterAt
    <3> QED BY <3>1, <3>2
  <2>4. ASSUME NEW u \in Task, pc'[u] = "woken", sem'[fd'[u]].q # <<u>>
        PROVE  buff_cant'[fd'[u]] >= want'[u]
    <3>1. fd[u] # c /\ fd[u] \in Console /\ buff_cant[fd[u]] >= want[u]
      BY <1>1, <1>6, <2>4 DEF ReadInv
    <3> QED BY <1>1, <1>2, <1>6, <2>1, <3>1 DEF ReadTypes
  <2> QED BY <1>1, <1>6, <2>2, <2>3, <2>4 DEF ReadInv
<1>7. CASE /\ buff_cant[c] < n /\ busy' = [busy EXCEPT ![c] = TRUE]
           /\ read_expected' = [read_expected EXCEPT ![c] = n]
           /\ sem' = [sem EXCEPT ![c] = Wait(@, t)]
           /\ pc' = [pc EXCEPT ![t] = "woken"] /\ want' = [want EXCEPT ![t] = n]
           /\ UNCHANGED buff_cant
  <2>1. Wait(sem[c], t) = [sem[c] EXCEPT !.q = <<t>>] /\ <<t>> \in Seq(Task)
    BY <1>3 DEF Wait
  <2>2. /\ sem' \in [Console -> [vl : {0}, q : Seq(Task)]] /\ sem'[c].q = <<t>>
        /\ \A x \in Console : x # c => sem'[x] = sem[x]
    <3> DEFINE r == [sem[c] EXCEPT !.q = <<t>>]
    <3>1. sem[c] \in [vl : {0}, q : Seq(Task)]
      BY <1>1, <1>2 DEF ReadTypes
    <3>2. r \in [vl : {0}, q : Seq(Task)] /\ r.q = <<t>>
      BY <2>1, <3>1
    <3>3. sem' = [sem EXCEPT ![c] = r]
      BY <1>7, <2>1
    <3> HIDE DEF r
    <3> QED BY <1>1, <1>2, <3>2, <3>3 DEF ReadTypes
  <2>3. ReadTypes'
    BY <1>1, <1>2, <1>5, <1>7, <2>2 DEF ReadTypes
  <2>4. \A u \in Task : u # t => pc'[u] = pc[u] /\ want'[u] = want[u]
    BY <1>2, <1>7 DEF ReadTypes
  <2>5. pc'[t] = "woken" /\ want'[t] = n /\ read_expected'[c] = n /\ busy'[c] = TRUE
    BY <1>1, <1>2, <1>7 DEF ReadTypes
  <2>6. ASSUME NEW x \in Console
        PROVE  IF busy'[x] THEN \E u \in Task : WaiterAt(x, u)' ELSE sem'[x].q = <<>>
    <3>1. CASE x = c
      <4>1. WaiterAt(x, t)'
        BY <1>1, <1>7, <2>2, <2>5, <3>1 DEF WaiterAt
      <4> QED BY <4>1, <2>5, <3>1
    <3>2. CASE x # c
      <4>1. busy'[x] = busy[x] /\ read_expected'[x] = read_expected[x] /\ sem'[x] = sem[x]
        BY <1>2, <1>7, <2>2, <3>2 DEF ReadTypes
      <4>2. ASSUME NEW u \in Task, WaiterAt(x, u) PROVE WaiterAt(x, u)'
        <5>1. u # t
          BY <1>1, <4>2 DEF WaiterAt
        <5> QED BY <1>1, <1>7, <2>4, <4>1, <4>2, <5>1 DEF WaiterAt
      <4> QED BY <4>1, <4>2 DEF ReadInv
    <3> QED BY <3>1, <3>2
  <2>7. ASSUME NEW u \in Task, pc'[u] = "woken", sem'[fd'[u]].q # <<u>>
        PROVE  buff_cant'[fd'[u]] >= want'[u]
    <3>1. u # t
      BY <1>1, <2>2, <2>7
    <3>2. fd[u] # c /\ fd[u] \in Console /\ pc[u] = "woken"
      BY <1>1, <2>4, <2>7, <3>1 DEF ReadInv
    <3> QED BY <1>1, <1>7, <2>2, <2>4, <2>7, <3>1, <3>2 DEF ReadInv
  <2>8. /\ \A u \in Task : pc'[u] = "woken" => fd'[u] \in Console
        /\ \A u, v \in Task : pc'[u] = "woken" /\ pc'[v] = "woken" /\ fd'[u] = fd'[v] => u = v
    BY <1>1, <2>4 DEF ReadInv
  <2> QED BY <2>3, <2>6, <2>7, <2>8 DEF ReadInv
<1> QED BY <1>4, <1>6, <1>7

(* Who is woken is the only one in a read on its console, and the keys it  *)
(* was woken for are still there.                                          *)
LEMMA WokenKeepsReaders ==
  ASSUME HoldInv, ReadInv, NEW t \in Task, ReadWoken(t)
  PROVE  ReadInv'
<1> DEFINE c == fd[t]
<1>1. /\ pc[t] = "woken" /\ c \in Console /\ ~Waits(t) /\ Take(c, want[t])
      /\ read_expected' = [read_expected EXCEPT ![c] = 0]
      /\ pc' = [pc EXCEPT ![t] = "user"] /\ want' = [want EXCEPT ![t] = 0]
      /\ UNCHANGED <<fd, current_console, next, prev, busy, sem>>
  BY DEF ReadWoken, ReadInv, links
<1>2. ReadTypes
  BY DEF ReadInv
<1>3. sem[c].q # <<t>>
  BY <1>1 DEF Waits
<1>4. buff_cant[c] >= want[t] /\ want[t] \in Nat /\ buff_cant[c] \in 0 .. Size
  BY <1>1, <1>2, <1>3 DEF ReadInv, ReadTypes
<1>5. \A u \in Task : u # t /\ pc[u] = "woken" => fd[u] # c
  BY <1>1 DEF ReadInv
<1>6. busy[c] = FALSE /\ sem[c].q = <<>>
  BY <1>1, <1>2, <1>3, <1>5 DEF ReadInv, WaiterAt, ReadTypes
<1>7. buff_cant' = [buff_cant EXCEPT ![c] = buff_cant[c] - want[t]] /\ buff_cant[c] - want[t] \in 0 .. Size
  BY <1>1, <1>4, TakeExact DEF Take
<1>8. ReadTypes'
  BY <1>1, <1>2, <1>7 DEF ReadTypes
<1>9. \A u \in Task : IF u = t THEN pc'[u] = "user" ELSE pc'[u] = pc[u] /\ want'[u] = want[u]
  BY <1>1, <1>2 DEF ReadTypes
<1>10. ASSUME NEW x \in Console
       PROVE  IF busy'[x] THEN \E u \in Task : WaiterAt(x, u)' ELSE sem'[x].q = <<>>
  <2>1. CASE x = c
    BY <1>1, <1>6, <2>1
  <2>2. CASE x # c
    <3>1. buff_cant'[x] = buff_cant[x] /\ read_expected'[x] = read_expected[x]
      BY <1>1, <1>2, <1>7, <2>2 DEF ReadTypes
    <3>2. ASSUME NEW u \in Task, WaiterAt(x, u) PROVE WaiterAt(x, u)'
      <4>1. u # t
        BY <2>2, <3>2 DEF WaiterAt
      <4> QED BY <1>1, <1>9, <3>1, <3>2, <4>1 DEF WaiterAt
    <3> QED BY <1>1, <3>2 DEF ReadInv
  <2> QED BY <2>1, <2>2
<1>11. ASSUME NEW u \in Task, pc'[u] = "woken", sem'[fd'[u]].q # <<u>>
       PROVE  buff_cant'[fd'[u]] >= want'[u]
  <2>1. u # t /\ pc[u] = "woken" /\ fd[u] # c /\ fd[u] \in Console /\ buff_cant[fd[u]] >= want[u]
    BY <1>1, <1>5, <1>9, <1>11 DEF ReadInv
  <2> QED BY <1>1, <1>2, <1>7, <1>9, <2>1 DEF ReadTypes
<1>12. /\ \A u \in Task : pc'[u] = "woken" => fd'[u] \in Console
       /\ \A u, v \in Task : pc'[u] = "woken" /\ pc'[v] = "woken" /\ fd'[u] = fd'[v] => u = v
  BY <1>1, <1>9 DEF ReadInv
<1> QED BY <1>8, <1>10, <1>11, <1>12 DEF ReadInv

(* The key that makes it enough wakes the one that waits.                  *)
LEMMA KeyKeepsReaders ==
  ASSUME ReadInv, console_keyPressed
  PROVE  ReadInv'
<1> DEFINE c == current_console
<1>1. /\ c \in Console /\ buff_cant[c] < Size /\ buff_cant' = [buff_cant EXCEPT ![c] = @ + 1]
      /\ WakeReader(c) /\ UNCHANGED <<fd, pc, want, read_expected, current_console, next, prev>>
  BY DEF console_keyPressed, Store, links, reads, ReadInv, ReadTypes
<1>2. ReadTypes
  BY DEF ReadInv
<1>3. /\ buff_cant[c] \in 0 .. Size /\ buff_cant'[c] = buff_cant[c] + 1
      /\ buff_cant' \in [Console -> 0 .. Size]
      /\ \A x \in Console : x # c => buff_cant'[x] = buff_cant[x]
  BY <1>1, <1>2, ConsoleAssumption DEF ReadTypes
<1>4. CASE ~busy[c] \/ ~(buff_cant[c] + 1 >= read_expected[c])
  <2>1. UNCHANGED <<busy, sem>>
    BY <1>1, <1>4 DEF WakeReader
  <2>2. ReadTypes'
    BY <1>1, <1>2, <1>3, <2>1 DEF ReadTypes
  <2>3. ASSUME NEW x \in Console
        PROVE  IF busy'[x] THEN \E u \in Task : WaiterAt(x, u)' ELSE sem'[x].q = <<>>
    <3>1. ASSUME NEW u \in Task, WaiterAt(x, u), busy[x] PROVE WaiterAt(x, u)'
      <4>1. CASE x = c
        <5>1. buff_cant[c] + 1 < want[u]
          BY <1>2, <1>3, <1>4, <3>1, <4>1, <1>1 DEF WaiterAt, ReadTypes
        <5> QED BY <1>1, <1>3, <2>1, <3>1, <4>1, <5>1 DEF WaiterAt
      <4>2. CASE x # c
        BY <1>1, <1>3, <2>1, <3>1, <4>2 DEF WaiterAt
      <4> QED BY <4>1, <4>2
    <3> QED BY <2>1, <3>1 DEF ReadInv
  <2>4. ASSUME NEW u \in Task, pc'[u] = "woken", sem'[fd'[u]].q # <<u>>
        PROVE  buff_cant'[fd'[u]] >= want'[u]
    <3>1. fd[u] \in Console /\ buff_cant[fd[u]] >= want[u] /\ want[u] \in Nat /\ buff_cant[fd[u]] \in Nat
      BY <1>1, <1>2, <2>1, <2>4 DEF ReadInv, ReadTypes
    <3> QED BY <1>1, <1>3, <3>1
  <2> QED BY <1>1, <2>2, <2>3, <2>4 DEF ReadInv
<1>5. CASE busy[c] /\ buff_cant[c] + 1 >= read_expected[c]
  <2>1. PICK t \in Task : WaiterAt(c, t)
    BY <1>1, <1>5 DEF ReadInv
  <2>2. busy' = [busy EXCEPT ![c] = FALSE] /\ sem' = [sem EXCEPT ![c] = Signal(@)]
    BY <1>1, <1>5 DEF WakeReader
  <2>3. Signal(sem[c]) = [vl |-> 0, q |-> <<>>]
    <3>1. sem[c].q = <<t>> /\ sem[c].vl = 0 /\ sem[c] \in [vl : {0}, q : Seq(Task)]
      BY <1>1, <1>2, <2>1 DEF WaiterAt, ReadTypes
    <3>2. Tail(<<t>>) = <<>> /\ <<t>> # <<>>
      OBVIOUS
    <3> QED BY <3>1, <3>2 DEF Signal
  <2>4. /\ sem' \in [Console -> [vl : {0}, q : Seq(Task)]] /\ sem'[c].q = <<>>
        /\ \A x \in Console : x # c => sem'[x] = sem[x]
    <3>1. [vl |-> 0, q |-> <<>>] \in [vl : {0}, q : Seq(Task)]
      BY EmptySeq
    <3> QED BY <1>1, <1>2, <2>2, <2>3, <3>1 DEF ReadTypes
  <2>5. ReadTypes'
    BY <1>1, <1>2, <1>3, <2>2, <2>4 DEF ReadTypes
  <2>6. ASSUME NEW x \in Console
        PROVE  IF busy'[x] THEN \E u \in Task : WaiterAt(x, u)' ELSE sem'[x].q = <<>>
    <3>1. CASE x = c
      BY <1>1, <1>2, <2>2, <2>4, <3>1 DEF ReadTypes
    <3>2. CASE x # c
      <4>1. busy'[x] = busy[x] /\ sem'[x] = sem[x] /\ buff_cant'[x] = buff_cant[x]
        BY <1>2, <1>3, <2>2, <2>4, <3>2 DEF ReadTypes
      <4> QED BY <1>1, <4>1 DEF ReadInv, WaiterAt
    <3> QED BY <3>1, <3>2
  <2>7. ASSUME NEW u \in Task, pc'[u] = "woken", sem'[fd'[u]].q # <<u>>
        PROVE  buff_cant'[fd'[u]] >= want'[u]
    <3>1. fd'[u] = fd[u] /\ fd[u] \in Console /\ pc[u] = "woken" /\ want'[u] = want[u] /\ want[u] \in Nat
      BY <1>1, <1>2, <2>7 DEF ReadInv, ReadTypes
    <3>2. CASE fd[u] = c
      <4>1. u = t /\ read_expected[c] = want[u]
        BY <2>1, <3>1, <3>2 DEF ReadInv, WaiterAt
      <4> QED BY <1>3, <1>5, <3>1, <3>2, <4>1
    <3>3. CASE fd[u] # c
      BY <1>3, <2>4, <2>7, <3>1, <3>3 DEF ReadInv
    <3> QED BY <3>2, <3>3
  <2> QED BY <1>1, <2>5, <2>6, <2>7 DEF ReadInv
<1> QED BY <1>4, <1>5

(* Every step keeps the invariant of the readers.                          *)
LEMMA ReadStep == HoldInv /\ ReadInv /\ ~SharedReads /\ [Next]_vars => ReadInv'
<1> SUFFICES ASSUME HoldInv, ReadInv, ~SharedReads, [Next]_vars PROVE ReadInv'
  OBVIOUS
<1>1. ReadTypes
  BY DEF ReadInv
<1>2. ASSUME NEW t \in Task, NEW u \in Task, Inherit(t, u) PROVE ReadInv'
  <2>1. /\ pc[u] = "user" /\ fd' = [fd EXCEPT ![u] = fd[t]]
        /\ UNCHANGED <<current_console, next, prev, pc, want, buff_cant, read_expected, busy, sem>>
    BY <1>2 DEF Inherit, links, keys, flags, reads
  <2>2. \A v \in Task : pc[v] = "woken" => fd'[v] = fd[v]
    BY <2>1 DEF HoldInv
  <2> QED BY <1>1, <2>1, <2>2, FrameKeepsReaders DEF ReadTypes
<1>3. CASE UNCHANGED vars \/ move_to_right_console \/ move_to_left_console \/ sys_run
  <2>1. /\ UNCHANGED <<fd, next, prev, pc, want, buff_cant, read_expected, busy, sem>>
        /\ current_console' \in Console \cup {Null}
    BY <1>1, <1>3 DEF vars, links, keys, flags, reads, move_to_right_console, move_to_left_console,
                      sys_run, ReadTypes
  <2> QED BY <1>1, <2>1, FrameKeepsReaders DEF ReadTypes
<1> QED BY <1>2, <1>3, OpenKeepsReaders, FlushKeepsReaders, ReadKeepsReaders, WokenKeepsReaders,
           KeyKeepsReaders DEF Next

(* It holds as long as no two tasks read one console at a time.            *)
LEMMA ReadSafety ==
  ASSUME SharedReads = FALSE
  PROVE  Spec => []ReadInv
<1>1. Init => ReadInv
  <2>1. <<>> \in Seq(Task)
    BY EmptySeq
  <2>2. Init => ReadTypes
    BY <2>1, ConsoleAssumption DEF Init, con_init, ReadTypes
  <2> QED BY <2>2 DEF Init, con_init, ReadInv
<1>2. HoldInv /\ ReadInv /\ [Next]_vars => ReadInv'
  BY ReadStep
<1> QED BY <1>1, <1>2, HoldSafety, PTL DEF Spec

(* As long as no two tasks read one console at a time, a task that waits   *)
(* for keys is flagged and does not have them yet, and one that was woken  *)
(* has them.                                                               *)
THEOREM ConsoleWokenWhenEnough ==
  ASSUME SharedReads = FALSE
  PROVE  Spec => []WokenWhenEnough
<1>1. ASSUME ReadInv PROVE WokenWhenEnough
  <2> SUFFICES ASSUME NEW t \in Task, pc[t] = "woken"
               PROVE  IF Waits(t) THEN /\ busy[fd[t]] /\ read_expected[fd[t]] = want[t]
                                       /\ buff_cant[fd[t]] < want[t]
                                  ELSE buff_cant[fd[t]] >= want[t]
    BY DEF WokenWhenEnough
  <2>1. CASE Waits(t)
    <3>1. PICK c \in Console : \E i \in DOMAIN sem[c].q : sem[c].q[i] = t
      BY <2>1 DEF Waits
    <3>2. sem[c].q # <<>>
      BY <3>1, EmptySeq
    <3>3. PICK u \in Task : WaiterAt(c, u) /\ busy[c]
      BY <1>1, <3>2 DEF ReadInv
    <3>4. u = t
      BY <3>1, <3>3 DEF WaiterAt
    <3> QED BY <2>1, <3>3, <3>4 DEF WaiterAt
  <2>2. CASE ~Waits(t)
    <3>1. fd[t] \in Console
      BY <1>1 DEF ReadInv
    <3>2. sem[fd[t]].q # <<t>>
      BY <2>2, <3>1 DEF Waits
    <3> QED BY <1>1, <2>2, <3>2 DEF ReadInv
  <2> QED BY <2>1, <2>2
<1>2. Spec => []ReadInv
  BY ReadSafety
<1> QED BY <1>1, <1>2, PTL

----------------------------------------------------------------------------
(* Types *)

(* What the runs check, with the types of a semaphore and of typed.        *)
TypeInv ==
  /\ ConsoleTypeOK
  /\ sem \in [Console -> [vl : Nat, q : Seq(Task)]] /\ typed \in [Console -> 0 .. Modulus]

(* sem_wait and sem_signal return a semaphore.                             *)
LEMMA SemaphoreTypes ==
  ASSUME NEW S \in [vl : Nat, q : Seq(Task)], NEW t \in Task
  PROVE  Wait(S, t) \in [vl : Nat, q : Seq(Task)] /\ Signal(S) \in [vl : Nat, q : Seq(Task)]
<1>1. /\ S.vl \in Nat /\ S.q \in Seq(Task) /\ Append(S.q, t) \in Seq(Task)
      /\ (S.q # <<>> => Tail(S.q) \in Seq(Task))
  BY AppendProperties, HeadTailProperties
<1>2. /\ S.vl > 0 => [S EXCEPT !.vl = @ - 1] \in [vl : Nat, q : Seq(Task)]
      /\ [S EXCEPT !.vl = @ + 1] \in [vl : Nat, q : Seq(Task)]
  BY <1>1
<1>3. [S EXCEPT !.q = Append(@, t)] \in [vl : Nat, q : Seq(Task)]
  BY <1>1
<1>4. S.q # <<>> => [S EXCEPT !.q = Tail(@)] \in [vl : Nat, q : Seq(Task)]
  BY <1>1
<1> QED BY <1>1, <1>2, <1>3, <1>4 DEF Wait, Signal

(* A clean page has the types of one.                                      *)
LEMMA CleanTypes ==
  ASSUME TypeInv, NEW c \in Console, Clean(c)
  PROVE  /\ buff' \in [Console -> [0 .. Size - 1 -> 0 .. Modulus]]
         /\ buff_index_start' \in [Console -> 0 .. Size - 1]
         /\ buff_index_end' \in [Console -> 0 .. Size - 1]
         /\ buff_cant' \in [Console -> 0 .. Byte - 1]
         /\ busy' \in [Console -> BOOLEAN] /\ read_expected' \in [Console -> 0 .. Size]
         /\ sem' \in [Console -> [vl : Nat, q : Seq(Task)]] /\ typed' \in [Console -> 0 .. Modulus]
<1>1. [vl |-> 0, q |-> <<>>] \in [vl : Nat, q : Seq(Task)]
  BY EmptySeq
<1>2. 0 \in 0 .. Size - 1 /\ 0 \in 0 .. Byte - 1 /\ 0 \in 0 .. Size /\ 0 \in 0 .. Modulus
  BY ConsoleAssumption
<1>3. [i \in 0 .. Size - 1 |-> NUL] \in [0 .. Size - 1 -> 0 .. Modulus]
  BY <1>2 DEF NUL
<1>4. buff' \in [Console -> [0 .. Size - 1 -> 0 .. Modulus]]
  BY <1>3 DEF Clean, TypeInv, ConsoleTypeOK
<1>5. sem' \in [Console -> [vl : Nat, q : Seq(Task)]]
  BY <1>1 DEF Clean, TypeInv
<1> QED BY <1>2, <1>4, <1>5 DEF Clean, TypeInv, ConsoleTypeOK

(* Links lead to consoles after a console has joined the ring.             *)
LEMMA JoinTypes ==
  ASSUME NEW c \in Console, Join(c), current_console \in Console \cup {Null},
         next \in [Console -> Console], prev \in [Console -> Console]
  PROVE  next' \in [Console -> Console] /\ prev' \in [Console -> Console]
<1>1. CASE next' = [next EXCEPT ![c] = c] /\ prev' = [prev EXCEPT ![c] = c]
  BY <1>1
<1>2. CASE /\ current_console # Null
           /\ next' = [next EXCEPT ![c] = next[current_console], ![current_console] = c]
           /\ prev' = [prev EXCEPT ![c] = current_console, ![next[current_console]] = c]
  <2>1. current_console \in Console /\ next[current_console] \in Console
    BY <1>2
  <2> QED BY <1>2, <2>1
<1> QED BY <1>1, <1>2 DEF Join

(* No console has more holders than there are tasks.                       *)
LEMMA FewHolders ==
  ASSUME NEW c
  PROVE  Cardinality(Holders(c)) \in 0 .. Cardinality(Task) /\ Cardinality(Task) \in Nat
<1>1. Holders(c) \subseteq Task
  BY DEF Holders
<1>2. Cardinality(Holders(c)) <= Cardinality(Task)
  BY <1>1, ConsoleAssumption, FS_Subset
<1>3. Cardinality(Holders(c)) \in Nat /\ Cardinality(Task) \in Nat
  BY <1>1, HoldersFinite
<1> QED BY <1>2, <1>3

(* What a read takes leaves index and count in range.                      *)
LEMMA TakeTypes ==
  ASSUME TypeInv, NEW c \in Console, NEW n \in Nat, Take(c, n)
  PROVE  /\ buff_index_start' \in [Console -> 0 .. Size - 1]
         /\ buff_cant' \in [Console -> 0 .. Byte - 1]
<1>0. buff_index_start[c] \in 0 .. Size - 1 /\ buff_cant[c] \in 0 .. Byte - 1
  BY DEF TypeInv, ConsoleTypeOK
<1>1. /\ buff_index_start[c] + n \in Int /\ buff_cant[c] - n \in Int
      /\ Size \in Nat \ {0} /\ Byte \in Nat \ {0}
  BY <1>0, ConsoleAssumption
<1>2. (buff_index_start[c] + n) % Size \in 0 .. Size - 1 /\ (buff_cant[c] - n) % Byte \in 0 .. Byte - 1
  BY <1>1, DivMod
<1> QED BY <1>2 DEF Take, TypeInv, ConsoleTypeOK

(* Keys are numbered in a range.                                           *)
LEMMA SuccessorTypes ==
  ASSUME NEW k \in Int
  PROVE  Successor(k) \in 1 .. Modulus
<1>1. Modulus \in Nat \ {0}
  BY ConsoleAssumption
<1>2. k % Modulus \in 0 .. Modulus - 1
  BY <1>1, DivMod
<1> QED BY <1>1, <1>2 DEF Successor

(* So does a key that is stored.                                           *)
LEMMA StoreTypes ==
  ASSUME TypeInv, NEW c \in Console, buff_cant[c] < Size, Store(c)
  PROVE  /\ buff' \in [Console -> [0 .. Size - 1 -> 0 .. Modulus]]
         /\ buff_index_end' \in [Console -> 0 .. Size - 1]
         /\ buff_cant' \in [Console -> 0 .. Byte - 1] /\ typed' \in [Console -> 0 .. Modulus]
<1> DEFINE k == Successor(typed[c])
           e == (buff_index_end[c] + 1) % Size
<1>1. k \in 0 .. Modulus
  <2>1. typed[c] \in Int /\ 1 .. Modulus \subseteq 0 .. Modulus
    BY ConsoleAssumption DEF TypeInv
  <2> QED BY <2>1, SuccessorTypes
<1>2. e \in 0 .. Size - 1
  <2>1. buff_index_end[c] \in 0 .. Size - 1 /\ Size \in Nat \ {0}
    BY ConsoleAssumption DEF TypeInv, ConsoleTypeOK
  <2>2. buff_index_end[c] + 1 \in Int
    BY <2>1
  <2> QED BY <2>1, <2>2, DivMod
<1>3. buff_cant[c] + 1 \in 0 .. Byte - 1
  <2>1. buff_cant[c] \in 0 .. Byte - 1
    BY DEF TypeInv, ConsoleTypeOK
  <2> QED BY <2>1, ConsoleAssumption
<1>4. /\ buff' = [buff EXCEPT ![c][buff_index_end[c]] = k]
      /\ typed' = [typed EXCEPT ![c] = k] /\ buff_index_end' = [buff_index_end EXCEPT ![c] = e]
      /\ buff_cant' = [buff_cant EXCEPT ![c] = @ + 1]
  BY DEF Store
<1> HIDE DEF k, e
<1> QED BY <1>1, <1>2, <1>3, <1>4 DEF TypeInv, ConsoleTypeOK

(* Every step keeps the types; the bound of the reference count is that of *)
(* the holders.                                                            *)
LEMMA TypeStep == HoldInv /\ HoldInv' /\ TypeInv /\ [Next]_vars => TypeInv'
<1> SUFFICES ASSUME HoldInv, HoldInv', TypeInv, [Next]_vars PROVE TypeInv'
  OBVIOUS
<1>0. /\ ConsoleTypeOK /\ sem \in [Console -> [vl : Nat, q : Seq(Task)]] /\ typed \in [Console -> 0 .. Modulus]
      /\ ReadSizes \subseteq Nat \ {0} /\ Size \in Nat \ {0} /\ Cardinality(Task) \in Nat
      /\ fd' \in [Task -> Console \cup {Null}] /\ open' \subseteq Console
  BY ConsoleAssumption, FewHolders DEF TypeInv, HoldInv
<1>1. ASSUME NEW t \in Task, NEW c \in Console, con_open(t, c) PROVE TypeInv'
  <2>1. /\ Clean(c) /\ Join(c) /\ current_console' = c /\ refcount' = [refcount EXCEPT ![c] = 1]
        /\ UNCHANGED <<pc, want>>
    BY <1>1 DEF con_open, reads
  <2>2. 1 \in 0 .. Cardinality(Task)
    <3>1. Cardinality(Task) # 0
      BY HoldersFinite
    <3> QED BY <1>0, <3>1
  <2>3. next' \in [Console -> Console] /\ prev' \in [Console -> Console]
    BY <1>0, <2>1, JoinTypes DEF ConsoleTypeOK
  <2>4. refcount' \in [Console -> 0 .. Cardinality(Task)]
    BY <1>0, <2>1, <2>2 DEF ConsoleTypeOK
  <2> QED BY <1>0, <2>1, <2>3, <2>4, CleanTypes DEF TypeInv, ConsoleTypeOK
<1>2. ASSUME NEW t \in Task, NEW u \in Task, Inherit(t, u) PROVE TypeInv'
  <2>1. PICK c \in Console : c = fd[t]
    BY <1>2 DEF Inherit, HoldInv
  <2>2. /\ refcount' = [refcount EXCEPT ![c] = @ + 1] /\ c # empty_console /\ c \in open'
        /\ UNCHANGED <<current_console, next, prev, open, buff, buff_index_start, buff_index_end,
                       buff_cant, typed, busy, read_expected, sem, pc, want>>
    BY <1>2, <2>1 DEF Inherit, links, keys, flags, reads, HoldInv, Counted, Holders
  <2>3. refcount'[c] = Cardinality({v \in Task : fd'[v] = c})
    BY <2>2 DEF HoldInv, Counted, Holders
  <2>4. refcount'[c] \in 0 .. Cardinality(Task)
    <3>1. {v \in Task : fd'[v] = c} \subseteq Task
      OBVIOUS
    <3>2. Cardinality({v \in Task : fd'[v] = c}) <= Cardinality(Task)
      BY <3>1, ConsoleAssumption, FS_Subset
    <3>3. Cardinality({v \in Task : fd'[v] = c}) \in Nat
      BY <3>1, HoldersFinite
    <3> QED BY <1>0, <2>3, <3>2, <3>3
  <2>5. refcount' \in [Console -> 0 .. Cardinality(Task)]
    <3> DEFINE n == refcount'[c]
    <3>1. refcount' = [refcount EXCEPT ![c] = n] /\ n \in 0 .. Cardinality(Task)
      BY <1>0, <2>2, <2>4 DEF ConsoleTypeOK
    <3> HIDE DEF n
    <3> QED BY <1>0, <3>1 DEF ConsoleTypeOK
  <2> QED BY <1>0, <2>2, <2>5 DEF TypeInv, ConsoleTypeOK
<1>3. ASSUME NEW t \in Task, con_flush(t) PROVE TypeInv'
  <2> DEFINE c == fd[t]
  <2>1. c \in Console /\ UNCHANGED <<pc, want>>
    BY <1>3 DEF con_flush, reads, HoldInv
  <2>2. CASE /\ refcount[c] > 1 /\ refcount' = [refcount EXCEPT ![c] = @ - 1]
             /\ UNCHANGED <<current_console, links, keys, flags>>
    <3>1. refcount' \in [Console -> 0 .. Cardinality(Task)]
      <4>1. refcount[c] \in 0 .. Cardinality(Task)
        BY <1>0, <2>1 DEF ConsoleTypeOK
      <4>2. refcount[c] - 1 \in 0 .. Cardinality(Task)
        BY <1>0, <2>2, <4>1
      <4> QED BY <1>0, <2>2, <4>2 DEF ConsoleTypeOK
    <3> QED BY <1>0, <2>1, <2>2, <3>1 DEF TypeInv, ConsoleTypeOK, links, keys, flags
  <2>3. CASE /\ next' = [next EXCEPT ![prev[c]] = next[c], ![c] = c]
             /\ prev' = [prev EXCEPT ![next[c]] = prev[c], ![c] = c]
             /\ Clean(c) /\ refcount' = [refcount EXCEPT ![c] = 0]
             /\ current_console' = IF current_console # c THEN current_console
                                   ELSE IF next[c] = c THEN empty_console ELSE next[c]
    <3>1. 0 \in 0 .. Cardinality(Task)
      BY <1>0
    <3>2. next' \in [Console -> Console] /\ prev' \in [Console -> Console]
      BY <1>0, <2>1, <2>3 DEF ConsoleTypeOK
    <3>3. current_console' \in Console \cup {Null}
      BY <1>0, <2>1, <2>3, ConsoleAssumption DEF ConsoleTypeOK
    <3>4. refcount' \in [Console -> 0 .. Cardinality(Task)]
      BY <1>0, <2>3, <3>1 DEF ConsoleTypeOK
    <3>5. /\ buff' \in [Console -> [0 .. Size - 1 -> 0 .. Modulus]]
          /\ buff_index_start' \in [Console -> 0 .. Size - 1]
          /\ buff_index_end' \in [Console -> 0 .. Size - 1]
          /\ buff_cant' \in [Console -> 0 .. Byte - 1]
          /\ busy' \in [Console -> BOOLEAN] /\ read_expected' \in [Console -> 0 .. Size]
          /\ sem' \in [Console -> [vl : Nat, q : Seq(Task)]] /\ typed' \in [Console -> 0 .. Modulus]
      BY <2>1, <2>3, CleanTypes
    <3> QED BY <1>0, <2>1, <3>2, <3>3, <3>4, <3>5 DEF TypeInv, ConsoleTypeOK
  <2> QED BY <1>3, <2>2, <2>3 DEF con_flush
<1>4. ASSUME NEW t \in Task, con_read(t) PROVE TypeInv'
  <2> DEFINE c == fd[t]
  <2>1. /\ c \in Console /\ UNCHANGED <<current_console, next, prev, open, refcount>>
    BY <1>4 DEF con_read, links, HoldInv
  <2>2. PICK n \in ReadSizes :
          /\ n <= Size
          /\ \/ /\ Take(c, n) /\ read_expected' = [read_expected EXCEPT ![c] = 0]
                /\ UNCHANGED <<buff, buff_index_end, typed, busy, sem, pc, want>>
             \/ /\ busy' = [busy EXCEPT ![c] = TRUE]
                /\ read_expected' = [read_expected EXCEPT ![c] = n]
                /\ sem' = [sem EXCEPT ![c] = Wait(@, t)]
                /\ pc' = [pc EXCEPT ![t] = "woken"] /\ want' = [want EXCEPT ![t] = n]
                /\ UNCHANGED <<buff, buff_index_start, buff_index_end, buff_cant, typed>>
    BY <1>4 DEF con_read, reads, keys
  <2>3. n \in Nat /\ n \in 0 .. Size /\ 0 \in 0 .. Size
    BY <1>0, <2>2
  <2>4. CASE /\ Take(c, n) /\ read_expected' = [read_expected EXCEPT ![c] = 0]
             /\ UNCHANGED <<buff, buff_index_end, typed, busy, sem, pc, want>>
    BY <1>0, <2>1, <2>3, <2>4, TakeTypes DEF TypeInv, ConsoleTypeOK
  <2>5. CASE /\ busy' = [busy EXCEPT ![c] = TRUE]
             /\ read_expected' = [read_expected EXCEPT ![c] = n]
             /\ sem' = [sem EXCEPT ![c] = Wait(@, t)]
             /\ pc' = [pc EXCEPT ![t] = "woken"] /\ want' = [want EXCEPT ![t] = n]
             /\ UNCHANGED <<buff, buff_index_start, buff_index_end, buff_cant, typed>>
    <3>1. sem' \in [Console -> [vl : Nat, q : Seq(Task)]]
      BY <1>0, <2>1, <2>5, SemaphoreTypes
    <3> QED BY <1>0, <2>1, <2>3, <2>5, <3>1 DEF TypeInv, ConsoleTypeOK
  <2> QED BY <2>2, <2>4, <2>5
<1>5. ASSUME NEW t \in Task, ReadWoken(t) PROVE TypeInv'
  <2>1. CASE fd[t] \in Console
    <3>1. want[t] \in Nat /\ 0 \in 0 .. Size
      BY <1>0 DEF ConsoleTypeOK
    <3> QED BY <1>0, <1>5, <2>1, <3>1, TakeTypes DEF ReadWoken, TypeInv, ConsoleTypeOK, links
  <2>2. CASE fd[t] = Null
    <3>1. /\ buff_index_start' = buff_index_start /\ buff_cant' = buff_cant
          /\ read_expected' = read_expected
      BY <1>0, <1>5, <2>2, ConsoleAssumption DEF ReadWoken, Take, ConsoleTypeOK
    <3>2. /\ pc' = [pc EXCEPT ![t] = "user"] /\ want' = [want EXCEPT ![t] = 0] /\ 0 \in 0 .. Size
          /\ UNCHANGED <<current_console, next, prev, open, refcount, buff, buff_index_end, typed, busy,
                         sem, fd>>
      BY <1>0, <1>5 DEF ReadWoken, links
    <3>3. /\ pc' \in [Task -> {"user", "woken"}] /\ want' \in [Task -> 0 .. Size]
      BY <1>0, <3>2 DEF ConsoleTypeOK
    <3> QED BY <1>0, <3>1, <3>2, <3>3 DEF TypeInv, ConsoleTypeOK
  <2> QED BY <1>0, <2>1, <2>2 DEF ConsoleTypeOK
<1>6. CASE console_keyPressed
  <2>1. /\ current_console \in Console /\ buff_cant[current_console] < Size
        /\ Store(current_console) /\ WakeReader(current_console)
        /\ UNCHANGED <<current_console, next, prev, open, refcount, buff_index_start, read_expected,
                       fd, pc, want>>
    BY <1>0, <1>6 DEF console_keyPressed, ConsoleTypeOK, links, reads
  <2>2. busy' \in [Console -> BOOLEAN] /\ sem' \in [Console -> [vl : Nat, q : Seq(Task)]]
    <3>1. CASE UNCHANGED <<busy, sem>>
      BY <1>0, <3>1 DEF ConsoleTypeOK
    <3>2. CASE /\ busy' = [busy EXCEPT ![current_console] = FALSE]
               /\ sem' = [sem EXCEPT ![current_console] = Signal(@)]
      <4>1. Signal(sem[current_console]) \in [vl : Nat, q : Seq(Task)]
        <5>1. sem[current_console] \in [vl : Nat, q : Seq(Task)]
          BY <1>0, <2>1
        <5>2. sem[current_console].q = <<>> \/ \E u : u \in Task
          BY <5>1, EmptySeq, HeadTailProperties
        <5>3. CASE \E u : u \in Task
          BY <5>1, <5>3, SemaphoreTypes
        <5>4. CASE sem[current_console].q = <<>>
          BY <5>1, <5>4 DEF Signal
        <5> QED BY <5>2, <5>3, <5>4
      <4> QED BY <1>0, <3>2, <4>1 DEF ConsoleTypeOK
    <3> QED BY <2>1, <3>1, <3>2 DEF WakeReader
  <2> QED BY <1>0, <2>1, <2>2, StoreTypes DEF TypeInv, ConsoleTypeOK
<1>7. CASE sys_run
  <2>1. current_console \in Console /\ [i \in 0 .. Size - 1 |-> NUL] \in [0 .. Size - 1 -> 0 .. Modulus]
    BY <1>0, <1>7, ConsoleAssumption DEF sys_run, ConsoleTypeOK, NUL
  <2> QED BY <1>0, <1>7, <2>1 DEF sys_run, TypeInv, ConsoleTypeOK, links, flags, reads
<1>8. CASE move_to_right_console \/ move_to_left_console
  <2>1. /\ current_console' \in Console
        /\ UNCHANGED <<next, prev, open, refcount, buff, buff_index_start, buff_index_end, buff_cant,
                       typed, busy, read_expected, sem, fd, pc, want>>
    BY <1>0, <1>8 DEF move_to_right_console, move_to_left_console, links, keys, flags, reads, ConsoleTypeOK
  <2> QED BY <1>0, <2>1 DEF TypeInv, ConsoleTypeOK
<1>9. CASE UNCHANGED vars
  BY <1>0, <1>9 DEF vars, links, keys, flags, reads, TypeInv, ConsoleTypeOK
<1> QED BY <1>1, <1>2, <1>3, <1>4, <1>5, <1>6, <1>7, <1>8, <1>9 DEF Next

(* The types hold in every reachable state.                                *)
LEMMA TypeSafety == Spec => []TypeInv
<1>1. Init => TypeInv
  <2> SUFFICES ASSUME Init PROVE TypeInv
    OBVIOUS
  <2>1. [vl |-> 0, q |-> <<>>] \in [vl : Nat, q : Seq(Task)]
    BY EmptySeq
  <2>2. /\ 0 \in 0 .. Size - 1 /\ 0 \in 0 .. Byte - 1 /\ 0 \in 0 .. Size /\ 0 \in 0 .. Modulus
        /\ 0 \in 0 .. Cardinality(Task)
    BY ConsoleAssumption, FewHolders
  <2>3. \A c \in Console : sem[c] \in [vl : Nat, q : Seq(Task)]
    BY <2>1 DEF Init, con_init
  <2> QED BY <2>2, <2>3, ConsoleAssumption DEF Init, con_init, TypeInv, ConsoleTypeOK, NUL
<1> QED BY <1>1, TypeStep, HoldSafety, PTL DEF Spec

(* Types: an index stays in the buffer, a count in its byte, and no        *)
(* reference count passes the number of tasks, whatever the programs do.   *)
THEOREM ConsoleTypeCorrect == Spec => []ConsoleTypeOK
<1>1. TypeInv => ConsoleTypeOK
  BY DEF TypeInv
<1> QED BY <1>1, TypeSafety, PTL

----------------------------------------------------------------------------
(* The keys *)

(* Count and indices agree, and behind the write index lie the last keys,  *)
(* as many as are unread, or NUL.                                          *)
InOrder(c) ==
  /\ Congruent(Size, buff_index_end[c], buff_index_start[c] + buff_cant[c])
  /\ \A j \in 0 .. Size - 1 : j < buff_cant[c] =>
        buff[c][(buff_index_end[c] - 1 - j) % Size] \in {NUL, Successor(typed[c] - 1 - j)}

OrderInv == \A c \in Console : InOrder(c)

(* The numbers of two keys are one if they agree modulo Modulus.           *)
LEMMA SuccessorCongruent ==
  ASSUME NEW a \in Int, NEW b \in Int, Congruent(Modulus, a, b)
  PROVE  Successor(a) = Successor(b)
BY DEF Congruent, Successor

(* A console whose keys are left alone.                                    *)
LEMMA SameKeys ==
  ASSUME NEW c, InOrder(c), buff_index_end'[c] = buff_index_end[c],
         buff_index_start'[c] = buff_index_start[c], buff_cant'[c] = buff_cant[c],
         buff'[c] = buff[c], typed'[c] = typed[c]
  PROVE  InOrder(c)'
BY DEF InOrder

(* A clean page.                                                           *)
LEMMA CleanInOrder ==
  ASSUME TypeInv, OrderInv, NEW c \in Console, Clean(c)
  PROVE  OrderInv'
<1>1. ASSUME NEW x \in Console PROVE InOrder(x)'
  <2>1. CASE x = c
    <3>1. buff_cant'[x] = 0 /\ buff_index_end'[x] = 0 /\ buff_index_start'[x] = 0
      BY <2>1 DEF Clean, TypeInv, ConsoleTypeOK
    <3> QED BY <3>1 DEF InOrder, Congruent
  <2>2. CASE x # c
    <3>1. /\ buff_index_end'[x] = buff_index_end[x] /\ buff_index_start'[x] = buff_index_start[x]
          /\ buff_cant'[x] = buff_cant[x] /\ buff'[x] = buff[x] /\ typed'[x] = typed[x]
      BY <2>2 DEF Clean, TypeInv, ConsoleTypeOK
    <3> QED BY <3>1, SameKeys DEF OrderInv
  <2> QED BY <2>1, <2>2
<1> QED BY <1>1 DEF OrderInv

(* Keys are taken: the read index and the count move together.             *)
LEMMA TakeInOrder ==
  ASSUME TypeInv, OrderInv, NEW c \in Console, NEW n \in Nat, n <= buff_cant[c], buff_cant[c] \in 0 .. Size,
         Take(c, n), UNCHANGED <<buff, buff_index_end, typed>>
  PROVE  OrderInv'
<1> DEFINE r == buff_index_start[c]
           k == buff_cant[c]
           m == (r + n) % Size
<1>1. Size \in Nat \ {0} /\ r \in Int /\ k \in Nat /\ buff_index_end[c] \in Int
  BY ConsoleAssumption DEF TypeInv, ConsoleTypeOK
<1>2. /\ buff_index_start'[c] = m /\ buff_cant'[c] = k - n
      /\ \A x \in Console : x # c => buff_index_start'[x] = buff_index_start[x] /\ buff_cant'[x] = buff_cant[x]
  BY TakeExact DEF Take, TypeInv, ConsoleTypeOK
<1> HIDE DEF r, k
<1>3. Congruent(Size, r + n, m) /\ m \in Int
  BY <1>1, CongruentMod
<1> HIDE DEF m
<1>4. Congruent(Size, r + k, m + (k - n))
  <2>1. /\ r + n \in Int /\ r + k \in Int /\ m + (k - n) \in Int
        /\ (r + k) - (r + n) = (m + (k - n)) - m
    BY <1>1, <1>3
  <2> QED BY <1>1, <1>3, <2>1, CongruentStep
<1>5. Congruent(Size, buff_index_end[c], m + (k - n))
  BY <1>4, CongruentSame DEF OrderInv, InOrder, r, k
<1>6. \A j \in 0 .. Size - 1 : j < k - n => j < k
  BY <1>1
<1>7. InOrder(c)'
  <2>1. \A j \in 0 .. Size - 1 : j < k =>
          buff[c][(buff_index_end[c] - 1 - j) % Size] \in {NUL, Successor(typed[c] - 1 - j)}
    BY DEF OrderInv, InOrder, k
  <2> QED BY <1>2, <1>5, <1>6, <2>1 DEF InOrder
<1>8. ASSUME NEW x \in Console, x # c PROVE InOrder(x)'
  BY <1>2, <1>8, SameKeys DEF OrderInv
<1> QED BY <1>7, <1>8 DEF OrderInv

(* A key is stored in the cell at the write index and becomes the last.    *)
LEMMA StoreInOrder ==
  ASSUME TypeInv, OrderInv, NEW c \in Console, buff_cant[c] < Size, Store(c),
         UNCHANGED buff_index_start
  PROVE  OrderInv'
<1> DEFINE w == buff_index_end[c]
           r == buff_index_start[c]
           k == buff_cant[c]
           p == typed[c]
           m == (w + 1) % Size
           s == p % Modulus
<1>1. /\ Size \in Nat \ {0} /\ Modulus \in Nat \ {0} /\ w \in 0 .. Size - 1 /\ w \in Int /\ r \in Int
      /\ k \in Nat /\ p \in Int /\ buff[c] \in [0 .. Size - 1 -> 0 .. Modulus]
  <2>1. /\ w \in 0 .. Size - 1 /\ r \in 0 .. Size - 1 /\ k \in 0 .. Byte - 1 /\ p \in 0 .. Modulus
        /\ buff[c] \in [0 .. Size - 1 -> 0 .. Modulus]
    BY DEF TypeInv, ConsoleTypeOK
  <2> HIDE DEF w, r, k, p
  <2> QED BY <2>1, ConsoleAssumption
<1>2. /\ buff_index_end'[c] = m /\ buff_cant'[c] = k + 1 /\ typed'[c] = s + 1
      /\ buff'[c] = [buff[c] EXCEPT ![w] = Successor(p)] /\ buff_index_start' = buff_index_start
      /\ \A x \in Console : x # c => /\ buff_index_end'[x] = buff_index_end[x]
                                     /\ buff_cant'[x] = buff_cant[x] /\ buff'[x] = buff[x]
                                     /\ typed'[x] = typed[x]
  BY DEF Store, TypeInv, ConsoleTypeOK, Successor
<1> HIDE DEF w, r, k, p
<1>3. /\ Congruent(Size, m, w + 1) /\ m \in Int
      /\ Congruent(Modulus, s, p) /\ s \in Int
  BY <1>1, CongruentMod
<1> HIDE DEF m, s
<1>4. Congruent(Size, m, r + (k + 1))
  <2>1. Congruent(Size, w, r + k)
    BY DEF OrderInv, InOrder, w, r, k
  <2>2. Congruent(Size, w + 1, r + (k + 1))
    <3> DEFINE x == w + 1
               y == r + k
               z == r + (k + 1)
    <3>1. x \in Int /\ y \in Int /\ z \in Int /\ x - w = z - y
      BY <1>1
    <3>2. Congruent(Size, w, y)
      BY <2>1
    <3> HIDE DEF x, y, z
    <3>3. Congruent(Size, x, z)
      BY <1>1, <3>1, <3>2, CongruentStep
    <3> QED BY <3>3 DEF x, z
  <2> QED BY <1>3, <2>2, CongruentSame
<1>5. ASSUME NEW j \in 0 .. Size - 1, j < k + 1
      PROVE  buff'[c][(m - 1 - j) % Size] \in {NUL, Successor((s + 1) - 1 - j)}
  <2>1. (m - 1 - j) % Size = (w - j) % Size
    <3>1. Congruent(Size, m - 1 - j, w - j)
      <4> DEFINE x == m - 1 - j
                 y == w - j
                 z == w + 1
      <4>1. x \in Int /\ y \in Int /\ z \in Int /\ x - m = y - z
        <5>1. w \in Int /\ m \in Int /\ j \in Int
          BY <1>1, <1>3
        <5> QED BY <5>1
      <4>2. Size \in Nat \ {0} /\ m \in Int /\ Congruent(Size, m, z)
        BY <1>1, <1>3
      <4> HIDE DEF x, y, z
      <4>3. Congruent(Size, x, y)
        BY <4>1, <4>2, CongruentStep
      <4> QED BY <4>3 DEF x, y
    <3> QED BY <3>1 DEF Congruent
  <2>2. Successor((s + 1) - 1 - j) = Successor(p - j)
    <3>1. Congruent(Modulus, (s + 1) - 1 - j, p - j)
      BY <1>1, <1>3, CongruentStep
    <3>2. (s + 1) - 1 - j \in Int /\ p - j \in Int
      BY <1>1, <1>3
    <3> QED BY <3>1, <3>2, SuccessorCongruent
  <2>3. w % Size = w
    BY <1>1, ModSmall
  <2>4. CASE j = 0
    <3>1. w - j = w /\ p - j = p
      BY <1>1, <2>4
    <3> QED BY <1>1, <1>2, <2>1, <2>2, <2>3, <3>1
  <2>5. CASE j # 0
    <3>1. /\ j - 1 \in 0 .. Size - 1 /\ j - 1 < k /\ w - 1 - (j - 1) = w - j /\ w - j \in Int
          /\ p - 1 - (j - 1) = p - j
      BY <1>1, <1>5, <2>5
    <3>2. buff[c][(w - j) % Size] \in {NUL, Successor(p - j)}
      <4>1. \A i \in 0 .. Size - 1 : i < k => buff[c][(w - 1 - i) % Size] \in {NUL, Successor(p - 1 - i)}
        BY DEF OrderInv, InOrder, w, k, p
      <4>2. buff[c][(w - 1 - (j - 1)) % Size] \in {NUL, Successor(p - 1 - (j - 1))}
        BY <3>1, <4>1
      <4> QED BY <3>1, <4>2
    <3>3. (w - j) % Size # w
      <4>1. w - (w - j) < Size /\ 0 - Size < w - (w - j) /\ w # w - j
        BY <1>1, <2>5
      <4>2. ~Congruent(Size, w, w - j)
        BY <1>1, <3>1, <4>1, CongruentNear
      <4> QED BY <2>3, <4>2 DEF Congruent
    <3>4. (w - j) % Size \in 0 .. Size - 1
      BY <1>1, <3>1, DivMod
    <3>5. buff'[c][(w - j) % Size] = buff[c][(w - j) % Size]
      <4> DEFINE i == (w - j) % Size
      <4>1. i \in 0 .. Size - 1 /\ i # w
        BY <3>3, <3>4
      <4> HIDE DEF i
      <4>2. buff'[c][i] = buff[c][i]
        BY <1>1, <1>2, <4>1
      <4> QED BY <4>2 DEF i
    <3> QED BY <2>1, <2>2, <3>2, <3>5
  <2> QED BY <2>4, <2>5
<1>6. InOrder(c)'
  BY <1>2, <1>4, <1>5 DEF InOrder, r
<1>7. ASSUME NEW x \in Console, x # c PROVE InOrder(x)'
  BY <1>2, <1>7, SameKeys DEF OrderInv
<1> QED BY <1>6, <1>7 DEF OrderInv

(* Every step keeps the keys in order, as long as a read finds the keys it *)
(* takes.                                                                  *)
LEMMA OrderStep == HoldInv /\ TypeInv /\ ReadInv /\ OrderInv /\ [Next]_vars => OrderInv'
<1> SUFFICES ASSUME HoldInv, TypeInv, ReadInv, OrderInv, [Next]_vars PROVE OrderInv'
  OBVIOUS
<1>0. buff_cant \in [Console -> 0 .. Size] /\ ReadSizes \subseteq Nat /\ want \in [Task -> Nat]
  BY ConsoleAssumption DEF ReadInv, ReadTypes
<1>1. CASE UNCHANGED keys
  BY <1>1, SameKeys DEF OrderInv, keys
<1>2. ASSUME NEW t \in Task, NEW c \in Console, con_open(t, c) PROVE OrderInv'
  BY <1>2, CleanInOrder DEF con_open
<1>3. ASSUME NEW t \in Task, con_flush(t) PROVE OrderInv'
  <2>1. fd[t] \in Console
    BY <1>3 DEF con_flush, HoldInv
  <2>2. UNCHANGED keys \/ Clean(fd[t])
    BY <1>3 DEF con_flush
  <2> QED BY <1>1, <2>1, <2>2, CleanInOrder
<1>4. ASSUME NEW t \in Task, con_read(t) PROVE OrderInv'
  <2>1. fd[t] \in Console
    BY <1>4 DEF con_read, HoldInv
  <2>2. \/ UNCHANGED keys
        \/ \E n \in Nat : /\ n <= buff_cant[fd[t]] /\ Take(fd[t], n)
                         /\ UNCHANGED <<buff, buff_index_end, typed>>
    BY <1>0, <1>4, <2>1 DEF con_read
  <2> QED BY <1>0, <1>1, <2>1, <2>2, TakeInOrder
<1>5. ASSUME NEW t \in Task, ReadWoken(t) PROVE OrderInv'
  <2>1. /\ fd[t] \in Console /\ sem[fd[t]].q # <<t>> /\ Take(fd[t], want[t])
        /\ UNCHANGED <<buff, buff_index_end, typed>>
    BY <1>5 DEF ReadWoken, ReadInv, Waits
  <2>2. want[t] \in Nat /\ want[t] <= buff_cant[fd[t]] /\ buff_cant[fd[t]] \in 0 .. Size
    BY <1>0, <1>5, <2>1 DEF ReadWoken, ReadInv
  <2> QED BY <2>1, <2>2, TakeInOrder
<1>6. CASE console_keyPressed
  <2>1. /\ current_console \in Console /\ buff_cant[current_console] < Size /\ Store(current_console)
        /\ UNCHANGED buff_index_start
    BY <1>6 DEF console_keyPressed, TypeInv, ConsoleTypeOK
  <2> QED BY <2>1, StoreInOrder
<1>7. CASE sys_run
  <2>1. /\ current_console \in Console /\ UNCHANGED <<buff_index_start, buff_index_end, buff_cant, typed>>
        /\ buff' = [buff EXCEPT ![current_console] = [i \in 0 .. Size - 1 |-> NUL]]
    BY <1>7 DEF sys_run, TypeInv, ConsoleTypeOK
  <2>2. ASSUME NEW c \in Console PROVE InOrder(c)'
    <3>1. CASE c = current_console
      <4>1. \A i \in 0 .. Size - 1 : buff'[c][i] = NUL
        BY <2>1, <3>1 DEF TypeInv, ConsoleTypeOK
      <4>2. \A j \in 0 .. Size - 1 : (buff_index_end[c] - 1 - j) % Size \in 0 .. Size - 1
        <5>1. buff_index_end[c] \in Int /\ Size \in Nat \ {0}
          BY ConsoleAssumption DEF TypeInv, ConsoleTypeOK
        <5>2. \A j \in 0 .. Size - 1 : buff_index_end[c] - 1 - j \in Int
          BY <5>1
        <5> QED BY <5>1, <5>2, DivMod
      <4>3. Congruent(Size, buff_index_end[c], buff_index_start[c] + buff_cant[c])
        BY DEF OrderInv, InOrder
      <4> QED BY <2>1, <4>1, <4>2, <4>3 DEF InOrder
    <3>2. CASE c # current_console
      <4>1. buff'[c] = buff[c]
        BY <2>1, <3>2 DEF TypeInv, ConsoleTypeOK
      <4> QED BY <2>1, <4>1, SameKeys DEF OrderInv
    <3> QED BY <3>1, <3>2
  <2> QED BY <2>2 DEF OrderInv
<1>8. ASSUME NEW t \in Task, NEW u \in Task, Inherit(t, u) PROVE UNCHANGED keys
  BY <1>8 DEF Inherit
<1>9. UNCHANGED vars \/ move_to_right_console \/ move_to_left_console => UNCHANGED keys
  BY DEF vars, move_to_right_console, move_to_left_console
<1> QED BY <1>1, <1>2, <1>3, <1>4, <1>5, <1>6, <1>7, <1>8, <1>9 DEF Next

(* As long as no two tasks read one console at a time, the unread keys lie *)
(* in the buffer in the order they were typed, or are NUL where sys_run    *)
(* has cleared them, and never more than fit; whatever key, read and       *)
(* change of console comes between.                                        *)
THEOREM ConsoleKeysInOrder ==
  ASSUME SharedReads = FALSE
  PROVE  Spec => []KeysInOrder
<1>1. Init => OrderInv
  BY ConsoleAssumption DEF Init, con_init, OrderInv, InOrder, Congruent
<1>2. ASSUME HoldInv, TypeInv, ReadInv, OrderInv PROVE KeysInOrder
  <2> SUFFICES ASSUME NEW c \in open
               PROVE  /\ (buff_index_end[c] - buff_index_start[c] - buff_cant[c]) % Size = 0
                      /\ buff_cant[c] <= Size
                      /\ \A i \in 0 .. buff_cant[c] - 1 :
                           buff[c][(buff_index_start[c] + i) % Size] \in
                             {NUL, Successor(typed[c] - buff_cant[c] + i)}
    BY DEF KeysInOrder
  <2> DEFINE w == buff_index_end[c]
             r == buff_index_start[c]
             k == buff_cant[c]
             p == typed[c]
  <2>1. c \in Console /\ Size \in Nat \ {0} /\ w \in Int /\ r \in Int /\ k \in Nat /\ k <= Size /\ p \in Int
    <3>1. c \in Console
      BY <1>2 DEF HoldInv
    <3>2. w \in 0 .. Size - 1 /\ r \in 0 .. Size - 1 /\ k \in 0 .. Size /\ p \in 0 .. Modulus
      BY <1>2, <3>1 DEF TypeInv, ConsoleTypeOK, ReadInv, ReadTypes
    <3> HIDE DEF w, r, k, p
    <3> QED BY <3>1, <3>2, ConsoleAssumption
  <2>2. /\ Congruent(Size, w, r + k)
        /\ \A j \in 0 .. Size - 1 : j < k => buff[c][(w - 1 - j) % Size] \in {NUL, Successor(p - 1 - j)}
    BY <1>2, <2>1 DEF OrderInv, InOrder
  <2> HIDE DEF w, r, k, p
  <2>3. (w - r - k) % Size = 0
    <3>1. w - r - k = w - (r + k) /\ r + k \in Int
      BY <2>1
    <3> QED BY <2>1, <2>2, <3>1, ModDifference
  <2>4. ASSUME NEW i \in 0 .. k - 1
        PROVE  buff[c][(r + i) % Size] \in {NUL, Successor(p - k + i)}
    <3> DEFINE j == k - 1 - i
    <3>1. j \in 0 .. Size - 1 /\ j < k /\ p - 1 - j = p - k + i
      BY <2>1
    <3>2. w - 1 - j \in Int /\ r + i \in Int /\ r + k \in Int /\ (w - 1 - j) - w = (r + i) - (r + k)
      BY <2>1
    <3> HIDE DEF j
    <3>3. Congruent(Size, w - 1 - j, r + i)
      BY <2>1, <2>2, <3>2, CongruentStep
    <3> QED BY <2>2, <3>1, <3>3 DEF Congruent
  <2> QED BY <2>1, <2>3, <2>4 DEF w, r, k, p
<1>3. Spec => []ReadInv
  BY ReadSafety
<1> QED BY <1>1, <1>2, <1>3, OrderStep, HoldSafety, TypeSafety, PTL DEF Spec

----------------------------------------------------------------------------
(* The ring *)

(* A set that the steps f do not leave, and a ring with the steps f there  *)
(* and g back: who stays within a part of it by f has all of it.           *)
Closed(f, S) == \A c \in S : f[c] \in S

OneRing(f, R) == \A S \in SUBSET Console : Closed(f, S) /\ S \cap R # {} => R \subseteq S

Paired(f, g, R) == \A c \in R : f[c] \in R /\ g[c] \in R /\ g[f[c]] = c /\ f[g[c]] = c

Ring(f, g, R) == Paired(f, g, R) /\ OneRing(f, R) /\ OneRing(g, R)

(* The steps h are f with c put in after a, or with c taken out.           *)
Detour(f, h, R, a, c)   == h[c] = f[a] /\ h[a] = c /\ \A x \in R \ {a} : h[x] = f[x]
Shortcut(f, g, h, R, c) == h[g[c]] = f[c] /\ \A x \in R \ {c, g[c]} : h[x] = f[x]

(* The current console is on a ring of open consoles with all of them but  *)
(* perhaps the empty one, which then is linked to itself.                  *)
RingInv ==
  /\ next \in [Console -> Console] /\ prev \in [Console -> Console]
  /\ empty_console \in open /\ open \subseteq Console
  /\ current_console = Null =>
       open = {empty_console} /\ next[empty_console] = empty_console /\ prev[empty_console] = empty_console
  /\ current_console # Null => \E R \in SUBSET open :
       /\ current_console \in R /\ open \ {empty_console} \subseteq R /\ Ring(next, prev, R)
       /\ empty_console \notin R =>
          next[empty_console] = empty_console /\ prev[empty_console] = empty_console

(* A console that is linked to itself is a ring.                           *)
LEMMA RingOfOne ==
  ASSUME NEW f, NEW g, NEW c, f[c] = c, g[c] = c
  PROVE  Ring(f, g, {c})
BY DEF Ring, Paired, OneRing, Closed

(* c is put between a and b.  Who then stays in a part of the ring by the  *)
(* steps there stays in it without c, too.                                 *)
LEMMA InsertOneRing ==
  ASSUME NEW R \in SUBSET Console, NEW a \in R, NEW c \in Console, c \notin R, NEW f, NEW h,
         OneRing(f, R), Closed(f, R), Detour(f, h, R, a, c)
  PROVE  OneRing(h, R \cup {c})
<1> SUFFICES ASSUME NEW S \in SUBSET Console, Closed(h, S), S \cap (R \cup {c}) # {}
             PROVE  R \cup {c} \subseteq S
  BY DEF OneRing
<1> DEFINE T == S \cap R
<1>1. c \in S => f[a] \in T
  BY DEF Closed, Detour
<1>2. T # {}
  BY <1>1
<1>3. Closed(f, T)
  <2> SUFFICES ASSUME NEW x \in T PROVE f[x] \in T
    BY DEF Closed
  <2>1. CASE x = a
    BY <1>1, <2>1 DEF Closed, Detour
  <2>2. CASE x # a
    BY <2>2 DEF Closed, Detour
  <2> QED BY <2>1, <2>2
<1>4. R \subseteq S
  BY <1>2, <1>3 DEF OneRing
<1>5. c \in S
  BY <1>4 DEF Closed, Detour
<1> QED BY <1>4, <1>5

(* c is taken out from between its neighbours.                             *)
LEMMA RemoveOneRing ==
  ASSUME NEW R \in SUBSET Console, NEW c \in R, NEW f, NEW g, NEW h,
         OneRing(f, R), Paired(f, g, R), Shortcut(f, g, h, R, c)
  PROVE  OneRing(h, R \ {c})
<1> SUFFICES ASSUME NEW S \in SUBSET Console, Closed(h, S), S \cap (R \ {c}) # {}
             PROVE  R \ {c} \subseteq S
  BY DEF OneRing
<1> DEFINE U == S \cap (R \ {c})
<1>1. /\ f[g[c]] = c /\ \A x \in R : f[x] = c => x = g[c]
      /\ \A x \in R : f[x] \in R /\ g[x] \in R
      /\ h[g[c]] = f[c] /\ \A x \in R \ {c, g[c]} : h[x] = f[x]
  BY DEF Paired, Shortcut
<1>2. CASE g[c] \in S /\ g[c] # c
  <2>1. f[c] \in S
    BY <1>1, <1>2 DEF Closed
  <2>2. Closed(f, U \cup {c})
    <3> SUFFICES ASSUME NEW x \in U \cup {c} PROVE f[x] \in U \cup {c}
      BY DEF Closed
    <3>1. CASE x = c
      BY <1>1, <2>1, <3>1
    <3>2. CASE x # c /\ x = g[c]
      BY <1>1, <3>2
    <3>3. CASE x # c /\ x # g[c]
      <4>1. h[x] = f[x] /\ h[x] \in S
        BY <1>1, <3>3 DEF Closed
      <4> QED BY <1>1, <3>3, <4>1
    <3> QED BY <3>1, <3>2, <3>3
  <2>3. R \subseteq U \cup {c}
    BY <2>2 DEF OneRing
  <2> QED BY <2>3
<1>3. CASE g[c] \notin S \/ g[c] = c
  <2>1. Closed(f, U)
    <3> SUFFICES ASSUME NEW x \in U PROVE f[x] \in U
      BY DEF Closed
    <3>1. x # g[c] /\ x # c
      BY <1>3
    <3>2. h[x] = f[x] /\ h[x] \in S /\ f[x] # c
      BY <1>1, <3>1 DEF Closed
    <3> QED BY <1>1, <3>2
  <2>2. R \subseteq U
    BY <2>1 DEF OneRing
  <2> QED BY <2>2
<1> QED BY <1>2, <1>3

(* The links that con_open sets make a larger ring ...                     *)
LEMMA InsertRing ==
  ASSUME NEW R \in SUBSET Console, NEW f \in [Console -> Console], NEW g \in [Console -> Console],
         Ring(f, g, R), NEW a \in R, NEW c \in Console \ R,
         NEW h, h = [f EXCEPT ![c] = f[a], ![a] = c],
         NEW k, k = [g EXCEPT ![c] = a, ![f[a]] = c]
  PROVE  Ring(h, k, R \cup {c})
<1>1. /\ \A x \in R : f[x] \in R /\ g[x] \in R /\ g[f[x]] = x /\ f[g[x]] = x
      /\ OneRing(f, R) /\ OneRing(g, R) /\ Paired(f, g, R) /\ Paired(g, f, R)
  BY DEF Ring, Paired
<1>2. PICK b \in R : b = f[a] /\ g[b] = a
  BY <1>1
<1>3. /\ h \in [Console -> Console] /\ h[c] = b /\ h[a] = c /\ \A x \in R \ {a} : h[x] = f[x]
      /\ k \in [Console -> Console] /\ k[c] = a /\ k[b] = c /\ \A x \in R \ {b} : k[x] = g[x]
  BY <1>2
<1>4. OneRing(h, R \cup {c})
  <2>1. Closed(f, R) /\ Detour(f, h, R, a, c)
    BY <1>1, <1>2, <1>3 DEF Closed, Detour
  <2> QED BY <1>1, <2>1, InsertOneRing
<1>5. OneRing(k, R \cup {c})
  <2>1. Closed(g, R) /\ Detour(g, k, R, b, c)
    BY <1>1, <1>2, <1>3 DEF Closed, Detour
  <2> QED BY <1>1, <2>1, InsertOneRing
<1>6. ASSUME NEW x \in R \cup {c}
      PROVE  h[x] \in R \cup {c} /\ k[x] \in R \cup {c} /\ k[h[x]] = x /\ h[k[x]] = x
  <2>1. h[x] \in R \cup {c} /\ k[h[x]] = x
    <3>1. CASE x = c
      BY <1>3, <3>1
    <3>2. CASE x = a
      BY <1>3, <3>2
    <3>3. CASE x \in R \ {a}
      <4>1. h[x] = f[x] /\ f[x] \in R /\ f[x] # b
        BY <1>1, <1>2, <1>3, <3>3
      <4> QED BY <1>1, <1>3, <3>3, <4>1
    <3> QED BY <3>1, <3>2, <3>3
  <2>2. k[x] \in R \cup {c} /\ h[k[x]] = x
    <3>1. CASE x = c
      BY <1>3, <3>1
    <3>2. CASE x = b
      BY <1>3, <3>2
    <3>3. CASE x \in R \ {b}
      <4>1. k[x] = g[x] /\ g[x] \in R /\ g[x] # a
        BY <1>1, <1>2, <1>3, <3>3
      <4> QED BY <1>1, <1>3, <3>3, <4>1
    <3> QED BY <3>1, <3>2, <3>3
  <2> QED BY <2>1, <2>2
<1> QED BY <1>4, <1>5, <1>6 DEF Ring, Paired

(* The links h that con_flush makes of the links f, with g the way back.   *)
Unlinked(f, g, h, c) == h = [f EXCEPT ![g[c]] = f[c], ![c] = c]

(* ... and those that con_flush sets a smaller one.                        *)
LEMMA RemoveRing ==
  ASSUME NEW R \in SUBSET Console, NEW f \in [Console -> Console], NEW g \in [Console -> Console],
         Ring(f, g, R), NEW c \in R, R # {c},
         NEW h, Unlinked(f, g, h, c), NEW k, Unlinked(g, f, k, c)
  PROVE  Ring(h, k, R \ {c}) /\ f[c] \in R \ {c}
<1>1. /\ \A x \in R : f[x] \in R /\ g[x] \in R /\ g[f[x]] = x /\ f[g[x]] = x
      /\ OneRing(f, R) /\ OneRing(g, R) /\ Paired(f, g, R) /\ Paired(g, f, R)
  BY DEF Ring, Paired
<1>2. f[c] # c
  <2>1. f[c] = c => Closed(f, {c}) /\ {c} \in SUBSET Console /\ {c} \cap R # {}
    BY DEF Closed
  <2>2. ~(R \subseteq {c})
    OBVIOUS
  <2> QED BY <1>1, <2>1, <2>2 DEF OneRing
<1>3. PICK a \in R, b \in R : a = g[c] /\ b = f[c] /\ a # c /\ b # c
  BY <1>1, <1>2
<1>4. /\ h \in [Console -> Console] /\ h[a] = b /\ \A x \in R \ {c, a} : h[x] = f[x]
      /\ k \in [Console -> Console] /\ k[b] = a /\ \A x \in R \ {c, b} : k[x] = g[x]
  BY <1>3 DEF Unlinked
<1>5. OneRing(h, R \ {c})
  <2>1. Shortcut(f, g, h, R, c)
    BY <1>3, <1>4 DEF Shortcut
  <2> QED BY <1>1, <2>1, RemoveOneRing
<1>6. OneRing(k, R \ {c})
  <2>1. Shortcut(g, f, k, R, c)
    BY <1>3, <1>4 DEF Shortcut
  <2> QED BY <1>1, <2>1, RemoveOneRing
<1>7. ASSUME NEW x \in R \ {c}
      PROVE  h[x] \in R \ {c} /\ k[x] \in R \ {c} /\ k[h[x]] = x /\ h[k[x]] = x
  <2>1. h[x] \in R \ {c} /\ k[h[x]] = x
    <3>1. CASE x = a
      BY <1>3, <1>4, <3>1
    <3>2. CASE x # a
      <4>1. h[x] = f[x] /\ f[x] \in R /\ f[x] # b /\ f[x] # c
        BY <1>1, <1>3, <1>4, <3>2
      <4> QED BY <1>1, <1>4, <4>1
    <3> QED BY <3>1, <3>2
  <2>2. k[x] \in R \ {c} /\ h[k[x]] = x
    <3>1. CASE x = b
      BY <1>3, <1>4, <3>1
    <3>2. CASE x # b
      <4>1. k[x] = g[x] /\ g[x] \in R /\ g[x] # a /\ g[x] # c
        BY <1>1, <1>3, <1>4, <3>2
      <4> QED BY <1>1, <1>4, <4>1
    <3> QED BY <3>1, <3>2
  <2> QED BY <2>1, <2>2
<1> QED BY <1>3, <1>5, <1>6, <1>7 DEF Ring, Paired

(* con_open on a fresh page.                                               *)
LEMMA OpenKeepsRing ==
  ASSUME RingInv, current_console \in Console \cup {Null}, NEW t, NEW c \in Console, con_open(t, c)
  PROVE  RingInv'
<1>1. /\ c \notin open /\ open' = open \cup {c} /\ current_console' = c /\ Join(c) /\ c # Null
      /\ next \in [Console -> Console] /\ prev \in [Console -> Console]
      /\ empty_console \in open /\ open \subseteq Console /\ c # empty_console
  BY ConsoleAssumption DEF con_open, RingInv
<1>2. next' \in [Console -> Console] /\ prev' \in [Console -> Console]
  BY <1>1, JoinTypes
<1>3. CASE current_console = Null
  <2>1. next' = [next EXCEPT ![c] = c] /\ prev' = [prev EXCEPT ![c] = c]
    BY <1>1, <1>3, Zenon DEF Join
  <2>2. /\ next'[c] = c /\ prev'[c] = c
        /\ next'[empty_console] = empty_console /\ prev'[empty_console] = empty_console
        /\ open' = {empty_console, c}
    BY <1>1, <1>3, <2>1 DEF RingInv
  <2>3. Ring(next', prev', {c}) /\ {c} \in SUBSET open'
    BY <2>2, RingOfOne
  <2> QED BY <1>1, <1>2, <2>2, <2>3 DEF RingInv
<1>4. CASE current_console # Null
  <2>1. PICK R \in SUBSET open :
          /\ current_console \in R /\ open \ {empty_console} \subseteq R /\ Ring(next, prev, R)
          /\ empty_console \notin R =>
             next[empty_console] = empty_console /\ prev[empty_console] = empty_console
    BY <1>4 DEF RingInv
  <2>2. /\ next' = [next EXCEPT ![c] = next[current_console], ![current_console] = c]
        /\ prev' = [prev EXCEPT ![c] = current_console, ![next[current_console]] = c]
    BY <1>1, <1>4 DEF Join
  <2>3. Ring(next', prev', R \cup {c})
    BY <1>1, <2>1, <2>2, InsertRing
  <2>4. empty_console \notin R => next'[empty_console] = next[empty_console]
                                /\ prev'[empty_console] = prev[empty_console]
    <3>1. next[current_console] \in R
      BY <2>1 DEF Ring, Paired
    <3> QED BY <1>1, <2>1, <2>2, <3>1
  <2>5. /\ R \cup {c} \in SUBSET open' /\ current_console' \in R \cup {c}
        /\ open' \ {empty_console} \subseteq R \cup {c}
    BY <1>1, <2>1
  <2> QED BY <1>1, <1>2, <2>1, <2>3, <2>4, <2>5 DEF RingInv
<1> QED BY <1>3, <1>4

(* The last holder closes a console.                                       *)
LEMMA FlushKeepsRing ==
  ASSUME HoldInv, RingInv, NEW t \in Task, con_flush(t)
  PROVE  RingInv'
<1>1. PICK c \in open : c = fd[t] /\ c # empty_console
  BY DEF con_flush, HoldInv, Counted, Holders
<1>2. CASE UNCHANGED <<current_console, links>>
  BY <1>2 DEF RingInv, links, Ring, Paired, OneRing, Closed
<1>3. CASE /\ next' = [next EXCEPT ![prev[c]] = next[c], ![c] = c]
           /\ prev' = [prev EXCEPT ![next[c]] = prev[c], ![c] = c]
           /\ open' = open \ {c}
           /\ current_console' = IF current_console # c THEN current_console
                                 ELSE IF next[c] = c THEN empty_console ELSE next[c]
  <2>1. /\ next \in [Console -> Console] /\ prev \in [Console -> Console] /\ c \in Console
        /\ empty_console \in open /\ open \subseteq Console /\ current_console # Null
    BY <1>1 DEF RingInv
  <2>2. PICK R \in SUBSET open :
          /\ current_console \in R /\ open \ {empty_console} \subseteq R /\ Ring(next, prev, R)
          /\ empty_console \notin R =>
             next[empty_console] = empty_console /\ prev[empty_console] = empty_console
    BY <2>1 DEF RingInv
  <2>3. c \in R /\ next[c] \in R /\ prev[c] \in R
    BY <1>1, <2>2 DEF Ring, Paired
  <2>4. /\ next' \in [Console -> Console] /\ prev' \in [Console -> Console]
        /\ empty_console \in open' /\ open' \subseteq Console
    BY <1>1, <1>3, <2>1
  <2>5. empty_console \notin R => next'[empty_console] = next[empty_console]
                                /\ prev'[empty_console] = prev[empty_console]
    BY <1>1, <1>3, <2>1, <2>3
  <2>6. CASE R = {c}
    <3>1. /\ next[c] = c /\ current_console = c /\ current_console' = empty_console
          /\ open' = {empty_console} /\ empty_console \notin R
      BY <1>1, <1>3, <2>1, <2>2, <2>3, <2>6
    <3>2. next'[empty_console] = empty_console /\ prev'[empty_console] = empty_console
      BY <2>2, <2>5, <3>1
    <3>3. Ring(next', prev', {empty_console})
      BY <3>2, RingOfOne
    <3>4. empty_console # Null
      BY ConsoleAssumption
    <3> QED BY <2>4, <3>1, <3>3, <3>4 DEF RingInv
  <2>7. CASE R # {c}
    <3>1. Ring(next', prev', R \ {c}) /\ next[c] \in R \ {c}
      <4>1. R \in SUBSET Console /\ c \in R /\ R # {c} /\ Ring(next, prev, R)
        BY <2>1, <2>2, <2>3, <2>7
      <4>2. /\ next \in [Console -> Console] /\ Unlinked(next, prev, next', c)
            /\ prev \in [Console -> Console] /\ Unlinked(prev, next, prev', c)
        BY <1>3, <2>1 DEF Unlinked
      <4> QED BY <4>1, <4>2, RemoveRing
    <3>2. current_console' \in R \ {c} /\ R \ {c} \in SUBSET open'
      BY <1>3, <2>2, <3>1
    <3>3. current_console' # Null
      BY <2>1, <2>2, <3>2, ConsoleAssumption
    <3>4. open' \ {empty_console} \subseteq R \ {c}
      BY <1>3, <2>2
    <3>5. empty_console \notin R \ {c} =>
          next'[empty_console] = empty_console /\ prev'[empty_console] = empty_console
      BY <1>1, <2>2, <2>5
    <3> QED BY <2>4, <3>1, <3>2, <3>3, <3>4, <3>5 DEF RingInv
  <2> QED BY <2>6, <2>7
<1> QED BY <1>1, <1>2, <1>3 DEF con_flush

(* Every step keeps the ring.                                              *)
LEMMA RingStep == HoldInv /\ TypeInv /\ RingInv /\ [Next]_vars => RingInv'
<1> SUFFICES ASSUME HoldInv, TypeInv, RingInv, [Next]_vars PROVE RingInv'
  OBVIOUS
<1>1. CASE UNCHANGED <<current_console, links>>
  BY <1>1 DEF RingInv, links, Ring, Paired, OneRing, Closed
<1>2. CASE move_to_right_console \/ move_to_left_console
  <2>1. /\ current_console \in Console /\ current_console # Null /\ UNCHANGED links
        /\ current_console' \in {next[current_console], prev[current_console]}
    BY <1>2 DEF move_to_right_console, move_to_left_console, TypeInv, ConsoleTypeOK
  <2>2. PICK R \in SUBSET open :
          /\ current_console \in R /\ open \ {empty_console} \subseteq R /\ Ring(next, prev, R)
          /\ empty_console \notin R =>
             next[empty_console] = empty_console /\ prev[empty_console] = empty_console
    BY <2>1 DEF RingInv
  <2>3. current_console' \in R
    BY <2>1, <2>2 DEF Ring, Paired
  <2>4. current_console' # Null /\ next' = next /\ prev' = prev /\ open' = open
    BY <2>1, <2>2, <2>3, ConsoleAssumption DEF RingInv, links
  <2>5. Ring(next, prev, R)'
    BY <2>2, <2>4 DEF Ring, Paired, OneRing, Closed
  <2> QED BY <2>2, <2>3, <2>4, <2>5 DEF RingInv
<1>3. ASSUME NEW t \in Task, NEW u \in Task, Inherit(t, u) \/ con_read(t) \/ ReadWoken(t)
      PROVE  UNCHANGED <<current_console, links>>
  BY <1>3 DEF Inherit, con_read, ReadWoken, links
<1>4. UNCHANGED vars \/ console_keyPressed \/ sys_run => UNCHANGED <<current_console, links>>
  BY DEF vars, console_keyPressed, sys_run
<1>5. current_console \in Console \cup {Null}
  BY DEF TypeInv, ConsoleTypeOK
<1> QED BY <1>1, <1>2, <1>3, <1>4, <1>5, OpenKeepsRing, FlushKeepsRing DEF Next

(* From the current console the user reaches every open console, to the    *)
(* right and to the left, and no freed page; in whatever order consoles    *)
(* were opened, shared, walked and closed.                                 *)
THEOREM ConsoleAllReachable == Spec => []AllReachable
<1>1. Init => RingInv
  BY ConsoleAssumption DEF Init, con_init, RingInv
<1>2. ASSUME RingInv PROVE AllReachable
  <2> DEFINE Reached(step) ==
        {c \in Console : \A S \in SUBSET Console :
            current_console \in S /\ (\A d \in S : step[d] \in S) => c \in S}
  <2>1. SUFFICES ASSUME current_console # Null
                 PROVE  /\ Reached(prev) = Reached(next)
                        /\ open \ {empty_console} \subseteq Reached(next)
                        /\ Reached(next) \subseteq open
                        /\ \A c \in Reached(next) : prev[next[c]] = c /\ next[prev[c]] = c
    BY DEF AllReachable
  <2>2. PICK R \in SUBSET open :
          current_console \in R /\ open \ {empty_console} \subseteq R /\ Ring(next, prev, R)
    BY <1>2, <2>1 DEF RingInv
  <2>3. R \in SUBSET Console
    BY <1>2 DEF RingInv
  <2>4. ASSUME NEW f, OneRing(f, R), Closed(f, R) PROVE Reached(f) = R
    <3>1. Reached(f) \subseteq R
      BY <2>2, <2>3, <2>4 DEF Closed
    <3>2. R \subseteq Reached(f)
      BY <2>2, <2>3, <2>4 DEF OneRing, Closed
    <3> QED BY <3>1, <3>2
  <2>5. Reached(next) = R /\ Reached(prev) = R
    <3>1. OneRing(next, R) /\ Closed(next, R) /\ OneRing(prev, R) /\ Closed(prev, R)
      BY <2>2 DEF Ring, Paired, Closed
    <3> HIDE DEF Reached
    <3> QED BY <2>4, <3>1
  <2> HIDE DEF Reached
  <2> QED BY <2>2, <2>5 DEF Ring, Paired
<1> QED BY <1>1, <1>2, RingStep, HoldSafety, TypeSafety, PTL DEF Spec
=============================================================================
