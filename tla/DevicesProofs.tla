--------------------------- MODULE DevicesProofs ---------------------------
(***************************************************************************)
(* Proofs, for any number of tasks, entries and pages: a pid is never      *)
(* given to a new task with a descriptor of its last owner in its table;   *)
(* and, for programs that never call pipe with exactly one entry left, the *)
(* refcounts are the numbers of descriptors, and the pages of consoles and *)
(* pipes live exactly as long as these.  At the end, the open files behind *)
(* descriptors: for any page size, files and disk with one sector in a     *)
(* cluster whose root directory was read, reads within the page deliver    *)
(* the file.                                                               *)
(***************************************************************************)
EXTENDS Devices, Files, Numbers, FiniteSetTheorems, SequenceTheorems, TLAPS

(* What an entry of a table holds.                                         *)
Held == Device \cup {Dev(cpuid_dev), None}

TablesOK ==
  /\ char_devices \in [Task -> [Fd -> Held]]
  /\ alive \subseteq Task

TablesInv == TablesOK /\ StartsClosed

(* The only ways a table changes: a live task changes entries of its own,  *)
(* a free pid is given the table of another task, or is given nothing, and *)
(* a task that ends leaves its table closed.                               *)
LEMMA OwnTable ==
  ASSUME TablesInv, NEW t \in alive, NEW row \in [Fd -> Held],
         char_devices' = [char_devices EXCEPT ![t] = row], alive' = alive
  PROVE  TablesInv'
BY DEF TablesInv, TablesOK, StartsClosed

(* A free pid becomes a task, with another table or its own closed one. *)
LEMMA NewTask ==
  ASSUME TablesInv, NEW u \in Task, NEW row \in [Fd -> Held], alive' = alive \cup {u},
         UNCHANGED char_devices \/ char_devices' = [char_devices EXCEPT ![u] = row]
  PROVE  TablesInv'
BY DEF TablesInv, TablesOK, StartsClosed, Closed

(* A closed table is a table. *)
LEMMA ClosedIsTable == Closed \in [Fd -> Held]
BY DEF Closed, Held

(* A step that changes neither tables nor tasks. *)
LEMMA Untouched ==
  ASSUME TablesInv, UNCHANGED <<char_devices, alive>>
  PROVE  TablesInv'
BY DEF TablesInv, TablesOK, StartsClosed, Closed

(* Opening puts a device in one entry.                                     *)
LEMMA DescriptorKeeps ==
  ASSUME TablesInv, NEW t \in alive, NEW d \in Held, NEW start,
         device_descriptor(t, d, start), alive' = alive
  PROVE  TablesInv'
<1>1. t \in Task /\ char_devices[t] \in [Fd -> Held]
  BY DEF TablesInv, TablesOK
<1>2. CASE UNCHANGED char_devices
  BY <1>2, Untouched
<1>3. CASE char_devices' = [char_devices EXCEPT ![t][get_next_free_fd(t)] = d]
  <2> DEFINE row == [char_devices[t] EXCEPT ![get_next_free_fd(t)] = d]
  <2>1. row \in [Fd -> Held]
    BY <1>1
  <2>2. char_devices' = [char_devices EXCEPT ![t] = row]
    BY <1>3, <1>1 DEF TablesInv, TablesOK
  <2> HIDE DEF row
  <2> QED BY <2>1, <2>2, OwnTable
<1> QED BY <1>2, <1>3 DEF device_descriptor

(* pipe fills two entries, or the free ones when they are too few. *)
LEMMA PipeKeeps ==
  ASSUME TablesInv, NEW t \in Task, NEW p \in Page, sys_pipe(t, p)
  PROVE  TablesInv'
<1>1. t \in alive /\ alive' = alive /\ char_devices[t] \in [Fd -> Held]
  BY DEF sys_pipe, TablesInv, TablesOK
<1>2. End(p, "r") \in Held /\ End(p, "w") \in Held
  BY DEF End, Held, Device
<1>3. CASE PipeOpened(t, p)
  <2>1. PICK r, w : char_devices' = [char_devices EXCEPT ![t][r] = End(p, "r"), ![t][w] = End(p, "w")]
    BY <1>3 DEF PipeOpened
  <2> DEFINE row == [[char_devices[t] EXCEPT ![r] = End(p, "r")] EXCEPT ![w] = End(p, "w")]
  <2>2. row \in [Fd -> Held]
    BY <1>1, <1>2
  <2>3. char_devices' = [char_devices EXCEPT ![t] = row]
    BY <2>1, <1>1 DEF TablesInv, TablesOK
  <2> HIDE DEF row
  <2> QED BY <1>1, <2>2, <2>3, OwnTable
<1>4. CASE PipeRefused(t, p)
  <2> DEFINE row == [fd \in Fd |-> IF fd \in FreeFds(t) THEN End(p, "r") ELSE char_devices[t][fd]]
  <2>1. row \in [Fd -> Held]
    BY <1>1, <1>2
  <2>2. char_devices' = [char_devices EXCEPT ![t] = row]
    BY <1>4, <1>1 DEF TablesInv, TablesOK, PipeRefused
  <2> HIDE DEF row
  <2> QED BY <1>1, <2>1, <2>2, OwnTable
<1> QED BY <1>3, <1>4 DEF sys_pipe

(* close empties one entry. *)
LEMMA CloseKeeps ==
  ASSUME TablesInv, NEW t \in Task, NEW fd \in Fd, sys_close(t, fd)
  PROVE  TablesInv'
<1>1. t \in alive /\ alive' = alive /\ char_devices[t] \in [Fd -> Held]
  BY DEF sys_close, TablesInv, TablesOK
<1> DEFINE row == [char_devices[t] EXCEPT ![fd] = None]
<1>2. row \in [Fd -> Held]
  BY <1>1 DEF Held
<1>3. char_devices' = [char_devices EXCEPT ![t] = row]
  BY <1>1 DEF TablesInv, TablesOK, sys_close
<1> HIDE DEF row
<1> QED BY <1>1, <1>2, <1>3, OwnTable

(* exit closes every entry of the task that ends.                          *)
LEMMA ExitKeeps ==
  ASSUME TablesInv, NEW t \in Task, loader_exit(t)
  PROVE  TablesInv'
<1>1. char_devices' = [char_devices EXCEPT ![t] = Closed] /\ alive' = alive \ {t}
  BY DEF loader_exit
<1>2. char_devices' \in [Task -> [Fd -> Held]] /\ alive' \subseteq Task
  BY <1>1, ClosedIsTable DEF TablesInv, TablesOK
<1>3. ASSUME NEW u \in Task \ alive' PROVE char_devices'[u] = Closed'
  <2>1. Closed' = Closed
    BY DEF Closed
  <2>2. CASE u = t
    BY <2>1, <2>2, <1>1 DEF TablesInv, TablesOK
  <2>3. CASE u # t
    BY <2>1, <2>3, <1>1 DEF TablesInv, TablesOK, StartsClosed
  <2> QED BY <2>2, <2>3
<1> QED BY <1>2, <1>3 DEF TablesInv, TablesOK, StartsClosed

(* The invariant holds at first, and every step keeps it. *)
LEMMA TablesInvInductive ==
  /\ Init => TablesInv
  /\ TablesInv /\ [Next]_vars => TablesInv'
<1>1. ASSUME Init PROVE TablesInv
  BY <1>1, ClosedIsTable DEF Init, TablesInv, TablesOK, StartsClosed
<1>2. ASSUME TablesInv, Next PROVE TablesInv'
  <2>1. PICK t \in Task :
          \/ \E p \in Page : \/ \E k \in DOMAIN StartOf : sys_open(t, p, k)
                             \/ sys_pipe(t, p)
                             \/ \E u \in Task : sys_run(t, p, u)
          \/ proc_cpuid_open(t)
          \/ \E fd \in Fd : sys_close(t, fd)
          \/ \E u \in Task : sys_fork(t, u)
          \/ loader_exit(t)
    BY <1>2 DEF Next
  <2>2. ASSUME NEW p \in Page, NEW k \in DOMAIN StartOf, sys_open(t, p, k) PROVE TablesInv'
    <3>1. t \in alive /\ alive' = alive /\ device_descriptor(t, Dev(p), StartOf[k])
      BY <2>2 DEF sys_open
    <3>2. Dev(p) \in Held
      BY DEF Dev, Held, Device
    <3> QED BY <1>2, <3>1, <3>2, DescriptorKeeps
  <2>3. ASSUME NEW p \in Page, sys_pipe(t, p) PROVE TablesInv'
    BY <1>2, <2>3, PipeKeeps
  <2>4. ASSUME NEW p \in Page, NEW u \in Task, sys_run(t, p, u) PROVE TablesInv'
    BY <1>2, <2>4, ClosedIsTable, NewTask DEF sys_run
  <2>5. CASE proc_cpuid_open(t)
    <3>1. t \in alive /\ alive' = alive /\ char_devices[t] \in [Fd -> Held]
      BY <1>2, <2>5 DEF proc_cpuid_open, TablesInv, TablesOK
    <3> DEFINE row == [char_devices[t] EXCEPT ![get_next_free_fd(t)] = Dev(cpuid_dev)]
    <3>2. row \in [Fd -> Held]
      BY <3>1 DEF Held
    <3>3. char_devices' = [char_devices EXCEPT ![t] = row]
      BY <1>2, <2>5, <3>1 DEF TablesInv, TablesOK, proc_cpuid_open
    <3> HIDE DEF row
    <3> QED BY <1>2, <3>1, <3>2, <3>3, OwnTable
  <2>6. ASSUME NEW fd \in Fd, sys_close(t, fd) PROVE TablesInv'
    BY <1>2, <2>6, CloseKeeps
  <2>7. ASSUME NEW u \in Task, sys_fork(t, u) PROVE TablesInv'
    <3>1. char_devices[t] \in [Fd -> Held]
      BY <1>2, <2>7 DEF sys_fork, TablesInv, TablesOK
    <3> QED BY <1>2, <2>7, <3>1, NewTask DEF sys_fork, device_fork_descriptors
  <2>8. CASE loader_exit(t)
    BY <1>2, <2>8, ExitKeeps
  <2> QED BY <2>1, <2>2, <2>3, <2>4, <2>5, <2>6, <2>7, <2>8
<1>3. ASSUME TablesInv, UNCHANGED vars PROVE TablesInv'
  BY <1>3, Untouched DEF vars
<1> QED BY <1>1, <1>2, <1>3

(* A pid that no task has, has a closed table: whoever is given it next,   *)
(* by run or by fork, finds nothing of its last owner there.               *)
THEOREM DevicesStartClosed == Spec => []StartsClosed
<1>1. TablesInv => StartsClosed
  BY DEF TablesInv
<1> QED BY TablesInvInductive, <1>1, PTL DEF Spec

-----------------------------------------------------------------------------
(* References.  The entries that name a device are those of all tables, as *)
(* the tables of free pids are closed.  An invariant of each page says     *)
(* which kind of entry names it, that the counts are right while one does, *)
(* and that a console or pipe without one was never named.                 *)
Kinds == {"free", "con", "serial", "file", "pipe"}
Counted == {"con", "pipe"}
KindsOf(d) == IF d.end = "dev" THEN {"con", "serial", "file"} ELSE {"pipe"}

Tables == [Task -> [Fd -> Held]]
Names(T, d) == {x \in Task \X Fd : T[x[1]][x[2]] = d}
Named(T, p) == \E d \in Device : d.page = p /\ Names(T, d) # {}

PageOK(T, st, lost, p) ==
  /\ \A d \in Device : d.page = p /\ Names(T, d) # {} => st.kind[p] \in KindsOf(d)
  /\ st.kind[p] \in Counted /\ Named(T, p) =>
       \A d \in Device : d.page = p => st.ref[d] = Cardinality(Names(T, d))
  /\ st.kind[p] \in Counted => Named(T, p) \/ p \in lost

PagesOK(T, st, lost) == \A p \in Page : PageOK(T, st, lost, p)

States == [ref : [Device -> 0 .. Modulus - 1], kind : [Page -> Kinds]]

RefsInv == TablesInv /\ State \in States /\ PagesOK(char_devices, State, stranded)

(* There are finitely many entries, fewer than a refcount can count.       *)
LEMMA NamesBounded ==
  ASSUME NEW T, NEW d
  PROVE  /\ IsFiniteSet(Names(T, d))
         /\ Cardinality(Names(T, d)) \in Nat
         /\ Cardinality(Names(T, d)) < Modulus - 1
<1> DEFINE All == Task \X Fd
<1>1. IsFiniteSet(Task) /\ MAX_FD \in Nat \ {0} /\ Modulus \in Nat /\ Modulus > MAX_FD * Cardinality(Task) + 1
  BY DevicesAssumption
<1>2. IsFiniteSet(Fd) /\ Cardinality(Fd) = MAX_FD
  BY <1>1, FS_Interval DEF Fd
<1>3. IsFiniteSet(All) /\ Cardinality(All) = Cardinality(Task) * Cardinality(Fd)
  BY <1>1, <1>2, FS_Product
<1>4. Names(T, d) \in SUBSET All
  BY DEF Names
<1> HIDE DEF All
<1>5. IsFiniteSet(Names(T, d)) /\ Cardinality(Names(T, d)) <= Cardinality(All)
  BY <1>3, <1>4, FS_Subset
<1>6. Cardinality(Names(T, d)) \in Nat /\ Cardinality(Task) \in Nat
  BY <1>1, <1>5, FS_CardinalityType
<1>7. Cardinality(Task) * MAX_FD = MAX_FD * Cardinality(Task) /\ MAX_FD * Cardinality(Task) \in Nat
  BY <1>1, <1>6
<1> QED BY <1>1, <1>2, <1>3, <1>5, <1>6, <1>7

(* An entry that named no device with a count comes to name d.             *)
LEMMA NameAdded ==
  ASSUME NEW T \in Tables, NEW t \in Task, NEW fd \in Fd, NEW d \in Held,
         T[t][fd] \notin Device
  PROVE  LET T2 == [T EXCEPT ![t][fd] = d]
         IN  /\ T2 \in Tables
             /\ \A e \in Device : e # d => Names(T2, e) = Names(T, e)
             /\ d \in Device => /\ Names(T2, d) = Names(T, d) \cup {<<t, fd>>}
                               /\ Cardinality(Names(T2, d)) = Cardinality(Names(T, d)) + 1
<1> DEFINE T2 == [T EXCEPT ![t][fd] = d]
<1>1. \A u \in Task, g \in Fd : T2[u][g] = IF u = t /\ g = fd THEN d ELSE T[u][g]
  BY DEF Tables
<1>2. T2 \in Tables
  BY DEF Tables
<1> HIDE DEF T2
<1>3. \A e \in Device : e # d => Names(T2, e) = Names(T, e)
  BY <1>1 DEF Names
<1>4. ASSUME d \in Device
      PROVE  /\ Names(T2, d) = Names(T, d) \cup {<<t, fd>>}
             /\ Cardinality(Names(T2, d)) = Cardinality(Names(T, d)) + 1
  <2>1. Names(T2, d) = Names(T, d) \cup {<<t, fd>>}
    BY <1>1 DEF Names
  <2>2. <<t, fd>> \notin Names(T, d)
    BY <1>4 DEF Names
  <2> QED BY <2>1, <2>2, NamesBounded, FS_AddElement
<1> QED BY <1>2, <1>3, <1>4 DEF T2

(* An entry is closed.                                                     *)
LEMMA NameRemoved ==
  ASSUME NEW T \in Tables, NEW t \in Task, NEW fd \in Fd
  PROVE  LET d == T[t][fd]
             T2 == [T EXCEPT ![t][fd] = None]
         IN  /\ T2 \in Tables
             /\ \A e \in Device : e # d => Names(T2, e) = Names(T, e)
             /\ d \in Device => /\ Names(T2, d) = Names(T, d) \ {<<t, fd>>}
                               /\ Cardinality(Names(T2, d)) = Cardinality(Names(T, d)) - 1
<1> DEFINE d == T[t][fd]
           T2 == [T EXCEPT ![t][fd] = None]
<1>1. \A u \in Task, g \in Fd : T2[u][g] = IF u = t /\ g = fd THEN None ELSE T[u][g]
  BY DEF Tables
<1>2. T2 \in Tables
  BY DEF Tables, Held
<1> HIDE DEF T2
<1>3. \A e \in Device : e # d => Names(T2, e) = Names(T, e)
  BY <1>1, NoneAssumption DEF Names
<1>4. ASSUME d \in Device
      PROVE  /\ Names(T2, d) = Names(T, d) \ {<<t, fd>>}
             /\ Cardinality(Names(T2, d)) = Cardinality(Names(T, d)) - 1
  <2>1. Names(T2, d) = Names(T, d) \ {<<t, fd>>}
    BY <1>1, <1>4, NoneAssumption DEF Names
  <2>2. <<t, fd>> \in Names(T, d)
    BY DEF Names
  <2> QED BY <2>1, <2>2, NamesBounded, FS_RemoveElement
<1> QED BY <1>2, <1>3, <1>4 DEF T2

(* A page that a step does not concern.                                    *)
LEMMA OtherPage ==
  ASSUME NEW T, NEW T2, NEW st, NEW st2, NEW lost, NEW lost2, NEW p \in Page,
         PageOK(T, st, lost, p), lost \subseteq lost2, st2.kind[p] = st.kind[p],
         \A d \in Device : d.page = p => Names(T2, d) = Names(T, d) /\ st2.ref[d] = st.ref[d]
  PROVE  PageOK(T2, st2, lost2, p)
BY DEF PageOK, Named

(* What a flush does to the count it decides on.                           *)
LEMMA Decrement ==
  ASSUME NEW n \in 1 .. Modulus - 1
  PROVE  Minus(n) = n - 1
BY DevicesAssumption DEF Minus

(* An entry is emptied and its device flushed, by close or by exit.        *)
LEMMA FlushKeeps ==
  ASSUME NEW T \in Tables, NEW st \in States, NEW lost, PagesOK(T, st, lost),
         NEW t \in Task, NEW fd \in Fd, T[t][fd] # None
  PROVE  LET T2 == [T EXCEPT ![t][fd] = None]
             st2 == flush(st, T[t][fd])
         IN  T2 \in Tables /\ st2 \in States /\ PagesOK(T2, st2, lost)
<1> DEFINE d == T[t][fd]
           T2 == [T EXCEPT ![t][fd] = None]
           st2 == flush(st, d)
           N == Cardinality(Names(T, d))
<1>1. d \in Device \/ d = Dev(cpuid_dev)
  BY DEF Tables, Held
<1>2. /\ T2 \in Tables
      /\ \A e \in Device : e # d => Names(T2, e) = Names(T, e)
      /\ d \in Device => /\ Names(T2, d) = Names(T, d) \ {<<t, fd>>}
                        /\ Cardinality(Names(T2, d)) = N - 1
  <2> HIDE DEF st2
  <2> QED BY NameRemoved
<1>3. ASSUME d \notin Device PROVE st2 \in States /\ PagesOK(T2, st2, lost)
  <2>1. st2 = st
    BY <1>1, <1>3 DEF flush
  <2>2. ASSUME NEW p \in Page PROVE PageOK(T2, st2, lost, p)
    <3>1. \A e \in Device : Names(T2, e) = Names(T, e)
      BY <1>2, <1>3
    <3> HIDE DEF T2, st2
    <3> QED BY <2>1, <3>1, OtherPage DEF PagesOK
  <2> QED BY <2>1, <2>2 DEF PagesOK
<1>4. ASSUME d \in Device PROVE st2 \in States /\ PagesOK(T2, st2, lost)
  <2> DEFINE p == d.page
  <2>1. p \in Page /\ d # Dev(cpuid_dev) /\ d.end \in {"dev", "r", "w"}
    BY <1>4, DevicesAssumption DEF Device, Dev
  <2>2. <<t, fd>> \in Names(T, d)
    BY DEF Names
  <2>3. N \in Nat /\ N > 0 /\ N < Modulus - 1
    BY <2>2, NamesBounded, FS_EmptySet
  <2>4. /\ st.kind[p] \in KindsOf(d) /\ Named(T, p)
        /\ \A e \in Device : e.page = p /\ Names(T, e) # {} => st.kind[p] \in KindsOf(e)
        /\ st.kind[p] \in Counted =>
             \A e \in Device : e.page = p => st.ref[e] = Cardinality(Names(T, e))
    BY <1>4, <2>1, <2>2 DEF PagesOK, PageOK, Named
  <2>5. Modulus \in Nat /\ Minus(N) = N - 1
    BY <2>3, Decrement, DevicesAssumption
  <2>6. Names(T2, d) # {} <=> N > 1
    BY <1>2, <1>4, <2>3, NamesBounded, FS_EmptySet
  (* What the flush functions have in common. *)
  <2>7. /\ \A e \in Device : e # d => st2.ref[e] = st.ref[e]
        /\ \A q \in Page : q # p => st2.kind[q] = st.kind[q]
        /\ st2 \in States
    <3>1. CASE st2 = st
      BY <3>1
    <3>2. CASE st.kind[p] = "con"
      <4>1. st.ref[d] = N
        BY <1>4, <2>4, <3>2 DEF Counted
      <4>2. st2 = IF N > 1 THEN [st EXCEPT !.ref[d] = N - 1] ELSE [st EXCEPT !.kind[p] = "free"]
        BY <2>1, <3>2, <4>1 DEF flush, con_flush, States
      <4> HIDE DEF st2, N, p, d
      <4> QED BY <4>2, <1>4, <2>1, <2>3, <2>5 DEF States, Kinds
    <3>3. CASE st.kind[p] = "pipe"
      <4>1. st.ref[d] = N
        BY <1>4, <2>4, <3>3 DEF Counted
      <4>2. \/ st2 = [st EXCEPT !.ref[d] = N - 1]
            \/ st2 = [st EXCEPT !.ref[d] = N - 1, !.kind[p] = "free"]
        BY <2>1, <2>5, <3>3, <4>1 DEF flush, pipe_flush, States
      <4>3. N - 1 \in 0 .. Modulus - 1 /\ d \in Device /\ p \in Page
        BY <1>4, <2>1, <2>3, <2>5
      <4> HIDE DEF st2, N, p, d
      <4>4. CASE st2 = [st EXCEPT !.ref[d] = N - 1]
        BY <4>3, <4>4 DEF States
      <4>5. CASE st2 = [st EXCEPT !.ref[d] = N - 1, !.kind[p] = "free"]
        <5> DEFINE c == [st.ref EXCEPT ![d] = N - 1]
                   k == [st.kind EXCEPT ![p] = "free"]
        <5>1. st2 = [ref |-> c, kind |-> k]
          BY <4>5 DEF States
        <5>2. c \in [Device -> 0 .. Modulus - 1] /\ k \in [Page -> Kinds]
          BY <4>3 DEF States, Kinds
        <5>3. /\ \A e \in Device : e # d => c[e] = st.ref[e]
              /\ \A q \in Page : q # p => k[q] = st.kind[q]
          BY DEF States
        <5> HIDE DEF c, k
        <5> QED BY <5>1, <5>2, <5>3 DEF States
      <4> QED BY <4>2, <4>4, <4>5
    <3> QED BY <3>1, <3>2, <3>3, <2>1 DEF flush
  <2>8. ASSUME NEW q \in Page, q # p PROVE PageOK(T2, st2, lost, q)
    <3>1. \A e \in Device : e.page = q => Names(T2, e) = Names(T, e) /\ st2.ref[e] = st.ref[e]
      BY <1>2, <2>7, <2>8
    <3>2. st2.kind[q] = st.kind[q]
      BY <2>7, <2>8
    <3> HIDE DEF T2, st2
    <3> QED BY <3>1, <3>2, OtherPage DEF PagesOK
  <2>9. PageOK(T2, st2, lost, p)
    <3>1. CASE st.kind[p] \notin Counted
      <4>1. st2 = st
        BY <2>1, <3>1 DEF flush, Counted
      <4>2. \A e \in Device : e.page = p /\ Names(T2, e) # {} => Names(T, e) # {}
        BY <1>2, <2>2
      <4> HIDE DEF T2, st2
      <4> QED BY <2>4, <3>1, <4>1, <4>2 DEF PageOK
    <3>2. ASSUME st.kind[p] \in Counted, st2.kind[p] = "free",
                 \A e \in Device : e.page = p => Names(T2, e) = {}
          PROVE  PageOK(T2, st2, lost, p)
      BY <3>2 DEF PageOK, Counted
    <3>3. ASSUME st.kind[p] \in Counted, st2.kind[p] = st.kind[p], st2.ref[d] = N - 1,
                 Named(T2, p)
          PROVE  PageOK(T2, st2, lost, p)
      <4>1. \A e \in Device : e.page = p => st2.ref[e] = Cardinality(Names(T2, e))
        BY <1>2, <1>4, <2>4, <2>7, <3>3
      <4>2. \A e \in Device : e.page = p /\ Names(T2, e) # {} => st.kind[p] \in KindsOf(e)
        BY <1>2, <2>2, <2>4
      <4> HIDE DEF T2, st2
      <4> QED BY <3>3, <4>1, <4>2 DEF PageOK
    <3>4. CASE st.kind[p] = "con"
      <4>1. st.ref[d] = N /\ d.end = "dev"
        BY <1>4, <2>1, <2>4, <3>4 DEF Counted, KindsOf
      <4>2. st2 = IF N > 1 THEN [st EXCEPT !.ref[d] = N - 1] ELSE [st EXCEPT !.kind[p] = "free"]
        BY <2>1, <3>4, <4>1 DEF flush, con_flush, States
      <4>3. CASE N > 1
        <5>1. st2.kind[p] = st.kind[p] /\ st2.ref[d] = N - 1
          BY <4>2, <4>3, <1>4 DEF States
        <5>2. Named(T2, p)
          BY <4>3, <2>6, <1>4 DEF Named
        <5> QED BY <5>1, <5>2, <3>3, <3>4 DEF Counted
      <4>4. CASE ~ (N > 1)
        <5>1. st2.kind[p] = "free"
          BY <4>2, <4>4, <2>1 DEF States
        <5>2. ASSUME NEW e \in Device, e.page = p, Names(T2, e) # {} PROVE FALSE
          <6>1. e # d
            BY <5>2, <2>6, <4>4
          <6>2. e.end = "dev"
            BY <5>2, <6>1, <1>2, <2>4, <3>4 DEF KindsOf
          <6> QED BY <5>2, <6>1, <6>2, <4>1, <1>4 DEF Device
        <5> QED BY <5>1, <5>2, <3>2, <3>4 DEF Counted
      <4> QED BY <4>3, <4>4
    <3>5. CASE st.kind[p] = "pipe"
      <4> DEFINE o == Other(d)
      <4>1. st.ref[d] = N /\ d.end \in {"r", "w"}
        BY <1>4, <2>1, <2>4, <3>5 DEF Counted, KindsOf
      <4>2. o \in Device /\ o.page = p /\ o # d /\ \A e \in Device : e.page = p /\ e.end # "dev" => e \in {d, o}
        BY <4>1, <2>1, <1>4 DEF Device, Other, End
      <4>3. st.ref[o] = Cardinality(Names(T, o)) /\ Names(T2, o) = Names(T, o)
        BY <4>2, <2>4, <3>5, <1>2 DEF Counted
      <4> HIDE DEF o
      <4>4. CASE N = 1 /\ st.ref[o] = 0
        <5>1. st2 = [st EXCEPT !.ref[d] = Minus(@), !.kind[p] = "free"]
          <6>1. Minus(st.ref[d]) = 0 /\ st.ref[Other(d)] = 0
            BY <2>5, <4>1, <4>4 DEF o
          <6>2. st2 = pipe_flush(st, d)
            BY <2>1, <3>5 DEF flush
          <6> HIDE DEF st2, N
          <6> QED BY <6>1, <6>2 DEF pipe_flush
        <5>2. st2.kind[p] = "free"
          BY <5>1, <2>1 DEF States
        <5>3. Names(T2, d) = {} /\ Names(T2, o) = {}
          <6>1. ~ (N > 1) /\ Cardinality(Names(T, o)) = 0
            BY <4>3, <4>4
          <6>2. Names(T, o) = {}
            BY <6>1, NamesBounded, FS_EmptySet
          <6> QED BY <4>3, <6>1, <6>2, <2>6
        <5>4. ASSUME NEW e \in Device, e.page = p, Names(T2, e) # {} PROVE FALSE
          <6>1. e # d /\ e # o
            BY <5>3, <5>4
          <6>2. e.end = "dev"
            BY <5>4, <6>1, <4>2
          <6>3. Names(T, e) # {}
            BY <5>4, <6>1, <1>2
          <6> QED BY <5>4, <6>2, <6>3, <2>4, <3>5 DEF KindsOf
        <5> QED BY <5>2, <5>4, <3>2, <3>5 DEF Counted
      <4>5. CASE ~ (N = 1 /\ st.ref[o] = 0)
        <5>1. st2 = [st EXCEPT !.ref[d] = N - 1]
          BY <2>1, <2>3, <2>5, <3>5, <4>1, <4>5 DEF flush, pipe_flush, States, o
        <5>2. st2.kind[p] = st.kind[p] /\ st2.ref[d] = N - 1
          BY <5>1, <1>4 DEF States
        <5>3. Named(T2, p)
          <6>1. CASE N > 1
            BY <6>1, <2>6, <1>4 DEF Named
          <6>2. CASE st.ref[o] # 0
            BY <6>2, <4>2, <4>3, FS_EmptySet DEF Named
          <6> QED BY <6>1, <6>2, <4>5, <2>3
        <5> QED BY <5>2, <5>3, <3>3, <3>5 DEF Counted
      <4> QED BY <4>4, <4>5
    <3> QED BY <3>1, <3>4, <3>5 DEF Counted
  <2> QED BY <2>7, <2>8, <2>9 DEF PagesOK
<1> QED BY <1>2, <1>3, <1>4

(* The entries the properties speak of are those of all tables.            *)
LEMMA EntriesAreNames ==
  ASSUME TablesInv, NEW d \in Device
  PROVE  Entries(d) = Names(char_devices, d)
<1>1. Entries(d) \subseteq Names(char_devices, d)
  BY DEF Entries, Names, TablesInv, TablesOK
<1>2. ASSUME NEW x \in Names(char_devices, d) PROVE x \in Entries(d)
  <2>1. x \in Task \X Fd /\ char_devices[x[1]][x[2]] = d
    BY <1>2 DEF Names
  <2>2. x[1] \notin alive => char_devices[x[1]] = [fd \in Fd |-> None]
    BY <2>1 DEF TablesInv, StartsClosed, Closed
  <2>3. x[1] \in alive
    BY <2>1, <2>2, NoneAssumption
  <2> QED BY <2>1, <2>3 DEF Entries
<1> QED BY <1>1, <1>2

(* The first free entry is free.                                           *)
LEMMA NextFree ==
  ASSUME NEW t, FreeFds(t) # {}
  PROVE  get_next_free_fd(t) \in FreeFds(t)
<1>1. FreeFds(t) \in SUBSET Nat
  BY DevicesAssumption DEF FreeFds, Fd
<1>2. \E fd \in FreeFds(t) : \A g \in FreeFds(t) : fd <= g
  BY <1>1, Least
<1> QED BY <1>2 DEF get_next_free_fd

(* A page that is free has no entry.                                       *)
LEMMA FreshPage ==
  ASSUME RefsInv, NEW p \in Page, kind[p] = "free", NEW d \in Device, d.page = p
  PROVE  Names(char_devices, d) = {}
BY DEF RefsInv, PagesOK, PageOK, KindsOf, State

(* A step that concerns one page, which was free.                          *)
LEMMA FreshPageKeeps ==
  ASSUME RefsInv, NEW p \in Page, TablesInv', State' \in States,
         \A q \in Page : q # p => kind'[q] = kind[q],
         \A d \in Device : d.page # p =>
           Names(char_devices', d) = Names(char_devices, d) /\ refcount'[d] = refcount[d],
         stranded \subseteq stranded',
         PageOK(char_devices', State', stranded', p)
  PROVE  RefsInv'
<1>1. ASSUME NEW q \in Page, q # p PROVE PageOK(char_devices', State', stranded', q)
  <2>1. PageOK(char_devices, State, stranded, q)
    BY DEF RefsInv, PagesOK
  <2>2. \A d \in Device : d.page = q => /\ Names(char_devices', d) = Names(char_devices, d)
                                       /\ State'.ref[d] = State.ref[d]
    BY <1>1 DEF State
  <2>3. State'.kind[q] = State.kind[q]
    BY <1>1 DEF State
  <2> QED BY <2>1, <2>2, <2>3, OtherPage
<1> QED BY <1>1 DEF RefsInv, PagesOK

(* What opening leaves in refcount and kind is of their types.             *)
LEMMA NewState ==
  ASSUME RefsInv, NEW p \in Page, NEW k \in Kinds, NEW c,
         c \in [Device -> 0 .. Modulus - 1], refcount' = c, kind' = [kind EXCEPT ![p] = k]
  PROVE  /\ State' \in States
         /\ kind'[p] = k /\ \A q \in Page : q # p => kind'[q] = kind[q]
BY DEF RefsInv, State, States

(* open of a console, a serial port or a file.                             *)
LEMMA OpenKeepsRefs ==
  ASSUME RefsInv, NEW t \in Task, NEW p \in Page, NEW k \in DOMAIN StartOf,
         sys_open(t, p, k), TablesInv'
  PROVE  RefsInv'
<1> DEFINE dev == Dev(p)
           tab == char_devices
<1>1. /\ tab \in Tables /\ refcount \in [Device -> 0 .. Modulus - 1]
      /\ Modulus \in Nat /\ Modulus > 1
  <2>1. Cardinality(Names(tab, dev)) \in Nat /\ Cardinality(Names(tab, dev)) < Modulus - 1
    BY NamesBounded
  <2> QED BY <2>1, DevicesAssumption DEF RefsInv, TablesInv, TablesOK, Tables, State, States
<1>2. /\ k \in {"con", "serial", "file"} /\ StartOf[k] \in {0, 1} /\ (k = "con" => StartOf[k] = 0)
      /\ kind[p] = "free" /\ kind' = [kind EXCEPT ![p] = k]
      /\ device_descriptor(t, dev, StartOf[k])
  BY DEF sys_open, Allocated, StartOf
<1>3. /\ dev \in Device /\ dev.page = p /\ dev.end = "dev"
      /\ \A e \in Device : e.page = p /\ e # dev => e.end # "dev"
  BY DEF Device, Dev
<1>4. Blank(p) \in [Device -> 0 .. Modulus - 1]
  BY <1>1 DEF Blank
<1>5. \A e \in Device : Blank(p)[e] = IF e.page = p THEN 0 ELSE refcount[e]
  BY DEF Blank
<1>6. \A e \in Device : e.page = p => Names(tab, e) = {}
  BY <1>2, FreshPage
<1>7. Plus(StartOf[k]) \in 0 .. Modulus - 1 /\ (k = "con" => Plus(StartOf[k]) = 1)
  BY <1>1, <1>2 DEF Plus
<1>8. Cardinality({}) = 0
  BY FS_EmptySet
<1> HIDE DEF dev
<1>9. CASE FreeFds(t) # {}
  <2>1. PICK slot \in FreeFds(t) : slot = get_next_free_fd(t)
    BY <1>9, NextFree
  <2> DEFINE T2 == [tab EXCEPT ![t][slot] = dev]
             c == [Blank(p) EXCEPT ![dev] = Plus(StartOf[k])]
  <2>2. slot \in Fd /\ tab[t][slot] \notin Device
    BY NoneAssumption DEF FreeFds
  <2>3. char_devices' = T2 /\ refcount' = c /\ stranded' = stranded
    BY <1>2, <1>3, <1>9, <2>1 DEF device_descriptor
  <2>4. /\ \A e \in Device : e # dev => Names(T2, e) = Names(tab, e)
        /\ Cardinality(Names(T2, dev)) = Cardinality(Names(tab, dev)) + 1
        /\ Names(T2, dev) = Names(tab, dev) \cup {<<t, slot>>}
    <3>1. PICK d \in Device : d = dev
      BY <1>3
    <3>2. d \in Held /\ tab \in Tables
      BY <1>1 DEF Held
    <3>3. \A e \in Device : e # d => Names([tab EXCEPT ![t][slot] = d], e) = Names(tab, e)
      BY <2>2, <3>2, NameAdded
    <3>4. Names([tab EXCEPT ![t][slot] = d], d) = Names(tab, d) \cup {<<t, slot>>}
      BY <2>2, <3>2, NameAdded
    <3>5. Cardinality(Names([tab EXCEPT ![t][slot] = d], d)) = Cardinality(Names(tab, d)) + 1
      BY <2>2, <3>2, NameAdded
    <3> QED BY <3>1, <3>3, <3>4, <3>5
  <2>5. c \in [Device -> 0 .. Modulus - 1] /\ c[dev] = Plus(StartOf[k]) /\ \A e \in Device : e # dev => c[e] = Blank(p)[e]
    BY <1>3, <1>4, <1>7
  <2> HIDE DEF tab, T2, c
  <2>6. /\ State' \in States
        /\ kind'[p] = k /\ \A q \in Page : q # p => kind'[q] = kind[q]
    BY <1>2, <2>3, <2>5, NewState DEF Kinds
  <2>7. PageOK(T2, State', stranded', p)
    <3>1. State'.kind[p] = k /\ State'.ref = c
      BY <2>3, <2>6 DEF State
    <3>2. \A e \in Device : e.page = p /\ Names(T2, e) # {} => k \in KindsOf(e)
      BY <1>2, <1>3, <1>6, <2>4 DEF KindsOf
    <3>3. Named(T2, p)
      BY <1>3, <2>4 DEF Named
    <3>4. k \in Counted => \A e \in Device : e.page = p => c[e] = Cardinality(Names(T2, e))
      <4>1. k \in Counted => k = "con"
        BY <1>2 DEF Counted
      <4>2. \A e \in Device : e.page = p /\ e # dev => c[e] = 0 /\ Names(T2, e) = {}
        BY <1>5, <1>6, <2>4, <2>5
      <4>3. k = "con" => c[dev] = Cardinality(Names(T2, dev))
        <5>1. Names(tab, dev) = {}
          BY <1>3, <1>6
        <5> QED BY <5>1, <1>7, <1>8, <2>4, <2>5
      <4> QED BY <1>8, <4>1, <4>2, <4>3
    <3> QED BY <3>1, <3>2, <3>3, <3>4 DEF PageOK
  <2>8. \A e \in Device : e.page # p => Names(T2, e) = Names(tab, e) /\ refcount'[e] = refcount[e]
    BY <1>3, <1>5, <2>3, <2>4, <2>5
  <2> QED BY <2>3, <2>6, <2>7, <2>8, FreshPageKeeps DEF tab
<1>10. CASE FreeFds(t) = {}
  <2> DEFINE c == [Blank(p) EXCEPT ![dev] = StartOf[k]]
  <2>1. char_devices' = tab /\ refcount' = c /\ stranded' = stranded \cup {p}
    BY <1>2, <1>3, <1>10 DEF device_descriptor
  <2>2. /\ c \in [Device -> 0 .. Modulus - 1]
        /\ \A e \in Device : e.page # p => c[e] = refcount[e]
    BY <1>1, <1>2, <1>3, <1>4, <1>5
  <2> HIDE DEF tab, c
  <2>3. /\ State' \in States
        /\ kind'[p] = k /\ \A q \in Page : q # p => kind'[q] = kind[q]
    BY <1>2, <2>1, <2>2, NewState DEF Kinds
  <2>4. PageOK(tab, State', stranded', p)
    BY <1>6, <2>1 DEF PageOK, Named
  <2> QED BY <2>1, <2>2, <2>3, <2>4, FreshPageKeeps DEF tab
<1> QED BY <1>9, <1>10

(* run opens the file of the program and keeps no descriptor of it.        *)
LEMMA RunKeepsRefs ==
  ASSUME RefsInv, NEW t \in Task, NEW p \in Page, NEW u \in Task,
         sys_run(t, p, u), TablesInv'
  PROVE  RefsInv'
<1> DEFINE c == [Blank(p) EXCEPT ![Dev(p)] = StartOf["file"]]
<1>1. /\ kind[p] = "free" /\ kind' = [kind EXCEPT ![p] = "file"] /\ refcount' = c
      /\ stranded' = stranded \cup {p} /\ char_devices' = char_devices
  BY DEF sys_run, Allocated
<1>2. c \in [Device -> 0 .. Modulus - 1]
  <2>1. Cardinality(Names(char_devices, None)) \in Nat /\ Cardinality(Names(char_devices, None)) < Modulus - 1
    BY NamesBounded
  <2>2. Modulus \in Nat /\ Modulus > 1
    BY <2>1, DevicesAssumption
  <2>3. Blank(p) \in [Device -> 0 .. Modulus - 1] /\ StartOf["file"] = 1
    BY <2>2 DEF Blank, RefsInv, State, States, StartOf
  <2>4. Dev(p) \in Device
    BY DEF Dev, Device
  <2> QED BY <2>2, <2>3, <2>4
<1>3. \A e \in Device : e.page # p => c[e] = refcount[e]
  BY DEF Blank, Dev
<1> HIDE DEF c
<1>4. /\ State' \in States
      /\ kind'[p] = "file" /\ \A q \in Page : q # p => kind'[q] = kind[q]
  BY <1>1, <1>2, NewState DEF Kinds
<1>5. PageOK(char_devices, State', stranded', p)
  BY <1>1, FreshPage DEF PageOK, Named
<1> QED BY <1>1, <1>3, <1>4, <1>5, FreshPageKeeps

(* open of /proc/cpuid: no page and no count is concerned.                 *)
LEMMA CpuidKeepsRefs ==
  ASSUME RefsInv, NEW t \in Task, proc_cpuid_open(t), TablesInv'
  PROVE  RefsInv'
<1>2. PICK slot \in FreeFds(t) : slot = get_next_free_fd(t)
  BY NextFree DEF proc_cpuid_open
<1> DEFINE T2 == [char_devices EXCEPT ![t][slot] = Dev(cpuid_dev)]
<1>1. char_devices \in Tables /\ char_devices' = T2 /\ UNCHANGED <<refcount, kind, stranded>>
  BY <1>2 DEF RefsInv, TablesInv, TablesOK, Tables, proc_cpuid_open
<1>3. slot \in Fd /\ char_devices[t][slot] \notin Device
  BY NoneAssumption DEF FreeFds
<1>4. Dev(cpuid_dev) \in Held /\ Dev(cpuid_dev) \notin Device
  BY DevicesAssumption DEF Held, Dev, Device
<1>5. \A e \in Device : Names(T2, e) = Names(char_devices, e)
  <2>1. PICK dev \in Held : dev = Dev(cpuid_dev) /\ dev \notin Device
    BY <1>4
  <2>2. char_devices \in Tables
    BY <1>1
  <2>3. \A e \in Device : e # dev => Names([char_devices EXCEPT ![t][slot] = dev], e) = Names(char_devices, e)
    BY <1>3, <2>2, NameAdded
  <2> QED BY <2>1, <2>3
<1> HIDE DEF T2
<1>6. State' = State
  BY <1>1 DEF State
<1>7. ASSUME NEW p \in Page PROVE PageOK(T2, State, stranded, p)
  BY <1>5, OtherPage DEF RefsInv, PagesOK
<1> QED BY <1>1, <1>6, <1>7 DEF RefsInv, PagesOK

(* close of an entry.                                                      *)
LEMMA CloseKeepsRefs ==
  ASSUME RefsInv, NEW t \in Task, NEW fd \in Fd, sys_close(t, fd), TablesInv'
  PROVE  RefsInv'
<1> DEFINE T2 == [char_devices EXCEPT ![t][fd] = None]
           st2 == flush(State, char_devices[t][fd])
<1>1. char_devices \in Tables /\ char_devices' = T2 /\ stranded' = stranded
  BY DEF RefsInv, TablesInv, TablesOK, Tables, sys_close
<1>2. char_devices[t][fd] # None /\ refcount' = st2.ref /\ kind' = st2.kind
  BY DEF sys_close
<1>3. st2 \in States /\ PagesOK(T2, st2, stranded)
  BY <1>1, <1>2, FlushKeeps DEF RefsInv
<1> HIDE DEF st2, T2
<1>4. State' = st2
  BY <1>2, <1>3 DEF State, States
<1> QED BY <1>1, <1>3, <1>4 DEF RefsInv

(* exit closes the entries one after another: that many of them are empty  *)
(* after n steps.                                                          *)
Emptied(T, t, n) == [T EXCEPT ![t] = [fd \in Fd |-> IF fd < n THEN None ELSE T[t][fd]]]

(* Each of the steps is a close.                                           *)
LEMMA StepsKeep ==
  ASSUME NEW T \in Tables, NEW t \in Task, NEW lost, NEW after,
         after[0] \in States, PagesOK(T, after[0], lost),
         \A n \in 1 .. MAX_FD :
           after[n] = IF T[t][n - 1] = None THEN after[n - 1]
                      ELSE flush(after[n - 1], T[t][n - 1])
  PROVE  after[MAX_FD] \in States /\ PagesOK([T EXCEPT ![t] = Closed], after[MAX_FD], lost)
<1> DEFINE Good(n) == after[n] \in States /\ PagesOK(Emptied(T, t, n), after[n], lost)
           Bad == {n \in 0 .. MAX_FD : ~ Good(n)}
<1>1. MAX_FD \in Nat \ {0}
  BY DevicesAssumption
<1>2. Good(0)
  <2>1. Emptied(T, t, 0) = T
    BY <1>1 DEF Emptied, Tables, Fd
  <2> QED BY <2>1
<1>3. ASSUME NEW n \in 1 .. MAX_FD, Good(n - 1) PROVE Good(n)
  <2> DEFINE U == Emptied(T, t, n - 1)
  <2>1. n - 1 \in Fd /\ n - 1 \in Nat
    BY <1>1 DEF Fd
  <2>2. U \in Tables /\ U[t][n - 1] = T[t][n - 1]
    BY <1>1, <2>1 DEF Emptied, Tables, Held, Fd
  <2>3. Emptied(T, t, n) = [U EXCEPT ![t][n - 1] = None]
    <3>1. Emptied(T, t, n)[t] = [U[t] EXCEPT ![n - 1] = None]
      <4> DEFINE row(m) == [fd \in Fd |-> IF fd < m THEN None ELSE T[t][fd]]
      <4>1. Emptied(T, t, n)[t] = row(n) /\ U[t] = row(n - 1)
        BY DEF Emptied, Tables
      <4>2. \A fd \in Fd : fd < n <=> fd = n - 1 \/ fd < n - 1
        BY <1>1 DEF Fd
      <4>3. \A fd \in Fd : row(n)[fd] = [row(n - 1) EXCEPT ![n - 1] = None][fd]
        BY <2>1, <4>2
      <4>4. row(n) = [row(n - 1) EXCEPT ![n - 1] = None]
        BY <4>3
      <4> HIDE DEF row, U
      <4> QED BY <4>1, <4>4
    <3> QED BY <3>1, <2>2 DEF Emptied, Tables
  <2>4. CASE T[t][n - 1] = None
    <3>1. [U EXCEPT ![t][n - 1] = None] = U
      BY <2>1, <2>2, <2>4 DEF Tables
    <3> QED BY <1>3, <2>3, <2>4, <3>1
  <2>5. CASE T[t][n - 1] # None
    <3>1. after[n] = flush(after[n - 1], U[t][n - 1])
      BY <2>2, <2>5
    <3> HIDE DEF U
    <3>2. after[n - 1] \in States /\ PagesOK(U, after[n - 1], lost)
      BY <1>3 DEF U
    <3>3. PICK V \in Tables : V = U
      BY <2>2
    <3>4. PICK st \in States : st = after[n - 1]
      BY <3>2
    <3>5. PICK fd \in Fd : fd = n - 1
      BY <2>1
    <3>6. PagesOK(V, st, lost) /\ V[t][fd] # None
      BY <2>2, <2>5, <3>2, <3>3, <3>4, <3>5
    <3>7. flush(st, V[t][fd]) \in States /\ PagesOK([V EXCEPT ![t][fd] = None], flush(st, V[t][fd]), lost)
      BY <3>6, FlushKeeps
    <3> QED BY <2>3, <3>1, <3>3, <3>4, <3>5, <3>7
  <2> QED BY <2>4, <2>5
<1>4. Bad = {}
  <2>1. SUFFICES ASSUME Bad # {} PROVE FALSE
    OBVIOUS
  <2>2. Bad \in SUBSET Nat
    BY <1>1
  <2> HIDE DEF Good
  <2>3. PICK n \in Bad : \A m \in Bad : n <= m
    <3> HIDE DEF Bad
    <3> QED BY <2>1, <2>2, Least
  <2>4. n \in 1 .. MAX_FD /\ n - 1 \in 0 .. MAX_FD
    BY <1>1, <1>2
  <2>5. Good(n - 1)
    BY <2>3, <2>4
  <2> QED BY <1>3, <2>4, <2>5
<1>5. Good(MAX_FD)
  <2> HIDE DEF Good
  <2> QED BY <1>1, <1>4
<1>6. Emptied(T, t, MAX_FD) = [T EXCEPT ![t] = Closed]
  <2>1. \A fd \in Fd : fd < MAX_FD
    BY <1>1 DEF Fd
  <2>2. [fd \in Fd |-> IF fd < MAX_FD THEN None ELSE T[t][fd]] = Closed
    BY <2>1 DEF Closed
  <2> QED BY <2>2 DEF Emptied
<1> QED BY <1>5, <1>6

(* The loop of device_release_devices, step by step.                       *)
LEMMA ReleaseSteps ==
  ASSUME NEW t
  PROVE  \E after :
           /\ after[0] = State /\ after[MAX_FD] = Released(t)
           /\ \A n \in 1 .. MAX_FD :
                after[n] = IF char_devices[t][n - 1] = None THEN after[n - 1]
                           ELSE flush(after[n - 1], char_devices[t][n - 1])
<1> DEFINE Then(n, st) == IF char_devices[t][n - 1] = None THEN st
                          ELSE flush(st, char_devices[t][n - 1])
           Is(f, k) == f = [n \in 0 .. k |-> IF n = 0 THEN State ELSE Then(n, f[n - 1])]
           Bad == {k \in 0 .. MAX_FD : ~ \E f : Is(f, k)}
<1>1. MAX_FD \in Nat \ {0}
  BY DevicesAssumption
<1> HIDE DEF Then
<1>2. \E f : Is(f, 0)
  <2>1. Is([n \in 0 .. 0 |-> State], 0)
    OBVIOUS
  <2> QED BY <2>1
<1>3. ASSUME NEW k \in 1 .. MAX_FD, NEW g, Is(g, k - 1) PROVE \E f : Is(f, k)
  <2> DEFINE f == [n \in 0 .. k |-> IF n < k THEN g[n] ELSE Then(k, g[k - 1])]
  <2>1. \A n \in 0 .. k : n # 0 => f[n - 1] = g[n - 1]
    BY <1>1
  <2>2. \A n \in 0 .. k - 1 : g[n] = IF n = 0 THEN State ELSE Then(n, g[n - 1])
    BY <1>3
  <2>3. \A n \in 0 .. k : f[n] = IF n = 0 THEN State ELSE Then(n, f[n - 1])
    <3> SUFFICES ASSUME NEW n \in 0 .. k PROVE f[n] = IF n = 0 THEN State ELSE Then(n, f[n - 1])
      OBVIOUS
    <3>1. CASE n < k
      <4>1. f[n] = g[n] /\ n \in 0 .. k - 1
        BY <1>1, <3>1
      <4> HIDE DEF f
      <4> QED BY <2>1, <2>2, <4>1
    <3>2. CASE n = k
      <4>1. f[n] = Then(n, g[n - 1]) /\ n # 0
        BY <1>1, <3>2
      <4> HIDE DEF f
      <4> QED BY <2>1, <4>1
    <3> QED BY <1>1, <3>1, <3>2
  <2>4. f = [n \in 0 .. k |-> f[n]]
    OBVIOUS
  <2> HIDE DEF f
  <2>5. Is(f, k)
    BY <2>3, <2>4
  <2> QED BY <2>5
<1>4. Bad = {}
  <2>1. SUFFICES ASSUME Bad # {} PROVE FALSE
    OBVIOUS
  <2>2. Bad \in SUBSET Nat
    BY <1>1
  <2> HIDE DEF Is
  <2>3. PICK n \in Bad : \A m \in Bad : n <= m
    <3> HIDE DEF Bad
    <3> QED BY <2>1, <2>2, Least
  <2>4. n \in 1 .. MAX_FD /\ n - 1 \in 0 .. MAX_FD /\ n - 1 \notin Bad
    BY <1>1, <1>2, <2>3
  <2> QED BY <1>3, <2>3, <2>4
<1> DEFINE after == CHOOSE f : Is(f, MAX_FD)
<1>5. Is(after, MAX_FD)
  <2> HIDE DEF Is
  <2>1. \E f : Is(f, MAX_FD)
    BY <1>1, <1>4
  <2> QED BY <2>1
<1>6. after[MAX_FD] = Released(t)
  BY DEF Released, Then
<1> HIDE DEF after
<1>7. after[0] = State /\ \A n \in 1 .. MAX_FD : after[n] = Then(n, after[n - 1])
  BY <1>1, <1>5
<1> QED BY <1>6, <1>7 DEF Then

(* exit.                                                                   *)
LEMMA ExitKeepsRefs ==
  ASSUME RefsInv, NEW t \in Task, loader_exit(t), TablesInv'
  PROVE  RefsInv'
<1>1. PICK after :
           /\ after[0] = State /\ after[MAX_FD] = Released(t)
           /\ \A n \in 1 .. MAX_FD :
                after[n] = IF char_devices[t][n - 1] = None THEN after[n - 1]
                           ELSE flush(after[n - 1], char_devices[t][n - 1])
  BY ReleaseSteps
<1>2. char_devices \in Tables /\ after[0] \in States /\ PagesOK(char_devices, after[0], stranded)
  BY <1>1 DEF RefsInv, TablesInv, TablesOK, Tables
<1>3. Released(t) \in States /\ PagesOK([char_devices EXCEPT ![t] = Closed], Released(t), stranded)
  BY <1>1, <1>2, StepsKeep
<1>4. /\ char_devices' = [char_devices EXCEPT ![t] = Closed] /\ stranded' = stranded
      /\ refcount' = Released(t).ref /\ kind' = Released(t).kind
  BY DEF loader_exit
<1>5. State' = Released(t)
  BY <1>3, <1>4 DEF State, States
<1> QED BY <1>3, <1>4, <1>5 DEF RefsInv

(* fork: every entry of the parent names its device once more.             *)
LEMMA ForkKeepsRefs ==
  ASSUME RefsInv, NEW t \in Task, NEW u \in Task, sys_fork(t, u), TablesInv'
  PROVE  RefsInv'
<1> DEFINE T2 == [char_devices EXCEPT ![u] = char_devices[t]]
<1>1. /\ char_devices \in Tables /\ u # t /\ char_devices[u] = Closed /\ char_devices' = T2
      /\ refcount' = [d \in Device |-> (refcount[d] + Uses(t, d)) % Modulus]
      /\ kind' = kind /\ stranded' = stranded
  BY DEF RefsInv, TablesInv, TablesOK, StartsClosed, Tables, sys_fork, device_fork_descriptors
<1>2. /\ refcount \in [Device -> 0 .. Modulus - 1] /\ kind \in [Page -> Kinds]
      /\ Modulus \in Nat /\ Modulus > 1
  <2>1. Cardinality(Names(char_devices, None)) \in Nat /\ Cardinality(Names(char_devices, None)) < Modulus - 1
    BY NamesBounded
  <2> QED BY <2>1, DevicesAssumption DEF RefsInv, State, States
<1>3. ASSUME NEW d \in Device
      PROVE  /\ Uses(t, d) \in Nat
             /\ Cardinality(Names(T2, d)) = Cardinality(Names(char_devices, d)) + Uses(t, d)
             /\ Names(T2, d) # {} => Names(char_devices, d) # {}
             /\ Names(char_devices, d) \subseteq Names(T2, d)
  <2> DEFINE S == {fd \in Fd : char_devices[t][fd] = d}
             New == {u} \X S
  <2>1. \A v \in Task, fd \in Fd : T2[v][fd] = IF v = u THEN char_devices[t][fd] ELSE char_devices[v][fd]
    BY <1>1 DEF Tables
  <2>2. \A fd \in Fd : char_devices[u][fd] # d
    BY <1>1, NoneAssumption DEF Closed
  <2> HIDE DEF T2
  <2>3. Names(T2, d) = Names(char_devices, d) \cup New
    <3>1. ASSUME NEW x \in Names(T2, d) PROVE x \in Names(char_devices, d) \cup New
      BY <2>1 DEF Names
    <3>2. ASSUME NEW x \in Names(char_devices, d) PROVE x \in Names(T2, d)
      BY <2>1, <2>2 DEF Names
    <3>3. ASSUME NEW x \in New PROVE x \in Names(T2, d)
      BY <2>1 DEF Names
    <3> QED BY <3>1, <3>2, <3>3
  <2>4. Names(char_devices, d) \cap New = {}
    BY <2>2 DEF Names
  <2>5. ASSUME New # {} PROVE Names(char_devices, d) # {}
    <3>1. PICK fd \in Fd : char_devices[t][fd] = d
      BY <2>5
    <3>2. <<t, fd>> \in Names(char_devices, d)
      BY <3>1 DEF Names
    <3> QED BY <3>2
  <2>6. IsFiniteSet(S) /\ Cardinality(S) \in Nat
    <3>1. IsFiniteSet(Fd)
      BY DevicesAssumption, FS_Interval DEF Fd
    <3>2. S \in SUBSET Fd
      OBVIOUS
    <3> HIDE DEF S
    <3> QED BY <3>1, <3>2, FS_Subset, FS_CardinalityType
  <2>7. Uses(t, d) = Cardinality(S)
    BY DEF Uses
  <2>8. IsFiniteSet(New) /\ Cardinality(New) = Cardinality(S)
    <3>1. IsFiniteSet({u}) /\ Cardinality({u}) = 1
      BY FS_Singleton
    <3> HIDE DEF S
    <3>2. IsFiniteSet(New) /\ Cardinality(New) = 1 * Cardinality(S)
      BY <2>6, <3>1, FS_Product
    <3> QED BY <2>6, <3>2
  <2> HIDE DEF S, New
  <2>9. Cardinality(Names(T2, d)) = Cardinality(Names(char_devices, d)) + Cardinality(New) - Cardinality({})
    BY <2>3, <2>4, <2>8, NamesBounded, FS_Union
  <2>10. Cardinality(Names(char_devices, d)) \in Nat /\ Cardinality({}) = 0
    BY NamesBounded, FS_EmptySet
  <2> QED BY <2>3, <2>5, <2>6, <2>7, <2>8, <2>9, <2>10
<1> HIDE DEF T2
<1>4. \A d \in Device : Names(T2, d) # {} <=> Names(char_devices, d) # {}
  BY <1>3
<1>5. State' = [ref |-> refcount', kind |-> kind]
  BY <1>1 DEF State
<1>6. State' \in States
  <2>1. \A d \in Device : (refcount[d] + Uses(t, d)) % Modulus \in 0 .. Modulus - 1
    BY <1>2, <1>3
  <2> QED BY <1>1, <1>2, <1>5, <2>1 DEF States
<1>7. ASSUME NEW p \in Page PROVE PageOK(T2, State', stranded, p)
  <2>1. PageOK(char_devices, State, stranded, p) /\ State.kind = kind /\ State.ref = refcount
    BY DEF RefsInv, PagesOK, State
  <2>2. Named(T2, p) <=> Named(char_devices, p)
    BY <1>4 DEF Named
  <2>3. ASSUME kind[p] \in Counted, Named(T2, p), NEW d \in Device, d.page = p
        PROVE  refcount'[d] = Cardinality(Names(T2, d))
    <3>1. refcount[d] = Cardinality(Names(char_devices, d))
      BY <2>1, <2>2, <2>3 DEF PageOK
    <3>2. refcount'[d] = Cardinality(Names(T2, d)) % Modulus
      BY <1>1, <1>3, <3>1
    <3>3. Cardinality(Names(T2, d)) \in Nat /\ Cardinality(Names(T2, d)) < Modulus - 1
      BY NamesBounded
    <3> QED BY <1>2, <3>2, <3>3
  <2>4. State'.kind = kind /\ State'.ref = refcount'
    BY <1>5
  <2>5. \A d \in Device : d.page = p /\ Names(T2, d) # {} => kind[p] \in KindsOf(d)
    BY <1>4, <2>1 DEF PageOK
  <2>6. kind[p] \in Counted => Named(T2, p) \/ p \in stranded
    BY <2>1, <2>2 DEF PageOK
  <2> QED BY <2>3, <2>4, <2>5, <2>6 DEF PageOK
<1> QED BY <1>1, <1>6, <1>7 DEF RefsInv, PagesOK

(* pipe with two entries for its ends.                                     *)
LEMMA OpenedKeepsRefs ==
  ASSUME RefsInv, NEW t \in Task, NEW p \in Page, PipeOpened(t, p), TablesInv'
  PROVE  RefsInv'
<1> DEFINE R == End(p, "r")
           W == End(p, "w")
           c == [Blank(p) EXCEPT ![R] = 1, ![W] = 1]
<1>1. /\ R \in Device /\ W \in Device /\ R # W /\ R.page = p /\ W.page = p
      /\ R.end # "dev" /\ W.end # "dev"
      /\ \A d \in Device : d.page = p /\ d.end # "dev" => d = R \/ d = W
      /\ \A d \in Device : d.page = p /\ d.end = "dev" => d # R /\ d # W
  BY DEF Device, End
<1>2. /\ char_devices \in Tables /\ refcount \in [Device -> 0 .. Modulus - 1]
      /\ Modulus \in Nat /\ Modulus > 1
  <2>1. Cardinality(Names(char_devices, None)) \in Nat /\ Cardinality(Names(char_devices, None)) < Modulus - 1
    BY NamesBounded
  <2> QED BY <2>1, DevicesAssumption DEF RefsInv, TablesInv, TablesOK, Tables, State, States
<1>3. /\ kind[p] = "free" /\ kind' = [kind EXCEPT ![p] = "pipe"] /\ refcount' = c
      /\ stranded' = stranded /\ Cardinality(FreeFds(t)) >= 2
  BY DEF PipeOpened, Allocated
<1>4. PICK r \in FreeFds(t), w \in FreeFds(t) :
        /\ r # w
        /\ char_devices' = [char_devices EXCEPT ![t][r] = R, ![t][w] = W]
  <2>1. IsFiniteSet(FreeFds(t))
    <3>1. IsFiniteSet(Fd)
      BY DevicesAssumption, FS_Interval DEF Fd
    <3>2. FreeFds(t) \in SUBSET Fd
      BY DEF FreeFds
    <3> QED BY <3>1, <3>2, FS_Subset
  <2>2. FreeFds(t) # {}
    BY <1>3, FS_EmptySet
  <2>3. PICK r \in FreeFds(t) : r = get_next_free_fd(t)
    BY <2>2, NextFree
  <2>4. FreeFds(t) \ {r} # {}
    <3>1. Cardinality(FreeFds(t) \ {r}) = Cardinality(FreeFds(t)) - 1 /\ Cardinality(FreeFds(t)) \in Nat
      BY <2>1, FS_RemoveElement, FS_CardinalityType
    <3>2. Cardinality(FreeFds(t) \ {r}) # 0
      BY <1>3, <3>1
    <3> QED BY <3>2, FS_EmptySet
  <2>5. \E w \in FreeFds(t) \ {r} : \A g \in FreeFds(t) \ {r} : w <= g
    <3>1. FreeFds(t) \ {r} \in SUBSET Nat
      BY DevicesAssumption DEF FreeFds, Fd
    <3> QED BY <2>4, <3>1, Least
  <2>6. (CHOOSE w \in FreeFds(t) \ {r} : \A g \in FreeFds(t) \ {r} : w <= g) \in FreeFds(t) \ {r}
    BY <2>5
  <2> QED BY <2>3, <2>6 DEF PipeOpened
<1>5. r \in Fd /\ w \in Fd /\ w # r /\ char_devices[t][r] \notin Device /\ char_devices[t][w] \notin Device
  BY <1>4, NoneAssumption DEF FreeFds
<1>6. PICK R0 \in Device : R0 = R
  BY <1>1
<1>7. PICK W0 \in Device : W0 = W
  BY <1>1
<1>8. R0 \in Held /\ W0 \in Held
  BY DEF Held
<1> DEFINE T1 == [char_devices EXCEPT ![t][r] = R0]
           T2 == [T1 EXCEPT ![t][w] = W0]
<1>9. char_devices' = T2
  BY <1>2, <1>4, <1>6, <1>7 DEF Tables
<1>10. /\ T1 \in Tables
       /\ \A e \in Device : e # R0 => Names(T1, e) = Names(char_devices, e)
       /\ Names(T1, R0) = Names(char_devices, R0) \cup {<<t, r>>}
       /\ Cardinality(Names(T1, R0)) = Cardinality(Names(char_devices, R0)) + 1
  <2>1. char_devices \in Tables /\ r \in Fd /\ char_devices[t][r] \notin Device
    BY <1>2, <1>5
  <2>2. T1 \in Tables
    BY <2>1, <1>8, NameAdded
  <2>3. \A e \in Device : e # R0 => Names(T1, e) = Names(char_devices, e)
    BY <2>1, <1>8, NameAdded
  <2>4. Names(T1, R0) = Names(char_devices, R0) \cup {<<t, r>>}
    BY <2>1, <1>8, NameAdded
  <2>5. Cardinality(Names(T1, R0)) = Cardinality(Names(char_devices, R0)) + 1
    BY <2>1, <1>8, NameAdded
  <2> QED BY <2>2, <2>3, <2>4, <2>5
<1>11. T1[t][w] \notin Device
  BY <1>2, <1>5 DEF Tables
<1>12. /\ \A e \in Device : e # W0 => Names(T2, e) = Names(T1, e)
       /\ Names(T2, W0) = Names(T1, W0) \cup {<<t, w>>}
       /\ Cardinality(Names(T2, W0)) = Cardinality(Names(T1, W0)) + 1
  <2> HIDE DEF T1
  <2>1. PICK U \in Tables : U = T1
    BY <1>10
  <2>2. U[t][w] \notin Device /\ w \in Fd
    BY <1>5, <1>11, <2>1
  <2>3. \A e \in Device : e # W0 => Names([U EXCEPT ![t][w] = W0], e) = Names(U, e)
    BY <1>8, <2>2, NameAdded
  <2>4. Names([U EXCEPT ![t][w] = W0], W0) = Names(U, W0) \cup {<<t, w>>}
    BY <1>8, <2>2, NameAdded
  <2>5. Cardinality(Names([U EXCEPT ![t][w] = W0], W0)) = Cardinality(Names(U, W0)) + 1
    BY <1>8, <2>2, NameAdded
  <2> QED BY <2>1, <2>3, <2>4, <2>5
<1> HIDE DEF T1, T2
<1>13. \A d \in Device : d.page = p => Names(char_devices, d) = {}
  BY <1>3, FreshPage
<1>14. /\ Cardinality(Names(T2, R0)) = 1 /\ Cardinality(Names(T2, W0)) = 1 /\ Names(T2, R0) # {}
       /\ \A d \in Device : d # R0 /\ d # W0 => Names(T2, d) = Names(char_devices, d)
  <2>1. Names(char_devices, R0) = {} /\ Names(char_devices, W0) = {} /\ R0 # W0
    BY <1>1, <1>6, <1>7, <1>13
  <2>2. Cardinality({}) = 0
    BY FS_EmptySet
  <2> QED BY <2>1, <2>2, <1>10, <1>12
<1>15. /\ c \in [Device -> 0 .. Modulus - 1] /\ c[R0] = 1 /\ c[W0] = 1
       /\ \A d \in Device : d # R0 /\ d # W0 => c[d] = IF d.page = p THEN 0 ELSE refcount[d]
  <2>1. Blank(p) \in [Device -> 0 .. Modulus - 1]
    BY <1>2 DEF Blank
  <2>2. \A d \in Device : Blank(p)[d] = IF d.page = p THEN 0 ELSE refcount[d]
    BY DEF Blank
  <2>3. 1 \in 0 .. Modulus - 1
    BY <1>2
  <2> HIDE DEF R, W
  <2> QED BY <1>1, <1>6, <1>7, <2>1, <2>2, <2>3
<1> HIDE DEF c, R, W
<1>16. /\ State' \in States
       /\ kind'[p] = "pipe" /\ \A q \in Page : q # p => kind'[q] = kind[q]
  BY <1>3, <1>15, NewState DEF Kinds
<1>17. PageOK(T2, State', stranded', p)
  <2>1. State'.kind[p] = "pipe" /\ State'.ref = c
    BY <1>3, <1>16 DEF State
  <2>2. \A d \in Device : d.page = p /\ d # R0 /\ d # W0 => Names(T2, d) = {} /\ c[d] = 0
    BY <1>13, <1>14, <1>15
  <2>3. \A d \in Device : d.page = p /\ Names(T2, d) # {} => "pipe" \in KindsOf(d)
    BY <1>1, <1>6, <1>7, <2>2 DEF KindsOf
  <2>4. Named(T2, p)
    BY <1>1, <1>6, <1>14 DEF Named
  <2>5. \A d \in Device : d.page = p => c[d] = Cardinality(Names(T2, d))
    BY <1>14, <1>15, <2>2, FS_EmptySet
  <2> QED BY <2>1, <2>3, <2>4, <2>5 DEF PageOK
<1>18. \A d \in Device : d.page # p => Names(T2, d) = Names(char_devices, d) /\ refcount'[d] = refcount[d]
  BY <1>1, <1>3, <1>6, <1>7, <1>14, <1>15
<1> QED BY <1>3, <1>9, <1>16, <1>17, <1>18, FreshPageKeeps

(* pipe without an entry for either end: both counts wrap, and the page    *)
(* stays without a name.                                                   *)
LEMMA RefusedKeepsRefs ==
  ASSUME RefsInv, PartialPipes = FALSE, NEW t \in Task, NEW p \in Page, PipeRefused(t, p), TablesInv'
  PROVE  RefsInv'
<1> DEFINE R == End(p, "r")
           W == End(p, "w")
           k == [kind EXCEPT ![p] = "pipe"]
           c == [Blank(p) EXCEPT ![R] = 0, ![W] = 0]
           both == [ref |-> c, kind |-> k]
           st == flush(flush(both, R), W)
<1>1. R \in Device /\ W \in Device /\ R # W /\ R.page = p /\ W.page = p
  BY DEF Device, End
<1>2. /\ char_devices \in Tables /\ refcount \in [Device -> 0 .. Modulus - 1]
      /\ kind \in [Page -> Kinds] /\ Modulus \in Nat /\ Modulus > 1
  <2>1. Cardinality(Names(char_devices, None)) \in Nat /\ Cardinality(Names(char_devices, None)) < Modulus - 1
    BY NamesBounded
  <2> QED BY <2>1, DevicesAssumption DEF RefsInv, TablesInv, TablesOK, Tables, State, States
<1>3. Cardinality(FreeFds(t)) = 0 /\ kind[p] = "free"
  BY DEF PipeRefused
<1>4. FreeFds(t) = {}
  <2>1. IsFiniteSet(Fd)
    BY DevicesAssumption, FS_Interval DEF Fd
  <2>2. FreeFds(t) \in SUBSET Fd
    BY DEF FreeFds
  <2> QED BY <1>3, <2>1, <2>2, FS_Subset, FS_EmptySet
<1>5. /\ refcount' = st.ref /\ kind' = st.kind
      /\ stranded' = IF st.kind[p] = "free" THEN stranded ELSE stranded \cup {p}
  BY <1>3 DEF PipeRefused
<1>6. char_devices' = char_devices
  <2>1. char_devices' = [char_devices EXCEPT ![t] =
          [fd \in Fd |-> IF fd \in FreeFds(t) THEN R ELSE char_devices[t][fd]]]
    BY DEF PipeRefused
  <2>2. [fd \in Fd |-> IF fd \in FreeFds(t) THEN R ELSE char_devices[t][fd]] = char_devices[t]
    BY <1>2, <1>4 DEF Tables
  <2> QED BY <1>2, <2>1, <2>2 DEF Tables
<1>7. Minus(0) \in 0 .. Modulus - 1 /\ Minus(0) # 0
  BY <1>2 DEF Minus
<1>8. /\ c \in [Device -> 0 .. Modulus - 1] /\ c[R] = 0 /\ c[W] = 0 /\ k \in [Page -> Kinds] /\ k[p] = "pipe"
      /\ \A d \in Device : d.page # p => c[d] = refcount[d]
  <2>1. Blank(p) \in [Device -> 0 .. Modulus - 1]
    BY <1>2 DEF Blank
  <2>2. \A d \in Device : Blank(p)[d] = IF d.page = p THEN 0 ELSE refcount[d]
    BY DEF Blank
  <2>3. 0 \in 0 .. Modulus - 1
    BY <1>2
  <2> HIDE DEF R, W
  <2> QED BY <1>1, <1>2, <2>1, <2>2, <2>3 DEF Kinds
<1>9. R # Dev(cpuid_dev) /\ W # Dev(cpuid_dev)
  BY DEF Dev, End
<1> HIDE DEF R, W, c, k
<1> DEFINE one == [ref |-> [c EXCEPT ![R] = Minus(0)], kind |-> k]
           two == [ref |-> [[c EXCEPT ![R] = Minus(0)] EXCEPT ![W] = Minus(0)], kind |-> k]
<1>10. flush(both, R) = one
  <2>1. flush(both, R) = pipe_flush(both, R)
    BY <1>1, <1>8, <1>9 DEF flush
  <2>2. pipe_flush(both, R) = [both EXCEPT !.ref[R] = Minus(0)]
    BY <1>7, <1>8 DEF pipe_flush
  <2> QED BY <2>1, <2>2
<1>11. flush(one, W) = two
  <2>1. one.kind[W.page] = "pipe" /\ one.ref[W] = 0
    BY <1>1, <1>8
  <2>2. flush(one, W) = pipe_flush(one, W)
    <3> HIDE DEF one
    <3> QED BY <1>9, <2>1 DEF flush
  <2>3. pipe_flush(one, W) = [one EXCEPT !.ref[W] = Minus(0)]
    <3> HIDE DEF one
    <3> QED BY <1>7, <2>1 DEF pipe_flush
  <2> QED BY <2>2, <2>3
<1>12. st = two
  BY <1>10, <1>11
<1>13. refcount' = [[c EXCEPT ![R] = Minus(0)] EXCEPT ![W] = Minus(0)] /\ kind' = k /\ stranded' = stranded \cup {p}
  <2> HIDE DEF st
  <2>1. two.kind[p] # "free"
    BY <1>8
  <2> QED BY <1>5, <1>12, <2>1
<1>14. /\ refcount' \in [Device -> 0 .. Modulus - 1]
       /\ \A d \in Device : d.page # p => refcount'[d] = refcount[d]
  BY <1>1, <1>7, <1>8, <1>13
<1>15. State' \in States /\ \A q \in Page : q # p => kind'[q] = kind[q]
  BY <1>8, <1>13, <1>14 DEF State, States, k
<1>16. PageOK(char_devices, State', stranded', p)
  <2>1. \A d \in Device : d.page = p => Names(char_devices, d) = {}
    BY <1>3, FreshPage
  <2> QED BY <2>1, <1>13 DEF PageOK, Named
<1> QED BY <1>6, <1>13, <1>14, <1>15, <1>16, FreshPageKeeps

(* The invariant holds at first, and every step keeps it.                  *)
LEMMA RefsInvInductive ==
  ASSUME PartialPipes = FALSE
  PROVE  /\ Init => RefsInv
         /\ RefsInv /\ [Next]_vars => RefsInv'
<1>1. ASSUME Init PROVE RefsInv
  <2>1. TablesInv
    BY <1>1, TablesInvInductive
  <2>2. State \in States
    <3>1. 0 \in 0 .. Modulus - 1
      <4>1. Cardinality(Names(char_devices, None)) \in Nat /\ Cardinality(Names(char_devices, None)) < Modulus - 1
        BY NamesBounded
      <4> QED BY <4>1, DevicesAssumption
    <3> QED BY <1>1, <3>1 DEF Init, State, States, Kinds
  <2>3. \A d \in Device : Names(char_devices, d) = {}
    BY <1>1, NoneAssumption DEF Init, Names, Closed
  <2>4. \A p \in Page : State.kind[p] = "free"
    BY <1>1 DEF Init, State
  <2> QED BY <2>1, <2>2, <2>3, <2>4 DEF RefsInv, PagesOK, PageOK, Counted
<1>2. ASSUME RefsInv, Next PROVE RefsInv'
  <2>1. TablesInv'
    BY <1>2, TablesInvInductive DEF RefsInv
  <2>2. PICK t \in Task :
          \/ \E p \in Page : \/ \E k \in DOMAIN StartOf : sys_open(t, p, k)
                             \/ sys_pipe(t, p)
                             \/ \E u \in Task : sys_run(t, p, u)
          \/ proc_cpuid_open(t)
          \/ \E fd \in Fd : sys_close(t, fd)
          \/ \E u \in Task : sys_fork(t, u)
          \/ loader_exit(t)
    BY <1>2 DEF Next
  <2>3. ASSUME NEW p \in Page, NEW k \in DOMAIN StartOf, sys_open(t, p, k) PROVE RefsInv'
    BY <1>2, <2>1, <2>3, OpenKeepsRefs
  <2>4. ASSUME NEW p \in Page, sys_pipe(t, p) PROVE RefsInv'
    <3>1. CASE PipeOpened(t, p)
      BY <1>2, <2>1, <3>1, OpenedKeepsRefs
    <3>2. CASE PipeRefused(t, p)
      BY <1>2, <2>1, <3>2, RefusedKeepsRefs
    <3> QED BY <2>4, <3>1, <3>2 DEF sys_pipe
  <2>5. ASSUME NEW p \in Page, NEW u \in Task, sys_run(t, p, u) PROVE RefsInv'
    BY <1>2, <2>1, <2>5, RunKeepsRefs
  <2>6. CASE proc_cpuid_open(t)
    BY <1>2, <2>1, <2>6, CpuidKeepsRefs
  <2>7. ASSUME NEW fd \in Fd, sys_close(t, fd) PROVE RefsInv'
    BY <1>2, <2>1, <2>7, CloseKeepsRefs
  <2>8. ASSUME NEW u \in Task, sys_fork(t, u) PROVE RefsInv'
    BY <1>2, <2>1, <2>8, ForkKeepsRefs
  <2>9. CASE loader_exit(t)
    BY <1>2, <2>1, <2>9, ExitKeepsRefs
  <2> QED BY <2>2, <2>3, <2>4, <2>5, <2>6, <2>7, <2>8, <2>9
<1>3. ASSUME RefsInv, UNCHANGED vars PROVE RefsInv'
  <2>1. TablesInv'
    BY <1>3, TablesInvInductive DEF RefsInv
  <2>2. char_devices' = char_devices /\ stranded' = stranded /\ State' = State
    BY <1>3 DEF vars, State
  <2> QED BY <1>3, <2>1, <2>2 DEF RefsInv
<1> QED BY <1>1, <1>2, <1>3

(* What the invariant says of a page, in terms of the entries of tasks.    *)
LEMMA RefsInvImplies ==
  ASSUME RefsInv
  PROVE  RefsCounted /\ PagesExact
<1>1. \A d \in Device : Entries(d) = Names(char_devices, d) /\ d.page \in Page
  BY EntriesAreNames DEF RefsInv, Device
<1>2. \A p \in Page : Reached(p) <=> Named(char_devices, p)
  BY <1>1 DEF Reached, Named
<1>3. \A p \in Page : PageOK(char_devices, State, stranded, p)
  BY DEF RefsInv, PagesOK
<1>4. State.kind = kind /\ State.ref = refcount
  BY DEF State
<1>5. RefsCounted
  <2> SUFFICES ASSUME NEW d \in Device, Reached(d.page), kind[d.page] \in {"con", "pipe"}
               PROVE  refcount[d] = Cardinality(Entries(d))
    BY DEF RefsCounted
  <2>1. d.page \in Page /\ Named(char_devices, d.page) /\ PageOK(char_devices, State, stranded, d.page)
    BY <1>1, <1>2, <1>3
  <2> QED BY <1>1, <1>4, <2>1 DEF PageOK, Counted
<1>6. PagesExact
  BY <1>1, <1>2, <1>3, <1>4 DEF PagesExact, PageOK, KindsOf, Counted
<1> QED BY <1>5, <1>6

(* For any number of tasks, entries and pages: the counts that the flush   *)
(* functions of consoles and pipes test are the numbers of descriptors,    *)
(* unless a program calls pipe with exactly one entry left.                *)
THEOREM DevicesRefsCounted ==
  ASSUME PartialPipes = FALSE
  PROVE  Spec => []RefsCounted
<1>1. RefsInv => RefsCounted
  BY RefsInvImplies
<1> QED BY RefsInvInductive, <1>1, PTL DEF Spec

(* And no descriptor outlives its device; a console or pipe goes with its  *)
(* last descriptor.                                                        *)
THEOREM DevicesPagesExact ==
  ASSUME PartialPipes = FALSE
  PROVE  Spec => []PagesExact
<1>1. RefsInv => PagesExact
  BY RefsInvImplies
<1> QED BY RefsInvInductive, <1>1, PTL DEF Spec

----------------------------------------------------------------------------
(* Open files.  What the device of one holds: a size and some cursor; and, *)
(* where the disk's root directory was read, the size of the file that was *)
(* asked for, and its first sectors if a cluster is one sector and the FAT *)
(* in memory has the chain.                                                *)
Holds(f) ==
  LET e == File(f.asked)
  IN  /\ f = [asked |-> f.asked, size |-> f.size, data |-> f.data, cursor |-> f.cursor]
      /\ f.cursor \in Nat /\ f.size \in Nat
      /\ root = "disk" => e \in Entry /\ f.size = Root[e].size
      /\ root = "disk" /\ disk.SectorsPerCluster = 1 /\ InFat(e) =>
           f.data = [i \in 1 .. SectCount(f.size) |-> dataStart + Root[e].chain[i]]

(* What is known of the disk: where something else than the disk's own     *)
(* boot sector was taken for it, nothing is.                               *)
Mounted ==
  /\ disk \in BootSectors /\ DOMAIN fat = 0 .. Pairs - 1
  /\ \A o \in DOMAIN fat : fat[o] # Null => fat[o] = OnDisk(o)
  /\ root = "disk" =>
       /\ boot_sect = disk /\ disk.HeadCount = 2
       /\ fat12_media_desc(disk.MediaDescriptor) = GeometryOf(disk)

FilesInv ==
  /\ Mounted /\ DOMAIN open = Handle
  /\ root = "none" => result = Null /\ \A h \in Handle : open[h] = Null
  /\ \A h \in Handle : open[h] # Null => Holds(open[h])
  /\ ReadsFile

(* What the assumptions say of one file.                                   *)
LEMMA OneFile ==
  ASSUME NEW e \in Entry
  PROVE  /\ Root[e].chain \in Seq(2 .. 2 * Pairs - 1) /\ Len(Root[e].chain) \in Nat
         /\ \A i \in 1 .. Len(Root[e].chain) : Root[e].chain[i] \in 2 .. 2 * Pairs - 1
         /\ Root[e].size \in Nat
<1> DEFINE chain == Root[e].chain
           Clusters == 2 .. 2 * Pairs - 1
<1>1. chain \in Seq(Clusters)
  BY ChainAssumption
<1>2. Root[e].size \in 0 .. Limit
  BY ChainAssumption
<1>3. Limit \in Int
  BY FilesAssumption DEF Limit
<1> HIDE DEF chain, Clusters
<1>4. Len(chain) \in Nat /\ \A i \in 1 .. Len(chain) : chain[i] \in Clusters
  BY <1>1
<1>5. Root[e].size \in Nat
  BY <1>2, <1>3
<1> QED BY <1>1, <1>4, <1>5 DEF chain, Clusters

(* The disk in the drive is sound.                                         *)
LEMMA OneDisk ==
  ASSUME Mounted
  PROVE  /\ disk.SectorsPerTrack \in Nat \ {0}
         /\ DataArea(disk) \in Nat /\ 2 <= DataArea(disk) /\ DataArea(disk) < 65536
         /\ \A e \in Entry :
              Root[e].size <= FAT12_SECT_SIZE * disk.SectorsPerCluster * Len(Root[e].chain)
<1>1. Sound(disk)
  BY DiskAssumption DEF Mounted
<1>2. disk.SectorsPerTrack \in Nat \ {0}
  BY <1>1 DEF Sound
<1>3. DataArea(disk) \in Nat /\ 2 <= DataArea(disk) /\ DataArea(disk) < 65536
  BY <1>1 DEF Sound
<1>4. \A e \in Entry :
        Root[e].size <= FAT12_SECT_SIZE * disk.SectorsPerCluster * Len(Root[e].chain)
  BY <1>1 DEF Sound
<1> QED BY <1>2, <1>3, <1>4

(* The file of a wanted name is the entry that fat12_find_file finds.      *)
LEMMA FindsFile ==
  ASSUME NEW name \in Wanted, fat12_find_file(name) # Null
  PROVE  fat12_find_file(name) = File(name) /\ File(name) \in Entry
<1> DEFINE found == {e \in Entry : Root[e].file /\ Matches(name, e)}
           named == {e \in Entry : Root[e].file /\ Root[e].name = name}
<1>1. found = named /\ \A d, e \in named : d = e
  BY FilesAssumption
<1>2. found # {} /\ fat12_find_file(name) = CHOOSE e \in found : \A f \in found : e <= f
  BY DEF fat12_find_file
<1>3. PICK e \in found : TRUE
  BY <1>2
<1>4. e \in Int /\ \A f \in found : e <= f
  <2>1. e \in Entry
    BY <1>3
  <2>2. e \in Int /\ e <= e
    BY <2>1, ChainAssumption
  <2> HIDE DEF found, named
  <2> QED BY <1>1, <1>3, <2>2
<1>5. fat12_find_file(name) \in found
  <2> HIDE DEF found, named
  <2> QED BY <1>2, <1>3, <1>4
<1>6. File(name) \in named
  BY <1>1, <1>3 DEF File
<1> QED BY <1>1, <1>5, <1>6

(* A cluster that is not the last of a chain is followed by the next.      *)
LEMMA ChainFollows ==
  ASSUME NEW e \in Entry, NEW i \in 1 .. Len(Root[e].chain) - 1
  PROVE  Follows(Root[e].chain[i]) = Root[e].chain[i + 1]
<1> DEFINE c == Root[e].chain[i]
           here == {y \in Entry \X (1 .. Pairs * 2) :
                      y[2] < Len(Root[y[1]].chain) /\ Root[y[1]].chain[y[2]] = c}
           x == CHOOSE y \in here : TRUE
<1>1. Len(Root[e].chain) \in Nat /\ i \in 1 .. Pairs * 2 /\ i < Len(Root[e].chain)
  BY ChainAssumption
<1>2. <<e, i>> \in here
  BY <1>1
<1>3. x \in here /\ Follows(c) = Root[x[1]].chain[x[2] + 1]
  BY <1>2 DEF Follows
<1>4. /\ x[1] \in Entry /\ x[2] \in 1 .. Len(Root[x[1]].chain) - 1
      /\ Root[x[1]].chain[x[2]] = c
  <2> HIDE DEF x
  <2>1. Len(Root[x[1]].chain) \in Nat
    BY <1>3, ChainAssumption
  <2> QED BY <1>3, <2>1
<1> HIDE DEF x
<1> QED BY <1>3, <1>4, ChainAssumption

(* The FAT in memory, where it was read.                                   *)
LEMMA FatFollows ==
  ASSUME Mounted, NEW c \in 2 .. 2 * Pairs - 1, fat[c \div 2] # Null
  PROVE  Following(c) = Follows(c)
<1> DEFINE o == c \div 2
           r == c % 2
<1>1. o \in Int /\ r \in 0 .. 1 /\ c = 2 * o + r
  BY DivMod
<1>2. fat12_next_sector(c) = IF r = 1 THEN fat[o].second ELSE fat[o].first
  BY DEF fat12_next_sector
<1>3. c # Null /\ Pairs \in Nat
  BY FilesAssumption, ChainAssumption
<1>4. Following(c) = IF o \in DOMAIN fat /\ fat[o] # Null THEN fat12_next_sector(c) ELSE Null
  BY <1>3 DEF Following
<1>5. fat[o] # Null
  OBVIOUS
<1> HIDE DEF o, r
<1>6. o \in DOMAIN fat
  BY <1>1, <1>3 DEF Mounted
<1>7. fat[o] = OnDisk(o)
  BY <1>5, <1>6 DEF Mounted
<1>8. r = 1 => c = 2 * o + 1
  BY <1>1
<1>9. r # 1 => c = 2 * o
  BY <1>1
<1> QED BY <1>2, <1>4, <1>5, <1>6, <1>7, <1>8, <1>9 DEF OnDisk

(* The first count sectors hold the file, or fill its page: their number   *)
(* fits in both, and every byte within both is in one of them.             *)
LEMMA SectorsEnough ==
  ASSUME Mounted, disk.SectorsPerCluster = 1, NEW e \in Entry
  PROVE  /\ SectCount(Root[e].size) \in 0 .. Min2(FIRST_SECTORS, Len(Root[e].chain))
         /\ \A p \in Nat : p < Root[e].size /\ p < InPage =>
              p \div FAT12_SECT_SIZE \in 0 .. SectCount(Root[e].size) - 1
<1> DEFINE N == FAT12_SECT_SIZE
           F == FIRST_SECTORS
           L == Len(Root[e].chain)
           S == Root[e].size
           q == S \div N
           r == S % N
           C == SectCount(S)
<1>1. /\ N \in Nat \ {0} /\ F \in Nat \ {0} /\ L \in Nat /\ S \in Int /\ S >= 0 /\ S <= N * L
      /\ InPage = F * N
  <2>1. N \in Nat \ {0} /\ F \in Nat \ {0} /\ InPage = F * N
    BY FilesAssumption DEF InPage
  <2>2. L \in Nat /\ S \in Int /\ S >= 0 /\ S <= N * disk.SectorsPerCluster * L
    <3>1. Root[e].chain \in Seq(2 .. 2 * Pairs - 1) /\ S \in Nat
      BY OneFile
    <3>2. S <= N * disk.SectorsPerCluster * L
      BY OneDisk
    <3> QED BY <3>1, <3>2
  <2>3. N * disk.SectorsPerCluster = N
    BY <2>1
  <2> QED BY <2>1, <2>2, <2>3
<1>2. r \in 0 .. N - 1 /\ q \in Int /\ S = N * q + r
  BY <1>1, DivMod
<1>3. C = IF S > InPage THEN F ELSE q + (IF r > 0 THEN 1 ELSE 0)
  BY DEF SectCount
<1>4. Min2(F, L) = IF F < L THEN F ELSE L
  BY DEF Min2
<1> HIDE DEF N, F, L, S, q, r, C
<1>5. \A a, b \in Int : a < b => N * a + N <= N * b
  <2>1. SUFFICES ASSUME NEW a \in Int, NEW b \in Int, a < b PROVE N * a + N <= N * b
    OBVIOUS
  <2>2. N * (b - a) >= N /\ N * (b - a) = N * b - N * a
    BY <1>1, <2>1
  <2> QED BY <1>1, <2>2
<1>6. N * F = F * N
  BY <1>1
<1>7. C \in Int /\ 0 <= C /\ C <= F /\ C <= L
  <2>1. CASE S > InPage
    <3>1. F < L
      <4>1. CASE L <= F
        <5>1. L < F \/ L = F
          BY <1>1, <4>1
        <5> QED BY <1>1, <1>5, <1>6, <2>1, <5>1
      <4> QED BY <1>1, <4>1
    <3> QED BY <1>1, <1>3, <2>1, <3>1
  <2>2. CASE ~ (S > InPage)
    <3>1. S <= N * F /\ S <= N * L
      BY <1>1, <1>6, <2>2
    <3>2. 0 <= q
      <4>1. CASE q < 0
        BY <1>1, <1>2, <1>5, <4>1
      <4> QED BY <1>2, <4>1
    <3>3. ASSUME NEW m \in Nat, S <= N * m PROVE C <= m
      <4>1. CASE m < q
        BY <1>1, <1>2, <1>5, <3>3, <4>1
      <4>2. CASE m = q
        <5>1. r = 0
          BY <1>1, <1>2, <3>3, <4>2
        <5> QED BY <1>2, <1>3, <2>2, <4>2, <5>1
      <4>3. CASE m > q
        BY <1>2, <1>3, <2>2, <4>3
      <4> QED BY <1>2, <4>1, <4>2, <4>3
    <3> QED BY <1>1, <1>2, <1>3, <2>2, <3>1, <3>2, <3>3
  <2> QED BY <2>1, <2>2
<1>8. ASSUME NEW p \in Nat, p < S, p < InPage PROVE p \div N \in 0 .. C - 1
  <2> DEFINE s == p \div N
             t == p % N
  <2>1. t \in 0 .. N - 1 /\ s \in Int /\ p = N * s + t
    BY <1>1, DivMod
  <2> HIDE DEF s, t
  <2>2. 0 <= s
    <3>1. CASE s < 0
      BY <1>1, <1>5, <2>1, <3>1
    <3> QED BY <2>1, <3>1
  <2>3. s < C
    <3>1. CASE S > InPage
      <4>1. CASE F < s
        BY <1>1, <1>5, <1>6, <1>8, <2>1, <4>1
      <4>2. CASE F = s
        BY <1>1, <1>6, <1>8, <2>1, <4>2
      <4> QED BY <1>1, <1>3, <2>1, <3>1, <4>1, <4>2
    <3>2. CASE ~ (S > InPage)
      <4>1. CASE q < s
        BY <1>1, <1>2, <1>5, <1>8, <2>1, <4>1
      <4>2. CASE q = s
        <5>1. r > 0
          BY <1>1, <1>2, <1>8, <2>1, <4>2
        <5> QED BY <1>2, <1>3, <3>2, <4>2, <5>1
      <4>3. CASE s < q
        BY <1>2, <1>3, <2>1, <3>2, <4>3
      <4> QED BY <1>2, <2>1, <4>1, <4>2, <4>3
    <3> QED BY <3>1, <3>2
  <2> QED BY <1>7, <2>1, <2>2, <2>3 DEF s
<1> QED BY <1>1, <1>4, <1>7, <1>8 DEF N, F, L, S, C

(* The clusters that fat12_open comes to, one by one.                      *)
LEMMA VisitSteps ==
  ASSUME NEW e
  PROVE  \E at :
           /\ Visited(e) = [i \in 1 .. SectCount(Root[e].size) |-> Sector(at[i])]
           /\ \A i \in 1 .. FIRST_SECTORS :
                at[i] = IF i = 1 THEN FstClusLO(e) ELSE Following(at[i - 1])
<1> DEFINE F == FIRST_SECTORS
           Next1(v) == Following(v)
           first == FstClusLO(e)
           Is(f) == f = [i \in 1 .. F |-> IF i = 1 THEN first ELSE Next1(f[i - 1])]
           Upto(f, k) == \A i \in 1 .. F : i <= k => f[i] = IF i = 1 THEN first ELSE Next1(f[i - 1])
           IsTable(f) == f = [i \in 1 .. F |-> f[i]]
           Good == {k \in Nat : \E f : IsTable(f) /\ Upto(f, k)}
           at == CHOOSE f : Is(f)
<1>1. Visited(e) = [i \in 1 .. SectCount(Root[e].size) |-> Sector(at[i])]
  BY DEF Visited
<1>2. F \in Nat
  BY FilesAssumption
<1> HIDE DEF Next1, F, first
<1>3. 0 \in Good
  <2> DEFINE f == [i \in 1 .. F |-> 0]
  <2>1. Upto(f, 0) /\ IsTable(f)
    BY <1>2
  <2> HIDE DEF f, Upto, IsTable
  <2> QED BY <2>1
<1>4. ASSUME NEW k \in Nat, k \in Good PROVE k + 1 \in Good
  <2>1. PICK f : IsTable(f) /\ Upto(f, k)
    <3> HIDE DEF Upto, IsTable
    <3> QED BY <1>4
  <2> DEFINE g == [i \in 1 .. F |-> IF i = k + 1 THEN (IF i = 1 THEN first ELSE Next1(f[i - 1])) ELSE f[i]]
  <2>2. ASSUME NEW i \in 1 .. F, i <= k + 1 PROVE g[i] = IF i = 1 THEN first ELSE Next1(g[i - 1])
    <3>1. i # 1 => i - 1 \in 1 .. F /\ i - 1 # k + 1
      BY <1>2, <2>2
    <3>2. i # 1 => g[i - 1] = f[i - 1]
      BY <3>1
    <3>3. CASE i = k + 1
      <4>1. g[i] = IF i = 1 THEN first ELSE Next1(f[i - 1])
        BY <3>3
      <4> HIDE DEF g
      <4> QED BY <3>2, <4>1
    <3>4. CASE i # k + 1
      <4>1. g[i] = f[i] /\ i <= k
        BY <1>2, <2>2, <3>4
      <4> HIDE DEF g
      <4> QED BY <2>1, <3>2, <4>1
    <3> QED BY <3>3, <3>4
  <2>3. IsTable(g)
    OBVIOUS
  <2>4. Upto(g, k + 1)
    <3> HIDE DEF g
    <3> QED BY <2>2
  <2> HIDE DEF g, Upto, IsTable
  <2> QED BY <2>3, <2>4
<1>5. F \in Good
  <2> HIDE DEF Good
  <2> QED BY <1>2, <1>3, <1>4, Induction
<1>6. Is(at)
  <2>1. PICK f : IsTable(f) /\ Upto(f, F)
    <3> HIDE DEF Upto, IsTable
    <3> QED BY <1>5
  <2>2. Is(f)
    <3>1. \A i \in 1 .. F : i <= F
      BY <1>2
    <3>2. \A i \in 1 .. F : f[i] = IF i = 1 THEN first ELSE Next1(f[i - 1])
      <4> HIDE DEF IsTable
      <4> QED BY <2>1, <3>1
    <3> QED BY <2>1, <3>2
  <2> HIDE DEF Is
  <2> QED BY <2>2
<1> HIDE DEF at
<1>7. \A i \in 1 .. F : at[i] = IF i = 1 THEN first ELSE Next1(at[i - 1])
  BY <1>6
<1> QED BY <1>1, <1>7 DEF F, Next1, first

(* Numbers of clusters become numbers of sectors: nothing wraps in the     *)
(* sixteen bits of dataStart.                                              *)
LEMMA DataStart ==
  ASSUME Mounted, root = "disk"
  PROVE  dataStart \in Nat /\ DataArea(disk) \in Nat /\ dataStart = DataArea(disk) - 2
<1> DEFINE a == DataArea(disk)
           W == 65536
<1>1. a \in Nat /\ 2 <= a /\ a < 65536
  BY OneDisk
<1>2. dataStart = (a - 2) % W
  <2>1. boot_sect = disk
    BY DEF Mounted
  <2> DEFINE d == (boot_sect.MaxRootEntries * DIR_ENTRY_SIZE) \div FAT12_SECT_SIZE
             f == boot_sect.FATcount * boot_sect.SectorsPerFAT
             v == boot_sect.ReservedSectors
  <2>2. dataStart = (v + f + d - 2) % W
    BY DEF dataStart
  <2>3. a = v + f + d
    BY <2>1 DEF DataArea, RootStart, SectPerRoot
  <2>4. v \in Int /\ f \in Int /\ d \in Int
    <3>1. Sound(boot_sect)
      BY <2>1, DiskAssumption DEF Mounted
    <3>2. /\ boot_sect.ReservedSectors \in Nat /\ boot_sect.FATcount \in Nat
          /\ boot_sect.SectorsPerFAT \in Nat /\ boot_sect.MaxRootEntries \in Nat
      BY <3>1 DEF Sound
    <3>3. DIR_ENTRY_SIZE \in Nat /\ FAT12_SECT_SIZE \in Nat \ {0}
      BY FilesAssumption
    <3>4. v \in Int /\ f \in Int /\ boot_sect.MaxRootEntries * DIR_ENTRY_SIZE \in Int
      BY <3>2, <3>3
    <3> QED BY <3>3, <3>4, DivMod
  <2> HIDE DEF d, f, v
  <2>5. v + f + d - 2 = a - 2
    <3> HIDE DEF a
    <3> QED BY <2>3, <2>4
  <2> QED BY <2>2, <2>5
<1> HIDE DEF a
<1> DEFINE x == a - 2
<1>3. x \in 0 .. W - 1 /\ W \in Nat \ {0}
  <2>1. x \in Int /\ 0 <= x /\ x < W /\ W \in Nat \ {0}
    BY <1>1
  <2> HIDE DEF x, W
  <2> QED BY <2>1
<1>4. x % W = x
  <2> HIDE DEF x, W
  <2> QED BY <1>3, ModSmall
<1>5. dataStart = a - 2 /\ a - 2 \in Nat /\ a \in Nat
  BY <1>1, <1>2, <1>4
<1> QED BY <1>5 DEF a

(* What is less than N has the quotient 0.                                 *)
LEMMA SmallQuotient ==
  ASSUME NEW N \in Nat \ {0}, NEW r \in 0 .. N - 1
  PROVE  r \div N = 0
<1>1. r \in Int /\ r = N * 0 + r
  OBVIOUS
<1> QED BY <1>1, ModUnique

(* A byte of a file is in the sector that its cluster was turned into.     *)
LEMMA ByteOnFile ==
  ASSUME Mounted, root = "disk", disk.SectorsPerCluster = 1, NEW e \in Entry, NEW p \in Nat,
         1 + p \div FAT12_SECT_SIZE \in 1 .. Len(Root[e].chain)
  PROVE  OnFile(e, p) = <<dataStart + Root[e].chain[1 + p \div FAT12_SECT_SIZE],
                          p % FAT12_SECT_SIZE>>
<1> DEFINE N == FAT12_SECT_SIZE
           r == p % N
           c == Root[e].chain[1 + p \div N]
<1>1. N \in Nat \ {0} /\ N * 1 = N
  BY FilesAssumption
<1>2. OnFile(e, p) = <<DataArea(disk) + (c - 2) * 1 + r \div N, r>>
  BY <1>1 DEF OnFile
<1>3. c \in Int
  BY OneFile
<1>4. r \in 0 .. N - 1
  BY <1>1, DivMod
<1> HIDE DEF N, r, c
<1>5. r \div N = 0
  BY <1>1, <1>4, SmallQuotient
<1>6. DataArea(disk) + (c - 2) * 1 + r \div N = dataStart + c
  BY <1>3, <1>5, DataStart
<1> QED BY <1>2, <1>6 DEF N, r, c

(* A sector of a cluster is read right.                                    *)
LEMMA SectorRead ==
  ASSUME Mounted, root = "disk", NEW c \in Nat
  PROVE  Sector(c) = dataStart + c
<1> DEFINE s == dataStart + c
           n == disk.SectorsPerTrack
           r == s % n
<1>1. s \in Int /\ n \in Nat \ {0} /\ c # Null
  <2>1. dataStart \in Nat
    BY DataStart
  <2>2. n \in Nat \ {0}
    BY OneDisk
  <2>3. c # Null
    BY FilesAssumption
  <2> HIDE DEF n
  <2> QED BY <2>1, <2>2, <2>3
<1>2. r \in 0 .. n - 1
  <2> HIDE DEF s, n
  <2> QED BY <1>1, DivMod
<1>3. Delivered(boot_sect, s, 1) <=> r + 1 <= n
  BY DEF Delivered, Mounted
<1>4. Sector(c) = IF c # Null /\ Delivered(boot_sect, s, 1) THEN s ELSE Null
  BY DEF Sector
<1> HIDE DEF s, n, r
<1>5. Sector(c) = s
  BY <1>1, <1>2, <1>3, <1>4
<1> QED BY <1>5 DEF s

(* Opening copies the first sectors of the file, when a cluster is one     *)
(* sector and the chain is in the FAT in memory.                           *)
LEMMA VisitsChain ==
  ASSUME Mounted, root = "disk", disk.SectorsPerCluster = 1, NEW e \in Entry, InFat(e)
  PROVE  Visited(e) = [i \in 1 .. SectCount(Root[e].size) |-> dataStart + Root[e].chain[i]]
<1> DEFINE C == SectCount(Root[e].size)
           chain == Root[e].chain
           M == Min2(FIRST_SECTORS, Len(chain))
<1>1. PICK at :
         /\ Visited(e) = [i \in 1 .. C |-> Sector(at[i])]
         /\ \A i \in 1 .. FIRST_SECTORS :
              at[i] = IF i = 1 THEN FstClusLO(e) ELSE Following(at[i - 1])
  BY VisitSteps
<1>2. /\ C \in 0 .. M /\ FIRST_SECTORS \in Nat /\ Len(chain) \in Nat /\ M \in Nat
      /\ M <= FIRST_SECTORS /\ M <= Len(chain)
      /\ chain \in Seq(2 .. 2 * Pairs - 1) /\ Pairs \in Nat
  <2>1. /\ FIRST_SECTORS \in Nat /\ Len(chain) \in Nat
        /\ chain \in Seq(2 .. 2 * Pairs - 1) /\ Pairs \in Nat
    BY FilesAssumption, ChainAssumption
  <2>2. M \in Nat /\ M <= FIRST_SECTORS /\ M <= Len(chain)
    BY <2>1 DEF Min2
  <2>3. C \in 0 .. M
    BY SectorsEnough
  <2> QED BY <2>1, <2>2, <2>3
<1>3. \A i \in 1 .. M - 1 : fat[chain[i] \div 2] # Null
  BY DEF InFat
<1>4. chain = <<>> => M < 1
  BY <1>2
<1>5. M >= 1 => FstClusLO(e) = chain[1]
  BY <1>2, <1>4 DEF FstClusLO
<1> HIDE DEF C, M
<1>6. ASSUME NEW i \in 1 .. M, i # 1, at[i - 1] = chain[i - 1] PROVE at[i] = chain[i]
  <2>1. i - 1 \in 1 .. M - 1 /\ i - 1 \in 1 .. Len(chain) - 1 /\ i - 1 \in 1 .. Len(chain)
        /\ i \in 1 .. FIRST_SECTORS /\ (i - 1) + 1 = i
    BY <1>2, <1>6
  <2> DEFINE j == i - 1
             c == chain[j]
  <2>2. c \in 2 .. 2 * Pairs - 1
    BY <2>1, OneFile
  <2>3. fat[c \div 2] # Null
    BY <1>3, <2>1
  <2>4. Follows(c) = chain[i]
    BY <2>1, ChainFollows
  <2>5. at[i] = Following(at[j])
    BY <1>1, <1>6, <2>1
  <2>6. at[j] = c
    BY <1>6
  <2> HIDE DEF c, j
  <2>7. Following(c) = Follows(c)
    BY <2>2, <2>3, FatFollows
  <2> QED BY <2>4, <2>5, <2>6, <2>7
<1>7. ASSUME NEW i \in 1 .. M PROVE at[i] = chain[i]
  <2> DEFINE S == {k \in Nat : k + 1 \in 1 .. M => at[k + 1] = chain[k + 1]}
  <2>1. 0 \in S
    <3>1. CASE M >= 1
      <4>1. 1 \in 1 .. FIRST_SECTORS
        BY <1>2, <3>1
      <4>2. at[1] = chain[1]
        BY <1>1, <1>5, <3>1, <4>1
      <4>3. 0 + 1 = 1
        OBVIOUS
      <4> QED BY <4>2, <4>3
    <3>2. CASE ~ (M >= 1)
      BY <1>2, <3>2
    <3> QED BY <3>1, <3>2
  <2>2. ASSUME NEW k \in Nat, k \in S PROVE k + 1 \in S
    <3>1. SUFFICES ASSUME k + 2 \in 1 .. M PROVE at[k + 2] = chain[k + 2]
      <4>1. (k + 1) + 1 = k + 2
        OBVIOUS
      <4> QED BY <4>1
    <3>2. k + 1 \in 1 .. M /\ k + 2 # 1 /\ (k + 2) - 1 = k + 1
      BY <1>2, <3>1
    <3> DEFINE m == k + 2
    <3>3. m \in 1 .. M /\ m # 1 /\ m - 1 = k + 1
      BY <3>1, <3>2
    <3>4. at[m - 1] = chain[m - 1]
      BY <2>2, <3>2, <3>3
    <3> HIDE DEF m
    <3>5. at[m] = chain[m]
      BY <1>6, <3>3, <3>4
    <3> QED BY <3>5 DEF m
  <2> HIDE DEF S
  <2>3. Nat \subseteq S
    BY <2>1, <2>2, Induction
  <2>4. i - 1 \in Nat /\ (i - 1) + 1 = i
    BY <1>2
  <2> QED BY <2>3, <2>4 DEF S
<1>8. ASSUME NEW i \in 1 .. C PROVE Sector(at[i]) = dataStart + chain[i]
  <2>1. i \in 1 .. M /\ i \in 1 .. Len(chain)
    BY <1>2
  <2>2. chain[i] \in Nat /\ at[i] = chain[i]
    BY <1>2, <1>7, <2>1
  <2> QED BY <2>2, SectorRead
<1> QED BY <1>1, <1>8 DEF C

(* Past the page of a file a call leaves some cursor, and moves nothing    *)
(* when nothing is asked for.                                              *)
LEMMA BeyondCursor ==
  ASSUME NEW c \in Nat, NEW n \in Nat
  PROVE  /\ Beyond(c, n).cursor \in Nat
         /\ n = 0 /\ c < Limit => Beyond(c, n).cursor = c /\ Beyond(c, n).ret = 0
<1> DEFINE P == FAT12_SECT_SIZE * FAT12_SECT_PER_PAGE
           L == Limit
           M == L + P
           room(x) == P - 1 - (x % P)
           Else(f, x) == IF x >= L THEN [cursor |-> x, ret |-> Null]
                         ELSE IF n <= room(x) THEN [cursor |-> x + n, ret |-> n]
                         ELSE f[x + room(x) + 1]
           from == CHOOSE f : f = [x \in c .. M |-> Else(f, x)]
<1>1. P \in Nat \ {0} /\ L \in Nat
  BY FilesAssumption DEF Limit
<1>2. Beyond(c, n) = IF c >= L THEN [cursor |-> c, ret |-> Null] ELSE from[c]
  BY DEF Beyond
<1>3. \A x \in Nat : room(x) \in 0 .. P - 1
  <2>1. ASSUME NEW x \in Nat PROVE room(x) \in 0 .. P - 1
    <3> DEFINE r == x % P
    <3>1. r \in 0 .. P - 1
      BY <1>1, DivMod
    <3> HIDE DEF r, P
    <3>2. P - 1 - r \in 0 .. P - 1
      BY <1>1, <3>1
    <3> QED BY <3>2 DEF r
  <2> QED BY <2>1
<1> HIDE DEF P, L, room
<1>4. M \in Nat
  BY <1>1
<1> DEFINE IsTable(f) == f = [x \in c .. M |-> f[x]]
           Down(f, k) == \A x \in c .. M : M - x <= k => f[x] = Else(f, x)
           Good == {k \in Nat : \E f : IsTable(f) /\ Down(f, k)}
<1> HIDE DEF M
<1>5. \A x \in c .. M : x < L => /\ x + room(x) + 1 \in c .. M /\ x + room(x) + 1 > x
  BY <1>1, <1>3, <1>4 DEF M
<1>6. ASSUME NEW f, NEW x \in c .. M, \A y \in c .. M : y > x => f[y].cursor \in Nat
      PROVE  Else(f, x).cursor \in Nat
  BY <1>1, <1>4, <1>5, <1>6
<1>7. ASSUME NEW f, NEW g, NEW x \in c .. M, \A y \in c .. M : y > x => f[y] = g[y]
      PROVE  Else(f, x) = Else(g, x)
  BY <1>1, <1>4, <1>5, <1>7
<1> HIDE DEF Else
<1>8. ASSUME NEW k \in Nat, NEW f, IsTable(f), \A x \in c .. M : M - x < k => f[x] = Else(f, x)
      PROVE  k \in Good
  <2> DEFINE g == [x \in c .. M |-> IF M - x = k THEN Else(f, x) ELSE f[x]]
  <2>1. IsTable(g)
    OBVIOUS
  <2>2. ASSUME NEW x \in c .. M, M - x <= k PROVE g[x] = Else(g, x)
    <3>1. \A y \in c .. M : y > x => f[y] = g[y]
      <4>1. \A y \in c .. M : y > x => M - y < k /\ M - y # k
        BY <1>4, <2>2
      <4> QED BY <4>1
    <3>2. Else(f, x) = Else(g, x)
      <4> HIDE DEF g
      <4> QED BY <1>7, <3>1
    <3>3. CASE M - x = k
      <4>1. g[x] = Else(f, x)
        BY <3>3
      <4> HIDE DEF g
      <4> QED BY <3>2, <4>1
    <3>4. CASE M - x # k
      <4>1. g[x] = f[x] /\ M - x < k
        BY <1>4, <2>2, <3>4
      <4> HIDE DEF g, IsTable
      <4> QED BY <1>8, <3>2, <4>1
    <3> QED BY <3>3, <3>4
  <2>3. Down(g, k)
    <3> HIDE DEF g
    <3> QED BY <2>2
  <2> HIDE DEF g, IsTable, Down
  <2> QED BY <2>1, <2>3
<1>9. 0 \in Good
  <2> DEFINE f == [x \in c .. M |-> 0]
  <2>1. IsTable(f)
    OBVIOUS
  <2>2. \A x \in c .. M : ~ (M - x < 0)
    BY <1>4
  <2> HIDE DEF f, IsTable, Good
  <2> QED BY <1>8, <2>1, <2>2
<1>10. ASSUME NEW k \in Nat, k \in Good PROVE k + 1 \in Good
  <2>1. PICK f : IsTable(f) /\ Down(f, k)
    <3> HIDE DEF IsTable, Down
    <3> QED BY <1>10
  <2>2. \A x \in c .. M : M - x < k + 1 => M - x <= k
    BY <1>4
  <2>3. \A x \in c .. M : M - x < k + 1 => f[x] = Else(f, x)
    <3> HIDE DEF IsTable
    <3> QED BY <2>1, <2>2
  <2> HIDE DEF IsTable, Good, Down
  <2> QED BY <1>8, <2>1, <2>3
<1>11. M \in Good
  <2> HIDE DEF Good
  <2> QED BY <1>4, <1>9, <1>10, Induction
<1>12. \A x \in c .. M : from[x] = Else(from, x)
  <2>1. PICK f : IsTable(f) /\ Down(f, M)
    <3> HIDE DEF IsTable, Down
    <3> QED BY <1>11
  <2>2. \A x \in c .. M : M - x <= M
    BY <1>4
  <2>3. \A x \in c .. M : f[x] = Else(f, x)
    <3> HIDE DEF IsTable
    <3> QED BY <2>1, <2>2
  <2>4. f = [x \in c .. M |-> Else(f, x)]
    BY <2>1, <2>3
  <2> DEFINE Is(h) == h = [x \in c .. M |-> Else(h, x)]
  <2>5. Is(from)
    <3>1. Is(f) /\ from = CHOOSE h : Is(h)
      BY <2>4
    <3> HIDE DEF Is, from
    <3> QED BY <3>1
  <2> HIDE DEF from
  <2> QED BY <2>5
<1> HIDE DEF from
<1>13. \A x \in c .. M : from[x].cursor \in Nat
  <2> DEFINE S == {k \in Nat : \A x \in c .. M : M - x <= k => from[x].cursor \in Nat}
  <2>1. ASSUME NEW x \in c .. M, \A y \in c .. M : y > x => from[y].cursor \in Nat
        PROVE  from[x].cursor \in Nat
    BY <1>6, <1>12, <2>1
  <2>2. 0 \in S
    <3>1. \A x \in c .. M : M - x <= 0 => \A y \in c .. M : ~ (y > x)
      BY <1>4
    <3> QED BY <2>1, <3>1
  <2>3. ASSUME NEW k \in Nat, k \in S PROVE k + 1 \in S
    <3>1. \A x \in c .. M : M - x <= k + 1 => \A y \in c .. M : y > x => M - y <= k
      BY <1>4
    <3> QED BY <2>1, <2>3, <3>1
  <2>4. M \in S
    <3> HIDE DEF S
    <3> QED BY <1>4, <2>2, <2>3, Induction
  <2>5. \A x \in c .. M : M - x <= M
    BY <1>4
  <2> QED BY <2>4, <2>5
<1>14. c < L => c \in c .. M
  BY <1>1, <1>4 DEF M
<1>15. ASSUME n = 0, c < L PROVE from[c] = [cursor |-> c, ret |-> 0]
  <2>1. from[c] = Else(from, c)
    BY <1>12, <1>14, <1>15
  <2>2. n <= room(c) /\ ~ (c >= L) /\ c + n = c
    BY <1>1, <1>3, <1>15
  <2> QED BY <1>15, <2>1, <2>2 DEF Else
<1>16. CASE c >= L
  BY <1>1, <1>2, <1>16 DEF L
<1>17. CASE c < L
  <2>1. ~ (c >= L)
    BY <1>1, <1>17
  <2> QED BY <1>2, <1>13, <1>14, <1>15, <1>17, <2>1 DEF L
<1>18. c >= L \/ c < L
  BY <1>1
<1> QED BY <1>16, <1>17, <1>18

(* How many bytes a call that starts within the file moves.                *)
LEMMA ClippedAtEnd ==
  ASSUME NEW f, Holds(f), NEW n \in Sizes
  PROVE  /\ Clipped(f, n) \in Nat
         /\ root = "disk" /\ f.cursor <= f.size => Clipped(f, n) = Min2(n, f.size - f.cursor)
<1> DEFINE c == f.cursor
           S == f.size
           a == (n + c) % Word
           b == (S - c) % Word
<1>1. c \in Nat /\ S \in Nat /\ n \in Nat /\ Word \in Nat \ {0} /\ (root = "disk" => n + S < Word)
  BY FilesAssumption DEF Holds
<1>2. n + c \in Int /\ S - c \in Int
  BY <1>1
<1>3. a \in 0 .. Word - 1 /\ b \in 0 .. Word - 1
  BY <1>1, <1>2, DivMod
<1>4. Clipped(f, n) = IF a > S THEN b ELSE n
  BY DEF Clipped
<1>5. ASSUME root = "disk", c <= S PROVE a = n + c /\ b = S - c
  <2>1. n + c \in 0 .. Word - 1 /\ S - c \in 0 .. Word - 1
    BY <1>1, <1>5
  <2> QED BY <1>1, <2>1, ModSmall
<1> HIDE DEF a, b, c, S
<1>6. ASSUME root = "disk", c <= S PROVE (IF a > S THEN b ELSE n) = Min2(n, S - c)
  <2>1. (IF a > S THEN b ELSE n) = IF n < S - c THEN n ELSE S - c
    BY <1>1, <1>5, <1>6
  <2> QED BY <2>1 DEF Min2
<1>7. (IF a > S THEN b ELSE n) \in Nat
  BY <1>1, <1>3
<1> QED BY <1>4, <1>6, <1>7 DEF c, S

(* What a call delivers and where it leaves the cursor: chardev_file_mov   *)
(* moves the bytes of the file while it stays in the page.                 *)
LEMMA Delivers ==
  ASSUME Mounted, NEW f, Holds(f), NEW n \in Sizes
  PROVE  LET e   == File(f.asked)
             got == chardev_file_mov(f, n)
             m   == Min2(n, Root[e].size - f.cursor)
         IN  /\ got.cursor \in Nat
             /\ /\ root = "disk" /\ disk.SectorsPerCluster = 1
                /\ f.cursor <= Root[e].size /\ f.cursor + m <= InPage /\ InFat(e)
                => /\ got.buf = [i \in 1 .. m |-> OnFile(e, f.cursor + i - 1)]
                   /\ got.ret = m /\ got.cursor = f.cursor + m
<1> DEFINE e    == File(f.asked)
           c    == f.cursor
           S    == f.size
           k    == Clipped(f, n)
           m    == Min2(n, S - c)
           here == IF c < InPage THEN Min2(k, InPage - c) ELSE 0
           rest == Beyond(c + here, k)
           got  == chardev_file_mov(f, n)
<1>1. /\ c \in Nat /\ S \in Nat
      /\ root = "disk" => e \in Entry /\ S = Root[e].size
      /\ root = "disk" /\ disk.SectorsPerCluster = 1 /\ InFat(e) =>
           f.data = [i \in 1 .. SectCount(S) |-> dataStart + Root[e].chain[i]]
  BY DEF Holds
<1>2. S \in Nat /\ n \in Nat /\ InPage \in Nat /\ InPage < Limit
  <2>1. S \in Nat /\ n \in Nat
    BY <1>1, FilesAssumption
  <2> DEFINE N == FAT12_SECT_SIZE
             P == DEV_FILE_FIRST_LVL_PAGES * FAT12_SECT_PER_PAGE
  <2>2. N \in Nat \ {0} /\ P \in Nat \ {0} /\ FIRST_SECTORS \in Nat
    <3>1. \A a, b \in Nat \ {0} : a * b \in Nat \ {0}
      OBVIOUS
    <3> QED BY <3>1, FilesAssumption
  <2>3. InPage = FIRST_SECTORS * N /\ Limit = (FIRST_SECTORS + P) * N
    BY DEF InPage, Limit
  <2> HIDE DEF N, P
  <2>4. (FIRST_SECTORS + P) * N = FIRST_SECTORS * N + P * N
    BY <2>2
  <2>5. P * N > 0 /\ FIRST_SECTORS * N \in Nat /\ P * N \in Nat
    BY <2>2
  <2> QED BY <2>1, <2>3, <2>4, <2>5
<1>3. k \in Nat /\ (root = "disk" /\ c <= S => k = m)
  BY ClippedAtEnd
<1>4. got = IF here = k /\ c < InPage
            THEN [buf |-> [i \in 1 .. k |-> Byte(f, c + i - 1)], ret |-> k, cursor |-> c + k]
            ELSE [buf |-> IF k = 0 THEN <<>> ELSE Null, ret |-> rest.ret, cursor |-> rest.cursor]
  BY DEF chardev_file_mov
<1>5. \A a, b : Min2(a, b) = IF a < b THEN a ELSE b
  BY DEF Min2
<1>6. m \in Int /\ m <= S - c
  BY <1>1, <1>2, <1>5
<1> HIDE DEF c, S, k, m, got, e
<1>7. here \in Nat /\ c + here \in Nat
  BY <1>1, <1>2, <1>3, <1>5
<1> HIDE DEF here
<1>8. got.cursor \in Nat
  <2>1. rest.cursor \in Nat
    BY <1>3, <1>7, BeyondCursor
  <2> HIDE DEF rest
  <2>2. c + k \in Nat
    BY <1>1, <1>3
  <2> QED BY <1>4, <2>1, <2>2
<1>9. ASSUME root = "disk", disk.SectorsPerCluster = 1, c <= S, c + m <= InPage, InFat(e)
      PROVE  /\ got.buf = [i \in 1 .. m |-> OnFile(e, c + i - 1)]
             /\ got.ret = m /\ got.cursor = c + m
  <2>1. k = m
    BY <1>3, <1>9
  <2>2. CASE c < InPage
    <3>1. here = k
      BY <1>1, <1>2, <1>3, <1>5, <1>9, <2>1, <2>2 DEF here
    <3>2. /\ got.buf = [i \in 1 .. m |-> Byte(f, c + i - 1)]
          /\ got.ret = m /\ got.cursor = c + m
      BY <1>4, <2>1, <2>2, <3>1
    <3>3. ASSUME NEW i \in 1 .. m PROVE Byte(f, c + i - 1) = OnFile(e, c + i - 1)
      <4> DEFINE p == c + i - 1
                 s == p \div FAT12_SECT_SIZE
                 C == SectCount(S)
                 data == f.data
      <4>1. p \in Nat /\ p < S /\ p < InPage
        BY <1>1, <1>2, <1>6, <1>9
      <4>2. C \in Nat /\ C <= Len(Root[e].chain) /\ Len(Root[e].chain) \in Nat
        <5>1. FIRST_SECTORS \in Nat /\ Len(Root[e].chain) \in Nat
          BY <1>1, <1>9, FilesAssumption, OneFile
        <5>2. C \in 0 .. Min2(FIRST_SECTORS, Len(Root[e].chain))
          BY <1>1, <1>9, SectorsEnough
        <5> QED BY <5>1, <5>2 DEF Min2
      <4> HIDE DEF p, C
      <4>3. s \in 0 .. C - 1
        BY <1>1, <1>9, <4>1, SectorsEnough DEF C
      <4>4. data = [x \in 1 .. C |-> dataStart + Root[e].chain[x]]
        BY <1>1, <1>9 DEF C
      <4>5. Byte(f, p) = IF s < Len(data) THEN <<data[s + 1], p % FAT12_SECT_SIZE>> ELSE Null
        BY DEF Byte
      <4>6. OnFile(e, p) = <<dataStart + Root[e].chain[1 + s], p % FAT12_SECT_SIZE>>
        <5>1. 1 + s \in 1 .. Len(Root[e].chain)
          BY <4>2, <4>3
        <5> QED BY <1>1, <1>9, <4>1, <5>1, ByteOnFile
      <4> HIDE DEF s, data
      <4>7. s < C /\ s + 1 \in 1 .. C /\ 1 + s = s + 1
        BY <4>2, <4>3
      <4>8. Len(data) = C
        BY <4>2, <4>4, LenProperties
      <4>9. data[s + 1] = dataStart + Root[e].chain[s + 1]
        BY <4>4, <4>7
      <4>10. Byte(f, p) = OnFile(e, p)
        BY <4>5, <4>6, <4>7, <4>8, <4>9
      <4> QED BY <4>10 DEF p
    <3> QED BY <3>2, <3>3
  <2>3. CASE ~ (c < InPage)
    <3>1. m = 0 /\ c = InPage /\ here = 0
      BY <1>1, <1>2, <1>5, <1>9, <2>3 DEF m, here
    <3>2. k = 0 /\ c + here = c /\ c < Limit
      BY <1>1, <1>2, <2>1, <3>1
    <3>3. rest.cursor = c /\ rest.ret = 0
      BY <1>1, <1>3, <3>2, BeyondCursor
    <3>4. got = [buf |-> IF k = 0 THEN <<>> ELSE Null, ret |-> rest.ret, cursor |-> rest.cursor]
      BY <1>4, <2>3
    <3>5. got.buf = <<>> /\ got.ret = 0 /\ got.cursor = c
      BY <3>2, <3>3, <3>4
    <3>6. [i \in 1 .. m |-> OnFile(e, c + i - 1)] = <<>>
      BY <3>1
    <3> QED BY <1>1, <3>1, <3>5, <3>6
  <2> QED BY <2>2, <2>3
<1>10. root = "disk" => m = Min2(n, Root[e].size - c)
  BY <1>1 DEF m
<1> DEFINE mm == Min2(n, Root[e].size - c)
<1>11. ASSUME root = "disk", disk.SectorsPerCluster = 1,
              c <= Root[e].size, c + mm <= InPage, InFat(e)
       PROVE  /\ got.buf = [i \in 1 .. mm |-> OnFile(e, c + i - 1)]
              /\ got.ret = mm /\ got.cursor = c + mm
  <2>1. m = mm /\ c <= S
    BY <1>1, <1>10, <1>11
  <2> QED BY <1>9, <1>11, <2>1
<1> QED BY <1>8, <1>11 DEF c, got, e

(* Nothing that reading needs to know changes once the disk is mounted.    *)
LEMMA StillHolds ==
  ASSUME FilesInv, UNCHANGED mountVars, DOMAIN open' = Handle,
         \A g \in Handle : open'[g] # Null => Holds(open'[g]),
         root = "none" => result' = Null /\ \A g \in Handle : open'[g] = Null,
         ReadsFile'
  PROVE  FilesInv'
<1>1. disk' = disk /\ boot_sect' = boot_sect /\ fat' = fat /\ root' = root
  BY DEF mountVars
<1>2. Mounted'
  BY <1>1 DEF FilesInv, Mounted, GeometryOf
<1>3. dataStart' = dataStart
  BY <1>1 DEF dataStart
<1>4. \A e : InFat(e)' <=> InFat(e)
  BY <1>1 DEF InFat
<1>5. ASSUME NEW g \in Handle, open'[g] # Null PROVE Holds(open[g])'
  <2>1. Holds(open'[g])
    BY <1>5
  <2> QED BY <1>1, <1>3, <1>4, <2>1 DEF Holds
<1> QED BY <1>1, <1>2, <1>5 DEF FilesInv

(* Only the cursor of an open file ever changes.                           *)
LEMMA CursorMoves ==
  ASSUME FilesInv, NEW h \in Handle, IsOpen(h), NEW c \in Nat,
         open' = [open EXCEPT ![h].cursor = c]
  PROVE  /\ DOMAIN open' = Handle /\ open'[h].cursor = c /\ open'[h].asked = open[h].asked
         /\ \A g \in Handle : open'[g] # Null => Holds(open'[g])
<1> DEFINE f == open[h]
<1>1. Holds(f) /\ DOMAIN open = Handle
  BY DEF FilesInv, IsOpen
<1>2. f = [asked |-> f.asked, size |-> f.size, data |-> f.data, cursor |-> f.cursor]
  BY <1>1 DEF Holds
<1> DEFINE g == [asked |-> f.asked, size |-> f.size, data |-> f.data, cursor |-> c]
<1>3. [f EXCEPT !.cursor = c] = g
  <2> HIDE DEF f
  <2> QED BY <1>2
<1>4. open' = [open EXCEPT ![h] = g]
  BY <1>1, <1>3
<1>5. Holds(g)
  BY <1>1 DEF Holds
<1>6. g.cursor = c /\ g.asked = f.asked
  OBVIOUS
<1> HIDE DEF g
<1> QED BY <1>1, <1>4, <1>5, <1>6 DEF FilesInv

(* Mounting.                                                               *)
LEMMA CreateKeeps == FilesInv /\ fat12_create => FilesInv'
<1> SUFFICES ASSUME FilesInv, fat12_create PROVE FilesInv'
  OBVIOUS
<1>1. root = "none" /\ UNCHANGED <<disk, open, left, result>>
  BY DEF fat12_create
<1>2. /\ Mounted /\ DOMAIN open = Handle /\ result = Null
      /\ \A h \in Handle : open[h] = Null
  BY <1>1 DEF FilesInv
<1>3. PICK b \in BootSectors, fatRead \in BOOLEAN, rootRead \in BOOLEAN :
         /\ boot_sect' = b
         /\ fat' = [o \in DOMAIN fat |->
                      IF fatRead /\ o < PairsRead /\ Delivered(b, b.ReservedSectors, FAT_SECTORS)
                        THEN OnDisk(o) ELSE fat[o]]
         /\ root' = IF /\ fatRead /\ SectPerRoot(b) < FAT12_CACHE_SECTORS /\ rootRead
                       /\ Delivered(b, RootStart(b), SectPerRoot(b))
                      THEN "disk" ELSE "unknown"
  BY DEF fat12_create
<1>4. Mounted'
  <2>1. DOMAIN fat' = 0 .. Pairs - 1 /\ \A o \in DOMAIN fat' : fat'[o] # Null => fat'[o] = OnDisk(o)
    BY <1>2, <1>3 DEF Mounted
  <2>2. root' = "disk" => Delivered(b, RootStart(b), SectPerRoot(b))
    BY <1>3
  <2>3. root' = "disk" =>
          /\ boot_sect' = disk /\ disk.HeadCount = 2
          /\ fat12_media_desc(disk.MediaDescriptor) = GeometryOf(disk)
    BY <1>3, <2>2 DEF Delivered
  <2> QED BY <1>1, <1>2, <2>1, <2>3 DEF Mounted, GeometryOf
<1>5. result' = Null /\ DOMAIN open' = Handle /\ \A h \in Handle : open'[h] = Null
  BY <1>1, <1>2
<1>6. ReadsFile'
  BY <1>5 DEF ReadsFile
<1> QED BY <1>4, <1>5, <1>6 DEF FilesInv

(* Opening.                                                                *)
LEMMA OpenHolds ==
  ASSUME FilesInv, NEW h \in Handle, NEW name \in Wanted, fat12_open(h, name)
  PROVE  FilesInv'
<1>1. /\ root # "none" /\ result' = Null /\ UNCHANGED mountVars
      /\ \E f \in Found(name) : open' = [open EXCEPT ![h] = f] \/ open' = open
  BY DEF fat12_open
<1>2. PICK f \in Found(name) : open' = [open EXCEPT ![h] = f] \/ open' = open
  BY <1>1
<1>3. Mounted
  BY DEF FilesInv
<1>4. Holds(f)
  <2> DEFINE e == fat12_find_file(name)
  <2>1. CASE root = "unknown"
    <3>1. PICK n \in Sizes : f = Opened(name, n, [i \in 1 .. SectCount(n) |-> Null])
      BY <2>1 DEF Found
    <3>2. n \in Nat
      BY FilesAssumption
    <3> QED BY <2>1, <3>1, <3>2 DEF Holds, Opened
  <2>2. CASE root # "unknown"
    <3>1. e # Null /\ f = Opened(name, Root[e].size, Visited(e))
      <4>1. f \in IF e = Null THEN {} ELSE {Opened(name, Root[e].size, Visited(e))}
        BY <1>2, <2>2 DEF Found
      <4> HIDE DEF e
      <4> QED BY <4>1
    <3>2. e = File(name) /\ e \in Entry
      BY <3>1, FindsFile
    <3>3. root = "disk" /\ disk.SectorsPerCluster = 1 /\ InFat(e) =>
            Visited(e) = [i \in 1 .. SectCount(Root[e].size) |-> dataStart + Root[e].chain[i]]
      BY <1>3, <3>2, VisitsChain
    <3> HIDE DEF e
    <3>4. Root[e].size \in Nat
      BY <3>2, OneFile
    <3> QED BY <3>1, <3>2, <3>3, <3>4 DEF Holds, Opened
  <2> QED BY <2>1, <2>2
<1>5. DOMAIN open' = Handle /\ \A g \in Handle : open'[g] # Null => Holds(open'[g])
  BY <1>2, <1>4 DEF FilesInv
<1>6. ReadsFile'
  BY <1>1 DEF ReadsFile
<1> QED BY <1>1, <1>5, <1>6, StillHolds

(* Reading.                                                                *)
LEMMA ReadDelivers ==
  ASSUME FilesInv, NEW h \in Handle, NEW n \in Sizes, chardev_file_read(h, n)
  PROVE  FilesInv'
<1> DEFINE f   == open[h]
           e   == File(f.asked)
           got == chardev_file_mov(f, n)
           m   == Min2(n, Root[e].size - f.cursor)
           c   == got.cursor
<1>1. /\ IsOpen(h) /\ UNCHANGED mountVars
      /\ open' = [open EXCEPT ![h].cursor = c]
      /\ result' = [h |-> h, from |-> f.cursor, size |-> n, buf |-> got.buf, ret |-> got.ret]
  BY DEF chardev_file_read
<1>2. Holds(f) /\ Mounted /\ root # "none"
  BY <1>1 DEF FilesInv, IsOpen
<1>3. /\ c \in Nat
      /\ /\ root = "disk" /\ disk.SectorsPerCluster = 1
         /\ f.cursor <= Root[e].size /\ f.cursor + m <= InPage /\ InFat(e)
         => /\ got.buf = [i \in 1 .. m |-> OnFile(e, f.cursor + i - 1)]
            /\ got.ret = m /\ c = f.cursor + m
  <2> HIDE DEF f
  <2> QED BY <1>2, Delivers
<1> HIDE DEF got, c
<1>4. /\ DOMAIN open' = Handle /\ open'[h].cursor = c /\ open'[h].asked = f.asked
      /\ \A g \in Handle : open'[g] # Null => Holds(open'[g])
  BY <1>1, <1>3, CursorMoves
<1>5. ReadsFile'
  <2>1. /\ result'.h = h /\ result'.from = f.cursor /\ result'.size = n
        /\ result'.buf = got.buf /\ result'.ret = got.ret
    BY <1>1
  <2>2. disk' = disk /\ fat' = fat /\ root' = root
    BY <1>1 DEF mountVars
  <2>3. \A x : InFat(x)' <=> InFat(x)
    BY <2>2 DEF InFat
  <2> QED BY <1>3, <1>4, <2>1, <2>2, <2>3 DEF ReadsFile, OnFile
<1> QED BY <1>1, <1>2, <1>4, <1>5, StillHolds

(* Writing and seeking.                                                    *)
LEMMA CursorKeeps ==
  ASSUME FilesInv, NEW h \in Handle, IsOpen(h), NEW c \in Nat,
         open' = [open EXCEPT ![h].cursor = c], result' = Null, UNCHANGED mountVars
  PROVE  FilesInv'
<1>1. DOMAIN open' = Handle /\ \A g \in Handle : open'[g] # Null => Holds(open'[g])
  BY CursorMoves
<1>2. root # "none"
  BY DEF FilesInv, IsOpen
<1>3. ReadsFile'
  BY DEF ReadsFile
<1> QED BY <1>1, <1>2, <1>3, StillHolds

(* Whoever opens, reads, writes and seeks, a read that starts within its   *)
(* file and ends within the page delivers the bytes of the file that was   *)
(* asked for, where its disk's root directory was read and a cluster is    *)
(* one sector: find_file finds its entry, the FAT in memory holds its      *)
(* chain, dataStart turns its clusters into sectors of the data area, and  *)
(* the cursor is where the calls before left it.                           *)
THEOREM FilesReadFile == FilesSpec => []ReadsFile
<1>1. FilesInit => FilesInv
  BY DEF FilesInit, FilesInv, Mounted, ReadsFile
<1>2. FilesInv /\ [FilesNext]_filesVars => FilesInv'
  <2> SUFFICES ASSUME FilesInv, [FilesNext]_filesVars PROVE FilesInv'
    OBVIOUS
  <2>1. ASSUME NEW h \in Handle, NEW n \in Sizes, chardev_file_write(h, n) PROVE FilesInv'
    <3> DEFINE c == chardev_file_mov(open[h], n).cursor
    <3>1. /\ IsOpen(h) /\ open' = [open EXCEPT ![h].cursor = c] /\ result' = Null
          /\ UNCHANGED mountVars
      BY <2>1 DEF chardev_file_write
    <3>2. Holds(open[h]) /\ Mounted
      BY <3>1 DEF FilesInv, IsOpen
    <3>3. c \in Nat
      BY <3>2, Delivers
    <3> HIDE DEF c
    <3> QED BY <3>1, <3>3, CursorKeeps
  <2>2. ASSUME NEW h \in Handle, NEW pos \in Positions, chardev_file_seek(h, pos) PROVE FilesInv'
    <3>1. pos \in Nat
      BY FilesAssumption
    <3> QED BY <2>2, <3>1, CursorKeeps DEF chardev_file_seek
  <2>3. CASE UNCHANGED filesVars
    <3>1. UNCHANGED mountVars /\ open' = open /\ result' = result
      BY <2>3 DEF filesVars
    <3>2. DOMAIN open' = Handle /\ \A g \in Handle : open'[g] # Null => Holds(open'[g])
      BY <3>1 DEF FilesInv
    <3>3. ReadsFile'
      <4>1. disk' = disk /\ fat' = fat /\ root' = root
        BY <3>1 DEF mountVars
      <4> QED BY <3>1, <4>1 DEF FilesInv, ReadsFile, InFat, OnFile
    <3>4. root = "none" => result' = Null /\ \A g \in Handle : open'[g] = Null
      BY <3>1 DEF FilesInv
    <3> QED BY <3>1, <3>2, <3>3, <3>4, StillHolds
  <2> QED BY <2>1, <2>2, <2>3, CreateKeeps, OpenHolds, ReadDelivers DEF FilesNext
<1>3. FilesInv => ReadsFile
  BY DEF FilesInv
<1> QED BY <1>1, <1>2, <1>3, PTL DEF FilesSpec
=============================================================================
