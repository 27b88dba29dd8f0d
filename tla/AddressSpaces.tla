--------------------------- MODULE AddressSpaces ---------------------------
(***************************************************************************)
(* What the memory manager promises to programs: each task has its own     *)
(* memory, fork gives the child a copy of the parent's pages, and a store  *)
(* is seen by the task that made it and by those that have the page in the *)
(* same shared segment.  Frames, page tables and copy on write do not      *)
(* appear.  Mm implements it.                                              *)
(***************************************************************************)
EXTENDS Naturals

CONSTANTS
  Task, Page, Value,
  Segment,       \* identities of segments of shared memory
  Stack,         \* the page that fork copies even when it is shared
  None           \* no contents, no segment

VARIABLES
  mem,           \* what each task finds in each page
  seg            \* the segment each of its pages is in

vars == <<mem, seg>>

Nothing == [v \in Page |-> None]

Init == mem = [t \in Task |-> Nothing] /\ seg = [t \in Task |-> Nothing]

(* A program starts with some pages; what is in them is not promised.      *)
Load(t) ==
  /\ mem[t] = Nothing
  /\ \E m \in [Page -> Value \cup {None}] : mem' = [mem EXCEPT ![t] = m]
  /\ UNCHANGED seg

(* A page comes into being, with whatever was left in its frame.           *)
Appear(t, v) ==
  /\ mem[t][v] = None
  /\ \E x \in Value : mem' = [mem EXCEPT ![t][v] = x]
  /\ UNCHANGED seg

Sees(u, t, v) == u = t \/ (seg[t][v] # None /\ seg[u][v] = seg[t][v])

Store(t, v, x) ==
  /\ mem[t][v] # None
  /\ mem' = [u \in Task |-> IF Sees(u, t, v) THEN [mem[u] EXCEPT ![v] = x] ELSE mem[u]]
  /\ UNCHANGED seg

(* The page becomes a segment of its own, for the children to come.        *)
Share(t, v) ==
  /\ mem[t][v] # None /\ seg[t][v] = None
  /\ \E s \in Segment :
       /\ \A u \in Task : seg[u][v] # s
       /\ seg' = [seg EXCEPT ![t][v] = s]
  /\ UNCHANGED mem

Fork(t, u) ==
  /\ mem[t] # Nothing /\ mem[u] = Nothing
  /\ mem' = [mem EXCEPT ![u] = mem[t]]
  /\ seg' = [seg EXCEPT ![u] = [seg[t] EXCEPT ![Stack] = None]]

Exit(t) ==
  /\ mem[t] # Nothing
  /\ mem' = [mem EXCEPT ![t] = Nothing]
  /\ seg' = [seg EXCEPT ![t] = Nothing]

Next ==
  \E t \in Task :
    \/ \E v \in Page :
         (\E x \in Value : Store(t, v, x)) \/ Appear(t, v) \/ Share(t, v)
    \/ Load(t) \/ Exit(t)
    \/ \E u \in Task : Fork(t, u)

Spec == Init /\ [][Next]_vars
=============================================================================
