--------------------------------- MODULE Mm ---------------------------------
(***************************************************************************)
(* User memory (kernel/mm.c): the bitmap of frames, the page tables of the *)
(* tasks, palloc and memory on demand, share_page, fork with copy on       *)
(* write, the page fault handler, and what loader.c does to memory when a  *)
(* task is loaded, forks or exits.                                         *)
(*                                                                         *)
(* An address space has the pages 1 .. NPages, the last of them the user's *)
(* stack; the stack has a page table of its own, the others are in one.    *)
(* Left out are the page of the program, which fares like a page the task  *)
(* asked for and got, the ring 0 stack, which fares like the other one,    *)
(* and KERNEL_TEMP_PAGE, which is free again when a call returns.          *)
(* System calls and faults run with interrupts off: each is one action.    *)
(***************************************************************************)
EXTENDS Integers, FiniteSets

CONSTANTS
  Task, NPages, Value,
  Bits,          \* bits of a word of the bitmap (32)
  Words,         \* usr_pf_limit
  KPages,        \* pages for directories and page tables
  Buffers,       \* the pages programs have system calls store into
  Sharable,      \* the pages programs share
  ShareAny,      \* whether they share pages they have no frame for, or one
                 \* that is copy on write
  NoFrame, Forgotten

Page  == 1 .. NPages
Stack == NPages
Table(v) == IF v = Stack THEN 2 ELSE 1
Tables == 2
Frame == 0 .. Words * Bits - 1

ASSUME MmAssumption ==
  /\ NPages \in Nat /\ NPages >= 2
  /\ Bits \in Nat \ {0} /\ Words \in Nat \ {0} /\ KPages \in Nat
  /\ Value # {} /\ Buffers \cup Sharable \subseteq Page
  /\ ShareAny \in BOOLEAN
  /\ NoFrame \notin Frame \cup Value

VARIABLES
  alive,         \* the tasks with a page directory: task_table[].cr3 is set
  pte,           \* the page table entries of the tasks
  used,          \* the user frames whose bit is set
  kfree,         \* kernel pages that are free
  data           \* what is in each frame that is used

vars == <<alive, pte, used, kfree, data>>

(* A page table entry.  Of an entry that is not present the bit rw means   *)
(* MM_ATTR_REQ: the two have the same value.                               *)
Entry == [f : Frame \cup {NoFrame}, present : BOOLEAN, rw : BOOLEAN,
          sh : BOOLEAN, cow : BOOLEAN]

NoEntry == [f |-> NoFrame, present |-> FALSE, rw |-> FALSE, sh |-> FALSE, cow |-> FALSE]
Mapped(f) == [NoEntry EXCEPT !.f = f, !.present = TRUE, !.rw = TRUE]
Requested(e) == ~e.present /\ e.rw
(* The code does not clear a frame, so one that is mapped may have any     *)
(* contents; the model forgets them when the frame is freed.               *)
Forget(frames) == [f \in Frame |-> IF f \in frames THEN Forgotten ELSE data[f]]

COW(e) == IF e.sh THEN e ELSE [e EXCEPT !.cow = TRUE, !.rw = FALSE]

Init ==
  /\ alive = {} /\ used = {} /\ kfree = KPages
  /\ pte = [t \in Task |-> [v \in Page |-> NoEntry]]
  /\ data = [f \in Frame |-> Forgotten]

----------------------------------------------------------------------------
(* Frames *)

(* f is what the search finds when the bits of U are set: the lowest clear *)
(* bit.  A word found in the last place is taken for the end of the array, *)
(* so the frames of the last word are never given out.                     *)
page_frame_info_alloc(U, f) ==
  LET free == {g \in Frame : g < (Words - 1) * Bits /\ g \notin U}
  IN  \/ f = NoFrame /\ free = {}
      \/ f \in free /\ \A g \in free : f <= g

(* The tasks with frame f at page v, of which mm_times_mapped returns the  *)
(* number.                                                                 *)
Mappers(f, v) == {t \in alive : pte[t][v].f = f}

(* Mutant: a frame that somebody else maps copy on write is freed.         *)
FreedSharedOnly(t, pages) ==
  {f \in Frame : \E v \in pages :
     /\ pte[t][v].present /\ pte[t][v].f = f
     /\ pte[t][v].sh => Mappers(f, v) \subseteq {t}}

(* The frames mm_table_free gives back for the pages of t: those of its    *)
(* present entries, unless the entry is shared or copy on write and the    *)
(* frame is mapped more than once.                                         *)
Freed(t, pages) ==
  {f \in Frame : \E v \in pages :
     /\ pte[t][v].present /\ pte[t][v].f = f
     /\ pte[t][v].sh \/ pte[t][v].cow => Mappers(f, v) \subseteq {t}}

----------------------------------------------------------------------------
(* Tasks *)

(* loader_load, which tests none of its allocations: no load starts that   *)
(* memory does not suffice for.                                            *)
loader_load(t) ==
  /\ t \notin alive
  /\ kfree >= 1 + Tables
  /\ \E stack \in Frame :
       /\ page_frame_info_alloc(used, stack)
       /\ used' = used \cup {stack}
       /\ pte' = [pte EXCEPT ![t][Stack] = Mapped(stack)]
       /\ \E x \in Value : data' = [data EXCEPT ![stack] = x]
  /\ kfree' = kfree - (1 + Tables)
  /\ alive' = alive \cup {t}

(* Mutant: the parent keeps the right to write.                            *)
ForkWritable(t, pages) ==
  [v \in Page |-> IF v \in pages /\ pte[t][v].present
                  THEN [COW(pte[t][v]) EXCEPT !.rw = pte[t][v].rw] ELSE pte[t][v]]

(* The entries of t after mm_page_fork went over the given pages.          *)
mm_page_fork(t, pages) ==
  [v \in Page |-> IF v \in pages /\ pte[t][v].present THEN COW(pte[t][v]) ELSE pte[t][v]]

(* The child gets the present entries and a stack of its own.              *)
Inherited(t, stack) ==
  [v \in Page |-> IF v = Stack THEN Mapped(stack)
                  ELSE IF pte[t][v].present THEN COW(pte[t][v]) ELSE NoEntry]

(* The child's stack is a copy of the parent's.  With no frame for it it would    *)
(* be mapped at address 0; no such fork is modelled.                       *)
sys_fork(t, u) ==
  /\ t \in alive /\ u \notin alive
  /\ kfree >= 1 + Tables
  /\ \E stack \in Frame :
       /\ page_frame_info_alloc(used, stack)
       /\ used' = used \cup {stack}
       /\ pte' = [pte EXCEPT ![t] = mm_page_fork(t, Page), ![u] = Inherited(t, stack)]
       /\ data' = [data EXCEPT ![stack] = data[pte[t][Stack].f]]
  /\ kfree' = kfree - (1 + Tables)
  /\ alive' = alive \cup {u}

(* Kernel pages run out after some of the tables were copied: mm_dir_free  *)
(* undoes them, with a directory that is in no entry of task_table.        *)
ForkRollback(t) ==
  /\ t \in alive
  /\ \E copied \in 1 .. Tables - 1 :
       /\ kfree = 1 + copied
       /\ LET pages == {v \in Page : Table(v) <= copied}
              alone == {f \in Frame : \E v \in pages :
                          /\ pte[t][v].present /\ pte[t][v].f = f
                          /\ Mappers(f, v) \subseteq {t}}
          IN  /\ pte' = [pte EXCEPT ![t] = mm_page_fork(t, pages)]
              /\ used' = used \ alone
              /\ data' = Forget(alone)
  /\ UNCHANGED <<alive, kfree>>

(* loader_exit: once off its stack the task's directory is freed.          *)
loader_exit(t) ==
  /\ t \in alive
  /\ used' = used \ Freed(t, Page)
  /\ kfree' = kfree + 1 + Tables
  /\ pte' = [pte EXCEPT ![t] = [v \in Page |-> NoEntry]]
  /\ alive' = alive \ {t}
  /\ data' = Forget(Freed(t, Page))

----------------------------------------------------------------------------
(* System calls on pages *)

(* The first entry that is neither present nor requested.                  *)
sys_palloc(t) ==
  /\ t \in alive
  /\ LET free == {v \in Page : ~pte[t][v].present /\ ~Requested(pte[t][v])}
     IN  \E first \in free :
           /\ \A v \in free : first <= v
           /\ pte' = [pte EXCEPT ![t][first] = [NoEntry EXCEPT !.rw = TRUE]]
  /\ UNCHANGED <<alive, used, kfree, data>>

(* The bit is set whatever the entry is.  Without ShareAny programs call   *)
(* it as memoryd.c does, on a page of their own that they have used.       *)
mm_share_page(t, v) ==
  /\ t \in alive /\ v \in Sharable
  /\ ShareAny \/ (pte[t][v].present /\ ~pte[t][v].cow)
  /\ pte' = [pte EXCEPT ![t][v].sh = TRUE]
  /\ UNCHANGED <<alive, used, kfree, data>>

----------------------------------------------------------------------------
(* Faults *)

(* Mutant: no test for the frame that is missing.                          *)
FaultUntested(t, v) ==
  /\ t \in alive /\ Requested(pte[t][v])
  /\ \E f \in Frame \cup {NoFrame} :
       /\ page_frame_info_alloc(used, f)
       /\ used' = used \cup {f}
       /\ pte' = [pte EXCEPT ![t][v] = Mapped(f)]
  /\ UNCHANGED <<alive, kfree, data>>

(* The first access to a requested page.  Without a frame the task exits.  *)
FaultRequested(t, v) ==
  /\ t \in alive /\ Requested(pte[t][v])
  /\ \/ page_frame_info_alloc(used, NoFrame) /\ loader_exit(t)
     \/ /\ \E f \in Frame :
             /\ page_frame_info_alloc(used, f)
             /\ used' = used \cup {f}
             /\ pte' = [pte EXCEPT ![t][v] = Mapped(f)]
             /\ \E x \in Value : data' = [data EXCEPT ![f] = x]
        /\ UNCHANGED <<alive, kfree>>

(* Mutant: the new frame is not filled.                                    *)
CowWithoutCopy(t, v) ==
  \/ /\ Mappers(pte[t][v].f, v) = {t}
     /\ pte' = [pte EXCEPT ![t][v] = [@ EXCEPT !.cow = FALSE, !.rw = TRUE]]
     /\ UNCHANGED <<used, data>>
  \/ /\ Mappers(pte[t][v].f, v) # {t}
     /\ \E f \in Frame :
          /\ page_frame_info_alloc(used, f)
          /\ used' = used \cup {f}
          /\ pte' = [pte EXCEPT ![t][v] = Mapped(f)]
          /\ UNCHANGED data

(* The only mapper gets the frame back; others get a copy.  Without a      *)
(* frame nothing changes and the program faults again.                     *)
mm_copy_on_write_page(t, v) ==
  \/ /\ Mappers(pte[t][v].f, v) = {t}
     /\ pte' = [pte EXCEPT ![t][v] = [@ EXCEPT !.cow = FALSE, !.rw = TRUE]]
     /\ UNCHANGED <<used, data>>
  \/ /\ Mappers(pte[t][v].f, v) # {t}
     /\ \E f \in Frame :
          /\ page_frame_info_alloc(used, f)
          /\ used' = used \cup {f}
          /\ pte' = [pte EXCEPT ![t][v] = Mapped(f)]
          /\ data' = [data EXCEPT ![f] = data[pte[t][v].f]]

(* The first store to a page that is copy on write.                        *)
FaultCow(t, v) ==
  /\ t \in alive
  /\ pte[t][v].present /\ pte[t][v].cow /\ ~pte[t][v].rw
  /\ mm_copy_on_write_page(t, v)
  /\ UNCHANGED <<alive, kfree>>

----------------------------------------------------------------------------
(* Stores, by the processor's rules *)

UserStore(t, v, x) ==
  /\ t \in alive /\ pte[t][v].present /\ pte[t][v].rw
  /\ data' = [data EXCEPT ![pte[t][v].f] = x]
  /\ UNCHANGED <<alive, pte, used, kfree>>

(* A system call stores into memory of its caller.  CR0.WP is clear, so    *)
(* the kernel does not fault on a page that is read-only.                  *)
KernelStore(t, v, x) ==
  /\ t \in alive /\ v \in Buffers /\ pte[t][v].present
  /\ data' = [data EXCEPT ![pte[t][v].f] = x]
  /\ UNCHANGED <<alive, pte, used, kfree>>

----------------------------------------------------------------------------
Next ==
  \E t \in Task :
    \/ loader_load(t) \/ loader_exit(t) \/ sys_palloc(t)
    \/ \E u \in Task : sys_fork(t, u)
    \/ \E v \in Page :
         \/ mm_share_page(t, v) \/ FaultRequested(t, v) \/ FaultCow(t, v)
         \/ \E x \in Value : UserStore(t, v, x) \/ KernelStore(t, v, x)

(* Kernel pages suffice, or none are left when a fork begins. *)
Spec == Init /\ [][Next]_vars

(* They may also run out in the middle of a fork. *)
SpecShort == Init /\ [][Next \/ \E t \in Task : ForkRollback(t)]_vars

----------------------------------------------------------------------------
(* Types; an entry is present exactly when it has a frame. *)
MmTypeOK ==
  /\ alive \subseteq Task /\ used \subseteq Frame /\ kfree \in 0 .. KPages
  /\ pte \in [Task -> [Page -> Entry]]
  /\ data \in [Frame -> Value \cup {Forgotten}]
  /\ \A t \in Task, v \in Page : pte[t][v].present <=> pte[t][v].f # NoFrame

InUse == {f \in Frame : \E t \in alive, v \in Page : pte[t][v].f = f}

(* The bits of the bitmap are those of the frames some task maps: no frame *)
(* is given out twice or freed under somebody's feet, and none is lost.    *)
FramesExact == used = InUse

(* Who may store into a page that is not shared is the only one to map its *)
(* frame, in whatever order tasks forked, faulted and exited.              *)
WritableAlone ==
  \A t \in alive, v \in Page :
    pte[t][v].present /\ pte[t][v].rw /\ ~pte[t][v].sh =>
      \A u \in alive, w \in Page :
        pte[u][w].f = pte[t][v].f => u = t /\ w = v

(* What each task finds in each page, and the shared segment the page is   *)
(* in: the frame that all who share it map.                                *)
mem == [t \in Task |-> [v \in Page |->
          IF pte[t][v].present THEN data[pte[t][v].f] ELSE NoFrame]]
seg == [t \in Task |-> [v \in Page |->
          IF pte[t][v].present /\ pte[t][v].sh THEN pte[t][v].f ELSE NoFrame]]

(* The tasks have the address spaces they were promised.                   *)
Spaces == INSTANCE AddressSpaces WITH Segment <- Frame, None <- NoFrame

ImplementsAddressSpaces == Spaces!Spec

(* mm.c:105: a frame that somebody else uses is not freed ("Alguien mas la *)
(* esta usando, no hay que borrarla").                                     *)
NoneFreedInUse == InUse \subseteq used
=============================================================================
