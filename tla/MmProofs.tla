------------------------------ MODULE MmProofs ------------------------------
(***************************************************************************)
(* Proofs, for any number of tasks, pages, frames and kernel pages, that   *)
(* the bitmap of Mm is exact and that who may store into a private page is *)
(* the only one to map its frame.  TablesInv, the inductive invariant,     *)
(* adds that dead tasks have no entries, that a frame is only ever mapped  *)
(* at one page number, which is why counting at one page number counts all *)
(* mappings, and that a present entry that is not copy on write may be     *)
(* written.  At the end SpacesInv adds what the shared bit says of the     *)
(* other mappings, and Mm is shown to implement AddressSpaces.             *)
(***************************************************************************)
EXTENDS Mm, FiniteSetTheorems, TLAPS

EntriesOK ==
  /\ pte \in [Task -> [Page -> Entry]]
  /\ \A t \in Task, v \in Page : pte[t][v].present <=> pte[t][v].f # NoFrame

DeadEmpty == \A t \in Task \ alive, v \in Page : pte[t][v] = NoEntry

SamePage ==
  \A t, u \in alive, v, w \in Page :
    pte[t][v].f # NoFrame /\ pte[t][v].f = pte[u][w].f => v = w

OwnedOrCow ==
  \A t \in alive, v \in Page : pte[t][v].present /\ ~pte[t][v].cow => pte[t][v].rw

TablesInv ==
  /\ alive \subseteq Task /\ used \subseteq Frame
  /\ EntriesOK
  /\ FramesExact
  /\ WritableAlone
  /\ DeadEmpty
  /\ SamePage
  /\ OwnedOrCow

(* What the records of entries are. *)
LEMMA Entries ==
  /\ NoEntry \in Entry /\ NoEntry.f = NoFrame /\ ~NoEntry.present
  /\ ~NoEntry.rw /\ ~NoEntry.sh /\ ~NoEntry.cow
  /\ \A f \in Frame : /\ Mapped(f) \in Entry /\ Mapped(f).f = f /\ Mapped(f).present
                      /\ Mapped(f).rw /\ ~Mapped(f).sh /\ ~Mapped(f).cow
  /\ \A e \in Entry : /\ COW(e) \in Entry /\ COW(e).f = e.f /\ COW(e).present = e.present
                      /\ COW(e).sh = e.sh
                      /\ ~e.sh => COW(e).cow /\ ~COW(e).rw
                      /\ e.sh => COW(e) = e
  /\ NoFrame \notin Frame
<1>1. NoFrame \notin Frame
  BY MmAssumption
<1> QED
  BY <1>1 DEF Entry, NoEntry, Mapped, COW

(* A task that gets a fresh frame at a page where it had none, or one that *)
(* others still map.                                                       *)
LEMMA MapFresh ==
  ASSUME TablesInv, NEW t \in Task, NEW v \in Page, NEW f \in Frame, f \notin used,
         alive' = alive \cup {t}, used' = used \cup {f},
         pte' = [pte EXCEPT ![t][v] = Mapped(f)],
         \/ pte[t][v].f = NoFrame
         \/ \E u \in alive \ {t} : pte[u][v].f = pte[t][v].f
  PROVE  TablesInv'
<1> USE Entries DEF TablesInv
<1>1. /\ pte' \in [Task -> [Page -> Entry]]
      /\ pte'[t][v] = Mapped(f)
      /\ \A u \in Task, w \in Page : u # t \/ w # v => pte'[u][w] = pte[u][w]
  BY DEF EntriesOK
<1>2. \A u \in Task, w \in Page : pte[u][w].f # f
  <2> SUFFICES ASSUME NEW u \in Task, NEW w \in Page, pte[u][w].f = f
               PROVE  FALSE
    OBVIOUS
  <2>1. CASE u \in alive
    BY <2>1 DEF FramesExact, InUse
  <2>2. CASE u \notin alive
    BY <2>2 DEF DeadEmpty
  <2> QED
    BY <2>1, <2>2
<1>3. EntriesOK'
  BY <1>1 DEF EntriesOK
<1>4. FramesExact'
  <2>1. ASSUME NEW g \in used'
        PROVE  \E u \in alive', w \in Page : pte'[u][w].f = g
    <3>1. CASE g = f
      BY <3>1, <1>1
    <3>2. CASE g # f
      <4>1. PICK u \in alive, w \in Page : pte[u][w].f = g
        BY <3>2 DEF FramesExact, InUse
      <4>2. CASE u # t \/ w # v
        BY <4>1, <4>2, <1>1
      <4>3. CASE u = t /\ w = v
        <5>1. g # NoFrame
          BY <3>2
        <5>2. PICK x \in alive \ {t} : pte[x][v].f = pte[t][v].f
          BY <5>1, <4>1, <4>3
        <5> QED
          BY <5>2, <4>1, <4>3, <1>1
      <4> QED
        BY <4>2, <4>3
    <3> QED
      BY <3>1, <3>2
  <2>2. ASSUME NEW g \in Frame, NEW u \in alive', NEW w \in Page, pte'[u][w].f = g
        PROVE  g \in used'
    <3>1. CASE u = t /\ w = v
      BY <3>1, <2>2, <1>1
    <3>2. CASE u \in alive /\ (u # t \/ w # v)
      BY <3>2, <2>2, <1>1 DEF FramesExact, InUse
    <3>3. CASE u \notin alive /\ (u # t \/ w # v)
      BY <3>3, <2>2, <1>1 DEF DeadEmpty
    <3> QED
      BY <3>1, <3>2, <3>3
  <2> QED
    BY <2>1, <2>2 DEF FramesExact, InUse
<1>5. DeadEmpty'
  BY <1>1 DEF DeadEmpty
<1>6. SamePage'
  BY <1>1, <1>2 DEF SamePage, DeadEmpty
<1>7. OwnedOrCow'
  BY <1>1 DEF OwnedOrCow, DeadEmpty
<1>8. WritableAlone'
  <2> SUFFICES ASSUME NEW u \in alive', NEW w \in Page,
                      pte'[u][w].present, pte'[u][w].rw, ~pte'[u][w].sh,
                      NEW x \in alive', NEW y \in Page, pte'[x][y].f = pte'[u][w].f
               PROVE  x = u /\ y = w
    BY DEF WritableAlone
  <2>1. CASE (u = t /\ w = v) \/ (x = t /\ y = v)
    BY <2>1, <1>1, <1>2
  <2>2. CASE (u # t \/ w # v) /\ (x # t \/ y # v)
    <3>1. /\ pte[u][w].present /\ pte[u][w].rw /\ ~pte[u][w].sh
          /\ pte[x][y].f = pte[u][w].f
      BY <2>2, <1>1
    <3>2. u \in alive /\ x \in alive
      BY <3>1 DEF DeadEmpty, EntriesOK
    <3> QED
      BY <3>1, <3>2 DEF WritableAlone
  <2> QED
    BY <2>1, <2>2
<1> QED
  BY <1>3, <1>4, <1>5, <1>6, <1>7, <1>8

(* The flags of one entry change.  It may become writable only when the    *)
(* task is the only one to map the frame, or was before.                   *)
LEMMA FlagStep ==
  ASSUME TablesInv, NEW t \in alive, NEW v \in Page, NEW e \in Entry,
         alive' = alive, used' = used,
         pte' = [pte EXCEPT ![t][v] = e],
         e.f = pte[t][v].f, e.present = pte[t][v].present,
         e.present /\ ~e.cow => e.rw,
         e.present /\ e.rw /\ ~e.sh =>
           (pte[t][v].rw /\ ~pte[t][v].sh) \/ Mappers(e.f, v) = {t}
  PROVE  TablesInv'
<1> USE DEF TablesInv
<1>1. /\ pte' \in [Task -> [Page -> Entry]]
      /\ pte'[t][v] = e
      /\ \A u \in Task, w \in Page : u # t \/ w # v => pte'[u][w] = pte[u][w]
      /\ \A u \in Task, w \in Page : /\ pte'[u][w].f = pte[u][w].f
                                     /\ pte'[u][w].present = pte[u][w].present
  BY DEF EntriesOK
<1>2. EntriesOK' /\ FramesExact' /\ DeadEmpty' /\ SamePage'
  BY <1>1 DEF EntriesOK, FramesExact, InUse, DeadEmpty, SamePage
<1>3. OwnedOrCow'
  BY <1>1 DEF OwnedOrCow
<1>4. WritableAlone'
  <2> SUFFICES ASSUME NEW u \in alive, NEW w \in Page,
                      pte'[u][w].present, pte'[u][w].rw, ~pte'[u][w].sh,
                      NEW x \in alive, NEW y \in Page, pte'[x][y].f = pte'[u][w].f
               PROVE  x = u /\ y = w
    BY DEF WritableAlone
  <2>1. /\ pte[u][w].present /\ pte[x][y].f = pte[u][w].f /\ pte[u][w].f # NoFrame
    BY <1>1 DEF EntriesOK
  <2>2. y = w
    BY <2>1 DEF SamePage
  <2>3. CASE pte[u][w].rw /\ ~pte[u][w].sh
    BY <2>1, <2>3 DEF WritableAlone
  <2>4. CASE ~(pte[u][w].rw /\ ~pte[u][w].sh)
    <3>1. u = t /\ w = v /\ Mappers(e.f, v) = {t}
      BY <2>4, <1>1
    <3> QED
      BY <3>1, <2>1, <2>2 DEF Mappers
  <2> QED
    BY <2>3, <2>4
<1> QED
  BY <1>2, <1>3, <1>4

(* What a fork of t into u makes of the entries when the child maps frame  *)
(* f as its stack: the parent's and the child's lose the right to write,   *)
(* unless they are shared.                                                 *)
Forked(t, u, f) ==
  /\ pte' \in [Task -> [Page -> Entry]]
  /\ \A w \in Task \ {t, u}, v \in Page : pte'[w][v] = pte[w][v]
  /\ \A v \in Page : /\ pte'[t][v].f = pte[t][v].f
                     /\ pte'[t][v].present = pte[t][v].present
                     /\ pte'[t][v].sh = pte[t][v].sh
                     /\ pte'[t][v].rw => pte[t][v].rw
                     /\ pte[t][v].present /\ ~pte[t][v].sh
                          => pte'[t][v].cow /\ ~pte'[t][v].rw
                     /\ pte[t][v].sh => pte'[t][v] = pte[t][v]
  /\ \A v \in Page : v # Stack => /\ pte'[u][v].f = pte[t][v].f
                                  /\ pte'[u][v].present = pte[t][v].present
                                  /\ pte[t][v].present => pte'[u][v] = pte'[t][v]
  /\ pte'[u][Stack] = Mapped(f) /\ Stack \in Page

(* The entries after sys_fork. *)
LEMMA ForkEntries ==
  ASSUME EntriesOK, NEW t \in Task, NEW u \in Task, t # u, NEW f \in Frame,
         pte' = [pte EXCEPT ![t] = mm_page_fork(t, Page), ![u] = Inherited(t, f)]
  PROVE  Forked(t, u, f)
<1>1. \A v \in Page : pte[t][v] \in Entry
  BY DEF EntriesOK
<1>2. mm_page_fork(t, Page) \in [Page -> Entry] /\ Inherited(t, f) \in [Page -> Entry]
  BY <1>1, Entries DEF mm_page_fork, Inherited
<1>3. /\ pte' \in [Task -> [Page -> Entry]]
      /\ pte'[t] = mm_page_fork(t, Page) /\ pte'[u] = Inherited(t, f)
      /\ \A w \in Task \ {t, u} : pte'[w] = pte[w]
  BY <1>2 DEF EntriesOK
<1>4. Stack \in Page
  BY MmAssumption DEF Stack, Page
<1>5. ASSUME NEW v \in Page
      PROVE  /\ pte'[t][v] = IF pte[t][v].present THEN COW(pte[t][v]) ELSE pte[t][v]
             /\ pte'[u][v] = IF v = Stack THEN Mapped(f)
                             ELSE IF pte[t][v].present THEN COW(pte[t][v]) ELSE NoEntry
  BY <1>3 DEF mm_page_fork, Inherited
<1>6. ASSUME NEW e \in Entry
      PROVE  COW(e).rw => e.rw
  BY <1>6 DEF Entry, COW
<1>7. \A v \in Page : /\ pte'[t][v].f = pte[t][v].f
                      /\ pte'[t][v].present = pte[t][v].present
                      /\ pte'[t][v].sh = pte[t][v].sh
                      /\ pte'[t][v].rw => pte[t][v].rw
                      /\ pte[t][v].present /\ ~pte[t][v].sh
                           => pte'[t][v].cow /\ ~pte'[t][v].rw
                      /\ pte[t][v].present => pte'[t][v] = COW(pte[t][v])
                      /\ pte[t][v].sh => pte'[t][v] = pte[t][v]
  <2> SUFFICES ASSUME NEW v \in Page
               PROVE  /\ pte'[t][v].f = pte[t][v].f
                      /\ pte'[t][v].present = pte[t][v].present
                      /\ pte'[t][v].sh = pte[t][v].sh
                      /\ pte'[t][v].rw => pte[t][v].rw
                      /\ pte[t][v].present /\ ~pte[t][v].sh
                           => pte'[t][v].cow /\ ~pte'[t][v].rw
                      /\ pte[t][v].present => pte'[t][v] = COW(pte[t][v])
                      /\ pte[t][v].sh => pte'[t][v] = pte[t][v]
    OBVIOUS
  <2>1. CASE pte[t][v].present
    <3>1. pte'[t][v] = COW(pte[t][v]) /\ pte[t][v] \in Entry
      BY <2>1, <1>1, <1>5
    <3>2. COW(pte[t][v]).rw => pte[t][v].rw
      BY <1>1, <1>6
    <3>3. /\ COW(pte[t][v]).f = pte[t][v].f
          /\ COW(pte[t][v]).present = pte[t][v].present
          /\ COW(pte[t][v]).sh = pte[t][v].sh
      BY <3>1, Entries
    <3>4. /\ ~pte[t][v].sh => COW(pte[t][v]).cow /\ ~COW(pte[t][v]).rw
          /\ pte[t][v].sh => COW(pte[t][v]) = pte[t][v]
      BY <3>1, Entries
    <3> QED
      BY <3>1, <3>2, <3>3, <3>4
  <2>2. CASE ~pte[t][v].present
    <3>1. pte'[t][v] = pte[t][v]
      BY <2>2, <1>5
    <3> QED
      BY <2>2, <3>1
  <2> QED
    BY <2>1, <2>2
<1>8. \A v \in Page : v # Stack => /\ pte'[u][v].f = pte[t][v].f
                                   /\ pte'[u][v].present = pte[t][v].present
                                   /\ pte[t][v].present => pte'[u][v] = pte'[t][v]
  <2> SUFFICES ASSUME NEW v \in Page, v # Stack
               PROVE  /\ pte'[u][v].f = pte[t][v].f
                      /\ pte'[u][v].present = pte[t][v].present
                      /\ pte[t][v].present => pte'[u][v] = pte'[t][v]
    OBVIOUS
  <2>1. CASE pte[t][v].present
    <3>1. pte'[u][v] = COW(pte[t][v]) /\ pte'[t][v] = COW(pte[t][v])
      BY <2>1, <1>5
    <3> QED
      BY <3>1, <1>7
  <2>2. CASE ~pte[t][v].present
    <3>1. pte[t][v].f = NoFrame /\ pte[t][v].present = FALSE
      BY <2>2, <1>1 DEF EntriesOK, Entry
    <3>2. pte'[u][v] = NoEntry
      BY <2>2, <1>5
    <3>3. NoEntry.f = NoFrame /\ NoEntry.present = FALSE
      BY DEF NoEntry
    <3> QED
      BY <2>2, <3>1, <3>2, <3>3
  <2> QED
    BY <2>1, <2>2
<1> QED
  BY <1>3, <1>4, <1>5, <1>7, <1>8 DEF Forked

(* After a fork nobody stores into what the parent had alone, and the      *)
(* child's stack is the only new mapping of a frame that was not in use.   *)
LEMMA ForkStep ==
  ASSUME TablesInv, NEW t \in alive, NEW u \in Task \ alive, NEW f \in Frame, f \notin used,
         alive' = alive \cup {u}, used' = used \cup {f}, Forked(t, u, f)
  PROVE  TablesInv'
<1> USE Entries DEF TablesInv
<1>2. /\ pte' \in [Task -> [Page -> Entry]]
      /\ \A w \in Task \ {t, u}, v \in Page : pte'[w][v] = pte[w][v]
  BY DEF Forked
<1>3. \A w \in alive, v \in Page : /\ pte'[w][v].f = pte[w][v].f
                                   /\ pte'[w][v].present = pte[w][v].present
                                   /\ pte'[w][v].sh = pte[w][v].sh
                                   /\ pte'[w][v].rw => pte[w][v].rw
                                   /\ w = t /\ pte'[w][v].present /\ ~pte'[w][v].sh
                                        => ~pte'[w][v].rw
  BY DEF Forked
<1>4. \A v \in Page : v # Stack => /\ pte'[u][v].f = pte[t][v].f
                                   /\ pte'[u][v].present = pte[t][v].present
                                   /\ pte'[u][v].present /\ ~pte'[u][v].sh => ~pte'[u][v].rw
  BY DEF Forked
<1>5. pte'[u][Stack] = Mapped(f) /\ Stack \in Page
  BY DEF Forked
<1>6. \A w \in alive, v \in Page : pte[w][v].f # f
  BY DEF FramesExact, InUse
<1>7. EntriesOK'
  <2> SUFFICES ASSUME NEW w \in Task, NEW v \in Page
               PROVE  pte'[w][v].present <=> pte'[w][v].f # NoFrame
    BY <1>2 DEF EntriesOK
  <2>1. CASE w = u
    BY <2>1, <1>4, <1>5 DEF EntriesOK
  <2>2. CASE w # u
    BY <2>2, <1>2, <1>3 DEF EntriesOK
  <2> QED
    BY <2>1, <2>2
<1>8. FramesExact'
  <2>1. ASSUME NEW g \in used'
        PROVE  \E w \in alive', v \in Page : pte'[w][v].f = g
    BY <2>1, <1>3, <1>5 DEF FramesExact, InUse
  <2>2. ASSUME NEW g \in Frame, NEW w \in alive', NEW v \in Page, pte'[w][v].f = g
        PROVE  g \in used'
    <3>1. CASE w \in alive
      BY <3>1, <2>2, <1>3 DEF FramesExact, InUse
    <3>2. CASE w = u /\ v = Stack
      BY <3>2, <2>2, <1>5
    <3>3. CASE w = u /\ v # Stack
      BY <3>3, <2>2, <1>4 DEF FramesExact, InUse
    <3> QED
      BY <3>1, <3>2, <3>3
  <2> QED
    BY <2>1, <2>2 DEF FramesExact, InUse
<1>9. DeadEmpty'
  BY <1>2 DEF DeadEmpty
<1>10. SamePage'
  <2> SUFFICES ASSUME NEW w \in alive', NEW x \in alive', NEW v \in Page, NEW y \in Page,
                      pte'[w][v].f # NoFrame, pte'[w][v].f = pte'[x][y].f
               PROVE  v = y
    BY DEF SamePage
  <2> DEFINE Old(z) == IF z = u THEN t ELSE z
  <2>1. CASE (w = u /\ v = Stack) \/ (x = u /\ y = Stack)
    BY <2>1, <1>3, <1>4, <1>5, <1>6
  <2>2. CASE ~((w = u /\ v = Stack) \/ (x = u /\ y = Stack))
    <3>1. Old(w) \in alive /\ Old(x) \in alive
      OBVIOUS
    <3>2. pte[Old(w)][v].f = pte'[w][v].f /\ pte[Old(x)][y].f = pte'[x][y].f
      BY <2>2, <1>3, <1>4
    <3> QED
      BY <3>1, <3>2 DEF SamePage
  <2> QED
    BY <2>1, <2>2
<1>11. OwnedOrCow'
  BY <1>2, <1>5 DEF OwnedOrCow, Forked
<1>12. WritableAlone'
  <2> SUFFICES ASSUME NEW w \in alive', NEW v \in Page,
                      pte'[w][v].present, pte'[w][v].rw, ~pte'[w][v].sh,
                      NEW x \in alive', NEW y \in Page, pte'[x][y].f = pte'[w][v].f
               PROVE  x = w /\ y = v
    BY DEF WritableAlone
  <2>1. CASE w = u
    BY <2>1, <1>3, <1>4, <1>5, <1>6
  <2>2. CASE w \in alive
    <3>1. w # t /\ pte[w][v].present /\ pte[w][v].rw /\ ~pte[w][v].sh
      BY <2>2, <1>3
    <3>2. CASE x \in alive
      BY <2>2, <3>1, <3>2, <1>3 DEF WritableAlone
    <3>3. CASE x = u
      BY <2>2, <3>1, <3>3, <1>3, <1>4, <1>5, <1>6 DEF WritableAlone
    <3> QED
      BY <3>2, <3>3
  <2> QED
    BY <2>1, <2>2
<1> QED
  BY <1>7, <1>8, <1>9, <1>10, <1>11, <1>12

(* Exit: counting the mappings at one page number is enough to free every  *)
(* frame nobody else has, and no other.                                    *)
LEMMA ExitStep ==
  ASSUME TablesInv, NEW t \in alive,
         alive' = alive \ {t}, used' = used \ Freed(t, Page),
         pte' = [pte EXCEPT ![t] = [v \in Page |-> NoEntry]]
  PROVE  TablesInv'
<1> USE Entries DEF TablesInv
<1>1. /\ pte' \in [Task -> [Page -> Entry]]
      /\ \A v \in Page : pte'[t][v] = NoEntry
      /\ \A u \in Task \ {t}, v \in Page : pte'[u][v] = pte[u][v]
  BY DEF EntriesOK
<1>2. EntriesOK' /\ DeadEmpty' /\ SamePage' /\ OwnedOrCow' /\ WritableAlone'
  BY <1>1 DEF EntriesOK, DeadEmpty, SamePage, OwnedOrCow, WritableAlone
<1>3. FramesExact'
  <2>1. ASSUME NEW g \in used, g \notin Freed(t, Page)
        PROVE  \E u \in alive \ {t}, v \in Page : pte[u][v].f = g
    <3>1. PICK x \in alive, w \in Page : pte[x][w].f = g
      BY <2>1 DEF FramesExact, InUse
    <3>2. CASE x = t
      <4>1. pte[t][w].present /\ g \in Frame
        BY <3>1, <3>2 DEF EntriesOK
      <4>2. ~(Mappers(g, w) \subseteq {t})
        BY <4>1, <3>1, <3>2, <2>1 DEF Freed
      <4> QED
        BY <4>2 DEF Mappers
    <3> QED
      BY <3>1, <3>2
  <2>2. ASSUME NEW g \in Frame, NEW u \in alive \ {t}, NEW w \in Page, pte[u][w].f = g
        PROVE  g \in used /\ g \notin Freed(t, Page)
    <3>1. g \in used
      BY <2>2 DEF FramesExact, InUse
    <3>2. ASSUME g \in Freed(t, Page)
          PROVE  FALSE
      <4>1. PICK v \in Page : /\ pte[t][v].present /\ pte[t][v].f = g
                              /\ pte[t][v].sh \/ pte[t][v].cow => Mappers(g, v) \subseteq {t}
        BY <3>2 DEF Freed
      <4>2. v = w
        BY <4>1, <2>2 DEF SamePage
      <4>3. ~pte[t][v].sh /\ ~pte[t][v].cow
        BY <4>1, <4>2, <2>2 DEF Mappers
      <4> QED
        BY <4>1, <4>3, <2>2 DEF OwnedOrCow, WritableAlone
    <3> QED
      BY <3>1, <3>2
  <2> QED
    BY <1>1, <2>1, <2>2 DEF FramesExact, InUse
<1> QED
  BY <1>2, <1>3

(* A frame that the search of the bitmap found was not in use. *)
LEMMA Fresh ==
  ASSUME NEW f \in Frame, page_frame_info_alloc(used, f)
  PROVE  f \notin used
BY MmAssumption DEF page_frame_info_alloc

(* The frame of an entry that is present. *)
LEMMA PresentFrame ==
  ASSUME EntriesOK, NEW t \in Task, NEW v \in Page, pte[t][v].present
  PROVE  pte[t][v].f \in Frame
BY DEF EntriesOK, Entry

(* mm_share_page, sys_palloc and the copy on write of a page nobody else   *)
(* has change the flags of one entry.                                      *)
LEMMA ShareStep ==
  ASSUME TablesInv, NEW t \in Task, NEW v \in Page, mm_share_page(t, v)
  PROVE  TablesInv'
<1> DEFINE e == [pte[t][v] EXCEPT !.sh = TRUE]
<1>1. pte[t][v] \in Entry
  BY DEF TablesInv, EntriesOK
<1>2. /\ e \in Entry /\ e.sh /\ e.f = pte[t][v].f /\ e.present = pte[t][v].present
      /\ e.cow = pte[t][v].cow /\ e.rw = pte[t][v].rw
  BY <1>1 DEF Entry
<1>3. pte' = [pte EXCEPT ![t][v] = e]
  BY DEF mm_share_page
<1>4. t \in alive /\ alive' = alive /\ used' = used
  BY DEF mm_share_page
<1>5. e.present /\ ~e.cow => e.rw
  BY <1>2, <1>4 DEF TablesInv, OwnedOrCow
<1> HIDE DEF e
<1> QED
  BY <1>2, <1>3, <1>4, <1>5, FlagStep

(* See ShareStep. *)
LEMMA PallocStep ==
  ASSUME TablesInv, NEW t \in Task, sys_palloc(t)
  PROVE  TablesInv'
<1> DEFINE e == [NoEntry EXCEPT !.rw = TRUE]
<1>1. PICK v \in Page : ~pte[t][v].present /\ pte' = [pte EXCEPT ![t][v] = e]
  BY DEF sys_palloc
<1>2. e \in Entry /\ e.f = NoFrame /\ e.present = FALSE
  BY DEF Entry, NoEntry
<1>3. t \in alive /\ alive' = alive /\ used' = used
  BY DEF sys_palloc
<1>4. pte[t][v].f = NoFrame /\ pte[t][v].present = FALSE
  BY <1>1 DEF TablesInv, EntriesOK, Entry
<1> HIDE DEF e
<1> QED
  BY <1>1, <1>2, <1>3, <1>4, FlagStep

(* A fault on a page that is copy on write gives the only mapper its frame *)
(* back and anyone else a fresh one.                                       *)
LEMMA CowStep ==
  ASSUME TablesInv, NEW t \in Task, NEW v \in Page, FaultCow(t, v)
  PROVE  TablesInv'
<1>1. t \in alive /\ alive' = alive /\ pte[t][v].present
  BY DEF FaultCow
<1>2. pte[t][v] \in Entry
  BY DEF TablesInv, EntriesOK
<1>3. CASE Mappers(pte[t][v].f, v) = {t}
  <2> DEFINE e == [pte[t][v] EXCEPT !.cow = FALSE, !.rw = TRUE]
  <2>1. /\ e \in Entry /\ e.rw /\ e.f = pte[t][v].f /\ e.present = pte[t][v].present
    BY <1>2 DEF Entry
  <2>2. used' = used /\ pte' = [pte EXCEPT ![t][v] = e]
    BY <1>3 DEF FaultCow, mm_copy_on_write_page
  <2> HIDE DEF e
  <2>3. Mappers(e.f, v) = {t}
    BY <2>1, <1>3
  <2> QED
    BY <1>1, <2>1, <2>2, <2>3, FlagStep
<1>4. CASE Mappers(pte[t][v].f, v) # {t}
  <2>1. PICK f \in Frame : /\ page_frame_info_alloc(used, f)
                           /\ used' = used \cup {f}
                           /\ pte' = [pte EXCEPT ![t][v] = Mapped(f)]
    BY <1>4 DEF FaultCow, mm_copy_on_write_page
  <2>2. \E u \in alive \ {t} : pte[u][v].f = pte[t][v].f
    BY <1>1, <1>4 DEF Mappers
  <2> QED
    BY <1>1, <2>1, <2>2, Fresh, MapFresh
<1> QED
  BY <1>3, <1>4

(* A fault on a page that was only requested maps a fresh frame, or the    *)
(* task exits.                                                             *)
LEMMA RequestedStep ==
  ASSUME TablesInv, NEW t \in Task, NEW v \in Page, FaultRequested(t, v)
  PROVE  TablesInv'
<1>1. CASE loader_exit(t)
  BY <1>1, ExitStep DEF loader_exit
<1>2. CASE ~loader_exit(t)
  <2>1. PICK f \in Frame : /\ page_frame_info_alloc(used, f)
                           /\ used' = used \cup {f}
                           /\ pte' = [pte EXCEPT ![t][v] = Mapped(f)]
    BY <1>2 DEF FaultRequested
  <2>2. t \in alive /\ alive' = alive /\ ~pte[t][v].present
    BY <1>2 DEF FaultRequested, Requested
  <2>3. pte[t][v].f = NoFrame
    BY <2>2 DEF TablesInv, EntriesOK
  <2>4. alive' = alive \cup {t}
    BY <2>2
  <2> QED
    BY <2>1, <2>3, <2>4, Fresh, MapFresh
<1> QED
  BY <1>1, <1>2

(* What holds of the tables after boot, *)
LEMMA TablesInit == Init => TablesInv
<1> SUFFICES ASSUME Init
             PROVE  TablesInv
  OBVIOUS
<1>1. EntriesOK
  BY Entries DEF Init, EntriesOK
<1> QED
  BY <1>1, Entries DEF Init, TablesInv, FramesExact, InUse, WritableAlone, DeadEmpty,
     SamePage, OwnedOrCow

(* and after every step. *)
LEMMA TablesStep == TablesInv /\ [Next]_vars => TablesInv'
<1> SUFFICES ASSUME TablesInv, [Next]_vars
             PROVE  TablesInv'
  OBVIOUS
<1>1. ASSUME NEW t \in Task, loader_load(t)
      PROVE  TablesInv'
  <2>1. PICK f \in Frame : /\ page_frame_info_alloc(used, f)
                           /\ used' = used \cup {f}
                           /\ pte' = [pte EXCEPT ![t][Stack] = Mapped(f)]
    BY <1>1 DEF loader_load
  <2>2. Stack \in Page
    BY MmAssumption DEF Stack, Page
  <2>3. pte[t][Stack].f = NoFrame /\ alive' = alive \cup {t}
    BY <1>1, <2>2, Entries DEF loader_load, TablesInv, DeadEmpty
  <2> QED
    BY <2>1, <2>2, <2>3, Fresh, MapFresh
<1>2. ASSUME NEW t \in Task, loader_exit(t)
      PROVE  TablesInv'
  BY <1>2, ExitStep DEF loader_exit
<1>3. ASSUME NEW t \in Task, sys_palloc(t)
      PROVE  TablesInv'
  BY <1>3, PallocStep
<1>4. ASSUME NEW t \in Task, NEW u \in Task, sys_fork(t, u)
      PROVE  TablesInv'
  <2>1. PICK f \in Frame :
          /\ page_frame_info_alloc(used, f)
          /\ used' = used \cup {f}
          /\ pte' = [pte EXCEPT ![t] = mm_page_fork(t, Page), ![u] = Inherited(t, f)]
    BY <1>4 DEF sys_fork
  <2>2. t \in alive /\ u \in Task \ alive /\ t # u /\ alive' = alive \cup {u}
    BY <1>4 DEF sys_fork
  <2>3. Forked(t, u, f)
    BY <2>1, <2>2, ForkEntries DEF TablesInv
  <2> QED
    BY <2>1, <2>2, <2>3, Fresh, ForkStep
<1>5. ASSUME NEW t \in Task, NEW v \in Page,
             mm_share_page(t, v) \/ FaultRequested(t, v) \/ FaultCow(t, v)
      PROVE  TablesInv'
  BY <1>5, ShareStep, RequestedStep, CowStep
<1>6. CASE UNCHANGED <<alive, pte, used>>
  BY <1>6 DEF TablesInv, EntriesOK, FramesExact, InUse, WritableAlone, DeadEmpty, SamePage,
     OwnedOrCow
<1> QED
  BY <1>1, <1>2, <1>3, <1>4, <1>5, <1>6 DEF Next, vars, UserStore, KernelStore

(* The tables are sound in every state. *)
THEOREM MmTables == Spec => []TablesInv
BY TablesInit, TablesStep, PTL DEF Spec

(* The bitmap says of every frame whether some task maps it: forks, faults *)
(* and exits in any order lose no frame and free none that is mapped.      *)
THEOREM MmFramesExact == Spec => []FramesExact
<1>1. TablesInv => FramesExact
  BY DEF TablesInv
<1> QED
  BY <1>1, MmTables, PTL

(* Who may store into a page that is not shared is the only one to map its *)
(* frame.                                                                  *)
THEOREM MmWritableAlone == Spec => []WritableAlone
<1>1. TablesInv => WritableAlone
  BY DEF TablesInv
<1> QED
  BY <1>1, MmTables, PTL

----------------------------------------------------------------------------
(* Every live task has a directory and its tables, so the kernel pages     *)
(* that are free are those the live tasks leave.                           *)
PoolOK ==
  /\ IsFiniteSet(alive) /\ kfree \in Nat
  /\ kfree + (1 + Tables) * Cardinality(alive) = KPages

(* A fork copies the parent's stack, which is there in every live task. *)
StackMapped == \A t \in alive : pte[t][Stack].present

DataOK == data \in [Frame -> Value \cup {Forgotten}]

(* No step takes a live task's stack away. *)
LEMMA StackStep == TablesInv /\ StackMapped /\ [Next]_vars => StackMapped'
<1> SUFFICES ASSUME TablesInv, StackMapped, [Next]_vars
             PROVE  StackMapped'
  OBVIOUS
<1> USE DEF StackMapped
<1>1. Stack \in Page /\ alive \subseteq Task /\ EntriesOK /\ pte \in [Task -> [Page -> Entry]]
  BY MmAssumption DEF Stack, Page, TablesInv, EntriesOK
<1>2. ASSUME NEW t \in Task, loader_load(t)
      PROVE  StackMapped'
  <2>1. PICK f \in Frame : pte' = [pte EXCEPT ![t][Stack] = Mapped(f)]
    BY <1>2 DEF loader_load
  <2>2. pte'[t][Stack].present /\ \A u \in Task \ {t} : pte'[u] = pte[u]
    BY <1>1, <2>1, Entries
  <2> QED
    BY <1>1, <1>2, <2>2 DEF loader_load
<1>3. ASSUME NEW t \in Task, loader_exit(t)
      PROVE  StackMapped'
  BY <1>1, <1>3 DEF loader_exit
<1>4. ASSUME NEW t \in Task, NEW u \in Task, sys_fork(t, u)
      PROVE  StackMapped'
  <2>1. PICK f \in Frame :
          pte' = [pte EXCEPT ![t] = mm_page_fork(t, Page), ![u] = Inherited(t, f)]
    BY <1>4 DEF sys_fork
  <2>2. t \in alive /\ t # u /\ alive' = alive \cup {u}
    BY <1>4 DEF sys_fork
  <2>3. Forked(t, u, f)
    BY <1>1, <2>1, <2>2, ForkEntries
  <2>4. /\ pte'[u][Stack].present
        /\ pte'[t][Stack].present = pte[t][Stack].present
        /\ \A w \in Task \ {t, u} : pte'[w][Stack] = pte[w][Stack]
    BY <1>1, <2>3, Entries DEF Forked
  <2> QED
    BY <1>1, <2>2, <2>4
<1>5. ASSUME NEW t \in Task, NEW v \in Page, NEW e \in Entry,
             alive' = alive, pte' = [pte EXCEPT ![t][v] = e],
             pte[t][v].present => e.present
      PROVE  StackMapped'
  <2>1. \A u \in Task : pte[u][Stack].present => pte'[u][Stack].present
    BY <1>1, <1>5
  <2> QED
    BY <1>1, <1>5, <2>1
<1>6. ASSUME NEW t \in Task, sys_palloc(t)
      PROVE  StackMapped'
  <2>1. PICK v \in Page : /\ ~pte[t][v].present
                          /\ pte' = [pte EXCEPT ![t][v] = [NoEntry EXCEPT !.rw = TRUE]]
    BY <1>6 DEF sys_palloc
  <2>2. [NoEntry EXCEPT !.rw = TRUE] \in Entry
    BY DEF Entry, NoEntry
  <2> QED
    BY <1>5, <1>6, <2>1, <2>2 DEF sys_palloc
<1>7. ASSUME NEW t \in Task, NEW v \in Page, mm_share_page(t, v)
      PROVE  StackMapped'
  <2> DEFINE e == [pte[t][v] EXCEPT !.sh = TRUE]
  <2>0. pte[t][v] \in Entry
    BY <1>1
  <2>1. e \in Entry /\ e.present = pte[t][v].present
    BY <2>0 DEF Entry
  <2>2. alive' = alive /\ pte' = [pte EXCEPT ![t][v] = e]
    BY <1>7 DEF mm_share_page
  <2> HIDE DEF e
  <2> QED
    BY <1>5, <2>1, <2>2
<1>8. ASSUME NEW t \in Task, NEW v \in Page, FaultRequested(t, v)
      PROVE  StackMapped'
  <2>1. CASE loader_exit(t)
    BY <1>3, <2>1
  <2>2. CASE ~loader_exit(t)
    <3>1. PICK f \in Frame : pte' = [pte EXCEPT ![t][v] = Mapped(f)]
      BY <1>8, <2>2 DEF FaultRequested
    <3>2. alive' = alive
      BY <1>8, <2>2 DEF FaultRequested
    <3> QED
      BY <1>5, <3>1, <3>2, Entries
  <2> QED
    BY <2>1, <2>2
<1>9. ASSUME NEW t \in Task, NEW v \in Page, FaultCow(t, v)
      PROVE  StackMapped'
  <2> DEFINE e == [pte[t][v] EXCEPT !.cow = FALSE, !.rw = TRUE]
  <2>0. pte[t][v] \in Entry
    BY <1>1
  <2>1. e \in Entry /\ e.present = pte[t][v].present
    BY <2>0 DEF Entry
  <2>2. alive' = alive
    BY <1>9 DEF FaultCow
  <2>3. \/ pte' = [pte EXCEPT ![t][v] = e]
        \/ \E f \in Frame : pte' = [pte EXCEPT ![t][v] = Mapped(f)]
    BY <1>9 DEF FaultCow, mm_copy_on_write_page
  <2> HIDE DEF e
  <2>4. CASE pte' = [pte EXCEPT ![t][v] = e]
    BY <1>5, <2>1, <2>2, <2>4
  <2>5. ASSUME NEW f \in Frame, pte' = [pte EXCEPT ![t][v] = Mapped(f)]
        PROVE  StackMapped'
    BY <1>5, <2>2, <2>5, Entries
  <2> QED
    BY <2>3, <2>4, <2>5
<1>10. CASE UNCHANGED <<alive, pte>>
  BY <1>10
<1> QED
  BY <1>2, <1>3, <1>4, <1>6, <1>7, <1>8, <1>9, <1>10 DEF Next, vars, UserStore, KernelStore

(* What the frames hold. *)
LEMMA DataStep == TablesInv /\ StackMapped /\ DataOK /\ [Next]_vars => DataOK'
<1> SUFFICES ASSUME TablesInv, EntriesOK, StackMapped, DataOK, [Next]_vars
             PROVE  DataOK'
  BY DEF TablesInv
<1>1. ASSUME NEW t \in Task, loader_load(t)
      PROVE  DataOK'
  BY <1>1 DEF loader_load, DataOK
<1>2. ASSUME NEW t \in Task, loader_exit(t)
      PROVE  DataOK'
  BY <1>2 DEF loader_exit, DataOK, Forget
<1>3. ASSUME NEW t \in Task, NEW u \in Task, sys_fork(t, u)
      PROVE  DataOK'
  <2>1. PICK f \in Frame : data' = [data EXCEPT ![f] = data[pte[t][Stack].f]]
    BY <1>3 DEF sys_fork
  <2>2. Stack \in Page /\ t \in alive /\ pte[t][Stack].present
    BY <1>3, MmAssumption DEF Stack, Page, sys_fork, StackMapped
  <2>3. pte[t][Stack].f \in Frame
    BY <2>2, PresentFrame
  <2> QED
    BY <2>1, <2>3 DEF DataOK
<1>4. ASSUME NEW t \in Task, NEW v \in Page, FaultRequested(t, v)
      PROVE  DataOK'
  BY <1>2, <1>4 DEF FaultRequested, DataOK
<1>5. ASSUME NEW t \in Task, NEW v \in Page, FaultCow(t, v)
      PROVE  DataOK'
  <2>1. pte[t][v].f \in Frame
    BY <1>5, PresentFrame DEF FaultCow
  <2>2. \/ data' = data
        \/ \E f \in Frame : data' = [data EXCEPT ![f] = data[pte[t][v].f]]
    BY <1>5 DEF FaultCow, mm_copy_on_write_page
  <2> QED
    BY <2>1, <2>2 DEF DataOK
<1>6. ASSUME NEW t \in Task, NEW v \in Page, NEW x \in Value,
             UserStore(t, v, x) \/ KernelStore(t, v, x)
      PROVE  DataOK'
  BY <1>6 DEF UserStore, KernelStore, DataOK
<1>7. CASE UNCHANGED data
  BY <1>7 DEF DataOK
<1> QED
  BY <1>1, <1>2, <1>3, <1>4, <1>5, <1>6, <1>7 DEF Next, vars, mm_share_page, sys_palloc

(* The pool of kernel pages when a task comes, *)
LEMMA PoolAdd ==
  ASSUME PoolOK, NEW t, t \notin alive, kfree >= 1 + Tables,
         kfree' = kfree - (1 + Tables), alive' = alive \cup {t}
  PROVE  PoolOK'
<1>1. IsFiniteSet(alive') /\ Cardinality(alive') = Cardinality(alive) + 1
  BY FS_AddElement DEF PoolOK
<1>2. Cardinality(alive) \in Nat
  BY FS_CardinalityType DEF PoolOK
<1> QED
  BY <1>1, <1>2, MmAssumption DEF PoolOK, Tables

(* and when one exits. *)
LEMMA PoolRemove ==
  ASSUME PoolOK, NEW t, loader_exit(t)
  PROVE  PoolOK'
<1>1. t \in alive /\ alive' = alive \ {t} /\ kfree' = kfree + 1 + Tables
  BY DEF loader_exit
<1>2. IsFiniteSet(alive') /\ Cardinality(alive') = Cardinality(alive) - 1
  BY <1>1, FS_RemoveElement DEF PoolOK
<1>3. Cardinality(alive) \in Nat
  BY FS_CardinalityType DEF PoolOK
<1> QED
  BY <1>1, <1>2, <1>3, MmAssumption DEF PoolOK, Tables

(* No step loses a kernel page or takes one that is not there. *)
LEMMA PoolStep == PoolOK /\ [Next]_vars => PoolOK'
<1> SUFFICES ASSUME PoolOK, [Next]_vars
             PROVE  PoolOK'
  OBVIOUS
<1>1. ASSUME NEW t \in Task, loader_load(t)
      PROVE  PoolOK'
  BY <1>1, PoolAdd DEF loader_load
<1>2. ASSUME NEW t \in Task, NEW u \in Task, sys_fork(t, u)
      PROVE  PoolOK'
  BY <1>2, PoolAdd DEF sys_fork
<1>3. ASSUME NEW t \in Task, loader_exit(t)
      PROVE  PoolOK'
  BY <1>3, PoolRemove
<1>4. ASSUME NEW t \in Task, NEW v \in Page, FaultRequested(t, v)
      PROVE  PoolOK'
  BY <1>3, <1>4 DEF FaultRequested, PoolOK
<1>5. CASE UNCHANGED <<alive, kfree>>
  BY <1>5 DEF PoolOK
<1> QED
  BY <1>1, <1>2, <1>3, <1>4, <1>5 DEF Next, vars, mm_share_page, sys_palloc, FaultCow,
     UserStore, KernelStore

(* The kernel pages that are free and those the live tasks hold are always *)
(* all of them: no exit and no fork loses one.                             *)
THEOREM MmPoolExact == Spec => []PoolOK
<1>1. Init => PoolOK
  BY FS_EmptySet, MmAssumption DEF Init, PoolOK, Tables
<1> QED
  BY <1>1, PoolStep, PTL DEF Spec

(* Types, and an entry is present exactly when it has a frame. *)
THEOREM MmTypes == Spec => []MmTypeOK
<1>1. Init => DataOK /\ StackMapped
  BY DEF Init, DataOK, StackMapped
<1>2. Spec => []StackMapped
  BY <1>1, StackStep, MmTables, PTL DEF Spec
<1>3. Spec => []DataOK
  BY <1>1, <1>2, DataStep, MmTables, PTL DEF Spec
<1>4. TablesInv /\ DataOK /\ PoolOK => MmTypeOK
  <2> SUFFICES ASSUME TablesInv, DataOK, PoolOK
               PROVE  MmTypeOK
    OBVIOUS
  <2>1. Cardinality(alive) \in Nat
    BY FS_CardinalityType DEF PoolOK
  <2>2. kfree \in 0 .. KPages
    BY <2>1, MmAssumption DEF PoolOK, Tables
  <2> QED
    BY <2>2 DEF TablesInv, EntriesOK, DataOK, MmTypeOK
<1> QED
  BY <1>3, <1>4, MmTables, MmPoolExact, PTL

----------------------------------------------------------------------------
(* That Mm keeps what AddressSpaces promises, when programs share pages of *)
(* their own and have system calls store into their stacks only.  What the *)
(* bits of the entries say of the mappings: a shared page is never copy on *)
(* write, all who map its frame share it, nobody else maps a task's stack, *)
(* and a page that is there has contents.                                  *)
SharedOwn == \A t \in Task, v \in Page : pte[t][v].present /\ pte[t][v].sh => ~pte[t][v].cow

SharedAll ==
  \A t, u \in Task, v \in Page :
    pte[t][v].present /\ pte[t][v].sh /\ pte[u][v].f = pte[t][v].f => pte[u][v].sh

StackAlone ==
  \A t, u \in Task :
    pte[t][Stack].present /\ pte[u][Stack].f = pte[t][Stack].f => u = t

DataHeld == \A t \in Task, v \in Page : pte[t][v].present => data[pte[t][v].f] \in Value

SharesInv == SharedOwn /\ SharedAll /\ StackAlone /\ DataHeld

(* Nobody maps a frame whose bit is clear. *)
LEMMA Unmapped ==
  ASSUME TablesInv, NEW f \in Frame, f \notin used, NEW t \in Task, NEW v \in Page
  PROVE  pte[t][v].f # f
<1>1. CASE t \in alive
  BY <1>1 DEF TablesInv, FramesExact, InUse
<1>2. CASE t \notin alive
  BY <1>2, Entries DEF TablesInv, DeadEmpty
<1> QED
  BY <1>1, <1>2

(* One entry changes. *)
LEMMA OneEntry ==
  ASSUME EntriesOK, NEW t \in Task, NEW v \in Page, NEW e \in Entry,
         pte' = [pte EXCEPT ![t][v] = e]
  PROVE  /\ pte'[t][v] = e
         /\ \A u \in Task, w \in Page : u # t \/ w # v => pte'[u][w] = pte[u][w]
BY DEF EntriesOK

(* An address space is what it is page by page. *)
LEMMA SameSpaces ==
  ASSUME NEW m, m = [t \in Task |-> m[t]],
         \A t \in Task : m[t] = [v \in Page |-> m[t][v]]
  PROVE  /\ (\A t \in Task, v \in Page :
               m[t][v] = IF pte'[t][v].present THEN data'[pte'[t][v].f] ELSE NoFrame)
              => mem' = m
         /\ (\A t \in Task, v \in Page :
               m[t][v] = IF pte'[t][v].present /\ pte'[t][v].sh THEN pte'[t][v].f ELSE NoFrame)
              => seg' = m
<1>1. ASSUME \A t \in Task, v \in Page :
               m[t][v] = IF pte'[t][v].present THEN data'[pte'[t][v].f] ELSE NoFrame
      PROVE  mem' = m
  <2>1. \A t \in Task : m[t] = [v \in Page |-> IF pte'[t][v].present
                                               THEN data'[pte'[t][v].f] ELSE NoFrame]
    BY <1>1
  <2> QED
    BY <2>1 DEF mem
<1>2. ASSUME \A t \in Task, v \in Page :
               m[t][v] = IF pte'[t][v].present /\ pte'[t][v].sh THEN pte'[t][v].f ELSE NoFrame
      PROVE  seg' = m
  <2>1. \A t \in Task : m[t] = [v \in Page |-> IF pte'[t][v].present /\ pte'[t][v].sh
                                               THEN pte'[t][v].f ELSE NoFrame]
    BY <1>2
  <2> QED
    BY <2>1 DEF seg
<1> QED
  BY <1>1, <1>2

(* The address spaces, page by page. *)
LEMMA Views ==
  /\ mem = [t \in Task |-> mem[t]] /\ seg = [t \in Task |-> seg[t]]
  /\ \A t \in Task : mem[t] = [v \in Page |-> mem[t][v]] /\ seg[t] = [v \in Page |-> seg[t][v]]
  /\ \A t \in Task, v \in Page :
       /\ mem[t][v] = IF pte[t][v].present THEN data[pte[t][v].f] ELSE NoFrame
       /\ seg[t][v] = IF pte[t][v].present /\ pte[t][v].sh THEN pte[t][v].f ELSE NoFrame
<1>1. ASSUME NEW t \in Task
      PROVE  /\ mem[t] = [v \in Page |-> IF pte[t][v].present THEN data[pte[t][v].f] ELSE NoFrame]
             /\ seg[t] = [v \in Page |-> IF pte[t][v].present /\ pte[t][v].sh
                                         THEN pte[t][v].f ELSE NoFrame]
  BY DEF mem, seg
<1>2. mem = [t \in Task |-> mem[t]] /\ seg = [t \in Task |-> seg[t]]
  BY DEF mem, seg
<1>3. \A t \in Task : mem[t] = [v \in Page |-> mem[t][v]] /\ seg[t] = [v \in Page |-> seg[t][v]]
  BY <1>1
<1>4. ASSUME NEW t \in Task, NEW v \in Page
      PROVE  /\ mem[t][v] = IF pte[t][v].present THEN data[pte[t][v].f] ELSE NoFrame
             /\ seg[t][v] = IF pte[t][v].present /\ pte[t][v].sh THEN pte[t][v].f ELSE NoFrame
  <2>1. mem[t] = [w \in Page |-> IF pte[t][w].present THEN data[pte[t][w].f] ELSE NoFrame]
    BY <1>1
  <2>2. seg[t] = [w \in Page |-> IF pte[t][w].present /\ pte[t][w].sh THEN pte[t][w].f ELSE NoFrame]
    BY <1>1
  <2>3. mem[t][v] = IF pte[t][v].present THEN data[pte[t][v].f] ELSE NoFrame
    BY <2>1
  <2>4. seg[t][v] = IF pte[t][v].present /\ pte[t][v].sh THEN pte[t][v].f ELSE NoFrame
    BY <2>2
  <2> QED BY <2>3, <2>4
<1> QED
  BY <1>2, <1>3, <1>4

(* m with x for page v of t.                                               *)
With(m, t, v, x) == [m EXCEPT ![t][v] = x]

(* To write what is already there changes nothing.                         *)
LEMMA SameEntry ==
  ASSUME NEW t \in Task, NEW v \in Page
  PROVE  With(mem, t, v, mem[t][v]) = mem /\ With(seg, t, v, seg[t][v]) = seg
<1>1. [mem[t] EXCEPT ![v] = mem[t][v]] = mem[t]
  BY Views
<1>2. With(mem, t, v, mem[t][v]) = mem
  BY <1>1, Views DEF With
<1>3. [seg[t] EXCEPT ![v] = seg[t][v]] = seg[t]
  BY Views
<1>4. With(seg, t, v, seg[t][v]) = seg
  BY <1>3, Views DEF With
<1> QED
  BY <1>2, <1>4

(* A fresh frame appears in one page.                                      *)
LEMMA FreshView ==
  ASSUME TablesInv, SharesInv, DataOK,
         NEW t \in Task, NEW v \in Page, NEW f \in Frame, f \notin used, NEW x \in Value,
         pte' = [pte EXCEPT ![t][v] = Mapped(f)], data' = [data EXCEPT ![f] = x]
  PROVE  /\ SharesInv'
         /\ mem' = With(mem, t, v, x)
         /\ seg' = With(seg, t, v, NoFrame)
<1>1. Mapped(f) \in Entry /\ EntriesOK
  BY Entries DEF TablesInv
<1>2. /\ pte'[t][v] = Mapped(f)
      /\ \A u \in Task, w \in Page : u # t \/ w # v => pte'[u][w] = pte[u][w]
  <2> DEFINE e == Mapped(f)
  <2>1. e \in Entry /\ pte' = [pte EXCEPT ![t][v] = e]
    BY <1>1
  <2> HIDE DEF e
  <2>2. /\ pte'[t][v] = e
        /\ \A u \in Task, w \in Page : u # t \/ w # v => pte'[u][w] = pte[u][w]
    BY <1>1, <2>1 DEF EntriesOK
  <2> QED BY <2>2 DEF e
<1>3. /\ Mapped(f).f = f /\ Mapped(f).present /\ Mapped(f).rw /\ ~Mapped(f).sh /\ ~Mapped(f).cow
  BY Entries
<1>4. \A u \in Task, w \in Page : pte[u][w].f # f
  BY Unmapped
<1>5. \A u \in Task, w \in Page : pte[u][w].present => pte[u][w].f \in Frame
  BY <1>1, PresentFrame
<1>6. data'[f] = x /\ \A g \in Frame \ {f} : data'[g] = data[g]
  BY DEF DataOK
<1>7. SharedOwn'
  BY <1>2, <1>3 DEF SharesInv, SharedOwn
<1>8. SharedAll'
  BY <1>2, <1>3, <1>4 DEF SharesInv, SharedAll
<1>9. StackAlone'
  BY <1>2, <1>3, <1>4, MmAssumption DEF SharesInv, StackAlone, Stack, Page
<1>10. DataHeld'
  BY <1>2, <1>3, <1>4, <1>5, <1>6 DEF SharesInv, DataHeld
<1>11. mem' = With(mem, t, v, x)
  <2> DEFINE m == [mem EXCEPT ![t][v] = x]
  <2>1. /\ m = [u \in Task |-> m[u]] /\ \A u \in Task : m[u] = [w \in Page |-> m[u][w]]
        /\ m[t][v] = x /\ \A u \in Task, w \in Page : u # t \/ w # v => m[u][w] = mem[u][w]
    BY Views
  <2>2. ASSUME NEW u \in Task, NEW w \in Page
        PROVE  m[u][w] = IF pte'[u][w].present THEN data'[pte'[u][w].f] ELSE NoFrame
    <3>1. CASE u = t /\ w = v
      BY <3>1, <2>1, <1>2, <1>3, <1>6
    <3>2. CASE u # t \/ w # v
      BY <3>2, <2>1, <1>2, <1>4, <1>5, <1>6, Views
    <3> QED
      BY <3>1, <3>2
  <2> HIDE DEF m
  <2>3. mem' = m
    BY <2>1, <2>2, SameSpaces
  <2> QED
    BY <2>3 DEF m, With
<1>12. seg' = With(seg, t, v, NoFrame)
  <2> DEFINE m == [seg EXCEPT ![t][v] = NoFrame]
  <2>1. /\ m = [u \in Task |-> m[u]] /\ \A u \in Task : m[u] = [w \in Page |-> m[u][w]]
        /\ m[t][v] = NoFrame /\ \A u \in Task, w \in Page : u # t \/ w # v => m[u][w] = seg[u][w]
    BY Views
  <2>2. ASSUME NEW u \in Task, NEW w \in Page
        PROVE  m[u][w] = IF pte'[u][w].present /\ pte'[u][w].sh THEN pte'[u][w].f ELSE NoFrame
    <3>1. CASE u = t /\ w = v
      BY <3>1, <2>1, <1>2, <1>3
    <3>2. CASE u # t \/ w # v
      BY <3>2, <2>1, <1>2, Views
    <3> QED
      BY <3>1, <3>2
  <2> HIDE DEF m
  <2>3. seg' = m
    BY <2>1, <2>2, SameSpaces
  <2> QED
    BY <2>3 DEF m, With
<1> QED
  BY <1>7, <1>8, <1>9, <1>10, <1>11, <1>12 DEF SharesInv

(* The flags of an entry change: contents stay, and the page may become a  *)
(* segment of its own.                                                     *)
LEMMA FlagView ==
  ASSUME TablesInv, SharesInv, NEW t \in Task, NEW v \in Page, NEW e \in Entry,
         pte' = [pte EXCEPT ![t][v] = e], data' = data,
         e.f = pte[t][v].f, e.present = pte[t][v].present,
         e.present /\ e.sh => ~e.cow,
         e.present => \/ e.sh = pte[t][v].sh
                      \/ \A u \in Task : pte[u][v].f = e.f => u = t
  PROVE  /\ SharesInv' /\ mem' = mem
         /\ seg' = With(seg, t, v, IF e.present /\ e.sh THEN e.f ELSE NoFrame)
<1>1. /\ pte'[t][v] = e
      /\ \A u \in Task, w \in Page : u # t \/ w # v => pte'[u][w] = pte[u][w]
  BY OneEntry DEF TablesInv
<1>2. \A u \in Task, w \in Page : /\ pte'[u][w].f = pte[u][w].f
                                  /\ pte'[u][w].present = pte[u][w].present
  BY <1>1
<1>3. SharedOwn'
  BY <1>1 DEF SharesInv, SharedOwn
<1>4. SharedAll'
  <2> SUFFICES ASSUME NEW y \in Task, NEW u \in Task, NEW w \in Page,
                      pte'[y][w].present, pte'[y][w].sh, pte'[u][w].f = pte'[y][w].f
               PROVE  pte'[u][w].sh
    BY DEF SharedAll
  <2>1. pte[y][w].present /\ pte[u][w].f = pte[y][w].f /\ pte[u][w].present
    BY <1>2 DEF TablesInv, EntriesOK
  <2>2. pte[y][w].sh => pte[u][w].sh
    BY <2>1 DEF SharesInv, SharedAll
  <2>3. pte[u][w].sh => pte[y][w].sh
    BY <2>1 DEF SharesInv, SharedAll
  <2>4. CASE u = y
    BY <2>4
  <2>5. CASE u # y /\ w = v /\ (u = t \/ y = t)
    <3>1. e.sh = pte[t][v].sh
      BY <2>1, <2>5, <1>2
    <3> QED
      BY <3>1, <2>2, <2>5, <1>1
  <2>6. CASE w # v \/ (u # t /\ y # t)
    BY <2>2, <2>6, <1>1
  <2> QED
    BY <2>4, <2>5, <2>6
<1>5. StackAlone' /\ DataHeld'
  <2>1. Stack \in Page
    BY MmAssumption DEF Stack, Page
  <2> QED
    BY <2>1, <1>2 DEF SharesInv, StackAlone, DataHeld
<1>6. mem' = mem
  <2>1. \A u \in Task, w \in Page :
          mem[u][w] = IF pte'[u][w].present THEN data'[pte'[u][w].f] ELSE NoFrame
    BY <1>2, Views
  <2> QED
    BY <2>1, Views, SameSpaces
<1>7. seg' = With(seg, t, v, IF e.present /\ e.sh THEN e.f ELSE NoFrame)
  <2> DEFINE s == IF e.present /\ e.sh THEN e.f ELSE NoFrame
             m == [seg EXCEPT ![t][v] = s]
  <2>1. /\ m = [u \in Task |-> m[u]] /\ \A u \in Task : m[u] = [w \in Page |-> m[u][w]]
        /\ m[t][v] = s /\ \A u \in Task, w \in Page : u # t \/ w # v => m[u][w] = seg[u][w]
    BY Views
  <2>2. ASSUME NEW u \in Task, NEW w \in Page
        PROVE  m[u][w] = IF pte'[u][w].present /\ pte'[u][w].sh THEN pte'[u][w].f ELSE NoFrame
    <3>1. CASE u = t /\ w = v
      BY <3>1, <2>1, <1>1
    <3>2. CASE u # t \/ w # v
      BY <3>2, <2>1, <1>1, Views
    <3> QED
      BY <3>1, <3>2
  <2> HIDE DEF m
  <2>3. seg' = m
    BY <2>1, <2>2, SameSpaces
  <2> QED
    BY <2>3 DEF m, With
<1> QED
  BY <1>3, <1>4, <1>5, <1>6, <1>7 DEF SharesInv

(* A fork gives the child what the parent has.                             *)
LEMMA ForkView ==
  ASSUME TablesInv, StackMapped, SharesInv, DataOK,
         NEW t \in alive, NEW u \in Task \ alive, NEW f \in Frame, f \notin used,
         Forked(t, u, f), data' = [data EXCEPT ![f] = data[pte[t][Stack].f]]
  PROVE  /\ SharesInv'
         /\ mem' = [mem EXCEPT ![u] = mem[t]]
         /\ seg' = [seg EXCEPT ![u] = [seg[t] EXCEPT ![Stack] = NoFrame]]
<1>1. /\ t \in Task /\ t # u /\ Stack \in Page /\ EntriesOK /\ pte[t][Stack].present
  BY MmAssumption DEF Stack, Page, TablesInv, StackMapped
<1>2. \A w \in Task \ {u}, v \in Page : /\ pte'[w][v].f = pte[w][v].f
                                        /\ pte'[w][v].present = pte[w][v].present
                                        /\ pte'[w][v].sh = pte[w][v].sh
                                        /\ pte[w][v].sh => pte'[w][v].cow = pte[w][v].cow
  BY DEF Forked
<1>3. \A v \in Page : v # Stack => /\ pte'[u][v].f = pte[t][v].f
                                   /\ pte'[u][v].present = pte[t][v].present
                                   /\ pte[t][v].present => pte'[u][v] = pte'[t][v]
  BY DEF Forked
<1>4. pte'[u][Stack] = Mapped(f)
  BY DEF Forked
<1>5. Mapped(f).f = f /\ Mapped(f).present /\ ~Mapped(f).sh /\ ~Mapped(f).cow
  BY Entries
<1>6. \A w \in Task, v \in Page : pte[w][v].f # f
  BY Unmapped
<1>7. \A w \in Task, v \in Page : pte[w][v].present => pte[w][v].f \in Frame
  BY <1>1, PresentFrame
<1>8. /\ data'[f] = data[pte[t][Stack].f]
      /\ \A g \in Frame \ {f} : data'[g] = data[g]
  BY DEF DataOK
<1>9. \A w \in Task, v \in Page : pte[w][v].present <=> pte[w][v].f # NoFrame
  BY <1>1 DEF EntriesOK
<1>10. SharedOwn'
  <2> SUFFICES ASSUME NEW w \in Task, NEW v \in Page, pte'[w][v].present, pte'[w][v].sh
               PROVE  ~pte'[w][v].cow
    BY DEF SharedOwn
  <2>1. ASSUME NEW z \in Task \ {u}, pte'[z][v].present, pte'[z][v].sh
        PROVE  ~pte'[z][v].cow
    BY <2>1, <1>2 DEF SharesInv, SharedOwn
  <2>2. CASE w = u /\ v = Stack
    BY <2>2, <1>4, <1>5
  <2>3. CASE w = u /\ v # Stack
    <3>1. pte'[u][v] = pte'[t][v]
      BY <2>3, <1>3
    <3> QED
      BY <3>1, <2>1, <2>3, <1>1
  <2> QED
    BY <2>1, <2>2, <2>3
<1> DEFINE Old(w) == IF w = u THEN t ELSE w
<1>11. \A w \in Task, v \in Page :
         w # u \/ v # Stack => /\ Old(w) \in Task \ {u}
                               /\ pte'[w][v].f = pte[Old(w)][v].f
                               /\ pte'[w][v].present = pte[Old(w)][v].present
                               /\ pte'[w][v].present => pte'[w][v].sh = pte[Old(w)][v].sh
  BY <1>1, <1>2, <1>3
<1>12. SharedAll'
  <2> SUFFICES ASSUME NEW y \in Task, NEW w \in Task, NEW v \in Page,
                      pte'[y][v].present, pte'[y][v].sh, pte'[w][v].f = pte'[y][v].f
               PROVE  pte'[w][v].sh
    BY DEF SharedAll
  <2>1. y # u \/ v # Stack
    BY <1>4, <1>5
  <2>2. w # u \/ v # Stack
    BY <2>1, <1>4, <1>5, <1>6, <1>11
  <2>3. /\ pte[Old(y)][v].present /\ pte[Old(y)][v].sh
        /\ pte[Old(w)][v].f = pte[Old(y)][v].f
    BY <2>1, <2>2, <1>11
  <2>4. pte[Old(w)][v].sh /\ pte[Old(w)][v].present
    BY <2>1, <2>2, <2>3, <1>9, <1>11 DEF SharesInv, SharedAll
  <2> QED
    BY <2>2, <2>4, <1>11
<1>13. StackAlone'
  <2> SUFFICES ASSUME NEW y \in Task, NEW w \in Task,
                      pte'[y][Stack].present, pte'[w][Stack].f = pte'[y][Stack].f
               PROVE  w = y
    BY DEF StackAlone
  <2>1. CASE y = u \/ w = u
    BY <2>1, <1>1, <1>2, <1>4, <1>5, <1>6
  <2>2. CASE y # u /\ w # u
    BY <2>2, <1>1, <1>2 DEF SharesInv, StackAlone
  <2> QED
    BY <2>1, <2>2
<1>14. ASSUME NEW w \in Task, NEW v \in Page, w # u \/ v # Stack
       PROVE  /\ data'[pte'[w][v].f] = data[pte[Old(w)][v].f] \/ ~pte'[w][v].present
              /\ pte'[w][v].present = pte[Old(w)][v].present
  BY <1>6, <1>7, <1>8, <1>11, <1>14
<1>15. DataHeld'
  <2> SUFFICES ASSUME NEW w \in Task, NEW v \in Page, pte'[w][v].present
               PROVE  data'[pte'[w][v].f] \in Value
    BY DEF DataHeld
  <2>1. CASE w = u /\ v = Stack
    BY <2>1, <1>1, <1>4, <1>5, <1>8 DEF SharesInv, DataHeld
  <2>2. CASE w # u \/ v # Stack
    <3>1. Old(w) \in Task
      BY <1>1
    <3> QED
      BY <3>1, <2>2, <1>14 DEF SharesInv, DataHeld
  <2> QED
    BY <2>1, <2>2
<1>16. mem' = [mem EXCEPT ![u] = mem[t]]
  <2> DEFINE m == [mem EXCEPT ![u] = mem[t]]
  <2>0. m = [w \in Task |-> m[w]] /\ \A w \in Task : m[w] = mem[Old(w)]
    BY Views, <1>1
  <2> HIDE DEF m
  <2>1. /\ m = [w \in Task |-> m[w]] /\ \A w \in Task : m[w] = [v \in Page |-> m[w][v]]
        /\ \A w \in Task : m[w] = mem[Old(w)]
    <3>1. \A w \in Task : mem[Old(w)] = [v \in Page |-> mem[Old(w)][v]]
      BY Views, <1>1
    <3> QED
      BY <2>0, <3>1
  <2>2. ASSUME NEW w \in Task, NEW v \in Page
        PROVE  m[w][v] = IF pte'[w][v].present THEN data'[pte'[w][v].f] ELSE NoFrame
    <3>0. Old(w) \in Task /\ m[w][v] = mem[Old(w)][v]
      BY <1>1, <2>1
    <3>1. CASE w = u /\ v = Stack
      <4>1. mem[t][Stack] = data[pte[t][Stack].f]
        BY <1>1, Views
      <4> QED
        BY <4>1, <3>0, <3>1, <1>4, <1>5, <1>8
    <3>2. CASE w # u \/ v # Stack
      <4>1. mem[Old(w)][v] = IF pte[Old(w)][v].present
                             THEN data[pte[Old(w)][v].f] ELSE NoFrame
        BY <3>0, Views
      <4> QED
        BY <4>1, <3>0, <3>2, <1>14
    <3> QED
      BY <3>1, <3>2
  <2>3. mem' = m
    BY <2>1, <2>2, SameSpaces
  <2> QED
    BY <2>3 DEF m
<1>17. seg' = [seg EXCEPT ![u] = [seg[t] EXCEPT ![Stack] = NoFrame]]
  <2> DEFINE own == [seg[t] EXCEPT ![Stack] = NoFrame]
             m == [seg EXCEPT ![u] = own]
  <2>1. /\ own = [v \in Page |-> own[v]] /\ own[Stack] = NoFrame
        /\ \A v \in Page : v # Stack => own[v] = seg[t][v]
    BY Views, <1>1
  <2> HIDE DEF own
  <2>2. /\ m = [w \in Task |-> m[w]]
        /\ m[u] = own /\ \A w \in Task : w # u => m[w] = seg[w]
    BY Views
  <2>3. \A w \in Task : m[w] = [v \in Page |-> m[w][v]]
    BY <2>1, <2>2, Views
  <2> HIDE DEF m
  <2>4. ASSUME NEW w \in Task, NEW v \in Page
        PROVE  m[w][v] = IF pte'[w][v].present /\ pte'[w][v].sh THEN pte'[w][v].f ELSE NoFrame
    <3>0. Old(w) \in Task
      BY <1>1
    <3>1. CASE w = u /\ v = Stack
      BY <3>1, <2>1, <2>2, <1>4, <1>5
    <3>2. CASE w # u \/ v # Stack
      <4>1. m[w][v] = seg[Old(w)][v]
        BY <3>2, <2>1, <2>2
      <4>2. seg[Old(w)][v] = IF pte[Old(w)][v].present /\ pte[Old(w)][v].sh
                             THEN pte[Old(w)][v].f ELSE NoFrame
        BY <3>0, Views
      <4> QED
        BY <4>1, <4>2, <3>2, <1>11
    <3> QED
      BY <3>1, <3>2
  <2>5. seg' = m
    BY <2>2, <2>3, <2>4, SameSpaces
  <2> QED
    BY <2>5 DEF m, own
<1> QED
  BY <1>10, <1>12, <1>13, <1>15, <1>16, <1>17 DEF SharesInv

(* The address space of a task that has no entries. *)
Nothing == [v \in Page |-> NoFrame]

(* An exit empties one address space and leaves the others alone: no frame *)
(* that it frees is mapped by somebody else.                               *)
LEMMA ExitView ==
  ASSUME TablesInv, TablesInv', SharesInv, NEW t \in Task, loader_exit(t)
  PROVE  /\ SharesInv'
         /\ mem' = [mem EXCEPT ![t] = Nothing]
         /\ seg' = [seg EXCEPT ![t] = Nothing]
<1>1. /\ EntriesOK /\ pte' = [pte EXCEPT ![t] = [v \in Page |-> NoEntry]]
      /\ used' = used \ Freed(t, Page) /\ data' = Forget(Freed(t, Page))
      /\ alive' = alive \ {t}
  BY DEF loader_exit, TablesInv
<1>2. /\ \A v \in Page : pte'[t][v] = NoEntry
      /\ \A u \in Task \ {t} : pte'[u] = pte[u]
  BY <1>1 DEF EntriesOK
<1>3. ~NoEntry.present /\ ~NoEntry.sh /\ NoEntry.f = NoFrame
  BY Entries
<1>4. ASSUME NEW u \in Task \ {t}, NEW v \in Page, pte[u][v].present
      PROVE  data'[pte[u][v].f] = data[pte[u][v].f]
  <2>1. pte[u][v].f \in Frame
    BY <1>1, <1>4, PresentFrame
  <2>2. u \in alive
    BY <1>3, <1>4 DEF TablesInv, DeadEmpty
  <2>3. pte[u][v].f \in used'
    <3>1. FramesExact'
      BY DEF TablesInv
    <3>2. used' = {g \in Frame : \E y \in alive', w \in Page : pte'[y][w].f = g}
      BY <3>1 DEF FramesExact, InUse
    <3>3. u \in alive' /\ pte'[u][v].f = pte[u][v].f
      BY <2>2, <1>1, <1>2
    <3> QED
      BY <3>2, <3>3, <2>1
  <2>4. pte[u][v].f \notin Freed(t, Page)
    BY <2>3, <1>1
  <2> QED
    BY <2>1, <2>4, <1>1 DEF Forget
<1>5. SharedOwn'
  BY <1>2, <1>3 DEF SharesInv, SharedOwn
<1>6. SharedAll'
  <2> SUFFICES ASSUME NEW y \in Task, NEW u \in Task, NEW v \in Page,
                      pte'[y][v].present, pte'[y][v].sh, pte'[u][v].f = pte'[y][v].f
               PROVE  pte'[u][v].sh
    BY DEF SharedAll
  <2>1. y # t /\ pte[y][v].present /\ pte[y][v].sh
    BY <1>2, <1>3
  <2>2. pte[y][v].f # NoFrame
    BY <2>1, <1>1 DEF EntriesOK
  <2>3. u # t
    BY <2>1, <2>2, <1>2, <1>3
  <2> QED
    BY <2>1, <2>3, <1>2 DEF SharesInv, SharedAll
<1>7. StackAlone'
  <2>1. Stack \in Page
    BY MmAssumption DEF Stack, Page
  <2> SUFFICES ASSUME NEW y \in Task, NEW u \in Task,
                      pte'[y][Stack].present, pte'[u][Stack].f = pte'[y][Stack].f
               PROVE  u = y
    BY DEF StackAlone
  <2>2. y # t /\ pte[y][Stack].present
    BY <2>1, <1>2, <1>3
  <2>3. pte[y][Stack].f # NoFrame
    BY <2>1, <2>2, <1>1 DEF EntriesOK
  <2>4. u # t
    BY <2>1, <2>2, <2>3, <1>2, <1>3
  <2> QED
    BY <2>2, <2>4, <1>2 DEF SharesInv, StackAlone
<1>8. DataHeld'
  BY <1>2, <1>3, <1>4 DEF SharesInv, DataHeld
<1>9. mem' = [mem EXCEPT ![t] = Nothing]
  <2> DEFINE m == [mem EXCEPT ![t] = Nothing]
  <2>1. /\ m = [u \in Task |-> m[u]] /\ \A u \in Task : m[u] = [v \in Page |-> m[u][v]]
        /\ \A v \in Page : m[t][v] = NoFrame
        /\ \A u \in Task : u # t => m[u] = mem[u]
    BY Views DEF Nothing
  <2> HIDE DEF m
  <2>2. ASSUME NEW u \in Task, NEW v \in Page
        PROVE  m[u][v] = IF pte'[u][v].present THEN data'[pte'[u][v].f] ELSE NoFrame
    <3>1. CASE u = t
      BY <3>1, <2>1, <1>2, <1>3
    <3>2. CASE u # t
      BY <3>2, <2>1, <1>2, <1>4, Views
    <3> QED
      BY <3>1, <3>2
  <2>3. mem' = m
    BY <2>1, <2>2, SameSpaces
  <2> QED
    BY <2>3 DEF m
<1>10. seg' = [seg EXCEPT ![t] = Nothing]
  <2> DEFINE m == [seg EXCEPT ![t] = Nothing]
  <2>1. /\ m = [u \in Task |-> m[u]] /\ \A u \in Task : m[u] = [v \in Page |-> m[u][v]]
        /\ \A v \in Page : m[t][v] = NoFrame
        /\ \A u \in Task : u # t => m[u] = seg[u]
    BY Views DEF Nothing
  <2> HIDE DEF m
  <2>2. ASSUME NEW u \in Task, NEW v \in Page
        PROVE  m[u][v] = IF pte'[u][v].present /\ pte'[u][v].sh THEN pte'[u][v].f ELSE NoFrame
    <3>1. CASE u = t
      BY <3>1, <2>1, <1>2, <1>3
    <3>2. CASE u # t
      BY <3>2, <2>1, <1>2, Views
    <3> QED
      BY <3>1, <3>2
  <2>3. seg' = m
    BY <2>1, <2>2, SameSpaces
  <2> QED
    BY <2>3 DEF m
<1> QED
  BY <1>5, <1>6, <1>7, <1>8, <1>9, <1>10 DEF SharesInv

(* A store is seen by the task that made it and by those that have the     *)
(* page in the same segment, when the page is shared or nobody else maps   *)
(* its frame.                                                              *)
LEMMA StoreView ==
  ASSUME TablesInv, SharesInv, DataOK, NEW t \in Task, NEW v \in Page, NEW x \in Value,
         pte[t][v].present, pte' = pte, data' = [data EXCEPT ![pte[t][v].f] = x],
         ~pte[t][v].sh => \A u \in Task : pte[u][v].f = pte[t][v].f => u = t
  PROVE  SharesInv' /\ Spaces!Store(t, v, x)
<1> DEFINE f == pte[t][v].f
<1>1. EntriesOK /\ f \in Frame
  BY PresentFrame DEF TablesInv
<1>2. data'[f] = x /\ \A g \in Frame \ {f} : data'[g] = data[g]
  BY <1>1 DEF DataOK
<1>3. \A u \in Task, w \in Page : pte[u][w].present => pte[u][w].f \in Frame
  BY <1>1, PresentFrame
<1>4. SharesInv'
  <2>1. SharedOwn' /\ SharedAll' /\ StackAlone'
    BY DEF SharesInv, SharedOwn, SharedAll, StackAlone
  <2>2. DataHeld'
    BY <1>2, <1>3 DEF SharesInv, DataHeld
  <2> QED
    BY <2>1, <2>2 DEF SharesInv
<1>5. \A u \in Task, w \in Page : pte[u][w].f = f => w = v /\ u \in alive
  <2> SUFFICES ASSUME NEW u \in Task, NEW w \in Page, pte[u][w].f = f
               PROVE  w = v /\ u \in alive
    OBVIOUS
  <2>1. f # NoFrame
    BY <1>1, Entries
  <2>2. u \in alive /\ t \in alive
    BY <2>1, Entries DEF TablesInv, DeadEmpty
  <2> QED
    BY <2>1, <2>2 DEF TablesInv, SamePage
<1>6. \A u \in Task : Spaces!Sees(u, t, v) <=> pte[u][v].f = f
  <2> SUFFICES ASSUME NEW u \in Task
               PROVE  Spaces!Sees(u, t, v) <=> pte[u][v].f = f
    OBVIOUS
  <2>1. seg[t][v] = IF pte[t][v].sh THEN f ELSE NoFrame
    BY Views
  <2>2. seg[u][v] = IF pte[u][v].present /\ pte[u][v].sh THEN pte[u][v].f ELSE NoFrame
    BY Views
  <2>3. f # NoFrame
    BY <1>1, Entries
  <2>4. CASE pte[t][v].sh
    <3>1. pte[u][v].f = f => pte[u][v].sh /\ pte[u][v].present
      BY <2>3, <2>4, <1>1 DEF SharesInv, SharedAll, EntriesOK
    <3> QED
      BY <3>1, <2>1, <2>2, <2>3, <2>4 DEF Spaces!Sees
  <2>5. CASE ~pte[t][v].sh
    BY <2>1, <2>5 DEF Spaces!Sees
  <2> QED
    BY <2>4, <2>5
<1>7. mem[t][v] # NoFrame
  BY Views, MmAssumption DEF SharesInv, DataHeld
<1>8. seg' = seg
  BY DEF seg
<1>9. mem' = [u \in Task |-> IF Spaces!Sees(u, t, v) THEN [mem[u] EXCEPT ![v] = x] ELSE mem[u]]
  <2> DEFINE m == [u \in Task |-> IF pte[u][v].f = f THEN [mem[u] EXCEPT ![v] = x] ELSE mem[u]]
  <2>1. m = [u \in Task |-> m[u]]
    OBVIOUS
  <2>2. ASSUME NEW u \in Task
        PROVE  /\ m[u] = [w \in Page |-> m[u][w]]
               /\ \A w \in Page : m[u][w] = IF pte[u][v].f = f /\ w = v THEN x ELSE mem[u][w]
    <3>1. mem[u] = [w \in Page |-> mem[u][w]]
      BY Views
    <3>2. m[u] = IF pte[u][v].f = f THEN [mem[u] EXCEPT ![v] = x] ELSE mem[u]
      OBVIOUS
    <3> HIDE DEF m
    <3> QED
      BY <3>1, <3>2
  <2>3. m = [u \in Task |-> IF Spaces!Sees(u, t, v) THEN [mem[u] EXCEPT ![v] = x] ELSE mem[u]]
    BY <1>6
  <2> HIDE DEF m
  <2>4. ASSUME NEW u \in Task, NEW w \in Page
        PROVE  m[u][w] = IF pte'[u][w].present THEN data'[pte'[u][w].f] ELSE NoFrame
    <3>1. CASE pte[u][v].f = f /\ w = v
      <4>1. pte[u][v].present
        BY <3>1, <1>1, Entries DEF EntriesOK
      <4> QED
        BY <4>1, <3>1, <2>2, <1>2
    <3>2. CASE ~(pte[u][v].f = f /\ w = v)
      <4>1. pte[u][w].f # f
        BY <3>2, <1>5
      <4>2. m[u][w] = mem[u][w]
        BY <3>2, <2>2
      <4>3. mem[u][w] = IF pte[u][w].present THEN data[pte[u][w].f] ELSE NoFrame
        BY Views
      <4>4. pte[u][w].present => data'[pte[u][w].f] = data[pte[u][w].f]
        BY <4>1, <1>2, <1>3
      <4>5. m[u][w] = IF pte[u][w].present THEN data'[pte[u][w].f] ELSE NoFrame
        BY <4>2, <4>3, <4>4
      <4>6. pte' = pte
        OBVIOUS
      <4> HIDE DEF f
      <4> QED
        BY <4>5, <4>6
    <3> QED
      BY <3>1, <3>2
  <2>5. mem' = m
    BY <2>1, <2>2, <2>4, SameSpaces
  <2> QED
    BY <2>3, <2>5
<1> QED
  BY <1>4, <1>7, <1>8, <1>9 DEF Spaces!Store

SpacesInv == TablesInv /\ StackMapped /\ DataOK /\ SharesInv

(* Every step keeps the invariant and is one of AddressSpaces, or leaves   *)
(* all address spaces as they are.                                         *)
LEMMA SpacesStep ==
  ASSUME ShareAny = FALSE, Buffers \subseteq {Stack}, SpacesInv, [Next]_vars
  PROVE  SharesInv' /\ [Spaces!Next]_<<mem, seg>>
<1> USE DEF SpacesInv
<1>0. /\ EntriesOK /\ alive \subseteq Task /\ Stack \in Page
      /\ NoFrame \notin Value /\ NoFrame \notin Frame /\ TablesInv'
  BY TablesStep, MmAssumption DEF TablesInv, Stack, Page
<1>1. \A t \in Task \ alive, v \in Page : mem[t][v] = NoFrame /\ seg[t][v] = NoFrame
  BY Views, Entries DEF TablesInv, DeadEmpty
<1>2. \A t \in Task \ alive : mem[t] = Spaces!Nothing /\ seg[t] = Spaces!Nothing
  BY <1>1, Views DEF Spaces!Nothing
<1>3. \A t \in alive : mem[t] # Spaces!Nothing
  <2> SUFFICES ASSUME NEW t \in alive
               PROVE  mem[t][Stack] # NoFrame
    BY <1>0 DEF Spaces!Nothing
  <2>1. t \in Task /\ pte[t][Stack].present
    BY <1>0 DEF StackMapped
  <2> QED
    BY <2>1, <1>0, Views DEF SharesInv, DataHeld
<1>4. ASSUME NEW t \in Task, loader_load(t)
      PROVE  SharesInv' /\ Spaces!Load(t)
  <2>1. PICK f \in Frame, x \in Value :
          /\ page_frame_info_alloc(used, f)
          /\ pte' = [pte EXCEPT ![t][Stack] = Mapped(f)]
          /\ data' = [data EXCEPT ![f] = x]
    BY <1>4 DEF loader_load
  <2>2. f \notin used
    BY <2>1, Fresh
  <2>3. /\ SharesInv' /\ mem' = With(mem, t, Stack, x)
        /\ seg' = With(seg, t, Stack, NoFrame)
    <3>1. SharesInv'
      BY <2>1, <2>2, <1>0, FreshView
    <3>2. mem' = With(mem, t, Stack, x)
      BY <2>1, <2>2, <1>0, FreshView
    <3>3. seg' = With(seg, t, Stack, NoFrame)
      BY <2>1, <2>2, <1>0, FreshView
    <3> QED
      BY <3>1, <3>2, <3>3
  <2>4. t \in Task \ alive
    BY <1>4 DEF loader_load
  <2>5. seg' = seg
    <3>1. seg[t][Stack] = NoFrame
      BY <2>4, <1>0, <1>1
    <3> QED
      BY <2>3, <3>1, <1>0, SameEntry
  <2>6. mem[t] = Spaces!Nothing
    BY <2>4, <1>2
  <2> DEFINE start == [mem[t] EXCEPT ![Stack] = x]
  <2>7. mem' = [mem EXCEPT ![t] = start]
    BY <2>3 DEF With
  <2>8. start \in [Page -> Value \cup {NoFrame}]
    BY <2>6 DEF Spaces!Nothing
  <2> HIDE DEF start
  <2> QED
    BY <2>3, <2>5, <2>6, <2>7, <2>8 DEF Spaces!Load
<1>5. ASSUME NEW t \in Task, loader_exit(t)
      PROVE  SharesInv' /\ Spaces!Exit(t)
  <2>1. /\ SharesInv' /\ mem' = [mem EXCEPT ![t] = Nothing]
        /\ seg' = [seg EXCEPT ![t] = Nothing]
    BY <1>0, <1>5, ExitView
  <2>2. mem[t] # Spaces!Nothing
    BY <1>3, <1>5 DEF loader_exit
  <2> QED
    BY <2>1, <2>2 DEF Nothing, Spaces!Nothing, Spaces!Exit
<1>6. ASSUME NEW t \in Task, sys_palloc(t)
      PROVE  SharesInv' /\ mem' = mem /\ seg' = seg
  <2> DEFINE e == [NoEntry EXCEPT !.rw = TRUE]
  <2>1. PICK v \in Page : ~pte[t][v].present /\ pte' = [pte EXCEPT ![t][v] = e]
    BY <1>6 DEF sys_palloc
  <2>2. e \in Entry /\ e.f = NoFrame /\ e.present = FALSE
    BY DEF Entry, NoEntry
  <2>3. pte[t][v].f = NoFrame /\ pte[t][v].present = FALSE
    BY <2>1, <1>0 DEF EntriesOK, Entry
  <2>4. data' = data
    BY <1>6 DEF sys_palloc
  <2> HIDE DEF e
  <2>5. /\ SharesInv' /\ mem' = mem
        /\ seg' = With(seg, t, v, IF e.present /\ e.sh THEN e.f ELSE NoFrame)
    BY <2>1, <2>2, <2>3, <2>4, FlagView
  <2>6. seg[t][v] = NoFrame
    BY <2>3, Views
  <2>7. seg' = seg
    <3>1. seg' = With(seg, t, v, NoFrame)
      BY <2>2, <2>5
    <3> QED
      BY <2>6, <3>1, SameEntry
  <2> QED
    BY <2>5, <2>7
<1>7. ASSUME NEW t \in Task, NEW u \in Task, sys_fork(t, u)
      PROVE  SharesInv' /\ Spaces!Fork(t, u)
  <2>1. PICK f \in Frame :
          /\ page_frame_info_alloc(used, f)
          /\ pte' = [pte EXCEPT ![t] = mm_page_fork(t, Page), ![u] = Inherited(t, f)]
          /\ data' = [data EXCEPT ![f] = data[pte[t][Stack].f]]
    BY <1>7 DEF sys_fork
  <2>2. t \in alive /\ u \in Task \ alive /\ t # u
    BY <1>7 DEF sys_fork
  <2>3. f \notin used
    BY <2>1, Fresh
  <2>4. Forked(t, u, f)
    BY <2>1, <2>2, <1>0, ForkEntries
  <2>5. /\ SharesInv' /\ mem' = [mem EXCEPT ![u] = mem[t]]
        /\ seg' = [seg EXCEPT ![u] = [seg[t] EXCEPT ![Stack] = NoFrame]]
    BY <2>1, <2>2, <2>3, <2>4, ForkView
  <2> QED
    BY <2>2, <2>5, <1>2, <1>3 DEF Spaces!Fork
<1>8. ASSUME NEW t \in Task, NEW v \in Page, mm_share_page(t, v)
      PROVE  SharesInv' /\ (Spaces!Share(t, v) \/ (mem' = mem /\ seg' = seg))
  <2> DEFINE e == [pte[t][v] EXCEPT !.sh = TRUE]
  <2>1. /\ t \in alive /\ pte[t][v].present /\ ~pte[t][v].cow
        /\ pte' = [pte EXCEPT ![t][v] = e] /\ data' = data
    BY <1>8 DEF mm_share_page
  <2>2. pte[t][v] \in Entry /\ pte[t][v].f \in Frame
    BY <2>1, <1>0, PresentFrame DEF EntriesOK
  <2>3. /\ e \in Entry /\ e.f = pte[t][v].f /\ e.present = pte[t][v].present
        /\ e.sh = TRUE /\ e.cow = pte[t][v].cow
    BY <2>2 DEF Entry
  <2> HIDE DEF e
  <2>4. CASE pte[t][v].sh
    <3>1. e.sh = pte[t][v].sh
      BY <2>2, <2>3, <2>4 DEF Entry
    <3>2. /\ SharesInv' /\ mem' = mem
          /\ seg' = With(seg, t, v, IF e.present /\ e.sh THEN e.f ELSE NoFrame)
      BY <2>1, <2>3, <3>1, FlagView
    <3>3. seg[t][v] = IF e.present /\ e.sh THEN e.f ELSE NoFrame
      BY <2>3, <3>1, Views
    <3>4. seg' = seg
      BY <3>2, <3>3, SameEntry
    <3> QED
      BY <3>2, <3>4
  <2>5. CASE ~pte[t][v].sh
    <3>1. \A u \in Task : pte[u][v].f = e.f => u = t
      <4> SUFFICES ASSUME NEW u \in Task, pte[u][v].f = e.f
                   PROVE  u = t
        OBVIOUS
      <4>1. u \in alive
        BY <2>2, <2>3, <1>0, Entries DEF TablesInv, DeadEmpty
      <4>2. pte[t][v].rw
        BY <2>1 DEF TablesInv, OwnedOrCow
      <4> QED
        BY <4>1, <4>2, <2>1, <2>3, <2>5 DEF TablesInv, WritableAlone
    <3>2. /\ SharesInv' /\ mem' = mem
          /\ seg' = With(seg, t, v, IF e.present /\ e.sh THEN e.f ELSE NoFrame)
      BY <2>1, <2>3, <3>1, FlagView
    <3>3. seg' = With(seg, t, v, e.f)
      BY <3>2, <2>1, <2>3
    <3>4. seg[t][v] = NoFrame
      BY <2>5, Views
    <3>5. \A u \in Task : seg[u][v] # e.f
      <4> SUFFICES ASSUME NEW u \in Task, seg[u][v] = e.f
                   PROVE  FALSE
        OBVIOUS
      <4>1. seg[u][v] = IF pte[u][v].present /\ pte[u][v].sh THEN pte[u][v].f ELSE NoFrame
        BY Views
      <4>2. e.f # NoFrame
        BY <2>2, <2>3, <1>0
      <4>3. u = t
        BY <3>1, <4>1, <4>2
      <4> QED
        BY <3>4, <4>2, <4>3
    <3>6. mem[t][v] # NoFrame
      BY <2>1, <1>0, Views DEF SharesInv, DataHeld
    <3>7. e.f \in Frame
      BY <2>2, <2>3
    <3> QED
      BY <3>2, <3>3, <3>4, <3>5, <3>6, <3>7 DEF With, Spaces!Share
  <2> QED
    BY <2>4, <2>5
<1>9. ASSUME NEW t \in Task, NEW v \in Page, FaultRequested(t, v)
      PROVE  SharesInv' /\ (Spaces!Appear(t, v) \/ Spaces!Exit(t))
  <2>1. CASE loader_exit(t)
    BY <1>5, <2>1
  <2>2. CASE ~loader_exit(t)
    <3>1. PICK f \in Frame, x \in Value :
            /\ page_frame_info_alloc(used, f)
            /\ pte' = [pte EXCEPT ![t][v] = Mapped(f)]
            /\ data' = [data EXCEPT ![f] = x]
      BY <1>9, <2>2 DEF FaultRequested
    <3>2. f \notin used
      BY <3>1, Fresh
    <3>3. /\ SharesInv' /\ mem' = With(mem, t, v, x)
          /\ seg' = With(seg, t, v, NoFrame)
      <4>1. SharesInv'
        BY <3>1, <3>2, FreshView
      <4>2. mem' = With(mem, t, v, x)
        BY <3>1, <3>2, FreshView
      <4>3. seg' = With(seg, t, v, NoFrame)
        BY <3>1, <3>2, FreshView
      <4> QED
        BY <4>1, <4>2, <4>3
    <3>4. mem[t][v] = NoFrame /\ seg[t][v] = NoFrame
      BY <1>9, Views DEF FaultRequested, Requested
    <3>5. seg' = seg
      BY <3>3, <3>4, SameEntry
    <3> QED
      BY <3>3, <3>4, <3>5 DEF With, Spaces!Appear
  <2> QED
    BY <2>1, <2>2
<1>10. ASSUME NEW t \in Task, NEW v \in Page, FaultCow(t, v)
       PROVE  SharesInv' /\ mem' = mem /\ seg' = seg
  <2>1. pte[t][v].present /\ pte[t][v].cow
    BY <1>10 DEF FaultCow
  <2>2. ~pte[t][v].sh /\ seg[t][v] = NoFrame
    <3>1. ~pte[t][v].sh
      BY <2>1 DEF SharesInv, SharedOwn
    <3> QED
      BY <3>1, Views
  <2>3. pte[t][v] \in Entry /\ pte[t][v].f \in Frame
    BY <2>1, <1>0, PresentFrame DEF EntriesOK
  <2>4. CASE Mappers(pte[t][v].f, v) = {t}
    <3> DEFINE e == [pte[t][v] EXCEPT !.cow = FALSE, !.rw = TRUE]
    <3>1. pte' = [pte EXCEPT ![t][v] = e] /\ data' = data
      BY <1>10, <2>4 DEF FaultCow, mm_copy_on_write_page
    <3>2. /\ e \in Entry /\ e.f = pte[t][v].f /\ e.present = pte[t][v].present
          /\ e.sh = pte[t][v].sh /\ e.cow = FALSE
      BY <2>3 DEF Entry
    <3> HIDE DEF e
    <3>3. /\ SharesInv' /\ mem' = mem
          /\ seg' = With(seg, t, v, IF e.present /\ e.sh THEN e.f ELSE NoFrame)
      BY <3>1, <3>2, FlagView
    <3>4. seg' = seg
      <4>1. seg' = With(seg, t, v, NoFrame)
        BY <2>2, <3>2, <3>3
      <4> QED
        BY <2>2, <4>1, SameEntry
    <3> QED
      BY <3>3, <3>4
  <2>5. CASE Mappers(pte[t][v].f, v) # {t}
    <3> DEFINE x == data[pte[t][v].f]
    <3>1. PICK f \in Frame : /\ page_frame_info_alloc(used, f)
                             /\ pte' = [pte EXCEPT ![t][v] = Mapped(f)]
                             /\ data' = [data EXCEPT ![f] = x]
      BY <1>10, <2>5 DEF FaultCow, mm_copy_on_write_page
    <3>2. f \notin used
      BY <3>1, Fresh
    <3>3. x \in Value /\ mem[t][v] = x
      BY <2>1, Views DEF SharesInv, DataHeld
    <3> HIDE DEF x
    <3>4. /\ SharesInv' /\ mem' = With(mem, t, v, x)
          /\ seg' = With(seg, t, v, NoFrame)
      <4>1. SharesInv'
        BY <3>1, <3>2, <3>3, FreshView
      <4>2. mem' = With(mem, t, v, x)
        BY <3>1, <3>2, <3>3, FreshView
      <4>3. seg' = With(seg, t, v, NoFrame)
        BY <3>1, <3>2, <3>3, FreshView
      <4> QED
        BY <4>1, <4>2, <4>3
    <3>5. mem' = mem
      BY <3>3, <3>4, SameEntry
    <3>6. seg' = seg
      BY <3>4, <2>2, SameEntry
    <3> QED
      BY <3>4, <3>5, <3>6
  <2> QED
    BY <2>4, <2>5
<1>11. ASSUME NEW t \in Task, NEW v \in Page, NEW x \in Value,
              UserStore(t, v, x) \/ KernelStore(t, v, x)
       PROVE  SharesInv' /\ Spaces!Store(t, v, x)
  <2>1. /\ t \in alive /\ pte[t][v].present /\ pte' = pte
        /\ data' = [data EXCEPT ![pte[t][v].f] = x]
        /\ pte[t][v].rw \/ v = Stack
    BY <1>11 DEF UserStore, KernelStore
  <2>2. ASSUME ~pte[t][v].sh, NEW u \in Task, pte[u][v].f = pte[t][v].f
        PROVE  u = t
    <3>1. CASE v = Stack
      BY <2>1, <2>2, <3>1 DEF SharesInv, StackAlone
    <3>2. CASE pte[t][v].rw
      <4>1. pte[t][v].f \in Frame
        BY <2>1, <1>0, PresentFrame
      <4>2. u \in alive
        BY <4>1, <2>2, <1>0, Entries DEF TablesInv, DeadEmpty
      <4> QED
        BY <4>2, <3>2, <2>1, <2>2 DEF TablesInv, WritableAlone
    <3> QED
      BY <2>1, <3>1, <3>2
  <2> QED
    BY <2>1, <2>2, StoreView
<1>12. CASE UNCHANGED vars
  <2>1. pte' = pte /\ data' = data
    BY <1>12 DEF vars
  <2>2. mem' = mem /\ seg' = seg
    BY <2>1 DEF mem, seg
  <2>3. SharesInv'
    BY <2>1 DEF SharesInv, SharedOwn, SharedAll, StackAlone, DataHeld
  <2> QED
    BY <2>2, <2>3
<1> QED
  BY <1>4, <1>5, <1>6, <1>7, <1>8, <1>9, <1>10, <1>11, <1>12 DEF Next, Spaces!Next

(* Programs have the memory that AddressSpaces promises: a store is seen   *)
(* by its task and its segment only, and a child starts with what its      *)
(* parent had, whatever frames, page tables and copy on write do below.    *)
THEOREM MmImplements ==
  ASSUME ShareAny = FALSE, Buffers \subseteq {Stack}
  PROVE  Spec => ImplementsAddressSpaces
<1>1. Init => SpacesInv /\ Spaces!Init
  <2> SUFFICES ASSUME Init
               PROVE  SpacesInv /\ Spaces!Init
    OBVIOUS
  <2>1. \A t \in Task, v \in Page : pte[t][v] = NoEntry
    BY DEF Init
  <2>2. SharesInv
    BY <2>1, Entries, MmAssumption
       DEF SharesInv, SharedOwn, SharedAll, StackAlone, DataHeld, Stack, Page
  <2>3. \A t \in Task, v \in Page : mem[t][v] = NoFrame /\ seg[t][v] = NoFrame
    BY <2>1, Views, Entries
  <2>4. Spaces!Init
    BY <2>3, Views DEF Spaces!Init, Spaces!Nothing
  <2>5. StackMapped /\ DataOK
    BY DEF Init, StackMapped, DataOK
  <2> QED
    BY <2>2, <2>4, <2>5, TablesInit DEF SpacesInv
<1>2. SpacesInv /\ [Next]_vars => SpacesInv' /\ [Spaces!Next]_(Spaces!vars)
  <2> SUFFICES ASSUME SpacesInv, [Next]_vars
               PROVE  SpacesInv' /\ [Spaces!Next]_(Spaces!vars)
    OBVIOUS
  <2>1. TablesInv' /\ StackMapped' /\ DataOK'
    BY TablesStep, StackStep, DataStep DEF SpacesInv
  <2> QED
    BY <2>1, SpacesStep DEF SpacesInv, Spaces!vars
<1> QED
  BY <1>1, <1>2, PTL DEF Spec, ImplementsAddressSpaces, Spaces!Spec

=============================================================================
