------------------------------ MODULE Devices ------------------------------
(***************************************************************************)
(* The table of descriptors (kernel/device.c) and the kernel pages of the  *)
(* devices behind it: consoles, serial ports, open files and pipes live in *)
(* a page each, /proc/cpuid is static.  Every task has MAX_FD entries; the *)
(* entries of all tasks that name a device are meant to be counted in its  *)
(* refcount, and each kind of device decides in its flush what to do when  *)
(* an entry goes.                                                          *)
(*                                                                         *)
(* With interrupts masked each call is one action of the task that makes   *)
(* it.  Only the opening of a file of the disk waits, in the floppy driver *)
(* (fat12.c:234), after its page was allocated (200) and before anything   *)
(* else here changes (fs.c:68): the action stands for the end of the call, *)
(* until which one page fewer is free.  What the devices do with data is   *)
(* modelled in Console, Pipe, Serial and Files.                            *)
(***************************************************************************)
EXTENDS Integers, FiniteSets

CONSTANTS
  Task,      \* the pids
  MAX_FD,    \* entries of a table, 32 in the code
  Page,      \* kernel pages left for devices
  Modulus,   \* refcount is a uint_32: Modulus = 2^32
  None, cpuid_dev,
  PartialPipes  \* whether programs call pipe with just one entry left

ASSUME DevicesAssumption ==
  /\ MAX_FD \in Nat \ {0} /\ IsFiniteSet(Task) /\ IsFiniteSet(Page)
  /\ Modulus \in Nat /\ Modulus > MAX_FD * Cardinality(Task) + 1
  /\ cpuid_dev \notin Page /\ PartialPipes \in BOOLEAN

Fd == 0 .. MAX_FD - 1

(* A device is named by its page and, for a pipe, the end of it.  Nothing  *)
(* reads the refcount of cpuid_dev, and the model leaves it out.           *)
Device == [page : Page, end : {"dev", "r", "w"}]
Dev(p) == [page |-> p, end |-> "dev"]
End(p, e) == [page |-> p, end |-> e]
Other(d) == End(d.page, IF d.end = "r" THEN "w" ELSE "r")

(* An entry that is closed names no device. *)
ASSUME NoneAssumption == None \notin Device /\ None # Dev(cpuid_dev)

VARIABLES
  char_devices,  \* the tables
  refcount,      \* of the devices that exist
  kind,          \* what each page holds; "free" pages are the allocator's
  alive,         \* the pids of tasks
  stranded       \* pages of devices that never got a descriptor (history)

vars == <<char_devices, refcount, kind, alive, stranded>>

Closed == [fd \in Fd |-> None]

(* device_init; the first task starts with an empty table. *)
Init ==
  /\ char_devices = [t \in Task |-> Closed]
  /\ refcount = [d \in Device |-> 0]
  /\ kind = [p \in Page |-> "free"]
  /\ \E t \in Task : alive = {t}
  /\ stranded = {}

Plus(n)  == (n + 1) % Modulus
Minus(n) == (n - 1) % Modulus

FreeFds(t) == {fd \in Fd : char_devices[t][fd] = None}
get_next_free_fd(t) == CHOOSE fd \in FreeFds(t) : \A g \in FreeFds(t) : fd <= g

----------------------------------------------------------------------------
(* Opening *)

(* mm_mem_kalloc: a page of zeros. *)
Allocated(p, k) == kind[p] = "free" /\ kind' = [kind EXCEPT ![p] = k]
Blank(p) == [d \in Device |-> IF d.page = p THEN 0 ELSE refcount[d]]

(* The device, whose open left its refcount at start, gets the first free  *)
(* entry.  Without one the caller sees an error and the device stays.      *)
device_descriptor(t, d, start) ==
  /\ \/ /\ FreeFds(t) # {}
        /\ char_devices' = [char_devices EXCEPT ![t][get_next_free_fd(t)] = d]
        /\ refcount' = [Blank(d.page) EXCEPT ![d] = Plus(start)]
        /\ UNCHANGED stranded
     \/ /\ FreeFds(t) = {}
        /\ refcount' = [Blank(d.page) EXCEPT ![d] = start]
        /\ stranded' = stranded \cup {d.page}
        /\ UNCHANGED char_devices

(* The refcount each kind of device starts with.                           *)
StartOf == [con |-> 0, serial |-> 0, file |-> 1]

(* open of /console, /serial0 or a file of the disk. *)
sys_open(t, p, k) ==
  /\ t \in alive
  /\ Allocated(p, k)
  /\ device_descriptor(t, Dev(p), StartOf[k])
  /\ UNCHANGED alive

(* open of /proc/cpuid, one static device however often it is opened. *)
proc_cpuid_open(t) ==
  /\ t \in alive /\ FreeFds(t) # {}
  /\ char_devices' = [char_devices EXCEPT ![t][get_next_free_fd(t)] = Dev(cpuid_dev)]
  /\ UNCHANGED <<refcount, kind, alive, stranded>>

(* run opens the file of the program, loads it in a new task and forgets   *)
(* it: the page of the open file stays.                                    *)
sys_run(t, p, u) ==
  /\ t \in alive /\ u \notin alive
  /\ Allocated(p, "file")
  /\ refcount' = [Blank(p) EXCEPT ![Dev(p)] = StartOf["file"]]
  /\ stranded' = stranded \cup {p}
  /\ alive' = alive \cup {u}
  /\ UNCHANGED char_devices

----------------------------------------------------------------------------
(* Closing.  A step of a close or an exit works on the part of the state   *)
(* the flush functions write: st.ref and st.kind.                          *)
State == [ref |-> refcount, kind |-> kind]

con_flush(st, d) ==
  IF st.ref[d] > 1 THEN [st EXCEPT !.ref[d] = @ - 1]
                   ELSE [st EXCEPT !.kind[d.page] = "free"]

(* Mutant: the page goes with the last reference of either end. *)
PipeFlushOneEnd(st, d) ==
  IF Minus(st.ref[d]) = 0
  THEN [st EXCEPT !.ref[d] = Minus(@), !.kind[d.page] = "free"]
  ELSE [st EXCEPT !.ref[d] = Minus(@)]

pipe_flush(st, d) ==
  IF Minus(st.ref[d]) = 0 /\ st.ref[Other(d)] = 0
  THEN [st EXCEPT !.ref[d] = Minus(@), !.kind[d.page] = "free"]
  ELSE [st EXCEPT !.ref[d] = Minus(@)]

(* The flush of serial_dev, of files and of cpuid leaves count and page.   *)
flush(st, d) ==
  IF d = Dev(cpuid_dev) THEN st
  ELSE CASE st.kind[d.page] = "pipe" -> pipe_flush(st, d)
         [] st.kind[d.page] = "con"  -> con_flush(st, d)
         [] OTHER                    -> st

sys_close(t, fd) ==
  /\ t \in alive /\ char_devices[t][fd] # None
  /\ LET st == flush(State, char_devices[t][fd])
     IN  refcount' = st.ref /\ kind' = st.kind
  /\ char_devices' = [char_devices EXCEPT ![t][fd] = None]
  /\ UNCHANGED <<alive, stranded>>

(* device_release_devices: every entry of t is closed, in order.           *)
Released(t) ==
  LET after[n \in 0 .. MAX_FD] ==
        IF n = 0 THEN State
        ELSE IF char_devices[t][n - 1] = None THEN after[n - 1]
        ELSE flush(after[n - 1], char_devices[t][n - 1])
  IN  after[MAX_FD]

(* Mutant: exit calls the flush functions but leaves the entries. *)
ExitFlushesOnly(t) ==
  /\ t \in alive
  /\ refcount' = Released(t).ref /\ kind' = Released(t).kind
  /\ alive' = alive \ {t}
  /\ UNCHANGED <<char_devices, stranded>>

(* exit, also of a task that a page fault ends. *)
loader_exit(t) ==
  /\ t \in alive
  /\ refcount' = Released(t).ref /\ kind' = Released(t).kind
  /\ char_devices' = [char_devices EXCEPT ![t] = Closed]
  /\ alive' = alive \ {t}
  /\ UNCHANGED stranded

----------------------------------------------------------------------------
(* fork *)

Uses(t, d) == Cardinality({fd \in Fd : char_devices[t][fd] = d})

(* Mutant: the references of the child are not counted. *)
ForkUncounted(t, u) ==
  /\ char_devices' = [char_devices EXCEPT ![u] = char_devices[t]]
  /\ UNCHANGED refcount

device_fork_descriptors(t, u) ==
  /\ char_devices' = [char_devices EXCEPT ![u] = char_devices[t]]
  /\ refcount' = [d \in Device |-> (refcount[d] + Uses(t, d)) % Modulus]

sys_fork(t, u) ==
  /\ t \in alive /\ u \notin alive
  /\ device_fork_descriptors(t, u)
  /\ alive' = alive \cup {u}
  /\ UNCHANGED <<kind, stranded>>

----------------------------------------------------------------------------
(* pipe *)

(* Both ends get a descriptor. *)
PipeOpened(t, p) ==
  /\ Cardinality(FreeFds(t)) >= 2
  /\ LET r == get_next_free_fd(t)
         w == CHOOSE fd \in FreeFds(t) \ {r} : \A g \in FreeFds(t) \ {r} : fd <= g
     IN  char_devices' = [char_devices EXCEPT ![t][r] = End(p, "r"), ![t][w] = End(p, "w")]
  /\ refcount' = [Blank(p) EXCEPT ![End(p, "r")] = 1, ![End(p, "w")] = 1]
  /\ Allocated(p, "pipe")
  /\ UNCHANGED stranded

(* Fewer than two entries are left.  Both ends are flushed, whichever got  *)
(* a descriptor, and the entry of the read end is not taken back.  With    *)
(* none left the counts wrap and the page stays; with one left the page is *)
(* freed under the entry, which happens only with PartialPipes.            *)
PipeRefused(t, p) ==
  /\ Cardinality(FreeFds(t)) \in (IF PartialPipes THEN {0, 1} ELSE {0})
  /\ kind[p] = "free"
  /\ LET got  == Cardinality(FreeFds(t))
         open == [ref  |-> [Blank(p) EXCEPT ![End(p, "r")] = got, ![End(p, "w")] = 0],
                  kind |-> [kind EXCEPT ![p] = "pipe"]]
         st   == flush(flush(open, End(p, "r")), End(p, "w"))
     IN  /\ refcount' = st.ref /\ kind' = st.kind
         /\ stranded' = IF st.kind[p] = "free" THEN stranded ELSE stranded \cup {p}
         /\ char_devices' = [char_devices EXCEPT ![t] =
              [fd \in Fd |-> IF fd \in FreeFds(t) THEN End(p, "r") ELSE @[fd]]]

sys_pipe(t, p) ==
  /\ t \in alive
  /\ PipeOpened(t, p) \/ PipeRefused(t, p)
  /\ UNCHANGED alive

----------------------------------------------------------------------------
Next ==
  \E t \in Task :
    \/ \E p \in Page : \/ \E k \in DOMAIN StartOf : sys_open(t, p, k)
                       \/ sys_pipe(t, p)
                       \/ \E u \in Task : sys_run(t, p, u)
    \/ proc_cpuid_open(t)
    \/ \E fd \in Fd : sys_close(t, fd)
    \/ \E u \in Task : sys_fork(t, u)
    \/ loader_exit(t)

Spec == Init /\ [][Next]_vars

----------------------------------------------------------------------------
(* The entries of live tasks that name d. *)
Entries(d) == {x \in alive \X Fd : char_devices[x[1]][x[2]] = d}
Reached(p) == \E d \in Device : d.page = p /\ Entries(d) # {}

(* What the flush functions decide on is right: the refcount of a console, *)
(* and of each end of a pipe, is the number of descriptors that name it,   *)
(* over every sequence of opens, forks, closes and exits.                  *)
RefsCounted ==
  \A d \in Device :
    Reached(d.page) /\ kind[d.page] \in {"con", "pipe"} =>
      refcount[d] = Cardinality(Entries(d))

(* No descriptor of a live task names a page that was freed or holds       *)
(* another kind of device by now; and the page of a console or a pipe is   *)
(* given back with its last descriptor.                                    *)
PagesExact ==
  \A p \in Page :
    /\ \A d \in Device : d.page = p /\ Entries(d) # {} =>
         kind[p] \in IF d.end = "dev" THEN {"con", "serial", "file"} ELSE {"pipe"}
    /\ kind[p] \in {"con", "pipe"} => Reached(p) \/ p \in stranded

(* A pid is used again, by run and fork, with its old table: no task finds *)
(* there the descriptors of one that ended before.                         *)
StartsClosed == \A t \in Task \ alive : char_devices[t] = Closed
=============================================================================
