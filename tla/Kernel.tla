------------------------------- MODULE Kernel -------------------------------
(***************************************************************************)
(* The loader and the semaphores (kernel/loader.c, loader_switch.asm,      *)
(* kernel/sem.c) on top of the scheduler.                                  *)
(*                                                                         *)
(* Kernel code runs with interrupts masked (the cli of interrupt.mac:15    *)
(* and isr.asm:42), so a system call or an interrupt handler is atomic up  *)
(* to the point where it blocks in sem_wait.  Each action below is one     *)
(* such stretch, executed by the task cur_pid or by an interrupt that      *)
(* arrives while it runs.  The exception is the boot code: it is pid 0,    *)
(* runs with interrupts on (kernel.c:48) and goes on as the idle task.     *)
(* Compiled with -O0, its x++ and x-- load, compute and store, and an      *)
(* interrupt may fall in between: wherever interrupts see a difference,    *)
(* the boot code's loads and stores are actions of their own.              *)
(***************************************************************************)
EXTENDS Sched

CONSTANTS
  Sem,     \* the semaphores (of the floppy controller, pipes, consoles)
  MaxVl    \* bound of the model: signals stop when a semaphore reaches it

ASSUME KernelAssumption == MaxPid > 1 /\ MaxVl \in Nat \ {0}

VARIABLES
  cur_pid,        \* the loader's own copy of the current pid
  qnext, qprev,   \* task_table[p].next and .prev: links of the wait queues
  has_dir,        \* task_table[p].cr3 # 0
  tasks_running, tasks_blocked,  \* the counters of the status bar
  free_pids, next_free,          \* the list of free pids
  vl, q,          \* per semaphore: its value, and the head of its queue
  boot,           \* how far kernel_init got with the first task
  taken,          \* vl[s] as the boot code's s->vl-- has loaded it, 0 outside
  counted,        \* tasks_running as the boot code's ++ has loaded it, 0 outside
  miscount,       \* what that ++ overwrote when it stored (history)
  overrun         \* get_new_pid has read free_pids[-1]

loaderVars == <<cur_pid, qnext, qprev, has_dir, tasks_running, tasks_blocked,
                free_pids, next_free>>
bootVars == <<boot, taken, counted, miscount>>
vars == <<schedVars, loaderVars, vl, q, bootVars, overrun>>

----------------------------------------------------------------------------
(* loader_init and SEM_NEW *)

loader_init ==
  /\ free_pids = [p \in Pid |-> IF p \in 1 .. MaxPid - 2 THEN p + 1 ELSE None]
  /\ next_free = 1
  /\ cur_pid = Idle
  /\ tasks_running = 0 /\ tasks_blocked = 0
  /\ has_dir = [p \in Pid |-> p = Idle]
  /\ qnext = [p \in Pid |-> 0] /\ qprev = [p \in Pid |-> 0]

(* Every semaphore of the kernel starts as SEM_NEW(0) or SEM_NEW(1). *)
SEM_NEW ==
  /\ vl \in [Sem -> {0, 1}]
  /\ q = [s \in Sem |-> None]

Init ==
  /\ sched_init /\ loader_init /\ SEM_NEW
  /\ boot = "init" /\ taken = [s \in Sem |-> 0] /\ counted = 0 /\ miscount = 0
  /\ overrun = FALSE

(* Once get_new_pid has run off its list nothing is modelled any more. *)
Defined == ~overrun /\ UNCHANGED overrun

----------------------------------------------------------------------------
(* Pids *)

(* Mutant: pids are given out in order, not from the list. *)
GetPidInOrder == next_free # None /\ next_free' = next_free + 1

(* The list is not tested for being empty: see PidsExhausted. *)
get_new_pid == next_free # None /\ next_free' = free_pids[next_free]

free_pid(pd) ==
  /\ free_pids' = [free_pids EXCEPT ![pd] = next_free]
  /\ next_free' = pd

(* What loader_load and sys_fork do once the new task's memory is there. *)
NewPid ==
  /\ get_new_pid
  /\ has_dir' = [has_dir EXCEPT ![next_free] = TRUE]
  /\ UNCHANGED <<cur_pid, qnext, qprev, tasks_blocked, free_pids>>

NewTask == NewPid /\ sched_load(next_free)

(* kernel_init loads the first task.  No task runs, and no interrupt looks *)
(* at the scheduler, before last is set (sched.c:43); from then on a tick  *)
(* may run the task at any point, and the rest of the load goes on when    *)
(* the idle task has the CPU: line 44 marks the task RUNNING even if it    *)
(* sleeps or has ended by then, and the ++ of loader.c:108 stores over     *)
(* what tasks counted since its load.                                      *)
FirstPid == 1      \* get_new_pid's first answer, the boot code's pd

BootGoesOn == cur_pid = Idle /\ Defined

BootLoad ==
  /\ boot = "init" /\ \A s \in Sem : taken[s] = 0
  /\ NewPid /\ LinkLoaded(next_free)
  /\ boot' = "linked"
  /\ UNCHANGED <<state, tasks_running, vl, q, taken, counted, miscount>>
  /\ BootGoesOn

BootState ==
  /\ boot = "linked" /\ boot' = "loaded"
  /\ MarkRunning(FirstPid)
  /\ UNCHANGED <<next, prev, quantum, current_pid, last>>
  /\ UNCHANGED <<loaderVars, vl, q, taken, counted, miscount>>
  /\ BootGoesOn

BootRead ==
  /\ boot = "loaded" /\ boot' = "counting"
  /\ counted' = tasks_running
  /\ UNCHANGED <<schedVars, loaderVars, vl, q, taken, miscount>>
  /\ BootGoesOn

BootCount ==
  /\ boot = "counting" /\ boot' = "idle"
  /\ tasks_running' = counted + 1
  /\ miscount' = counted - tasks_running
  /\ counted' = 0
  /\ UNCHANGED <<schedVars, cur_pid, qnext, qprev, has_dir, tasks_blocked,
                 free_pids, next_free, vl, q, taken>>
  /\ BootGoesOn

(* Mutant: the new task is not counted. *)
LoadUncounted ==
  /\ cur_pid # Idle
  /\ NewTask
  /\ UNCHANGED <<tasks_running, vl, q, bootVars>> /\ Defined

(* The system call run (sys_run) of a running task. *)
loader_load ==
  /\ cur_pid # Idle
  /\ NewTask
  /\ tasks_running' = tasks_running + 1
  /\ UNCHANGED <<vl, q, bootVars>> /\ Defined

(* fork ends the same way, once mm_dir_fork has copied the address space. *)
sys_fork == loader_load

(* With every pid in use get_new_pid returns -1 and indexes its arrays     *)
(* with it.  What follows is undefined: the model records it and stops.    *)
PidsExhausted ==
  /\ cur_pid # Idle /\ next_free = None /\ ~overrun
  /\ overrun' = TRUE
  /\ UNCHANGED <<schedVars, loaderVars, vl, q, bootVars>>

----------------------------------------------------------------------------
(* Context switches and wait queues *)

loader_tick ==
  /\ sched_tick
  /\ cur_pid' = current_pid'
  /\ UNCHANGED <<qnext, qprev, has_dir, tasks_running, tasks_blocked,
                 free_pids, next_free, vl, q, bootVars>> /\ Defined

(* Mutant: the queue grows at its head. *)
EnqueueInFront(s) ==
  /\ \/ /\ q[s] = None
        /\ qnext' = [qnext EXCEPT ![cur_pid] = cur_pid]
        /\ qprev' = [qprev EXCEPT ![cur_pid] = cur_pid]
     \/ /\ q[s] # None
        /\ qnext' = [qnext EXCEPT ![qprev[q[s]]] = cur_pid, ![cur_pid] = q[s]]
        /\ qprev' = [qprev EXCEPT ![q[s]] = cur_pid, ![cur_pid] = qprev[q[s]]]
  /\ q' = [q EXCEPT ![s] = cur_pid]
  /\ sched_block
  /\ tasks_blocked' = tasks_blocked + 1
  /\ tasks_running' = tasks_running - 1
  /\ cur_pid' = current_pid'
  /\ UNCHANGED <<has_dir, free_pids, next_free>>

(* Append cur_pid to the queue of s, block it and switch to the task that  *)
(* sched_block returns.                                                    *)
loader_enqueue(s) ==
  /\ \/ /\ q[s] = None
        /\ qnext' = [qnext EXCEPT ![cur_pid] = cur_pid]
        /\ qprev' = [qprev EXCEPT ![cur_pid] = cur_pid]
        /\ q' = [q EXCEPT ![s] = cur_pid]
     \/ /\ q[s] # None
        /\ qnext' = [qnext EXCEPT ![qprev[q[s]]] = cur_pid, ![cur_pid] = q[s]]
        /\ qprev' = [qprev EXCEPT ![q[s]] = cur_pid, ![cur_pid] = qprev[q[s]]]
        /\ UNCHANGED q
  /\ sched_block
  /\ tasks_blocked' = tasks_blocked + 1
  /\ tasks_running' = tasks_running - 1
  /\ cur_pid' = current_pid'
  /\ UNCHANGED <<has_dir, free_pids, next_free>>

(* Mutant: the neighbours of the head are not linked to each other. *)
UnqueueKeepsLinks(s) ==
  LET h == q[s]
      n == qnext[h]
  IN  /\ qnext' = [qnext EXCEPT ![h] = None]
      /\ qprev' = [qprev EXCEPT ![h] = None]
      /\ q' = [q EXCEPT ![s] = IF n = h THEN None ELSE n]
      /\ tasks_blocked' = tasks_blocked - 1
      /\ tasks_running' = tasks_running + 1
      /\ sched_unblock(h)
      /\ cur_pid' = current_pid'
      /\ UNCHANGED <<has_dir, free_pids, next_free>>

(* Take the head of the queue of s and make it runnable.  When the idle    *)
(* task has the CPU, sched_unblock switches to the woken task at once.     *)
loader_unqueue(s) ==
  LET h == q[s]
      n == qnext[h]
      b == qprev[h]
  IN  /\ qnext' = [qnext EXCEPT ![b] = n, ![h] = None]
      /\ qprev' = [qprev EXCEPT ![n] = b, ![h] = None]
      /\ q' = [q EXCEPT ![s] = IF n = h THEN None ELSE n]
      /\ tasks_blocked' = tasks_blocked - 1
      /\ tasks_running' = tasks_running + 1
      /\ sched_unblock(h)
      /\ cur_pid' = IF current_pid = Idle THEN h ELSE cur_pid
      /\ UNCHANGED <<has_dir, free_pids, next_free>>

(* Mutants: the pid is not given back; the directory of the next task is   *)
(* cleared instead of the old one's.                                       *)
ExitLosesPid ==
  /\ cur_pid # Idle
  /\ tasks_running' = tasks_running - 1
  /\ sched_exit
  /\ cur_pid' = current_pid'
  /\ has_dir' = [has_dir EXCEPT ![cur_pid] = FALSE]
  /\ UNCHANGED <<free_pids, next_free, qnext, qprev, tasks_blocked, vl, q, bootVars>> /\ Defined

ExitFreesNewDir ==
  /\ cur_pid # Idle
  /\ free_pid(cur_pid)
  /\ tasks_running' = tasks_running - 1
  /\ sched_exit
  /\ cur_pid' = current_pid'
  /\ has_dir' = [has_dir EXCEPT ![cur_pid'] = FALSE]
  /\ UNCHANGED <<qnext, qprev, tasks_blocked, vl, q, bootVars>> /\ Defined

(* The pid is free before the task is off the CPU; loader_switchto_exit    *)
(* frees the page directory on the stack of the next task.                 *)
loader_exit ==
  /\ cur_pid # Idle
  /\ free_pid(cur_pid)
  /\ tasks_running' = tasks_running - 1
  /\ sched_exit
  /\ cur_pid' = current_pid'
  /\ has_dir' = [has_dir EXCEPT ![cur_pid] = FALSE]
  /\ UNCHANGED <<qnext, qprev, tasks_blocked, vl, q, bootVars>> /\ Defined

----------------------------------------------------------------------------
(* Semaphores *)

sem_wait(s) ==
  /\ cur_pid # Idle
  /\ \/ /\ vl[s] > 0
        /\ vl' = [vl EXCEPT ![s] = @ - 1]
        /\ UNCHANGED <<schedVars, loaderVars, q>>
     \/ /\ vl[s] = 0
        /\ loader_enqueue(s)
        /\ UNCHANGED vl
  /\ UNCHANGED bootVars /\ Defined

(* The boot code's sem_wait.  It waits only for a unit it has seen arrive  *)
(* (fdd.c:327-332, see BootNeverBlocks in Fdd).  Until the first load it   *)
(* is alone with the interrupts, whose signals only add to vl, so the test *)
(* and the load of line 9 are one step; signals made between the load and  *)
(* the store are lost.                                                     *)
BootTake(s) ==
  /\ boot = "init" /\ \A r \in Sem : taken[r] = 0
  /\ vl[s] > 0
  /\ taken' = [taken EXCEPT ![s] = vl[s]]
  /\ UNCHANGED <<schedVars, loaderVars, vl, q, boot, counted, miscount>>
  /\ BootGoesOn

BootPut(s) ==
  /\ taken[s] > 0
  /\ vl' = [vl EXCEPT ![s] = taken[s] - 1]
  /\ taken' = [taken EXCEPT ![s] = 0]
  /\ UNCHANGED <<schedVars, loaderVars, q, boot, counted, miscount>>
  /\ BootGoesOn

(* Mutant: the value is incremented also when a task is woken. *)
SignalAlsoCounts(s) ==
  /\ vl[s] < MaxVl
  /\ vl' = [vl EXCEPT ![s] = @ + 1]
  /\ \/ q[s] # None /\ loader_unqueue(s)
     \/ q[s] = None /\ UNCHANGED <<schedVars, loaderVars, q>>
  /\ UNCHANGED bootVars /\ Defined

(* By the current task or by an interrupt handler on its stack. *)
sem_signal(s) ==
  /\ \/ /\ vl[s] = 0 /\ q[s] # None
        /\ loader_unqueue(s)
        /\ UNCHANGED vl
     \/ /\ ~(vl[s] = 0 /\ q[s] # None)
        /\ vl[s] < MaxVl
        /\ vl' = [vl EXCEPT ![s] = @ + 1]
        /\ UNCHANGED <<schedVars, loaderVars, q>>
  /\ UNCHANGED bootVars /\ Defined

----------------------------------------------------------------------------
Next ==
  \/ BootLoad \/ BootState \/ BootRead \/ BootCount
  \/ loader_load \/ sys_fork \/ PidsExhausted \/ loader_exit
  \/ loader_tick
  \/ \E s \in Sem : sem_wait(s) \/ sem_signal(s) \/ BootTake(s) \/ BootPut(s)

(* The clock interrupts whatever runs. *)
Spec == Init /\ [][Next]_vars /\ WF_vars(loader_tick)

----------------------------------------------------------------------------
(* Properties *)

(* The tasks in wait queues, by their links, and the pids of no task.      *)
Blocked == {p \in Task : qnext[p] \in Task}
Free    == Task \ (Ready \cup Blocked)

(* The n-th element of a list of links, None past its end. *)
Nth(first, link, n) ==
  LET at[k \in 0 .. MaxPid] ==
        IF k = 0 THEN first
        ELSE IF at[k - 1] \in Pid THEN link[at[k - 1]] ELSE None
  IN  at[n]

Elements(first, link) == {Nth(first, link, n) : n \in 0 .. MaxPid} \ {None}

(* The length of a circular queue: how many steps lead back to its head.   *)
QueueLength(s) ==
  IF q[s] = None THEN 0
  ELSE CHOOSE n \in 1 .. MaxPid :
         /\ Nth(q[s], qnext, n) = q[s] \/ n = MaxPid
         /\ \A k \in 1 .. n - 1 : Nth(q[s], qnext, k) # q[s]

Queue(s) == [i \in 1 .. QueueLength(s) |-> Nth(q[s], qnext, i - 1)]

(* Types.  The counters are unsigned in the code; see CountersExact. *)
KernelTypeOK ==
  /\ cur_pid \in Pid
  /\ qnext \in [Pid -> Pid \cup {None}] /\ qprev \in [Pid -> Pid \cup {None}]
  /\ has_dir \in [Pid -> BOOLEAN]
  /\ tasks_running \in -1 .. MaxPid /\ tasks_blocked \in 0 .. MaxPid
  /\ free_pids \in [Pid -> Task \cup {None}] /\ next_free \in Task \cup {None}
  /\ vl \in [Sem -> 0 .. MaxVl] /\ q \in [Sem -> Task \cup {None}]
  /\ boot \in {"init", "linked", "loaded", "counting", "idle"} /\ overrun \in BOOLEAN
  /\ taken \in [Sem -> 0 .. MaxVl] /\ counted \in {-1, 0} /\ miscount \in {0, 1}

(* The list of free pids holds every pid of no task once and no other, so  *)
(* no pid is given twice and the list runs dry only when all are in use: a *)
(* set of free pids that holds the first and each one's successor holds    *)
(* them all, and nobody is the successor of two, or of none but the first. *)
FreeList ==
  /\ next_free \in Free \cup {None}
  /\ \A p \in Free :
       /\ free_pids[p] \in Free \cup {None}
       /\ free_pids[p] = next_free => next_free = None
       /\ \A r \in Free \ {p} : free_pids[r] = free_pids[p] => free_pids[p] = None
  /\ \A S \in SUBSET Free :
       /\ next_free # None => next_free \in S
       /\ \A p \in S : free_pids[p] \in S \cup {None}
       => S = Free

PidsAccounted == FreeList /\ (overrun => Free = {})

(* Every task that is BLOCKED is in the wait queue of exactly one          *)
(* semaphore, and the links of task_table form one ring per queue, the     *)
(* same both ways: nobody sleeps where no signal will find it.  w is the   *)
(* semaphore each of them waits at.  Of all tasks only the first may sleep *)
(* without being marked BLOCKED, as the boot code marks it late.           *)
StatesTold ==
  \A p \in Task : /\ state[p] = BLOCKED => p \in Blocked
                  /\ p \in Blocked /\ p # FirstPid => state[p] = BLOCKED

Waiting(w, s) == {p \in Blocked : w[p] = s}

QueueLinks(w) ==
  \A p \in Blocked : /\ qnext[p] \in Blocked /\ qprev[qnext[p]] = p
                     /\ qprev[p] \in Blocked /\ qnext[qprev[p]] = p
                     /\ w[qnext[p]] = w[p]

QueueRings(w) ==
  \A s \in Sem :
    /\ IF q[s] = None THEN Waiting(w, s) = {} ELSE q[s] \in Waiting(w, s)
    /\ \A S \in SUBSET Waiting(w, s) :
         S # {} /\ (\A p \in S : qnext[p] \in S) => S = Waiting(w, s)

QueuesExact ==
  /\ StatesTold
  /\ \E w \in [Blocked -> Sem] : QueueLinks(w) /\ QueueRings(w)

(* The status bar's counters are the numbers of sleeping and of runnable   *)
(* tasks, but for the one that boot has still to count, and for good one   *)
(* too many if tasks ran between the load and the store of boot's ++.      *)
Uncounted == IF boot \in {"linked", "loaded", "counting"} THEN 1 ELSE 0

CountersExact ==
  /\ tasks_blocked = Cardinality(Blocked)
  /\ tasks_running + Uncounted = Cardinality(Ready) + miscount
  /\ miscount \in {0, 1}

(* The loader and the scheduler name the same current task, that task's    *)
(* page directory is alive, and once a tick has handed the CPU to the      *)
(* first task (until then last names it) the idle task has the CPU only    *)
(* when nobody is runnable.                                                *)
CurrentIsAlive ==
  /\ cur_pid = current_pid
  /\ has_dir[cur_pid]
  /\ cur_pid = Idle /\ last = Idle => Ready = {}

(* The wait queues are first in, first out and a signal hands its unit     *)
(* over: the kernel implements the abstract semaphores.  A signal that     *)
(* boot's vl-- overwrites counts as one that was not made.                 *)
Value(s) == IF taken[s] > 0 THEN taken[s] - 1 ELSE vl[s]

Abstract == INSTANCE Semaphores
              WITH val <- [s \in Sem |-> Value(s)],
                   waiting <- [s \in Sem |-> Queue(s)], runnable <- Ready

ImplementsSemaphores == Abstract!Spec

(* A task that waits at a semaphore that keeps being signalled is woken,   *)
(* whatever the other tasks do (loader.c:128: appended at the back "para   *)
(* evitar starvation").                                                    *)
WaitersWoken ==
  \A s \in Sem : \A p \in Task :
    []<><<sem_signal(s)>>_vars => []<>(p \notin Elements(q[s], qnext))
=============================================================================
