# Verification of the PSO kernel

TLA+ models of the teaching kernel in `src/tp1` (x86, one processor, written in C and nasm), the TLC
configurations that check them on small instances, and TLAPS proofs of what matters most for instances of
any size. `informe.tex` means `src/tp1/doc/informe/informe.tex`, file names without a directory are in
`src/tp1/src/kernel`.

## 1. The system

### Parts, state, operations

| Part | State it keeps | Operations | What makes it correct |
|---|---|---|---|
| Scheduler, `sched.c` | `tasks[]` (state, next, prev), `quantum`, `current_pid`, `last` | load, block, unblock, exit, tick | one ring of exactly the runnable tasks, nobody lost, order kept, everybody gets a turn |
| Loader, `loader.c`, `loader_switch.asm`, boot in `kernel.c` | `task_table[]`, list of free pids, counters, `cur_pid` | load, fork, exit, tick, enqueue, unqueue | pids given once, wait queues exact, counters exact, the current task has a directory |
| Semaphores, `sem.c` | a value and the head of a wait queue | wait, signal | no unit lost, first in first out, the unit goes to the woken task |
| Pipes, `pipe.c` | per end busy, cursor, count; the buffer; two semaphores | read, write, flush, `sys_pipe` | mutual exclusion, bytes in order, calls return |
| Consoles and keyboard, `con.c` | the ring of consoles, `current_console`, key buffers, a semaphore | open, close, read, write, key, left, right | all consoles reachable, freed with their last holder, keys in order, readers woken in time |
| Memory, `mm.c`, parts of `loader.c` | bitmaps of frames, directories, page tables | load, fork, exit, palloc, share_page, page fault | the bitmap exact, copy on write invisible to programs |
| Interrupts, `interrupt.mac`, `isr.asm`, `syscalls.asm`, `pic.c`, `pit.c`, `kb.c` | the interrupt flag, the PIC's requests and lines in service | entry, acknowledgement and exit of handlers | the clock is never masked, every request is taken |
| Device table, `device.c` | per task 32 descriptors, a reference count per device | open, close, fork, exit, run, read, write, seek | counts equal holders, no descriptor outlives its device |
| Floppy, `fdd.c`, `dma.c` | controller registers, motor, a mutex, a semaphore its interrupt signals | initialise, block read and write | one user at a time, the right sectors, every call returns |
| Serial port, `serial.c` | a receive ring | open, read, write, interrupt | no byte overwritten, interrupts acknowledged |
| Files, `fs.c`, `fat12.c` | geometry, the FAT and the root directory; per open file its first sectors and a cursor | mount, open, read, write, seek | a read delivers the file's bytes from the cursor on |
| `/proc/cpuid`, `proc.c` | a static device | open, read | |

The rest (`vga.c`, `lib_*.c`, `debug.c`, boot sector, GDT, TSS, A20, stubs of FAT16 and hard disk,
example programs) is output, straight set-up code, or empty.

### How they interact

Programs enter by `int` gates. Devices block tasks only through semaphores; semaphores only through
`loader_enqueue` and `loader_unqueue`; these call the scheduler, which alone decides who runs next. The clock
enters through `loader_tick`. The memory manager runs inside load, fork and exit, and in the page fault. The
device table holds the references of tasks to pipes, consoles and files; fork and exit go through it. Files
read the floppy through the block device; the floppy waits for its interrupt by a semaphore, at boot after spinning
on a flag that the same interrupt sets.

### What is hard about it

Entry masks interrupts (`interrupt.mac:15`, `isr.asm:42`), so a handler or system call is one step up to the
place where it blocks. The difficulties are therefore:

- every place where a call waits: what it tested before may be false afterwards (pipe, console, floppy);
- the boot code, which runs as the idle task with interrupts *on* (`kernel.c:48`) and is compiled with `-O0`, so that an
  interrupt may fall between any two of its statements, and inside a `++` or `--` too;
- a signal from a handler while the idle task has the CPU, which switches tasks inside the handler, before the
  end of interrupt that follows the signal; the end of interrupt is sent much later, for whatever is in service
  then;
- intrusive lists mended by hand over any sequence of calls (run ring, wait queues, free pids, consoles);
- counts that stand for something distributed over tasks (mappings of a frame, descriptors of a device, readers
  and writers of a pipe);
- operations that fail half way (fork without kernel pages, `sys_pipe` without descriptors, a read error of
  the floppy, a mount that fails after its first read);
- bounded polls of hardware, after which driver and controller may disagree about what was transferred.

`PROJECT.json` lists them under `hazards`, each at the line where it bites, with the properties that cover it
or the reason why none does.

## 2. The modules

| Module | Models | Builds on |
|---|---|---|
| `Sched` | all of `sched.c` | |
| `Semaphores` | abstract: what `sem.c` promises | |
| `Kernel` | `loader.c`, `loader_switch.asm`, `sem.c`, boot | extends `Sched`, instantiates `Semaphores` |
| `Pipe` | `pipe.c`, one pipe | semaphores with the behaviour of `Semaphores` |
| `Console` | `con.c` | semaphores with the behaviour of `Semaphores` |
| `AddressSpaces` | abstract: the memory programs are promised | |
| `Mm` | `mm.c` and the memory part of `loader.c` | instantiates `AddressSpaces` |
| `Serial` | receiving in `serial.c` | |
| `Irq` | the PIC and the handlers of clock, keyboard, serial port and floppy (`isr.asm`, `pic.c`, `pit.c`) | extends `Serial` |
| `Devices` | `device.c`, and open, fork, flush and `sys_pipe` of every kind of device | |
| `Fdd` | `fdd.c`: initialisation and reading | semaphores with the behaviour of `Semaphores` |
| `Files` | `fat12.c`: mount, open, read, write, seek | the disk as `Fdd` delivers it |
| `KernelProofs`, `PipeProofs`, `ConsoleProofs`, `MmProofs`, `IrqProofs`, `DevicesProofs`, `FddProofs` | theorems | the module each is named after; `KernelProofs` is about `Sched` too, `DevicesProofs` about `Files` |
| `Numbers` | lemmas on induction, division and remainders | used by the other proofs |
| `MCSched`, `MCKernel`, `MCPipe`, `MCConsole`, `MCMm`, `MCIrq`, `MCDevices`, `MCFdd`, `MCFiles` | what TLC needs: symmetry, a disk | the module each is named after |

Variables and actions carry the names of the C variables and functions wherever there is one; where an action
stands for part of a function its comment says which. Definitions marked `Mutant` are not part of a model:
each is a wrong version of a definition, the way a bug in the code would be, that makes some property fail,
and shows that the property depends on the code.

**`Sched`** has the variables of `sched.c` (`tasks[]` split into `state`, `next`, `prev`) and one operator per
function. `SchedNext` adds the guards under which the kernel calls them: only the task that has the CPU blocks or
ends, only a blocked task is unblocked, and after the first load only running tasks load.

**`Kernel`** conjoins the scheduler's operators with what `loader.c` and `sem.c` change themselves. `loader_load`
and `sys_fork` are the same step here, since what tells them apart is memory. The boot code has interrupts on, so its
loads and stores are steps of their own wherever an interrupt sees a difference:

- Its load of the first task: `BootLoad` links the task and sets `last` (up to `sched.c:43`; before that nothing looks at the
  scheduler), `BootState` marks it `RUNNING` (line 44), `BootRead` loads `tasks_running` and `BootCount` stores it plus one
  (`loader.c:108`). In between the first task may run, sleep, load others and exit. The late mark may call a task
  `RUNNING` that sleeps or has ended, which is why `Blocked`, who sleeps, is read off the wait queues and not off `state`
  (`StatesTold` is how far the two agree, for every other task exactly). The late store may overwrite what the tasks counted;
  `miscount` records by how much, and stays.
- Its `sem_wait`: `BootTake` loads `vl`, `BootPut` stores it less one; a signal in between is lost. That boot finds
  a unit is taken from `Fdd`; `sem_wait` itself is for tasks.

`PidsExhausted` records that `get_new_pid` was
called on an empty list; what the code does from there on is undefined, so the model stops.

**`Pipe`** follows each task through `pipe_read` and `pipe_write` from wait to wait with a program counter. `cpu`
is the task inside the kernel; it keeps the processor until it waits or returns. Bytes are numbered in the order
written. A reader that finds fewer bytes than it wants sleeps once and then takes what there is, as the code does.

**`Console`** has `con_open`, the fork and close of a descriptor, `con_read` in two steps around its wait, the
keyboard handler and the two moves along the ring. `con_init` leaves a console that is allocated and in no ring;
after the last close it becomes current and a member. `SharedReads` says whether two tasks may be in `con_read` of
one console at a time.

**`Mm`** has a page table entry as a record of its frame and the bits the code tests. `Mappers` is
`mm_times_mapped`, `Freed` the frames `mm_table_free` gives back. Loads, forks, exits and both kinds of fault are
one action each; user stores and kernel stores follow the processor's rules, where the kernel ignores the
read-only bit because nobody sets `CR0.WP` (`kinit.asm:19-21`, `mm.c:148`). A fork that runs out of kernel pages
half way is `ForkRollback`, allowed only in `SpecShort`.

**`Irq`** has the 8259 as an external machine: `irr` the lines that ask, `isr` those in service; an end of
interrupt clears the highest line in service, whoever sent it. A handler is one action up to the place where it
gives the CPU away; what it has still to send is in `owes` until its task gets the CPU back, which may be long
after. The clock handler acknowledges twice; the serial handler returns without acknowledging when the ring is
full. **`Serial`** is its ring; `serial_init` leaves a ring that counts as full, and `serial_read`, whose counter is
never initialised, takes any number of bytes that some initial value would make it take.

**`Devices`** has the table of every task and, for each kernel page, which kind of device lives in it and the
reference counts (two for a pipe). Exit closes the entries one after the other (`Released`, a function on the number of
entries done), each flush seeing what those before it left. `stranded` are pages whose device can no longer be
reached by closing anything: the file that `run` leaves open, a pipe that failed to open.

**`Fdd`** cuts the driver at its waits: reset, configuration, recalibration, then per sector recalibrate, sense,
command, result. The controller is external. `Transfer` is a poll-and-transfer of bytes through `fdd_send_byte` and
`fdd_get_byte`: it may succeed, be refused, or lose step, with the off-by-one of the unsigned timeout as in the code
(`TimeLeft`). After a lost byte the controller is in phase `lost`, in which it may interrupt or answer anything.
A task's wait for an interrupt is one step, as interrupts are masked. That of the boot code is in steps (`boot_wait`): `Spin` ends
the loop on `fdd_int_recv` (`fdd.c:329`), `Clear` resets the flag (330), then `sem_wait` either loads `vl` (`Take`) and stores it
less one (`Put`), or finds no unit (`NoUnit`) and goes to the queue (`Enqueue`). The interrupt may come between any two of them.

**`Files`** names a byte of the disk by its sector and its place in it, so that a wrong sector or a wrong byte of the right one
shows. `disk` is the boot sector of the disk in the drive, `boot_sect` what the kernel read for it (the result of that read is
ignored, so any of the formats), `fat` the entries in pairs, as three bytes on disk hold two, each `Null` where nothing says what
the kernel holds. `root` is what `fat12_find_file` searches: the `"disk"`'s directory, or, after a mount that went wrong, something
`"unknown"`, in which it may find any file of any size, because `fat12_open` does not ask whether the mount succeeded.
`dataStart`, `Sector` and `Following` turn clusters into sectors as `fat12.c:225-239` does: in 16 bits and without
`SectorsPerCluster`. `OnFile`, on the other side of the property, says where a file's bytes are by the layout of FAT12, with
`SectorsPerCluster`. `Delivered` is when the driver below reads what it is asked for (`Fdd`'s `ReadsRight`): the boot sector is the
disk's own, its media descriptor tells the disk's geometry, the disk has two heads, and the sectors are on one track; other reads
may bring anything. The count of sectors, the clipping in unsigned arithmetic and the cursor are those of the code.
`ChainAssumption` and `Sound` (`DiskAssumption`) say what a sound disk is: chains long enough for the sizes, no cluster with two
successors, a root directory that fills its sectors. `FilesInit`, `FilesNext` and `filesVars` have long names because
`DevicesProofs` extends `Devices` and `Files`.

`ReadsFile` has as premises that the root directory was read (`root = "disk"`) and that a cluster is one sector. Neither is
a property of sound disks: they are what the code needs. Of the formats `fat12_media_desc` knows, one satisfies them, the
3.5 inch disk of 1.44 MB: the others have two sectors in a cluster, one head, or a root directory that goes on on a second track,
and the code reads them wrong. Without either premise TLC finds `ReadsFile` violated.

### Abstract specifications

`Semaphores` has values and first-in first-out queues as sequences, no links. `Kernel!ImplementsSemaphores` maps
each queue to the sequence found by following `task_table[].next` from its head, the runnable tasks to the
scheduler's ring, and a value that the boot code has loaded to what it will store (`Value`; a signal in between, which that store
overwrites, counts as one that was not made): every step of the loader and scheduler is a step of the semaphores or changes nothing they see.
Checked by TLC and proved (`KernelImplementsSemaphores`).
`Pipe`, `Console` and `Fdd` use semaphores of this kind, so what is checked of them rests on this refinement.

`Kernel` in turn refines `Sched`: it is proved (`KernelImplementsSched`) that loader and semaphores call the scheduler
only in the ways `SchedNext` allows, so what is proved of `Sched` holds in `Kernel`, of the states as they are told: the
refinement reads the first task's state as `RUNNING` from its load on, and as what it did since, where the code marks it late.

`AddressSpaces` gives each task its own memory, copied by fork, with shared segments. `Mm!ImplementsAddressSpaces`
maps a present page to the contents of its frame (`mem`), and a shared page to the segment named by its frame (`seg`).
Faults, copies and the bitmap disappear: sharing a frame copy on write cannot be told from a copy. Checked by TLC
and proved.

## 3. The runs

| Run | Configuration | Question | Result |
|---|---|---|---|
| `sched` | `MCSched.cfg` | scheduler, 4 tasks, quantum 2 | one ring, nobody lost, order, round robin hold; no deadlock |
| `kernel` | `MCKernel.cfg` | loader and semaphores, 3 pids, 2 semaphores | pids, queues, counters, refinement, waking hold |
| `pipe` | `MCPipe.cfg` | 2 readers, 1 writer, may close | mutex and order hold; between a pair flags are exact and every call returns |
| `pipe_full` | `PipeFull.cfg` | can a byte be put into a full buffer? | violated, finding 1 |
| `console` | `MCConsole.cfg` | 2 tasks, 2 consoles and the empty one | reachability, counts, keys, waking hold |
| `mm` | `MCMm.cfg` | 3 tasks, 2 pages, 5 usable frames | bitmap exact, copy on write sound, refinement holds |
| `mm_rollback` | `MmRollback.cfg` | forks short of kernel pages | violated, finding 2 |
| `irq` | `MCIrq.cfg` | four lines over 2 tasks and the idle one | clock never masked, nothing overwritten, requests taken; no deadlock |
| `devices` | `MCDevices.cfg` | 3 tasks, 2 descriptors each, 2 pages | counts, pages and tables of new tasks hold |
| `fdd` | `MCFdd.cfg` | boot and 2 tasks reading, bytes refused or lost anywhere | mutex, idle never blocks, right sectors, calls return; the last three in step |
| `fdd_mutex` | `FddMutex.cfg` | does a failed read give the controller back? | violated, finding 3 |
| `files` | `MCFiles.cfg` | 2 descriptors, 5 directory entries, 5 formats, errors at any read | reads deliver the file, under its premises |

Deadlock is checked in `sched` and `irq`, where the clock always has something to do. The others have it off: all
tasks may end, all may wait for input that does not come, and the models stop at their bounds.

### Bounds, and why they are enough

- `sched`: four tasks besides the idle one give rings in which the current task, its two neighbours and a fourth
  are all different, the largest case the link updates tell apart. `Quantum` is the code's 2. Proved for all sizes.
  `NoTaskLost` speaks of `state`, which in `Kernel` the boot code writes late for the first task (see `Kernel` above).
- `kernel`: with three pids two tasks can wait at one semaphore while a third signals, or two semaphores have
  waiters at once, and pids run out and are reused. `Quantum = 1`: every tick switches, as here a tick that does not only
  makes the run longer (`sched` has the code's 2). `MaxVl = 2` bounds a value: no signal when it is reached. The
  code compares values only with 0. The invariants are proved for all sizes.
- `pipe`: buffer of 2 and calls of 1 and 3 bytes: less than, and more than the buffer, so that calls wrap around,
  wait for room and wait for bytes. `Modulus = 5 > 2 * Size` numbers bytes so that a byte that is left over differs
  from every one expected. `MaxVl` stops new writes when the condition semaphore has that many stale signals, and
  `WriteEnter` when the buffer is overfull (after finding 1), else the state space is infinite. `UnreadInOrder`
  therefore speaks of the states before an overflow. Two readers make all the interleavings of one end;
  `SleepersFlagged` and `CallsReturn` speak of the states in which one reader and one writer are left (`Pair`): with two
  readers one flag stands for both and neither holds.
- `console`: two consoles besides the empty one and two tasks give every shape of ring the code tells apart;
  `Byte = 5` is the range of the unsigned byte, larger than the buffer as in the code; reads of 1, 2 and (refused) 3.
  At most one reader per console at a time (`SharedReads = FALSE`): see the last part of this section.
- `mm`: three tasks so that a frame can have three mappers and lose them in any order; a common page and the
  stack; six frames of which the last is never given out, so that frames run out. `Bits = 1` makes a word of the
  bitmap one frame. `KPages = 9` suffices for three tasks, so an allocation never fails in mid-fork; `MmRollback.cfg`
  has 5. In the passing run programs behave as those in `tasks/`: `Sharable = {1}`, they share a page they own
  (`ShareAny = FALSE`), and system calls fill buffers on the stack (`Buffers = {2}`). A fork marks the parent's stack copy
  on write too, but the child's stack is copied at once, so nobody else maps that frame and a system call that stores
  there harms nobody. A load or fork that finds no frame for a stack would map address 0; none such is modelled.
- `irq`: two tasks are one that waits and one that runs, or two that wait while the idle one runs; ring and UART of
  2, so that each is empty, partly full and full.
- `devices`: three tasks so that a device has two holders when a third is made or ends; tables of 2 fill up and take
  exactly one pipe; `Modulus = 8` is the width of the unsigned count, larger than the 6 descriptors there are. Programs do
  not call `pipe` with exactly one entry left (`PartialPipes = FALSE`), see the last part.
- `fdd`: boot reads sector 0, then several sectors in a call; two tasks read one at a time. Two cylinders, heads and
  sectors per track: reads that end a track, a side and go on. `Timeout = 3` polls before a byte is given up. `MaxVl = 2`
  stops interrupts without a cause once they have left two units: one for a wait, and one more that the `vl--` of the boot code
  overwrites.
- `files`: the boot sectors of five formats: 1.44 MB, the same with two sectors in a cluster, 1.2 MB (whose descriptor is
  that of another disk), 720 KB (whose root directory is on two tracks) and 180 KB (one head), each in the drive with each read for
  it. `DIR_ENTRY_SIZE = 1` and numbers of entries that fill as many sectors as in the formats. Sectors of 2 bytes, 2 of them in
  the page, so that files are empty, shorter and longer than their page; a
  deleted entry comes first in the directory and shares its cluster; one chain runs backwards over both halves of the pairs, one
  lies in the part of the FAT that is never read. `Word = 16` is the width of sizes. The two pages are symmetric.

### Fairness

`Kernel!Spec` and `SchedFairSpec` assume only that the clock keeps ticking (`WF` of the tick): the timer is periodic
and interrupts are off only inside the kernel. Nothing is assumed of tasks. `RoundRobin` says that once nobody is
loaded or woken any more every runnable task gets the CPU again and again; without that premise it is false of this
code, because woken tasks are put right behind the current one. `WaitersWoken` has its premise in the formula:
the semaphore is signalled again and again. `Pipe!FairSpec` adds weak fairness of each task's next step in
the kernel, which is `RoundRobin` of the scheduler seen from a pipe, and that the two programs go on calling,
which is the premise of `CallsReturn`. `pc` cannot move past a wait while the task is in a queue, so fairness does
not hide a lost wake-up.

`Irq!Fairness` is strong: the clock keeps asking, a handler whose interrupt the processor can take again and again is
entered (it is taken at the next instruction), and the tick picks every runnable task again and again (`RoundRobin`
again; `Irq` abstracts the ring to any choice). `IrqDelivered` has as a premise that programs stop opening the serial port
at some time: each opening makes the UART interrupt again, and its handler, finding the ring full, leaves lines 4 to 7
masked until some other handler acknowledges. The model also takes devices to ask more slowly than the processor
takes what it may take (`Quiet`).

`Fdd!Fairness`: the controller ends what it executes and its interrupt is taken; the boot code, which nobody else
competes with, goes on; and a task in the driver is scheduled again and again (strong, as others may take turns). It
does not assume that a read succeeds, that a byte is accepted or that the semaphore is signalled.

### Findings

Each is a property quoted from a comment, in a run of its own that TLC finds violated.

1. `pipe_full`: the reader never clears its busy flag (`pipe.c:119` is commented out), every write then signals a
   condition variable nobody waits on, and a writer that waits for room passes at once and writes into the full
   buffer without a new test (`pipe.c:177`).
2. `mm_rollback`: the undo of a half-made fork counts mappings through `task_table`, where the new directory is
   not yet, and frees frames the parent goes on using (`mm.c:281`).
3. `fdd_mutex`: two early returns of `fdd_block_read` (`fdd.c:140`, `fdd.c:144`) leave the section between its two
   comments without the signal; after one failed read every later reader waits for ever.

### Seen while modelling, without a run

Where the code has no comment or test that says otherwise, there is no run; the passing runs exclude these cases by
the premise or constant named.

- `sys_pipe` with exactly one descriptor left frees the page under the entry it made (`pipe.c:66`): with
  `PartialPipes = TRUE` `PagesExact` is false after two steps.
- A tick in the boot code's load of the first task (`loader.c:106`) lets that task exit before it is counted: the unsigned
  counter passes through -1. A tick inside the `++` leaves the status bar's counter one too high for good, and one between `sched.c:43`
  and 44 marks a task that sleeps or has ended `RUNNING`. `CountersExact` and `QueuesExact` state these exceptions.
- Once driver and controller are out of step at boot, an interrupt inside `vl--` sets `fdd_int_recv` and its unit is lost: the next
  wait of the boot code passes the spin and blocks the idle task. `BootNeverBlocks` holds while they keep step.
- Closing an end of a pipe wakes nobody (`pipe.c:195`).
- Two readers of one console overwrite each other's count (`con.c:52`, with a TODO): `SharedReads = TRUE`.
- A system call that stores into a page that is copy on write changes the memory of parent and child (`mm.c:469`):
  buffers outside the stack.
- `share_page` on a page that is only requested, or is copy on write, sets a bit that the next fault drops
  (`mm.c:375`): `ShareAny = TRUE`.
- A key before the first console, and a call on a descriptor that is not open, follow a null pointer (`con.c:226`,
  `device.c:40`).
- `fdd_block_read` crosses a track to the next cylinder instead of the next head (`fdd.c:151`): `OnOneTrack`.
- `fat12_open` takes a cluster for a sector (`fat12.c:234`) though `fat12_media_desc` accepts disks with two sectors in one,
  and searches whatever is there after a mount that failed (`fat12.c:193`): the premises of `ReadsFile`.
- `chardev_file_write` reads into the caller's buffer instead (`fat12.c:143`); the model does what the code does.
- A name opens the first entry it is a prefix of (`fat12.c:442`); a chain beyond the first four sectors of the FAT is
  followed through what the page held (`fat12.c:279`); nothing past a file's first sectors is ever loaded, and a read
  that starts past the end of a file has a huge size (`fat12.c:58`).
- The page of a file, of a serial port and of the program that `run` loads is never given back.
- Once the UART's edge is lost in a full ring, nothing is received until the port is opened again.

## 4. The proofs

TLAPS checks, for every value of the constants that satisfies the modules' `ASSUME`s (and, where a theorem says so, of the
constants that describe how programs behave):

**`KernelProofs`, the scheduler.** `SchedInv` is the conjunction of `TypeOK`, `LinksInverse`, `SingleRing`, `NoTaskLost`,
`CurrentInRing` and `QuantumPositive`. No part is inductive alone. A block may hand the CPU to `next[current_pid]`
only because that is in the ring (`LinksInverse`); the tick from idle needs `last` in the ring (`CurrentInRing`); a load
made from idle starts a new ring, which loses nobody only because no other task was ever loaded then
(last part of `CurrentInRing`); a wake-up from idle leaves the quantum alone, so that it must be positive already
while somebody is blocked (`QuantumPositive`). `SingleRing` says that a non-empty set of ready tasks closed under `next`
is all of them: this form of "one cycle" needs no induction. `LinkKeepsRing`, `RemoveKeepsRing` and `AloneMakesRing`
show it for the three ways the links change. Theorems: `SchedSafety`, `SchedTypeCorrect`, `SchedRing`,
`SchedNoTaskLost`, `SchedCurrent`, and the action property `SchedOrderKept`.

**`KernelProofs`, loader and semaphores.** `KernelInv` adds to `SchedInv` the types of the loader, that loader and scheduler agree on the current
task, that every live task has its directory, and the three properties about lists and counters. The free list and the
wait queues are stated as `SingleRing` is, as sets closed under a link (`PidsAccounted`, `QueuesExact`), so that a change of links is
an argument about sets; which pid a list ends at is found as the least counterexample over the pids. First come lemmas on
what each call of the scheduler does to the sets of ready and blocked tasks, then each list in terms of
those sets alone, then one lemma per action. The sets are read off the links (`Ready`, `Blocked`), never off `state`, which
the boot code writes late. `BootInv` is about the boot code: before its load no task was ever loaded; what its `++` has loaded is
0, or -1 if the first task had gone by then, and then the idle task, which must have the CPU to store, has it only when nobody is in
the ring: so the store is at most one too high. Theorems: `KernelImplementsSched` (`Spec => Scheduler!SchedSpec`, where `Scheduler`
is `Sched` with the states as the links tell them, `Told`; by it the theorems about `SchedSpec` carry over), `KernelTypeCorrect`, `KernelPids`, `KernelQueues`, `KernelCounters`, `KernelCurrent`.
They need more than one pid (`MaxPid > 1`).

`KernelImplementsSemaphores` proves `Spec => ImplementsSemaphores`. Sets closed under a link say who waits, not in which
order, so this proof has queues as sequences: `Ring(head, next, prev, Q)` says that the links run through the sequence `Q`
and back to its head, and `Queued(W)` that each semaphore has such a sequence in `W`, of blocked tasks, no task in two of
them. `RingAppend` and `RingTail` show that `loader_enqueue` appends to the sequence and `loader_unqueue` takes its head,
`RingElsewhere` that the other queues do not notice. `QueueIsRing` shows that `Queue`, the mapping, which follows
links `QueueLength` times, gives this sequence and no other. The invariant (`QueuesOrdered`) also needs that a semaphore with
units has no waiters: else `sem_wait` would take a unit that is promised to somebody in the queue.

**`MmProofs`.** `TablesInv` strengthens `FramesExact` and `WritableAlone` with: an entry is present exactly
when it has a frame (`EntriesOK`); dead tasks have no entries (`DeadEmpty`), or a load would forget mappings; a frame
is only ever mapped at one page number (`SamePage`), which is why `mm_times_mapped`, counting at one page
number, counts all mappings; and a present entry that is not copy on write may be written (`OwnedOrCow`), which with
`WritableAlone` is why `mm_table_free` may free such a frame without counting. The lemmas `MapFresh`, `FlagStep`, `ForkStep`
and `ExitStep` are the four ways tables change. Theorems: `MmTables`, `MmFramesExact`, `MmWritableAlone`,
`MmPoolExact` (the free kernel pages and those of live tasks are always all of them, by cardinality of the live set) and
`MmTypes`, which also needs that every live task has its stack mapped (`StackMapped`), or a fork would copy nothing.

`MmImplements` proves `Spec => ImplementsAddressSpaces` when programs share pages of their own and system calls store
into stacks (`ShareAny = FALSE`, `Buffers \subseteq {Stack}`). `SpacesInv` adds what the shared bit says of others: a shared page is
not copy on write, all who map its frame share it, a stack is mapped by nobody else, and a present page has
contents. `FreshView`, `FlagView`, `ForkView`, `ExitView` and `StoreView` give the address spaces after the ways tables and
frames change; a fault on a page that is copy on write is a stutter, a load, fork, share, store, first access and exit are the
actions of `AddressSpaces`. That an exit disturbs nobody else's contents follows from `FramesExact` after it.

These are theorems of `Spec`, without `ForkRollback`: finding 2 is that they do not hold with it.

**`IrqProofs`.** `IrqTypeCorrect`, `IrqClockNeverMasked` and `IrqNothingOverwritten`, for any number of tasks that left the CPU in
a handler: an end of interrupt never leaves line 0 in service because it is the highest, and every switch out of a clock handler
comes after one.

**`DevicesProofs`.** `DevicesStartClosed` needs only the tables (`TablesInv`). `DevicesRefsCounted` and `DevicesPagesExact`
(under `PartialPipes = FALSE`) need `RefsInv`: for each page, which kind of entry names it and, while one does, that
the counts are right; a console or pipe without a name was never named. A fork adds entries by the number of uses, by
cardinality of a disjoint union; an exit closes entries one by one, and the invariant is carried through `Released` by induction on
the entries done; the least-counterexample form of induction is used, and that the recursive function has the value its
equation says is proved first. That the count does not wrap follows from a bound on the number of entries.

`FilesReadFile` in the same module is about the open files behind descriptors: for every number and size of sectors
in a page, disks, files and programs, `ReadsFile` holds. It promises something only of disks with one sector in a cluster whose root
directory was read, which takes two heads and a descriptor that tells the geometry (`Mounted`). Its invariant `FilesInv` says
that after mounting the FAT in memory is that of the disk wherever it is known, and that an open file has a cursor that is a
number and, under those two premises, the size of the file that was asked for and the sectors of its first clusters (`Holds`).
`FindsFile` is the search of the directory, `DataStart` that the offset of the data area does not wrap and makes cluster 2 its first
sector, `SectorRead` that a single sector is on one track and so delivered, `ByteOnFile` that the place counted from it is the one
FAT12's layout says, `FatFollows` and `ChainFollows` the step through a pair of entries, `VisitsChain` the loop of `fat12_open`, `SectorsEnough` that
the count of sectors rounds up, `ClippedAtEnd` the unsigned arithmetic at the end of the file, `BeyondCursor` the loop past the
page. `Visited` and `Beyond` are recursive functions: that there is a function their equation describes is
proved by induction on how far it is defined. Assumed are what `ReadsFile` says (one sector in a cluster, the root directory read,
the read within the page, the chain in the part of the FAT that was read), `FilesAssumption` (sizes do not overflow, and no wanted
name is a prefix of another file's), `ChainAssumption` and `DiskAssumption` (sound disks).

**`FddProofs`.** `FddSectionExclusive`: what each `pc` says of the two semaphores (`FddInv`), and that no task calls the driver before
`Booted`, nor boot after it.

`FddBootNeverBlocks` says that boot does not block while driver and controller keep step, with interrupts between any two steps
of its wait. In step a command interrupts once, so that after the spin no other interrupt comes before the wait is over: the
unit is there for `Take`, and `Put` stores over nothing. Out of step it is false (see above).

`FddTypeCorrect`, `FddBootNeverBlocks` and `FddReadsRight` follow from `InStep`, the protocol between driver and controller. While they keep
step, a command that will interrupt has one waiter and `floppy_sem` no unit left (`Protocol`), so nobody is woken by an
interrupt of somebody else's command; the drive of the command is on and selected (`Selected`); what the
controller was told is the place the caller has come to (`Reading`); and what was copied so far is what was asked for (`Data`).
After a lost byte only the types and the mutual exclusion are claimed. `FddReadsRight` has the hypothesis `Heads = 2`:
`fdd.c:134-135` computes heads and cylinders with 2 whatever `fdd_block_ioctl` was told, so that on a disk with one
head the property is false.

**`PipeProofs`.** `PipeCriticalSection`, `PipeTypeCorrect`: the queue of the mutex has no task twice and only tasks whose `pc` says so; its
value is 1 only when nobody is inside. Every step does one of four things to the mutex, one lemma each.

`PipeUnreadInOrder`: `UnreadInOrder` speaks of buffers that are not overfull, and is not inductive, as a buffer that was (finding 1)
may become one that is not. `OrderInv` therefore counts backwards from the write cursor: the last `Size` bytes written, or as many as
are counted as unread, are where they were put, and the two cursors differ by that count modulo `Size`. This survives an
overflow. The guards of `WriteEnter` are part of `Spec` and so of the theorem; `MaxVl` is any number.

`PipeSleepersFlagged`: who queues at the condition variable is at one of the two places where calls sleep and has set
its flag, and with one caller on each side nobody else clears it (`Flagged`). The queue and the value of the condition semaphore
exclude one another (`Tidy`), so that a signal to a sleeper takes it out of the queue.

**`ConsoleProofs`.** `ConsoleHoldersCounted` (the count is the cardinality of the holders) and, for programs that never have
two reads on one console at a time, `ConsoleWokenWhenEnough`, which needs the first: a page that is freed under a
waiting reader would lose it. `Task` is assumed finite.

`ConsoleTypeCorrect` needs the first as well: no reference count passes the number of tasks. `ConsoleKeysInOrder`
(`SharedReads = FALSE`) counts backwards from the write index as `PipeUnreadInOrder` does; the unsigned count of keys does not
wrap in `con_read` because a woken reader finds as many keys as it asked for (`ConsoleWokenWhenEnough`).
`ConsoleAllReachable` is the ring of consoles: some set of open consoles, with the current one and all but perhaps the empty one in
it, is one cycle to the right and to the left (`RingInv`). Opening puts a console into the cycle, closing takes it
out (`Detour`, `Shortcut`).

**`Numbers`.** The library states induction with an operator as parameter, which the provers cannot instantiate. `Least` and
`Induction` state it for sets of numbers: a set of numbers that is not empty has a least one, and a set with 0 and the successor of
each of its numbers has them all. The rest is division: `DivMod`, that quotient and remainder are unique, and how
`Congruent` (equal remainders) passes through sums, which is the arithmetic of ring buffers.

Only model-checked: liveness (`RoundRobin`, `WaitersWoken`, `CallsReturn` of `Pipe` and `Fdd`, `IrqDelivered`), which the prover does
not do under fairness, and the three runs that end in a violation. Every safety property and both refinements of the passing
runs are theorems.

## 5. Not modelled

- Hardware set-up, output, the panic screen, FAT16 and hard disk stubs, programs: no state that other parts depend
  on, or empty.
- The writing half of the floppy driver: no caller, as the file system never writes. Register values, DMA, motor delays.
- `serial_write`: it polls with interrupts off and keeps no state. The second PIC: no device asks there.
- `sem_broadcast`, which nobody calls, and `test_scheduler`, which is a test.
- In `Mm`: page tables that `palloc` adds beyond the first, the bitmap of kernel pages (only how many are free),
  the temporary mapping page, the ring 0 stack and the program's own page, which fare like the pages modelled.
- In `Console`: what is drawn, scan codes, and the program that `sys_run` loads. A task holds at most one console
  there; descriptors in general are in `Devices`.
- In `Devices`: what is read and written. What a call does on a page that was freed under its descriptor, which the
  runs show does not happen while `PartialPipes` is FALSE.
- In `Files`: the second level of pages, which no code fills; where in its three bytes an entry of the FAT lies.
- Calls with descriptors that are not open and keys before the first console: the code follows null pointers.

## 6. What could follow

The models of one call in several modules (`sys_fork` in `Kernel`, `Mm`, `Devices` and `Console`) are each over the state of
their own; a composition over one set of tasks would show that they never disagree on who is alive. `Pipe`, `Console` and `Fdd` have
semaphores as sequences of their own; with `Semaphores` instantiated in each, the theorem about `Kernel` would carry over by
name. `FilesReadFile` takes `ReadsRight` for granted instead of instantiating the driver, and its premise on the part of the FAT
that is read could be computed from the size of a sector. Of what lies under the liveness properties, action properties
that bound how long a step can be put off (a task's distance in the ring falls with every tick) are within the prover's reach.
