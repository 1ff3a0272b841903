# A verification of the coreOS kernel in TLA+

The repository is a teaching operating system in eight labs; each `labN/` is a full
copy of one small x86 kernel in a further state of completion. These modules
describe the most complete one, **lab7** (processes, scheduling, timers, semaphores,
monitors, memory) and, from **lab8**, the file system and the keyboard, model-check
them with TLC on small instances, and prove what matters most for every instance with
TLAPS.

Paths below are relative to `src/lab7/kern/` unless they begin with `lab`.

## 1. Inventory

The kernel runs on **one CPU** and is **not preemptive**: a kernel thread gives the CPU
away only inside `schedule()`. But system calls enter through a *trap gate*, so
interrupts stay on: a clock tick, with everything `run_timer_list` does, may fall
between any two kernel instructions that `local_intr_save` does not protect. That,
and the many paths on which a thread sleeps, is woken and is killed, is where the
difficult behaviours come from.

| part | state | operations | interacts with | what is hard | what makes it correct |
|---|---|---|---|---|---|
| process life cycle, `process/proc.c` | per process `state`, `wait_state`, `flags`, `parent`, `need_resched`; `current`; `nr_process` | `do_fork`, `do_exit`, `do_wait`, `do_kill`, `do_sleep`, `do_yield`, `init_main`, end of `trap()` | scheduler core (calls), timers (`do_sleep`), clock (interrupts) | interrupts on in `do_wait` and `do_sleep`; orphans handed to init; kill of a thread that is just going to sleep; a `timer_t` on a stack that may vanish | no lost wakeup, queue exact, zombies released once and by their parent, sleeps and waits end |
| family pointers, `process/proc.c` | `parent`, `cptr`, `optr`, `yptr` | `set_links`, `remove_links`, hand-over loop of `do_exit` | `do_wait` walks them | four pointers relinked in any order, next to freed structures | lists doubly linked, nothing dangling, the walk finds exactly the children |
| pid allocation, `get_pid` | static `last_pid`, `next_safe`; `proc_list` | `get_pid`, insertion, removal | `do_fork`, `do_wait` | a gap remembered from a list that has changed; wrap-around; `goto repeat` | the pid is free, the scan ends |
| scheduler core, `schedule/sched.c` | the run queue | `wakeup_proc`, `schedule` | the scheduling class, every sleeper | a tick wakes a thread that still has the CPU | the queue is what is runnable and not running |
| timers, `schedule/sched.c` | sorted list of differences | `add_timer`, `del_timer`, `run_timer_list` | clock, `do_sleep` | differences split and merged; zero differences at the head | each timer fires at its own tick |
| stride class, `schedule/default_sched_stride.c`, `lab7/libs/skew_heap.h` | skew heap, `lab6_stride`, `lab6_priority`, `time_slice` | enqueue, dequeue, pick_next, proc_tick | `schedule()`, the tick | strides wrap at 2^32; a new process starts at stride 0 | comparison is an order, nobody starves |
| semaphores and wait queues, `sync/sem.c`, `sync/wait.c` | `value`, `wait_queue`, `wait_t` on the waiter's stack | `up`, `down`, `try_down` | scheduler, `do_kill` | the permit is handed over long before its receiver runs | Dijkstra's semaphore; no stale `wait_t` |
| monitors, `sync/monitor.c` | `next_count`, `count`, two kinds of semaphores | `cond_signal`, `cond_wait`, entry, exit | semaphores | the signaller gives the monitor away and gets it back | a Hoare monitor |
| dining philosophers, `sync/check_sync.c` | `state_sema`, `state_condvar` | take and put forks, both versions | semaphores, monitor, `do_sleep` | both neighbours tested while others move | no neighbours eat together, all finish |
| physical pages, `mm/default_pmm.c` | free list in address order | alloc, free | everything that needs pages | joining with both neighbours while the list is walked | a free run is found if there is one, nothing is given out twice |
| kernel heap, `mm/kmalloc.c` | ring of free blocks, `slobfree`, big blocks | `kmalloc`, `kfree` | page allocator | a ring that wraps, splits, joins and grows; requests that fail half-way | blocks tile the pages, are large enough, nothing leaks |
| page tables, `mm/pmm.c` | entries, `page->ref`, cached translations | `page_insert`, `page_remove_pte`, `copy_range`, `exit_range` | allocator, TLB | an entry changes while the processor has it cached | each frame in one place, translations current |
| address spaces, `mm/vmm.c` | areas | `mm_map`, `dup_mmap`, `exit_mmap`, `do_pgfault` | page tables, swap, fork, exec, exit | overlap tests; failure while a program is loaded | each process has a private memory |
| swapping, `mm/swap.c`, `mm/swap_fifo.c` | the fifo of pages, swapped entries | `swap_in`, `swap_out`, victim | page faults | one global list; a fault that evicts while it runs | what was written is read, whichever frame it comes back to |
| open files, `lab8/kern/fs/file.c`, `fs.c` | descriptor tables | open, close, dup, seek, write, fsync, fork, exec, exit | inodes | counts shared by descriptors of several processes | tables and counts agree |
| inodes, `lab8/kern/fs/vfs/`, `sfs/` | reference and open counts, block maps, dirty flags | lookup, truncate, write back, reclaim | disk | a growth that runs out of blocks half-way | every block in one place, clean inodes on the disk |
| keyboard, `lab8/kern/fs/devs/dev_stdin.c` | ring buffer, wait queue | read, key interrupt | scheduler, `do_kill` | a kill and a key meet at a sleeping reader; a full ring | every character read once and in order, no sleep with input |

Not modelled on purpose: device drivers (`driver/`), boot code and trap entry in
assembly, the debugger, printing and string functions (`debug/`, `libs/`), user programs
(`lab7/user/`: the model's environment makes any sequence of system calls), generated
files, tools, and the earlier labs, whose code reappears in lab7. The round-robin class of
`default_sched.c` is commented out in lab7. `PROJECT.json` lists each part with
its reason, and under `hazards` each place in the code that is hard to test.

## 2. Modules

```
Process ── refines ──> ProcFamily          Timers <── refines ── TimerList ─┐
   └───── refines ──> Timers                                               │
   │                                  ProcTable  composes  ProcLinks, GetPid, TimerList
   │ leaves the choice among runnable processes open:      Stride
   │ takes distinct pids and exact family lists for granted: ProcTable
   │
   └ its RunQueueExact justifies the scheduler of
         Semaphore ── refines ──> CountingSemaphore
            │ EXTENDS
            ├── PhilosophersSem ──────────────┐
            └── Monitor ── refines ──> HoareMonitor
                   └── PhilosophersMonitor ── CheckSync (one dinner or the other)

Memory ── refines ──> UserMemory
KernelHeap ── EXTENDS ──> FirstFit ── refines ──> PageAllocator
Files ── EXTENDS ──> BlockMap;  Files ── refines ──> OpenFiles
Stdin ── refines ──> InputQueue

proofs: ProcessProofs, ProcTableProofs (with Stride's), SemaphoreProofs,
        CheckSyncProofs (with Monitor's), StdinProofs, MemoryProofs, KernelHeapProofs, FilesProofs
TLC:    MCMemory, MCFiles
```

The abstract specifications (`ProcFamily`, `Timers`, `CountingSemaphore`, `HoareMonitor`,
`UserMemory`, `PageAllocator`, `OpenFiles`, `InputQueue`) say what a part promises to
its callers; they are short enough to be read as the definition of correctness.

### Process

One action is one uninterruptible piece of kernel code; `pc[p]` says where `p`'s
kernel thread stands between two of them, and the action `Tick` can fall in at
each of these points. `Schedule(p, after)` is `schedule()`: it puts a runnable
caller back in the queue and gives the CPU to *any* queued process.

| code | actions |
|---|---|
| `do_fork` | `SysFork`, `InitForkMain` (both through `Fork`) |
| `do_exit` | `SysExit`, then `ExitZombie` (becomes a zombie), `ExitNotify` (interrupts off: wakes the parent, hands children to init), `ExitSchedule` |
| `do_wait` | `SysWait`, then `WaitReap`, `WaitSleep` or `WaitNoChild`; `WaitSchedule`, `WaitAgain` (the `goto repeat`, or the exit if killed) |
| `do_sleep` | `SysSleep`, `SleepSchedule`, `SleepReturn` |
| `do_kill`, `do_yield` | `SysKill`, `SysYield` |
| other system calls, failing ones | `SysNothing` |
| end of `trap()` | `TrapReturn`: exit if killed, schedule if asked |
| clock interrupt, `run_timer_list` | `Tick(expire)`; `expire` is the scheduling class's verdict on the time slice |
| `cpu_idle`, `init_main` | `IdleSchedule`, `InitSchedule`, `InitForkMain` |

A `proc_struct` is a slot of `User` and serves as its own pid. Memory and
files are in `Memory` and `Files`: here `do_fork` either succeeds or changes nothing, and
`do_execve` changes none of this state other than by `do_exit`. `do_kill` of init is left out: it is a
deliberate panic ("initproc exit"). The philosophers' kernel threads, which
`init_main` starts too, are in the synchronisation modules.

### ProcTable, with ProcLinks, GetPid and TimerList

`ProcLinks` has the four pointers of each process with `set_links`, `remove_links` and
each turn of `do_exit`'s hand-over loop as an action, so that the intermediate
states of the loop are states of the model. `GetPid` has one action per list element
of the scan, in any order, and both static variables. `TimerList` has the list of
`(process, expires)` and the three operations. `ProcTable` puts them together, for
they share the processes: one fork takes a pid, then links and inserts the new
process (`DoFork`), one release unlinks it (`DoWait`), a process exits only awake
(`DoExit`), and a kill of a sleeper deletes its timer (`SleepKilled`). `Family` in
`ProcLinks` reads the pointers as a family: a child that `do_exit` has not moved yet is already init's.

### Stride

The skew heap as the code has it, entries with `left` and `right` pointers, `2 * Half` strides that wrap,
`BIG_STRIDE`, priorities, time slices and `schedule()`. `skew_heap_merge` calls itself
once, and writes the result to the left pointer of the process it has chosen: `MergeCall` is one call, on its way
down, and `SkewMerge` follows the calls until one has nothing left to merge (`MergeReturn`). The code sets the pointers after the
call returns and the model before it; the calls below never look at them. The pointer
`rq->lab6_run_pool` is the left pointer of `None`. The model leaves out the heap's parent
pointers (only the root is ever dequeued, and its parent is always null) and idle's `need_resched`, which is
constantly set.

### Semaphore, Monitor and the philosophers

`Semaphore` models the thread switch inside `__down`: `DownBlock` up to `schedule()`,
`DownReturn` after it. `wait_state = "none"` stands for `PROC_RUNNABLE`; that the two
agree is `PcInv` of `Process`. The first part of the module are the operations, the
second a most general program of them. `Monitor` extends it, cutting `cond_signal` and
`cond_wait` at each semaphore operation, and again ends in a most general program. The
two philosopher modules are the actual programs of `check_sync.c`. They share nothing but
the scheduler, which both leave open, so `CheckSync` is either dinner, chosen at the
start.

### Memory

Nothing in `mm/` sleeps and the kernel is not preempted, so one operation runs at a
time. `step` says which, and its loops take one action per page: running out of frames may
hit any of them. The system starts inside `check_swap`, whose own sequence of accesses is
replaced by any sequence: this is the only time that `check_mm_struct` is set and
pages are swapped. `EndCheck` is its end; after it processes are spawned,
load programs, touch pages, fork, exit and are reaped.

| code | actions |
|---|---|
| the program's instructions | `Read`, `Write` (through cached translations), `Fault`, `FaultRefused` |
| `do_pgfault`, `alloc_pages`, `swap_in`, `swap_out` | `FaultPage`, `FaultSwapIn`, `Evict` |
| `check_swap`'s end | `EndCheck` |
| `do_fork`, `copy_mm`, `dup_mmap`, `copy_range` | `Spawn`, `Fork`, `CopyDir`, `CopyTable`, `CopyPage`, `CopyEnd` |
| `do_execve`, `load_icode`, `mm_map` | `Exec`, `LoadDir`, `LoadArea`, `LoadPage`, `LoadRefused`, `LoadOverlap`, `LoadEnd` |
| `do_exit`, `do_wait`, `proc_run` | `Exit`, `Reap`, `Switch` |
| `alloc_page` without a frame, after the check | `OutOfMemory` |

`LoadRefused` is every quiet failure of `load_icode`: no ELF file, a bad header of any segment, an area at the start
of the segment. `FaultRefused` needs no case for a page that may not be read (`vmm.c:413-421`): a page is absent only in the stack's area
or `check_swap`'s, and both can be read.

Three things the code does are worth knowing. A fault that fails kills no process but
panics, in user mode too (`trap/trap.c:208`). After the check a lack of frames
panics as well, because `swap_out` reads through the null `check_mm_struct`; the
only allocation that may fail quietly is the kernel stack's. And a program whose
second segment starts below and reaches into the first is not refused: `mm_map`
does not see it, and the assertion of `check_vma_overlap` stops the kernel, while one
that starts inside the first is refused in order. The instance has a program of each kind.
`mm_map`'s areas are a set; `find_vma`'s cache gives the same results. A page first
touched holds what its frame held, since nothing clears it.

### KernelHeap, over FirstFit

`FirstFit` is `default_alloc_pages` and `default_free_pages` on the list of free pages, each
page in it, with `property` at the head of each block; `PageAllocator` is a set of
free pages. `KernelHeap` is `slob_alloc`, `slob_free`, `__kmalloc` and `kfree` on blocks with
headers inside those pages, where other users of pages (`TakePages`, `ReturnPages`) come and go. A page request of one
page that cannot be served stops the kernel (`Halted`); one of several pages is refused. The assertion at
`mm/kmalloc.c:100` fails for requests of 4080 to 4087 bytes, which nobody makes: the
assumption `KernelHeapConstants` excludes them. It also keeps requests to at most two pages or exactly four, the
sizes that occur (the larger ones in lab8), because `find_order` drops the odd bytes when it halves
a size: two pages and one byte would be given two pages.

### Files, over BlockMap

Each call on files is one step: the kernel is not preempted and lab8's disk driver polls, so
none of them gives up the CPU, and the semaphores of the file system are free whenever one
starts. `BlockMap` is the block map of an inode, direct and indirect, with the allocation
failures of its growth. `Files` has the descriptor tables, the inodes in memory with
their counts, and the disk. Files exist from the beginning, in one directory:
`vop_create` is not implemented in lab8 (an `open` that would create a file fails the
assertion in `vop_create`), and neither are removal and renaming. `sfs_io_nolock`,
which transfers bytes, is the exercise that lab8 leaves open; what it does to a file's size is
`Write`. Note that `O_CREAT` alone truncates a file that exists, also one opened for reading.

### Stdin

`Key` is the interrupt handler. A read runs with interrupts off but for `schedule()`, so it is one
step up to the place where it sleeps (`Read`, `ReadAgain`). `Kill` wakes a sleeper, whose entry
stays on the wait queue until it runs (`ReadInterrupted`); a key that comes first makes it `ReadAgain` and
perhaps sleep again, although killed. A key that finds the ring full replaces the oldest
unread character; `InputQueue` says so, and says no more about it. `sysfile_read` reads by pieces of `IOBUF_SIZE`, but
only one (`Piece`): `stdin_io` returns the count, which ends the loop (`lab8/kern/fs/sysfile.c:94`). A read that
fails outside the device (no memory for the piece, a bad address) is left out.

## 3. What the runs check

Each property has a mutant: a definition of the model changed the way a
plausible bug would change the code, with which TLC finds the property violated
(`PROJECT.json`, `mutants`). The type invariants, `TypeOK` and its like, and the
inductive invariants of the proofs, and `PicksLeast`, were found to hold on the same instances before anything was proved;
the runs do not repeat them, for the proofs cover more. Symmetry is used only
in `files`, for the two files, which every definition treats alike.

| run | instance | states | shows |
|---|---|---|---|
| `process` | 2 user slots, sleeps of 1 | 6 191 | `RunQueueExact`, `TimerInFrame`, `SleeperHasWaker`, implements `ProcFamily`; `WaitReturns`, `SleepReturns`, `OrphansReaped`, `KilledExitsOrWaits` |
| `process_count` | same | - | finding: `NrProcessTwo` fails |
| `proc_table` | 4 user processes, `MAX_PID` 6, `MAX_PROCESS` 5, 3 timers of up to 2 ticks | 782 572 | `DoublyLinked`, `WalkFindsChildren`, `PidFresh`, implements `Timers`, `ScanEnds` |
| `stride` | 3 processes, 8 strides, priorities 0 (at first) and 2 | 1 466 368 | `StridesClose`, `NobodyStarves` |
| `semaphore` | 3 threads, 2 semaphores up to 2 | 24 852 | `QueueExact`, `NobodyWaitsInVain`, implements `CountingSemaphore`, `DownReturns` |
| `monitor` | 4 threads, 2 conditions | 264 992 | `OneMonitor`, implements `HoareMonitor` |
| `philosophers` | 4 philosophers; 2 meals by semaphores or 1 by monitor | 610 227 | `NeighboursNeverEat`, `HungryRemembered`, `DinnerEnds` |
| `memory` | 2 processes, 17 frames (2 for `check_swap`), 5 virtual pages, 3 programs | 292 675 | `PagesAccounted`, `TlbCoherent`, `EntriesFollowAreas`, `FifoExact`, implements `UserMemory` |
| `kernel_heap` | 3 pages of 4 units, requests of 2, 3, 8 and 16 bytes (a page is 8), 4 blocks at a time | 247 974 | `HeapTiled`, `BlocksLargeEnough`, implements `PageAllocator`, `GrowSuffices` |
| `files` | 2 processes, 2 descriptors, 2 files (symmetric), 3 blocks | 884 804 | `CountsExact`, `BlocksAccounted`, `CleanOnDisk`, implements `OpenFiles` |
| `files_truncate` | 1 process, 1 file, 2 blocks | - | finding: `TruncateAsserts` fails |
| `stdin` | 2 readers, a ring and a piece of 2, reads of 1 and 3, 2 characters | 50 165 | `SleepersQueued`, implements `InputQueue`, `InputServed` |

Why the bounds are enough:

* *Two user slots* in `process`: with idle and init there are four processes, init
  being a third that waits and inherits. An orphan that leaves an orphan of its own needs three slots; the
  theorems about `SleeperHasWaker` and `ProcFamily` cover them, as they cover any sleep
  and any number. `MAX_PROCESS = 7` is above
  what the slots need so that the count, which leaks (see *Findings*), stops forks only
  late.
* *Four user processes* in `ProcTable` make a family with a youngest, an inner and an oldest child,
  whose parent dies while init already has children. `MAX_PID = MAX_PROCESS + 1` is the tightest case the
  code's `static_assert` allows, with pids that wrap. Three timers of up to two ticks give insertions
  before, between and after others, equal and zero differences, and deletions of heads that leave zeros behind.
* *Eight strides* (`Half = 4`) wrap after a few picks. Their number changes nothing else in the
  code, and the theorems hold for any. `MAX_TIME_SLICE = 1` keeps both an expired and an unexpired slice.
* *Four philosophers* rather than the code's five: the smallest even table on which
  two can eat at once and everybody has two distinct neighbours that are not
  neighbours of each other. One or two meals of `TIMES = 4` are enough
  for a put to meet a second take, and for a put that wakes both neighbours. Each philosopher's
  neighbourhood looks the same at five.
* *Memory*: two frames for `check_swap` (the code has four) with three pages to touch
  make every third page evict another. Fourteen frames afterwards are those of two kernel stacks and two full address
  spaces less a few, so that memory runs out in every operation that takes some; five pages in two page tables
  put a table in the middle of a program's area.
* *KernelHeap*: a page of four units holds free blocks that join below, above and on both sides, and pages that are not
  neighbours make the ring wrap over a gap. Two small sizes give an exact fit and a split; 8 and 16 are a
  page and two.
* *Files*: one direct block and two in an indirect one, with three blocks on the disk for two files: a growth can fail at
  the direct block, at the indirect block itself and within it. Positions 2 and 5 are one and three blocks. Two open
  descriptors (`MaxOpen`) can be in one process or two, on one file or two.
* *Stdin*: ring and piece are equally long, as in the code (both 4096). A read of three is cut to a piece of
  two, which the ring rarely holds at once, so that reads sleep with one character or none.

`CHECK_DEADLOCK FALSE` stands in seven configurations: in `Semaphore.cfg` and `Monitor.cfg` all threads may
rightly block for ever (the program is arbitrary), the philosophers' programs end
(`DinnerEnds` excludes every deadlock before that), and the kernel may stop in a panic in
`MCMemory.cfg`, `KernelHeap.cfg`, `MCFiles.cfg` and `MCFiles_trunc.cfg`.

### Fairness, and why the code justifies it

* A thread inside the kernel goes on (`WF` of its steps while it has the CPU): there is no
  other thread that could stop it. User code has no fairness: it may loop for ever.
* The clock ticks (`WF(Tick)`), and the time slice of a process that keeps the CPU
  ends (`WF` of `Tick(TRUE)`): `proc_tick` counts `time_slice` down at each tick.
* The scheduling class picks every process that stays runnable, even if it comes and goes
  (`SF`, per process). This is the assumption about the stride class that
  `Stride` examines: `NobodyStarves` holds for programs that stop
  changing priorities. It was also checked, without a run of its own, with the default priorities at 3 and 4 bits and
  with fixed mixed priorities. Its limits are given under *What the models do not show*.
* In `ProcTable` the scan of `get_pid` runs to its end: interrupts are off.
* `Monitor` is checked for safety only; the philosophers need only that the system as a
  whole goes on (`WF` of `CheckNext`): `DinnerEnds` holds for *every* scheduler.
* In `Stdin` each reader that is awake runs (`WF` of its `Resume`). Nobody has to type, read or kill.
* `Memory`, `KernelHeap` and `Files` run one call at a time and are checked for safety.
* `DownReturns` assumes that permits keep coming to that semaphore and that
  the scheduler is fair; the queue's order does the rest.

## 4. What is proved

For **every** number of processes, threads, semaphores, conditions, philosophers and readers, every size of the
keyboard's ring, every `MAX_PID > MAX_PROCESS` and every sleeping time; for every number of frames, pages,
page tables and programs; for every number of units in a page and of blocks of the heap; for every disk, block map, number of files and of descriptors; and for every number
of strides (`Half`, 2^31 in the code) and all priorities:

| module | theorem | says |
|---|---|---|
| `ProcessProofs` | `TypeCorrect`, `RunQueueCorrect`, `TimersCorrect`, `WakeupsCorrect`, `NoLostWakeup`, `ParentsCorrect` | the state invariants of `Process` |
| | `ZombieFateCorrect` | the action property: a process dies by its own hand and is released once, by its parent |
| | `FamilyRefinement`, `TimersRefinement` | `Process` implements `ProcFamily` and `Timers` |
| `ProcTableProofs` | `PidFreshCorrect`, `TablePidFresh`, `GapFreeCorrect` | `get_pid` returns a free pid, alone and in the process table; the remembered gap stays free |
| | `DoublyLinkedCorrect` | the sibling lists are doubly linked and start at `cptr` |
| | `WalkFindsChildrenCorrect` | `do_wait`'s walk ends and meets exactly the children |
| | `LinksImplementFamily` | the pointers implement `ProcFamily` |
| | `TimersCorrect` | the list of differences implements `Timers` |
| | `RunPoolCorrect` | the skew heap links exactly the runnable processes but the current one, each once, whatever the strides |
| | `StridesCloseCorrect` | as long as processes join with close strides, all strides are within `BIG_STRIDE` of a least one |
| | `PicksLeastCorrect` | the action property: `schedule()` takes a process that can run, idle if there is none, and, if all have joined with close strides, one with a least stride |
| `SemaphoreProofs` | `QueueCorrect`, `GrantCorrect`, `NoWaitInVain` | wait queues exact, down only with a permit, nobody waits for a free one |
| | `CountingRefinement` | `Semaphore` implements `CountingSemaphore` |
| `CheckSyncProofs` | `OneMonitorCorrect` | the monitor is always in exactly one place |
| | `HoareRefinement` | `Monitor` implements `HoareMonitor` |
| | `NeighboursNeverEatCorrect` | no two neighbours eat at once, in either dinner |
| | `HungryRememberedCorrect` | at rest, a hungry philosopher has a neighbour that eats and will test it |
| `StdinProofs` | `StdinTypeCorrect`, `NoSleepWithInput` | the ring's positions stay in range; no reader sleeps while there is input |
| | `InputRefinement` | `Stdin` implements `InputQueue` |
| `MemoryProofs` | `TypeCorrect`, `FramesAccounted` | each frame is free, put aside, left behind by `check_swap` or used for one thing, with the right reference count |
| | `CachedEntriesCurrent` | what the processor has cached is what the page table holds |
| | `EntriesInAreas` | mapped pages lie in an area with its permission; the panic of `do_pgfault` for a page that cannot be written is unreachable |
| | `ReplacementList` | the FIFO list names each present page of the checked mm once, with its frame |
| | `MemoryRefinement` | `Memory` implements `UserMemory` |
| `KernelHeapProofs` | `KernelHeapInvariant` | the page manager's data agree, the blocks of the ring tile the heap's pages, every block in use has its owner |
| | `UnitsTiled` | each unit given out is in one place, nothing leaks |
| | `AllocationsFit` | what `kmalloc` returns is as large as was asked for |
| | `OnePageIsEnough` | the action property: after the ring has grown the search finds its block |
| | `FirstFitRefinement` | `FirstFit` implements `PageAllocator` |
| `FilesProofs` | `Invariant`, `CountsCorrect` | inodes are in memory as long as they are used, with exact counts |
| | `BlocksCorrect` | each block is free or has one place in one file |
| | `InodesOnDisk` | a clean inode is on the disk |
| | `FilesRefinement` | `Files` implements `OpenFiles` |

The assumptions are those on the constants, each in the module that declares them, and
TLC evaluates them in the runs: `ProcAssumption` and `BoundAssumption` (idle and init
are two processes outside `User`; bounds are natural numbers), `PidAssumption` (the
code's `static_assert`), `LinkAssumption`, `TimerAssumption` and `TableAssumption` (idle is 0, init is 1 and every other
pid may be a user process that sleeps), `StrideAssumption` (finitely many processes, idle and `NULL` not among them; at least two strides),
`ThreadAssumption` (finitely many threads, none of them idle; `NULL` is no
thread and no semaphore),
`MonitorAssumption` (the mutex, `next` and the conditions are different semaphores),
`PhiloAssumption` and `DinnerAssumption` (the philosophers are 0..N-1, each with a condition of its own,
and eat at least once), `StdinConstants` (a ring and a piece of at
least one character, reads of at least one), `MemoryConstants` and `ProgramConstants` (sizes and programs),
`FirstFitConstants` (there are pages; `None` is no number and no answer) and `KernelHeapConstants` (a page is a whole number
of units, a `bigblock_t` is larger than a unit and fits a page; the sizes of requests, see *KernelHeap*),
`BlockMapConstants` (at least one direct block and one entry; finitely many blocks, none of
them block 0), `FilesConstants` (finitely many processes and descriptors) and `NoneAssumption` (`None` is no
open file, inode or table).

**Process.** None of the invariants is inductive by itself. That no wakeup is
lost needs to know where a thread can stand while it sleeps: between `state =
PROC_SLEEPING` and `schedule()` a tick may already have woken it. `IndInv` therefore joins `PcInv`, which
ties `state` and `wait_state` to `pc`, to `TimerInFrame`, `RunQueueExact`,
`ParentCanWait` and `SleeperHasWaker`. Each conjunct has a lemma of its own
with one step per action; `Wakeup` and `Schedule`, which most actions share, have lemmas
of theirs. The refinement of `ProcFamily` goes through the invariant: a process counts
as dead when `ExitNotify` has told its parent, and `ParentCanWait` makes that parent
able to release it.

**ProcTable.** The three tables meet only in the guards, so each has an invariant of its own. *Pids*: `IndInv` of `GetPid`
adds to the two properties what the half-done scan knows: the
candidate is free of the pids already passed, and the gap excludes *those*. A
release can only make gaps larger, and a fork takes a pid at its lower end.
*Pointers*: `DoublyLinked` speaks of neighbours and would hold of a ring that no `cptr` reaches, which a release then
could leave behind. `NoRing` excludes that in a form that each operation keeps: in every set of children one has its older
sibling outside the set (the oldest), and one is nobody's older sibling in it (the youngest). A new head cannot
close a ring, and cutting one child out is the same as looking at the set with that child put back. From the youngest it
follows that a process without `cptr` has no children (`NoKids`), so the loop of `do_exit` has moved them
all, and that the walk meets every child; from the oldest, that it ends, for a walk longer than the number of processes would visit
some process twice. While `do_exit` moves the children, the `yptr` of the next one is stale (`Stale`): `SiblingsOK`
says that it names one that has moved already, so nothing else points to it.
*Timers*: the due time of a timer is the sum of the differences up to it. Insertion, deletion and a tick each change the
list at one place; `AddStep`, `StopStep` and `CountStep` give the due times of the new list outright, and they are its
sums because sums are unique (`DueUnique`). That no timer at the head has zero left is what the loop of `run_timer_list` has to
guarantee (`TimersOK`), and the timers that fire are a prefix of the list (`Prefix`).

**Stride** (last part of `ProcTableProofs`, which uses nothing of the other parts but that a set of numbers
has a least one). The heap first, without regard to the order. `IsHeap` says
that no two pointers name one process and that whatever contains the head and is closed under the pointers
contains every queued process: nothing is lost, nothing is linked twice, and there is no cycle apart from the heap. The calls of
`skew_heap_merge` keep `CallOK`, which says the same of a heap that is in three pieces:
what is merged already, under the head, and the two heaps `a` and `b` that the call still has to merge. Where the next root
goes is the left pointer of the process chosen last; the chosen ones, `D`, lead there from the head by left pointers
alone. Each call takes a root out of `a` or `b` and makes it the next of `D` (`CallStep`), and as `D` cannot outgrow the
processes, the calls end within `Cardinality(Thread)` (`MergeEnds`). None of this
looks at how the comparison comes out, so it holds although `proc_stride_comp_f` need not be an order.
*The order*: while all join close (`joinedClose`), the strides are those of a numbering by integers, none of which is more than
`BIG_STRIDE` above another (`Close`), and for such strides the wrapped comparison is the one of the numbers
(`CloseCompares`). The heap is then ordered by these numbers (`InOrder`), and the root is least because the processes with
numbers no less than the root's are closed under the pointers (`RootLeast`). `StridesClose` is not inductive: it needs
both, that the root is least, and that raising the least by `BIG_STRIDE / priority`,
which is at most `BIG_STRIDE`, leaves all numbers close. A process that joins may need other numbers (`CloseNumbering`: count from the new least
stride), but on those that are in the heap both numberings agree with the comparison, so the heap stays ordered
(`WakeKeeps`). A process that blocks leaves the others as close as they were.

**Semaphore.** `IndInv` adds to the queue, grant and no-vain-wait conjuncts that
whoever runs is runnable (`CpuInv`). For the refinement, a permit that `up` hands to a waiter counts as
a permit until that thread has returned from `down`: `Permits` adds the
cardinality of the set of such threads, and the proof follows it through each step.

**Monitor** (first part of `CheckSyncProofs`; it uses `MonitorAssumption` and none of the assumptions about philosophers). That the monitor is in one place rests on four other facts, which with it make
`MonInv`: what a thread is queued for shows where it goes on (`QueuePc`); a thread that has given the
monitor away reaches its own `down` before any other runs (`DownsNext`); `next_count` and `count` are the
numbers of threads in `cond_signal` and `cond_wait` (`CountsRight`, by cardinalities of sets of threads); and
all semaphores but the mutex only hand permits over (`OnlyHandedOver`): this is where the counts
matter, because an `up` that the counts did not announce would store a permit. The
lemmas take the set of a program's places inside the monitor as a parameter. For the refinement the owner of the abstract
monitor is the one holder that `MonInv` finds. A thread that stands before its `down` already counts as waiting or as urgent,
although it is not queued yet; there is at most one such thread, and it is the one that runs, so it comes last in its queue either way.
Whom a thread that gives the monitor away passes it to is decided by the counts, and `CountsRight` makes them agree with the abstract queues.

**CheckSync.** `Table` says that only an `EATING` philosopher has forks and that no two
neighbours are `EATING`. With the monitor each test keeps that alone: a philosopher
goes on to eat only when it has seen itself `EATING`, and what `cond_signal` and `cond_wait` return to cannot be a
place with forks. With semaphores the forks come with a permit of `s[i]`, so `Seated` follows
each permit: it is counted, on its way to `i` or spent only while `i` is `EATING`, and a philosopher that a test
finds `HUNGRY` has none. Who waits for what comes from `SemaphoreProofs`, instantiated
with the semaphores of that dinner. This never uses that the mutex excludes: tests are atomic on one CPU without preemption.
That nobody is forgotten does use it. `Remembered` follows a debt: a philosopher that has put its forks back and tested its left
neighbour owes the right one a test, and until it is made the hungry right neighbour may
have nobody eating next to it. The three tests of the code keep `Remembered` for any table and any set of debtors (`TakeSettles`,
`PutSettles`, `PutRightSettles`), so both dinners share them. A debtor is inside, and while the mutex is free nobody is: with semaphores because the mutex is in one place
(`MutexPlaced`), with the monitor because of `MonInv` and because the mutex is only released
when no signaller waits to come back (`FreeInv`).

**Stdin.** `TypeOK` and `SleepersQueued` are inductive together. The refinement maps the ring to the
sequence of its unread characters; its lemmas are about positions modulo the size of the ring:
that a key appends to that sequence, or, in a full ring, replaces its head, and
that a read takes its front.

**Memory.** Everything that uses a frame is a label: a kernel stack, a directory, a page table or a mapped
page. `Partition` says that a frame which is not unused is held by exactly one label, and every
action is seen as taking frames for one label that had none (`Taken`) or giving back those of a set of
labels (`GivenBack`): five small lemmas about one label's frames replace a case analysis over pairs of uses in every
action. What is not inductive by itself is what an operation half-way relies on. `PhaseOK` says which processes
exist and what they have at each value of `step`; `BareOK` that a space without a directory has no tables, pages or areas;
`FaultOK`, `CopyOK` and `LoadOK` what holds between two turns of the loops: that a page being filled lies in its area and is not
mapped yet, that the child has exactly the parent's pages that are no longer to be copied, that the pages still to be loaded
are in the new area and not mapped. `TlbOK` ties cached translations to the entries while the running space has areas, without
which no access gets as far as the cache: the translations `check_swap` leaves behind are stale only as long as that is so.
For the refinement a space is live when it has areas, and `LiveOK` adds what the abstract space needs to know of one that is
being filled: that a parent has areas to copy, that a program that has been loaded has some, and that the pages fork has copied
have equal contents. A write shows in one page only because no two entries name one frame (`SameFrame`), and a frame that is taken shows nowhere
because nobody held it (`FreeUnseen`).

**KernelHeap.** `HeapTiled` counts the places of each unit; its inductive form speaks of three layers. *Pages*: `FirstFitOK` says that
the list ascends, that its length is `nr_free`, and, in `RunsOK`, that exactly the first page of each maximal run of free pages carries
the run's length. A page given out keeps a stale `property`, which would be taken for a run's when it comes back: `Inner` says that the pages of a block
that somebody has, but its first, have 0. `PagesOK` keeps the blocks of pages that others and big blocks have apart from each other and from the free ones.
Taking from and giving to a run are each one lemma about sets and functions (`RunsTake`, `RunsGive`) and one about sequences (`ListTake`,
`ListPut`); that a request is refused only when nothing fits follows, as a run that would do lies in a maximal one (`HeadsFit`).
*Ring*: `Shape` says that every free block's `next` is the least free address above it, or the arena, from where the
ring starts again, and that blocks do not overlap. The
code's operations are compositions of five steps that keep it: a block is dropped, put in or joined to its neighbour (`slob_free`),
shortened or unlinked (`slob_alloc`). Both searches are walks round the ring, and that a walk of as many steps as there are
free blocks meets every one of them (`RingAll`) has to be shown without induction: it meets
some block twice, as it has one step more than there are blocks, and what lies between is a part of the ring that nothing leads out of,
which can only be the whole (`Closed`: it has the arena, as its steps cannot go up for ever, and a block
that it lacked would be what the last one below leads to). With that `Spots`
shows that `slob_free` finds its place, and `FitFinds` that `slob_alloc` finds a block if there is one. A
new page cannot be missed, since its block, alone or joined, is on the ring, and no request is larger: this is `OnePageIsEnough`.
*Owners*: `CoverOK` says that the blocks cover exactly the units of the heap's pages, those that are neither free nor anybody
else's; `BoxesOK`, `HeldOK` and `UsedOK` give each block in use its one owner. That `kfree` never takes a small block for a big one
(`Body`) needs both: a small block has at least two units, so its body begins in a page that the heap covers, and a big block's page is none of them.

**Files.** The block maps of all files together are one function from places (direct block, indirect block and
entry, of each file) to blocks, and `Allotted` says that each block is free or at exactly one place. That alone is not inductive: an
indirect block that is taken from the free ones brings its entries with it. `Clear` says that a block in no use as an indirect block
has none (`sfs_clear_block` when it is taken, emptied entries when a file shrinks), and `Shaped` that a
file longer than its direct blocks has an indirect one, without which shrinking would follow pointer 0. `SavedOK` says what the disk
may lack of a clean inode, so that `Put`, which drops the inode, leaves the places of all files as they are. The loop of `sfs_truncfile`
is proved for any number of rounds: the set of the rounds after which the map is good is closed under one
more round, and the library's theorem that every non-empty set of numbers has a least element does the rest; that the
recursive function of the loop exists is proved by building it. `CountsExact` follows sets of descriptors by cardinality;
`fork` adds as many users as the parent's table has entries for a file. The refinement then needs only what each call does to
`files` and to the size of each file.

Only model-checked: every liveness property (`WaitReturns`, `SleepReturns`, `OrphansReaped`, `KilledExitsOrWaits`, `ScanEnds`,
`DownReturns`, `DinnerEnds`, `InputServed`, `NobodyStarves`), which the prover cannot reach, as it does not
reason about fairness and `ENABLED`. Every other property of a passing run is a theorem: all
invariants, action properties and refinements.

## 5. Findings

* **`nr_process` drifts** (`process_count`). `do_fork` increments it (`process/proc.c:467`) although
  `set_links` has done so (170); `remove_links` decrements it once. The assertion
  `nr_process == 2` at the end of `init_main` (880) fails, as the log
  `lab7/.hello.log:301` records, and in the long run `do_fork` refuses for ever.
* **A failed growth breaks a file** (`files_truncate`). `sfs_truncfile` grows a file block by block and
  leaves at the first block it cannot get (`lab8/kern/fs/sfs/sfs_inode.c:911`), keeping those it has got. The next
  truncation to the size the file has fails the assertion `tblks == din->blocks`
  (900) and stops the kernel: a seek on a full disk and an open with `O_TRUNC`.
  The same property is violated, on a larger instance, by a seek beyond what the block map can
  hold: `sfs_tryseek` accepts 128 MB, the map ends at 1036 blocks, and the first index above
  panics (286).

Seen while modelling and shown by passing runs, which state what the code does:

* *A killed process may wait for ever.* If a process is runnable when it is killed and its next call is
  `wait`, then `do_wait` goes to sleep without a look at `PF_EXITING` (`process/proc.c:773`); a second kill is
  refused. `KilledExitsOrWaits` says that this is the only way to survive. A killed reader of the keyboard that is hit
  by a key may sleep again in the same way (`SleepersQueued` describes it).
* *`check_swap` loses its frames and leaves translations behind*: it frees its four frames and the page table into a list that it then
  overwrites (`mm/swap.c:260`). `PagesAccounted` has exactly these as `Lost`. The stale
  translations are harmless, as the first program is entered over an `lcr3` (`TlbCoherent`).
* *A long read of the keyboard ends after one piece*: the loop in `sysfile_read` is meant to go on with the next 4096
  characters, but takes the count that `stdin_io` returns for an error (`lab8/kern/fs/sysfile.c:94`). `InputQueue` has
  it as `Most`.
* *An exclusive open of a file that exists keeps a reference* (`lab8/kern/fs/vfs/vfsfile.c:46`), counted as `leaked`
  in `CountsExact`: the inode is never dropped from memory.
* *A block can be counted without the inode becoming dirty* (`lab8/kern/fs/sfs/sfs_inode.c:353`, against the comment at `sfs.h:72`): after a
  growth that failed within an indirect block a clean inode has more blocks than
  the disk knows of. `CleanOnDisk` allows exactly this.

## 6. What the models do not show

* `Stride`: a program that changes priorities without end and blocks can starve a
  process with eight strides; whether such a run exists with 2^32 is open. A priority above
  `BIG_STRIDE` makes the pass 0, and its process keeps the CPU, which `Lab6.md:138` rules out;
  the run keeps priorities below. `StridesClose` and
  `PicksLeast` hold as long as every process that is forked or wakes has a stride close to those that are runnable
  (`joinedClose`). A fork sets the child's stride to 0, which is close while its parent and the others are at
  `BIG_STRIDE` or less, or have wrapped to just below 0; a later child, or a process that has slept, may be so far from the others that
  the comparison is no order. From then on, until nobody is runnable, the models say only that the heap loses no process and that nobody
  starves. That processes are picked in proportion to their priorities is not stated at all. Forks are
  finite in number, because `nr_process` leaks.
* A tick falls between steps of the model, not inside them. Steps were merged only where
  the tick's effect on them commutes; each action's comment says what it covers.
* `Process` treats a fork that fails as no change. With the code's allocators only the kernel stack can be refused, before
  anything is linked; `Memory` has that case and the panics.
* Two page-table entries never name one frame, because `mm_count` and `share` are never used; the
  reference counts are checked all the same.
* The positions `p_rpos` and `p_wpos` of the keyboard grow without wrapping until they overflow 31 bits; the
  model keeps them modulo the ring.
* `Files` has no directories that change, no devices and no bytes (see above), and all its files are open for
  reading and writing.

## 7. Not modelled, and what is left

* *Not modelled, for good*: drivers, boot and trap entry, the debugger and printing, generic lists and strings, user programs,
  the round-robin class that the stride class replaces, generated files and build products.
* *Coverage.* The repository holds eight copies of one kernel. The models follow one copy of
  each part (lab7's, and lab8's for files and the keyboard: 12 500 lines with headers), of
  which they cover about 3 300; measured against all eight copies, boot loaders, tools and user programs that is some five per cent. The
  other copies are the same functions at earlier stages, often with
  their bodies left as exercises, and modelling them would say nothing new.
* *Left to model*: the semaphores of the file system, should the disk driver ever sleep; directories and
  transfers, once lab8's exercises are filled in; `do_fork` over `Process`, `Memory` and `Files` at once; the `parent` pointers
  of the skew heap, which only a dequeue of another process than the root would need.
