# A TLA+ verification of Origin-OS

Origin-OS is a kernel for one x86 processor: preemptive threads, semaphores
and locks, a keyboard, IDE disks, paged memory with a heap, user processes, and
the beginnings of a file system.  This directory holds TLA+ models of its parts,
translated from the C code, the configurations that check them with TLC, and
proofs that TLAPS checks for any number of threads, locks, pages, disks, processes
and inodes: about the scheduler, the locks, the character queue, the page pools,
the disk driver, the processes and the open inodes.

    tlc -workers 2 -config MCSched.cfg MCSched      # model-check one run
    tlapm LockingProofs.tla                         # check the proofs of a module

`PROJECT.json` lists every run, the source lines each definition stands for, the
hazards the properties are aimed at, and, per property, a mutation of the model
that breaks it (operators with a comment that begins "Mutant").

## 1. The system

One CPU runs one thread at a time.  What a thread does with the interrupt flag
(IF) off happens in one piece, unless it blocks; with IF on, an interrupt, and
with the timer a switch to another thread, may come between any two
instructions.  System calls and interrupt handlers run with IF off; kernel
threads and `start_process` run with IF on.  An `ASSERT` that fails ends in
`panic_spin`, which turns interrupts off and loops for ever.

| Part | State | Operations | Hard to test |
|---|---|---|---|
| Threads, `thread/thread.c` | PCBs, `thread_ready_list`, time slices, IF | start, yield, block, unblock, `schedule`, idle | preemption in every place; one `general_tag` for all lists; `schedule` unblocks idle |
| Timer, `device/timer.c` | `ticks` | tick handler, `mtime_sleep` | wrap of the counter; the `uint8_t` slice |
| Locks, `thread/sync.c` | semaphore value, waiters, holder, repeat count | `sema_down/up`, `lock_acquire/release` | barging between wakeup and run; fields written with IF on |
| Character queue, `device/ioqueue.c` | ring, two waiter slots, lock | `ioq_getchar`, `ioq_putchar` | sleeping with the lock held; full and empty |
| Keyboard, `device/keyboard.c` | modifier status, prefix flag | interrupt handler | state carried from byte to byte, late bytes |
| Disks, `device/ide.c` | channel lock, `expecting_intr`, `disk_done` | `ide_read`, `ide_write`, interrupt | interrupt before the wait; interrupts nobody expects, and late ones; 256 as 0; time limits |
| Partitions, `device/ide.c` | `partition_list`, counters, `ext_lba_base` | `ide_init`, `identify_disk`, `partition_scan` | disks that do not answer or fail; array limits; early returns |
| Bitmaps, `lib/kernel/bitmap.c` | bits | scan, set | the end of the bitmap; a full one |
| Pages, `kernel/memory.c` | pools, virtual bitmaps, page tables, TLB | `malloc_page`, `mfree_page`, `get_kernel_pages`, `get_a_page` | scan and set are two steps; which lock protects what |
| Heap, `kernel/memory.c` | descriptors, arenas, free lists | `sys_malloc`, `sys_free` | long mixes of calls; headers at size limits |
| Processes, `userprog/` | `pgdir`, `self_kstack`, pid, cr3, `tss.esp0` | `process_execute`, `start_process`, activate | preemption before the first user instruction; `pgdir` borrowed by others |
| Lists, `lib/kernel/list.c` | pointers | insert, remove, walk | a walk with IF on |
| File system, `fs/fs.c` | super block, bitmaps, inode table | `filesys_init`, `partition_format`, `mount_partition` | loss of power while formatting; sizes at their limits |
| Inodes, `fs/inode.c` | `open_inodes`, open counts, inode table | open, close, sync | blocking between lookup and insert; counts and sectors without a lock |
| Rest | | boot code, IDT, system call table, printing, strings | |

The parts build on each other: the locks on the scheduler, the queue on the locks
and on the keyboard interrupt, the heap on pages and bitmaps and on the locks of
the pools, the disk on a lock, a semaphore and `mtime_sleep`, the file system on the
partitions, the disk and the heap, and processes on the scheduler and the pages.

## 2. Modules

| Module | Models | How |
|---|---|---|
| `Thread` | thread.c, tick handler | functions on a record: running thread, IF, saved IFs, status, ready list, slices |
| `Sched` | threads that use it in every way | one action per function; EXTENDS `Thread` |
| `Sync` | sync.c | steps of `lock_acquire`/`lock_release` over `Thread`, one shared access per step where IF is on |
| `Locking` | threads that nest locks | EXTENDS `Sync` with a client |
| `Mutex` | the promise of a lock | abstract; `Locking` implements it, `PagePool` and `Ide` use it |
| `Ioqueue` | ioqueue.c, the keyboard interrupt's put | EXTENDS `Sync` |
| `Fifo` | the promise of the queue | abstract; `Ioqueue` implements it |
| `Keyboard` | the keyboard handler, a keyboard | one action per key event, one per byte |
| `Bitmap` | bitmap.c | operators, and a first fit as reference |
| `Paging` | page half of memory.c | functions on a record: pools, bitmaps, page tables |
| `Heap` | sys_malloc, sys_free, get_kernel_pages, start_process's stack page | one action per call; EXTENDS `Paging` |
| `PagePool` | page allocation by several threads | one access to a bitmap or a table per step; EXTENDS `Paging` |
| `Process` | process.c, `update_tss_esp`, `allocate_pid`, the switch as the CPU sees it | steps between which another task can run; EXTENDS `Paging` with cr3, esp0 and a TLB |
| `Ide` | ide_read, ide_write, the disk interrupt | steps between the accesses to the channel, and a device |
| `Partition` | ide_init, identify_disk, partition_scan | one action per disk and per table entry; the recursion as a stack of frames |
| `Format` | fs.c, the power | EXTENDS `Partition`: the boot goes on with `filesys_init`; one action per element of the search and per write of the format |
| `Inode` | inode.c | one access to the list, a count or the disk per step |
| `ThreadProofs` | | lemmas: what each function of thread.c preserves |
| `SchedProofs`, `LockingProofs`, `IoqueueProofs`, `IdeProofs`, `ProcessProofs`, `InodeProofs` | | theorems about the module of that name |
| `PagePoolProofs` | | `bitmap_scan`; what each function of `Paging` stores; theorems about `PagePool` |
| `MC*` | | instances for TLC |

Names are those of the C code.  A step is what happens with IF off; where IF is on
and the order of accesses matters (`Sync`, `PagePool`, `Ide`, `Inode`) a step is one access
to shared state.  `panic`, in the scheduler state or as a variable, stands for
`panic_spin`: nothing happens after it.

The abstractions that are not obvious:

- *Scheduler state.*  `old[t]` is the IF that a thread gets back when `schedule`
  returns to it, whichever way it left.  A new thread has a PCB and status
  `TASK_READY` before it is on the ready list; the threads in that window are
  `creating`.  A thread that is created but not yet enqueued belongs to its
  creator.  Names and `thread_all_list` are left out; pids are in `Process`.
- *idle.*  `at` is where idle is in its loop: at `thread_block`, behind it with IF restored
  (`"sti"`), or at its hlt.  `late` is history: an interrupt came in the middle one of these.
- *Character queue.*  The keyboard handler is the only caller in the repository.  Threads
  that call `ioq_getchar` or `ioq_putchar` turn interrupts off around the call, as the
  ASSERTs of ioqueue.c ask of them; each of these ASSERTs is a test of the model, at every
  turn of the loops too, so that one that fails behind a sleep would be seen.
- *Tick counter.*  2^32 becomes `TickMod`; the time that has really gone by is kept
  beside it as history (`slept`).
- *Locks elsewhere.*  `PagePool` and `Ide` take what `Mutex` says for the lock and
  switch threads freely instead of through the scheduler: every schedule the kernel
  can produce is among the interleavings.
- *Bitmap.*  Bits `0..n-1` and one more, the bit behind the end, which
  `bitmap_scan` can read.
- *Memory.*  Sizes are scaled down: a page of 10 bytes with an arena header of 4
  and blocks of 2 and 4 has, like the code, blocks that do not fill the arena, a
  size that fits no block, and a size for which the header decides how many pages
  are needed.  `PageLimit` stands for the 3840 of `malloc_page`'s ASSERT.  In `PagePool` a
  `bitmap_set` is a load and a store of the `BitsPerByte` bits of a byte.  The entries of a
  page table are kept with their process and not with the frame they are in, so a behaviour
  is followed until a frame that is a page table gets a second use (`clash`).
- *Processes.*  Any ready task may come next: the order is `Sched`'s subject.  The
  kernel stack is a number, with the sizes of its two frames in place of their
  contents.  `start_process` has three steps: `self_kstack` is loaded, stored where the
  `intr_stack` begins, and loaded again for `proc_stack`.  A translation is cached when its page is touched and dropped when cr3 is
  loaded; `invlpg` names a word of the stack, so it drops none of a process.  Four
  variables are history and only name the windows the properties except: `unmapped`,
  `astray`, `early`, `raced`.
- *Keyboard.*  Eleven keys, at least one of each sort the handler tells apart, with
  their real codes.
- *Disk.*  A device has the data of all the sectors of a command at once, as an
  emulated disk has, and interrupts once per sector; the driver expects the first
  interrupt of a command and drops the others.  The interrupt controller latches one
  interrupt, which may arrive when the next command is already announced: IF is off in
  a system call.  `mistaken` is history: `intr_hd_handler` took such an interrupt for that of
  the new command.  Registers that are written while a device is at work (`overrun`) take
  effect or not; after that nothing is said of its data.  `MaxOp` is 256 in the code; a
  count of `MaxOp` becomes 0 in the register and in the transfer functions.  Callers
  ask for sectors the disk has.
- *Disk failures.*  At boot every `identify_disk` and every read of a partition table, every
  read of a super block and every write of a format may find `busy_wait` too short, and the
  kernel panics (`failed`).
- *Partition tables* are well-formed: at most one extended partition per boot
  sector, and in its tables one logical partition and then the link to the next.  The
  slave disks are alike.
- *Sectors* keep their addresses and hold a tag with what the file system put there; a
  bitmap is the set of its set bits.  608 sectors of inode table, 4096 bits of a sector
  and 8 of a byte are scaled down to 3, 8 and 2.
- *Loss of power* keeps the disk, with the first sectors of the write that was under
  way, and starts the boot again.  `torn` is history: the partitions whose format was
  cut off after the super block.
- *Inodes.*  What a file is, is a number that every change replaces.  The table is a
  row of cells, two to an inode and three to a sector, so that the second of three
  inodes lies in two sectors; a `uint8_t` holds 0 and 1, so that the third number does
  not fit.  `i_open_cnts++` is a load and a store, as the makefile's -O0 compiles it.
  `list_push` looks up the first element with IF on and inserts in front of it with IF
  off, in two steps.  A task that uses a freed block, inserts in front of an element
  that has left the list, or removes one a second time is `Astray` and not followed; what
  that does to the memory of the others is not modelled, so that the properties speak of
  behaviours up to there.  `lost`, `twice`, `misread` and `overwritten` are history: where
  two calls have overlapped so that a count, a copy or a place on the disk was hit.

## 3. Runs

Passing runs:

| Run | Instance | Shows |
|---|---|---|
| `sched` | 4 threads, one of which sleeps; counter modulo 3 | no ASSERT of thread.c fails; ready list = ready threads; idle halts only when nothing is ready, but for an interrupt between its `thread_block` and its hlt; sleeps are never short, across a wrap; every ready thread runs |
| `locking` | 4 threads (idle among them), 1 lock, depth 2 | exclusion, no lost wakeup, a thread on one list only, refinement of `Mutex`; a free lock with waiters is taken, a taken one is freed |
| `ioqueue` | ring of 3; any of two consumers and a producer, and the keyboard | refinement of `Fifo`, no failed ASSERT, those that interrupts are off included; with the keyboard and one consumer alone, the consumer sleeps only on an empty ring |
| `heap` | the kernel and a process, 4 pages each, two block sizes, six request sizes | allocations disjoint; free lists, arena counts and bitmaps exact; no frame has two uses; memory that is freed is free; only full memory and the limit of 3840 pages stop the kernel; the scan returns the first fit if there is one |
| `page_pool` | 2 threads in sys_malloc and sys_free, or a kernel thread and 1 or 2 starting processes, or 2 of these alone | the lock of the pool suffices where all take it; frames of the user pool are not shared, up to a page table whose frame is given out twice, and processes alone never get there |
| `keyboard` | 8 keys, 3 bytes | characters are those of the keys when they went down |
| `ide` | 2 threads, 2 disks of 3 sectors, commands of 2 | a command waits for exactly one interrupt and reaches an idle device, and requests are carried out exactly, unless a late interrupt was taken for another; calls return |
| `format` | 1 to 4 disks, 4 primaries, 3 logical partitions, 6 sizes, 1 loss of power | which boots with two disks get to their end; all partitions found once at their places; what stays allocated; what is mounted is what was formatted, what has a magic has all its tables, files survive |
| `inode` | 2 tasks, 3 inodes of which one exists, 2 addresses, 2 changes | an interrupted walk stays on the list; one copy, exact counts and own sectors, except in the overlaps that are named |
| `process` | 2 kernel threads, 2 processes, 2 pages each | own page directory, kernel stack, frame and pid, except in the windows that are named; stale translations end with the next switch |

Several properties, those of the last two runs above all, have the form "P, unless the
calls have overlapped in this way".  The code does not exclude those overlaps, and no
comment of the repository claims that it does; what the runs show is that nothing else
breaks P, so that the exceptions are the complete list of what a lock, or interrupts that
stay off, would have to cover.

Runs that end in a violation; each states what a comment of the repository says,
and the counterexample is a behaviour of the code:

| Run | Says | Does |
|---|---|---|
| `ioqueue_producer` | ioqueue.c:72, a producer that waits is woken by the consumer | both can sleep for ever: `ioq_wait` blocks with the lock held |
| `page_pool_unlocked` | memory.c:26, mutex when applying memory | `get_kernel_pages` takes no lock; one frame is given out twice |

What the models have as the code does it, and a reader might not expect:

- *bitmap.c:43.*  `bit_left` counts the first free bit, where the loop does not start:
  a run of several bits may end in the bit behind the bitmap.  `ScanIsFirstFit` says
  exactly when.
- *bitmap.c:28.*  A full bitmap fails an ASSERT before -1 could be returned, so what
  callers do about -1 is reached only when no run is long enough.
- *thread.c:39.*  idle's `thread_block` restores IF before `sti; hlt`.  A thread that an
  interrupt makes ready in between waits, with idle at its hlt, for the next interrupt; the
  timer's ends the wait, and `ReadyRuns` holds.
- *sync.c:33.*  A thread that `sema_up` has unblocked can find the semaphore taken again
  and queue a second time; the loop is needed, and `NoLostWakeup` holds with it.
- *memory.c:113.*  A page table comes from the kernel's pool, also when the caller holds
  the lock of the user pool: `PagesExclusive` therefore excludes starting processes, and
  beside a kernel thread that allocates, one frame can become a page table and something
  else.  The entries of the table are then at the mercy of that use, and two processes can
  get the same frames: `UserFramesNotShared` says that it takes that thread.
- *memory.c:132.*  `sys_malloc` accepts every size below `pool_size`, `malloc_page` less than
  3840 pages: a size that passes the one and not the other stops the kernel.
- *keyboard.c:134.*  With both shift keys held, releasing one clears the status of both:
  `keyboard` uses one key of each modifier.
- *ide.c:124.*  `time_limit -=10 >= 0` subtracts 1, so that `busy_wait` lasts some 300
  seconds and not the 30 of its comment.
- *ide.c:166.*  `expecting_intr` does not say whose interrupt is expected.  One of the last
  command that comes after `cmd_out` has announced the next ends the wait of that one too
  soon; a read then polls, but a write returns before its sector is stored, and the next
  command may find the device at work.
- *ide.c:255.*  The fourth primary partition fails the ASSERT although `prim_parts` has
  room for it.
- *ide.c:213, interrupt.c:105.*  The boot is over only with exactly two disks, as in
  bochsrc.mac; with one, as in bochsrc.wsl, or more than two it waits for ever for an
  interrupt, and `BootDone` makes no claim:
  `identify_disk` is called for both disks of every channel, and the mask 0xbf keeps the
  interrupts of the second channel out.  So only one disk is ever scanned, and that
  `ext_lba_base` (ide.c:242) and `part_idx` (fs.c:187) are not reset for a second one
  has no effect yet.
- *ide.c:264.*  The early return with a full `logic_parts` leaves one buffer allocated.
  `mount_partition` keeps its copy of the super block (fs.c:27).
- *fs.c:109.*  The super block is written first: a format that is cut off behind it is
  never done again, and the partition is mounted without root directory.
  `MountedIsComplete` says that no other crash does harm.
- *fs.c:100.*  `data_start_lba` leaves the room of two inode tables, and the bitmap has
  bits for it all the same.  So the last blocks lie behind the partition, as many as an
  inode table has sectors, less the one that the second rounding may save.  A partition
  with no room behind two tables has its root directory written over what follows it: a
  table of the chain, or the super block of the next partition.  `FormattedIsComplete` says
  that nothing else destroys a file system.
- *fs.c:76.*  In a partition smaller than its tables `free_sects` underflows, and rounding it
  up to sectors (global.h:119) wraps back to a bitmap of 0 sectors.  The buffer, as large as
  the inode table, is allocated.  The fault is the `memset` about 512 MB behind it
  (fs.c:122).  A partition that is at most one sector larger than its tables gets a bitmap
  of no sectors too, whose write fails an ASSERT.  In both cases the super block is already
  there: the next boot skips the partition and can get to its end, unless it is the first
  primary one, which is mounted.
- *list.c:23.*  `list_push` reads `head.next` before `list_insert_before` turns interrupts
  off: an element that is closed in between gets the new one linked in front of it.
- *inode.c.*  Two openers that overlap can get two copies of an inode; a count can lose
  an update; `inode_sync` undoes a sync of another inode in its sector that comes
  between its read and its write; and inodes from 256 on are written to the place of
  their number modulo 256.
- *memory.c:416.*  `invlpg` is given the address of the parameter: a page that is freed
  and allocated again before the next switch is reached in its former frame.
- *process.c:15.*  A process builds its frame where `switch_to` has left the stack pointer
  if it is preempted between `intr_enable` of `kernel_thread` and the load of `self_kstack`
  in `start_process`, or between the store of the moved one and the load of it for
  `proc_stack` (process.c:16).  A preemption between the first load and the store does no
  harm: the store replaces what `switch_to` has left.
- *inode.c:84, inode.c:112.*  A process that has to wait in `sys_malloc` or `sys_free` while
  its `pgdir` is NULL goes on with the page directory of the kernel until it is scheduled
  again.

### Bounds

`Threads` of four: with idle and main that leaves two more, so that a lock can have
a holder, a waiter and a thread that barges in.  `Sleepers` is one thread, since
sleepers only yield and do not look at each other, and `TickMod` 3 with sleeps of 1 and
2 makes every phase of a wrap happen.  One lock is enough for `locking` because locks
share nothing but the scheduler; the theorems are about any number.  `MaxDepth` 2
separates the inner from the last release.  `BUFFSIZE` 3 leaves 2 usable slots, enough
for every position of head and tail around the wrap.  `Pages` 4 lets arenas, large allocations and page tables
compete, leaves gaps of every length up to 3 for `bitmap_scan`, and lets the pools run
out; `MaxLive` is 3 allocations of the kernel and 1 of the
process.  `PageLimit` 4 with a size of 33 is a request that the pool's size allows and the
ASSERT does not.  In `PagePool`, `MaxPages` and `MaxRuns` 2 let a run be freed beside another,
and `BitsPerByte` 4 puts all bits into one byte, so that any two stores can meet.
`MaxBytes` 3 lets a key of two bytes wait behind another one.  `MaxOp` 2 with requests of
up to 3 gives commands that are full, not full, and both.  `Limit` 3 lets a disk be ready
at once, in the middle and too late.

In `format`, `Slots` 4 is the code's own; `Logics` 2 with `MaxChain` 3 is one logical
partition more than there is room for.  `Sizes` are below the size of the tables (5), with a bitmap
of no sectors (7), with a root directory in the super block of the next logical partition
(8) or in the next table (10), with a bitmap that needs a second sector only before its own
sectors are taken off (16), and with one of two sectors that ends inside a byte (17).
`MaxCrashes` 1: a second
crash could only cut off the format of another partition in the same way.  In `inode` two tasks can overlap in any two calls, `Copies` 2 is one for each,
and `MaxChange` 2 lets a file be changed and another be created; a
creation that another sync undoes leaves the number 0 in the table, so that a copy gets a
number that is not its own.  In `process`,
`UserPages` 2 are the stack and one page that is freed and taken again, and `Pages` 6 and
`TablePages` 3 let both processes run.

Deadlock is checked where the system cannot stop.  It is off where the kernel may
panic for a reason the properties allow (memory is full, a disk is too slow), where
the boot is over or waits for a disk, in `inode`, where a task that has gone astray stops,
and in `locking`, where nothing but a panic would stop the system
and `NoPanic` is checked.

### Fairness

- The timer keeps ticking: strong fairness, as interrupts may be off at times.
- Threads turn interrupts on again and go on when they have the CPU
  (`sched`: interrupts are enabled again and a creation under way is finished;
  `locking`, `ioqueue_producer`: steps inside calls and releases).  A thread has the CPU
  only now and then, hence strong fairness.
- idle runs its loop, `sti; hlt` included, when it has the CPU.
- A disk finishes a command, its interrupt arrives, and threads that use the disk are
  scheduled (weak fairness; `ReadyRuns` shows the last).  A disk may be slower than
  `busy_wait` is patient: `CallsReturn` allows for the panic.
- At boot there is one thread, and `ide_read` and `ide_write` return or panic
  (`CallsReturn`): `format` takes its next step (weak fairness of `Boot`), which may be that
  a disk fails.  The power stays in the end, as
  `MaxCrashes` is finite; nobody has to create a file.

No fairness is assumed of callers: nobody has to press a key or make a call.

## 4. Proofs

| Module | Theorem | States, for every value of the constants |
|---|---|---|
| `SchedProofs` | `TypeCorrect`, `NeverPanics`, `ReadyListIsExact`, `RunningThreadIsCurrent` | types; `NoPanic`; `ReadyListExact`; one thread is `TASK_RUNING` |
| | `IdleHaltsAlone` | `IdleHaltsOnlyWhenNothingIsReady` |
| | `SleepsLongEnough` | `SleepNotShort` (a property of steps) |
| `LockingProofs` | `TypeCorrect`, `NeverPanics`, `Exclusion`, `OneList`, `WakeupsAreNotLost` | types; `NoPanic`; `MutualExclusion`; `TagOnOneList`; `NoLostWakeup` |
| | `LocksRefineMutex` | `Locking` implements `Mutex` |
| `IoqueueProofs` | `NeverPanics`, `SleepsOnEmpty` | `NoPanic`; `SleepsOnlyOnEmpty` |
| | `QueueIsFifo` | `Ioqueue` implements `Fifo` |
| `IdeProofs` | `OneCommandAtATime`, `Transfers` | `CommandsDoNotOverlap`; `TransfersExact` |
| | `OnlyRequestedIsWritten` | `WritesOnlyRequested` (a property of steps) |
| `ProcessProofs` | `RunsInOwnSpace`, `FramesInPlace`, `PidsAreUnique`, `TlbIsCurrent` | `OwnSpace`; `FrameInPlace`; `PidsUnique`; `StaleOnlyUnmapped` |
| `PagePoolProofs` | `ScanFindsFirstFit` | what `bitmap_scan` returns for every bitmap and count |
| | `UserFramesApart`, `PagesApart`, `ExactWhenQuiet` | `UserFramesNotShared`; `PagesExclusive`; `QuietExact` |
| `InodeProofs` | `WalksOnList`, `ListedOnce`, `CountsHolders`, `SyncsKept` | `WalkOnList`; `OneCopy`; `CountIsHolders`; `SyncKept` |

Each module also has `Invariance`, that its `IInv` is always true.

The assumptions are those of the modules, and TLC evaluates them for the instances of
the runs: main and idle are two different threads and a priority fits a byte
(`ThreadAssumption`); sleeps are shorter than the range of the counter
(`SchedAssumption`); the threads other than main were started once each
(`LockingAssumption`, `IoqueueAssumption`), and a ring has at least one usable place; NULL is no thread,
no page directory and no frame (`SyncAssumption`, `NullAssumption`); there is a disk, and
sectors, limits and page counts are not 0 (`IdeAssumption`, `PagingAssumption`); kernel
threads and processes are different tasks (`ProcessAssumption`, `PagePoolAssumption`);
there are finitely many tasks, the root inode 0 exists and an inode is not larger than a
sector, as 76 bytes are not larger than 512 (`InodeAssumption`), and NONE is no address
and no inode (`NoneAssumption`).

**Scheduler.**  That no ASSERT fails is not inductive: whether `schedule` finds the
current thread already queued depends on the ready list being exact, and whether it
may unblock idle depends on idle being blocked whenever the list is empty.  `IInv`
therefore says `TypeOK`, `WellFormed` (no panic; the list holds exactly the ready
threads that are not in creation; only the current thread has the status
`TASK_RUNING`; what has no PCB is on no list) and `CreatedOnce` (a thread in creation
has one creator, never idle).  `ThreadProofs` shows once per function of thread.c
what it preserves, with `Between` for the state inside `schedule` in which no thread
runs; `SchedProofs` then has one step per action.  For the two properties about time,
`IdleInv` adds that idle behind its `thread_block` is not on the ready list and, while it
runs there, nobody is, up to an interrupt before the hlt (`late`), and `SleepInv`
that the wrapping counter is ahead of the start of a sleep by the ticks that have gone
by, or by that less one wrap.

**Locks.**  `IInv` adds to the scheduler's invariant `FrameInv` (what the place of a
thread in its call says about its lock and its nesting), `OwnerInv` (semaphore value,
holder and repeat count agree with the one thread whose frame owns the lock, in each
of the windows where they are half-written), `WaitersInv` (a thread is in the waiters
list of a lock if and only if it is blocked in `sema_down` of that lock) and
`NoLostWakeup`.  The refinement maps the owner of the abstract mutex to `holder`: a hold
begins when `lock_acquire` writes it and ends when `lock_release` clears it, both inside
the time in which the semaphore is taken.

**Character queue.**  The refinement needs of the invariant only the types of the ring:
`Content` reads the queue off `head`, `tail` and `buf`, a put appends and a get removes
modulo `BUFFSIZE`, and every other step leaves it alone.  `NoPanic` rests on `IntrInv` (in a
call interrupts are off, and wherever the caller sleeps it has saved that they are, so that
`schedule` and `sema_down` give it back the IF the next ASSERT wants), on the invariant of
the lock with its three windows, and on `RecordInv`: the thread in `consumer` or
`producer` is blocked in its own `ioq_wait`, so that `thread_unblock` accepts it, and
nobody else gets there, because it holds the lock while it sleeps.  `SleepsOnEmpty` is
about the queue with the keyboard and one consumer; `Alone` says that between the test of the loop
and the sleep interrupts stay off, so that the keyboard cannot fill the ring unseen.

**Disk.**  `OwnerInv` ties a call to the lock of the channel, `RoundInv` the registers
of the device to the progress of the call (a count of `MaxOp` is 0 in the register).
`WaitInv` says where in a call `expecting_intr` and `disk_done` announce one interrupt and
where none, and needs no assumption on when interrupts arrive: whichever comes first
turns the one into the other.  `DeviceInv` says for each place in the call in which states
the device can be; only a write whose wait was ended by a late interrupt (`mistaken`) leaves
a device at work behind, and so only then `overrun` can become true.  `DataInv` says what
has been transferred so far.  The theorems read off `WaitInv`, `DeviceInv` and `DataInv`.

**Processes.**  `MakingInv` says how far a process is that `process_execute` is making,
and that it is on no list; `PgdirInv` that `pgdir` is the process's own except in
`inode_open` and `inode_close`; `PidInv` bounds pids by `next_pid` and names the overlaps in which one is
read twice; `KstackInv` follows `self_kstack` through `thread_create`, `switch_to` and the
three steps of `start_process`, and shows that the window between the first load and the store
needs no exception; `TlbInv` keeps pages that are not mapped out of the TLB.

**Bitmaps.**  `bitmap_scan` is a loop, here a recursive function `RunLength`.  That it has the
value its definition says follows from exhibiting that value (`RunLengthRecursion`: the distance
to the last set bit), so that no induction over data is needed; `ScanFindsFirstFit` then
says that the scan returns the first fit, and what it returns when there is none inside
the bitmap.

**Page pools.**  `IInv` has three parts.  For all settings: `RunInv` (a run lies in its space
and as much of it is done as the place in the call says), `LockInv` (who owns which lock),
and `UserInv` (processes map frames of the user pool only, each marked and mapped once;
a frame that a process has found is free until it marks it, and then mapped nowhere until it
maps it; the bits it has loaded are those of the pool when it stores them).  With processes
alone: `TablesInv` (page tables are frames that the kernel's pool marks, one table each,
because all of them are taken under the one lock of the user pool), so that `clash` stays
false.
With the lock: `QuietInv` (no process takes part), `RunsInv` (runs do not overlap, and
the bitmap of virtual pages marks exactly the runs and what the one call under way has
marked) and `FramesInv` (exactly the pages of the runs are mapped, each to its own frame,
and the pool marks exactly these frames, apart from one that is taken before it is mapped
or given back before it is unmapped), and `LoadedInv` (no store of a `bitmap_set` undoes
another one).  The proof goes through the facts about the one
thread that is in a call (`RunsSolo`, `FramesSolo`): `SoloBefore` gets them from the
invariant, one lemma per step (`SoloFree` to `SoloVaddrClearStore`) preserves them, and
`SoloAfter` goes back.  `VaddrScan` and `PallocScan` use `ScanFindsFirstFit`: that what
the scan returns is free is the reason why nothing is given out twice.

**Inodes.**  None of the four properties is inductive.  `BlockInv` says that a block is
free, in the list, or in the hands of one task that inserts or frees it.  `NewInv` and
`CountInv` follow a copy from its allocation on: one task has it until it is inserted,
its count is 0 until that task sets it, and from then on the number of holders, unless
the copy is in `lost`; so a close that finds 1 is the last one.  `WalkInv` carries the
walk: `Path` is a set that has the element a task stands on and is closed under the next
pointers of elements that are being closed, and from each element of it in the list every
copy of the inode that is looked for lies ahead.  `list_remove` keeps this by adding the
successor, `list_insert_before` because it changes no order, and `sys_free` by telling the
walkers.  A walk that has come to the end has therefore missed nothing, and what it
inserts is the only copy (`OneCopy`), unless somebody else was looking for the same inode
(`twice`).  `SyncInv` says that the buffer of an `inode_sync` has, of all inodes but its
own and those in `undone`, what the table has; with `CellSector` (`inode_locate` finds
every sector an inode lies in) and `CellsDisjoint` the write back changes nothing else.
`OneCopy` and `SyncKept` depend on each other: that a copy has the number that was looked
for is what the table says in its place.  The proof has, for each action, one lemma on
what it does to the task that takes it (`OpenStep` to `SyncWriteStep`), and for each part of
the invariant one lemma with a step per action (`TypePreserved`, `BlockPreserved`,
`CountPreserved`, `WalkPreserved`, `SyncPreserved`), in which a frame lemma does the actions
that do not touch it.

`TypeOK`, `RunningIsCurrent` and `IInv` of these modules, with `IdleInv`, `SleepInv`,
`IntrInv` and `AloneInv`, are not among the invariants of the runs; TLC confirms them on the same
instances.

Only model-checked:

- liveness (`ReadyRuns`, `CallsReturn` and the others), which is outside what TLAPS 1.4.5
  proves;
- `Heap`: free lists are recursive data whose length matters, and `AllocationsDisjoint`
  depends on the arithmetic of blocks inside pages;
- `Keyboard`, whose property compares the characters with what a history of bytes means;
- `Partition` and `Format`, whose properties are about where a recursion ends, and compare
  what a boot has found with the tree of partition tables it came from.

## 5. Not modelled

The boot sector and the loader, the descriptor tables and the system call table are
straight-line setup.  print.S, console.c, string.c and stdio.c are output and pure
functions; of what they compute only names are used, which the models have as indices.
dir.c and file.c are unfinished: they use undeclared names and break off inside
functions, and nothing calls them, so that what they will do cannot be told from the
source.  fs.h lacks two semicolons; fs.c and inode.c are read as if they were there.
`inode_open` and its companions therefore have no callers yet, and `Inode` has them
called by kernel threads and system calls as dir.c does.

The copy of the kernel's directory entries in `create_page_dir` is left out: the loader
has filled in all of them, and none is added later.  Walks over lists other than
`open_inodes`, and `list_push` elsewhere, are one step.

## 6. Plan

1. Proofs: `AllocationsDisjoint` and `BitmapsExact` for `Heap`.
2. `List`: list.c with pointers, and walks of `elem_find` with interrupts on.
3. Both keys of a modifier in `Keyboard`, with the exact outcome stated.
4. Directories and files, once dir.c and file.c are complete.
