------------------------------- MODULE Process -------------------------------
(***************************************************************************)
(* User processes (userprog/process.c, userprog/tss.c, the process half of *)
(* thread/thread.c): how kernel threads create them, how they enter user   *)
(* mode, and what schedule() leaves in the registers of the processor when *)
(* a task gets it: the page directory in cr3, the kernel stack in tss.esp0 *)
(* and the translations in the TLB.                                        *)
(*                                                                         *)
(* The memory is that of Paging, every function of which is atomic here,   *)
(* without the kernel pages of the task_struct, the vaddr bitmap and the   *)
(* page directory of a process, which are never given back.  The order of  *)
(* the ready list is left to Sched: here any ready task may come next.     *)
(* Tasks lose the processor wherever interrupts are on.                    *)
(***************************************************************************)
EXTENDS Paging, FiniteSets

CONSTANTS
  Threads       \* the kernel threads; the first task is one of them

ASSUME ProcessAssumption ==
  /\ Threads # {} /\ Threads \intersect Processes = {}
  /\ PageLimit > 1

VARIABLES
  cur,          \* the running task
  ready,        \* the tasks of thread_ready_list
  next_pid,
  task,         \* task[t]: what a task does, and what its task_struct says
  cr3,          \* the space whose page directory is loaded
  esp0,         \* the task whose kernel stack an interrupt in user mode takes
  mem, tlb,     \* the memory, and the cached translations of pages of processes
  unmapped,     \* history: the pages unmapped since the last switch
  astray,       \* history: the processes that got the processor without their pgdir
  early,        \* history: the processes that lost it before their frame was placed
  raced         \* history: the processes whose allocate_pid another one overlapped

cpu == <<cr3, esp0, tlb, unmapped>>
history == <<astray, early, raced>>
vars == <<cur, ready, next_pid, task, cpu, mem, history>>

Tasks == Threads \union Processes

\* Sizes on the kernel stack of a task, whose top is 0, and where switch_to leaves it.
intr_stack == 3
thread_stack == 2
Saved == -(intr_stack + thread_stack + 4)

\* The page of USER_STACK3_VADDR.
StackPage == UserPages - 1

Init ==
  /\ cur \in Threads /\ ready = Threads \ {cur} /\ next_pid = 0
  /\ task = [t \in Tasks |-> [pc |-> IF t \in Threads THEN "kernel" ELSE "none",
                              pid |-> 0, pgdir |-> NULL, kstack |-> 0,
                              frame |-> 0, new |-> NULL]]
  /\ cr3 = Kernel /\ esp0 = NULL
  /\ mem = mem_pool_init /\ tlb = {} /\ unmapped = {}
  /\ astray = {} /\ early = {} /\ raced = {}

Runs(t, pc) == cur = t /\ task[t].pc = pc
Set(t, pc) == task' = [task EXCEPT ![t].pc = pc]

-----------------------------------------------------------------------------
(* process_execute, by a kernel thread.                                    *)

\* The task_struct is allocated, and allocate_pid counts, under its lock.
BeginExecute(t, p) ==
  /\ Runs(t, "kernel") /\ task[p].pc = "none"
  /\ next_pid' = next_pid + 1
  /\ task' = [task EXCEPT ![t].pc = "counted", ![t].new = p, ![p].pc = "created"]
  /\ LET others == {task[u].new : u \in {v \in Threads : task[v].pc = "counted"}}
     IN  raced' = IF others = {} THEN raced ELSE raced \union others \union {p}
  /\ UNCHANGED <<cur, ready, cpu, mem, astray, early>>

\* Mutant: every process has the first number.
ReturnPid_first(t) ==
  /\ Runs(t, "counted")
  /\ task' = [task EXCEPT ![t].pc = "numbered", ![task[t].new].pid = 1]
  /\ UNCHANGED <<cur, ready, next_pid, cpu, mem, history>>

\* The lock is free again when the number is read.
ReturnPid(t) ==
  /\ Runs(t, "counted")
  /\ task' = [task EXCEPT ![t].pc = "numbered", ![task[t].new].pid = next_pid]
  /\ UNCHANGED <<cur, ready, next_pid, cpu, mem, history>>

\* thread_create reserves the place of the two frames on the kernel stack.
CreateThread(t) ==
  /\ Runs(t, "numbered")
  /\ task' = [task EXCEPT ![t].pc = "built", ![task[t].new].kstack = @ - intr_stack - thread_stack]
  /\ UNCHANGED <<cur, ready, next_pid, cpu, mem, history>>

CreatePageDir(t) ==
  /\ Runs(t, "built")
  /\ task' = [task EXCEPT ![t].pc = "append", ![task[t].new].pgdir = task[t].new]
  /\ UNCHANGED <<cur, ready, next_pid, cpu, mem, history>>

\* With interrupts off the process is put into the lists.
AppendReady(t) ==
  /\ Runs(t, "append")
  /\ ready' = ready \union {task[t].new}
  /\ task' = [task EXCEPT ![t].pc = "kernel", ![t].new = NULL, ![task[t].new].pc = "kernel_thread"]
  /\ UNCHANGED <<cur, next_pid, cpu, mem, history>>

-----------------------------------------------------------------------------
(* schedule.                                                               *)

\* Mutant: a kernel thread goes on with the page directory that is loaded.
page_dir_activate_user(t) == IF task[t].pgdir # NULL THEN task[t].pgdir ELSE cr3

\* The page directory that is loaded for t.
page_dir_activate(t) == IF task[t].pgdir # NULL THEN task[t].pgdir ELSE Kernel

\* Mutant: cr3 is not loaded with what it has.
LoadCr3_lazy(s) == cr3' = s /\ tlb' = IF s = cr3 THEN tlb ELSE {}

\* A load of cr3 empties the TLB.
LoadCr3(s) == cr3' = s /\ tlb' = {}

\* update_tss_esp is for processes.
process_activate(t) ==
  /\ LoadCr3(page_dir_activate(t))
  /\ esp0' = IF task[t].pgdir # NULL THEN t ELSE esp0

\* The running task loses the processor to u, which is itself if no other is ready;
\* switch_to saves its stack pointer in self_kstack.
schedule(u) ==
  /\ u \in ready \union {cur}
  /\ cur' = u /\ ready' = (ready \union {cur}) \ {u}
  /\ process_activate(u)
  /\ task' = [task EXCEPT ![cur].kstack = Saved]
  /\ unmapped' = {}
  /\ astray' = IF u \in Processes /\ task[u].pgdir = NULL THEN astray \union {u} ELSE astray \ {u}
  /\ early' = IF task[cur].pc \in {"kernel_thread", "moved"} THEN early \union {cur} ELSE early
  /\ UNCHANGED <<next_pid, mem, raced>>

-----------------------------------------------------------------------------
(* A process.                                                              *)

\* start_process begins: self_kstack is loaded, into a register,
LoadKstack(p) ==
  /\ Runs(p, "kernel_thread")
  /\ task' = [task EXCEPT ![p].pc = "loaded", ![p].frame = task[p].kstack]
  /\ UNCHANGED <<cur, ready, next_pid, cpu, mem, history>>

\* Mutant: self_kstack is moved over the wrong frame.
MoveKstack_over_intr(p) ==
  /\ Runs(p, "loaded")
  /\ task' = [task EXCEPT ![p].pc = "moved", ![p].kstack = task[p].frame + intr_stack]
  /\ UNCHANGED <<cur, ready, next_pid, cpu, mem, history>>

\* moved back over the thread_stack and stored,
MoveKstack(p) ==
  /\ Runs(p, "loaded")
  /\ task' = [task EXCEPT ![p].pc = "moved", ![p].kstack = task[p].frame + thread_stack]
  /\ UNCHANGED <<cur, ready, next_pid, cpu, mem, history>>

\* and read again for proc_stack, where the intr_stack is then filled in.
StartProcess(p) ==
  /\ Runs(p, "moved")
  /\ task' = [task EXCEPT ![p].pc = "start_process", ![p].frame = task[p].kstack]
  /\ UNCHANGED <<cur, ready, next_pid, cpu, mem, history>>

\* A page that is touched is used as it is cached, or else as the page table has it.
Touched(m, v) == IF \E e \in tlb : e[1] = v THEN tlb ELSE tlb \union {<<v, m.pte[cr3][v]>>}

\* The stack of the process, and the jump to user mode.
EnterUser(p) ==
  /\ Runs(p, "start_process")
  /\ mem' = get_a_page(mem, p, StackPage)
  /\ Set(p, "user")
  /\ UNCHANGED <<cur, ready, next_pid, cpu, history>>

\* A user process runs; in any other space than its own its first access faults.
InUser(p) == Runs(p, "user") /\ mem.fault = "none" /\ cr3 = p

Access(p, v) ==
  /\ InUser(p) /\ mem.pte[p][v] # NULL
  /\ tlb' = Touched(mem, v)
  /\ UNCHANGED <<cur, ready, next_pid, task, cr3, esp0, mem, unmapped, history>>

\* sys_malloc and sys_free of a page; sys_malloc clears it.
Malloc(p) ==
  /\ InUser(p) /\ ~SpaceFull(mem, p)
  /\ mem' = malloc_page(mem, p, 1)
  /\ tlb' = Touched(mem', FreeRun(mem, p, 1))
  /\ UNCHANGED <<cur, ready, next_pid, task, cr3, esp0, unmapped, history>>

\* The invlpg of page_table_pte_remove names the parameter vaddr, a word of the kernel
\* stack, and so drops no translation of the page.
Free(p, v) ==
  /\ InUser(p) /\ mem.pte[p][v] # NULL /\ v # StackPage
  /\ mem' = mfree_page(mem, p, v, 1)
  /\ unmapped' = unmapped \union {v}
  /\ UNCHANGED <<cur, ready, next_pid, task, cr3, esp0, tlb, history>>

\* inode_open and inode_close, in a system call, set pgdir to NULL around sys_malloc and
\* sys_free, which may have to wait for the lock of the kernel's pool,
LeaveSpace(p) ==
  /\ InUser(p)
  /\ task' = [task EXCEPT ![p].pc = "inode", ![p].pgdir = NULL]
  /\ UNCHANGED <<cur, ready, next_pid, cpu, mem, history>>

\* and restore it, but neither cr3 nor esp0.
RestoreSpace(p) ==
  /\ Runs(p, "inode")
  /\ task' = [task EXCEPT ![p].pc = "user", ![p].pgdir = p]
  /\ UNCHANGED <<cur, ready, next_pid, cpu, mem, history>>

-----------------------------------------------------------------------------

process_execute(t) ==
  \/ \E p \in Processes : BeginExecute(t, p)
  \/ ReturnPid(t) \/ CreateThread(t) \/ CreatePageDir(t) \/ AppendReady(t)

Next ==
  \/ \E u \in Tasks : schedule(u)
  \/ \E t \in Threads : process_execute(t)
  \/ \E p \in Processes :
       \/ LoadKstack(p) \/ MoveKstack(p) \/ StartProcess(p) \/ EnterUser(p)
       \/ Malloc(p) \/ LeaveSpace(p) \/ RestoreSpace(p)
       \/ \E v \in 0..UserPages : Access(p, v) \/ Free(p, v)

Spec == Init /\ [][Next]_vars
-----------------------------------------------------------------------------
(* What every step preserves.                                              *)

ThreadLabels == {"kernel", "counted", "numbered", "built", "append"}
ProcessLabels ==
  {"none", "created", "kernel_thread", "loaded", "moved", "start_process", "user", "inode"}

TypeOK ==
  /\ cur \in Tasks /\ ready \subseteq Tasks /\ next_pid \in Nat
  /\ task \in [Tasks -> [pc : ThreadLabels \union ProcessLabels, pid : Nat,
                         pgdir : Processes \union {NULL}, kstack : Int, frame : Int,
                         new : Processes \union {NULL}]]
  /\ \A t \in Tasks : task[t].pc \in IF t \in Threads THEN ThreadLabels ELSE ProcessLabels
  /\ cr3 \in Spaces /\ esp0 \in Processes \union {NULL}
  /\ mem \in Memory /\ tlb \subseteq (0..UserPages) \X (Frames \union {NULL})
  /\ unmapped \subseteq 0..UserPages
  /\ astray \subseteq Processes /\ early \subseteq Processes /\ raced \subseteq Processes

\* A thread that is in process_execute has a process of its own in the making, and that
\* process is not scheduled; its kernel stack is as far as the thread is.
Making(t) == task[t].pc \in {"counted", "numbered", "built", "append"}

MakingInv ==
  /\ \A t \in Threads : Making(t) =>
       /\ task[t].new \in Processes /\ task[task[t].new].pc = "created"
       /\ task[t].pc = "counted" => task[task[t].new].pid = 0
       /\ task[task[t].new].kstack =
            IF task[t].pc \in {"built", "append"} THEN -(intr_stack + thread_stack) ELSE 0
       /\ task[task[t].new].pgdir = IF task[t].pc = "append" THEN task[t].new ELSE NULL
  /\ \A t, u \in Threads : Making(t) /\ Making(u) /\ task[t].new = task[u].new => t = u
  /\ \A p \in Processes :
       task[p].pc = "none" => task[p].pid = 0 /\ task[p].kstack = 0 /\ task[p].pgdir = NULL

\* Only a process that was put into the lists is scheduled.
ListedInv ==
  \A p \in Processes : p \in ready \union {cur} => task[p].pc \notin {"none", "created"}

\* pgdir is the process's own, except in inode_open and inode_close; a thread has none.
PgdirInv ==
  /\ \A t \in Threads : task[t].pgdir = NULL
  /\ \A p \in Processes :
       task[p].pc \notin {"none", "created"} =>
         task[p].pgdir = IF task[p].pc = "inode" THEN NULL ELSE p

\* A pid is at most next_pid, and one that equals it while another process waits for its
\* own is the pid of a process that was overlapped.
PidInv ==
  /\ \A p \in Processes : task[p].pid <= next_pid
  /\ \A t, u \in Threads : task[t].pc = "counted" /\ task[u].pc = "counted" /\ t # u =>
       {task[t].new, task[u].new} \subseteq raced
  /\ \A t \in Threads, p \in Processes :
       task[t].pc = "counted" /\ task[p].pid = next_pid => {task[t].new, p} \subseteq raced

\* self_kstack is where thread_create left it until start_process loads it, and where the
\* intr_stack is until it is read again, unless switch_to has saved another one.  One that
\* is saved in between, the store replaces.
Placed(pc, kstack, frame) ==
  /\ pc = "kernel_thread" => kstack = -(intr_stack + thread_stack)
  /\ pc = "loaded" => frame = -(intr_stack + thread_stack)
  /\ pc = "moved" => kstack = -intr_stack
  /\ pc \in {"start_process", "user", "inode"} => frame = -intr_stack

KstackInv ==
  \A p \in Processes : p \in early \/ Placed(task[p].pc, task[p].kstack, task[p].frame)

\* Until the kernel has panicked, only pages that are mapped get into the TLB.
TlbInv == mem.fault = "none" => \A e \in tlb : e[2] # NULL

-----------------------------------------------------------------------------
(* Properties.                                                             *)

\* The running task has its own page directory in cr3, the kernel's if it is a thread,
\* and a process has its own stack in esp0; unless it got the processor while inode_open
\* or inode_close had set its pgdir to NULL, and has not lost it since.
OwnSpace ==
  cur \notin astray =>
    IF cur \in Threads THEN cr3 = Kernel ELSE cr3 = cur /\ esp0 = cur

\* A process enters user mode with its frame where thread_create has reserved it, unless
\* it lost the processor between the intr_enable of kernel_thread and the load of
\* self_kstack in start_process, or between the store of the moved one and its second
\* load: switch_to then has left another address in self_kstack.
FrameInPlace ==
  \A p \in Processes : task[p].pc = "user" => task[p].frame = -intr_stack \/ p \in early

\* Two processes have the same pid only if one counted next_pid before the other had
\* read it, behind the lock.
PidsUnique ==
  \A p, q \in Processes : (task[p].pid # 0 /\ task[p].pid = task[q].pid) => p = q \/ {p, q} \subseteq raced

\* A translation in the TLB that is not the page table's is one of a page that was
\* unmapped since the last switch: the next schedule(), to whatever task, ends it.
StaleOnlyUnmapped ==
  \A e \in tlb : mem.pte[cr3][e[1]] = e[2] \/ e[1] \in unmapped

\* The inductive invariant.
IInv ==
  /\ TypeOK /\ MakingInv /\ ListedInv /\ PgdirInv /\ PidInv /\ KstackInv /\ TlbInv
  /\ OwnSpace /\ PidsUnique /\ StaleOnlyUnmapped
==============================================================================
