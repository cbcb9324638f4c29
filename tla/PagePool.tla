------------------------------ MODULE PagePool ------------------------------
(***************************************************************************)
(* Threads that allocate and free pages at the same time (the page half of *)
(* kernel/memory.c with interrupts on): the timer may switch threads       *)
(* between the bitmap_scan and the bitmap_set of one call, and between the *)
(* load and the store of a bitmap_set.  The lock of a pool does what       *)
(* module Mutex says.  A store to a page table is one step.                *)
(*                                                                         *)
(* The entries of a page table are kept with its space and not with its    *)
(* frame.  That is the same as long as the frame has no other use, so      *)
(* behaviours are followed until a frame that is a page table gets one.    *)
(***************************************************************************)
EXTENDS Paging, FiniteSets

CONSTANTS
  KernelThreads,        \* threads without a page directory of their own
  Settings,             \* who calls what: see variable setting
  MaxPages,             \* pages a call asks for
  MaxRuns,              \* runs of pages a thread has at a time
  BitsPerByte           \* the bits a load or a store of a bitmap is about (8)

Threads == KernelThreads \union Processes

ASSUME PagePoolAssumption ==
  /\ KernelThreads \intersect Processes = {}
  /\ NULL \notin Threads
  /\ MaxPages \in Nat \ {0} /\ BitsPerByte \in Nat \ {0}
  /\ Settings \subseteq [threads : SUBSET Threads,
                         calls : SUBSET {"sys_malloc", "get_kernel_pages"}]

VARIABLES
  setting,              \* the threads that run, and what those of the kernel call
                        \* (sys_free with sys_malloc); it does not change
  mem,                  \* the memory state of Paging
  owner, nesting,       \* per pool, its lock
  pc,                   \* per thread, where it is in its call
  run,                  \* per thread, the run of virtual pages of its call
  done,                 \* per thread, how many of them are done
  found,                \* per thread, the frame bitmap_scan has found
  page,                 \* per thread, the frame that is about to be mapped
  bits,                 \* per thread, the bits bitmap_set has loaded
  has,                  \* per thread, the runs it has
  clash                 \* history: a frame that is a page table has another use

locks == <<owner, nesting>>
call == <<run, done, found, page, bits>>
vars == <<setting, mem, locks, pc, call, has, clash>>

Lock == INSTANCE Mutex WITH Users <- Threads, Locks <- pool_flags, NoUser <- NULL

SpaceOf(t) == IF t \in Processes THEN t ELSE Kernel
Pool(t) == PoolOf(SpaceOf(t))

\* A run of pages; heap if sys_malloc returned it and sys_free may give it back.
Runs == [first : 0..(Pages + UserPages), cnt : 1..MaxPages, heap : BOOLEAN]
NoRun == [first |-> 0, cnt |-> 1, heap |-> FALSE]
NoFrame == <<PF_KERNEL, 0>>
NoBits == bitmap_init(Pages, FALSE)

Init ==
  /\ setting \in Settings
  /\ mem = mem_pool_init
  /\ Lock!Init
  /\ pc = [t \in Threads |-> "out"]
  /\ run = [t \in Threads |-> NoRun]
  /\ done = [t \in Threads |-> 0]
  /\ found = [t \in Threads |-> NoFrame]
  /\ page = [t \in Threads |-> NoFrame]
  /\ bits = [t \in Threads |-> NoBits]
  /\ has = [t \in Threads |-> {}]
  /\ clash = FALSE

At(t, label) == mem.fault = "none" /\ ~clash /\ pc[t] = label
Goto(t, label) == pc' = [pc EXCEPT ![t] = label]
Begin(t, r) == run' = [run EXCEPT ![t] = r] /\ done' = [done EXCEPT ![t] = 0]

-----------------------------------------------------------------------------
(* The calls.                                                              *)

\* Mutant: sys_malloc does not take the lock.
Malloc_no_lock(t, cnt) ==
  /\ t \in KernelThreads /\ "sys_malloc" \in setting.calls
  /\ At(t, "out") /\ Cardinality(has[t]) < MaxRuns
  /\ Begin(t, [first |-> 0, cnt |-> cnt, heap |-> TRUE])
  /\ Goto(t, "vaddr_scan")
  /\ UNCHANGED <<mem, locks, found, page, bits, has>>

\* sys_malloc of more than 1024 bytes: malloc_page under the lock of the pool.
Malloc(t, cnt) ==
  /\ t \in KernelThreads /\ "sys_malloc" \in setting.calls
  /\ At(t, "out") /\ Cardinality(has[t]) < MaxRuns
  /\ Lock!Take(t, PF_KERNEL)
  /\ Begin(t, [first |-> 0, cnt |-> cnt, heap |-> TRUE])
  /\ Goto(t, "vaddr_scan")
  /\ UNCHANGED <<mem, found, page, bits, has>>

\* get_kernel_pages: malloc_page without the lock.
GetKernelPages(t, cnt) ==
  /\ t \in KernelThreads /\ "get_kernel_pages" \in setting.calls
  /\ At(t, "out") /\ Cardinality(has[t]) < MaxRuns
  /\ Begin(t, [first |-> 0, cnt |-> cnt, heap |-> FALSE])
  /\ Goto(t, "vaddr_scan")
  /\ UNCHANGED <<mem, locks, found, page, bits, has>>

\* Mutant: get_a_page does not take the lock.
GetAPage_no_lock(t) ==
  /\ t \in Processes
  /\ At(t, "out") /\ has[t] = {}
  /\ mem' = vaddr_get(mem, t, UserPages - 1, 1)
  /\ Begin(t, [first |-> UserPages - 1, cnt |-> 1, heap |-> FALSE])
  /\ Goto(t, "palloc_scan")
  /\ UNCHANGED <<locks, found, page, bits, has>>

\* get_a_page of start_process, for the stack: its own bitmap needs no scan.
GetAPage(t) ==
  /\ t \in Processes
  /\ At(t, "out") /\ has[t] = {}
  /\ Lock!Take(t, PF_USER)
  /\ mem' = vaddr_get(mem, t, UserPages - 1, 1)
  /\ Begin(t, [first |-> UserPages - 1, cnt |-> 1, heap |-> FALSE])
  /\ Goto(t, "palloc_scan")
  /\ UNCHANGED <<found, page, bits, has>>

\* sys_free of a run that sys_malloc returned.
Free(t, r) ==
  /\ At(t, "out") /\ r \in has[t] /\ r.heap
  /\ Lock!Take(t, PF_KERNEL)
  /\ Begin(t, r)
  /\ Goto(t, "pfree")
  /\ has' = [has EXCEPT ![t] = @ \ {r}]
  /\ UNCHANGED <<mem, found, page, bits>>

\* lock_release, by a call that has taken the lock.
Unlock(t) ==
  IF owner[Pool(t)] = t THEN Lock!GiveBack(t, Pool(t)) ELSE UNCHANGED locks

\* The call returns: its local variables are gone.
Leave(t) ==
  /\ Unlock(t)
  /\ Goto(t, "out")
  /\ Begin(t, NoRun)
  /\ found' = [found EXCEPT ![t] = NoFrame]
  /\ page' = [page EXCEPT ![t] = NoFrame]
  /\ bits' = [bits EXCEPT ![t] = NoBits]

\* bitmap_set of bit i of b: the load of its byte, from "label" to "next"; and b after
\* the store, with the other bits of the byte as they were when it was loaded.
Load(t, b, label, next) ==
  /\ At(t, label)
  /\ bits' = [bits EXCEPT ![t] = b]
  /\ Goto(t, next)
  /\ UNCHANGED <<mem, locks, run, done, page, has>>

Stored(t, b, i, value) ==
  [j \in DOMAIN b |-> IF j = i THEN value
                      ELSE IF j \div BitsPerByte = i \div BitsPerByte THEN bits[t][j]
                      ELSE b[j]]

StoreFrame(t, value) == [mem EXCEPT !.pool[found[t][1]] = Stored(t, @, found[t][2], value)]

-----------------------------------------------------------------------------
(* malloc_page.                                                            *)

\* The page the call is about.
Vpage(t) == run[t].first + done[t]

\* Mutant: vaddr_remove marks the pages it should clear.
StorePage_marks(t, value) == [mem EXCEPT !.vaddr[Kernel] = Stored(t, @, Vpage(t), TRUE)]

StorePage(t, value) == [mem EXCEPT !.vaddr[Kernel] = Stored(t, @, Vpage(t), value)]

\* The ASSERT on pg_cnt, and the bitmap_scan of vaddr_get.
VaddrScan(t) ==
  LET v == FreeRun(mem, SpaceOf(t), run[t].cnt)
  IN  /\ At(t, "vaddr_scan")
      /\ IF ~PgCntAsserts(run[t].cnt) \/ SpaceFull(mem, SpaceOf(t))
         THEN /\ mem' = Fault(mem, IF PgCntAsserts(run[t].cnt) THEN "full" ELSE "limit")
              /\ UNCHANGED <<locks, pc, call>>
         ELSE /\ UNCHANGED mem
              /\ IF v = -1
                 THEN Leave(t)
                 ELSE /\ run' = [run EXCEPT ![t].first = v]
                      /\ Goto(t, "vaddr_set")
                      /\ UNCHANGED <<locks, done, found, page, bits>>
      /\ UNCHANGED has

\* The loop of vaddr_get, a bitmap_set for every page.
VaddrSet(t) ==
  Load(t, mem.vaddr[Kernel], "vaddr_set", "vaddr_store") /\ UNCHANGED found

VaddrStore(t) ==
  LET last == done[t] + 1 = run[t].cnt
  IN  /\ At(t, "vaddr_store")
      /\ mem' = StorePage(t, TRUE)
      /\ bits' = [bits EXCEPT ![t] = NoBits]
      /\ done' = [done EXCEPT ![t] = IF last THEN 0 ELSE @ + 1]
      /\ Goto(t, IF last THEN "palloc_scan" ELSE "vaddr_set")
      /\ UNCHANGED <<locks, run, found, page, has>>

\* The bitmap_scan of a palloc of pool pf: from "label" to "next".
Scan(t, pf, label, next) ==
  /\ At(t, label)
  /\ IF PoolFull(mem, pf)
     THEN mem' = Fault(mem, "full") /\ UNCHANGED <<pc, found>>
     ELSE /\ found' = [found EXCEPT ![t] = FreeFrame(mem, pf)]
          /\ Goto(t, next)
          /\ UNCHANGED mem
  /\ UNCHANGED <<locks, run, done, page, bits, has>>

PallocScan(t) == Scan(t, Pool(t), "palloc_scan", "palloc_set")

PallocSet(t) ==
  Load(t, mem.pool[found[t][1]], "palloc_set", "palloc_store") /\ UNCHANGED found

PallocStore(t) ==
  /\ At(t, "palloc_store")
  /\ mem' = StoreFrame(t, TRUE)
  /\ bits' = [bits EXCEPT ![t] = NoBits]
  /\ page' = [page EXCEPT ![t] = found[t]]
  /\ Goto(t, "pte")
  /\ UNCHANGED <<locks, run, done, found, has>>

\* *pte is stored; with the last page malloc_page is done.
Mapped(t, m) ==
  /\ mem' = SetPte(m, SpaceOf(t), Vpage(t), page[t])
  /\ done' = [done EXCEPT ![t] = @ + 1]
  /\ Goto(t, IF done[t] + 1 = run[t].cnt THEN "return" ELSE "palloc_scan")
  /\ UNCHANGED <<locks, run, found, page, bits, has>>

\* page_table_add with a page table, and without.
Pte(t) ==
  /\ At(t, "pte")
  /\ IF HasTable(mem, SpaceOf(t), Vpage(t))
     THEN Mapped(t, mem)
     ELSE Goto(t, "table_scan") /\ UNCHANGED <<mem, locks, call, has>>

TableScan(t) == Scan(t, PF_KERNEL, "table_scan", "table_set")

TableSet(t) ==
  Load(t, mem.pool[found[t][1]], "table_set", "table_store") /\ UNCHANGED found

TableStore(t) ==
  /\ At(t, "table_store")
  /\ mem' = StoreFrame(t, TRUE)
  /\ bits' = [bits EXCEPT ![t] = NoBits]
  /\ Goto(t, "table_pde")
  /\ UNCHANGED <<locks, run, done, found, page, has>>

TablePde(t) ==
  /\ At(t, "table_pde")
  /\ Mapped(t, [mem EXCEPT !.pde[SpaceOf(t)][Vpage(t) \div TablePages] = found[t]])

Return(t) ==
  /\ At(t, "return")
  /\ has' = [has EXCEPT ![t] = @ \union {run[t]}]
  /\ Leave(t)
  /\ UNCHANGED mem

-----------------------------------------------------------------------------
(* mfree_page.                                                             *)

\* What addr_v2p may read: page_table_pte_remove leaves the address in the entry, so
\* of a page that is not mapped any more it is that of some frame of the kernel.
addr_v2p(v) ==
  IF mem.pte[Kernel][v] # NULL THEN {mem.pte[Kernel][v]} ELSE {f \in Frames : f[1] = PF_KERNEL}

\* The frame is given back before the page is unmapped.
Pfree(t) ==
  /\ At(t, "pfree")
  /\ \E f \in addr_v2p(Vpage(t)) :
       Load(t, mem.pool[f[1]], "pfree", "pfree_store") /\ found' = [found EXCEPT ![t] = f]

PfreeStore(t) ==
  /\ At(t, "pfree_store")
  /\ mem' = StoreFrame(t, FALSE)
  /\ bits' = [bits EXCEPT ![t] = NoBits]
  /\ Goto(t, "unmap")
  /\ UNCHANGED <<locks, run, done, found, page, has>>

\* page_table_pte_remove.
Unmap(t) ==
  LET last == done[t] + 1 = run[t].cnt
  IN  /\ At(t, "unmap")
      /\ mem' = page_table_pte_remove(mem, Kernel, Vpage(t))
      /\ done' = [done EXCEPT ![t] = IF last THEN 0 ELSE @ + 1]
      /\ Goto(t, IF last THEN "vaddr_clear" ELSE "pfree")
      /\ UNCHANGED <<locks, run, found, page, bits, has>>

\* The loop of vaddr_remove, and after it lock_release.
VaddrClear(t) ==
  Load(t, mem.vaddr[Kernel], "vaddr_clear", "vaddr_clear_store") /\ UNCHANGED found

VaddrClearStore(t) ==
  /\ At(t, "vaddr_clear_store")
  /\ mem' = StorePage(t, FALSE)
  /\ IF done[t] + 1 = run[t].cnt
     THEN Leave(t)
     ELSE /\ bits' = [bits EXCEPT ![t] = NoBits]
          /\ done' = [done EXCEPT ![t] = @ + 1]
          /\ Goto(t, "vaddr_clear")
          /\ UNCHANGED <<locks, run, found, page>>
  /\ UNCHANGED has

Step(t) ==
  \/ \E cnt \in 1..MaxPages : Malloc(t, cnt) \/ GetKernelPages(t, cnt)
  \/ \E r \in has[t] : Free(t, r)
  \/ GetAPage(t)
  \/ VaddrScan(t) \/ VaddrSet(t) \/ VaddrStore(t)
  \/ PallocScan(t) \/ PallocSet(t) \/ PallocStore(t) \/ Pte(t)
  \/ TableScan(t) \/ TableSet(t) \/ TableStore(t) \/ TablePde(t)
  \/ Return(t)
  \/ Pfree(t) \/ PfreeStore(t) \/ Unmap(t)
  \/ VaddrClear(t) \/ VaddrClearStore(t)

\* Whether a frame that is a page table is nothing else.
TablesApart(m) ==
  \A p \in Processes : \A i \in Tables : \A u \in Uses(m) :
    m.pde[p][i] # NULL /\ FrameAt(m, u) = m.pde[p][i] => u = <<"pde", p, i>>

Next ==
  \E t \in setting.threads :
    Step(t) /\ clash' = ~TablesApart(mem') /\ UNCHANGED setting

Spec == Init /\ [][Next]_vars

-----------------------------------------------------------------------------
(* What every step preserves.                                              *)

\* The pages of a run.
PagesOf(r) == r.first..(r.first + r.cnt - 1)

KernelLabels ==
  {"out", "vaddr_scan", "vaddr_set", "vaddr_store", "palloc_scan", "palloc_set", "palloc_store",
   "pte", "return", "pfree", "pfree_store", "unmap", "vaddr_clear", "vaddr_clear_store"}
ProcessLabels ==
  {"out", "palloc_scan", "palloc_set", "palloc_store", "pte",
   "table_scan", "table_set", "table_store", "table_pde", "return"}

TypeOK ==
  /\ setting \in Settings
  /\ mem \in Memory
  /\ owner \in [pool_flags -> Threads \union {NULL}]
  /\ nesting \in [pool_flags -> {0, 1}]
  /\ pc \in [Threads -> KernelLabels \union ProcessLabels]
  /\ run \in [Threads -> Runs]
  /\ done \in [Threads -> 0..MaxPages]
  /\ found \in [Threads -> Frames]
  /\ page \in [Threads -> Frames]
  /\ bits \in [Threads -> [0..Pages -> BOOLEAN]]
  /\ clash \in BOOLEAN
  /\ has \in [Threads -> SUBSET Runs]

\* A run lies in its space and the bit behind it; of the pages of a call, "done" are
\* done.
RunOf(t) ==
  /\ pc[t] \in IF t \in Processes THEN ProcessLabels ELSE KernelLabels
  /\ t \in Processes => ~run[t].heap /\ \A r \in has[t] : ~r.heap
  /\ \A r \in has[t] : r.first + r.cnt - 1 <= VPages(SpaceOf(t))
  /\ pc[t] \notin {"out", "vaddr_scan"} => run[t].first + run[t].cnt - 1 <= VPages(SpaceOf(t))
  /\ pc[t] \in {"out", "vaddr_scan"} => done[t] = 0
  /\ IF pc[t] = "return" THEN done[t] = run[t].cnt ELSE done[t] < run[t].cnt

RunInv == \A t \in Threads : RunOf(t)

\* A lock is taken once, by a call that is under way.  Every call of a process and
\* every call of sys_malloc and sys_free takes one.
LockInv ==
  /\ \A pf \in pool_flags : nesting[pf] = IF owner[pf] = NULL THEN 0 ELSE 1
  /\ \A t \in Threads : \A pf \in pool_flags :
       owner[pf] = t => pc[t] # "out" /\ pf = Pool(t)
  /\ \A t \in Processes : pc[t] # "out" => owner[PF_USER] = t
  /\ \A t \in KernelThreads : pc[t] # "out" /\ run[t].heap => owner[PF_KERNEL] = t

\* The processes have mapped frames of the user pool, each once, and all else is of the
\* kernel's pool.
UserMapped ==
  /\ \A v \in 0..Pages : mem.pte[Kernel][v] # NULL => mem.pte[Kernel][v][1] = PF_KERNEL
  /\ \A p \in Processes : \A i \in Tables :
       mem.pde[p][i] # NULL => mem.pde[p][i][1] = PF_KERNEL
  /\ \A p \in Processes : \A v \in 0..UserPages :
       mem.pte[p][v] # NULL =>
         /\ mem.pte[p][v][1] = PF_USER
         /\ mem.pool[PF_USER][mem.pte[p][v][2]]
         /\ \A q \in Processes : \A w \in 0..UserPages :
              mem.pte[q][w] = mem.pte[p][v] => q = p /\ w = v

\* A thread is about to take a frame of its pool, or to map it.  That of a process is
\* free, or marked and not mapped yet, and the bits a process has loaded are those of
\* the pool.
Allocating(t) ==
  /\ pc[t] \in {"palloc_set", "palloc_store"} =>
       found[t][1] = Pool(t) /\ (t \in Processes => ~mem.pool[PF_USER][found[t][2]])
  /\ pc[t] = "palloc_store" /\ t \in Processes => bits[t] = mem.pool[PF_USER]
  /\ pc[t] \in {"pte", "table_scan", "table_set", "table_store", "table_pde"} =>
       /\ page[t][1] = Pool(t)
       /\ t \in Processes =>
            /\ mem.pool[PF_USER][page[t][2]]
            /\ \A q \in Processes : \A w \in 0..UserPages : mem.pte[q][w] # page[t]
  /\ pc[t] \in {"table_set", "table_store", "table_pde", "pfree_store"} => found[t][1] = PF_KERNEL

UserInv == UserMapped /\ \A t \in Threads : Allocating(t)

\* With processes alone, whose calls are all under the lock of the user pool, the page
\* tables are frames that the kernel's pool marks, each one table.
TableTaken(t) ==
  /\ pc[t] \in {"table_set", "table_store"} => ~mem.pool[PF_KERNEL][found[t][2]]
  /\ pc[t] = "table_store" => bits[t] = mem.pool[PF_KERNEL]
  /\ pc[t] = "table_pde" =>
       /\ mem.pool[PF_KERNEL][found[t][2]]
       /\ \A p \in Processes : \A i \in Tables : mem.pde[p][i] # found[t]

TablesInv ==
  /\ \A t \in KernelThreads : pc[t] = "out"
  /\ \A v \in 0..Pages : mem.pte[Kernel][v] = NULL
  /\ \A p \in Processes : \A i \in Tables :
       mem.pde[p][i] # NULL =>
         /\ mem.pool[PF_KERNEL][mem.pde[p][i][2]]
         /\ \A q \in Processes : \A j \in Tables :
              mem.pde[q][j] = mem.pde[p][i] => q = p /\ j = i
  /\ \A t \in Processes : TableTaken(t)

\* With the lock no process runs: its memory is as it was, and who is in a call has
\* taken the lock of the kernel's pool.
QuietInv ==
  /\ \A p \in Processes :
       /\ pc[p] = "out"
       /\ \A v \in 0..UserPages : ~mem.vaddr[p][v] /\ mem.pte[p][v] = NULL
       /\ \A i \in Tables : mem.pde[p][i] = NULL
  /\ \A i \in 0..Pages : ~mem.pool[PF_USER][i]
  /\ \A t \in KernelThreads : pc[t] # "out" => run[t].heap

\* What the kernel's heap has of a page and the pool of a frame: the bit of the page, the
\* frame it is mapped to, the bit of the frame.
Taken(v) == mem.vaddr[Kernel][v]
FrameOf(v) == mem.pte[Kernel][v]
InPool(f) == mem.pool[f[1]][f[2]]
KernelFrames == {f \in Frames : f[1] = PF_KERNEL}

\* Whether a page is in a run that a thread of the kernel has.
Held(v) == \E t \in KernelThreads : \E r \in has[t] : v \in PagesOf(r)

\* The pages of a call: those it has found, has marked, has mapped.
FoundOf(t) == IF pc[t] \in {"out", "vaddr_scan"} THEN {} ELSE PagesOf(run[t])
FirstOf(t) == run[t].first..(Vpage(t) - 1)
RestOf(t) == Vpage(t)..(run[t].first + run[t].cnt - 1)
MarkedOf(t) ==
  IF pc[t] \in {"vaddr_set", "vaddr_store"} THEN FirstOf(t)
  ELSE IF pc[t] \in {"vaddr_clear", "vaddr_clear_store"} THEN RestOf(t)
  ELSE FoundOf(t)
MappedOf(t) ==
  IF pc[t] \in {"pfree", "pfree_store", "unmap"} THEN RestOf(t)
  ELSE IF pc[t] \in {"palloc_scan", "palloc_set", "palloc_store", "pte", "return"} THEN FirstOf(t)
  ELSE {}

\* Whether a call is about to map a frame it has taken, to unmap a page whose frame it has
\* given back.
Mapping(t, f) == pc[t] = "pte" /\ page[t] = f
Freed(t, v) == pc[t] = "unmap" /\ v = Vpage(t)

\* With the lock the runs do not overlap, and they are what the bitmap marks.
RunsApart ==
  \A t, u \in KernelThreads : \A r \in has[t], q \in has[u] :
    (t # u \/ r # q) => PagesOf(r) \intersect PagesOf(q) = {}

RunsInv ==
  /\ RunsApart
  /\ \A t \in KernelThreads : \A v \in FoundOf(t) : ~Held(v)
  /\ \A v \in 0..Pages : Taken(v) <=> Held(v) \/ \E t \in KernelThreads : v \in MarkedOf(t)

\* With the lock the pages of the runs are mapped, each to a frame of its own, and
\* the pool marks these frames: a frame a little before it is mapped, and until
\* a little before it is unmapped.
FramesInv ==
  /\ \A v \in 0..Pages :
       FrameOf(v) # NULL <=> Held(v) \/ \E t \in KernelThreads : v \in MappedOf(t)
  /\ \A v, w \in 0..Pages : FrameOf(v) # NULL /\ FrameOf(v) = FrameOf(w) => v = w
  /\ \A f \in KernelFrames :
       InPool(f) <=>
         \/ \E v \in 0..Pages : FrameOf(v) = f /\ \A t \in KernelThreads : ~Freed(t, v)
         \/ \E t \in KernelThreads : Mapping(t, f)
  /\ \A t \in KernelThreads : pc[t] \in {"palloc_set", "palloc_store"} => ~InPool(found[t])
  /\ \A t \in KernelThreads : pc[t] = "pfree_store" => found[t] = FrameOf(Vpage(t))
  /\ \A t \in KernelThreads : \A v \in 0..Pages : ~Mapping(t, FrameOf(v))

\* With the lock the bits that a bitmap_set has loaded are still those of the bitmap.
LoadedInv ==
  \A t \in KernelThreads :
    /\ pc[t] \in {"palloc_store", "pfree_store"} => bits[t] = mem.pool[PF_KERNEL]
    /\ pc[t] \in {"vaddr_store", "vaddr_clear_store"} => bits[t] = mem.vaddr[Kernel]

\* Whether all that use the kernel's pool do so under its lock: get_kernel_pages takes
\* no lock, and a process that starts takes a page table under the other pool's.
Locked == setting.calls = {"sys_malloc"} /\ setting.threads \subseteq KernelThreads

\* Whether processes start and no thread of the kernel allocates.
ProcessesAlone == setting.threads \intersect KernelThreads = {}

IInv ==
  /\ TypeOK /\ RunInv /\ LockInv /\ UserInv
  /\ Locked => QuietInv /\ RunsInv /\ FramesInv /\ LoadedInv
  /\ ProcessesAlone => TablesInv /\ ~clash

-----------------------------------------------------------------------------
(* Properties.                                                             *)

\* The virtual pages a thread has, or is about to mark, mark or map.
Busy(t) ==
  UNION {PagesOf(r) :
           r \in has[t] \union (IF pc[t] \in {"out", "vaddr_scan"} THEN {} ELSE {run[t]})}

\* With the lock, between a bitmap_scan and its bitmap_set nobody else finds the same
\* bits: two threads never work on the same page of the kernel's heap, and a frame
\* is mapped once, also while pages are given back.
PagesExclusive ==
  Locked => /\ \A t, u \in KernelThreads : t # u => Busy(t) \intersect Busy(u) = {}
            /\ NotShared(mem)

\* The comments of memory.c at line 26, "mutex when applying memory", and at line
\* 42, "atom operation needed": a frame is mapped once, or is one page table.
FramesNotShared == NotShared(mem)

\* Frames of the user pool are taken under its lock only, so processes that start at
\* the same time, and whatever the kernel allocates meanwhile, share none of them.
\* The exception is a page table whose frame, of the kernel's pool, is given out twice:
\* page_table_add takes it under the lock of the user pool, so that happens beside a
\* thread of the kernel that allocates, and never while processes alone start.
UserFramesNotShared ==
  IF clash THEN ~ProcessesAlone
  ELSE \A u, w \in Uses(mem) :
         /\ FrameAt(mem, u) # NULL /\ FrameAt(mem, u)[1] = PF_USER
         /\ FrameAt(mem, u) = FrameAt(mem, w)
         => u = w

\* With the lock, when no call is under way, the pools mark exactly the frames in use
\* and the bitmaps of virtual pages exactly the pages that are mapped.
QuietExact ==
  Locked /\ mem.fault = "none" /\ (\A t \in Threads : pc[t] = "out")
    => PoolExact(mem) /\ VaddrExact(mem)
=============================================================================
