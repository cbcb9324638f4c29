------------------------------- MODULE Paging -------------------------------
(***************************************************************************)
(* Pages: the two pools of page frames, the bitmaps of virtual pages and   *)
(* the page tables (the page half of kernel/memory.c), as functions on a   *)
(* memory state m:                                                         *)
(*   pool    per pool, its bitmap of frames                                *)
(*   vaddr   per address space, its bitmap of virtual pages                *)
(*   pte     per address space and virtual page, the frame it is mapped    *)
(*           to, or NULL                                                   *)
(*   pde     per process and page table, the frame of the table, or NULL;  *)
(*           the tables of the kernel's space exist from the start         *)
(*   fault   why the kernel has panicked: "none" if not, "full" when       *)
(*           bitmap_scan found no clear bit, "limit" when malloc_page was  *)
(*           asked for too many pages, "assert" for any other ASSERT       *)
(* An address is the number of a page in its space; an address of the heap *)
(* is a page number and nothing else here.                                 *)
(***************************************************************************)
EXTENDS Bitmap

CONSTANTS
  Pages,        \* frames of each pool, and virtual pages of the kernel heap
  UserPages,    \* virtual pages of a process
  TablePages,   \* virtual pages one page table maps
  PageLimit,    \* malloc_page asserts that it is asked for less (3840, which is Pages
                \* with the 32 MB of bochsrc)
  Processes,    \* the user processes, each with its own address space
  Kernel,       \* the kernel's address space
  NULL          \* no frame, no address

ASSUME PagingAssumption ==
  /\ Pages \in Nat \ {0} /\ UserPages \in Nat \ {0} /\ TablePages \in Nat \ {0}
  /\ PageLimit \in Nat
  /\ Kernel \notin Processes

PF_KERNEL == "PF_KERNEL"
PF_USER == "PF_USER"
pool_flags == {PF_KERNEL, PF_USER}

Spaces == Processes \union {Kernel}
Frames == pool_flags \X (0..(Pages - 1))
VPages(s) == IF s = Kernel THEN Pages ELSE UserPages
Tables == 0..(UserPages \div TablePages)

\* No page directory and no frame is at address 0.
ASSUME NullAssumption == NULL \notin Spaces \union Frames

\* sys_malloc and sys_free choose the pool by pgdir.
PoolOf(s) == IF s = Kernel THEN PF_KERNEL ELSE PF_USER

\* mem_pool_init, and create_user_vaddr_bitmap of every process.
mem_pool_init ==
  [pool  |-> [pf \in pool_flags |-> bitmap_init(Pages, FALSE)],
   vaddr |-> [s \in Spaces |-> bitmap_init(VPages(s), FALSE)],
   pte   |-> [s \in Spaces |-> [v \in 0..VPages(s) |-> NULL]],
   pde   |-> [s \in Processes |-> [i \in Tables |-> NULL]],
   fault |-> "none"]

Fault(m, why) == [m EXCEPT !.fault = why]

-----------------------------------------------------------------------------
(* Allocation.                                                             *)

\* The frame palloc finds, and the step that marks it.
FreeFrame(m, pf) == <<pf, bitmap_scan(m.pool[pf], Pages, 1)>>

PoolFull(m, pf) == ~ScanAsserts(m.pool[pf], Pages)

TakeFrame(m, f) == [m EXCEPT !.pool[f[1]][f[2]] = TRUE]

palloc(m, pf) == IF PoolFull(m, pf) THEN Fault(m, "full") ELSE TakeFrame(m, FreeFrame(m, pf))

\* The first of cnt virtual pages vaddr_get finds, or -1, and the step that marks them.
FreeRun(m, s, cnt) == bitmap_scan(m.vaddr[s], VPages(s), cnt)

SpaceFull(m, s) == ~ScanAsserts(m.vaddr[s], VPages(s))

vaddr_get(m, s, v, cnt) == [m EXCEPT !.vaddr[s] = SetRun(@, v, cnt, TRUE)]

\* Whether *pde has the present bit: the page table for v exists.
HasTable(m, s, v) == s = Kernel \/ m.pde[s][v \div TablePages] # NULL

\* A new page table, from the kernel's pool whatever pool the page is from.
AddTable(m, s, v) ==
  IF PoolFull(m, PF_KERNEL) THEN Fault(m, "full")
  ELSE [palloc(m, PF_KERNEL) EXCEPT !.pde[s][v \div TablePages] = FreeFrame(m, PF_KERNEL)]

\* *pte = page_phyaddr | ..., with the ASSERT that nothing is mapped there.
SetPte(m, s, v, f) ==
  IF m.fault # "none" THEN m
  ELSE IF m.pte[s][v] # NULL THEN Fault(m, "assert")
  ELSE [m EXCEPT !.pte[s][v] = f]

page_table_add(m, s, v, f) ==
  SetPte(IF HasTable(m, s, v) THEN m ELSE AddTable(m, s, v), s, v, f)

\* One round of the loop of malloc_page.
MapPage(m, pf, s, v) ==
  IF m.fault # "none" THEN m
  ELSE IF PoolFull(m, pf) THEN Fault(m, "full")
  ELSE page_table_add(palloc(m, pf), s, v, FreeFrame(m, pf))

\* The ASSERT of malloc_page on pg_cnt.
PgCntAsserts(cnt) == cnt > 0 /\ cnt < PageLimit

\* malloc_page of cnt pages in space s; it returns FreeRun(m, s, cnt), and NULL for -1.
malloc_page(m, s, cnt) ==
  LET v == FreeRun(m, s, cnt)
      mapped[i \in 0..cnt] == IF i = 0 THEN vaddr_get(m, s, v, cnt)
                              ELSE MapPage(mapped[i - 1], PoolOf(s), s, v + i - 1)
  IN  IF ~PgCntAsserts(cnt) THEN Fault(m, "limit")
      ELSE IF SpaceFull(m, s) THEN Fault(m, "full")
      ELSE IF v = -1 THEN m
      ELSE mapped[cnt]

\* get_a_page of the running thread's own pool, at the virtual page v.
get_a_page(m, s, v) ==
  IF v = 0 THEN Fault(m, "assert")
  ELSE MapPage(vaddr_get(m, s, v, 1), PoolOf(s), s, v)

-----------------------------------------------------------------------------
(* Freeing.                                                                *)

pfree(m, f) == [m EXCEPT !.pool[f[1]][f[2]] = FALSE]

page_table_pte_remove(m, s, v) == [m EXCEPT !.pte[s][v] = NULL]

\* Mutant: the virtual pages stay marked.
vaddr_remove_none(m, s, v, cnt) == m

vaddr_remove(m, s, v, cnt) == [m EXCEPT !.vaddr[s] = SetRun(@, v, cnt, FALSE)]

\* One round of the loops of mfree_page, whose ASSERT keeps to the pool of the
\* first page.
UnmapPage(m, pf, s, v) ==
  IF m.fault # "none" THEN m
  ELSE IF m.pte[s][v] = NULL \/ m.pte[s][v][1] # pf THEN Fault(m, "assert")
  ELSE page_table_pte_remove(pfree(m, m.pte[s][v]), s, v)

mfree_page(m, s, v, cnt) ==
  LET unmapped[i \in 0..cnt] ==
        IF i = 0 THEN m ELSE UnmapPage(unmapped[i - 1], m.pte[s][v][1], s, v + i - 1)
  IN  vaddr_remove(unmapped[cnt], s, v, cnt)

-----------------------------------------------------------------------------
(* What the pools, the bitmaps and the page tables have to say together.   *)

SpaceSizes == {Pages, UserPages}

\* The memory states.
Memory ==
  {m \in [pool  : [pool_flags -> [0..Pages -> BOOLEAN]],
          vaddr : [Spaces -> UNION {[0..n -> BOOLEAN] : n \in SpaceSizes}],
          pte   : [Spaces -> UNION {[0..n -> Frames \union {NULL}] : n \in SpaceSizes}],
          pde   : [Processes -> [Tables -> Frames \union {NULL}]],
          fault : {"none", "full", "limit", "assert"}] :
     \A s \in Spaces : DOMAIN m.vaddr[s] = 0..VPages(s) /\ DOMAIN m.pte[s] = 0..VPages(s)}

\* The places that refer to a frame: page table entries and page tables.
Uses(m) ==
  {<<"pte", s, v>> : s \in Spaces, v \in 0..(Pages + UserPages)}
    \union {<<"pde", s, i>> : s \in Processes, i \in Tables}

FrameAt(m, u) ==
  IF u[1] = "pde" THEN m.pde[u[2]][u[3]]
  ELSE IF u[3] \in DOMAIN m.pte[u[2]] THEN m.pte[u[2]][u[3]]
  ELSE NULL

\* No frame is used in two places.
NotShared(m) ==
  \A u, w \in Uses(m) : FrameAt(m, u) # NULL /\ FrameAt(m, u) = FrameAt(m, w) => u = w

\* A frame is marked in its pool exactly while it is used.
PoolExact(m) ==
  \A f \in Frames : m.pool[f[1]][f[2]] <=> \E u \in Uses(m) : FrameAt(m, u) = f

\* A virtual page is marked exactly while it is mapped.
VaddrExact(m) ==
  \A s \in Spaces : \A v \in 0..VPages(s) : m.vaddr[s][v] <=> m.pte[s][v] # NULL
=============================================================================
