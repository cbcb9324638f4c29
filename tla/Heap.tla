-------------------------------- MODULE Heap --------------------------------
(***************************************************************************)
(* The heap: sys_malloc and sys_free (kernel/memory.c) over the pages of   *)
(* Paging.  A call holds the lock of its pool from its first access to the *)
(* heap to its last, so a call is one step.                                *)
(*                                                                         *)
(* Memory is measured in bytes of a small page.  An address is a byte of a *)
(* space; block b of the arena in page v begins at Block(v, d, b).         *)
(***************************************************************************)
EXTENDS Paging, Sequences, SequencesExt

CONSTANTS
  PG_SIZE,      \* bytes of a page
  ArenaSize,    \* sizeof(struct arena)
  MinBlock,     \* block_size of the first descriptor
  DESC_CNT,     \* descriptors, each with twice the block_size of the one before
  Sizes,        \* the sizes sys_malloc is asked for
  PageRequests, \* the numbers of pages get_kernel_pages is asked for
  MaxLive       \* per space, how many of its allocations are live at a time

ASSUME HeapAssumption ==
  /\ {PG_SIZE, ArenaSize, MinBlock, DESC_CNT} \subseteq Nat \ {0}
  /\ MinBlock * 2^(DESC_CNT - 1) + ArenaSize <= PG_SIZE
  /\ Sizes \subseteq Nat

VARIABLES
  mem,          \* the memory state of Paging
  arena,        \* per space and page, the struct arena at its start, or NULL
  free_list,    \* per space and descriptor, the addresses of its free blocks
  live          \* per space, what has been allocated: address and size

vars == <<mem, arena, free_list, live>>

Descs == 1..DESC_CNT

block_size(d) == MinBlock * 2^(d - 1)

blocks_per_arena(d) == (PG_SIZE - ArenaSize) \div block_size(d)

pool_size == Pages * PG_SIZE

arena2block(v, d, i) == v * PG_SIZE + ArenaSize + i * block_size(d)

block2arena(p) == p \div PG_SIZE

DIV_ROUND_UP(x, step) == (x + step - 1) \div step

\* Mutant: the space of the arena header is forgotten.
PageCnt_no_header(size) == DIV_ROUND_UP(size, PG_SIZE)

PageCnt(size) == DIV_ROUND_UP(size + ArenaSize, PG_SIZE)

\* size > 1024: the block_size of the last descriptor.
Large(size) == size > block_size(DESC_CNT)

DescFor(size) == Min({d \in Descs : size <= block_size(d)})

\* The blocks of an arena that has just been made.
Blocks(v, d) == [i \in 1..blocks_per_arena(d) |-> arena2block(v, d, i - 1)]

Init ==
  /\ mem = mem_pool_init
  /\ arena = [s \in Spaces |-> [v \in 0..VPages(s) |-> NULL]]
  /\ free_list = [s \in Spaces |-> [d \in Descs |-> <<>>]]
  /\ live = [s \in Spaces |-> {}]

-----------------------------------------------------------------------------
(* sys_malloc.                                                             *)

\* Only the panic is left of what the call did.
Panic(m) == mem' = m /\ UNCHANGED <<arena, free_list, live>>

MallocLarge(s, size) ==
  LET cnt == PageCnt(size)
      v == FreeRun(mem, s, cnt)
      m == malloc_page(mem, s, cnt)
  IN  /\ Large(size)
      /\ IF m.fault # "none" THEN Panic(m)
         ELSE IF v = -1 THEN UNCHANGED vars
         ELSE /\ mem' = m
              /\ arena' = [arena EXCEPT ![s][v] = [desc |-> NULL, cnt |-> cnt, large |-> TRUE]]
              /\ live' = [live EXCEPT ![s] = @ \union {[at |-> v * PG_SIZE + ArenaSize, size |-> size]}]
              /\ UNCHANGED free_list

\* list_pop from the free list "list", of an arena that is "a" before.
GiveBlock(s, d, size, list, a, m) ==
  LET p == Head(list)
      v == block2arena(p)
  IN  /\ mem' = m
      /\ free_list' = [free_list EXCEPT ![s][d] = Tail(list)]
      /\ arena' = [arena EXCEPT ![s][v] = [a EXCEPT !.cnt = @ - 1]]
      /\ live' = [live EXCEPT ![s] = @ \union {[at |-> p, size |-> size]}]

MallocListed(s, size) ==
  LET d == DescFor(size)
      list == free_list[s][d]
  IN  /\ ~Large(size) /\ list # <<>>
      /\ GiveBlock(s, d, size, list, arena[s][block2arena(Head(list))], mem)

MallocNewArena(s, size) ==
  LET d == DescFor(size)
      v == FreeRun(mem, s, 1)
      m == malloc_page(mem, s, 1)
  IN  /\ ~Large(size) /\ free_list[s][d] = <<>>
      /\ IF m.fault # "none" THEN Panic(m)
         ELSE GiveBlock(s, d, size, Blocks(v, d),
                        [desc |-> d, cnt |-> blocks_per_arena(d), large |-> FALSE], m)

sys_malloc(s, size) ==
  /\ mem.fault = "none" /\ Cardinality(live[s]) < MaxLive[s]
  /\ IF ~(size > 0 /\ size < pool_size) THEN UNCHANGED vars
     ELSE MallocLarge(s, size) \/ MallocListed(s, size) \/ MallocNewArena(s, size)

-----------------------------------------------------------------------------
(* sys_free.                                                               *)

FreeLarge(s, p) ==
  LET v == block2arena(p)
  IN  /\ arena[s][v].desc = NULL /\ arena[s][v].large
      /\ mem' = mfree_page(mem, s, v, arena[s][v].cnt)
      /\ arena' = [arena EXCEPT ![s][v] = NULL]
      /\ UNCHANGED free_list

\* Other blocks of the arena are in use.
FreeBlock(s, p) ==
  LET v == block2arena(p)
      a == arena[s][v]
  IN  /\ a.desc # NULL /\ a.cnt + 1 # blocks_per_arena(a.desc)
      /\ free_list' = [free_list EXCEPT ![s][a.desc] = Append(@, p)]
      /\ arena' = [arena EXCEPT ![s][v].cnt = @ + 1]
      /\ UNCHANGED mem

\* Mutant: the page goes back and its blocks stay in the free list.
FreeArena_keeps_blocks(s, p) ==
  LET v == block2arena(p)
      a == arena[s][v]
  IN  /\ a.desc # NULL /\ a.cnt + 1 = blocks_per_arena(a.desc)
      /\ free_list' = [free_list EXCEPT ![s][a.desc] = Append(@, p)]
      /\ arena' = [arena EXCEPT ![s][v] = NULL]
      /\ mem' = mfree_page(mem, s, v, 1)

\* The last one: its blocks leave the free list, where the ASSERT looks for them,
\* and its page is given back.
FreeArena(s, p) ==
  LET v == block2arena(p)
      a == arena[s][v]
      list == Append(free_list[s][a.desc], p)
      blocks == ToSet(Blocks(v, a.desc))
  IN  /\ a.desc # NULL /\ a.cnt + 1 = blocks_per_arena(a.desc)
      /\ IF blocks \subseteq ToSet(list)
         THEN /\ free_list' = [free_list EXCEPT ![s][a.desc] = SelectSeq(list, LAMBDA b : b \notin blocks)]
              /\ mem' = mfree_page(mem, s, v, 1)
              /\ arena' = [arena EXCEPT ![s][v] = NULL]
         ELSE mem' = Fault(mem, "assert") /\ UNCHANGED <<free_list, arena>>

sys_free(s, b) ==
  /\ mem.fault = "none"
  /\ FreeLarge(s, b.at) \/ FreeBlock(s, b.at) \/ FreeArena(s, b.at)
  /\ live' = [live EXCEPT ![s] = @ \ {b}]

-----------------------------------------------------------------------------
(* Pages that are taken without the heap and never given back.             *)

\* get_kernel_pages, for PCBs, page directories and the bitmaps of processes.
get_kernel_pages(cnt) ==
  /\ mem.fault = "none"
  /\ mem' = malloc_page(mem, Kernel, cnt)
  /\ UNCHANGED <<arena, free_list, live>>

\* start_process: the stack of a process is the last page of its space.
start_process(s) ==
  /\ mem.fault = "none" /\ s # Kernel
  /\ mem.pte[s][UserPages - 1] = NULL
  /\ mem' = get_a_page(mem, s, UserPages - 1)
  /\ UNCHANGED <<arena, free_list, live>>

Started(s) == s = Kernel \/ mem.pte[s][UserPages - 1] # NULL

Next ==
  \/ \E cnt \in PageRequests : get_kernel_pages(cnt)
  \/ \E s \in Spaces :
       \/ Started(s) /\ \E size \in Sizes : sys_malloc(s, size)
       \/ \E b \in live[s] : sys_free(s, b)
       \/ start_process(s)

Spec == Init /\ [][Next]_vars

-----------------------------------------------------------------------------
(* Properties.                                                             *)

Bytes(b) == b.at..(b.at + b.size - 1)

PagesOf(b) == {p \div PG_SIZE : p \in Bytes(b)}

ArenaPages(s) == {v \in DOMAIN arena[s] : arena[s][v] # NULL}

Header(v) == (v * PG_SIZE)..(v * PG_SIZE + ArenaSize - 1)

\* What sys_malloc has given out does not overlap what it has given out before, nor
\* an arena header, and all of it is mapped.
AllocationsDisjoint ==
  \A s \in Spaces : \A b \in live[s] :
    /\ \A c \in live[s] \ {b} : Bytes(b) \intersect Bytes(c) = {}
    /\ \A v \in ArenaPages(s) : Bytes(b) \intersect Header(v) = {}
    /\ \A v \in PagesOf(b) : mem.pte[s][v] # NULL

\* The blocks of the arenas of a descriptor that are not in use.
FreeBlocks(s, d) ==
  UNION {ToSet(Blocks(v, d)) : v \in {w \in ArenaPages(s) : arena[s][w].desc = d}}
    \ {b.at : b \in live[s]}

\* A free list holds each free block of its arenas once and nothing else, and the
\* count of an arena is the number of its free blocks, so that an arena is given
\* back with its last block and never before.
FreeListsExact ==
  \A s \in Spaces :
    /\ \A d \in Descs : /\ IsInjective(free_list[s][d])
                         /\ ToSet(free_list[s][d]) = FreeBlocks(s, d)
    /\ \A v \in ArenaPages(s) : arena[s][v].desc # NULL =>
         /\ arena[s][v].cnt < blocks_per_arena(arena[s][v].desc)
         /\ arena[s][v].cnt = Cardinality(ToSet(Blocks(v, arena[s][v].desc))
                                            \intersect FreeBlocks(s, arena[s][v].desc))

\* No frame is mapped twice, or mapped and a page table; and between calls the
\* pools mark exactly the frames in use and the bitmaps of virtual pages exactly the
\* pages that are mapped: nothing is given out twice and nothing leaks.  So no ASSERT
\* of memory.c fails but the ones that memory is not full and that malloc_page is asked
\* for less than 3840 pages, which a size just under pool_size needs: a page that is
\* mapped was not present, and a page that is given back is of its pool.
BitmapsExact ==
  /\ mem.fault # "assert"
  /\ NotShared(mem)
  /\ mem.fault = "none" => PoolExact(mem) /\ VaddrExact(mem)

\* The bitmaps of the pools and of the virtual pages, without the bit behind them.
Bitmaps ==
  {<<mem.pool[pf], Pages>> : pf \in pool_flags} \union {<<mem.vaddr[s], VPages(s)>> : s \in Spaces}

\* On every bitmap the allocator gets into, bitmap_scan returns the first run of clear
\* bits, but for the run that ends with the bit behind the bitmap.
ScanIsFirstFit ==
  \A <<bits, n>> \in Bitmaps : \A after \in BOOLEAN, cnt \in 1..3 :
    ScanFits([bits EXCEPT ![n] = after], n, cnt)
=============================================================================
