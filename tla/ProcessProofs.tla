---------------------------- MODULE ProcessProofs ----------------------------
(***************************************************************************)
(* The registers and the pids of user processes are in order for any       *)
(* number of threads and processes and any size of the memory, with the    *)
(* exceptions that the properties of Process name.                         *)
(***************************************************************************)
EXTENDS Process, WellFoundedInduction, TLAPS

-----------------------------------------------------------------------------
(* The functions of Paging.                                                *)

\* A set of numbers that is not empty has a least element.
LEMMA MinFacts ==
  ASSUME NEW S, S \subseteq Nat, S # {}
  PROVE  Min(S) \in S /\ \A y \in S : Min(S) <= y
<1> DEFINE R == OpToRel(<, Nat)
<1>1. IsWellFoundedOn(R, Nat)
  BY NatLessThanWellFounded, Zenon
<1>2. \A x, y \in Nat : y < x => <<y, x>> \in R
  BY Zenon DEF OpToRel
<1> HIDE DEF R
<1>3. PICK x \in S : \A y \in S : ~(<<y, x>> \in R)
  BY <1>1, WFMin, Zenon
<1>4. ASSUME NEW y \in S PROVE x <= y
  <2>1. x \in Nat /\ y \in Nat
    BY Zenon
  <2>2. ~(y < x)
    BY <1>2, <1>3, <2>1, Zenon
  <2> QED BY <2>1, <2>2
<1> QED BY <1>4, Zenon DEF Min

\* bitmap_scan of one bit finds a bit of the bitmap that is clear.
LEMMA ScanFacts ==
  ASSUME NEW n \in Nat, NEW b \in [0..n -> BOOLEAN], ScanAsserts(b, n)
  PROVE  bitmap_scan(b, n, 1) \in 0..(n - 1) /\ ~b[bitmap_scan(b, n, 1)]
<1>1. FreeBits(b, n) \subseteq Nat /\ FreeBits(b, n) # {}
  BY DEF ScanAsserts, FreeBits
<1>2. Min(FreeBits(b, n)) \in FreeBits(b, n)
  BY <1>1, MinFacts, Zenon
<1> QED BY <1>2, Zenon DEF bitmap_scan, FreeBits

\* What an entry of a page table or of a page directory has.
Entries == Frames \union {NULL}

\* A memory state, field by field.
LEMMA MemoryFields ==
  ASSUME NEW m \in Memory
  PROVE  /\ m.pool \in [pool_flags -> [0..Pages -> BOOLEAN]]
         /\ \A s \in Spaces : m.vaddr[s] \in [0..VPages(s) -> BOOLEAN]
         /\ \A s \in Spaces : m.pte[s] \in [0..VPages(s) -> Entries]
         /\ m.pde \in [Processes -> [Tables -> Entries]]
         /\ m.fault \in {"none", "full", "limit", "assert"}
<1>1. \A s \in Spaces : m.vaddr[s] \in UNION {[0..n -> BOOLEAN] : n \in SpaceSizes}
  BY Zenon DEF Memory
<1>2. \A s \in Spaces : m.pte[s] \in UNION {[0..n -> Entries] : n \in SpaceSizes}
  BY Zenon DEF Memory, Entries
<1>3. \A s \in Spaces : DOMAIN m.vaddr[s] = 0..VPages(s) /\ DOMAIN m.pte[s] = 0..VPages(s)
  BY Zenon DEF Memory
<1>4. ASSUME NEW s \in Spaces PROVE m.vaddr[s] \in [0..VPages(s) -> BOOLEAN]
  <2>1. PICK n \in SpaceSizes : m.vaddr[s] \in [0..n -> BOOLEAN]
    BY <1>1, Zenon
  <2>2. 0..n = 0..VPages(s)
    BY <1>3, <2>1, Zenon
  <2> QED BY <2>1, <2>2, Zenon
<1>5. ASSUME NEW s \in Spaces PROVE m.pte[s] \in [0..VPages(s) -> Entries]
  <2>1. PICK n \in SpaceSizes : m.pte[s] \in [0..n -> Entries]
    BY <1>2, Zenon
  <2>2. 0..n = 0..VPages(s)
    BY <1>3, <2>1, Zenon
  <2> QED BY <2>1, <2>2, Zenon
<1> QED BY <1>4, <1>5, Zenon DEF Memory, Entries

\* A memory state put together from its fields.
LEMMA MemoryIntro ==
  ASSUME NEW m, NEW pool \in [pool_flags -> [0..Pages -> BOOLEAN]],
         NEW vaddr, vaddr = [s \in Spaces |-> vaddr[s]],
         \A s \in Spaces : vaddr[s] \in [0..VPages(s) -> BOOLEAN],
         NEW pte, pte = [s \in Spaces |-> pte[s]],
         \A s \in Spaces : pte[s] \in [0..VPages(s) -> Entries],
         NEW pde \in [Processes -> [Tables -> Entries]],
         NEW fault \in {"none", "full", "limit", "assert"},
         m = [pool |-> pool, vaddr |-> vaddr, pte |-> pte, pde |-> pde, fault |-> fault]
  PROVE  m \in Memory
<1>1. \A s \in Spaces : VPages(s) \in SpaceSizes
  BY Zenon DEF VPages, SpaceSizes
<1>2. vaddr \in [Spaces -> UNION {[0..n -> BOOLEAN] : n \in SpaceSizes}]
  BY <1>1, Zenon
<1>3. pte \in [Spaces -> UNION {[0..n -> Frames \union {NULL}] : n \in SpaceSizes}]
  BY <1>1, Zenon DEF Entries
<1>4. \A s \in Spaces : DOMAIN vaddr[s] = 0..VPages(s) /\ DOMAIN pte[s] = 0..VPages(s)
  BY Zenon
<1> QED BY <1>2, <1>3, <1>4, Zenon DEF Memory, Entries

\* Fields that a function replaces one at a time.
LEMMA FieldFacts ==
  ASSUME NEW m \in Memory
  PROVE  /\ \A f \in {"none", "full", "limit", "assert"} :
              /\ [m EXCEPT !.fault = f] \in Memory
              /\ [m EXCEPT !.fault = f].pte = m.pte /\ [m EXCEPT !.fault = f].fault = f
         /\ \A b \in [pool_flags -> [0..Pages -> BOOLEAN]] :
              /\ [m EXCEPT !.pool = b] \in Memory
              /\ [m EXCEPT !.pool = b].pte = m.pte /\ [m EXCEPT !.pool = b].fault = m.fault
         /\ \A d \in [Processes -> [Tables -> Entries]] :
              /\ [m EXCEPT !.pde = d] \in Memory
              /\ [m EXCEPT !.pde = d].pte = m.pte /\ [m EXCEPT !.pde = d].fault = m.fault
  BY Zenon DEF Memory, Entries

\* Bits of the map of a space.
LEMMA VaddrFacts ==
  ASSUME NEW m \in Memory, NEW s \in Spaces, NEW v, NEW cnt, NEW r,
         r = vaddr_get(m, s, v, cnt) \/ r = vaddr_remove(m, s, v, cnt)
  PROVE  r \in Memory /\ r.pte = m.pte /\ r.fault = m.fault
<1>0. PICK value \in BOOLEAN : r = [m EXCEPT !.vaddr[s] = SetRun(@, v, cnt, value)]
  BY Zenon DEF vaddr_get, vaddr_remove
<1> DEFINE b == SetRun(m.vaddr[s], v, cnt, value)
<1>1. m.vaddr[s] \in [0..VPages(s) -> BOOLEAN]
  BY MemoryFields, Zenon
<1>2. b \in [0..VPages(s) -> BOOLEAN]
  BY <1>1, Zenon DEF SetRun
<1> HIDE DEF b
<1>3. VPages(s) \in SpaceSizes
  BY Zenon DEF VPages, SpaceSizes
<1>4. [m.vaddr EXCEPT ![s] = b] \in [Spaces -> UNION {[0..n -> BOOLEAN] : n \in SpaceSizes}]
  BY <1>2, <1>3 DEF Memory
<1>5. r = [m EXCEPT !.vaddr = [m.vaddr EXCEPT ![s] = b]]
  BY <1>0, Zenon DEF b, Memory
<1>6. r.pte = m.pte /\ r.fault = m.fault
  BY <1>5, Zenon DEF Memory
<1>7. r \in Memory
  BY <1>2, <1>4, <1>5, Zenon DEF Memory
<1> QED BY <1>6, <1>7, Zenon

\* A page table entry.
LEMMA PteFacts ==
  ASSUME NEW m \in Memory, NEW s \in Spaces, NEW v \in 0..VPages(s), NEW f \in Entries
  PROVE  LET r == [m EXCEPT !.pte[s][v] = f] IN
         /\ r \in Memory /\ r.fault = m.fault /\ r.pte[s][v] = f
         /\ \A x \in Spaces : \A w \in 0..VPages(x) : (x # s \/ w # v) => r.pte[x][w] = m.pte[x][w]
<1> DEFINE r == [m EXCEPT !.pte[s][v] = f]
           q == [m.pte[s] EXCEPT ![v] = f]
<1>1. m.pte[s] \in [0..VPages(s) -> Entries]
  BY MemoryFields, Zenon
<1>2. q \in [0..VPages(s) -> Entries] /\ q[v] = f /\ \A w \in 0..VPages(s) : w # v => q[w] = m.pte[s][w]
  BY <1>1, Zenon
<1> HIDE DEF q
<1>3. VPages(s) \in SpaceSizes
  BY Zenon DEF VPages, SpaceSizes
<1>4. [m.pte EXCEPT ![s] = q] \in [Spaces -> UNION {[0..n -> Frames \union {NULL}] : n \in SpaceSizes}]
  BY <1>2, <1>3 DEF Memory, Entries
<1>5. r = [m EXCEPT !.pte = [m.pte EXCEPT ![s] = q]]
  BY Zenon DEF q, Memory
<1> HIDE DEF r
<1>6. r.fault = m.fault /\ r.pte = [m.pte EXCEPT ![s] = q]
  BY <1>5, Zenon DEF Memory
<1>7. r \in Memory
  BY <1>2, <1>4, <1>5, Zenon DEF Memory
<1>8. r.pte[s] = q /\ \A x \in Spaces : x # s => r.pte[x] = m.pte[x]
  BY <1>6, Zenon DEF Memory
<1> QED BY <1>2, <1>6, <1>7, <1>8, Zenon DEF r

\* The frame palloc takes is one of the pool.
LEMMA PallocFacts ==
  ASSUME NEW m \in Memory, NEW pf \in pool_flags, ~PoolFull(m, pf)
  PROVE  /\ FreeFrame(m, pf) \in Frames
         /\ palloc(m, pf) \in Memory
         /\ palloc(m, pf).pte = m.pte /\ palloc(m, pf).fault = m.fault
<1> DEFINE f == FreeFrame(m, pf)
           b == [m.pool EXCEPT ![f[1]][f[2]] = TRUE]
<1>1. m.pool \in [pool_flags -> [0..Pages -> BOOLEAN]] /\ Pages \in Nat
  BY MemoryFields, PagingAssumption, Zenon
<1>2. m.pool[pf] \in [0..Pages -> BOOLEAN] /\ ScanAsserts(m.pool[pf], Pages)
  BY <1>1, Zenon DEF PoolFull
<1>3. bitmap_scan(m.pool[pf], Pages, 1) \in 0..(Pages - 1)
  BY <1>1, <1>2, ScanFacts, Zenon
<1>4. f \in Frames /\ f[1] = pf
  BY <1>3, Zenon DEF FreeFrame, Frames
<1>5. palloc(m, pf) = [m EXCEPT !.pool = b]
  BY Zenon DEF palloc, TakeFrame, Memory
<1>6. b \in [pool_flags -> [0..Pages -> BOOLEAN]]
  BY <1>1, <1>4, Zenon
<1> HIDE DEF b
<1>7. /\ [m EXCEPT !.pool = b] \in Memory
      /\ [m EXCEPT !.pool = b].pte = m.pte /\ [m EXCEPT !.pool = b].fault = m.fault
  BY <1>6, FieldFacts, Zenon
<1> QED BY <1>4, <1>5, <1>7, Zenon

\* What mapping page v of space s may do to the memory m: only an entry that was empty is
\* filled, and a page that could not be mapped is a panic.
Mapped(m, r, s, v) ==
  /\ r \in Memory
  /\ \A x \in Spaces : \A w \in 0..VPages(x) :
       r.pte[x][w] = m.pte[x][w] \/ (x = s /\ w = v /\ m.pte[x][w] = NULL /\ m.fault = "none")
  /\ r.fault = "none" => m.fault = "none" /\ r.pte[s][v] # NULL

\* A new page table takes a frame and maps nothing yet.
LEMMA TableFacts ==
  ASSUME NEW m \in Memory, NEW s \in Spaces, NEW v, ~HasTable(m, s, v)
  PROVE  LET r == AddTable(m, s, v) IN
         r \in Memory /\ r.pte = m.pte /\ (r.fault = "none" => m.fault = "none")
<1>1. CASE PoolFull(m, PF_KERNEL)
  <2>1. AddTable(m, s, v) = [m EXCEPT !.fault = "full"]
    BY <1>1, Zenon DEF AddTable, Fault
  <2> DEFINE r == [m EXCEPT !.fault = "full"]
  <2>2. r \in Memory /\ r.pte = m.pte /\ r.fault = "full"
    BY FieldFacts, ZenonT(60)
  <2> HIDE DEF r
  <2>3. AddTable(m, s, v) = r
    BY <2>1, Zenon DEF r
  <2> QED BY <2>2, <2>3, Zenon
<1>2. CASE ~PoolFull(m, PF_KERNEL)
  <2> DEFINE q == palloc(m, PF_KERNEL)
             f == FreeFrame(m, PF_KERNEL)
             d == [q.pde EXCEPT ![s][v \div TablePages] = f]
  <2>1. f \in Frames /\ q \in Memory /\ q.pte = m.pte /\ q.fault = m.fault
    BY <1>2, PallocFacts, Zenon DEF pool_flags
  <2>2. AddTable(m, s, v) = [q EXCEPT !.pde[s][v \div TablePages] = f]
    BY <1>2, Zenon DEF AddTable
  <2> HIDE DEF q, f
  <2>3. q.pde \in [Processes -> [Tables -> Entries]]
    BY <2>1, MemoryFields, Zenon
  <2>4. d \in [Processes -> [Tables -> Entries]]
    BY <2>1, <2>3, Zenon DEF Entries
  <2>5. AddTable(m, s, v) = [q EXCEPT !.pde = d]
    BY <2>1, <2>2, Zenon DEF Memory
  <2> HIDE DEF d
  <2>6. [q EXCEPT !.pde = d] \in Memory /\ [q EXCEPT !.pde = d].pte = q.pte
        /\ [q EXCEPT !.pde = d].fault = q.fault
    BY <2>1, <2>4, FieldFacts, ZenonT(60)
  <2> QED BY <2>1, <2>5, <2>6, Zenon
<1> QED BY <1>1, <1>2, Zenon

\* *pte = page_phyaddr | ..., over an entry that is empty.
LEMMA SetPteFacts ==
  ASSUME NEW m \in Memory, NEW s \in Spaces, NEW v \in 0..VPages(s), NEW f \in Frames
  PROVE  Mapped(m, SetPte(m, s, v, f), s, v)
<1> DEFINE r == SetPte(m, s, v, f)
<1>1. CASE m.fault # "none"
  BY <1>1, Zenon DEF SetPte, Mapped
<1>2. CASE m.fault = "none" /\ m.pte[s][v] # NULL
  <2>1. r = [m EXCEPT !.fault = "assert"]
    BY <1>2, Zenon DEF SetPte, Fault
  <2> QED BY <2>1, FieldFacts, ZenonT(60) DEF Mapped
<1>3. CASE m.fault = "none" /\ m.pte[s][v] = NULL
  <2>1. r = [m EXCEPT !.pte[s][v] = f]
    BY <1>3, Zenon DEF SetPte
  <2>2. f \in Entries /\ f # NULL
    BY NullAssumption, Zenon DEF Entries
  <2>3. /\ r \in Memory /\ r.fault = m.fault /\ r.pte[s][v] = f
        /\ \A x \in Spaces : \A w \in 0..VPages(x) : (x # s \/ w # v) => r.pte[x][w] = m.pte[x][w]
    BY <2>1, <2>2, PteFacts
  <2> HIDE DEF r
  <2> QED BY <1>3, <2>2, <2>3, Zenon DEF Mapped, r
<1> QED BY <1>1, <1>2, <1>3, Zenon

\* One page of malloc_page or get_a_page.
LEMMA MapPageFacts ==
  ASSUME NEW m \in Memory, NEW s \in Spaces, NEW v \in 0..VPages(s), NEW pf \in pool_flags
  PROVE  Mapped(m, MapPage(m, pf, s, v), s, v)
<1> DEFINE r == MapPage(m, pf, s, v)
<1>1. CASE m.fault # "none"
  BY <1>1, Zenon DEF MapPage, Mapped
<1>2. CASE m.fault = "none" /\ PoolFull(m, pf)
  <2>1. r = [m EXCEPT !.fault = "full"]
    BY <1>2, Zenon DEF MapPage, Fault
  <2> QED BY <2>1, FieldFacts, ZenonT(60) DEF Mapped
<1>3. CASE m.fault = "none" /\ ~PoolFull(m, pf)
  <2> DEFINE q == palloc(m, pf)
             f == FreeFrame(m, pf)
             n == IF HasTable(q, s, v) THEN q ELSE AddTable(q, s, v)
  <2>1. f \in Frames /\ q \in Memory /\ q.pte = m.pte /\ q.fault = m.fault
    BY <1>3, PallocFacts, Zenon
  <2>2. r = SetPte(n, s, v, f)
    BY <1>3, Zenon DEF MapPage, page_table_add
  <2> HIDE DEF q, f
  <2>3. n \in Memory /\ n.pte = q.pte /\ (n.fault = "none" => q.fault = "none")
    BY <2>1, TableFacts, Zenon
  <2> HIDE DEF n
  <2>4. Mapped(n, r, s, v)
    BY <2>1, <2>2, <2>3, SetPteFacts, Zenon
  <2> HIDE DEF r
  <2> QED BY <2>1, <2>3, <2>4, Zenon DEF Mapped, r
<1> QED BY <1>1, <1>2, <1>3, Zenon

\* get_a_page.
LEMMA GetPageFacts ==
  ASSUME NEW m \in Memory, NEW s \in Spaces, NEW v \in 0..VPages(s)
  PROVE  Mapped(m, get_a_page(m, s, v), s, v)
<1>1. CASE v = 0
  <2>1. get_a_page(m, s, v) = [m EXCEPT !.fault = "assert"]
    BY <1>1, Zenon DEF get_a_page, Fault
  <2> QED BY <2>1, FieldFacts, ZenonT(60) DEF Mapped
<1>2. CASE v # 0
  <2> DEFINE q == vaddr_get(m, s, v, 1)
  <2>1. get_a_page(m, s, v) = MapPage(q, PoolOf(s), s, v)
    BY <1>2, Zenon DEF get_a_page
  <2>2. q \in Memory /\ q.pte = m.pte /\ q.fault = m.fault
    BY VaddrFacts
  <2> HIDE DEF q
  <2>3. PoolOf(s) \in pool_flags
    BY Zenon DEF PoolOf, pool_flags
  <2>4. Mapped(q, get_a_page(m, s, v), s, v)
    BY <2>1, <2>2, <2>3, MapPageFacts, Zenon
  <2> QED BY <2>2, <2>4, Zenon DEF Mapped
<1> QED BY <1>1, <1>2, Zenon

\* malloc_page of one page, at the page FreeRun finds.
LEMMA MallocFacts ==
  ASSUME NEW m \in Memory, NEW s \in Spaces, ~SpaceFull(m, s)
  PROVE  /\ FreeRun(m, s, 1) \in 0..(VPages(s) - 1)
         /\ Mapped(m, malloc_page(m, s, 1), s, FreeRun(m, s, 1))
<1> DEFINE v == FreeRun(m, s, 1)
           q == vaddr_get(m, s, v, 1)
           r == MapPage(q, PoolOf(s), s, v)
<1>1. VPages(s) \in Nat /\ m.vaddr[s] \in [0..VPages(s) -> BOOLEAN]
  BY MemoryFields, PagingAssumption, Zenon DEF VPages
<1>2. v \in 0..(VPages(s) - 1)
  BY <1>1, ScanFacts, Zenon DEF FreeRun, SpaceFull
<1>3. malloc_page(m, s, 1) = r
  <2> DEFINE g == [i \in 0..1 |-> IF i = 0 THEN q ELSE r]
             mapped == CHOOSE f : f = [i \in 0..1 |-> IF i = 0 THEN q
                                       ELSE MapPage(f[i - 1], PoolOf(s), s, v + i - 1)]
  <2>1. g = [i \in 0..1 |-> IF i = 0 THEN q ELSE MapPage(g[i - 1], PoolOf(s), s, v + i - 1)]
    <3>1. g[0] = q
      OBVIOUS
    <3>2. ASSUME NEW i \in 0..1, i # 0
          PROVE  MapPage(g[i - 1], PoolOf(s), s, v + i - 1) = r
      <4>1. i = 1 /\ i - 1 = 0 /\ v + i - 1 = v
        BY <1>2, <3>2
      <4> HIDE DEF g, q
      <4> QED BY <3>1, <4>1, Zenon
    <3> QED BY <3>2, Zenon
  <2>2. mapped = [i \in 0..1 |-> IF i = 0 THEN q
                   ELSE MapPage(mapped[i - 1], PoolOf(s), s, v + i - 1)]
    <3> HIDE DEF g, q
    <3> QED BY <2>1, Zenon
  <2>3. mapped[1] = r
    <3>1. mapped[0] = q /\ mapped[1] = MapPage(mapped[1 - 1], PoolOf(s), s, v + 1 - 1)
      <4> HIDE DEF mapped, q
      <4> QED BY <2>2
    <3>2. 1 - 1 = 0 /\ v + 1 - 1 = v
      BY <1>2
    <3> HIDE DEF mapped, q
    <3> QED BY <3>1, <3>2, Zenon
  <2>4. malloc_page(m, s, 1) = mapped[1]
    <3>1. v # -1
      BY <1>2
    <3>2. PgCntAsserts(1)
      BY PagingAssumption, ProcessAssumption DEF PgCntAsserts
    <3> QED BY <3>1, <3>2, Zenon DEF malloc_page
  <2> QED BY <2>3, <2>4, Zenon
<1>4. q \in Memory /\ q.pte = m.pte /\ q.fault = m.fault
  BY VaddrFacts
<1>5. PoolOf(s) \in pool_flags
  BY Zenon DEF PoolOf, pool_flags
<1> HIDE DEF q
<1>6. Mapped(q, r, s, v)
  BY <1>1, <1>2, <1>4, <1>5, MapPageFacts
<1> QED BY <1>2, <1>3, <1>4, <1>6, Zenon DEF Mapped

\* What freeing page v of space s may do: no other entry changes.
Unmapped(m, r, s, v) ==
  /\ r \in Memory
  /\ \A x \in Spaces : \A w \in 0..VPages(x) : (x # s \/ w # v) => r.pte[x][w] = m.pte[x][w]
  /\ r.fault = "none" => m.fault = "none"

\* mfree_page of one page that is mapped.
LEMMA FreeFacts ==
  ASSUME NEW m \in Memory, NEW s \in Spaces, NEW v \in 0..VPages(s), m.pte[s][v] # NULL
  PROVE  Unmapped(m, mfree_page(m, s, v, 1), s, v)
<1> DEFINE f == m.pte[s][v]
           pf == f[1]
           q == UnmapPage(m, pf, s, v)
<1>1. f \in Frames
  BY MemoryFields, ZenonT(60) DEF Entries
<1>2. mfree_page(m, s, v, 1) = vaddr_remove(q, s, v, 1)
  <2> DEFINE g == [i \in 0..1 |-> IF i = 0 THEN m ELSE q]
             freed == CHOOSE h : h = [i \in 0..1 |-> IF i = 0 THEN m
                                      ELSE UnmapPage(h[i - 1], m.pte[s][v][1], s, v + i - 1)]
  <2>0. \A i \in 0..1 : i # 0 => i = 1 /\ i - 1 = 0 /\ v + i - 1 = v
    OBVIOUS
  <2>1. g = [i \in 0..1 |-> IF i = 0 THEN m ELSE UnmapPage(g[i - 1], m.pte[s][v][1], s, v + i - 1)]
    <3>1. g[0] = m
      OBVIOUS
    <3>2. ASSUME NEW i \in 0..1, i # 0
          PROVE  UnmapPage(g[i - 1], m.pte[s][v][1], s, v + i - 1) = q
      <4> HIDE DEF g
      <4> QED BY <2>0, <3>1, <3>2, Zenon
    <3> HIDE DEF q
    <3> QED BY <3>2, Zenon
  <2>2. freed = [i \in 0..1 |-> IF i = 0 THEN m
                  ELSE UnmapPage(freed[i - 1], m.pte[s][v][1], s, v + i - 1)]
    <3> HIDE DEF g
    <3> QED BY <2>1, Zenon
  <2>3. freed[1] = q
    <3>1. freed[0] = m /\ freed[1] = UnmapPage(freed[1 - 1], m.pte[s][v][1], s, v + 1 - 1)
      <4> HIDE DEF freed
      <4> QED BY <2>2
    <3>2. 1 - 1 = 0 /\ v + 1 - 1 = v
      OBVIOUS
    <3> HIDE DEF freed
    <3> QED BY <3>1, <3>2, Zenon
  <2>4. mfree_page(m, s, v, 1) = vaddr_remove(freed[1], s, v, 1)
    BY Zenon DEF mfree_page
  <2> QED BY <2>3, <2>4, Zenon
<1>3. Unmapped(m, q, s, v)
  <2>1. CASE m.fault # "none" 
    BY <2>1, Zenon DEF UnmapPage, Unmapped
  <2>2. CASE m.fault = "none"
    <3> DEFINE b == [m.pool EXCEPT ![f[1]][f[2]] = FALSE]
               n == pfree(m, f)
    <3>1. q = page_table_pte_remove(n, s, v)
      BY <2>2, Zenon DEF UnmapPage
    <3>2. m.pool \in [pool_flags -> [0..Pages -> BOOLEAN]] /\ f[1] \in pool_flags
      BY <1>1, MemoryFields, Zenon DEF Frames
    <3>3. b \in [pool_flags -> [0..Pages -> BOOLEAN]]
      BY <3>2, Zenon
    <3>4. n = [m EXCEPT !.pool = b]
      BY Zenon DEF pfree, Memory
    <3> HIDE DEF b, n
    <3>5. n \in Memory /\ n.pte = m.pte /\ n.fault = m.fault
      BY <3>3, <3>4, FieldFacts, Zenon
    <3>6. q = [n EXCEPT !.pte[s][v] = NULL] /\ NULL \in Entries
      BY <3>1, Zenon DEF page_table_pte_remove, Entries
    <3>7. /\ q \in Memory /\ q.fault = n.fault
          /\ \A x \in Spaces : \A w \in 0..VPages(x) : (x # s \/ w # v) => q.pte[x][w] = n.pte[x][w]
      BY <3>5, <3>6, PteFacts
    <3> HIDE DEF q
    <3> QED BY <3>5, <3>7, Zenon DEF Unmapped
  <2> QED BY <2>1, <2>2, Zenon
<1> HIDE DEF q
<1> DEFINE r == vaddr_remove(q, s, v, 1)
<1>4. q \in Memory
  BY <1>3, Zenon DEF Unmapped
<1>5. r \in Memory /\ r.pte = q.pte /\ r.fault = q.fault
  BY <1>4, VaddrFacts
<1> HIDE DEF r
<1>6. Unmapped(m, r, s, v)
  BY <1>3, <1>5, Zenon DEF Unmapped
<1> QED BY <1>2, <1>6, Zenon DEF r

-----------------------------------------------------------------------------
(* The invariant.                                                          *)

\* The memory of mem_pool_init is a memory state.
LEMMA InitMemory == mem_pool_init \in Memory
<1>1. [pf \in pool_flags |-> bitmap_init(Pages, FALSE)] \in [pool_flags -> [0..Pages -> BOOLEAN]]
  BY Zenon DEF bitmap_init
<1> DEFINE vaddr == [s \in Spaces |-> bitmap_init(VPages(s), FALSE)]
           pte == [s \in Spaces |-> [v \in 0..VPages(s) |-> NULL]]
           pde == [s \in Processes |-> [i \in Tables |-> NULL]]
<1>2. \A s \in Spaces : vaddr[s] \in [0..VPages(s) -> BOOLEAN]
  BY Zenon DEF bitmap_init
<1>3. \A s \in Spaces : pte[s] \in [0..VPages(s) -> Entries]
  BY Zenon DEF Entries
<1>4. pde \in [Processes -> [Tables -> Entries]]
  BY Zenon DEF Entries
<1>5. vaddr = [s \in Spaces |-> vaddr[s]] /\ pte = [s \in Spaces |-> pte[s]]
  BY Zenon
<1>6. mem_pool_init = [pool |-> [pf \in pool_flags |-> bitmap_init(Pages, FALSE)],
                       vaddr |-> vaddr, pte |-> pte, pde |-> pde, fault |-> "none"]
  BY Zenon DEF mem_pool_init
<1> HIDE DEF vaddr, pte, pde
<1> QED BY <1>1, <1>2, <1>3, <1>4, <1>5, <1>6, MemoryIntro, Zenon

\* The tasks, the spaces and NULL are told apart.
LEMMA Distinct ==
  /\ NULL \notin Processes /\ Kernel \notin Processes
  /\ \A t \in Threads, p \in Processes : t # p
  BY PagingAssumption, ProcessAssumption, NullAssumption, Zenon DEF Spaces

\* The system before the first process_execute satisfies the invariant.
LEMMA InitIInv == Init => IInv
<1> SUFFICES ASSUME Init PROVE IInv
  BY Zenon
<1>1. /\ \A t \in Threads : task[t] = [pc |-> "kernel", pid |-> 0, pgdir |-> NULL, kstack |-> 0,
                                       frame |-> 0, new |-> NULL]
      /\ \A p \in Processes : task[p] = [pc |-> "none", pid |-> 0, pgdir |-> NULL, kstack |-> 0,
                                         frame |-> 0, new |-> NULL]
      /\ DOMAIN task = Tasks
  BY Distinct, Zenon DEF Init, Tasks
<1>2. TypeOK
  <2>1. task \in [Tasks -> [pc : ThreadLabels \union ProcessLabels, pid : Nat,
                            pgdir : Processes \union {NULL}, kstack : Int, frame : Int,
                            new : Processes \union {NULL}]]
    BY DEF Init, Tasks, ThreadLabels, ProcessLabels
  <2>2. \A t \in Tasks : task[t].pc \in IF t \in Threads THEN ThreadLabels ELSE ProcessLabels
    BY <1>1 DEF Tasks, ThreadLabels, ProcessLabels
  <2> QED BY <2>1, <2>2, InitMemory, Zenon DEF TypeOK, Init, Tasks, Spaces
<1>3. MakingInv
  BY <1>1 DEF MakingInv, Making
<1>4. ListedInv /\ OwnSpace
  BY Distinct, Zenon DEF ListedInv, OwnSpace, Init
<1>5. PgdirInv /\ KstackInv /\ PidInv /\ PidsUnique
  BY <1>1 DEF PgdirInv, KstackInv, Placed, PidInv, PidsUnique, Init
<1>6. TlbInv /\ StaleOnlyUnmapped
  BY Zenon DEF TlbInv, StaleOnlyUnmapped, Init
<1> QED BY <1>2, <1>3, <1>4, <1>5, <1>6, Zenon DEF IInv

\* A task_struct.
TaskType ==
  [pc : ThreadLabels \union ProcessLabels, pid : Nat, pgdir : Processes \union {NULL},
   kstack : Int, frame : Int, new : Processes \union {NULL}]

\* The parts of the invariant that are about the memory and the processor.
LEMMA SameMachine ==
  ASSUME IInv, UNCHANGED <<cur, cpu, mem, astray>>
  PROVE  TlbInv' /\ OwnSpace' /\ StaleOnlyUnmapped'
  BY Zenon DEF IInv, TlbInv, OwnSpace, StaleOnlyUnmapped, cpu

\* The types, after a step of process_execute or of a process that leaves the registers
\* and the memory alone.
LEMMA SameTypes ==
  ASSUME TypeOK, task' \in [Tasks -> TaskType],
         \A u \in Tasks : task'[u].pc \in IF u \in Threads THEN ThreadLabels ELSE ProcessLabels,
         next_pid' \in Nat, ready' \subseteq Tasks, raced' \subseteq Processes,
         UNCHANGED <<cur, cpu, mem, astray, early>>
  PROVE  TypeOK'
<1>1. UNCHANGED <<cr3, esp0, tlb, unmapped>>
  BY Zenon DEF cpu
<1>2. task' \in [Tasks -> [pc : ThreadLabels \union ProcessLabels, pid : Nat,
                          pgdir : Processes \union {NULL}, kstack : Int, frame : Int,
                          new : Processes \union {NULL}]]
  BY Zenon DEF TaskType
<1> QED BY <1>1, <1>2, Zenon DEF TypeOK

\* allocate_pid counts for a new process.
LEMMA BeginExecuteStep ==
  ASSUME IInv, NEW t \in Threads, NEW p \in Processes, BeginExecute(t, p) PROVE IInv'
<1>0. /\ t \in Tasks /\ p \in Tasks /\ t # p /\ task \in [Tasks -> TaskType]
      /\ cur = t /\ task[t].pc = "kernel" /\ task[p].pc = "none" /\ next_pid \in Nat
  BY Distinct, Zenon DEF BeginExecute, Runs, Tasks, IInv, TypeOK, TaskType
<1> DEFINE others == {task[u].new : u \in {v \in Threads : task[v].pc = "counted"}}
<1>1. /\ next_pid' = next_pid + 1
      /\ task' = [task EXCEPT ![t].pc = "counted", ![t].new = p, ![p].pc = "created"]
      /\ raced' = IF others = {} THEN raced ELSE raced \union others \union {p}
      /\ UNCHANGED <<cur, ready, cpu, mem, astray, early>>
  BY Zenon DEF BeginExecute
<1>2. /\ task' \in [Tasks -> TaskType]
      /\ task'[t] = [task[t] EXCEPT !.pc = "counted", !.new = p]
      /\ task'[p] = [task[p] EXCEPT !.pc = "created"]
      /\ \A u \in Tasks : u # t /\ u # p => task'[u] = task[u]
  BY <1>0, <1>1 DEF TaskType, ThreadLabels, ProcessLabels
<1>3. \A u \in Threads : task[u].pc = "counted" => task[u].new \in Processes
  BY Zenon DEF IInv, MakingInv, Making
<1>4. raced' \subseteq Processes /\ raced \subseteq raced'
  BY <1>1, <1>3, Zenon DEF IInv, TypeOK
<1>5. TypeOK'
  <2>1. \A u \in Tasks : task'[u].pc \in IF u \in Threads THEN ThreadLabels ELSE ProcessLabels
    BY <1>0, <1>2, Distinct, Zenon DEF IInv, TypeOK, TaskType, ThreadLabels, ProcessLabels
  <2>2. ready' \subseteq Tasks /\ next_pid' \in Nat
    BY <1>0, <1>1 DEF IInv, TypeOK
  <2> QED BY <1>1, <1>2, <1>4, <2>1, <2>2, SameTypes, Zenon DEF IInv
<1>6. MakingInv'
  <2>1. \A u \in Threads \ {t} : Making(u)' <=> Making(u)
    BY <1>0, <1>2, Distinct, Zenon DEF Making, Tasks
  <2>2. \A u \in Threads \ {t} : task'[u] = task[u] /\
          (Making(u) => task[u].new # p /\ task'[task[u].new] = task[task[u].new])
    BY <1>0, <1>2, Distinct, Zenon DEF IInv, MakingInv, Tasks
  <2>3. /\ task'[t].new = p /\ task'[t].pc = "counted" /\ task'[p].pc = "created"
        /\ task'[p].pid = 0 /\ task'[p].kstack = 0 /\ task'[p].pgdir = NULL
    BY <1>0, <1>2 DEF IInv, MakingInv, TaskType
  <2>4. \A q \in Processes : task'[q].pc = "none" => task'[q] = task[q]
    BY <1>0, <1>2, <2>3, Distinct, Zenon DEF Tasks
  <2> QED BY <2>1, <2>2, <2>3, <2>4 DEF IInv, MakingInv
<1>7. ListedInv' /\ PgdirInv' /\ KstackInv'
  <2>1. /\ task'[p].pc = "created" /\ task'[t].pgdir = task[t].pgdir /\ p \notin ready \union {cur}
        /\ \A u \in Threads : u # t => task'[u] = task[u]
        /\ \A q \in Processes : q # p => task'[q] = task[q]
    <3>1. task'[p].pc = "created" /\ task'[t].pgdir = task[t].pgdir
      <4>1. DOMAIN task[p] = {"pc", "pid", "pgdir", "kstack", "frame", "new"} /\ DOMAIN task[t] = DOMAIN task[p]
        BY <1>0 DEF TaskType
      <4> QED BY <1>2, <4>1, Zenon
    <3>2. p \notin ready \union {cur}
      BY <1>0, Zenon DEF IInv, ListedInv
    <3> QED BY <1>2, <3>1, <3>2, Distinct, Zenon DEF Tasks
  <2>2. ListedInv'
    BY <1>1, <2>1, Zenon DEF IInv, ListedInv
  <2>3. PgdirInv'
    BY <2>1, Zenon DEF IInv, PgdirInv
  <2>4. KstackInv'
    BY <1>1, <2>1, ZenonT(60) DEF IInv, KstackInv, Placed
  <2> QED BY <2>2, <2>3, <2>4, Zenon
<1>8. PidInv' /\ PidsUnique'
  <2>1. \A q \in Processes : task'[q].pid = task[q].pid /\ task[q].pid \in Nat
    BY <1>0, <1>2, Distinct DEF Tasks, TaskType
  <2>2. \A u \in Threads \ {t} : task'[u] = task[u]
    BY <1>2, Distinct, Zenon DEF Tasks
  <2>3. ASSUME NEW u \in Threads \ {t}, task'[u].pc = "counted"
        PROVE  {task'[u].new, p} \subseteq raced'
    <3>1. task[u].new \in others
      BY <2>2, <2>3, Zenon
    <3> QED BY <1>1, <2>2, <3>1, Zenon
  <2>4. task'[t].new = p
    BY <1>0, <1>2 DEF TaskType
  <2>5. \A u, v \in Threads : task'[u].pc = "counted" /\ task'[v].pc = "counted" /\ u # v =>
          {task'[u].new, task'[v].new} \subseteq raced'
    BY <2>3, <2>4
  <2>6. ASSUME NEW q \in Processes PROVE task'[q].pid <= next_pid' /\ task'[q].pid # next_pid'
    <3>1. task[q].pid <= next_pid /\ task[q].pid \in Nat /\ task'[q].pid = task[q].pid
      BY <2>1, Zenon DEF IInv, PidInv
    <3> QED BY <1>0, <1>1, <3>1
  <2>7. PidInv'
    BY <2>5, <2>6, Zenon DEF PidInv
  <2> QED BY <1>4, <2>1, <2>7, Zenon DEF IInv, PidsUnique
<1> QED BY <1>1, <1>5, <1>6, <1>7, <1>8, SameMachine, Zenon DEF IInv

\* The thread that makes a process and the process are no part of another creation.
LEMMA Maker ==
  ASSUME IInv, NEW t \in Threads, Making(t)
  PROVE  LET q == task[t].new IN
         /\ t \in Tasks /\ q \in Tasks /\ q \in Processes /\ t # q
         /\ task \in [Tasks -> TaskType] /\ task[q].pc = "created"
         /\ q \notin ready \union {cur}
         /\ \A u \in Threads \ {t} :
              u # q /\ (Making(u) => task[u].new # q /\ task[u].new # t /\ task[u].new \in Tasks)
  BY Distinct DEF IInv, TypeOK, MakingInv, ListedInv, Tasks, TaskType

\* A step of process_execute that sets one field of the new process's task_struct.
LEMMA MakerStep ==
  ASSUME IInv, NEW t \in Threads, Making(t), NEW label \in {"numbered", "built", "append"},
         NEW n \in TaskType,
         task' \in [Tasks -> TaskType],
         task'[t].pc = label, task'[t].new = task[t].new, task'[t].pgdir = task[t].pgdir,
         task'[task[t].new] = n,
         \A u \in Tasks : u # t /\ u # task[t].new => task'[u] = task[u],
         n.pc = "created", n.frame = task[task[t].new].frame,
         n.kstack = IF label \in {"built", "append"} THEN -(intr_stack + thread_stack) ELSE 0,
         n.pgdir = IF label = "append" THEN task[t].new ELSE NULL,
         UNCHANGED <<cur, ready, next_pid, cpu, mem, history>>
  PROVE  /\ TypeOK' /\ MakingInv' /\ ListedInv' /\ PgdirInv' /\ KstackInv'
         /\ TlbInv' /\ OwnSpace' /\ StaleOnlyUnmapped'
<1> DEFINE q == task[t].new
<1>0. /\ t \in Tasks /\ q \in Tasks /\ q \in Processes /\ t # q
      /\ task \in [Tasks -> TaskType] /\ task[q].pc = "created"
      /\ q \notin ready \union {cur}
      /\ \A u \in Threads \ {t} :
           u # q /\ (Making(u) => task[u].new # q /\ task[u].new # t /\ task[u].new \in Tasks)
  BY Maker, Zenon
<1>1. /\ task' \in [Tasks -> TaskType] /\ task'[q] = n
      /\ \A u \in Tasks : u # t /\ u # q => task'[u] = task[u]
  BY Zenon
<1>2. UNCHANGED <<cur, ready, next_pid, cpu, mem, astray, early, raced>>
  BY Zenon DEF history
<1>3. TypeOK'
  <2>1. \A u \in Tasks : task'[u].pc \in IF u \in Threads THEN ThreadLabels ELSE ProcessLabels
    BY <1>0, <1>1, Distinct DEF IInv, TypeOK, TaskType, ThreadLabels, ProcessLabels
  <2>2. ready' \subseteq Tasks /\ next_pid' \in Nat /\ raced' \subseteq Processes
    BY <1>2, Zenon DEF IInv, TypeOK
  <2> QED BY <1>1, <1>2, <2>1, <2>2, SameTypes, Zenon DEF IInv
<1>4. task'[t].pc = label /\ task'[t].new = q /\ task'[t].pgdir = task[t].pgdir
  BY Zenon
<1>5. MakingInv'
  <2>1. \A u \in Threads \ {t} : task'[u] = task[u] /\
          (Making(u) => task'[task[u].new] = task[task[u].new])
    BY <1>0, <1>1, Distinct, Zenon DEF Tasks
  <2>2. \A u \in Threads \ {t} : Making(u)' <=> Making(u)
    BY <2>1, Zenon DEF Making
  <2>3. \A u \in Threads \ {t} : Making(u)' => task'[u].new # task'[t].new
    BY <1>0, <1>4, <2>1, Zenon DEF Making
  <2>4. \A p \in Processes : task'[p].pc = "none" => task'[p] = task[p]
    BY <1>0, <1>1, Distinct, Zenon DEF Tasks
  <2>5. ASSUME NEW u \in Threads, Making(u)'
        PROVE  LET r == task'[task'[u].new] IN
               /\ task'[u].new \in Processes /\ r.pc = "created"
               /\ task'[u].pc = "counted" => r.pid = 0
               /\ r.kstack = IF task'[u].pc \in {"built", "append"}
                             THEN -(intr_stack + thread_stack) ELSE 0
               /\ r.pgdir = IF task'[u].pc = "append" THEN task'[u].new ELSE NULL
    <3>1. CASE u = t
      BY <1>0, <1>1, <1>4, <3>1, Zenon
    <3>2. CASE u # t
      BY <2>1, <2>2, <2>5, <3>2 DEF IInv, MakingInv
    <3> QED BY <3>1, <3>2, Zenon
  <2>6. \A u, v \in Threads :
          Making(u)' /\ Making(v)' /\ task'[u].new = task'[v].new => u = v
    BY <2>1, <2>3 DEF IInv, MakingInv, Making
  <2> QED BY <2>4, <2>5, <2>6 DEF IInv, MakingInv
<1>6. ListedInv' /\ PgdirInv' /\ KstackInv'
  BY <1>0, <1>1, <1>2, <1>4, Distinct DEF IInv, ListedInv, PgdirInv, KstackInv, Placed, Tasks
<1> QED BY <1>1, <1>2, <1>3, <1>5, <1>6, SameMachine, Zenon

\* A process gets the number that next_pid has by then.
LEMMA ReturnPidStep ==
  ASSUME IInv, NEW t \in Threads, ReturnPid(t) PROVE IInv'
<1> DEFINE q == task[t].new
           n == [task[q] EXCEPT !.pid = next_pid]
<1>0. /\ Making(t) /\ task[t].pc = "counted" /\ UNCHANGED <<cur, ready, next_pid, cpu, mem, history>>
      /\ task' = [task EXCEPT ![t].pc = "numbered", ![q].pid = next_pid]
  BY Zenon DEF ReturnPid, Runs, Making
<1>1. /\ t \in Tasks /\ q \in Tasks /\ q \in Processes /\ t # q
      /\ task \in [Tasks -> TaskType] /\ task[q].pc = "created"
  BY <1>0, Maker, Zenon
<1>2. next_pid \in Nat /\ raced' = raced /\ next_pid' = next_pid
  BY <1>0, Zenon DEF IInv, TypeOK, history
<1>3. /\ n \in TaskType /\ n.pc = "created" /\ n.frame = task[q].frame /\ n.pid = next_pid
      /\ n.kstack = task[q].kstack /\ n.pgdir = task[q].pgdir
  BY <1>1, <1>2 DEF TaskType
<1>4. task[q].kstack = 0 /\ task[q].pgdir = NULL
  BY <1>0, Zenon DEF IInv, MakingInv
<1>5. /\ task' \in [Tasks -> TaskType] /\ task'[q] = n
      /\ task'[t].pc = "numbered" /\ task'[t].new = q /\ task'[t].pgdir = task[t].pgdir
      /\ \A u \in Tasks : u # t /\ u # q => task'[u] = task[u]
  <2> DEFINE m == [task[t] EXCEPT !.pc = "numbered"]
  <2>1. m \in TaskType /\ m.pc = "numbered" /\ m.new = q /\ m.pgdir = task[t].pgdir
    BY <1>1, Zenon DEF TaskType, ThreadLabels
  <2>2. task' = [task EXCEPT ![t] = m, ![q] = n]
    BY <1>0, <1>1, Zenon
  <2> HIDE DEF m, n
  <2> QED BY <1>1, <1>3, <2>1, <2>2, Zenon
<1> HIDE DEF n
<1>6. /\ TypeOK' /\ MakingInv' /\ ListedInv' /\ PgdirInv' /\ KstackInv'
      /\ TlbInv' /\ OwnSpace' /\ StaleOnlyUnmapped'
  BY <1>0, <1>3, <1>4, <1>5, MakerStep, Zenon
<1>7. /\ task'[t].pc = "numbered"
      /\ \A u \in Threads \ {t} : task'[u] = task[u]
      /\ \A p \in Processes \ {q} : task'[p] = task[p]
      /\ task'[q].pid = next_pid
  BY <1>1, <1>3, <1>5, Distinct, Zenon DEF Tasks
<1>8. PidInv'
  <2>1. \A p \in Processes : task'[p].pid <= next_pid'
    BY <1>2, <1>7 DEF IInv, PidInv
  <2>2. \A u, v \in Threads : task'[u].pc = "counted" /\ task'[v].pc = "counted" /\ u # v =>
          {task'[u].new, task'[v].new} \subseteq raced'
    BY <1>2, <1>7 DEF IInv, PidInv
  <2>3. ASSUME NEW u \in Threads, NEW p \in Processes,
               task'[u].pc = "counted", task'[p].pid = next_pid'
        PROVE  {task'[u].new, p} \subseteq raced'
    <3>1. u # t /\ task'[u] = task[u]
      BY <1>7, <2>3, Zenon
    <3>2. CASE p = q
      BY <1>0, <1>2, <2>3, <3>1, <3>2, Zenon DEF IInv, PidInv
    <3>3. CASE p # q
      BY <1>2, <1>7, <2>3, <3>1, <3>3, Zenon DEF IInv, PidInv
    <3> QED BY <3>2, <3>3, Zenon
  <2> QED BY <2>1, <2>2, <2>3, Zenon DEF PidInv
<1>9. PidsUnique'
  <2> SUFFICES ASSUME NEW a \in Processes, NEW b \in Processes,
                      task'[a].pid # 0, task'[a].pid = task'[b].pid
               PROVE  a = b \/ {a, b} \subseteq raced'
    BY Zenon DEF PidsUnique
  <2>1. CASE a # q /\ b # q
    BY <1>2, <1>7, <2>1 DEF IInv, PidsUnique
  <2>2. \A x \in Processes : task[x].pid = next_pid => {q, x} \subseteq raced
    BY <1>0, Zenon DEF IInv, PidInv
  <2>3. CASE a = q /\ b # q
    BY <1>2, <1>7, <2>2, <2>3, Zenon
  <2>4. CASE a # q /\ b = q
    BY <1>2, <1>7, <2>2, <2>4, Zenon
  <2> QED BY <2>1, <2>3, <2>4, Zenon
<1> QED BY <1>6, <1>8, <1>9, Zenon DEF IInv

\* The pids are right as long as no pid, and none of those that wait for one, changes.
LEMMA SamePids ==
  ASSUME IInv, UNCHANGED <<next_pid, raced>>,
         \A p \in Processes : task'[p].pid = task[p].pid,
         \A t \in Threads : task'[t].pc = "counted" =>
           task[t].pc = "counted" /\ task'[t].new = task[t].new
  PROVE  PidInv' /\ PidsUnique'
<1>1. PidsUnique'
  BY DEF IInv, PidsUnique
<1>2. \A p \in Processes : task'[p].pid <= next_pid'
  BY Zenon DEF IInv, PidInv
<1>3. PidInv'
  BY <1>2 DEF IInv, PidInv
<1> QED BY <1>1, <1>3, Zenon

\* thread_create reserves the frames of the new process.
LEMMA CreateThreadStep ==
  ASSUME IInv, NEW t \in Threads, CreateThread(t) PROVE IInv'
<1> DEFINE q == task[t].new
           n == [task[q] EXCEPT !.kstack = @ - intr_stack - thread_stack]
<1>0. /\ Making(t) /\ task[t].pc = "numbered" /\ UNCHANGED <<cur, ready, next_pid, cpu, mem, history>>
      /\ task' = [task EXCEPT ![t].pc = "built", ![q].kstack = @ - intr_stack - thread_stack]
  BY Zenon DEF CreateThread, Runs, Making
<1>1. /\ t \in Tasks /\ q \in Tasks /\ q \in Processes /\ t # q
      /\ task \in [Tasks -> TaskType] /\ task[q].pc = "created"
  BY <1>0, Maker, Zenon
<1>2. task[q].kstack = 0 /\ task[q].pgdir = NULL
  BY <1>0, Zenon DEF IInv, MakingInv
<1>3. /\ n \in TaskType /\ n.pc = "created" /\ n.frame = task[q].frame /\ n.pid = task[q].pid
      /\ n.kstack = -(intr_stack + thread_stack) /\ n.pgdir = NULL
  BY <1>1, <1>2 DEF TaskType, intr_stack, thread_stack
<1>4. UNCHANGED <<next_pid, raced>>
  BY <1>0, Zenon DEF history
<1>5. /\ task' \in [Tasks -> TaskType] /\ task'[q] = n
      /\ task'[t].pc = "built" /\ task'[t].new = q /\ task'[t].pgdir = task[t].pgdir
      /\ \A u \in Tasks : u # t /\ u # q => task'[u] = task[u]
  <2> DEFINE m == [task[t] EXCEPT !.pc = "built"]
  <2>1. m \in TaskType /\ m.pc = "built" /\ m.new = q /\ m.pgdir = task[t].pgdir
    BY <1>1, Zenon DEF TaskType, ThreadLabels
  <2>2. task' = [task EXCEPT ![t] = m, ![q] = n]
    BY <1>0, <1>1, Zenon
  <2> HIDE DEF m, n
  <2> QED BY <1>1, <1>3, <2>1, <2>2, Zenon
<1> HIDE DEF n
<1>6. /\ TypeOK' /\ MakingInv' /\ ListedInv' /\ PgdirInv' /\ KstackInv'
      /\ TlbInv' /\ OwnSpace' /\ StaleOnlyUnmapped'
  <2>1. /\ Making(t) /\ UNCHANGED <<cur, ready, next_pid, cpu, mem, history>>
        /\ "built" \in {"numbered", "built", "append"}
    BY <1>0, Zenon
  <2>2. /\ n.kstack = IF "built" \in {"built", "append"} THEN -(intr_stack + thread_stack) ELSE 0
        /\ n.pgdir = IF "built" = "append" THEN q ELSE NULL
    BY <1>3, Zenon
  <2> QED BY <1>3, <1>5, <2>1, <2>2, MakerStep, Zenon
<1>7. PidInv' /\ PidsUnique'
  BY <1>1, <1>3, <1>4, <1>5, SamePids, Distinct, Zenon DEF Tasks
<1> QED BY <1>6, <1>7, Zenon DEF IInv

\* The new process gets its page directory.
LEMMA CreatePageDirStep ==
  ASSUME IInv, NEW t \in Threads, CreatePageDir(t) PROVE IInv'
<1> DEFINE q == task[t].new
           n == [task[q] EXCEPT !.pgdir = q]
<1>0. /\ Making(t) /\ task[t].pc = "built" /\ UNCHANGED <<cur, ready, next_pid, cpu, mem, history>>
      /\ task' = [task EXCEPT ![t].pc = "append", ![q].pgdir = q]
  BY Zenon DEF CreatePageDir, Runs, Making
<1>1. /\ t \in Tasks /\ q \in Tasks /\ q \in Processes /\ t # q
      /\ task \in [Tasks -> TaskType] /\ task[q].pc = "created"
  BY <1>0, Maker, Zenon
<1>2. task[q].kstack = -(intr_stack + thread_stack)
  BY <1>0, Zenon DEF IInv, MakingInv
<1>3. /\ n \in TaskType /\ n.pc = "created" /\ n.frame = task[q].frame /\ n.pid = task[q].pid
      /\ n.kstack = -(intr_stack + thread_stack) /\ n.pgdir = q
  BY <1>1, <1>2, Zenon DEF TaskType
<1>4. UNCHANGED <<next_pid, raced>>
  BY <1>0, Zenon DEF history
<1>5. /\ task' \in [Tasks -> TaskType] /\ task'[q] = n
      /\ task'[t].pc = "append" /\ task'[t].new = q /\ task'[t].pgdir = task[t].pgdir
      /\ \A u \in Tasks : u # t /\ u # q => task'[u] = task[u]
  BY <1>0, <1>1, <1>3, ZenonT(60) DEF TaskType, ThreadLabels
<1> HIDE DEF n
<1>6. /\ TypeOK' /\ MakingInv' /\ ListedInv' /\ PgdirInv' /\ KstackInv'
      /\ TlbInv' /\ OwnSpace' /\ StaleOnlyUnmapped'
  <2>1. /\ Making(t) /\ UNCHANGED <<cur, ready, next_pid, cpu, mem, history>>
        /\ "append" \in {"numbered", "built", "append"}
    BY <1>0, Zenon
  <2>2. /\ n.kstack = IF "append" \in {"built", "append"} THEN -(intr_stack + thread_stack) ELSE 0
        /\ n.pgdir = IF "append" = "append" THEN q ELSE NULL
    BY <1>3, Zenon
  <2> QED BY <1>3, <1>5, <2>1, <2>2, MakerStep, Zenon
<1>7. PidInv' /\ PidsUnique'
  BY <1>1, <1>3, <1>4, <1>5, SamePids, Distinct, Zenon DEF Tasks
<1> QED BY <1>6, <1>7, Zenon DEF IInv

\* The process enters the lists, complete.
LEMMA AppendReadyStep ==
  ASSUME IInv, NEW t \in Threads, AppendReady(t) PROVE IInv'
<1> DEFINE q == task[t].new
<1>0. /\ Making(t) /\ task[t].pc = "append" /\ UNCHANGED <<cur, next_pid, cpu, mem, history>>
      /\ ready' = ready \union {q}
      /\ task' = [task EXCEPT ![t].pc = "kernel", ![t].new = NULL, ![q].pc = "kernel_thread"]
  BY Zenon DEF AppendReady, Runs, Making
<1>1. /\ t \in Tasks /\ q \in Tasks /\ q \in Processes /\ t # q
      /\ task \in [Tasks -> TaskType] /\ task[q].pc = "created"
      /\ \A u \in Threads \ {t} :
           u # q /\ (Making(u) => task[u].new # q /\ task[u].new # t /\ task[u].new \in Tasks)
  BY <1>0, Maker, Zenon
<1>2. task[q].kstack = -(intr_stack + thread_stack) /\ task[q].pgdir = q
  BY <1>0, Zenon DEF IInv, MakingInv
<1>3. /\ task' \in [Tasks -> TaskType]
      /\ task'[t].pc = "kernel" /\ task'[t].pgdir = task[t].pgdir
      /\ task'[q] = [task[q] EXCEPT !.pc = "kernel_thread"]
      /\ \A u \in Tasks : u # t /\ u # q => task'[u] = task[u]
  BY <1>0, <1>1 DEF TaskType, ThreadLabels, ProcessLabels
<1>4. /\ task'[q].pc = "kernel_thread" /\ task'[q].pid = task[q].pid
      /\ task'[q].kstack = -(intr_stack + thread_stack) /\ task'[q].pgdir = q
  BY <1>1, <1>2, <1>3 DEF TaskType
<1>5. UNCHANGED <<cur, next_pid, cpu, mem, astray, early, raced>>
  BY <1>0, Zenon DEF history
<1>6. ready' = ready \union {q}
  BY <1>0, Zenon
<1>7. /\ \A u \in Threads \ {t} : task'[u] = task[u]
      /\ \A p \in Processes \ {q} : task'[p] = task[p]
  BY <1>1, <1>3, Distinct, Zenon DEF Tasks
<1>8. \A u \in Threads : Making(u)' => u # t /\ Making(u)
  BY <1>3, <1>7, Zenon DEF Making
<1>9. PidInv' /\ PidsUnique'
  BY <1>3, <1>4, <1>5, <1>7, SamePids, Zenon
<1>10. MakingInv'
  <2>1. ASSUME NEW u \in Threads, Making(u)'
        PROVE  u # t /\ Making(u) /\ task'[u] = task[u] /\ task'[task[u].new] = task[task[u].new]
    BY <1>1, <1>3, <1>7, <1>8, <2>1, Zenon
  <2>2. \A p \in Processes : task'[p].pc = "none" => task'[p] = task[p]
    BY <1>4, <1>7, Zenon
  <2> QED BY <2>1, <2>2 DEF IInv, MakingInv
<1>11. ListedInv' /\ PgdirInv' /\ KstackInv'
  <2>1. ListedInv'
    BY <1>4, <1>5, <1>6, <1>7, Zenon DEF IInv, ListedInv
  <2>2. PgdirInv'
    <3>1. \A u \in Threads : task'[u].pgdir = NULL
      BY <1>3, <1>7, Zenon DEF IInv, PgdirInv
    <3>2. \A p \in Processes : task'[p].pc \notin {"none", "created"} =>
            task'[p].pgdir = IF task'[p].pc = "inode" THEN NULL ELSE p
      BY <1>4, <1>7, Zenon DEF IInv, PgdirInv
    <3> QED BY <3>1, <3>2, Zenon DEF PgdirInv
  <2>3. KstackInv'
    BY <1>4, <1>5, <1>7, Zenon DEF IInv, KstackInv, Placed
  <2> QED BY <2>1, <2>2, <2>3, Zenon
<1>12. TypeOK'
  <2>1. \A u \in Tasks : task'[u].pc \in IF u \in Threads THEN ThreadLabels ELSE ProcessLabels
    BY <1>1, <1>3, <1>4, Distinct, Zenon DEF IInv, TypeOK, ThreadLabels, ProcessLabels
  <2>2. ready' \subseteq Tasks /\ next_pid' \in Nat /\ raced' \subseteq Processes
    BY <1>1, <1>5, <1>6, Zenon DEF IInv, TypeOK
  <2> QED BY <1>3, <1>5, <2>1, <2>2, SameTypes, Zenon DEF IInv
<1> QED BY <1>5, <1>9, <1>10, <1>11, <1>12, SameMachine, Zenon DEF IInv

\* A step that changes one task, which is in the lists, and neither its pid nor, if it is a
\* thread, where it is in process_execute.
LEMMA OneTask ==
  ASSUME IInv, NEW c \in Tasks, c \in Processes => task[c].pc \notin {"none", "created"},
         \A u \in Tasks : u # c => task'[u] = task[u],
         task'[c].pid = task[c].pid, task'[c].new = task[c].new,
         c \in Threads => task'[c].pc = task[c].pc,
         c \in Processes => task'[c].pc \notin {"none", "created"},
         ready' \union {cur'} \subseteq ready \union {cur}, UNCHANGED <<next_pid, raced>>
  PROVE  MakingInv' /\ ListedInv' /\ PidInv' /\ PidsUnique'
<1>1. \A t \in Threads : task'[t].pc = task[t].pc /\ task'[t].new = task[t].new
  BY Zenon DEF Tasks
<1>2. \A p \in Processes :
        /\ task'[p].pid = task[p].pid
        /\ task[p].pc \in {"none", "created"} => task'[p] = task[p]
        /\ task'[p].pc \in {"none", "created"} => task'[p] = task[p]
  BY Zenon DEF Tasks
<1>3. /\ \A p \in Processes : task'[p].pid = task[p].pid
      /\ \A t \in Threads : task'[t].pc = "counted" =>
           task[t].pc = "counted" /\ task'[t].new = task[t].new
  BY <1>1, <1>2, Zenon
<1>4. PidInv' /\ PidsUnique'
  BY <1>3, SamePids, Zenon
<1>5. ASSUME NEW p \in Processes, p \in ready' \union {cur'}
      PROVE  task'[p].pc \notin {"none", "created"}
  <2>1. task[p].pc \notin {"none", "created"}
    BY <1>5, Zenon DEF IInv, ListedInv
  <2> QED BY <1>2, <2>1, Zenon
<1>6. MakingInv'
  <2>1. \A t \in Threads : Making(t)' <=> Making(t)
    BY <1>1, Zenon DEF Making
  <2>2. ASSUME NEW t \in Threads, Making(t)
        PROVE  task[t].new \in Processes /\ task'[task[t].new] = task[task[t].new]
    <3>1. task[t].new \in Processes /\ task[task[t].new].pc = "created"
      BY <2>2, Zenon DEF IInv, MakingInv
    <3> QED BY <1>2, <3>1, Zenon
  <2>3. \A p \in Processes : task'[p].pc = "none" => task'[p] = task[p] /\ task[p].pc = "none"
    BY <1>2, Zenon
  <2>4. ASSUME NEW t \in Threads, Making(t)'
        PROVE  LET r == task'[task'[t].new] IN
               /\ task'[t].new \in Processes /\ r.pc = "created"
               /\ task'[t].pc = "counted" => r.pid = 0
               /\ r.kstack = IF task'[t].pc \in {"built", "append"}
                             THEN -(intr_stack + thread_stack) ELSE 0
               /\ r.pgdir = IF task'[t].pc = "append" THEN task'[t].new ELSE NULL
    <3>1. Making(t)
      BY <2>1, <2>4, Zenon
    <3>2. task'[t].new = task[t].new /\ task'[t].pc = task[t].pc
          /\ task'[task[t].new] = task[task[t].new]
      BY <1>1, <2>2, <3>1, Zenon
    <3> QED BY <3>1, <3>2 DEF IInv, MakingInv
  <2>5. \A t, v \in Threads :
          Making(t)' /\ Making(v)' /\ task'[t].new = task'[v].new => t = v
    BY <1>1 DEF IInv, MakingInv, Making
  <2> QED BY <2>3, <2>4, <2>5, Zenon DEF IInv, MakingInv
<1> QED BY <1>4, <1>5, <1>6, Zenon DEF ListedInv

\* A switch: cr3 and esp0 become those of the task that runs, and the TLB is empty.
LEMMA ScheduleStep ==
  ASSUME IInv, NEW u \in Tasks, schedule(u) PROVE IInv'
<1>1. /\ u \in ready \union {cur} /\ cur' = u /\ ready' = (ready \union {cur}) \ {u}
      /\ task' = [task EXCEPT ![cur].kstack = Saved] /\ unmapped' = {} /\ tlb' = {}
      /\ cr3' = (IF task[u].pgdir # NULL THEN task[u].pgdir ELSE Kernel)
      /\ esp0' = (IF task[u].pgdir # NULL THEN u ELSE esp0)
      /\ astray' = (IF u \in Processes /\ task[u].pgdir = NULL THEN astray \union {u} ELSE astray \ {u})
      /\ early' = (IF task[cur].pc \in {"kernel_thread", "moved"} THEN early \union {cur} ELSE early)
      /\ UNCHANGED <<next_pid, mem, raced>>
  BY Zenon DEF schedule, process_activate, page_dir_activate, LoadCr3
<1>2. cur \in Tasks /\ task \in [Tasks -> TaskType] /\ ready \subseteq Tasks
  BY Zenon DEF IInv, TypeOK, TaskType
<1>3. /\ task' \in [Tasks -> TaskType]
      /\ \A t \in Tasks : t # cur => task'[t] = task[t]
      /\ task'[cur] = [task[cur] EXCEPT !.kstack = Saved]
  BY <1>1, <1>2 DEF TaskType, Saved, intr_stack, thread_stack
<1>4. /\ task'[cur].pid = task[cur].pid /\ task'[cur].new = task[cur].new
      /\ task'[cur].pc = task[cur].pc /\ task'[cur].pgdir = task[cur].pgdir
      /\ task'[cur].frame = task[cur].frame
  BY <1>2, <1>3 DEF TaskType
<1>5. \A t \in Tasks :
        task'[t].pc = task[t].pc /\ task'[t].pgdir = task[t].pgdir /\ task'[t].frame = task[t].frame
  BY <1>3, <1>4, Zenon
<1>6. MakingInv' /\ ListedInv' /\ PidInv' /\ PidsUnique'
  <2>1. cur \in Processes => task[cur].pc \notin {"none", "created"}
    BY Zenon DEF IInv, ListedInv
  <2>2. ready' \union {cur'} \subseteq ready \union {cur}
    BY <1>1, Zenon
  <2>3. UNCHANGED <<next_pid, raced>>
    BY <1>1, Zenon
  <2> QED BY <1>2, <1>3, <1>4, <2>1, <2>2, <2>3, OneTask, Zenon
<1>7. PgdirInv'
  BY <1>5, Zenon DEF IInv, PgdirInv, Tasks
<1>8. u \in Processes => u \in Spaces /\ u # NULL /\ u \notin Threads /\
                         task[u].pc \notin {"none", "created"}
  BY <1>1, Distinct, Zenon DEF IInv, ListedInv, Spaces
<1>9. /\ u \in Threads => task[u].pgdir = NULL
      /\ u \in Processes => task[u].pgdir = IF task[u].pc = "inode" THEN NULL ELSE u
  BY <1>8, Zenon DEF IInv, PgdirInv
<1>10. OwnSpace'
  BY <1>1, <1>8, <1>9, Distinct, Zenon DEF OwnSpace, Tasks
<1>11. KstackInv'
  <2> SUFFICES ASSUME NEW p \in Processes
               PROVE  p \in early' \/ Placed(task'[p].pc, task'[p].kstack, task'[p].frame)
    BY Zenon DEF KstackInv
  <2>1. p \in Tasks /\ early \subseteq early'
    BY <1>1, Zenon DEF Tasks
  <2>2. CASE p # cur
    BY <1>3, <2>1, <2>2, Zenon DEF IInv, KstackInv
  <2>3. CASE p = cur
    BY <1>1, <1>4, <2>1, <2>3, Zenon DEF IInv, KstackInv, Placed
  <2> QED BY <2>2, <2>3, Zenon
<1>12. TypeOK'
  <2>1. cr3' \in Spaces /\ esp0' \in Processes \union {NULL}
    BY <1>1, <1>2, <1>8, <1>9, Distinct, Zenon DEF IInv, TypeOK, Tasks, Spaces
  <2>2. early' \subseteq Processes /\ astray' \subseteq Processes
    BY <1>1, <1>2, Distinct, Zenon DEF IInv, TypeOK, Tasks, ThreadLabels
  <2>3. task' \in [Tasks -> [pc : ThreadLabels \union ProcessLabels, pid : Nat,
                             pgdir : Processes \union {NULL}, kstack : Int, frame : Int,
                             new : Processes \union {NULL}]]
    BY <1>3, Zenon DEF TaskType
  <2>4. \A t \in Tasks : task'[t].pc \in IF t \in Threads THEN ThreadLabels ELSE ProcessLabels
    BY <1>5, Zenon DEF IInv, TypeOK
  <2>5. cur' \in Tasks /\ ready' \subseteq Tasks /\ next_pid' \in Nat /\ mem' \in Memory
        /\ tlb' = {} /\ unmapped' = {} /\ raced' \subseteq Processes
    BY <1>1, <1>2, Zenon DEF IInv, TypeOK
  <2> QED BY <2>1, <2>2, <2>3, <2>4, <2>5, Zenon DEF TypeOK
<1>13. TlbInv' /\ StaleOnlyUnmapped'
  BY <1>1, Zenon DEF TlbInv, StaleOnlyUnmapped
<1> QED BY <1>6, <1>7, <1>10, <1>11, <1>12, <1>13, Zenon DEF IInv

\* A step of a process to the label pc, with the self_kstack k and the frame fr.
LEMMA ProcessStep ==
  ASSUME IInv, NEW p \in Processes, cur = p, UNCHANGED <<cur, ready, next_pid, early, raced>>,
         NEW pc \in {"loaded", "moved", "start_process", "user", "inode"},
         NEW k \in Int, NEW fr \in Int, p \in early \/ Placed(pc, k, fr),
         task' = [task EXCEPT ![p] = [task[p] EXCEPT !.pc = pc, !.kstack = k, !.frame = fr,
                                        !.pgdir = IF pc = "inode" THEN NULL ELSE p]]
  PROVE  /\ MakingInv' /\ ListedInv' /\ PidInv' /\ PidsUnique' /\ PgdirInv' /\ KstackInv'
         /\ task' \in [Tasks -> TaskType]
         /\ \A u \in Tasks : task'[u].pc \in IF u \in Threads THEN ThreadLabels ELSE ProcessLabels
<1>1. /\ p \in Tasks /\ task \in [Tasks -> TaskType]
      /\ task[p].pc \notin {"none", "created"}
  BY Zenon DEF IInv, TypeOK, TaskType, Tasks, ListedInv
<1>2. /\ task' \in [Tasks -> TaskType]
      /\ \A u \in Tasks : u # p => task'[u] = task[u]
      /\ task'[p].pc = pc /\ task'[p].pgdir = (IF pc = "inode" THEN NULL ELSE p)
      /\ task'[p].kstack = k /\ task'[p].frame = fr
      /\ task'[p].pid = task[p].pid /\ task'[p].new = task[p].new
  BY <1>1, ZenonT(60) DEF TaskType, ProcessLabels
<1>3. p \notin Threads
  BY Distinct, Zenon
<1>4. MakingInv' /\ ListedInv' /\ PidInv' /\ PidsUnique'
  <2>1. task'[p].pc \notin {"none", "created"} /\ ready' \union {cur'} \subseteq ready \union {cur}
    BY <1>2, Zenon
  <2> QED BY <1>1, <1>2, <1>3, <2>1, OneTask, Zenon
<1>5. PgdirInv' /\ KstackInv'
  <2>1. /\ \A t \in Threads : task'[t] = task[t]
        /\ \A q \in Processes : q # p => task'[q] = task[q]
    BY <1>2, <1>3, Zenon DEF Tasks
  <2>2. PgdirInv'
    BY <1>2, <2>1, ZenonT(60) DEF IInv, PgdirInv
  <2>3. KstackInv'
    BY <1>2, <2>1, Zenon DEF IInv, KstackInv
  <2> QED BY <2>2, <2>3, Zenon
<1>6. \A u \in Tasks : task'[u].pc \in IF u \in Threads THEN ThreadLabels ELSE ProcessLabels
  BY <1>2, <1>3 DEF IInv, TypeOK, ProcessLabels
<1> QED BY <1>2, <1>4, <1>5, <1>6, Zenon

\* start_process loads self_kstack, moves it over the thread_stack to the frame and reads
\* it again; inode_open and inode_close take the page directory away and give it back.
LEMMA TaskStep ==
  ASSUME IInv, NEW p \in Processes,
         LoadKstack(p) \/ MoveKstack(p) \/ StartProcess(p) \/ LeaveSpace(p) \/ RestoreSpace(p)
  PROVE  IInv'
<1>1. /\ p \in Tasks /\ task \in [Tasks -> TaskType] /\ cur = p
      /\ task[p].pc \in {"kernel_thread", "loaded", "moved", "user", "inode"}
      /\ UNCHANGED <<cur, ready, next_pid, cpu, mem, astray, early, raced>>
  BY Zenon DEF IInv, TypeOK, TaskType, Tasks, LoadKstack, MoveKstack, StartProcess, LeaveSpace,
               RestoreSpace, InUser, Runs, history
<1>2. /\ task[p].pgdir = IF task[p].pc = "inode" THEN NULL ELSE p
      /\ p \in early \/ Placed(task[p].pc, task[p].kstack, task[p].frame)
      /\ -(intr_stack + thread_stack) + thread_stack = -intr_stack
      /\ task[p].kstack \in Int /\ task[p].frame \in Int /\ task[p].frame + thread_stack \in Int
  <2>1. task[p].kstack \in Int /\ task[p].frame \in Int
    BY <1>1, Zenon DEF TaskType
  <2>2. task[p].pgdir = IF task[p].pc = "inode" THEN NULL ELSE p
    BY <1>1, Zenon DEF IInv, PgdirInv
  <2>3. p \in early \/ Placed(task[p].pc, task[p].kstack, task[p].frame)
    BY Zenon DEF IInv, KstackInv
  <2>4. -(intr_stack + thread_stack) + thread_stack = -intr_stack /\ task[p].frame + thread_stack \in Int
    BY <2>1 DEF intr_stack, thread_stack
  <2> QED BY <2>1, <2>2, <2>3, <2>4, Zenon
<1> DEFINE Is(pc, k, fr) == task' = [task EXCEPT ![p] = [task[p] EXCEPT !.pc = pc, !.kstack = k, !.frame = fr,
                                        !.pgdir = IF pc = "inode" THEN NULL ELSE p]]
<1>3. PICK pc \in {"loaded", "moved", "start_process", "user", "inode"}, k \in Int, fr \in Int :
        Is(pc, k, fr) /\ (p \in early \/ Placed(pc, k, fr))
  <2>1. CASE StartProcess(p)
    <3>1. Is("start_process", task[p].kstack, task[p].kstack) /\ task[p].pc = "moved"
      BY <1>1, <1>2, <2>1, Zenon DEF StartProcess, Runs, TaskType
    <3> QED BY <1>2, <3>1, Zenon DEF Placed
  <2>4. CASE LoadKstack(p)
    <3>1. Is("loaded", task[p].kstack, task[p].kstack) /\ task[p].pc = "kernel_thread"
      BY <1>1, <1>2, <2>4, Zenon DEF LoadKstack, Runs, TaskType
    <3> QED BY <1>2, <3>1, Zenon DEF Placed
  <2>5. CASE MoveKstack(p)
    <3>1. Is("moved", task[p].frame + thread_stack, task[p].frame) /\ task[p].pc = "loaded"
      BY <1>1, <1>2, <2>5, Zenon DEF MoveKstack, Runs, TaskType
    <3>2. p \in early \/ task[p].frame + thread_stack = -intr_stack
      BY <1>2, <3>1, Zenon DEF Placed
    <3> QED BY <1>2, <3>1, <3>2, ZenonT(60) DEF Placed
  <2>2. CASE LeaveSpace(p)
    <3>1. Is("inode", task[p].kstack, task[p].frame) /\ task[p].pc = "user"
      BY <1>1, <1>2, <2>2, Zenon DEF LeaveSpace, InUser, Runs, TaskType
    <3> QED BY <1>2, <3>1, Zenon DEF Placed
  <2>3. CASE RestoreSpace(p)
    <3>1. Is("user", task[p].kstack, task[p].frame) /\ task[p].pc = "inode"
      BY <1>1, <1>2, <2>3, Zenon DEF RestoreSpace, Runs, TaskType
    <3> QED BY <1>2, <3>1, Zenon DEF Placed
  <2> QED BY <2>1, <2>2, <2>3, <2>4, <2>5, Zenon
<1>4. /\ MakingInv' /\ ListedInv' /\ PidInv' /\ PidsUnique' /\ PgdirInv' /\ KstackInv'
      /\ task' \in [Tasks -> TaskType]
      /\ \A u \in Tasks : task'[u].pc \in IF u \in Threads THEN ThreadLabels ELSE ProcessLabels
  BY <1>1, <1>3, ProcessStep, Zenon
<1>5. TypeOK'
  <2>1. ready' \subseteq Tasks /\ next_pid' \in Nat /\ raced' \subseteq Processes
    BY <1>1, Zenon DEF IInv, TypeOK
  <2> QED BY <1>1, <1>4, <2>1, SameTypes, Zenon DEF IInv
<1> QED BY <1>1, <1>4, <1>5, SameMachine, Zenon DEF IInv

\* A memory whose page tables differ from another's only in space s is the same elsewhere.
LEMMA OtherSpaces ==
  ASSUME NEW m \in Memory, NEW r \in Memory, NEW x \in Spaces,
         \A w \in 0..VPages(x) : r.pte[x][w] = m.pte[x][w]
  PROVE  r.pte[x] = m.pte[x]
<1>1. m.pte[x] \in [0..VPages(x) -> Entries] /\ r.pte[x] \in [0..VPages(x) -> Entries]
  BY MemoryFields, Zenon
<1>2. /\ m.pte[x] = [w \in 0..VPages(x) |-> m.pte[x][w]]
      /\ r.pte[x] = [w \in 0..VPages(x) |-> r.pte[x][w]]
  BY <1>1, Zenon
<1>3. [w \in 0..VPages(x) |-> m.pte[x][w]] = [w \in 0..VPages(x) |-> r.pte[x][w]]
  BY Zenon
<1> QED BY <1>2, <1>3, Zenon

\* Mapping a page leaves every translation of the TLB as good as it was: an empty entry
\* of the page table that is filled is not in the TLB, unless the page was unmapped.
LEMMA MappedTlb ==
  ASSUME IInv, NEW p \in Processes, NEW v \in 0..UserPages, Mapped(mem, mem', p, v)
  PROVE  \A e \in tlb :
           /\ mem'.fault = "none" => e[2] # NULL
           /\ mem'.pte[cr3][e[1]] = e[2] \/ e[1] \in unmapped
<1>0. /\ mem \in Memory /\ mem' \in Memory /\ cr3 \in Spaces /\ p \in Spaces /\ VPages(p) = UserPages
      /\ mem'.fault = "none" => mem.fault = "none"
  BY Distinct, Zenon DEF IInv, TypeOK, Mapped, Spaces, VPages
<1> SUFFICES ASSUME NEW e \in tlb
             PROVE  /\ mem'.fault = "none" => e[2] # NULL
                    /\ mem'.pte[cr3][e[1]] = e[2] \/ e[1] \in unmapped
  BY Zenon
<1>1. mem.fault = "none" => e[2] # NULL
  BY Zenon DEF IInv, TlbInv
<1>2. mem.pte[cr3][e[1]] = e[2] \/ e[1] \in unmapped
  BY Zenon DEF IInv, StaleOnlyUnmapped
<1>3. CASE cr3 # p
  <2>1. mem'.pte[cr3] = mem.pte[cr3]
    BY <1>0, <1>3, OtherSpaces, Zenon DEF Mapped
  <2> QED BY <1>0, <1>1, <1>2, <2>1, Zenon
<1>4. CASE cr3 = p
  <2>1. e[1] \in 0..UserPages
    BY Zenon DEF IInv, TypeOK
  <2>2. \/ mem'.pte[p][e[1]] = mem.pte[p][e[1]]
        \/ mem.pte[p][e[1]] = NULL /\ mem.fault = "none"
    BY <1>0, <2>1, Zenon DEF Mapped
  <2> QED BY <1>0, <1>1, <1>2, <1>4, <2>2, Zenon
<1> QED BY <1>3, <1>4, Zenon

\* A step that changes no task and does not switch leaves what is said of the tasks.
LEMMA SameTasks ==
  ASSUME IInv, UNCHANGED <<cur, ready, next_pid, task, cr3, esp0, history>>
  PROVE  /\ MakingInv' /\ ListedInv' /\ PidInv' /\ PidsUnique' /\ PgdirInv' /\ KstackInv' /\ OwnSpace'
         /\ mem' \in Memory /\ tlb' \subseteq (0..UserPages) \X (Frames \union {NULL})
            /\ unmapped' \subseteq 0..UserPages => TypeOK'
<1>1. UNCHANGED <<astray, early, raced>>
  BY Zenon DEF history
<1>2. MakingInv' /\ ListedInv'
  BY Zenon DEF IInv, MakingInv, ListedInv, Making
<1>3. PidInv' /\ PidsUnique'
  BY <1>1, Zenon DEF IInv, PidInv, PidsUnique
<1>4. PgdirInv' /\ KstackInv'
  BY <1>1, Zenon DEF IInv, PgdirInv, KstackInv
<1>5. OwnSpace'
  BY <1>1, Zenon DEF IInv, OwnSpace
<1>6. mem' \in Memory /\ tlb' \subseteq (0..UserPages) \X (Frames \union {NULL})
      /\ unmapped' \subseteq 0..UserPages => TypeOK'
  BY <1>1, Zenon DEF IInv, TypeOK
<1> QED BY <1>2, <1>3, <1>4, <1>5, <1>6, Zenon

\* The stack page of a process is mapped before the jump to user mode.
LEMMA EnterUserStep ==
  ASSUME IInv, NEW p \in Processes, EnterUser(p) PROVE IInv'
<1>1. /\ p \in Tasks /\ task \in [Tasks -> TaskType] /\ cur = p /\ task[p].pc = "start_process"
      /\ UNCHANGED <<cur, ready, next_pid, cpu, astray, early, raced>>
      /\ mem' = get_a_page(mem, p, StackPage) /\ task' = [task EXCEPT ![p].pc = "user"]
      /\ UNCHANGED <<cr3, esp0, tlb, unmapped>>
  BY Zenon DEF IInv, TypeOK, TaskType, Tasks, EnterUser, Runs, Set, history, cpu
<1>2. /\ task[p].pgdir = p /\ task[p].kstack \in Int /\ task[p].frame \in Int
      /\ p \in early \/ Placed("user", task[p].kstack, task[p].frame)
  BY <1>1, Zenon DEF IInv, PgdirInv, KstackInv, Placed, TaskType
<1>3. task' = [task EXCEPT ![p] = [task[p] EXCEPT !.pc = "user", !.kstack = task[p].kstack,
                  !.frame = task[p].frame, !.pgdir = IF "user" = "inode" THEN NULL ELSE p]]
  BY <1>1, <1>2, Zenon DEF TaskType
<1>4. /\ MakingInv' /\ ListedInv' /\ PidInv' /\ PidsUnique' /\ PgdirInv' /\ KstackInv'
      /\ task' \in [Tasks -> TaskType]
      /\ \A u \in Tasks : task'[u].pc \in IF u \in Threads THEN ThreadLabels ELSE ProcessLabels
  BY <1>1, <1>2, <1>3, ProcessStep, Zenon
<1>5. Mapped(mem, mem', p, StackPage) /\ StackPage \in 0..UserPages
  <2>1. mem \in Memory /\ p \in Spaces /\ VPages(p) = UserPages
    BY Distinct, Zenon DEF IInv, TypeOK, Spaces, VPages
  <2>2. StackPage \in 0..UserPages
    BY PagingAssumption DEF StackPage
  <2> QED BY <1>1, <2>1, <2>2, GetPageFacts, Zenon
<1>6. TlbInv' /\ StaleOnlyUnmapped'
  BY <1>1, <1>5, MappedTlb, Zenon DEF TlbInv, StaleOnlyUnmapped
<1>7. OwnSpace'
  BY <1>1, Zenon DEF IInv, OwnSpace
<1>8. TypeOK'
  <2>1. task' \in [Tasks -> [pc : ThreadLabels \union ProcessLabels, pid : Nat,
                             pgdir : Processes \union {NULL}, kstack : Int, frame : Int,
                             new : Processes \union {NULL}]]
    BY <1>4, Zenon DEF TaskType
  <2>2. mem' \in Memory
    BY <1>5, Zenon DEF Mapped
  <2> QED BY <1>1, <1>4, <2>1, <2>2, Zenon DEF IInv, TypeOK
<1> QED BY <1>4, <1>6, <1>7, <1>8, Zenon DEF IInv

\* A page that is touched enters the TLB as the page table has it.
LEMMA AccessStep ==
  ASSUME IInv, NEW p \in Processes, NEW v \in 0..UserPages, Access(p, v) PROVE IInv'
<1>1. /\ cr3 = p /\ mem.pte[p][v] # NULL /\ tlb' \subseteq tlb \union {<<v, mem.pte[p][v]>>}
      /\ UNCHANGED <<cur, ready, next_pid, task, cr3, esp0, mem, unmapped, history>>
  BY Zenon DEF Access, InUser, Touched
<1>2. mem \in Memory /\ mem.pte[p][v] \in Frames \union {NULL}
  <2>1. mem \in Memory /\ p \in Spaces /\ VPages(p) = UserPages
    BY Distinct, Zenon DEF IInv, TypeOK, Spaces, VPages
  <2>2. mem.pte[p] \in [0..UserPages -> Frames \union {NULL}]
    BY <2>1, MemoryFields, Zenon DEF Entries
  <2> QED BY <2>1, <2>2, Zenon
<1>3. TypeOK' /\ MakingInv' /\ ListedInv' /\ PidInv' /\ PidsUnique' /\ PgdirInv' /\ KstackInv' /\ OwnSpace'
  <2>1. mem' \in Memory /\ tlb' \subseteq (0..UserPages) \X (Frames \union {NULL})
        /\ unmapped' \subseteq 0..UserPages
    BY <1>1, <1>2 DEF IInv, TypeOK
  <2> QED BY <1>1, <2>1, SameTasks, Zenon
<1>4. TlbInv' /\ StaleOnlyUnmapped'
  <2> SUFFICES ASSUME NEW e \in tlb'
               PROVE  /\ mem.fault = "none" => e[2] # NULL
                      /\ mem.pte[cr3][e[1]] = e[2] \/ e[1] \in unmapped
    BY <1>1, Zenon DEF TlbInv, StaleOnlyUnmapped
  <2>1. CASE e \in tlb
    BY <2>1, Zenon DEF IInv, TlbInv, StaleOnlyUnmapped
  <2>2. CASE e = <<v, mem.pte[p][v]>>
    BY <1>1, <2>2, Zenon
  <2> QED BY <1>1, <2>1, <2>2, Zenon
<1> QED BY <1>3, <1>4, Zenon DEF IInv

\* sys_malloc maps a page and touches it.
LEMMA MallocStep ==
  ASSUME IInv, NEW p \in Processes, Malloc(p) PROVE IInv'
<1> DEFINE v == FreeRun(mem, p, 1)
<1>1. /\ cr3 = p /\ ~SpaceFull(mem, p) /\ mem' = malloc_page(mem, p, 1)
      /\ tlb' \subseteq tlb \union {<<v, mem'.pte[p][v]>>}
      /\ UNCHANGED <<cur, ready, next_pid, task, cr3, esp0, unmapped, history>>
  BY Zenon DEF Malloc, InUser, Touched
<1>2. mem \in Memory /\ p \in Spaces /\ VPages(p) = UserPages
  BY Distinct, Zenon DEF IInv, TypeOK, Spaces, VPages
<1>3. v \in 0..UserPages /\ Mapped(mem, mem', p, v)
  BY <1>1, <1>2, MallocFacts, PagingAssumption
<1> HIDE DEF v
<1>4. /\ mem' \in Memory /\ mem'.pte[p][v] \in Frames \union {NULL}
      /\ mem'.fault = "none" => mem'.pte[p][v] # NULL
  BY <1>2, <1>3, MemoryFields, ZenonT(60) DEF Mapped, Entries
<1>5. TypeOK' /\ MakingInv' /\ ListedInv' /\ PidInv' /\ PidsUnique' /\ PgdirInv' /\ KstackInv' /\ OwnSpace'
  <2>1. <<v, mem'.pte[p][v]>> \in (0..UserPages) \X (Frames \union {NULL})
    BY <1>3, <1>4, Zenon
  <2>2. tlb' \subseteq (0..UserPages) \X (Frames \union {NULL}) /\ unmapped' \subseteq 0..UserPages
    BY <1>1, <2>1, Zenon DEF IInv, TypeOK
  <2> QED BY <1>1, <1>4, <2>2, SameTasks, Zenon
<1>6. TlbInv' /\ StaleOnlyUnmapped'
  <2> SUFFICES ASSUME NEW e \in tlb'
               PROVE  /\ mem'.fault = "none" => e[2] # NULL
                      /\ mem'.pte[cr3][e[1]] = e[2] \/ e[1] \in unmapped
    BY <1>1, Zenon DEF TlbInv, StaleOnlyUnmapped
  <2>1. CASE e \in tlb
    BY <1>3, <2>1, MappedTlb, Zenon
  <2>2. CASE e = <<v, mem'.pte[p][v]>>
    BY <1>1, <1>4, <2>2, Zenon
  <2> QED BY <1>1, <2>1, <2>2, Zenon
<1> QED BY <1>5, <1>6, Zenon DEF IInv

\* sys_free unmaps a page, whose translation may stay in the TLB.
LEMMA FreeStep ==
  ASSUME IInv, NEW p \in Processes, NEW v \in 0..UserPages, Free(p, v) PROVE IInv'
<1>1. /\ cr3 = p /\ mem.pte[p][v] # NULL /\ mem' = mfree_page(mem, p, v, 1)
      /\ unmapped' = unmapped \union {v}
      /\ UNCHANGED <<cur, ready, next_pid, task, cr3, esp0, tlb, history>>
  BY Zenon DEF Free, InUser
<1>2. mem \in Memory /\ p \in Spaces /\ VPages(p) = UserPages
  BY Distinct, Zenon DEF IInv, TypeOK, Spaces, VPages
<1>3. Unmapped(mem, mem', p, v)
  BY <1>1, <1>2, FreeFacts, Zenon
<1>4. TypeOK' /\ MakingInv' /\ ListedInv' /\ PidInv' /\ PidsUnique' /\ PgdirInv' /\ KstackInv' /\ OwnSpace'
  <2>1. mem' \in Memory /\ tlb' \subseteq (0..UserPages) \X (Frames \union {NULL})
        /\ unmapped' \subseteq 0..UserPages
    BY <1>1, <1>3, Zenon DEF IInv, TypeOK, Unmapped
  <2> QED BY <1>1, <2>1, SameTasks, Zenon
<1>5. TlbInv' /\ StaleOnlyUnmapped'
  <2> SUFFICES ASSUME NEW e \in tlb
               PROVE  /\ mem'.fault = "none" => e[2] # NULL
                      /\ mem'.pte[p][e[1]] = e[2] \/ e[1] \in unmapped \union {v}
    BY <1>1, Zenon DEF TlbInv, StaleOnlyUnmapped
  <2>1. e[1] \in 0..UserPages
    BY Zenon DEF IInv, TypeOK
  <2>2. mem'.pte[p][e[1]] = mem.pte[p][e[1]] \/ e[1] = v
    BY <1>2, <1>3, <2>1, Zenon DEF Unmapped
  <2> QED BY <1>1, <1>3, <2>2, Zenon DEF IInv, TlbInv, StaleOnlyUnmapped, Unmapped
<1> QED BY <1>4, <1>5, Zenon DEF IInv

\* Every step of the system preserves the invariant.
LEMMA NextIInv == IInv /\ [Next]_vars => IInv'
<1> SUFFICES ASSUME IInv, [Next]_vars PROVE IInv'
  BY Zenon
<1>1. ASSUME NEW u \in Tasks, schedule(u) PROVE IInv'
  BY <1>1, ScheduleStep, Zenon
<1>2. ASSUME NEW t \in Threads, process_execute(t) PROVE IInv'
  BY <1>2, BeginExecuteStep, ReturnPidStep, CreateThreadStep, CreatePageDirStep, AppendReadyStep, Zenon
     DEF process_execute
<1>3. ASSUME NEW p \in Processes,
             LoadKstack(p) \/ MoveKstack(p) \/ StartProcess(p) \/ LeaveSpace(p) \/ RestoreSpace(p)
      PROVE  IInv'
  BY <1>3, TaskStep, Zenon
<1>4. ASSUME NEW p \in Processes, EnterUser(p) \/ Malloc(p) PROVE IInv'
  BY <1>4, EnterUserStep, MallocStep, Zenon
<1>5. ASSUME NEW p \in Processes, NEW v \in 0..UserPages, Access(p, v) \/ Free(p, v) PROVE IInv'
  BY <1>5, AccessStep, FreeStep, Zenon
<1>6. CASE UNCHANGED vars
  <2>1. UNCHANGED <<cur, ready, next_pid, task, cr3, esp0, mem, tlb, unmapped, history, cpu, astray>>
    BY <1>6, Zenon DEF vars, cpu, history
  <2>2. mem' \in Memory /\ tlb' \subseteq (0..UserPages) \X (Frames \union {NULL})
        /\ unmapped' \subseteq 0..UserPages
    BY <2>1, Zenon DEF IInv, TypeOK
  <2> QED BY <2>1, <2>2, SameTasks, SameMachine, Zenon DEF IInv
<1> QED BY <1>1, <1>2, <1>3, <1>4, <1>5, <1>6, Zenon DEF Next

-----------------------------------------------------------------------------
(* Theorems.                                                               *)

\* The variables have their types, and the inductive invariant holds, in every state.
THEOREM Invariance == Spec => []IInv
  BY InitIInv, NextIInv, PTL DEF Spec

\* The task that runs has its own page directory in cr3 and its own stack in esp0, unless
\* it was switched to in inode_open or inode_close.
THEOREM RunsInOwnSpace == Spec => []OwnSpace
<1>1. IInv => OwnSpace
  BY Zenon DEF IInv
<1> QED BY <1>1, Invariance, PTL

\* A process that was not preempted in kernel_thread, before start_process loads
\* self_kstack, or between its store there and the second load, has its frame where
\* thread_create reserved it.
THEOREM FramesInPlace == Spec => []FrameInPlace
<1>1. IInv => FrameInPlace
  BY Zenon DEF IInv, KstackInv, Placed, FrameInPlace
<1> QED BY <1>1, Invariance, PTL

\* Only creations that overlap behind the lock of allocate_pid give a pid twice.
THEOREM PidsAreUnique == Spec => []PidsUnique
<1>1. IInv => PidsUnique
  BY Zenon DEF IInv
<1> QED BY <1>1, Invariance, PTL

\* A stale translation is one of a page that was unmapped since the last switch.
THEOREM TlbIsCurrent == Spec => []StaleOnlyUnmapped
<1>1. IInv => StaleOnlyUnmapped
  BY Zenon DEF IInv
<1> QED BY <1>1, Invariance, PTL
=============================================================================
