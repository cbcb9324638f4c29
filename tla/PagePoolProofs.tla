--------------------------- MODULE PagePoolProofs ---------------------------
(***************************************************************************)
(* Threads that allocate pages at the same time share neither pages nor    *)
(* frames where they take the lock of the pool, and user frames nowhere,   *)
(* for any size of the memory, any number of threads and any length of a   *)
(* run; and bitmap_scan finds the first fit in every bitmap.               *)
(***************************************************************************)
EXTENDS PagePool, WellFoundedInduction, TLAPS

-----------------------------------------------------------------------------
(* bitmap_scan.                                                            *)

\* A set of numbers that is not empty has a least element, which is its Min.
LEMMA MinFacts ==
  ASSUME NEW S, S \subseteq Nat, S # {}
  PROVE  /\ Min(S) \in S
         /\ \A y \in S : Min(S) <= y
         /\ \A x \in S : (\A y \in S : x <= y) => x = Min(S)
<1> DEFINE R == OpToRel(<, Nat)
<1>1. IsWellFoundedOn(R, Nat)
  BY NatLessThanWellFounded, Zenon
<1>2. \A x, y \in Nat : y < x => <<y, x>> \in R
  BY Zenon DEF OpToRel
<1> HIDE DEF R
<1>3. PICK x \in S : \A y \in S : ~(<<y, x>> \in R)
  BY <1>1, WFMin, Zenon
<1>4. ASSUME NEW y \in S PROVE x <= y
  <2>1. x \in Nat /\ y \in Nat
    BY Zenon
  <2>2. ~(y < x)
    BY <1>2, <1>3, <2>1, Zenon
  <2> QED BY <2>1, <2>2
<1>5. Min(S) \in S /\ \A y \in S : Min(S) <= y
  BY <1>4, Zenon DEF Min
<1>6. ASSUME NEW w \in S, \A y \in S : w <= y PROVE w = Min(S)
  <2>1. w <= Min(S) /\ Min(S) <= w /\ w \in Nat /\ Min(S) \in Nat
    BY <1>5, <1>6, Zenon
  <2> QED BY <2>1
<1> QED BY <1>5, <1>6, Zenon

\* The loop of bitmap_scan computes "count" from bit to bit.
LEMMA RunLengthRecursion ==
  ASSUME NEW n \in Nat, NEW b \in [0..n -> BOOLEAN], NEW first \in 0..n
  PROVE  RunLength(b, n, first) =
           [i \in first..n |-> IF i = first THEN 1
                               ELSE IF b[i] THEN 0
                               ELSE RunLength(b, n, first)[i - 1] + 1]
<1> DEFINE Ends(i) == {k \in 0..(i - first - 1) : b[i - k]} \union {i - first + 1}
           g == [i \in first..n |-> Min(Ends(i))]
           Loop(c) == [i \in first..n |-> IF i = first THEN 1
                                          ELSE IF b[i] THEN 0
                                          ELSE c[i - 1] + 1]
<1>1. \A i \in first..n : Ends(i) \subseteq Nat /\ Ends(i) # {}
  OBVIOUS
<1>2. ASSUME NEW i \in first..n
      PROVE  Min(Ends(i)) = IF i = first THEN 1 ELSE IF b[i] THEN 0 ELSE Min(Ends(i - 1)) + 1
  <2>0. /\ Min(Ends(i)) \in Ends(i)
        /\ \A y \in Ends(i) : Min(Ends(i)) <= y
        /\ \A x \in Ends(i) : (\A y \in Ends(i) : x <= y) => x = Min(Ends(i))
    BY <1>1, MinFacts, Zenon
  <2>1. CASE i = first
    BY <2>0, <2>1
  <2>2. CASE i # first /\ b[i]
    <3>1. 0 \in Ends(i)
      BY <2>2
    <3>2. \A y \in Ends(i) : 0 <= y
      OBVIOUS
    <3> HIDE DEF Ends
    <3> QED BY <2>0, <2>2, <3>1, <3>2, Zenon
  <2>3. CASE i # first /\ ~b[i]
    <3>0. i - 1 \in first..n
      BY <2>3
    <3>1. /\ Min(Ends(i - 1)) \in Ends(i - 1)
          /\ \A y \in Ends(i - 1) : Min(Ends(i - 1)) <= y
      BY <1>1, <3>0, MinFacts, Zenon
    <3>2. \A k \in Ends(i - 1) : k \in Nat /\ k + 1 \in Ends(i)
      BY <2>3
    <3>3. \A k \in Ends(i) : k \in Nat /\ k - 1 \in Ends(i - 1)
      BY <2>3
    <3> HIDE DEF Ends
    <3>4. \A y \in Ends(i) : Min(Ends(i - 1)) + 1 <= y
      BY <3>1, <3>2, <3>3
    <3>5. Min(Ends(i - 1)) + 1 \in Ends(i)
      BY <3>1, <3>2, Zenon
    <3> QED BY <2>0, <2>3, <3>4, <3>5, Zenon
  <2> QED BY <2>1, <2>2, <2>3, Zenon
<1> HIDE DEF Ends
<1>3. g = Loop(g)
  BY <1>2
<1>4. RunLength(b, n, first) = CHOOSE c : c = Loop(c)
  BY Zenon DEF RunLength
<1> HIDE DEF g, Loop
<1>5. RunLength(b, n, first) = Loop(RunLength(b, n, first))
  BY <1>3, <1>4, Zenon
<1> QED BY <1>5, Zenon DEF Loop

\* After bit i, "count" is the length of the longest run of clear bits that ends there
\* and does not begin before the first clear bit.
LEMMA RunLengthFacts ==
  ASSUME NEW n \in Nat, NEW b \in [0..n -> BOOLEAN], NEW first \in 0..n, ~b[first],
         NEW i \in first..n
  PROVE  LET c == RunLength(b, n, first)[i] IN
         /\ c \in 0..(i - first + 1)
         /\ \A j \in (i - c + 1)..i : ~b[j]
         /\ i - c >= first => b[i - c]
<1> DEFINE C == RunLength(b, n, first)
           P(k) == /\ C[k] \in 0..(k - first + 1)
                   /\ \A j \in (k - C[k] + 1)..k : ~b[j]
                   /\ k - C[k] >= first => b[k - C[k]]
           Bad == {k \in first..n : ~P(k)}
<1>1. \A k \in first..n : C[k] = IF k = first THEN 1 ELSE IF b[k] THEN 0 ELSE C[k - 1] + 1
  BY RunLengthRecursion
<1> HIDE DEF C
<1>2. SUFFICES ASSUME Bad # {} PROVE FALSE
  BY Zenon DEF C
<1> DEFINE k == Min(Bad)
<1>3. k \in Bad /\ \A y \in Bad : k <= y
  <2> HIDE DEF P
  <2>1. Bad \subseteq Nat
    OBVIOUS
  <2> HIDE DEF Bad
  <2> QED BY <1>2, <2>1, MinFacts, Zenon
<1> HIDE DEF k
<1>4. k \in first..n /\ ~P(k)
  BY <1>3, Zenon
<1>5. CASE k = first
  <2>1. C[k] = 1
    BY <1>1, <1>4, <1>5, Zenon
  <2> QED BY <1>4, <1>5, <2>1
<1>6. CASE k # first /\ b[k]
  <2>1. C[k] = 0
    BY <1>1, <1>4, <1>6, Zenon
  <2> QED BY <1>4, <1>6, <2>1
<1>7. CASE k # first /\ ~b[k]
  <2>1. C[k] = C[k - 1] + 1 /\ k - 1 \in first..n
    BY <1>1, <1>4, <1>7
  <2>2. P(k - 1)
    <3> HIDE DEF P
    <3>1. k - 1 \notin Bad
      <4> HIDE DEF Bad
      <4> QED BY <1>3, <1>4
    <3> QED BY <2>1, <3>1, Zenon
  <2>3. PICK c : c = C[k - 1]
    BY Zenon
  <2>4. /\ C[k] = c + 1 /\ c \in 0..(k - 1 - first + 1)
        /\ \A j \in (k - 1 - c + 1)..(k - 1) : ~b[j]
        /\ k - 1 - c >= first => b[k - 1 - c]
    BY <2>1, <2>2, <2>3, Zenon
  <2>5. c + 1 \in 0..(k - first + 1) /\ k - (c + 1) = k - 1 - c
    BY <1>4, <2>4
  <2>6. ASSUME NEW j \in (k - (c + 1) + 1)..k PROVE ~b[j]
    <3>1. j = k \/ j \in (k - 1 - c + 1)..(k - 1)
      BY <1>4, <2>4, <2>6
    <3> QED BY <1>7, <2>4, <3>1, Zenon
  <2>7. P(k)
    BY <2>4, <2>5, <2>6, Zenon
  <2> QED BY <1>4, <2>7, Zenon
<1> QED BY <1>5, <1>6, <1>7, Zenon

\* bitmap_scan of more than one bit: the first run that fits into the bitmap and the bit
\* behind it.
LEMMA LongScan ==
  ASSUME NEW n \in Nat, NEW b \in [0..n -> BOOLEAN], NEW cnt \in Nat, cnt > 1,
         ScanAsserts(b, n)
  PROVE  bitmap_scan(b, n, cnt) = FirstFit(b, n + 1, cnt)
<1> DEFINE first == Min(FreeBits(b, n))
           C == RunLength(b, n, first)
           H == Hits(b, n, cnt)
           F == Fits(b, n + 1, cnt)
<1>1. FreeBits(b, n) \subseteq Nat /\ FreeBits(b, n) # {}
  BY DEF ScanAsserts, FreeBits
<1>2. first \in FreeBits(b, n) /\ \A y \in FreeBits(b, n) : first <= y
  BY <1>1, MinFacts, Zenon
<1>3. first \in 0..n /\ first < n /\ ~b[first] /\ \A y \in 0..(n - 1) : ~b[y] => first <= y
  BY <1>2 DEF FreeBits
<1>4. H = {i \in (first + 1)..n : C[i] = cnt}
  BY Zenon DEF Hits
<1>5. F = {s \in 0..(n + 1 - cnt) : \A i \in s..(s + cnt - 1) : ~b[i]}
  BY DEF Fits
<1> HIDE DEF first, H, F
<1>6. \A i \in first..n : /\ C[i] \in 0..(i - first + 1)
                          /\ \A j \in (i - C[i] + 1)..i : ~b[j]
                          /\ i - C[i] >= first => b[i - C[i]]
  BY <1>3, RunLengthFacts, Zenon
<1> HIDE DEF C
<1>7. H \subseteq Nat /\ F \subseteq Nat
  BY <1>3, <1>4, <1>5
<1>8. \A i \in H : i - cnt + 1 \in F
  <2> TAKE i \in H
  <2>1. i \in first..n /\ C[i] = cnt /\ i \in Nat
    BY <1>3, <1>4
  <2>2. \A j \in (i - cnt + 1)..i : ~b[j]
    BY <1>6, <2>1, Zenon
  <2>3. i - cnt + 1 >= first
    BY <1>3, <1>6, <2>1
  <2> QED BY <1>3, <1>5, <2>1, <2>2, <2>3
<1>9. ASSUME F # {} PROVE Min(F) + cnt - 1 \in H
  <2> DEFINE s == Min(F)
  <2>1. s \in F /\ \A y \in F : s <= y
    BY <1>7, <1>9, MinFacts, Zenon
  <2> HIDE DEF s
  <2>2. s \in 0..(n - 1) /\ ~b[s] /\ s + cnt - 1 \in first..n /\ s >= first /\ s \in Nat
    <3>1. s \in 0..(n + 1 - cnt) /\ \A i \in s..(s + cnt - 1) : ~b[i]
      BY <1>5, <2>1, Zenon
    <3>2. s \in 0..(n - 1) /\ ~b[s]
      BY <3>1
    <3> QED BY <1>3, <3>1, <3>2
  <2> DEFINE e == s + cnt - 1
             c == C[e]
  <2>3. /\ c \in 0..(e - first + 1)
        /\ \A j \in (e - c + 1)..e : ~b[j]
        /\ e - c >= first => b[e - c]
    BY <1>6, <2>2, Zenon
  <2> HIDE DEF c
  <2>4. \A i \in s..e : ~b[i]
    BY <1>5, <2>1, Zenon
  <2>5. ~(c < cnt)
    <3> SUFFICES ASSUME c < cnt PROVE FALSE
      BY Zenon
    <3>1. e - c \in s..e /\ e - c >= first
      BY <1>3, <2>2, <2>3
    <3> QED BY <2>3, <2>4, <3>1, Zenon
  <2>6. ~(c > cnt)
    <3> SUFFICES ASSUME c > cnt PROVE FALSE
      BY Zenon
    <3>1. s - 1 >= first /\ s - 1 \in 0..(n + 1 - cnt)
      BY <1>3, <2>2, <2>3
    <3>2. \A i \in (s - 1)..(s - 1 + cnt - 1) : ~b[i]
      <4> TAKE i \in (s - 1)..(s - 1 + cnt - 1)
      <4>1. i \in (e - c + 1)..e
        BY <2>2, <2>3, <3>1
      <4> QED BY <2>3, <4>1, Zenon
    <3>3. s - 1 \in F
      BY <1>5, <3>1, <3>2, Zenon
    <3> QED BY <2>1, <2>2, <3>3
  <2>7. c = cnt /\ e \in (first + 1)..n
    BY <1>3, <2>2, <2>3, <2>5, <2>6
  <2> QED BY <1>4, <2>7, Zenon DEF c, s
<1>10. CASE F = {}
  <2>1. H = {}
    BY <1>8, <1>10, Zenon
  <2> QED BY <1>10, <2>1 DEF bitmap_scan, FirstFit, H, F
<1>11. CASE F # {}
  <2>1. H # {} /\ Min(F) + cnt - 1 \in H
    BY <1>9, <1>11, Zenon
  <2>2. Min(F) \in F /\ \A y \in F : Min(F) <= y
    BY <1>7, <1>11, MinFacts, Zenon
  <2>3. \A i \in H : Min(F) + cnt - 1 <= i
    <3> TAKE i \in H
    <3>1. Min(F) <= i - cnt + 1 /\ i \in Nat /\ Min(F) \in Nat
      BY <1>7, <1>8, <2>2, Zenon
    <3> QED BY <3>1
  <2>4. Min(F) + cnt - 1 = Min(H)
    BY <1>7, <2>1, <2>3, MinFacts, Zenon
  <2>5. Min(F) \in Nat
    BY <1>7, <2>2, Zenon
  <2>6. bitmap_scan(b, n, cnt) = Min(H) - cnt + 1
    BY <2>1 DEF bitmap_scan, H
  <2> QED BY <1>11, <2>4, <2>5, <2>6 DEF FirstFit, F
<1> QED BY <1>10, <1>11, Zenon

\* For every bitmap and every length, bitmap_scan returns the first run of clear bits
\* that fits, or the run that ends with the bit behind the bitmap, or -1.
THEOREM ScanFindsFirstFit ==
  ASSUME NEW n \in Nat, NEW b \in [0..n -> BOOLEAN], NEW cnt \in Nat \ {0}
  PROVE  ScanFits(b, n, cnt)
<1> SUFFICES ASSUME ScanAsserts(b, n)
             PROVE  bitmap_scan(b, n, cnt) = IF Fits(b, n, cnt) # {} THEN FirstFit(b, n, cnt)
                                             ELSE IF Fits(b, n + 1, cnt) # {} THEN n + 1 - cnt
                                             ELSE -1
  BY Zenon DEF ScanFits
<1> DEFINE F == Fits(b, n, cnt)
           G == Fits(b, n + 1, cnt)
<1>1. /\ F = {s \in 0..(n - cnt) : \A i \in s..(s + cnt - 1) : ~b[i]}
      /\ G = {s \in 0..(n + 1 - cnt) : \A i \in s..(s + cnt - 1) : ~b[i]}
  BY DEF Fits
<1>2. CASE cnt = 1
  <2>1. F = FreeBits(b, n)
    BY <1>1, <1>2 DEF FreeBits
  <2> QED BY <1>2, <2>1, Zenon DEF bitmap_scan, FirstFit, ScanAsserts
<1>3. CASE cnt > 1
  <2>1. bitmap_scan(b, n, cnt) = IF G = {} THEN -1 ELSE Min(G)
    BY <1>3, LongScan, Zenon DEF FirstFit
  <2> HIDE DEF F, G
  <2>2. F \subseteq G /\ G \subseteq Nat /\ \A s \in G : s \in F \/ s = n + 1 - cnt
    BY <1>1
  <2>3. CASE F # {}
    <3>1. Min(F) \in F /\ \A y \in F : Min(F) <= y
      BY <2>2, <2>3, MinFacts, Zenon
    <3>2. \A y \in G : Min(F) <= y
      <4> TAKE y \in G
      <4>1. CASE y \in F
        BY <3>1, <4>1, Zenon
      <4>2. CASE y = n + 1 - cnt
        BY <1>1, <3>1, <4>2
      <4> QED BY <2>2, <4>1, <4>2, Zenon
    <3>3. Min(F) = Min(G) /\ G # {}
      BY <2>2, <3>1, <3>2, MinFacts, Zenon
    <3> QED BY <2>1, <2>3, <3>3, Zenon DEF FirstFit, F
  <2>4. CASE F = {}
    <3>1. CASE G = {}
      BY <2>1, <2>4, <3>1, Zenon DEF F, G
    <3>2. CASE G # {}
      <4>1. Min(G) \in G
        BY <2>2, <3>2, MinFacts, Zenon
      <4>2. Min(G) = n + 1 - cnt
        BY <2>2, <2>4, <4>1, Zenon
      <4> QED BY <2>1, <2>4, <3>2, <4>2, Zenon DEF F, G
    <3> QED BY <3>1, <3>2, Zenon
  <2> QED BY <2>3, <2>4, Zenon
<1> QED BY <1>2, <1>3

-----------------------------------------------------------------------------
(* The functions of Paging.                                                *)

\* What an entry of a page table or of a page directory has.
Entries == Frames \union {NULL}

\* The stores of one call: the bits of a run, an entry of a page table and of a page
\* directory.
StoreRun(m, s, pages, value) ==
  [m EXCEPT !.vaddr[s] = [i \in DOMAIN @ |-> IF i \in pages THEN value ELSE @[i]]]
StorePte(m, s, v, f) == [m EXCEPT !.pte[s][v] = f]
StorePde(m, p, i, f) == [m EXCEPT !.pde[p][i] = f]

\* A memory state, field by field.
LEMMA MemoryFields ==
  ASSUME NEW m \in Memory
  PROVE  /\ \A pf \in pool_flags : m.pool[pf] \in [0..Pages -> BOOLEAN]
         /\ \A s \in Spaces : m.vaddr[s] \in [0..VPages(s) -> BOOLEAN]
         /\ \A s \in Spaces : m.pte[s] \in [0..VPages(s) -> Entries]
         /\ \A p \in Processes : m.pde[p] \in [Tables -> Entries]
<1>1. \A s \in Spaces : m.vaddr[s] \in UNION {[0..n -> BOOLEAN] : n \in SpaceSizes}
  BY Zenon DEF Memory
<1>2. \A s \in Spaces : m.pte[s] \in UNION {[0..n -> Entries] : n \in SpaceSizes}
  BY Zenon DEF Memory, Entries
<1>3. \A s \in Spaces : DOMAIN m.vaddr[s] = 0..VPages(s) /\ DOMAIN m.pte[s] = 0..VPages(s)
  BY Zenon DEF Memory
<1>4. ASSUME NEW s \in Spaces PROVE m.vaddr[s] \in [0..VPages(s) -> BOOLEAN]
  <2>1. PICK n \in SpaceSizes : m.vaddr[s] \in [0..n -> BOOLEAN]
    BY <1>1, Zenon
  <2>2. 0..n = 0..VPages(s)
    BY <1>3, <2>1, Zenon
  <2> QED BY <2>1, <2>2, Zenon
<1>5. ASSUME NEW s \in Spaces PROVE m.pte[s] \in [0..VPages(s) -> Entries]
  <2>1. PICK n \in SpaceSizes : m.pte[s] \in [0..n -> Entries]
    BY <1>2, Zenon
  <2>2. 0..n = 0..VPages(s)
    BY <1>3, <2>1, Zenon
  <2> QED BY <2>1, <2>2, Zenon
<1> QED BY <1>4, <1>5, Zenon DEF Memory, Entries

\* A panic changes nothing else.
LEMMA FaultFacts ==
  ASSUME NEW m \in Memory, NEW why \in {"full", "limit", "assert"}
  PROVE  LET r == Fault(m, why) IN
         r \in Memory /\ r.pool = m.pool /\ r.vaddr = m.vaddr /\ r.pte = m.pte /\ r.pde = m.pde
  BY Zenon DEF Fault, Memory

\* vaddr_get changes the bits of a run.
LEMMA VaddrFacts ==
  ASSUME NEW m \in Memory, NEW s \in Spaces, NEW pages, NEW value \in BOOLEAN
  PROVE  LET r == StoreRun(m, s, pages, value) IN
         /\ r \in Memory /\ r.pool = m.pool /\ r.pte = m.pte /\ r.pde = m.pde
         /\ \A x \in Spaces : x # s => r.vaddr[x] = m.vaddr[x]
         /\ \A i \in 0..VPages(s) : i \in pages => r.vaddr[s][i] = value
         /\ \A i \in 0..VPages(s) : i \notin pages => r.vaddr[s][i] = m.vaddr[s][i]
<1> DEFINE r == StoreRun(m, s, pages, value)
<1> HIDE DEF r
<1> DEFINE b == [i \in DOMAIN m.vaddr[s] |-> IF i \in pages THEN value ELSE m.vaddr[s][i]]
<1>1. m.vaddr[s] \in [0..VPages(s) -> BOOLEAN]
  BY MemoryFields, Zenon
<1>2. /\ b \in [0..VPages(s) -> BOOLEAN]
      /\ \A i \in 0..VPages(s) : i \in pages => b[i] = value
      /\ \A i \in 0..VPages(s) : i \notin pages => b[i] = m.vaddr[s][i]
  BY <1>1, Zenon
<1>3. r = [m EXCEPT !.vaddr = [m.vaddr EXCEPT ![s] = b]]
  BY Zenon DEF Memory, StoreRun, r
<1> HIDE DEF b
<1>4. VPages(s) \in SpaceSizes
  BY Zenon DEF VPages, SpaceSizes
<1>5. [m.vaddr EXCEPT ![s] = b] \in [Spaces -> UNION {[0..n -> BOOLEAN] : n \in SpaceSizes}]
  BY <1>2, <1>4 DEF Memory
<1>6. r.pool = m.pool /\ r.pte = m.pte /\ r.pde = m.pde /\ r.vaddr = [m.vaddr EXCEPT ![s] = b]
  BY <1>3, Zenon DEF Memory
<1>7. r \in Memory
  BY <1>2, <1>3, <1>5, Zenon DEF Memory
<1>8. r.vaddr[s] = b /\ \A x \in Spaces : x # s => r.vaddr[x] = m.vaddr[x]
  BY <1>6, Zenon DEF Memory
<1> QED BY <1>2, <1>6, <1>7, <1>8, Zenon DEF r

\* The run of a process, whose bitmap is its own.
MarkRun(m, s, pages) == StoreRun(m, s, pages, TRUE)

\* vaddr_get marks the pages of its run.
LEMMA MarkFacts ==
  ASSUME NEW m \in Memory, NEW s \in Spaces, NEW pages
  PROVE  LET r == MarkRun(m, s, pages) IN
         /\ r \in Memory /\ r.pool = m.pool /\ r.pte = m.pte /\ r.pde = m.pde
         /\ \A x \in Spaces : x # s => r.vaddr[x] = m.vaddr[x]
         /\ \A i \in 0..VPages(s) : i \in pages => r.vaddr[s][i]
         /\ \A i \in 0..VPages(s) : i \notin pages => r.vaddr[s][i] = m.vaddr[s][i]
<1> DEFINE r == StoreRun(m, s, pages, TRUE)
<1>1. /\ r \in Memory /\ r.pool = m.pool /\ r.pte = m.pte /\ r.pde = m.pde
      /\ \A x \in Spaces : x # s => r.vaddr[x] = m.vaddr[x]
      /\ \A i \in 0..VPages(s) : i \in pages => r.vaddr[s][i] = TRUE
      /\ \A i \in 0..VPages(s) : i \notin pages => r.vaddr[s][i] = m.vaddr[s][i]
  BY VaddrFacts, Zenon
<1> HIDE DEF r
<1>2. MarkRun(m, s, pages) = r
  BY Zenon DEF MarkRun, r
<1> QED BY <1>1, <1>2, Zenon

\* A store to a page table changes one entry.
LEMMA PteFacts ==
  ASSUME NEW m \in Memory, NEW s \in Spaces, NEW v \in 0..VPages(s), NEW f \in Entries,
         NEW r, r = StorePte(m, s, v, f)
  PROVE  /\ r \in Memory /\ r.pool = m.pool /\ r.vaddr = m.vaddr /\ r.pde = m.pde
         /\ r.pte[s][v] = f
         /\ \A x \in Spaces : \A w \in 0..VPages(x) :
              (x # s \/ w # v) => r.pte[x][w] = m.pte[x][w]
<1> DEFINE q == [m.pte[s] EXCEPT ![v] = f]
<1>1. m.pte[s] \in [0..VPages(s) -> Entries]
  BY MemoryFields, Zenon
<1>2. /\ q \in [0..VPages(s) -> Entries] /\ q[v] = f
      /\ \A w \in 0..VPages(s) : w # v => q[w] = m.pte[s][w]
  BY <1>1, Zenon
<1>3. r = [m EXCEPT !.pte = [m.pte EXCEPT ![s] = q]]
  BY Zenon DEF Memory, StorePte
<1> HIDE DEF q
<1>4. VPages(s) \in SpaceSizes
  BY Zenon DEF VPages, SpaceSizes
<1>5. [m.pte EXCEPT ![s] = q] \in [Spaces -> UNION {[0..n -> Frames \union {NULL}] : n \in SpaceSizes}]
  BY <1>2, <1>4 DEF Memory, Entries
<1>6. /\ r.pool = m.pool /\ r.vaddr = m.vaddr /\ r.pde = m.pde
      /\ r.pte = [m.pte EXCEPT ![s] = q]
  BY <1>3, Zenon DEF Memory
<1>7. r \in Memory
  BY <1>2, <1>3, <1>5, ZenonT(60) DEF Memory
<1>8. r.pte[s] = q /\ \A x \in Spaces : x # s => r.pte[x] = m.pte[x]
  BY <1>6, Zenon DEF Memory
<1>9. ASSUME NEW x \in Spaces, NEW w \in 0..VPages(x), x # s \/ w # v
      PROVE  r.pte[x][w] = m.pte[x][w]
  <2>1. CASE x # s
    <3>1. r.pte[x] = m.pte[x]
      BY <1>8, <2>1, Zenon
    <3> QED BY <3>1, Zenon
  <2>2. CASE x = s
    <3>1. w # v /\ q[w] = m.pte[s][w]
      BY <1>2, <1>9, <2>2, Zenon
    <3> QED BY <1>8, <2>2, <3>1, Zenon
  <2> QED BY <2>1, <2>2, Zenon
<1>10. r.pte[s][v] = f
  BY <1>2, <1>8, Zenon
<1> QED BY <1>6, <1>7, <1>9, <1>10, Zenon

\* A store to a page directory changes one entry.
LEMMA PdeFacts ==
  ASSUME NEW m \in Memory, NEW p \in Processes, NEW j \in Tables, NEW f \in Frames,
         NEW r, r = StorePde(m, p, j, f)
  PROVE  /\ r \in Memory /\ r.pool = m.pool /\ r.vaddr = m.vaddr /\ r.pte = m.pte
         /\ r.pde[p][j] = f
         /\ \A q \in Processes : \A i \in Tables :
              (q # p \/ i # j) => r.pde[q][i] = m.pde[q][i]
<1> DEFINE d == [m.pde EXCEPT ![p][j] = f]
<1>1. m.pde \in [Processes -> [Tables -> Entries]]
  BY Zenon DEF Memory, Entries
<1>2. /\ d \in [Processes -> [Tables -> Entries]]
      /\ d[p][j] = f
      /\ \A q \in Processes : \A i \in Tables : (q # p \/ i # j) => d[q][i] = m.pde[q][i]
  BY <1>1, Zenon DEF Entries
<1>3. r = [m EXCEPT !.pde = d]
  BY Zenon DEF Memory, StorePde
<1> HIDE DEF d
<1>4. r \in Memory /\ r.pool = m.pool /\ r.vaddr = m.vaddr /\ r.pte = m.pte /\ r.pde = d
  BY <1>2, <1>3, Zenon DEF Memory, Entries
<1> QED BY <1>2, <1>4, Zenon

\* *pte is stored if the page was not mapped; a panic otherwise.
LEMMA SetPteFacts ==
  ASSUME NEW m \in Memory, NEW s \in Spaces, NEW v \in 0..VPages(s), NEW f \in Frames,
         NEW r, r = SetPte(m, s, v, f)
  PROVE  /\ r \in Memory /\ r.pool = m.pool /\ r.vaddr = m.vaddr /\ r.pde = m.pde
         /\ \A x \in Spaces : \A w \in 0..VPages(x) :
              \/ r.pte[x][w] = m.pte[x][w]
              \/ x = s /\ w = v /\ r.pte[x][w] = f
         /\ m.fault = "none" /\ m.pte[s][v] = NULL => r.pte[s][v] = f
<1>1. CASE m.fault # "none"
  BY <1>1, Zenon DEF SetPte
<1>2. CASE m.fault = "none" /\ m.pte[s][v] # NULL
  <2>1. r = Fault(m, "assert")
    BY <1>2, Zenon DEF SetPte
  <2>2. r \in Memory /\ r.pool = m.pool /\ r.vaddr = m.vaddr /\ r.pte = m.pte /\ r.pde = m.pde
    BY <2>1, FaultFacts, Zenon
  <2> QED BY <1>2, <2>2, Zenon
<1>3. CASE m.fault = "none" /\ m.pte[s][v] = NULL
  <2>1. r = StorePte(m, s, v, f)
    BY <1>3, Zenon DEF SetPte, StorePte
  <2>2. /\ r \in Memory /\ r.pool = m.pool /\ r.vaddr = m.vaddr /\ r.pde = m.pde
        /\ r.pte[s][v] = f
        /\ \A x \in Spaces : \A w \in 0..VPages(x) :
             (x # s \/ w # v) => r.pte[x][w] = m.pte[x][w]
    <3>1. f \in Entries
      BY Zenon DEF Entries
    <3> QED BY <2>1, <3>1, PteFacts
  <2> QED BY <2>2, Zenon
<1> QED BY <1>1, <1>2, <1>3, Zenon

\* The frame that palloc finds is one of its pool and not marked.
LEMMA FreeFrameFacts ==
  ASSUME NEW m \in Memory, NEW pf \in pool_flags, ~PoolFull(m, pf)
  PROVE  LET f == FreeFrame(m, pf) IN
         f \in Frames /\ f[1] = pf /\ ~m.pool[pf][f[2]]
<1> DEFINE b == m.pool[pf]
<1>1. Pages \in Nat /\ b \in [0..Pages -> BOOLEAN] /\ ScanAsserts(b, Pages)
  BY MemoryFields, PagingAssumption, Zenon DEF PoolFull
<1>2. FreeBits(b, Pages) \subseteq Nat /\ FreeBits(b, Pages) # {}
  BY <1>1 DEF ScanAsserts, FreeBits
<1>3. Min(FreeBits(b, Pages)) \in FreeBits(b, Pages)
  BY <1>2, MinFacts, Zenon
<1>4. bitmap_scan(b, Pages, 1) \in 0..(Pages - 1) /\ ~b[bitmap_scan(b, Pages, 1)]
  BY <1>3, Zenon DEF bitmap_scan, FreeBits
<1> QED BY <1>4, Zenon DEF FreeFrame, Frames

\* The run that vaddr_get finds ends at the latest with the bit behind the bitmap, and
\* none of its pages is marked.
LEMMA FreeRunFacts ==
  ASSUME NEW m \in Memory, NEW s \in Spaces, NEW cnt \in Nat \ {0},
         ~SpaceFull(m, s), FreeRun(m, s, cnt) # -1
  PROVE  LET v == FreeRun(m, s, cnt) IN
         /\ v \in 0..VPages(s) /\ v + cnt - 1 <= VPages(s)
         /\ \A i \in v..(v + cnt - 1) : ~m.vaddr[s][i]
<1> DEFINE n == VPages(s)
           b == m.vaddr[s]
           v == bitmap_scan(b, n, cnt)
           F == Fits(b, n, cnt)
           G == Fits(b, n + 1, cnt)
<1>1. n \in Nat /\ b \in [0..n -> BOOLEAN] /\ ScanAsserts(b, n) /\ v # -1
  BY MemoryFields, PagingAssumption, Zenon DEF SpaceFull, FreeRun, VPages
<1>2. ScanFits(b, n, cnt)
  BY <1>1, ScanFindsFirstFit, Zenon
<1>3. v = IF F # {} THEN Min(F) ELSE IF G # {} THEN n + 1 - cnt ELSE -1
  BY <1>1, <1>2, Zenon DEF ScanFits, FirstFit
<1> HIDE DEF v, n, b
<1>4. /\ \A i : i \in F <=> i \in 0..(n - cnt) /\ \A j \in i..(i + cnt - 1) : ~b[j]
      /\ \A i : i \in G <=> i \in 0..(n + 1 - cnt) /\ \A j \in i..(i + cnt - 1) : ~b[j]
  BY <1>1 DEF Fits
<1>5. v \in G
  <2> HIDE DEF F, G
  <2>1. CASE F # {}
    <3>1. Min(F) \in F
      BY <1>4, <2>1, MinFacts
    <3>2. F \subseteq G
      BY <1>1, <1>4
    <3> QED BY <1>3, <2>1, <3>1, <3>2, Zenon
  <2>2. CASE F = {}
    <3>1. G # {} /\ v = n + 1 - cnt
      BY <1>1, <1>3, <2>2, Zenon
    <3>2. \A i \in G : i \in F \/ i = n + 1 - cnt
      BY <1>1, <1>4
    <3> QED BY <2>2, <3>1, <3>2, Zenon
  <2> QED BY <2>1, <2>2, Zenon
<1> HIDE DEF F, G
<1>6. /\ v \in 0..n /\ v + cnt - 1 <= n
      /\ \A i \in v..(v + cnt - 1) : ~b[i]
  BY <1>1, <1>4, <1>5
<1> QED BY <1>6, Zenon DEF v, n, b, FreeRun

-----------------------------------------------------------------------------
(* Types, and the runs and the locks of the calls.                         *)

\* Who runs is a thread, and its space and its pool are among those there are.
LEMMA ThreadFacts ==
  ASSUME NEW t \in Threads
  PROVE  /\ SpaceOf(t) \in Spaces /\ Pool(t) \in pool_flags
         /\ t # NULL /\ Kernel \in Spaces /\ VPages(SpaceOf(t)) \in Nat
         /\ t \in Processes => /\ SpaceOf(t) = t /\ Pool(t) = PF_USER /\ t \notin KernelThreads
                               /\ VPages(t) = UserPages
         /\ t \notin Processes => /\ SpaceOf(t) = Kernel /\ Pool(t) = PF_KERNEL
                                  /\ t \in KernelThreads
         /\ VPages(Kernel) = Pages
  BY PagingAssumption, PagePoolAssumption, Zenon
  DEF SpaceOf, Pool, PoolOf, Spaces, pool_flags, Threads, VPages

\* The entry of a page is a frame or NULL.
LEMMA EntryFacts ==
  ASSUME TypeOK, NEW s \in Spaces, NEW v \in 0..VPages(s)
  PROVE  mem.pte[s][v] \in Frames \union {NULL}
<1>1. mem.pte[s] \in [0..VPages(s) -> Entries]
  BY MemoryFields, Zenon DEF TypeOK
<1> QED BY <1>1, Zenon DEF Entries

\* The page table of a page of a process.
LEMMA TableIndex ==
  ASSUME NEW v \in 0..UserPages
  PROVE  v \div TablePages \in Tables
<1>1. UserPages \in Nat /\ TablePages \in Nat \ {0}
  BY PagingAssumption, Zenon
<1>2. v \div TablePages <= UserPages \div TablePages /\ v \div TablePages \in Nat
  BY <1>1
<1>3. UserPages \div TablePages \in Nat
  BY <1>1
<1> QED BY <1>2, <1>3 DEF Tables

\* The page that a call is about lies in its space.
LEMMA VpageFacts ==
  ASSUME TypeOK, RunInv, NEW t \in Threads, pc[t] \notin {"out", "vaddr_scan", "return"}
  PROVE  /\ Vpage(t) \in 0..VPages(SpaceOf(t))
         /\ run[t].first \in Nat /\ run[t].cnt \in Nat /\ done[t] \in Nat
         /\ done[t] < run[t].cnt /\ Vpage(t) \in PagesOf(run[t])
         /\ \A v \in PagesOf(run[t]) : v \in 0..VPages(SpaceOf(t))
<1>1. run[t] \in Runs /\ done[t] \in 0..MaxPages
  BY Zenon DEF TypeOK
<1>2. run[t].first \in Nat /\ run[t].cnt \in Nat /\ done[t] \in Nat
  BY <1>1, PagingAssumption, PagePoolAssumption DEF Runs
<1>3. done[t] < run[t].cnt /\ run[t].first + run[t].cnt - 1 <= VPages(SpaceOf(t))
  BY Zenon DEF RunInv, RunOf
<1>4. VPages(SpaceOf(t)) \in Nat
  BY ThreadFacts, Zenon
<1> QED BY <1>2, <1>3, <1>4 DEF Vpage, PagesOf

\* The store of a bitmap_set, of palloc and of pfree: it changes its bit, and no other one
\* if the byte is as it was when it was loaded.
LEMMA StoreFrameFacts ==
  ASSUME TypeOK, NEW t \in Threads, NEW value \in BOOLEAN, NEW f, f = found[t],
         NEW m, m = StoreFrame(t, value)
  PROVE  /\ m \in Memory /\ m.vaddr = mem.vaddr /\ m.pte = mem.pte /\ m.pde = mem.pde
         /\ m.pool[f[1]][f[2]] = value
         /\ \A pf \in pool_flags : pf # f[1] => m.pool[pf] = mem.pool[pf]
         /\ bits[t] = mem.pool[f[1]] =>
              \A i \in 0..Pages : i # f[2] => m.pool[f[1]][i] = mem.pool[f[1]][i]
<1> DEFINE b == Stored(t, mem.pool[f[1]], f[2], value)
           p == [mem.pool EXCEPT ![f[1]] = b]
<1>0. f[1] \in pool_flags /\ f[2] \in 0..Pages
  <2>1. f \in Frames
    BY Zenon DEF TypeOK
  <2> QED BY <2>1, PagingAssumption DEF Frames
<1>1. mem \in Memory /\ mem.pool \in [pool_flags -> [0..Pages -> BOOLEAN]]
  BY Zenon DEF Memory, TypeOK
<1>2. bits[t] \in [0..Pages -> BOOLEAN] /\ mem.pool[f[1]] \in [0..Pages -> BOOLEAN]
  BY <1>0, <1>1, Zenon DEF TypeOK
<1>3. /\ b \in [0..Pages -> BOOLEAN] /\ b[f[2]] = value
      /\ bits[t] = mem.pool[f[1]] =>
           \A i \in 0..Pages : i # f[2] => b[i] = mem.pool[f[1]][i]
  BY <1>0, <1>2, Zenon DEF Stored
<1>4. m = [mem EXCEPT !.pool = p]
  BY <1>1, Zenon DEF Memory, StoreFrame
<1> HIDE DEF b
<1>5. /\ p \in [pool_flags -> [0..Pages -> BOOLEAN]] /\ p[f[1]] = b
      /\ \A pf \in pool_flags : pf # f[1] => p[pf] = mem.pool[pf]
  BY <1>0, <1>1, <1>3, Zenon
<1> HIDE DEF p
<1>6. m \in Memory /\ m.vaddr = mem.vaddr /\ m.pte = mem.pte /\ m.pde = mem.pde /\ m.pool = p
  BY <1>1, <1>4, <1>5, Zenon DEF Memory
<1> QED BY <1>3, <1>5, <1>6, Zenon

\* A step with the store of palloc.
LEMMA TakeFrameStep ==
  ASSUME TypeOK, NEW t \in Threads, NEW f, f = found[t], mem' = StoreFrame(t, TRUE)
  PROVE  /\ mem'.vaddr = mem.vaddr /\ mem'.pte = mem.pte /\ mem'.pde = mem.pde
         /\ mem'.pool[f[1]][f[2]]
         /\ \A pf \in pool_flags : pf # f[1] => mem'.pool[pf] = mem.pool[pf]
         /\ bits[t] = mem.pool[f[1]] =>
              \A i \in 0..Pages : i # f[2] => mem'.pool[f[1]][i] = mem.pool[f[1]][i]
<1>1. PICK value \in BOOLEAN : value = TRUE
  BY Zenon
<1>2. PICK m : m = StoreFrame(t, value) /\ mem' = m
  BY <1>1, Zenon
<1>3. /\ m.vaddr = mem.vaddr /\ m.pte = mem.pte /\ m.pde = mem.pde
      /\ m.pool[f[1]][f[2]] = value
      /\ \A pf \in pool_flags : pf # f[1] => m.pool[pf] = mem.pool[pf]
      /\ bits[t] = mem.pool[f[1]] =>
           \A i \in 0..Pages : i # f[2] => m.pool[f[1]][i] = mem.pool[f[1]][i]
  BY <1>2, StoreFrameFacts
<1> QED BY <1>1, <1>2, <1>3, ZenonT(60)

\* A step with the store of pfree.
LEMMA GiveFrameStep ==
  ASSUME TypeOK, NEW t \in Threads, NEW f, f = found[t], mem' = StoreFrame(t, FALSE)
  PROVE  /\ mem'.vaddr = mem.vaddr /\ mem'.pte = mem.pte /\ mem'.pde = mem.pde
         /\ ~mem'.pool[f[1]][f[2]]
         /\ \A pf \in pool_flags : pf # f[1] => mem'.pool[pf] = mem.pool[pf]
         /\ bits[t] = mem.pool[f[1]] =>
              \A i \in 0..Pages : i # f[2] => mem'.pool[f[1]][i] = mem.pool[f[1]][i]
<1>1. PICK value \in BOOLEAN : value = FALSE
  BY Zenon
<1>2. PICK m : m = StoreFrame(t, value) /\ mem' = m
  BY <1>1, Zenon
<1>3. /\ m.vaddr = mem.vaddr /\ m.pte = mem.pte /\ m.pde = mem.pde
      /\ m.pool[f[1]][f[2]] = value
      /\ \A pf \in pool_flags : pf # f[1] => m.pool[pf] = mem.pool[pf]
      /\ bits[t] = mem.pool[f[1]] =>
           \A i \in 0..Pages : i # f[2] => m.pool[f[1]][i] = mem.pool[f[1]][i]
  BY <1>2, StoreFrameFacts
<1> QED BY <1>1, <1>2, <1>3, Zenon

\* The stores of vaddr_get and of vaddr_remove.
LEMMA StorePageFacts ==
  ASSUME TypeOK, NEW t \in Threads, NEW value \in BOOLEAN, NEW v \in 0..Pages, v = Vpage(t),
         NEW m, m = StorePage(t, value)
  PROVE  /\ m \in Memory /\ m.pool = mem.pool /\ m.pte = mem.pte /\ m.pde = mem.pde
         /\ \A x \in Spaces : x # Kernel => m.vaddr[x] = mem.vaddr[x]
         /\ m.vaddr[Kernel][v] = value
         /\ bits[t] = mem.vaddr[Kernel] =>
              \A i \in 0..Pages : i # v => m.vaddr[Kernel][i] = mem.vaddr[Kernel][i]
<1> DEFINE b == Stored(t, mem.vaddr[Kernel], v, value)
           p == [mem.vaddr EXCEPT ![Kernel] = b]
<1>0. Kernel \in Spaces /\ VPages(Kernel) = Pages /\ mem \in Memory /\ Pages \in SpaceSizes
  BY Zenon DEF Spaces, VPages, TypeOK, SpaceSizes
<1>1. mem.vaddr[Kernel] \in [0..Pages -> BOOLEAN]
  BY <1>0, MemoryFields, Zenon
<1>2. bits[t] \in [0..Pages -> BOOLEAN]
  BY Zenon DEF TypeOK
<1>3. /\ b \in [0..Pages -> BOOLEAN] /\ b[v] = value
      /\ bits[t] = mem.vaddr[Kernel] =>
           \A i \in 0..Pages : i # v => b[i] = mem.vaddr[Kernel][i]
  BY <1>1, <1>2, Zenon DEF Stored
<1>4. m = [mem EXCEPT !.vaddr = p]
  BY <1>0, Zenon DEF Memory, StorePage
<1> HIDE DEF b
<1>5. p \in [Spaces -> UNION {[0..n -> BOOLEAN] : n \in SpaceSizes}]
  BY <1>0, <1>3 DEF Memory
<1>6. p[Kernel] = b /\ \A x \in Spaces : x # Kernel => p[x] = mem.vaddr[x]
  BY <1>0, Zenon DEF Memory
<1> HIDE DEF p
<1>7. m.pool = mem.pool /\ m.pte = mem.pte /\ m.pde = mem.pde /\ m.vaddr = p
  BY <1>0, <1>4, Zenon DEF Memory
<1>8. \A s \in Spaces : DOMAIN p[s] = 0..VPages(s)
  BY <1>0, <1>3, <1>6, Zenon DEF Memory
<1>9. m \in Memory
  BY <1>0, <1>4, <1>5, <1>8, ZenonT(60) DEF Memory
<1> QED BY <1>3, <1>6, <1>7, <1>9, Zenon

\* A step with a store of vaddr_get.
LEMMA MarkPageStep ==
  ASSUME TypeOK, NEW t \in Threads, NEW v \in 0..Pages, v = Vpage(t), mem' = StorePage(t, TRUE)
  PROVE  /\ mem'.pool = mem.pool /\ mem'.pte = mem.pte /\ mem'.pde = mem.pde
         /\ \A x \in Spaces : x # Kernel => mem'.vaddr[x] = mem.vaddr[x]
         /\ mem'.vaddr[Kernel][v]
         /\ bits[t] = mem.vaddr[Kernel] =>
              \A i \in 0..Pages : i # v => mem'.vaddr[Kernel][i] = mem.vaddr[Kernel][i]
<1>1. PICK value \in BOOLEAN : value = TRUE
  BY Zenon
<1>2. PICK m : m = StorePage(t, value) /\ mem' = m
  BY <1>1, Zenon
<1>3. /\ m.pool = mem.pool /\ m.pte = mem.pte /\ m.pde = mem.pde
      /\ \A x \in Spaces : x # Kernel => m.vaddr[x] = mem.vaddr[x]
      /\ m.vaddr[Kernel][v] = value
      /\ bits[t] = mem.vaddr[Kernel] =>
           \A i \in 0..Pages : i # v => m.vaddr[Kernel][i] = mem.vaddr[Kernel][i]
  BY <1>2, StorePageFacts
<1> QED BY <1>1, <1>2, <1>3, Zenon

\* A step with a store of vaddr_remove.
LEMMA ClearPageStep ==
  ASSUME TypeOK, NEW t \in Threads, NEW v \in 0..Pages, v = Vpage(t), mem' = StorePage(t, FALSE)
  PROVE  /\ mem'.pool = mem.pool /\ mem'.pte = mem.pte /\ mem'.pde = mem.pde
         /\ \A x \in Spaces : x # Kernel => mem'.vaddr[x] = mem.vaddr[x]
         /\ ~mem'.vaddr[Kernel][v]
         /\ bits[t] = mem.vaddr[Kernel] =>
              \A i \in 0..Pages : i # v => mem'.vaddr[Kernel][i] = mem.vaddr[Kernel][i]
<1>1. PICK value \in BOOLEAN : value = FALSE
  BY Zenon
<1>2. PICK m : m = StorePage(t, value) /\ mem' = m
  BY <1>1, Zenon
<1>3. /\ m.pool = mem.pool /\ m.pte = mem.pte /\ m.pde = mem.pde
      /\ \A x \in Spaces : x # Kernel => m.vaddr[x] = mem.vaddr[x]
      /\ m.vaddr[Kernel][v] = value
      /\ bits[t] = mem.vaddr[Kernel] =>
           \A i \in 0..Pages : i # v => m.vaddr[Kernel][i] = mem.vaddr[Kernel][i]
  BY <1>2, StorePageFacts
<1> QED BY <1>1, <1>2, <1>3, Zenon

\* lock_release of a lock that was taken once makes it free.
LEMMA UnlockFacts ==
  ASSUME TypeOK, LockInv, NEW t \in Threads, Unlock(t)
  PROVE  /\ owner' = IF owner[Pool(t)] = t THEN [owner EXCEPT ![Pool(t)] = NULL] ELSE owner
         /\ nesting' = IF owner[Pool(t)] = t THEN [nesting EXCEPT ![Pool(t)] = 0] ELSE nesting
         /\ owner' \in [pool_flags -> Threads \union {NULL}]
         /\ nesting' \in [pool_flags -> {0, 1}]
<1>1. t # NULL /\ Pool(t) \in pool_flags
  BY ThreadFacts, Zenon
<1>2. CASE owner[Pool(t)] = t
  <2>1. nesting[Pool(t)] = 1
    BY <1>1, <1>2, Zenon DEF LockInv
  <2>2. /\ owner' = [owner EXCEPT ![Pool(t)] = NULL]
        /\ nesting' = [nesting EXCEPT ![Pool(t)] = @ - 1]
    BY <1>2, <2>1, Zenon DEF Unlock, Lock!GiveBack
  <2>3. nesting' = [nesting EXCEPT ![Pool(t)] = 0]
    BY <1>1, <2>1, <2>2 DEF TypeOK
  <2>4. owner' \in [pool_flags -> Threads \union {NULL}] /\ nesting' \in [pool_flags -> {0, 1}]
    BY <2>2, <2>3, Zenon DEF TypeOK
  <2> QED BY <1>2, <2>2, <2>3, <2>4, Zenon
<1>3. CASE owner[Pool(t)] # t
  BY <1>3, Zenon DEF Unlock, locks, TypeOK
<1> QED BY <1>2, <1>3, Zenon

\* lock_acquire of a lock that is free.
LEMMA TakeFacts ==
  ASSUME TypeOK, NEW t \in Threads, NEW pf \in pool_flags, Lock!Take(t, pf)
  PROVE  /\ owner[pf] = NULL
         /\ owner' = [owner EXCEPT ![pf] = t] /\ nesting' = [nesting EXCEPT ![pf] = 1]
         /\ owner' \in [pool_flags -> Threads \union {NULL}]
         /\ nesting' \in [pool_flags -> {0, 1}]
  BY Zenon DEF Lock!Take, TypeOK

\* A call that returns forgets its local variables.
LEMMA LeaveFacts ==
  ASSUME TypeOK, LockInv, NEW t \in Threads, Leave(t)
  PROVE  /\ pc' = [pc EXCEPT ![t] = "out"]
         /\ run' = [run EXCEPT ![t] = NoRun] /\ done' = [done EXCEPT ![t] = 0]
         /\ run' \in [Threads -> Runs] /\ done' \in [Threads -> 0..MaxPages]
         /\ found' \in [Threads -> Frames] /\ page' \in [Threads -> Frames]
         /\ bits' \in [Threads -> [0..Pages -> BOOLEAN]]
         /\ owner' \in [pool_flags -> Threads \union {NULL}]
         /\ nesting' \in [pool_flags -> {0, 1}]
         /\ \A u \in Threads : u # t =>
              found'[u] = found[u] /\ page'[u] = page[u] /\ bits'[u] = bits[u]
<1>1. NoRun \in Runs /\ 0 \in 0..MaxPages /\ NoFrame \in Frames
  BY PagingAssumption, PagePoolAssumption DEF NoRun, Runs, NoFrame, Frames, pool_flags
<1>2. /\ pc' = [pc EXCEPT ![t] = "out"]
      /\ run' = [run EXCEPT ![t] = NoRun] /\ done' = [done EXCEPT ![t] = 0]
      /\ found' = [found EXCEPT ![t] = NoFrame] /\ page' = [page EXCEPT ![t] = NoFrame]
      /\ bits' = [bits EXCEPT ![t] = NoBits] /\ NoBits \in [0..Pages -> BOOLEAN]
  BY Zenon DEF Leave, Goto, Begin, NoBits, bitmap_init
<1>3. owner' \in [pool_flags -> Threads \union {NULL}] /\ nesting' \in [pool_flags -> {0, 1}]
  BY UnlockFacts, Zenon DEF Leave
<1> QED BY <1>1, <1>2, <1>3, Zenon DEF TypeOK

\* The load of a bitmap_set, by one of the five loops and functions that call it.
Loading(t) == VaddrSet(t) \/ PallocSet(t) \/ TableSet(t) \/ Pfree(t) \/ VaddrClear(t)

\* A load changes the locals of its thread only.
LEMMA LoadFacts ==
  ASSUME TypeOK, RunInv, UserInv, NEW t \in Threads, Loading(t)
  PROVE  /\ mem' = mem /\ owner' = owner /\ nesting' = nesting /\ run' = run /\ done' = done
         /\ page' = page /\ has' = has
         /\ found' \in [Threads -> Frames] /\ bits' \in [Threads -> [0..Pages -> BOOLEAN]]
         /\ \A u \in Threads : u # t =>
              pc'[u] = pc[u] /\ found'[u] = found[u] /\ bits'[u] = bits[u]
         /\ \E next : pc' = [pc EXCEPT ![t] = next] /\ pc'[t] = next
         /\ \/ /\ pc[t] = "vaddr_set" /\ pc'[t] = "vaddr_store"
               /\ found' = found /\ bits'[t] = mem.vaddr[Kernel]
            \/ /\ pc[t] = "palloc_set" /\ pc'[t] = "palloc_store"
               /\ found' = found /\ bits'[t] = mem.pool[Pool(t)]
            \/ /\ pc[t] = "table_set" /\ pc'[t] = "table_store"
               /\ found' = found /\ bits'[t] = mem.pool[PF_KERNEL]
            \/ /\ pc[t] = "pfree" /\ pc'[t] = "pfree_store"
               /\ found'[t] \in addr_v2p(Vpage(t)) /\ found'[t][1] = PF_KERNEL
               /\ bits'[t] = mem.pool[PF_KERNEL]
            \/ /\ pc[t] = "vaddr_clear" /\ pc'[t] = "vaddr_clear_store"
               /\ found' = found /\ bits'[t] = mem.vaddr[Kernel]
<1> DEFINE B == [0..Pages -> BOOLEAN]
           Kept == /\ mem' = mem /\ owner' = owner /\ nesting' = nesting /\ run' = run
                   /\ done' = done /\ page' = page /\ has' = has
<1>0. /\ mem.vaddr[Kernel] \in B /\ mem.pool[PF_KERNEL] \in B /\ mem.pool[Pool(t)] \in B
      /\ found \in [Threads -> Frames] /\ bits \in [Threads -> B]
      /\ pc \in [Threads -> KernelLabels \union ProcessLabels]
  <2>1. Kernel \in Spaces /\ VPages(Kernel) = Pages /\ PF_KERNEL \in pool_flags
        /\ Pool(t) \in pool_flags /\ mem \in Memory
    BY ThreadFacts, Zenon DEF pool_flags, TypeOK
  <2>2. mem.vaddr[Kernel] \in [0..VPages(Kernel) -> BOOLEAN]
    BY <2>1, MemoryFields, Zenon
  <2>3. mem.vaddr[Kernel] \in B
    BY <2>1, <2>2, Zenon
  <2> QED BY <2>1, <2>3, MemoryFields, Zenon DEF TypeOK
<1>1. ASSUME NEW b \in B, NEW label, NEW next, Load(t, b, label, next)
      PROVE  /\ Kept /\ bits' \in [Threads -> B] /\ bits'[t] = b
             /\ \A u \in Threads : u # t => pc'[u] = pc[u] /\ bits'[u] = bits[u]
             /\ pc[t] = label /\ pc'[t] = next /\ pc' = [pc EXCEPT ![t] = next]
  BY <1>0, <1>1, Zenon DEF Load, At, Goto, locks
<1> HIDE DEF B, Kept
<1>2. CASE VaddrSet(t)
  <2>1. Load(t, mem.vaddr[Kernel], "vaddr_set", "vaddr_store") /\ found' = found
    BY <1>2, Zenon DEF VaddrSet
  <2> QED BY <1>0, <1>1, <2>1, Zenon DEF Kept, B
<1>3. CASE PallocSet(t)
  <2>1. Load(t, mem.pool[found[t][1]], "palloc_set", "palloc_store") /\ found' = found
    BY <1>3, Zenon DEF PallocSet
  <2>2. found[t][1] = Pool(t)
    BY <2>1, Zenon DEF UserInv, Allocating, Load, At
  <2> QED BY <1>0, <1>1, <2>1, <2>2, Zenon DEF Kept, B
<1>4. CASE TableSet(t)
  <2>1. Load(t, mem.pool[found[t][1]], "table_set", "table_store") /\ found' = found
    BY <1>4, Zenon DEF TableSet
  <2>2. found[t][1] = PF_KERNEL
    BY <2>1, Zenon DEF UserInv, Allocating, Load, At
  <2> QED BY <1>0, <1>1, <2>1, <2>2, Zenon DEF Kept, B
<1>5. CASE VaddrClear(t)
  <2>1. Load(t, mem.vaddr[Kernel], "vaddr_clear", "vaddr_clear_store") /\ found' = found
    BY <1>5, Zenon DEF VaddrClear
  <2> QED BY <1>0, <1>1, <2>1, Zenon DEF Kept, B
<1>6. CASE Pfree(t)
  <2>0. pc[t] = "pfree" /\ t \in KernelThreads
    BY <1>6, ThreadFacts, Zenon DEF Pfree, At, RunInv, RunOf, ProcessLabels
  <2>1. Vpage(t) \in 0..Pages
    BY <2>0, VpageFacts, ThreadFacts, PagePoolAssumption, Zenon
  <2>2. PICK f \in addr_v2p(Vpage(t)) :
          Load(t, mem.pool[f[1]], "pfree", "pfree_store") /\ found' = [found EXCEPT ![t] = f]
    BY <1>6, Zenon DEF Pfree
  <2>3. f \in Frames /\ f[1] = PF_KERNEL
    <3>1. mem.pte[Kernel][Vpage(t)] \in Frames \union {NULL}
      BY <2>1, EntryFacts, ThreadFacts, Zenon
    <3>2. mem.pte[Kernel][Vpage(t)] # NULL => mem.pte[Kernel][Vpage(t)][1] = PF_KERNEL
      BY <2>1, Zenon DEF UserInv, UserMapped
    <3> QED BY <2>2, <3>1, <3>2, Zenon DEF addr_v2p
  <2>4. /\ found' \in [Threads -> Frames] /\ found'[t] = f
        /\ \A u \in Threads : u # t => found'[u] = found[u]
    BY <1>0, <2>2, <2>3, Zenon
  <2>5. Load(t, mem.pool[PF_KERNEL], "pfree", "pfree_store")
    BY <2>2, <2>3, Zenon
  <2>6. /\ Kept /\ bits' \in [Threads -> B] /\ bits'[t] = mem.pool[PF_KERNEL]
        /\ \A u \in Threads : u # t => pc'[u] = pc[u] /\ bits'[u] = bits[u]
        /\ pc[t] = "pfree" /\ pc'[t] = "pfree_store" /\ pc' = [pc EXCEPT ![t] = "pfree_store"]
    BY <1>0, <1>1, <2>5
  <2>7. found'[t] \in addr_v2p(Vpage(t)) /\ found'[t][1] = PF_KERNEL
    BY <2>2, <2>3, <2>4, Zenon
  <2> QED BY <2>0, <2>4, <2>6, <2>7, Zenon DEF Kept, B
<1> QED BY <1>2, <1>3, <1>4, <1>5, <1>6, Zenon DEF Loading

\* The loops over the pages of a run go on to the next page, or end with the last one.
LEMMA LoopFacts ==
  ASSUME TypeOK, RunInv, NEW t \in Threads, pc[t] \notin {"out", "vaddr_scan", "return"},
         NEW d, d = IF done[t] + 1 = run[t].cnt THEN 0 ELSE done[t] + 1
  PROVE  d \in 0..MaxPages /\ d \in Nat /\ d < run[t].cnt
<1>1. run[t].cnt \in 1..MaxPages /\ done[t] \in 0..MaxPages
  BY Zenon DEF TypeOK, Runs
<1>2. done[t] < run[t].cnt
  BY Zenon DEF RunInv, RunOf
<1> QED BY <1>1, <1>2, PagePoolAssumption

\* Every step keeps the types.
LEMMA TypeStep ==
  ASSUME TypeOK, RunInv, LockInv, UserInv, NEW t \in Threads, Step(t),
         UNCHANGED setting, clash' \in BOOLEAN
  PROVE  TypeOK'
<1> USE DEF Goto, At, locks, call
<1>0. /\ mem \in Memory /\ owner \in [pool_flags -> Threads \union {NULL}]
      /\ nesting \in [pool_flags -> {0, 1}]
      /\ pc \in [Threads -> KernelLabels \union ProcessLabels] /\ run \in [Threads -> Runs]
      /\ done \in [Threads -> 0..MaxPages] /\ found \in [Threads -> Frames]
      /\ page \in [Threads -> Frames] /\ has \in [Threads -> SUBSET Runs]
      /\ bits \in [Threads -> [0..Pages -> BOOLEAN]]
      /\ setting' \in Settings /\ clash' \in BOOLEAN
  BY Zenon DEF TypeOK
<1>T. /\ SpaceOf(t) \in Spaces /\ Pool(t) \in pool_flags /\ PF_KERNEL \in pool_flags
      /\ PF_USER \in pool_flags
  BY ThreadFacts, Zenon DEF pool_flags
<1>L. \A l \in KernelLabels \union ProcessLabels :
        [pc EXCEPT ![t] = l] \in [Threads -> KernelLabels \union ProcessLabels]
  BY <1>0, Zenon
<1>N. [bits EXCEPT ![t] = NoBits] \in [Threads -> [0..Pages -> BOOLEAN]]
  BY <1>0, Zenon DEF NoBits, bitmap_init
<1>M. \A l \in {"out", "vaddr_scan", "vaddr_set", "vaddr_store", "palloc_scan", "palloc_set",
                "palloc_store", "pte", "return", "pfree", "pfree_store", "unmap", "vaddr_clear",
                "vaddr_clear_store", "table_scan", "table_set", "table_store", "table_pde"} :
        l \in KernelLabels \union ProcessLabels
  BY Zenon DEF KernelLabels, ProcessLabels
<1>B. ASSUME NEW r \in Runs, Begin(t, r)
      PROVE  run' \in [Threads -> Runs] /\ done' \in [Threads -> 0..MaxPages]
  <2>1. 0 \in 0..MaxPages
    BY PagePoolAssumption
  <2> QED BY <1>0, <1>B, <2>1, Zenon DEF Begin
<1>C. \A cnt \in 1..MaxPages : \A heap \in BOOLEAN : [first |-> 0, cnt |-> cnt, heap |-> heap] \in Runs
  BY PagingAssumption DEF Runs
<1>1. ASSUME NEW cnt \in 1..MaxPages, Malloc(t, cnt) PROVE TypeOK'
  <2>1. pc' \in [Threads -> KernelLabels \union ProcessLabels]
    BY <1>1, <1>L, <1>M, Zenon DEF Malloc
  <2>2. run' \in [Threads -> Runs] /\ done' \in [Threads -> 0..MaxPages]
    BY <1>1, <1>B, <1>C, Zenon DEF Malloc
  <2>3. owner' \in [pool_flags -> Threads \union {NULL}] /\ nesting' \in [pool_flags -> {0, 1}]
    BY <1>1, <1>T, TakeFacts, Zenon DEF Malloc
  <2> QED BY <1>0, <1>1, <2>1, <2>2, <2>3, Zenon DEF Malloc, TypeOK
<1>2. ASSUME NEW cnt \in 1..MaxPages, GetKernelPages(t, cnt) PROVE TypeOK'
  <2>1. pc' \in [Threads -> KernelLabels \union ProcessLabels]
    BY <1>2, <1>L, <1>M, Zenon DEF GetKernelPages
  <2>2. run' \in [Threads -> Runs] /\ done' \in [Threads -> 0..MaxPages]
    BY <1>2, <1>B, <1>C, Zenon DEF GetKernelPages
  <2> QED BY <1>0, <1>2, <2>1, <2>2, Zenon DEF GetKernelPages, TypeOK
<1>3. ASSUME NEW r \in has[t], Free(t, r) PROVE TypeOK'
  <2>0. r \in Runs
    BY <1>0, Zenon
  <2>1. pc' \in [Threads -> KernelLabels \union ProcessLabels]
    BY <1>3, <1>L, <1>M, Zenon DEF Free
  <2>2. run' \in [Threads -> Runs] /\ done' \in [Threads -> 0..MaxPages]
    BY <1>3, <1>B, <2>0, Zenon DEF Free
  <2>3. owner' \in [pool_flags -> Threads \union {NULL}] /\ nesting' \in [pool_flags -> {0, 1}]
    BY <1>3, <1>T, TakeFacts, Zenon DEF Free
  <2>4. has' \in [Threads -> SUBSET Runs]
    BY <1>0, <1>3, Zenon DEF Free
  <2> QED BY <1>0, <1>3, <2>1, <2>2, <2>3, <2>4, Zenon DEF Free, TypeOK
<1>4. ASSUME GetAPage(t) PROVE TypeOK'
  <2>0. [first |-> UserPages - 1, cnt |-> 1, heap |-> FALSE] \in Runs
    BY PagingAssumption, PagePoolAssumption DEF Runs
  <2>1. pc' \in [Threads -> KernelLabels \union ProcessLabels]
    BY <1>4, <1>L, <1>M, Zenon DEF GetAPage
  <2>2. run' \in [Threads -> Runs] /\ done' \in [Threads -> 0..MaxPages]
    BY <1>4, <1>B, <2>0, Zenon DEF GetAPage
  <2>3. owner' \in [pool_flags -> Threads \union {NULL}] /\ nesting' \in [pool_flags -> {0, 1}]
    BY <1>4, <1>T, TakeFacts, Zenon DEF GetAPage
  <2>4. mem' = MarkRun(mem, t, (UserPages - 1)..(UserPages - 1 + 1 - 1)) /\ t \in Spaces
    BY <1>4, Zenon DEF GetAPage, vaddr_get, SetRun, StoreRun, MarkRun, Spaces
  <2>5. mem' \in Memory
    BY <1>0, <2>4, MarkFacts
  <2> QED BY <1>0, <1>4, <2>1, <2>2, <2>3, <2>5, Zenon DEF GetAPage, TypeOK
<1>5. ASSUME VaddrScan(t) PROVE TypeOK'
  <2> DEFINE ok == PgCntAsserts(run[t].cnt) /\ ~SpaceFull(mem, SpaceOf(t))
             v == FreeRun(mem, SpaceOf(t), run[t].cnt)
             why == IF PgCntAsserts(run[t].cnt) THEN "full" ELSE "limit"
  <2>1. CASE ~ok
    <3>1. /\ mem' = Fault(mem, why)
          /\ UNCHANGED <<owner, nesting, pc, run, done, found, page, bits, has>>
      BY <1>5, <2>1, Zenon DEF VaddrScan
    <3>2. why \in {"full", "limit", "assert"}
      BY Zenon
    <3> HIDE DEF why
    <3>3. mem' \in Memory
      BY <1>0, <3>1, <3>2, FaultFacts, Zenon
    <3> QED BY <1>0, <3>1, <3>3, Zenon DEF TypeOK
  <2>2. CASE ok /\ v = -1
    <3>1. UNCHANGED <<mem, has>> /\ Leave(t)
      BY <1>5, <2>2, Zenon DEF VaddrScan
    <3>2. pc' \in [Threads -> KernelLabels \union ProcessLabels]
      BY <3>1, <1>L, <1>M, LeaveFacts, ZenonT(60)
    <3> QED BY <1>0, <3>1, <3>2, LeaveFacts, Zenon DEF TypeOK
  <2>3. CASE ok /\ v # -1
    <3>1. /\ UNCHANGED <<mem, has, owner, nesting, done, found, page, bits>>
          /\ run' = [run EXCEPT ![t].first = v]
          /\ pc' = [pc EXCEPT ![t] = "vaddr_set"]
      BY <1>5, <2>3, Zenon DEF VaddrScan
    <3>2. run[t] \in Runs /\ run[t].cnt \in Nat \ {0}
      BY <1>0, PagePoolAssumption DEF Runs
    <3>3. v \in 0..VPages(SpaceOf(t))
      BY <1>0, <1>T, <2>3, <3>2, FreeRunFacts, Zenon
    <3> HIDE DEF v
    <3>4. v \in 0..(Pages + UserPages)
      BY <3>3, PagingAssumption DEF VPages
    <3>5. run' \in [Threads -> Runs]
      BY <1>0, <3>1, <3>4, Zenon DEF Runs
    <3>6. pc' \in [Threads -> KernelLabels \union ProcessLabels]
      BY <3>1, <1>L, <1>M, Zenon
    <3> QED BY <1>0, <3>1, <3>5, <3>6, Zenon DEF TypeOK
  <2> QED BY <2>1, <2>2, <2>3, Zenon
<1>P. ASSUME NEW l \in {"vaddr_store", "vaddr_clear_store"}, pc[t] = l, NEW value \in BOOLEAN
      PROVE  StorePage(t, value) \in Memory
  <2>1. t \in KernelThreads
    BY <1>P, ThreadFacts, Zenon DEF RunInv, RunOf, ProcessLabels
  <2>2. Vpage(t) \in 0..Pages
    BY <1>P, <2>1, VpageFacts, ThreadFacts, PagePoolAssumption, Zenon
  <2> QED BY <2>2, StorePageFacts, Zenon
<1>6. ASSUME VaddrStore(t) PROVE TypeOK'
  <2> DEFINE d == IF done[t] + 1 = run[t].cnt THEN 0 ELSE done[t] + 1
             next == IF done[t] + 1 = run[t].cnt THEN "palloc_scan" ELSE "vaddr_set"
  <2>1. /\ pc[t] = "vaddr_store" /\ mem' = StorePage(t, TRUE) /\ bits' = [bits EXCEPT ![t] = NoBits]
        /\ done' = [done EXCEPT ![t] = d] /\ pc' = [pc EXCEPT ![t] = next]
        /\ UNCHANGED <<owner, nesting, run, found, page, has>>
    BY <1>6, Zenon DEF VaddrStore
  <2>2. d \in 0..MaxPages
    BY <2>1, LoopFacts, Zenon
  <2>3. next \in KernelLabels \union ProcessLabels
    BY <1>M, Zenon
  <2> HIDE DEF d, next
  <2>4. mem' \in Memory
    BY <2>1, <1>P, Zenon
  <2>5. pc' \in [Threads -> KernelLabels \union ProcessLabels] /\ done' \in [Threads -> 0..MaxPages]
    BY <1>0, <1>L, <2>1, <2>2, <2>3, Zenon
  <2> QED BY <1>0, <1>N, <2>1, <2>4, <2>5, Zenon DEF TypeOK
<1>7. ASSUME NEW pf \in pool_flags, NEW label, NEW next \in {"palloc_set", "table_set"},
             Scan(t, pf, label, next)
      PROVE  TypeOK'
  <2>1. CASE PoolFull(mem, pf)
    <3>1. /\ mem' = Fault(mem, "full")
          /\ UNCHANGED <<owner, nesting, pc, run, done, found, page, bits, has>>
      BY <1>7, <2>1, Zenon DEF Scan
    <3>2. mem' \in Memory
      BY <1>0, <3>1, FaultFacts, Zenon
    <3> QED BY <1>0, <3>1, <3>2, Zenon DEF TypeOK
  <2>2. CASE ~PoolFull(mem, pf)
    <3>1. /\ found' = [found EXCEPT ![t] = FreeFrame(mem, pf)]
          /\ pc' = [pc EXCEPT ![t] = next]
          /\ UNCHANGED <<mem, owner, nesting, run, done, page, bits, has>>
      BY <1>7, <2>2, Zenon DEF Scan
    <3>2. FreeFrame(mem, pf) \in Frames
      BY <1>0, <2>2, FreeFrameFacts, Zenon
    <3>3. found' \in [Threads -> Frames]
      BY <1>0, <3>1, <3>2, Zenon
    <3>4. pc' \in [Threads -> KernelLabels \union ProcessLabels]
      BY <3>1, <1>L, <1>M, Zenon
    <3> QED BY <1>0, <3>1, <3>3, <3>4, Zenon DEF TypeOK
  <2> QED BY <2>1, <2>2, Zenon
<1>8. ASSUME PallocStore(t) PROVE TypeOK'
  <2>1. mem' \in Memory
    BY <1>8, StoreFrameFacts, Zenon DEF PallocStore
  <2>2. pc' \in [Threads -> KernelLabels \union ProcessLabels]
    BY <1>8, <1>L, <1>M, Zenon DEF PallocStore
  <2>3. page' \in [Threads -> Frames]
    BY <1>0, <1>8, Zenon DEF PallocStore
  <2> QED BY <1>0, <1>8, <1>N, <2>1, <2>2, <2>3, Zenon DEF PallocStore, TypeOK
<1>9. ASSUME NEW m \in Memory, Mapped(t, m), pc[t] \in {"pte", "table_pde"} PROVE TypeOK'
  <2>1. Vpage(t) \in 0..VPages(SpaceOf(t)) /\ page[t] \in Frames
    BY <1>0, <1>9, VpageFacts, Zenon
  <2>2. mem' \in Memory
    BY <1>9, <1>T, <2>1, SetPteFacts, Zenon DEF Mapped
  <2>3. pc' \in [Threads -> KernelLabels \union ProcessLabels]
    <3> DEFINE next == IF done[t] + 1 = run[t].cnt THEN "return" ELSE "palloc_scan"
    <3>1. pc' = [pc EXCEPT ![t] = next]
      BY <1>9, Zenon DEF Mapped
    <3>2. next \in KernelLabels \union ProcessLabels
      BY <1>M, Zenon
    <3> QED BY <3>1, <3>2, <1>L, Zenon
  <2>4. done' \in [Threads -> 0..MaxPages]
    <3>1. done[t] + 1 \in 0..MaxPages
      <4>1. run[t].cnt \in 1..MaxPages /\ done[t] \in 0..MaxPages
        BY <1>0, Zenon DEF Runs
      <4>2. done[t] < run[t].cnt
        BY <1>9, Zenon DEF RunInv, RunOf
      <4> QED BY <4>1, <4>2, PagePoolAssumption
    <3>2. done' = [done EXCEPT ![t] = done[t] + 1]
      BY <1>9, Zenon DEF Mapped
    <3> QED BY <1>0, <3>1, <3>2, Zenon
  <2> QED BY <1>0, <1>9, <2>2, <2>3, <2>4, Zenon DEF Mapped, TypeOK
<1>10. ASSUME Pte(t) PROVE TypeOK'
  <2>1. CASE HasTable(mem, SpaceOf(t), Vpage(t))
    BY <1>0, <1>9, <1>10, <2>1, Zenon DEF Pte
  <2>2. CASE ~HasTable(mem, SpaceOf(t), Vpage(t))
    <3>1. pc' = [pc EXCEPT ![t] = "table_scan"]
      BY <1>10, <2>2, Zenon DEF Pte
    <3>2. pc' \in [Threads -> KernelLabels \union ProcessLabels]
      BY <3>1, <1>L, <1>M, Zenon
    <3> QED BY <1>0, <1>10, <2>2, <3>2, Zenon DEF Pte, TypeOK
  <2> QED BY <2>1, <2>2, Zenon
<1>11. ASSUME TableStore(t) \/ PfreeStore(t) PROVE TypeOK'
  <2>1. /\ \E value \in BOOLEAN : mem' = StoreFrame(t, value)
        /\ \E l \in {"table_pde", "unmap"} : pc' = [pc EXCEPT ![t] = l]
        /\ bits' = [bits EXCEPT ![t] = NoBits]
        /\ UNCHANGED <<owner, nesting, run, done, found, page, has>>
    BY <1>11, Zenon DEF TableStore, PfreeStore
  <2>2. mem' \in Memory
    BY <2>1, StoreFrameFacts, ZenonT(60)
  <2>3. pc' \in [Threads -> KernelLabels \union ProcessLabels]
    BY <2>1, <1>L, <1>M, Zenon
  <2> QED BY <1>0, <1>N, <2>1, <2>2, <2>3, Zenon DEF TypeOK
<1>12. ASSUME TablePde(t) PROVE TypeOK'
  <2> DEFINE m == StorePde(mem, SpaceOf(t), Vpage(t) \div TablePages, found[t])
  <2>1. t \in Processes /\ SpaceOf(t) = t
    BY <1>12, ThreadFacts, Zenon DEF TablePde, RunInv, RunOf, KernelLabels
  <2>2. Vpage(t) \div TablePages \in Tables
    BY <1>12, <2>1, TableIndex, VpageFacts, ThreadFacts, Zenon DEF TablePde
  <2>3. m \in Memory
    BY <1>0, <2>1, <2>2, PdeFacts, SMT
  <2>4. Mapped(t, m) /\ pc[t] = "table_pde"
    BY <1>12, Zenon DEF TablePde, StorePde
  <2> HIDE DEF m
  <2> QED BY <1>9, <2>3, <2>4, Zenon
<1>13. ASSUME Return(t) PROVE TypeOK'
  <2>1. Leave(t) /\ UNCHANGED mem /\ has' = [has EXCEPT ![t] = @ \union {run[t]}]
    BY <1>13, Zenon DEF Return
  <2>2. pc' \in [Threads -> KernelLabels \union ProcessLabels]
    BY <2>1, <1>L, <1>M, LeaveFacts
  <2>3. has' \in [Threads -> SUBSET Runs]
    BY <1>0, <2>1, Zenon
  <2> QED BY <1>0, <2>1, <2>2, <2>3, LeaveFacts, Zenon DEF TypeOK
<1>14. ASSUME Loading(t) PROVE TypeOK'
  <2>1. /\ mem' = mem /\ owner' = owner /\ nesting' = nesting /\ run' = run /\ done' = done
        /\ page' = page /\ has' = has
        /\ found' \in [Threads -> Frames] /\ bits' \in [Threads -> [0..Pages -> BOOLEAN]]
        /\ \E next : pc' = [pc EXCEPT ![t] = next] /\ pc'[t] = next
        /\ pc'[t] \in {"vaddr_store", "palloc_store", "table_store", "pfree_store",
                       "vaddr_clear_store"}
    BY <1>14, LoadFacts, Zenon
  <2>2. pc' \in [Threads -> KernelLabels \union ProcessLabels]
    BY <1>L, <1>M, <2>1, Zenon
  <2> QED BY <1>0, <2>1, <2>2, Zenon DEF TypeOK
<1>15. ASSUME Unmap(t) PROVE TypeOK'
  <2> DEFINE d == IF done[t] + 1 = run[t].cnt THEN 0 ELSE done[t] + 1
             next == IF done[t] + 1 = run[t].cnt THEN "vaddr_clear" ELSE "pfree"
  <2>0. Vpage(t) \in 0..VPages(Kernel) /\ Kernel \in Spaces
    BY <1>15, ThreadFacts, VpageFacts, Zenon DEF Unmap, RunInv, RunOf, ProcessLabels
  <2>1. /\ pc[t] = "unmap" /\ mem' = StorePte(mem, Kernel, Vpage(t), NULL)
        /\ done' = [done EXCEPT ![t] = d] /\ pc' = [pc EXCEPT ![t] = next]
        /\ UNCHANGED <<owner, nesting, run, found, page, bits, has>>
    BY <1>15, Zenon DEF Unmap, page_table_pte_remove, StorePte
  <2>2. d \in 0..MaxPages
    BY <2>1, LoopFacts, Zenon
  <2>3. next \in KernelLabels \union ProcessLabels
    BY <1>M, Zenon
  <2> HIDE DEF d, next
  <2>4. mem' \in Memory
    BY <1>0, <2>0, <2>1, PteFacts, Zenon DEF Entries
  <2>5. pc' \in [Threads -> KernelLabels \union ProcessLabels] /\ done' \in [Threads -> 0..MaxPages]
    BY <1>0, <1>L, <2>1, <2>2, <2>3, Zenon
  <2> QED BY <1>0, <2>1, <2>4, <2>5, Zenon DEF TypeOK
<1>16. ASSUME VaddrClearStore(t) PROVE TypeOK'
  <2>1. pc[t] = "vaddr_clear_store" /\ mem' = StorePage(t, FALSE) /\ has' = has
    BY <1>16, Zenon DEF VaddrClearStore
  <2>2. mem' \in Memory
    BY <2>1, <1>P, Zenon
  <2>3. CASE done[t] + 1 = run[t].cnt
    <3>1. Leave(t)
      BY <1>16, <2>3, Zenon DEF VaddrClearStore
    <3>2. pc' \in [Threads -> KernelLabels \union ProcessLabels]
      BY <3>1, <1>L, <1>M, LeaveFacts, ZenonT(60)
    <3> QED BY <1>0, <2>1, <2>2, <3>1, <3>2, LeaveFacts, Zenon DEF TypeOK
  <2>4. CASE done[t] + 1 # run[t].cnt
    <3>1. /\ bits' = [bits EXCEPT ![t] = NoBits] /\ done' = [done EXCEPT ![t] = done[t] + 1]
          /\ pc' = [pc EXCEPT ![t] = "vaddr_clear"]
          /\ UNCHANGED <<owner, nesting, run, found, page>>
      BY <1>16, <2>4, Zenon DEF VaddrClearStore
    <3>2. done[t] + 1 \in 0..MaxPages
      BY <2>1, <2>4, LoopFacts, Zenon
    <3>3. pc' \in [Threads -> KernelLabels \union ProcessLabels] /\ done' \in [Threads -> 0..MaxPages]
      BY <1>0, <1>L, <1>M, <3>1, <3>2, Zenon
    <3> QED BY <1>0, <1>N, <2>1, <2>2, <3>1, <3>3, Zenon DEF TypeOK
  <2> QED BY <2>3, <2>4, Zenon
<1> QED BY <1>T, <1>1, <1>2, <1>3, <1>4, <1>5, <1>6, <1>7, <1>8, <1>10, <1>11, <1>12, <1>13, <1>14,
         <1>15, <1>16, Zenon DEF Step, PallocScan, TableScan, Loading

\* A step changes the locals and the runs of its thread only.
LEMMA OthersKeep ==
  ASSUME TypeOK, LockInv, NEW t \in Threads, Step(t), NEW u \in Threads, u # t
  PROVE  /\ pc'[u] = pc[u] /\ run'[u] = run[u] /\ done'[u] = done[u]
         /\ found'[u] = found[u] /\ page'[u] = page[u] /\ bits'[u] = bits[u] /\ has'[u] = has[u]
<1> USE DEF Goto, Begin, locks, call, TypeOK
<1>1. ASSUME NEW cnt \in 1..MaxPages, Malloc(t, cnt) \/ GetKernelPages(t, cnt)
      PROVE  /\ pc'[u] = pc[u] /\ run'[u] = run[u] /\ done'[u] = done[u]
             /\ found'[u] = found[u] /\ page'[u] = page[u] /\ bits'[u] = bits[u] /\ has'[u] = has[u]
  BY <1>1, Zenon DEF Malloc, GetKernelPages
<1>2. ASSUME NEW r \in has[t], Free(t, r)
      PROVE  /\ pc'[u] = pc[u] /\ run'[u] = run[u] /\ done'[u] = done[u]
             /\ found'[u] = found[u] /\ page'[u] = page[u] /\ bits'[u] = bits[u] /\ has'[u] = has[u]
  BY <1>2, Zenon DEF Free
<1>3. CASE GetAPage(t)
  BY <1>3, Zenon DEF GetAPage
<1>4. ASSUME Leave(t)
      PROVE  /\ pc'[u] = pc[u] /\ run'[u] = run[u] /\ done'[u] = done[u]
             /\ found'[u] = found[u] /\ page'[u] = page[u] /\ bits'[u] = bits[u]
  BY <1>4, Zenon DEF Leave
<1>5. CASE VaddrScan(t)
  BY <1>4, <1>5, Zenon DEF VaddrScan
<1>6. CASE VaddrSet(t) \/ PallocSet(t) \/ TableSet(t) \/ VaddrClear(t)
  BY <1>6, Zenon DEF VaddrSet, PallocSet, TableSet, VaddrClear, Load
<1>7. CASE Pte(t) \/ TablePde(t)
  BY <1>7, Zenon DEF Pte, TablePde, Mapped
<1>8. CASE Return(t)
  BY <1>4, <1>8, Zenon DEF Return
<1>9. CASE Pfree(t)
  BY <1>9, Zenon DEF Pfree, Load
<1>10. CASE VaddrStore(t) \/ PallocStore(t) \/ TableStore(t) \/ PfreeStore(t) \/ Unmap(t)
  BY <1>10, Zenon DEF VaddrStore, PallocStore, TableStore, PfreeStore, Unmap
<1>11. CASE PallocScan(t) \/ TableScan(t)
  BY <1>11, Zenon DEF PallocScan, TableScan, Scan
<1>12. CASE VaddrClearStore(t)
  BY <1>4, <1>12, Zenon DEF VaddrClearStore
<1> QED BY <1>1, <1>2, <1>3, <1>5, <1>6, <1>7, <1>8, <1>9, <1>10, <1>11, <1>12, Zenon DEF Step

\* Every step keeps the runs in their spaces and "done" in bounds.
LEMMA RunStep ==
  ASSUME TypeOK, RunInv, LockInv, UserInv, NEW t \in Threads, Step(t), TypeOK'
  PROVE  RunInv'
<1> USE DEF Goto, Begin, At, locks, call
<1>0. /\ pc \in [Threads -> KernelLabels \union ProcessLabels] /\ run \in [Threads -> Runs]
      /\ done \in [Threads -> 0..MaxPages] /\ has \in [Threads -> SUBSET Runs]
      /\ mem \in Memory
  BY Zenon DEF TypeOK
<1>S. /\ SpaceOf(t) \in Spaces /\ VPages(SpaceOf(t)) \in Nat
      /\ t \in Processes => SpaceOf(t) = t /\ VPages(t) = UserPages
      /\ t \in KernelThreads => t \notin Processes
      /\ t \notin Processes => t \in KernelThreads
      /\ UserPages \in Nat \ {0}
  BY ThreadFacts, PagingAssumption, Zenon
<1>R. run[t].first \in Nat /\ run[t].cnt \in Nat \ {0} /\ done[t] \in Nat
  BY <1>0, PagePoolAssumption DEF Runs
<1>I. RunOf(t)
  BY Zenon DEF RunInv
<1>L. ASSUME Leave(t), \A r \in has'[t] : r.first + r.cnt - 1 <= VPages(SpaceOf(t)),
             t \in Processes => \A r \in has'[t] : ~r.heap
      PROVE  RunOf(t)'
  <2>1. pc'[t] = "out" /\ run'[t] = NoRun /\ done'[t] = 0
    BY <1>0, <1>L, LeaveFacts
  <2>2. NoRun.cnt = 1 /\ ~NoRun.heap
    BY Zenon DEF NoRun
  <2> QED BY <1>L, <2>1, <2>2 DEF RunOf, ProcessLabels, KernelLabels
<1>1. ASSUME NEW cnt \in 1..MaxPages, Malloc(t, cnt) \/ GetKernelPages(t, cnt) PROVE RunOf(t)'
  <2>1. /\ t \notin Processes /\ pc'[t] = "vaddr_scan" /\ done'[t] = 0
        /\ run'[t].cnt = cnt /\ has' = has
    BY <1>0, <1>S, <1>1 DEF Malloc, GetKernelPages
  <2> QED BY <1>I, <2>1 DEF RunOf, KernelLabels
<1>2. ASSUME NEW r \in has[t], Free(t, r) PROVE RunOf(t)'
  <2>0. r \in Runs /\ r.cnt \in Nat \ {0} /\ r.first + r.cnt - 1 <= VPages(SpaceOf(t))
    BY <1>0, <1>I, PagePoolAssumption DEF Runs, RunOf
  <2>1. /\ pc'[t] = "pfree" /\ done'[t] = 0 /\ run'[t] = r /\ has'[t] \subseteq has[t]
    BY <1>0, <1>2, Zenon DEF Free
  <2>2. t \notin Processes
    BY <1>I, <1>2, Zenon DEF Free, RunOf
  <2> QED BY <1>I, <2>0, <2>1, <2>2 DEF RunOf, KernelLabels
<1>3. ASSUME GetAPage(t) PROVE RunOf(t)'
  <2>1. /\ t \in Processes /\ pc'[t] = "palloc_scan" /\ done'[t] = 0 /\ has' = has
        /\ run'[t] = [first |-> UserPages - 1, cnt |-> 1, heap |-> FALSE]
    BY <1>0, <1>3, Zenon DEF GetAPage
  <2>2. run'[t].first = UserPages - 1 /\ run'[t].cnt = 1 /\ ~run'[t].heap
    BY <2>1
  <2> QED BY <1>I, <1>S, <2>1, <2>2 DEF RunOf, ProcessLabels
<1>4. ASSUME VaddrScan(t) PROVE RunOf(t)'
  <2> DEFINE ok == PgCntAsserts(run[t].cnt) /\ ~SpaceFull(mem, SpaceOf(t))
             v == FreeRun(mem, SpaceOf(t), run[t].cnt)
  <2>1. CASE ~ok
    BY <1>4, <1>I, <2>1, Zenon DEF VaddrScan, RunOf
  <2>2. CASE ok /\ v = -1
    <3>1. Leave(t) /\ has' = has
      BY <1>4, <2>2, Zenon DEF VaddrScan
    <3> QED BY <1>L, <1>I, <3>1, Zenon DEF RunOf
  <2>3. CASE ok /\ v # -1
    <3>1. v + run[t].cnt - 1 <= VPages(SpaceOf(t))
      BY <1>0, <1>S, <1>R, <2>3, FreeRunFacts, Zenon
    <3>2. /\ pc'[t] = "vaddr_set" /\ done' = done /\ has' = has /\ pc[t] = "vaddr_scan"
          /\ run'[t].first = v /\ run'[t].cnt = run[t].cnt /\ run'[t].heap = run[t].heap
      BY <1>0, <1>4, <2>3 DEF VaddrScan, Runs
    <3> HIDE DEF v
    <3> QED BY <1>I, <3>1, <3>2, Zenon DEF RunOf, KernelLabels, ProcessLabels
  <2> QED BY <2>1, <2>2, <2>3, Zenon
<1>5. ASSUME VaddrStore(t) \/ Unmap(t) PROVE RunOf(t)'
  <2> DEFINE d == IF done[t] + 1 = run[t].cnt THEN 0 ELSE done[t] + 1
  <2>1. /\ run' = run /\ done'[t] = d /\ has' = has
        /\ \/ pc[t] = "vaddr_store" /\ pc'[t] \in {"palloc_scan", "vaddr_set"}
           \/ pc[t] = "unmap" /\ pc'[t] \in {"vaddr_clear", "pfree"}
    BY <1>0, <1>5, Zenon DEF VaddrStore, Unmap
  <2>2. d < run[t].cnt
    BY <2>1, LoopFacts, Zenon
  <2> HIDE DEF d
  <2> QED BY <1>I, <2>1, <2>2, Zenon DEF RunOf, KernelLabels, ProcessLabels
<1>6. ASSUME NEW pf, NEW label \in {"palloc_scan", "table_scan"}, NEW next,
             next = IF label = "palloc_scan" THEN "palloc_set" ELSE "table_set",
             Scan(t, pf, label, next)
      PROVE RunOf(t)'
  <2>1. /\ pc[t] = label /\ pc'[t] \in {label, next} /\ run' = run /\ done' = done /\ has' = has
    BY <1>0, <1>6, Zenon DEF Scan
  <2> QED BY <1>I, <1>6, <2>1, Zenon DEF RunOf, KernelLabels, ProcessLabels
<1>7. ASSUME PallocStore(t) \/ TableStore(t) \/ PfreeStore(t) PROVE RunOf(t)'
  <2>1. /\ run' = run /\ done' = done /\ has' = has
        /\ \/ pc[t] = "palloc_store" /\ pc'[t] = "pte"
           \/ pc[t] = "table_store" /\ pc'[t] = "table_pde"
           \/ pc[t] = "pfree_store" /\ pc'[t] = "unmap"
    BY <1>0, <1>7, Zenon DEF PallocStore, TableStore, PfreeStore
  <2> QED BY <1>I, <2>1, Zenon DEF RunOf, KernelLabels, ProcessLabels
<1>8. ASSUME NEW m, Mapped(t, m), pc[t] \in {"pte", "table_pde"} PROVE RunOf(t)'
  <2>1. /\ run' = run /\ done'[t] = done[t] + 1 /\ has' = has
        /\ pc'[t] = IF done[t] + 1 = run[t].cnt THEN "return" ELSE "palloc_scan"
    BY <1>0, <1>8, Zenon DEF Mapped
  <2>2. done[t] < run[t].cnt
    BY <1>I, <1>8, Zenon DEF RunOf
  <2> QED BY <1>I, <1>R, <1>8, <2>1, <2>2 DEF RunOf, KernelLabels, ProcessLabels
<1>9. ASSUME Pte(t) PROVE RunOf(t)'
  <2>1. CASE HasTable(mem, SpaceOf(t), Vpage(t))
    BY <1>8, <1>9, <2>1, Zenon DEF Pte
  <2>2. CASE ~HasTable(mem, SpaceOf(t), Vpage(t))
    <3>1. /\ run' = run /\ done' = done /\ has' = has
          /\ pc[t] = "pte" /\ pc'[t] = "table_scan"
      BY <1>0, <1>9, <2>2, Zenon DEF Pte
    <3>2. t \in Processes
      BY <1>S, <2>2, Zenon DEF HasTable, SpaceOf
    <3> QED BY <1>I, <3>1, <3>2, Zenon DEF RunOf, KernelLabels, ProcessLabels
  <2> QED BY <2>1, <2>2, Zenon
<1>10. ASSUME TablePde(t) PROVE RunOf(t)'
  BY <1>8, <1>10, Zenon DEF TablePde
<1>11. ASSUME Return(t) PROVE RunOf(t)'
  <2>1. Leave(t) /\ has'[t] = has[t] \union {run[t]} /\ pc[t] = "return"
    BY <1>0, <1>11, Zenon DEF Return
  <2>2. /\ \A r \in has'[t] : r.first + r.cnt - 1 <= VPages(SpaceOf(t))
        /\ t \in Processes => \A r \in has'[t] : ~r.heap
    BY <1>I, <2>1, Zenon DEF RunOf
  <2> QED BY <1>L, <2>1, <2>2, Zenon
<1>12. ASSUME Loading(t) PROVE RunOf(t)'
  <2>1. /\ run' = run /\ done' = done /\ has' = has
        /\ \/ pc[t] = "vaddr_set" /\ pc'[t] = "vaddr_store"
           \/ pc[t] = "palloc_set" /\ pc'[t] = "palloc_store"
           \/ pc[t] = "table_set" /\ pc'[t] = "table_store"
           \/ pc[t] = "pfree" /\ pc'[t] = "pfree_store"
           \/ pc[t] = "vaddr_clear" /\ pc'[t] = "vaddr_clear_store"
    BY <1>12, LoadFacts, Zenon
  <2> QED BY <1>I, <2>1, Zenon DEF RunOf, KernelLabels, ProcessLabels
<1>13. ASSUME VaddrClearStore(t) PROVE RunOf(t)'
  <2>1. pc[t] = "vaddr_clear_store" /\ has' = has
    BY <1>13, Zenon DEF VaddrClearStore
  <2>2. CASE done[t] + 1 = run[t].cnt
    <3>1. Leave(t)
      BY <1>13, <2>2, Zenon DEF VaddrClearStore
    <3> QED BY <1>L, <1>I, <2>1, <3>1, Zenon DEF RunOf
  <2>3. CASE done[t] + 1 # run[t].cnt
    <3>1. run' = run /\ done'[t] = done[t] + 1 /\ pc'[t] = "vaddr_clear"
      BY <1>0, <1>13, <2>3, Zenon DEF VaddrClearStore
    <3>2. done[t] + 1 < run[t].cnt
      BY <2>1, <2>3, LoopFacts, Zenon
    <3> QED BY <1>I, <2>1, <3>1, <3>2, Zenon DEF RunOf, KernelLabels, ProcessLabels
  <2> QED BY <2>2, <2>3, Zenon
<1>14. RunOf(t)'
  BY <1>1, <1>2, <1>3, <1>4, <1>5, <1>6, <1>7, <1>9, <1>10, <1>11, <1>12, <1>13, Zenon
  DEF Step, PallocScan, TableScan, Loading
<1>15. ASSUME NEW u \in Threads, u # t PROVE RunOf(u)'
  <2>1. /\ pc'[u] = pc[u] /\ run'[u] = run[u] /\ done'[u] = done[u] /\ has'[u] = has[u]
    BY <1>15, OthersKeep, Zenon
  <2>2. RunOf(u)
    BY Zenon DEF RunInv
  <2> QED BY <2>1, <2>2, Zenon DEF RunOf
<1> QED BY <1>14, <1>15, Zenon DEF RunInv

\* Every step keeps the locks with the calls that took them.
LEMMA LockStep ==
  ASSUME TypeOK, RunInv, LockInv, UserInv, NEW t \in Threads, Step(t), TypeOK'
  PROVE  LockInv'
<1> USE DEF Goto, Begin, At, locks, call
<1>0. /\ pc \in [Threads -> KernelLabels \union ProcessLabels] /\ run \in [Threads -> Runs]
      /\ owner \in [pool_flags -> Threads \union {NULL}] /\ nesting \in [pool_flags -> {0, 1}]
  BY Zenon DEF TypeOK
<1>T. /\ \A u \in Threads : u # NULL /\ Pool(u) \in pool_flags
      /\ \A u \in Processes : u \in Threads /\ Pool(u) = PF_USER
      /\ \A u \in KernelThreads : u \in Threads /\ Pool(u) = PF_KERNEL
      /\ PF_KERNEL \in pool_flags /\ PF_USER \in pool_flags
  <2>1. Processes \subseteq Threads /\ KernelThreads \subseteq Threads
    BY Zenon DEF Threads
  <2>2. \A u \in KernelThreads : u \notin Processes
    BY PagePoolAssumption, Zenon
  <2> QED BY <2>1, <2>2, ThreadFacts, Zenon DEF pool_flags
<1>O. \A u \in Threads : u # t => pc'[u] = pc[u] /\ run'[u] = run[u]
  BY OthersKeep, Zenon
<1>1. ASSUME Lock!Take(t, Pool(t)), pc[t] = "out", pc'[t] # "out" PROVE LockInv'
  <2>1. /\ owner[Pool(t)] = NULL
        /\ owner' = [owner EXCEPT ![Pool(t)] = t] /\ nesting' = [nesting EXCEPT ![Pool(t)] = 1]
    BY <1>T, <1>1, TakeFacts, Zenon
  <2>2. \A pf \in pool_flags : nesting'[pf] = IF owner'[pf] = NULL THEN 0 ELSE 1
    BY <1>0, <1>T, <2>1, Zenon DEF LockInv
  <2>3. ASSUME NEW u \in Threads, NEW pf \in pool_flags, owner'[pf] = u
        PROVE  pc'[u] # "out" /\ pf = Pool(u)
    BY <1>0, <1>T, <1>O, <1>1, <2>1, <2>3 DEF LockInv
  <2>4. ASSUME NEW u \in Processes, pc'[u] # "out" PROVE owner'[PF_USER] = u
    BY <1>0, <1>T, <1>O, <1>1, <2>1, <2>4 DEF LockInv
  <2>5. ASSUME NEW u \in KernelThreads, pc'[u] # "out", run'[u].heap PROVE owner'[PF_KERNEL] = u
    BY <1>0, <1>T, <1>O, <1>1, <2>1, <2>5 DEF LockInv
  <2> QED BY <2>2, <2>3, <2>4, <2>5, Zenon DEF LockInv
<1>2. ASSUME Leave(t) PROVE LockInv'
  <2>1. /\ owner' = IF owner[Pool(t)] = t THEN [owner EXCEPT ![Pool(t)] = NULL] ELSE owner
        /\ nesting' = IF owner[Pool(t)] = t THEN [nesting EXCEPT ![Pool(t)] = 0] ELSE nesting
    BY <1>2, UnlockFacts, Zenon DEF Leave
  <2>2. pc'[t] = "out"
    BY <1>0, <1>2, Zenon DEF Leave
  <2>3. \A pf \in pool_flags : nesting'[pf] = IF owner'[pf] = NULL THEN 0 ELSE 1
    BY <1>0, <1>T, <2>1, Zenon DEF LockInv
  <2>4. ASSUME NEW u \in Threads, NEW pf \in pool_flags, owner'[pf] = u
        PROVE  pc'[u] # "out" /\ pf = Pool(u)
    <3>1. owner[pf] = u /\ pc[u] # "out" /\ pf = Pool(u)
      BY <1>0, <1>T, <2>1, <2>4, Zenon DEF LockInv
    <3>2. u # t
      BY <1>0, <1>T, <2>1, <2>4, <3>1, Zenon
    <3> QED BY <1>O, <3>1, <3>2, Zenon
  <2>5. ASSUME NEW u \in Processes, pc'[u] # "out" PROVE owner'[PF_USER] = u
    <3>1. u # t /\ u \in Threads
      BY <1>T, <2>2, <2>5, Zenon
    <3>2. owner[PF_USER] = u
      BY <1>O, <2>5, <3>1, Zenon DEF LockInv
    <3> QED BY <1>0, <1>T, <2>1, <3>1, <3>2, Zenon
  <2>6. ASSUME NEW u \in KernelThreads, pc'[u] # "out", run'[u].heap PROVE owner'[PF_KERNEL] = u
    <3>1. u # t /\ u \in Threads
      BY <1>T, <2>2, <2>6, Zenon
    <3>2. owner[PF_KERNEL] = u
      BY <1>O, <2>6, <3>1, Zenon DEF LockInv
    <3> QED BY <1>0, <1>T, <2>1, <3>1, <3>2, Zenon
  <2> QED BY <2>3, <2>4, <2>5, <2>6, Zenon DEF LockInv
<1>3. ASSUME UNCHANGED <<owner, nesting>>, pc'[t] # "out",
             pc[t] = "out" => t \in KernelThreads /\ ~run'[t].heap,
             pc[t] # "out" => run'[t].heap = run[t].heap
      PROVE  LockInv'
  <2>1. ASSUME NEW u \in Processes, pc'[u] # "out" PROVE owner'[PF_USER] = u
    <3>1. pc[u] # "out"
      BY <1>T, <1>O, <1>3, <2>1, PagePoolAssumption, Zenon
    <3> QED BY <1>3, <3>1, Zenon DEF LockInv
  <2>2. ASSUME NEW u \in KernelThreads, pc'[u] # "out", run'[u].heap PROVE owner'[PF_KERNEL] = u
    <3>1. pc[u] # "out" /\ run[u].heap
      BY <1>T, <1>O, <1>3, <2>2, Zenon
    <3> QED BY <1>3, <3>1, Zenon DEF LockInv
  <2>3. ASSUME NEW u \in Threads, NEW pf \in pool_flags, owner'[pf] = u
        PROVE  pc'[u] # "out" /\ pf = Pool(u)
    BY <1>O, <1>3, <2>3, Zenon DEF LockInv
  <2> QED BY <1>3, <2>1, <2>2, <2>3, Zenon DEF LockInv
<1>4. ASSUME NEW cnt \in 1..MaxPages, Malloc(t, cnt) PROVE LockInv'
  BY <1>0, <1>T, <1>1, <1>4, Zenon DEF Malloc
<1>5. ASSUME NEW cnt \in 1..MaxPages, GetKernelPages(t, cnt) PROVE LockInv'
  BY <1>0, <1>T, <1>3, <1>5, Zenon DEF GetKernelPages
<1>6. ASSUME NEW r \in has[t], Free(t, r) PROVE LockInv'
  <2>1. t \in KernelThreads
    BY <1>6, Zenon DEF Free, RunInv, RunOf, Threads
  <2> QED BY <1>0, <1>T, <1>1, <1>6, <2>1, Zenon DEF Free
<1>7. ASSUME GetAPage(t) PROVE LockInv'
  BY <1>0, <1>T, <1>1, <1>7, Zenon DEF GetAPage
<1>8. ASSUME VaddrScan(t) PROVE LockInv'
  <2> DEFINE ok == PgCntAsserts(run[t].cnt) /\ ~SpaceFull(mem, SpaceOf(t))
             v == FreeRun(mem, SpaceOf(t), run[t].cnt)
  <2>1. CASE ~ok
    BY <1>3, <1>8, <2>1, Zenon DEF VaddrScan
  <2>2. CASE ok /\ v = -1
    BY <1>2, <1>8, <2>2, Zenon DEF VaddrScan
  <2>3. CASE ok /\ v # -1
    <3>1. /\ pc[t] = "vaddr_scan" /\ pc'[t] = "vaddr_set" /\ UNCHANGED <<owner, nesting>>
          /\ run' = [run EXCEPT ![t].first = v]
      BY <1>0, <1>8, <2>3, Zenon DEF VaddrScan
    <3> HIDE DEF v
    <3>2. run'[t].heap = run[t].heap
      BY <1>0, <3>1, Zenon DEF Runs
    <3> QED BY <1>3, <3>1, <3>2, Zenon
  <2> QED BY <2>1, <2>2, <2>3, Zenon
<1>9. ASSUME Loading(t) PROVE LockInv'
  <2>1. UNCHANGED <<owner, nesting, run>> /\ pc[t] # "out" /\ pc'[t] # "out"
    BY <1>9, LoadFacts, Zenon
  <2> QED BY <1>3, <2>1, Zenon
<1>10. ASSUME NEW pf, NEW label, NEW next, label # "out", next # "out", Scan(t, pf, label, next)
       PROVE  LockInv'
  <2>1. UNCHANGED <<owner, nesting, run>> /\ pc[t] # "out" /\ pc'[t] # "out"
    BY <1>0, <1>10, Zenon DEF Scan
  <2> QED BY <1>3, <2>1, Zenon
<1>11. ASSUME Pte(t) \/ TablePde(t) PROVE LockInv'
  <2>1. UNCHANGED <<owner, nesting, run>> /\ pc[t] # "out" /\ pc'[t] # "out"
    BY <1>0, <1>11, Zenon DEF Pte, TablePde, Mapped
  <2> QED BY <1>3, <2>1, Zenon
<1>12. ASSUME Return(t) PROVE LockInv'
  BY <1>2, <1>12, Zenon DEF Return
<1>13. ASSUME VaddrStore(t) \/ PallocStore(t) \/ TableStore(t) \/ PfreeStore(t) \/ Unmap(t)
       PROVE  LockInv'
  <2>1. UNCHANGED <<owner, nesting, run>> /\ pc[t] # "out" /\ pc'[t] # "out"
    BY <1>0, <1>13, Zenon DEF VaddrStore, PallocStore, TableStore, PfreeStore, Unmap
  <2> QED BY <1>3, <2>1, Zenon
<1>14. ASSUME VaddrClearStore(t) PROVE LockInv'
  <2>1. CASE done[t] + 1 # run[t].cnt
    <3>1. UNCHANGED <<owner, nesting, run>> /\ pc[t] # "out" /\ pc'[t] # "out"
      BY <1>0, <1>14, <2>1, Zenon DEF VaddrClearStore
    <3> QED BY <1>3, <3>1, Zenon
  <2>2. CASE done[t] + 1 = run[t].cnt
    BY <1>2, <1>14, <2>2, Zenon DEF VaddrClearStore
  <2> QED BY <2>1, <2>2, Zenon
<1> QED BY <1>4, <1>5, <1>6, <1>7, <1>8, <1>9, <1>10, <1>11, <1>12, <1>13, <1>14, Zenon
    DEF Step, PallocScan, TableScan, Loading

-----------------------------------------------------------------------------
(* The frames of the user pool.                                            *)

\* What a step may do to the pool of user frames and to the page tables of processes
\* while no call of a process takes part.
UserMemoryKept ==
  /\ mem'.pool[PF_USER] = mem.pool[PF_USER]
  /\ \A p \in Processes : \A v \in 0..UserPages : mem'.pte[p][v] = mem.pte[p][v]

\* The pool of user frames is used by one process at a time: the calls of the other
\* threads keep what they know of it.
LEMMA OthersAllocate ==
  ASSUME TypeOK, LockInv, UserInv, NEW t \in Threads, Step(t), TypeOK',
         UserMemoryKept \/ (t \in Processes /\ pc[t] # "out"),
         NEW u \in Threads, u # t
  PROVE  Allocating(u)'
<1>1. pc'[u] = pc[u] /\ found'[u] = found[u] /\ page'[u] = page[u] /\ bits'[u] = bits[u]
  BY OthersKeep, Zenon
<1>2. Allocating(u)
  BY Zenon DEF UserInv
<1>3. found[u] \in Frames /\ page[u] \in Frames /\ Pages \in Nat
  BY PagingAssumption, Zenon DEF TypeOK
<1>4. found[u][2] \in 0..Pages /\ page[u][2] \in 0..Pages
  BY <1>3 DEF Frames
<1>5. CASE UserMemoryKept
  BY <1>1, <1>2, <1>4, <1>5 DEF Allocating, UserMemoryKept
<1>6. CASE u \in Processes /\ t \in Processes /\ pc[t] # "out"
  <2>1. owner[PF_USER] = t
    BY <1>6, Zenon DEF LockInv
  <2>2. pc[u] = "out"
    BY <1>6, <2>1, Zenon DEF LockInv
  <2> QED BY <1>1, <2>2, Zenon DEF Allocating
<1>7. CASE u \notin Processes
  BY <1>1, <1>2, <1>7, Zenon DEF Allocating
<1> QED BY <1>5, <1>6, <1>7, Zenon

\* A step that leaves the pool of user frames and all entries alone.
LEMMA MappedKept ==
  ASSUME UserInv, UserMemoryKept,
         \A v \in 0..Pages : mem'.pte[Kernel][v] \in {mem.pte[Kernel][v], NULL},
         \A p \in Processes : \A i \in Tables : mem'.pde[p][i] = mem.pde[p][i],
         TypeOK
  PROVE  UserMapped'
<1>1. \A p \in Processes : \A v \in 0..UserPages : mem.pte[p][v] # NULL => mem.pte[p][v][2] \in 0..Pages
  <2> TAKE p \in Processes
  <2> TAKE v \in 0..UserPages
  <2>1. p \in Spaces /\ VPages(p) = UserPages /\ Pages \in Nat
    BY PagingAssumption, Zenon DEF Spaces, VPages
  <2>2. mem.pte[p][v] \in Frames \union {NULL}
    BY <2>1, EntryFacts, Zenon
  <2> QED BY <2>1, <2>2 DEF Frames
<1>2. \A v \in 0..Pages : mem'.pte[Kernel][v] # NULL => mem'.pte[Kernel][v][1] = PF_KERNEL
  BY Zenon DEF UserInv, UserMapped
<1>3. \A p \in Processes : \A i \in Tables : mem'.pde[p][i] # NULL => mem'.pde[p][i][1] = PF_KERNEL
  <2> TAKE p \in Processes
  <2> TAKE i \in Tables
  <2>1. mem'.pde[p][i] = mem.pde[p][i]
    BY Zenon
  <2>2. mem.pde[p][i] # NULL => mem.pde[p][i][1] = PF_KERNEL
    BY DEF UserInv, UserMapped
  <2> QED BY <2>1, <2>2, Zenon
<1>4. ASSUME NEW p \in Processes, NEW v \in 0..UserPages, mem'.pte[p][v] # NULL
      PROVE  /\ mem'.pte[p][v][1] = PF_USER
             /\ mem'.pool[PF_USER][mem'.pte[p][v][2]]
             /\ \A q \in Processes : \A w \in 0..UserPages :
                  mem'.pte[q][w] = mem'.pte[p][v] => q = p /\ w = v
  <2>1. /\ mem'.pte[p][v] = mem.pte[p][v] /\ mem.pte[p][v] # NULL
        /\ \A q \in Processes : \A w \in 0..UserPages : mem'.pte[q][w] = mem.pte[q][w]
    BY <1>4, Zenon DEF UserMemoryKept
  <2>2. mem'.pool[PF_USER][mem.pte[p][v][2]] = mem.pool[PF_USER][mem.pte[p][v][2]]
    BY <1>1, <2>1, Zenon DEF UserMemoryKept
  <2>3. /\ mem.pte[p][v][1] = PF_USER
        /\ mem.pool[PF_USER][mem.pte[p][v][2]]
        /\ \A q \in Processes : \A w \in 0..UserPages :
             mem.pte[q][w] = mem.pte[p][v] => q = p /\ w = v
    BY <2>1, Zenon DEF UserInv, UserMapped
  <2> QED BY <2>1, <2>2, <2>3, ZenonT(60)
<1> QED BY <1>2, <1>3, <1>4, Zenon DEF UserMapped

\* Every step keeps the frames of processes apart.
LEMMA UserStep ==
  ASSUME TypeOK, RunInv, LockInv, UserInv, NEW t \in Threads, Step(t), TypeOK', RunInv'
  PROVE  UserInv'
<1> USE DEF Goto, Begin, At, locks, call
<1>0. /\ mem \in Memory /\ pc \in [Threads -> KernelLabels \union ProcessLabels]
      /\ found \in [Threads -> Frames] /\ page \in [Threads -> Frames]
  BY Zenon DEF TypeOK
<1>T. /\ SpaceOf(t) \in Spaces /\ Pool(t) \in pool_flags /\ Kernel \in Spaces
      /\ PF_KERNEL \in pool_flags /\ PF_USER \in pool_flags /\ PF_KERNEL # PF_USER
      /\ \A p \in Processes : p \in Spaces /\ p # Kernel /\ VPages(p) = UserPages
      /\ VPages(Kernel) = Pages
      /\ t \in Processes => SpaceOf(t) = t /\ Pool(t) = PF_USER
      /\ t \notin Processes => SpaceOf(t) = Kernel /\ Pool(t) = PF_KERNEL
  BY ThreadFacts, PagingAssumption, Zenon DEF Spaces, VPages, pool_flags, PF_KERNEL, PF_USER
<1>F. \A f \in Frames : f[1] \in pool_flags /\ f[2] \in 0..Pages /\ f # NULL
  BY PagingAssumption, NullAssumption DEF Frames
<1>I. UserMapped /\ Allocating(t)
  BY Zenon DEF UserInv
<1>P. ASSUME NEW p \in Processes, NEW v \in 0..UserPages
      PROVE  mem.pte[p][v] \in Frames \union {NULL}
  BY <1>T, EntryFacts, Zenon
<1>1. ASSUME mem'.pool = mem.pool, mem'.pte = mem.pte, mem'.pde = mem.pde,
             Allocating(t)'
      PROVE  UserInv'
  <2>1. UserMemoryKept
    BY <1>1, Zenon DEF UserMemoryKept
  <2>2. UserMapped'
    BY <1>1, <2>1, MappedKept, Zenon
  <2>3. \A u \in Threads : Allocating(u)'
    BY <1>1, <2>1, OthersAllocate, Zenon
  <2> QED BY <2>2, <2>3, Zenon DEF UserInv
<1>2. ASSUME pc'[t] \notin {"palloc_set", "palloc_store", "pte", "table_scan", "table_set",
                           "table_store", "table_pde", "pfree_store"}
      PROVE  Allocating(t)'
  BY <1>2, Zenon DEF Allocating
<1>3. ASSUME NEW cnt \in 1..MaxPages, Malloc(t, cnt) \/ GetKernelPages(t, cnt) PROVE UserInv'
  <2>1. UNCHANGED mem /\ pc'[t] = "vaddr_scan"
    BY <1>0, <1>3, Zenon DEF Malloc, GetKernelPages
  <2> QED BY <1>1, <1>2, <2>1, Zenon
<1>4. ASSUME NEW r \in has[t], Free(t, r) PROVE UserInv'
  <2>1. UNCHANGED mem /\ pc'[t] = "pfree"
    BY <1>0, <1>4, Zenon DEF Free
  <2> QED BY <1>1, <1>2, <2>1, Zenon
<1>5. ASSUME GetAPage(t) PROVE UserInv'
  <2>1. /\ mem' = MarkRun(mem, t, (UserPages - 1)..(UserPages - 1 + 1 - 1)) /\ t \in Spaces
        /\ pc'[t] = "palloc_scan"
    BY <1>0, <1>5, Zenon DEF GetAPage, vaddr_get, SetRun, StoreRun, MarkRun, Spaces
  <2>2. mem'.pool = mem.pool /\ mem'.pte = mem.pte /\ mem'.pde = mem.pde
    BY <1>0, <2>1, MarkFacts
  <2> QED BY <1>1, <1>2, <2>1, <2>2, Zenon
<1>6. ASSUME VaddrScan(t) PROVE UserInv'
  <2>1. mem' = mem \/ \E why \in {"full", "limit", "assert"} : mem' = Fault(mem, why)
    BY <1>6, Zenon DEF VaddrScan
  <2>2. mem'.pool = mem.pool /\ mem'.pte = mem.pte /\ mem'.pde = mem.pde
    BY <1>0, <2>1, FaultFacts
  <2>3. pc'[t] \in {"vaddr_scan", "vaddr_set", "out"}
    BY <1>0, <1>6, Zenon DEF VaddrScan, Leave
  <2> QED BY <1>1, <1>2, <2>2, <2>3, Zenon
<1>7. ASSUME NEW value \in BOOLEAN, mem' = StorePage(t, value),
             pc[t] \in {"vaddr_store", "vaddr_clear_store"},
             pc'[t] \in {"palloc_scan", "vaddr_set", "vaddr_clear", "out"}
      PROVE  UserInv'
  <2>1. Vpage(t) \in 0..Pages
    BY <1>7, <1>T, VpageFacts, Zenon DEF RunInv, RunOf, ProcessLabels
  <2>2. mem'.pool = mem.pool /\ mem'.pte = mem.pte /\ mem'.pde = mem.pde
    BY <1>7, <2>1, StorePageFacts
  <2> QED BY <1>1, <1>2, <1>7, <2>2, Zenon
<1>8. ASSUME NEW pf \in pool_flags, NEW label, NEW next, Scan(t, pf, label, next),
             \/ label = "palloc_scan" /\ next = "palloc_set" /\ pf = Pool(t)
             \/ label = "table_scan" /\ next = "table_set" /\ pf = PF_KERNEL
      PROVE  UserInv'
  <2>1. CASE PoolFull(mem, pf)
    <3>1. /\ mem' = Fault(mem, "full") /\ pc'[t] = pc[t] /\ found'[t] = found[t]
          /\ page'[t] = page[t] /\ bits'[t] = bits[t]
      BY <1>8, <2>1, Zenon DEF Scan
    <3>2. mem'.pool = mem.pool /\ mem'.pte = mem.pte /\ mem'.pde = mem.pde
      BY <1>0, <3>1, FaultFacts, Zenon
    <3>3. Allocating(t)'
      BY <1>I, <3>1, <3>2, Zenon DEF Allocating
    <3> QED BY <1>1, <3>2, <3>3, Zenon
  <2>2. CASE ~PoolFull(mem, pf)
    <3>1. /\ mem' = mem /\ pc[t] = label /\ pc'[t] = next
          /\ found'[t] = FreeFrame(mem, pf) /\ page'[t] = page[t]
      BY <1>0, <1>8, <2>2, Zenon DEF Scan
    <3>2. found'[t][1] = pf /\ ~mem.pool[pf][found'[t][2]]
      BY <1>0, <2>2, <3>1, FreeFrameFacts, Zenon
    <3>3. Allocating(t)'
      BY <1>I, <1>T, <1>8, <3>1, <3>2, Zenon DEF Allocating
    <3> QED BY <1>1, <3>1, <3>3, Zenon
  <2> QED BY <2>1, <2>2, Zenon
<1>9. ASSUME PallocStore(t) PROVE UserInv'
  <2> DEFINE f == found[t]
  <2>0. f \in Frames /\ f[1] = Pool(t) /\ (t \in Processes => bits[t] = mem.pool[PF_USER])
    BY <1>0, <1>I, <1>9, Zenon DEF PallocStore, Allocating
  <2>1. /\ mem' = StoreFrame(t, TRUE) /\ pc[t] = "palloc_store" /\ pc'[t] = "pte" /\ page'[t] = f
    BY <1>0, <1>9, Zenon DEF PallocStore
  <2>2. /\ mem'.pte = mem.pte /\ mem'.pde = mem.pde
        /\ mem'.pool[f[1]][f[2]]
        /\ \A pf \in pool_flags : pf # f[1] => mem'.pool[pf] = mem.pool[pf]
        /\ bits[t] = mem.pool[f[1]] =>
             \A i \in 0..Pages : i # f[2] => mem'.pool[f[1]][i] = mem.pool[f[1]][i]
    BY <2>1, TakeFrameStep, ZenonT(60)
  <2> HIDE DEF f
  <2>3. CASE t \in Processes
    <3>1. f[1] = PF_USER /\ ~mem.pool[PF_USER][f[2]]
      BY <1>I, <1>T, <2>0, <2>1, <2>3, Zenon DEF Allocating, f
    <3>2. \A q \in Processes : \A w \in 0..UserPages : mem.pte[q][w] # f
      <4>1. ASSUME NEW q \in Processes, NEW w \in 0..UserPages, mem.pte[q][w] = f PROVE FALSE
        <5>1. mem.pte[q][w] # NULL
          BY <1>F, <2>0, <4>1, Zenon
        <5>2. mem.pool[PF_USER][mem.pte[q][w][2]]
          BY <1>I, <5>1, Zenon DEF UserMapped
        <5> QED BY <3>1, <4>1, <5>2, Zenon
      <4> QED BY <4>1, Zenon
    <3>3. Allocating(t)'
      <4>1. page'[t][1] = Pool(t) /\ mem'.pool[PF_USER][page'[t][2]]
        BY <2>0, <2>1, <2>2, <3>1, Zenon
      <4>2. \A q \in Processes : \A w \in 0..UserPages : mem'.pte[q][w] # page'[t]
        BY <2>1, <2>2, <3>2, ZenonT(60)
      <4> QED BY <2>1, <4>1, <4>2, Zenon DEF Allocating
    <3>4. UserMapped'
      <4>1. ASSUME NEW p \in Processes, NEW v \in 0..UserPages, mem.pte[p][v] # NULL
            PROVE  mem'.pool[PF_USER][mem.pte[p][v][2]]
        <5>1. mem.pte[p][v] \in Frames /\ mem.pool[PF_USER][mem.pte[p][v][2]]
          BY <1>I, <1>P, <4>1, Zenon DEF UserMapped
        <5>2. mem.pte[p][v][2] \in 0..Pages
          BY <1>F, <5>1, Zenon
        <5>3. f[1] = PF_USER /\ bits[t] = mem.pool[PF_USER]
          BY <2>0, <2>3, <3>1, Zenon
        <5> QED BY <2>2, <5>1, <5>2, <5>3, Zenon
      <4> QED BY <1>I, <2>2, <4>1 DEF UserMapped
    <3>5. \A u \in Threads : u # t => Allocating(u)'
      BY <2>1, <2>3, OthersAllocate, Zenon
    <3> QED BY <3>3, <3>4, <3>5, Zenon DEF UserInv
  <2>4. CASE t \notin Processes
    <3>1. UserMemoryKept
      BY <1>T, <2>0, <2>2, <2>4, Zenon DEF UserMemoryKept
    <3>2. Allocating(t)'
      BY <2>0, <2>1, <2>4, Zenon DEF Allocating
    <3>3. UserMapped'
      BY <2>2, <3>1, MappedKept, Zenon
    <3>4. \A u \in Threads : u # t => Allocating(u)'
      BY <3>1, OthersAllocate, Zenon
    <3> QED BY <3>2, <3>3, <3>4, Zenon DEF UserInv
  <2> QED BY <2>3, <2>4, Zenon
<1>10. ASSUME NEW m \in Memory, Mapped(t, m), pc[t] \in {"pte", "table_pde"},
              m.pool = mem.pool, m.pte = mem.pte,
              \A p \in Processes : \A i \in Tables : m.pde[p][i] # NULL => m.pde[p][i][1] = PF_KERNEL
       PROVE  UserInv'
  <2> DEFINE v == Vpage(t)
             f == page[t]
  <2>0. /\ v \in 0..VPages(SpaceOf(t)) /\ f \in Frames
        /\ mem' = SetPte(m, SpaceOf(t), v, f) /\ pc'[t] \in {"return", "palloc_scan"}
    BY <1>0, <1>10, VpageFacts, Zenon DEF Mapped
  <2>1. /\ mem'.pool = mem.pool /\ mem'.pde = m.pde
        /\ \A x \in Spaces : \A w \in 0..VPages(x) :
             \/ mem'.pte[x][w] = mem.pte[x][w]
             \/ x = SpaceOf(t) /\ w = v /\ mem'.pte[x][w] = f
    BY <1>T, <1>10, <2>0, SetPteFacts
  <2>2. f[1] = Pool(t)
    BY <1>I, <1>10, Zenon DEF Allocating
  <2>3. Allocating(t)'
    BY <1>2, <2>0, Zenon
  <2>4. \A p \in Processes : \A i \in Tables : mem'.pde[p][i] # NULL => mem'.pde[p][i][1] = PF_KERNEL
    BY <1>10, <2>1, Zenon
  <2>5. CASE t \in Processes
    <3>1. /\ mem.pool[PF_USER][f[2]] /\ f[1] = PF_USER
          /\ \A q \in Processes : \A w \in 0..UserPages : mem.pte[q][w] # f
      BY <1>I, <1>T, <1>10, <2>2, <2>5, Zenon DEF Allocating
    <3>2. /\ \A w \in 0..Pages : mem'.pte[Kernel][w] = mem.pte[Kernel][w]
          /\ \A p \in Processes : \A w \in 0..UserPages :
               \/ mem'.pte[p][w] = mem.pte[p][w]
               \/ p = t /\ w = v /\ mem'.pte[p][w] = f
      BY <1>T, <2>1, <2>5, Zenon
    <3> HIDE DEF f, v
    <3>3. ASSUME NEW p \in Processes, NEW w \in 0..UserPages, mem'.pte[p][w] # NULL
          PROVE  /\ mem'.pte[p][w][1] = PF_USER
                 /\ mem'.pool[PF_USER][mem'.pte[p][w][2]]
                 /\ \A q \in Processes : \A x \in 0..UserPages :
                      mem'.pte[q][x] = mem'.pte[p][w] => q = p /\ x = w
      <4>1. CASE mem'.pte[p][w] = f
        <5>1. p = t /\ w = v
          BY <3>1, <3>2, <4>1, ZenonT(60)
        <5>2. ASSUME NEW q \in Processes, NEW x \in 0..UserPages, mem'.pte[q][x] = f
              PROVE  q = t /\ x = v
          BY <3>1, <3>2, <5>2, ZenonT(60)
        <5> QED BY <2>1, <3>1, <4>1, <5>1, <5>2, Zenon
      <4>2. CASE mem'.pte[p][w] # f
        <5>1. mem'.pte[p][w] = mem.pte[p][w] /\ mem.pte[p][w] # NULL
          BY <3>2, <3>3, <4>2, Zenon
        <5>2. /\ mem.pte[p][w][1] = PF_USER
              /\ mem.pool[PF_USER][mem.pte[p][w][2]]
              /\ \A q \in Processes : \A x \in 0..UserPages :
                   mem.pte[q][x] = mem.pte[p][w] => q = p /\ x = w
          BY <1>I, <5>1, Zenon DEF UserMapped
        <5>3. ASSUME NEW q \in Processes, NEW x \in 0..UserPages,
                     mem'.pte[q][x] = mem'.pte[p][w]
              PROVE  q = p /\ x = w
          BY <3>2, <4>2, <5>1, <5>2, <5>3, ZenonT(60)
        <5> QED BY <2>1, <5>1, <5>2, <5>3, Zenon
      <4> QED BY <4>1, <4>2, Zenon
    <3>4. UserMapped'
      BY <1>I, <2>4, <3>2, <3>3 DEF UserMapped
    <3>5. \A u \in Threads : u # t => Allocating(u)'
      BY <1>10, <2>5, OthersAllocate, Zenon
    <3> QED BY <2>3, <3>4, <3>5, Zenon DEF UserInv
  <2>6. CASE t \notin Processes
    <3>1. /\ \A w \in 0..Pages : mem'.pte[Kernel][w] \in {mem.pte[Kernel][w], f}
          /\ \A p \in Processes : \A w \in 0..UserPages : mem'.pte[p][w] = mem.pte[p][w]
      BY <1>T, <2>1, <2>6, Zenon
    <3>2. f[1] = PF_KERNEL
      BY <1>T, <2>2, <2>6, Zenon
    <3> HIDE DEF f
    <3>3. UserMapped'
      BY <1>I, <2>1, <2>4, <3>1, <3>2 DEF UserMapped
    <3>4. UserMemoryKept
      BY <2>1, <3>1, Zenon DEF UserMemoryKept
    <3>5. \A u \in Threads : u # t => Allocating(u)'
      BY <3>4, OthersAllocate, Zenon
    <3> QED BY <2>3, <3>3, <3>5, Zenon DEF UserInv
  <2> QED BY <2>5, <2>6, Zenon
<1>11. ASSUME Pte(t) PROVE UserInv'
  <2>1. CASE HasTable(mem, SpaceOf(t), Vpage(t))
    <3>1. Mapped(t, mem) /\ pc[t] = "pte"
      BY <1>11, <2>1, Zenon DEF Pte
    <3> QED BY <1>0, <1>I, <1>10, <3>1, Zenon DEF UserMapped
  <2>2. CASE ~HasTable(mem, SpaceOf(t), Vpage(t))
    <3>1. mem' = mem /\ pc[t] = "pte" /\ pc'[t] = "table_scan" /\ page' = page
      BY <1>0, <1>11, <2>2, Zenon DEF Pte
    <3>2. Allocating(t)'
      BY <1>I, <3>1, Zenon DEF Allocating
    <3> QED BY <1>1, <3>1, <3>2, Zenon
  <2> QED BY <2>1, <2>2, Zenon
<1>12. ASSUME TableStore(t) \/ PfreeStore(t) PROVE UserInv'
  <2>0. /\ found[t][1] = PF_KERNEL /\ page' = page /\ found' = found
        /\ \/ pc[t] = "table_store" /\ pc'[t] = "table_pde"
           \/ pc[t] = "pfree_store" /\ pc'[t] = "unmap"
        /\ \E value \in BOOLEAN : mem' = StoreFrame(t, value)
    BY <1>0, <1>I, <1>12, Zenon DEF TableStore, PfreeStore, Allocating
  <2>1. /\ mem'.pte = mem.pte /\ mem'.pde = mem.pde
        /\ \A pf \in pool_flags : pf # PF_KERNEL => mem'.pool[pf] = mem.pool[pf]
    BY <2>0, StoreFrameFacts
  <2>2. UserMemoryKept
    BY <1>T, <2>1, Zenon DEF UserMemoryKept
  <2>3. Allocating(t)'
    BY <1>I, <2>0, <2>1, <2>2 DEF Allocating, UserMemoryKept
  <2>4. UserMapped'
    BY <2>1, <2>2, MappedKept, Zenon
  <2>5. \A u \in Threads : u # t => Allocating(u)'
    BY <2>2, OthersAllocate, Zenon
  <2> QED BY <2>3, <2>4, <2>5, Zenon DEF UserInv
<1>13. ASSUME TablePde(t) PROVE UserInv'
  <2> DEFINE m == StorePde(mem, SpaceOf(t), Vpage(t) \div TablePages, found[t])
  <2>0. t \in Processes /\ SpaceOf(t) = t /\ found[t] \in Frames /\ found[t][1] = PF_KERNEL
    BY <1>0, <1>I, <1>13, ThreadFacts, Zenon DEF TablePde, RunInv, RunOf, KernelLabels, Allocating
  <2>1. Vpage(t) \div TablePages \in Tables
    BY <1>13, <2>0, TableIndex, VpageFacts, ThreadFacts, Zenon DEF TablePde
  <2>2. /\ m \in Memory /\ m.pool = mem.pool /\ m.pte = mem.pte
        /\ \A q \in Processes : \A i \in Tables : m.pde[q][i] \in {mem.pde[q][i], found[t]}
    <3> HIDE DEF m
    <3>1. m = StorePde(mem, t, Vpage(t) \div TablePages, found[t])
      BY <2>0, Zenon DEF m
    <3>2. PICK j \in Tables, f \in Frames : j = Vpage(t) \div TablePages /\ f = found[t]
      BY <2>0, <2>1, Zenon
    <3>3. m = StorePde(mem, t, j, f) /\ mem \in Memory /\ t \in Processes
      BY <1>0, <2>0, <3>1, <3>2, Zenon
    <3>4. /\ m \in Memory /\ m.pool = mem.pool /\ m.pte = mem.pte
          /\ \A q \in Processes : \A i \in Tables : m.pde[q][i] \in {mem.pde[q][i], f}
      <4>1. /\ m \in Memory /\ m.pool = mem.pool /\ m.pte = mem.pte /\ m.pde[t][j] = f
            /\ \A q \in Processes : \A i \in Tables :
                 (q # t \/ i # j) => m.pde[q][i] = mem.pde[q][i]
        BY <3>3, PdeFacts
      <4> QED BY <4>1, ZenonT(60)
    <3> QED BY <3>2, <3>4, Zenon
  <2>3. Mapped(t, m) /\ pc[t] = "table_pde"
    BY <1>13, Zenon DEF TablePde, StorePde
  <2> HIDE DEF m
  <2>4. \A p \in Processes : \A i \in Tables : m.pde[p][i] # NULL => m.pde[p][i][1] = PF_KERNEL
    BY <1>I, <2>0, <2>2 DEF UserMapped
  <2> QED BY <1>10, <2>2, <2>3, <2>4, Zenon
<1>14. ASSUME Return(t) PROVE UserInv'
  <2>1. UNCHANGED mem /\ pc'[t] = "out"
    BY <1>0, <1>14, Zenon DEF Return, Leave
  <2> QED BY <1>1, <1>2, <2>1, Zenon
<1>15. ASSUME Loading(t) PROVE UserInv'
  <2>1. /\ mem' = mem /\ page' = page
        /\ \/ pc[t] = "vaddr_set" /\ pc'[t] = "vaddr_store"
           \/ /\ pc[t] = "palloc_set" /\ pc'[t] = "palloc_store"
              /\ found' = found /\ bits'[t] = mem.pool[Pool(t)]
           \/ pc[t] = "table_set" /\ pc'[t] = "table_store" /\ found' = found
           \/ pc[t] = "pfree" /\ pc'[t] = "pfree_store" /\ found'[t][1] = PF_KERNEL
           \/ pc[t] = "vaddr_clear" /\ pc'[t] = "vaddr_clear_store"
    BY <1>15, LoadFacts, ZenonT(60)
  <2>2. Allocating(t)'
    BY <1>I, <1>T, <2>1 DEF Allocating
  <2> QED BY <1>1, <2>1, <2>2, Zenon
<1>16. ASSUME Unmap(t) PROVE UserInv'
  <2> DEFINE m == StorePte(mem, Kernel, Vpage(t), NULL)
  <2>0. /\ Vpage(t) \in 0..VPages(Kernel) /\ pc'[t] \in {"pfree", "vaddr_clear"} /\ mem' = m
    BY <1>0, <1>16, ThreadFacts, VpageFacts, ZenonT(60)
    DEF Unmap, RunInv, RunOf, ProcessLabels, page_table_pte_remove, StorePte
  <2>1. /\ m \in Memory /\ m.pool = mem.pool /\ m.pde = mem.pde
        /\ m.pte[Kernel][Vpage(t)] = NULL
        /\ \A x \in Spaces : \A w \in 0..VPages(x) :
             (x # Kernel \/ w # Vpage(t)) => m.pte[x][w] = mem.pte[x][w]
    <3>1. NULL \in Entries
      BY Zenon DEF Entries
    <3> QED BY <1>0, <1>T, <2>0, <3>1, PteFacts
  <2> HIDE DEF m
  <2>3. mem'.pool = mem.pool /\ mem'.pde = mem.pde /\ mem'.pte = m.pte
    BY <2>0, <2>1, Zenon
  <2>4. /\ UserMemoryKept
        /\ \A v \in 0..Pages : mem'.pte[Kernel][v] \in {mem.pte[Kernel][v], NULL}
    BY <1>T, <2>0, <2>1, <2>3 DEF UserMemoryKept
  <2>5. Allocating(t)' /\ UserMapped' /\ \A u \in Threads : u # t => Allocating(u)'
    BY <1>2, <2>0, <2>3, <2>4, MappedKept, OthersAllocate, Zenon
  <2> QED BY <2>5, Zenon DEF UserInv
<1>17. ASSUME VaddrStore(t) \/ VaddrClearStore(t) PROVE UserInv'
  <2>1. /\ \E value \in BOOLEAN : mem' = StorePage(t, value)
        /\ pc[t] \in {"vaddr_store", "vaddr_clear_store"}
        /\ pc'[t] \in {"palloc_scan", "vaddr_set", "vaddr_clear", "out"}
    BY <1>0, <1>17, Zenon DEF VaddrStore, VaddrClearStore, Leave
  <2> QED BY <1>7, <2>1, Zenon
<1> QED BY <1>T, <1>3, <1>4, <1>5, <1>6, <1>8, <1>9, <1>11, <1>12, <1>13, <1>14, <1>15, <1>16, <1>17,
         Zenon DEF Step, PallocScan, TableScan, Loading

-----------------------------------------------------------------------------
(* The kernel's pool and heap, where all take the lock.                    *)

\* The page after the one a call is at.
LEMMA NextPage ==
  ASSUME NEW first \in Nat, NEW n \in Nat
  PROVE  first + (n + 1) = first + n + 1
  OBVIOUS

\* What RunsInv and FramesInv say if t is the only thread that may be in a call.
RunsSolo(t) ==
  /\ RunsApart
  /\ \A v \in FoundOf(t) : ~Held(v)
  /\ \A v \in 0..Pages : Taken(v) <=> Held(v) \/ v \in MarkedOf(t)

FramesSolo(t) ==
  /\ \A v \in 0..Pages : FrameOf(v) # NULL <=> Held(v) \/ v \in MappedOf(t)
  /\ \A v, w \in 0..Pages : FrameOf(v) # NULL /\ FrameOf(v) = FrameOf(w) => v = w
  /\ \A f \in KernelFrames :
       InPool(f) <=> (\E v \in 0..Pages : FrameOf(v) = f /\ ~Freed(t, v)) \/ Mapping(t, f)
  /\ pc[t] \in {"palloc_set", "palloc_store"} => ~InPool(found[t])
  /\ pc[t] = "pfree_store" => found[t] = FrameOf(Vpage(t))
  /\ \A v \in 0..Pages : ~Mapping(t, FrameOf(v))

\* What LoadedInv says of t.
LoadedSolo(t) ==
  /\ pc[t] \in {"palloc_store", "pfree_store"} => bits[t] = mem.pool[PF_KERNEL]
  /\ pc[t] \in {"vaddr_store", "vaddr_clear_store"} => bits[t] = mem.vaddr[Kernel]

\* Before a step of t, RunsInv and FramesInv are about t.
LEMMA SoloBefore ==
  ASSUME NEW t \in KernelThreads, \A u \in KernelThreads : u # t => pc[u] = "out",
         RunsInv, FramesInv, LoadedInv
  PROVE  RunsSolo(t) /\ FramesSolo(t) /\ LoadedSolo(t)
<1>1. \A u \in KernelThreads : u # t => /\ MarkedOf(u) = {} /\ MappedOf(u) = {}
                                        /\ \A v : ~Freed(u, v) /\ ~Mapping(u, v)
  BY Zenon DEF MarkedOf, FoundOf, MappedOf, Freed, Mapping
<1>2. RunsSolo(t)
  BY <1>1, Zenon DEF RunsInv, RunsSolo
<1>3. FramesSolo(t)
  <2>1. \A v \in 0..Pages : FrameOf(v) # NULL <=> Held(v) \/ v \in MappedOf(t)
    BY <1>1, Zenon DEF FramesInv
  <2>2. \A f \in KernelFrames :
          InPool(f) <=> (\E v \in 0..Pages : FrameOf(v) = f /\ ~Freed(t, v)) \/ Mapping(t, f)
    <3> TAKE f \in KernelFrames
    <3>1. InPool(f) <=> \/ \E v \in 0..Pages : FrameOf(v) = f /\ \A u \in KernelThreads : ~Freed(u, v)
                        \/ \E u \in KernelThreads : Mapping(u, f)
      BY Zenon DEF FramesInv
    <3>2. (\E u \in KernelThreads : Mapping(u, f)) <=> Mapping(t, f)
      BY <1>1, Zenon
    <3>3. \A v : (\A u \in KernelThreads : ~Freed(u, v)) <=> ~Freed(t, v)
      BY <1>1, Zenon
    <3> QED BY <3>1, <3>2, <3>3, Zenon
  <2>3. /\ \A v, w \in 0..Pages : FrameOf(v) # NULL /\ FrameOf(v) = FrameOf(w) => v = w
        /\ pc[t] \in {"palloc_set", "palloc_store"} => ~InPool(found[t])
        /\ pc[t] = "pfree_store" => found[t] = FrameOf(Vpage(t))
        /\ \A v \in 0..Pages : ~Mapping(t, FrameOf(v))
    BY Zenon DEF FramesInv
  <2> QED BY <2>1, <2>2, <2>3, Zenon DEF FramesSolo
<1>4. LoadedSolo(t)
  BY Zenon DEF LoadedInv, LoadedSolo
<1> QED BY <1>2, <1>3, <1>4, Zenon

\* After the step it is enough to look at t.
LEMMA SoloAfter ==
  ASSUME NEW t \in KernelThreads, \A u \in KernelThreads : u # t => pc'[u] = "out",
         RunsSolo(t)', FramesSolo(t)', LoadedSolo(t)'
  PROVE  RunsInv' /\ FramesInv' /\ LoadedInv'
<1>1. \A u \in KernelThreads : u # t => /\ FoundOf(u)' = {} /\ MarkedOf(u)' = {} /\ MappedOf(u)' = {}
                                        /\ \A v : ~Freed(u, v)' /\ ~Mapping(u, v)'
                                        /\ pc'[u] \notin {"palloc_set", "palloc_store", "pfree_store"}
  BY Zenon DEF MarkedOf, FoundOf, MappedOf, Freed, Mapping
<1>2. RunsInv'
  BY <1>1, Zenon DEF RunsInv, RunsSolo
<1>3. FramesInv'
  BY <1>1 DEF FramesInv, FramesSolo
<1>4. LoadedInv'
  BY Zenon DEF LoadedInv, LoadedSolo
<1> QED BY <1>2, <1>3, <1>4, Zenon

\* The thread that holds the lock is the only one in a call.
LEMMA Alone ==
  ASSUME TypeOK, LockInv, QuietInv, NEW t \in KernelThreads,
         pc[t] # "out" \/ owner[PF_KERNEL] = NULL,
         NEW u \in KernelThreads, u # t
  PROVE  pc[u] = "out"
<1> SUFFICES ASSUME pc[u] # "out" PROVE FALSE
  BY Zenon
<1>1. owner[PF_KERNEL] = u
  BY Zenon DEF QuietInv, LockInv
<1>2. u # NULL
  BY PagePoolAssumption, Zenon DEF Threads
<1>3. pc[t] # "out"
  BY <1>1, <1>2, Zenon
<1>4. owner[PF_KERNEL] = t
  BY <1>3, Zenon DEF QuietInv, LockInv
<1> QED BY <1>1, <1>4, Zenon

\* The steps of such a call, and what they leave alone.
LEMMA LockedSteps ==
  ASSUME TypeOK, RunInv, LockInv, QuietInv, Locked, NEW t \in KernelThreads, Step(t)
  PROVE  /\ \/ \E cnt \in 1..MaxPages : Malloc(t, cnt)
            \/ \E r \in has[t] : Free(t, r)
            \/ Loading(t) \/ VaddrScan(t) \/ VaddrStore(t) \/ PallocScan(t) \/ PallocStore(t) \/ Pte(t)
            \/ Return(t) \/ PfreeStore(t) \/ Unmap(t) \/ VaddrClearStore(t)
         /\ SpaceOf(t) = Kernel /\ Pool(t) = PF_KERNEL /\ t \in Threads
         /\ \A u \in KernelThreads : u # t => pc[u] = "out" /\ pc'[u] = "out" /\ has'[u] = has[u]
<1>1. /\ SpaceOf(t) = Kernel /\ Pool(t) = PF_KERNEL /\ t \in Threads /\ t \notin Processes
      /\ KernelThreads \subseteq Threads /\ PF_KERNEL \in pool_flags
  BY PagePoolAssumption, ThreadFacts, Zenon DEF Threads, pool_flags
<1>2. pc[t] \in KernelLabels
  BY <1>1, Zenon DEF RunInv, RunOf
<1>3. ~\E cnt \in 1..MaxPages : GetKernelPages(t, cnt)
  BY Zenon DEF GetKernelPages, Locked
<1>4. ~(GetAPage(t) \/ TableScan(t) \/ TableStore(t) \/ TablePde(t))
  BY <1>1, <1>2, Zenon DEF GetAPage, TableScan, Scan, TableStore, TablePde, At, KernelLabels
<1>5. \/ \E cnt \in 1..MaxPages : Malloc(t, cnt)
      \/ \E r \in has[t] : Free(t, r)
      \/ Loading(t) \/ VaddrScan(t) \/ VaddrStore(t) \/ PallocScan(t) \/ PallocStore(t) \/ Pte(t)
      \/ Return(t) \/ PfreeStore(t) \/ Unmap(t) \/ VaddrClearStore(t)
  BY <1>3, <1>4, Zenon DEF Step, Loading
<1>6. pc[t] # "out" \/ owner[PF_KERNEL] = NULL
  <2>1. CASE \E cnt \in 1..MaxPages : Malloc(t, cnt)
    BY <1>1, <2>1, TakeFacts, Zenon DEF Malloc
  <2>2. CASE \E r \in has[t] : Free(t, r)
    BY <1>1, <2>2, TakeFacts, Zenon DEF Free
  <2>3. CASE \/ VaddrScan(t) \/ VaddrStore(t) \/ PallocScan(t) \/ PallocStore(t) \/ Pte(t)
             \/ Return(t) \/ PfreeStore(t) \/ Unmap(t) \/ VaddrClearStore(t)
    BY <2>3, Zenon DEF VaddrScan, VaddrStore, PallocScan, Scan, PallocStore, Pte, Return, PfreeStore,
                       Unmap, VaddrClearStore, At
  <2>4. CASE Loading(t)
    BY <2>4, Zenon DEF Loading, VaddrSet, PallocSet, TableSet, Pfree, VaddrClear, Load, At
  <2> QED BY <1>5, <2>1, <2>2, <2>3, <2>4, Zenon
<1>7. \A u \in KernelThreads : u # t => pc[u] = "out"
  BY <1>6, Alone, Zenon
<1>8. \A u \in KernelThreads : u # t => pc'[u] = pc[u] /\ has'[u] = has[u]
  BY <1>1, OthersKeep, Zenon
<1> QED BY <1>1, <1>5, <1>7, <1>8, Zenon

\* Every step of a thread of the kernel keeps the processes' memory as it was.
LEMMA QuietStep ==
  ASSUME TypeOK, RunInv, LockInv, UserInv, QuietInv, Locked, NEW t \in KernelThreads, Step(t)
  PROVE  QuietInv'
<1> USE DEF Goto, Begin, At, locks, call
<1>0. /\ mem \in Memory /\ pc \in [Threads -> KernelLabels \union ProcessLabels]
      /\ found \in [Threads -> Frames] /\ page \in [Threads -> Frames]
      /\ run \in [Threads -> Runs] /\ t \in Threads
      /\ Processes \subseteq Threads /\ KernelThreads \subseteq Threads
  BY Zenon DEF TypeOK, Threads
<1>T. /\ SpaceOf(t) = Kernel /\ Pool(t) = PF_KERNEL /\ Kernel \in Spaces
      /\ PF_KERNEL \in pool_flags /\ PF_USER \in pool_flags /\ PF_KERNEL # PF_USER
      /\ \A p \in Processes : p \in Spaces /\ p # Kernel /\ VPages(p) = UserPages /\ p # t
      /\ VPages(Kernel) = Pages
  BY <1>0, ThreadFacts, PagingAssumption, PagePoolAssumption, Zenon
  DEF Spaces, VPages, pool_flags, PF_KERNEL, PF_USER
<1>O. \A u \in Threads : u # t => pc'[u] = pc[u] /\ run'[u] = run[u]
  BY <1>0, OthersKeep, Zenon
<1>1. ASSUME \A i \in 0..Pages : mem'.pool[PF_USER][i] = mem.pool[PF_USER][i],
             \A p \in Processes : mem'.vaddr[p] = mem.vaddr[p],
             \A p \in Processes : \A v \in 0..UserPages : mem'.pte[p][v] = mem.pte[p][v],
             mem'.pde = mem.pde,
             pc'[t] # "out" => run'[t].heap
      PROVE  QuietInv'
  BY <1>0, <1>T, <1>O, <1>1 DEF QuietInv
<1>2. ASSUME NEW cnt \in 1..MaxPages, Malloc(t, cnt) PROVE QuietInv'
  BY <1>0, <1>1, <1>2, Zenon DEF Malloc
<1>3. ASSUME NEW r \in has[t], Free(t, r) PROVE QuietInv'
  BY <1>0, <1>1, <1>3, Zenon DEF Free
<1>H. pc[t] # "out" => run[t].heap
  BY Zenon DEF QuietInv
<1>4. ASSUME VaddrScan(t) PROVE QuietInv'
  <2>1. mem' = mem \/ \E why \in {"full", "limit", "assert"} : mem' = Fault(mem, why)
    BY <1>4, Zenon DEF VaddrScan
  <2>2. mem'.pool = mem.pool /\ mem'.vaddr = mem.vaddr /\ mem'.pte = mem.pte /\ mem'.pde = mem.pde
    BY <1>0, <2>1, FaultFacts
  <2>3. pc'[t] # "out" => run'[t].heap
    BY <1>0, <1>H, <1>4 DEF VaddrScan, Leave, Runs
  <2> QED BY <1>1, <2>2, <2>3, Zenon
<1>5. ASSUME VaddrStore(t) \/ VaddrClearStore(t) PROVE QuietInv'
  <2>1. /\ \E value \in BOOLEAN : mem' = StorePage(t, value)
        /\ pc[t] \in {"vaddr_store", "vaddr_clear_store"} /\ (pc'[t] = "out" \/ run' = run)
    BY <1>0, <1>5, Zenon DEF VaddrStore, VaddrClearStore, Leave
  <2>2. Vpage(t) \in 0..Pages
    BY <1>0, <1>T, <2>1, VpageFacts, Zenon
  <2>3. /\ mem'.pool = mem.pool /\ mem'.pte = mem.pte /\ mem'.pde = mem.pde
        /\ \A x \in Spaces : x # Kernel => mem'.vaddr[x] = mem.vaddr[x]
    BY <1>0, <2>1, <2>2, StorePageFacts
  <2> QED BY <1>T, <1>H, <1>1, <2>1, <2>3, Zenon
<1>6. ASSUME PallocScan(t) PROVE QuietInv'
  <2>1. (mem' = mem \/ mem' = Fault(mem, "full")) /\ run' = run /\ pc[t] # "out"
    BY <1>6, Zenon DEF PallocScan, Scan
  <2>2. mem'.pool = mem.pool /\ mem'.vaddr = mem.vaddr /\ mem'.pte = mem.pte /\ mem'.pde = mem.pde
    BY <1>0, <2>1, FaultFacts
  <2> QED BY <1>H, <1>1, <2>1, <2>2, Zenon
<1>7. ASSUME PallocStore(t) \/ PfreeStore(t) PROVE QuietInv'
  <2>1. /\ \E value \in BOOLEAN : mem' = StoreFrame(t, value)
        /\ run' = run /\ pc[t] \in {"palloc_store", "pfree_store"}
    BY <1>0, <1>7, Zenon DEF PallocStore, PfreeStore
  <2>2. found[t][1] = PF_KERNEL
    BY <1>0, <1>T, <2>1, Zenon DEF UserInv, Allocating
  <2>3. /\ mem'.vaddr = mem.vaddr /\ mem'.pte = mem.pte /\ mem'.pde = mem.pde
        /\ mem'.pool[PF_USER] = mem.pool[PF_USER]
    BY <1>0, <1>T, <2>1, <2>2, StoreFrameFacts
  <2> QED BY <1>H, <1>1, <2>1, <2>3, Zenon
<1>8. ASSUME Pte(t) PROVE QuietInv'
  <2>1. Mapped(t, mem) /\ pc[t] = "pte"
    BY <1>T, <1>8, Zenon DEF Pte, HasTable
  <2>2. mem' = SetPte(mem, Kernel, Vpage(t), page[t]) /\ run' = run
    BY <1>T, <2>1, Zenon DEF Mapped
  <2>3. Vpage(t) \in 0..VPages(Kernel) /\ page[t] \in Frames
    BY <1>0, <1>T, <2>1, VpageFacts, Zenon
  <2>4. /\ mem'.pool = mem.pool /\ mem'.vaddr = mem.vaddr /\ mem'.pde = mem.pde
        /\ \A p \in Processes : \A v \in 0..UserPages : mem'.pte[p][v] = mem.pte[p][v]
    BY <1>0, <1>T, <2>2, <2>3, SetPteFacts
  <2> QED BY <1>H, <1>1, <2>1, <2>2, <2>4, Zenon
<1>9. ASSUME Return(t) PROVE QuietInv'
  BY <1>0, <1>1, <1>9, Zenon DEF Return, Leave
<1>10. ASSUME Loading(t) PROVE QuietInv'
  <2>1. mem' = mem /\ run' = run /\ pc[t] # "out"
    BY <1>0, <1>10, LoadFacts, Zenon
  <2> QED BY <1>H, <1>1, <2>1, Zenon
<1>11. ASSUME Unmap(t) PROVE QuietInv'
  <2>1. /\ pc[t] = "unmap" /\ run' = run /\ mem' = StorePte(mem, Kernel, Vpage(t), NULL)
    BY <1>11, Zenon DEF Unmap, page_table_pte_remove, StorePte
  <2>2. Vpage(t) \in 0..VPages(Kernel) /\ NULL \in Entries
    BY <1>0, <1>T, <2>1, VpageFacts, Zenon DEF Entries
  <2>3. /\ mem'.pool = mem.pool /\ mem'.pde = mem.pde /\ mem'.vaddr = mem.vaddr
        /\ \A x \in Spaces : \A w \in 0..VPages(x) :
             (x # Kernel \/ w # Vpage(t)) => mem'.pte[x][w] = mem.pte[x][w]
    BY <1>0, <1>T, <2>1, <2>2, PteFacts
  <2>4. \A p \in Processes : \A v \in 0..UserPages : mem'.pte[p][v] = mem.pte[p][v]
    BY <1>T, <2>3, Zenon
  <2> QED BY <1>H, <1>1, <2>1, <2>3, <2>4, Zenon
<1> QED BY <1>2, <1>3, <1>4, <1>5, <1>6, <1>7, <1>8, <1>9, <1>10, <1>11, LockedSteps, Zenon

\* What the proofs about a call of t use of its types, its space and its pool.
LEMMA SoloFacts ==
  ASSUME TypeOK, RunInv, LockInv, QuietInv, Locked, NEW t \in KernelThreads, Step(t)
  PROVE  /\ mem \in Memory /\ pc \in [Threads -> KernelLabels \union ProcessLabels]
         /\ found \in [Threads -> Frames] /\ page \in [Threads -> Frames]
         /\ run \in [Threads -> Runs] /\ done \in [Threads -> 0..MaxPages]
         /\ has \in [Threads -> SUBSET Runs] /\ t \in Threads
         /\ SpaceOf(t) = Kernel /\ Pool(t) = PF_KERNEL /\ Kernel \in Spaces
         /\ PF_KERNEL \in pool_flags /\ VPages(Kernel) = Pages /\ Pages \in Nat \ {0}
         /\ run[t].first \in Nat /\ run[t].cnt \in Nat \ {0} /\ done[t] \in Nat
<1>1. /\ mem \in Memory /\ pc \in [Threads -> KernelLabels \union ProcessLabels]
      /\ found \in [Threads -> Frames] /\ page \in [Threads -> Frames]
      /\ run \in [Threads -> Runs] /\ done \in [Threads -> 0..MaxPages]
      /\ has \in [Threads -> SUBSET Runs] /\ t \in Threads
  BY Zenon DEF TypeOK, Threads
<1>2. /\ SpaceOf(t) = Kernel /\ Pool(t) = PF_KERNEL /\ Kernel \in Spaces
      /\ PF_KERNEL \in pool_flags /\ VPages(Kernel) = Pages /\ Pages \in Nat \ {0}
  BY <1>1, ThreadFacts, PagingAssumption, PagePoolAssumption, Zenon DEF pool_flags
<1>3. run[t].first \in Nat /\ run[t].cnt \in Nat \ {0} /\ done[t] \in Nat
  BY <1>1, PagePoolAssumption DEF Runs
<1> QED BY <1>1, <1>2, <1>3, Zenon

\* Who has which pages depends on the runs the threads have only.
LEMMA SameRuns ==
  ASSUME has' = has
  PROVE  (RunsApart' <=> RunsApart) /\ \A v : Held(v)' <=> Held(v)
  BY Zenon DEF RunsApart, Held

LEMMA SameMemory ==
  ASSUME mem'.vaddr = mem.vaddr, mem'.pte = mem.pte, mem'.pool = mem.pool
  PROVE  /\ \A v : (Taken(v)' <=> Taken(v)) /\ FrameOf(v)' = FrameOf(v)
         /\ \A f : InPool(f)' <=> InPool(f)
  BY Zenon DEF Taken, FrameOf, InPool

\* A step that leaves the kernel's frames and entries alone, and in which no frame is on
\* its way between the pool and the table.
LEMMA SameFrames ==
  ASSUME NEW t \in KernelThreads, FramesSolo(t),
         mem'.pte = mem.pte, mem'.pool = mem.pool,
         \A v : ~Freed(t, v) /\ ~Mapping(t, v) /\ ~Freed(t, v)' /\ ~Mapping(t, v)',
         \A v : Held(v)' \/ v \in MappedOf(t)' <=> Held(v) \/ v \in MappedOf(t),
         pc'[t] \in {"palloc_set", "palloc_store"} => ~InPool(found[t])',
         pc'[t] = "pfree_store" => found'[t] = FrameOf(Vpage(t))'
  PROVE  FramesSolo(t)'
<1>1. /\ \A v : FrameOf(v)' = FrameOf(v)
      /\ \A f : InPool(f)' <=> InPool(f)
  BY Zenon DEF FrameOf, InPool
<1>2. \A v \in 0..Pages : FrameOf(v)' # NULL <=> Held(v)' \/ v \in MappedOf(t)'
  BY <1>1, Zenon DEF FramesSolo
<1>3. \A v, w \in 0..Pages : FrameOf(v)' # NULL /\ FrameOf(v)' = FrameOf(w)' => v = w
  BY <1>1, Zenon DEF FramesSolo
<1>4. \A f \in KernelFrames :
        InPool(f)' <=> (\E v \in 0..Pages : FrameOf(v)' = f /\ ~Freed(t, v)') \/ Mapping(t, f)'
  BY <1>1, Zenon DEF FramesSolo
<1> QED BY <1>2, <1>3, <1>4, Zenon DEF FramesSolo

\* The pool's bits for the frames of the kernel, and the entries of its page table.
LEMMA KernelFrameFacts ==
  ASSUME TypeOK, UserInv
  PROVE  /\ \A f \in KernelFrames : f \in Frames /\ f[1] = PF_KERNEL /\ f # NULL
         /\ \A v \in 0..Pages : FrameOf(v) # NULL => FrameOf(v) \in KernelFrames
<1>1. \A f \in KernelFrames : f \in Frames /\ f[1] = PF_KERNEL /\ f # NULL
  BY NullAssumption, Zenon DEF KernelFrames
<1>2. Kernel \in Spaces /\ VPages(Kernel) = Pages
  BY Zenon DEF Spaces, VPages
<1>3. \A v \in 0..Pages : mem.pte[Kernel][v] # NULL =>
        mem.pte[Kernel][v] \in Frames /\ mem.pte[Kernel][v][1] = PF_KERNEL
  BY <1>2, EntryFacts, Zenon DEF UserInv, UserMapped
<1> QED BY <1>1, <1>3, Zenon DEF FrameOf, KernelFrames

\* A step before the run is taken that changes neither the runs nor the memory.
LEMMA SoloSame ==
  ASSUME NEW t \in KernelThreads, RunsSolo(t), FramesSolo(t), has' = has,
         mem'.vaddr = mem.vaddr, mem'.pte = mem.pte, mem'.pool = mem.pool,
         pc[t] \in {"out", "vaddr_scan"}, pc'[t] \in {"out", "vaddr_scan"}
  PROVE  RunsSolo(t)' /\ FramesSolo(t)'
<1>1. /\ MarkedOf(t) = {} /\ MappedOf(t) = {} /\ \A v : ~Freed(t, v) /\ ~Mapping(t, v)
      /\ FoundOf(t)' = {} /\ MarkedOf(t)' = {} /\ MappedOf(t)' = {}
      /\ \A v : ~Freed(t, v)' /\ ~Mapping(t, v)'
      /\ pc'[t] \notin {"palloc_set", "palloc_store", "pfree_store"}
  BY Zenon DEF FoundOf, MarkedOf, MappedOf, Freed, Mapping
<1>2. RunsSolo(t)'
  BY <1>1, SameRuns, SameMemory, ZenonT(60) DEF RunsSolo
<1>3. FramesSolo(t)'
  BY <1>1, SameRuns, SameFrames, Zenon
<1> QED BY <1>2, <1>3, Zenon

\* sys_free starts on a run its thread has: the run is now the one of its call.
LEMMA SoloFree ==
  ASSUME TypeOK, RunInv, LockInv, QuietInv, Locked, NEW t \in KernelThreads, Step(t),
         RunsSolo(t), FramesSolo(t), NEW r \in has[t], Free(t, r)
  PROVE  RunsSolo(t)' /\ FramesSolo(t)'
<1>0. /\ mem' = mem /\ has'[t] = has[t] \ {r} /\ run'[t] = r /\ done'[t] = 0
      /\ pc[t] = "out" /\ pc'[t] = "pfree" /\ r \in Runs
  BY SoloFacts, Zenon DEF Free, At, Goto, Begin
<1>1. \A u \in KernelThreads : has'[u] \subseteq has[u] /\ (u # t => has'[u] = has[u])
  BY <1>0, LockedSteps, Zenon
<1>2. r.first \in Nat /\ r.cnt \in Nat \ {0}
  BY <1>0, PagePoolAssumption DEF Runs
<1>3. /\ MarkedOf(t) = {} /\ MappedOf(t) = {} /\ \A v : ~Freed(t, v) /\ ~Mapping(t, v)
      /\ FoundOf(t)' = PagesOf(r) /\ MarkedOf(t)' = PagesOf(r) /\ MappedOf(t)' = PagesOf(r)
      /\ \A v : ~Freed(t, v)' /\ ~Mapping(t, v)'
  <2>1. /\ MarkedOf(t) = {} /\ MappedOf(t) = {} /\ \A v : ~Freed(t, v) /\ ~Mapping(t, v)
        /\ FoundOf(t)' = PagesOf(r) /\ MarkedOf(t)' = PagesOf(r)
        /\ \A v : ~Freed(t, v)' /\ ~Mapping(t, v)'
    BY <1>0, Zenon DEF FoundOf, MarkedOf, MappedOf, Freed, Mapping
  <2>2. Vpage(t)' = r.first
    BY <1>0, <1>2 DEF Vpage
  <2>3. MappedOf(t)' = r.first..(r.first + r.cnt - 1)
    BY <1>0, <2>2, Zenon DEF MappedOf, RestOf
  <2> QED BY <2>1, <2>3, Zenon DEF PagesOf
<1>4. \A v \in PagesOf(r) : Held(v) /\ ~Held(v)'
  <2> TAKE v \in PagesOf(r)
  <2>1. Held(v)
    BY Zenon DEF Held
  <2>2. ASSUME NEW u \in KernelThreads, NEW q \in has'[u], v \in PagesOf(q) PROVE FALSE
    <3>1. q \in has[u] /\ (u # t \/ q # r)
      BY <1>0, <1>1, <2>2, Zenon
    <3>2. PagesOf(q) \intersect PagesOf(r) = {}
      BY <3>1, Zenon DEF RunsSolo, RunsApart
    <3> QED BY <2>2, <3>2, Zenon
  <2>3. ~Held(v)'
    BY <2>2, Zenon DEF Held
  <2> QED BY <2>1, <2>3, Zenon
<1>5. \A v : Held(v) <=> Held(v)' \/ v \in PagesOf(r)
  <2> TAKE v
  <2>1. Held(v)' => Held(v)
    BY <1>1, Zenon DEF Held
  <2>2. Held(v) /\ v \notin PagesOf(r) => Held(v)'
    BY <1>0, <1>1, Zenon DEF Held
  <2> QED BY <1>4, <2>1, <2>2, Zenon
<1>6. RunsApart'
  BY <1>1 DEF RunsSolo, RunsApart
<1>7. RunsSolo(t)'
  BY <1>0, <1>3, <1>4, <1>5, <1>6, SameMemory, ZenonT(60) DEF RunsSolo
<1>8. FramesSolo(t)'
  <2>1. \A v : Held(v)' \/ v \in MappedOf(t)' <=> Held(v) \/ v \in MappedOf(t)
    BY <1>3, <1>5, Zenon
  <2> QED BY <1>0, <1>3, <2>1, SameFrames, Zenon
<1> QED BY <1>7, <1>8, Zenon

\* vaddr_get has found a run of pages that nobody has, or none.
LEMMA SoloVaddrScan ==
  ASSUME TypeOK, RunInv, LockInv, QuietInv, Locked, NEW t \in KernelThreads, Step(t),
         RunsSolo(t), FramesSolo(t), VaddrScan(t)
  PROVE  RunsSolo(t)' /\ FramesSolo(t)'
<1> DEFINE cnt == run[t].cnt
           v == FreeRun(mem, Kernel, cnt)
           ok == PgCntAsserts(cnt) /\ ~SpaceFull(mem, Kernel)
<1>0. pc[t] = "vaddr_scan" /\ has' = has
  BY Zenon DEF VaddrScan, At
<1>1. CASE ~ok
  <2>1. /\ \E why \in {"full", "limit", "assert"} : mem' = Fault(mem, why)
        /\ pc' = pc /\ mem \in Memory
    BY <1>1, SoloFacts, Zenon DEF VaddrScan
  <2>2. mem'.pool = mem.pool /\ mem'.vaddr = mem.vaddr /\ mem'.pte = mem.pte
    BY <2>1, FaultFacts
  <2> QED BY <1>0, <2>1, <2>2, SoloSame, Zenon
<1>2. CASE ok /\ v = -1
  <2>1. mem' = mem /\ pc'[t] = "out"
    BY <1>2, SoloFacts, Zenon DEF VaddrScan, Leave, Goto
  <2> QED BY <1>0, <2>1, SoloSame, Zenon
<1>3. CASE ok /\ v # -1
  <2>1. /\ v \in 0..Pages /\ v + cnt - 1 <= Pages /\ \A i \in v..(v + cnt - 1) : ~Taken(i)
        /\ cnt \in Nat /\ Pages \in Nat
    BY <1>3, SoloFacts, FreeRunFacts, Zenon DEF Taken
  <2>2. /\ mem' = mem /\ pc'[t] = "vaddr_set" /\ run'[t].first = v /\ run'[t].cnt = cnt
        /\ done' = done
    BY <1>3, SoloFacts DEF VaddrScan, Goto, Runs
  <2> HIDE DEF v, cnt
  <2>3. PagesOf(run'[t]) = v..(v + cnt - 1)
    BY <2>2, Zenon DEF PagesOf
  <2>4. /\ MarkedOf(t) = {} /\ MappedOf(t) = {} /\ \A x : ~Freed(t, x) /\ ~Mapping(t, x)
        /\ FoundOf(t)' = v..(v + cnt - 1) /\ MarkedOf(t)' = {} /\ MappedOf(t)' = {}
        /\ \A x : ~Freed(t, x)' /\ ~Mapping(t, x)'
    <3>1. FoundOf(t)' = v..(v + cnt - 1) /\ \A x : ~Freed(t, x)' /\ ~Mapping(t, x)'
      BY <2>2, <2>3, Zenon DEF FoundOf, Freed, Mapping
    <3>2. MarkedOf(t) = {} /\ MappedOf(t) = {} /\ \A x : ~Freed(t, x) /\ ~Mapping(t, x)
      BY <1>0, Zenon DEF FoundOf, MarkedOf, MappedOf, Freed, Mapping
    <3>3. done'[t] = 0 /\ v \in Int
      <4>1. RunOf(t) /\ v \in Int
        BY <2>1, SoloFacts DEF RunInv
      <4> QED BY <1>0, <2>2, <4>1, Zenon DEF RunOf
    <3>4. FirstOf(t)' = v..(v - 1)
      BY <2>1, <2>2, <3>3 DEF FirstOf, Vpage
    <3>5. MarkedOf(t)' = {} /\ MappedOf(t)' = {}
      <4>1. v..(v - 1) = {}
        BY <3>3
      <4> QED BY <2>2, <3>4, <4>1, Zenon DEF MarkedOf, MappedOf
    <3> QED BY <3>1, <3>2, <3>5, Zenon
  <2>5. \A i \in v..(v + cnt - 1) : i \in 0..Pages /\ ~Taken(i)
    BY <2>1
  <2>6. RunsSolo(t)'
    BY <1>0, <2>2, <2>4, <2>5, SameRuns, SameMemory, ZenonT(60) DEF RunsSolo
  <2>7. FramesSolo(t)'
    BY <1>0, <2>2, <2>4, SameRuns, SameFrames, Zenon
  <2> QED BY <2>6, <2>7, Zenon
<1> QED BY <1>1, <1>2, <1>3, Zenon

\* The load of a bitmap_set changes nothing of the memory.
LEMMA SoloLoad ==
  ASSUME TypeOK, RunInv, LockInv, UserInv, QuietInv, Locked, NEW t \in KernelThreads, Step(t),
         RunsSolo(t), FramesSolo(t), Loading(t)
  PROVE  RunsSolo(t)' /\ FramesSolo(t)'
<1>1. /\ mem' = mem /\ run' = run /\ done' = done /\ has' = has /\ page' = page
      /\ \/ pc[t] = "vaddr_set" /\ pc'[t] = "vaddr_store"
         \/ pc[t] = "palloc_set" /\ pc'[t] = "palloc_store" /\ found' = found
         \/ /\ pc[t] = "pfree" /\ pc'[t] = "pfree_store" /\ found'[t] \in addr_v2p(Vpage(t))
         \/ pc[t] = "vaddr_clear" /\ pc'[t] = "vaddr_clear_store"
  <2>1. pc[t] # "table_set"
    <3>1. pc[t] \in KernelLabels
      BY SoloFacts, ThreadFacts, Zenon DEF RunInv, RunOf
    <3> QED BY <3>1, Zenon DEF KernelLabels
  <2> QED BY <2>1, SoloFacts, LoadFacts, ZenonT(60)
<1>2. /\ FoundOf(t)' = FoundOf(t) /\ MarkedOf(t)' = MarkedOf(t) /\ MappedOf(t)' = MappedOf(t)
      /\ Vpage(t)' = Vpage(t)
      /\ \A v : ~Freed(t, v) /\ ~Mapping(t, v) /\ ~Freed(t, v)' /\ ~Mapping(t, v)'
  <2>1. Vpage(t)' = Vpage(t) /\ PagesOf(run[t])' = PagesOf(run[t])
    BY <1>1, Zenon DEF Vpage
  <2>2. FirstOf(t)' = FirstOf(t) /\ RestOf(t)' = RestOf(t)
    BY <1>1, <2>1, Zenon DEF FirstOf, RestOf
  <2>3. FoundOf(t)' = FoundOf(t)
    BY <1>1, <2>1, Zenon DEF FoundOf
  <2>4. MarkedOf(t)' = MarkedOf(t)
    BY <1>1, <2>2, <2>3, ZenonT(60) DEF MarkedOf
  <2>5. MappedOf(t)' = MappedOf(t)
    BY <1>1, <2>2, <2>3, ZenonT(60) DEF MappedOf
  <2>6. \A v : ~Freed(t, v) /\ ~Mapping(t, v) /\ ~Freed(t, v)' /\ ~Mapping(t, v)'
    BY <1>1, ZenonT(60) DEF Freed, Mapping
  <2> QED BY <2>1, <2>3, <2>4, <2>5, <2>6, Zenon
<1>3. pc'[t] \in {"palloc_set", "palloc_store"} => ~InPool(found[t])'
  BY <1>1, Zenon DEF FramesSolo, InPool
<1>4. ASSUME pc'[t] = "pfree_store" PROVE found'[t] = FrameOf(Vpage(t))'
  <2>1. pc[t] = "pfree" /\ found'[t] \in addr_v2p(Vpage(t))
    BY <1>1, <1>4, Zenon
  <2>2. Vpage(t) \in 0..Pages /\ Vpage(t) \in PagesOf(run[t])
    BY <2>1, SoloFacts, VpageFacts, Zenon
  <2>3. Vpage(t) \in MappedOf(t)
    <3>0. PICK v, a, n : v = Vpage(t) /\ a = run[t].first /\ n = run[t].cnt
      BY Zenon
    <3>1. v \in a..(a + n - 1) /\ a \in Nat /\ n \in Nat
      BY <2>1, <2>2, <3>0, SoloFacts, VpageFacts, Zenon DEF PagesOf
    <3>2. v \in v..(a + n - 1)
      BY <3>1
    <3> QED BY <2>1, <3>0, <3>2, Zenon DEF MappedOf, RestOf
  <2>4. FrameOf(Vpage(t)) # NULL
    BY <2>2, <2>3, Zenon DEF FramesSolo
  <2> QED BY <1>1, <1>2, <2>1, <2>4, Zenon DEF addr_v2p, FrameOf
<1>5. RunsSolo(t)'
  BY <1>1, <1>2, SameRuns, SameMemory, Zenon DEF RunsSolo
<1>6. FramesSolo(t)'
  BY <1>1, <1>2, <1>3, <1>4, SameRuns, SameFrames, Zenon
<1> QED BY <1>5, <1>6, Zenon

\* vaddr_get takes a page of the run it has found.
LEMMA SoloVaddrStore ==
  ASSUME TypeOK, RunInv, LockInv, QuietInv, Locked, NEW t \in KernelThreads, Step(t),
         RunsSolo(t), FramesSolo(t), LoadedSolo(t), VaddrStore(t)
  PROVE  RunsSolo(t)' /\ FramesSolo(t)'
<1>0. PICK v, a, n, d : v = Vpage(t) /\ a = run[t].first /\ n = run[t].cnt /\ d = done[t]
  BY Zenon
<1> DEFINE S == PagesOf(run[t])
<1>1. /\ mem' = StorePage(t, TRUE) /\ run' = run /\ has' = has /\ pc[t] = "vaddr_store"
      /\ pc'[t] = IF d + 1 = n THEN "palloc_scan" ELSE "vaddr_set"
      /\ done'[t] = IF d + 1 = n THEN 0 ELSE d + 1
  BY <1>0, SoloFacts, Zenon DEF VaddrStore, At, Goto
<1>2. /\ v \in 0..Pages /\ v \in S /\ v = a + d /\ a \in Nat /\ n \in Nat /\ d \in Nat /\ d < n
  BY <1>0, <1>1, SoloFacts, VpageFacts, ZenonT(60) DEF Vpage
<1>3. /\ MarkedOf(t) = a..(v - 1) /\ MappedOf(t) = {} /\ \A x : ~Freed(t, x) /\ ~Mapping(t, x)
      /\ FoundOf(t) = S /\ FoundOf(t)' = S /\ \A x : ~Freed(t, x)' /\ ~Mapping(t, x)'
  BY <1>0, <1>1, ZenonT(60) DEF FoundOf, MarkedOf, MappedOf, FirstOf, Freed, Mapping
<1>4. MarkedOf(t)' = a..v /\ MappedOf(t)' = {}
  <2>1. CASE d + 1 = n
    <3>1. Vpage(t)' = a + 0
      BY <1>0, <1>1, <2>1, Zenon DEF Vpage
    <3>2. a..((a + 0) - 1) = {} /\ a..(a + n - 1) = a..v
      BY <1>2, <2>1
    <3>3. FirstOf(t)' = {} /\ S = a..v
      BY <1>0, <1>1, <3>1, <3>2, Zenon DEF FirstOf, PagesOf
    <3> QED BY <1>1, <1>3, <2>1, <3>3, Zenon DEF MarkedOf, MappedOf
  <2>2. CASE d + 1 # n
    <3>1. Vpage(t)' = a + (d + 1)
      BY <1>0, <1>1, <2>2, Zenon DEF Vpage
    <3>2. a..((a + (d + 1)) - 1) = a..v
      BY <1>2
    <3>3. FirstOf(t)' = a..v
      BY <1>0, <1>1, <3>1, <3>2, Zenon DEF FirstOf
    <3> QED BY <1>1, <2>2, <3>3, Zenon DEF MarkedOf, MappedOf
  <2> QED BY <2>1, <2>2, Zenon
<1>5. \A x \in 0..Pages : x \in MarkedOf(t)' <=> x \in MarkedOf(t) \/ x = v
  <2>1. \A x \in 0..Pages : x \in a..v <=> x \in a..(v - 1) \/ x = v
    BY <1>2
  <2> QED BY <1>3, <1>4, <2>1, Zenon
<1>6. /\ mem'.pool = mem.pool /\ mem'.pte = mem.pte
      /\ Taken(v)' /\ \A x \in 0..Pages : x # v => (Taken(x)' <=> Taken(x))
  <2>1. bits[t] = mem.vaddr[Kernel] /\ t \in Threads
    BY <1>1, SoloFacts, Zenon DEF LoadedSolo
  <2>2. /\ mem'.pool = mem.pool /\ mem'.pte = mem.pte /\ mem'.vaddr[Kernel][v]
        /\ \A x \in 0..Pages : x # v => mem'.vaddr[Kernel][x] = mem.vaddr[Kernel][x]
    BY <1>0, <1>1, <1>2, <2>1, MarkPageStep, ZenonT(60)
  <2> QED BY <2>2, Zenon DEF Taken
<1> HIDE DEF S
<1>7. \A x \in 0..Pages : Taken(x)' <=> Held(x)' \/ x \in MarkedOf(t)'
  BY <1>1, <1>5, <1>6, SameRuns, Zenon DEF RunsSolo
<1>8. RunsSolo(t)'
  BY <1>1, <1>3, <1>7, SameRuns, ZenonT(60) DEF RunsSolo
<1>9. pc'[t] \notin {"palloc_set", "palloc_store", "pfree_store"}
  BY <1>1, Zenon
<1>10. FramesSolo(t)'
  BY <1>1, <1>3, <1>4, <1>6, <1>9, SameRuns, SameFrames, ZenonT(60)
<1> QED BY <1>8, <1>10, Zenon

\* palloc has found a frame that no page is mapped to, or none.
LEMMA SoloPallocScan ==
  ASSUME TypeOK, RunInv, LockInv, QuietInv, Locked, NEW t \in KernelThreads, Step(t),
         RunsSolo(t), FramesSolo(t), PallocScan(t)
  PROVE  RunsSolo(t)' /\ FramesSolo(t)'
<1>1. /\ pc[t] = "palloc_scan" /\ pc'[t] \in {"palloc_scan", "palloc_set"}
      /\ has' = has /\ run' = run /\ done' = done
  BY SoloFacts, Zenon DEF PallocScan, Scan, At, Goto
<1>2. /\ FoundOf(t)' = FoundOf(t) /\ MarkedOf(t)' = MarkedOf(t) /\ MappedOf(t)' = MappedOf(t)
      /\ \A v : ~Freed(t, v) /\ ~Mapping(t, v) /\ ~Freed(t, v)' /\ ~Mapping(t, v)'
  BY <1>1, ZenonT(60) DEF FoundOf, MarkedOf, MappedOf, FirstOf, Freed, Mapping, Vpage
<1>3. mem'.pool = mem.pool /\ mem'.vaddr = mem.vaddr /\ mem'.pte = mem.pte
  <2>1. mem' = mem \/ mem' = Fault(mem, "full")
    BY Zenon DEF PallocScan, Scan
  <2>2. mem \in Memory
    BY SoloFacts, Zenon
  <2> QED BY <2>1, <2>2, FaultFacts, ZenonT(60)
<1>4. pc'[t] \in {"palloc_set", "palloc_store"} => ~InPool(found[t])'
  <2> SUFFICES ASSUME pc'[t] = "palloc_set" PROVE ~InPool(found[t])'
    BY <1>1, Zenon
  <2>1. ~PoolFull(mem, PF_KERNEL) /\ found'[t] = FreeFrame(mem, PF_KERNEL)
    BY <1>1, SoloFacts, Zenon DEF PallocScan, Scan
  <2>2. found'[t][1] = PF_KERNEL /\ ~mem.pool[PF_KERNEL][found'[t][2]]
    BY <2>1, SoloFacts, FreeFrameFacts, ZenonT(60)
  <2> QED BY <1>3, <2>2, Zenon DEF InPool
<1>5. RunsSolo(t)'
  BY <1>1, <1>2, <1>3, SameRuns, SameMemory, Zenon DEF RunsSolo
<1>6. FramesSolo(t)'
  BY <1>1, <1>2, <1>3, <1>4, SameRuns, SameFrames, ZenonT(60)
<1> QED BY <1>5, <1>6, Zenon

\* palloc takes the frame it has found.
LEMMA SoloPallocStore ==
  ASSUME TypeOK, RunInv, LockInv, UserInv, QuietInv, Locked, NEW t \in KernelThreads, Step(t),
         RunsSolo(t), FramesSolo(t), LoadedSolo(t), PallocStore(t)
  PROVE  RunsSolo(t)' /\ FramesSolo(t)'
<1>0. PICK f : f = found[t]
  BY Zenon
<1>1. /\ pc[t] = "palloc_store" /\ pc'[t] = "pte" /\ has' = has /\ run' = run /\ done' = done
      /\ page'[t] = f /\ mem' = StoreFrame(t, TRUE) /\ f \in Frames
  BY <1>0, SoloFacts, Zenon DEF PallocStore, At, Goto
<1>2. f \in KernelFrames
  <2>1. Allocating(t) /\ Pool(t) = PF_KERNEL
    BY SoloFacts, Zenon DEF UserInv
  <2> QED BY <1>0, <1>1, <2>1, Zenon DEF Allocating, KernelFrames
<1>3. ~InPool(f)
  BY <1>0, <1>1, Zenon DEF FramesSolo
<1>4. /\ FoundOf(t)' = FoundOf(t) /\ MarkedOf(t)' = MarkedOf(t) /\ MappedOf(t)' = MappedOf(t)
      /\ \A v : ~Freed(t, v) /\ ~Mapping(t, v) /\ ~Freed(t, v)' /\ (Mapping(t, v)' <=> v = f)
  BY <1>1, ZenonT(60) DEF FoundOf, MarkedOf, MappedOf, FirstOf, Freed, Mapping, Vpage
<1>5. /\ mem'.vaddr = mem.vaddr /\ mem'.pte = mem.pte /\ InPool(f)'
      /\ \A i \in 0..Pages : i # f[2] => mem'.pool[PF_KERNEL][i] = mem.pool[PF_KERNEL][i]
  <2>1. bits[t] = mem.pool[PF_KERNEL] /\ t \in Threads /\ f[1] = PF_KERNEL
    BY <1>1, <1>2, SoloFacts, ZenonT(60) DEF LoadedSolo, KernelFrames
  <2>2. /\ mem'.vaddr = mem.vaddr /\ mem'.pte = mem.pte /\ mem'.pool[f[1]][f[2]]
        /\ \A i \in 0..Pages : i # f[2] => mem'.pool[f[1]][i] = mem.pool[f[1]][i]
    BY <1>0, <1>1, <2>1, TakeFrameStep, ZenonT(60)
  <2> QED BY <2>1, <2>2, Zenon DEF InPool
<1>6. \A g \in KernelFrames : g # f => (InPool(g)' <=> InPool(g))
  <2> TAKE g \in KernelFrames
  <2>1. g[1] = PF_KERNEL /\ g[2] \in 0..Pages /\ (g # f => g[2] # f[2])
    BY <1>2, PagingAssumption DEF KernelFrames, Frames
  <2> QED BY <1>5, <2>1, Zenon DEF InPool
<1>7. /\ \A v : (Taken(v)' <=> Taken(v)) /\ FrameOf(v)' = FrameOf(v)
  BY <1>5, Zenon DEF Taken, FrameOf
<1>8. \A v \in 0..Pages : FrameOf(v) # f
  BY <1>2, <1>3, <1>4, Zenon DEF FramesSolo
<1>9. RunsSolo(t)'
  BY <1>1, <1>4, <1>7, SameRuns, Zenon DEF RunsSolo
<1>10. \A g \in KernelFrames :
         InPool(g)' <=> (\E v \in 0..Pages : FrameOf(v)' = g /\ ~Freed(t, v)') \/ Mapping(t, g)'
  <2> TAKE g \in KernelFrames
  <2>1. InPool(g) <=> \E v \in 0..Pages : FrameOf(v) = g
    BY <1>4, Zenon DEF FramesSolo
  <2> QED BY <1>4, <1>5, <1>6, <1>7, <2>1, Zenon
<1>11. FramesSolo(t)'
  BY <1>1, <1>4, <1>7, <1>8, <1>10, SameRuns, ZenonT(60) DEF FramesSolo
<1> QED BY <1>9, <1>11, Zenon

\* page_table_add maps the page to the frame.
LEMMA SoloPte ==
  ASSUME TypeOK, RunInv, LockInv, UserInv, QuietInv, Locked, NEW t \in KernelThreads, Step(t),
         RunsSolo(t), FramesSolo(t), Pte(t)
  PROVE  RunsSolo(t)' /\ FramesSolo(t)'
<1>0. PICK v, f, first : v = Vpage(t) /\ f = page[t] /\ first = run[t].first
  BY Zenon
<1>1. /\ pc[t] = "pte" /\ pc'[t] \in {"return", "palloc_scan"} /\ mem.fault = "none"
      /\ has' = has /\ run' = run /\ done'[t] = done[t] + 1
      /\ mem' = SetPte(mem, Kernel, v, f) /\ mem \in Memory /\ f \in Frames
  BY <1>0, SoloFacts, Zenon DEF Pte, HasTable, Mapped, At, Goto
<1>2. /\ v \in 0..VPages(Kernel) /\ v \in 0..Pages /\ v \in PagesOf(run[t]) /\ v = first + done[t]
      /\ first \in Nat /\ done[t] \in Nat
  BY <1>0, <1>1, SoloFacts, VpageFacts, Zenon DEF Vpage
<1>3. /\ FoundOf(t) = PagesOf(run[t]) /\ MarkedOf(t) = FoundOf(t) /\ MappedOf(t) = first..(v - 1)
      /\ FoundOf(t)' = FoundOf(t) /\ MarkedOf(t)' = FoundOf(t) /\ MappedOf(t)' = first..v
      /\ \A x : ~Freed(t, x) /\ (Mapping(t, x) <=> x = f) /\ ~Freed(t, x)' /\ ~Mapping(t, x)'
  <2>1. Vpage(t)' = v + 1
    <3>1. Vpage(t)' = first + (done[t] + 1)
      BY <1>0, <1>1, Zenon DEF Vpage
    <3> QED BY <1>2, <3>1, NextPage, Zenon
  <2>3. FoundOf(t) = PagesOf(run[t]) /\ MarkedOf(t) = FoundOf(t) /\ MappedOf(t) = first..(v - 1)
    BY <1>0, <1>1, ZenonT(60) DEF FoundOf, MarkedOf, MappedOf, FirstOf
  <2>4. FoundOf(t)' = FoundOf(t)
    BY <1>1, Zenon DEF FoundOf
  <2>5. MarkedOf(t)' = FoundOf(t)
    BY <1>1, <2>4, Zenon DEF MarkedOf
  <2>6. MappedOf(t)' = first..v
    <3>0. PICK x : x = v + 1
      BY Zenon
    <3>1. MappedOf(t)' = first..(x - 1)
      BY <1>0, <1>1, <2>1, <3>0, Zenon DEF MappedOf, FirstOf
    <3>2. first..(x - 1) = first..v
      BY <1>2, <3>0
    <3> QED BY <3>1, <3>2, Zenon
  <2>7. \A x : ~Freed(t, x) /\ (Mapping(t, x) <=> x = f) /\ ~Freed(t, x)' /\ ~Mapping(t, x)'
    BY <1>0, <1>1, Zenon DEF Freed, Mapping
  <2> QED BY <2>3, <2>4, <2>5, <2>6, <2>7, Zenon
<1>4. ~Held(v) /\ v \notin MappedOf(t)
  <2>1. v \notin first..(v - 1)
    BY <1>2
  <2> QED BY <1>2, <1>3, <2>1, Zenon DEF RunsSolo
<1>5. FrameOf(v) = NULL
  BY <1>2, <1>4, Zenon DEF FramesSolo
<1>6. /\ mem'.pool = mem.pool /\ mem'.vaddr = mem.vaddr
      /\ FrameOf(v)' = f /\ \A w \in 0..Pages : w # v => FrameOf(w)' = FrameOf(w)
  <2>1. /\ mem'.pool = mem.pool /\ mem'.vaddr = mem.vaddr
        /\ \A x \in Spaces : \A w \in 0..VPages(x) :
             \/ mem'.pte[x][w] = mem.pte[x][w]
             \/ x = Kernel /\ w = v /\ mem'.pte[x][w] = f
        /\ mem.fault = "none" /\ mem.pte[Kernel][v] = NULL => mem'.pte[Kernel][v] = f
    <3>1. Kernel \in Spaces
      BY SoloFacts, Zenon
    <3>2. PICK r, m : r = mem' /\ m = mem
      BY Zenon
    <3>3. r = SetPte(m, Kernel, v, f) /\ m \in Memory /\ v \in 0..VPages(Kernel) /\ f \in Frames
      BY <1>1, <1>2, <3>2, Zenon
    <3>4. /\ r.pool = m.pool /\ r.vaddr = m.vaddr
          /\ \A x \in Spaces : \A w \in 0..VPages(x) :
               \/ r.pte[x][w] = m.pte[x][w]
               \/ x = Kernel /\ w = v /\ r.pte[x][w] = f
          /\ m.fault = "none" /\ m.pte[Kernel][v] = NULL => r.pte[Kernel][v] = f
      BY <3>1, <3>3, SetPteFacts
    <3> QED BY <3>2, <3>4, Zenon
  <2> QED BY <1>1, <1>5, <2>1, SoloFacts, Zenon DEF FrameOf
<1>7. /\ \A x : Taken(x)' <=> Taken(x)
      /\ \A g : InPool(g)' <=> InPool(g)
  BY <1>6, Zenon DEF Taken, InPool
<1>8. f # NULL /\ \A w \in 0..Pages : FrameOf(w) # f
  BY <1>1, <1>3, NullAssumption, Zenon DEF FramesSolo
<1>9. RunsSolo(t)'
  BY <1>1, <1>3, <1>7, SameRuns, ZenonT(60) DEF RunsSolo
<1>10. \A w \in 0..Pages : w \in MappedOf(t)' <=> w \in MappedOf(t) \/ w = v
  BY <1>2, <1>3, SMTT(60)
<1>11. \A w \in 0..Pages : FrameOf(w)' # NULL <=> Held(w)' \/ w \in MappedOf(t)'
  BY <1>1, <1>2, <1>5, <1>6, <1>8, <1>10, SameRuns, ZenonT(60) DEF FramesSolo
<1>12. \A x, w \in 0..Pages : FrameOf(x)' # NULL /\ FrameOf(x)' = FrameOf(w)' => x = w
  BY <1>6, <1>8 DEF FramesSolo
<1>13. \A g \in KernelFrames :
         InPool(g)' <=> (\E w \in 0..Pages : FrameOf(w)' = g /\ ~Freed(t, w)') \/ Mapping(t, g)'
  <2> TAKE g \in KernelFrames
  <2>1. InPool(g) <=> (\E w \in 0..Pages : FrameOf(w) = g) \/ g = f
    BY <1>3, Zenon DEF FramesSolo
  <2>2. g # NULL
    BY KernelFrameFacts, Zenon
  <2> QED BY <1>2, <1>3, <1>5, <1>6, <1>7, <2>1, <2>2, Zenon
<1>14. FramesSolo(t)'
  BY <1>1, <1>3, <1>11, <1>12, <1>13, Zenon DEF FramesSolo
<1> QED BY <1>9, <1>14, Zenon

\* sys_malloc returns a run of which every page is mapped.
LEMMA SoloReturn ==
  ASSUME TypeOK, RunInv, LockInv, QuietInv, Locked, NEW t \in KernelThreads, Step(t),
         RunsSolo(t), FramesSolo(t), Return(t)
  PROVE  RunsSolo(t)' /\ FramesSolo(t)'
<1> DEFINE r == run[t]
<1>1. /\ pc[t] = "return" /\ pc'[t] = "out" /\ mem' = mem /\ has'[t] = has[t] \union {r}
      /\ r.first \in Nat /\ r.cnt \in Nat \ {0}
  BY SoloFacts, Zenon DEF Return, Leave, At, Goto
<1>2. done[t] = r.cnt
  <2>1. RunOf(t)
    BY SoloFacts, Zenon DEF RunInv
  <2> QED BY <1>1, <2>1, Zenon DEF RunOf
<1>3. /\ FoundOf(t) = PagesOf(r) /\ MarkedOf(t) = PagesOf(r) /\ MappedOf(t) = PagesOf(r)
      /\ FoundOf(t)' = {} /\ MarkedOf(t)' = {} /\ MappedOf(t)' = {}
      /\ \A v : ~Freed(t, v) /\ ~Mapping(t, v) /\ ~Freed(t, v)' /\ ~Mapping(t, v)'
  <2>1. Vpage(t) = run[t].first + run[t].cnt
    BY <1>2, Zenon DEF Vpage
  <2>2. PICK a, n : a = run[t].first /\ n = run[t].cnt
    BY Zenon
  <2>3. (a + n) - 1 = a + n - 1
    <3>1. a \in Nat /\ n \in Nat
      BY <1>1, <2>2, Zenon
    <3> HIDE DEF r
    <3> QED BY <3>1
  <2>4. FirstOf(t) = PagesOf(r)
    BY <2>1, <2>2, <2>3, Zenon DEF FirstOf, PagesOf
  <2> QED BY <1>1, <2>4, ZenonT(60) DEF FoundOf, MarkedOf, MappedOf, Freed, Mapping
<1> HIDE DEF r
<1>4. \A u \in KernelThreads : u # t => has'[u] = has[u]
  BY LockedSteps, Zenon
<1>5. \A w : Held(w)' <=> Held(w) \/ w \in PagesOf(r)
  BY <1>1, <1>4, Zenon DEF Held
<1>6. \A u \in KernelThreads : \A q \in has[u] : PagesOf(q) \intersect PagesOf(r) = {}
  BY <1>3, Zenon DEF Held, RunsSolo
<1>7. ASSUME NEW u \in KernelThreads, NEW w \in KernelThreads, NEW x \in has'[u], NEW q \in has'[w],
             u # w \/ x # q
      PROVE  PagesOf(x) \intersect PagesOf(q) = {}
  <2>1. (x \in has[u] \/ (u = t /\ x = r)) /\ (q \in has[w] \/ (w = t /\ q = r))
    BY <1>1, <1>4, Zenon
  <2>2. CASE x \in has[u] /\ q \in has[w]
    BY <1>7, <2>2, Zenon DEF RunsSolo, RunsApart
  <2>3. CASE x \in has[u] /\ w = t /\ q = r
    BY <1>6, <2>3, Zenon
  <2>4. CASE u = t /\ x = r /\ q \in has[w]
    BY <1>6, <2>4, Zenon
  <2> QED BY <1>7, <2>1, <2>2, <2>3, <2>4, Zenon
<1>8. RunsApart'
  BY <1>7, Zenon DEF RunsApart
<1>9. RunsSolo(t)'
  BY <1>1, <1>3, <1>5, <1>8, SameMemory, Zenon DEF RunsSolo
<1>10. FramesSolo(t)'
  <2>1. \A v : Held(v)' \/ v \in MappedOf(t)' <=> Held(v) \/ v \in MappedOf(t)
    BY <1>3, <1>5, Zenon
  <2> QED BY <1>1, <1>3, <2>1, SameFrames, Zenon
<1> QED BY <1>9, <1>10, Zenon

\* pfree gives back the frame of the page that is unmapped next.
LEMMA SoloPfreeStore ==
  ASSUME TypeOK, RunInv, LockInv, UserInv, QuietInv, Locked, NEW t \in KernelThreads, Step(t),
         RunsSolo(t), FramesSolo(t), LoadedSolo(t), PfreeStore(t)
  PROVE  RunsSolo(t)' /\ FramesSolo(t)'
<1>0. PICK v, f : v = Vpage(t) /\ f = FrameOf(v)
  BY Zenon
<1>1. /\ pc[t] = "pfree_store" /\ pc'[t] = "unmap" /\ has' = has /\ run' = run /\ done' = done
      /\ mem' = StoreFrame(t, FALSE) /\ f = found[t]
  BY <1>0, SoloFacts, Zenon DEF PfreeStore, FramesSolo, At, Goto
<1>2. /\ v \in 0..Pages /\ v \in PagesOf(run[t]) /\ v = run[t].first + done[t]
      /\ run[t].first \in Nat /\ run[t].cnt \in Nat /\ done[t] \in Nat
  BY <1>0, <1>1, SoloFacts, VpageFacts, ZenonT(60) DEF Vpage
<1>3. /\ FoundOf(t)' = FoundOf(t) /\ MarkedOf(t)' = MarkedOf(t) /\ MappedOf(t)' = MappedOf(t)
      /\ v \in MappedOf(t)
      /\ \A x : ~Freed(t, x) /\ ~Mapping(t, x) /\ (Freed(t, x)' <=> x = v) /\ ~Mapping(t, x)'
  <2>1. PICK a, n : a = run[t].first /\ n = run[t].cnt
    BY Zenon
  <2>2. v \in a..(a + n - 1) /\ a \in Nat /\ n \in Nat
    BY <1>2, <2>1, Zenon DEF PagesOf
  <2>3. v \in v..(a + n - 1)
    BY <2>2
  <2>4. v \in MappedOf(t)
    BY <1>0, <1>1, <2>1, <2>3, Zenon DEF MappedOf, RestOf
  <2>5. FoundOf(t)' = FoundOf(t) /\ MarkedOf(t)' = MarkedOf(t) /\ MappedOf(t)' = MappedOf(t)
    BY <1>1, ZenonT(60) DEF FoundOf, MarkedOf, MappedOf, RestOf, Vpage
  <2>6. \A x : ~Freed(t, x) /\ ~Mapping(t, x) /\ (Freed(t, x)' <=> x = v) /\ ~Mapping(t, x)'
    BY <1>0, <1>1, ZenonT(60) DEF Freed, Mapping, Vpage
  <2> QED BY <2>4, <2>5, <2>6, Zenon
<1>4. f # NULL /\ f \in KernelFrames /\ f \in Frames
  BY <1>0, <1>2, <1>3, KernelFrameFacts, Zenon DEF FramesSolo
<1>6. /\ mem'.vaddr = mem.vaddr /\ mem'.pte = mem.pte /\ ~InPool(f)'
      /\ \A i \in 0..Pages : i # f[2] => mem'.pool[PF_KERNEL][i] = mem.pool[PF_KERNEL][i]
  <2>1. bits[t] = mem.pool[PF_KERNEL] /\ t \in Threads /\ f[1] = PF_KERNEL
    BY <1>1, <1>4, SoloFacts, ZenonT(60) DEF LoadedSolo, KernelFrames
  <2>2. /\ mem'.vaddr = mem.vaddr /\ mem'.pte = mem.pte /\ ~mem'.pool[f[1]][f[2]]
        /\ \A i \in 0..Pages : i # f[2] => mem'.pool[f[1]][i] = mem.pool[f[1]][i]
    BY <1>1, <2>1, GiveFrameStep, ZenonT(60)
  <2> QED BY <2>1, <2>2, Zenon DEF InPool
<1>7. \A g \in KernelFrames : g # f => (InPool(g)' <=> InPool(g))
  <2> TAKE g \in KernelFrames
  <2>1. g[1] = PF_KERNEL /\ g[2] \in 0..Pages /\ (g # f => g[2] # f[2])
    BY <1>4, PagingAssumption DEF KernelFrames, Frames
  <2> QED BY <1>6, <2>1, Zenon DEF InPool
<1>8. \A x : (Taken(x)' <=> Taken(x)) /\ FrameOf(x)' = FrameOf(x)
  BY <1>6, Zenon DEF Taken, FrameOf
<1>9. \A w \in 0..Pages : FrameOf(w) = f <=> w = v
  BY <1>0, <1>2, <1>4, Zenon DEF FramesSolo
<1>10. RunsSolo(t)'
  BY <1>1, <1>3, <1>8, SameRuns, Zenon DEF RunsSolo
<1>11. \A g \in KernelFrames :
         InPool(g)' <=> (\E w \in 0..Pages : FrameOf(w)' = g /\ ~Freed(t, w)') \/ Mapping(t, g)'
  <2> TAKE g \in KernelFrames
  <2>1. InPool(g) <=> \E w \in 0..Pages : FrameOf(w) = g
    BY <1>3, Zenon DEF FramesSolo
  <2> QED BY <1>3, <1>6, <1>7, <1>8, <1>9, <2>1, Zenon
<1>12. FramesSolo(t)'
  BY <1>1, <1>3, <1>8, <1>11, SameRuns, ZenonT(60) DEF FramesSolo
<1> QED BY <1>10, <1>12, Zenon

\* page_table_pte_remove unmaps the page.
LEMMA SoloUnmap ==
  ASSUME TypeOK, RunInv, LockInv, UserInv, QuietInv, Locked, NEW t \in KernelThreads, Step(t),
         RunsSolo(t), FramesSolo(t), Unmap(t)
  PROVE  RunsSolo(t)' /\ FramesSolo(t)'
<1>0. PICK v : v = Vpage(t)
  BY Zenon
<1> DEFINE S == PagesOf(run[t])
           last == run[t].first + run[t].cnt - 1
           more == done[t] + 1 # run[t].cnt
<1>1. /\ pc[t] = "unmap" /\ has' = has /\ run' = run /\ mem' = StorePte(mem, Kernel, v, NULL)
      /\ done'[t] = IF more THEN done[t] + 1 ELSE 0
      /\ pc'[t] = IF more THEN "pfree" ELSE "vaddr_clear"
  BY <1>0, SoloFacts, Zenon DEF Unmap, page_table_pte_remove, StorePte, At, Goto
<1>2. /\ v \in 0..VPages(Kernel) /\ v \in 0..Pages /\ v = run[t].first + done[t]
      /\ done[t] < run[t].cnt /\ run[t].first \in Nat /\ run[t].cnt \in Nat /\ done[t] \in Nat
      /\ v \in S /\ last \in Int /\ S = run[t].first..last
  <2>1. /\ v \in 0..VPages(Kernel) /\ VPages(Kernel) = Pages /\ v = run[t].first + done[t]
        /\ done[t] < run[t].cnt /\ v \in S
    BY <1>0, <1>1, SoloFacts, VpageFacts, Zenon DEF Vpage
  <2>2. run[t].first \in Nat /\ run[t].cnt \in Nat /\ done[t] \in Nat
    BY <1>1, SoloFacts, VpageFacts, Zenon
  <2>3. last \in Int
    <3> HIDE DEF S
    <3> QED BY <2>2
  <2> QED BY <2>1, <2>2, <2>3, Zenon DEF PagesOf
<1>3. /\ FoundOf(t) = S /\ MarkedOf(t) = S /\ MappedOf(t) = v..last
      /\ \A x : (Freed(t, x) <=> x = v) /\ ~Mapping(t, x)
  BY <1>0, <1>1, ZenonT(60) DEF FoundOf, MarkedOf, MappedOf, RestOf, Freed, Mapping
<1>4. /\ FoundOf(t)' = S /\ MarkedOf(t)' = S /\ MappedOf(t)' = (v + 1)..last
      /\ pc'[t] \notin {"palloc_set", "palloc_store", "pfree_store"}
      /\ \A x : ~Freed(t, x)' /\ ~Mapping(t, x)'
  <2>1. CASE more
    <3>1. Vpage(t)' = v + 1
      <4>1. Vpage(t)' = run[t].first + (done[t] + 1)
        BY <1>1, <2>1, Zenon DEF Vpage
      <4> QED BY <1>2, <4>1, NextPage, Zenon
    <3>2. RestOf(t)' = (v + 1)..last
      BY <1>1, <3>1, Zenon DEF RestOf
    <3> QED BY <1>1, <2>1, <3>2, Zenon DEF FoundOf, MarkedOf, MappedOf, Freed, Mapping
  <2>2. CASE ~more
    <3>1. PICK a, n, d : a = run[t].first /\ n = run[t].cnt /\ d = done[t]
      BY Zenon
    <3>2. /\ a \in Nat /\ n \in Nat /\ d \in Nat /\ d + 1 = n /\ v = a + d
          /\ last = a + n - 1 /\ S = a..(a + n - 1) /\ done'[t] = 0
      BY <1>1, <1>2, <2>2, <3>1, Zenon DEF PagesOf
    <3>3. (v + 1)..last = {} /\ a + 0 = a
      <4>1. (v + 1)..(a + n - 1) = {} /\ a + 0 = a
        <5> HIDE DEF S, last, more
        <5> QED BY <3>2
      <4> QED BY <3>1, <4>1, Zenon
    <3>4. Vpage(t)' = a
      BY <1>1, <3>1, <3>2, <3>3, Zenon DEF Vpage
    <3>5. RestOf(t)' = S
      BY <1>1, <3>1, <3>4, Zenon DEF RestOf, PagesOf
    <3>6. pc'[t] = "vaddr_clear"
      BY <1>1, <2>2, Zenon
    <3>7. FoundOf(t)' = S
      BY <1>1, <3>6, Zenon DEF FoundOf
    <3> QED BY <3>3, <3>5, <3>6, <3>7, Zenon DEF MarkedOf, MappedOf, Freed, Mapping
  <2> QED BY <2>1, <2>2, Zenon
<1>5. /\ mem'.pool = mem.pool /\ mem'.vaddr = mem.vaddr /\ mem'.pte[Kernel][v] = NULL
      /\ \A w \in 0..Pages : w # v => mem'.pte[Kernel][w] = mem.pte[Kernel][w]
  <2>1. NULL \in Entries /\ mem \in Memory /\ Kernel \in Spaces /\ VPages(Kernel) = Pages
    BY SoloFacts, ZenonT(60) DEF Entries
  <2>2. /\ mem'.pool = mem.pool /\ mem'.vaddr = mem.vaddr /\ mem'.pte[Kernel][v] = NULL
        /\ \A x \in Spaces : \A w \in 0..VPages(x) :
             (x # Kernel \/ w # v) => mem'.pte[x][w] = mem.pte[x][w]
    BY <1>1, <1>2, <2>1, PteFacts
  <2> QED BY <2>1, <2>2, Zenon
<1> HIDE DEF S, last, more
<1>6. \A x : Taken(x)' <=> Taken(x)
  BY <1>5, Zenon DEF Taken
<1>7. /\ FrameOf(v)' = NULL /\ \A w \in 0..Pages : w # v => FrameOf(w)' = FrameOf(w)
      /\ \A g : InPool(g)' <=> InPool(g)
  BY <1>5, Zenon DEF FrameOf, InPool
<1>8. \A x \in S : ~Held(x)
  BY <1>3, Zenon DEF RunsSolo
<1>9. RunsSolo(t)'
  BY <1>1, <1>3, <1>4, <1>6, <1>8, SameRuns, ZenonT(60) DEF RunsSolo
<1>10. \A w \in 0..Pages : w # v => (w \in MappedOf(t)' <=> w \in MappedOf(t))
  <2>1. v \in Int /\ last \in Int
    BY <1>2
  <2>2. \A w \in 0..Pages : w # v => (w \in (v + 1)..last <=> w \in v..last)
    BY <2>1
  <2> QED BY <1>3, <1>4, <2>2, ZenonT(60)
<1>11. v \notin MappedOf(t)' /\ ~Held(v)
  <2>1. v \notin (v + 1)..last
    BY <1>2
  <2> QED BY <1>2, <1>4, <1>8, <2>1, ZenonT(60)
<1>12. \A w \in 0..Pages : FrameOf(w)' # NULL <=> Held(w)' \/ w \in MappedOf(t)'
  BY <1>1, <1>7, <1>10, <1>11, SameRuns, Zenon DEF FramesSolo
<1>13. \A x, w \in 0..Pages : FrameOf(x)' # NULL /\ FrameOf(x)' = FrameOf(w)' => x = w
  BY <1>7, Zenon DEF FramesSolo
<1>14. \A g \in KernelFrames :
         InPool(g)' <=> (\E w \in 0..Pages : FrameOf(w)' = g /\ ~Freed(t, w)') \/ Mapping(t, g)'
  <2> TAKE g \in KernelFrames
  <2>1. InPool(g) <=> \E w \in 0..Pages : FrameOf(w) = g /\ w # v
    BY <1>3, Zenon DEF FramesSolo
  <2>2. g # NULL
    BY KernelFrameFacts, Zenon
  <2> QED BY <1>4, <1>7, <2>1, <2>2, Zenon
<1>15. FramesSolo(t)'
  BY <1>4, <1>12, <1>13, <1>14, Zenon DEF FramesSolo
<1> QED BY <1>9, <1>15, Zenon

\* vaddr_remove gives back a page of the run; after the last one the call is done.
LEMMA SoloVaddrClearStore ==
  ASSUME TypeOK, RunInv, LockInv, UserInv, QuietInv, Locked, NEW t \in KernelThreads, Step(t),
         RunsSolo(t), FramesSolo(t), LoadedSolo(t), VaddrClearStore(t)
  PROVE  RunsSolo(t)' /\ FramesSolo(t)'
<1>0. PICK v, a, n, d : v = Vpage(t) /\ a = run[t].first /\ n = run[t].cnt /\ d = done[t]
  BY Zenon
<1> DEFINE S == PagesOf(run[t])
           more == d + 1 # n
<1>1. /\ mem' = StorePage(t, FALSE) /\ has' = has /\ pc[t] = "vaddr_clear_store"
      /\ more => run' = run /\ done'[t] = d + 1 /\ pc'[t] = "vaddr_clear"
      /\ ~more => pc'[t] = "out"
  BY <1>0, SoloFacts, Zenon DEF VaddrClearStore, Leave, At, Goto
<1>2. /\ v \in 0..Pages /\ v \in S /\ v = a + d /\ a \in Nat /\ n \in Nat /\ d \in Nat /\ d < n
  BY <1>0, <1>1, SoloFacts, VpageFacts, ZenonT(60) DEF Vpage
<1>3. /\ MarkedOf(t) = v..(a + n - 1) /\ MappedOf(t) = {} /\ FoundOf(t) = S
      /\ \A x : ~Freed(t, x) /\ ~Mapping(t, x)
  BY <1>0, <1>1, ZenonT(60) DEF FoundOf, MarkedOf, MappedOf, RestOf, Freed, Mapping
<1>4. /\ MarkedOf(t)' = (v + 1)..(a + n - 1) /\ MappedOf(t)' = {} /\ FoundOf(t)' \subseteq S
      /\ pc'[t] \notin {"palloc_set", "palloc_store", "pfree_store"}
      /\ \A x : ~Freed(t, x)' /\ ~Mapping(t, x)'
  <2>1. CASE more
    <3>1. Vpage(t)' = v + 1
      <4>1. Vpage(t)' = a + (d + 1)
        BY <1>0, <1>1, <2>1, Zenon DEF Vpage
      <4> QED BY <1>2, <4>1, NextPage, Zenon
    <3>2. RestOf(t)' = (v + 1)..(a + n - 1)
      BY <1>0, <1>1, <2>1, <3>1, Zenon DEF RestOf
    <3> QED BY <1>1, <2>1, <3>2, ZenonT(60) DEF FoundOf, MarkedOf, MappedOf, Freed, Mapping
  <2>2. CASE ~more
    <3>1. (v + 1)..(a + n - 1) = {}
      BY <1>2, <2>2
    <3> QED BY <1>1, <2>2, <3>1, ZenonT(60) DEF FoundOf, MarkedOf, MappedOf, Freed, Mapping
  <2> QED BY <2>1, <2>2, Zenon
<1>5. \A x \in 0..Pages : x \in MarkedOf(t)' <=> x \in MarkedOf(t) /\ x # v
  <2>1. \A x \in 0..Pages : x \in (v + 1)..(a + n - 1) <=> x \in v..(a + n - 1) /\ x # v
    BY <1>2
  <2> QED BY <1>3, <1>4, <2>1, Zenon
<1>6. /\ mem'.pool = mem.pool /\ mem'.pte = mem.pte
      /\ ~Taken(v)' /\ \A x \in 0..Pages : x # v => (Taken(x)' <=> Taken(x))
  <2>1. bits[t] = mem.vaddr[Kernel] /\ t \in Threads
    BY <1>1, SoloFacts, ZenonT(60) DEF LoadedSolo
  <2>2. /\ mem'.pool = mem.pool /\ mem'.pte = mem.pte /\ ~mem'.vaddr[Kernel][v]
        /\ \A x \in 0..Pages : x # v => mem'.vaddr[Kernel][x] = mem.vaddr[Kernel][x]
    BY <1>0, <1>1, <1>2, <2>1, ClearPageStep, ZenonT(60)
  <2> QED BY <2>2, Zenon DEF Taken
<1> HIDE DEF S, more
<1>7. ~Held(v)
  BY <1>2, <1>3, Zenon DEF RunsSolo
<1>8. \A x \in 0..Pages : Taken(x)' <=> Held(x)' \/ x \in MarkedOf(t)'
  BY <1>1, <1>2, <1>5, <1>6, <1>7, SameRuns, Zenon DEF RunsSolo
<1>9. RunsSolo(t)'
  BY <1>1, <1>3, <1>4, <1>8, SameRuns, ZenonT(60) DEF RunsSolo
<1>10. FramesSolo(t)'
  BY <1>1, <1>3, <1>4, <1>6, SameRuns, SameFrames, ZenonT(60)
<1> QED BY <1>9, <1>10, Zenon

\* After its load a bitmap_set has the bits of the bitmap, and only a load leads to a store.
LEMMA SoloLoaded ==
  ASSUME TypeOK, RunInv, LockInv, UserInv, QuietInv, Locked, NEW t \in KernelThreads, Step(t)
  PROVE  LoadedSolo(t)'
<1> DEFINE stores == {"vaddr_store", "palloc_store", "pfree_store", "vaddr_clear_store"}
<1>1. ASSUME Loading(t) PROVE LoadedSolo(t)'
  <2>1. Pool(t) = PF_KERNEL /\ t \in Threads
    BY LockedSteps, Zenon
  <2> QED BY <1>1, <2>1, LoadFacts, ZenonT(60) DEF LoadedSolo
<1>2. ASSUME ~Loading(t) PROVE pc'[t] \notin stores
  <2>1. pc \in [Threads -> KernelLabels \union ProcessLabels] /\ t \in Threads
    BY SoloFacts, Zenon
  <2>2. ASSUME NEW cnt \in 1..MaxPages, Malloc(t, cnt) PROVE pc'[t] \notin stores
    BY <2>1, <2>2, Zenon DEF Malloc, Goto
  <2>3. ASSUME NEW r \in has[t], Free(t, r) PROVE pc'[t] \notin stores
    BY <2>1, <2>3, Zenon DEF Free, Goto
  <2>4. ASSUME VaddrScan(t) PROVE pc'[t] \notin stores
    BY <2>1, <2>4, Zenon DEF VaddrScan, Leave, At, Goto
  <2>5. ASSUME PallocScan(t) PROVE pc'[t] \notin stores
    BY <2>1, <2>5, Zenon DEF PallocScan, Scan, At, Goto
  <2>6. ASSUME Pte(t) PROVE pc'[t] \notin stores
    BY <2>1, <2>6, Zenon DEF Pte, Mapped, Goto
  <2>7. ASSUME VaddrStore(t) \/ PallocStore(t) \/ PfreeStore(t) \/ Unmap(t) PROVE pc'[t] \notin stores
    BY <2>1, <2>7, Zenon DEF VaddrStore, PallocStore, PfreeStore, Unmap, Goto
  <2>8. ASSUME Return(t) \/ VaddrClearStore(t) PROVE pc'[t] \notin stores
    BY <2>1, <2>8, Zenon DEF Return, VaddrClearStore, Leave, Goto
  <2> QED BY <1>2, <2>2, <2>3, <2>4, <2>5, <2>6, <2>7, <2>8, LockedSteps, Zenon
<1> QED BY <1>1, <1>2, Zenon DEF LoadedSolo

\* Every step of a thread of the kernel keeps the runs apart, and the bitmap, the page
\* table and the pool in agreement with them.
LEMMA SoloStep ==
  ASSUME TypeOK, RunInv, LockInv, UserInv, QuietInv, Locked, NEW t \in KernelThreads, Step(t),
         RunsSolo(t), FramesSolo(t), LoadedSolo(t)
  PROVE  RunsSolo(t)' /\ FramesSolo(t)' /\ LoadedSolo(t)'
<1>1. ASSUME NEW cnt \in 1..MaxPages, Malloc(t, cnt) PROVE RunsSolo(t)' /\ FramesSolo(t)'
  <2>1. has' = has /\ mem' = mem /\ pc[t] = "out" /\ pc'[t] = "vaddr_scan"
    BY <1>1, SoloFacts, Zenon DEF Malloc, At, Goto
  <2> QED BY <2>1, SoloSame, Zenon
<1> QED BY <1>1, SoloFree, SoloVaddrScan, SoloLoad, SoloVaddrStore, SoloPallocScan, SoloPallocStore,
           SoloPte, SoloReturn, SoloPfreeStore, SoloUnmap, SoloVaddrClearStore, SoloLoaded,
           LockedSteps, ZenonT(60)

-----------------------------------------------------------------------------
(* The page tables of processes, where no thread of the kernel allocates.  *)

\* What refers to a frame: an entry of a page table, or an entry of the page directory
\* of a process.
LEMMA UseFacts ==
  ASSUME NEW m \in Memory, NEW u \in Uses(m), FrameAt(m, u) # NULL
  PROVE  \/ \E s \in Spaces : \E v \in 0..VPages(s) :
              u = <<"pte", s, v>> /\ FrameAt(m, u) = m.pte[s][v]
         \/ \E p \in Processes : \E i \in Tables :
              u = <<"pde", p, i>> /\ FrameAt(m, u) = m.pde[p][i]
<1>1. CASE \E s \in Spaces, v \in 0..(Pages + UserPages) : u = <<"pte", s, v>>
  <2>1. PICK s \in Spaces, v \in 0..(Pages + UserPages) : u = <<"pte", s, v>>
    BY <1>1, Zenon
  <2>2. u[1] = "pte" /\ u[2] = s /\ u[3] = v
    BY <2>1, Zenon
  <2>3. DOMAIN m.pte[s] = 0..VPages(s)
    BY MemoryFields, Zenon
  <2>4. v \in 0..VPages(s) /\ FrameAt(m, u) = m.pte[s][v]
    BY <2>2, <2>3, Zenon DEF FrameAt
  <2> QED BY <2>1, <2>4, Zenon
<1>2. CASE \E p \in Processes, i \in Tables : u = <<"pde", p, i>>
  <2>1. PICK p \in Processes, i \in Tables : u = <<"pde", p, i>>
    BY <1>2, Zenon
  <2>2. u[1] = "pde" /\ u[2] = p /\ u[3] = i
    BY <2>1, Zenon
  <2> QED BY <2>1, <2>2, Zenon DEF FrameAt
<1> QED BY <1>1, <1>2 DEF Uses

\* An entry of a page table is one of the kernel's or one of a process.
LEMMA SpaceFacts ==
  ASSUME NEW s \in Spaces
  PROVE  (s = Kernel /\ VPages(s) = Pages) \/ (s \in Processes /\ VPages(s) = UserPages)
  BY PagingAssumption, Zenon DEF Spaces, VPages

\* Page tables that are of the kernel's pool, and one each, are nothing else if the
\* kernel has mapped no page.
LEMMA TablesOnly ==
  ASSUME NEW m \in Memory,
         \A v \in 0..Pages : m.pte[Kernel][v] = NULL,
         \A p \in Processes : \A v \in 0..UserPages :
           m.pte[p][v] # NULL => m.pte[p][v][1] = PF_USER,
         \A p \in Processes : \A i \in Tables : m.pde[p][i] # NULL =>
           /\ m.pde[p][i][1] = PF_KERNEL
           /\ \A q \in Processes : \A j \in Tables : m.pde[q][j] = m.pde[p][i] => q = p /\ j = i
  PROVE  TablesApart(m)
<1> SUFFICES ASSUME NEW p \in Processes, NEW i \in Tables, NEW u \in Uses(m),
                    m.pde[p][i] # NULL, FrameAt(m, u) = m.pde[p][i]
             PROVE  u = <<"pde", p, i>>
  BY Zenon DEF TablesApart
<1>1. /\ FrameAt(m, u) # NULL /\ FrameAt(m, u)[1] = PF_KERNEL /\ PF_KERNEL # PF_USER
      /\ \A q \in Processes : \A j \in Tables : m.pde[q][j] = FrameAt(m, u) => q = p /\ j = i
  BY DEF PF_KERNEL, PF_USER
<1>2. CASE \E s \in Spaces : \E v \in 0..VPages(s) :
             u = <<"pte", s, v>> /\ FrameAt(m, u) = m.pte[s][v]
  BY <1>1, <1>2, SpaceFacts
<1>3. CASE \E q \in Processes : \E j \in Tables :
             u = <<"pde", q, j>> /\ FrameAt(m, u) = m.pde[q][j]
  BY <1>1, <1>3, Zenon
<1> QED BY <1>1, <1>2, <1>3, UseFacts, ZenonT(60)

\* The steps of a process, which is the only one in a call: the lock of the user pool is
\* its own.
LEMMA ProcessSteps ==
  ASSUME TypeOK, RunInv, LockInv, NEW t \in Processes, Step(t)
  PROVE  /\ \/ GetAPage(t) \/ PallocScan(t) \/ Loading(t) \/ PallocStore(t) \/ Pte(t)
            \/ TableScan(t) \/ TableStore(t) \/ TablePde(t) \/ Return(t)
         /\ t \in Threads /\ SpaceOf(t) = t /\ Pool(t) = PF_USER /\ pc[t] \in ProcessLabels
         /\ \A u \in Processes : u # t => pc[u] = "out" /\ pc'[u] = "out"
         /\ \A u \in KernelThreads : pc'[u] = pc[u]
<1>1. /\ t \in Threads /\ t \notin KernelThreads /\ SpaceOf(t) = t /\ Pool(t) = PF_USER
      /\ Processes \subseteq Threads /\ KernelThreads \subseteq Threads /\ PF_USER \in pool_flags
  BY PagePoolAssumption, ThreadFacts, Zenon DEF Threads, pool_flags
<1>2. RunOf(t) /\ pc[t] \in ProcessLabels
  BY <1>1, Zenon DEF RunInv, RunOf
<1>3. ~\E cnt \in 1..MaxPages : Malloc(t, cnt) \/ GetKernelPages(t, cnt)
  BY <1>1, Zenon DEF Malloc, GetKernelPages
<1>4. ~\E r \in has[t] : Free(t, r)
  BY <1>2, Zenon DEF Free, RunOf
<1>5. ~(VaddrScan(t) \/ VaddrStore(t) \/ PfreeStore(t) \/ Unmap(t) \/ VaddrClearStore(t))
  BY <1>2, Zenon DEF VaddrScan, VaddrStore, PfreeStore, Unmap, VaddrClearStore, At, ProcessLabels
<1>6. \/ GetAPage(t) \/ PallocScan(t) \/ Loading(t) \/ PallocStore(t) \/ Pte(t)
      \/ TableScan(t) \/ TableStore(t) \/ TablePde(t) \/ Return(t)
  BY <1>3, <1>4, <1>5, Zenon DEF Step, Loading
<1>7. pc[t] # "out" \/ owner[PF_USER] = NULL
  <2>1. CASE GetAPage(t)
    BY <1>1, <2>1, TakeFacts, Zenon DEF GetAPage
  <2>2. CASE \/ PallocScan(t) \/ PallocStore(t) \/ Pte(t)
             \/ TableScan(t) \/ TableStore(t) \/ TablePde(t) \/ Return(t)
    BY <2>2, Zenon DEF PallocScan, PallocStore, Pte, TableScan, Scan, TableStore, TablePde, Return, At
  <2>3. CASE Loading(t)
    BY <2>3, Zenon DEF Loading, VaddrSet, PallocSet, TableSet, Pfree, VaddrClear, Load, At
  <2> QED BY <1>6, <2>1, <2>2, <2>3, Zenon
<1>8. NULL \notin Processes
  BY PagePoolAssumption, Zenon DEF Threads
<1>9. \A u \in Processes : u # t => pc[u] = "out"
  BY <1>7, <1>8, Zenon DEF LockInv
<1>10. \A u \in Threads : u # t => pc'[u] = pc[u]
  BY <1>1, OthersKeep, Zenon
<1> QED BY <1>1, <1>2, <1>6, <1>9, <1>10, Zenon

\* A page table is a frame that the kernel's pool marks, and each is one table, as long
\* as processes alone allocate.
LEMMA TablesStep ==
  ASSUME TypeOK, RunInv, LockInv, UserInv, TablesInv, NEW t \in Processes, Step(t), TypeOK'
  PROVE  TablesInv'
<1> USE DEF Goto, Begin, At, locks, call
<1>0. /\ mem \in Memory /\ pc \in [Threads -> KernelLabels \union ProcessLabels]
      /\ found \in [Threads -> Frames] /\ page \in [Threads -> Frames]
  BY Zenon DEF TypeOK
<1>T. /\ t \in Spaces /\ t # Kernel /\ Kernel \in Spaces /\ VPages(t) = UserPages
      /\ VPages(Kernel) = Pages
      /\ PF_KERNEL \in pool_flags /\ PF_USER \in pool_flags /\ PF_KERNEL # PF_USER
  BY PagingAssumption, Zenon DEF Spaces, VPages, pool_flags, PF_KERNEL, PF_USER
<1>P. /\ t \in Threads /\ SpaceOf(t) = t /\ Pool(t) = PF_USER /\ pc[t] \in ProcessLabels
      /\ \A u \in Processes : u # t => pc'[u] = "out"
      /\ \A u \in KernelThreads : pc'[u] = "out"
  BY ProcessSteps, Zenon DEF TablesInv
<1>I. TableTaken(t) /\ Allocating(t)
  BY <1>P, Zenon DEF TablesInv, UserInv
<1>1. \A u \in Processes : u # t => TableTaken(u)'
  BY <1>P, ZenonT(60) DEF TableTaken
<1>2. ASSUME mem'.pool[PF_KERNEL] = mem.pool[PF_KERNEL], mem'.pde = mem.pde,
             \A v \in 0..Pages : mem'.pte[Kernel][v] = mem.pte[Kernel][v],
             TableTaken(t)'
      PROVE  TablesInv'
  BY <1>P, <1>1, <1>2 DEF TablesInv
<1>3. ASSUME pc'[t] \notin {"table_set", "table_store", "table_pde"} PROVE TableTaken(t)'
  BY <1>3, Zenon DEF TableTaken
<1>4. ASSUME GetAPage(t) PROVE TablesInv'
  <2>1. /\ mem' = MarkRun(mem, t, (UserPages - 1)..(UserPages - 1 + 1 - 1))
        /\ pc'[t] = "palloc_scan"
    BY <1>0, <1>P, <1>4, Zenon DEF GetAPage, vaddr_get, SetRun, StoreRun, MarkRun
  <2>2. mem'.pool = mem.pool /\ mem'.pte = mem.pte /\ mem'.pde = mem.pde
    BY <1>0, <1>T, <2>1, MarkFacts
  <2> QED BY <1>2, <1>3, <2>1, <2>2, Zenon
<1>5. ASSUME PallocScan(t) PROVE TablesInv'
  <2>1. (mem' = mem \/ mem' = Fault(mem, "full")) /\ pc'[t] \in {"palloc_scan", "palloc_set"}
    BY <1>0, <1>P, <1>5, Zenon DEF PallocScan, Scan
  <2>2. mem'.pool = mem.pool /\ mem'.pte = mem.pte /\ mem'.pde = mem.pde
    BY <1>0, <2>1, FaultFacts, ZenonT(60)
  <2> QED BY <1>2, <1>3, <2>1, <2>2, Zenon
<1>6. ASSUME Loading(t) PROVE TablesInv'
  <2>1. /\ mem' = mem
        /\ \/ pc'[t] \in {"vaddr_store", "palloc_store", "pfree_store", "vaddr_clear_store"}
           \/ /\ pc[t] = "table_set" /\ pc'[t] = "table_store"
              /\ found' = found /\ bits'[t] = mem.pool[PF_KERNEL]
    BY <1>P, <1>6, LoadFacts, Zenon
  <2>2. TableTaken(t)'
    BY <1>3, <1>I, <2>1, Zenon DEF TableTaken
  <2> QED BY <1>2, <2>1, <2>2, Zenon
<1>7. ASSUME PallocStore(t) PROVE TablesInv'
  <2>1. /\ mem' = StoreFrame(t, TRUE) /\ pc'[t] = "pte" /\ found[t][1] = PF_USER
    BY <1>0, <1>P, <1>I, <1>7, ZenonT(60) DEF PallocStore, Allocating
  <2>2. /\ mem'.pte = mem.pte /\ mem'.pde = mem.pde
        /\ \A pf \in pool_flags : pf # found[t][1] => mem'.pool[pf] = mem.pool[pf]
    BY <1>P, <2>1, TakeFrameStep, ZenonT(60)
  <2> QED BY <1>T, <1>2, <1>3, <2>1, <2>2, Zenon
<1>8. ASSUME NEW m \in Memory, Mapped(t, m), pc[t] \in {"pte", "table_pde"}
      PROVE  /\ mem'.pool = m.pool /\ mem'.pde = m.pde
             /\ \A v \in 0..Pages : mem'.pte[Kernel][v] = m.pte[Kernel][v]
             /\ pc'[t] \in {"return", "palloc_scan"}
  <2>1. PICK v, f : v = Vpage(t) /\ f = page[t]
    BY Zenon
  <2>2. /\ v \in 0..VPages(t) /\ f \in Frames
        /\ mem' = SetPte(m, t, v, f) /\ pc'[t] \in {"return", "palloc_scan"}
    BY <1>0, <1>P, <1>8, <2>1, VpageFacts, Zenon DEF Mapped
  <2>3. /\ mem'.pool = m.pool /\ mem'.pde = m.pde
        /\ \A x \in Spaces : \A w \in 0..VPages(x) :
             \/ mem'.pte[x][w] = m.pte[x][w]
             \/ x = t /\ w = v /\ mem'.pte[x][w] = f
    BY <1>T, <2>2, SetPteFacts
  <2> QED BY <1>T, <2>2, <2>3, Zenon
<1>9. ASSUME Pte(t) PROVE TablesInv'
  <2>1. CASE HasTable(mem, SpaceOf(t), Vpage(t))
    <3>1. Mapped(t, mem) /\ pc[t] = "pte"
      BY <1>9, <2>1, Zenon DEF Pte
    <3> QED BY <1>0, <1>2, <1>3, <1>8, <3>1, Zenon
  <2>2. CASE ~HasTable(mem, SpaceOf(t), Vpage(t))
    <3>1. mem' = mem /\ pc'[t] = "table_scan"
      BY <1>0, <1>P, <1>9, <2>2, Zenon DEF Pte
    <3> QED BY <1>2, <1>3, <3>1, Zenon
  <2> QED BY <2>1, <2>2, Zenon
<1>10. ASSUME TableScan(t) PROVE TablesInv'
  <2>1. CASE PoolFull(mem, PF_KERNEL)
    <3>1. mem' = Fault(mem, "full") /\ pc'[t] = "table_scan"
      BY <1>10, <2>1, Zenon DEF TableScan, Scan
    <3>2. mem'.pool = mem.pool /\ mem'.pte = mem.pte /\ mem'.pde = mem.pde
      BY <1>0, <3>1, FaultFacts, Zenon
    <3> QED BY <1>2, <1>3, <3>1, <3>2, Zenon
  <2>2. CASE ~PoolFull(mem, PF_KERNEL)
    <3>1. mem' = mem /\ pc'[t] = "table_set" /\ found'[t] = FreeFrame(mem, PF_KERNEL)
      BY <1>0, <1>P, <1>10, <2>2, Zenon DEF TableScan, Scan
    <3>2. ~mem.pool[PF_KERNEL][found'[t][2]]
      BY <1>0, <1>T, <2>2, <3>1, FreeFrameFacts, Zenon
    <3>3. TableTaken(t)'
      BY <3>1, <3>2, ZenonT(60) DEF TableTaken
    <3> QED BY <1>2, <3>1, <3>3, Zenon
  <2> QED BY <2>1, <2>2, Zenon
<1>11. ASSUME TableStore(t) PROVE TablesInv'
  <2>1. PICK f \in Frames : f = found[t]
    BY <1>0, <1>P, Zenon
  <2>2. /\ mem' = StoreFrame(t, TRUE) /\ pc'[t] = "table_pde" /\ found' = found
        /\ f[1] = PF_KERNEL /\ bits[t] = mem.pool[PF_KERNEL] /\ ~mem.pool[PF_KERNEL][f[2]]
    BY <1>0, <1>P, <1>I, <1>11, <2>1, ZenonT(60) DEF TableStore, Allocating, TableTaken
  <2>3. /\ mem'.pte = mem.pte /\ mem'.pde = mem.pde /\ mem'.pool[f[1]][f[2]]
        /\ bits[t] = mem.pool[f[1]] =>
             \A i \in 0..Pages : i # f[2] => mem'.pool[f[1]][i] = mem.pool[f[1]][i]
    BY <1>P, <2>1, <2>2, TakeFrameStep, ZenonT(60)
  <2>4. /\ mem'.pool[PF_KERNEL][f[2]]
        /\ \A i \in 0..Pages : mem.pool[PF_KERNEL][i] => mem'.pool[PF_KERNEL][i]
    BY <2>2, <2>3, Zenon
  <2>5. ASSUME NEW p \in Processes, NEW i \in Tables, mem.pde[p][i] # NULL
        PROVE  mem.pde[p][i] # f /\ mem'.pool[PF_KERNEL][mem.pde[p][i][2]]
    <3>1. mem.pool[PF_KERNEL][mem.pde[p][i][2]]
      BY <2>5, ZenonT(60) DEF TablesInv
    <3>2. mem.pde[p][i] \in Frames
      BY <1>0, <2>5 DEF Memory
    <3>3. mem.pde[p][i][2] \in 0..Pages
      BY <3>2, PagingAssumption DEF Frames
    <3> QED BY <2>2, <2>4, <3>1, <3>3, Zenon
  <2>6. f # NULL
    BY NullAssumption, Zenon
  <2>7. TableTaken(t)'
    <3>1. found'[t] = f
      BY <2>1, <2>2, ZenonT(60)
    <3>2. \A p \in Processes : \A i \in Tables : mem'.pde[p][i] # f
      BY <2>3, <2>5, <2>6
    <3> QED BY <2>2, <2>4, <3>1, <3>2, Zenon DEF TableTaken
  <2> QED BY <1>P, <1>1, <2>3, <2>5, <2>7 DEF TablesInv
<1>12. ASSUME TablePde(t) PROVE TablesInv'
  <2>1. PICK f \in Frames, j \in Tables : f = found[t] /\ j = Vpage(t) \div TablePages
    <3>1. found[t] \in Frames /\ Vpage(t) \in 0..UserPages
      BY <1>0, <1>T, <1>P, <1>12, VpageFacts, Zenon DEF TablePde
    <3> QED BY <3>1, TableIndex, Zenon
  <2>2. PICK m : m = StorePde(mem, t, j, f)
    BY Zenon
  <2>3. /\ m \in Memory /\ m.pool = mem.pool /\ m.pte = mem.pte /\ m.pde[t][j] = f
        /\ \A q \in Processes : \A i \in Tables :
             (q # t \/ i # j) => m.pde[q][i] = mem.pde[q][i]
    BY <1>0, <2>2, PdeFacts
  <2>4. Mapped(t, m) /\ pc[t] = "table_pde"
    BY <1>P, <1>12, <2>1, <2>2, Zenon DEF TablePde, StorePde
  <2>5. /\ mem'.pool = mem.pool /\ mem'.pde = m.pde /\ pc'[t] \in {"return", "palloc_scan"}
        /\ \A v \in 0..Pages : mem'.pte[Kernel][v] = mem.pte[Kernel][v]
    BY <1>8, <2>3, <2>4, Zenon
  <2>6. /\ mem.pool[PF_KERNEL][f[2]]
        /\ \A p \in Processes : \A i \in Tables : mem.pde[p][i] # f
    BY <1>I, <2>1, <2>4, Zenon DEF TableTaken
  <2>7. ASSUME NEW p \in Processes, NEW i \in Tables, mem'.pde[p][i] # NULL
        PROVE  /\ mem'.pool[PF_KERNEL][mem'.pde[p][i][2]]
               /\ \A q \in Processes : \A k \in Tables :
                    mem'.pde[q][k] = mem'.pde[p][i] => q = p /\ k = i
    <3>1. CASE p = t /\ i = j
      BY <2>3, <2>5, <2>6, <3>1
    <3>2. CASE p # t \/ i # j
      <4>1. mem'.pde[p][i] = mem.pde[p][i] /\ mem.pde[p][i] # NULL
        BY <2>3, <2>5, <2>7, <3>2, Zenon
      <4>2. /\ mem.pool[PF_KERNEL][mem.pde[p][i][2]]
            /\ \A q \in Processes : \A k \in Tables :
                 mem.pde[q][k] = mem.pde[p][i] => q = p /\ k = i
        BY <4>1, Zenon DEF TablesInv
      <4> QED BY <2>3, <2>5, <2>6, <4>1, <4>2
    <3> QED BY <3>1, <3>2, ZenonT(60)
  <2>8. TableTaken(t)'
    BY <1>3, <2>5, Zenon
  <2> QED BY <1>P, <1>1, <2>5, <2>7, <2>8, ZenonT(60) DEF TablesInv
<1>13. ASSUME Return(t) PROVE TablesInv'
  <2>1. mem' = mem /\ pc'[t] = "out"
    BY <1>0, <1>P, <1>13, ZenonT(60) DEF Return, Leave
  <2> QED BY <1>2, <1>3, <2>1, Zenon
<1> QED BY <1>4, <1>5, <1>6, <1>7, <1>9, <1>10, <1>11, <1>12, <1>13, ProcessSteps, ZenonT(60)

\* What is said of the page tables depends on nothing else.
LEMMA TablesSame ==
  ASSUME TablesInv, mem' = mem, pc' = pc, found' = found, bits' = bits
  PROVE  TablesInv'
<1>1. \A t : TableTaken(t) => TableTaken(t)'
  BY Zenon DEF TableTaken
<1> QED BY <1>1 DEF TablesInv

\* Page tables that are one each have no other use.
LEMMA TablesKeepApart ==
  ASSUME TypeOK', UserInv', TablesInv'
  PROVE  TablesApart(mem')
<1>1. /\ mem' \in Memory
      /\ \A v \in 0..Pages : mem'.pte[Kernel][v] = NULL
      /\ \A p \in Processes : \A v \in 0..UserPages :
           mem'.pte[p][v] # NULL => mem'.pte[p][v][1] = PF_USER
      /\ \A p \in Processes : \A i \in Tables : mem'.pde[p][i] # NULL =>
           /\ mem'.pde[p][i][1] = PF_KERNEL
           /\ \A q \in Processes : \A j \in Tables :
                mem'.pde[q][j] = mem'.pde[p][i] => q = p /\ j = i
  BY DEF TypeOK, UserInv, UserMapped, TablesInv
<1> QED BY <1>1, TablesOnly

-----------------------------------------------------------------------------
(* The invariant.                                                          *)

\* mem_pool_init leaves every bit clear and every entry of a page table empty.
LEMMA PoolInit ==
  /\ mem_pool_init \in Memory
  /\ \A pf \in pool_flags : \A i \in 0..Pages : ~mem_pool_init.pool[pf][i]
  /\ \A s \in Spaces : \A v \in 0..VPages(s) :
       ~mem_pool_init.vaddr[s][v] /\ mem_pool_init.pte[s][v] = NULL
  /\ \A p \in Processes : \A i \in Tables : mem_pool_init.pde[p][i] = NULL
<1> DEFINE m == mem_pool_init
           clear(n) == [i \in 0..n |-> FALSE]
<1>1. \A n : bitmap_init(n, FALSE) = clear(n)
  BY Zenon DEF bitmap_init
<1>2. /\ DOMAIN m = {"pool", "vaddr", "pte", "pde", "fault"}
      /\ m.pool = [pf \in pool_flags |-> clear(Pages)]
      /\ m.vaddr = [s \in Spaces |-> clear(VPages(s))]
      /\ m.pte = [s \in Spaces |-> [v \in 0..VPages(s) |-> NULL]]
      /\ m.pde = [p \in Processes |-> [i \in Tables |-> NULL]]
      /\ m.fault = "none"
      /\ m = [pool |-> m.pool, vaddr |-> m.vaddr, pte |-> m.pte, pde |-> m.pde, fault |-> "none"]
  BY <1>1, Zenon DEF mem_pool_init
<1> HIDE DEF m
<1>3. m.pool \in [pool_flags -> [0..Pages -> BOOLEAN]]
  BY <1>2
<1>4. /\ m.vaddr \in [Spaces -> UNION {[0..n -> BOOLEAN] : n \in SpaceSizes}]
      /\ \A s \in Spaces : DOMAIN m.vaddr[s] = 0..VPages(s)
  <2>1. \A s \in Spaces : clear(VPages(s)) \in [0..VPages(s) -> BOOLEAN] /\ VPages(s) \in SpaceSizes
    BY Zenon DEF VPages, SpaceSizes
  <2> QED BY <1>2, <2>1
<1>5. /\ m.pte \in [Spaces -> UNION {[0..n -> Frames \union {NULL}] : n \in SpaceSizes}]
      /\ \A s \in Spaces : DOMAIN m.pte[s] = 0..VPages(s)
  <2>1. \A s \in Spaces : /\ [v \in 0..VPages(s) |-> NULL] \in [0..VPages(s) -> Frames \union {NULL}]
                          /\ VPages(s) \in SpaceSizes
    BY Zenon DEF VPages, SpaceSizes
  <2> QED BY <1>2, <2>1
<1>6. m.pde \in [Processes -> [Tables -> Frames \union {NULL}]]
  BY <1>2
<1>7. m \in Memory
  BY <1>2, <1>3, <1>4, <1>5, <1>6, Zenon DEF Memory
<1> QED BY <1>2, <1>7 DEF m

\* The kernel starts with nothing allocated and no thread in a call.
LEMMA InitInv ==
  ASSUME Init
  PROVE  IInv
<1>1. /\ setting \in Settings /\ mem = mem_pool_init
      /\ \A pf \in pool_flags : owner[pf] = NULL /\ nesting[pf] = 0
      /\ owner \in [pool_flags -> Threads \union {NULL}] /\ nesting \in [pool_flags -> {0, 1}]
      /\ \A t \in Threads : /\ pc[t] = "out" /\ run[t] = NoRun /\ done[t] = 0
                            /\ has[t] = {}
      /\ clash = FALSE
  BY Zenon DEF Init, Lock!Init
<1>2. /\ mem \in Memory
      /\ \A pf \in pool_flags : \A i \in 0..Pages : ~mem.pool[pf][i]
      /\ \A s \in Spaces : \A v \in 0..VPages(s) : ~mem.vaddr[s][v] /\ mem.pte[s][v] = NULL
      /\ \A p \in Processes : \A i \in Tables : mem.pde[p][i] = NULL
  BY <1>1, PoolInit, Zenon
<1>3. TypeOK
  <2>1. NoRun \in Runs /\ NoFrame \in Frames /\ 0 \in 0..MaxPages
    BY PagingAssumption, PagePoolAssumption DEF NoRun, Runs, NoFrame, Frames, pool_flags
  <2>2. pc \in [Threads -> KernelLabels \union ProcessLabels]
    BY Zenon DEF Init, KernelLabels
  <2>3. /\ run \in [Threads -> Runs] /\ done \in [Threads -> 0..MaxPages]
        /\ found \in [Threads -> Frames] /\ page \in [Threads -> Frames]
        /\ has \in [Threads -> SUBSET Runs]
    BY <2>1, Zenon DEF Init
  <2>4. bits \in [Threads -> [0..Pages -> BOOLEAN]] /\ clash \in BOOLEAN
    BY Zenon DEF Init, NoBits, bitmap_init
  <2> QED BY <1>1, <1>2, <2>2, <2>3, <2>4, ZenonT(60) DEF TypeOK
<1>4. NoRun.first = 0 /\ NoRun.cnt = 1 /\ ~NoRun.heap
  BY Zenon DEF NoRun
<1>5. RunInv
  <2> SUFFICES ASSUME NEW t \in Threads PROVE RunOf(t)
    BY Zenon DEF RunInv
  <2> QED BY <1>1, <1>4, ThreadFacts DEF RunOf, KernelLabels, ProcessLabels
<1>6. LockInv
  BY <1>1, PagePoolAssumption, ZenonT(60) DEF LockInv, Threads, pool_flags
<1>7. UserInv
  <2>1. Kernel \in Spaces /\ VPages(Kernel) = Pages
        /\ \A p \in Processes : p \in Spaces /\ VPages(p) = UserPages
    BY PagingAssumption, Zenon DEF VPages, Spaces
  <2>2. UserMapped
    BY <1>2, <2>1, Zenon DEF UserMapped
  <2>3. \A t \in Threads : Allocating(t)
    BY <1>1, Zenon DEF Allocating
  <2> QED BY <2>2, <2>3, Zenon DEF UserInv
<1>8. QuietInv /\ RunsInv /\ FramesInv /\ LoadedInv
  <2>1. /\ Kernel \in Spaces /\ VPages(Kernel) = Pages
        /\ PF_KERNEL \in pool_flags /\ PF_USER \in pool_flags
        /\ \A p \in Processes : p \in Spaces /\ VPages(p) = UserPages
        /\ KernelThreads \subseteq Threads /\ Processes \subseteq Threads
    BY PagingAssumption, Zenon DEF VPages, Spaces, pool_flags, Threads
  <2>2. /\ \A t \in KernelThreads : /\ pc[t] = "out" /\ has[t] = {}
                                    /\ FoundOf(t) = {} /\ MarkedOf(t) = {} /\ MappedOf(t) = {}
                                    /\ \A v : ~Freed(t, v) /\ ~Mapping(t, v)
        /\ \A v : ~Held(v)
    BY <1>1, <2>1, Zenon DEF FoundOf, MarkedOf, MappedOf, Freed, Mapping, Held
  <2>3. QuietInv
    BY <1>1, <1>2, <2>1, Zenon DEF QuietInv
  <2>4. /\ \A v \in 0..Pages : ~Taken(v) /\ FrameOf(v) = NULL
        /\ \A f \in KernelFrames : ~InPool(f) /\ f # NULL
    <3>1. \A f \in KernelFrames : f[1] \in pool_flags /\ f[2] \in 0..Pages /\ f # NULL
      BY PagingAssumption, NullAssumption DEF KernelFrames, Frames
    <3> QED BY <1>2, <2>1, <3>1 DEF Taken, FrameOf, InPool
  <2>5. RunsInv
    BY <2>2, <2>4, Zenon DEF RunsInv, RunsApart
  <2>6. FramesInv
    BY <2>2, <2>4, Zenon DEF FramesInv
  <2>7. LoadedInv
    BY <2>2, Zenon DEF LoadedInv
  <2> QED BY <2>3, <2>5, <2>6, <2>7, Zenon
<1>9. TablesInv
  <2>1. Kernel \in Spaces /\ VPages(Kernel) = Pages
    BY PagingAssumption, Zenon DEF VPages, Spaces
  <2>2. /\ \A t \in KernelThreads : pc[t] = "out"
        /\ \A t \in Processes : TableTaken(t)
    BY <1>1, Zenon DEF Threads, TableTaken
  <2> QED BY <1>2, <2>1, <2>2, Zenon DEF TablesInv
<1> QED BY <1>1, <1>3, <1>5, <1>6, <1>7, <1>8, <1>9, Zenon DEF IInv

\* What the page tables map is a matter of the memory alone.
LEMMA SameMappings ==
  ASSUME mem' = mem
  PROVE  UserMapped' <=> UserMapped
BY DEF UserMapped

\* Every step of every thread, in every setting, keeps the invariant.
LEMMA NextInv ==
  ASSUME IInv, [Next]_vars
  PROVE  IInv'
<1> USE DEF IInv
<1>1. CASE UNCHANGED vars
  <2> USE <1>1 DEF vars, locks, call
  <2>1. TypeOK' /\ RunInv' /\ LockInv'
    BY ZenonT(60) DEF TypeOK, RunInv, RunOf, LockInv
  <2>2. UserInv'
    <3>1. mem' = mem
      BY ZenonT(60)
    <3>2. UserMapped' <=> UserMapped
      BY <3>1, SameMappings, Zenon
    <3>3. \A t \in Threads : Allocating(t)'
      BY ZenonT(60) DEF UserInv, Allocating
    <3> QED BY <3>2, <3>3, Zenon DEF UserInv
  <2>3. /\ (Locked' <=> Locked) /\ (QuietInv' <=> QuietInv) /\ (LoadedInv' <=> LoadedInv)
        /\ (ProcessesAlone' <=> ProcessesAlone) /\ (clash' <=> clash)
    BY ZenonT(60) DEF Locked, ProcessesAlone, QuietInv, LoadedInv
  <2>4. \A t : /\ FoundOf(t)' = FoundOf(t) /\ MarkedOf(t)' = MarkedOf(t)
               /\ MappedOf(t)' = MappedOf(t)
               /\ \A v : (Freed(t, v)' <=> Freed(t, v)) /\ (Mapping(t, v)' <=> Mapping(t, v))
    BY Zenon DEF FoundOf, MarkedOf, MappedOf, FirstOf, RestOf, Freed, Mapping, Vpage
  <2>5. /\ (RunsApart' <=> RunsApart) /\ \A v : Held(v)' <=> Held(v)
        /\ \A v : (Taken(v)' <=> Taken(v)) /\ FrameOf(v)' = FrameOf(v)
        /\ \A f : InPool(f)' <=> InPool(f)
    BY SameRuns, SameMemory, Zenon
  <2>6. RunsInv => RunsInv'
    BY <2>4, <2>5, Zenon DEF RunsInv
  <2>7. FramesInv => FramesInv'
    <3>1. pc' = pc /\ found' = found /\ \A t : Vpage(t)' = Vpage(t)
      BY ZenonT(60) DEF Vpage
    <3> QED BY <2>4, <2>5, <3>1, Zenon DEF FramesInv
  <2>8. TablesInv => TablesInv'
    <3>1. mem' = mem /\ pc' = pc /\ found' = found /\ bits' = bits
      BY ZenonT(60)
    <3> QED BY <3>1, TablesSame, Zenon
  <2> QED BY <2>1, <2>2, <2>3, <2>6, <2>7, <2>8, Zenon
<1>2. ASSUME NEW t \in setting.threads, Step(t), clash' = ~TablesApart(mem'), UNCHANGED setting
      PROVE  IInv'
  <2>1. t \in Threads
    BY PagePoolAssumption, Zenon DEF TypeOK
  <2>2. TypeOK'
    <3>1. clash' \in BOOLEAN
      BY <1>2
    <3> QED BY <1>2, <2>1, <3>1, TypeStep, Zenon
  <2>3. RunInv'
    BY <1>2, <2>1, <2>2, RunStep, Zenon
  <2>4. LockInv'
    BY <1>2, <2>1, <2>2, LockStep, Zenon
  <2>5. UserInv'
    BY <1>2, <2>1, <2>2, <2>3, UserStep, Zenon
  <2>6. ASSUME Locked PROVE QuietInv' /\ RunsInv' /\ FramesInv' /\ LoadedInv'
    <3>1. t \in KernelThreads /\ QuietInv /\ RunsInv /\ FramesInv /\ LoadedInv
      BY <2>6, Zenon DEF Locked
    <3>2. \A u \in KernelThreads : u # t => pc[u] = "out" /\ pc'[u] = "out"
      BY <1>2, <2>6, <3>1, LockedSteps, Zenon
    <3>3. RunsSolo(t) /\ FramesSolo(t) /\ LoadedSolo(t)
      BY <3>1, <3>2, SoloBefore, Zenon
    <3>4. RunsSolo(t)' /\ FramesSolo(t)' /\ LoadedSolo(t)'
      BY <1>2, <2>6, <3>1, <3>3, SoloStep, Zenon
    <3>5. RunsInv' /\ FramesInv' /\ LoadedInv'
      BY <3>1, <3>2, <3>4, SoloAfter, Zenon
    <3>6. QuietInv'
      BY <1>2, <2>6, <3>1, QuietStep, Zenon
    <3> QED BY <3>5, <3>6, Zenon
  <2>7. ASSUME ProcessesAlone PROVE TablesInv' /\ ~clash'
    <3>1. t \in Processes /\ TablesInv
      BY <2>1, <2>7, Zenon DEF ProcessesAlone, Threads
    <3>2. TablesInv'
      BY <1>2, <2>2, <3>1, TablesStep, Zenon
    <3>3. TablesApart(mem')
      BY <2>2, <2>5, <3>2, TablesKeepApart, Zenon
    <3> QED BY <1>2, <3>2, <3>3, ZenonT(60)
  <2>8. (Locked' <=> Locked) /\ (ProcessesAlone' <=> ProcessesAlone)
    BY <1>2, Zenon DEF Locked, ProcessesAlone
  <2> QED BY <2>2, <2>3, <2>4, <2>5, <2>6, <2>7, <2>8, Zenon
<1> QED BY <1>1, <1>2, Zenon DEF Next

\* The invariant holds in every reachable state, for any number of threads, processes
\* and pages, whatever the threads call.
THEOREM Invariance == Spec => []IInv
<1>1. Init => IInv
  BY InitInv, Zenon
<1>2. IInv /\ [Next]_vars => IInv'
  BY NextInv, Zenon
<1> QED BY <1>1, <1>2, PTL DEF Spec

\* A frame of the user pool that get_a_page maps is mapped once, in every setting, until
\* the frame of a page table has a second use; and that never happens while processes
\* start and no thread of the kernel allocates.
THEOREM UserFramesApart == Spec => []UserFramesNotShared
<1>1. IInv => UserFramesNotShared
  <2>0. ASSUME IInv, clash PROVE ~ProcessesAlone
    BY <2>0, Zenon DEF IInv
  <2> SUFFICES ASSUME IInv, NEW u \in Uses(mem), NEW w \in Uses(mem),
                      FrameAt(mem, u) # NULL, FrameAt(mem, u)[1] = PF_USER,
                      FrameAt(mem, u) = FrameAt(mem, w)
               PROVE  u = w
    BY <2>0, Zenon DEF UserFramesNotShared
  <2>1. mem \in Memory /\ UserMapped /\ PF_USER # PF_KERNEL
    BY Zenon DEF IInv, TypeOK, UserInv, PF_USER, PF_KERNEL
  <2>2. ASSUME NEW x \in Uses(mem), FrameAt(mem, x) = FrameAt(mem, u)
        PROVE  \E p \in Processes : \E v \in 0..UserPages :
                 x = <<"pte", p, v>> /\ FrameAt(mem, x) = mem.pte[p][v]
    <3>1. ~\E p \in Processes : \E i \in Tables :
             x = <<"pde", p, i>> /\ FrameAt(mem, x) = mem.pde[p][i]
      BY <2>1, <2>2 DEF UserMapped
    <3>2. PICK s \in Spaces : \E v \in 0..VPages(s) :
                 x = <<"pte", s, v>> /\ FrameAt(mem, x) = mem.pte[s][v]
      BY <2>1, <2>2, <3>1, UseFacts, Zenon
    <3>3. ASSUME s = Kernel PROVE FALSE
      <4>1. PICK v \in 0..Pages : FrameAt(mem, x) = mem.pte[Kernel][v]
        BY <3>2, <3>3, SpaceFacts, PagingAssumption, Zenon
      <4>2. mem.pte[Kernel][v] # NULL /\ mem.pte[Kernel][v][1] = PF_USER
        BY <2>2, <4>1, Zenon
      <4> QED BY <2>1, <4>2, Zenon DEF UserMapped
    <3> QED BY <3>2, <3>3, SpaceFacts, ZenonT(60)
  <2>3. PICK p \in Processes, v \in 0..UserPages :
          u = <<"pte", p, v>> /\ FrameAt(mem, u) = mem.pte[p][v]
    BY <2>2, Zenon
  <2>4. PICK q \in Processes, x \in 0..UserPages :
          w = <<"pte", q, x>> /\ FrameAt(mem, w) = mem.pte[q][x]
    BY <2>2, ZenonT(60)
  <2>5. q = p /\ x = v
    BY <2>1, <2>3, <2>4 DEF UserMapped
  <2> QED BY <2>3, <2>4, <2>5, Zenon
<1> QED BY <1>1, Invariance, PTL

\* With only sys_malloc and sys_free running, everything that refers to a frame is an
\* entry of the kernel's page table.
LEMMA LockedUses ==
  ASSUME IInv, Locked, NEW u \in Uses(mem), FrameAt(mem, u) # NULL
  PROVE  \E v \in 0..Pages : u = <<"pte", Kernel, v>> /\ FrameAt(mem, u) = FrameOf(v)
<1>1. mem \in Memory /\ QuietInv
  BY Zenon DEF IInv, TypeOK
<1>2. ~\E p \in Processes : \E i \in Tables :
         u = <<"pde", p, i>> /\ FrameAt(mem, u) = mem.pde[p][i]
  BY <1>1, Zenon DEF QuietInv
<1>3. PICK s \in Spaces : \E v \in 0..VPages(s) :
             u = <<"pte", s, v>> /\ FrameAt(mem, u) = mem.pte[s][v]
  BY <1>1, <1>2, UseFacts, Zenon
<1>4. s = Kernel /\ VPages(s) = Pages
  BY <1>1, <1>3, SpaceFacts, Zenon DEF QuietInv
<1> QED BY <1>3, <1>4, Zenon DEF FrameOf

\* While the pages of the kernel are allocated and freed by sys_malloc and sys_free only,
\* which hold the lock of the pool across their scan and their set, no page is in use by
\* two threads and no frame is mapped twice.
THEOREM PagesApart == Spec => []PagesExclusive
<1>1. IInv => PagesExclusive
  <2> SUFFICES ASSUME IInv, Locked
               PROVE  /\ \A t, u \in KernelThreads : t # u => Busy(t) \intersect Busy(u) = {}
                      /\ NotShared(mem)
    BY Zenon DEF PagesExclusive
  <2>0. /\ TypeOK /\ RunInv /\ LockInv /\ QuietInv /\ RunsInv /\ FramesInv
    BY Zenon DEF IInv
  <2>1. ASSUME NEW t \in KernelThreads, NEW u \in KernelThreads, t # u,
               NEW v \in Busy(t), v \in Busy(u)
        PROVE  FALSE
    <3>1. \A x \in KernelThreads : v \in Busy(x) =>
            \/ \E r \in has[x] : v \in PagesOf(r)
            \/ pc[x] # "out" /\ v \in FoundOf(x)
      BY Zenon DEF Busy, FoundOf
    <3>2. CASE \E r \in has[t] : v \in PagesOf(r)
      <4>1. PICK r \in has[t] : v \in PagesOf(r)
        BY <3>2, Zenon
      <4>2. CASE \E q \in has[u] : v \in PagesOf(q)
        BY <2>0, <2>1, <4>1, <4>2, Zenon DEF RunsInv, RunsApart
      <4>3. CASE pc[u] # "out" /\ v \in FoundOf(u)
        BY <2>0, <4>1, <4>3, Zenon DEF RunsInv, Held
      <4> QED BY <2>1, <3>1, <4>2, <4>3, Zenon
    <3>3. CASE pc[t] # "out" /\ v \in FoundOf(t)
      <4>1. CASE \E q \in has[u] : v \in PagesOf(q)
        BY <2>0, <3>3, <4>1, Zenon DEF RunsInv, Held
      <4>2. CASE pc[u] # "out"
        BY <2>0, <2>1, <3>3, <4>2, Alone, Zenon
      <4> QED BY <2>1, <3>1, <4>1, <4>2, Zenon
    <3> QED BY <2>1, <3>1, <3>2, <3>3, Zenon
  <2>2. ASSUME NEW u \in Uses(mem), NEW w \in Uses(mem), FrameAt(mem, u) # NULL,
               FrameAt(mem, u) = FrameAt(mem, w)
        PROVE  u = w
    <3>1. PICK v \in 0..Pages : u = <<"pte", Kernel, v>> /\ FrameAt(mem, u) = FrameOf(v)
      BY <2>2, LockedUses, Zenon
    <3>2. PICK x \in 0..Pages : w = <<"pte", Kernel, x>> /\ FrameAt(mem, w) = FrameOf(x)
      BY <2>2, LockedUses, Zenon
    <3> QED BY <2>0, <2>2, <3>1, <3>2, Zenon DEF FramesInv
  <2>3. \A t, u \in KernelThreads : t # u => Busy(t) \intersect Busy(u) = {}
    BY <2>1, Zenon
  <2> QED BY <2>2, <2>3, Zenon DEF NotShared
<1> QED BY <1>1, Invariance, PTL

\* Whenever no thread is in sys_malloc or sys_free, a frame is taken in its pool exactly
\* when a page is mapped to it, and a page is taken exactly when it is mapped: nothing
\* has leaked and nothing in use is free.
THEOREM ExactWhenQuiet == Spec => []QuietExact
<1>1. IInv => QuietExact
  <2> SUFFICES ASSUME IInv, Locked, \A t \in Threads : pc[t] = "out"
               PROVE  PoolExact(mem) /\ VaddrExact(mem)
    BY Zenon DEF QuietExact
  <2>0. /\ TypeOK /\ QuietInv /\ RunsInv /\ FramesInv
    BY Zenon DEF IInv
  <2>1. \A t \in KernelThreads : /\ MarkedOf(t) = {} /\ MappedOf(t) = {}
                                 /\ \A v : ~Freed(t, v) /\ ~Mapping(t, v)
    BY Zenon DEF FoundOf, MarkedOf, MappedOf, Freed, Mapping, Threads
  <2>2. VaddrExact(mem)
    <3> SUFFICES ASSUME NEW s \in Spaces, NEW v \in 0..VPages(s)
                 PROVE  mem.vaddr[s][v] <=> mem.pte[s][v] # NULL
      BY Zenon DEF VaddrExact
    <3>1. CASE s = Kernel /\ VPages(s) = Pages
      <4>1. Taken(v) <=> Held(v)
        BY <2>0, <2>1, <3>1, Zenon DEF RunsInv
      <4>2. FrameOf(v) # NULL <=> Held(v)
        BY <2>0, <2>1, <3>1, Zenon DEF FramesInv
      <4> QED BY <3>1, <4>1, <4>2, Zenon DEF Taken, FrameOf
    <3>2. CASE s \in Processes /\ VPages(s) = UserPages
      BY <2>0, <3>2, Zenon DEF QuietInv
    <3> QED BY <3>1, <3>2, SpaceFacts, Zenon
  <2>3. PoolExact(mem)
    <3> SUFFICES ASSUME NEW f \in Frames
                 PROVE  mem.pool[f[1]][f[2]] <=> \E u \in Uses(mem) : FrameAt(mem, u) = f
      BY Zenon DEF PoolExact
    <3>1. /\ f # NULL /\ f[1] \in {PF_KERNEL, PF_USER} /\ f[2] \in 0..Pages
          /\ f[1] = PF_KERNEL <=> f \in KernelFrames
      BY NullAssumption, PagingAssumption DEF Frames, KernelFrames, pool_flags
    <3>2. (\E u \in Uses(mem) : FrameAt(mem, u) = f) <=> \E v \in 0..Pages : FrameOf(v) = f
      <4>1. ASSUME NEW u \in Uses(mem), FrameAt(mem, u) = f
            PROVE  \E v \in 0..Pages : FrameOf(v) = f
        BY <3>1, <4>1, LockedUses, Zenon
      <4>2. ASSUME NEW v \in 0..Pages, FrameOf(v) = f
            PROVE  \E u \in Uses(mem) : FrameAt(mem, u) = f
        <5> DEFINE u == <<"pte", Kernel, v>>
        <5>1. Kernel \in Spaces /\ v \in 0..(Pages + UserPages) /\ VPages(Kernel) = Pages
          BY PagingAssumption DEF Spaces, VPages
        <5>2. u \in Uses(mem)
          BY <5>1 DEF Uses
        <5>3. DOMAIN mem.pte[Kernel] = 0..Pages
          BY <2>0, <5>1, MemoryFields, Zenon DEF TypeOK
        <5>4. FrameAt(mem, u) = FrameOf(v)
          BY <5>3, Zenon DEF FrameAt, FrameOf
        <5> QED BY <4>2, <5>2, <5>4, Zenon
      <4> QED BY <4>1, <4>2, Zenon
    <3>3. CASE f \in KernelFrames
      <4>1. InPool(f) <=> \E v \in 0..Pages : FrameOf(v) = f
        BY <2>0, <2>1, <3>3, Zenon DEF FramesInv
      <4> QED BY <3>2, <4>1, Zenon DEF InPool
    <3>4. CASE f \notin KernelFrames
      <4>1. ~mem.pool[f[1]][f[2]]
        BY <2>0, <3>1, <3>4, Zenon DEF QuietInv
      <4>2. \A v \in 0..Pages : FrameOf(v) # f
        BY <2>0, <3>1, <3>4, KernelFrameFacts, Zenon DEF IInv
      <4> QED BY <3>2, <4>1, <4>2, Zenon
    <3> QED BY <3>3, <3>4, Zenon
  <2> QED BY <2>2, <2>3, Zenon
<1> QED BY <1>1, Invariance, PTL
=============================================================================
