----------------------------- MODULE InodeProofs -----------------------------
(***************************************************************************)
(* What is proved about the open inodes and the inode table, for any tasks, *)
(* inodes, addresses and sizes of inode and sector.                        *)
(***************************************************************************)
EXTENDS Inode, TLAPS

-----------------------------------------------------------------------------
(* The list.                                                               *)

\* The constants, one by one.
LEMMA ConstantFacts ==
  /\ NONE \notin Copies /\ NONE \notin CopyRecord /\ IsFiniteSet(Tasks)
  /\ MaxChange \in Nat /\ 0 \in Existing /\ 0 \in Inodes /\ Existing \subseteq Inodes /\ Inodes \subseteq Nat
  /\ InodeCells \in Nat /\ InodeCells > 0 /\ SectorCells \in Nat /\ SectorCells > 0
  /\ Wrap \in Nat /\ Wrap > 0 /\ InodeCells <= SectorCells
<1>1. Inodes \subseteq Nat /\ 0 \in Inodes
  BY InodeAssumption, Zenon
<1>2. CopyRecord \subseteq [i_no : Nat, data : Nat, i_open_cnts : Int]
  BY <1>1, Zenon DEF CopyRecord
<1> QED BY <1>1, <1>2, InodeAssumption, NoneAssumption

\* A sequence of copies: its domain, its length and its elements.
LEMMA SeqFacts ==
  ASSUME NEW s \in Seq(Copies)
  PROVE  /\ DOMAIN s = 1..Len(s) /\ Len(s) \in Nat
         /\ \A i \in 1..Len(s) : s[i] \in Copies
         /\ s # <<>> => Len(s) # 0
OBVIOUS

\* What SubSeq returns, of a part of a sequence of copies.
LEMMA SliceFacts ==
  ASSUME NEW s \in Seq(Copies), NEW m \in 1..(Len(s) + 1), NEW n \in (m - 1)..Len(s)
  PROVE  /\ SubSeq(s, m, n) \in Seq(Copies) /\ Len(SubSeq(s, m, n)) = n - m + 1
         /\ \A i \in 1..(n - m + 1) : SubSeq(s, m, n)[i] = s[m + i - 1]
OBVIOUS

\* Two sequences of copies, one behind the other.
LEMMA JoinFacts ==
  ASSUME NEW p \in Seq(Copies), NEW q \in Seq(Copies)
  PROVE  /\ p \o q \in Seq(Copies) /\ Len(p \o q) = Len(p) + Len(q)
         /\ \A i \in 1..(Len(p) + Len(q)) : (p \o q)[i] = IF i <= Len(p) THEN p[i] ELSE q[i - Len(p)]
OBVIOUS

\* The position of an element.
LEMMA IndexFacts ==
  ASSUME NEW s \in Seq(Copies), NEW a \in Range(s)
  PROVE  /\ IndexOf(s, a) \in 1..Len(s) /\ s[IndexOf(s, a)] = a /\ DOMAIN s = 1..Len(s)
         /\ Len(s) \in Nat /\ a \in Copies
<1>1. DOMAIN s = 1..Len(s) /\ Len(s) \in Nat
  BY SeqFacts, Zenon
<1>2. \E k \in DOMAIN s : s[k] = a
  BY Zenon DEF Range
<1>3. IndexOf(s, a) \in DOMAIN s /\ s[IndexOf(s, a)] = a
  BY <1>2, Zenon DEF IndexOf
<1> QED BY <1>1, <1>3, SeqFacts, Zenon

\* The elements of a sequence.
LEMMA RangeFacts ==
  ASSUME NEW s \in Seq(Copies)
  PROVE  /\ Range(s) \subseteq Copies
         /\ \A a : a \in Range(s) <=> \E i \in 1..Len(s) : s[i] = a
         /\ DOMAIN s = 1..Len(s) /\ Len(s) \in Nat
<1>1. DOMAIN s = 1..Len(s) /\ Len(s) \in Nat
  BY SeqFacts, Zenon
<1> QED BY SeqFacts, Zenon DEF Range

\* list_remove takes one element out and leaves the others in their order.
LEMMA RemovedFacts ==
  ASSUME NEW s \in Seq(Copies), IsInjective(s), NEW a \in Range(s)
  PROVE  /\ Removed(s, a) \in Seq(Copies) /\ IsInjective(Removed(s, a))
         /\ Range(Removed(s, a)) = Range(s) \ {a}
         /\ \A x, y \in Copies \ {a} : UpTo(s, x, y) => UpTo(Removed(s, a), x, y)
<1> DEFINE k == IndexOf(s, a)
           r == Removed(s, a)
<1>1. k \in 1..Len(s) /\ s[k] = a /\ DOMAIN s = 1..Len(s) /\ Len(s) \in Nat
  BY IndexFacts, Zenon
<1>2. PICK p \in Seq(Copies) : /\ p = SubSeq(s, 1, k - 1) /\ Len(p) = k - 1
                               /\ \A i \in 1..(k - 1) : p[i] = s[i]
  <2>1. /\ SubSeq(s, 1, k - 1) \in Seq(Copies) /\ Len(SubSeq(s, 1, k - 1)) = k - 1
        /\ \A i \in 1..(k - 1) : SubSeq(s, 1, k - 1)[i] = s[i]
    BY <1>1, SliceFacts
  <2> QED BY <2>1, Zenon
<1>3. PICK q \in Seq(Copies) : /\ q = SubSeq(s, k + 1, Len(s)) /\ Len(q) = Len(s) - k
                               /\ \A i \in 1..(Len(s) - k) : q[i] = s[k + i]
  <2>1. k + 1 \in 1..(Len(s) + 1) /\ Len(s) \in (k + 1 - 1)..Len(s) /\ Len(s) - (k + 1) + 1 = Len(s) - k
    BY <1>1
  <2>2. /\ SubSeq(s, k + 1, Len(s)) \in Seq(Copies) /\ Len(SubSeq(s, k + 1, Len(s))) = Len(s) - k
        /\ \A i \in 1..(Len(s) - k) : SubSeq(s, k + 1, Len(s))[i] = s[k + 1 + i - 1]
    BY <2>1, SliceFacts
  <2>3. \A i \in 1..(Len(s) - k) : k + 1 + i - 1 = k + i
    BY <1>1
  <2> QED BY <2>2, <2>3, Zenon
<1>4. /\ r \in Seq(Copies) /\ Len(r) = Len(s) - 1
      /\ \A i \in 1..(Len(s) - 1) : r[i] = IF i < k THEN s[i] ELSE s[i + 1]
  <2>1. r = p \o q
    BY <1>2, <1>3, Zenon DEF Removed
  <2> HIDE DEF k, r
  <2>2. /\ r \in Seq(Copies) /\ Len(r) = Len(p) + Len(q)
        /\ \A i \in 1..(Len(p) + Len(q)) : r[i] = IF i <= Len(p) THEN p[i] ELSE q[i - Len(p)]
    BY <2>1, JoinFacts, Zenon
  <2>3. Len(p) + Len(q) = Len(s) - 1
    <3>1. Len(p) = k - 1 /\ Len(q) = Len(s) - k
      BY <1>2, <1>3, Zenon
    <3>2. k \in Int /\ Len(s) \in Int
      BY <1>1
    <3> QED BY <3>1, <3>2
  <2>4. ASSUME NEW i \in 1..(Len(s) - 1)
        PROVE  r[i] = IF i < k THEN s[i] ELSE s[i + 1]
    <3>1. r[i] = IF i <= k - 1 THEN p[i] ELSE q[i - (k - 1)]
      BY <1>2, <2>2, <2>3, Zenon
    <3>2. CASE i < k
      BY <1>1, <1>2, <3>1, <3>2
    <3>3. CASE ~(i < k)
      <4>1. i - (k - 1) \in 1..(Len(s) - k) /\ k + (i - (k - 1)) = i + 1
        BY <1>1, <3>3
      <4>2. q[i - (k - 1)] = s[i + 1]
        BY <1>3, <4>1, Zenon
      <4> QED BY <1>1, <3>1, <3>3, <4>2
    <3> QED BY <3>2, <3>3, Zenon
  <2> QED BY <2>2, <2>3, <2>4, Zenon
<1>5. DOMAIN r = 1..Len(r)
  BY <1>4, SeqFacts, Zenon
<1> HIDE DEF k, r
<1>6. \A i, j \in 1..Len(s) : s[i] = s[j] => i = j
  BY <1>1, Zenon DEF IsInjective
<1>7. \A i \in 1..Len(s) : i # k => \E j \in 1..Len(r) : r[j] = s[i] /\ j = IF i < k THEN i ELSE i - 1
  <2> SUFFICES ASSUME NEW i \in 1..Len(s), i # k
               PROVE  \E j \in 1..Len(r) : r[j] = s[i] /\ j = IF i < k THEN i ELSE i - 1
    BY Zenon
  <2>1. CASE i < k
    <3>1. i \in 1..(Len(s) - 1) /\ r[i] = s[i]
      BY <1>1, <1>4, <2>1
    <3> QED BY <1>4, <2>1, <3>1, Zenon
  <2>2. CASE ~(i < k)
    <3>1. i - 1 \in 1..(Len(s) - 1) /\ ~(i - 1 < k) /\ (i - 1) + 1 = i
      BY <1>1, <2>2
    <3>2. r[i - 1] = s[i]
      BY <1>4, <3>1, Zenon
    <3> QED BY <1>4, <2>2, <3>1, <3>2, Zenon
  <2> QED BY <2>1, <2>2, Zenon
<1>8. \A i \in 1..Len(r) : r[i] \in Range(s) \ {a}
  <2> SUFFICES ASSUME NEW i \in 1..Len(r) PROVE r[i] \in Range(s) \ {a}
    BY Zenon
  <2>0. i \in 1..(Len(s) - 1) /\ i + 1 \in 1..Len(s) /\ i \in 1..Len(s)
    BY <1>1, <1>4
  <2>1. PICK j \in 1..Len(s) : r[i] = s[j] /\ j # k
    <3>1. CASE i < k
      BY <1>1, <1>4, <2>0, <3>1
    <3>2. CASE ~(i < k)
      BY <1>1, <1>4, <2>0, <3>2
    <3> QED BY <3>1, <3>2, Zenon
  <2> QED BY <1>1, <1>6, <2>1, RangeFacts, Zenon
<1>9. IsInjective(r)
  <2> SUFFICES ASSUME NEW i \in 1..Len(r), NEW j \in 1..Len(r), r[i] = r[j] PROVE i = j
    BY <1>5, Zenon DEF IsInjective
  <2>1. PICK m \in 1..Len(s) : m = (IF i < k THEN i ELSE i + 1) /\ r[i] = s[m]
    BY <1>1, <1>4
  <2>2. PICK n \in 1..Len(s) : n = (IF j < k THEN j ELSE j + 1) /\ r[j] = s[n]
    BY <1>1, <1>4
  <2>3. m = n
    BY <1>6, <2>1, <2>2, Zenon
  <2> QED BY <1>1, <2>1, <2>2, <2>3
<1>10. Range(r) = Range(s) \ {a}
  <2>0. /\ \A x : x \in Range(r) <=> \E i \in 1..Len(r) : r[i] = x
        /\ \A x : x \in Range(s) <=> \E i \in 1..Len(s) : s[i] = x
    BY <1>4, RangeFacts, Zenon
  <2>1. \A x : x \in Range(r) => x \in Range(s) \ {a}
    BY <1>8, <2>0, Zenon
  <2>2. ASSUME NEW x \in Range(s) \ {a} PROVE x \in Range(r)
    <3>1. PICK i \in 1..Len(s) : s[i] = x
      BY <2>0, Zenon
    <3>2. i # k
      BY <1>1, <3>1, Zenon
    <3>3. \E j \in 1..Len(r) : r[j] = x
      BY <1>7, <3>1, <3>2, Zenon
    <3> QED BY <2>0, <3>3, Zenon
  <2> QED BY <2>1, <2>2, Zenon
<1>11. ASSUME NEW x \in Copies \ {a}, NEW y \in Copies \ {a}, UpTo(s, x, y) PROVE UpTo(r, x, y)
  <2>1. PICK i \in 1..Len(s), j \in 1..Len(s) : i <= j /\ s[i] = x /\ s[j] = y
    BY <1>1, <1>11, Zenon DEF UpTo
  <2>2. PICK m \in 1..Len(r) : r[m] = x /\ m = IF i < k THEN i ELSE i - 1
    BY <1>1, <1>7, <2>1, Zenon
  <2>3. PICK n \in 1..Len(r) : r[n] = y /\ n = IF j < k THEN j ELSE j - 1
    BY <1>1, <1>7, <2>1, Zenon
  <2>4. i # k /\ j # k
    BY <1>1, <2>1, Zenon
  <2>5. m <= n
    BY <1>1, <2>1, <2>2, <2>3, <2>4
  <2> QED BY <1>5, <2>2, <2>3, <2>5, Zenon DEF UpTo
<1> QED BY <1>4, <1>9, <1>10, <1>11, Zenon DEF r

\* s with a put in at position k.
InsertAt(s, k, a) == SubSeq(s, 1, k - 1) \o <<a>> \o SubSeq(s, k, Len(s))

\* An element put in at any position leaves the others in their order.
LEMMA InsertAtFacts ==
  ASSUME NEW s \in Seq(Copies), IsInjective(s), NEW a \in Copies, a \notin Range(s),
         NEW k \in 1..(Len(s) + 1)
  PROVE  /\ InsertAt(s, k, a) \in Seq(Copies) /\ IsInjective(InsertAt(s, k, a))
         /\ Range(InsertAt(s, k, a)) = Range(s) \union {a}
         /\ \A x, y \in Copies : UpTo(s, x, y) => UpTo(InsertAt(s, k, a), x, y)
<1>1. DOMAIN s = 1..Len(s) /\ Len(s) \in Nat
  BY RangeFacts, Zenon
<1>2. PICK p \in Seq(Copies) : /\ p = SubSeq(s, 1, k - 1) /\ Len(p) = k - 1
                               /\ \A i \in 1..(k - 1) : p[i] = s[i]
  <2>1. /\ SubSeq(s, 1, k - 1) \in Seq(Copies) /\ Len(SubSeq(s, 1, k - 1)) = k - 1
        /\ \A i \in 1..(k - 1) : SubSeq(s, 1, k - 1)[i] = s[i]
    BY <1>1, SliceFacts
  <2> QED BY <2>1, Zenon
<1>3. PICK q \in Seq(Copies) : /\ q = SubSeq(s, k, Len(s)) /\ Len(q) = Len(s) - k + 1
                               /\ \A i \in 1..(Len(s) - k + 1) : q[i] = s[k + i - 1]
  <2>1. /\ SubSeq(s, k, Len(s)) \in Seq(Copies) /\ Len(SubSeq(s, k, Len(s))) = Len(s) - k + 1
        /\ \A i \in 1..(Len(s) - k + 1) : SubSeq(s, k, Len(s))[i] = s[k + i - 1]
    BY <1>1, SliceFacts
  <2> QED BY <2>1, Zenon
<1>4. PICK o \in Seq(Copies) : o = <<a>> /\ Len(o) = 1 /\ o[1] = a
  <2>1. <<a>> \in Seq(Copies) /\ Len(<<a>>) = 1 /\ <<a>>[1] = a
    OBVIOUS
  <2> QED BY <2>1, Zenon
<1>5. PICK m \in Seq(Copies) : /\ m = p \o o /\ Len(m) = k
                               /\ \A i \in 1..k : m[i] = IF i < k THEN s[i] ELSE a
  <2>1. /\ p \o o \in Seq(Copies) /\ Len(p \o o) = Len(p) + Len(o)
        /\ \A i \in 1..(Len(p) + Len(o)) : (p \o o)[i] = IF i <= Len(p) THEN p[i] ELSE o[i - Len(p)]
    BY JoinFacts, Zenon
  <2>2. Len(p) + Len(o) = k
    BY <1>1, <1>2, <1>4
  <2>3. ASSUME NEW i \in 1..k PROVE (p \o o)[i] = IF i < k THEN s[i] ELSE a
    <3>1. CASE i < k
      BY <1>1, <1>2, <2>1, <2>2, <3>1
    <3>2. CASE i = k
      <4>1. i - (k - 1) = 1 /\ ~(i <= k - 1) /\ ~(i < k)
        BY <1>1, <3>2
      <4>2. (p \o o)[i] = o[i - (k - 1)]
        BY <1>2, <2>1, <2>2, <4>1, Zenon
      <4>3. o[1] = a
        BY <1>4, Zenon
      <4> QED BY <4>1, <4>2, <4>3, Zenon
    <3>3. i < k \/ i = k
      BY <1>1
    <3> QED BY <3>1, <3>2, <3>3, Zenon
  <2> QED BY <2>1, <2>2, <2>3, Zenon
<1>6. PICK r \in Seq(Copies) : /\ r = InsertAt(s, k, a) /\ Len(r) = Len(s) + 1
                               /\ \A i \in 1..(Len(s) + 1) : r[i] = IF i < k THEN s[i]
                                                                   ELSE IF i = k THEN a ELSE s[i - 1]
  <2>1. InsertAt(s, k, a) = m \o q
    BY <1>2, <1>3, <1>4, <1>5, Zenon DEF InsertAt
  <2>2. /\ m \o q \in Seq(Copies) /\ Len(m \o q) = Len(m) + Len(q)
        /\ \A i \in 1..(Len(m) + Len(q)) : (m \o q)[i] = IF i <= Len(m) THEN m[i] ELSE q[i - Len(m)]
    BY JoinFacts, Zenon
  <2>3. Len(m) + Len(q) = Len(s) + 1
    BY <1>1, <1>3, <1>5
  <2>4. ASSUME NEW i \in 1..(Len(s) + 1)
        PROVE  (m \o q)[i] = IF i < k THEN s[i] ELSE IF i = k THEN a ELSE s[i - 1]
    <3>1. CASE i <= k
      BY <1>1, <1>5, <2>2, <2>3, <3>1
    <3>2. CASE ~(i <= k)
      <4>1. i - k \in 1..(Len(s) - k + 1) /\ k + (i - k) - 1 = i - 1
        BY <1>1, <3>2
      <4>2. q[i - k] = s[i - 1]
        BY <1>3, <4>1, Zenon
      <4>3. (m \o q)[i] = q[i - k]
        BY <1>5, <2>2, <2>3, <3>2, Zenon
      <4> QED BY <3>2, <4>2, <4>3
    <3> QED BY <3>1, <3>2, Zenon
  <2> QED BY <2>1, <2>2, <2>3, <2>4, Zenon
<1>7. /\ DOMAIN r = 1..Len(r)
      /\ \A x : x \in Range(r) <=> \E i \in 1..Len(r) : r[i] = x
      /\ \A x : x \in Range(s) <=> \E i \in 1..Len(s) : s[i] = x
  BY RangeFacts, Zenon
<1>8. \A i, j \in 1..Len(s) : s[i] = s[j] => i = j
  BY <1>1, Zenon DEF IsInjective
<1>9. ASSUME NEW i \in 1..Len(r), i # k
      PROVE  \E j \in 1..Len(s) : j = (IF i < k THEN i ELSE i - 1) /\ r[i] = s[j]
  <2>1. i \in 1..(Len(s) + 1)
    BY <1>6, Zenon
  <2>2. CASE i < k
    <3>1. i \in 1..Len(s)
      BY <1>1, <2>1, <2>2
    <3>2. r[i] = s[i]
      BY <1>6, <2>1, <2>2, Zenon
    <3> QED BY <2>2, <3>1, <3>2, Zenon
  <2>3. CASE ~(i < k)
    <3>1. i - 1 \in 1..Len(s)
      BY <1>1, <1>9, <2>1, <2>3
    <3>2. r[i] = s[i - 1]
      BY <1>6, <1>9, <2>1, <2>3, Zenon
    <3> QED BY <2>3, <3>1, <3>2, Zenon
  <2> QED BY <2>2, <2>3, Zenon
<1>10. ASSUME NEW i \in 1..Len(s)
       PROVE  \E j \in 1..Len(r) : j = (IF i < k THEN i ELSE i + 1) /\ r[j] = s[i]
  <2>1. i \in 1..(Len(s) + 1) /\ i + 1 \in 1..(Len(s) + 1) /\ (i + 1) - 1 = i
    BY <1>1
  <2>2. CASE i < k
    <3>1. r[i] = s[i]
      BY <1>6, <2>1, <2>2, Zenon
    <3> QED BY <1>6, <2>1, <2>2, <3>1, Zenon
  <2>3. CASE ~(i < k)
    <3>1. ~(i + 1 < k) /\ i + 1 # k
      BY <2>3
    <3>2. r[i + 1] = s[(i + 1) - 1]
      BY <1>6, <2>1, <3>1, Zenon
    <3> QED BY <1>6, <2>1, <2>3, <3>2, Zenon
  <2> QED BY <2>2, <2>3, Zenon
<1>11. k \in 1..Len(r) /\ r[k] = a
  BY <1>1, <1>6
<1>12. IsInjective(r)
  <2> SUFFICES ASSUME NEW i \in 1..Len(r), NEW j \in 1..Len(r), r[i] = r[j] PROVE i = j
    BY <1>7, Zenon DEF IsInjective
  <2>1. (i = k) = (j = k)
    BY <1>7, <1>9, <1>11, Zenon
  <2>2. CASE i # k
    <3>1. PICK x \in 1..Len(s) : x = (IF i < k THEN i ELSE i - 1) /\ r[i] = s[x]
      BY <1>9, <2>2, Zenon
    <3>2. PICK y \in 1..Len(s) : y = (IF j < k THEN j ELSE j - 1) /\ r[j] = s[y]
      BY <1>9, <2>1, <2>2, Zenon
    <3>3. x = y
      BY <1>8, <3>1, <3>2, Zenon
    <3> QED BY <1>1, <2>1, <2>2, <3>1, <3>2, <3>3
  <2> QED BY <2>1, <2>2, Zenon
<1>13. Range(r) = Range(s) \union {a}
  <2>1. \A x : x \in Range(r) => x \in Range(s) \union {a}
    BY <1>7, <1>9, <1>11, Zenon
  <2>2. \A x : x \in Range(s) \union {a} => x \in Range(r)
    BY <1>7, <1>10, <1>11, Zenon
  <2> QED BY <2>1, <2>2, Zenon
<1>14. ASSUME NEW x \in Copies, NEW y \in Copies, UpTo(s, x, y) PROVE UpTo(r, x, y)
  <2>1. PICK i \in 1..Len(s), j \in 1..Len(s) : i <= j /\ s[i] = x /\ s[j] = y
    BY <1>1, <1>14, Zenon DEF UpTo
  <2>2. PICK v \in 1..Len(r) : v = (IF i < k THEN i ELSE i + 1) /\ r[v] = x
    BY <1>10, <2>1, Zenon
  <2>3. PICK w \in 1..Len(r) : w = (IF j < k THEN j ELSE j + 1) /\ r[w] = y
    BY <1>10, <2>1, Zenon
  <2>4. v <= w
    BY <1>1, <2>1, <2>2, <2>3
  <2> QED BY <1>7, <2>2, <2>3, <2>4, Zenon DEF UpTo
<1> QED BY <1>6, <1>12, <1>13, <1>14, Zenon

\* list_insert_before, in front of an element of the list or of its tail.
LEMMA InsertBeforeFacts ==
  ASSUME NEW s \in Seq(Copies), IsInjective(s), NEW a \in Copies, a \notin Range(s),
         NEW before \in Range(s) \union {NONE}
  PROVE  /\ InsertBefore(s, before, a) \in Seq(Copies) /\ IsInjective(InsertBefore(s, before, a))
         /\ Range(InsertBefore(s, before, a)) = Range(s) \union {a}
         /\ \A x, y \in Copies : UpTo(s, x, y) => UpTo(InsertBefore(s, before, a), x, y)
<1>1. PICK k \in 1..(Len(s) + 1) : InsertBefore(s, before, a) = InsertAt(s, k, a)
  <2>1. CASE before = NONE
    <3>1. Len(s) + 1 \in 1..(Len(s) + 1)
      BY RangeFacts
    <3> QED BY <2>1, <3>1, Zenon DEF InsertBefore, InsertAt
  <2>2. CASE before # NONE
    <3>1. IndexOf(s, before) \in 1..(Len(s) + 1)
      BY <2>2, IndexFacts
    <3> QED BY <2>2, <3>1, Zenon DEF InsertBefore, InsertAt
  <2> QED BY <2>1, <2>2, Zenon
<1> QED BY <1>1, InsertAtFacts

\* The first element comes in front of all others.
LEMMA HeadFacts ==
  ASSUME NEW s \in Seq(Copies)
  PROVE  /\ s = <<>> => Range(s) = {}
         /\ s # <<>> => Head(s) \in Range(s) /\ \A y \in Range(s) : UpTo(s, Head(s), y)
<1>1. /\ \A x : x \in Range(s) <=> \E i \in 1..Len(s) : s[i] = x
      /\ DOMAIN s = 1..Len(s) /\ Len(s) \in Nat
  BY RangeFacts, Zenon
<1>2. CASE s = <<>>
  <2>1. Len(s) = 0
    BY <1>2, Zenon
  <2>2. 1..Len(s) = {}
    BY <2>1
  <2> QED BY <1>1, <1>2, <2>2, Zenon
<1>3. CASE s # <<>>
  <2>1. Len(s) \in Nat \ {0}
    BY <1>3, SeqFacts, Zenon
  <2>2. 1 \in 1..Len(s) /\ Head(s) = s[1]
    BY <1>3, <2>1
  <2>3. Head(s) \in Range(s)
    BY <1>1, <2>2, Zenon
  <2>4. ASSUME NEW y \in Range(s) PROVE UpTo(s, Head(s), y)
    <3>1. PICK j \in 1..Len(s) : s[j] = y
      BY <1>1, Zenon
    <3>2. 1 <= j
      OBVIOUS
    <3> QED BY <1>1, <2>2, <3>1, <3>2, Zenon DEF UpTo
  <2> QED BY <1>3, <2>3, <2>4, Zenon
<1> QED BY <1>2, <1>3, Zenon

\* The next pointer of an element of the list leads to its tail, or to an element that
\* comes in front of all the others behind it.
LEMMA NextFacts ==
  ASSUME NEW a \in Range(open_inodes), open_inodes \in Seq(Copies), IsInjective(open_inodes)
  PROVE  /\ NextOf(a) \in Range(open_inodes) \union {NONE}
         /\ \A y : (UpTo(open_inodes, a, y) /\ y # a) =>
              NextOf(a) # NONE /\ UpTo(open_inodes, NextOf(a), y)
<1> DEFINE s == open_inodes
<1>1. PICK k \in 1..Len(s) : k = IndexOf(s, a) /\ s[k] = a
  BY IndexFacts, Zenon
<1>2. /\ \A x : x \in Range(s) <=> \E i \in 1..Len(s) : s[i] = x
      /\ DOMAIN s = 1..Len(s) /\ Len(s) \in Nat /\ Range(s) \subseteq Copies
  BY RangeFacts, Zenon
<1>3. \A i, j \in 1..Len(s) : s[i] = s[j] => i = j
  BY <1>2, Zenon DEF IsInjective
<1>4. NextOf(a) = IF k = Len(s) THEN NONE ELSE s[k + 1]
  BY <1>1, Zenon DEF NextOf
<1> HIDE DEF s
<1>5. k # Len(s) => k + 1 \in 1..Len(s)
  BY <1>1, <1>2
<1>6. NextOf(a) \in Range(s) \union {NONE}
  BY <1>2, <1>4, <1>5, Zenon
<1>7. ASSUME NEW y, UpTo(s, a, y), y # a PROVE NextOf(a) # NONE /\ UpTo(s, NextOf(a), y)
  <2>1. PICK i \in 1..Len(s), j \in 1..Len(s) : i <= j /\ s[i] = a /\ s[j] = y
    BY <1>2, <1>7, Zenon DEF UpTo
  <2>2. i = k
    BY <1>1, <1>3, <2>1, Zenon
  <2>3. j # k
    BY <1>1, <1>7, <2>1, Zenon
  <2>4. k # Len(s) /\ k + 1 <= j
    <3>1. k <= j /\ k # j /\ j <= Len(s)
      BY <2>1, <2>2, <2>3
    <3>2. k \in Int /\ j \in Int /\ Len(s) \in Int
      BY <1>2
    <3> QED BY <3>1, <3>2
  <2>5. NextOf(a) = s[k + 1] /\ k + 1 \in 1..Len(s)
    BY <1>4, <1>5, <2>4, Zenon
  <2>6. NextOf(a) \in Copies
    BY <1>2, <2>5, Zenon
  <2> QED BY <1>2, <2>1, <2>4, <2>5, <2>6, ConstantFacts, Zenon DEF UpTo
<1> QED BY <1>6, <1>7, Zenon DEF s

-----------------------------------------------------------------------------
(* The tasks.                                                              *)

\* A task that is outside of all calls, or has gone astray, and the local variables of
\* one that is in a call.
LEMMA TaskKinds ==
  ASSUME TypeOK, NEW t \in Tasks
  PROVE  /\ task[t].pc \in {"idle", "astray", "walk", "found", "store", "read", "push", "insert",
                            "count", "held", "free", "sync_read", "sync_write"}
         /\ task[t].pc \in {"walk", "found", "store", "read", "push"} => task[t] \in Looking
         /\ task[t].pc = "insert" => task[t] \in Inserting
         /\ task[t].pc \in {"count", "held", "free"} => task[t] \in Having
         /\ task[t].pc \in {"sync_read", "sync_write"} => Syncing(task[t])
         /\ task[t].pc \in {"idle", "astray"} => task[t] \in {Idle, Astray}
<1>1. \/ task[t] = Idle \/ task[t] = Astray \/ task[t] \in Looking \/ task[t] \in Inserting
      \/ task[t] \in Having \/ Syncing(task[t])
  BY Zenon DEF TypeOK, TaskType
<1>2. CASE task[t] = Idle
  <2>1. task[t].pc = "idle"
    BY <1>2 DEF Idle
  <2> QED BY <1>2, <2>1, Zenon
<1>3. CASE task[t] = Astray
  <2>1. task[t].pc = "astray"
    BY <1>3 DEF Astray
  <2> QED BY <1>3, <2>1, Zenon
<1>4. CASE task[t] \in Looking
  <2>1. task[t].pc \in {"walk", "found", "store", "read", "push"}
    BY <1>4, Zenon DEF Looking
  <2> QED BY <1>4, <2>1, Zenon
<1>5. CASE task[t] \in Inserting
  <2>1. task[t].pc = "insert"
    BY <1>5, Zenon DEF Inserting
  <2> QED BY <1>5, <2>1, Zenon
<1>6. CASE task[t] \in Having
  <2>1. task[t].pc \in {"count", "held", "free"}
    BY <1>6, Zenon DEF Having
  <2> QED BY <1>6, <2>1, Zenon
<1>7. CASE Syncing(task[t])
  <2>1. task[t].pc \in {"sync_read", "sync_write"}
    BY <1>7, Zenon DEF Syncing
  <2> QED BY <1>7, <2>1, Zenon
<1> QED BY <1>1, <1>2, <1>3, <1>4, <1>5, <1>6, <1>7, Zenon

\* What a task has as its element.
LEMMA ElemFacts ==
  ASSUME TypeOK, NEW t \in Tasks
  PROVE  /\ task[t].pc \in {"found", "store", "push", "insert", "count", "held", "free"} => task[t].elem \in Copies
         /\ task[t].pc \in {"walk", "sync_read", "sync_write"} => task[t].elem \in Copies \union {NONE}
         /\ task[t].pc \in {"walk", "found", "store", "read", "push", "insert", "count", "held", "free",
                            "sync_read", "sync_write"} => task[t].no \in Inodes
         /\ task[t].pc \in {"walk", "found", "store", "read", "push"} =>
              task[t].freed \subseteq Copies /\ task[t].n \in Int
<1>1. CASE task[t].pc \in {"walk", "found", "store", "read", "push"}
  <2>1. task[t] \in Looking
    BY <1>1, TaskKinds, Zenon
  <2>2. /\ task[t].elem \in Copies \union {NONE} /\ task[t].no \in Inodes
        /\ task[t].freed \subseteq Copies /\ task[t].n \in Int
    BY <2>1, Zenon DEF Looking
  <2>3. task[t].pc \in {"found", "store", "push"} => task[t].elem \in Copies
    BY Zenon DEF TypeOK, TaskType
  <2> QED BY <1>1, <2>2, <2>3, Zenon
<1>2. CASE task[t].pc = "insert"
  <2>1. task[t].elem \in Copies /\ task[t].no \in Inodes
    BY <1>2, TaskKinds, Zenon DEF Inserting
  <2> QED BY <1>2, <2>1, Zenon
<1>3. CASE task[t].pc \in {"count", "held", "free"}
  <2>1. task[t].elem \in Copies /\ task[t].no \in Inodes
    BY <1>3, TaskKinds, Zenon DEF Having
  <2> QED BY <1>3, <2>1, Zenon
<1>4. CASE task[t].pc \in {"sync_read", "sync_write"}
  <2>1. task[t].elem \in Copies \union {NONE} /\ task[t].no \in Inodes
    BY <1>4, TaskKinds, Zenon DEF Syncing
  <2> QED BY <1>4, <2>1, Zenon
<1> QED BY <1>1, <1>2, <1>3, <1>4, Zenon

\* The tasks other than t stay as they are.
Others(t) == \A u \in Tasks \ {t} : task'[u] = task[u]

\* A step that moves t leaves the other tasks where they are.
LEMMA GoFacts ==
  ASSUME TypeOK, NEW t \in Tasks, NEW s, Go(t, s)
  PROVE  task'[t] = s /\ Others(t) /\ DOMAIN task' = Tasks
<1>1. DOMAIN task = Tasks
  BY Zenon DEF TypeOK, TaskType
<1> QED BY <1>1, Zenon DEF Go, Others

\* What is proved of the tasks after a step of t.
LEMMA TaskTypeStep ==
  ASSUME TypeOK, NEW t \in Tasks, Others(t), DOMAIN task' = Tasks,
         \/ task'[t] \in {Idle, Astray} \union Looking \union Inserting \union Having
         \/ Syncing(task'[t]),
         task'[t].pc \in {"found", "store", "push"} => task'[t].elem \in Copies
  PROVE  TaskType'
BY Zenon DEF TypeOK, TaskType, Others

\* The two records without local variables.
LEMMA IdleFacts == Idle.pc = "idle" /\ Astray.pc = "astray"
BY Zenon DEF Idle, Astray

-----------------------------------------------------------------------------
(* The steps of inode_open: what each does to the task that takes it.      *)

\* The call of inode_open puts the task on the first element.
LEMMA OpenStep ==
  ASSUME TypeOK, NEW t \in Tasks, NEW i \in Inodes, Open(t, i)
  PROVE  /\ Others(t) /\ TaskType' /\ task[t].pc = "idle" /\ i \in DOMAIN saved
         /\ task'[t].pc = "walk" /\ task'[t].no = i /\ task'[t].freed = {}
         /\ task'[t].elem = (IF open_inodes = <<>> THEN NONE ELSE Head(open_inodes))
<1> DEFINE s == [pc |-> "walk", no |-> i, freed |-> {}, n |-> 0,
                 elem |-> IF open_inodes = <<>> THEN NONE ELSE Head(open_inodes)]
<1>1. task[t].pc = "idle" /\ i \in DOMAIN saved /\ Go(t, s)
  BY Zenon DEF Open, At
<1>2. task'[t] = s /\ Others(t) /\ DOMAIN task' = Tasks
  BY <1>1, GoFacts, Zenon
<1>3. (IF open_inodes = <<>> THEN NONE ELSE Head(open_inodes)) \in Copies \union {NONE}
  <2>1. open_inodes \in Seq(Copies)
    BY Zenon DEF TypeOK
  <2> QED BY <2>1, HeadFacts, RangeFacts, Zenon
<1>4. s \in Looking /\ s.pc = "walk"
  BY <1>3 DEF Looking
<1>5. TaskType'
  BY <1>2, <1>4, TaskTypeStep, Zenon
<1> QED BY <1>1, <1>2, <1>5

\* A next pointer leads to a copy or to the tail.
LEMMA NextType ==
  ASSUME TypeOK, NEW a \in Copies
  PROVE  NextOf(a) \in Copies \union {NONE}
<1>1. open_inodes \in Seq(Copies) /\ after[a] \in Copies \union {NONE}
  BY Zenon DEF TypeOK
<1>2. CASE a \in Range(open_inodes)
  <2>1. PICK k \in 1..Len(open_inodes) : k = IndexOf(open_inodes, a)
    BY <1>1, <1>2, IndexFacts, Zenon
  <2>2. k # Len(open_inodes) => open_inodes[k + 1] \in Copies
    BY <1>1, SeqFacts
  <2> QED BY <1>2, <2>1, <2>2, Zenon DEF NextOf
<1> QED BY <1>1, <1>2, Zenon DEF NextOf

\* One comparison of the walk, and where it leaves the task.
LEMMA WalkStep ==
  ASSUME TypeOK, NEW t \in Tasks, Walk(t)
  PROVE  /\ Others(t) /\ TaskType' /\ task[t].pc = "walk" /\ task[t].elem \in Copies
         /\ \/ task[t].elem \in task[t].freed /\ task'[t] = Astray
            \/ /\ task[t].elem \notin task[t].freed
               /\ task'[t].no = task[t].no /\ task'[t].freed = task[t].freed
               /\ \/ /\ copy[task[t].elem].i_no = task[t].no
                     /\ task'[t].pc = "found" /\ task'[t].elem = task[t].elem
                  \/ /\ copy[task[t].elem].i_no # task[t].no
                     /\ task'[t].pc = "walk" /\ task'[t].elem = NextOf(task[t].elem)
<1>1. task[t].pc = "walk" /\ task[t].elem # NONE
  BY Zenon DEF Walk, At
<1>2. task[t] \in Looking /\ task[t].elem \in Copies
  BY <1>1, TaskKinds, ElemFacts, Zenon
<1>3. CASE task[t].elem \in task[t].freed
  <2>1. Go(t, Astray)
    BY <1>3, Zenon DEF Walk
  <2>2. task'[t] = Astray /\ Others(t) /\ DOMAIN task' = Tasks
    BY <2>1, GoFacts, Zenon
  <2>3. TaskType'
    BY <2>2, TaskTypeStep, IdleFacts, Zenon
  <2> QED BY <1>1, <1>2, <1>3, <2>2, <2>3, Zenon
<1>4. CASE task[t].elem \notin task[t].freed /\ copy[task[t].elem].i_no = task[t].no
  <2> DEFINE s == [task[t] EXCEPT !.pc = "found"]
  <2>1. Go(t, s)
    BY <1>4, Zenon DEF Walk, GoTo
  <2>2. task'[t] = s /\ Others(t) /\ DOMAIN task' = Tasks
    BY <2>1, GoFacts, Zenon
  <2>3. /\ s \in Looking /\ s.pc = "found" /\ s.no = task[t].no /\ s.freed = task[t].freed
        /\ s.elem = task[t].elem
    BY <1>2, Zenon DEF Looking
  <2>4. TaskType'
    BY <1>2, <2>2, <2>3, TaskTypeStep, Zenon
  <2> QED BY <1>1, <1>2, <1>4, <2>2, <2>3, <2>4, Zenon
<1>5. CASE task[t].elem \notin task[t].freed /\ copy[task[t].elem].i_no # task[t].no
  <2> DEFINE s == [task[t] EXCEPT !.elem = NextOf(task[t].elem)]
  <2>1. Go(t, s)
    BY <1>5, Zenon DEF Walk
  <2>2. task'[t] = s /\ Others(t) /\ DOMAIN task' = Tasks
    BY <2>1, GoFacts, Zenon
  <2>3. /\ s.pc = task[t].pc /\ s.no = task[t].no /\ s.freed = task[t].freed
        /\ s.elem = NextOf(task[t].elem)
    BY <1>2, Zenon DEF Looking
  <2>4. s \in Looking
    BY <1>2, NextType, Zenon DEF Looking
  <2>5. TaskType'
    BY <1>1, <2>2, <2>3, <2>4, TaskTypeStep, Zenon
  <2> QED BY <1>1, <1>2, <1>5, <2>2, <2>3, <2>5, Zenon
<1> QED BY <1>3, <1>4, <1>5, Zenon

\* The load of i_open_cnts++, from a block that is allocated or is known to be freed.
LEMMA LoadStep ==
  ASSUME TypeOK, NEW t \in Tasks, Load(t), copy[task[t].elem] # NONE \/ task[t].elem \in task[t].freed
  PROVE  /\ Others(t) /\ TaskType' /\ task[t].pc = "found"
         /\ \/ task'[t] = Astray
            \/ /\ task'[t].pc = "store" /\ task'[t].elem = task[t].elem
               /\ task'[t].freed = task[t].freed
<1>1. task[t].pc = "found"
  BY Zenon DEF Load, At
<1>2. task[t] \in Looking /\ task[t].elem \in Copies
  BY <1>1, TaskKinds, ElemFacts, Zenon
<1>3. CASE task[t].elem \in task[t].freed
  <2>1. Go(t, Astray)
    BY <1>3, Zenon DEF Load
  <2>2. task'[t] = Astray /\ Others(t) /\ DOMAIN task' = Tasks
    BY <2>1, GoFacts, Zenon
  <2>3. TaskType'
    BY <2>2, TaskTypeStep, IdleFacts, Zenon
  <2> QED BY <1>1, <2>2, <2>3, Zenon
<1>4. CASE task[t].elem \notin task[t].freed
  <2> DEFINE s == [task[t] EXCEPT !.pc = "store", !.n = copy[task[t].elem].i_open_cnts]
  <2>1. Go(t, s)
    BY <1>4, Zenon DEF Load
  <2>2. task'[t] = s /\ Others(t) /\ DOMAIN task' = Tasks
    BY <2>1, GoFacts, Zenon
  <2>3. copy[task[t].elem].i_open_cnts \in Int
    BY <1>2, <1>4, Zenon DEF TypeOK, CopyRecord
  <2>4. /\ s \in Looking /\ s.pc = "store" /\ s.elem = task[t].elem /\ s.freed = task[t].freed
    BY <1>2, <2>3, Zenon DEF Looking
  <2>5. TaskType'
    BY <1>2, <2>2, <2>4, TaskTypeStep, Zenon
  <2> QED BY <1>1, <2>2, <2>4, <2>5, Zenon
<1> QED BY <1>3, <1>4, Zenon

\* A copy whose count is set is the same copy otherwise.
LEMMA CountSet ==
  ASSUME TypeOK, NEW a \in Copies, copy[a] # NONE, NEW v \in Int,
         copy' = [copy EXCEPT ![a].i_open_cnts = v]
  PROVE  /\ copy' \in [Copies -> CopyRecord \union {NONE}] /\ copy'[a] # NONE
         /\ copy'[a].i_open_cnts = v /\ copy'[a].i_no = copy[a].i_no
         /\ \A b \in Copies \ {a} : copy'[b] = copy[b]
<1>1. copy \in [Copies -> CopyRecord \union {NONE}] /\ copy[a] \in CopyRecord
  BY Zenon DEF TypeOK
<1>2. PICK r : r = [copy[a] EXCEPT !.i_open_cnts = v]
  BY Zenon
<1>3. r \in CopyRecord /\ r.i_open_cnts = v /\ r.i_no = copy[a].i_no
  BY <1>1, <1>2, Zenon DEF CopyRecord
<1>4. copy' = [copy EXCEPT ![a] = r]
  BY <1>2, Zenon
<1>5. r # NONE
  BY <1>3, ConstantFacts, Zenon
<1> QED BY <1>1, <1>3, <1>4, <1>5, Zenon

\* The store of i_open_cnts++; unless it raced, the count was the one that was loaded.
LEMMA StoreStep ==
  ASSUME TypeOK, NEW t \in Tasks, Store(t), copy[task[t].elem] # NONE \/ task[t].elem \in task[t].freed
  PROVE  /\ Others(t) /\ TaskType' /\ task[t].pc = "store" /\ task[t].elem \in Copies
         /\ \/ task'[t] = Astray /\ copy' = copy /\ lost' = lost
            \/ /\ task[t].elem \notin task[t].freed /\ copy[task[t].elem] # NONE
               /\ task'[t].pc = "held" /\ task'[t].elem = task[t].elem
               /\ copy' = [copy EXCEPT ![task[t].elem].i_open_cnts = task[t].n + 1]
               /\ task[t].n + 1 \in Int
               /\ \/ lost' = lost \union {task[t].elem}
                  \/ /\ lost' = lost /\ copy[task[t].elem].i_open_cnts = task[t].n
                     /\ task[t].elem \in Range(open_inodes)
                     /\ Counting(task[t].elem) = {}
<1>1. task[t].pc = "store"
  BY Zenon DEF Store, At
<1>2. task[t] \in Looking /\ task[t].elem \in Copies /\ task[t].n \in Int /\ task[t].no \in Inodes
  BY <1>1, TaskKinds, ElemFacts, Zenon
<1>3. CASE task[t].elem \in task[t].freed
  <2>1. Go(t, Astray) /\ copy' = copy /\ lost' = lost
    BY <1>3, Zenon DEF Store
  <2>2. task'[t] = Astray /\ Others(t) /\ DOMAIN task' = Tasks
    BY <2>1, GoFacts, Zenon
  <2>3. TaskType'
    BY <2>2, TaskTypeStep, IdleFacts, Zenon
  <2> QED BY <1>1, <1>2, <2>1, <2>2, <2>3, Zenon
<1>4. CASE task[t].elem \notin task[t].freed
  <2> DEFINE a == task[t].elem
             raced == \/ copy[a].i_open_cnts # task[t].n \/ a \notin Range(open_inodes)
                      \/ \E u \in Tasks : At(u, "count") /\ task[u].elem = a
  <2>1. /\ Go(t, Held(t, a)) /\ copy' = [copy EXCEPT ![a].i_open_cnts = task[t].n + 1]
        /\ lost' = IF raced THEN lost \union {a} ELSE lost
    BY <1>4, Zenon DEF Store
  <2>2. task'[t] = Held(t, a) /\ Others(t) /\ DOMAIN task' = Tasks
    BY <2>1, GoFacts, Zenon
  <2>3. Held(t, a) \in Having /\ Held(t, a).pc = "held" /\ Held(t, a).elem = a
    BY <1>2, Zenon DEF Held, Having
  <2>4. TaskType'
    BY <2>2, <2>3, TaskTypeStep, Zenon
  <2>5. ~raced => /\ copy[a].i_open_cnts = task[t].n /\ a \in Range(open_inodes)
                  /\ Counting(a) = {}
    BY Zenon DEF Counting
  <2>6. task[t].n + 1 \in Int
    BY <1>2
  <2> QED BY <1>1, <1>2, <1>4, <2>1, <2>2, <2>3, <2>4, <2>5, <2>6, ZenonT(30)
<1> QED BY <1>3, <1>4, Zenon

\* At the end of the list inode_open goes to the disk.
LEMMA MissStep ==
  ASSUME TypeOK, NEW t \in Tasks, Miss(t)
  PROVE  /\ Others(t) /\ TaskType' /\ task[t].pc = "walk" /\ task[t].elem = NONE
         /\ task'[t].pc = "read" /\ task'[t].no = task[t].no
<1>1. task[t].pc = "walk" /\ task[t].elem = NONE /\ Go(t, [task[t] EXCEPT !.pc = "read"])
  BY Zenon DEF Miss, At, GoTo
<1>2. task[t] \in Looking
  BY <1>1, TaskKinds, Zenon
<1> DEFINE s == [task[t] EXCEPT !.pc = "read"]
<1>3. s \in Looking /\ s.pc = "read" /\ s.no = task[t].no
  BY <1>2, Zenon DEF Looking
<1>4. task'[t] = s /\ Others(t) /\ DOMAIN task' = Tasks
  BY <1>1, GoFacts, Zenon
<1>5. TaskType'
  BY <1>3, <1>4, TaskTypeStep, Zenon
<1> QED BY <1>1, <1>3, <1>4, <1>5, Zenon

\* The first cell of an inode is one of its cells, and all are in the table.
LEMMA FirstCell ==
  ASSUME TypeOK, NEW i \in Inodes
  PROVE  /\ i * InodeCells \in CellsOf(i) /\ CellsOf(i) \subseteq DOMAIN table
         /\ \A c \in CellsOf(i) : table[c] \in DiskRecord
<1>1. i * InodeCells \in Nat
  BY ConstantFacts
<1>2. PICK m \in Nat : m = i * InodeCells
  BY <1>1, Zenon
<1>3. m \in m..(m + InodeCells - 1)
  BY ConstantFacts
<1>4. i * InodeCells \in CellsOf(i)
  BY <1>2, <1>3, Zenon DEF CellsOf
<1>5. table \in [UNION {CellsOf(j) : j \in Inodes} -> DiskRecord]
  BY Zenon DEF TypeOK
<1> QED BY <1>4, <1>5, Zenon

\* inode_open takes a free block, and fills it from the first cell of the inode.
LEMMA ReadStep ==
  ASSUME TypeOK, NEW t \in Tasks, Read(t)
  PROVE  /\ Others(t) /\ TaskType' /\ task[t].pc = "read"
         /\ task'[t].pc = "push" /\ task'[t].no = task[t].no
         /\ task'[t].elem \in Copies \ lost /\ copy[task'[t].elem] = NONE
         /\ copy' \in [Copies -> CopyRecord \union {NONE}]
         /\ copy'[task'[t].elem] # NONE /\ copy'[task'[t].elem].i_open_cnts = 0
         /\ copy'[task'[t].elem].i_no = table[task[t].no * InodeCells].i_no
         /\ \A b \in Copies \ {task'[t].elem} : copy'[b] = copy[b]
         /\ misread' = IF table[task[t].no * InodeCells].i_no = task[t].no
                       THEN misread \ {task'[t].elem} ELSE misread \union {task'[t].elem}
<1>1. task[t].pc = "read"
  BY Zenon DEF Read, At
<1>2. task[t] \in Looking /\ task[t].no \in Inodes
  BY <1>1, TaskKinds, ElemFacts, Zenon
<1>3. PICK r \in DiskRecord : r = table[task[t].no * InodeCells]
  BY <1>2, FirstCell, Zenon
<1>4. PICK a \in Copies :
        /\ copy[a] = NONE /\ a \notin lost
        /\ copy' = [copy EXCEPT ![a] = [i_no |-> r.i_no, data |-> r.data, i_open_cnts |-> 0]]
        /\ misread' = IF r.i_no = task[t].no THEN misread \ {a} ELSE misread \union {a}
        /\ Go(t, [task[t] EXCEPT !.pc = "push", !.elem = a])
  BY <1>3, Zenon DEF Read
<1> DEFINE s == [task[t] EXCEPT !.pc = "push", !.elem = a]
<1>5. s \in Looking /\ s.pc = "push" /\ s.no = task[t].no /\ s.elem = a
  BY <1>2, Zenon DEF Looking
<1>6. task'[t] = s /\ Others(t) /\ DOMAIN task' = Tasks
  BY <1>4, GoFacts, Zenon
<1>7. TaskType'
  BY <1>5, <1>6, TaskTypeStep, Zenon
<1>8. PICK c : c = [i_no |-> r.i_no, data |-> r.data, i_open_cnts |-> 0]
  BY Zenon
<1>9. c \in CopyRecord /\ c.i_open_cnts = 0 /\ c.i_no = r.i_no
  BY <1>8 DEF CopyRecord, DiskRecord
<1>10. c # NONE
  BY <1>9, ConstantFacts, Zenon
<1>11. copy \in [Copies -> CopyRecord \union {NONE}]
  BY Zenon DEF TypeOK
<1>12. copy' = [copy EXCEPT ![a] = c]
  BY <1>4, <1>8, Zenon
<1>13. copy' \in [Copies -> CopyRecord \union {NONE}] /\ copy'[a] = c /\ \A b \in Copies \ {a} : copy'[b] = copy[b]
  BY <1>9, <1>11, <1>12, Zenon
<1>14. task'[t].elem = a /\ task'[t].pc = "push" /\ task'[t].no = task[t].no
  BY <1>5, <1>6, Zenon
<1> QED BY <1>1, <1>3, <1>4, <1>6, <1>7, <1>9, <1>10, <1>13, <1>14, ZenonT(30)

\* The first half of list_push changes only where the task is.
LEMMA PushStep ==
  ASSUME TypeOK, NEW t \in Tasks, Push(t)
  PROVE  /\ Others(t) /\ TaskType' /\ task[t].pc = "push"
         /\ task'[t].pc = "insert" /\ task'[t].no = task[t].no /\ task'[t].elem = task[t].elem
<1> DEFINE s == [pc |-> "insert", no |-> task[t].no, elem |-> task[t].elem,
                 before |-> IF open_inodes = <<>> THEN NONE ELSE Head(open_inodes)]
<1>1. task[t].pc = "push" /\ Go(t, s)
  BY Zenon DEF Push, At
<1>2. task[t].no \in Inodes /\ task[t].elem \in Copies
  BY <1>1, ElemFacts, Zenon
<1>3. (IF open_inodes = <<>> THEN NONE ELSE Head(open_inodes)) \in Copies \union {NONE}
  <2>1. open_inodes \in Seq(Copies)
    BY Zenon DEF TypeOK
  <2> QED BY <2>1, HeadFacts, RangeFacts, Zenon
<1>4. s \in Inserting /\ s.pc = "insert" /\ s.no = task[t].no /\ s.elem = task[t].elem
  BY <1>2, <1>3, Zenon DEF Inserting
<1>5. task'[t] = s /\ Others(t) /\ DOMAIN task' = Tasks
  BY <1>1, GoFacts, Zenon
<1>6. TaskType'
  BY <1>4, <1>5, TaskTypeStep, Zenon
<1> QED BY <1>1, <1>4, <1>5, <1>6, Zenon

\* list_insert_before, in front of an element that is in the list, or astray.
LEMMA InsertStep ==
  ASSUME TypeOK, NEW t \in Tasks, Insert(t)
  PROVE  /\ Others(t) /\ TaskType' /\ task[t].pc = "insert"
         /\ \/ task'[t] = Astray /\ open_inodes' = open_inodes /\ twice' = twice
            \/ /\ task'[t].pc = "count" /\ task'[t].no = task[t].no /\ task'[t].elem = task[t].elem
               /\ task[t].before \in Range(open_inodes) \union {NONE}
               /\ open_inodes' = InsertBefore(open_inodes, task[t].before, task[t].elem)
               /\ twice' = IF Opening(task[t].no) = {t} THEN twice ELSE twice \union {task[t].no}
<1>1. task[t].pc = "insert"
  BY Zenon DEF Insert, At
<1>2. task[t].no \in Inodes /\ task[t].elem \in Copies
  BY <1>1, ElemFacts, Zenon
<1>3. CASE task[t].before \notin Range(open_inodes) \union {NONE}
  <2>1. Go(t, Astray) /\ open_inodes' = open_inodes /\ twice' = twice
    BY <1>3, Zenon DEF Insert
  <2>2. task'[t] = Astray /\ Others(t) /\ DOMAIN task' = Tasks
    BY <2>1, GoFacts, Zenon
  <2>3. TaskType'
    BY <2>2, TaskTypeStep, IdleFacts, Zenon
  <2> QED BY <1>1, <2>1, <2>2, <2>3, Zenon
<1>4. CASE task[t].before \in Range(open_inodes) \union {NONE}
  <2> DEFINE s == [pc |-> "count", no |-> task[t].no, elem |-> task[t].elem]
  <2>1. /\ Go(t, s) /\ open_inodes' = InsertBefore(open_inodes, task[t].before, task[t].elem)
        /\ twice' = IF Opening(task[t].no) = {t} THEN twice ELSE twice \union {task[t].no}
    BY <1>4, Zenon DEF Insert
  <2>2. task'[t] = s /\ Others(t) /\ DOMAIN task' = Tasks
    BY <2>1, GoFacts, Zenon
  <2>3. s \in Having /\ s.pc = "count" /\ s.no = task[t].no /\ s.elem = task[t].elem
    BY <1>2, Zenon DEF Having
  <2>4. TaskType'
    BY <2>2, <2>3, TaskTypeStep, Zenon
  <2> QED BY <1>1, <1>4, <2>1, <2>2, <2>3, <2>4, Zenon
<1> QED BY <1>3, <1>4, Zenon

\* i_open_cnts = 1, behind the push.
LEMMA SetCountStep ==
  ASSUME TypeOK, NEW t \in Tasks, SetCount(t)
  PROVE  /\ Others(t) /\ TaskType' /\ task[t].pc = "count" /\ task[t].elem \in Copies
         /\ \/ /\ task'[t] = Astray /\ copy[task[t].elem] = NONE /\ copy' = copy /\ lost' = lost
            \/ /\ copy[task[t].elem] # NONE
               /\ task'[t].pc = "held" /\ task'[t].elem = task[t].elem
               /\ copy' = [copy EXCEPT ![task[t].elem].i_open_cnts = 1]
               /\ \/ lost' = lost \union {task[t].elem}
                  \/ lost' = lost /\ Holders(task[t].elem) = {}
<1>1. task[t].pc = "count"
  BY Zenon DEF SetCount, At
<1>2. task[t].elem \in Copies /\ task[t].no \in Inodes
  BY <1>1, ElemFacts, Zenon
<1>3. CASE copy[task[t].elem] = NONE
  <2>1. Go(t, Astray) /\ copy' = copy /\ lost' = lost
    BY <1>3, Zenon DEF SetCount
  <2>2. task'[t] = Astray /\ Others(t) /\ DOMAIN task' = Tasks
    BY <2>1, GoFacts, Zenon
  <2>3. TaskType'
    BY <2>2, TaskTypeStep, IdleFacts, Zenon
  <2> QED BY <1>1, <1>2, <1>3, <2>1, <2>2, <2>3, Zenon
<1>4. CASE copy[task[t].elem] # NONE
  <2> DEFINE a == task[t].elem
  <2>1. /\ Go(t, Held(t, a)) /\ copy' = [copy EXCEPT ![a].i_open_cnts = 1]
        /\ lost' = IF copy[a].i_open_cnts # 0 \/ Holders(a) # {} THEN lost \union {a} ELSE lost
    BY <1>4, Zenon DEF SetCount
  <2>2. task'[t] = Held(t, a) /\ Others(t) /\ DOMAIN task' = Tasks
    BY <2>1, GoFacts, Zenon
  <2>3. Held(t, a) \in Having /\ Held(t, a).pc = "held" /\ Held(t, a).elem = a
    BY <1>2, Zenon DEF Held, Having
  <2>4. TaskType'
    BY <2>2, <2>3, TaskTypeStep, Zenon
  <2> QED BY <1>1, <1>2, <1>4, <2>1, <2>2, <2>3, <2>4, Zenon
<1> QED BY <1>3, <1>4, Zenon

-----------------------------------------------------------------------------
(* The steps of inode_close.                                               *)

\* inode_close: the count goes down, and the copy leaves the list when it was 1.
LEMMA CloseStep ==
  ASSUME TypeOK, NEW t \in Tasks, Close(t)
  PROVE  /\ Others(t) /\ TaskType' /\ task[t].pc = "held" /\ task[t].elem \in Copies
         /\ \/ /\ copy[task[t].elem] = NONE /\ task'[t] = Astray
               /\ copy' = copy /\ after' = after /\ open_inodes' = open_inodes
            \/ /\ copy[task[t].elem] # NONE
               /\ copy' = [copy EXCEPT ![task[t].elem].i_open_cnts = copy[task[t].elem].i_open_cnts - 1]
               /\ copy[task[t].elem].i_open_cnts - 1 \in Int
               /\ \/ /\ copy[task[t].elem].i_open_cnts = 1 /\ task[t].elem \in Range(open_inodes)
                     /\ task'[t].pc = "free" /\ task'[t].elem = task[t].elem
                     /\ after' = [after EXCEPT ![task[t].elem] = NextOf(task[t].elem)]
                     /\ open_inodes' = Removed(open_inodes, task[t].elem)
                  \/ /\ copy[task[t].elem].i_open_cnts # 1 \/ task[t].elem \notin Range(open_inodes)
                     /\ task'[t] \in {Idle, Astray}
                     /\ after' = after /\ open_inodes' = open_inodes
<1> DEFINE a == task[t].elem
<1>1. task[t].pc = "held"
  BY Zenon DEF Close, At
<1>2. task[t] \in Having /\ a \in Copies
  BY <1>1, TaskKinds, ElemFacts, Zenon
<1>3. CASE copy[a] = NONE
  <2>1. Go(t, Astray) /\ copy' = copy /\ after' = after /\ open_inodes' = open_inodes
    BY <1>3, Zenon DEF Close, memory
  <2>2. task'[t] = Astray /\ Others(t) /\ DOMAIN task' = Tasks
    BY <2>1, GoFacts, Zenon
  <2>3. TaskType'
    BY <2>2, TaskTypeStep, IdleFacts, Zenon
  <2> QED BY <1>1, <1>2, <1>3, <2>1, <2>2, <2>3, Zenon
<1>4. CASE copy[a] # NONE
  <2>1. copy' = [copy EXCEPT ![a].i_open_cnts = copy[a].i_open_cnts - 1]
    BY <1>4, Zenon DEF Close
  <2>2. copy[a].i_open_cnts - 1 \in Int
    BY <1>2, <1>4 DEF TypeOK, CopyRecord
  <2>3. CASE copy[a].i_open_cnts = 1 /\ a \in Range(open_inodes)
    <3> DEFINE s == [task[t] EXCEPT !.pc = "free"]
    <3>1. /\ Go(t, s) /\ after' = [after EXCEPT ![a] = NextOf(a)] /\ open_inodes' = Removed(open_inodes, a)
      BY <1>4, <2>3, Zenon DEF Close, GoTo
    <3>2. task'[t] = s /\ Others(t) /\ DOMAIN task' = Tasks
      BY <3>1, GoFacts, Zenon
    <3>3. s \in Having /\ s.pc = "free" /\ s.elem = a
      BY <1>2, Zenon DEF Having
    <3>4. TaskType'
      BY <3>2, <3>3, TaskTypeStep, Zenon
    <3> QED BY <1>1, <1>2, <1>4, <2>1, <2>2, <2>3, <3>1, <3>2, <3>3, <3>4, Zenon
  <2>4. CASE ~(copy[a].i_open_cnts = 1 /\ a \in Range(open_inodes))
    <3> DEFINE s == IF copy[a].i_open_cnts = 1 THEN Astray ELSE Idle
    <3>1. Go(t, s) /\ after' = after /\ open_inodes' = open_inodes
      BY <1>4, <2>4, Zenon DEF Close
    <3>2. task'[t] = s /\ Others(t) /\ DOMAIN task' = Tasks
      BY <3>1, GoFacts
    <3>3. s \in {Idle, Astray}
      BY Zenon
    <3>4. TaskType'
      BY <3>2, <3>3, TaskTypeStep, IdleFacts, Zenon
    <3> QED BY <1>1, <1>2, <1>4, <2>1, <2>2, <2>4, <3>1, <3>2, <3>3, <3>4, Zenon
  <2> QED BY <2>3, <2>4, Zenon
<1> QED BY <1>3, <1>4, Zenon

\* sys_free of a copy, and what the tasks in inode_open learn of it.
LEMMA FreeStep ==
  ASSUME TypeOK, NEW t \in Tasks, Free(t)
  PROVE  /\ TaskType' /\ task[t].pc = "free" /\ task[t].elem \in Copies /\ task'[t] = Idle
         /\ copy' \in [Copies -> CopyRecord \union {NONE}] /\ copy'[task[t].elem] = NONE
         /\ \A b \in Copies \ {task[t].elem} : copy'[b] = copy[b] /\ after'[b] = after[b]
         /\ after' \in [Copies -> Copies \union {NONE}]
         /\ \A u \in Tasks \ {t} :
              /\ task'[u].pc = task[u].pc /\ task'[u].elem = task[u].elem /\ task'[u].no = task[u].no
              /\ IF task[u].pc \in {"walk", "found", "store"}
                 THEN task'[u].freed = task[u].freed \union {task[t].elem}
                 ELSE task'[u] = task[u]
<1> DEFINE a == task[t].elem
<1>1. task[t].pc = "free"
  BY Zenon DEF Free, At
<1>2. a \in Copies
  BY <1>1, ElemFacts, Zenon
<1>3. /\ copy' = [copy EXCEPT ![a] = NONE] /\ after' = [after EXCEPT ![a] = NONE]
      /\ task' = [u \in Tasks |->
                    IF u = t THEN Idle
                    ELSE IF InOpen(u) THEN [task[u] EXCEPT !.freed = @ \union {a}] ELSE task[u]]
  BY Zenon DEF Free
<1>4. copy \in [Copies -> CopyRecord \union {NONE}] /\ after \in [Copies -> Copies \union {NONE}]
  BY Zenon DEF TypeOK
<1>5. /\ copy' \in [Copies -> CopyRecord \union {NONE}] /\ copy'[a] = NONE
      /\ \A b \in Copies \ {a} : copy'[b] = copy[b] /\ after'[b] = after[b]
      /\ after' \in [Copies -> Copies \union {NONE}]
  BY <1>2, <1>3, <1>4, Zenon
<1>6. DOMAIN task' = Tasks /\ task'[t] = Idle
  BY <1>3, Zenon
<1>7. ASSUME NEW u \in Tasks \ {t}
      PROVE  /\ task'[u].pc = task[u].pc /\ task'[u].elem = task[u].elem /\ task'[u].no = task[u].no
             /\ IF task[u].pc \in {"walk", "found", "store"}
                THEN task'[u] \in Looking /\ task'[u].freed = task[u].freed \union {a}
                ELSE task'[u] = task[u]
  <2>1. CASE task[u].pc \in {"walk", "found", "store"}
    <3>1. task[u] \in Looking
      BY <2>1, TaskKinds, Zenon
    <3>2. task'[u] = [task[u] EXCEPT !.freed = task[u].freed \union {a}]
      BY <1>3, <2>1, Zenon DEF InOpen
    <3> QED BY <1>2, <2>1, <3>1, <3>2 DEF Looking
  <2>2. CASE task[u].pc \notin {"walk", "found", "store"}
    <3>1. task'[u] = task[u]
      BY <1>3, <2>2, Zenon DEF InOpen
    <3> QED BY <2>2, <3>1, Zenon
  <2> QED BY <2>1, <2>2, Zenon
<1>8. TaskType'
  <2>1. ASSUME NEW u \in Tasks
        PROVE  /\ \/ task'[u] \in {Idle, Astray} \union Looking \union Inserting \union Having
                  \/ Syncing(task'[u])
               /\ task'[u].pc \in {"found", "store", "push"} => task'[u].elem \in Copies
    <3>1. CASE u = t
      BY <1>6, <3>1, IdleFacts, Zenon
    <3>2. CASE u # t
      BY <1>7, <3>2, Zenon DEF TypeOK, TaskType
    <3> QED BY <3>1, <3>2, Zenon
  <2> QED BY <1>6, <2>1, Zenon DEF TaskType
<1> QED BY <1>1, <1>2, <1>5, <1>6, <1>7, <1>8, Zenon

-----------------------------------------------------------------------------
(* The steps of inode_sync.                                                *)

\* A change of an open inode leaves its number and its count.
LEMMA ChangeStep ==
  ASSUME TypeOK, NEW t \in Tasks, Change(t)
  PROVE  /\ copy' \in [Copies -> CopyRecord \union {NONE}] /\ changes' \in Nat
         /\ \A b \in Copies : /\ copy'[b] = NONE <=> copy[b] = NONE
                              /\ copy'[b].i_no = copy[b].i_no
                              /\ copy'[b].i_open_cnts = copy[b].i_open_cnts
<1> DEFINE a == task[t].elem
<1>1. /\ task[t].pc = "held" /\ copy[a] # NONE /\ changes' = changes + 1
      /\ copy' = [copy EXCEPT ![a].data = changes + 1]
  BY Zenon DEF Change, At
<1>2. a \in Copies
  BY <1>1, ElemFacts, Zenon
<1>3. copy \in [Copies -> CopyRecord \union {NONE}] /\ changes + 1 \in Nat
  BY DEF TypeOK
<1>4. PICK r : r = [copy[a] EXCEPT !.data = changes + 1]
  BY Zenon
<1>5. r \in CopyRecord /\ r.i_no = copy[a].i_no /\ r.i_open_cnts = copy[a].i_open_cnts
  BY <1>1, <1>2, <1>3, <1>4, Zenon DEF CopyRecord
<1>6. copy' = [copy EXCEPT ![a] = r]
  BY <1>1, <1>4, Zenon
<1>7. r # NONE
  BY <1>5, ConstantFacts, Zenon
<1> QED BY <1>1, <1>2, <1>3, <1>5, <1>6, <1>7, Zenon

\* The call of inode_sync, with the record it is given.
LEMMA SyncCall ==
  ASSUME TypeOK, NEW t \in Tasks, NEW r \in DiskRecord, NEW a \in Copies \union {NONE}, Sync(t, r, a)
  PROVE  /\ Others(t) /\ TaskType' /\ task'[t].pc = "sync_read" /\ task'[t].elem = a
<1> DEFINE s == [pc |-> "sync_read", elem |-> a, no |-> r.i_no, record |-> r, place |-> r.i_no % Wrap,
                 buf |-> <<>>, undone |-> {}]
<1>1. Go(t, s)
  BY Zenon DEF Sync
<1>2. r.i_no \in Inodes /\ r.i_no % Wrap \in Nat
  <2>1. Wrap \in Nat /\ Wrap > 0 /\ Inodes \subseteq Nat
    BY ConstantFacts, Zenon
  <2>2. r.i_no \in Inodes
    BY Zenon DEF DiskRecord
  <2>3. PICK k \in Nat : k = r.i_no
    BY <2>1, <2>2, Zenon
  <2>4. k % Wrap \in Nat
    BY <2>1
  <2> QED BY <2>2, <2>3, <2>4, Zenon
<1>3. DOMAIN s.buf = {}
  OBVIOUS
<1>4. /\ DOMAIN s = {"pc", "elem", "no", "record", "place", "buf", "undone"}
      /\ s.pc = "sync_read" /\ s.elem = a /\ s.no = r.i_no /\ s.record = r /\ s.place = r.i_no % Wrap
  BY Zenon
<1>5. Syncing(s)
  BY <1>2, <1>3, <1>4, Zenon DEF Syncing
<1>6. task'[t] = s /\ Others(t) /\ DOMAIN task' = Tasks
  BY <1>1, GoFacts, Zenon
<1>7. TaskType'
  BY <1>4, <1>5, <1>6, TaskTypeStep, Zenon
<1> QED BY <1>4, <1>6, <1>7, Zenon

\* inode_sync of an open inode leaves the copy with the task.
LEMMA SyncOpenStep ==
  ASSUME TypeOK, NEW t \in Tasks, SyncOpen(t)
  PROVE  /\ Others(t) /\ TaskType' /\ task[t].pc = "held"
         /\ task'[t].pc = "sync_read" /\ task'[t].elem = task[t].elem
<1>1. task[t].pc = "held" /\ copy[task[t].elem] # NONE
  BY Zenon DEF SyncOpen, At
<1>2. task[t].elem \in Copies
  BY <1>1, ElemFacts, Zenon
<1>3. PICK c \in CopyRecord : c = copy[task[t].elem]
  BY <1>1, <1>2, Zenon DEF TypeOK
<1>4. PICK r \in DiskRecord : r = Record(c.i_no, c.data)
  BY Zenon DEF Record, DiskRecord, CopyRecord
<1>5. Sync(t, r, task[t].elem)
  BY <1>3, <1>4, Zenon DEF SyncOpen
<1> QED BY <1>1, <1>2, <1>5, SyncCall, Zenon

\* inode_sync of a new inode is called without a copy.
LEMMA SyncNewStep ==
  ASSUME TypeOK, NEW t \in Tasks, NEW i \in Inodes, SyncNew(t, i)
  PROVE  /\ Others(t) /\ TaskType' /\ task[t].pc = "idle" /\ changes' \in Nat
         /\ task'[t].pc = "sync_read" /\ task'[t].elem = NONE
<1>1. task[t].pc = "idle" /\ changes' = changes + 1 /\ Sync(t, Record(i, changes + 1), NONE)
  BY Zenon DEF SyncNew, At
<1>2. changes + 1 \in Nat
  BY DEF TypeOK
<1>3. PICK r \in DiskRecord : r = Record(i, changes + 1)
  BY <1>2, Zenon DEF Record, DiskRecord
<1>4. Sync(t, r, NONE)
  BY <1>1, <1>3, Zenon
<1> QED BY <1>1, <1>2, <1>4, SyncCall, Zenon

\* inode_sync reads the sectors inode_locate has found.
LEMMA SyncReadStep ==
  ASSUME TypeOK, NEW t \in Tasks, SyncRead(t)
  PROVE  /\ Others(t) /\ TaskType' /\ task[t].pc = "sync_read" /\ task'[t].pc = "sync_write"
         /\ task'[t].elem = task[t].elem /\ task'[t].place = task[t].place
         /\ DOMAIN task'[t].buf = CellsIn(SectorsOf(task[t].place))
         /\ \A c \in DOMAIN task'[t].buf : task'[t].buf[c] = table[c]
<1>1. task[t].pc = "sync_read"
  BY Zenon DEF SyncRead, At
<1>2. PICK D : D = CellsIn(SectorsOf(task[t].place))
  BY Zenon
<1>3. PICK b : b = [c \in D |-> table[c]]
  BY Zenon
<1>4. PICK s : s = [task[t] EXCEPT !.pc = "sync_write", !.buf = b]
  BY Zenon
<1>5. Go(t, s)
  BY <1>2, <1>3, <1>4, Zenon DEF SyncRead, Restrict
<1>6. Syncing(task[t])
  BY <1>1, TaskKinds, Zenon
<1>7. /\ DOMAIN s = DOMAIN task[t] /\ s.pc = "sync_write" /\ s.elem = task[t].elem /\ s.no = task[t].no
      /\ s.record = task[t].record /\ s.place = task[t].place /\ s.buf = b
  BY <1>4, <1>6, Zenon DEF Syncing
<1>8. DOMAIN b = D /\ \A c \in D : b[c] = table[c] /\ b[c] \in DiskRecord
  <2>1. table \in [UNION {CellsOf(j) : j \in Inodes} -> DiskRecord]
    BY Zenon DEF TypeOK
  <2>2. \A c \in D : c \in DOMAIN table
    BY <1>2, Zenon DEF CellsIn
  <2> QED BY <1>3, <2>1, <2>2, Zenon
<1>9. Syncing(s)
  BY <1>6, <1>7, <1>8, Zenon DEF Syncing
<1>10. task'[t] = s /\ Others(t) /\ DOMAIN task' = Tasks
  BY <1>5, GoFacts, Zenon
<1>11. TaskType'
  BY <1>7, <1>9, <1>10, TaskTypeStep, Zenon
<1> QED BY <1>1, <1>2, <1>7, <1>8, <1>10, <1>11, Zenon

\* inode_sync writes the sectors; the others between read and write learn of it.
LEMMA SyncWriteStep ==
  ASSUME TypeOK, NEW t \in Tasks, SyncWrite(t)
  PROVE  /\ TaskType' /\ task[t].pc = "sync_write"
         /\ IF task[t].elem = NONE THEN task'[t] = Idle
            ELSE task'[t].pc = "held" /\ task'[t].elem = task[t].elem
         /\ \A u \in Tasks \ {t} :
              /\ task'[u].pc = task[u].pc /\ task'[u].elem = task[u].elem /\ task'[u].no = task[u].no
              /\ task[u].pc = "sync_write" =>
                   /\ task'[u].place = task[u].place /\ task'[u].buf = task[u].buf
                   /\ task[u].undone \subseteq task'[u].undone
                   /\ (Shares(u, task[t].place) /\ task[u].place # task[t].place) =>
                        task[t].place \in task'[u].undone
              /\ task[u].pc # "sync_write" => task'[u] = task[u]
<1> DEFINE s == task[t]
<1>1. /\ s.pc = "sync_write"
      /\ task' = [u \in Tasks |->
              IF u = t THEN IF s.elem = NONE THEN Idle ELSE [pc |-> "held", no |-> s.no, elem |-> s.elem]
              ELSE IF At(u, "sync_write") /\ Shares(u, s.place) /\ task[u].place # s.place
                   THEN [task[u] EXCEPT !.undone = task[u].undone \union {s.place}] ELSE task[u]]
  BY Zenon DEF SyncWrite, At
<1>2. s.elem \in Copies \union {NONE} /\ s.no \in Inodes
  BY <1>1, ElemFacts, Zenon
<1>3. DOMAIN task' = Tasks
  BY <1>1, Zenon
<1>4. IF s.elem = NONE THEN task'[t] = Idle
      ELSE task'[t] \in Having /\ task'[t].pc = "held" /\ task'[t].elem = s.elem
  BY <1>1, <1>2, Zenon DEF Having
<1>5. ASSUME NEW u \in Tasks \ {t}
      PROVE  /\ task'[u].pc = task[u].pc /\ task'[u].elem = task[u].elem /\ task'[u].no = task[u].no
             /\ task[u].pc = "sync_write" =>
                  /\ Syncing(task'[u])
                  /\ task'[u].place = task[u].place /\ task'[u].buf = task[u].buf
                  /\ task[u].undone \subseteq task'[u].undone
                  /\ (Shares(u, s.place) /\ task[u].place # s.place) => s.place \in task'[u].undone
             /\ task[u].pc # "sync_write" => task'[u] = task[u]
  <2>1. CASE task[u].pc = "sync_write" /\ Shares(u, s.place) /\ task[u].place # s.place
    <3>1. task'[u] = [task[u] EXCEPT !.undone = task[u].undone \union {s.place}]
      BY <1>1, <2>1, Zenon DEF At
    <3>2. Syncing(task[u])
      BY <2>1, TaskKinds, Zenon
    <3>3. /\ DOMAIN task'[u] = DOMAIN task[u] /\ task'[u].pc = task[u].pc /\ task'[u].elem = task[u].elem
          /\ task'[u].no = task[u].no /\ task'[u].record = task[u].record
          /\ task'[u].place = task[u].place /\ task'[u].buf = task[u].buf
          /\ task'[u].undone = task[u].undone \union {s.place}
      BY <3>1, <3>2, Zenon DEF Syncing
    <3>4. Syncing(task'[u])
      BY <3>2, <3>3, Zenon DEF Syncing
    <3> QED BY <2>1, <3>3, <3>4, Zenon
  <2>2. CASE ~(task[u].pc = "sync_write" /\ Shares(u, s.place) /\ task[u].place # s.place)
    <3>1. task'[u] = task[u]
      BY <1>1, <2>2, Zenon DEF At
    <3>2. task[u].pc = "sync_write" => Syncing(task[u])
      BY TaskKinds, Zenon
    <3> QED BY <2>2, <3>1, <3>2, Zenon
  <2> QED BY <2>1, <2>2, Zenon
<1>6. TaskType'
  <2>1. ASSUME NEW u \in Tasks
        PROVE  /\ \/ task'[u] \in {Idle, Astray} \union Looking \union Inserting \union Having
                  \/ Syncing(task'[u])
               /\ task'[u].pc \in {"found", "store", "push"} => task'[u].elem \in Copies
    <3>1. CASE u = t
      BY <1>4, <3>1, IdleFacts, Zenon
    <3>2. CASE u # t
      <4>1. task[u].pc \in {"found", "store", "push"} => task[u].elem \in Copies
        BY Zenon DEF TypeOK, TaskType
      <4>2. CASE task[u].pc = "sync_write"
        BY <1>5, <3>2, <4>1, <4>2, Zenon
      <4>3. CASE task[u].pc # "sync_write"
        <5>1. task'[u] = task[u]
          BY <1>5, <3>2, <4>3, Zenon
        <5> QED BY <5>1, Zenon DEF TypeOK, TaskType
      <4> QED BY <4>2, <4>3, Zenon
    <3> QED BY <3>1, <3>2, Zenon
  <2> QED BY <1>3, <2>1, Zenon DEF TaskType
<1> QED BY <1>1, <1>4, <1>5, <1>6, Zenon

\* What inode_sync writes: its record in the cells of its place that it has read, what it
\* has read in the others.
LEMMA TableStep ==
  ASSUME TypeOK, NEW t \in Tasks, SyncWrite(t)
  PROVE  /\ task[t].record \in DiskRecord
         /\ table' \in [UNION {CellsOf(i) : i \in Inodes} -> DiskRecord]
         /\ DOMAIN table' = DOMAIN table
         /\ \A c \in DOMAIN table : table'[c] =
              IF c \in CellsOf(task[t].place) /\ c \in DOMAIN task[t].buf THEN task[t].record
              ELSE IF c \in DOMAIN task[t].buf THEN task[t].buf[c] ELSE table[c]
         /\ DOMAIN saved' = DOMAIN saved \union {task[t].record.i_no}
         /\ DOMAIN saved' \subseteq Inodes /\ saved' \in [DOMAIN saved' -> Nat]
         /\ saved'[task[t].record.i_no] = task[t].record.data
         /\ \A i \in DOMAIN saved \ {task[t].record.i_no} : saved'[i] = saved[i]
<1>1. /\ task[t].pc = "sync_write"
      /\ table' = [c \in DOMAIN table |->
           IF c \in CellsOf(task[t].place) /\ c \in DOMAIN task[t].buf THEN task[t].record
           ELSE IF c \in DOMAIN task[t].buf THEN task[t].buf[c] ELSE table[c]]
      /\ saved' = [i \in DOMAIN saved \union {task[t].record.i_no} |->
                    IF i = task[t].record.i_no THEN task[t].record.data ELSE saved[i]]
  BY Zenon DEF SyncWrite, At
<1>2. task[t].record \in DiskRecord /\ \A c \in DOMAIN task[t].buf : task[t].buf[c] \in DiskRecord
  BY <1>1, TaskKinds, Zenon DEF Syncing
<1>3. table \in [UNION {CellsOf(j) : j \in Inodes} -> DiskRecord]
  BY Zenon DEF TypeOK
<1>4. table' \in [UNION {CellsOf(i) : i \in Inodes} -> DiskRecord] /\ DOMAIN table' = DOMAIN table
  BY <1>1, <1>2, <1>3, Zenon
<1>5. PICK k \in Inodes, v \in Nat : k = task[t].record.i_no /\ v = task[t].record.data
  BY <1>2, Zenon DEF DiskRecord
<1>6. saved' = [i \in DOMAIN saved \union {k} |-> IF i = k THEN v ELSE saved[i]]
  BY <1>1, <1>5, Zenon
<1>7. DOMAIN saved \subseteq Inodes /\ saved \in [DOMAIN saved -> Nat]
  BY Zenon DEF TypeOK
<1>8. /\ DOMAIN saved' = DOMAIN saved \union {k} /\ DOMAIN saved' \subseteq Inodes
      /\ saved' \in [DOMAIN saved' -> Nat] /\ saved'[k] = v
      /\ \A i \in DOMAIN saved \ {k} : saved'[i] = saved[i]
  BY <1>6, <1>7, Zenon
<1> QED BY <1>1, <1>2, <1>4, <1>5, <1>8, Zenon

-----------------------------------------------------------------------------
(* The types.                                                              *)

\* A copy that is in the list or being closed is allocated, so one that a task in
\* inode_open has found is, unless it was freed since.
LEMMA FoundAllocated ==
  ASSUME IInv, NEW t \in Tasks, task[t].pc \in {"found", "store"}
  PROVE  copy[task[t].elem] # NONE \/ task[t].elem \in task[t].freed
<1>1. task[t].elem \in task[t].freed \union Range(open_inodes) \/ Closing(task[t].elem)
  BY Zenon DEF IInv, WalkInv, Knows
<1>2. CASE Closing(task[t].elem)
  <2>1. PICK u \in Tasks : task[u].pc = "free" /\ task[u].elem = task[t].elem
    BY <1>2, Zenon DEF Closing, At
  <2>2. u \in Outside
    BY <2>1, Zenon DEF Outside
  <2> QED BY <2>1, <2>2, Zenon DEF IInv, BlockInv
<1>3. CASE task[t].elem \in Range(open_inodes)
  BY <1>3, Zenon DEF IInv, BlockInv
<1> QED BY <1>1, <1>2, <1>3, Zenon

\* The types are preserved by a step that leaves the list and the disk as they are.
LEMMA TypeFrame ==
  ASSUME TypeOK, TaskType', open_inodes' = open_inodes, after' = after, table' = table, saved' = saved,
         copy' \in [Copies -> CopyRecord \union {NONE}], changes' \in Nat,
         lost' \subseteq Copies, misread' \subseteq Copies
  PROVE  TypeOK'
BY Zenon DEF TypeOK, CellsOf

\* Every step preserves the types.
LEMMA TypePreserved ==
  ASSUME IInv, NEW t \in Tasks, Step(t)
  PROVE  TypeOK'
<1>1. TypeOK
  BY Zenon DEF IInv
<1>2. /\ copy \in [Copies -> CopyRecord \union {NONE}] /\ changes \in Nat
      /\ lost \subseteq Copies /\ misread \subseteq Copies
  BY <1>1, Zenon DEF TypeOK
<1>3. ASSUME NEW i \in Inodes, Open(t, i) PROVE TypeOK'
  BY <1>1, <1>2, <1>3, OpenStep, TypeFrame, Zenon DEF Open, memory, history
<1>4. CASE Walk(t)
  BY <1>1, <1>2, <1>4, WalkStep, TypeFrame, Zenon DEF Walk, memory, history
<1>5. CASE Load(t)
  <2>1. task[t].pc = "found"
    BY <1>5, Zenon DEF Load, At
  <2> QED BY <1>1, <1>2, <1>5, <2>1, FoundAllocated, LoadStep, TypeFrame, Zenon DEF Load, memory, history
<1>6. CASE Store(t)
  <2>1. task[t].pc = "store"
    BY <1>6, Zenon DEF Store, At
  <2>2. copy[task[t].elem] # NONE \/ task[t].elem \in task[t].freed
    BY <2>1, FoundAllocated, Zenon
  <2>3. /\ TaskType' /\ task[t].elem \in Copies
        /\ \/ copy' = copy /\ lost' = lost
           \/ /\ copy[task[t].elem] # NONE /\ task[t].n + 1 \in Int
              /\ copy' = [copy EXCEPT ![task[t].elem].i_open_cnts = task[t].n + 1]
              /\ lost' \in {lost, lost \union {task[t].elem}}
    BY <1>1, <1>6, <2>2, StoreStep, Zenon
  <2>4. copy' \in [Copies -> CopyRecord \union {NONE}] /\ lost' \subseteq Copies
    BY <1>1, <1>2, <2>3, CountSet, Zenon
  <2> QED BY <1>1, <1>2, <1>6, <2>3, <2>4, TypeFrame, Zenon DEF Store
<1>7. CASE Miss(t)
  BY <1>1, <1>2, <1>7, MissStep, TypeFrame, Zenon DEF Miss, memory, history
<1>8. CASE Read(t)
  <2>1. /\ TaskType' /\ task'[t].elem \in Copies /\ copy' \in [Copies -> CopyRecord \union {NONE}]
        /\ misread' \in {misread \ {task'[t].elem}, misread \union {task'[t].elem}}
    BY <1>1, <1>8, ReadStep, Zenon
  <2> QED BY <1>1, <1>2, <1>8, <2>1, TypeFrame, Zenon DEF Read
<1>9. CASE Push(t)
  BY <1>1, <1>2, <1>9, PushStep, TypeFrame, Zenon DEF Push, memory, history
<1>10. CASE Insert(t)
  <2>1. TaskType' /\ task[t].pc = "insert"
    BY <1>1, <1>10, InsertStep, Zenon
  <2>2. /\ open_inodes \in Seq(Copies) /\ task[t].elem \in Copies /\ task[t].elem \notin Range(open_inodes)
        /\ IsInjective(open_inodes)
    <3>1. t \in Outside
      BY <2>1, Zenon DEF Outside
    <3> QED BY <1>1, <2>1, <3>1, ElemFacts, Zenon DEF IInv, BlockInv, TypeOK
  <2>3. open_inodes' \in Seq(Copies)
    BY <1>1, <1>10, <2>2, InsertStep, InsertBeforeFacts
  <2> QED BY <1>1, <1>10, <2>1, <2>3, Zenon DEF TypeOK, Insert, CellsOf
<1>11. CASE SetCount(t)
  <2>1. /\ TaskType' /\ task[t].elem \in Copies
        /\ \/ copy' = copy /\ lost' = lost
           \/ /\ copy[task[t].elem] # NONE
              /\ copy' = [copy EXCEPT ![task[t].elem].i_open_cnts = 1]
              /\ lost' \in {lost, lost \union {task[t].elem}}
    BY <1>1, <1>11, SetCountStep, Zenon
  <2>2. copy' \in [Copies -> CopyRecord \union {NONE}] /\ lost' \subseteq Copies
    BY <1>1, <1>2, <2>1, CountSet
  <2> QED BY <1>1, <1>2, <1>11, <2>1, <2>2, TypeFrame, Zenon DEF SetCount
<1>12. CASE Close(t)
  <2> DEFINE a == task[t].elem
  <2>1. /\ TaskType' /\ a \in Copies
        /\ \/ copy' = copy
           \/ /\ copy[a] # NONE /\ copy[a].i_open_cnts - 1 \in Int
              /\ copy' = [copy EXCEPT ![a].i_open_cnts = copy[a].i_open_cnts - 1]
    BY <1>1, <1>12, CloseStep, Zenon
  <2>2. copy' \in [Copies -> CopyRecord \union {NONE}]
    BY <1>1, <1>2, <2>1, CountSet, Zenon
  <2>3. /\ after' \in {after, [after EXCEPT ![a] = NextOf(a)]}
        /\ open_inodes' = open_inodes \/ (a \in Range(open_inodes) /\ open_inodes' = Removed(open_inodes, a))
    BY <1>1, <1>12, CloseStep, Zenon
  <2>4. open_inodes \in Seq(Copies) /\ IsInjective(open_inodes) /\ after \in [Copies -> Copies \union {NONE}]
    BY <1>1, Zenon DEF IInv, BlockInv, TypeOK
  <2>5. open_inodes' \in Seq(Copies)
    BY <2>3, <2>4, RemovedFacts, Zenon
  <2>6. after' \in [Copies -> Copies \union {NONE}]
    BY <1>1, <2>1, <2>3, <2>4, NextType, Zenon
  <2> QED BY <1>1, <1>12, <2>1, <2>2, <2>5, <2>6, Zenon DEF TypeOK, Close, CellsOf, history
<1>13. CASE Free(t)
  BY <1>1, <1>13, FreeStep, Zenon DEF TypeOK, Free, CellsOf, history
<1>14. CASE Change(t)
  <2>1. TaskType'
    BY <1>1, <1>14, Zenon DEF Change, TypeOK, TaskType
  <2> QED BY <1>1, <1>2, <1>14, <2>1, ChangeStep, TypeFrame, Zenon DEF Change, history
<1>15. CASE SyncOpen(t)
  BY <1>1, <1>2, <1>15, SyncOpenStep, TypeFrame, Zenon DEF SyncOpen, memory, history
<1>16. ASSUME NEW i \in Inodes, SyncNew(t, i) PROVE TypeOK'
  BY <1>1, <1>2, <1>16, SyncNewStep, TypeFrame, Zenon DEF SyncNew, memory, history
<1>17. CASE SyncRead(t)
  BY <1>1, <1>2, <1>17, SyncReadStep, TypeFrame, Zenon DEF SyncRead, memory, history
<1>18. CASE SyncWrite(t)
  <2>1. TaskType'
    BY <1>1, <1>18, SyncWriteStep, Zenon
  <2>2. /\ table' \in [UNION {CellsOf(i) : i \in Inodes} -> DiskRecord]
        /\ DOMAIN saved' \subseteq Inodes /\ saved' \in [DOMAIN saved' -> Nat]
    BY <1>1, <1>18, TableStep, Zenon
  <2> QED BY <1>1, <1>18, <2>1, <2>2, Zenon DEF TypeOK, SyncWrite, CellsOf, memory
<1> QED BY <1>3, <1>4, <1>5, <1>6, <1>7, <1>8, <1>9, <1>10, <1>11, <1>12, <1>13, <1>14, <1>15,
           <1>16, <1>17, <1>18, ZenonT(30) DEF Step

-----------------------------------------------------------------------------
(* The blocks.                                                             *)

\* The tasks other than t stay where they are, on the same element.
KeepOthers(t) ==
  \A u \in Tasks \ {t} :
    task'[u].pc = task[u].pc /\ task'[u].elem = task[u].elem /\ task'[u].no = task[u].no

\* A step that leaves the other tasks as they are keeps where they are.
LEMMA OthersKept ==
  ASSUME NEW t, Others(t)
  PROVE  KeepOthers(t)
BY Zenon DEF Others, KeepOthers

\* The blocks stay in the same hands in a step that neither allocates nor frees one and
\* leaves the list as it is.
LEMMA BlockFrame ==
  ASSUME TypeOK, BlockInv, NEW t \in Tasks, KeepOthers(t), open_inodes' = open_inodes,
         \A a \in Copies : copy[a] # NONE => copy'[a] # NONE,
         task'[t].pc \in {"push", "insert", "free"} =>
           task[t].pc \in {"push", "insert", "free"} /\ task'[t].elem = task[t].elem
  PROVE  BlockInv'
<1>1. \A u \in Outside' : u \in Outside /\ task'[u].elem = task[u].elem
  BY Zenon DEF Outside, KeepOthers
<1>2. \A u \in Outside : u \in Tasks /\ task[u].elem \in Copies
  BY ElemFacts, Zenon DEF Outside
<1>3. Range(open_inodes) \subseteq Copies
  BY RangeFacts, Zenon DEF TypeOK
<1>4. IsInjective(open_inodes')
  BY Zenon DEF BlockInv
<1>5. \A a \in Range(open_inodes') : copy'[a] # NONE
  BY <1>3, Zenon DEF BlockInv
<1>6. \A u \in Outside' : task'[u].elem \notin Range(open_inodes') /\ copy'[task'[u].elem] # NONE
  BY <1>1, <1>2, Zenon DEF BlockInv
<1>7. \A u, v \in Outside' : task'[u].elem = task'[v].elem => u = v
  BY <1>1, Zenon DEF BlockInv
<1> QED BY <1>4, <1>5, <1>6, <1>7, Zenon DEF BlockInv

\* A copy whose count changes stays allocated.
LEMMA CountSetAllocated ==
  ASSUME TypeOK, NEW a \in Copies, copy[a] # NONE, NEW v \in Int,
         copy' = [copy EXCEPT ![a].i_open_cnts = v]
  PROVE  \A b \in Copies : copy[b] # NONE => copy'[b] # NONE
<1>1. copy'[a] # NONE /\ \A b \in Copies \ {a} : copy'[b] = copy[b]
  BY CountSet, ZenonT(30)
<1> QED BY <1>1, Zenon

\* Every step leaves a block free, in the list, or in the hands of one task.
LEMMA BlockPreserved ==
  ASSUME IInv, NEW t \in Tasks, Step(t)
  PROVE  BlockInv'
<1>1. TypeOK /\ BlockInv
  BY Zenon DEF IInv
<1>2. open_inodes \in Seq(Copies) /\ IsInjective(open_inodes) /\ Range(open_inodes) \subseteq Copies
  BY <1>1, RangeFacts, Zenon DEF TypeOK, BlockInv
<1>3. ASSUME NEW i \in Inodes, Open(t, i) PROVE BlockInv'
  BY <1>1, <1>3, OpenStep, OthersKept, BlockFrame, Zenon DEF Open, memory
<1>4. CASE Walk(t)
  BY <1>1, <1>4, WalkStep, OthersKept, BlockFrame, IdleFacts, Zenon DEF Walk, memory
<1>5. CASE Load(t)
  <2>1. task[t].pc = "found"
    BY <1>5, Zenon DEF Load, At
  <2> QED BY <1>1, <1>5, <2>1, FoundAllocated, LoadStep, OthersKept, BlockFrame, IdleFacts, ZenonT(30) DEF Load, memory
<1>6. CASE Store(t)
  <2>1. task[t].pc = "store"
    BY <1>6, Zenon DEF Store, At
  <2>2. copy[task[t].elem] # NONE \/ task[t].elem \in task[t].freed
    BY <2>1, FoundAllocated, Zenon
  <2>3. /\ Others(t) /\ task[t].elem \in Copies /\ task'[t].pc \in {"astray", "held"}
        /\ \/ copy' = copy
           \/ /\ copy[task[t].elem] # NONE /\ task[t].n + 1 \in Int
              /\ copy' = [copy EXCEPT ![task[t].elem].i_open_cnts = task[t].n + 1]
    BY <1>1, <1>6, <2>2, StoreStep, IdleFacts, Zenon
  <2>4. \A a \in Copies : copy[a] # NONE => copy'[a] # NONE
    BY <1>1, <2>3, CountSetAllocated, Zenon
  <2> QED BY <1>1, <1>6, <2>3, <2>4, OthersKept, BlockFrame, ZenonT(30) DEF Store
<1>7. CASE Miss(t)
  BY <1>1, <1>7, MissStep, OthersKept, BlockFrame, Zenon DEF Miss, memory
<1>8. CASE Read(t)
  <2>1. PICK a \in Copies : /\ copy[a] = NONE /\ task'[t].elem = a /\ copy'[a] # NONE
                            /\ \A b \in Copies \ {a} : copy'[b] = copy[b]
    BY <1>1, <1>8, ReadStep, Zenon
  <2>2. KeepOthers(t) /\ task[t].pc = "read" /\ task'[t].pc = "push"
    BY <1>1, <1>8, ReadStep, OthersKept, Zenon
  <2>3. open_inodes' = open_inodes
    BY <1>8, Zenon DEF Read
  <2>4. \A u \in Outside' : u = t \/ (u \in Outside /\ task'[u].elem = task[u].elem)
    BY <2>2, Zenon DEF Outside, KeepOthers
  <2>5. \A u \in Outside : task[u].elem \in Copies
    BY <1>1, ElemFacts, Zenon DEF Outside
  <2>6. a \notin Range(open_inodes) /\ \A u \in Outside : task[u].elem # a
    BY <1>1, <2>1, Zenon DEF BlockInv
  <2>7. \A b \in Range(open_inodes') : copy'[b] # NONE
    BY <1>1, <1>2, <2>1, <2>3, <2>6, Zenon DEF BlockInv
  <2>8. ASSUME NEW u \in Outside'
        PROVE  task'[u].elem \notin Range(open_inodes') /\ copy'[task'[u].elem] # NONE
    <3>1. CASE u = t
      BY <2>1, <2>3, <2>6, <3>1, Zenon
    <3>2. CASE u # t
      <4>1. u \in Outside /\ task'[u].elem = task[u].elem
        BY <2>4, <3>2, Zenon
      <4>2. copy'[task[u].elem] = copy[task[u].elem]
        BY <2>1, <2>5, <2>6, <4>1, Zenon
      <4> QED BY <1>1, <2>3, <4>1, <4>2, Zenon DEF BlockInv
    <3> QED BY <3>1, <3>2, Zenon
  <2>9. ASSUME NEW u \in Outside', NEW v \in Outside', task'[u].elem = task'[v].elem
        PROVE  u = v
    <3>1. CASE u = t \/ v = t
      BY <2>1, <2>4, <2>6, <2>9, <3>1, Zenon
    <3>2. CASE u # t /\ v # t
      BY <1>1, <2>4, <2>9, <3>2, Zenon DEF BlockInv
    <3> QED BY <3>1, <3>2, Zenon
  <2> QED BY <1>2, <2>3, <2>7, <2>8, <2>9, Zenon DEF BlockInv
<1>9. CASE Push(t)
  BY <1>1, <1>9, PushStep, OthersKept, BlockFrame, Zenon DEF Push, memory
<1>10. CASE Insert(t)
  <2>1. KeepOthers(t) /\ task[t].pc = "insert" /\ task'[t].pc \in {"astray", "count"}
    BY <1>1, <1>10, InsertStep, OthersKept, IdleFacts, Zenon
  <2>2. copy' = copy
    BY <1>10, Zenon DEF Insert
  <2>3. t \in Outside /\ task[t].elem \in Copies
    BY <1>1, <2>1, ElemFacts, Zenon DEF Outside
  <2>4. \A u \in Outside' : u # t /\ u \in Outside /\ task'[u].elem = task[u].elem
    BY <2>1, Zenon DEF Outside, KeepOthers
  <2>5. CASE open_inodes' = open_inodes
    BY <1>1, <2>1, <2>2, <2>5, BlockFrame, Zenon
  <2>6. CASE /\ task[t].before \in Range(open_inodes) \union {NONE}
             /\ open_inodes' = InsertBefore(open_inodes, task[t].before, task[t].elem)
    <3>1. task[t].elem \notin Range(open_inodes) /\ copy[task[t].elem] # NONE
      BY <1>1, <2>3, Zenon DEF BlockInv
    <3>2. IsInjective(open_inodes') /\ Range(open_inodes') = Range(open_inodes) \union {task[t].elem}
      BY <1>2, <2>3, <2>6, <3>1, InsertBeforeFacts, Zenon
    <3>3. \A a \in Range(open_inodes') : copy'[a] # NONE
      BY <1>1, <2>2, <3>1, <3>2, Zenon DEF BlockInv
    <3>4. \A u \in Outside' : task'[u].elem \notin Range(open_inodes') /\ copy'[task'[u].elem] # NONE
      BY <1>1, <2>2, <2>3, <2>4, <3>2, Zenon DEF BlockInv
    <3>5. \A u, v \in Outside' : task'[u].elem = task'[v].elem => u = v
      BY <1>1, <2>4, Zenon DEF BlockInv
    <3> QED BY <3>2, <3>3, <3>4, <3>5, Zenon DEF BlockInv
  <2> QED BY <1>1, <1>10, <2>5, <2>6, InsertStep, Zenon
<1>11. CASE SetCount(t)
  <2>1. /\ Others(t) /\ task[t].elem \in Copies /\ task'[t].pc \in {"astray", "held"}
        /\ \/ copy' = copy
           \/ /\ copy[task[t].elem] # NONE
              /\ copy' = [copy EXCEPT ![task[t].elem].i_open_cnts = 1]
    BY <1>1, <1>11, SetCountStep, IdleFacts, Zenon
  <2>2. \A a \in Copies : copy[a] # NONE => copy'[a] # NONE
    BY <1>1, <2>1, CountSetAllocated
  <2> QED BY <1>1, <1>11, <2>1, <2>2, OthersKept, BlockFrame, Zenon DEF SetCount
<1>12. CASE Close(t)
  <2> DEFINE a == task[t].elem
  <2>1. KeepOthers(t) /\ task[t].pc = "held" /\ a \in Copies
    BY <1>1, <1>12, CloseStep, OthersKept, Zenon
  <2>2. \/ copy' = copy
        \/ /\ copy[a] # NONE /\ copy[a].i_open_cnts - 1 \in Int
           /\ copy' = [copy EXCEPT ![a].i_open_cnts = copy[a].i_open_cnts - 1]
    BY <1>1, <1>12, CloseStep, Zenon
  <2>3. \A b \in Copies : copy[b] # NONE => copy'[b] # NONE
    BY <1>1, <2>1, <2>2, CountSetAllocated, Zenon
  <2>4. CASE task'[t] \in {Idle, Astray} /\ open_inodes' = open_inodes
    BY <1>1, <2>1, <2>3, <2>4, IdleFacts, BlockFrame, Zenon
  <2>5. CASE /\ a \in Range(open_inodes) /\ task'[t].pc = "free" /\ task'[t].elem = a
             /\ open_inodes' = Removed(open_inodes, a)
    <3>1. IsInjective(open_inodes') /\ Range(open_inodes') = Range(open_inodes) \ {a}
      BY <1>2, <2>5, RemovedFacts, Zenon
    <3>2. \A u \in Outside' : u = t \/ (u \in Outside /\ task'[u].elem = task[u].elem)
      BY <2>1, Zenon DEF Outside, KeepOthers
    <3>3. \A u \in Outside : task[u].elem \in Copies
      BY <1>1, ElemFacts, Zenon DEF Outside
    <3>4. copy[a] # NONE /\ \A u \in Outside : task[u].elem # a
      BY <1>1, <2>5, Zenon DEF BlockInv
    <3>5. \A b \in Range(open_inodes') : copy'[b] # NONE
      BY <1>1, <1>2, <2>3, <3>1, Zenon DEF BlockInv
    <3>6. \A u \in Outside' : task'[u].elem \notin Range(open_inodes') /\ copy'[task'[u].elem] # NONE
      BY <1>1, <2>1, <2>3, <2>5, <3>1, <3>2, <3>3, <3>4, ZenonT(60) DEF BlockInv
    <3>7. \A u, v \in Outside' : task'[u].elem = task'[v].elem => u = v
      BY <1>1, <2>5, <3>2, <3>4, Zenon DEF BlockInv
    <3> QED BY <3>1, <3>5, <3>6, <3>7, Zenon DEF BlockInv
  <2> QED BY <1>1, <1>12, <2>4, <2>5, CloseStep, Zenon
<1>13. CASE Free(t)
  <2> DEFINE a == task[t].elem
  <2>1. /\ a \in Copies /\ task[t].pc = "free" /\ task'[t].pc = "idle"
        /\ \A b \in Copies \ {a} : copy'[b] = copy[b]
    BY <1>1, <1>13, FreeStep, IdleFacts, Zenon
  <2>2. KeepOthers(t)
    BY <1>1, <1>13, FreeStep, Zenon DEF KeepOthers
  <2>3. open_inodes' = open_inodes
    BY <1>13, Zenon DEF Free
  <2>4. t \in Outside
    BY <2>1, Zenon DEF Outside
  <2>5. \A u \in Outside' : u # t /\ u \in Outside /\ task'[u].elem = task[u].elem
    BY <2>1, <2>2, Zenon DEF Outside, KeepOthers
  <2>6. \A u \in Outside : task[u].elem \in Copies
    BY <1>1, ElemFacts, Zenon DEF Outside
  <2>7. a \notin Range(open_inodes) /\ \A u \in Outside : task[u].elem = a => u = t
    BY <1>1, <2>4, Zenon DEF BlockInv
  <2>8. \A b \in Range(open_inodes') : copy'[b] # NONE
    BY <1>1, <1>2, <2>1, <2>3, <2>7, Zenon DEF BlockInv
  <2>9. ASSUME NEW u \in Outside'
        PROVE  task'[u].elem \notin Range(open_inodes') /\ copy'[task'[u].elem] # NONE
    <3>1. u \in Outside /\ task'[u].elem = task[u].elem /\ task[u].elem # a
      BY <2>5, <2>7, Zenon
    <3>2. copy'[task[u].elem] = copy[task[u].elem]
      BY <2>1, <2>6, <3>1, ZenonT(30)
    <3> QED BY <1>1, <2>3, <3>1, <3>2, Zenon DEF BlockInv
  <2>10. \A u, v \in Outside' : task'[u].elem = task'[v].elem => u = v
    BY <1>1, <2>5, Zenon DEF BlockInv
  <2> QED BY <1>2, <2>3, <2>8, <2>9, <2>10, Zenon DEF BlockInv
<1>14. CASE Change(t)
  <2>1. KeepOthers(t) /\ task'[t] = task[t]
    BY <1>14, Zenon DEF Change, KeepOthers
  <2> QED BY <1>1, <1>14, <2>1, ChangeStep, BlockFrame, Zenon DEF Change
<1>15. CASE SyncOpen(t)
  BY <1>1, <1>15, SyncOpenStep, OthersKept, BlockFrame, Zenon DEF SyncOpen, memory
<1>16. ASSUME NEW i \in Inodes, SyncNew(t, i) PROVE BlockInv'
  BY <1>1, <1>16, SyncNewStep, OthersKept, BlockFrame, Zenon DEF SyncNew, memory
<1>17. CASE SyncRead(t)
  BY <1>1, <1>17, SyncReadStep, OthersKept, BlockFrame, Zenon DEF SyncRead, memory
<1>18. CASE SyncWrite(t)
  <2>1. KeepOthers(t) /\ task'[t].pc \in {"idle", "held"}
    BY <1>1, <1>18, SyncWriteStep, IdleFacts, Zenon DEF KeepOthers
  <2> QED BY <1>1, <1>18, <2>1, BlockFrame, Zenon DEF SyncWrite, memory
<1> QED BY <1>3, <1>4, <1>5, <1>6, <1>7, <1>8, <1>9, <1>10, <1>11, <1>12, <1>13, <1>14, <1>15,
           <1>16, <1>17, <1>18, Zenon DEF Step

-----------------------------------------------------------------------------
(* The walks over the list.                                                *)

\* The list, and what a walk looks at in it, stay as they are.
ListKept ==
  /\ open_inodes' = open_inodes /\ after' = after /\ twice' = twice
  /\ \A a \in Range(open_inodes) : copy'[a].i_no = copy[a].i_no /\ (a \in misread' <=> a \in misread)

\* The tasks other than t that walk know of the same freed blocks.
FreedKept(t) == \A u \in Tasks \ {t} : InOpen(u) => task'[u].freed = task[u].freed

\* What other tasks insert stays as it is.
NewKept(t) ==
  \A u \in Tasks \ {t} : task[u].pc \in {"push", "insert"} =>
    /\ copy'[task[u].elem].i_no = copy[task[u].elem].i_no
    /\ task[u].elem \in misread' <=> task[u].elem \in misread

\* The copies of an inode are the same when the list is.
LEMMA CopyKept ==
  ASSUME ListKept, NEW i
  PROVE  Copy(i)' = Copy(i)
BY Zenon DEF ListKept, Copy

\* Only sys_free ends the closing of a copy.
LEMMA ClosingKept ==
  ASSUME NEW t \in Tasks, KeepOthers(t), task[t].pc # "free", NEW x, Closing(x)
  PROVE  Closing(x)'
<1>1. PICK u \in Tasks : task[u].pc = "free" /\ task[u].elem = x
  BY Zenon DEF Closing, At
<1>2. task'[u].pc = "free" /\ task'[u].elem = x
  BY <1>1, Zenon DEF KeepOthers
<1> QED BY <1>2, Zenon DEF Closing, At

\* The elements a task may come to stay the same when the list and the task do.
LEMMA PathKept ==
  ASSUME NEW u \in Tasks, NEW S, Path(u, S), ListKept, \A x : Closing(x) => Closing(x)',
         task'[u].elem = task[u].elem, task'[u].no = task[u].no, task'[u].freed = task[u].freed
  PROVE  Path(u, S)'
<1>1. open_inodes' = open_inodes /\ after' = after /\ twice' = twice
  BY Zenon DEF ListKept
<1>2. PICK i : i = task[u].no
  BY Zenon
<1>3. Copy(i)' = Copy(i)
  BY CopyKept, Zenon
<1>4. task'[u].elem \in S
  BY Zenon DEF Path
<1>5. \A x \in S : \/ x \in {NONE} \union task'[u].freed \union Range(open_inodes')
                   \/ Closing(x)' /\ after'[x] \in S
  BY <1>1, Zenon DEF Path
<1>6. i \notin twice' => \A b \in Copy(i)' :
         /\ NONE \notin S
         /\ \A x \in (S \intersect Range(open_inodes')) \ task'[u].freed : UpTo(open_inodes', x, b)
  BY <1>1, <1>2, <1>3, Zenon DEF Path
<1>7. task'[u].no = i
  BY <1>2, Zenon
<1> QED BY <1>4, <1>5, <1>6, <1>7, Zenon DEF Path

\* A task knows after a step of another one what it knew before it, when the list is the same.
LEMMA KnowsKept ==
  ASSUME NEW t \in Tasks, KeepOthers(t), FreedKept(t), NewKept(t), ListKept, task[t].pc # "free",
         NEW u \in Tasks \ {t}, Knows(u)
  PROVE  Knows(u)'
<1>1. task'[u].pc = task[u].pc /\ task'[u].elem = task[u].elem /\ task'[u].no = task[u].no
  BY Zenon DEF KeepOthers
<1>2. \A x : Closing(x) => Closing(x)'
  BY ClosingKept, Zenon
<1>3. PICK i : i = task[u].no
  BY Zenon
<1>4. PICK a : a = task[u].elem
  BY Zenon
<1>5. task'[u].pc = "walk" => \E S \in SUBSET (Copies \union {NONE}) : Path(u, S)'
  <2> SUFFICES ASSUME task'[u].pc = "walk" PROVE \E S \in SUBSET (Copies \union {NONE}) : Path(u, S)'
    BY Zenon
  <2>1. PICK S \in SUBSET (Copies \union {NONE}) : Path(u, S)
    BY <1>1, Zenon DEF Knows, At
  <2>2. task'[u].freed = task[u].freed
    BY <1>1, Zenon DEF FreedKept, InOpen
  <2>3. Path(u, S)'
    BY <1>1, <1>2, <2>1, <2>2, PathKept, Zenon
  <2> QED BY <2>3, Zenon
<1>6. task'[u].pc \in {"found", "store"} => a \in task'[u].freed \union Range(open_inodes') \/ Closing(a)'
  <2> SUFFICES ASSUME task'[u].pc \in {"found", "store"}
               PROVE  a \in task'[u].freed \union Range(open_inodes') \/ Closing(a)'
    BY Zenon
  <2>1. task'[u].freed = task[u].freed
    BY <1>1, Zenon DEF FreedKept, InOpen
  <2>2. a \in task[u].freed \union Range(open_inodes) \/ Closing(a)
    BY <1>1, <1>4, Zenon DEF Knows
  <2> QED BY <1>2, <2>1, <2>2, Zenon DEF ListKept
<1>7. task'[u].pc \in {"read", "push", "insert"} => i \in twice' \/ Copy(i)' = {}
  <2>1. task'[u].pc \in {"read", "push", "insert"} => i \in twice \/ Copy(i) = {}
    BY <1>1, <1>3, Zenon DEF Knows
  <2>2. Copy(i)' = Copy(i) /\ twice' = twice
    BY CopyKept, Zenon DEF ListKept
  <2> QED BY <2>1, <2>2, Zenon
<1>8. task'[u].pc \in {"push", "insert"} => a \in misread' \/ copy'[a].i_no = i
  BY <1>1, <1>3, <1>4, Zenon DEF Knows, NewKept
<1>9. i = task'[u].no /\ a = task'[u].elem
  BY <1>1, <1>3, <1>4, Zenon
<1> QED BY <1>5, <1>6, <1>7, <1>8, <1>9, ZenonT(30) DEF Knows, At

\* The same for all tasks, with what is proved of the one that takes the step.
LEMMA WalkFrame ==
  ASSUME WalkInv, NEW t \in Tasks, KeepOthers(t), FreedKept(t), NewKept(t), ListKept, task[t].pc # "free",
         Knows(t)'
  PROVE  WalkInv'
<1>1. ASSUME NEW u \in Tasks \ {t} PROVE Knows(u)'
  BY KnowsKept, Zenon DEF WalkInv
<1> QED BY <1>1, Zenon DEF WalkInv

\* Nothing is to be known of a task that does not look for an inode.
LEMMA KnowsNothing ==
  ASSUME NEW t \in Tasks, task'[t].pc \notin {"walk", "found", "store", "read", "push", "insert"}
  PROVE  Knows(t)'
BY Zenon DEF Knows, At

\* No inode comes into the list twice, when the list is the same.
LEMMA OneCopyFrame ==
  ASSUME OneCopy, ListKept, misread' = misread, overwritten \subseteq overwritten'
  PROVE  OneCopy'
<1>1. overwritten' = {} => misread' = {}
  BY Zenon DEF OneCopy
<1>2. ASSUME NEW a \in Range(open_inodes') \ misread', NEW b \in Range(open_inodes') \ misread',
             copy'[a].i_no = copy'[b].i_no, copy'[a].i_no \notin twice'
      PROVE  a = b
  <2>1. a \in Range(open_inodes) \ misread /\ b \in Range(open_inodes) \ misread
    BY Zenon DEF ListKept
  <2>2. copy'[a].i_no = copy[a].i_no /\ copy'[b].i_no = copy[b].i_no /\ twice' = twice
    BY <2>1, Zenon DEF ListKept
  <2> QED BY <1>2, <2>1, <2>2, Zenon DEF OneCopy
<1> QED BY <1>1, <1>2, Zenon DEF OneCopy

\* A step that changes neither the list nor the number of a copy.
LEMMA PlainStep ==
  ASSUME IInv, NEW t \in Tasks, KeepOthers(t), FreedKept(t), task[t].pc # "free", Knows(t)',
         open_inodes' = open_inodes, after' = after, twice' = twice, misread' = misread,
         \A a \in Copies : copy'[a].i_no = copy[a].i_no, overwritten \subseteq overwritten'
  PROVE  WalkInv' /\ OneCopy'
<1>1. TypeOK /\ WalkInv /\ OneCopy
  BY Zenon DEF IInv
<1>2. Range(open_inodes) \subseteq Copies
  BY <1>1, RangeFacts, Zenon DEF TypeOK
<1>3. ListKept
  BY <1>2, Zenon DEF ListKept
<1>4. \A u \in Tasks : task[u].pc \in {"push", "insert"} => task[u].elem \in Copies
  BY <1>1, ElemFacts, Zenon
<1>5. NewKept(t)
  BY <1>4, Zenon DEF NewKept
<1> QED BY <1>1, <1>3, <1>5, WalkFrame, OneCopyFrame, Zenon

\* The same of the steps that change nothing in memory.
LEMMA QuietStep ==
  ASSUME IInv, NEW t \in Tasks, Others(t), task[t].pc # "free", Knows(t)',
         UNCHANGED <<memory, twice, misread>>, overwritten \subseteq overwritten'
  PROVE  WalkInv' /\ OneCopy'
<1>1. FreedKept(t) /\ KeepOthers(t)
  BY OthersKept, Zenon DEF Others, FreedKept
<1>2. open_inodes' = open_inodes /\ after' = after /\ copy' = copy /\ twice' = twice /\ misread' = misread
  BY Zenon DEF memory
<1> QED BY <1>1, <1>2, PlainStep, Zenon

\* inode_open begins with the first element, in front of all copies.
LEMMA OpenKnows ==
  ASSUME IInv, NEW t \in Tasks, NEW i \in Inodes, Open(t, i)
  PROVE  Knows(t)'
<1>1. TypeOK
  BY Zenon DEF IInv
<1>2. /\ task'[t].pc = "walk" /\ task'[t].freed = {}
      /\ task'[t].elem = IF open_inodes = <<>> THEN NONE ELSE Head(open_inodes)
  BY <1>1, OpenStep, Zenon
<1>3. open_inodes' = open_inodes
  BY Zenon DEF Open, memory
<1>4. open_inodes \in Seq(Copies)
  BY <1>1, Zenon DEF TypeOK
<1>5. PICK e : e = task'[t].elem
  BY Zenon
<1>6. \/ e = NONE /\ Range(open_inodes) = {}
      \/ e \in Range(open_inodes) /\ \A y \in Range(open_inodes) : UpTo(open_inodes, e, y)
  BY <1>2, <1>4, <1>5, HeadFacts, Zenon
<1>7. e \in Copies \union {NONE} /\ (e = NONE => Range(open_inodes) = {})
  BY <1>4, <1>6, RangeFacts, ConstantFacts, Zenon
<1>8. Path(t, {e})'
  <2>1. \A b \in Copy(task[t].no)' : b \in Range(open_inodes')
    BY Zenon DEF Copy
  <2>2. \A x \in {e} : x \in {NONE} \union task'[t].freed \union Range(open_inodes')
    BY <1>3, <1>6, Zenon
  <2>3. \A b \in Copy(task[t].no)' :
          /\ NONE \notin {e}
          /\ \A x \in ({e} \intersect Range(open_inodes')) \ task'[t].freed : UpTo(open_inodes', x, b)
    BY <1>3, <1>6, <1>7, <2>1, Zenon
  <2> QED BY <1>5, <2>2, <2>3, Zenon DEF Path
<1>9. {e} \in SUBSET (Copies \union {NONE})
  BY <1>7, Zenon
<1>10. \E S \in SUBSET (Copies \union {NONE}) : Path(t, S)'
  BY <1>8, <1>9, Zenon
<1> QED BY <1>2, <1>10, Zenon DEF Knows, At

\* The next pointer of an element of the list, or of one that is being closed, leads on
\* the way to all copies of the inode.
LEMMA WalkKnows ==
  ASSUME IInv, NEW t \in Tasks, Walk(t)
  PROVE  Knows(t)'
<1>1. TypeOK /\ BlockInv
  BY Zenon DEF IInv
<1>2. /\ open_inodes' = open_inodes /\ after' = after /\ copy' = copy /\ twice' = twice
      /\ misread' = misread
  BY Zenon DEF Walk, memory, history
<1>3. task[t].pc = "walk" /\ KeepOthers(t)
  BY <1>1, WalkStep, OthersKept, Zenon
<1>4. PICK a \in Copies : a = task[t].elem
  BY <1>1, WalkStep, Zenon
<1>5. PICK S \in SUBSET (Copies \union {NONE}) : Path(t, S)
  BY <1>3, Zenon DEF IInv, WalkInv, Knows, At
<1>6. a # NONE /\ NONE \notin Copies
  BY ConstantFacts, Zenon
<1>7. a \in task[t].freed \/ a \in Range(open_inodes) \/ (Closing(a) /\ after[a] \in S)
  BY <1>4, <1>5, <1>6, Zenon DEF Path
<1>8. \A x : Closing(x) => Closing(x)'
  BY <1>3, ClosingKept, Zenon
<1>9. CASE task'[t] = Astray
  BY <1>9, KnowsNothing, IdleFacts, Zenon
<1>10. CASE task'[t].pc = "found" /\ task'[t].elem = a /\ task'[t].freed = task[t].freed
  <2>1. a \in task'[t].freed \union Range(open_inodes') \/ Closing(a)'
    BY <1>2, <1>7, <1>8, <1>10, Zenon
  <2> QED BY <1>10, <2>1, Zenon DEF Knows, At
<1>11. CASE /\ task'[t].pc = "walk" /\ task'[t].elem = NextOf(a) /\ task'[t].freed = task[t].freed
            /\ task'[t].no = task[t].no /\ a \notin task[t].freed /\ copy[a].i_no # task[t].no
  <2>1. PICK i : i = task[t].no
    BY Zenon
  <2>2. Copy(i)' = Copy(i)
    BY <1>2, Zenon DEF Copy
  <2>3. PICK e : e = NextOf(a)
    BY Zenon
  <2>4. open_inodes \in Seq(Copies) /\ IsInjective(open_inodes)
    BY <1>1, Zenon DEF TypeOK, BlockInv
  <2>5. e \in Copies \union {NONE}
    BY <1>1, <2>3, NextType, Zenon
  <2>6. \/ e \in S
        \/ /\ e \in Range(open_inodes) \union {NONE}
           /\ i \notin twice => \A b \in Copy(i) : e # NONE /\ UpTo(open_inodes, e, b)
    <3>1. CASE a \in Range(open_inodes)
      <4>1. e \in Range(open_inodes) \union {NONE}
        BY <2>3, <2>4, <3>1, NextFacts, Zenon
      <4>2. ASSUME i \notin twice, NEW b \in Copy(i) PROVE e # NONE /\ UpTo(open_inodes, e, b)
        <5>1. UpTo(open_inodes, a, b)
          BY <1>4, <1>5, <1>11, <2>1, <3>1, <4>2, ZenonT(30) DEF Path
        <5>2. b # a
          BY <1>11, <2>1, Zenon DEF Copy
        <5> QED BY <2>3, <2>4, <3>1, <5>1, <5>2, NextFacts, ZenonT(30)
      <4> QED BY <4>1, <4>2, Zenon
    <3>2. CASE a \notin Range(open_inodes)
      BY <1>7, <1>11, <2>3, <3>2, Zenon DEF NextOf
    <3> QED BY <3>1, <3>2, Zenon
  <2> DEFINE T == S \union {e}
  <2>7. \A x \in T : \/ x \in {NONE} \union task'[t].freed \union Range(open_inodes')
                     \/ Closing(x)' /\ after'[x] \in T
    <3>1. \A x \in S : \/ x \in {NONE} \union task[t].freed \union Range(open_inodes)
                       \/ Closing(x) /\ after[x] \in S
      BY <1>5, Zenon DEF Path
    <3>2. \A x \in S : \/ x \in {NONE} \union task'[t].freed \union Range(open_inodes')
                       \/ Closing(x)' /\ after'[x] \in T
      BY <1>2, <1>8, <1>11, <3>1, Zenon
    <3>3. e \in S \/ e \in {NONE} \union Range(open_inodes')
      BY <1>2, <2>6, Zenon
    <3> QED BY <3>2, <3>3, Zenon
  <2>8. i \notin twice' => \A b \in Copy(i)' :
          /\ NONE \notin T
          /\ \A x \in (T \intersect Range(open_inodes')) \ task'[t].freed : UpTo(open_inodes', x, b)
    <3>1. i \notin twice => \A b \in Copy(i) :
            /\ NONE \notin S
            /\ \A x \in (S \intersect Range(open_inodes)) \ task[t].freed : UpTo(open_inodes, x, b)
      BY <1>5, <2>1, Zenon DEF Path
    <3> QED BY <1>2, <1>11, <2>2, <2>6, <3>1, ZenonT(30)
  <2>9. task'[t].no = i /\ task'[t].elem \in T
    BY <1>11, <2>1, <2>3, Zenon
  <2>10. Path(t, T)'
    BY <2>7, <2>8, <2>9, Zenon DEF Path
  <2>11. \E U \in SUBSET (Copies \union {NONE}) : Path(t, U)'
    <3>1. T \in SUBSET (Copies \union {NONE})
      BY <2>5, Zenon
    <3> QED BY <2>10, <3>1, Zenon
  <2> QED BY <1>11, <2>11, Zenon DEF Knows, At
<1> QED BY <1>1, <1>4, <1>9, <1>10, <1>11, WalkStep, ZenonT(30)

\* A copy that is read is not in the list yet; it has the number that was looked for, unless
\* the place was overwritten.
LEMMA ReadWalks ==
  ASSUME IInv, NEW t \in Tasks, Read(t)
  PROVE  WalkInv' /\ OneCopy'
<1>1. TypeOK /\ BlockInv /\ WalkInv /\ OneCopy /\ SyncInv /\ SyncKept
  BY Zenon DEF IInv
<1>2. open_inodes' = open_inodes /\ after' = after /\ twice' = twice /\ overwritten' = overwritten
  BY Zenon DEF Read
<1>3. /\ Others(t) /\ KeepOthers(t) /\ task[t].pc = "read" /\ task'[t].pc = "push"
      /\ task'[t].no = task[t].no
  BY <1>1, ReadStep, OthersKept, Zenon
<1>4. PICK a \in Copies : a = task'[t].elem
  BY <1>1, ReadStep, Zenon
<1>5. PICK i \in Inodes : i = task[t].no
  BY <1>1, <1>3, ElemFacts, Zenon
<1>6. /\ copy[a] = NONE /\ \A b \in Copies \ {a} : copy'[b] = copy[b]
      /\ copy'[a].i_no = table[i * InodeCells].i_no
      /\ misread' = IF table[i * InodeCells].i_no = i THEN misread \ {a} ELSE misread \union {a}
  BY <1>1, <1>4, <1>5, ReadStep, Zenon
<1>7. a \notin Range(open_inodes) /\ Range(open_inodes) \subseteq Copies
  BY <1>1, <1>6, RangeFacts, Zenon DEF BlockInv, TypeOK
<1>8. \A b : b # a => (b \in misread' <=> b \in misread)
  BY <1>6, Zenon
<1>9. ListKept
  BY <1>2, <1>6, <1>7, <1>8, Zenon DEF ListKept
<1>10. NewKept(t)
  <2> SUFFICES ASSUME NEW u \in Tasks \ {t}, task[u].pc \in {"push", "insert"}
               PROVE  /\ copy'[task[u].elem].i_no = copy[task[u].elem].i_no
                      /\ task[u].elem \in misread' <=> task[u].elem \in misread
    BY Zenon DEF NewKept
  <2>1. u \in Outside /\ task[u].elem \in Copies
    BY <1>1, ElemFacts, Zenon DEF Outside
  <2>2. task[u].elem # a
    BY <1>1, <1>6, <2>1, Zenon DEF BlockInv
  <2> QED BY <1>6, <1>8, <2>1, <2>2, Zenon
<1>11. FreedKept(t)
  BY <1>3, Zenon DEF FreedKept, Others
<1>12. Knows(t)'
  <2>1. i \in twice \/ Copy(i) = {}
    BY <1>1, <1>3, <1>5, Zenon DEF WalkInv, Knows
  <2>2. i \in twice' \/ Copy(i)' = {}
    BY <1>2, <1>9, <2>1, CopyKept, Zenon
  <2>3. a \in misread' \/ copy'[a].i_no = i
    BY <1>6, Zenon
  <2>4. task'[t].no = i
    BY <1>3, <1>5, Zenon
  <2> QED BY <1>3, <1>4, <2>2, <2>3, <2>4, Zenon DEF Knows, At
<1>13. WalkInv'
  BY <1>1, <1>3, <1>9, <1>10, <1>11, <1>12, WalkFrame, ZenonT(30)
<1>14. ASSUME overwritten' = {} PROVE misread' = {}
  <2>1. misread = {}
    BY <1>1, <1>2, <1>14, Zenon DEF OneCopy
  <2>2. i \in DOMAIN saved \ overwritten
    BY <1>1, <1>2, <1>3, <1>5, <1>14, Zenon DEF SyncInv
  <2>3. i * InodeCells \in CellsOf(i)
    BY <1>1, FirstCell, Zenon
  <2>4. table[i * InodeCells] = Record(i, saved[i])
    BY <1>1, <2>2, <2>3, Zenon DEF SyncKept
  <2>5. table[i * InodeCells].i_no = i
    BY <2>4 DEF Record
  <2> QED BY <1>6, <2>1, <2>5, Zenon
<1>15. ASSUME NEW b \in Range(open_inodes') \ misread', NEW c \in Range(open_inodes') \ misread',
              copy'[b].i_no = copy'[c].i_no, copy'[b].i_no \notin twice'
       PROVE  b = c
  <2>1. b \in Range(open_inodes) \ misread /\ c \in Range(open_inodes) \ misread
    BY <1>2, <1>7, <1>8, Zenon
  <2>2. copy'[b] = copy[b] /\ copy'[c] = copy[c]
    BY <1>6, <1>7, <2>1, Zenon
  <2> QED BY <1>1, <1>2, <1>15, <2>1, <2>2, ZenonT(30) DEF OneCopy
<1>16. OneCopy'
  BY <1>14, <1>15, Zenon DEF OneCopy
<1> QED BY <1>13, <1>16, Zenon

\* list_insert_before puts no element between a walk and the copies of another inode; who
\* looks for the same inode at that time makes it one that may be in the list twice.
LEMMA InsertWalks ==
  ASSUME IInv, NEW t \in Tasks, Insert(t)
  PROVE  WalkInv' /\ OneCopy'
<1>1. TypeOK /\ BlockInv /\ WalkInv /\ OneCopy
  BY Zenon DEF IInv
<1>2. copy' = copy /\ after' = after /\ misread' = misread /\ overwritten' = overwritten
  BY Zenon DEF Insert
<1>3. Others(t) /\ KeepOthers(t) /\ task[t].pc = "insert" /\ task'[t].pc \in {"astray", "count"}
  BY <1>1, InsertStep, OthersKept, IdleFacts, Zenon
<1>4. Knows(t)'
  BY <1>3, KnowsNothing, Zenon
<1>5. CASE open_inodes' = open_inodes /\ twice' = twice
  BY <1>2, <1>3, <1>4, <1>5, QuietStep, ZenonT(30) DEF memory
<1>6. CASE /\ task[t].before \in Range(open_inodes) \union {NONE}
           /\ open_inodes' = InsertBefore(open_inodes, task[t].before, task[t].elem)
           /\ twice' = IF Opening(task[t].no) = {t} THEN twice ELSE twice \union {task[t].no}
  <2>1. PICK a \in Copies : a = task[t].elem
    BY <1>1, <1>3, ElemFacts, Zenon
  <2>2. PICK i \in Inodes : i = task[t].no
    BY <1>1, <1>3, ElemFacts, Zenon
  <2>3. t \in Outside
    BY <1>3, Zenon DEF Outside
  <2>4. a \notin Range(open_inodes)
    BY <1>1, <2>1, <2>3, Zenon DEF BlockInv
  <2>5. open_inodes \in Seq(Copies) /\ IsInjective(open_inodes) /\ Range(open_inodes) \subseteq Copies
    BY <1>1, RangeFacts, Zenon DEF TypeOK, BlockInv
  <2>6. /\ Range(open_inodes') = Range(open_inodes) \union {a}
        /\ \A x, y \in Copies : UpTo(open_inodes, x, y) => UpTo(open_inodes', x, y)
    BY <1>6, <2>1, <2>4, <2>5, InsertBeforeFacts, Zenon
  <2>7. \A x : Closing(x) => Closing(x)'
    BY <1>3, ClosingKept, Zenon
  <2>8. ~Closing(a)
    <3> SUFFICES ASSUME NEW v \in Tasks, task[v].pc = "free", task[v].elem = a PROVE FALSE
      BY Zenon DEF Closing, At
    <3>1. v \in Outside /\ v # t
      BY <1>3, Zenon DEF Outside
    <3> QED BY <1>1, <2>1, <2>3, <3>1, Zenon DEF BlockInv
  <2>9. a \in misread \/ copy[a].i_no = i
    BY <1>1, <1>3, <2>1, <2>2, Zenon DEF WalkInv, Knows
  <2>10. i \in twice \/ Copy(i) = {}
    BY <1>1, <1>3, <2>2, Zenon DEF WalkInv, Knows
  <2>11. twice \subseteq twice'
    BY <1>6, Zenon
  <2>12. \A j : j # i => Copy(j)' = Copy(j)
    BY <1>2, <2>6, <2>9, Zenon DEF Copy
  <2>13. ASSUME NEW u \in Tasks \ {t}, task[u].pc \in {"walk", "read", "push", "insert"},
                task[u].no \notin twice'
         PROVE  task[u].no # i /\ task[u].no \notin twice
    <3>1. task[u].no \notin twice
      BY <2>11, <2>13, Zenon
    <3>2. ASSUME task[u].no = i PROVE FALSE
      <4>1. u \in Opening(i)
        BY <2>13, <3>2, Zenon DEF Opening
      <4>2. Opening(i) # {t}
        BY <4>1, Zenon
      <4> QED BY <1>6, <2>2, <2>13, <3>2, <4>2, Zenon
    <3> QED BY <3>1, <3>2, Zenon
  <2>14. ASSUME NEW u \in Tasks \ {t} PROVE Knows(u)'
    <3>1. task'[u] = task[u]
      BY <1>3, Zenon DEF Others
    <3>2. PICK j : j = task[u].no
      BY Zenon
    <3>3. PICK e : e = task[u].elem
      BY Zenon
    <3>4. Knows(u)
      BY <1>1, Zenon DEF WalkInv
    <3>5. ASSUME task[u].pc = "walk" PROVE \E S \in SUBSET (Copies \union {NONE}) : Path(u, S)'
      <4>1. PICK S \in SUBSET (Copies \union {NONE}) : Path(u, S)
        BY <3>4, <3>5, Zenon DEF Knows, At
      <4>2. a \in S => a \in task[u].freed
        BY <2>4, <2>8, <4>1, ConstantFacts, Zenon DEF Path
      <4>3. \A x \in S : \/ x \in {NONE} \union task[u].freed \union Range(open_inodes')
                         \/ Closing(x)' /\ after'[x] \in S
        BY <1>2, <2>6, <2>7, <4>1, Zenon DEF Path
      <4>4. ASSUME j \notin twice', NEW b \in Copy(j)'
            PROVE  /\ NONE \notin S
                   /\ \A x \in (S \intersect Range(open_inodes')) \ task[u].freed : UpTo(open_inodes', x, b)
        <5>1. j # i /\ j \notin twice
          BY <2>13, <3>2, <3>5, <4>4, Zenon
        <5>2. b \in Copy(j)
          BY <2>12, <4>4, <5>1, Zenon
        <5>3. b \in Copies
          BY <2>5, <5>2, Zenon DEF Copy
        <5>4. /\ NONE \notin S
              /\ \A x \in (S \intersect Range(open_inodes)) \ task[u].freed : UpTo(open_inodes, x, b)
          BY <3>2, <4>1, <5>1, <5>2, Zenon DEF Path
        <5> QED BY <2>5, <2>6, <4>2, <5>3, <5>4, Zenon
      <4>5. task'[u].elem \in S /\ task'[u].no = j
        BY <3>1, <3>2, <4>1, Zenon DEF Path
      <4>6. Path(u, S)'
        BY <3>1, <4>3, <4>4, <4>5, Zenon DEF Path
      <4> QED BY <4>6, Zenon
    <3>6. ASSUME task[u].pc \in {"found", "store"}
          PROVE  e \in task'[u].freed \union Range(open_inodes') \/ Closing(e)'
      <4>1. e \in task[u].freed \union Range(open_inodes) \/ Closing(e)
        BY <3>3, <3>4, <3>6, Zenon DEF Knows
      <4> QED BY <2>6, <2>7, <3>1, <4>1, Zenon
    <3>7. ASSUME task[u].pc \in {"read", "push", "insert"} PROVE j \in twice' \/ Copy(j)' = {}
      <4>1. j \in twice \/ Copy(j) = {}
        BY <3>2, <3>4, <3>7, Zenon DEF Knows
      <4> QED BY <2>12, <2>13, <3>2, <3>7, <4>1, Zenon
    <3>8. task[u].pc \in {"push", "insert"} => e \in misread' \/ copy'[e].i_no = j
      BY <1>2, <3>2, <3>3, <3>4, Zenon DEF Knows
    <3>9. task'[u].pc = task[u].pc /\ e = task'[u].elem /\ j = task'[u].no
      BY <3>1, <3>2, <3>3, Zenon
    <3> QED BY <3>5, <3>6, <3>7, <3>8, <3>9, ZenonT(30) DEF Knows, At
  <2>15. WalkInv'
    BY <1>4, <2>14, Zenon DEF WalkInv
  <2>16. ASSUME NEW b \in Range(open_inodes') \ misread', NEW c \in Range(open_inodes') \ misread',
                copy'[b].i_no = copy'[c].i_no, copy'[b].i_no \notin twice'
         PROVE  b = c
    <3>1. b \in (Range(open_inodes) \union {a}) \ misread /\ c \in (Range(open_inodes) \union {a}) \ misread
      BY <1>2, <2>6, Zenon
    <3>2. copy[b].i_no = copy[c].i_no /\ copy[b].i_no \notin twice
      BY <1>2, <2>11, <2>16, Zenon
    <3>3. CASE b # a /\ c # a
      BY <1>1, <3>1, <3>2, <3>3, Zenon DEF OneCopy
    <3>4. CASE b = a /\ c # a
      BY <2>9, <2>10, <3>1, <3>2, <3>4, Zenon DEF Copy
    <3>5. CASE b # a /\ c = a
      BY <2>9, <2>10, <3>1, <3>2, <3>5, Zenon DEF Copy
    <3> QED BY <3>3, <3>4, <3>5, Zenon
  <2>17. OneCopy'
    BY <1>1, <1>2, <2>16, Zenon DEF OneCopy
  <2> QED BY <2>15, <2>17, Zenon
<1> QED BY <1>1, <1>5, <1>6, InsertStep, Zenon

\* inode_close leaves who stands on the copy a way to the rest of the list.
LEMMA CloseWalks ==
  ASSUME IInv, NEW t \in Tasks, Close(t)
  PROVE  WalkInv' /\ OneCopy'
<1>1. TypeOK /\ BlockInv /\ WalkInv /\ OneCopy
  BY Zenon DEF IInv
<1>2. twice' = twice /\ misread' = misread /\ overwritten' = overwritten
  BY Zenon DEF Close, history
<1>3. Others(t) /\ KeepOthers(t) /\ task[t].pc = "held" /\ task'[t].pc \in {"astray", "idle", "free"}
  BY <1>1, CloseStep, OthersKept, IdleFacts, Zenon
<1>4. Knows(t)' /\ FreedKept(t)
  BY <1>3, KnowsNothing, Zenon DEF FreedKept, Others
<1>5. PICK a \in Copies : a = task[t].elem
  BY <1>1, CloseStep, Zenon
<1>6. \A b \in Copies : copy'[b].i_no = copy[b].i_no
  <2>1. CASE copy' = copy
    BY <2>1, Zenon
  <2>2. CASE /\ copy[a] # NONE /\ copy[a].i_open_cnts - 1 \in Int
             /\ copy' = [copy EXCEPT ![a].i_open_cnts = copy[a].i_open_cnts - 1]
    BY <1>1, <2>2, CountSet, Zenon
  <2> QED BY <1>1, <1>5, <2>1, <2>2, CloseStep, Zenon
<1>7. CASE open_inodes' = open_inodes /\ after' = after
  BY <1>2, <1>3, <1>4, <1>6, <1>7, PlainStep, ZenonT(30)
<1>8. CASE /\ a \in Range(open_inodes) /\ task'[t].pc = "free" /\ task'[t].elem = a
           /\ after' = [after EXCEPT ![a] = NextOf(a)] /\ open_inodes' = Removed(open_inodes, a)
  <2>1. open_inodes \in Seq(Copies) /\ IsInjective(open_inodes) /\ Range(open_inodes) \subseteq Copies
    BY <1>1, RangeFacts, Zenon DEF TypeOK, BlockInv
  <2>2. /\ Range(open_inodes') = Range(open_inodes) \ {a}
        /\ \A x, y \in Copies \ {a} : UpTo(open_inodes, x, y) => UpTo(open_inodes', x, y)
    BY <1>8, <2>1, RemovedFacts, Zenon
  <2>3. PICK next : next = NextOf(a)
    BY Zenon
  <2>4. /\ next \in Range(open_inodes) \union {NONE}
        /\ \A y : (UpTo(open_inodes, a, y) /\ y # a) => next # NONE /\ UpTo(open_inodes, next, y)
    BY <1>8, <2>1, <2>3, NextFacts, Zenon
  <2>5. after'[a] = next /\ \A x \in Copies \ {a} : after'[x] = after[x]
    BY <1>1, <1>8, <2>3, Zenon DEF TypeOK
  <2>6. \A x : Closing(x) => Closing(x)'
    BY <1>3, ClosingKept, Zenon
  <2>7. Closing(a)'
    BY <1>8, Zenon DEF Closing, At
  <2>8. \A i : Copy(i)' \subseteq Copy(i) \ {a}
    BY <1>2, <1>6, <2>1, <2>2, Zenon DEF Copy
  <2>9. ASSUME NEW u \in Tasks \ {t} PROVE Knows(u)'
    <3>1. task'[u] = task[u]
      BY <1>3, Zenon DEF Others
    <3>2. PICK j : j = task[u].no
      BY Zenon
    <3>3. PICK e : e = task[u].elem
      BY Zenon
    <3>4. Knows(u)
      BY <1>1, Zenon DEF WalkInv
    <3>5. ASSUME task[u].pc = "walk" PROVE \E S \in SUBSET (Copies \union {NONE}) : Path(u, S)'
      <4>1. PICK S \in SUBSET (Copies \union {NONE}) : Path(u, S)
        BY <3>4, <3>5, Zenon DEF Knows, At
      <4>2. \A x \in S : \/ x \in {NONE} \union task[u].freed \union Range(open_inodes)
                         \/ Closing(x) /\ after[x] \in S
        BY <4>1, Zenon DEF Path
      <4>3. PICK T \in SUBSET (Copies \union {NONE}) :
              /\ S \subseteq T /\ T \subseteq S \union {next}
              /\ a \in S \ task[u].freed => next \in T
              /\ (T = S \/ a \in S \ task[u].freed)
        <5>1. CASE a \in S \ task[u].freed
          <6>1. S \union {next} \in SUBSET (Copies \union {NONE})
            BY <2>1, <2>4, Zenon
          <6> QED BY <5>1, <6>1, Zenon
        <5>2. CASE a \notin S \ task[u].freed
          BY <5>2, Zenon
        <5> QED BY <5>1, <5>2, Zenon
      <4>4. ASSUME NEW x \in T
            PROVE  \/ x \in {NONE} \union task[u].freed \union Range(open_inodes')
                   \/ Closing(x)' /\ after'[x] \in T
        <5>1. CASE x = a
          BY <2>2, <2>4, <2>5, <2>7, <4>3, <4>4, <5>1, ZenonT(30)
        <5>2. CASE x # a /\ x \in S
          BY <2>2, <2>5, <2>6, <4>2, <4>3, <5>2, ZenonT(30)
        <5>3. CASE x # a /\ x = next
          BY <2>2, <2>4, <5>3, Zenon
        <5> QED BY <4>3, <5>1, <5>2, <5>3, Zenon
      <4>5. ASSUME j \notin twice', NEW b \in Copy(j)'
            PROVE  /\ NONE \notin T
                   /\ \A x \in (T \intersect Range(open_inodes')) \ task[u].freed : UpTo(open_inodes', x, b)
        <5>1. b \in Copy(j) /\ b # a
          BY <2>8, <4>5, Zenon
        <5>2. b \in Copies
          BY <2>1, <5>1, Zenon DEF Copy
        <5>3. /\ NONE \notin S
              /\ \A x \in (S \intersect Range(open_inodes)) \ task[u].freed : UpTo(open_inodes, x, b)
          BY <1>2, <3>2, <4>1, <4>5, <5>1, ZenonT(30) DEF Path
        <5>4. a \in S \ task[u].freed => next # NONE /\ UpTo(open_inodes, next, b)
          BY <1>8, <2>4, <5>1, <5>3, Zenon
        <5>5. NONE \notin T
          BY <4>3, <5>3, <5>4, Zenon
        <5>6. ASSUME NEW x \in (T \intersect Range(open_inodes')) \ task[u].freed PROVE UpTo(open_inodes', x, b)
          <6>1. x \in Range(open_inodes) /\ x \in Copies \ {a}
            BY <2>1, <2>2, <5>6, Zenon
          <6>2. UpTo(open_inodes, x, b)
            BY <4>3, <5>3, <5>4, <5>6, <6>1, Zenon
          <6> QED BY <2>2, <5>1, <5>2, <6>1, <6>2, Zenon
        <5> QED BY <5>5, <5>6, Zenon
      <4>6. task'[u].elem \in T /\ task'[u].no = j
        BY <3>1, <3>2, <4>1, <4>3, Zenon DEF Path
      <4>7. Path(u, T)'
        BY <3>1, <4>4, <4>5, <4>6, Zenon DEF Path
      <4> QED BY <4>7, Zenon
    <3>6. ASSUME task[u].pc \in {"found", "store"}
          PROVE  e \in task'[u].freed \union Range(open_inodes') \/ Closing(e)'
      <4>1. e \in task[u].freed \union Range(open_inodes) \/ Closing(e)
        BY <3>3, <3>4, <3>6, Zenon DEF Knows
      <4> QED BY <2>2, <2>6, <2>7, <3>1, <4>1, Zenon
    <3>7. ASSUME task[u].pc \in {"read", "push", "insert"} PROVE j \in twice' \/ Copy(j)' = {}
      <4>1. j \in twice \/ Copy(j) = {}
        BY <3>2, <3>4, <3>7, Zenon DEF Knows
      <4> QED BY <1>2, <2>8, <4>1, Zenon
    <3>8. task[u].pc \in {"push", "insert"} => e \in misread' \/ copy'[e].i_no = j
      <4>1. task[u].pc \in {"push", "insert"} => e \in Copies
        BY <1>1, <3>3, ElemFacts, Zenon
      <4> QED BY <1>2, <1>6, <3>2, <3>3, <3>4, <4>1, ZenonT(30) DEF Knows
    <3>9. task'[u].pc = task[u].pc /\ e = task'[u].elem /\ j = task'[u].no
      BY <3>1, <3>2, <3>3, Zenon
    <3> QED BY <3>5, <3>6, <3>7, <3>8, <3>9, ZenonT(30) DEF Knows, At
  <2>10. WalkInv'
    BY <1>4, <2>9, Zenon DEF WalkInv
  <2>11. OneCopy'
    <3>1. \A b \in Range(open_inodes') : b \in Range(open_inodes) /\ copy'[b].i_no = copy[b].i_no
      BY <1>6, <2>1, <2>2, ZenonT(30)
    <3> QED BY <1>1, <1>2, <3>1, Zenon DEF OneCopy
  <2> QED BY <2>10, <2>11, Zenon
<1> QED BY <1>1, <1>5, <1>7, <1>8, CloseStep, ZenonT(30)

\* sys_free tells the tasks in inode_open that the block is gone.
LEMMA FreeWalks ==
  ASSUME IInv, NEW t \in Tasks, Free(t)
  PROVE  WalkInv' /\ OneCopy'
<1>1. TypeOK /\ BlockInv /\ WalkInv /\ OneCopy
  BY Zenon DEF IInv
<1>2. open_inodes' = open_inodes /\ twice' = twice /\ misread' = misread /\ overwritten' = overwritten
  BY Zenon DEF Free, history
<1>3. task[t].pc = "free" /\ task'[t].pc = "idle" /\ t \in Outside
  BY <1>1, FreeStep, IdleFacts, Zenon DEF Outside
<1>4. PICK a \in Copies : a = task[t].elem
  BY <1>1, FreeStep, Zenon
<1>5. \A b \in Copies \ {a} : copy'[b] = copy[b] /\ after'[b] = after[b]
  BY <1>1, <1>4, FreeStep, Zenon
<1>6. a \notin Range(open_inodes) /\ Range(open_inodes) \subseteq Copies
  BY <1>1, <1>3, <1>4, RangeFacts, Zenon DEF TypeOK, BlockInv
<1>7. \A i : Copy(i)' = Copy(i)
  BY <1>2, <1>5, <1>6, Zenon DEF Copy
<1>8. \A u \in Tasks \ {t} :
        /\ task'[u].pc = task[u].pc /\ task'[u].elem = task[u].elem /\ task'[u].no = task[u].no
        /\ task[u].pc \in {"walk", "found", "store"} => task'[u].freed = task[u].freed \union {a}
  BY <1>1, <1>4, FreeStep, Zenon
<1>9. ASSUME NEW x, x # a, Closing(x) PROVE Closing(x)'
  <2>1. PICK u \in Tasks : task[u].pc = "free" /\ task[u].elem = x
    BY <1>9, Zenon DEF Closing, At
  <2>2. u # t
    BY <1>4, <1>9, <2>1, Zenon
  <2>3. task'[u].pc = "free" /\ task'[u].elem = x
    BY <1>8, <2>1, <2>2, Zenon
  <2> QED BY <2>3, Zenon DEF Closing, At
<1>10. ASSUME NEW u \in Tasks \ {t} PROVE Knows(u)'
  <2>1. task'[u].pc = task[u].pc /\ task'[u].elem = task[u].elem /\ task'[u].no = task[u].no
    BY <1>8, ZenonT(30)
  <2>2. PICK j : j = task[u].no
    BY Zenon
  <2>3. PICK e : e = task[u].elem
    BY Zenon
  <2>4. Knows(u)
    BY <1>1, Zenon DEF WalkInv
  <2>5. ASSUME task[u].pc = "walk" PROVE \E S \in SUBSET (Copies \union {NONE}) : Path(u, S)'
    <3>1. PICK S \in SUBSET (Copies \union {NONE}) : Path(u, S)
      BY <2>4, <2>5, Zenon DEF Knows, At
    <3>2. task'[u].freed = task[u].freed \union {a}
      BY <1>8, <2>5, Zenon
    <3>3. ASSUME NEW x \in S
          PROVE  \/ x \in {NONE} \union task'[u].freed \union Range(open_inodes')
                 \/ Closing(x)' /\ after'[x] \in S
      <4>1. \/ x \in {NONE} \union task[u].freed \union Range(open_inodes)
            \/ Closing(x) /\ after[x] \in S
        BY <3>1, <3>3, Zenon DEF Path
      <4>2. CASE x = a
        BY <3>2, <4>2, Zenon
      <4>3. CASE x # a /\ x \in Copies
        BY <1>2, <1>5, <1>9, <3>2, <4>1, <4>3, ZenonT(30)
      <4> QED BY <3>3, <4>2, <4>3, Zenon
    <3>4. ASSUME j \notin twice', NEW b \in Copy(j)'
          PROVE  /\ NONE \notin S
                 /\ \A x \in (S \intersect Range(open_inodes')) \ task'[u].freed : UpTo(open_inodes', x, b)
      <4>1. b \in Copy(j)
        BY <1>7, <3>4, Zenon
      <4>2. /\ NONE \notin S
            /\ \A x \in (S \intersect Range(open_inodes)) \ task[u].freed : UpTo(open_inodes, x, b)
        BY <1>2, <2>2, <3>1, <3>4, <4>1, ZenonT(30) DEF Path
      <4> QED BY <1>2, <3>2, <4>2, Zenon
    <3>5. task'[u].elem \in S /\ task'[u].no = j
      BY <2>1, <2>2, <3>1, Zenon DEF Path
    <3>6. Path(u, S)'
      BY <3>3, <3>4, <3>5, Zenon DEF Path
    <3> QED BY <3>6, Zenon
  <2>6. ASSUME task[u].pc \in {"found", "store"}
        PROVE  e \in task'[u].freed \union Range(open_inodes') \/ Closing(e)'
    <3>1. e \in task[u].freed \union Range(open_inodes) \/ Closing(e)
      BY <2>3, <2>4, <2>6, Zenon DEF Knows
    <3>2. task'[u].freed = task[u].freed \union {a}
      BY <1>8, <2>6, Zenon
    <3> QED BY <1>2, <1>9, <3>1, <3>2, ZenonT(30)
  <2>7. task[u].pc \in {"read", "push", "insert"} => j \in twice' \/ Copy(j)' = {}
    BY <1>2, <1>7, <2>2, <2>4, Zenon DEF Knows
  <2>8. task[u].pc \in {"push", "insert"} => e \in misread' \/ copy'[e].i_no = j
    <3>1. ASSUME task[u].pc \in {"push", "insert"} PROVE e \in Copies \ {a}
      <4>1. u \in Outside /\ e \in Copies
        BY <1>1, <2>3, <3>1, ElemFacts, Zenon DEF Outside
      <4> QED BY <1>1, <1>3, <1>4, <2>3, <4>1, ZenonT(30) DEF BlockInv
    <3> QED BY <1>2, <1>5, <2>2, <2>3, <2>4, <3>1, ZenonT(30) DEF Knows
  <2>9. e = task'[u].elem /\ j = task'[u].no
    BY <2>1, <2>2, <2>3, Zenon
  <2> QED BY <2>1, <2>5, <2>6, <2>7, <2>8, <2>9, ZenonT(30) DEF Knows, At
<1>11. Knows(t)'
  BY <1>3, KnowsNothing, Zenon
<1>12. WalkInv'
  BY <1>10, <1>11, Zenon DEF WalkInv
<1>13. OneCopy'
  <2>1. \A b \in Range(open_inodes') : b \in Range(open_inodes) /\ copy'[b] = copy[b]
    BY <1>2, <1>5, <1>6, Zenon
  <2> QED BY <1>1, <1>2, <2>1, Zenon DEF OneCopy
<1> QED BY <1>12, <1>13, Zenon

\* Every step leads the tasks in inode_open on their way, and brings no inode into the list
\* a second time.
LEMMA WalkPreserved ==
  ASSUME IInv, NEW t \in Tasks, Step(t)
  PROVE  WalkInv' /\ OneCopy'
<1>1. TypeOK
  BY Zenon DEF IInv
<1>2. ASSUME NEW i \in Inodes, Open(t, i) PROVE WalkInv' /\ OneCopy'
  BY <1>1, <1>2, OpenStep, OpenKnows, QuietStep, Zenon DEF Open, history
<1>3. CASE Walk(t)
  BY <1>1, <1>3, WalkStep, WalkKnows, QuietStep, Zenon DEF Walk, history
<1>4. CASE Load(t)
  <2>1. task[t].pc = "found"
    BY <1>4, Zenon DEF Load, At
  <2>2. /\ Others(t) /\ KeepOthers(t)
        /\ \/ task'[t].pc = "astray"
           \/ task'[t].pc = "store" /\ task'[t].elem = task[t].elem /\ task'[t].freed = task[t].freed
    BY <1>1, <1>4, <2>1, FoundAllocated, LoadStep, OthersKept, IdleFacts, ZenonT(30)
  <2>3. open_inodes' = open_inodes
    BY <1>4, Zenon DEF Load, memory
  <2>4. PICK a : a = task[t].elem
    BY Zenon
  <2>5. a \in task[t].freed \union Range(open_inodes) \/ Closing(a)
    BY <2>1, <2>4, Zenon DEF IInv, WalkInv, Knows
  <2>6. Closing(a) => Closing(a)'
    BY <2>1, <2>2, ClosingKept, Zenon
  <2>7. Knows(t)'
    <3>1. CASE task'[t].pc = "astray"
      BY <3>1, KnowsNothing, Zenon
    <3>2. CASE task'[t].pc = "store" /\ task'[t].elem = a /\ task'[t].freed = task[t].freed
      <4>1. a \in task'[t].freed \union Range(open_inodes') \/ Closing(a)'
        BY <2>3, <2>5, <2>6, <3>2, Zenon
      <4> QED BY <3>2, <4>1, Zenon DEF Knows, At
    <3> QED BY <2>2, <2>4, <3>1, <3>2, Zenon
  <2> QED BY <1>4, <2>1, <2>2, <2>7, QuietStep, ZenonT(30) DEF Load, history
<1>5. CASE Store(t)
  <2>1. task[t].pc = "store"
    BY <1>5, Zenon DEF Store, At
  <2>2. copy[task[t].elem] # NONE \/ task[t].elem \in task[t].freed
    BY <2>1, FoundAllocated, Zenon
  <2>3. /\ Others(t) /\ task[t].elem \in Copies /\ task'[t].pc \in {"astray", "held"}
        /\ \/ copy' = copy
           \/ /\ copy[task[t].elem] # NONE /\ task[t].n + 1 \in Int
              /\ copy' = [copy EXCEPT ![task[t].elem].i_open_cnts = task[t].n + 1]
    BY <1>1, <1>5, <2>2, StoreStep, IdleFacts, Zenon
  <2>4. \A b \in Copies : copy'[b].i_no = copy[b].i_no
    BY <1>1, <2>3, CountSet, Zenon
  <2>5. KeepOthers(t) /\ FreedKept(t) /\ Knows(t)'
    BY <2>3, OthersKept, KnowsNothing, Zenon DEF FreedKept, Others
  <2> QED BY <1>5, <2>1, <2>4, <2>5, PlainStep, ZenonT(30) DEF Store
<1>6. CASE Miss(t)
  <2>1. /\ Others(t) /\ task[t].pc = "walk" /\ task[t].elem = NONE /\ task'[t].pc = "read"
        /\ task'[t].no = task[t].no
    BY <1>1, <1>6, MissStep, Zenon
  <2>2. open_inodes' = open_inodes /\ copy' = copy /\ twice' = twice /\ misread' = misread
    BY <1>6, Zenon DEF Miss, memory, history
  <2>3. PICK i : i = task[t].no
    BY Zenon
  <2>4. PICK S \in SUBSET (Copies \union {NONE}) : Path(t, S)
    BY <2>1, Zenon DEF IInv, WalkInv, Knows, At
  <2>5. i \in twice \/ Copy(i) = {}
    BY <2>1, <2>3, <2>4, Zenon DEF Path
  <2>6. Copy(i)' = Copy(i)
    BY <2>2, Zenon DEF Copy
  <2>7. Knows(t)'
    BY <2>1, <2>2, <2>3, <2>5, <2>6, Zenon DEF Knows, At
  <2> QED BY <1>6, <2>1, <2>7, QuietStep, Zenon DEF Miss, history
<1>7. CASE Read(t)
  BY <1>7, ReadWalks, Zenon
<1>8. CASE Push(t)
  <2>1. /\ Others(t) /\ task[t].pc = "push" /\ task'[t].pc = "insert"
        /\ task'[t].no = task[t].no /\ task'[t].elem = task[t].elem
    BY <1>1, <1>8, PushStep, Zenon
  <2>2. open_inodes' = open_inodes /\ copy' = copy /\ twice' = twice /\ misread' = misread
    BY <1>8, Zenon DEF Push, memory, history
  <2>3. PICK i : i = task[t].no
    BY Zenon
  <2>4. (i \in twice \/ Copy(i) = {}) /\ (task[t].elem \in misread \/ copy[task[t].elem].i_no = i)
    BY <2>1, <2>3, Zenon DEF IInv, WalkInv, Knows
  <2>5. Copy(i)' = Copy(i)
    BY <2>2, Zenon DEF Copy
  <2>6. Knows(t)'
    BY <2>1, <2>2, <2>3, <2>4, <2>5, ZenonT(30) DEF Knows, At
  <2> QED BY <1>8, <2>1, <2>6, QuietStep, Zenon DEF Push, history
<1>9. CASE Insert(t)
  BY <1>9, InsertWalks, Zenon
<1>10. CASE SetCount(t)
  <2>1. /\ Others(t) /\ task[t].elem \in Copies /\ task[t].pc = "count" /\ task'[t].pc \in {"astray", "held"}
        /\ \/ copy' = copy
           \/ /\ copy[task[t].elem] # NONE
              /\ copy' = [copy EXCEPT ![task[t].elem].i_open_cnts = 1]
    BY <1>1, <1>10, SetCountStep, IdleFacts, Zenon
  <2>2. \A b \in Copies : copy'[b].i_no = copy[b].i_no
    BY <1>1, <2>1, CountSet
  <2>3. KeepOthers(t) /\ FreedKept(t) /\ Knows(t)'
    BY <2>1, OthersKept, KnowsNothing, Zenon DEF FreedKept, Others
  <2> QED BY <1>10, <2>1, <2>2, <2>3, PlainStep, Zenon DEF SetCount
<1>11. CASE Close(t)
  BY <1>11, CloseWalks, Zenon
<1>12. CASE Free(t)
  BY <1>12, FreeWalks, Zenon
<1>13. CASE Change(t)
  <2>1. task' = task /\ task[t].pc = "held"
    BY <1>13, Zenon DEF Change, At
  <2>2. \A b \in Copies : copy'[b].i_no = copy[b].i_no
    BY <1>1, <1>13, ChangeStep, Zenon
  <2>3. KeepOthers(t) /\ FreedKept(t)
    BY <2>1, Zenon DEF FreedKept, KeepOthers
  <2>4. Knows(t)'
    BY <2>1, KnowsNothing, Zenon
  <2> QED BY <1>13, <2>1, <2>2, <2>3, <2>4, PlainStep, Zenon DEF Change, history
<1>14. CASE SyncOpen(t)
  BY <1>1, <1>14, SyncOpenStep, KnowsNothing, QuietStep, Zenon DEF SyncOpen, history
<1>15. ASSUME NEW i \in Inodes, SyncNew(t, i) PROVE WalkInv' /\ OneCopy'
  BY <1>1, <1>15, SyncNewStep, KnowsNothing, QuietStep, Zenon DEF SyncNew, history
<1>16. CASE SyncRead(t)
  BY <1>1, <1>16, SyncReadStep, KnowsNothing, QuietStep, Zenon DEF SyncRead, history
<1>17. CASE SyncWrite(t)
  <2>1. /\ task[t].pc = "sync_write" /\ task'[t].pc \in {"idle", "held"}
        /\ \A u \in Tasks \ {t} :
             /\ task'[u].pc = task[u].pc /\ task'[u].elem = task[u].elem /\ task'[u].no = task[u].no
             /\ task[u].pc # "sync_write" => task'[u] = task[u]
    BY <1>1, <1>17, SyncWriteStep, IdleFacts, Zenon
  <2>2. KeepOthers(t) /\ FreedKept(t)
    BY <2>1, Zenon DEF KeepOthers, FreedKept, InOpen
  <2>3. /\ open_inodes' = open_inodes /\ after' = after /\ copy' = copy /\ twice' = twice
        /\ misread' = misread /\ overwritten \subseteq overwritten'
    BY <1>17, Zenon DEF SyncWrite, memory
  <2>4. Knows(t)'
    BY <2>1, KnowsNothing, Zenon
  <2> QED BY <2>1, <2>2, <2>3, <2>4, PlainStep, Zenon
<1> QED BY <1>2, <1>3, <1>4, <1>5, <1>6, <1>7, <1>8, <1>9, <1>10, <1>11, <1>12, <1>13, <1>14, <1>15,
           <1>16, <1>17, ZenonT(30) DEF Step

-----------------------------------------------------------------------------
(* The inode table.                                                        *)

\* The quotient is the number of whole divisors in front.
LEMMA DivIs ==
  ASSUME NEW n \in Nat, NEW q \in Nat, NEW d \in Nat, d > 0, q * d <= n, n < q * d + d
  PROVE  n \div d = q
<1> DEFINE p == n \div d
<1>1. p \in Int /\ p * d <= n /\ n < p * d + d
  BY SMT
<1> HIDE DEF p
<1>2. CASE p < q
  <2>1. PICK k \in Nat : q = p + 1 + k
    <3>1. q - p - 1 \in Nat /\ q = p + 1 + (q - p - 1)
      BY <1>1, <1>2
    <3> QED BY <3>1, Zenon
  <2>2. q * d = p * d + d + k * d
    BY <1>1, <2>1
  <2>3. k * d >= 0
    BY SMT
  <2>4. q * d \in Int /\ p * d \in Int /\ k * d \in Int
    BY <1>1
  <2> QED BY <1>1, <2>2, <2>3, <2>4
<1>3. CASE q < p
  <2>1. PICK k \in Nat : p = q + 1 + k
    <3>1. p - q - 1 \in Nat /\ p = q + 1 + (p - q - 1)
      BY <1>1, <1>3
    <3> QED BY <3>1, Zenon
  <2>2. p * d = q * d + d + k * d
    BY <1>1, <2>1
  <2>3. k * d >= 0
    BY SMT
  <2>4. q * d \in Int /\ p * d \in Int /\ k * d \in Int
    BY <1>1
  <2> QED BY <1>1, <2>2, <2>3, <2>4
<1>4. p = q
  BY <1>1, <1>2, <1>3
<1> QED BY <1>4, Zenon DEF p

\* A cell belongs to one inode, which its index divided by the size of an inode gives.
LEMMA CellOwner ==
  ASSUME NEW i \in Nat, NEW c \in CellsOf(i)
  PROVE  c \in Nat /\ c \div InodeCells = i
<1>1. InodeCells \in Nat /\ InodeCells > 0
  BY ConstantFacts, Zenon
<1>2. PICK o \in Nat : o = i * InodeCells
  BY <1>1
<1>3. c \in o .. (o + InodeCells - 1)
  BY <1>2, Zenon DEF CellsOf
<1>4. c \in Nat /\ i * InodeCells <= c /\ c < i * InodeCells + InodeCells
  BY <1>1, <1>2, <1>3
<1> QED BY <1>1, <1>4, DivIs, Zenon

\* inode_locate finds every sector an inode lies in.
LEMMA CellSector ==
  ASSUME NEW i \in Nat, NEW c \in CellsOf(i)
  PROVE  c \div SectorCells \in SectorsOf(i)
<1>1. InodeCells \in Nat /\ SectorCells \in Nat /\ SectorCells > 0 /\ InodeCells <= SectorCells
  BY ConstantFacts, Zenon
<1>2. PICK o \in Nat : o = i * InodeCells
  BY <1>1
<1>3. c \in Nat /\ o <= c /\ c < o + InodeCells
  BY <1>1, <1>2 DEF CellsOf
<1>4. PICK q \in Nat, r \in Nat : q = o \div SectorCells /\ r = o % SectorCells
  <2>1. o \div SectorCells \in Nat /\ o % SectorCells \in Nat
    BY <1>1
  <2> QED BY <2>1, Zenon
<1>5. r < SectorCells /\ o = q * SectorCells + r
  BY <1>1, <1>4
<1>6. PICK m \in Nat : m = q * SectorCells
  BY <1>1
<1>7. (q + 1) * SectorCells = m + SectorCells
  BY <1>1, <1>6
<1>8. SectorsOf(i) = {q} \union (IF SectorCells - r < InodeCells THEN {q + 1} ELSE {})
  BY <1>2, <1>4, Zenon DEF SectorsOf
<1>9. CASE c < m + SectorCells
  <2>1. c \div SectorCells = q
    BY <1>1, <1>3, <1>5, <1>6, <1>9, DivIs
  <2> QED BY <1>8, <2>1, Zenon
<1>10. CASE c >= m + SectorCells
  <2>1. c < m + SectorCells + SectorCells /\ SectorCells - r < InodeCells
    BY <1>1, <1>3, <1>5, <1>6, <1>10
  <2>2. c \div SectorCells = q + 1
    BY <1>1, <1>3, <1>7, <1>10, <2>1, q + 1 \in Nat, DivIs
  <2> QED BY <1>8, <2>1, <2>2, Zenon
<1> QED BY <1>1, <1>3, <1>9, <1>10

\* The cells of different inodes are different.
LEMMA CellsDisjoint ==
  ASSUME NEW i \in Nat, NEW j \in Nat, NEW c \in CellsOf(i), c \in CellsOf(j)
  PROVE  i = j
BY CellOwner, Zenon

\* The table keeps its cells, and the tasks their buffers, in a step that writes nothing.
LEMMA SyncFrame ==
  ASSUME SyncInv, SyncKept, NEW t \in Tasks, KeepOthers(t),
         \A u \in Tasks \ {t} : task[u].pc = "sync_write" => task'[u] = task[u],
         table' = table, saved' = saved, overwritten' = overwritten, task'[t].pc # "sync_write",
         task'[t].pc \in {"walk", "read"} => task'[t].no \in DOMAIN saved
  PROVE  SyncInv' /\ SyncKept'
<1>1. SyncKept'
  BY Zenon DEF SyncKept
<1>2. \A u \in Tasks : task'[u].pc \in {"walk", "read"} => task'[u].no \in DOMAIN saved'
  BY Zenon DEF SyncInv, KeepOthers
<1>3. ASSUME NEW u \in Tasks, task'[u].pc = "sync_write"
      PROVE  /\ DOMAIN task'[u].buf = CellsIn(SectorsOf(task[u].place))'
             /\ \A i \in (DOMAIN saved' \ overwritten') \ (task'[u].undone \union {task'[u].place}) :
                  \A c \in CellsOf(i) \intersect DOMAIN task'[u].buf : task'[u].buf[c] = table'[c]
  <2>1. u # t /\ task[u].pc = "sync_write" /\ task'[u] = task[u]
    BY <1>3, Zenon DEF KeepOthers
  <2>2. PICK S : S = SectorsOf(task[u].place)
    BY Zenon
  <2>3. CellsIn(S)' = CellsIn(S)
    BY Zenon DEF CellsIn
  <2>4. DOMAIN task[u].buf = CellsIn(S)
    BY <2>1, <2>2, Zenon DEF SyncInv, At
  <2>5. S = SectorsOf(task'[u].place)
    BY <2>1, <2>2, Zenon
  <2>6. DOMAIN task'[u].buf = CellsIn(S)'
    BY <2>1, <2>3, <2>4, Zenon
  <2>7. DOMAIN task'[u].buf = CellsIn(SectorsOf(task[u].place))'
    BY <2>5, <2>6, Zenon
  <2>8. \A i \in (DOMAIN saved \ overwritten) \ (task[u].undone \union {task[u].place}) :
          \A c \in CellsOf(i) \intersect DOMAIN task[u].buf : task[u].buf[c] = table[c]
    BY <2>1, Zenon DEF SyncInv, At
  <2> QED BY <2>1, <2>7, <2>8, Zenon
<1>4. SyncInv'
  BY <1>2, <1>3, Zenon DEF SyncInv, At
<1> QED BY <1>1, <1>4, Zenon

\* What inode_sync reads is what is in the table.
LEMMA SyncReadKeeps ==
  ASSUME IInv, NEW t \in Tasks, SyncRead(t)
  PROVE  SyncInv' /\ SyncKept'
<1>1. TypeOK /\ SyncInv /\ SyncKept
  BY Zenon DEF IInv
<1>2. table' = table /\ saved' = saved /\ overwritten' = overwritten
  BY Zenon DEF SyncRead, history
<1>3. /\ Others(t) /\ task'[t].pc = "sync_write" /\ task'[t].place = task[t].place
      /\ DOMAIN task'[t].buf = CellsIn(SectorsOf(task[t].place))
      /\ \A c \in DOMAIN task'[t].buf : task'[t].buf[c] = table[c]
  BY <1>1, SyncReadStep, Zenon
<1>4. SyncKept'
  BY <1>1, <1>2, Zenon DEF SyncKept
<1>5. \A u \in Tasks : task'[u].pc \in {"walk", "read"} => task'[u].no \in DOMAIN saved'
  <2>1. ASSUME NEW u \in Tasks, task'[u].pc \in {"walk", "read"} PROVE task'[u].no \in DOMAIN saved
    <3>1. u # t
      BY <1>3, <2>1, Zenon
    <3>2. task'[u] = task[u]
      BY <1>3, <3>1, Zenon DEF Others
    <3> QED BY <1>1, <2>1, <3>2, Zenon DEF SyncInv
  <2> QED BY <1>2, <2>1, Zenon
<1>6. ASSUME NEW u \in Tasks, task'[u].pc = "sync_write"
      PROVE  /\ DOMAIN task'[u].buf = CellsIn(SectorsOf(task[u].place))'
             /\ \A i \in (DOMAIN saved' \ overwritten') \ (task'[u].undone \union {task'[u].place}) :
                  \A c \in CellsOf(i) \intersect DOMAIN task'[u].buf : task'[u].buf[c] = table'[c]
  <2>1. PICK S : S = SectorsOf(task[u].place)
    BY Zenon
  <2>2. CellsIn(S)' = CellsIn(S)
    BY <1>2, Zenon DEF CellsIn
  <2>3. u # t => task'[u] = task[u] /\ task[u].pc = "sync_write"
    BY <1>3, <1>6, Zenon DEF Others
  <2>4. S = SectorsOf(task'[u].place)
    <3>1. task'[u].place = task[u].place
      BY <1>3, <2>3, Zenon
    <3> QED BY <2>1, <3>1, Zenon
  <2>5. DOMAIN task'[u].buf = CellsIn(S)
    <3>1. CASE u = t
      BY <1>3, <2>1, <3>1, Zenon
    <3>2. CASE u # t
      BY <1>1, <2>1, <2>3, <3>2, Zenon DEF SyncInv, At
    <3> QED BY <3>1, <3>2, Zenon
  <2>6. DOMAIN task'[u].buf = CellsIn(S)'
    BY <2>2, <2>5, Zenon
  <2>7. DOMAIN task'[u].buf = CellsIn(SectorsOf(task[u].place))'
    BY <2>4, <2>6, Zenon
  <2>8. \A i \in (DOMAIN saved \ overwritten) \ (task'[u].undone \union {task'[u].place}) :
          \A c \in CellsOf(i) \intersect DOMAIN task'[u].buf : task'[u].buf[c] = table[c]
    <3>1. CASE u = t
      BY <1>3, <3>1, Zenon
    <3>2. CASE u # t
      BY <1>1, <2>3, <3>2, Zenon DEF SyncInv, At
    <3> QED BY <3>1, <3>2, Zenon
  <2> QED BY <1>2, <2>7, <2>8, Zenon
<1>7. SyncInv'
  BY <1>5, <1>6, Zenon DEF SyncInv, At
<1> QED BY <1>4, <1>7, Zenon

\* inode_sync writes the inode into every sector it lies in, and puts back the others as
\* they are, but for those that were stored since it has read them.
LEMMA SyncWriteKeeps ==
  ASSUME IInv, NEW t \in Tasks, SyncWrite(t)
  PROVE  SyncInv' /\ SyncKept'
<1>1. TypeOK /\ SyncInv /\ SyncKept
  BY Zenon DEF IInv
<1>2. task[t].pc = "sync_write"
  BY Zenon DEF SyncWrite, At
<1>3. Syncing(task[t])
  BY <1>1, <1>2, TaskKinds, Zenon
<1>4. PICK p \in Nat : p = task[t].place
  BY <1>3, Zenon DEF Syncing
<1>5. PICK r \in DiskRecord : r = task[t].record
  BY <1>3, Zenon DEF Syncing
<1>6. Inodes \subseteq Nat /\ DOMAIN saved \subseteq Inodes
  BY <1>1, ConstantFacts, Zenon DEF TypeOK
<1>7. r.i_no \in Inodes /\ r = Record(r.i_no, r.data)
  BY <1>5, Zenon DEF DiskRecord, Record
<1>8. /\ DOMAIN table' = DOMAIN table
      /\ \A c \in DOMAIN table : table'[c] =
           IF c \in CellsOf(p) /\ c \in DOMAIN task[t].buf THEN r
           ELSE IF c \in DOMAIN task[t].buf THEN task[t].buf[c] ELSE table[c]
      /\ DOMAIN saved' = DOMAIN saved \union {r.i_no} /\ saved'[r.i_no] = r.data
      /\ \A i \in DOMAIN saved \ {r.i_no} : saved'[i] = saved[i]
  BY <1>1, <1>4, <1>5, TableStep, Zenon
<1>9. overwritten' = overwritten \union task[t].undone
                       \union (IF p = r.i_no THEN {} ELSE {p, r.i_no})
  BY <1>4, <1>5, Zenon DEF SyncWrite
<1>10. /\ DOMAIN task[t].buf = CellsIn(SectorsOf(p))
       /\ \A i \in (DOMAIN saved \ overwritten) \ (task[t].undone \union {p}) :
            \A c \in CellsOf(i) \intersect DOMAIN task[t].buf : task[t].buf[c] = table[c]
  BY <1>1, <1>2, <1>4, Zenon DEF SyncInv, At
<1>11. \A i \in Inodes : CellsOf(i) \subseteq DOMAIN table
  BY <1>1, FirstCell, Zenon
<1>12. ASSUME NEW i \in DOMAIN saved \ overwritten', i # p, NEW c \in CellsOf(i)
       PROVE  table'[c] = table[c]
  <2>1. i \in Nat /\ c \in DOMAIN table
    BY <1>6, <1>11, <1>12, Zenon
  <2>2. c \notin CellsOf(p)
    BY <1>12, <2>1, CellsDisjoint, Zenon
  <2>3. i \in (DOMAIN saved \ overwritten) \ (task[t].undone \union {p})
    BY <1>9, <1>12, Zenon
  <2>4. c \in DOMAIN task[t].buf => task[t].buf[c] = table[c]
    BY <1>10, <1>12, <2>3, Zenon
  <2> QED BY <1>8, <2>1, <2>2, <2>4, Zenon
<1>13. r.i_no \notin overwritten' => r.i_no = p
  BY <1>9, Zenon
<1>14. \A i \in DOMAIN saved' \ overwritten' : i = p => i = r.i_no
  BY <1>9, Zenon
<1>15. ASSUME NEW i \in DOMAIN saved' \ overwritten', NEW c \in CellsOf(i)
       PROVE  table'[c] = Record(i, saved'[i])
  <2>1. CASE i = r.i_no
    <3>1. i = p
      BY <1>13, <1>15, <2>1, Zenon
    <3>2. c \in DOMAIN table
      BY <1>7, <1>11, <1>15, <2>1, Zenon
    <3>3. c \div SectorCells \in SectorsOf(p)
      BY <1>15, <3>1, CellSector, Zenon
    <3>4. c \in DOMAIN task[t].buf
      BY <1>10, <3>2, <3>3, Zenon DEF CellsIn
    <3>5. table'[c] = r
      BY <1>8, <1>15, <3>1, <3>2, <3>4, ZenonT(30)
    <3> QED BY <1>7, <1>8, <2>1, <3>5, Zenon
  <2>2. CASE i # r.i_no
    <3>1. i \in DOMAIN saved \ overwritten /\ i # p
      BY <1>8, <1>9, <1>14, <1>15, <2>2, ZenonT(30)
    <3>2. table'[c] = table[c]
      BY <1>12, <1>15, <3>1, Zenon
    <3>3. table[c] = Record(i, saved[i])
      BY <1>1, <1>15, <3>1, Zenon DEF SyncKept
    <3>4. saved'[i] = saved[i]
      BY <1>8, <2>2, <3>1, Zenon
    <3> QED BY <3>2, <3>3, <3>4, Zenon
  <2> QED BY <2>1, <2>2, Zenon
<1>16. SyncKept'
  BY <1>15, Zenon DEF SyncKept
<1>17. /\ task'[t].pc \in {"idle", "held"}
       /\ \A u \in Tasks \ {t} :
            /\ task'[u].pc = task[u].pc /\ task'[u].no = task[u].no
            /\ task[u].pc = "sync_write" =>
                 /\ task'[u].place = task[u].place /\ task'[u].buf = task[u].buf
                 /\ task[u].undone \subseteq task'[u].undone
                 /\ (Shares(u, p) /\ task[u].place # p) => p \in task'[u].undone
  BY <1>1, <1>4, SyncWriteStep, IdleFacts, Zenon
<1>18. ASSUME NEW u \in Tasks, task'[u].pc \in {"walk", "read"} PROVE task'[u].no \in DOMAIN saved'
  <2>1. u # t /\ task[u].pc \in {"walk", "read"} /\ task'[u].no = task[u].no
    BY <1>17, <1>18, Zenon
  <2> QED BY <1>1, <1>8, <2>1, Zenon DEF SyncInv
<1>19. ASSUME NEW u \in Tasks, task'[u].pc = "sync_write"
       PROVE  /\ DOMAIN task'[u].buf = CellsIn(SectorsOf(task[u].place))'
              /\ \A i \in (DOMAIN saved' \ overwritten') \ (task'[u].undone \union {task'[u].place}) :
                   \A c \in CellsOf(i) \intersect DOMAIN task'[u].buf : task'[u].buf[c] = table'[c]
  <2>1. u # t /\ task[u].pc = "sync_write"
    BY <1>17, <1>19, Zenon
  <2>2. /\ task'[u].place = task[u].place /\ task'[u].buf = task[u].buf
        /\ task[u].undone \subseteq task'[u].undone
        /\ (Shares(u, p) /\ task[u].place # p) => p \in task'[u].undone
    BY <1>17, <2>1, Zenon
  <2>3. PICK S : S = SectorsOf(task[u].place)
    BY Zenon
  <2>4. CellsIn(S)' = CellsIn(S)
    BY <1>8, Zenon DEF CellsIn
  <2>5. DOMAIN task[u].buf = CellsIn(S)
    BY <1>1, <2>1, <2>3, Zenon DEF SyncInv, At
  <2>6. S = SectorsOf(task'[u].place)
    BY <2>2, <2>3, Zenon
  <2>7. DOMAIN task'[u].buf = CellsIn(S)'
    BY <2>2, <2>4, <2>5, Zenon
  <2>8. DOMAIN task'[u].buf = CellsIn(SectorsOf(task[u].place))'
    BY <2>6, <2>7, Zenon
  <2>9. ASSUME NEW i \in (DOMAIN saved' \ overwritten') \ (task'[u].undone \union {task'[u].place}),
               NEW c \in CellsOf(i) \intersect DOMAIN task'[u].buf
        PROVE  task'[u].buf[c] = table'[c]
    <3>1. i # p
      <4> SUFFICES ASSUME i = p PROVE FALSE
        BY Zenon
      <4>1. ~Shares(u, p)
        BY <2>2, <2>9, Zenon
      <4>2. c \div SectorCells \in SectorsOf(p)
        BY <2>9, CellSector, Zenon
      <4>3. c \div SectorCells \in S
        BY <2>2, <2>5, <2>9, Zenon DEF CellsIn
      <4> QED BY <2>3, <4>1, <4>2, <4>3, ZenonT(30) DEF Shares
    <3>2. i # r.i_no
      BY <1>13, <2>9, <3>1, Zenon
    <3>3. i \in DOMAIN saved \ overwritten'
      BY <1>8, <2>9, <3>2, Zenon
    <3>4. table'[c] = table[c]
      BY <1>12, <2>9, <3>1, <3>3, ZenonT(30)
    <3>5. i \in (DOMAIN saved \ overwritten) \ (task[u].undone \union {task[u].place})
      BY <1>9, <2>2, <2>9, <3>3, Zenon
    <3>6. task[u].buf[c] = table[c]
      BY <1>1, <2>1, <2>2, <2>9, <3>5, ZenonT(30) DEF SyncInv, At
    <3> QED BY <2>2, <3>4, <3>6, Zenon
  <2> QED BY <2>8, <2>9, Zenon
<1>20. SyncInv'
  BY <1>18, <1>19, ZenonT(30) DEF SyncInv, At
<1> QED BY <1>16, <1>20, Zenon

\* Every step keeps what the inode table has.
LEMMA SyncPreserved ==
  ASSUME IInv, NEW t \in Tasks, Step(t)
  PROVE  SyncInv' /\ SyncKept'
<1>1. TypeOK /\ SyncInv /\ SyncKept
  BY Zenon DEF IInv
<1>2. ASSUME Others(t), UNCHANGED <<table, saved, overwritten>>, task'[t].pc # "sync_write",
             task'[t].pc \in {"walk", "read"} => task'[t].no \in DOMAIN saved
      PROVE  SyncInv' /\ SyncKept'
  <2>1. KeepOthers(t) /\ \A u \in Tasks \ {t} : task[u].pc = "sync_write" => task'[u] = task[u]
    BY <1>2, OthersKept, Zenon DEF Others
  <2> QED BY <1>1, <1>2, <2>1, SyncFrame, Zenon
<1>3. task[t].pc \in {"walk", "read"} => task[t].no \in DOMAIN saved
  BY <1>1, Zenon DEF SyncInv
<1>4. ASSUME NEW i \in Inodes, Open(t, i) PROVE SyncInv' /\ SyncKept'
  BY <1>1, <1>2, <1>4, OpenStep, Zenon DEF Open, history
<1>5. CASE Walk(t)
  BY <1>1, <1>2, <1>3, <1>5, WalkStep, IdleFacts, ZenonT(30) DEF Walk, history
<1>6. CASE Load(t)
  <2>1. task[t].pc = "found"
    BY <1>6, Zenon DEF Load, At
  <2> QED BY <1>1, <1>2, <1>6, <2>1, FoundAllocated, LoadStep, IdleFacts, ZenonT(30) DEF Load, history
<1>7. CASE Store(t)
  <2>1. task[t].pc = "store"
    BY <1>7, Zenon DEF Store, At
  <2>2. copy[task[t].elem] # NONE \/ task[t].elem \in task[t].freed
    BY <2>1, FoundAllocated, Zenon
  <2>3. Others(t) /\ task'[t].pc \in {"astray", "held"}
    BY <1>1, <1>7, <2>2, StoreStep, IdleFacts, Zenon
  <2> QED BY <1>2, <1>7, <2>3, ZenonT(30) DEF Store
<1>8. CASE Miss(t)
  BY <1>1, <1>2, <1>3, <1>8, MissStep, Zenon DEF Miss, history
<1>9. CASE Read(t)
  BY <1>1, <1>2, <1>9, ReadStep, Zenon DEF Read
<1>10. CASE Push(t)
  BY <1>1, <1>2, <1>10, PushStep, Zenon DEF Push, history
<1>11. CASE Insert(t)
  BY <1>1, <1>2, <1>11, InsertStep, IdleFacts, ZenonT(30) DEF Insert
<1>12. CASE SetCount(t)
  BY <1>1, <1>2, <1>12, SetCountStep, IdleFacts, ZenonT(30) DEF SetCount
<1>13. CASE Close(t)
  <2>1. Others(t) /\ task'[t].pc \in {"idle", "astray", "free"}
    BY <1>1, <1>13, CloseStep, IdleFacts, Zenon
  <2> QED BY <1>2, <1>13, <2>1, Zenon DEF Close, history
<1>14. CASE Free(t)
  <2>1. KeepOthers(t) /\ task'[t].pc = "idle"
    BY <1>1, <1>14, FreeStep, IdleFacts, Zenon DEF KeepOthers
  <2>2. \A u \in Tasks \ {t} : task[u].pc = "sync_write" => task'[u] = task[u]
    BY <1>1, <1>14, FreeStep, Zenon
  <2> QED BY <1>1, <1>14, <2>1, <2>2, SyncFrame, ZenonT(30) DEF Free, history
<1>15. CASE Change(t)
  <2>1. Others(t) /\ task[t].pc = "held" /\ task'[t] = task[t]
    BY <1>15, Zenon DEF Change, Others, At
  <2> QED BY <1>2, <1>15, <2>1, Zenon DEF Change, history
<1>16. CASE SyncOpen(t)
  BY <1>1, <1>2, <1>16, SyncOpenStep, Zenon DEF SyncOpen, history
<1>17. ASSUME NEW i \in Inodes, SyncNew(t, i) PROVE SyncInv' /\ SyncKept'
  BY <1>1, <1>2, <1>17, SyncNewStep, ZenonT(30) DEF SyncNew, history
<1>18. CASE SyncRead(t)
  BY <1>18, SyncReadKeeps, Zenon
<1>19. CASE SyncWrite(t)
  BY <1>19, SyncWriteKeeps, Zenon
<1> QED BY <1>4, <1>5, <1>6, <1>7, <1>8, <1>9, <1>10, <1>11, <1>12, <1>13, <1>14, <1>15,
           <1>16, <1>17, <1>18, <1>19, Zenon DEF Step

-----------------------------------------------------------------------------
(* The counts.                                                             *)

INSTANCE FiniteSetTheorems

\* The tasks that have a copy open, and that set its count, after a step of t.
LEMMA Roles ==
  ASSUME NEW t \in Tasks, KeepOthers(t), NEW a
  PROVE  /\ \A u \in Tasks \ {t} : /\ u \in Holders(a)' <=> u \in Holders(a)
                                   /\ u \in Counting(a)' <=> u \in Counting(a)
         /\ t \in Holders(a) <=> task[t].pc \in {"held", "sync_read", "sync_write"} /\ task[t].elem = a
         /\ t \in Holders(a)' <=> task'[t].pc \in {"held", "sync_read", "sync_write"} /\ task'[t].elem = a
         /\ t \in Counting(a) <=> task[t].pc = "count" /\ task[t].elem = a
         /\ t \in Counting(a)' <=> task'[t].pc = "count" /\ task'[t].elem = a
         /\ Holders(a) \subseteq Tasks /\ Holders(a)' \subseteq Tasks
         /\ Counting(a) \subseteq Tasks /\ Counting(a)' \subseteq Tasks
BY Zenon DEF Holders, Counting, KeepOthers, At

\* Who holds or counts a copy stays the same when t does neither more nor less.
LEMMA RolesKept ==
  ASSUME NEW t \in Tasks, KeepOthers(t), NEW a,
         t \in Holders(a)' <=> t \in Holders(a), t \in Counting(a)' <=> t \in Counting(a)
  PROVE  Holders(a)' = Holders(a) /\ Counting(a)' = Counting(a)
BY Roles

\* The count stays right when nothing that concerns a changes.
LEMMA CountedKept ==
  ASSUME NEW a, Counted(a), Holders(a)' = Holders(a), Counting(a)' = Counting(a),
         a \in Range(open_inodes') <=> a \in Range(open_inodes),
         copy'[a].i_open_cnts = copy[a].i_open_cnts \/ a \notin Range(open_inodes')
  PROVE  Counted(a)'
<1>1. Holders(a)' # {} => a \in Range(open_inodes')
  BY Zenon DEF Counted
<1>2. Counting(a)' # {} => a \in Range(open_inodes') /\ copy'[a].i_open_cnts = 0 /\ Holders(a)' = {}
  BY Zenon DEF Counted
<1>3. (a \in Range(open_inodes') /\ Counting(a)' = {}) => copy'[a].i_open_cnts = Cardinality(Holders(a)')
  BY Zenon DEF Counted
<1> QED BY <1>1, <1>2, <1>3, Zenon DEF Counted

\* Before a copy is counted one task has it, and its count is 0.
LEMMA NewFrame ==
  ASSUME NewInv, NEW t \in Tasks, KeepOthers(t),
         \A u \in Outside' : \/ task'[u].pc = "free"
                             \/ u = t /\ task[t].pc \notin {"push", "insert"}
                             \/ copy'[task'[u].elem].i_open_cnts = copy[task'[u].elem].i_open_cnts,
         task'[t].pc \in {"push", "insert", "count"} =>
           \/ task[t].pc = "push" /\ task'[t].pc = "insert" /\ task'[t].elem = task[t].elem
           \/ task[t].pc = "insert" /\ task'[t].pc = "count" /\ task'[t].elem = task[t].elem
           \/ /\ task[t].pc \notin {"push", "insert", "count"} /\ task'[t].pc = "push"
              /\ copy'[task'[t].elem].i_open_cnts = 0
              /\ \A u \in Tasks \ {t} :
                   task[u].pc \in {"count", "held", "sync_read", "sync_write"} => task[u].elem # task'[t].elem,
         task'[t].pc \in {"held", "sync_read", "sync_write"} =>
           \/ task[t].pc \in {"held", "sync_read", "sync_write"} /\ task'[t].elem = task[t].elem
           \/ \A u \in Tasks \ {t} : task[u].pc \in {"push", "insert"} => task[u].elem # task'[t].elem,
         task[t].pc = "insert" =>
           \A u \in Tasks \ {t} : task[u].pc \in {"push", "insert"} => task[u].elem # task[t].elem
  PROVE  NewInv'
<1>1. ASSUME NEW u \in Outside' PROVE task'[u].pc = "free" \/ copy'[task'[u].elem].i_open_cnts = 0
  <2>1. CASE u = t
    <3>1. task'[t].pc \in {"push", "insert", "free"}
      BY <2>1, Zenon DEF Outside
    <3>2. CASE task[t].pc = "push" /\ task'[t].pc = "insert" /\ task'[t].elem = task[t].elem
      <4>1. t \in Outside /\ task[t].pc # "free"
        BY <3>2, Zenon DEF Outside
      <4>2. copy[task[t].elem].i_open_cnts = 0
        BY <4>1, Zenon DEF NewInv, At
      <4> QED BY <2>1, <3>2, <4>2, Zenon
    <3> QED BY <2>1, <3>1, <3>2, Zenon
  <2>2. CASE u # t
    <3>1. u \in Outside /\ task'[u].pc = task[u].pc /\ task'[u].elem = task[u].elem
      BY <2>2, Zenon DEF Outside, KeepOthers
    <3>2. task[u].pc = "free" \/ copy[task[u].elem].i_open_cnts = 0
      BY <3>1, Zenon DEF NewInv, At
    <3> QED BY <2>2, <3>1, <3>2, Zenon
  <2> QED BY <2>1, <2>2, Zenon
<1>2. ASSUME NEW u \in Tasks, NEW v \in Tasks, task'[u].pc = "count",
             task'[v].pc \in {"push", "insert", "count"}, task'[u].elem = task'[v].elem
      PROVE  u = v
  <2>1. \A x, y \in Tasks : (/\ task[x].pc = "count" /\ task[y].pc \in {"push", "insert", "count"}
                             /\ task[x].elem = task[y].elem) => x = y
    BY Zenon DEF NewInv, At
  <2>2. \A x \in Tasks \ {t} : task'[x].pc = task[x].pc /\ task'[x].elem = task[x].elem
    BY Zenon DEF KeepOthers
  <2>3. CASE u # t /\ v # t
    BY <1>2, <2>1, <2>2, <2>3, Zenon
  <2>4. CASE u = t /\ v # t
    BY <1>2, <2>1, <2>2, <2>4, ZenonT(30)
  <2>5. CASE u # t /\ v = t
    BY <1>2, <2>1, <2>2, <2>5, ZenonT(30)
  <2> QED BY <2>3, <2>4, <2>5, Zenon
<1>3. ASSUME NEW u \in Tasks, NEW v \in Tasks, task'[u].pc \in {"push", "insert"},
             task'[v].pc \in {"held", "sync_read", "sync_write"}
      PROVE  task'[u].elem # task'[v].elem
  <2>1. \A x, y \in Tasks : task[x].pc \in {"push", "insert"} /\ task[y].pc \in {"held", "sync_read", "sync_write"}
                              => task[x].elem # task[y].elem
    BY Zenon DEF NewInv
  <2>2. \A x \in Tasks \ {t} : task'[x].pc = task[x].pc /\ task'[x].elem = task[x].elem
    BY Zenon DEF KeepOthers
  <2>3. CASE u # t /\ v # t
    BY <1>3, <2>1, <2>2, <2>3, Zenon
  <2>4. CASE u = t /\ v # t
    BY <1>3, <2>1, <2>2, <2>4
  <2>5. CASE u # t /\ v = t
    BY <1>3, <2>1, <2>2, <2>5
  <2>6. CASE u = t /\ v = t
    BY <1>3, <2>6, Zenon
  <2> QED BY <2>3, <2>4, <2>5, <2>6, Zenon
<1> QED BY <1>1, <1>2, <1>3, Zenon DEF NewInv, At

\* No other task inserts the copy t inserts.
LEMMA InsertsAlone ==
  ASSUME BlockInv, NEW t \in Tasks, task[t].pc = "insert", NEW u \in Tasks \ {t}, task[u].pc \in {"push", "insert"}
  PROVE  task[u].elem # task[t].elem
<1>1. t \in Outside /\ u \in Outside
  BY Zenon DEF Outside
<1> QED BY <1>1, Zenon DEF BlockInv

\* The counts stay right in a step that changes none, and after which t has open what it
\* had open before.
LEMMA CountFrame ==
  ASSUME TypeOK, BlockInv, NewInv, CountInv, NEW t \in Tasks, KeepOthers(t), open_inodes' = open_inodes, lost' = lost,
         \A a \in Copies : copy'[a].i_open_cnts = copy[a].i_open_cnts,
         \A a \in Copies : (t \in Holders(a)' <=> t \in Holders(a)) /\ (t \in Counting(a)' <=> t \in Counting(a)),
         task'[t].pc \in {"push", "insert", "count", "free"} =>
           task[t].pc = "push" /\ task'[t].pc = "insert" /\ task'[t].elem = task[t].elem,
         task'[t].pc \in {"held", "sync_read", "sync_write"} =>
           \/ task[t].pc \in {"held", "sync_read", "sync_write"} /\ task'[t].elem = task[t].elem
           \/ task'[t].elem = NONE
  PROVE  NewInv' /\ CountInv'
<1>1. ASSUME NEW a \in Copies \ lost PROVE Counted(a)'
  <2>1. Counted(a)
    BY Zenon DEF CountInv
  <2>2. Holders(a)' = Holders(a) /\ Counting(a)' = Counting(a)
    BY RolesKept, Zenon
  <2> QED BY <2>1, <2>2, CountedKept, Zenon
<1>2. \A u \in Outside' : task'[u].elem \in Copies
  <2>1. ASSUME NEW u \in Tasks, task'[u].pc \in {"push", "insert", "free"} PROVE task'[u].elem \in Copies
    <3>1. CASE u = t
      BY <2>1, <3>1, ElemFacts, Zenon
    <3>2. CASE u # t
      BY <2>1, <3>2, ElemFacts, Zenon DEF KeepOthers
    <3> QED BY <3>1, <3>2, Zenon
  <2> QED BY <2>1, Zenon DEF Outside
<1>3. \A u \in Outside' : copy'[task'[u].elem].i_open_cnts = copy[task'[u].elem].i_open_cnts
  BY <1>2, Zenon
<1>4. task[t].pc = "insert" =>
        \A u \in Tasks \ {t} : task[u].pc \in {"push", "insert"} => task[u].elem # task[t].elem
  BY InsertsAlone, Zenon
<1>5. \A u \in Tasks : task[u].pc \in {"push", "insert"} => task[u].elem # NONE
  BY ElemFacts, ConstantFacts, Zenon
<1>6. NewInv'
  BY <1>3, <1>4, <1>5, NewFrame, Zenon
<1> QED BY <1>1, <1>6, Zenon DEF CountInv

\* The same, for the usual case that t does not come to have anything open.
LEMMA CountFrameFree ==
  ASSUME TypeOK, BlockInv, NewInv, CountInv, NEW t \in Tasks, KeepOthers(t), open_inodes' = open_inodes, lost' = lost,
         copy' = copy,
         task[t].pc \notin {"count", "held", "sync_read", "sync_write"},
         task'[t].pc \notin {"count", "held", "sync_read", "sync_write", "free", "push"},
         task'[t].pc = "insert" => task[t].pc = "push" /\ task'[t].elem = task[t].elem
  PROVE  NewInv' /\ CountInv'
<1>1. ASSUME NEW a \in Copies
      PROVE  (t \in Holders(a)' <=> t \in Holders(a)) /\ (t \in Counting(a)' <=> t \in Counting(a))
  BY Roles, Zenon
<1> QED BY <1>1, CountFrame, Zenon

\* The tasks that have a copy open are finitely many.
LEMMA HoldersFinite ==
  ASSUME NEW a
  PROVE  IsFiniteSet(Holders(a))
<1>1. Holders(a) \subseteq Tasks
  BY Zenon DEF Holders
<1> QED BY <1>1, ConstantFacts, FS_Subset, Zenon

\* i_open_cnts++ with no step of another task in between counts the caller.
LEMMA StoreCounts ==
  ASSUME IInv, NEW t \in Tasks, Store(t)
  PROVE  NewInv' /\ CountInv'
<1>1. TypeOK /\ BlockInv /\ NewInv /\ CountInv
  BY Zenon DEF IInv
<1>2. task[t].pc = "store" /\ open_inodes' = open_inodes
  BY Zenon DEF Store, At
<1>3. copy[task[t].elem] # NONE \/ task[t].elem \in task[t].freed
  BY <1>2, FoundAllocated, Zenon
<1>4. KeepOthers(t) /\ task[t].elem \in Copies
  BY <1>1, <1>3, StoreStep, OthersKept, Zenon
<1>5. CASE task'[t] = Astray /\ copy' = copy /\ lost' = lost
  BY <1>1, <1>2, <1>4, <1>5, CountFrameFree, IdleFacts, Zenon
<1>6. CASE /\ task[t].elem \notin task[t].freed /\ copy[task[t].elem] # NONE
           /\ task'[t].pc = "held" /\ task'[t].elem = task[t].elem
           /\ copy' = [copy EXCEPT ![task[t].elem].i_open_cnts = task[t].n + 1]
           /\ task[t].n + 1 \in Int
           /\ \/ lost' = lost \union {task[t].elem}
              \/ /\ lost' = lost /\ copy[task[t].elem].i_open_cnts = task[t].n
                 /\ task[t].elem \in Range(open_inodes)
                 /\ Counting(task[t].elem) = {}
  <2>1. PICK a \in Copies : a = task[t].elem
    BY <1>4, Zenon
  <2>2. copy'[a].i_open_cnts = task[t].n + 1 /\ \A b \in Copies \ {a} : copy'[b] = copy[b]
    BY <1>1, <1>6, <2>1, CountSet, Zenon
  <2>3. \A u \in Tasks : task[u].pc \in {"push", "insert"} => task[u].elem # a
    <3> SUFFICES ASSUME NEW u \in Tasks, task[u].pc \in {"push", "insert"}, task[u].elem = a PROVE FALSE
      BY Zenon
    <3>1. u \in Outside
      BY Zenon DEF Outside
    <3>2. a \notin Range(open_inodes)
      BY <1>1, <3>1, Zenon DEF BlockInv
    <3>3. Closing(a)
      BY <1>2, <1>6, <2>1, <3>2, Zenon DEF IInv, WalkInv, Knows
    <3>4. PICK v \in Tasks : task[v].pc = "free" /\ task[v].elem = a
      BY <3>3, Zenon DEF Closing, At
    <3>5. v \in Outside /\ v # u
      BY <3>4, Zenon DEF Outside
    <3> QED BY <1>1, <3>1, <3>4, <3>5, Zenon DEF BlockInv
  <2>4. NewInv'
    <3>1. \A u \in Outside' : u # t /\ u \in Tasks /\ u \in Outside /\ task'[u].elem = task[u].elem
                                /\ task'[u].pc = task[u].pc
      BY <1>4, <1>6, Zenon DEF Outside, KeepOthers
    <3>2. ASSUME NEW u \in Outside'
          PROVE  task'[u].pc = "free" \/ copy'[task'[u].elem].i_open_cnts = copy[task'[u].elem].i_open_cnts
      <4>1. u \in Tasks /\ u \in Outside /\ task'[u].elem = task[u].elem /\ task'[u].pc = task[u].pc
        BY <3>1, Zenon
      <4>2. task[u].pc \in {"push", "insert", "free"}
        BY <4>1, Zenon DEF Outside
      <4>3. task[u].pc # "free" => task[u].elem \in Copies \ {a}
        BY <1>1, <2>3, <4>1, <4>2, ElemFacts, Zenon
      <4> QED BY <2>2, <4>1, <4>3, Zenon
    <3> QED BY <1>1, <1>2, <1>4, <1>6, <2>1, <2>3, <3>2, NewFrame, ZenonT(30)
  <2>5. ASSUME NEW b \in Copies \ lost', b # a PROVE Counted(b)'
    <3>1. Counted(b)
      BY <1>1, <1>6, <2>5, Zenon DEF CountInv
    <3>2. Holders(b)' = Holders(b) /\ Counting(b)' = Counting(b)
      BY <1>2, <1>4, <1>6, <2>1, <2>5, Roles, RolesKept, ZenonT(30)
    <3> QED BY <1>2, <2>2, <2>5, <3>1, <3>2, CountedKept, ZenonT(30)
  <2>6. ASSUME a \notin lost' PROVE Counted(a)'
    <3>1. a \notin lost /\ copy[a].i_open_cnts = task[t].n /\ a \in Range(open_inodes) /\ Counting(a) = {}
      BY <1>6, <2>1, <2>6, Zenon
    <3>2. copy[a].i_open_cnts = Cardinality(Holders(a))
      BY <1>1, <3>1, Zenon DEF CountInv, Counted
    <3>3. t \notin Holders(a) /\ t \in Holders(a)' /\ t \notin Counting(a)'
      BY <1>2, <1>4, <1>6, <2>1, Roles, Zenon
    <3>4. Holders(a)' = Holders(a) \union {t} /\ Counting(a)' = {}
      BY <1>4, <3>1, <3>3, Roles
    <3>5. Cardinality(Holders(a)') = task[t].n + 1
      BY <3>1, <3>2, <3>3, <3>4, HoldersFinite, FS_AddElement, ZenonT(60)
    <3> QED BY <1>2, <2>2, <3>1, <3>4, <3>5, ZenonT(30) DEF Counted
  <2> QED BY <2>4, <2>5, <2>6, Zenon DEF CountInv
<1> QED BY <1>1, <1>3, <1>5, <1>6, StoreStep, Zenon

\* i_open_cnts = 1, on a copy nobody has opened since its insertion, counts the caller.
LEMMA SetCountCounts ==
  ASSUME IInv, NEW t \in Tasks, SetCount(t)
  PROVE  NewInv' /\ CountInv'
<1>1. TypeOK /\ BlockInv /\ NewInv /\ CountInv
  BY Zenon DEF IInv
<1>2. open_inodes' = open_inodes
  BY Zenon DEF SetCount
<1>3. KeepOthers(t) /\ task[t].pc = "count" /\ task'[t].pc \in {"astray", "held"}
  BY <1>1, SetCountStep, OthersKept, IdleFacts, Zenon
<1>4. PICK a \in Copies : a = task[t].elem
  BY <1>1, SetCountStep, Zenon
<1>5. \/ copy[a] = NONE /\ copy' = copy /\ lost' = lost /\ task'[t].pc = "astray"
      \/ /\ copy[a] # NONE /\ copy' = [copy EXCEPT ![a].i_open_cnts = 1]
         /\ task'[t].pc = "held" /\ task'[t].elem = a
         /\ lost' = lost \union {a} \/ (lost' = lost /\ Holders(a) = {})
  BY <1>1, <1>4, SetCountStep, IdleFacts, Zenon
<1>6. t \in Counting(a)
  BY <1>3, <1>4, Roles, Zenon
<1>7. \A u \in Tasks : task[u].pc \in {"push", "insert", "count"} => task[u].elem # a \/ u = t
  BY <1>1, <1>3, <1>4, Zenon DEF NewInv, At
<1>8. \A b \in Copies \ {a} : copy'[b] = copy[b]
  BY <1>1, <1>5, CountSet
<1>9. NewInv'
  <2>1. ASSUME NEW u \in Outside'
        PROVE  task'[u].pc = "free" \/ copy'[task'[u].elem].i_open_cnts = copy[task'[u].elem].i_open_cnts
    <3>1. u # t /\ u \in Tasks /\ task[u].pc \in {"push", "insert", "free"}
              /\ task'[u].elem = task[u].elem /\ task'[u].pc = task[u].pc
      BY <1>3, Zenon DEF Outside, KeepOthers
    <3>2. task[u].pc # "free" => task[u].elem \in Copies \ {a}
      BY <1>1, <1>7, <3>1, ElemFacts, Zenon
    <3> QED BY <1>8, <3>1, <3>2, Zenon
  <2> QED BY <1>1, <1>3, <1>5, <1>7, <2>1, NewFrame, Zenon
<1>10. ASSUME NEW b \in Copies \ lost', b # a PROVE Counted(b)'
  <2>1. Counted(b)
    BY <1>1, <1>5, <1>10, Zenon DEF CountInv
  <2>2. Holders(b)' = Holders(b) /\ Counting(b)' = Counting(b)
    BY <1>3, <1>4, <1>5, <1>10, Roles, RolesKept, Zenon
  <2> QED BY <1>2, <1>8, <1>10, <2>1, <2>2, CountedKept, Zenon
<1>11. ASSUME a \notin lost' PROVE Counted(a)'
  <2>1. a \notin lost
    BY <1>5, <1>11, Zenon
  <2>2. a \in Range(open_inodes)
    BY <1>1, <1>6, <2>1, Zenon DEF CountInv, Counted
  <2>3. copy[a] # NONE
    BY <1>1, <2>2, Zenon DEF BlockInv
  <2>4. /\ copy' = [copy EXCEPT ![a].i_open_cnts = 1] /\ task'[t].pc = "held" /\ task'[t].elem = a
        /\ Holders(a) = {}
    BY <1>5, <1>11, <2>3, Zenon
  <2>5. copy'[a].i_open_cnts = 1
    BY <1>1, <2>3, <2>4, CountSet, 1 \in Int, Zenon
  <2>6. Holders(a)' = {t}
    BY <1>3, <2>4, Roles
  <2>7. Counting(a)' = {}
    <3>1. \A u \in Tasks \ {t} : u \notin Counting(a)
      BY <1>7, Zenon DEF Counting, At
    <3> QED BY <1>3, <2>4, <3>1, Roles
  <2>8. Cardinality(Holders(a)') = 1
    BY <2>6, FS_Singleton, Zenon
  <2> QED BY <1>2, <2>2, <2>5, <2>7, <2>8, ZenonT(30) DEF Counted
<1> QED BY <1>9, <1>10, <1>11, Zenon DEF CountInv

\* A block that is not lost and free is counted by nobody: what inode_open reads into it
\* has the count 0.
LEMMA ReadCounts ==
  ASSUME IInv, NEW t \in Tasks, Read(t)
  PROVE  NewInv' /\ CountInv'
<1>1. TypeOK /\ BlockInv /\ NewInv /\ CountInv
  BY Zenon DEF IInv
<1>2. open_inodes' = open_inodes /\ lost' = lost
  BY Zenon DEF Read
<1>3. KeepOthers(t) /\ task[t].pc = "read" /\ task'[t].pc = "push"
  BY <1>1, ReadStep, OthersKept, Zenon
<1>4. PICK a \in Copies : a = task'[t].elem
  BY <1>1, ReadStep, Zenon
<1>5. /\ a \notin lost /\ copy[a] = NONE /\ copy'[a].i_open_cnts = 0
      /\ \A b \in Copies \ {a} : copy'[b] = copy[b]
  BY <1>1, <1>4, ReadStep, Zenon
<1>6. a \notin Range(open_inodes)
  BY <1>1, <1>5, Zenon DEF BlockInv
<1>7. Holders(a) = {} /\ Counting(a) = {}
  BY <1>1, <1>5, <1>6, Zenon DEF CountInv, Counted
<1>8. NewInv'
  <2>1. ASSUME NEW u \in Outside'
        PROVE  u = t \/ copy'[task'[u].elem].i_open_cnts = copy[task'[u].elem].i_open_cnts
    <3>1. u # t => /\ u \in Outside /\ u \in Tasks /\ task'[u].elem = task[u].elem
                   /\ task[u].pc \in {"push", "insert", "free"}
      BY <1>3, Zenon DEF Outside, KeepOthers
    <3>2. u # t => task[u].elem # a
      BY <1>1, <1>5, <3>1, Zenon DEF BlockInv
    <3>3. u # t => task[u].elem \in Copies
      BY <1>1, <3>1, ElemFacts, Zenon
    <3> QED BY <1>5, <3>1, <3>2, <3>3, Zenon
  <2>2. \A u \in Tasks : task[u].pc \in {"count", "held", "sync_read", "sync_write"} => task[u].elem # a
    BY <1>7, Zenon DEF Holders, Counting, At
  <2> QED BY <1>1, <1>3, <1>4, <1>5, <2>1, <2>2, NewFrame, ZenonT(30)
<1>9. ASSUME NEW b \in Copies \ lost' PROVE Counted(b)'
  <2>1. Counted(b)
    BY <1>1, <1>2, <1>9, Zenon DEF CountInv
  <2>2. Holders(b)' = Holders(b) /\ Counting(b)' = Counting(b)
    BY <1>3, Roles, RolesKept, Zenon
  <2> QED BY <1>2, <1>5, <1>6, <2>1, <2>2, CountedKept, Zenon
<1> QED BY <1>8, <1>9, Zenon DEF CountInv

\* A copy that is inserted into the list has the count 0 until its task sets it.
LEMMA InsertCounts ==
  ASSUME IInv, NEW t \in Tasks, Insert(t)
  PROVE  NewInv' /\ CountInv'
<1>1. TypeOK /\ BlockInv /\ NewInv /\ CountInv
  BY Zenon DEF IInv
<1>2. copy' = copy /\ lost' = lost
  BY Zenon DEF Insert
<1>3. KeepOthers(t) /\ task[t].pc = "insert"
  BY <1>1, InsertStep, OthersKept, Zenon
<1>4. PICK a \in Copies : a = task[t].elem
  BY <1>1, <1>3, ElemFacts, Zenon
<1>5. t \in Outside
  BY <1>3, Zenon DEF Outside
<1>6. a \notin Range(open_inodes)
  BY <1>1, <1>4, <1>5, Zenon DEF BlockInv
<1>7. CASE task'[t] = Astray /\ open_inodes' = open_inodes
  BY <1>1, <1>2, <1>3, <1>7, IdleFacts, CountFrameFree, ZenonT(30)
<1>8. CASE /\ task'[t].pc = "count" /\ task'[t].elem = a
           /\ task[t].before \in Range(open_inodes) \union {NONE}
           /\ open_inodes' = InsertBefore(open_inodes, task[t].before, a)
  <2>1. Range(open_inodes') = Range(open_inodes) \union {a}
    <3>1. open_inodes \in Seq(Copies) /\ IsInjective(open_inodes)
      BY <1>1, Zenon DEF TypeOK, BlockInv
    <3> QED BY <1>6, <1>8, <3>1, InsertBeforeFacts, Zenon
  <2>2. copy[a].i_open_cnts = 0
    BY <1>1, <1>3, <1>4, <1>5, Zenon DEF NewInv, At
  <2>3. \A u \in Tasks \ {t} : task[u].pc \in {"push", "insert"} => task[u].elem # a
    BY <1>1, <1>3, <1>4, InsertsAlone, Zenon
  <2>4. NewInv'
    BY <1>1, <1>2, <1>3, <1>4, <1>8, <2>3, NewFrame, ZenonT(30)
  <2>5. ASSUME NEW b \in Copies \ lost', b # a PROVE Counted(b)'
    <3>1. Counted(b)
      BY <1>1, <1>2, <2>5, Zenon DEF CountInv
    <3>2. Holders(b)' = Holders(b) /\ Counting(b)' = Counting(b)
      BY <1>3, <1>8, <2>5, Roles, RolesKept, Zenon
    <3>3. b \in Range(open_inodes') <=> b \in Range(open_inodes)
      BY <2>1, <2>5, Zenon
    <3> QED BY <1>2, <3>1, <3>2, <3>3, CountedKept, Zenon
  <2>6. Counted(a)'
    <3>1. \A u \in Tasks : u \notin Holders(a)
      BY <1>1, <1>3, <1>4, Zenon DEF Holders, NewInv
    <3>2. Holders(a)' = {}
      BY <1>3, <1>8, <3>1, Roles
    <3>3. t \in Counting(a)'
      BY <1>3, <1>8, Roles
    <3>4. a \in Range(open_inodes') /\ copy'[a].i_open_cnts = 0
      BY <1>2, <2>1, <2>2, ZenonT(60)
    <3> QED BY <3>2, <3>3, <3>4, Zenon DEF Counted
  <2> QED BY <2>4, <2>5, <2>6, Zenon DEF CountInv
<1> QED BY <1>1, <1>4, <1>7, <1>8, InsertStep, Zenon

\* The caller of inode_close is one of those the count counts; the last of them takes the
\* copy off the list.
LEMMA CloseCounts ==
  ASSUME IInv, NEW t \in Tasks, Close(t)
  PROVE  NewInv' /\ CountInv'
<1>1. TypeOK /\ BlockInv /\ NewInv /\ CountInv
  BY Zenon DEF IInv
<1>2. lost' = lost
  BY Zenon DEF Close, history
<1>3. KeepOthers(t) /\ task[t].pc = "held"
  BY <1>1, CloseStep, OthersKept, Zenon
<1>4. PICK a \in Copies : a = task[t].elem
  BY <1>1, CloseStep, Zenon
<1>5. t \in Holders(a)
  BY <1>3, <1>4, Roles
<1>6. \A u \in Tasks : task[u].pc \in {"push", "insert"} => task[u].elem # a
  BY <1>1, <1>3, <1>4, Zenon DEF NewInv
<1>7. task'[t].pc \in {"astray", "idle", "free"} /\ \A b \in Copies \ {a} : copy'[b] = copy[b]
  <2>1. CASE copy' = copy
    BY <1>1, <1>4, <2>1, CloseStep, IdleFacts, Zenon
  <2>2. CASE /\ copy[a] # NONE /\ copy[a].i_open_cnts - 1 \in Int
             /\ copy' = [copy EXCEPT ![a].i_open_cnts = copy[a].i_open_cnts - 1]
    <3>1. \A b \in Copies \ {a} : copy'[b] = copy[b]
      BY <1>1, <2>2, CountSet, Zenon
    <3> QED BY <1>1, <1>4, <3>1, CloseStep, IdleFacts, Zenon
  <2> QED BY <1>1, <1>4, <2>1, <2>2, CloseStep, Zenon
<1>8. NewInv'
  <2>1. ASSUME NEW u \in Outside'
        PROVE  task'[u].pc = "free" \/ copy'[task'[u].elem].i_open_cnts = copy[task'[u].elem].i_open_cnts
    <3>1. CASE u = t
      BY <1>7, <2>1, <3>1, Zenon DEF Outside
    <3>2. CASE u # t
      <4>1. /\ u \in Tasks /\ task'[u].elem = task[u].elem /\ task'[u].pc = task[u].pc
            /\ task[u].pc \in {"push", "insert", "free"}
        BY <1>3, <3>2, Zenon DEF Outside, KeepOthers
      <4>2. task[u].pc # "free" => task[u].elem \in Copies \ {a}
        BY <1>1, <1>6, <4>1, ElemFacts, Zenon
      <4> QED BY <1>7, <4>1, <4>2, Zenon
    <3> QED BY <3>1, <3>2, Zenon
  <2> QED BY <1>1, <1>3, <1>7, <2>1, NewFrame, Zenon
<1>9. \A b : b # a => (b \in Range(open_inodes') <=> b \in Range(open_inodes))
  <2>1. CASE open_inodes' = open_inodes
    BY <2>1, Zenon
  <2>2. CASE open_inodes' = Removed(open_inodes, a) /\ a \in Range(open_inodes)
    <3>1. open_inodes \in Seq(Copies) /\ IsInjective(open_inodes)
      BY <1>1, Zenon DEF TypeOK, BlockInv
    <3>2. Range(open_inodes') = Range(open_inodes) \ {a}
      BY <2>2, <3>1, RemovedFacts, Zenon
    <3> QED BY <3>2, Zenon
  <2> QED BY <1>1, <1>4, <2>1, <2>2, CloseStep, Zenon
<1>10. ASSUME NEW b \in Copies \ lost', b # a PROVE Counted(b)'
  <2>1. Counted(b)
    BY <1>1, <1>2, <1>10, Zenon DEF CountInv
  <2>2. t \notin Holders(b) /\ t \notin Holders(b)' /\ t \notin Counting(b) /\ t \notin Counting(b)'
    BY <1>3, <1>4, <1>7, <1>10, Roles, Zenon
  <2>3. Holders(b)' = Holders(b) /\ Counting(b)' = Counting(b)
    BY <1>3, <2>2, RolesKept, Zenon
  <2>4. copy'[b] = copy[b] /\ (b \in Range(open_inodes') <=> b \in Range(open_inodes))
    BY <1>7, <1>9, <1>10, Zenon
  <2> QED BY <2>1, <2>3, <2>4, CountedKept, Zenon
<1>11. ASSUME a \notin lost' PROVE Counted(a)'
  <2>1. Counted(a)
    BY <1>1, <1>2, <1>11, Zenon DEF CountInv
  <2>2. a \in Range(open_inodes) /\ Counting(a) = {} /\ copy[a].i_open_cnts = Cardinality(Holders(a))
    BY <1>5, <2>1, Zenon DEF Counted
  <2>3. copy[a] # NONE
    BY <1>1, <2>2, Zenon DEF BlockInv
  <2>4. /\ copy[a].i_open_cnts - 1 \in Int
        /\ copy' = [copy EXCEPT ![a].i_open_cnts = copy[a].i_open_cnts - 1]
        /\ \/ copy[a].i_open_cnts = 1 /\ open_inodes' = Removed(open_inodes, a)
           \/ copy[a].i_open_cnts # 1 /\ open_inodes' = open_inodes
    BY <1>1, <1>4, <2>2, <2>3, CloseStep, Zenon
  <2>5. copy'[a].i_open_cnts = copy[a].i_open_cnts - 1
    BY <1>1, <2>3, <2>4, CountSet, Zenon
  <2>6. t \notin Holders(a)' /\ t \notin Counting(a)'
    BY <1>3, <1>7, Roles, Zenon
  <2>7. Holders(a)' = Holders(a) \ {t} /\ Counting(a)' = {}
    BY <1>3, <2>2, <2>6, Roles
  <2>8. /\ IsFiniteSet(Holders(a)) /\ Cardinality(Holders(a)) \in Nat
        /\ Cardinality(Holders(a)') = Cardinality(Holders(a)) - 1 /\ IsFiniteSet(Holders(a)')
    BY <1>5, <2>7, HoldersFinite, FS_RemoveElement, FS_CardinalityType
  <2>9. CASE copy[a].i_open_cnts # 1 /\ open_inodes' = open_inodes
    <3>1. copy'[a].i_open_cnts = Cardinality(Holders(a)')
      BY <2>2, <2>5, <2>8, Zenon
    <3> QED BY <2>2, <2>7, <2>9, <3>1, Zenon DEF Counted
  <2>10. CASE copy[a].i_open_cnts = 1 /\ open_inodes' = Removed(open_inodes, a)
    <3>1. Cardinality(Holders(a)') = 0
      BY <2>2, <2>8, <2>10
    <3>2. Holders(a)' = {}
      BY <2>8, <3>1, FS_EmptySet, Zenon
    <3>3. open_inodes \in Seq(Copies) /\ IsInjective(open_inodes)
      BY <1>1, Zenon DEF TypeOK, BlockInv
    <3>4. a \notin Range(open_inodes')
      BY <2>2, <2>10, <3>3, RemovedFacts, ZenonT(30)
    <3> QED BY <2>7, <3>2, <3>4, Zenon DEF Counted
  <2> QED BY <2>4, <2>9, <2>10, Zenon
<1> QED BY <1>8, <1>10, <1>11, Zenon DEF CountInv

\* Nobody has open what sys_free frees.
LEMMA FreeCounts ==
  ASSUME IInv, NEW t \in Tasks, Free(t)
  PROVE  NewInv' /\ CountInv'
<1>1. TypeOK /\ BlockInv /\ NewInv /\ CountInv
  BY Zenon DEF IInv
<1>2. lost' = lost /\ open_inodes' = open_inodes
  BY Zenon DEF Free, history
<1>3. task[t].pc = "free" /\ task'[t].pc = "idle"
  BY <1>1, FreeStep, IdleFacts, Zenon
<1>4. KeepOthers(t)
  BY <1>1, FreeStep, Zenon DEF KeepOthers
<1>5. PICK a \in Copies : a = task[t].elem
  BY <1>1, FreeStep, Zenon
<1>6. \A b \in Copies \ {a} : copy'[b] = copy[b]
  BY <1>1, <1>5, FreeStep, Zenon
<1>7. t \in Outside
  BY <1>3, Zenon DEF Outside
<1>8. a \notin Range(open_inodes)
  BY <1>1, <1>5, <1>7, Zenon DEF BlockInv
<1>9. NewInv'
  <2>1. ASSUME NEW u \in Outside'
        PROVE  copy'[task'[u].elem].i_open_cnts = copy[task'[u].elem].i_open_cnts
    <3>1. u # t /\ u \in Tasks /\ u \in Outside /\ task'[u].elem = task[u].elem
            /\ task[u].pc \in {"push", "insert", "free"}
      BY <1>3, <1>4, Zenon DEF Outside, KeepOthers
    <3>2. task[u].elem # a
      BY <1>1, <1>5, <1>7, <3>1, Zenon DEF BlockInv
    <3>3. task[u].elem \in Copies
      BY <1>1, <3>1, ElemFacts, Zenon
    <3> QED BY <1>6, <3>1, <3>2, <3>3, Zenon
  <2> QED BY <1>1, <1>3, <1>4, <2>1, NewFrame, Zenon
<1>10. ASSUME NEW b \in Copies \ lost' PROVE Counted(b)'
  <2>1. Counted(b)
    BY <1>1, <1>2, <1>10, Zenon DEF CountInv
  <2>2. Holders(b)' = Holders(b) /\ Counting(b)' = Counting(b)
    BY <1>3, <1>4, Roles, RolesKept, Zenon
  <2>3. copy'[b] = copy[b] \/ b \notin Range(open_inodes')
    BY <1>2, <1>6, <1>8, <1>10, Zenon
  <2> QED BY <1>2, <2>1, <2>2, <2>3, CountedKept, Zenon
<1> QED BY <1>9, <1>10, Zenon DEF CountInv

\* Every step keeps the counts right.
LEMMA CountPreserved ==
  ASSUME IInv, NEW t \in Tasks, Step(t)
  PROVE  NewInv' /\ CountInv'
<1>1. TypeOK /\ BlockInv /\ NewInv /\ CountInv
  BY Zenon DEF IInv
<1>2. NONE \notin Copies
  BY ConstantFacts, Zenon
<1>3. ASSUME NEW i \in Inodes, Open(t, i) PROVE NewInv' /\ CountInv'
  BY <1>1, <1>3, OpenStep, OthersKept, CountFrameFree, Zenon DEF Open, memory, history
<1>4. CASE Walk(t)
  BY <1>1, <1>4, WalkStep, OthersKept, CountFrameFree, IdleFacts, ZenonT(30) DEF Walk, memory, history
<1>5. CASE Load(t)
  <2>1. task[t].pc = "found"
    BY <1>5, Zenon DEF Load, At
  <2> QED BY <1>1, <1>5, <2>1, FoundAllocated, LoadStep, OthersKept, CountFrameFree, IdleFacts, ZenonT(30) DEF Load, memory, history
<1>6. CASE Store(t)
  BY <1>6, StoreCounts, Zenon
<1>7. CASE Miss(t)
  BY <1>1, <1>7, MissStep, OthersKept, CountFrameFree, ZenonT(30) DEF Miss, memory, history
<1>8. CASE Read(t)
  BY <1>8, ReadCounts, Zenon
<1>9. CASE Push(t)
  BY <1>1, <1>9, PushStep, OthersKept, CountFrameFree, ZenonT(30) DEF Push, memory, history
<1>10. CASE Insert(t)
  BY <1>10, InsertCounts, Zenon
<1>11. CASE SetCount(t)
  BY <1>11, SetCountCounts, Zenon
<1>12. CASE Close(t)
  BY <1>12, CloseCounts, Zenon
<1>13. CASE Free(t)
  BY <1>13, FreeCounts, Zenon
<1>14. CASE Change(t)
  <2>1. KeepOthers(t) /\ task'[t] = task[t] /\ task[t].pc = "held"
    BY <1>14, Zenon DEF Change, KeepOthers, At
  <2>2. open_inodes' = open_inodes /\ lost' = lost
    BY <1>14, Zenon DEF Change, history
  <2>3. \A a \in Copies : copy'[a].i_open_cnts = copy[a].i_open_cnts
    BY <1>1, <1>14, ChangeStep, Zenon
  <2>4. ASSUME NEW a \in Copies
        PROVE  (t \in Holders(a)' <=> t \in Holders(a)) /\ (t \in Counting(a)' <=> t \in Counting(a))
    BY <2>1, Roles, Zenon
  <2> QED BY <1>1, <2>1, <2>2, <2>3, <2>4, CountFrame, ZenonT(30)
<1>15. CASE SyncOpen(t)
  <2>1. /\ KeepOthers(t) /\ task[t].pc = "held" /\ task'[t].pc = "sync_read" /\ task'[t].elem = task[t].elem
        /\ open_inodes' = open_inodes /\ lost' = lost /\ copy' = copy
    BY <1>1, <1>15, SyncOpenStep, OthersKept, Zenon DEF SyncOpen, memory, history
  <2>2. ASSUME NEW a \in Copies
        PROVE  (t \in Holders(a)' <=> t \in Holders(a)) /\ (t \in Counting(a)' <=> t \in Counting(a))
    BY <2>1, Roles, Zenon
  <2> QED BY <1>1, <2>1, <2>2, CountFrame, Zenon
<1>16. ASSUME NEW i \in Inodes, SyncNew(t, i) PROVE NewInv' /\ CountInv'
  <2>1. /\ KeepOthers(t) /\ task[t].pc = "idle" /\ task'[t].pc = "sync_read" /\ task'[t].elem = NONE
        /\ open_inodes' = open_inodes /\ lost' = lost /\ copy' = copy
    BY <1>1, <1>16, SyncNewStep, OthersKept, Zenon DEF SyncNew, memory, history
  <2>2. ASSUME NEW a \in Copies
        PROVE  (t \in Holders(a)' <=> t \in Holders(a)) /\ (t \in Counting(a)' <=> t \in Counting(a))
    BY <1>2, <2>1, Roles, Zenon
  <2> QED BY <1>1, <2>1, <2>2, CountFrame, Zenon
<1>17. CASE SyncRead(t)
  <2>1. /\ KeepOthers(t) /\ task[t].pc = "sync_read" /\ task'[t].pc = "sync_write" /\ task'[t].elem = task[t].elem
        /\ open_inodes' = open_inodes /\ lost' = lost /\ copy' = copy
    BY <1>1, <1>17, SyncReadStep, OthersKept, Zenon DEF SyncRead, memory, history
  <2>2. ASSUME NEW a \in Copies
        PROVE  (t \in Holders(a)' <=> t \in Holders(a)) /\ (t \in Counting(a)' <=> t \in Counting(a))
    BY <2>1, Roles, Zenon
  <2> QED BY <1>1, <2>1, <2>2, CountFrame, Zenon
<1>18. CASE SyncWrite(t)
  <2>1. /\ KeepOthers(t) /\ task[t].pc = "sync_write"
        /\ \/ task'[t].pc = "idle" /\ task[t].elem = NONE
           \/ task'[t].pc = "held" /\ task'[t].elem = task[t].elem
    BY <1>1, <1>18, SyncWriteStep, IdleFacts, Zenon DEF KeepOthers
  <2>2. open_inodes' = open_inodes /\ lost' = lost /\ copy' = copy
    BY <1>18, Zenon DEF SyncWrite, memory
  <2>3. ASSUME NEW a \in Copies
        PROVE  (t \in Holders(a)' <=> t \in Holders(a)) /\ (t \in Counting(a)' <=> t \in Counting(a))
    BY <1>2, <2>1, Roles, Zenon
  <2> QED BY <1>1, <2>1, <2>2, <2>3, CountFrame, Zenon
<1> QED BY <1>3, <1>4, <1>5, <1>6, <1>7, <1>8, <1>9, <1>10, <1>11, <1>12, <1>13, <1>14, <1>15,
           <1>16, <1>17, <1>18, ZenonT(30) DEF Step

-----------------------------------------------------------------------------
(* The theorems.                                                           *)

\* At boot no inode is open, and the table has what mkfs has written.
LEMMA InitInvariant ==
  ASSUME Init
  PROVE  IInv
<1>1. /\ open_inodes = <<>> /\ copy = [a \in Copies |-> NONE] /\ after = [a \in Copies |-> NONE]
      /\ task = [t \in Tasks |-> Idle] /\ changes = 0 /\ lost = {} /\ twice = {} /\ misread = {}
      /\ saved = [i \in Existing |-> 0] /\ overwritten = {}
  BY Zenon DEF Init
<1>2. /\ DOMAIN table = UNION {CellsOf(i) : i \in Inodes}
      /\ \A c \in UNION {CellsOf(i) : i \in Inodes} : table[c] =
           Record(IF c \div InodeCells \in Existing THEN c \div InodeCells ELSE 0, 0)
      /\ table = [c \in UNION {CellsOf(i) : i \in Inodes} |-> table[c]]
  BY Zenon DEF Init
<1>3. \A t \in Tasks : task[t] = Idle /\ task[t].pc = "idle"
  BY <1>1, IdleFacts, Zenon
<1>4. Range(open_inodes) = {} /\ open_inodes \in Seq(Copies) /\ IsInjective(open_inodes)
  BY <1>1 DEF Range, IsInjective
<1>5. TypeOK
  <2>1. \A c \in UNION {CellsOf(i) : i \in Inodes} : table[c] \in DiskRecord
    <3>1. \A i \in Inodes : Record(i, 0) \in DiskRecord
      BY Zenon DEF Record, DiskRecord
    <3>2. 0 \in Inodes /\ Existing \subseteq Inodes
      BY ConstantFacts, Zenon
    <3>3. ASSUME NEW c \in UNION {CellsOf(i) : i \in Inodes} PROVE table[c] \in DiskRecord
      <4>1. PICK i \in Inodes : table[c] = Record(i, 0)
        <5>1. CASE c \div InodeCells \in Existing
          BY <1>2, <3>2, <3>3, <5>1, Zenon
        <5>2. CASE c \div InodeCells \notin Existing
          BY <1>2, <3>2, <3>3, <5>2, Zenon
        <5> QED BY <5>1, <5>2, Zenon
      <4> QED BY <3>1, <4>1, Zenon
    <3> QED BY <3>3, Zenon
  <2>2. table \in [UNION {CellsOf(i) : i \in Inodes} -> DiskRecord]
    BY <1>2, <2>1, Zenon
  <2>3. TaskType
    BY <1>1, <1>3, Zenon DEF TaskType
  <2>4. DOMAIN saved \subseteq Inodes /\ saved \in [DOMAIN saved -> Nat]
    BY <1>1, ConstantFacts, Zenon
  <2>5. copy \in [Copies -> CopyRecord \union {NONE}] /\ after \in [Copies -> Copies \union {NONE}]
    BY <1>1, Zenon
  <2> QED BY <1>1, <1>4, <2>2, <2>3, <2>4, <2>5, ZenonT(60) DEF TypeOK
<1>6. BlockInv /\ NewInv
  BY <1>3, <1>4, Zenon DEF BlockInv, NewInv, Outside, At
<1>7. CountInv
  <2>1. \A a : Holders(a) = {} /\ Counting(a) = {}
    BY <1>3, Zenon DEF Holders, Counting, At
  <2> QED BY <1>4, <2>1, Zenon DEF CountInv, Counted
<1>8. WalkInv
  BY <1>3, Zenon DEF WalkInv, Knows, At
<1>9. OneCopy
  BY <1>1, <1>4, Zenon DEF OneCopy
<1>10. SyncInv
  BY <1>3, Zenon DEF SyncInv, At
<1>11. SyncKept
  <2> SUFFICES ASSUME NEW i \in DOMAIN saved \ overwritten, NEW c \in CellsOf(i)
               PROVE  table[c] = Record(i, saved[i])
    BY Zenon DEF SyncKept
  <2>1. i \in Existing /\ i \in Inodes /\ i \in Nat /\ saved[i] = 0
    BY <1>1, ConstantFacts, Zenon
  <2>2. c \div InodeCells = i
    BY <2>1, CellOwner, Zenon
  <2>3. c \in UNION {CellsOf(j) : j \in Inodes}
    BY <2>1, Zenon
  <2> QED BY <1>2, <2>1, <2>2, <2>3, ZenonT(30)
<1> QED BY <1>5, <1>6, <1>7, <1>8, <1>9, <1>10, <1>11, ZenonT(30) DEF IInv

\* Every step preserves the inductive invariant.
LEMMA NextInvariant ==
  ASSUME IInv, [Next]_vars
  PROVE  IInv'
<1>1. CASE UNCHANGED vars
  <2>1. /\ open_inodes' = open_inodes /\ copy' = copy /\ after' = after /\ table' = table
        /\ task' = task /\ changes' = changes /\ saved' = saved /\ lost' = lost /\ twice' = twice
        /\ misread' = misread /\ overwritten' = overwritten
    BY <1>1, Zenon DEF vars, memory, history
  <2>2. TypeOK'
    BY <2>1, Zenon DEF IInv, TypeOK, TaskType
  <2>3. BlockInv' /\ NewInv'
    BY <2>1, Zenon DEF IInv, BlockInv, NewInv, Outside, At
  <2>4. CountInv'
    <3>1. ASSUME NEW a \in Copies \ lost PROVE Counted(a)'
      <4>1. Holders(a)' = Holders(a) /\ Counting(a)' = Counting(a)
        BY <2>1, Zenon DEF Holders, Counting, At
      <4>2. Counted(a)
        BY Zenon DEF IInv, CountInv
      <4> QED BY <2>1, <4>1, <4>2, CountedKept, Zenon
    <3> QED BY <2>1, <3>1, Zenon DEF CountInv
  <2>5. WalkInv'
    <3>1. ASSUME NEW t \in Tasks PROVE Knows(t)'
      <4>1. Knows(t)
        BY Zenon DEF IInv, WalkInv
      <4>2. ListKept /\ \A x : Closing(x) => Closing(x)'
        BY <2>1, Zenon DEF ListKept, Closing, At
      <4>3. \A S : Path(t, S) => Path(t, S)'
        BY <2>1, <4>2, PathKept, Zenon
      <4>4. Copy(task[t].no)' = Copy(task[t].no)
        BY <2>1, Zenon DEF Copy
      <4>5. Closing(task[t].elem) => Closing(task[t].elem)'
        BY <2>1, Zenon DEF Closing, At
      <4> QED BY <2>1, <4>1, <4>3, <4>4, <4>5, ZenonT(30) DEF Knows, At
    <3> QED BY <3>1, Zenon DEF WalkInv
  <2>6. OneCopy' /\ SyncInv' /\ SyncKept'
    BY <2>1, ZenonT(30) DEF IInv, OneCopy, SyncInv, SyncKept, CellsIn, At
  <2> QED BY <2>2, <2>3, <2>4, <2>5, <2>6, ZenonT(30) DEF IInv
<1>2. ASSUME NEW t \in Tasks, Step(t) PROVE IInv'
  BY <1>2, TypePreserved, BlockPreserved, CountPreserved, WalkPreserved, SyncPreserved, Zenon DEF IInv
<1> QED BY <1>1, <1>2, Zenon DEF Next

\* The inductive invariant holds in every reachable state, whatever the number of tasks,
\* inodes and blocks and the sizes of an inode and of a sector.
THEOREM Invariance == Spec => []IInv
<1>1. Init => IInv
  BY InitInvariant, Zenon
<1>2. IInv /\ [Next]_vars => IInv'
  BY NextInvariant, Zenon
<1> QED BY <1>1, <1>2, PTL DEF Spec

\* A task that walks over open_inodes stands on a copy in the list, or on one that is being
\* closed, unless the copy was freed under it.
THEOREM WalksOnList == Spec => []WalkOnList
<1>1. ASSUME IInv PROVE WalkOnList
  <2> SUFFICES ASSUME NEW t \in Tasks, At(t, "walk"), task[t].elem \notin task[t].freed \union {NONE}
               PROVE  \/ task[t].elem \in Range(open_inodes) /\ copy[task[t].elem] # NONE
                      \/ \E u \in Tasks : At(u, "free") /\ task[u].elem = task[t].elem
    BY Zenon DEF WalkOnList
  <2>1. PICK S \in SUBSET (Copies \union {NONE}) : Path(t, S)
    BY <1>1, Zenon DEF IInv, WalkInv, Knows
  <2>2. task[t].elem \in Range(open_inodes) \/ Closing(task[t].elem)
    BY <2>1, Zenon DEF Path
  <2> QED BY <1>1, <2>2, Zenon DEF IInv, BlockInv, Closing
<1> QED BY <1>1, Invariance, PTL

\* No inode is in the list twice, unless two tasks were in inode_open for it or a copy was
\* read from an overwritten place.
THEOREM ListedOnce == Spec => []OneCopy
<1>1. IInv => OneCopy
  BY Zenon DEF IInv
<1> QED BY <1>1, Invariance, PTL

\* i_open_cnts of a copy is the number of its holders, unless an update of it was lost.
THEOREM CountsHolders == Spec => []CountIsHolders
<1>1. ASSUME IInv PROVE CountIsHolders
  <2> SUFFICES ASSUME NEW a \in Copies \ lost
               PROVE  /\ Holders(a) # {} => a \in Range(open_inodes)
                      /\ (a \in Range(open_inodes) /\ \A t \in Tasks : ~(At(t, "count") /\ task[t].elem = a)) =>
                           copy[a].i_open_cnts = Cardinality(Holders(a))
    BY Zenon DEF CountIsHolders
  <2>1. Counted(a)
    BY <1>1, Zenon DEF IInv, CountInv
  <2>2. (\A t \in Tasks : ~(At(t, "count") /\ task[t].elem = a)) => Counting(a) = {}
    BY Zenon DEF Counting
  <2> QED BY <2>1, <2>2, Zenon DEF Counted
<1> QED BY <1>1, Invariance, PTL

\* The inode table has what the last inode_sync of each inode was given, unless a sync that
\* overlapped with another one of the same sectors has put back what it had read.
THEOREM SyncsKept == Spec => []SyncKept
<1>1. IInv => SyncKept
  BY Zenon DEF IInv
<1> QED BY <1>1, Invariance, PTL
=============================================================================
