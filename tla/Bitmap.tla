------------------------------- MODULE Bitmap -------------------------------
(***************************************************************************)
(* Bitmaps (lib/kernel/bitmap.c).  A bitmap of n bits is a function b on   *)
(* 0..n: b[i] says whether bit i is set, and b[n] is the bit that follows  *)
(* the bitmap in memory, which belongs to something else.  Bytes only make *)
(* the search faster and are left out.                                     *)
(***************************************************************************)
EXTENDS Integers, FiniteSetsExt

\* The bitmap's own bits that are clear.
FreeBits(b, n) == {i \in 0..(n - 1) : ~b[i]}

\* bitmap_init, with "after" in the memory behind the bitmap.
bitmap_init(n, after) == [i \in 0..n |-> IF i = n THEN after ELSE FALSE]

\* The ASSERT at the end of the search for a byte that is not 0xff.
ScanAsserts(b, n) == FreeBits(b, n) # {}

\* The loop of bitmap_scan: "count" after it has tested bit i.
RunLength(b, n, first) ==
  LET count[i \in first..n] == IF i = first THEN 1
                               ELSE IF b[i] THEN 0
                               ELSE count[i - 1] + 1
  IN  count

\* Mutant: bit_left does not count the last bit.
Hits_stops_early(b, n, cnt) ==
  LET first == Min(FreeBits(b, n))
  IN  {i \in (first + 1)..(n - 2) : RunLength(b, n, first)[i] = cnt}

\* Where the loop stops with cnt clear bits, or none: bit_left is n - first, so
\* that the last bit it tests is n.
Hits(b, n, cnt) ==
  LET first == Min(FreeBits(b, n))
  IN  {i \in (first + 1)..n : RunLength(b, n, first)[i] = cnt}

bitmap_scan(b, n, cnt) ==
  IF cnt = 1 THEN Min(FreeBits(b, n))
  ELSE IF Hits(b, n, cnt) = {} THEN -1
  ELSE Min(Hits(b, n, cnt)) - cnt + 1

\* bitmap_set of cnt bits from "start" on.
SetRun(b, start, cnt, value) ==
  [i \in DOMAIN b |-> IF i \in start..(start + cnt - 1) THEN value ELSE b[i]]

-----------------------------------------------------------------------------
(* The reference: the first run of cnt clear bits inside the bitmap.       *)

Fits(b, n, cnt) ==
  {s \in 0..(n - cnt) : \A i \in s..(s + cnt - 1) : ~b[i]}

FirstFit(b, n, cnt) == IF Fits(b, n, cnt) = {} THEN -1 ELSE Min(Fits(b, n, cnt))

\* bitmap_scan returns the first run of clear bits, if there is one.  If only some bits
\* are clear it returns -1 or, since the loop looks one bit too far, a run that ends
\* with the bit behind the bitmap.
ScanFits(b, n, cnt) ==
  ScanAsserts(b, n) =>
    bitmap_scan(b, n, cnt) = IF Fits(b, n, cnt) # {} THEN FirstFit(b, n, cnt)
                             ELSE IF Fits(b, n + 1, cnt) # {} THEN n + 1 - cnt
                             ELSE -1
=============================================================================
