---------------------------- MODULE IoqueueProofs ----------------------------
(***************************************************************************)
(* The character queue of ioqueue.c is a first-in first-out queue, fails   *)
(* none of its assertions, and its single consumer sleeps only while it is *)
(* empty, for any number of threads and any size of the ring.              *)
(***************************************************************************)
EXTENDS Ioqueue, ThreadProofs

-----------------------------------------------------------------------------
(* The ring is a queue.                                                    *)

\* How many characters are in the ring.
Length == (BUFFSIZE + head - tail) % BUFFSIZE

\* The slot of the i-th character.
Slot(i) == (tail + i - 1) % BUFFSIZE

\* "% BUFFSIZE" of an index that has left the ring at most once.
LEMMA Wrap ==
  ASSUME NEW x \in 0..(2 * BUFFSIZE - 1)
  PROVE  x % BUFFSIZE = IF x < BUFFSIZE THEN x ELSE x - BUFFSIZE
<1>1. BUFFSIZE \in Nat /\ BUFFSIZE > 1
  BY IoqueueAssumption
<1>2. CASE x < BUFFSIZE
  BY <1>1, <1>2
<1>3. CASE x >= BUFFSIZE
  <2> DEFINE y == x - BUFFSIZE
  <2>1. y \in 0..(BUFFSIZE - 1) /\ x = y + BUFFSIZE
    BY <1>1, <1>3
  <2> QED BY <1>1, <2>1
<1> QED BY <1>1, <1>2, <1>3

\* next_pos steps through the ring.
LEMMA NextPos ==
  ASSUME NEW p \in 0..(BUFFSIZE - 1)
  PROVE  /\ next_pos(p) \in 0..(BUFFSIZE - 1)
         /\ next_pos(p) = IF p = BUFFSIZE - 1 THEN 0 ELSE p + 1
<1>1. BUFFSIZE \in Nat /\ BUFFSIZE > 1
  BY IoqueueAssumption
<1>2. p + 1 \in 0..(2 * BUFFSIZE - 1)
  BY <1>1
<1> QED BY <1>1, <1>2, Wrap DEF next_pos

\* Where head and tail stand tells how long the queue is; full and empty differ.
LEMMA LengthFacts ==
  ASSUME RingOK
  PROVE  /\ Length = IF head >= tail THEN head - tail ELSE BUFFSIZE + head - tail
         /\ Length \in 0..(BUFFSIZE - 1)
         /\ ioq_empty <=> Length = 0
         /\ ioq_full <=> Length = BUFFSIZE - 1
<1>1. /\ BUFFSIZE \in Nat /\ BUFFSIZE > 1
      /\ head \in 0..(BUFFSIZE - 1) /\ tail \in 0..(BUFFSIZE - 1)
  BY IoqueueAssumption DEF RingOK
<1>2. BUFFSIZE + head - tail \in 0..(2 * BUFFSIZE - 1)
  BY <1>1
<1>3. Length = IF head >= tail THEN head - tail ELSE BUFFSIZE + head - tail
  BY <1>1, <1>2, Wrap DEF Length
<1>4. next_pos(head) = IF head = BUFFSIZE - 1 THEN 0 ELSE head + 1
  BY <1>1, NextPos, Zenon
<1> QED BY <1>1, <1>3, <1>4 DEF ioq_empty, ioq_full

\* The characters lie in consecutive slots from tail on, and head is the slot after them.
LEMMA SlotFacts ==
  ASSUME RingOK, NEW i \in 1..BUFFSIZE
  PROVE  /\ Slot(i) = IF tail + i - 1 < BUFFSIZE THEN tail + i - 1 ELSE tail + i - 1 - BUFFSIZE
         /\ Slot(i) \in 0..(BUFFSIZE - 1)
         /\ Slot(i) = head <=> i = Length + 1
<1>1. /\ BUFFSIZE \in Nat /\ BUFFSIZE > 1
      /\ head \in 0..(BUFFSIZE - 1) /\ tail \in 0..(BUFFSIZE - 1)
  BY IoqueueAssumption DEF RingOK
<1>2. tail + i - 1 \in 0..(2 * BUFFSIZE - 1)
  BY <1>1
<1>3. Slot(i) = IF tail + i - 1 < BUFFSIZE THEN tail + i - 1 ELSE tail + i - 1 - BUFFSIZE
  BY <1>1, <1>2, Wrap DEF Slot
<1>4. Slot(i) \in 0..(BUFFSIZE - 1)
  BY <1>1, <1>3
<1>5. Length = IF head >= tail THEN head - tail ELSE BUFFSIZE + head - tail
  BY LengthFacts, Zenon
<1> QED BY <1>1, <1>3, <1>4, <1>5

\* What the ring holds, as a sequence.
LEMMA ContentFacts ==
  ASSUME RingOK
  PROVE  /\ Content \in Seq(Chars) /\ Len(Content) = Length
         /\ \A i \in 1..Length : Content[i] = buf[Slot(i)]
<1>1. /\ BUFFSIZE \in Nat /\ Length \in 0..(BUFFSIZE - 1)
      /\ buf \in [0..(BUFFSIZE - 1) -> Chars]
  BY IoqueueAssumption, LengthFacts, Zenon DEF RingOK
<1>2. Content = [i \in 1..Length |-> buf[Slot(i)]]
  BY Zenon DEF Content, Length, Slot
<1>3. \A i \in 1..Length : i \in 1..BUFFSIZE
  BY <1>1
<1>4. \A i \in 1..Length : buf[Slot(i)] \in Chars
  BY <1>1, <1>3, SlotFacts, Zenon
<1> HIDE DEF Length, Slot
<1>5. [i \in 1..Length |-> buf[Slot(i)]] \in [1..Length -> Chars]
  BY <1>4, Zenon
<1>6. Content \in Seq(Chars) /\ Len(Content) = Length
  BY <1>1, <1>2, <1>5
<1> QED BY <1>2, <1>6, Zenon

\* Storing at head appends to the queue.
LEMMA StoreIsPut ==
  ASSUME RingOK, NEW c \in Chars, ~ioq_full, Store(c)
  PROVE  RingOK' /\ Q!Put(c)
<1> DEFINE n == Length
<1>1. /\ BUFFSIZE \in Nat /\ BUFFSIZE > 1 /\ buf \in [0..(BUFFSIZE - 1) -> Chars]
      /\ head \in 0..(BUFFSIZE - 1) /\ tail \in 0..(BUFFSIZE - 1)
      /\ byte \in Chars /\ sent \in Chars
  BY IoqueueAssumption DEF RingOK
<1>2. /\ n \in 0..(BUFFSIZE - 1) /\ n # BUFFSIZE - 1
      /\ n = IF head >= tail THEN head - tail ELSE BUFFSIZE + head - tail
  BY LengthFacts, Zenon
<1>3. /\ buf' = [buf EXCEPT ![head] = c] /\ head' = next_pos(head) /\ sent' = c
      /\ tail' = tail /\ byte' = byte
  BY Zenon DEF Store
<1>4. head' \in 0..(BUFFSIZE - 1) /\ head' = IF head = BUFFSIZE - 1 THEN 0 ELSE head + 1
  BY <1>1, <1>3, NextPos, Zenon
<1>5. RingOK'
  BY <1>1, <1>3, <1>4, Zenon DEF RingOK
<1>6. n' = IF head' >= tail THEN head' - tail ELSE BUFFSIZE + head' - tail
  <2> DEFINE x == BUFFSIZE + head' - tail
  <2>1. x \in 0..(2 * BUFFSIZE - 1)
    BY <1>1, <1>4
  <2>2. n' = x % BUFFSIZE
    BY <1>3, Zenon DEF Length
  <2>3. x % BUFFSIZE = IF x < BUFFSIZE THEN x ELSE x - BUFFSIZE
    BY <2>1, Wrap, Zenon
  <2> QED BY <1>1, <1>4, <2>2, <2>3
<1>7. n' = n + 1
  BY <1>1, <1>2, <1>4, <1>6
<1>8. /\ Content \in Seq(Chars) /\ Len(Content) = n
      /\ \A i \in 1..n : Content[i] = buf[Slot(i)]
  BY ContentFacts, Zenon
<1>9. Content' = [i \in 1..n' |-> buf'[Slot(i)]]
  BY <1>3 DEF Content, Length, Slot
<1>10. \A i \in 1..n' : buf'[Slot(i)] = IF i = n + 1 THEN c ELSE Content[i]
  <2> SUFFICES ASSUME NEW i \in 1..n' PROVE buf'[Slot(i)] = IF i = n + 1 THEN c ELSE Content[i]
    BY Zenon
  <2>1. i \in 1..BUFFSIZE /\ (i # n + 1 => i \in 1..n)
    BY <1>1, <1>2, <1>7
  <2>2. Slot(i) \in 0..(BUFFSIZE - 1) /\ (Slot(i) = head <=> i = n + 1)
    BY <2>1, SlotFacts, Zenon
  <2> QED BY <1>1, <1>3, <1>8, <2>1, <2>2, Zenon
<1> HIDE DEF n
<1>11. Append(Content, c) = [i \in 1..(n + 1) |-> IF i = n + 1 THEN c ELSE Content[i]]
  <2>1. /\ Append(Content, c) \in Seq(Chars) /\ Len(Append(Content, c)) = n + 1
        /\ \A i \in 1..(n + 1) : Append(Content, c)[i] = IF i = n + 1 THEN c ELSE Content[i]
    BY <1>1, <1>2, <1>8
  <2> DEFINE a == Append(Content, c)
  <2> HIDE DEF a
  <2>2. a \in Seq(Chars) /\ Len(a) = n + 1
    BY <2>1, Zenon DEF a
  <2>3. a = [i \in 1..Len(a) |-> a[i]]
    BY <2>2
  <2> QED BY <2>1, <2>2, <2>3, Zenon DEF a
<1>12. Content' = Append(Content, c)
  BY <1>7, <1>9, <1>10, <1>11, Zenon
<1>13. Len(Content) < BUFFSIZE - 1
  BY <1>1, <1>2, <1>8
<1> QED BY <1>3, <1>5, <1>12, <1>13, Zenon DEF Q!Put

\* Reading at tail takes the first of the queue.
LEMMA FetchIsGet ==
  ASSUME RingOK, ~ioq_empty, Fetch
  PROVE  RingOK' /\ Q!Get
<1> DEFINE n == Length
<1>1. /\ BUFFSIZE \in Nat /\ BUFFSIZE > 1 /\ buf \in [0..(BUFFSIZE - 1) -> Chars]
      /\ head \in 0..(BUFFSIZE - 1) /\ tail \in 0..(BUFFSIZE - 1)
      /\ byte \in Chars /\ sent \in Chars
  BY IoqueueAssumption DEF RingOK
<1>2. /\ n \in 0..(BUFFSIZE - 1) /\ n # 0
      /\ n = IF head >= tail THEN head - tail ELSE BUFFSIZE + head - tail
  BY LengthFacts, Zenon
<1>3. /\ byte' = buf[tail] /\ tail' = next_pos(tail)
      /\ buf' = buf /\ head' = head /\ sent' = sent
  BY Zenon DEF Fetch
<1>4. tail' \in 0..(BUFFSIZE - 1) /\ tail' = IF tail = BUFFSIZE - 1 THEN 0 ELSE tail + 1
  BY <1>1, <1>3, NextPos, Zenon
<1>5. RingOK'
  BY <1>1, <1>3, <1>4, Zenon DEF RingOK
<1>6. n' = IF head >= tail' THEN head - tail' ELSE BUFFSIZE + head - tail'
  <2> DEFINE x == BUFFSIZE + head - tail'
  <2>1. x \in 0..(2 * BUFFSIZE - 1)
    BY <1>1, <1>4
  <2>2. n' = x % BUFFSIZE
    BY <1>3, Zenon DEF Length
  <2>3. x % BUFFSIZE = IF x < BUFFSIZE THEN x ELSE x - BUFFSIZE
    BY <2>1, Wrap, Zenon
  <2> QED BY <1>1, <1>4, <2>2, <2>3
<1>7. n' = n - 1
  BY <1>1, <1>2, <1>4, <1>6
<1>8. /\ Content \in Seq(Chars) /\ Len(Content) = n
      /\ \A i \in 1..n : Content[i] = buf[Slot(i)]
  BY ContentFacts, Zenon
<1>9. Content' = [i \in 1..n' |-> buf[Slot(i)']]
  BY <1>3, Zenon DEF Content, Length, Slot
<1>10. \A i \in 1..n' : Slot(i)' = Slot(i + 1) /\ i + 1 \in 1..n
  <2> SUFFICES ASSUME NEW i \in 1..n' PROVE Slot(i)' = Slot(i + 1) /\ i + 1 \in 1..n
    BY Zenon
  <2>1. i + 1 \in 1..n /\ i + 1 \in 1..BUFFSIZE
    BY <1>1, <1>2, <1>7
  <2>2. Slot(i + 1) = IF tail + i < BUFFSIZE THEN tail + i ELSE tail + i - BUFFSIZE
    BY <1>1, <2>1, SlotFacts
  <2> DEFINE x == tail' + i - 1
  <2>3. x \in 0..(2 * BUFFSIZE - 1)
    BY <1>1, <1>4, <2>1
  <2>4. Slot(i)' = x % BUFFSIZE
    BY Zenon DEF Slot
  <2>5. x % BUFFSIZE = IF x < BUFFSIZE THEN x ELSE x - BUFFSIZE
    BY <2>3, Wrap, Zenon
  <2> QED BY <1>1, <1>4, <2>1, <2>2, <2>4, <2>5
<1>11. Slot(1) = tail
  BY <1>1, SlotFacts
<1> HIDE DEF n
<1>12. Content # <<>> /\ Head(Content) = Content[1] /\ Content[1] = buf[tail]
  BY <1>2, <1>8, <1>11
<1>13. Tail(Content) = [i \in 1..(n - 1) |-> Content[i + 1]]
  <2> DEFINE q == Content  r == Tail(q)
  <2>1. q \in Seq(Chars) /\ Len(q) = n /\ n \in Nat \ {0}
    BY <1>1, <1>2, <1>8
  <2> HIDE DEF q
  <2>2. q # <<>>
    BY <2>1
  <2>3. r \in Seq(Chars) /\ Len(r) = n - 1 /\ \A i \in 1..(n - 1) : r[i] = q[i + 1]
    BY <2>1, <2>2
  <2> HIDE DEF r
  <2>4. r = [i \in 1..Len(r) |-> r[i]]
    BY <2>3
  <2> QED BY <2>3, <2>4, Zenon DEF q, r
<1>14. \A i \in 1..n' : buf[Slot(i)'] = Content[i + 1]
  BY <1>8, <1>10, Zenon
<1>15. Content' = Tail(Content)
  BY <1>7, <1>9, <1>13, <1>14, Zenon
<1> QED BY <1>3, <1>5, <1>12, <1>15, Zenon DEF Q!Get

\* Only a character that is stored or read changes the ring.
LEMMA RingStep ==
  ASSUME [Next]_vars
  PROVE  \/ UNCHANGED ring
         \/ ~ioq_full /\ \E c \in Chars : Store(c)
         \/ ~ioq_empty /\ Fetch
<1>1. ASSUME NEW t \in Threads, ioq_getchar(t) PROVE UNCHANGED ring \/ (~ioq_empty /\ Fetch)
  BY <1>1, Zenon DEF ioq_getchar, GetCall, GetEmpty, GetWait, GetAwake, GetChar
<1>2. ASSUME NEW t \in Threads, ioq_putchar(t)
      PROVE  UNCHANGED ring \/ (~ioq_full /\ \E c \in Chars : Store(c))
  BY <1>2, Zenon DEF ioq_putchar, PutCall, PutFull, PutWait, PutAwake, PutChar
<1>3. ASSUME NEW c \in Chars \union {NULL}, KeyboardInterrupt(c)
      PROVE  UNCHANGED ring \/ (~ioq_full /\ \E d \in Chars : Store(d))
  <2>1. CASE c = NULL \/ ioq_full
    BY <1>3, <2>1, Zenon DEF KeyboardInterrupt
  <2>2. CASE ~(c = NULL \/ ioq_full)
    BY <1>3, <2>2, Zenon DEF KeyboardInterrupt
  <2> QED BY <2>1, <2>2, Zenon
<1>4. CASE UNCHANGED vars
  BY <1>4, Zenon DEF vars
<1> QED BY <1>1, <1>2, <1>3, <1>4, Zenon DEF Next, ThreadStep, Interrupt

\* The ring of ioqueue.c is the abstract queue of Fifo: whatever the threads and the
\* keyboard do, each step puts one character at the end, takes the first, or changes
\* nothing.
THEOREM QueueIsFifo == Spec => ImplementsFifo
<1>1. Init => RingOK /\ Q!Init
  <2> SUFFICES ASSUME Init PROVE RingOK /\ Q!Init
    BY Zenon
  <2>1. BUFFSIZE \in Nat /\ BUFFSIZE > 1
    BY IoqueueAssumption
  <2>2. PICK c \in Chars : buf = [i \in 0..(BUFFSIZE - 1) |-> c] /\ byte = c /\ sent = c
    BY Zenon DEF Init
  <2>3. RingOK
    BY <2>1, <2>2 DEF Init, RingOK
  <2>4. Length = 0
    BY <2>1, <2>3, LengthFacts DEF Init
  <2>5. Content \in Seq(Chars) /\ Len(Content) = 0
    BY <2>3, <2>4, ContentFacts, Zenon
  <2>6. Content = <<>>
    BY <2>5
  <2> QED BY <2>2, <2>3, <2>6, Zenon DEF Q!Init
<1>2. RingOK /\ [Next]_vars => RingOK' /\ [Q!Next]_<<Content, sent, byte>>
  <2> SUFFICES ASSUME RingOK, [Next]_vars PROVE RingOK' /\ [Q!Next]_<<Content, sent, byte>>
    BY Zenon
  <2>1. CASE UNCHANGED ring
    BY <2>1, Zenon DEF ring, RingOK, Content
  <2>2. ASSUME NEW c \in Chars, ~ioq_full, Store(c)
        PROVE  RingOK' /\ [Q!Next]_<<Content, sent, byte>>
    BY <2>2, StoreIsPut, Zenon DEF Q!Next
  <2>3. CASE ~ioq_empty /\ Fetch
    BY <2>3, FetchIsGet, Zenon DEF Q!Next
  <2> QED BY <2>1, <2>2, <2>3, RingStep, Zenon
<1> QED BY <1>1, <1>2, PTL DEF Spec, ImplementsFifo, Q!Spec

-----------------------------------------------------------------------------
(* The lock and the sleepers.                                              *)

\* A booted system with an empty queue satisfies the invariant.
LEMMA InitIInv == Init => IInv
<1> SUFFICES ASSUME Init PROVE IInv
  BY Zenon
<1> USE DEF NONE, TASK_READY, TASK_RUNING, TASK_BLOCKED, TASK_WAITING, TASK_HANGING
<1>1. /\ sys \in SchedulerState
      /\ sys.cur = main_thread /\ sys.ready = Started /\ ~sys.panic
      /\ sys.status = [t \in Threads |-> IF t = main_thread THEN TASK_RUNING ELSE TASK_READY]
  BY ThreadAssumption, IoqueueAssumption, ZenonT(60)
     DEF Init, Booted, thread_init, SchedulerState, task_status
<1>2. RingOK
  <2>1. PICK c \in Chars : buf = [i \in 0..(BUFFSIZE - 1) |-> c] /\ byte = c /\ sent = c
    BY Zenon DEF Init
  <2> QED BY <2>1, IoqueueAssumption DEF Init, RingOK
<1>3. TypeOK
  BY <1>1, <1>2, IoqueueAssumption DEF TypeOK, Init, SyncInit, SyncLabels, CallerLabels
<1>4. WellFormed(sys, {})
  <2>1. \A t \in Threads : elem_find(Started, t) <=> t # main_thread
    BY IoqueueAssumption, ThreadAssumption DEF elem_find, Range
  <2> QED
    BY <1>1, <2>1, IoqueueAssumption, ThreadAssumption, Zenon
       DEF WellFormed, ReadyExact, OneRuns, Created
<1>5. FrameInv
  BY <1>1, Zenon DEF FrameInv, Init
<1>6. OwnerInv
  BY SyncAssumption, IoqueueAssumption, Zenon DEF OwnerInv, Owns, Init, SyncInit
<1>7. WaitersInv
  <2>1. waiters[ioq] = <<>>
    BY IoqueueAssumption, Zenon DEF Init, SyncInit
  <2>2. IsInjective(<<>>) /\ \A t \in Threads : ~elem_find(<<>>, t)
    BY DEF IsInjective, elem_find
  <2> QED BY <2>1, <2>2, Zenon DEF Init, WaitersInv
<1>8. RecordInv
  BY Zenon DEF Init, RecordInv
<1> QED BY <1>3, <1>4, <1>5, <1>6, <1>7, <1>8, Zenon DEF IInv

\* The types that the steps use; every frame is about the one lock.
LEMMA Types ==
  ASSUME IInv
  PROVE  /\ ioq \in Locks /\ \A l \in Locks : l = ioq
         /\ value \in [Locks -> 0..1] /\ waiters \in [Locks -> Seq(Threads)]
         /\ holder \in [Locks -> Threads \union {NULL}]
         /\ holder_repeat_nr \in [Locks -> 0..1]
         /\ pc \in [Threads -> SyncLabels \union CallerLabels]
         /\ lk \in [Threads -> Locks] /\ \A t \in Threads : lk[t] = ioq
         /\ ret \in [Threads -> CallerLabels] /\ saved \in [Threads -> BOOLEAN]
         /\ consumer \in Threads \union {NULL} /\ producer \in Threads \union {NULL}
         /\ NULL \notin Threads
         /\ RingOK
  BY IoqueueAssumption, SyncAssumption, Zenon DEF IInv, TypeOK

\* The thread that steps is the running one and sleeps nowhere.
LEMMA Stepping ==
  ASSUME IInv, NEW t \in Threads, Runs(sys, t)
  PROVE  /\ sys \in SchedulerState /\ WellFormed(sys, {}) /\ sys.cur = t
         /\ ~Blocked(sys, t)
         /\ ~elem_find(waiters[ioq], t) /\ consumer # t /\ producer # t
<1>1. sys \in SchedulerState /\ WellFormed(sys, {}) /\ sys.cur = t
  BY Zenon DEF IInv, TypeOK, Runs
<1>2. sys.status[t] = TASK_RUNING
  BY <1>1, Zenon DEF WellFormed, OneRuns
<1>3. ~Blocked(sys, t)
  BY <1>2, Zenon DEF Blocked, NotScheduled, TASK_RUNING, TASK_BLOCKED, TASK_WAITING, TASK_HANGING
<1> QED BY <1>1, <1>3, SyncAssumption, Zenon DEF IInv, WaitersInv, RecordInv

\* A step that blocks and wakes nobody keeps every sleeper on its record.
LEMMA SleepersKept ==
  ASSUME IInv, WellFormed(sys', {}), SameBlocked(sys, sys', {}),
         NEW t \in Threads, ~Blocked(sys, t), \A u \in Threads \ {t} : pc'[u] = pc[u],
         pc'[idle_thread] = "run", UNCHANGED <<waiters, consumer, producer>>
  PROVE  WaitersInv' /\ RecordInv' /\ \A u \in Threads : sys'.status[u] # NONE
<1>1. \A u \in Threads : sys'.status[u] # NONE
  BY Zenon DEF IInv, FrameInv, SameBlocked, WellFormed, Created
<1>2. \A u \in Threads : pc[u] # "run" =>
        (pc'[u] = pc[u] /\ (Blocked(sys', u) <=> Blocked(sys, u))) \/ u = t
  BY Zenon DEF IInv, FrameInv, SameBlocked
<1>3. t # idle_thread => ~Blocked(sys', t)
  BY Zenon DEF SameBlocked
<1>4. idle_thread \in Threads /\ pc[idle_thread] = "run"
  BY ThreadAssumption, Zenon DEF IInv, FrameInv
<1>5. ASSUME NEW u \in Threads
      PROVE  elem_find(waiters[ioq], u) <=> pc'[u] = "woken" /\ Blocked(sys', u)
  <2>1. CASE u = t
    BY <1>3, <1>4, <2>1, Zenon DEF IInv, WaitersInv
  <2>2. CASE u # t
    BY <1>2, <2>2, Zenon DEF IInv, WaitersInv
  <2> QED BY <2>1, <2>2, Zenon
<1>6. WaitersInv'
  BY <1>5, Zenon DEF IInv, WaitersInv
<1>7. RecordInv'
  BY <1>2, Types, Zenon DEF IInv, RecordInv
<1> QED BY <1>1, <1>6, <1>7, Zenon

\* A step of the running thread t that only moves t and changes the lock.
LEMMA LocalStep ==
  ASSUME IInv, NEW t \in Threads, Runs(sys, t), t # idle_thread,
         NEW label \in SyncLabels \union CallerLabels, pc' = [pc EXCEPT ![t] = label],
         sys' \in SchedulerState, WellFormed(sys', {}), SameBlocked(sys, sys', {}),
         NEW back \in CallerLabels, ret' = [ret EXCEPT ![t] = back],
         label \in {"acquire", "down", "woken", "set_holder", "set_repeat"} =>
           back \in {"get_wait", "put_wait"},
         label \in {"release", "clear_repeat", "up"} => back \in {"get", "put"},
         value' \in [Locks -> 0..1], holder' \in [Locks -> Threads \union {NULL}],
         holder_repeat_nr' \in [Locks -> 0..1], lk' = lk, saved' = saved, OwnerInv',
         UNCHANGED <<waiters, consumer, producer, ring>>
  PROVE  IInv'
<1>1. \A u \in Threads \ {t} : pc'[u] = pc[u] /\ ret'[u] = ret[u]
  BY Types, Zenon
<1>2. pc'[t] = label /\ ret'[t] = back
  BY Types, Zenon
<1>3. ~Blocked(sys, t) /\ pc'[idle_thread] = "run"
  BY <1>1, Stepping, ThreadAssumption, Zenon DEF IInv, FrameInv
<1>4. WaitersInv' /\ RecordInv' /\ \A u \in Threads : sys'.status[u] # NONE
  BY <1>1, <1>3, SleepersKept, Zenon
<1>5. FrameInv'
  BY <1>1, <1>2, <1>3, <1>4, Zenon DEF IInv, FrameInv
<1>6. TypeOK'
  BY Types, Zenon DEF TypeOK, RingOK, ring
<1> QED BY <1>4, <1>5, <1>6, Zenon DEF IInv

\* The steps of the callers that touch neither the ring nor the scheduler's lists.
LEMMA CallerStep ==
  ASSUME IInv, IntrInv, NEW t \in Threads,
         \/ GetCall(t) \/ GetEmpty(t) \/ GetAwake(t)
         \/ PutCall(t) \/ PutFull(t) \/ PutAwake(t)
  PROVE  IInv'
<1> USE DEF At, Goto, Call, semaphore, lock, waiting
<1>1. CASE GetCall(t) \/ PutCall(t)
  <2> DEFINE label == IF GetCall(t) THEN "get" ELSE "put"
  <2>1. /\ pc' = [pc EXCEPT ![t] = label] /\ ret' = [ret EXCEPT ![t] = ret[t]]
        /\ UNCHANGED <<value, waiters, holder, holder_repeat_nr, lk, ret, saved>>
        /\ UNCHANGED <<ring, consumer, producer>>
        /\ pc[t] = "run" /\ t # idle_thread /\ Runs(sys, t)
        /\ sys' = [sys EXCEPT !.intr = FALSE] /\ label \in {"get", "put"}
    BY <1>1, Types, IoqueueAssumption DEF GetCall, PutCall
  <2> HIDE DEF label
  <2>2. sys \in SchedulerState /\ WellFormed(sys, {})
    BY <2>1, Stepping, Zenon
  <2>3. sys' \in SchedulerState /\ WellFormed(sys', {}) /\ sys'.status = sys.status
    BY <2>1, <2>2, IntrFacts, ZenonT(60) DEF SchedulerState
  <2>4. SameBlocked(sys, sys', {})
    BY <2>3, Zenon DEF SameBlocked, Blocked
  <2>5. OwnerInv'
    BY <2>1, Types DEF IInv, OwnerInv, Owns
  <2>6. label \in SyncLabels \union CallerLabels /\ ret[t] \in CallerLabels
    BY <2>1, Types, Zenon DEF CallerLabels
  <2> QED BY <2>1, <2>3, <2>4, <2>5, <2>6, LocalStep, Types, Zenon
<1>2. CASE GetEmpty(t) \/ PutFull(t)
  <2> DEFINE back == IF GetEmpty(t) THEN "get_wait" ELSE "put_wait"
  <2>1. /\ pc' = [pc EXCEPT ![t] = "acquire"] /\ ret' = [ret EXCEPT ![t] = back]
        /\ UNCHANGED <<sys, value, waiters, holder, holder_repeat_nr, lk, saved>>
        /\ UNCHANGED <<ring, consumer, producer>>
        /\ pc[t] \in {"get", "put"} /\ Runs(sys, t) /\ back \in {"get_wait", "put_wait"}
    BY <1>2, Types, ZenonT(60) DEF GetEmpty, PutFull, ASSERT, Runs, IntrInv, KeptOff
  <2> HIDE DEF back
  <2>2. sys \in SchedulerState /\ WellFormed(sys, {}) /\ t # idle_thread
    BY <2>1, Stepping, Zenon DEF IInv, FrameInv
  <2>3. sys' \in SchedulerState /\ WellFormed(sys', {}) /\ SameBlocked(sys, sys', {})
    BY <2>1, <2>2, Zenon DEF SameBlocked
  <2>4. OwnerInv'
    BY <2>1, Types DEF IInv, OwnerInv, Owns
  <2>5. "acquire" \in SyncLabels \union CallerLabels /\ back \in CallerLabels
    BY <2>1, Zenon DEF SyncLabels, CallerLabels
  <2> QED BY <2>1, <2>2, <2>3, <2>4, <2>5, LocalStep, Types, Zenon
<1>3. CASE GetAwake(t) \/ PutAwake(t)
  <2> DEFINE back == IF GetAwake(t) THEN "get" ELSE "put"
  <2>1. /\ pc' = [pc EXCEPT ![t] = "release"] /\ ret' = [ret EXCEPT ![t] = back]
        /\ UNCHANGED <<sys, value, waiters, holder, holder_repeat_nr, lk, saved>>
        /\ UNCHANGED <<ring, consumer, producer>>
        /\ pc[t] \in {"get_awake", "put_awake"} /\ Runs(sys, t) /\ back \in {"get", "put"}
    BY <1>3, Types, Zenon DEF GetAwake, PutAwake
  <2> HIDE DEF back
  <2>2. sys \in SchedulerState /\ WellFormed(sys, {}) /\ t # idle_thread
    BY <2>1, Stepping, Zenon DEF IInv, FrameInv
  <2>3. sys' \in SchedulerState /\ WellFormed(sys', {}) /\ SameBlocked(sys, sys', {})
    BY <2>1, <2>2, Zenon DEF SameBlocked
  <2>4. OwnerInv'
    BY <2>1, Types DEF IInv, OwnerInv, Owns
  <2>5. "release" \in SyncLabels \union CallerLabels /\ back \in CallerLabels
    BY <2>1, Zenon DEF SyncLabels, CallerLabels
  <2> QED BY <2>1, <2>2, <2>3, <2>4, <2>5, LocalStep, Types, Zenon
<1> QED BY <1>1, <1>2, <1>3, Zenon

\* The steps of lock_acquire and lock_release around the semaphore; their ASSERTs hold,
\* and the lock is never nested.
LEMMA LockStep ==
  ASSUME IInv, NEW t \in Threads, UNCHANGED <<ring, waiting>>,
         \/ lock_acquire(t) \/ SetHolder(t) \/ SetRepeat(t)
         \/ ReleaseInner(t) \/ ReleaseLast(t) \/ ClearRepeat(t)
  PROVE  IInv'
<1> USE DEF At, Goto, semaphore, waiting
<1> DEFINE Rest == /\ ret' = [ret EXCEPT ![t] = ret[t]] /\ ret[t] \in CallerLabels
                   /\ UNCHANGED <<sys, value, waiters, lk, saved, ring, consumer, producer>>
                   /\ Runs(sys, t) /\ t # idle_thread
<1>1. ASSUME Rest, NEW label \in SyncLabels \union CallerLabels,
             pc' = [pc EXCEPT ![t] = label],
             label \in {"acquire", "down", "woken", "set_holder", "set_repeat"} =>
               ret[t] \in {"get_wait", "put_wait"},
             label \in {"release", "clear_repeat", "up"} => ret[t] \in {"get", "put"},
             holder' \in [Locks -> Threads \union {NULL}],
             holder_repeat_nr' \in [Locks -> 0..1], OwnerInv'
      PROVE  IInv'
  <2>1. sys' \in SchedulerState /\ WellFormed(sys', {}) /\ SameBlocked(sys, sys', {})
    BY <1>1, Stepping, Zenon DEF SameBlocked
  <2>2. value' \in [Locks -> 0..1]
    BY <1>1, Types, Zenon
  <2> QED BY <1>1, <2>1, <2>2, LocalStep, Zenon
<1>2. CASE lock_acquire(t)
  <2>1. pc[t] = "acquire" /\ holder[ioq] # t /\ ret[t] \in {"get_wait", "put_wait"}
    BY <1>2, Types, Zenon DEF lock_acquire, IInv, OwnerInv, Owns, FrameInv
  <2>2. /\ Rest /\ pc' = [pc EXCEPT ![t] = "down"]
        /\ UNCHANGED <<holder, holder_repeat_nr>>
    BY <1>2, <2>1, Types, Zenon DEF lock_acquire, IInv, FrameInv
  <2>3. OwnerInv'
    BY <2>1, <2>2, Types DEF IInv, OwnerInv, Owns
  <2> HIDE DEF Rest
  <2> QED BY <1>1, <2>1, <2>2, <2>3, Types, Zenon DEF SyncLabels
<1>3. CASE SetHolder(t)
  <2>1. /\ pc[t] = "set_holder" /\ Owns(t) /\ ret[t] \in {"get_wait", "put_wait"}
        /\ pc' = [pc EXCEPT ![t] = "set_repeat"]
        /\ holder' = [holder EXCEPT ![ioq] = t] /\ UNCHANGED holder_repeat_nr
    BY <1>3, Types, Zenon DEF SetHolder, Owns, IInv, FrameInv
  <2>2. Rest
    BY <1>3, <2>1, Types, Zenon DEF SetHolder, IInv, FrameInv
  <2>3. OwnerInv'
    BY <2>1, <2>2, Types DEF IInv, OwnerInv, Owns
  <2> HIDE DEF Rest
  <2> QED BY <1>1, <2>1, <2>2, <2>3, Types, Zenon DEF SyncLabels
<1>4. CASE SetRepeat(t)
  <2>1. /\ pc[t] = "set_repeat" /\ Owns(t) /\ ret[t] \in {"get_wait", "put_wait"}
        /\ holder_repeat_nr[ioq] = 0
    BY <1>4, Types, Zenon DEF SetRepeat, Owns, IInv, FrameInv, OwnerInv
  <2>2. /\ Rest /\ pc' = [pc EXCEPT ![t] = ret[t]] /\ UNCHANGED holder
        /\ holder_repeat_nr' = [holder_repeat_nr EXCEPT ![ioq] = 1]
    BY <1>4, <2>1, Types, Zenon DEF SetRepeat, ASSERT, IInv, FrameInv
  <2>3. OwnerInv'
    BY <2>1, <2>2, Types DEF IInv, OwnerInv, Owns
  <2>4. /\ ret[t] \in SyncLabels \union CallerLabels
        /\ holder' \in [Locks -> Threads \union {NULL}]
        /\ holder_repeat_nr' \in [Locks -> 0..1]
    BY <2>2, Types
  <2> HIDE DEF Rest
  <2> QED BY <1>1, <2>1, <2>2, <2>3, <2>4, Types, Zenon
<1>5. CASE ReleaseInner(t) \/ ReleaseLast(t)
  <2>1. /\ pc[t] = "release" /\ Owns(t) /\ ret[t] \in {"get", "put"}
        /\ holder_repeat_nr[ioq] = 1 /\ holder[ioq] = t
    BY <1>5, Types, Zenon DEF ReleaseInner, ReleaseLast, Owns, IInv, FrameInv, OwnerInv
  <2>2. ReleaseLast(t)
    <3>1. holder_repeat_nr[lk[t]] = 1
      BY <2>1, Types, Zenon
    <3>2. ~ReleaseInner(t)
      BY <3>1 DEF ReleaseInner
    <3> QED BY <1>5, <3>2, Zenon
  <2>3. /\ Rest /\ pc' = [pc EXCEPT ![t] = "clear_repeat"]
        /\ holder' = [holder EXCEPT ![ioq] = NULL] /\ UNCHANGED holder_repeat_nr
    BY <2>1, <2>2, Types, Zenon DEF ReleaseLast, ASSERT, IInv, FrameInv
  <2>4. OwnerInv'
    BY <2>1, <2>3, Types DEF IInv, OwnerInv, Owns
  <2> HIDE DEF Rest
  <2> QED BY <1>1, <2>1, <2>3, <2>4, Types, Zenon DEF SyncLabels
<1>6. CASE ClearRepeat(t)
  <2>1. /\ pc[t] = "clear_repeat" /\ Owns(t) /\ ret[t] \in {"get", "put"}
        /\ pc' = [pc EXCEPT ![t] = "up"] /\ UNCHANGED holder
        /\ holder_repeat_nr' = [holder_repeat_nr EXCEPT ![ioq] = 0]
    BY <1>6, Types, Zenon DEF ClearRepeat, Owns, IInv, FrameInv
  <2>2. Rest
    BY <1>6, <2>1, Types, Zenon DEF ClearRepeat, IInv, FrameInv
  <2>3. OwnerInv'
    BY <2>1, <2>2, Types DEF IInv, OwnerInv, Owns
  <2>4. /\ holder' \in [Locks -> Threads \union {NULL}]
        /\ holder_repeat_nr' \in [Locks -> 0..1] /\ "up" \in SyncLabels \union CallerLabels
    BY <2>1, Types DEF SyncLabels
  <2> HIDE DEF Rest
  <2> QED BY <1>1, <2>1, <2>2, <2>3, <2>4, Zenon
<1> QED BY <1>2, <1>3, <1>4, <1>5, <1>6, Zenon

\* So does the end of sema_down, whose ASSERT holds.
LEMMA DownTakeStep ==
  ASSUME IInv, NEW t \in Threads, DownTake(t), UNCHANGED <<ring, waiting>>
  PROVE  IInv'
<1>1. /\ pc[t] \in {"down", "woken"} /\ value[ioq] = 1 /\ ~Owns(t) /\ Runs(sys, t)
      /\ ret[t] \in {"get_wait", "put_wait"} /\ t # idle_thread
  BY Types DEF DownTake, At, IInv, FrameInv, Owns
<1>2. OldStatus(t) \in BOOLEAN
  BY Zenon DEF OldStatus, IInv, TypeOK, SchedulerState
<1>3. /\ pc' = [pc EXCEPT ![t] = "set_holder"] /\ value' = [value EXCEPT ![ioq] = 0]
      /\ sys' = [sys EXCEPT !.intr = OldStatus(t)] /\ ret' = [ret EXCEPT ![t] = ret[t]]
      /\ UNCHANGED <<waiters, holder, holder_repeat_nr, lk, saved, ring, consumer, producer>>
  BY <1>1, Types DEF DownTake, ASSERT, Goto, lock, waiting
<1>4. sys \in SchedulerState /\ WellFormed(sys, {})
  BY <1>1, Stepping, Zenon
<1>5. sys' \in SchedulerState /\ WellFormed(sys', {}) /\ sys'.status = sys.status
  BY <1>2, <1>3, <1>4, IntrFacts, ZenonT(60) DEF SchedulerState
<1>6. SameBlocked(sys, sys', {})
  BY <1>5, Zenon DEF SameBlocked, Blocked
<1>7. OwnerInv'
  <2>1. holder_repeat_nr[ioq] = 0 /\ holder[ioq] # t /\ \A u \in Threads : ~Owns(u)
    BY <1>1 DEF IInv, OwnerInv
  <2>2. \A u \in Threads : Owns(u)' <=> u = t
    BY <1>3, <2>1, Types, Zenon DEF Owns
  <2> QED BY <1>3, <2>1, <2>2, Types DEF IInv, OwnerInv
<1>8. value' \in [Locks -> 0..1] /\ "set_holder" \in SyncLabels \union CallerLabels
      /\ ret[t] \in CallerLabels
  BY <1>3, Types DEF SyncLabels
<1> QED BY <1>1, <1>3, <1>5, <1>6, <1>7, <1>8, LocalStep, Types, Zenon

\* thread_block of the running thread puts it, and nobody else, to sleep.
LEMMA BlockStep ==
  ASSUME IInv, NEW t \in Threads, Runs(sys, t), t # idle_thread,
         NEW s \in SchedulerState, WellFormed(s, {}), s.status = sys.status, s.cur = t,
         sys' = thread_block(s, TASK_BLOCKED)
  PROVE  /\ sys' \in SchedulerState /\ WellFormed(sys', {}) /\ Blocked(sys', t)
         /\ \A u \in Threads : sys'.status[u] # NONE
         /\ \A u \in Threads \ {t} : pc[u] # "run" => (Blocked(sys', u) <=> Blocked(sys, u))
<1> USE DEF NONE, TASK_READY, TASK_RUNING, TASK_BLOCKED, TASK_WAITING, TASK_HANGING
<1>1. TASK_BLOCKED \in NotScheduled
  BY Zenon DEF NotScheduled
<1>2. /\ sys' \in SchedulerState /\ WellFormed(sys', {})
      /\ SameBlocked(s, sys', {t}) /\ Blocked(sys', t)
  BY <1>1, BlockFacts, Zenon
<1>3. \A u \in Threads : sys'.status[u] # NONE
  BY <1>2, ThreadAssumption, Zenon
     DEF IInv, FrameInv, SameBlocked, Blocked, NotScheduled, WellFormed, Created
<1>4. \A u \in Threads \ {t} : pc[u] # "run" => (Blocked(sys', u) <=> Blocked(sys, u))
  BY <1>2, Zenon DEF IInv, FrameInv, SameBlocked, Blocked
<1> QED BY <1>2, <1>3, <1>4, Zenon

\* thread_unblock of a sleeper wakes it, and nobody else.
LEMMA WakeStep ==
  ASSUME IInv, NEW w \in Threads, Blocked(sys, w),
         NEW s \in SchedulerState, WellFormed(s, {}), s.status = sys.status
  PROVE  LET r == thread_unblock(s, w) IN
         /\ r \in SchedulerState /\ WellFormed(r, {})
         /\ r.cur = s.cur /\ r.old = s.old /\ r.intr = s.intr
         /\ \A u \in Threads : r.status[u] # NONE
         /\ \A u \in Threads : Blocked(r, u) <=> Blocked(sys, u) /\ u # w
<1> USE DEF NONE, TASK_READY, TASK_RUNING, TASK_BLOCKED, TASK_WAITING, TASK_HANGING
<1> DEFINE r == thread_unblock(s, w)
<1>1. Blocked(s, w) /\ s.status \in [Threads -> task_status]
  BY Zenon DEF Blocked, SchedulerState
<1>2. r \in SchedulerState /\ WellFormed(r, {})
  BY <1>1, UnblockWellFormed, Zenon
<1>3. /\ r.status = [s.status EXCEPT ![w] = TASK_READY]
      /\ r.cur = s.cur /\ r.old = s.old /\ r.intr = s.intr
  BY <1>1, UnblockFacts DEF WellFormed, Blocked
<1> HIDE DEF r
<1>4. \A u \in Threads : r.status[u] # NONE
  BY <1>1, <1>3, Zenon DEF IInv, FrameInv
<1>5. \A u \in Threads : Blocked(r, u) <=> Blocked(sys, u) /\ u # w
  BY <1>1, <1>3, Zenon DEF Blocked, NotScheduled
<1> QED BY <1>2, <1>3, <1>4, <1>5, Zenon DEF r

\* A round of the loop of sema_down queues and blocks its caller.
LEMMA DownBlockStep ==
  ASSUME IInv, NEW t \in Threads, DownBlock(t), UNCHANGED <<ring, waiting>>
  PROVE  IInv'
<1> DEFINE s == [sys EXCEPT !.intr = FALSE]
           q == Append(waiters[ioq], t)
<1>1. /\ pc[t] \in {"down", "woken"} /\ value[ioq] = 0 /\ ~Owns(t) /\ Runs(sys, t)
      /\ ret[t] \in {"get_wait", "put_wait"} /\ t # idle_thread
  BY Types, Zenon DEF DownBlock, At, IInv, FrameInv, Owns
<1>2. OldStatus(t) \in BOOLEAN
  BY Zenon DEF OldStatus, IInv, TypeOK, SchedulerState
<1>3. /\ sys \in SchedulerState /\ WellFormed(sys, {}) /\ sys.cur = t
      /\ ~elem_find(waiters[ioq], t) /\ consumer # t /\ producer # t
  BY <1>1, Stepping, Zenon
<1>4. /\ pc' = [pc EXCEPT ![t] = "woken"] /\ waiters' = [waiters EXCEPT ![ioq] = q]
      /\ saved' = [saved EXCEPT ![t] = OldStatus(t)] /\ sys' = thread_block(s, TASK_BLOCKED)
      /\ UNCHANGED <<value, holder, holder_repeat_nr, lk, ret, ring, consumer, producer>>
  BY <1>1, <1>3, Types, Zenon DEF DownBlock, ASSERT, Goto, lock, waiting
<1>5. s \in SchedulerState /\ WellFormed(s, {}) /\ s.status = sys.status /\ s.cur = t
  BY <1>3, IntrFacts, ZenonT(60) DEF SchedulerState
<1> HIDE DEF s
<1>6. /\ sys' \in SchedulerState /\ WellFormed(sys', {}) /\ Blocked(sys', t)
      /\ \A u \in Threads : sys'.status[u] # NONE
      /\ \A u \in Threads \ {t} : pc[u] # "run" => (Blocked(sys', u) <=> Blocked(sys, u))
  BY <1>1, <1>4, <1>5, BlockStep, Zenon
<1>7. /\ q \in Seq(Threads) /\ IsInjective(q)
      /\ \A u \in Threads : elem_find(q, u) <=> elem_find(waiters[ioq], u) \/ u = t
  BY <1>3, AppendNew, Types DEF IInv, WaitersInv
<1> HIDE DEF q
<1>8. TypeOK'
  BY <1>2, <1>4, <1>6, <1>7, Types, Zenon DEF TypeOK, SyncLabels, ring, RingOK
<1>9. FrameInv'
  BY <1>1, <1>4, <1>6, Types, Zenon DEF IInv, FrameInv
<1>10. OwnerInv'
  BY <1>1, <1>4, Types DEF IInv, OwnerInv, Owns
<1>11. WaitersInv'
  BY <1>4, <1>6, <1>7, Types, Zenon DEF IInv, WaitersInv
<1>12. RecordInv'
  BY <1>3, <1>4, <1>6, Types, Zenon DEF IInv, RecordInv
<1> QED BY <1>6, <1>8, <1>9, <1>10, <1>11, <1>12, Zenon DEF IInv

\* ioq_wait finds nobody on its record and puts its caller there, asleep with the lock.
LEMMA WaitStep ==
  ASSUME IInv, NEW t \in Threads, GetWait(t) \/ PutWait(t) PROVE IInv'
<1>1. /\ pc[t] \in {"get_wait", "put_wait"} /\ Owns(t) /\ Runs(sys, t) /\ t # idle_thread
      /\ GetWait(t) => pc[t] = "get_wait"
      /\ PutWait(t) => pc[t] = "put_wait"
  BY Zenon DEF GetWait, PutWait, At, Owns, IInv, FrameInv
<1>2. /\ sys \in SchedulerState /\ WellFormed(sys, {}) /\ sys.cur = t
      /\ ~elem_find(waiters[ioq], t) /\ consumer # t /\ producer # t
  BY <1>1, Stepping, Zenon
<1>3. consumer = NULL /\ producer = NULL
  <2>1. \A u \in Threads : pc[u] \in {"get_awake", "put_awake"} => Owns(u) /\ u # t
    BY <1>1, Zenon DEF Owns
  <2> QED BY <1>1, <2>1, Types, Zenon DEF IInv, OwnerInv, RecordInv
<1> DEFINE label == IF GetWait(t) THEN "get_awake" ELSE "put_awake"
<1>4. /\ pc' = [pc EXCEPT ![t] = label] /\ sys' = thread_block(sys, TASK_BLOCKED)
      /\ UNCHANGED <<value, waiters, holder, holder_repeat_nr, lk, ret, saved, ring>>
      /\ consumer' = IF label = "get_awake" THEN t ELSE NULL
      /\ producer' = IF label = "put_awake" THEN t ELSE NULL
      /\ label \in {"get_awake", "put_awake"}
  BY <1>1, <1>3, Zenon DEF GetWait, PutWait, ASSERT, Goto, lock, semaphore
<1> HIDE DEF label
<1>5. /\ sys' \in SchedulerState /\ WellFormed(sys', {}) /\ Blocked(sys', t)
      /\ \A u \in Threads : sys'.status[u] # NONE
      /\ \A u \in Threads \ {t} : pc[u] # "run" => (Blocked(sys', u) <=> Blocked(sys, u))
  BY <1>1, <1>2, <1>4, BlockStep, Zenon
<1>6. TypeOK'
  BY <1>4, <1>5, Types, Zenon DEF TypeOK, CallerLabels, ring, RingOK
<1>7. FrameInv'
  BY <1>1, <1>4, <1>5, Types, Zenon DEF IInv, FrameInv
<1>8. OwnerInv'
  <2>1. \A u \in Threads : Owns(u)' <=> Owns(u)
    BY <1>1, <1>4, Types, Zenon DEF Owns
  <2>2. \A u \in Threads : Owns(u) => u = t
    BY <1>1, Zenon DEF IInv, OwnerInv
  <2>3. /\ value[ioq] = 0 /\ holder[ioq] = t /\ holder_repeat_nr[ioq] = 1
    BY <1>1, Zenon DEF IInv, OwnerInv, Owns
  <2> QED BY <1>4, <2>1, <2>2, <2>3, Types, Zenon DEF IInv, OwnerInv
<1>9. WaitersInv'
  BY <1>2, <1>4, <1>5, Types, Zenon DEF IInv, WaitersInv
<1>10. RecordInv'
  BY <1>4, <1>5, Types, Zenon DEF RecordInv
<1> QED BY <1>5, <1>6, <1>7, <1>8, <1>9, <1>10, Zenon DEF IInv

\* sema_up gives the lock back and wakes the first that waits for it.
LEMMA SemaUpStep ==
  ASSUME IInv, NEW t \in Threads, sema_up(t), UNCHANGED <<ring, waiting>>
  PROVE  IInv'
<1> DEFINE q == waiters[ioq]
           h == Head(q)
<1>1. /\ pc[t] = "up" /\ Owns(t) /\ Runs(sys, t) /\ t # idle_thread
      /\ ret[t] \in {"get", "put"} /\ value[ioq] = 0 /\ holder_repeat_nr[ioq] = 0
  BY Types, Zenon DEF sema_up, At, IInv, FrameInv, OwnerInv, Owns
<1>2. /\ sys \in SchedulerState /\ WellFormed(sys, {}) /\ sys.cur = t /\ ~Blocked(sys, t)
      /\ ~elem_find(q, t) /\ consumer # t /\ producer # t
  BY <1>1, Stepping, Zenon
<1>3. /\ pc' = [pc EXCEPT ![t] = ret[t]] /\ value' = [value EXCEPT ![ioq] = 1]
      /\ waiters' = [waiters EXCEPT ![ioq] = IF q = <<>> THEN q ELSE Tail(q)]
      /\ sys' = WakeFirst(sys, q)
      /\ UNCHANGED <<holder, holder_repeat_nr, lk, ret, saved, ring, consumer, producer>>
  BY <1>1, Types DEF sema_up, ASSERT, Goto, lock, waiting
<1>4. OwnerInv'
  <2>1. holder[ioq] # t /\ \A u \in Threads : Owns(u) => u = t
    BY <1>1, Zenon DEF IInv, OwnerInv
  <2>2. \A u \in Threads : ~Owns(u)'
    BY <1>1, <1>3, <2>1, Types, Zenon DEF Owns
  <2>3. \A u \in Threads : holder[ioq] # u
    BY <1>1, <2>1, Zenon DEF IInv, OwnerInv
  <2> QED BY <1>1, <1>3, <2>2, <2>3, Types, Zenon DEF OwnerInv
<1>5. q \in Seq(Threads) /\ IsInjective(q)
  BY Types, Zenon DEF IInv, WaitersInv
<1>6. CASE q = <<>>
  <2>1. sys' = sys /\ waiters' = waiters
    BY <1>3, <1>6, Types, Zenon DEF WakeFirst
  <2>2. SameBlocked(sys, sys', {}) /\ sys' \in SchedulerState /\ WellFormed(sys', {})
    BY <1>2, <2>1, Zenon DEF SameBlocked
  <2>3. /\ value' \in [Locks -> 0..1] /\ ret[t] \in CallerLabels
        /\ ret' = [ret EXCEPT ![t] = ret[t]] /\ ret[t] \in SyncLabels \union CallerLabels
    BY <1>3, Types
  <2> QED BY <1>1, <1>3, <1>4, <2>1, <2>2, <2>3, LocalStep, Types, ZenonT(60)
<1>7. CASE q # <<>>
  <2>1. /\ h \in Threads /\ elem_find(q, h) /\ Tail(q) \in Seq(Threads)
        /\ IsInjective(Tail(q))
        /\ \A u \in Threads : elem_find(Tail(q), u) <=> elem_find(q, u) /\ u # h
    BY <1>5, <1>7, PopHead, Zenon
  <2>2. h # t /\ Blocked(sys, h) /\ pc[h] = "woken"
    BY <1>2, <2>1, Zenon DEF IInv, WaitersInv
  <2>3. sys' = thread_unblock(sys, h) /\ waiters' = [waiters EXCEPT ![ioq] = Tail(q)]
    BY <1>3, <1>7, Zenon DEF WakeFirst
  <2>4. /\ sys' \in SchedulerState /\ WellFormed(sys', {})
        /\ \A u \in Threads : sys'.status[u] # NONE
        /\ \A u \in Threads : Blocked(sys', u) <=> Blocked(sys, u) /\ u # h
    BY <1>2, <2>1, <2>2, <2>3, WakeStep
  <2>5. waiters'[ioq] = Tail(q)
    BY <2>3, Types, Zenon
  <2> HIDE DEF h
  <2>6. TypeOK'
    <3>1. waiters' \in [Locks -> Seq(Threads)]
      BY <2>1, <2>3, Types, Zenon
    <3>2. value' \in [Locks -> 0..1] /\ pc' \in [Threads -> SyncLabels \union CallerLabels]
      BY <1>3, Types DEF CallerLabels
    <3> QED BY <1>3, <2>4, <3>1, <3>2, Types, Zenon DEF TypeOK, ring, RingOK
  <2>7. FrameInv'
    BY <1>1, <1>3, <2>4, Types, Zenon DEF IInv, FrameInv
  <2>8. WaitersInv'
    BY <1>1, <1>2, <1>3, <2>1, <2>4, <2>5, Types, Zenon DEF IInv, WaitersInv
  <2>9. RecordInv'
    BY <1>2, <1>3, <2>2, <2>4, Types, Zenon DEF IInv, RecordInv
  <2> QED BY <1>4, <2>4, <2>6, <2>7, <2>8, <2>9, Zenon DEF IInv
<1> QED BY <1>6, <1>7, Zenon

\* A character that goes in or out wakes who is on record for it; whoever moves, if
\* anyone does, is back with its caller.
LEMMA CharStep ==
  ASSUME IInv, NEW w \in {consumer, producer}, NEW s \in SchedulerState,
         WellFormed(s, {}), s.status = sys.status, s.cur = sys.cur,
         NEW r, r = wakeup(s, w),
         sys' = r \/ sys' = EnableIntr(r),
         NEW t \in Threads, ~Blocked(sys, t),
         (pc' = [pc EXCEPT ![t] = "run"] /\ ~Owns(t)) \/ UNCHANGED pc,
         UNCHANGED <<value, waiters, holder, holder_repeat_nr, lk, ret, saved>>,
         RingOK',
         \/ w = consumer /\ consumer' = NULL /\ producer' = producer
         \/ w = producer /\ producer' = NULL /\ consumer' = consumer
  PROVE  IInv'
<1>1. /\ r \in SchedulerState /\ WellFormed(r, {})
      /\ \A u \in Threads : r.status[u] # NONE
      /\ \A u \in Threads : Blocked(r, u) <=> Blocked(sys, u) /\ u # w
  <2>1. CASE w = NULL
    <3>1. r = s
      BY <2>1, Zenon DEF wakeup
    <3> QED BY <2>1, <3>1, Types, Zenon DEF IInv, FrameInv, Blocked
  <2>2. CASE w # NULL
    <3>1. w \in Threads /\ Blocked(sys, w) /\ r = thread_unblock(s, w)
      BY <2>2, Types DEF wakeup, IInv, RecordInv
    <3> QED BY <3>1, WakeStep
  <2> QED BY <2>1, <2>2, Zenon
<1>2. sys' \in SchedulerState /\ WellFormed(sys', {}) /\ sys'.status = r.status
  <2>1. CASE sys' = r
    BY <1>1, <2>1, Zenon
  <2>2. CASE sys' = EnableIntr(r)
    <3>1. EnableIntr(r) = [r EXCEPT !.intr = TRUE]
      BY Zenon DEF EnableIntr
    <3>2. sys' \in SchedulerState /\ WellFormed(sys', {})
      BY <1>1, <2>2, <3>1, IntrFacts, Zenon
    <3>3. sys'.status = r.status
      BY <1>1, <2>2, <3>1, Zenon DEF SchedulerState
    <3> QED BY <3>2, <3>3, Zenon
  <2> QED BY <2>1, <2>2, Zenon
<1>3. /\ \A u \in Threads : sys'.status[u] # NONE
      /\ \A u \in Threads : Blocked(sys', u) <=> Blocked(sys, u) /\ u # w
  BY <1>1, <1>2, Zenon DEF Blocked
<1>4. \A u \in Threads : pc'[u] = pc[u] \/ (u = t /\ pc'[u] = "run")
  <2>1. CASE pc' = [pc EXCEPT ![t] = "run"] /\ ~Owns(t)
    BY <2>1, Types, Zenon
  <2>2. CASE UNCHANGED pc
    BY <2>2, Zenon
  <2> QED BY <2>1, <2>2, Zenon
<1>5. TypeOK'
  <2>1. pc' \in [Threads -> SyncLabels \union CallerLabels]
    BY Types, Zenon DEF CallerLabels
  <2> QED BY <1>2, <2>1, Types, Zenon DEF TypeOK
<1>6. FrameInv'
  BY <1>3, <1>4, Zenon DEF IInv, FrameInv
<1>7. OwnerInv'
  <2>1. \A u \in Threads : (Owns(u)' <=> Owns(u)) /\ (Owns(u) => pc'[u] = pc[u])
    BY <1>4, Zenon DEF Owns
  <2> QED BY <2>1, Types, Zenon DEF IInv, OwnerInv
<1>8. WaitersInv'
  <2>1. w # NULL => pc[w] # "woken"
    <3>1. CASE w = consumer
      BY <3>1, Zenon DEF IInv, RecordInv
    <3>2. CASE w = producer
      BY <3>2, Zenon DEF IInv, RecordInv
    <3> QED BY <3>1, <3>2, Zenon
  <2>2. \A u \in Threads : pc[u] = "woken" => u # w
    BY <2>1, Types, Zenon
  <2> QED BY <1>3, <1>4, <2>2, Types, Zenon DEF IInv, WaitersInv
<1>9. RecordInv'
  BY <1>3, <1>4, Types, Zenon DEF IInv, RecordInv
<1> QED BY <1>2, <1>5, <1>6, <1>7, <1>8, <1>9, Zenon DEF IInv

\* ioq_getchar reads a character and wakes the producer on record.
LEMMA GetCharStep ==
  ASSUME IInv, IntrInv, NEW t \in Threads, GetChar(t) PROVE IInv'
<1>1. /\ sys \in SchedulerState /\ WellFormed(sys, {}) /\ ~Blocked(sys, t) /\ ~Owns(t)
      /\ ~sys.intr
  BY Stepping, Zenon DEF GetChar, At, Owns, IntrInv, KeptOff
<1>2. /\ pc' = [pc EXCEPT ![t] = "run"] /\ sys' = EnableIntr(wakeup(sys, producer))
      /\ UNCHANGED <<value, waiters, holder, holder_repeat_nr, lk, ret, saved>>
      /\ producer' = NULL /\ consumer' = consumer
  BY <1>1, Zenon DEF GetChar, ASSERT, Goto, Fetch, semaphore, lock
<1>3. RingOK'
  BY <1>1, FetchIsGet, Types, Zenon DEF GetChar
<1> QED BY <1>1, <1>2, <1>3, CharStep, Zenon

\* ioq_putchar stores a character and wakes the consumer on record.
LEMMA PutCharStep ==
  ASSUME IInv, IntrInv, NEW t \in Threads, NEW c \in Chars, PutChar(t, c) PROVE IInv'
<1>1. /\ sys \in SchedulerState /\ WellFormed(sys, {}) /\ ~Blocked(sys, t) /\ ~Owns(t)
      /\ ~sys.intr
  BY Stepping, Zenon DEF PutChar, At, Owns, IntrInv, KeptOff
<1>2. /\ pc' = [pc EXCEPT ![t] = "run"] /\ sys' = EnableIntr(wakeup(sys, consumer))
      /\ UNCHANGED <<value, waiters, holder, holder_repeat_nr, lk, ret, saved>>
      /\ consumer' = NULL /\ producer' = producer
  BY <1>1, Zenon DEF PutChar, ASSERT, Goto, Store, semaphore, lock
<1>3. RingOK'
  BY <1>1, StoreIsPut, Types, Zenon DEF PutChar
<1> QED BY <1>1, <1>2, <1>3, CharStep, Zenon

\* A step that concerns the scheduler alone: the timer, idle, a key without a character.
LEMMA QuietStep ==
  ASSUME IInv, sys' \in SchedulerState, WellFormed(sys', {}), SameBlocked(sys, sys', {}),
         UNCHANGED <<semaphore, lock, frame, ring, waiting>>
  PROVE  IInv'
<1>1. /\ UNCHANGED <<value, waiters, holder, holder_repeat_nr, pc, lk, ret, saved>>
      /\ UNCHANGED <<consumer, producer, ring>>
  BY Zenon DEF semaphore, lock, frame, waiting
<1>2. sys.cur \in Threads /\ Runs(sys, sys.cur)
  BY Zenon DEF IInv, TypeOK, SchedulerState, WellFormed, Runs
<1>3. ~Blocked(sys, sys.cur) /\ pc'[idle_thread] = "run"
  BY <1>1, <1>2, Stepping, ThreadAssumption, Zenon DEF IInv, FrameInv
<1>4. WaitersInv' /\ RecordInv' /\ \A u \in Threads : sys'.status[u] # NONE
  BY <1>1, <1>2, <1>3, SleepersKept, Zenon
<1>5. FrameInv'
  BY <1>1, <1>4, Zenon DEF IInv, FrameInv
<1>6. OwnerInv'
  BY <1>1, Zenon DEF IInv, OwnerInv, Owns
<1>7. TypeOK'
  BY <1>1, Types, Zenon DEF TypeOK, ring, RingOK
<1> QED BY <1>4, <1>5, <1>6, <1>7, Zenon DEF IInv

\* The keyboard interrupt, with a character or without, and with room for it or without.
LEMMA KeyboardStep ==
  ASSUME IInv, NEW c \in Chars \union {NULL}, KeyboardInterrupt(c) PROVE IInv'
<1> DEFINE e == EndHlt(sys)
<1>1. /\ sys \in SchedulerState /\ WellFormed(sys, {})
      /\ sys.cur \in Threads /\ Runs(sys, sys.cur)
  BY Zenon DEF IInv, TypeOK, SchedulerState, WellFormed, Runs
<1>2. /\ e \in SchedulerState /\ e.cur = sys.cur /\ e.status = sys.status
      /\ e.ready = sys.ready /\ e.panic = sys.panic
  BY <1>1, EndHltFacts, Zenon
<1>3. WellFormed(e, {}) /\ SameBlocked(sys, e, {})
  BY <1>1, <1>2, SameScheduling, Zenon
<1> HIDE DEF e
<1>4. CASE c = NULL \/ ioq_full
  <2>1. sys' = e /\ UNCHANGED <<semaphore, lock, frame, ring, waiting>>
    BY <1>4, Zenon DEF KeyboardInterrupt, e
  <2> QED BY <1>2, <1>3, <2>1, QuietStep, Zenon
<1>5. CASE ~(c = NULL \/ ioq_full)
  <2>1. /\ sys' = wakeup(e, consumer) /\ Store(c) /\ c \in Chars /\ ~ioq_full
        /\ UNCHANGED <<value, waiters, holder, holder_repeat_nr, pc, lk, ret, saved>>
    BY <1>5, Zenon DEF KeyboardInterrupt, e, semaphore, lock, frame
  <2>2. RingOK' /\ consumer' = NULL /\ producer' = producer
    BY <2>1, StoreIsPut, Types, Zenon DEF Store
  <2>3. ~Blocked(sys, sys.cur)
    BY <1>1, Stepping, Zenon
  <2> QED BY <1>1, <1>2, <1>3, <2>1, <2>2, <2>3, CharStep, Zenon
<1> QED BY <1>4, <1>5, Zenon

-----------------------------------------------------------------------------
(* Every call keeps interrupts off.                                        *)

\* Who the CPU is given to restores the interrupt flag it saved.
LEMMA ScheduleRestores ==
  ASSUME NEW s \in SchedulerState, schedule(s) \in SchedulerState, ~schedule(s).panic
  PROVE  schedule(s).old = s.old /\ schedule(s).intr = s.old[schedule(s).cur]
<1> DEFINE q == Requeue(s)
           w == WakeIdle(q)
           r == SwitchToHead(w)
           Fields == {"cur", "intr", "old", "status", "ready", "ticks", "at", "panic"}
<1>1. DOMAIN s = Fields
  BY Zenon DEF SchedulerState
<1>2. schedule(s) = r
  <2>1. panic_spin(s).panic
    BY Zenon DEF SchedulerState, panic_spin
  <2> QED BY <2>1, Zenon DEF schedule
<1>3. q.old = s.old /\ DOMAIN q = Fields
  BY <1>1, Zenon DEF Requeue, panic_spin
<1> HIDE DEF q
<1>4. w.old = q.old /\ DOMAIN w = Fields
  BY <1>3, Zenon DEF WakeIdle, thread_unblock, panic_spin
<1> HIDE DEF w
<1>5. ~(w.panic \/ w.ready = <<>>)
  <2>1. panic_spin(w).panic
    BY <1>4, Zenon DEF panic_spin
  <2> QED BY <1>2, <2>1, Zenon DEF SwitchToHead
<1>6. r = [w EXCEPT !.cur = Head(w.ready), !.ready = Tail(@),
                    !.status[Head(w.ready)] = TASK_RUNING, !.intr = w.old[Head(w.ready)]]
  BY <1>5, Zenon DEF SwitchToHead
<1>7. r.old = w.old /\ r.cur = Head(w.ready) /\ r.intr = w.old[Head(w.ready)]
  BY <1>4, <1>6, Zenon
<1> QED BY <1>2, <1>3, <1>4, <1>7, Zenon

\* What thread_block, the timer and idle do to the saved flags: only the running thread
\* saves its flag, and another that runs afterwards has its own again.
Restored(s, r) ==
  /\ \A t \in Threads \ {s.cur} : r.old[t] = s.old[t]
  /\ r.cur = s.cur \/ r.intr = r.old[r.cur]

\* thread_block saves and restores, also for its caller.
LEMMA BlockRestores ==
  ASSUME NEW s \in SchedulerState, WellFormed(s, {})
  PROVE  LET r == thread_block(s, TASK_BLOCKED) IN
         Restored(s, r) /\ r.old[s.cur] = s.intr /\ r.intr = r.old[r.cur]
<1> DEFINE p == [SaveIntr(s) EXCEPT !.status[s.cur] = TASK_BLOCKED]
<1>1. TASK_BLOCKED \in NotScheduled /\ TASK_BLOCKED \in task_status
  BY Zenon DEF NotScheduled, task_status
<1>2. thread_block(s, TASK_BLOCKED) = schedule(p)
  BY <1>1, Zenon DEF thread_block
<1>3. p \in SchedulerState /\ p.old = [s.old EXCEPT ![s.cur] = s.intr]
  BY <1>1, Zenon DEF SaveIntr, SchedulerState
<1> HIDE DEF p
<1>4. schedule(p) \in SchedulerState /\ ~schedule(p).panic
  BY <1>1, <1>2, BlockFacts, Zenon DEF WellFormed
<1>5. schedule(p).old = p.old /\ schedule(p).intr = p.old[schedule(p).cur]
  BY <1>3, <1>4, ScheduleRestores, Zenon
<1> QED BY <1>2, <1>3, <1>5 DEF Restored, SchedulerState

\* So do the timer interrupt and idle.
LEMMA TimerRestores ==
  ASSUME NEW s \in SchedulerState, WellFormed(s, {})
  PROVE  Restored(s, intr_timer_handler(s))
<1> DEFINE e == EndHlt(s)
           p == SaveIntr(e)
           r == intr_timer_handler(s)
<1>1. e \in SchedulerState /\ e.cur = s.cur /\ e.intr = s.intr /\ e.old = s.old
  BY EndHltFacts, Zenon
<1>2. r \in SchedulerState /\ ~r.panic
  BY TimerFacts, Zenon DEF WellFormed
<1>3. CASE s.ticks[s.cur] = 0
  <2>1. r = schedule(p)
    BY <1>3, Zenon DEF intr_timer_handler
  <2>2. p \in SchedulerState /\ p.old = [s.old EXCEPT ![s.cur] = s.intr]
    <3> HIDE DEF e
    <3> QED BY <1>1, ZenonT(60) DEF SaveIntr, SchedulerState
  <2> HIDE DEF p, r
  <2>3. r.old = p.old /\ r.intr = p.old[r.cur]
    BY <1>2, <2>1, <2>2, ScheduleRestores, Zenon
  <2> QED BY <2>2, <2>3 DEF Restored, SchedulerState, r
<1>4. CASE s.ticks[s.cur] # 0
  <2>1. r = [e EXCEPT !.ticks[s.cur] = @ - 1]
    BY <1>4, Zenon DEF intr_timer_handler
  <2> HIDE DEF e
  <2>2. r.old = e.old /\ r.cur = e.cur
    BY <1>1, <2>1, Zenon DEF SchedulerState
  <2> HIDE DEF r
  <2> QED BY <1>1, <2>2, Zenon DEF Restored, r
<1> QED BY <1>3, <1>4, Zenon

\* idle calls thread_block, and turns its own interrupts on.
LEMMA IdleRestores ==
  ASSUME NEW s \in SchedulerState, WellFormed(s, {})
  PROVE  Restored(s, idle(s))
<1> DEFINE h == [s EXCEPT !.at = "sti"]
<1>1. /\ h \in SchedulerState /\ h.cur = s.cur /\ h.status = s.status /\ h.ready = s.ready
      /\ h.panic = s.panic /\ h.old = s.old
  BY Zenon DEF SchedulerState
<1>2. CASE s.at = "block"
  <2>1. idle(s) = thread_block(h, TASK_BLOCKED)
    BY <1>2, Zenon DEF idle
  <2> HIDE DEF h
  <2>2. WellFormed(h, {})
    BY <1>1, SameScheduling, Zenon
  <2>3. Restored(h, idle(s))
    BY <1>1, <2>1, <2>2, BlockRestores, Zenon
  <2> QED BY <1>1, <2>3, Zenon DEF Restored
<1>3. CASE s.at # "block"
  <2>1. idle(s) = [s EXCEPT !.intr = TRUE, !.at = "hlt"]
    BY <1>3, Zenon DEF idle
  <2>2. idle(s).cur = s.cur /\ idle(s).old = s.old
    BY <2>1, Zenon DEF SchedulerState
  <2> QED BY <2>2, Zenon DEF Restored
<1> QED BY <1>2, <1>3, Zenon

\* A step of the running thread that leaves it running, with interrupts off or out of
\* its call.
LEMMA StaysOff ==
  ASSUME IInv, IntrInv, NEW t \in Threads, Runs(sys, t), NEW label,
         pc' = [pc EXCEPT ![t] = label] \/ UNCHANGED pc, UNCHANGED saved,
         sys'.cur = t, sys'.old = sys.old, ~sys'.intr \/ pc'[t] = "run", pc'[t] # "woken"
  PROVE  IntrInv'
<1>1. \A u \in Threads \ {t} : pc'[u] = pc[u]
  BY Types, Zenon
<1> QED BY <1>1, Zenon DEF IntrInv, KeptOff, Runs

\* thread_block of a thread that has interrupts off.
LEMMA BlocksOff ==
  ASSUME IInv, IntrInv, NEW t \in Threads, Runs(sys, t), NEW label,
         pc' = [pc EXCEPT ![t] = label], NEW s \in SchedulerState, WellFormed(s, {}),
         s.cur = t, s.old = sys.old, ~s.intr, sys' = thread_block(s, TASK_BLOCKED),
         \A u \in Threads \ {t} : saved'[u] = saved[u], label = "woken" => ~saved'[t]
  PROVE  IntrInv'
<1>1. (\A u \in Threads \ {t} : pc'[u] = pc[u]) /\ pc'[t] = label
  BY Types, Zenon
<1>2. Restored(s, sys') /\ sys'.old[t] = s.intr /\ sys'.intr = sys'.old[sys'.cur]
  BY BlockRestores, Zenon
<1>3. ASSUME NEW u \in Threads, pc'[u] # "run" PROVE KeptOff(u)'
  <2>1. ~sys'.old[u]
    BY <1>1, <1>2, <1>3, Zenon DEF IntrInv, KeptOff, Runs, Restored
  <2>2. sys'.cur = u => ~sys'.intr
    BY <1>2, <2>1, Zenon
  <2>3. pc'[u] = "woken" => ~saved'[u]
    BY <1>1, <1>3, Zenon DEF IntrInv, KeptOff
  <2> QED BY <2>1, <2>2, <2>3, Zenon DEF KeptOff
<1> QED BY <1>3, Zenon DEF IntrInv

\* A step of the scheduler while no call runs.
LEMMA SwitchOff ==
  ASSUME IInv, IntrInv, pc[sys.cur] = "run", Restored(sys, sys'), UNCHANGED <<pc, saved>>
  PROVE  IntrInv'
<1> SUFFICES ASSUME NEW t \in Threads, pc[t] # "run" PROVE KeptOff(t)'
  BY Zenon DEF IntrInv
<1>1. ~sys.old[t] /\ t # sys.cur /\ (pc[t] = "woken" => ~saved[t])
  BY Zenon DEF IntrInv, KeptOff
<1> QED BY <1>1, Zenon DEF Restored, KeptOff

\* Waking a thread leaves the interrupt flags alone.
LEMMA UnblockKeeps ==
  ASSUME NEW s \in SchedulerState, NEW t
  PROVE  LET r == thread_unblock(s, t) IN r.cur = s.cur /\ r.old = s.old /\ r.intr = s.intr
  BY Zenon DEF thread_unblock, panic_spin, SchedulerState

\* The steps of a call that do not touch the semaphore.
LEMMA InsideOff ==
  ASSUME IInv, IntrInv, NEW t \in Threads,
         \/ GetEmpty(t) \/ GetAwake(t) \/ PutFull(t) \/ PutAwake(t)
         \/ lock_acquire(t) \/ SetHolder(t) \/ SetRepeat(t)
         \/ ReleaseInner(t) \/ ReleaseLast(t) \/ ClearRepeat(t)
  PROVE  IntrInv'
<1> USE DEF At, Goto, Call, ASSERT, semaphore, lock, frame
<1>1. /\ Runs(sys, t) /\ pc[t] \notin {"run", "woken"} /\ UNCHANGED saved
      /\ sys' = sys \/ sys' = panic_spin(sys)
      /\ \/ UNCHANGED pc
         \/ pc' = [pc EXCEPT ![t] = "acquire"] \/ pc' = [pc EXCEPT ![t] = "release"]
         \/ pc' = [pc EXCEPT ![t] = "down"] \/ pc' = [pc EXCEPT ![t] = "set_repeat"]
         \/ pc' = [pc EXCEPT ![t] = "clear_repeat"] \/ pc' = [pc EXCEPT ![t] = "up"]
         \/ pc' = [pc EXCEPT ![t] = ret[t]]
  <2>1. CASE GetEmpty(t) \/ GetAwake(t) \/ PutFull(t) \/ PutAwake(t)
    BY <2>1, Zenon DEF GetEmpty, GetAwake, PutFull, PutAwake
  <2>2. CASE lock_acquire(t) \/ SetHolder(t) \/ SetRepeat(t)
    BY <2>2, Zenon DEF lock_acquire, SetHolder, SetRepeat
  <2>3. CASE ReleaseInner(t) \/ ReleaseLast(t) \/ ClearRepeat(t)
    BY <2>3, Zenon DEF ReleaseInner, ReleaseLast, ClearRepeat
  <2> QED BY <2>1, <2>2, <2>3, Zenon
<1>2. sys \in SchedulerState /\ sys.cur = t /\ ~sys.intr
  BY <1>1, Zenon DEF IInv, TypeOK, IntrInv, KeptOff, Runs
<1>3. sys'.cur = t /\ sys'.old = sys.old /\ ~sys'.intr
  BY <1>1, <1>2, Zenon DEF panic_spin, SchedulerState
<1>4. ret[t] # "woken"
  BY Types, Zenon DEF CallerLabels
<1>5. pc'[t] # "woken"
  BY <1>1, <1>4, Types, Zenon
<1> QED BY <1>1, <1>3, <1>5, StaysOff, Zenon

\* The steps that begin and end a call, and those of its semaphore.
LEMMA ThreadOff ==
  ASSUME IInv, IntrInv, NEW t \in Threads, ThreadStep(t)
  PROVE  IntrInv'
<1> USE DEF At, Goto, ASSERT, semaphore, lock, frame
<1>0. sys \in SchedulerState /\ sys.cur \in Threads /\ WellFormed(sys, {})
  BY Zenon DEF IInv, TypeOK, SchedulerState
<1>1. ASSUME Runs(sys, t), pc[t] # "run"
      PROVE  sys.cur = t /\ ~sys.intr /\ (pc[t] = "woken" => ~saved[t])
  BY <1>1, Zenon DEF IntrInv, KeptOff, Runs
<1>2. /\ panic_spin(sys).cur = sys.cur /\ panic_spin(sys).old = sys.old
      /\ panic_spin(sys).intr = sys.intr
  BY <1>0, Zenon DEF panic_spin, SchedulerState
<1>3. CASE GetCall(t) \/ PutCall(t)
  <2>1. /\ Runs(sys, t) /\ sys' = [sys EXCEPT !.intr = FALSE] /\ UNCHANGED saved
        /\ pc' = [pc EXCEPT ![t] = "get"] \/ pc' = [pc EXCEPT ![t] = "put"]
    BY <1>3, Zenon DEF GetCall, PutCall
  <2>2. sys'.cur = t /\ sys'.old = sys.old /\ ~sys'.intr
    BY <1>0, <2>1, Zenon DEF SchedulerState, Runs
  <2>3. pc'[t] # "woken"
    BY <2>1, Types, Zenon
  <2> QED BY <2>1, <2>2, <2>3, StaysOff, Zenon
<1>4. CASE GetChar(t) \/ \E c \in Chars : PutChar(t, c)
  <2>1. /\ Runs(sys, t) /\ pc[t] # "run" /\ UNCHANGED saved
        /\ ~sys.intr => /\ pc' = [pc EXCEPT ![t] = "run"]
                        /\ \/ sys' = EnableIntr(wakeup(sys, consumer))
                           \/ sys' = EnableIntr(wakeup(sys, producer))
    BY <1>4, Zenon DEF GetChar, PutChar
  <2>2. PICK w : sys' = EnableIntr(wakeup(sys, w)) /\ pc' = [pc EXCEPT ![t] = "run"]
    BY <1>1, <2>1, Zenon
  <2>3. sys'.cur = wakeup(sys, w).cur /\ sys'.old = wakeup(sys, w).old
    <3>1. wakeup(sys, w) = sys \/ wakeup(sys, w) = thread_unblock(sys, w)
      BY Zenon DEF wakeup
    <3>2. DOMAIN sys = DOMAIN wakeup(sys, w) /\ DOMAIN sys = {"cur", "intr", "old", "status", "ready", "ticks", "at", "panic"}
      BY <1>0, <3>1, Zenon DEF thread_unblock, panic_spin, SchedulerState
    <3> QED BY <2>2, <3>2, Zenon DEF EnableIntr
  <2>4. sys'.cur = t /\ sys'.old = sys.old
    BY <1>0, <1>1, <2>1, <2>3, UnblockKeeps, Zenon DEF wakeup
  <2>5. pc'[t] = "run"
    BY <2>2, Types, Zenon
  <2> QED BY <2>1, <2>2, <2>4, <2>5, StaysOff, Zenon
<1>5. CASE GetWait(t) \/ PutWait(t)
  <2>1. /\ Runs(sys, t) /\ pc[t] \notin {"run", "woken"} /\ UNCHANGED saved
        /\ \/ UNCHANGED pc /\ sys' = panic_spin(sys)
           \/ /\ sys' = thread_block(sys, TASK_BLOCKED)
              /\ \/ pc' = [pc EXCEPT ![t] = "get_awake"]
                 \/ pc' = [pc EXCEPT ![t] = "put_awake"]
    BY <1>5, Zenon DEF GetWait, PutWait
  <2>2. CASE UNCHANGED pc /\ sys' = panic_spin(sys)
    BY <1>1, <1>2, <2>1, <2>2, StaysOff, Zenon
  <2>3. CASE sys' = thread_block(sys, TASK_BLOCKED) /\ pc' = [pc EXCEPT ![t] = "get_awake"]
    BY <1>0, <1>1, <2>1, <2>3, BlocksOff, Zenon
  <2>4. CASE sys' = thread_block(sys, TASK_BLOCKED) /\ pc' = [pc EXCEPT ![t] = "put_awake"]
    BY <1>0, <1>1, <2>1, <2>4, BlocksOff, Zenon
  <2> QED BY <2>1, <2>2, <2>3, <2>4, Zenon
<1>6. CASE DownBlock(t)
  <2> DEFINE s == [sys EXCEPT !.intr = FALSE]
  <2>1. Runs(sys, t) /\ pc[t] \in {"down", "woken"} /\ ~elem_find(waiters[lk[t]], t)
    BY <1>6, Stepping, Types, Zenon DEF DownBlock
  <2>2. /\ sys' = thread_block(s, TASK_BLOCKED) /\ pc' = [pc EXCEPT ![t] = "woken"]
        /\ saved' = [saved EXCEPT ![t] = OldStatus(t)]
    BY <1>6, <2>1, Zenon DEF DownBlock
  <2>3. ~OldStatus(t)
    BY <1>1, <2>1, Zenon DEF OldStatus
  <2>4. /\ s \in SchedulerState /\ WellFormed(s, {}) /\ s.cur = t /\ s.old = sys.old
        /\ s.intr = FALSE
    BY <1>0, <1>1, <2>1, IntrFacts, ZenonT(60) DEF SchedulerState
  <2> HIDE DEF s
  <2>5. (\A u \in Threads \ {t} : saved'[u] = saved[u]) /\ ~saved'[t]
    BY <2>2, <2>3, Types, Zenon
  <2> QED BY <2>1, <2>2, <2>4, <2>5, BlocksOff, Zenon
<1>7. CASE DownTake(t)
  <2>1. Runs(sys, t) /\ pc[t] \in {"down", "woken"} /\ value[lk[t]] = 1
    BY <1>7, Types DEF DownTake
  <2>2. /\ sys' = [sys EXCEPT !.intr = OldStatus(t)] /\ pc' = [pc EXCEPT ![t] = "set_holder"]
        /\ UNCHANGED saved
    BY <1>7, <2>1, Zenon DEF DownTake
  <2>3. ~OldStatus(t)
    BY <1>1, <2>1, Zenon DEF OldStatus
  <2>4. sys'.cur = t /\ sys'.old = sys.old /\ ~sys'.intr
    BY <1>0, <2>1, <2>2, <2>3, Zenon DEF SchedulerState, Runs
  <2>5. pc'[t] = "set_holder"
    BY <2>2, Types, Zenon
  <2> QED BY <2>1, <2>2, <2>4, <2>5, StaysOff, Zenon
<1>8. CASE sema_up(t)
  <2>1. /\ Runs(sys, t) /\ pc[t] = "up" /\ UNCHANGED saved
        /\ \/ UNCHANGED pc /\ sys' = panic_spin(sys)
           \/ pc' = [pc EXCEPT ![t] = ret[t]] /\ sys' = WakeFirst(sys, waiters[lk[t]])
    BY <1>8, Zenon DEF sema_up
  <2>a. \/ sys' = sys \/ sys' = panic_spin(sys)
        \/ sys' = thread_unblock(sys, Head(waiters[lk[t]]))
    BY <2>1, Zenon DEF WakeFirst
  <2>b. sys.cur = t /\ ~sys.intr
    BY <1>1, <2>1, Zenon
  <2>c. ASSUME NEW h PROVE LET r == thread_unblock(sys, h) IN
          r.cur = sys.cur /\ r.old = sys.old /\ r.intr = sys.intr
    BY <1>0, UnblockKeeps, Zenon
  <2>2. sys'.cur = sys.cur /\ sys'.old = sys.old /\ sys'.intr = sys.intr
    BY <1>2, <2>a, <2>c
  <2>3. pc'[t] # "woken"
    BY <2>1, Types, Zenon DEF CallerLabels
  <2> QED BY <2>1, <2>2, <2>3, <2>b, StaysOff, Zenon
<1> QED BY <1>3, <1>4, <1>5, <1>6, <1>7, <1>8, InsideOff, Zenon
        DEF ThreadStep, ioq_getchar, ioq_putchar, SyncStep

\* No step lets a call run, or sleep to run later, with interrupts on.
LEMMA NextIntrInv == IInv /\ IntrInv /\ [Next]_vars => IntrInv'
<1> SUFFICES ASSUME IInv, IntrInv, [Next]_vars PROVE IntrInv'
  BY Zenon
<1>1. sys \in SchedulerState /\ WellFormed(sys, {}) /\ sys.cur \in Threads
  BY Zenon DEF IInv, TypeOK, SchedulerState
<1>2. CASE TimerInterrupt
  <2>1. pc[sys.cur] = "run"
    BY <1>1, <1>2, Zenon DEF IntrInv, KeptOff, TimerInterrupt, Interruptible
  <2>2. Restored(sys, sys') /\ UNCHANGED <<pc, saved>>
    BY <1>1, <1>2, TimerRestores, Zenon DEF TimerInterrupt, frame
  <2> QED BY <2>1, <2>2, SwitchOff, Zenon
<1>3. CASE Idle
  <2>1. pc[sys.cur] = "run"
    BY <1>1, <1>3, Zenon DEF IInv, FrameInv, Idle, Runs
  <2>2. Restored(sys, sys') /\ UNCHANGED <<pc, saved>>
    BY <1>1, <1>3, IdleRestores, Zenon DEF Idle, frame
  <2> QED BY <2>1, <2>2, SwitchOff, Zenon
<1>4. ASSUME NEW c, KeyboardInterrupt(c) PROVE IntrInv'
  <2> DEFINE e == EndHlt(sys)
  <2>1. e \in SchedulerState /\ e.cur = sys.cur /\ e.old = sys.old /\ e.intr = sys.intr
    BY <1>1, EndHltFacts, Zenon
  <2> HIDE DEF e
  <2>2. UNCHANGED <<pc, saved>> /\ (sys' = e \/ sys' = wakeup(e, consumer))
    BY <1>4, Zenon DEF KeyboardInterrupt, e, frame
  <2>3. sys'.cur = sys.cur /\ sys'.old = sys.old /\ sys'.intr = sys.intr
    BY <2>1, <2>2, UnblockKeeps, Zenon DEF wakeup
  <2> QED BY <2>2, <2>3, Zenon DEF IntrInv, KeptOff
<1>5. CASE UNCHANGED vars
  BY <1>5, Zenon DEF vars, syncVars, frame, IntrInv, KeptOff
<1> QED BY <1>2, <1>3, <1>4, <1>5, ThreadOff, Zenon DEF Next, Interrupt

-----------------------------------------------------------------------------
(* No assertion fails.                                                     *)

\* Every step of the threads and the interrupts preserves the invariant.
LEMMA NextIInv == IInv /\ IntrInv /\ [Next]_vars => IInv'
<1> SUFFICES ASSUME IInv, IntrInv, [Next]_vars PROVE IInv'
  BY Zenon
<1>1. sys \in SchedulerState /\ WellFormed(sys, {}) /\ sys.cur \notin {}
  BY Zenon DEF IInv, TypeOK
<1>2. ASSUME NEW t \in Threads, ioq_getchar(t) PROVE IInv'
  BY <1>2, CallerStep, WaitStep, GetCharStep, Zenon DEF ioq_getchar
<1>3. ASSUME NEW t \in Threads, ioq_putchar(t) PROVE IInv'
  BY <1>3, CallerStep, WaitStep, PutCharStep, Zenon DEF ioq_putchar
<1>4. ASSUME NEW t \in Threads, SyncStep(t), UNCHANGED <<ring, waiting>> PROVE IInv'
  BY <1>4, LockStep, DownTakeStep, DownBlockStep, SemaUpStep, Zenon DEF SyncStep
<1>5. CASE TimerInterrupt /\ UNCHANGED <<ring, waiting>>
  <2>1. sys' \in SchedulerState /\ WellFormed(sys', {}) /\ SameBlocked(sys, sys', {})
    BY <1>1, <1>5, TimerFacts, Zenon DEF TimerInterrupt
  <2> QED BY <1>5, <2>1, QuietStep, Zenon DEF TimerInterrupt
<1>6. CASE Idle /\ UNCHANGED <<ring, waiting>>
  <2>1. sys' \in SchedulerState /\ WellFormed(sys', {}) /\ SameBlocked(sys, sys', {})
    BY <1>1, <1>6, IdleFacts, Zenon DEF Idle, Runs
  <2> QED BY <1>6, <2>1, QuietStep, Zenon DEF Idle
<1>7. CASE UNCHANGED vars
  <2>1. UNCHANGED <<sys, semaphore, lock, frame, ring, waiting>>
    BY <1>7, Zenon DEF vars, syncVars
  <2>2. SameBlocked(sys, sys', {})
    BY <2>1, Zenon DEF SameBlocked
  <2> QED BY <1>1, <2>1, <2>2, QuietStep, Zenon
<1> QED BY <1>2, <1>3, <1>4, <1>5, <1>6, <1>7, KeyboardStep, Zenon DEF Next, ThreadStep, Interrupt

\* The invariant holds in every state of every behaviour.
THEOREM Invariance == Spec => [](IInv /\ IntrInv)
<1>1. Init => IntrInv
  BY Zenon DEF Init, IntrInv
<1> QED BY <1>1, InitIInv, NextIInv, NextIntrInv, PTL DEF Spec

\* No ASSERT of ioqueue.c, sync.c or thread.c fails: a caller that turned interrupts off
\* finds them off at every test of its loop, ioq_wait always finds its record empty, and
\* who is woken was blocked.
THEOREM NeverPanics == Spec => []NoPanic
<1>1. IInv => NoPanic
  BY Zenon DEF IInv, WellFormed, NoPanic
<1> QED BY <1>1, Invariance, PTL

-----------------------------------------------------------------------------
(* The single consumer.                                                    *)

\* While t is alone, only it can be on record, and not while it runs.
LEMMA AloneRecord ==
  ASSUME IInv, NEW t \in Consumers, Alone(t)
  PROVE  /\ t \in Threads /\ t \notin Producers /\ t # idle_thread
         /\ consumer \in {NULL, t} /\ producer = NULL
         /\ Runs(sys, t) \/ pc[t] # "get_awake" => consumer = NULL
<1>1. t \in Threads /\ t \notin Producers /\ t # idle_thread
  BY IoqueueAssumption, Zenon
<1>2. consumer # NULL => consumer = t /\ pc[t] = "get_awake"
  BY <1>1, Types, Zenon DEF IInv, RecordInv, Alone
<1>3. producer = NULL
  BY <1>1, Types, Zenon DEF IInv, RecordInv, Alone
<1>4. Runs(sys, t) => consumer # t
  BY <1>1, Stepping, Zenon
<1> QED BY <1>1, <1>2, <1>3, <1>4, Zenon

\* A switch while t is alone: t is in no call, or asleep.
LEMMA AloneSwitch ==
  ASSUME NEW t \in Consumers, Alone(t),
         pc[t] # "run" => sys.cur # t, UNCHANGED <<value, pc, ret, head, tail, consumer>>
  PROVE  Alone(t)'
<1>1. pc[t] # "run" => pc[t] = "get_awake"
  BY Zenon DEF Alone
<1> QED BY <1>1, Zenon DEF Alone, Owns, ioq_empty

\* A step of the alone thread itself.
LEMMA AloneThreadStep ==
  ASSUME IInv, IntrInv, NEW t \in Consumers, Alone(t), ThreadStep(t)
  PROVE  Alone(t)'
<1> USE DEF At, Goto, Call, semaphore, lock, waiting, ioq_empty
<1>1. /\ t \in Threads /\ t \notin Producers /\ t # idle_thread
      /\ consumer \in {NULL, t} /\ producer = NULL
  BY AloneRecord, Zenon
<1>2. Runs(sys, t)
  BY Zenon DEF ThreadStep, ioq_getchar, GetCall, GetEmpty, GetWait, GetAwake, GetChar,
         ioq_putchar, PutCall, PutFull, PutWait, PutAwake, PutChar, SyncStep, lock_acquire,
         DownBlock, DownTake, SetHolder, SetRepeat, ReleaseInner, ReleaseLast, ClearRepeat,
         sema_up
<1>3. /\ consumer = NULL /\ sys.cur = t /\ sys \in SchedulerState /\ WellFormed(sys, {})
      /\ pc[t] # "run" => ~sys.intr
  BY <1>1, <1>2, AloneRecord, Stepping, Zenon DEF IntrInv, KeptOff
<1>4. ASSUME NEW label, pc' = [pc EXCEPT ![t] = label]
      PROVE  pc'[t] = label /\ \A u \in Threads \ {t} : pc'[u] = "run"
  BY <1>1, <1>4, Types, Zenon DEF Alone
\* What a step must leave when t goes on at a label with interrupts off.
<1>0. ASSUME NEW label, pc' = [pc EXCEPT ![t] = label], sys'.cur = t, ~sys'.intr, consumer' = NULL,
             label \notin {"put", "put_wait", "put_awake", "woken"},
             value'[ioq] = 0 => label \in {"set_holder", "set_repeat", "get_wait", "release", "clear_repeat", "up"},
             label \in {"acquire", "down", "set_holder", "set_repeat"} => ret'[t] = "get_wait",
             label \in {"release", "clear_repeat", "up"} => ret'[t] = "get",
             label \in {"acquire", "down", "set_holder", "set_repeat", "get_wait"} => ioq_empty'
      PROVE  Alone(t)'
  BY <1>0, <1>4, Zenon DEF Alone, Owns
<1>5. CASE ioq_putchar(t)
  <2>1. pc[t] \notin {"put", "put_wait", "put_awake"}
    BY Zenon DEF Alone
  <2> QED BY <1>1, <1>5, <2>1, Zenon DEF ioq_putchar, PutCall, PutFull, PutWait, PutAwake, PutChar
<1>6. CASE GetCall(t)
  <2>1. /\ pc' = [pc EXCEPT ![t] = "get"] /\ UNCHANGED <<value, ret, consumer>>
        /\ sys' = [sys EXCEPT !.intr = FALSE] /\ pc[t] = "run"
    BY <1>6, Zenon DEF GetCall
  <2>2. sys'.cur = t /\ sys'.intr = FALSE
    BY <1>3, <2>1, Zenon DEF SchedulerState
  <2>3. value[ioq] # 0
    BY <2>1, Zenon DEF Alone, Owns
  <2> QED BY <1>0, <1>3, <2>1, <2>2, <2>3, Zenon
<1>7. CASE GetEmpty(t)
  <2>1. /\ pc' = [pc EXCEPT ![t] = "acquire"] /\ ret' = [ret EXCEPT ![t] = "get_wait"]
        /\ UNCHANGED <<value, sys, consumer, ring>> /\ pc[t] = "get" /\ ioq_empty
    BY <1>3, <1>7, Zenon DEF GetEmpty, ASSERT
  <2>2. value[ioq] # 0 /\ ret'[t] = "get_wait" /\ ~sys.intr
    BY <1>1, <1>3, <2>1, Types, Zenon DEF Alone, Owns
  <2>3. ioq_empty'
    BY <2>1, Zenon DEF ring, ioq_empty
  <2> QED BY <1>0, <1>3, <2>1, <2>2, <2>3, Zenon
<1>8. CASE GetWait(t)
  <2>1. /\ pc' = [pc EXCEPT ![t] = "get_awake"]
        /\ UNCHANGED <<value, ring>> /\ pc[t] = "get_wait"
    BY <1>3, <1>8, Zenon DEF GetWait, ASSERT
  <2>3. ioq_empty
    BY <2>1, Zenon DEF Alone
  <2>5. pc'[t] = "get_awake" /\ \A u \in Threads \ {t} : pc'[u] = "run"
    BY <1>4, <2>1, Zenon
  <2>6. ioq_empty'
    BY <2>1, <2>3, Zenon DEF ring
  <2> QED BY <2>5, <2>6, Zenon DEF Alone, Owns
<1>9. CASE GetAwake(t)
  <2>1. /\ pc' = [pc EXCEPT ![t] = "release"] /\ ret' = [ret EXCEPT ![t] = "get"]
        /\ UNCHANGED <<value, sys, consumer, ring>> /\ pc[t] = "get_awake"
    BY <1>9, Zenon DEF GetAwake
  <2>2. ret'[t] = "get" /\ ~sys.intr
    BY <1>1, <1>3, <2>1, Types, Zenon DEF Alone
  <2> QED BY <1>0, <1>3, <2>1, <2>2, Zenon
<1>10. CASE GetChar(t)
  <2>1. /\ pc' = [pc EXCEPT ![t] = "run"] /\ UNCHANGED <<value, consumer>> /\ pc[t] = "get"
    BY <1>3, <1>10, Zenon DEF GetChar, ASSERT, Fetch
  <2>2. value[ioq] # 0
    BY <2>1, Zenon DEF Alone, Owns
  <2> QED BY <1>3, <1>4, <2>1, <2>2, ZenonT(60) DEF Alone, Owns
<1>11. CASE SyncStep(t) /\ UNCHANGED <<ring, waiting>>
  <2>1. UNCHANGED <<head, tail, consumer>> /\ lk[t] = ioq
    BY <1>1, <1>11, Types, Zenon DEF ring
  <2>2. CASE lock_acquire(t)
    <3>1. /\ pc[t] = "acquire" /\ UNCHANGED <<sys, value, ret>> /\ holder[ioq] # t
          /\ pc' = [pc EXCEPT ![t] = "down"]
      BY <1>1, <2>1, <2>2, Types, Zenon DEF lock_acquire, IInv, OwnerInv, Owns
    <3>2. value[ioq] # 0 /\ ret[t] = "get_wait" /\ ~sys.intr /\ ioq_empty
      BY <1>3, <3>1, Zenon DEF Alone, Owns
    <3>3. ioq_empty'
      BY <2>1, <3>2, Zenon DEF ioq_empty
    <3> QED BY <1>0, <1>3, <2>1, <3>1, <3>2, <3>3, Zenon
  <2>3. CASE DownBlock(t)
    BY <2>1, <2>3, Zenon DEF DownBlock, Alone, Owns
  <2>4. CASE DownTake(t)
    <3>1. pc[t] = "down" /\ ~sys.intr /\ value[ioq] = 1
      BY <1>1, <1>3, <2>1, <2>4, Types DEF DownTake, Alone
    <3>2. /\ pc' = [pc EXCEPT ![t] = "set_holder"] /\ sys' = [sys EXCEPT !.intr = sys.intr]
          /\ UNCHANGED ret
      BY <2>1, <2>4, <3>1, Zenon DEF DownTake, ASSERT, OldStatus
    <3>3. sys'.cur = t /\ ~sys'.intr
      BY <1>3, <3>1, <3>2, Zenon DEF SchedulerState
    <3> QED BY <1>3, <1>4, <2>1, <3>1, <3>2, <3>3, Zenon DEF Alone, Owns
  <2>5. CASE SetHolder(t) \/ SetRepeat(t)
    <3>1. pc[t] \in {"set_holder", "set_repeat"} /\ ret[t] = "get_wait" /\ ~sys.intr
      BY <1>3, <2>5, Zenon DEF SetHolder, SetRepeat, Alone
    <3>2. SetRepeat(t) => holder_repeat_nr[ioq] = 0
      BY <1>1, Zenon DEF SetRepeat, IInv, OwnerInv, Owns
    <3>3. /\ UNCHANGED <<sys, value, ret>>
          /\ \/ pc' = [pc EXCEPT ![t] = "set_repeat"]
             \/ pc' = [pc EXCEPT ![t] = "get_wait"]
      BY <2>1, <2>5, <3>1, <3>2, Zenon DEF SetHolder, SetRepeat, ASSERT
    <3>4. ioq_empty'
      <4>1. ioq_empty
        BY <3>1, Zenon DEF Alone
      <4> QED BY <2>1, <4>1, Zenon DEF ioq_empty
    <3>5. CASE pc' = [pc EXCEPT ![t] = "set_repeat"]
      BY <1>0, <1>3, <2>1, <3>1, <3>3, <3>4, <3>5, Zenon
    <3>6. CASE pc' = [pc EXCEPT ![t] = "get_wait"]
      BY <1>0, <1>3, <2>1, <3>1, <3>3, <3>4, <3>6, Zenon
    <3> QED BY <3>3, <3>5, <3>6, Zenon
  <2>6. CASE ReleaseInner(t) \/ ReleaseLast(t) \/ ClearRepeat(t)
    <3>1. pc[t] \in {"release", "clear_repeat"} /\ ret[t] = "get" /\ ~sys.intr
      BY <1>3, <2>6, Zenon DEF ReleaseInner, ReleaseLast, ClearRepeat, Alone
    <3>2. pc[t] = "release" => holder[lk[t]] = t /\ holder_repeat_nr[lk[t]] = 1
      BY <1>1, <2>1, Zenon DEF IInv, OwnerInv, Owns
    <3>3. ~ReleaseInner(t)
      <4> SUFFICES ASSUME ReleaseInner(t) PROVE FALSE
        BY Zenon
      <4>1. holder_repeat_nr[lk[t]] > 1 /\ holder_repeat_nr[lk[t]] = 1
        BY <3>2, Zenon DEF ReleaseInner
      <4> QED BY <4>1
    <3>4. /\ UNCHANGED <<sys, value, ret>>
          /\ \/ pc' = [pc EXCEPT ![t] = "clear_repeat"]
             \/ pc' = [pc EXCEPT ![t] = "up"]
      BY <2>6, <3>2, <3>3, Zenon DEF ReleaseLast, ClearRepeat, ASSERT
    <3>5. CASE pc' = [pc EXCEPT ![t] = "clear_repeat"]
      BY <1>0, <1>3, <2>1, <3>1, <3>4, <3>5, Zenon
    <3>6. CASE pc' = [pc EXCEPT ![t] = "up"]
      BY <1>0, <1>3, <2>1, <3>1, <3>4, <3>6, Zenon
    <3> QED BY <3>4, <3>5, <3>6, Zenon
  <2>7. CASE sema_up(t)
    <3>1. pc[t] = "up" /\ ret[t] = "get" /\ ~sys.intr /\ value[ioq] = 0
      BY <1>1, <1>3, <2>7, Zenon DEF sema_up, Alone, IInv, OwnerInv, Owns
    <3>2. waiters[ioq] = <<>>
      <4>1. \A u \in Threads : ~elem_find(waiters[ioq], u)
        BY <1>1, <3>1, Zenon DEF IInv, WaitersInv, Alone
      <4> DEFINE q == waiters[ioq]
      <4>2. q \in Seq(Threads)
        BY Types, Zenon
      <4> HIDE DEF q
      <4>3. q # <<>> => 1 \in DOMAIN q /\ q[1] \in Threads
        BY <4>2
      <4> QED BY <4>1, <4>3, Zenon DEF elem_find, q
    <3>3. /\ pc' = [pc EXCEPT ![t] = "get"] /\ UNCHANGED <<sys, ret>>
          /\ value' = [value EXCEPT ![ioq] = 0 + 1]
      BY <2>1, <2>7, <3>1, <3>2, Zenon DEF sema_up, ASSERT, WakeFirst, Goto
    <3>4. value'[ioq] # 0
      <4>1. value'[ioq] = 0 + 1
        BY <3>3, Types, Zenon
      <4> QED BY <4>1
    <3> QED BY <1>0, <1>3, <2>1, <3>1, <3>3, <3>4, Zenon
  <2> QED BY <1>11, <2>2, <2>3, <2>4, <2>5, <2>6, <2>7, Zenon DEF SyncStep
<1> QED BY <1>5, <1>6, <1>7, <1>8, <1>9, <1>10, <1>11, Zenon DEF ThreadStep, ioq_getchar

\* A keyboard interrupt while t is alone: it finds t without a call, or asleep.
LEMMA AloneKeyboard ==
  ASSUME IInv, IntrInv, NEW t \in Consumers, Alone(t), NEW c \in Chars \union {NULL},
         KeyboardInterrupt(c)
  PROVE  Alone(t)'
<1> DEFINE e == EndHlt(sys)
<1>1. /\ sys \in SchedulerState /\ sys.intr /\ WellFormed(sys, {})
      /\ UNCHANGED <<value, pc, ret, tail>>
  BY Zenon DEF IInv, TypeOK, KeyboardInterrupt, Interruptible, semaphore, frame, ring, Store
<1>2. pc[t] # "run" => pc[t] = "get_awake"
  BY <1>1, AloneRecord, Zenon DEF Alone, IntrInv, KeptOff
<1>3. /\ e \in SchedulerState /\ e.cur = sys.cur
      /\ e.status = sys.status /\ e.ready = sys.ready /\ e.panic = sys.panic
  BY <1>1, EndHltFacts, Zenon
<1>4. WellFormed(e, {})
  BY <1>1, <1>3, SameScheduling, Zenon
<1> HIDE DEF e
<1>5. sys'.cur = sys.cur /\ (consumer' # NULL => UNCHANGED <<head, consumer>>)
  <2>1. CASE c = NULL \/ ioq_full
    BY <1>3, <2>1, Zenon DEF KeyboardInterrupt, e, ring, waiting
  <2>2. CASE ~(c = NULL \/ ioq_full)
    <3>1. sys' = wakeup(e, consumer) /\ consumer' = NULL
      BY <2>2, Zenon DEF KeyboardInterrupt, e, Store
    <3>2. CASE consumer = NULL
      BY <1>3, <3>1, <3>2, Zenon DEF wakeup
    <3>3. CASE consumer # NULL
      <4>1. consumer \in Threads /\ Blocked(sys, consumer)
        BY <3>3, Types, Zenon DEF IInv, RecordInv
      <4>2. sys' = thread_unblock(e, consumer)
        BY <3>1, <3>3, Zenon DEF wakeup
      <4>3. sys'.cur = e.cur
        BY <1>3, <1>4, <4>1, <4>2, WakeStep, Zenon
      <4> QED BY <1>3, <3>1, <4>3, Zenon
    <3> QED BY <3>2, <3>3, Zenon
  <2> QED BY <2>1, <2>2, Zenon
<1> QED BY <1>1, <1>2, <1>5, Zenon DEF Alone, Owns, ioq_empty

\* Every step preserves what a consumer that is alone relies on.
LEMMA NextAlone == IInv /\ IntrInv /\ AloneInv /\ [Next]_vars => AloneInv'
<1> SUFFICES ASSUME IInv, IntrInv, AloneInv, [Next]_vars, NEW t \in Consumers, users' = {t}
             PROVE  Alone(t)'
  BY Zenon DEF AloneInv
<1>1. users = {t} /\ Alone(t)
  BY Zenon DEF AloneInv, Next, vars
<1>2. sys \in SchedulerState /\ WellFormed(sys, {}) /\ t \in Threads
  BY <1>1, AloneRecord, Zenon DEF IInv, TypeOK
<1>3. ASSUME NEW u \in Threads, ThreadStep(u) PROVE u = t
  <2> SUFFICES ASSUME u # t PROVE FALSE
    BY Zenon
  <2>1. pc[u] = "run" /\ u \notin users
    BY <1>1, Zenon DEF Alone
  <2> QED BY <1>3, <2>1, Zenon
    DEF ThreadStep, ioq_getchar, GetCall, GetEmpty, GetWait, GetAwake, GetChar, ioq_putchar,
        PutCall, PutFull, PutWait, PutAwake, PutChar, SyncStep, lock_acquire, DownBlock,
        DownTake, SetHolder, SetRepeat, ReleaseInner, ReleaseLast, ClearRepeat, sema_up, At
<1>4. CASE TimerInterrupt /\ UNCHANGED <<ring, waiting>>
  <2>1. sys.intr /\ UNCHANGED <<value, pc, ret, head, tail, consumer>>
    BY <1>4, Zenon DEF TimerInterrupt, Interruptible, ring, waiting, semaphore, frame
  <2>2. pc[t] # "run" => sys.cur # t
    BY <1>2, <2>1, Zenon DEF IntrInv, KeptOff
  <2> QED BY <1>1, <2>1, <2>2, AloneSwitch, Zenon
<1>5. CASE Idle /\ UNCHANGED <<ring, waiting>>
  <2>1. sys.cur = idle_thread /\ UNCHANGED <<value, pc, ret, head, tail, consumer>>
    BY <1>5, Zenon DEF Idle, Runs, ring, waiting, semaphore, frame
  <2>2. sys.cur # t
    BY <1>1, <2>1, AloneRecord, Zenon
  <2> QED BY <1>1, <2>1, <2>2, AloneSwitch, Zenon
<1>6. CASE UNCHANGED vars
  BY <1>1, <1>6, Zenon DEF vars, syncVars, semaphore, frame, ring, waiting, Alone, Owns, ioq_empty
<1> QED BY <1>1, <1>3, <1>4, <1>5, <1>6, AloneThreadStep, AloneKeyboard, Zenon DEF Next, Interrupt

\* With the keyboard as the only producer and one consumer, the consumer sleeps in
\* ioq_wait only while there is nothing to read: no key comes between its test of the
\* queue and its sleep.
THEOREM SleepsOnEmpty == Spec => []SleepsOnlyOnEmpty
<1>1. Init => AloneInv
  <2> SUFFICES ASSUME Init, NEW t \in Consumers PROVE Alone(t)
    BY Zenon DEF AloneInv
  <2>1. /\ \A u \in Threads : pc[u] = "run"
        /\ value[ioq] # 0 /\ t \in Threads /\ consumer = NULL
    BY IoqueueAssumption DEF Init, SyncInit
  <2> QED BY <2>1, Zenon DEF Alone
<1>2. AloneInv => SleepsOnlyOnEmpty
  BY Zenon DEF AloneInv, Alone, SleepsOnlyOnEmpty
<1> QED BY <1>1, <1>2, NextAlone, Invariance, PTL DEF Spec
=============================================================================
