---------------------------- MODULE ThreadProofs ----------------------------
(***************************************************************************)
(* What the functions of Thread preserve, for any number of threads.       *)
(***************************************************************************)
EXTENDS Thread, TLAPS

\* The state in which schedule() looks for the next thread: no thread has the
\* status TASK_RUNING.
Between(s, New) ==
  /\ ~s.panic
  /\ ReadyExact(s, New)
  /\ \A t \in Threads : s.status[t] # TASK_RUNING
  /\ Created(s, New)

\* A thread that is not in an injective sequence can be appended to it.
LEMMA AppendNew ==
  ASSUME NEW q \in Seq(Threads), NEW t \in Threads, IsInjective(q), ~elem_find(q, t)
  PROVE  /\ Append(q, t) \in Seq(Threads)
         /\ IsInjective(Append(q, t))
         /\ \A u \in Threads : elem_find(Append(q, t), u) <=> elem_find(q, u) \/ u = t
<1> DEFINE a == Append(q, t)
<1>1. q \in [1..Len(q) -> Threads] /\ Len(q) \in Nat
  OBVIOUS
<1>2. /\ a \in Seq(Threads) /\ DOMAIN a = 1..(Len(q) + 1) /\ a[Len(q) + 1] = t
      /\ \A i \in 1..Len(q) : a[i] = q[i]
  OBVIOUS
<1> HIDE DEF a
<1>3. \A i \in 1..(Len(q) + 1) : i \in 1..Len(q) \/ i = Len(q) + 1
  BY <1>1
<1>4. 1..Len(q) \subseteq 1..(Len(q) + 1) /\ Len(q) + 1 \in 1..(Len(q) + 1)
  BY <1>1
<1>5. IsInjective(a)
  BY <1>1, <1>2, <1>3, Zenon DEF IsInjective, elem_find
<1>6. \A u \in Threads : elem_find(a, u) <=> elem_find(q, u) \/ u = t
  BY <1>1, <1>2, <1>3, <1>4, Zenon DEF elem_find
<1> QED BY <1>2, <1>5, <1>6, Zenon DEF a

\* The same for list_push.
LEMMA PushNew ==
  ASSUME NEW q \in Seq(Threads), NEW t \in Threads, IsInjective(q), ~elem_find(q, t)
  PROVE  /\ list_push(q, t) \in Seq(Threads)
         /\ IsInjective(list_push(q, t))
         /\ list_push(q, t) # <<>>
         /\ Head(list_push(q, t)) = t
         /\ \A u \in Threads : elem_find(list_push(q, t), u) <=> elem_find(q, u) \/ u = t
<1> DEFINE p == list_push(q, t)
<1>1. p \in Seq(Threads) /\ Len(p) = Len(q) + 1 /\ p[1] = t
  BY DEF list_push
<1>2. \A i \in 1..Len(q) : p[i + 1] = q[i]
  BY DEF list_push
<1>3. \A j \in 1..Len(p) : j # 1 => j - 1 \in 1..Len(q) /\ p[j] = q[j - 1]
  BY <1>1, <1>2
<1>4. DOMAIN p = 1..Len(p) /\ DOMAIN q = 1..Len(q)
  BY <1>1
<1> HIDE DEF p
<1>5. IsInjective(p)
  <2> SUFFICES ASSUME NEW i \in 1..Len(p), NEW j \in 1..Len(p), p[i] = p[j] PROVE i = j
    BY <1>4, Zenon DEF IsInjective
  <2>1. \A k \in 1..Len(q) : q[k] # t
    BY <1>4, Zenon DEF elem_find
  <2>2. CASE i = 1 \/ j = 1
    BY <1>1, <1>3, <2>1, <2>2, Zenon
  <2>3. CASE i # 1 /\ j # 1
    <3>1. i - 1 \in DOMAIN q /\ j - 1 \in DOMAIN q /\ q[i - 1] = q[j - 1]
      BY <1>3, <1>4, <2>3, Zenon
    <3>2. i - 1 = j - 1
      BY <3>1, Zenon DEF IsInjective
    <3> QED BY <3>2
  <2> QED BY <2>2, <2>3, Zenon
<1>6. ASSUME NEW u \in Threads PROVE elem_find(p, u) <=> elem_find(q, u) \/ u = t
  <2>1. elem_find(p, u) => elem_find(q, u) \/ u = t
    BY <1>1, <1>3, <1>4, Zenon DEF elem_find
  <2>2. elem_find(q, u) => elem_find(p, u)
    <3> SUFFICES ASSUME NEW i \in 1..Len(q), q[i] = u PROVE elem_find(p, u)
      BY <1>4, Zenon DEF elem_find
    <3>1. i + 1 \in 1..Len(p) /\ p[i + 1] = u
      BY <1>1, <1>2
    <3> QED BY <3>1, <1>4, Zenon DEF elem_find
  <2>3. u = t => elem_find(p, u)
    BY <1>1, <1>4 DEF elem_find
  <2> QED BY <2>1, <2>2, <2>3, Zenon
<1>7. p # <<>> /\ Head(p) = t
  BY <1>1
<1> QED BY <1>1, <1>5, <1>6, <1>7, Zenon DEF p

\* list_pop takes out the head and nothing else.
LEMMA PopHead ==
  ASSUME NEW q \in Seq(Threads), IsInjective(q), q # <<>>
  PROVE  /\ Head(q) \in Threads
         /\ elem_find(q, Head(q))
         /\ Tail(q) \in Seq(Threads)
         /\ IsInjective(Tail(q))
         /\ \A u \in Threads : elem_find(Tail(q), u) <=> elem_find(q, u) /\ u # Head(q)
<1> DEFINE r == Tail(q)
<1>1. Len(q) >= 1 /\ Head(q) = q[1] /\ q[1] \in Threads
  OBVIOUS
<1>2. r \in Seq(Threads) /\ Len(r) = Len(q) - 1
  BY <1>1
<1>3. \A i \in 1..Len(r) : r[i] = q[i + 1] /\ i + 1 \in 1..Len(q) /\ i + 1 # 1
  BY <1>1, <1>2
<1>4. DOMAIN r = 1..Len(r) /\ DOMAIN q = 1..Len(q)
  BY <1>2
<1> HIDE DEF r
<1>5. IsInjective(r)
  <2> SUFFICES ASSUME NEW i \in 1..Len(r), NEW j \in 1..Len(r), r[i] = r[j] PROVE i = j
    BY <1>4, Zenon DEF IsInjective
  <2>1. i + 1 \in DOMAIN q /\ j + 1 \in DOMAIN q /\ q[i + 1] = q[j + 1]
    BY <1>3, <1>4, Zenon
  <2>2. i + 1 = j + 1
    BY <2>1, Zenon DEF IsInjective
  <2> QED BY <2>2
<1>6. elem_find(q, Head(q))
  BY <1>1, <1>4 DEF elem_find
<1>7. ASSUME NEW u \in Threads PROVE elem_find(r, u) <=> elem_find(q, u) /\ u # Head(q)
  <2>1. elem_find(r, u) => elem_find(q, u) /\ u # Head(q)
    BY <1>1, <1>3, <1>4 DEF elem_find, IsInjective
  <2>2. ASSUME NEW j \in 1..Len(q), q[j] = u, u # Head(q) PROVE elem_find(r, u)
    <3>1. j # 1
      BY <2>2, <1>1, Zenon
    <3>2. j - 1 \in 1..Len(r) /\ r[j - 1] = q[(j - 1) + 1] /\ (j - 1) + 1 = j
      BY <3>1, <1>2, <1>3
    <3> QED BY <2>2, <3>2, <1>4, Zenon DEF elem_find
  <2> QED BY <2>1, <2>2, <1>4, Zenon DEF elem_find
<1> QED BY <1>1, <1>2, <1>5, <1>6, <1>7, Zenon DEF r
-----------------------------------------------------------------------------

\* thread_unblock makes a blocked thread the first of the ready list.
LEMMA UnblockFacts ==
  ASSUME NEW s \in SchedulerState, NEW New, NEW t \in Threads,
         ~s.panic, ReadyExact(s, New), s.status[t] \in NotScheduled, t \notin New
  PROVE  LET r == thread_unblock(s, t) IN
         /\ r \in SchedulerState
         /\ ~r.panic
         /\ ReadyExact(r, New)
         /\ r.ready = list_push(s.ready, t)
         /\ r.status = [s.status EXCEPT ![t] = TASK_READY]
         /\ r.cur = s.cur /\ r.intr = s.intr /\ r.old = s.old
         /\ r.ticks = s.ticks /\ r.at = s.at
<1> DEFINE r == thread_unblock(s, t)
           q == s.ready
<1>1. ~elem_find(q, t)
  BY Zenon DEF ReadyExact, NotScheduled, TASK_BLOCKED, TASK_WAITING, TASK_HANGING, TASK_READY
<1>2. r = [s EXCEPT !.ready = list_push(@, t), !.status[t] = TASK_READY]
  BY <1>1, Zenon DEF thread_unblock
<1>3. q \in Seq(Threads) /\ IsInjective(q) /\ s.status \in [Threads -> task_status]
  BY Zenon DEF SchedulerState, ReadyExact
<1>4. /\ list_push(q, t) \in Seq(Threads)
      /\ IsInjective(list_push(q, t))
      /\ \A u \in Threads : elem_find(list_push(q, t), u) <=> elem_find(q, u) \/ u = t
  BY <1>1, <1>3, PushNew, Zenon
<1>5. r \in SchedulerState
  <2>1. list_push(s.ready, t) \in Seq(Threads)
    BY <1>4, Zenon
  <2> HIDE DEF r
  <2> QED BY <1>2, <2>1, ZenonT(60) DEF SchedulerState, task_status
<1>6. /\ r.ready = list_push(s.ready, t)
      /\ r.status = [s.status EXCEPT ![t] = TASK_READY]
      /\ r.cur = s.cur /\ r.intr = s.intr /\ r.old = s.old
      /\ r.ticks = s.ticks /\ r.at = s.at /\ r.panic = s.panic
  BY <1>2, Zenon DEF SchedulerState
<1>7. ReadyExact(r, New)
  BY <1>3, <1>4, <1>6, Zenon DEF ReadyExact
<1> QED BY <1>5, <1>6, <1>7, Zenon
\* The thread that runs goes to the tail of the ready list.
LEMMA RequeueFacts ==
  ASSUME NEW s \in SchedulerState, NEW New,
         ~s.panic, ReadyExact(s, New), s.cur \notin New, ~elem_find(s.ready, s.cur)
  PROVE  LET r == [s EXCEPT !.ready = Append(@, s.cur), !.status[s.cur] = TASK_READY] IN
         /\ r \in SchedulerState
         /\ ReadyExact(r, New)
<1> DEFINE r == [s EXCEPT !.ready = Append(@, s.cur), !.status[s.cur] = TASK_READY]
           q == s.ready
<1>1. /\ q \in Seq(Threads) /\ IsInjective(q) /\ s.status \in [Threads -> task_status]
      /\ s.cur \in Threads
  BY Zenon DEF SchedulerState, ReadyExact
<1>2. /\ Append(q, s.cur) \in Seq(Threads)
      /\ IsInjective(Append(q, s.cur))
      /\ \A u \in Threads : elem_find(Append(q, s.cur), u) <=> elem_find(q, u) \/ u = s.cur
  BY <1>1, AppendNew, Zenon
<1>3. r \in SchedulerState
  BY <1>1, <1>2, Zenon DEF SchedulerState, task_status
<1>4. r.ready = Append(q, s.cur) /\ r.status = [s.status EXCEPT ![s.cur] = TASK_READY]
  BY Zenon DEF SchedulerState
<1>5. ReadyExact(r, New)
  BY <1>1, <1>2, <1>4 DEF ReadyExact
<1> QED BY <1>3, <1>5, Zenon

\* What a step of the scheduler leaves alone: whether a thread other than idle
\* and those in Moved is blocked, and whether it exists.
SameBlocked(s, r, Moved) ==
  \A t \in Threads \ (Moved \union {idle_thread}) :
    /\ Blocked(r, t) <=> Blocked(s, t)
    /\ r.status[t] = NONE <=> s.status[t] = NONE

\* The end of schedule(): a thread is found, popped and made the running one.
LEMMA PickFacts ==
  ASSUME NEW s \in SchedulerState, NEW New, Between(s, New)
  PROVE  LET r == SwitchToHead(WakeIdle(s)) IN
         /\ r \in SchedulerState
         /\ WellFormed(r, New)
         /\ SameBlocked(s, r, {})
         /\ r.ticks = s.ticks /\ r.old = s.old /\ r.at = s.at
<1> USE DEF TASK_BLOCKED, TASK_WAITING, TASK_HANGING, TASK_READY, TASK_RUNING, NONE
<1> DEFINE w == WakeIdle(s)
           r == SwitchToHead(w)
<1>1. s.status \in [Threads -> task_status] /\ s.ready \in Seq(Threads)
  BY Zenon DEF SchedulerState
<1>2. /\ w \in SchedulerState
      /\ Between(w, New)
      /\ w.ready # <<>>
      /\ w.cur = s.cur /\ w.intr = s.intr /\ w.old = s.old
      /\ w.ticks = s.ticks /\ w.at = s.at
      /\ SameBlocked(s, w, {})
  <2>1. CASE s.ready # <<>>
    BY <2>1, Zenon DEF WakeIdle, SameBlocked, Between
  <2>2. CASE s.ready = <<>>
    <3>1. ~elem_find(s.ready, idle_thread)
      BY <2>2 DEF elem_find
    <3>2. idle_thread \in Threads /\ idle_thread \notin New
      BY ThreadAssumption, Zenon DEF Between, Created
    <3>3. s.status[idle_thread] \in NotScheduled
      BY <1>1, <3>1, <3>2, Zenon DEF Between, Created, ReadyExact, task_status
    <3>4. w = thread_unblock(s, idle_thread)
      BY <2>2, Zenon DEF WakeIdle
    <3>5. /\ w \in SchedulerState
          /\ ~w.panic
          /\ ReadyExact(w, New)
          /\ w.ready = list_push(s.ready, idle_thread)
          /\ w.status = [s.status EXCEPT ![idle_thread] = TASK_READY]
          /\ w.cur = s.cur /\ w.intr = s.intr /\ w.old = s.old
          /\ w.ticks = s.ticks /\ w.at = s.at
      BY <3>2, <3>3, <3>4, UnblockFacts DEF Between
    <3>6. w.ready # <<>>
      BY <2>2, <3>2, <3>5 DEF list_push
    <3>7. Between(w, New)
      BY <1>1, <3>2, <3>5, Zenon DEF Between, Created
    <3>8. SameBlocked(s, w, {})
      BY <1>1, <3>5, Zenon DEF SameBlocked, Blocked
    <3> QED BY <3>5, <3>6, <3>7, <3>8, Zenon
  <2> QED BY <2>1, <2>2, Zenon
<1> DEFINE h == Head(w.ready)
<1>3. w.ready \in Seq(Threads) /\ w.status \in [Threads -> task_status] /\ IsInjective(w.ready)
  BY <1>2, Zenon DEF SchedulerState, Between, ReadyExact
<1>4. /\ h \in Threads
      /\ elem_find(w.ready, h)
      /\ Tail(w.ready) \in Seq(Threads)
      /\ IsInjective(Tail(w.ready))
      /\ \A u \in Threads : elem_find(Tail(w.ready), u) <=> elem_find(w.ready, u) /\ u # h
  BY <1>2, <1>3, PopHead, Zenon
<1>5. r = [w EXCEPT !.cur = h, !.ready = Tail(@), !.status[h] = TASK_RUNING,
                    !.intr = w.old[h]]
  BY <1>2, Zenon DEF SwitchToHead, Between
<1>6. r \in SchedulerState
  <2> HIDE DEF r, w
  <2>1. w.old[h] \in BOOLEAN
    BY <1>2, <1>4, Zenon DEF SchedulerState
  <2> HIDE DEF h
  <2> QED BY <1>2, <1>4, <1>5, <2>1, ZenonT(60) DEF SchedulerState, task_status
<1>7. /\ r.cur = h /\ r.ready = Tail(w.ready)
      /\ r.status = [w.status EXCEPT ![h] = TASK_RUNING]
      /\ r.ticks = s.ticks /\ r.old = s.old /\ r.at = s.at /\ r.panic = w.panic
  BY <1>2, <1>5 DEF SchedulerState
<1>8. w.status[h] = TASK_READY /\ h \notin New
  BY <1>2, <1>4, Zenon DEF Between, ReadyExact
<1>9. WellFormed(r, New)
  <2>1. ReadyExact(r, New)
    BY <1>2, <1>3, <1>4, <1>7, <1>8, Zenon DEF ReadyExact, Between
  <2>2. OneRuns(r)
    BY <1>2, <1>3, <1>4, <1>7, Zenon DEF OneRuns, Between
  <2>3. Created(r, New)
    BY <1>2, <1>3, <1>4, <1>7, <1>8, ThreadAssumption DEF Created, Between
  <2> QED BY <1>2, <1>7, <2>1, <2>2, <2>3, Zenon DEF WellFormed, Between
<1>10. SameBlocked(s, r, {})
  BY <1>2, <1>3, <1>4, <1>7, <1>8 DEF SameBlocked, Blocked, NotScheduled
<1> QED BY <1>6, <1>7, <1>9, <1>10, Zenon

\* schedule() called by a thread that has just blocked itself or queued itself.
LEMMA ScheduleParked ==
  ASSUME NEW s \in SchedulerState, NEW New, Between(s, New), ~s.intr
  PROVE  /\ schedule(s) \in SchedulerState
         /\ WellFormed(schedule(s), New)
         /\ SameBlocked(s, schedule(s), {})
<1>1. s.cur \in Threads
  BY Zenon DEF SchedulerState
<1>2. Requeue(s) = s
  BY <1>1, Zenon DEF Requeue, Between
<1>3. schedule(s) = SwitchToHead(WakeIdle(s))
  BY <1>2, Zenon DEF schedule
<1> QED BY <1>3, PickFacts, Zenon

\* The thread that schedule() takes the CPU from goes to the tail, with a new slice.
LEMMA RequeuedFacts ==
  ASSUME NEW s \in SchedulerState, NEW New, WellFormed(s, New), s.cur \notin New
  PROVE  LET r == Requeue(s) IN
         /\ r \in SchedulerState
         /\ Between(r, New)
         /\ SameBlocked(s, r, {})
         /\ r.ready = Append(s.ready, s.cur) /\ ~elem_find(s.ready, s.cur)
         /\ r.cur = s.cur /\ r.intr = s.intr /\ r.at = s.at
<1> USE DEF TASK_BLOCKED, TASK_WAITING, TASK_HANGING, TASK_READY, TASK_RUNING, NONE
<1>1. /\ s.cur \in Threads /\ s.status \in [Threads -> task_status]
      /\ s.ticks \in [Threads -> 0..255]
  BY Zenon DEF SchedulerState
<1>2. s.status[s.cur] = TASK_RUNING /\ ~elem_find(s.ready, s.cur)
  BY <1>1, Zenon DEF WellFormed, OneRuns, ReadyExact
<1> DEFINE p == [s EXCEPT !.ready = Append(@, s.cur), !.status[s.cur] = TASK_READY]
           r == [p EXCEPT !.ticks[s.cur] = Priority[s.cur]]
<1>3. p \in SchedulerState /\ ReadyExact(p, New)
  BY <1>2, RequeueFacts, Zenon DEF WellFormed
<1>4. /\ p.status = [s.status EXCEPT ![s.cur] = TASK_READY] /\ p.panic = s.panic
      /\ p.intr = s.intr /\ p.cur = s.cur /\ p.at = s.at
      /\ p.ready = Append(s.ready, s.cur)
  BY Zenon DEF SchedulerState
<1>5. Requeue(s) = r
  BY <1>2, Zenon DEF Requeue, SchedulerState
<1> HIDE DEF p
<1>6. Priority[s.cur] \in 0..255
  BY <1>1, ThreadAssumption, Zenon
<1>7. r \in SchedulerState
  BY <1>1, <1>3, <1>6, Zenon DEF SchedulerState
<1>8. /\ r.status = p.status /\ r.ready = p.ready /\ r.panic = p.panic /\ r.intr = p.intr
      /\ r.cur = p.cur /\ r.at = p.at
  BY <1>3, Zenon DEF SchedulerState
<1> HIDE DEF r
<1>9. Between(r, New)
  <2>1. ReadyExact(r, New)
    BY <1>3, <1>8, Zenon DEF ReadyExact
  <2>2. \A t \in Threads : r.status[t] # TASK_RUNING
    BY <1>1, <1>4, <1>8 DEF WellFormed, OneRuns
  <2>3. Created(r, New)
    BY <1>1, <1>4, <1>8, ThreadAssumption DEF WellFormed, Created
  <2> QED BY <1>4, <1>8, <2>1, <2>2, <2>3, Zenon DEF Between, WellFormed
<1>10. SameBlocked(s, r, {})
  BY <1>1, <1>2, <1>4, <1>8 DEF SameBlocked, Blocked, NotScheduled
<1> QED BY <1>2, <1>4, <1>5, <1>7, <1>8, <1>9, <1>10, Zenon

\* schedule() called for a thread that could go on: the timer preempts it.
LEMMA SchedulePreempted ==
  ASSUME NEW s \in SchedulerState, NEW New, WellFormed(s, New), ~s.intr, s.cur \notin New
  PROVE  /\ schedule(s) \in SchedulerState
         /\ WellFormed(schedule(s), New)
         /\ SameBlocked(s, schedule(s), {})
<1> DEFINE r == Requeue(s)
<1>1. r \in SchedulerState /\ Between(r, New) /\ SameBlocked(s, r, {})
  BY RequeuedFacts, Zenon
<1>2. schedule(s) = SwitchToHead(WakeIdle(r))
  BY Zenon DEF schedule
<1> HIDE DEF r
<1>3. /\ schedule(s) \in SchedulerState
      /\ WellFormed(schedule(s), New)
      /\ SameBlocked(r, schedule(s), {})
  BY <1>1, <1>2, PickFacts, Zenon
<1> QED BY <1>1, <1>3, Zenon DEF SameBlocked

\* intr_disable() changes only the interrupt flag and the flag to restore.
LEMMA SaveIntrFacts ==
  ASSUME NEW s \in SchedulerState
  PROVE  LET r == SaveIntr(s) IN
         /\ r \in SchedulerState
         /\ ~r.intr
         /\ r.cur = s.cur /\ r.status = s.status /\ r.ready = s.ready
         /\ r.ticks = s.ticks /\ r.at = s.at /\ r.panic = s.panic
  BY ZenonT(60) DEF SaveIntr, SchedulerState

\* thread_yield keeps the scheduler in order and blocks nobody.
LEMMA YieldFacts ==
  ASSUME NEW s \in SchedulerState, NEW New, WellFormed(s, New), s.cur \notin New
  PROVE  /\ thread_yield(s) \in SchedulerState
         /\ WellFormed(thread_yield(s), New)
         /\ SameBlocked(s, thread_yield(s), {})
<1> USE DEF TASK_BLOCKED, TASK_WAITING, TASK_HANGING, TASK_READY, TASK_RUNING, NONE
<1> DEFINE p == SaveIntr(s)
           r == [p EXCEPT !.ready = Append(@, p.cur), !.status[p.cur] = TASK_READY]
<1>1. /\ s.cur \in Threads /\ s.status \in [Threads -> task_status]
  BY Zenon DEF SchedulerState
<1>2. s.status[s.cur] = TASK_RUNING /\ ~elem_find(s.ready, s.cur)
  BY <1>1, Zenon DEF WellFormed, OneRuns, ReadyExact
<1>3. /\ p \in SchedulerState /\ ~p.intr
      /\ p.cur = s.cur /\ p.status = s.status /\ p.ready = s.ready /\ p.panic = s.panic
  BY SaveIntrFacts, Zenon
<1>4. thread_yield(s) = schedule(r)
  BY <1>2, <1>3, Zenon DEF thread_yield
<1> HIDE DEF p
<1>5. r \in SchedulerState /\ ReadyExact(r, New)
  <2>1. ReadyExact(p, New) /\ ~p.panic /\ p.cur \notin New /\ ~elem_find(p.ready, p.cur)
    BY <1>2, <1>3, Zenon DEF WellFormed, ReadyExact
  <2> QED BY <1>3, <2>1, RequeueFacts, Zenon
<1>6. /\ r.status = [s.status EXCEPT ![s.cur] = TASK_READY] /\ r.panic = s.panic /\ ~r.intr
  BY <1>3, Zenon DEF SchedulerState
<1> HIDE DEF r
<1>7. Between(r, New)
  BY <1>1, <1>5, <1>6, ThreadAssumption DEF Between, WellFormed, OneRuns, Created
<1>8. SameBlocked(s, r, {})
  BY <1>1, <1>2, <1>6, Zenon DEF SameBlocked, Blocked, NotScheduled
<1>9. /\ schedule(r) \in SchedulerState
      /\ WellFormed(schedule(r), New)
      /\ SameBlocked(r, schedule(r), {})
  BY <1>5, <1>6, <1>7, ScheduleParked, Zenon
<1> QED BY <1>4, <1>8, <1>9, Zenon DEF SameBlocked

\* thread_block blocks its caller, unless that is idle and nobody else is ready.
LEMMA BlockFacts ==
  ASSUME NEW s \in SchedulerState, NEW New, WellFormed(s, New),
         NEW stat \in NotScheduled
  PROVE  /\ thread_block(s, stat) \in SchedulerState
         /\ WellFormed(thread_block(s, stat), New)
         /\ SameBlocked(s, thread_block(s, stat), {s.cur})
         /\ s.cur # idle_thread => Blocked(thread_block(s, stat), s.cur)
<1> USE DEF TASK_BLOCKED, TASK_WAITING, TASK_HANGING, TASK_READY, TASK_RUNING, NONE
<1> DEFINE p == SaveIntr(s)
           r == [p EXCEPT !.status[p.cur] = stat]
<1>1. /\ s.cur \in Threads /\ s.status \in [Threads -> task_status]
      /\ stat \in task_status /\ stat \notin {TASK_READY, TASK_RUNING, NONE}
  BY Zenon DEF SchedulerState, task_status, NotScheduled
<1>2. s.status[s.cur] = TASK_RUNING /\ ~elem_find(s.ready, s.cur)
  BY <1>1, Zenon DEF WellFormed, OneRuns, ReadyExact
<1>3. /\ p \in SchedulerState /\ ~p.intr
      /\ p.cur = s.cur /\ p.status = s.status /\ p.ready = s.ready /\ p.panic = s.panic
  BY SaveIntrFacts, Zenon
<1>4. thread_block(s, stat) = schedule(r)
  BY <1>3, Zenon DEF thread_block
<1> HIDE DEF p
<1>5. /\ r \in SchedulerState /\ r.ready = s.ready /\ r.panic = s.panic /\ ~r.intr
      /\ r.status = [s.status EXCEPT ![s.cur] = stat]
  BY <1>1, <1>3, Zenon DEF SchedulerState
<1> HIDE DEF r
<1>6. Between(r, New)
  BY <1>1, <1>2, <1>5, ThreadAssumption
     DEF Between, WellFormed, OneRuns, Created, ReadyExact
<1>7. SameBlocked(s, r, {s.cur}) /\ Blocked(r, s.cur)
  BY <1>1, <1>5, Zenon DEF SameBlocked, Blocked
<1>8. /\ schedule(r) \in SchedulerState
      /\ WellFormed(schedule(r), New)
      /\ SameBlocked(r, schedule(r), {})
  BY <1>5, <1>6, ScheduleParked, Zenon
<1> QED BY <1>1, <1>4, <1>7, <1>8, Zenon DEF SameBlocked

\* An interrupt leaves the scheduler in order, ends a hlt and blocks nobody.
LEMMA EndHltFacts ==
  ASSUME NEW s \in SchedulerState
  PROVE  LET r == EndHlt(s) IN
         /\ r \in SchedulerState
         /\ r.cur = s.cur /\ r.status = s.status /\ r.ready = s.ready
         /\ r.intr = s.intr /\ r.old = s.old /\ r.ticks = s.ticks /\ r.panic = s.panic
<1>1. PICK h \in {"block", "sti", "hlt"} :
        h = IF s.cur = idle_thread /\ s.at = "hlt" THEN "block" ELSE s.at
  BY Zenon DEF SchedulerState
<1>2. EndHlt(s) = [s EXCEPT !.at = h]
  BY <1>1, Zenon DEF EndHlt
<1> QED BY <1>2, ZenonT(60) DEF SchedulerState

\* States that agree on what WellFormed and SameBlocked look at.
LEMMA SameScheduling ==
  ASSUME NEW s, NEW r, NEW New,
         r.cur = s.cur, r.status = s.status, r.ready = s.ready, r.panic = s.panic
  PROVE  /\ WellFormed(s, New) <=> WellFormed(r, New)
         /\ SameBlocked(s, r, {})
  BY Zenon DEF WellFormed, ReadyExact, OneRuns, Created, SameBlocked, Blocked

\* The timer interrupt keeps the scheduler in order and blocks nobody.
LEMMA TimerFacts ==
  ASSUME NEW s \in SchedulerState, NEW New, WellFormed(s, New), s.cur \notin New
  PROVE  /\ intr_timer_handler(s) \in SchedulerState
         /\ WellFormed(intr_timer_handler(s), New)
         /\ SameBlocked(s, intr_timer_handler(s), {})
<1> DEFINE e == EndHlt(s)
<1>1. /\ e \in SchedulerState
      /\ e.cur = s.cur /\ e.status = s.status /\ e.ready = s.ready
      /\ e.ticks = s.ticks /\ e.panic = s.panic
  BY EndHltFacts, Zenon
<1>2. CASE s.ticks[s.cur] = 0
  <2> DEFINE p == SaveIntr(e)
  <2>1. intr_timer_handler(s) = schedule(p)
    BY <1>2, Zenon DEF intr_timer_handler
  <2>2. /\ p \in SchedulerState /\ ~p.intr
        /\ p.cur = s.cur /\ p.status = s.status /\ p.ready = s.ready /\ p.panic = s.panic
    BY <1>1, SaveIntrFacts, Zenon
  <2> HIDE DEF p
  <2>3. WellFormed(p, New) /\ SameBlocked(s, p, {})
    BY <2>2, SameScheduling, Zenon
  <2>4. /\ schedule(p) \in SchedulerState
        /\ WellFormed(schedule(p), New)
        /\ SameBlocked(p, schedule(p), {})
    BY <2>2, <2>3, SchedulePreempted, Zenon
  <2> QED BY <2>1, <2>3, <2>4, Zenon DEF SameBlocked
<1>3. CASE s.ticks[s.cur] # 0
  <2> DEFINE r == [e EXCEPT !.ticks[s.cur] = @ - 1]
  <2>1. intr_timer_handler(s) = r
    BY <1>3, Zenon DEF intr_timer_handler
  <2>2. s.cur \in Threads /\ s.ticks[s.cur] - 1 \in 0..255
    BY <1>3 DEF SchedulerState
  <2> HIDE DEF e
  <2>3. /\ r \in SchedulerState
        /\ r.cur = s.cur /\ r.status = s.status /\ r.ready = s.ready /\ r.panic = s.panic
    BY <1>1, <2>2, ZenonT(60) DEF SchedulerState
  <2> HIDE DEF r
  <2>4. WellFormed(r, New) /\ SameBlocked(s, r, {})
    BY <2>3, SameScheduling, Zenon
  <2> QED BY <2>1, <2>3, <2>4, Zenon
<1> QED BY <1>2, <1>3, Zenon

\* A step of idle's loop keeps the scheduler in order.
LEMMA IdleFacts ==
  ASSUME NEW s \in SchedulerState, NEW New, WellFormed(s, New), s.cur = idle_thread
  PROVE  /\ idle(s) \in SchedulerState
         /\ WellFormed(idle(s), New)
         /\ SameBlocked(s, idle(s), {})
<1>1. CASE s.at = "block"
  <2> DEFINE r == [s EXCEPT !.at = "sti"]
  <2>1. /\ r \in SchedulerState
        /\ r.cur = s.cur /\ r.status = s.status /\ r.ready = s.ready /\ r.panic = s.panic
    BY ZenonT(60) DEF SchedulerState
  <2>2. idle(s) = thread_block(r, TASK_BLOCKED)
    BY <1>1, Zenon DEF idle
  <2> HIDE DEF r
  <2>3. WellFormed(r, New) /\ SameBlocked(s, r, {})
    BY <2>1, SameScheduling, Zenon
  <2>4. /\ idle(s) \in SchedulerState
        /\ WellFormed(idle(s), New)
        /\ SameBlocked(r, idle(s), {idle_thread})
    BY <2>1, <2>2, <2>3, BlockFacts, Zenon DEF NotScheduled
  <2> QED BY <2>3, <2>4, Zenon DEF SameBlocked
<1>2. CASE s.at # "block"
  <2> DEFINE r == [s EXCEPT !.intr = TRUE, !.at = "hlt"]
  <2>1. /\ r \in SchedulerState
        /\ r.cur = s.cur /\ r.status = s.status /\ r.ready = s.ready /\ r.panic = s.panic
    BY ZenonT(60) DEF SchedulerState
  <2>2. idle(s) = r
    BY <1>2, Zenon DEF idle
  <2> HIDE DEF r
  <2> QED BY <2>1, <2>2, SameScheduling, Zenon
<1> QED BY <1>1, <1>2, Zenon

\* The interrupt flag is not part of the order.
LEMMA IntrFacts ==
  ASSUME NEW s \in SchedulerState, NEW New, WellFormed(s, New), NEW b \in BOOLEAN
  PROVE  /\ [s EXCEPT !.intr = b] \in SchedulerState
         /\ WellFormed([s EXCEPT !.intr = b], New)
<1> DEFINE r == [s EXCEPT !.intr = b]
<1>1. /\ r \in SchedulerState
      /\ r.cur = s.cur /\ r.status = s.status /\ r.ready = s.ready /\ r.panic = s.panic
  BY ZenonT(60) DEF SchedulerState
<1> HIDE DEF r
<1>2. WellFormed(r, New)
  BY <1>1, SameScheduling, Zenon
<1> QED BY <1>1, <1>2, Zenon DEF r

\* thread_unblock, called for a thread that is blocked, by a thread or a handler.
LEMMA UnblockWellFormed ==
  ASSUME NEW s \in SchedulerState, NEW New, WellFormed(s, New), NEW t \in Threads,
         Blocked(s, t)
  PROVE  /\ thread_unblock(s, t) \in SchedulerState
         /\ WellFormed(thread_unblock(s, t), New)
<1> USE DEF TASK_BLOCKED, TASK_WAITING, TASK_HANGING, TASK_READY, TASK_RUNING, NONE
<1> DEFINE r == thread_unblock(s, t)
<1>1. s.status[t] \in NotScheduled /\ t \notin New
  BY Zenon DEF Blocked, WellFormed, Created, NotScheduled
<1>2. /\ r \in SchedulerState /\ ~r.panic /\ ReadyExact(r, New)
      /\ r.status = [s.status EXCEPT ![t] = TASK_READY] /\ r.cur = s.cur
  BY <1>1, UnblockFacts, Zenon DEF WellFormed
<1> HIDE DEF r
<1>3. s.status \in [Threads -> task_status]
  BY Zenon DEF SchedulerState
<1>4. OneRuns(r)
  BY <1>1, <1>2, <1>3, Zenon DEF WellFormed, OneRuns, NotScheduled
<1>5. Created(r, New)
  BY <1>2, <1>3, ThreadAssumption DEF WellFormed, Created
<1> QED BY <1>2, <1>4, <1>5, Zenon DEF WellFormed, r
=============================================================================
