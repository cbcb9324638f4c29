----------------------------- MODULE SchedProofs -----------------------------
(***************************************************************************)
(* The scheduler is never caught by one of its own assertions and never    *)
(* loses or duplicates a thread, whatever its users do and however many    *)
(* they are.                                                               *)
(***************************************************************************)
EXTENDS Sched, ThreadProofs

\* thread_init and the rest of the initial state satisfy the invariant.
LEMMA InitIInv == Init => IInv
<1> SUFFICES ASSUME Init PROVE IInv
  BY Zenon
<1> USE DEF Init, thread_init, NONE, TASK_READY, TASK_RUNING, TASK_BLOCKED, TASK_WAITING,
            TASK_HANGING
<1>1. sys \in SchedulerState
  BY ThreadAssumption DEF SchedulerState, task_status
<1>2. TypeOK
  <2>1. late \in BOOLEAN
    BY Zenon
  <2> QED BY <1>1, <2>1, SchedAssumption DEF TypeOK, Awake
<1>3. CreatedOnce /\ NewThreads = {}
  BY ThreadAssumption, Zenon DEF CreatedOnce, NewThreads
<1>4. sys.ready = <<idle_thread>> /\ DOMAIN sys.ready = {1} /\ sys.ready[1] = idle_thread
  OBVIOUS
<1>5. WellFormed(sys, NewThreads)
  <2>1. IsInjective(sys.ready)
    BY <1>4, Zenon DEF IsInjective
  <2>2. \A t \in Threads : elem_find(sys.ready, t) <=> t = idle_thread
    BY <1>4, Zenon DEF elem_find
  <2> QED
    BY <1>3, <2>1, <2>2, ThreadAssumption, Zenon
       DEF WellFormed, ReadyExact, OneRuns, Created
<1> QED BY <1>2, <1>3, <1>5, Zenon DEF IInv

\* What the invariant gives every step: the running thread is a thread that exists
\* and is not one that is being created.
LEMMA Current ==
  ASSUME IInv
  PROVE  /\ sys \in SchedulerState
         /\ WellFormed(sys, NewThreads)
         /\ sys.cur \in Threads
         /\ sys.cur \notin NewThreads
<1>1. sys \in SchedulerState /\ WellFormed(sys, NewThreads)
  BY Zenon DEF IInv, TypeOK
<1>2. sys.cur \in Threads
  BY <1>1, Zenon DEF SchedulerState
<1>3. sys.status[sys.cur] = TASK_RUNING
  BY <1>1, <1>2, Zenon DEF WellFormed, OneRuns
<1>4. sys.cur \notin NewThreads
  BY <1>1, <1>2, <1>3, Zenon DEF WellFormed, Created, TASK_RUNING, TASK_READY
<1> QED BY <1>1, <1>2, <1>4, Zenon

\* A step that leaves the creations under way alone preserves the invariant if the
\* scheduler state it ends in is in order and the rest is well typed.
LEMMA SameCreating ==
  ASSUME IInv, sys' \in SchedulerState, WellFormed(sys', NewThreads),
         ticks' \in 0..(TickMod - 1),
         sleep' \in [Threads -> [start : 0..(TickMod - 1), n : 0..(TickMod - 1)]],
         slept' \in [Threads -> 0..TickMod], late' \in BOOLEAN,
         UNCHANGED creating
  PROVE  IInv'
<1>1. NewThreads' = NewThreads
  BY Zenon DEF NewThreads
<1>2. TypeOK' /\ CreatedOnce'
  BY Zenon DEF IInv, TypeOK, CreatedOnce
<1> QED BY <1>1, <1>2, Zenon DEF IInv

\* Every step of the threads, of the devices and of the timer preserves it.
LEMMA NextIInv == IInv /\ [Next]_vars => IInv'
<1> SUFFICES ASSUME IInv, [Next]_vars PROVE IInv'
  BY Zenon
<1> DEFINE s == sys
<1>0. /\ s \in SchedulerState /\ WellFormed(s, NewThreads)
      /\ s.cur \in Threads /\ s.cur \notin NewThreads
  BY Current, Zenon
<1>t. /\ ticks \in 0..(TickMod - 1)
      /\ sleep \in [Threads -> [start : 0..(TickMod - 1), n : 0..(TickMod - 1)]]
      /\ slept \in [Threads -> 0..TickMod] /\ late \in BOOLEAN
  BY Zenon DEF IInv, TypeOK
<1>1. ASSUME NEW c \in Threads, IntrDisable(c) \/ IntrEnable(c) PROVE IInv'
  <2>1. sys' \in SchedulerState /\ WellFormed(sys', NewThreads)
    BY <1>0, <1>1, IntrFacts, Zenon DEF IntrDisable, IntrEnable
  <2> QED BY <1>1, <1>t, <2>1, SameCreating, Zenon DEF IntrDisable, IntrEnable
<1>2. ASSUME NEW c \in Threads, Yield(c) \/ SleepYield(c) PROVE IInv'
  <2>1. sys' \in SchedulerState /\ WellFormed(sys', NewThreads)
    BY <1>0, <1>2, YieldFacts, Zenon DEF Yield, SleepYield
  <2> QED BY <1>2, <1>t, <2>1, SameCreating, Zenon DEF Yield, SleepYield
<1>3. ASSUME NEW c \in Threads, Block(c) PROVE IInv'
  <2>1. sys' \in SchedulerState /\ WellFormed(sys', NewThreads)
    BY <1>0, <1>3, BlockFacts, Zenon DEF Block, NotScheduled
  <2> QED BY <1>3, <1>t, <2>1, SameCreating, Zenon DEF Block
<1>4. ASSUME NEW c \in Threads, NEW t \in Threads, Unblock(c, t) PROVE IInv'
  <2>1. sys' \in SchedulerState /\ WellFormed(sys', NewThreads)
    BY <1>0, <1>4, UnblockWellFormed, Zenon DEF Unblock, Wakeable, Blocked
  <2> QED BY <1>4, <1>t, <2>1, SameCreating, Zenon DEF Unblock
<1>5. ASSUME NEW t \in Threads, DeviceInterrupt(t) PROVE IInv'
  <2> DEFINE e == EndHlt(sys)
  <2>1. /\ e \in SchedulerState
        /\ e.cur = s.cur /\ e.status = s.status /\ e.ready = s.ready /\ e.panic = s.panic
    BY <1>0, EndHltFacts, Zenon
  <2>2. sys' = thread_unblock(e, t)
    BY <1>5, Zenon DEF DeviceInterrupt
  <2> HIDE DEF e
  <2>3. WellFormed(e, NewThreads) /\ Blocked(e, t)
    BY <1>0, <1>5, <2>1, SameScheduling, Zenon DEF DeviceInterrupt, Wakeable, Blocked
  <2>4. sys' \in SchedulerState /\ WellFormed(sys', NewThreads)
    BY <2>1, <2>2, <2>3, UnblockWellFormed, Zenon
  <2> QED BY <1>5, <1>t, <2>4, SameCreating, Zenon DEF DeviceInterrupt, Late
<1>6. ASSUME NEW c \in Threads, NEW t \in Threads, StartInit(c, t) PROVE IInv'
  <2> USE DEF TASK_BLOCKED, TASK_WAITING, TASK_HANGING, TASK_READY, TASK_RUNING, NONE
  <2>1. /\ s.cur = c /\ c # idle_thread /\ s.status[t] = NONE /\ creating[c] = {}
        /\ creating' = [creating EXCEPT ![c] = {t}]
        /\ sys' = init_thread(s, t) /\ UNCHANGED <<ticks, sleep, slept, late>>
    BY <1>6, Zenon DEF StartInit, Free, Runs
  <2>2. Priority[t] \in 0..255 /\ s.status \in [Threads -> task_status]
    BY <1>0, ThreadAssumption, Zenon DEF SchedulerState
  <2>3. /\ sys' \in SchedulerState
        /\ sys'.status = [s.status EXCEPT ![t] = TASK_READY]
        /\ sys'.ready = s.ready /\ sys'.cur = s.cur /\ sys'.panic = s.panic
    BY <1>0, <2>1, <2>2, Zenon DEF init_thread, SchedulerState, task_status
  <2>4. creating \in [Threads -> SUBSET Threads] /\ creating' \in [Threads -> SUBSET Threads]
    BY <2>1, Zenon DEF IInv, TypeOK
  <2>5. \A u \in Threads : u \in NewThreads' <=> u \in NewThreads \/ u = t
    BY <2>1, <2>4 DEF NewThreads
  <2>6. t \notin NewThreads
    BY <1>0, <2>1, Zenon DEF WellFormed, Created
  <2>7. CreatedOnce'
    BY <2>1, <2>4, <2>6 DEF IInv, CreatedOnce, NewThreads
  <2>8. WellFormed(sys', NewThreads')
    BY <1>0, <2>1, <2>2, <2>3, <2>5, ThreadAssumption
       DEF WellFormed, ReadyExact, OneRuns, Created
  <2>9. TypeOK'
    BY <1>t, <2>1, <2>3, <2>4, Zenon DEF TypeOK
  <2> QED BY <2>7, <2>8, <2>9, Zenon DEF IInv
<1>7. ASSUME NEW c \in Threads, NEW t \in Threads, StartEnqueue(c, t) PROVE IInv'
  <2> USE DEF TASK_BLOCKED, TASK_WAITING, TASK_HANGING, TASK_READY, TASK_RUNING, NONE
  <2>1. /\ t \in creating[c] /\ creating' = [creating EXCEPT ![c] = @ \ {t}]
        /\ sys' = EnqueueNew(s, t) /\ UNCHANGED <<ticks, sleep, slept, late>>
    BY <1>7, Zenon DEF StartEnqueue
  <2>2. creating \in [Threads -> SUBSET Threads] /\ creating' \in [Threads -> SUBSET Threads]
    BY <2>1, Zenon DEF IInv, TypeOK
  <2>3. t \in NewThreads /\ s.status[t] = TASK_READY /\ ~elem_find(s.ready, t)
    BY <1>0, <2>1, <2>2 DEF NewThreads, WellFormed, Created, ReadyExact
  <2>4. \A u \in Threads : u \in NewThreads' <=> u \in NewThreads /\ u # t
    BY <2>1, <2>2 DEF NewThreads, IInv, CreatedOnce
  <2>5. s.ready \in Seq(Threads) /\ IsInjective(s.ready)
    BY <1>0, Zenon DEF SchedulerState, WellFormed, ReadyExact
  <2>6. /\ Append(s.ready, t) \in Seq(Threads)
        /\ IsInjective(Append(s.ready, t))
        /\ \A u \in Threads : elem_find(Append(s.ready, t), u) <=> elem_find(s.ready, u) \/ u = t
    BY <2>3, <2>5, AppendNew, Zenon
  <2>7. sys' = [s EXCEPT !.ready = Append(@, t)]
    BY <2>1, <2>3, Zenon DEF EnqueueNew
  <2>8. /\ sys' \in SchedulerState
        /\ sys'.ready = Append(s.ready, t)
        /\ sys'.status = s.status /\ sys'.cur = s.cur /\ sys'.panic = s.panic
    BY <1>0, <2>6, <2>7, ZenonT(60) DEF SchedulerState
  <2>9. WellFormed(sys', NewThreads')
    BY <1>0, <2>3, <2>4, <2>6, <2>8, ThreadAssumption
       DEF WellFormed, ReadyExact, OneRuns, Created
  <2>10. CreatedOnce'
    BY <2>1, <2>2, ThreadAssumption, Zenon DEF IInv, CreatedOnce
  <2>11. TypeOK'
    BY <1>t, <2>1, <2>2, <2>8, Zenon DEF TypeOK
  <2> QED BY <2>9, <2>10, <2>11, Zenon DEF IInv
<1>8. ASSUME NEW c \in Threads, NEW n \in SleepTicks, SleepBegin(c, n) PROVE IInv'
  <2>1. n \in 0..(TickMod - 1) /\ 0 \in 0..TickMod
    BY SchedAssumption
  <2>2. /\ sleep' \in [Threads -> [start : 0..(TickMod - 1), n : 0..(TickMod - 1)]]
        /\ slept' \in [Threads -> 0..TickMod]
    BY <1>8, <1>t, <2>1, Zenon DEF SleepBegin
  <2> QED BY <1>0, <1>8, <1>t, <2>2, SameCreating, Zenon DEF SleepBegin
<1>9. ASSUME NEW c \in Threads, SleepEnd(c) PROVE IInv'
  <2>1. 0 \in 0..(TickMod - 1) /\ 0 \in 0..TickMod
    BY SchedAssumption
  <2>2. /\ sleep' \in [Threads -> [start : 0..(TickMod - 1), n : 0..(TickMod - 1)]]
        /\ slept' \in [Threads -> 0..TickMod]
    BY <1>9, <1>t, <2>1, Zenon DEF SleepEnd, Awake
  <2> QED BY <1>0, <1>9, <1>t, <2>2, SameCreating, Zenon DEF SleepEnd
<1>10. CASE Idle
  <2>1. sys' \in SchedulerState /\ WellFormed(sys', NewThreads)
    BY <1>0, <1>10, IdleFacts, Zenon DEF Idle, Runs
  <2> QED BY <1>10, <1>t, <2>1, SameCreating, Zenon DEF Idle
<1>11. CASE TimerInterrupt
  <2>1. sys' \in SchedulerState /\ WellFormed(sys', NewThreads)
    BY <1>0, <1>11, TimerFacts, Zenon DEF TimerInterrupt
  <2>2. ticks' \in 0..(TickMod - 1)
    BY <1>11, <1>t, SchedAssumption DEF TimerInterrupt
  <2>3. slept' \in [Threads -> 0..TickMod]
    BY <1>11, <1>t, SchedAssumption DEF TimerInterrupt
  <2> QED BY <1>11, <1>t, <2>1, <2>2, <2>3, SameCreating, Zenon DEF TimerInterrupt, Late
<1>12. CASE UNCHANGED vars
  BY <1>0, <1>12, <1>t, SameCreating, Zenon DEF vars
<1> QED
  BY <1>1, <1>2, <1>3, <1>4, <1>5, <1>6, <1>7, <1>8, <1>9, <1>10, <1>11, <1>12, Zenon
     DEF Next, ThreadStep

-----------------------------------------------------------------------------
(* idle's hlt.                                                             *)

\* schedule() that finds idle off the list gives it the CPU only if nobody is ready.
LEMMA PickBehind ==
  ASSUME NEW s \in SchedulerState, NEW New, Between(s, New),
         s.at # "block" => ~elem_find(s.ready, idle_thread)
  PROVE  BehindAlone(SwitchToHead(WakeIdle(s)))
<1> USE DEF TASK_BLOCKED, TASK_WAITING, TASK_HANGING, TASK_READY, TASK_RUNING, NONE
<1> DEFINE w == WakeIdle(s)
           r == SwitchToHead(w)
<1>1. s.status \in [Threads -> task_status] /\ s.ready \in Seq(Threads) /\ IsInjective(s.ready)
  BY Zenon DEF SchedulerState, Between, ReadyExact
<1>2. CASE s.ready # <<>>
  <2>1. w = s
    BY <1>2, Zenon DEF WakeIdle
  <2>2. r.cur = Head(s.ready) /\ r.ready = Tail(s.ready) /\ r.at = s.at
    BY <1>2, <2>1, Zenon DEF SwitchToHead, Between, SchedulerState
  <2>3. /\ elem_find(s.ready, Head(s.ready))
        /\ elem_find(Tail(s.ready), idle_thread) => elem_find(s.ready, idle_thread)
    BY <1>1, <1>2, PopHead, ThreadAssumption, Zenon
  <2> HIDE DEF r
  <2> QED BY <2>2, <2>3, Zenon DEF BehindAlone, r
<1>3. CASE s.ready = <<>>
  <2>1. ~elem_find(s.ready, idle_thread)
    BY <1>3 DEF elem_find
  <2>2. idle_thread \in Threads /\ s.status[idle_thread] \in NotScheduled
    BY <1>1, <2>1, ThreadAssumption, Zenon DEF Between, Created, ReadyExact, task_status
  <2>3. w = thread_unblock(s, idle_thread)
    BY <1>3, Zenon DEF WakeIdle
  <2>4. w \in SchedulerState /\ w.ready = <<idle_thread>> /\ ~w.panic
    <3>1. w \in SchedulerState /\ w.ready = list_push(s.ready, idle_thread) /\ ~w.panic
      BY <2>2, <2>3, UnblockFacts, ZenonT(60) DEF Between, Created
    <3>2. list_push(<<>>, idle_thread) = <<idle_thread>>
      BY <2>2 DEF list_push
    <3> QED BY <1>3, <3>1, <3>2, Zenon
  <2>5. r.ready = Tail(<<idle_thread>>)
    <3>1. r = [w EXCEPT !.cur = Head(w.ready), !.ready = Tail(@),
                        !.status[Head(w.ready)] = TASK_RUNING, !.intr = w.old[Head(w.ready)]]
      BY <2>4 DEF SwitchToHead
    <3> HIDE DEF w, r
    <3> QED BY <2>4, <3>1, Zenon DEF SchedulerState
  <2>6. r.ready = <<>>
    BY <2>5, <2>2
  <2>7. ~elem_find(r.ready, idle_thread)
    BY <2>6 DEF elem_find
  <2> HIDE DEF r
  <2> QED BY <2>6, <2>7, Zenon DEF BehindAlone, r
<1> QED BY <1>2, <1>3, Zenon

\* thread_yield of a thread that is not idle.
LEMMA YieldBehind ==
  ASSUME NEW s \in SchedulerState, NEW New, WellFormed(s, New), s.cur \notin New,
         s.cur # idle_thread
  PROVE  /\ thread_yield(s).at = s.at
         /\ BehindAlone(s) => BehindAlone(thread_yield(s))
<1> USE DEF TASK_BLOCKED, TASK_WAITING, TASK_HANGING, TASK_READY, TASK_RUNING, NONE
<1> DEFINE p == SaveIntr(s)
           r == [p EXCEPT !.ready = Append(@, p.cur), !.status[p.cur] = TASK_READY]
<1>1. s.cur \in Threads /\ s.status \in [Threads -> task_status] /\ s.ready \in Seq(Threads)
  BY Zenon DEF SchedulerState
<1>2. s.status[s.cur] = TASK_RUNING /\ ~elem_find(s.ready, s.cur) /\ IsInjective(s.ready)
  BY <1>1, Zenon DEF WellFormed, OneRuns, ReadyExact
<1>3. /\ p \in SchedulerState /\ ~p.intr /\ p.at = s.at
      /\ p.cur = s.cur /\ p.status = s.status /\ p.ready = s.ready /\ p.panic = s.panic
  BY SaveIntrFacts, Zenon
<1>4. thread_yield(s) = schedule(r)
  BY <1>2, <1>3, Zenon DEF thread_yield
<1> HIDE DEF p
<1>5. r \in SchedulerState /\ ReadyExact(r, New)
  <2>1. ReadyExact(p, New) /\ ~p.panic /\ p.cur \notin New /\ ~elem_find(p.ready, p.cur)
    BY <1>2, <1>3, Zenon DEF WellFormed, ReadyExact
  <2> QED BY <1>3, <2>1, RequeueFacts, Zenon
<1>6. /\ r.status = [s.status EXCEPT ![s.cur] = TASK_READY] /\ r.panic = s.panic /\ ~r.intr
      /\ r.ready = Append(s.ready, s.cur) /\ r.cur = s.cur /\ r.at = s.at
  BY <1>3, Zenon DEF SchedulerState
<1> HIDE DEF r
<1>7. Between(r, New)
  BY <1>1, <1>5, <1>6, ThreadAssumption DEF Between, WellFormed, OneRuns, Created
<1>8. BehindAlone(s) => (r.at # "block" => ~elem_find(r.ready, idle_thread))
  BY <1>1, <1>2, <1>6, AppendNew, ThreadAssumption DEF BehindAlone
<1>9. schedule(r) = SwitchToHead(WakeIdle(r))
  BY <1>1, <1>6, Zenon DEF schedule, Requeue
<1>10. thread_yield(s).at = s.at
  BY <1>4, <1>5, <1>6, <1>7, <1>9, PickFacts, ZenonT(60)
<1> QED BY <1>4, <1>5, <1>7, <1>8, <1>9, <1>10, PickBehind, Zenon

\* thread_block, of idle itself too: its status keeps it off the list.
LEMMA BlockBehind ==
  ASSUME NEW s \in SchedulerState, NEW New, WellFormed(s, New), NEW stat \in NotScheduled
  PROVE  /\ thread_block(s, stat).at = s.at
         /\ (s.at # "block" => ~elem_find(s.ready, idle_thread)) =>
              BehindAlone(thread_block(s, stat))
<1> USE DEF TASK_BLOCKED, TASK_WAITING, TASK_HANGING, TASK_READY, TASK_RUNING, NONE
<1> DEFINE p == SaveIntr(s)
           r == [p EXCEPT !.status[p.cur] = stat]
<1>1. /\ s.cur \in Threads /\ s.status \in [Threads -> task_status]
      /\ stat \in task_status /\ stat \notin {TASK_READY, TASK_RUNING, NONE}
  BY Zenon DEF SchedulerState, task_status, NotScheduled
<1>2. s.status[s.cur] = TASK_RUNING /\ ~elem_find(s.ready, s.cur)
  BY <1>1, Zenon DEF WellFormed, OneRuns, ReadyExact
<1>3. /\ p \in SchedulerState /\ ~p.intr /\ p.at = s.at
      /\ p.cur = s.cur /\ p.status = s.status /\ p.ready = s.ready /\ p.panic = s.panic
  BY SaveIntrFacts, Zenon
<1>4. thread_block(s, stat) = schedule(r)
  BY <1>3, Zenon DEF thread_block
<1> HIDE DEF p
<1>5. /\ r \in SchedulerState /\ r.ready = s.ready /\ r.panic = s.panic /\ ~r.intr
      /\ r.status = [s.status EXCEPT ![s.cur] = stat] /\ r.cur = s.cur /\ r.at = s.at
  BY <1>1, <1>3, Zenon DEF SchedulerState
<1> HIDE DEF r
<1>6. Between(r, New)
  BY <1>1, <1>2, <1>5, ThreadAssumption
     DEF Between, WellFormed, OneRuns, Created, ReadyExact
<1>7. schedule(r) = SwitchToHead(WakeIdle(r))
  BY <1>1, <1>5, Zenon DEF schedule, Requeue
<1>8. thread_block(s, stat).at = s.at
  BY <1>4, <1>5, <1>6, <1>7, PickFacts, ZenonT(60)
<1> QED BY <1>4, <1>5, <1>6, <1>7, <1>8, PickBehind, Zenon

\* An interrupt ends the hlt it interrupts.
LEMMA EndHltBehind ==
  ASSUME NEW s \in SchedulerState, s.at = "hlt" => s.cur = idle_thread
  PROVE  EndHlt(s).at # "hlt" /\ (EndHlt(s).at # "block" => s.at = "sti")
<1>1. EndHlt(s).at = IF s.cur = idle_thread /\ s.at = "hlt" THEN "block" ELSE s.at
  BY Zenon DEF EndHlt, SchedulerState
<1>2. s.at \in {"block", "sti", "hlt"}
  BY Zenon DEF SchedulerState
<1> QED BY <1>1, <1>2

\* The timer: idle stays alone behind its thread_block if the tick does not come there.
LEMMA TimerBehind ==
  ASSUME NEW s \in SchedulerState, NEW New, WellFormed(s, New), s.cur \notin New,
         s.at = "hlt" => s.cur = idle_thread
  PROVE  /\ intr_timer_handler(s).at # "hlt"
         /\ (s.at = "sti" => BehindAlone(s) /\ s.cur # idle_thread) =>
              BehindAlone(intr_timer_handler(s))
<1> DEFINE Undisturbed == s.at = "sti" => BehindAlone(s) /\ s.cur # idle_thread
<1> DEFINE e == EndHlt(s)
<1>1. /\ e \in SchedulerState
      /\ e.cur = s.cur /\ e.status = s.status /\ e.ready = s.ready /\ e.panic = s.panic
      /\ e.ticks = s.ticks
  BY EndHltFacts, Zenon
<1>2. e.at # "hlt" /\ (e.at # "block" => s.at = "sti")
  BY EndHltBehind, Zenon
<1> HIDE DEF e
<1>3. CASE s.ticks[s.cur] = 0
  <2> DEFINE p == SaveIntr(e)
             r == Requeue(p)
  <2>1. intr_timer_handler(s) = schedule(p)
    BY <1>3, Zenon DEF intr_timer_handler, e
  <2>2. /\ p \in SchedulerState /\ ~p.intr /\ p.at = e.at
        /\ p.cur = s.cur /\ p.status = s.status /\ p.ready = s.ready /\ p.panic = s.panic
    BY <1>1, SaveIntrFacts, Zenon
  <2> HIDE DEF p
  <2>3. WellFormed(p, New)
    BY <2>2, SameScheduling, Zenon
  <2>4. /\ r \in SchedulerState /\ Between(r, New) /\ r.at = p.at
        /\ r.ready = Append(p.ready, p.cur) /\ ~elem_find(p.ready, p.cur)
    BY <2>2, <2>3, RequeuedFacts, Zenon
  <2>5. schedule(p) = SwitchToHead(WakeIdle(r))
    BY <2>2, Zenon DEF schedule
  <2> HIDE DEF r
  <2>6. s.ready \in Seq(Threads) /\ s.cur \in Threads /\ IsInjective(s.ready)
    BY Zenon DEF SchedulerState, WellFormed, ReadyExact
  <2>7. Undisturbed => (r.at # "block" => ~elem_find(r.ready, idle_thread))
    BY <1>2, <2>2, <2>4, <2>6, AppendNew, ThreadAssumption DEF BehindAlone
  <2>8. schedule(p).at # "hlt"
    BY <1>2, <2>2, <2>4, <2>5, PickFacts, ZenonT(60)
  <2> QED BY <2>1, <2>4, <2>5, <2>7, <2>8, PickBehind, Zenon
<1>4. CASE s.ticks[s.cur] # 0
  <2> DEFINE r == [e EXCEPT !.ticks[s.cur] = @ - 1]
  <2>1. intr_timer_handler(s) = r
    BY <1>4, Zenon DEF intr_timer_handler, e
  <2>2. r.cur = s.cur /\ r.ready = s.ready /\ r.at = e.at
    BY <1>1, Zenon DEF SchedulerState
  <2> HIDE DEF r
  <2> QED BY <1>2, <2>1, <2>2 DEF BehindAlone
<1> QED BY <1>3, <1>4, Zenon

\* A blocked thread other than idle comes onto the list while idle does not run behind
\* its thread_block.
LEMMA UnblockBehind ==
  ASSUME NEW s \in SchedulerState, NEW New, WellFormed(s, New), NEW t \in Threads,
         Blocked(s, t), t # idle_thread
  PROVE  /\ thread_unblock(s, t).at = s.at /\ thread_unblock(s, t).cur = s.cur
         /\ BehindAlone(s) /\ (s.cur = idle_thread => s.at = "block") =>
              BehindAlone(thread_unblock(s, t))
<1> USE DEF TASK_BLOCKED, TASK_WAITING, TASK_HANGING, TASK_READY, TASK_RUNING, NONE
<1> DEFINE r == thread_unblock(s, t)
<1>1. s.status[t] \in NotScheduled /\ t \notin New
  BY Zenon DEF Blocked, WellFormed, Created, NotScheduled
<1>2. r.ready = list_push(s.ready, t) /\ r.cur = s.cur /\ r.at = s.at
  BY <1>1, UnblockFacts, Zenon DEF WellFormed
<1> HIDE DEF r
<1>3. s.ready \in Seq(Threads) /\ IsInjective(s.ready) /\ ~elem_find(s.ready, t)
  BY <1>1, Zenon DEF SchedulerState, WellFormed, ReadyExact, NotScheduled
<1>4. elem_find(r.ready, idle_thread) => elem_find(s.ready, idle_thread)
  BY <1>2, <1>3, PushNew, ThreadAssumption
<1> QED BY <1>2, <1>4, Zenon DEF BehindAlone, r

\* Every step keeps idle off the list while it is behind its thread_block.
LEMMA NextIdleInv == IInv /\ IdleInv /\ [Next]_vars => IdleInv'
<1> SUFFICES ASSUME IInv, IdleInv, [Next]_vars PROVE IdleInv'
  BY Zenon
<1> DEFINE s == sys
<1>0. /\ s \in SchedulerState /\ WellFormed(s, NewThreads)
      /\ s.cur \in Threads /\ s.cur \notin NewThreads
  BY Current, Zenon
<1>t. late \in BOOLEAN /\ sleep \in [Threads -> [start : 0..(TickMod - 1), n : 0..(TickMod - 1)]]
  BY Zenon DEF IInv, TypeOK
<1>i. /\ sleep[idle_thread].n = 0 /\ idle_thread \in Threads /\ (~late => BehindAlone(s))
      /\ s.at = "hlt" => s.cur = idle_thread
  BY ThreadAssumption, Zenon DEF IdleInv
<1>1. ASSUME NEW c \in Threads, IntrDisable(c) \/ IntrEnable(c) PROVE IdleInv'
  <2>1. /\ sys'.at = s.at /\ sys'.cur = s.cur /\ sys'.ready = s.ready
        /\ sleep' = sleep /\ late' = late
    BY <1>0, <1>1 DEF IntrDisable, IntrEnable, SchedulerState
  <2> QED BY <1>i, <2>1, Zenon DEF IdleInv, BehindAlone
<1>2. ASSUME NEW c \in Threads, Yield(c) \/ SleepYield(c) PROVE IdleInv'
  <2>1. /\ s.cur = c /\ c # idle_thread /\ sys' = thread_yield(s)
        /\ sleep' = sleep /\ late' = late
    BY <1>2, <1>i DEF Yield, SleepYield, Free, Runs
  <2> QED BY <1>0, <1>i, <2>1, YieldBehind, Zenon DEF IdleInv
<1>3. ASSUME NEW c \in Threads, Block(c) PROVE IdleInv'
  <2>1. /\ sys' = thread_block(s, TASK_BLOCKED) /\ TASK_BLOCKED \in NotScheduled
        /\ s.cur # idle_thread /\ sleep' = sleep /\ late' = late
    BY <1>3, Zenon DEF Block, NotScheduled, Free, Runs
  <2> QED BY <1>0, <1>i, <2>1, BlockBehind, Zenon DEF IdleInv, BehindAlone
<1>4. ASSUME NEW c \in Threads, NEW t \in Threads, Unblock(c, t) PROVE IdleInv'
  <2>1. /\ s.cur # idle_thread /\ t # idle_thread /\ Blocked(s, t)
        /\ sys' = thread_unblock(s, t) /\ sleep' = sleep /\ late' = late
    BY <1>4, Zenon DEF Unblock, Free, Runs, Wakeable, Blocked
  <2> QED BY <1>0, <1>i, <2>1, UnblockBehind, Zenon DEF IdleInv
<1>5. ASSUME NEW t \in Threads, DeviceInterrupt(t) PROVE IdleInv'
  <2> DEFINE e == EndHlt(s)
  <2>1. /\ e \in SchedulerState
        /\ e.cur = s.cur /\ e.status = s.status /\ e.ready = s.ready /\ e.panic = s.panic
    BY <1>0, EndHltFacts, Zenon
  <2>2. e.at # "hlt" /\ (e.at # "block" => s.at = "sti")
    BY <1>0, <1>i, EndHltBehind, Zenon
  <2>3. sys' = thread_unblock(e, t) /\ sleep' = sleep /\ t # idle_thread /\ late' = Late
    BY <1>5, Zenon DEF DeviceInterrupt, Wakeable
  <2> HIDE DEF e
  <2>4. WellFormed(e, NewThreads) /\ Blocked(e, t)
    BY <1>0, <1>5, <2>1, SameScheduling, Zenon DEF DeviceInterrupt, Wakeable, Blocked
  <2>5. ~Late => BehindAlone(e) /\ (e.cur = idle_thread => e.at = "block")
    BY <1>i, <2>1, <2>2 DEF BehindAlone, Late
  <2>6. /\ sys'.at # "hlt"
        /\ ~late' => BehindAlone(sys')
    BY <2>1, <2>2, <2>3, <2>4, <2>5, UnblockBehind, Zenon
  <2> QED BY <1>i, <2>3, <2>6, Zenon DEF IdleInv
<1>6. ASSUME NEW c \in Threads, NEW t \in Threads, StartInit(c, t) PROVE IdleInv'
  <2>1. /\ sys'.at = s.at /\ sys'.cur = s.cur /\ sys'.ready = s.ready
        /\ sleep' = sleep /\ late' = late
    BY <1>0, <1>6, Zenon DEF StartInit, init_thread, SchedulerState
  <2> QED BY <1>i, <2>1, Zenon DEF IdleInv, BehindAlone
<1>7. ASSUME NEW c \in Threads, NEW t \in Threads, StartEnqueue(c, t) PROVE IdleInv'
  <2>1. /\ s.cur = c /\ t \in creating[c] /\ sys' = EnqueueNew(s, t)
        /\ sleep' = sleep /\ late' = late
    BY <1>7, Zenon DEF StartEnqueue, Runs
  <2>2. t \in NewThreads /\ c # idle_thread
    BY <2>1 DEF NewThreads, IInv, CreatedOnce
  <2>3. t # idle_thread /\ ~elem_find(s.ready, t) /\ s.ready \in Seq(Threads) /\ IsInjective(s.ready)
    BY <1>0, <2>2, Zenon DEF WellFormed, Created, ReadyExact, SchedulerState
  <2>4. sys'.ready = Append(s.ready, t) /\ sys'.cur = s.cur /\ sys'.at = s.at
    BY <1>0, <2>1, <2>3, Zenon DEF EnqueueNew, SchedulerState
  <2>5. elem_find(sys'.ready, idle_thread) => elem_find(s.ready, idle_thread)
    BY <1>i, <2>3, <2>4, AppendNew
  <2> QED BY <1>i, <2>1, <2>2, <2>4, <2>5, Zenon DEF IdleInv, BehindAlone
<1>8. ASSUME NEW c \in Threads, NEW n \in SleepTicks, SleepBegin(c, n) PROVE IdleInv'
  BY <1>8, <1>i, <1>t, Zenon DEF SleepBegin, Free, IdleInv
<1>9. ASSUME NEW c \in Threads, SleepEnd(c) PROVE IdleInv'
  BY <1>9, <1>i, <1>t, Zenon DEF SleepEnd, IdleInv, Awake
<1>10. CASE Idle
  <2>a. CASE s.at = "block"
    <3> DEFINE r == [s EXCEPT !.at = "sti"]
    <3>1. /\ r \in SchedulerState /\ s.cur = idle_thread /\ r.at = "sti"
          /\ r.cur = s.cur /\ r.status = s.status /\ r.ready = s.ready /\ r.panic = s.panic
      BY <1>0, <1>10, ZenonT(60) DEF Idle, Runs, SchedulerState
    <3>2. sys' = thread_block(r, TASK_BLOCKED) /\ sleep' = sleep /\ TASK_BLOCKED \in NotScheduled
      BY <1>10, <2>a, Zenon DEF Idle, idle, NotScheduled
    <3> HIDE DEF r
    <3>3. WellFormed(r, NewThreads)
      BY <1>0, <3>1, SameScheduling, Zenon
    <3>4. ~elem_find(r.ready, idle_thread)
      BY <1>0, <1>i, <3>1, Zenon DEF WellFormed, OneRuns, ReadyExact, TASK_READY, TASK_RUNING
    <3>5. sys'.at = "sti" /\ BehindAlone(sys')
      BY <3>1, <3>2, <3>3, <3>4, BlockBehind, Zenon
    <3> QED BY <1>i, <3>2, <3>5 DEF IdleInv
  <2>b. CASE s.at # "block"
    <3>1. /\ s.cur = idle_thread /\ s.at = "sti" /\ late' = late /\ sleep' = sleep
          /\ sys' = [s EXCEPT !.intr = TRUE, !.at = "hlt"]
      BY <1>0, <1>10, <1>t, <2>b DEF Idle, Runs, idle, SchedulerState
    <3>2. sys'.cur = s.cur /\ sys'.ready = s.ready
      BY <1>0, <3>1, Zenon DEF SchedulerState
    <3> QED BY <1>i, <3>1, <3>2 DEF IdleInv, BehindAlone
  <2> QED BY <2>a, <2>b, Zenon
<1>11. CASE TimerInterrupt
  <2>1. sys' = intr_timer_handler(s) /\ late' = Late /\ sleep' = sleep
    BY <1>11, Zenon DEF TimerInterrupt
  <2>2. sys'.at # "hlt"
    BY <1>0, <1>i, <2>1, TimerBehind, Zenon
  <2>3. ~late' => (s.at = "sti" => BehindAlone(s) /\ s.cur # idle_thread)
    BY <1>i, <2>1, Zenon DEF Late
  <2>4. ~late' => BehindAlone(sys')
    BY <1>0, <1>i, <2>1, <2>3, TimerBehind, Zenon
  <2> QED BY <1>i, <2>1, <2>2, <2>4, Zenon DEF IdleInv
<1>12. CASE UNCHANGED vars
  BY <1>12, Zenon DEF vars, IdleInv, BehindAlone
<1> QED
  BY <1>1, <1>2, <1>3, <1>4, <1>5, <1>6, <1>7, <1>8, <1>9, <1>10, <1>11, <1>12, Zenon
     DEF Next, ThreadStep

-----------------------------------------------------------------------------
(* Sleeping.                                                               *)

\* The counter steps by one or wraps to 0, and a difference that has wrapped is right.
LEMMA Wrapping ==
  ASSUME NEW x \in 0..(TickMod - 1)
  PROVE  /\ (x + 1) % TickMod = IF x + 1 = TickMod THEN 0 ELSE x + 1
         /\ x % TickMod = x /\ (TickMod + x) % TickMod = x
  BY SchedAssumption

\* While a thread sleeps, what ticks_to_sleep subtracts is the time that has gone by.
LEMMA ElapsedFacts ==
  ASSUME IInv, SleepInv, NEW c \in Threads, sleep[c].n > 0, slept[c] < TickMod
  PROVE  Elapsed(c) = slept[c]
<1>1. /\ TickMod \in Nat \ {0} /\ slept[c] \in 0..(TickMod - 1) /\ ticks \in 0..(TickMod - 1)
      /\ sleep[c].start \in 0..(TickMod - 1)
  BY SchedAssumption DEF IInv, TypeOK
<1>2. CASE ticks = sleep[c].start + slept[c]
  <2>1. TickMod + ticks - sleep[c].start = TickMod + slept[c]
    BY <1>1, <1>2
  <2> QED BY <1>1, <2>1, Wrapping, Zenon DEF Elapsed
<1>3. CASE ticks = sleep[c].start + slept[c] - TickMod
  <2>1. TickMod + ticks - sleep[c].start = slept[c]
    BY <1>1, <1>3
  <2> QED BY <1>1, <2>1, Wrapping, Zenon DEF Elapsed
<1> QED BY <1>2, <1>3, Zenon DEF SleepInv

\* The ticks counted for a sleeper keep up with the counter, over a wrap too.
LEMMA NextSleepInv == IInv /\ SleepInv /\ [Next]_vars => SleepInv'
<1> SUFFICES ASSUME IInv, SleepInv, [Next]_vars PROVE SleepInv'
  BY Zenon
<1>t. /\ TickMod \in Nat \ {0} /\ ticks \in 0..(TickMod - 1)
      /\ sleep \in [Threads -> [start : 0..(TickMod - 1), n : 0..(TickMod - 1)]]
      /\ slept \in [Threads -> 0..TickMod]
  BY SchedAssumption, Zenon DEF IInv, TypeOK
<1>1. CASE UNCHANGED <<ticks, sleep, slept>>
  BY <1>1, Zenon DEF SleepInv
<1>2. ASSUME NEW c \in Threads, NEW n \in SleepTicks, SleepBegin(c, n) PROVE SleepInv'
  <2> SUFFICES ASSUME NEW d \in Threads, sleep'[d].n > 0, slept'[d] < TickMod
               PROVE  ticks' \in {sleep'[d].start + slept'[d], sleep'[d].start + slept'[d] - TickMod}
    BY Zenon DEF SleepInv
  <2>1. CASE d = c
    BY <1>2, <1>t, <2>1 DEF SleepBegin
  <2>2. CASE d # c
    <3>1. sleep'[d] = sleep[d] /\ slept'[d] = slept[d] /\ ticks' = ticks
      BY <1>2, <1>t, <2>2, Zenon DEF SleepBegin
    <3> QED BY <3>1, Zenon DEF SleepInv
  <2> QED BY <2>1, <2>2, Zenon
<1>3. ASSUME NEW c \in Threads, SleepEnd(c) PROVE SleepInv'
  <2> SUFFICES ASSUME NEW d \in Threads, sleep'[d].n > 0, slept'[d] < TickMod
               PROVE  ticks' \in {sleep'[d].start + slept'[d], sleep'[d].start + slept'[d] - TickMod}
    BY Zenon DEF SleepInv
  <2>1. d # c
    BY <1>3, <1>t DEF SleepEnd, Awake
  <2>2. sleep'[d] = sleep[d] /\ slept'[d] = slept[d] /\ ticks' = ticks
    BY <1>3, <1>t, <2>1, Zenon DEF SleepEnd
  <2> QED BY <2>2, Zenon DEF SleepInv
<1>4. CASE TimerInterrupt
  <2> SUFFICES ASSUME NEW d \in Threads, sleep'[d].n > 0, slept'[d] < TickMod
               PROVE  ticks' \in {sleep'[d].start + slept'[d], sleep'[d].start + slept'[d] - TickMod}
    BY Zenon DEF SleepInv
  <2>1. sleep' = sleep /\ sleep[d].n > 0 /\ slept[d] < TickMod /\ slept'[d] = slept[d] + 1
    BY <1>4, <1>t, Zenon DEF TimerInterrupt
  <2>2. ticks' = IF ticks + 1 = TickMod THEN 0 ELSE ticks + 1
    BY <1>4, <1>t, Wrapping, Zenon DEF TimerInterrupt
  <2>3. ticks \in {sleep[d].start + slept[d], sleep[d].start + slept[d] - TickMod}
    BY <2>1, Zenon DEF SleepInv
  <2>4. sleep[d].start \in 0..(TickMod - 1) /\ slept[d] \in 0..(TickMod - 1)
    BY <1>t, <2>1
  <2> QED BY <1>t, <2>1, <2>2, <2>3, <2>4
<1> QED
  BY <1>1, <1>2, <1>3, <1>4, Zenon
     DEF Next, ThreadStep, vars, IntrDisable, IntrEnable, Yield, SleepYield, Block, Unblock,
         DeviceInterrupt, StartInit, StartEnqueue, Idle

-----------------------------------------------------------------------------

\* The invariant holds in every state of every behaviour.
THEOREM Invariance == Spec => []IInv
  BY InitIInv, NextIInv, PTL DEF Spec

\* Every variable keeps its type; in particular the uint8_t time slice never wraps
\* below 0, although the timer decrements it on every tick.
THEOREM TypeCorrect == Spec => []TypeOK
<1>1. IInv => TypeOK
  BY Zenon DEF IInv
<1> QED BY <1>1, Invariance, PTL

\* No ASSERT of thread.c fails, for any number of threads and any use of them.
THEOREM NeverPanics == Spec => []NoPanic
<1>1. IInv => NoPanic
  BY Zenon DEF IInv, WellFormed, NoPanic
<1> QED BY <1>1, Invariance, PTL

\* thread_ready_list holds each thread whose status is TASK_READY exactly once, and
\* no other, apart from those that thread_start has not enqueued yet.
THEOREM ReadyListIsExact == Spec => []ReadyListExact
<1>1. IInv => ReadyListExact
  BY Zenon DEF IInv, WellFormed, ReadyExact, ReadyListExact, NewThreads
<1> QED BY <1>1, Invariance, PTL

\* The thread whose stack the CPU is on is the one with the status TASK_RUNING.
THEOREM RunningThreadIsCurrent == Spec => []RunningIsCurrent
<1>1. IInv => RunningIsCurrent
  BY Zenon DEF IInv, WellFormed, OneRuns, RunningIsCurrent
<1> QED BY <1>1, Invariance, PTL

\* idle stops the CPU only when nothing else could run, up to an interrupt between its
\* thread_block and the hlt: it is only given the CPU back over an empty ready list, and
\* a thread that becomes ready later ends the hlt.
THEOREM IdleHaltsAlone == Spec => []IdleHaltsOnlyWhenNothingIsReady
<1>1. Init => IdleInv
  BY ThreadAssumption DEF Init, thread_init, Awake, IdleInv, BehindAlone
<1>2. IdleInv => IdleHaltsOnlyWhenNothingIsReady
  BY Zenon DEF IdleInv, BehindAlone, IdleHaltsOnlyWhenNothingIsReady
<1> QED BY <1>1, <1>2, NextIdleInv, Invariance, PTL DEF Spec

\* mtime_sleep lasts at least the ticks it was asked for, for every width of the
\* counter, every argument below it and however often the counter wraps.
THEOREM SleepsLongEnough == Spec => SleepNotShort
<1>1. Init => SleepInv
  BY DEF Init, Awake, SleepInv
<1>2. ASSUME IInv, SleepInv, [Next]_vars,
             NEW c \in Threads, sleep[c].n > 0, sleep'[c].n = 0
      PROVE  slept[c] >= sleep[c].n
  <2>t. /\ TickMod \in Nat \ {0} /\ slept[c] \in 0..TickMod
        /\ sleep \in [Threads -> [start : 0..(TickMod - 1), n : 0..(TickMod - 1)]]
    BY <1>2, SchedAssumption, Zenon DEF IInv, TypeOK
  <2>1. sleep' # sleep
    BY <1>2
  <2>2. ASSUME NEW d \in Threads, NEW n \in SleepTicks, SleepBegin(d, n) PROVE FALSE
    <3>1. d # c /\ sleep' = [sleep EXCEPT ![d] = [start |-> ticks, n |-> n]]
      BY <1>2, <2>2 DEF SleepBegin, Free
    <3> QED BY <1>2, <2>t, <3>1
  <2>3. PICK d \in Threads : SleepEnd(d)
    BY <1>2, <2>1, <2>2, Zenon
       DEF Next, ThreadStep, vars, IntrDisable, IntrEnable, Yield, SleepYield, Block, Unblock,
           DeviceInterrupt, StartInit, StartEnqueue, Idle, TimerInterrupt
  <2>4. d = c
    <3>1. d # c => sleep'[c] = sleep[c]
      BY <2>3, <2>t, Zenon DEF SleepEnd
    <3> QED BY <1>2, <2>t, <3>1
  <2>5. Elapsed(c) >= sleep[c].n
    BY <2>3, <2>4, Zenon DEF SleepEnd
  <2>6. CASE slept[c] = TickMod
    BY <2>6, <2>t
  <2>7. CASE slept[c] < TickMod
    BY <1>2, <2>5, <2>7, ElapsedFacts, Zenon
  <2> QED BY <2>6, <2>7, <2>t
<1>3. IInv /\ SleepInv /\ [Next]_vars =>
        [\A c \in Threads : sleep[c].n > 0 /\ sleep'[c].n = 0 => slept[c] >= sleep[c].n]_vars
  BY <1>2, Zenon
<1> QED BY <1>1, <1>3, NextSleepInv, Invariance, PTL DEF Spec, SleepNotShort
=============================================================================
