---------------------------- MODULE LockingProofs ----------------------------
(***************************************************************************)
(* The locks of sync.c exclude each other's threads, lose no wakeup and    *)
(* fail none of their assertions, for any number of threads and locks and  *)
(* any depth of nesting.                                                   *)
(***************************************************************************)
EXTENDS Locking, ThreadProofs

\* A booted system with every lock free satisfies the invariant.
LEMMA InitIInv == Init => IInv
<1> SUFFICES ASSUME Init PROVE IInv
  BY Zenon
<1> USE DEF NONE, TASK_READY, TASK_RUNING, TASK_BLOCKED, TASK_WAITING, TASK_HANGING
<1>1. /\ sys \in SchedulerState
      /\ sys.cur = main_thread /\ sys.ready = Started /\ ~sys.panic
      /\ sys.status = [t \in Threads |-> IF t = main_thread THEN TASK_RUNING ELSE TASK_READY]
  BY ThreadAssumption, LockingAssumption, ZenonT(60)
     DEF Init, Booted, thread_init, SchedulerState, task_status
<1>2. TypeOK
  BY <1>1, LockingAssumption DEF TypeOK, Init, SyncInit, SyncLabels, ClientLabels
<1>3. WellFormed(sys, {})
  <2>1. \A t \in Threads : elem_find(Started, t) <=> t # main_thread
    BY LockingAssumption, ThreadAssumption DEF elem_find, Range
  <2> QED
    BY <1>1, <2>1, LockingAssumption, ThreadAssumption, Zenon
       DEF WellFormed, ReadyExact, OneRuns, Created
<1>4. FrameInv
  BY <1>1, LockingAssumption, Zenon DEF FrameInv, Init
<1>5. \A t \in Threads : ~Owns(t)
  BY DEF Owns, Init
<1>6. OwnerInv
  BY <1>5, SyncAssumption DEF OwnerInv, Init, SyncInit
<1>7. \A l \in Locks : waiters[l] = <<>>
  BY Zenon DEF Init, SyncInit
<1>8. WaitersInv
  <2>1. IsInjective(<<>>) /\ \A t \in Threads : ~elem_find(<<>>, t)
    BY DEF IsInjective, elem_find
  <2>2. \A t \in Threads : pc[t] # "woken"
    BY Zenon DEF Init
  <2> QED BY <1>7, <2>1, <2>2, Zenon DEF WaitersInv
<1>9. NoLostWakeup
  BY <1>7, Zenon DEF NoLostWakeup
<1> QED BY <1>2, <1>3, <1>4, <1>6, <1>8, <1>9, Zenon DEF IInv

\* A step of the scheduler that blocks and unblocks nobody but idle.
LEMMA QuietStep ==
  ASSUME IInv, sys' \in SchedulerState, WellFormed(sys', {}), SameBlocked(sys, sys', {}),
         UNCHANGED <<semaphore, lock, frame, depth>>
  PROVE  IInv'
<1> USE DEF NONE, TASK_READY, TASK_RUNING, TASK_BLOCKED, TASK_WAITING, TASK_HANGING
<1>0. UNCHANGED <<value, waiters, holder, holder_repeat_nr, pc, lk, ret, saved, depth>>
  BY Zenon DEF semaphore, lock, frame
<1>1. TypeOK'
  BY <1>0, Zenon DEF IInv, TypeOK
<1>2. FrameInv'
  BY <1>0, Zenon DEF IInv, FrameInv, SameBlocked, WellFormed, Created
<1>3. OwnerInv'
  BY <1>0 DEF IInv, OwnerInv, Owns, RepeatOf
<1>4. \A t \in Threads : pc[t] = "woken" => Blocked(sys', t) <=> Blocked(sys, t)
  BY Zenon DEF IInv, FrameInv, SameBlocked
<1>5. WaitersInv'
  BY <1>0, <1>4, Zenon DEF IInv, WaitersInv
<1>6. \A t \in Threads :
        /\ Blocked(sys, t) <=> ~ sys.status[t] \in {TASK_READY, TASK_RUNING}
        /\ Blocked(sys', t) <=> ~ sys'.status[t] \in {TASK_READY, TASK_RUNING}
  BY <1>2 DEF IInv, TypeOK, SchedulerState, FrameInv, Blocked, task_status, NotScheduled
<1>7. NoLostWakeup'
  BY <1>0, <1>4, <1>6, Zenon DEF IInv, NoLostWakeup
<1> QED BY <1>1, <1>2, <1>3, <1>5, <1>7, Zenon DEF IInv

\* The thread that steps is the running one and waits in no list.
LEMMA Stepping ==
  ASSUME IInv, NEW t \in Threads, Runs(sys, t)
  PROVE  /\ sys \in SchedulerState /\ WellFormed(sys, {}) /\ sys.cur = t
         /\ ~Blocked(sys, t)
         /\ \A l \in Locks : ~elem_find(waiters[l], t)
<1>1. sys \in SchedulerState /\ WellFormed(sys, {}) /\ sys.cur = t
  BY Zenon DEF IInv, TypeOK, Runs
<1>2. sys.status[t] = TASK_RUNING
  BY <1>1, Zenon DEF WellFormed, OneRuns
<1>3. ~Blocked(sys, t)
  BY <1>2, Zenon DEF Blocked, NotScheduled, TASK_RUNING, TASK_BLOCKED, TASK_WAITING, TASK_HANGING
<1> QED BY <1>1, <1>3, Zenon DEF IInv, WaitersInv

\* A step of t outside the loop of sema_down that leaves scheduler and semaphores
\* alone cannot disturb who waits.
LEMMA LocalStep ==
  ASSUME IInv, NEW t \in Threads, NEW label, NEW l \in Locks,
         pc[t] # "woken", label # "woken",
         pc' = [pc EXCEPT ![t] = label], lk' = [lk EXCEPT ![t] = l],
         UNCHANGED <<sys, value, waiters>>
  PROVE  WellFormed(sys, {})' /\ WaitersInv' /\ NoLostWakeup'
<1>1. pc \in [Threads -> SyncLabels \union ClientLabels] /\ lk \in [Threads -> Locks]
  BY Zenon DEF IInv, TypeOK
<1>2. \A u \in Threads : (pc'[u] = "woken") <=> (pc[u] = "woken")
  BY <1>1, Zenon
<1>3. \A u \in Threads : u # t => lk'[u] = lk[u]
  BY <1>1, Zenon
<1>4. WaitersInv'
  BY <1>2, <1>3 DEF IInv, WaitersInv, Blocked
<1>5. NoLostWakeup'
  BY <1>2, <1>3 DEF IInv, NoLostWakeup
<1> QED BY <1>4, <1>5, Zenon DEF IInv, WellFormed, ReadyExact, OneRuns, Created

\* The types that steps of the locks use.
LEMMA Types ==
  ASSUME IInv
  PROVE  /\ value \in [Locks -> 0..1]
         /\ holder \in [Locks -> Threads \union {NULL}]
         /\ holder_repeat_nr \in [Locks -> 0..MaxDepth]
         /\ pc \in [Threads -> SyncLabels \union ClientLabels]
         /\ lk \in [Threads -> Locks]
         /\ ret \in [Threads -> ClientLabels]
         /\ depth \in [Threads -> 0..MaxDepth]
         /\ MaxDepth \in Nat \ {0}
  BY LockingAssumption, Zenon DEF IInv, TypeOK

\* The call of lock_acquire preserves the invariant.
LEMMA AcquireStep ==
  ASSUME IInv, NEW t \in Threads, NEW l \in Locks, Acquire(t, l) PROVE IInv'
<1> USE DEF At, Call, Goto, semaphore, lock
<1>0. /\ pc' = [pc EXCEPT ![t] = "acquire"] /\ lk' = [lk EXCEPT ![t] = l]
      /\ ret' = [ret EXCEPT ![t] = "in"]
      /\ UNCHANGED <<sys, value, waiters, holder, holder_repeat_nr, saved, depth>>
      /\ t # idle_thread
      /\ pc[t] = "out" \/ (pc[t] = "in" /\ l = lk[t] /\ depth[t] < MaxDepth)
  BY Zenon DEF Acquire
<1>1. TypeOK'
  BY <1>0, Zenon DEF IInv, TypeOK, SyncLabels, ClientLabels
<1>2. FrameInv'
  BY <1>0, Types DEF IInv, FrameInv
<1>3. OwnerInv'
  BY <1>0, Types DEF IInv, FrameInv, OwnerInv, Owns, RepeatOf
<1> QED BY <1>0, <1>1, <1>2, <1>3, LocalStep, Zenon DEF IInv

\* The call of lock_release preserves the invariant.
LEMMA ReleaseStep ==
  ASSUME IInv, NEW t \in Threads, Release(t) PROVE IInv'
<1> USE DEF At, Call, Goto, semaphore, lock
<1>0. /\ pc' = [pc EXCEPT ![t] = "release"] /\ lk' = [lk EXCEPT ![t] = lk[t]]
      /\ ret' = [ret EXCEPT ![t] = IF depth[t] = 1 THEN "out" ELSE "leaving"]
      /\ depth' = [depth EXCEPT ![t] = @ - 1]
      /\ UNCHANGED <<sys, value, waiters, holder, holder_repeat_nr, saved>>
      /\ pc[t] = "in" \/ pc[t] = "leaving"
  BY Zenon DEF Release
<1>1. TypeOK'
  BY <1>0, Types DEF IInv, TypeOK, FrameInv, SyncLabels, ClientLabels
<1>2. FrameInv'
  BY <1>0, Types DEF IInv, FrameInv
<1>3. OwnerInv'
  BY <1>0, Types DEF IInv, FrameInv, OwnerInv, Owns, RepeatOf
<1> QED BY <1>0, <1>1, <1>2, <1>3, Types, LocalStep, Zenon DEF IInv

\* So does the test of lock_acquire, for a new owner and for one that nests.
LEMMA LockAcquireStep ==
  ASSUME IInv, NEW t \in Threads, lock_acquire(t), InCall(t) PROVE IInv'
<1> USE DEF At, Goto, semaphore
<1> DEFINE l == lk[t]
<1>0. l \in Locks /\ lk' = [lk EXCEPT ![t] = l]
  BY Types, Zenon DEF lock_acquire
<1>1. CASE holder[l] # t
  <2>0. /\ pc' = [pc EXCEPT ![t] = "down"] /\ pc[t] = "acquire"
        /\ UNCHANGED <<sys, value, waiters, holder, holder_repeat_nr, lk, ret, saved, depth>>
    BY <1>1, Types, Zenon DEF lock_acquire, InCall
  <2>1. depth[t] = 0
    BY <1>0, <1>1, Types DEF IInv, OwnerInv
  <2>2. TypeOK'
    BY <2>0, Zenon DEF IInv, TypeOK, SyncLabels, ClientLabels
  <2>3. FrameInv'
    BY <2>0, <2>1, Types, Zenon DEF IInv, FrameInv
  <2>4. OwnerInv'
    BY <2>0, <2>1, Types DEF IInv, FrameInv, OwnerInv, Owns, RepeatOf
  <2> QED BY <1>0, <2>0, <2>2, <2>3, <2>4, LocalStep, Zenon DEF IInv
<1>2. CASE holder[l] = t
  <2>0. /\ pc' = [pc EXCEPT ![t] = "in"] /\ pc[t] = "acquire"
        /\ holder_repeat_nr' = [holder_repeat_nr EXCEPT ![l] = @ + 1]
        /\ depth' = [depth EXCEPT ![t] = @ + 1]
        /\ UNCHANGED <<sys, value, waiters, holder, lk, ret, saved>>
    BY <1>2, Types, Zenon DEF lock_acquire, InCall, IInv, FrameInv
  <2>1. depth[t] > 0 /\ depth[t] < MaxDepth /\ holder_repeat_nr[l] = depth[t]
    BY <1>0, <1>2, <2>0, Types DEF IInv, OwnerInv, FrameInv, Owns, RepeatOf
  <2>2. TypeOK'
    BY <1>0, <2>0, <2>1, Types DEF IInv, TypeOK, SyncLabels, ClientLabels
  <2>3. FrameInv'
    BY <2>0, <2>1, Types DEF IInv, FrameInv
  <2>4. OwnerInv'
    <3>1. \A u \in Threads : Owns(u)' <=> Owns(u)
      BY <2>0, <2>1, Types DEF Owns
    <3>2. \A u \in Threads \ {t} : Owns(u) => lk[u] # l /\ RepeatOf(u)' = RepeatOf(u)
      BY <2>0, <2>1, Types DEF IInv, OwnerInv, Owns, RepeatOf
    <3>3. RepeatOf(t)' = depth[t] + 1 /\ Owns(t)
      BY <2>0, <2>1, Types, Zenon DEF RepeatOf, Owns
    <3> QED BY <1>0, <2>0, <2>1, <3>1, <3>2, <3>3, Types DEF IInv, OwnerInv
  <2> QED BY <1>0, <2>0, <2>2, <2>3, <2>4, LocalStep, Zenon DEF IInv
<1> QED BY <1>1, <1>2, Zenon

\* So does "plock->holder = running_thread()".
LEMMA SetHolderStep ==
  ASSUME IInv, NEW t \in Threads, SetHolder(t), InCall(t) PROVE IInv'
<1> DEFINE l == lk[t]
<1>0. /\ pc' = [pc EXCEPT ![t] = "set_repeat"] /\ pc[t] = "set_holder"
      /\ l \in Locks /\ lk' = [lk EXCEPT ![t] = l] /\ holder' = [holder EXCEPT ![l] = t]
      /\ UNCHANGED <<sys, value, waiters, holder_repeat_nr, lk, ret, saved, depth>>
  BY Types, Zenon DEF SetHolder, InCall, At, Goto, semaphore
<1>1. TypeOK'
  BY <1>0, Zenon DEF IInv, TypeOK, SyncLabels, ClientLabels
<1>2. FrameInv'
  BY <1>0, Types, Zenon DEF IInv, FrameInv
<1>3. OwnerInv'
  <2>1. depth[t] = 0 /\ Owns(t)
    BY <1>0, Zenon DEF IInv, FrameInv, Owns
  <2>2. \A u \in Threads : (Owns(u)' <=> Owns(u)) /\ (Owns(u) => RepeatOf(u)' = RepeatOf(u))
    BY <1>0, <2>1, Types, Zenon DEF Owns, RepeatOf
  <2>3. \A u \in Threads \ {t} : Owns(u) => lk[u] # l
    BY <2>1, Zenon DEF IInv, OwnerInv
  <2> QED BY <1>0, <2>1, <2>2, <2>3, Types, SyncAssumption DEF IInv, OwnerInv, Owns
<1> QED BY <1>0, <1>1, <1>2, <1>3, LocalStep, Zenon DEF IInv

\* So does "holder_repeat_nr = 1", whose ASSERT holds.
LEMMA SetRepeatStep ==
  ASSUME IInv, NEW t \in Threads, SetRepeat(t), InCall(t) PROVE IInv'
<1> DEFINE l == lk[t]
<1>1. pc[t] = "set_repeat" /\ l \in Locks /\ depth[t] = 0 /\ ret[t] = "in" /\ Owns(t)
  BY Types, Zenon DEF SetRepeat, At, IInv, FrameInv, Owns
<1>2. holder_repeat_nr[l] = 0
  BY <1>1, Zenon DEF IInv, OwnerInv, RepeatOf
<1>0. /\ pc' = [pc EXCEPT ![t] = "in"]
      /\ lk' = [lk EXCEPT ![t] = l] /\ depth' = [depth EXCEPT ![t] = 1]
      /\ holder_repeat_nr' = [holder_repeat_nr EXCEPT ![l] = 1]
      /\ UNCHANGED <<sys, value, waiters, holder, lk, ret, saved>>
  BY <1>1, <1>2, Types DEF SetRepeat, ASSERT, InCall, At, Goto, semaphore
<1>3. TypeOK'
  BY <1>0, Types DEF IInv, TypeOK, SyncLabels, ClientLabels
<1>4. FrameInv'
  BY <1>0, <1>1, Types DEF IInv, FrameInv
<1>5. OwnerInv'
  <2>1. \A u \in Threads : Owns(u)' <=> Owns(u)
    <3>1. depth'[t] = 1 /\ 1 > 0
      BY <1>0, Types
    <3>2. Owns(t)'
      BY <3>1, Zenon DEF Owns
    <3>3. \A u \in Threads : u # t => depth'[u] = depth[u] /\ pc'[u] = pc[u]
      BY <1>0, Types, Zenon
    <3>4. \A u \in Threads : u # t => (Owns(u)' <=> Owns(u))
      BY <3>3, Zenon DEF Owns
    <3> QED BY <1>1, <3>2, <3>4, Zenon
  <2>2. \A u \in Threads \ {t} : Owns(u) => lk[u] # l /\ RepeatOf(u)' = RepeatOf(u)
    BY <1>0, <1>1, Types DEF IInv, OwnerInv, Owns, RepeatOf
  <2>3. RepeatOf(t)' = 1
    BY <1>0, Types, Zenon DEF RepeatOf
  <2> QED BY <1>0, <1>1, <2>1, <2>2, <2>3, Types DEF IInv, OwnerInv
<1> QED BY <1>0, <1>1, <1>3, <1>4, <1>5, LocalStep, Zenon DEF IInv

\* At "release" the ASSERTs of lock_release hold.
LEMMA AtRelease ==
  ASSUME IInv, NEW t \in Threads, At(t, "release")
  PROVE  /\ pc[t] = "release" /\ lk[t] \in Locks /\ Owns(t)
         /\ holder[lk[t]] = t /\ holder_repeat_nr[lk[t]] = depth[t] + 1
         /\ ret[t] = IF depth[t] = 0 THEN "out" ELSE "leaving"
         /\ depth[t] < MaxDepth
<1>1. pc[t] = "release" /\ lk[t] \in Locks /\ Owns(t)
  BY Types, Zenon DEF At, Owns
<1>2. holder[lk[t]] = t /\ holder_repeat_nr[lk[t]] = RepeatOf(t)
  BY <1>1 DEF IInv, OwnerInv
<1> QED BY <1>1, <1>2, Zenon DEF IInv, FrameInv, RepeatOf

\* So does the release of a lock that is held more than once.
LEMMA ReleaseInnerStep ==
  ASSUME IInv, NEW t \in Threads, ReleaseInner(t), InCall(t) PROVE IInv'
<1> DEFINE l == lk[t]
<1>1. /\ pc[t] = "release" /\ l \in Locks /\ Owns(t) /\ holder[l] = t
      /\ holder_repeat_nr[l] = depth[t] + 1 /\ depth[t] < MaxDepth
      /\ ret[t] = IF depth[t] = 0 THEN "out" ELSE "leaving"
      /\ holder_repeat_nr[l] > 1
  BY AtRelease, Zenon DEF ReleaseInner
<1>2. depth[t] > 0 /\ ret[t] = "leaving"
  BY <1>1, Types
<1>0. /\ pc' = [pc EXCEPT ![t] = "leaving"] /\ lk' = [lk EXCEPT ![t] = l]
      /\ holder_repeat_nr' = [holder_repeat_nr EXCEPT ![l] = depth[t]]
      /\ UNCHANGED <<sys, value, waiters, holder, lk, ret, saved, depth>>
  BY <1>1, <1>2, Types DEF ReleaseInner, ASSERT, InCall, Goto, semaphore
<1>3. TypeOK'
  BY <1>0, Types, Zenon DEF IInv, TypeOK, SyncLabels, ClientLabels
<1>4. FrameInv'
  BY <1>0, <1>2, Types DEF IInv, FrameInv
<1>5. OwnerInv'
  <2>1. \A u \in Threads : Owns(u)' <=> Owns(u)
    BY <1>0, <1>1, <1>2, Types, Zenon DEF Owns
  <2>2. \A u \in Threads \ {t} : Owns(u) => lk[u] # l /\ RepeatOf(u)' = RepeatOf(u)
    BY <1>0, <1>1, Types DEF IInv, OwnerInv, Owns, RepeatOf
  <2>3. RepeatOf(t)' = depth[t]
    BY <1>0, Types, Zenon DEF RepeatOf
  <2> QED BY <1>0, <1>1, <1>2, <2>1, <2>2, <2>3, Types DEF IInv, OwnerInv
<1> QED BY <1>0, <1>1, <1>3, <1>4, <1>5, LocalStep, Zenon DEF IInv

\* So does "plock->holder = NULL".
LEMMA ReleaseLastStep ==
  ASSUME IInv, NEW t \in Threads, ReleaseLast(t), InCall(t) PROVE IInv'
<1> DEFINE l == lk[t]
<1>1. /\ pc[t] = "release" /\ l \in Locks /\ Owns(t) /\ holder[l] = t
      /\ holder_repeat_nr[l] = depth[t] + 1
      /\ ret[t] = IF depth[t] = 0 THEN "out" ELSE "leaving"
      /\ holder_repeat_nr[l] <= 1
  BY AtRelease, Zenon DEF ReleaseLast
<1>2. depth[t] = 0 /\ ret[t] = "out" /\ holder_repeat_nr[l] = 1
  BY <1>1, Types
<1>0. /\ pc' = [pc EXCEPT ![t] = "clear_repeat"] /\ lk' = [lk EXCEPT ![t] = l]
      /\ holder' = [holder EXCEPT ![l] = NULL]
      /\ UNCHANGED <<sys, value, waiters, holder_repeat_nr, lk, ret, saved, depth>>
  BY <1>1, <1>2, Types, Zenon DEF ReleaseLast, ASSERT, InCall, Goto, semaphore
<1>3. TypeOK'
  BY <1>0, Types, Zenon DEF IInv, TypeOK, SyncLabels, ClientLabels
<1>4. FrameInv'
  BY <1>0, <1>1, <1>2, Types, Zenon DEF IInv, FrameInv
<1>5. OwnerInv'
  <2>1. \A u \in Threads : Owns(u)' <=> Owns(u)
    BY <1>0, <1>1, <1>2, Types, Zenon DEF Owns
  <2>2. \A u \in Threads \ {t} : Owns(u) => lk[u] # l /\ RepeatOf(u)' = RepeatOf(u)
    BY <1>0, <1>1, Types DEF IInv, OwnerInv, Owns, RepeatOf
  <2>3. RepeatOf(t)' = 1
    BY <1>0, Types, Zenon DEF RepeatOf
  <2> QED BY <1>0, <1>1, <1>2, <2>1, <2>2, <2>3, Types, SyncAssumption DEF IInv, OwnerInv, Owns
<1> QED BY <1>0, <1>1, <1>3, <1>4, <1>5, LocalStep, Zenon DEF IInv

\* So does "holder_repeat_nr = 0".
LEMMA ClearRepeatStep ==
  ASSUME IInv, NEW t \in Threads, ClearRepeat(t), InCall(t) PROVE IInv'
<1> DEFINE l == lk[t]
<1>1. pc[t] = "clear_repeat" /\ l \in Locks /\ depth[t] = 0 /\ ret[t] = "out" /\ Owns(t)
  BY Types, Zenon DEF ClearRepeat, At, IInv, FrameInv, Owns
<1>0. /\ pc' = [pc EXCEPT ![t] = "up"] /\ lk' = [lk EXCEPT ![t] = l]
      /\ holder_repeat_nr' = [holder_repeat_nr EXCEPT ![l] = 0]
      /\ UNCHANGED <<sys, value, waiters, holder, lk, ret, saved, depth>>
  BY <1>1, Types, Zenon DEF ClearRepeat, InCall, Goto, semaphore
<1>3. TypeOK'
  BY <1>0, Types DEF IInv, TypeOK, SyncLabels, ClientLabels
<1>4. FrameInv'
  BY <1>0, <1>1, Types, Zenon DEF IInv, FrameInv
<1>5. OwnerInv'
  <2>1. \A u \in Threads : Owns(u)' <=> Owns(u)
    BY <1>0, <1>1, Types, Zenon DEF Owns
  <2>2. \A u \in Threads \ {t} : Owns(u) => lk[u] # l /\ RepeatOf(u)' = RepeatOf(u)
    BY <1>0, <1>1, Types DEF IInv, OwnerInv, Owns, RepeatOf
  <2>3. RepeatOf(t)' = 0
    BY <1>0, Types, Zenon DEF RepeatOf
  <2> QED BY <1>0, <1>1, <2>1, <2>2, <2>3, Types DEF IInv, OwnerInv
<1> QED BY <1>0, <1>1, <1>3, <1>4, <1>5, LocalStep, Zenon DEF IInv

\* So does the end of sema_down, whose ASSERT holds.
LEMMA DownTakeStep ==
  ASSUME IInv, NEW t \in Threads, DownTake(t), InCall(t) PROVE IInv'
<1> DEFINE l == lk[t]
<1>1. /\ pc[t] \in {"down", "woken"} /\ l \in Locks /\ depth[t] = 0 /\ ret[t] = "in"
      /\ value[l] = 1 /\ ~Owns(t) /\ Runs(sys, t)
  BY Types DEF DownTake, At, IInv, FrameInv, Owns
<1>2. OldStatus(t) \in BOOLEAN
  BY Zenon DEF OldStatus, IInv, TypeOK, SchedulerState
<1>0. /\ pc' = [pc EXCEPT ![t] = "set_holder"] /\ value' = [value EXCEPT ![l] = 0]
      /\ sys' = [sys EXCEPT !.intr = OldStatus(t)]
      /\ UNCHANGED <<waiters, holder, holder_repeat_nr, lk, ret, saved, depth>>
  BY <1>1, Types DEF DownTake, ASSERT, InCall, Goto, lock
<1>3. /\ sys \in SchedulerState /\ WellFormed(sys, {}) /\ ~Blocked(sys, t)
      /\ \A k \in Locks : ~elem_find(waiters[k], t)
  BY <1>1, Stepping, Zenon
<1>4. sys' \in SchedulerState /\ WellFormed(sys', {})
  BY <1>0, <1>2, <1>3, IntrFacts, Zenon
<1>5. sys'.status = sys.status
  BY <1>0, <1>3, Zenon DEF SchedulerState
<1>6. TypeOK'
  BY <1>0, <1>4, Types DEF IInv, TypeOK, SyncLabels, ClientLabels
<1>7. FrameInv'
  BY <1>0, <1>1, <1>5, Types, Zenon DEF IInv, FrameInv
<1>8. OwnerInv'
  <2>1. \A u \in Threads \ {t} : (Owns(u)' <=> Owns(u)) /\ RepeatOf(u)' = RepeatOf(u)
    BY <1>0, Types, Zenon DEF Owns, RepeatOf
  <2>2. Owns(t)' /\ RepeatOf(t)' = 0
    BY <1>0, Types, Zenon DEF Owns, RepeatOf
  <2>3. \A u \in Threads : Owns(u) => lk[u] # l
    BY <1>1, Types DEF IInv, OwnerInv
  <2>4. holder_repeat_nr[l] = 0 /\ holder[l] # t
    BY <1>1, Types DEF IInv, OwnerInv, Owns
  <2> QED BY <1>0, <1>1, <2>1, <2>2, <2>3, <2>4, Types DEF IInv, OwnerInv, Owns
<1>9. WaitersInv'
  BY <1>0, <1>3, <1>5, Types, Zenon DEF IInv, WaitersInv, Blocked
<1>10. NoLostWakeup'
  <2> SUFFICES ASSUME NEW k \in Locks, value'[k] = 1, waiters'[k] # <<>>
               PROVE  \E u \in Threads : /\ pc'[u] = "woken" /\ lk'[u] = k
                                         /\ sys'.status[u] \in {TASK_READY, TASK_RUNING}
    BY Zenon DEF NoLostWakeup
  <2>1. k # l /\ value[k] = 1 /\ waiters[k] # <<>>
    BY <1>0, <1>1, Types
  <2>2. PICK u \in Threads : /\ pc[u] = "woken" /\ lk[u] = k
                             /\ sys.status[u] \in {TASK_READY, TASK_RUNING}
    BY <2>1, Zenon DEF IInv, NoLostWakeup
  <2>3. u # t
    BY <2>1, <2>2, Zenon
  <2> QED BY <1>0, <1>5, <2>2, <2>3, Types, Zenon
<1> QED BY <1>4, <1>6, <1>7, <1>8, <1>9, <1>10, Zenon DEF IInv

\* So does a round of the loop of sema_down, which queues and blocks the caller.
LEMMA DownBlockStep ==
  ASSUME IInv, NEW t \in Threads, DownBlock(t), InCall(t) PROVE IInv'
<1> USE DEF NONE, TASK_READY, TASK_RUNING, TASK_BLOCKED, TASK_WAITING, TASK_HANGING
<1> DEFINE l == lk[t]
           s == [sys EXCEPT !.intr = FALSE]
<1>1. /\ pc[t] \in {"down", "woken"} /\ l \in Locks /\ depth[t] = 0 /\ ret[t] = "in"
      /\ value[l] = 0 /\ ~Owns(t) /\ Runs(sys, t) /\ t # idle_thread
  BY Types DEF DownBlock, At, IInv, FrameInv, Owns
<1>2. OldStatus(t) \in BOOLEAN
  BY Zenon DEF OldStatus, IInv, TypeOK, SchedulerState
<1>3. /\ sys \in SchedulerState /\ WellFormed(sys, {}) /\ sys.cur = t /\ ~Blocked(sys, t)
      /\ \A k \in Locks : ~elem_find(waiters[k], t)
  BY <1>1, Stepping, Zenon
<1>0. /\ pc' = [pc EXCEPT ![t] = "woken"]
      /\ waiters' = [waiters EXCEPT ![l] = Append(@, t)]
      /\ saved' = [saved EXCEPT ![t] = OldStatus(t)]
      /\ sys' = thread_block(s, TASK_BLOCKED)
      /\ UNCHANGED <<value, holder, holder_repeat_nr, lk, ret, depth>>
  BY <1>1, <1>3, Types, Zenon DEF DownBlock, ASSERT, InCall, Goto, lock
<1>4. s \in SchedulerState /\ WellFormed(s, {})
  BY <1>3, IntrFacts, Zenon
<1>5. s.status = sys.status /\ s.cur = t
  BY <1>3, Zenon DEF SchedulerState
<1> HIDE DEF s
<1>6. /\ sys' \in SchedulerState /\ WellFormed(sys', {})
      /\ SameBlocked(sys, sys', {t}) /\ Blocked(sys', t)
  BY <1>0, <1>1, <1>4, <1>5, BlockFacts DEF NotScheduled, SameBlocked, Blocked
<1>7. waiters \in [Locks -> Seq(Threads)] /\ saved \in [Threads -> BOOLEAN]
  BY Zenon DEF IInv, TypeOK
<1>8. /\ Append(waiters[l], t) \in Seq(Threads)
      /\ IsInjective(Append(waiters[l], t))
      /\ \A u \in Threads : elem_find(Append(waiters[l], t), u)
                              <=> elem_find(waiters[l], u) \/ u = t
  BY <1>1, <1>3, <1>7, AppendNew DEF IInv, WaitersInv
<1>9. TypeOK'
  BY <1>0, <1>1, <1>2, <1>6, <1>7, <1>8, Types, Zenon DEF IInv, TypeOK, SyncLabels, ClientLabels
<1>10. \A u \in Threads : sys'.status[u] # NONE
  BY <1>6, ThreadAssumption, Zenon
     DEF IInv, FrameInv, SameBlocked, Blocked, NotScheduled, WellFormed, Created
<1>11. FrameInv'
  BY <1>0, <1>1, <1>10, Types, Zenon DEF IInv, FrameInv
<1>12. OwnerInv'
  <2>1. \A u \in Threads : Owns(u)' <=> Owns(u)
    BY <1>0, <1>1, Types, Zenon DEF Owns
  <2>2. \A u \in Threads : Owns(u) => RepeatOf(u)' = RepeatOf(u)
    BY <1>0, <1>1, Types, Zenon DEF RepeatOf
  <2> QED BY <1>0, <1>1, <2>1, <2>2, Types DEF IInv, OwnerInv
<1>13. \A u \in Threads \ {t} : pc[u] = "woken" => Blocked(sys', u) <=> Blocked(sys, u)
  BY <1>6, Zenon DEF IInv, FrameInv, SameBlocked
<1>14. WaitersInv'
  <2> SUFFICES ASSUME NEW k \in Locks, NEW u \in Threads
               PROVE  /\ IsInjective(waiters'[k])
                      /\ elem_find(waiters'[k], u)
                           <=> pc'[u] = "woken" /\ lk'[u] = k /\ Blocked(sys', u)
    BY Zenon DEF WaitersInv, Blocked
  <2>1. CASE k = l
    BY <1>0, <1>6, <1>7, <1>8, <1>13, <2>1, Types DEF IInv, WaitersInv
  <2>2. CASE k # l
    BY <1>0, <1>1, <1>3, <1>7, <1>13, <2>2, Types DEF IInv, WaitersInv
  <2> QED BY <2>1, <2>2, Zenon
<1>15. NoLostWakeup'
  <2> SUFFICES ASSUME NEW k \in Locks, value'[k] = 1, waiters'[k] # <<>>
               PROVE  \E u \in Threads : /\ pc'[u] = "woken" /\ lk'[u] = k
                                         /\ sys'.status[u] \in {TASK_READY, TASK_RUNING}
    BY Zenon DEF NoLostWakeup
  <2>1. k # l /\ value[k] = 1 /\ waiters[k] # <<>>
    BY <1>0, <1>1, <1>7
  <2>2. PICK u \in Threads : /\ pc[u] = "woken" /\ lk[u] = k
                             /\ sys.status[u] \in {TASK_READY, TASK_RUNING}
    BY <2>1, Zenon DEF IInv, NoLostWakeup
  <2>3. u # t /\ ~Blocked(sys', u)
    BY <1>13, <2>1, <2>2, Zenon DEF Blocked, NotScheduled
  <2>4. sys'.status[u] \in {TASK_READY, TASK_RUNING}
    BY <1>6, <1>10, <2>3, Zenon DEF SchedulerState, Blocked, task_status
  <2> QED BY <1>0, <2>2, <2>3, <2>4, Types, Zenon
<1> QED BY <1>6, <1>9, <1>11, <1>12, <1>14, <1>15, Zenon DEF IInv

\* So does sema_up, which unblocks the first waiter.
LEMMA SemaUpStep ==
  ASSUME IInv, NEW t \in Threads, sema_up(t), InCall(t) PROVE IInv'
<1> USE DEF NONE, TASK_READY, TASK_RUNING, TASK_BLOCKED, TASK_WAITING, TASK_HANGING
<1> DEFINE l == lk[t]
           q == waiters[l]
           h == Head(q)
<1>1. /\ pc[t] = "up" /\ l \in Locks /\ depth[t] = 0 /\ ret[t] = "out"
      /\ Owns(t) /\ Runs(sys, t)
  BY Types, Zenon DEF sema_up, At, IInv, FrameInv, Owns
<1>2. value[l] = 0 /\ holder_repeat_nr[l] = 0
  BY <1>1, Zenon DEF IInv, OwnerInv, RepeatOf
<1>3. /\ sys \in SchedulerState /\ WellFormed(sys, {}) /\ sys.cur = t /\ ~Blocked(sys, t)
      /\ \A k \in Locks : ~elem_find(waiters[k], t)
  BY <1>1, Stepping, Zenon
<1>0. /\ pc' = [pc EXCEPT ![t] = "out"]
      /\ waiters' = [waiters EXCEPT ![l] = IF q = <<>> THEN q ELSE Tail(q)]
      /\ value' = [value EXCEPT ![l] = 1]
      /\ sys' = WakeFirst(sys, q)
      /\ UNCHANGED <<holder, holder_repeat_nr, lk, ret, saved, depth>>
  <2>1. value[l] + 1 = 1
    BY <1>2
  <2>2. /\ sys' = WakeFirst(sys, q) /\ pc' = [pc EXCEPT ![t] = ret[t]]
        /\ waiters' = [waiters EXCEPT ![l] = IF @ = <<>> THEN @ ELSE Tail(@)]
        /\ value' = [value EXCEPT ![l] = @ + 1]
        /\ UNCHANGED <<holder, holder_repeat_nr, lk, ret, saved>>
    BY <1>2, Zenon DEF sema_up, ASSERT, Goto, lock
  <2>3. pc'[t] = "out"
    BY <1>1, <2>2, Types, Zenon
  <2>4. depth' = depth
    BY <2>3, Types, Zenon DEF InCall
  <2> QED BY <1>1, <2>1, <2>2, <2>4, Zenon
<1>4. waiters \in [Locks -> Seq(Threads)] /\ q \in Seq(Threads) /\ IsInjective(q)
      /\ sys.status \in [Threads -> task_status]
  BY <1>1, <1>3, Zenon DEF IInv, TypeOK, WaitersInv, SchedulerState
\* OwnerInv does not look at the scheduler or at the waiters.
<1>5. OwnerInv'
  <2>1. \A u \in Threads \ {t} : (Owns(u)' <=> Owns(u)) /\ RepeatOf(u)' = RepeatOf(u)
    BY <1>0, Types, Zenon DEF Owns, RepeatOf
  <2>2. ~Owns(t)'
    <3>1. pc'[t] = "out" /\ depth'[t] = 0
      BY <1>0, <1>1, Types, Zenon
    <3> QED BY <3>1 DEF Owns
  <2>3. \A u \in Threads \ {t} : Owns(u) => lk[u] # l
    BY <1>1, Zenon DEF IInv, OwnerInv
  <2>4. holder[l] # t
    BY <1>1, Types DEF IInv, OwnerInv
  <2> QED BY <1>0, <1>1, <1>2, <2>1, <2>2, <2>3, <2>4, Types DEF IInv, OwnerInv
<1>6. CASE q = <<>>
  <2>0. sys' = sys /\ waiters' = waiters
    BY <1>0, <1>4, <1>6, Zenon DEF WakeFirst
  <2>1. TypeOK'
    BY <1>0, <1>1, <2>0, Types DEF IInv, TypeOK, SyncLabels, ClientLabels
  <2>2. FrameInv'
    BY <1>0, <1>1, <2>0, Types, Zenon DEF IInv, FrameInv
  <2>3. WaitersInv'
    BY <1>0, <1>1, <2>0, Types DEF IInv, WaitersInv, Blocked
  <2>4. NoLostWakeup'
    <3> SUFFICES ASSUME NEW k \in Locks, value'[k] = 1, waiters'[k] # <<>>
                 PROVE  \E u \in Threads : /\ pc'[u] = "woken" /\ lk'[u] = k
                                           /\ sys'.status[u] \in {TASK_READY, TASK_RUNING}
      BY Zenon DEF NoLostWakeup
    <3>1. k # l /\ value[k] = 1 /\ waiters[k] # <<>>
      BY <1>0, <1>6, <2>0, Types, Zenon
    <3>2. PICK u \in Threads : /\ pc[u] = "woken" /\ lk[u] = k
                               /\ sys.status[u] \in {TASK_READY, TASK_RUNING}
      BY <3>1, Zenon DEF IInv, NoLostWakeup
    <3> QED BY <1>0, <1>1, <2>0, <3>2, Types, Zenon
  <2> QED BY <1>3, <1>5, <2>0, <2>1, <2>2, <2>3, <2>4, Zenon DEF IInv
<1>7. CASE q # <<>>
  <2>1. /\ h \in Threads /\ elem_find(q, h) /\ Tail(q) \in Seq(Threads)
        /\ IsInjective(Tail(q))
        /\ \A u \in Threads : elem_find(Tail(q), u) <=> elem_find(q, u) /\ u # h
    BY <1>4, <1>7, PopHead, Zenon
  <2>2. h # t /\ Blocked(sys, h) /\ pc[h] = "woken" /\ lk[h] = l
    BY <1>1, <1>3, <2>1 DEF IInv, WaitersInv
  <2>3. sys' = thread_unblock(sys, h) /\ waiters' = [waiters EXCEPT ![l] = Tail(q)]
    BY <1>0, <1>7, Zenon DEF WakeFirst
  <2>4. sys' \in SchedulerState /\ WellFormed(sys', {})
    BY <1>3, <2>1, <2>2, <2>3, UnblockWellFormed, Zenon
  <2>5. sys'.status = [sys.status EXCEPT ![h] = TASK_READY]
    BY <1>3, <2>1, <2>2, <2>3, UnblockFacts, ZenonT(60) DEF WellFormed, Blocked
  <2> HIDE DEF h, q
  <2>6. TypeOK'
    <3>1. waiters' \in [Locks -> Seq(Threads)]
      BY <1>1, <1>4, <2>1, <2>3, Zenon
    <3>2. value' \in [Locks -> 0..1] /\ pc' \in [Threads -> SyncLabels \union ClientLabels]
      BY <1>0, Types DEF ClientLabels
    <3> QED BY <1>0, <2>4, <3>1, <3>2, Zenon DEF IInv, TypeOK
  <2>7. FrameInv'
    BY <1>0, <1>1, <1>4, <2>1, <2>5, Types, Zenon DEF IInv, FrameInv
  <2>8. WaitersInv'
    <3> SUFFICES ASSUME NEW k \in Locks, NEW u \in Threads
                 PROVE  /\ IsInjective(waiters'[k])
                        /\ elem_find(waiters'[k], u)
                             <=> pc'[u] = "woken" /\ lk'[u] = k /\ Blocked(sys', u)
      BY Zenon DEF WaitersInv, Blocked
    <3>1. Blocked(sys', u) <=> Blocked(sys, u) /\ u # h
      BY <1>4, <2>1, <2>2, <2>5, Zenon DEF Blocked, NotScheduled
    <3>2. /\ IsInjective(waiters[k])
          /\ elem_find(waiters[k], u) <=> pc[u] = "woken" /\ lk[u] = k /\ Blocked(sys, u)
      BY Zenon DEF IInv, WaitersInv
    <3>3. lk'[u] = lk[u] /\ (pc'[u] = "woken" <=> pc[u] = "woken")
      BY <1>0, <1>1, Types, Zenon
    <3>4. CASE k = l
      <4>1. waiters[k] = q /\ waiters'[k] = Tail(q)
        BY <1>4, <2>3, <3>4, Zenon DEF q
      <4> QED BY <2>1, <3>1, <3>2, <3>3, <4>1, Zenon
    <3>5. CASE k # l
      <4>1. waiters'[k] = waiters[k]
        BY <1>4, <2>3, <3>5, Zenon
      <4> QED BY <2>2, <3>1, <3>2, <3>3, <3>5, <4>1, Zenon
    <3> QED BY <3>4, <3>5, Zenon
  <2>9. NoLostWakeup'
    <3> SUFFICES ASSUME NEW k \in Locks, value'[k] = 1, waiters'[k] # <<>>
                 PROVE  \E u \in Threads : /\ pc'[u] = "woken" /\ lk'[u] = k
                                           /\ sys'.status[u] \in {TASK_READY, TASK_RUNING}
      BY Zenon DEF NoLostWakeup
    <3>1. CASE k = l
      BY <1>0, <1>4, <2>1, <2>2, <2>5, <3>1, Types, Zenon
    <3>2. CASE k # l
      <4>1. value[k] = 1 /\ waiters[k] # <<>>
        BY <1>0, <1>1, <1>4, <2>3, <3>2, Types, Zenon
      <4>2. PICK u \in Threads : /\ pc[u] = "woken" /\ lk[u] = k
                                 /\ sys.status[u] \in {TASK_READY, TASK_RUNING}
        BY <4>1, Zenon DEF IInv, NoLostWakeup
      <4>3. u # t /\ u # h
        BY <1>1, <2>2, <3>2, <4>2, Zenon
      <4> QED BY <1>0, <1>4, <2>5, <4>2, <4>3, Types, Zenon
    <3> QED BY <3>1, <3>2, Zenon
  <2> QED BY <1>5, <2>4, <2>6, <2>7, <2>8, <2>9, Zenon DEF IInv
<1> QED BY <1>6, <1>7, Zenon

\* Every step of the threads and of the timer preserves the invariant.
LEMMA NextIInv == IInv /\ [Next]_vars => IInv'
<1> SUFFICES ASSUME IInv, [Next]_vars PROVE IInv'
  BY Zenon
<1>1. ASSUME NEW t \in Threads, InCall(t) PROVE IInv'
  <2>1. \/ lock_acquire(t) \/ DownBlock(t) \/ DownTake(t) \/ SetHolder(t) \/ SetRepeat(t)
        \/ ReleaseInner(t) \/ ReleaseLast(t) \/ ClearRepeat(t) \/ sema_up(t)
    BY <1>1, Zenon DEF InCall, SyncStep
  <2> QED
    BY <1>1, <2>1, LockAcquireStep, DownBlockStep, DownTakeStep, SetHolderStep,
       SetRepeatStep, ReleaseInnerStep, ReleaseLastStep, ClearRepeatStep, SemaUpStep, Zenon
<1>2. sys \in SchedulerState /\ WellFormed(sys, {}) /\ sys.cur \notin {}
  BY Zenon DEF IInv, TypeOK
<1>3. CASE Idle /\ UNCHANGED depth
  <2>1. sys' \in SchedulerState /\ WellFormed(sys', {}) /\ SameBlocked(sys, sys', {})
    BY <1>2, <1>3, IdleFacts, Zenon DEF Idle, Runs
  <2> QED BY <1>3, <2>1, QuietStep, Zenon DEF Idle
<1>4. CASE TimerInterrupt /\ UNCHANGED depth
  <2>1. sys' \in SchedulerState /\ WellFormed(sys', {}) /\ SameBlocked(sys, sys', {})
    BY <1>2, <1>4, TimerFacts, Zenon DEF TimerInterrupt
  <2> QED BY <1>4, <2>1, QuietStep, Zenon DEF TimerInterrupt
<1>5. CASE UNCHANGED vars
  <2>1. UNCHANGED <<sys, semaphore, lock, frame, depth>>
    BY <1>5, Zenon DEF vars, syncVars
  <2>2. SameBlocked(sys, sys', {})
    BY <2>1, Zenon DEF SameBlocked
  <2> QED BY <1>2, <2>1, <2>2, QuietStep, Zenon
<1> QED BY <1>1, <1>3, <1>4, <1>5, AcquireStep, ReleaseStep, Zenon DEF Next

-----------------------------------------------------------------------------

\* The invariant holds in every state of every behaviour.
THEOREM Invariance == Spec => []IInv
  BY InitIInv, NextIInv, PTL DEF Spec

\* Every variable keeps its type; in particular a semaphore is always 0 or 1 and
\* holder_repeat_nr does not exceed the nesting of the callers.
THEOREM TypeCorrect == Spec => []TypeOK
<1>1. IInv => TypeOK
  BY Zenon DEF IInv
<1> QED BY <1>1, Invariance, PTL

\* No ASSERT of sync.c or thread.c fails.
THEOREM NeverPanics == Spec => []NoPanic
<1>1. IInv => NoPanic
  BY Zenon DEF IInv, WellFormed, NoPanic
<1> QED BY <1>1, Invariance, PTL

\* lock_acquire and lock_release exclude: no two threads are between them on the
\* same lock.
THEOREM Exclusion == Spec => []MutualExclusion
<1>1. IInv => MutualExclusion
  BY DEF IInv, OwnerInv, Owns, MutualExclusion
<1> QED BY <1>1, Invariance, PTL

\* A thread's general_tag is linked into at most one list at a time.
THEOREM OneList == Spec => []TagOnOneList
<1>1. ASSUME IInv PROVE TagOnOneList
  <2>1. IsInjective(sys.ready)
    BY <1>1, Zenon DEF IInv, WellFormed, ReadyExact
  <2>2. ASSUME NEW l \in Locks, NEW t \in Threads, elem_find(waiters[l], t)
        PROVE  ~elem_find(sys.ready, t) /\ \A k \in Locks \ {l} : ~elem_find(waiters[k], t)
    <3>1. lk[t] = l /\ Blocked(sys, t)
      BY <1>1, <2>2, Zenon DEF IInv, WaitersInv
    <3>2. ~elem_find(sys.ready, t)
      BY <1>1, <3>1, Zenon DEF IInv, WellFormed, ReadyExact, Blocked, NotScheduled,
         TASK_READY, TASK_BLOCKED, TASK_WAITING, TASK_HANGING
    <3> QED BY <1>1, <3>1, <3>2, Zenon DEF IInv, WaitersInv
  <2> QED BY <1>1, <2>1, <2>2, Zenon DEF IInv, WaitersInv, TagOnOneList
<1> QED BY <1>1, Invariance, PTL

\* A free lock never has only sleeping waiters.
THEOREM WakeupsAreNotLost == Spec => []NoLostWakeup
<1>1. IInv => NoLostWakeup
  BY Zenon DEF IInv
<1> QED BY <1>1, Invariance, PTL

-----------------------------------------------------------------------------
(* The refinement.                                                         *)

\* How often the owner of l has taken it, as Mutex counts.
Nesting(l) ==
  IF holder[l] = NULL THEN 0
  ELSE IF holder_repeat_nr[l] = 0 THEN 1 ELSE holder_repeat_nr[l]

\* A step of t that changes the lock of t is one of the three steps of Mutex.
LEMMA LockStepRefines ==
  ASSUME IInv, NEW t \in Threads, InCall(t)
  PROVE  \/ UNCHANGED holder /\ \A l \in Locks : Nesting(l)' = Nesting(l)
         \/ \E l \in Locks : M!Take(t, l) \/ M!TakeAgain(t, l) \/ M!GiveBack(t, l)
<1> DEFINE l == lk[t]
           nest == [k \in Locks |-> Nesting(k)]
<1>0. l \in Locks /\ holder \in [Locks -> Threads \union {NULL}] /\ NULL \notin Threads
      /\ holder_repeat_nr \in [Locks -> 0..MaxDepth] /\ MaxDepth \in Nat
  BY Types, SyncAssumption, Zenon
<1>1. CASE DownBlock(t) \/ DownTake(t) \/ sema_up(t)
  <2>1. UNCHANGED <<holder, holder_repeat_nr>>
    BY <1>1, Zenon DEF DownBlock, DownTake, sema_up, ASSERT, lock
  <2> QED BY <2>1, Zenon DEF Nesting
<1>2. CASE lock_acquire(t) /\ holder[l] # t
  <2>1. UNCHANGED <<holder, holder_repeat_nr>>
    BY <1>2, Zenon DEF lock_acquire
  <2> QED BY <2>1, Zenon DEF Nesting
<1>3. CASE lock_acquire(t) /\ holder[l] = t
  <2>1. holder' = holder /\ holder_repeat_nr' = [holder_repeat_nr EXCEPT ![l] = @ + 1]
    BY <1>3, Zenon DEF lock_acquire
  <2>2. holder_repeat_nr[l] > 0
    BY <1>0, <1>3, Types DEF lock_acquire, At, IInv, OwnerInv, Owns, RepeatOf
  <2>3. nest' = [nest EXCEPT ![l] = @ + 1]
    BY <1>0, <1>3, <2>1, <2>2 DEF Nesting
  <2> QED BY <1>0, <1>3, <2>1, <2>3, Zenon DEF M!TakeAgain, Nesting
<1>4. CASE SetHolder(t)
  <2>1. holder' = [holder EXCEPT ![l] = t] /\ UNCHANGED holder_repeat_nr
        /\ pc[t] = "set_holder" /\ depth[t] = 0
    BY <1>4, Zenon DEF SetHolder, At, IInv, FrameInv
  <2>2. holder[l] = NULL /\ holder_repeat_nr[l] = 0
    BY <1>0, <2>1, Types DEF IInv, OwnerInv, Owns, RepeatOf
  <2>3. nest' = [nest EXCEPT ![l] = 1]
    BY <1>0, <2>1, <2>2, Zenon DEF Nesting
  <2> QED BY <1>0, <2>1, <2>2, <2>3, Zenon DEF M!Take, Nesting
<1>5. CASE SetRepeat(t)
  <2>1. holder_repeat_nr[l] = 0 /\ holder[l] = t
    BY <1>0, <1>5, Types DEF SetRepeat, At, IInv, OwnerInv, Owns, RepeatOf
  <2>2. UNCHANGED holder /\ holder_repeat_nr' = [holder_repeat_nr EXCEPT ![l] = 1]
    BY <1>5, <2>1, Zenon DEF SetRepeat, ASSERT
  <2> QED BY <1>0, <2>1, <2>2, Zenon DEF Nesting
<1>6. CASE ReleaseInner(t)
  <2>1. holder[l] = t /\ holder_repeat_nr[l] > 1
    BY <1>6, AtRelease, Zenon DEF ReleaseInner
  <2>2. UNCHANGED holder /\ holder_repeat_nr' = [holder_repeat_nr EXCEPT ![l] = @ - 1]
    BY <1>6, <2>1, Zenon DEF ReleaseInner, ASSERT
  <2>3. nest' = [nest EXCEPT ![l] = @ - 1] /\ nest[l] # 1
    BY <1>0, <2>1, <2>2 DEF Nesting
  <2> QED BY <1>0, <2>1, <2>2, <2>3, Zenon DEF M!GiveBack, Nesting
<1>7. CASE ReleaseLast(t)
  <2>1. holder[l] = t /\ holder_repeat_nr[l] = 1
    BY <1>0, <1>7, AtRelease, Types DEF ReleaseLast
  <2>2. holder' = [holder EXCEPT ![l] = NULL] /\ UNCHANGED holder_repeat_nr
    BY <1>7, <2>1, Zenon DEF ReleaseLast, ASSERT
  <2>3. nest' = [nest EXCEPT ![l] = @ - 1] /\ nest[l] = 1
    BY <1>0, <2>1, <2>2 DEF Nesting
  <2> QED BY <1>0, <2>1, <2>2, <2>3, Zenon DEF M!GiveBack, Nesting
<1>8. CASE ClearRepeat(t)
  <2>1. UNCHANGED holder /\ holder_repeat_nr' = [holder_repeat_nr EXCEPT ![l] = 0]
        /\ pc[t] = "clear_repeat" /\ depth[t] = 0
    BY <1>8, Zenon DEF ClearRepeat, At, IInv, FrameInv
  <2>2. holder[l] = NULL
    BY <1>0, <2>1, Types DEF IInv, OwnerInv, Owns
  <2> QED BY <1>0, <2>1, <2>2, Zenon DEF Nesting
<1> QED
  BY <1>1, <1>2, <1>3, <1>4, <1>5, <1>6, <1>7, <1>8, Zenon DEF InCall, SyncStep

\* lock_acquire and lock_release implement a re-entrant mutex.
THEOREM LocksRefineMutex == Spec => ImplementsMutex
<1>1. Init => M!Init
  BY Zenon DEF Init, SyncInit, M!Init
<1>2. ASSUME IInv, [Next]_vars
      PROVE  [M!Next]_<<holder, [l \in Locks |-> Nesting(l)]>>
  <2>1. ASSUME NEW t \in Threads, InCall(t)
        PROVE  [M!Next]_<<holder, [l \in Locks |-> Nesting(l)]>>
    BY <1>2, <2>1, LockStepRefines, Zenon DEF M!Next
  <2>2. CASE UNCHANGED <<holder, holder_repeat_nr>>
    BY <2>2, Zenon DEF Nesting
  <2>3. \/ \E t \in Threads : InCall(t)
        \/ UNCHANGED <<holder, holder_repeat_nr>>
    BY <1>2, Zenon DEF Next, Acquire, Release, Idle, TimerInterrupt, vars, syncVars, lock
  <2> QED BY <2>1, <2>2, <2>3, Zenon
<1> QED BY <1>1, <1>2, Invariance, PTL DEF Spec, ImplementsMutex, M!Spec, Nesting
=============================================================================
