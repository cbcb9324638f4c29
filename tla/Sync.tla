-------------------------------- MODULE Sync --------------------------------
(***************************************************************************)
(* Semaphores and locks (thread/sync.c) over the scheduler of Thread.      *)
(*                                                                         *)
(* Each lock of the program has a binary semaphore; a thread is inside at  *)
(* most one call of this module at a time.  The frame of that call is pc   *)
(* (where it is), lk (which lock), ret (where it returns to in the caller) *)
(* and saved (old_status of sema_down).  What runs with interrupts off is  *)
(* one step; where interrupts are on, a step is one access to the lock, so *)
(* the timer can come between any two.                                     *)
(***************************************************************************)
EXTENDS Thread

CONSTANTS
  Locks,        \* the locks of the program
  NULL          \* the null pointer

ASSUME SyncAssumption == NULL \notin Threads

VARIABLES
  sys,                  \* the scheduler state
  value, waiters,       \* per lock, its semaphore
  holder,               \* per lock, the thread that holds it
  holder_repeat_nr,     \* per lock, how often its holder has acquired it
  pc, lk, ret, saved    \* per thread, the frame of its call

semaphore == <<value, waiters>>
lock == <<holder, holder_repeat_nr>>
frame == <<pc, lk, ret, saved>>

syncVars == <<sys, semaphore, lock, frame>>

\* Where a thread is in lock_acquire, sema_down, lock_release and sema_up.
SyncLabels ==
  {"acquire", "down", "woken", "set_holder", "set_repeat",
   "release", "clear_repeat", "up"}

\* lock_init of every lock.
SyncInit ==
  /\ value = [l \in Locks |-> 1]
  /\ waiters = [l \in Locks |-> <<>>]
  /\ holder = [l \in Locks |-> NULL]
  /\ holder_repeat_nr = [l \in Locks |-> 0]

\* ASSERT(p): panic, or go on with what A does to the state.
ASSERT(p, A) ==
  IF p THEN A
  ELSE sys' = panic_spin(sys) /\ UNCHANGED <<semaphore, lock, frame>>

Goto(t, label) == pc' = [pc EXCEPT ![t] = label]

At(t, label) == Runs(sys, t) /\ pc[t] = label

\* The caller's step that calls lock_acquire(l) or lock_release(l).
Call(t, label, l, back) ==
  /\ Goto(t, label)
  /\ lk' = [lk EXCEPT ![t] = l]
  /\ ret' = [ret EXCEPT ![t] = back]
  /\ UNCHANGED saved

-----------------------------------------------------------------------------
(* lock_acquire and sema_down.                                             *)

lock_acquire(t) ==
  /\ At(t, "acquire")
  /\ IF holder[lk[t]] # t
     THEN Goto(t, "down") /\ UNCHANGED holder_repeat_nr
     ELSE /\ holder_repeat_nr' = [holder_repeat_nr EXCEPT ![lk[t]] = @ + 1]
          /\ Goto(t, ret[t])
  /\ UNCHANGED <<sys, semaphore, holder, lk, ret, saved>>

\* The IF to restore: read on entry, kept in the frame while blocked.
OldStatus(t) == IF pc[t] = "down" THEN sys.intr ELSE saved[t]

\* Mutant: the thread queues but stays ready.
DownBlock_stays_ready(t) ==
  /\ At(t, "down") \/ At(t, "woken")
  /\ value[lk[t]] = 0
  /\ waiters' = [waiters EXCEPT ![lk[t]] = Append(@, t)]
  /\ sys' = thread_yield([sys EXCEPT !.intr = FALSE])
  /\ saved' = [saved EXCEPT ![t] = OldStatus(t)]
  /\ Goto(t, "woken")
  /\ UNCHANGED <<value, lock, lk, ret>>

\* The test of the loop, on entry and each time thread_block returns.
DownBlock(t) ==
  /\ At(t, "down") \/ At(t, "woken")
  /\ value[lk[t]] = 0
  /\ ASSERT(~elem_find(waiters[lk[t]], t),
       /\ waiters' = [waiters EXCEPT ![lk[t]] = Append(@, t)]
       /\ sys' = thread_block([sys EXCEPT !.intr = FALSE], TASK_BLOCKED)
       /\ saved' = [saved EXCEPT ![t] = OldStatus(t)]
       /\ Goto(t, "woken")
       /\ UNCHANGED <<value, lock, lk, ret>>)

\* Mutant: the semaphore is not decremented.
DownTake_no_decrement(t) ==
  /\ At(t, "down") \/ At(t, "woken")
  /\ value[lk[t]] > 0
  /\ sys' = [sys EXCEPT !.intr = OldStatus(t)]
  /\ Goto(t, "set_holder")
  /\ UNCHANGED <<semaphore, lock, lk, ret, saved>>

DownTake(t) ==
  /\ At(t, "down") \/ At(t, "woken")
  /\ value[lk[t]] > 0
  /\ ASSERT(value[lk[t]] = 1,
       /\ value' = [value EXCEPT ![lk[t]] = @ - 1]
       /\ sys' = [sys EXCEPT !.intr = OldStatus(t)]
       /\ Goto(t, "set_holder")
       /\ UNCHANGED <<waiters, lock, lk, ret, saved>>)

SetHolder(t) ==
  /\ At(t, "set_holder")
  /\ holder' = [holder EXCEPT ![lk[t]] = t]
  /\ Goto(t, "set_repeat")
  /\ UNCHANGED <<sys, semaphore, holder_repeat_nr, lk, ret, saved>>

SetRepeat(t) ==
  /\ At(t, "set_repeat")
  /\ ASSERT(holder_repeat_nr[lk[t]] = 0,
       /\ holder_repeat_nr' = [holder_repeat_nr EXCEPT ![lk[t]] = 1]
       /\ Goto(t, ret[t])
       /\ UNCHANGED <<sys, semaphore, holder, lk, ret, saved>>)

-----------------------------------------------------------------------------
(* lock_release and sema_up.                                               *)

ReleaseInner(t) ==
  /\ At(t, "release")
  /\ holder_repeat_nr[lk[t]] > 1
  /\ ASSERT(holder[lk[t]] = t,
       /\ holder_repeat_nr' = [holder_repeat_nr EXCEPT ![lk[t]] = @ - 1]
       /\ Goto(t, ret[t])
       /\ UNCHANGED <<sys, semaphore, holder, lk, ret, saved>>)

\* Mutant: the first release frees a lock that is held more than once.
ReleaseLast_at_any_depth(t) ==
  /\ At(t, "release")
  /\ holder' = [holder EXCEPT ![lk[t]] = NULL]
  /\ Goto(t, "clear_repeat")
  /\ UNCHANGED <<sys, semaphore, holder_repeat_nr, lk, ret, saved>>

ReleaseLast(t) ==
  /\ At(t, "release")
  /\ holder_repeat_nr[lk[t]] <= 1
  /\ ASSERT(holder[lk[t]] = t /\ holder_repeat_nr[lk[t]] = 1,
       /\ holder' = [holder EXCEPT ![lk[t]] = NULL]
       /\ Goto(t, "clear_repeat")
       /\ UNCHANGED <<sys, semaphore, holder_repeat_nr, lk, ret, saved>>)

\* Mutant: the release returns without sema_up.
ClearRepeat_no_up(t) ==
  /\ At(t, "clear_repeat")
  /\ holder_repeat_nr' = [holder_repeat_nr EXCEPT ![lk[t]] = 0]
  /\ Goto(t, ret[t])
  /\ UNCHANGED <<sys, semaphore, holder, lk, ret, saved>>

ClearRepeat(t) ==
  /\ At(t, "clear_repeat")
  /\ holder_repeat_nr' = [holder_repeat_nr EXCEPT ![lk[t]] = 0]
  /\ Goto(t, "up")
  /\ UNCHANGED <<sys, semaphore, holder, lk, ret, saved>>

\* What sema_up does to the scheduler: the first waiter becomes ready.
WakeFirst(s, list) == IF list = <<>> THEN s ELSE thread_unblock(s, Head(list))

\* Mutant: the first waiter is unblocked but stays in the list.
sema_up_no_pop(t) ==
  /\ At(t, "up")
  /\ sys' = WakeFirst(sys, waiters[lk[t]])
  /\ value' = [value EXCEPT ![lk[t]] = @ + 1]
  /\ Goto(t, ret[t])
  /\ UNCHANGED <<waiters, lock, lk, ret, saved>>

\* Mutant: nobody is unblocked.
sema_up_no_wake(t) ==
  /\ At(t, "up")
  /\ value' = [value EXCEPT ![lk[t]] = @ + 1]
  /\ Goto(t, ret[t])
  /\ UNCHANGED <<sys, waiters, lock, lk, ret, saved>>

sema_up(t) ==
  /\ At(t, "up")
  /\ ASSERT(value[lk[t]] = 0,
       /\ sys' = WakeFirst(sys, waiters[lk[t]])
       /\ waiters' = [waiters EXCEPT ![lk[t]] = IF @ = <<>> THEN @ ELSE Tail(@)]
       /\ value' = [value EXCEPT ![lk[t]] = @ + 1]
       /\ Goto(t, ret[t])
       /\ UNCHANGED <<lock, lk, ret, saved>>)

SyncStep(t) ==
  \/ lock_acquire(t) \/ DownBlock(t) \/ DownTake(t)
  \/ SetHolder(t) \/ SetRepeat(t)
  \/ ReleaseInner(t) \/ ReleaseLast(t) \/ ClearRepeat(t) \/ sema_up(t)

-----------------------------------------------------------------------------
(* The idle thread and the timer leave locks alone.                        *)

Idle ==
  /\ Runs(sys, idle_thread) /\ sys.at # "hlt"
  /\ sys' = idle(sys)
  /\ UNCHANGED <<semaphore, lock, frame>>

TimerInterrupt ==
  /\ Interruptible(sys)
  /\ sys' = intr_timer_handler(sys)
  /\ UNCHANGED <<semaphore, lock, frame>>
=============================================================================
