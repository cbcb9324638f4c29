------------------------------- MODULE Locking -------------------------------
(***************************************************************************)
(* Threads that use the locks of Sync in every way its contract allows:    *)
(* one lock at a time, acquired up to MaxDepth times by its holder and     *)
(* then released as often.                                                 *)
(***************************************************************************)
EXTENDS Sync

CONSTANTS
  Started,      \* the order in which thread_start made the threads
  MaxDepth      \* how often a thread nests lock_acquire

ASSUME LockingAssumption ==
  /\ Started \in Seq(Threads)
  /\ IsInjective(Started)
  /\ Range(Started) = Threads \ {main_thread}
  /\ MaxDepth \in Nat \ {0}

VARIABLE depth  \* per thread, its lock_acquires not yet given back

vars == <<syncVars, depth>>

ClientLabels == {"out", "in", "leaving"}

TypeOK ==
  /\ sys \in SchedulerState
  /\ value \in [Locks -> 0..1]
  /\ waiters \in [Locks -> Seq(Threads)]
  /\ holder \in [Locks -> Threads \union {NULL}]
  /\ holder_repeat_nr \in [Locks -> 0..MaxDepth]
  /\ pc \in [Threads -> SyncLabels \union ClientLabels]
  /\ lk \in [Threads -> Locks]
  /\ ret \in [Threads -> ClientLabels]
  /\ saved \in [Threads -> BOOLEAN]
  /\ depth \in [Threads -> 0..MaxDepth]

Init ==
  /\ sys = Booted(Started)
  /\ SyncInit
  /\ pc = [t \in Threads |-> "out"]
  /\ lk \in [Threads -> Locks]
  /\ ret = [t \in Threads |-> "out"]
  /\ saved = [t \in Threads |-> TRUE]
  /\ depth = [t \in Threads |-> 0]

\* A thread that holds nothing, or that nests.
Acquire(t, l) ==
  /\ t # idle_thread
  /\ \/ At(t, "out")
     \/ At(t, "in") /\ l = lk[t] /\ depth[t] < MaxDepth
  /\ Call(t, "acquire", l, "in")
  /\ UNCHANGED <<sys, semaphore, lock, depth>>

\* Once it begins to release, it releases all.
Release(t) ==
  /\ At(t, "in") \/ At(t, "leaving")
  /\ Call(t, "release", lk[t], IF depth[t] = 1 THEN "out" ELSE "leaving")
  /\ depth' = [depth EXCEPT ![t] = @ - 1]
  /\ UNCHANGED <<sys, semaphore, lock>>

\* A step inside a call; the thread has the lock once more when it returns "in".
InCall(t) ==
  /\ SyncStep(t)
  /\ depth' = [depth EXCEPT ![t] = IF pc'[t] = "in" THEN @ + 1 ELSE @]

Next ==
  \/ \E t \in Threads :
       \/ \E l \in Locks : Acquire(t, l)
       \/ Release(t)
       \/ InCall(t)
  \/ Idle /\ UNCHANGED depth
  \/ TimerInterrupt /\ UNCHANGED depth

Spec == Init /\ [][Next]_vars

-----------------------------------------------------------------------------
(* Properties.                                                             *)

\* No ASSERT of thread.c or sync.c fails: the semaphore of a lock only takes the
\* values 0 and 1, nobody queues twice, a lock that is taken has a repeat count
\* of 0, and sema_up unblocks threads that are blocked.
NoPanic == ~sys.panic

\* Between the return of lock_acquire and the call of the last lock_release, a
\* lock has no other thread in that region.
MutualExclusion ==
  \A t, u \in Threads :
    depth[t] > 0 /\ depth[u] > 0 /\ lk[t] = lk[u] => t = u

\* A thread is linked through its general_tag into at most one list, the ready
\* list or the waiters of one lock, and at most once.
TagOnOneList ==
  /\ IsInjective(sys.ready)
  /\ \A l \in Locks :
       /\ IsInjective(waiters[l])
       /\ \A t \in Threads :
            elem_find(waiters[l], t) =>
              /\ ~elem_find(sys.ready, t)
              /\ \A k \in Locks \ {l} : ~elem_find(waiters[k], t)

\* A free lock that threads wait for has a waiter that is awake and about to try
\* again: sema_up never leaves all of them asleep.
NoLostWakeup ==
  \A l \in Locks :
    value[l] = 1 /\ waiters[l] # <<>> =>
      \E t \in Threads : /\ pc[t] = "woken" /\ lk[t] = l
                         /\ sys.status[t] \in {TASK_READY, TASK_RUNING}

-----------------------------------------------------------------------------
(* The inductive invariant behind these.                                   *)

\* t has taken the semaphore of its lock and not given it back.
Owns(t) ==
  depth[t] > 0 \/ pc[t] \in {"set_holder", "set_repeat", "release", "clear_repeat", "up"}

\* What holder_repeat_nr is while t owns its lock.
RepeatOf(t) ==
  CASE pc[t] \in {"set_holder", "set_repeat", "up"} -> 0
    [] pc[t] = "clear_repeat" -> 1
    [] pc[t] = "release" -> depth[t] + 1
    [] OTHER -> depth[t]

\* Where a thread is, how deep it is and where its call returns agree.
FrameInv ==
  \A t \in Threads :
    /\ pc[t] \in {"out", "down", "woken", "set_holder", "set_repeat", "clear_repeat", "up"}
         => depth[t] = 0
    /\ pc[t] \in {"in", "leaving"} => depth[t] > 0
    /\ pc[t] \in {"acquire", "release"} => depth[t] < MaxDepth
    /\ pc[t] \in {"acquire", "down", "woken", "set_holder", "set_repeat"} => ret[t] = "in"
    /\ pc[t] = "release" => ret[t] = IF depth[t] = 0 THEN "out" ELSE "leaving"
    /\ pc[t] \in {"clear_repeat", "up"} => ret[t] = "out"
    /\ sys.status[t] # NONE
    /\ t = idle_thread => pc[t] = "out"

\* The semaphore is 0 exactly while somebody owns the lock; that is one thread, and
\* holder and holder_repeat_nr say which and how often.
OwnerInv ==
  /\ \A t, u \in Threads : Owns(t) /\ Owns(u) /\ lk[t] = lk[u] => t = u
  /\ \A t \in Threads :
       Owns(t) => value[lk[t]] = 0 /\ holder_repeat_nr[lk[t]] = RepeatOf(t)
  /\ \A l \in Locks :
       /\ value[l] = 0 => \E t \in Threads : Owns(t) /\ lk[t] = l
       /\ value[l] = 1 => holder_repeat_nr[l] = 0
       /\ \A t \in Threads :
            holder[l] = t <=> /\ lk[t] = l
                              /\ depth[t] > 0 \/ pc[t] \in {"set_repeat", "release"}

\* The waiters of a lock are the threads that are blocked in its sema_down.
WaitersInv ==
  \A l \in Locks :
    /\ IsInjective(waiters[l])
    /\ \A t \in Threads :
         elem_find(waiters[l], t) <=> pc[t] = "woken" /\ lk[t] = l /\ Blocked(sys, t)

\* Together they are inductive: scheduler, frames, locks and waiters are consistent
\* and no wakeup is lost.
IInv ==
  TypeOK /\ WellFormed(sys, {}) /\ FrameInv /\ OwnerInv /\ WaitersInv /\ NoLostWakeup

-----------------------------------------------------------------------------
(* What a lock promises.                                                   *)

\* What a lock promises (module Mutex), with a hold that begins when holder is
\* set and ends when it is cleared.
M == INSTANCE Mutex WITH
       Users <- Threads, NoUser <- NULL,
       owner <- holder,
       nesting <- [l \in Locks |-> IF holder[l] = NULL THEN 0
                              ELSE IF holder_repeat_nr[l] = 0 THEN 1
                              ELSE holder_repeat_nr[l]]

\* lock_acquire and lock_release implement a re-entrant mutex: a lock passes from
\* free to a thread and from that thread to free, never from thread to thread,
\* and only after as many releases as acquires.
ImplementsMutex == M!Spec

-----------------------------------------------------------------------------
(* Liveness.                                                               *)

\* The timer interrupt comes for ever; the thread that has the CPU with
\* interrupts off goes on, and one that has it again and again makes progress.
Fairness ==
  /\ SF_vars(TimerInterrupt /\ UNCHANGED depth)
  /\ WF_vars(Idle /\ UNCHANGED depth)
  /\ \A t \in Threads \ {idle_thread} : SF_vars(InCall(t) \/ Release(t))

FairSpec == Spec /\ Fairness

\* The lock moves on: a free lock with threads in its waiters list does not stay free,
\* and every hold ends with the lock free again; no thread that takes and releases
\* one lock at a time blocks the others for ever.
LockMovesOn ==
  \A l \in Locks :
    /\ value[l] = 1 /\ waiters[l] # <<>> ~> value[l] = 0
    /\ value[l] = 0 ~> value[l] = 1
=============================================================================
