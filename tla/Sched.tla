-------------------------------- MODULE Sched --------------------------------
(***************************************************************************)
(* The scheduler under its most general users: threads that yield, block,  *)
(* unblock others, sleep, create threads and turn interrupts off and on in *)
(* any order, device interrupts that unblock threads, and the timer.       *)
(*                                                                         *)
(* With interrupts on, every step of a thread may be followed by an        *)
(* interrupt; with interrupts off, only the running thread steps.          *)
(***************************************************************************)
EXTENDS Thread

CONSTANTS
  TickMod,      \* the counter "ticks" wraps at 2^32; here at TickMod
  SleepTicks,   \* the arguments of ticks_to_sleep that are tried
  Sleepers      \* the threads that call it

ASSUME SchedAssumption ==
  /\ TickMod \in Nat \ {0}
  /\ SleepTicks \subseteq 1..(TickMod - 1)
  /\ Sleepers \subseteq Threads

VARIABLES
  sys,          \* the scheduler state
  ticks,        \* the counter of timer.c
  creating,     \* per thread, the threads it has given a PCB but not enqueued
  sleep,        \* per thread, the frame of ticks_to_sleep: [start, n], or n = 0
  slept,        \* per thread, ticks since its sleep began, saturating at TickMod
  late          \* history: an interrupt came between idle's thread_block and its hlt

vars == <<sys, ticks, creating, sleep, slept, late>>

Awake == [start |-> 0, n |-> 0]

TypeOK ==
  /\ sys \in SchedulerState
  /\ ticks \in 0..(TickMod - 1)
  /\ creating \in [Threads -> SUBSET Threads]
  /\ sleep \in [Threads -> [start : 0..(TickMod - 1), n : 0..(TickMod - 1)]]
  /\ slept \in [Threads -> 0..TickMod]
  /\ late \in BOOLEAN

Init ==
  /\ sys = thread_init
  /\ ticks = 0
  /\ creating = [t \in Threads |-> {}]
  /\ sleep = [t \in Threads |-> Awake]
  /\ slept = [t \in Threads |-> 0]
  /\ late = FALSE

\* c runs, is not idle, and is in none of the calls that take several steps.
Free(c) ==
  /\ Runs(sys, c)
  /\ c # idle_thread
  /\ creating[c] = {}
  /\ sleep[c].n = 0

-----------------------------------------------------------------------------

IntrDisable(c) ==
  /\ Free(c) /\ sys.intr
  /\ sys' = [sys EXCEPT !.intr = FALSE]
  /\ UNCHANGED <<ticks, creating, sleep, slept, late>>

IntrEnable(c) ==
  /\ Free(c) /\ ~sys.intr
  /\ sys' = [sys EXCEPT !.intr = TRUE]
  /\ UNCHANGED <<ticks, creating, sleep, slept, late>>

Yield(c) ==
  /\ Free(c)
  /\ sys' = thread_yield(sys)
  /\ UNCHANGED <<ticks, creating, sleep, slept, late>>

Block(c) ==
  /\ Free(c)
  /\ sys' = thread_block(sys, TASK_BLOCKED)
  /\ UNCHANGED <<ticks, creating, sleep, slept, late>>

\* Callers of thread_unblock hold a record that t blocked itself: the waiters
\* of a semaphore, or the producer or consumer of an ioqueue.
Wakeable(t) == t # idle_thread /\ sys.status[t] \in NotScheduled

Unblock(c, t) ==
  /\ Free(c) /\ Wakeable(t)
  /\ sys' = thread_unblock(sys, t)
  /\ UNCHANGED <<ticks, creating, sleep, slept, late>>

\* Whether an interrupt that comes now leaves idle between its thread_block and its hlt
\* after one that came there.
Late == sys.at = "sti" /\ (late \/ sys.cur = idle_thread)

\* A device handler (keyboard, disk) that wakes the thread waiting for it.
DeviceInterrupt(t) ==
  /\ Interruptible(sys) /\ Wakeable(t)
  /\ sys' = thread_unblock(EndHlt(sys), t)
  /\ late' = Late
  /\ UNCHANGED <<ticks, creating, sleep, slept>>

\* thread_start in the two steps an interrupt may separate.
StartInit(c, t) ==
  /\ Free(c) /\ sys.status[t] = NONE
  /\ sys' = init_thread(sys, t)
  /\ creating' = [creating EXCEPT ![c] = {t}]
  /\ UNCHANGED <<ticks, sleep, slept, late>>

StartEnqueue(c, t) ==
  /\ Runs(sys, c) /\ t \in creating[c]
  /\ sys' = EnqueueNew(sys, t)
  /\ creating' = [creating EXCEPT ![c] = @ \ {t}]
  /\ UNCHANGED <<ticks, sleep, slept, late>>

\* ticks_to_sleep: note the time, then yield until n ticks have gone by.
SleepBegin(c, n) ==
  /\ Free(c) /\ sys.intr
  /\ sleep' = [sleep EXCEPT ![c] = [start |-> ticks, n |-> n]]
  /\ slept' = [slept EXCEPT ![c] = 0]
  /\ UNCHANGED <<sys, ticks, creating, late>>

\* Mutant: the distance of the two counters, wrong once "ticks" has wrapped.
Elapsed_distance(c) ==
  IF ticks < sleep[c].start THEN sleep[c].start - ticks ELSE ticks - sleep[c].start

\* The difference of unsigned counters, as C computes it.
Elapsed(c) == (TickMod + ticks - sleep[c].start) % TickMod

SleepYield(c) ==
  /\ Runs(sys, c) /\ sleep[c].n > 0
  /\ Elapsed(c) < sleep[c].n
  /\ sys' = thread_yield(sys)
  /\ UNCHANGED <<ticks, creating, sleep, slept, late>>

SleepEnd(c) ==
  /\ Runs(sys, c) /\ sleep[c].n > 0
  /\ Elapsed(c) >= sleep[c].n
  /\ sleep' = [sleep EXCEPT ![c] = Awake]
  /\ slept' = [slept EXCEPT ![c] = 0]
  /\ UNCHANGED <<sys, ticks, creating, late>>

Idle ==
  /\ Runs(sys, idle_thread) /\ sys.at # "hlt"
  /\ sys' = idle(sys)
  /\ late' = (late /\ sys.at = "sti")
  /\ UNCHANGED <<ticks, creating, sleep, slept>>

TimerInterrupt ==
  /\ Interruptible(sys)
  /\ sys' = intr_timer_handler(sys)
  /\ ticks' = (ticks + 1) % TickMod
  /\ slept' = [t \in Threads |-> IF sleep[t].n > 0 /\ slept[t] < TickMod
                                 THEN slept[t] + 1 ELSE slept[t]]
  /\ late' = Late
  /\ UNCHANGED <<creating, sleep>>

ThreadStep(c) ==
  \/ IntrDisable(c) \/ IntrEnable(c) \/ Yield(c) \/ Block(c)
  \/ \E t \in Threads : Unblock(c, t) \/ StartInit(c, t) \/ StartEnqueue(c, t)
  \/ c \in Sleepers /\ \E n \in SleepTicks : SleepBegin(c, n)
  \/ SleepYield(c) \/ SleepEnd(c)

Next ==
  \/ \E c \in Threads : ThreadStep(c)
  \/ \E t \in Threads : DeviceInterrupt(t)
  \/ Idle
  \/ TimerInterrupt

Spec == Init /\ [][Next]_vars

\* The PIT ticks for ever and a pending IRQ0 is taken as soon as IF is on; code
\* that turned interrupts off turns them on again; idle and a creator go on with
\* what they do while they have the CPU.
Fairness ==
  /\ SF_vars(TimerInterrupt)
  /\ SF_vars(\E c \in Threads : IntrEnable(c))
  /\ WF_vars(Idle)
  /\ WF_vars(\E c, t \in Threads : StartEnqueue(c, t))

FairSpec == Spec /\ Fairness

-----------------------------------------------------------------------------
(* Properties.                                                             *)

\* No ASSERT of thread.c fails: schedule() is called with interrupts off, never
\* enqueues a thread that is already queued, always finds a thread to run, and
\* thread_unblock is only given threads that are blocked (idle included, which
\* schedule() itself unblocks).
NoPanic == ~sys.panic

\* The ready list holds exactly the threads whose status is TASK_READY, each
\* once, apart from threads whose creator has not enqueued them yet: a thread is
\* never lost from the scheduler, and its one general_tag is never linked twice.
ReadyListExact ==
  /\ IsInjective(sys.ready)
  /\ \A t \in Threads :
       elem_find(sys.ready, t)
         <=> sys.status[t] = TASK_READY /\ \A c \in Threads : t \notin creating[c]

\* The threads that have a PCB and are not enqueued yet.
NewThreads == UNION {creating[c] : c \in Threads}

\* A thread is created by one other thread, never by idle.
CreatedOnce ==
  /\ creating[idle_thread] = {}
  /\ \A c, d \in Threads : c # d => creating[c] \intersect creating[d] = {}

\* What every step of the scheduler and its users preserves: no ASSERT has failed,
\* ready list, status and running thread agree, and each thread whose creation is
\* under way belongs to one creator.
IInv == TypeOK /\ WellFormed(sys, NewThreads) /\ CreatedOnce

\* idle behind its thread_block is not on the ready list: it gets the CPU when schedule()
\* finds the list empty, and without an interrupt nobody comes onto the list.
BehindAlone(s) ==
  s.at # "block" =>
    ~elem_find(s.ready, idle_thread) /\ (s.cur = idle_thread => s.ready = <<>>)

\* idle does not sleep, is at its hlt only while it runs, and behind its thread_block it
\* is alone, up to an interrupt before the hlt.
IdleInv ==
  /\ sleep[idle_thread].n = 0
  /\ sys.at = "hlt" => sys.cur = idle_thread
  /\ ~late => BehindAlone(sys)

\* The counter is ahead of the start of a sleep by the ticks that have gone by, or has
\* wrapped once.
SleepInv ==
  \A c \in Threads : sleep[c].n > 0 /\ slept[c] < TickMod =>
    ticks \in {sleep[c].start + slept[c], sleep[c].start + slept[c] - TickMod}

\* TASK_RUNING is the status of the thread that runs and of no other.
RunningIsCurrent ==
  \A t \in Threads : sys.status[t] = TASK_RUNING <=> sys.cur = t

\* idle stops the CPU with hlt only when no other thread could run instead, unless an
\* interrupt came after thread_block had turned interrupts on again and before the
\* hlt: a thread that it made ready waits for the next interrupt.
IdleHaltsOnlyWhenNothingIsReady ==
  sys.cur = idle_thread /\ sys.at = "hlt" => sys.ready = <<>> \/ late

\* mtime_sleep does not return before its ticks have gone by, also when the
\* counter wraps around in between.
SleepNotShort ==
  [][\A c \in Threads :
       sleep[c].n > 0 /\ sleep'[c].n = 0 => slept[c] >= sleep[c].n]_vars

\* A thread on the ready list gets the CPU, although thread_unblock puts others
\* in front of it.
ReadyRuns ==
  \A t \in Threads : elem_find(sys.ready, t) ~> sys.cur = t
=============================================================================
