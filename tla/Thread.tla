------------------------------- MODULE Thread -------------------------------
(***************************************************************************)
(* The thread layer of the kernel (thread/thread.c, thread/switch.S and    *)
(* the scheduling half of device/timer.c) as functions on a scheduler      *)
(* state.  The modules that model the users of threads keep one such state *)
(* in a variable and apply these functions to it, so that a handler that   *)
(* unblocks, blocks and switches is one step, as it is on the one CPU with *)
(* interrupts off.                                                         *)
(*                                                                         *)
(* A scheduler state s is a record:                                        *)
(*   cur      the thread whose kernel stack esp points into                *)
(*   intr     the interrupt flag IF of that thread                         *)
(*   old      per thread, the IF it restores when schedule() returns to it *)
(*            (intr_set_status(old_status), the iretd of the timer         *)
(*            interrupt, or intr_enable() in kernel_thread the first time) *)
(*   status   per thread, task_struct.status; "NONE" before it has a PCB   *)
(*   ready    thread_ready_list, threaded through general_tag              *)
(*   ticks    per thread, what is left of its time slice                   *)
(*   at       where idle is, or will be when it runs: before thread_block, *)
(*            at its return, before "sti; hlt", or at the hlt              *)
(*   panic    an ASSERT failed: panic_spin has turned interrupts off and   *)
(*            loops for ever                                               *)
(***************************************************************************)
EXTENDS Naturals, Sequences, Functions

CONSTANTS
  Threads,      \* every thread that has, or may get, a PCB
  main_thread,  \* the thread the boot code becomes
  idle_thread,  \* the thread that runs when no other can
  Priority      \* per thread, task_struct.priority: ticks in a time slice

ASSUME ThreadAssumption ==
  /\ main_thread \in Threads
  /\ idle_thread \in Threads
  /\ main_thread # idle_thread
  /\ Priority \in [Threads -> 0..255]

TASK_BLOCKED == "TASK_BLOCKED"
TASK_WAITING == "TASK_WAITING"
TASK_HANGING == "TASK_HANGING"
TASK_READY   == "TASK_READY"
TASK_RUNING  == "TASK_RUNING"
NONE         == "NONE"

\* The states thread_block accepts and thread_unblock asserts.
NotScheduled == {TASK_BLOCKED, TASK_WAITING, TASK_HANGING}

task_status == NotScheduled \union {TASK_READY, TASK_RUNING, NONE}

SchedulerState ==
  [cur : Threads, intr : BOOLEAN, old : [Threads -> BOOLEAN],
   status : [Threads -> task_status], ready : Seq(Threads),
   ticks : [Threads -> 0..255], at : {"block", "sti", "hlt"}, panic : BOOLEAN]

-----------------------------------------------------------------------------
(* Lists and assertions.                                                   *)

elem_find(list, t) == \E i \in DOMAIN list : list[i] = t

list_push(list, t) == <<t>> \o list

panic_spin(s) == [s EXCEPT !.panic = TRUE]

-----------------------------------------------------------------------------
(* Scheduling.                                                             *)

\* Mutant: being unblocked refills the time slice.
thread_unblock_refills(s, t) ==
  IF s.status[t] \in NotScheduled /\ ~elem_find(s.ready, t)
  THEN [s EXCEPT !.ready = list_push(@, t), !.status[t] = TASK_READY,
                 !.ticks[t] = Priority[t]]
  ELSE panic_spin(s)

thread_unblock(s, t) ==
  IF s.status[t] \in NotScheduled /\ ~elem_find(s.ready, t)
  THEN [s EXCEPT !.ready = list_push(@, t), !.status[t] = TASK_READY]
  ELSE panic_spin(s)

\* Mutant: a preempted thread keeps the status TASK_RUNING.
Requeue_keeps_status(s) ==
  IF s.status[s.cur] # TASK_RUNING \/ elem_find(s.ready, s.cur) THEN s
  ELSE [s EXCEPT !.ready = Append(@, s.cur), !.ticks[s.cur] = Priority[s.cur]]

\* A thread that is still running goes to the tail with a fresh time slice.
Requeue(s) ==
  IF s.status[s.cur] # TASK_RUNING THEN s
  ELSE IF elem_find(s.ready, s.cur) THEN panic_spin(s)
  ELSE [s EXCEPT !.ready = Append(@, s.cur),
                 !.ticks[s.cur] = Priority[s.cur],
                 !.status[s.cur] = TASK_READY]

\* Mutant: idle is woken whenever it is blocked, not only when nobody is ready.
WakeIdle_always(s) ==
  IF s.status[idle_thread] \in NotScheduled THEN thread_unblock(s, idle_thread) ELSE s

\* Nobody is ready: idle is.
WakeIdle(s) ==
  IF s.ready = <<>> THEN thread_unblock(s, idle_thread) ELSE s

\* list_pop and switch_to; the thread switched to returns from its own call of
\* schedule() and restores its interrupt flag before anything else can happen.
SwitchToHead(s) ==
  IF s.panic \/ s.ready = <<>> THEN panic_spin(s)
  ELSE [s EXCEPT !.cur = Head(s.ready), !.ready = Tail(@),
                 !.status[Head(s.ready)] = TASK_RUNING,
                 !.intr = s.old[Head(s.ready)]]

schedule(s) ==
  IF s.intr THEN panic_spin(s) ELSE SwitchToHead(WakeIdle(Requeue(s)))

\* intr_disable() of the running thread, which will restore its flag later.
SaveIntr(s) == [s EXCEPT !.old[s.cur] = s.intr, !.intr = FALSE]

\* Mutant: the status stays TASK_RUNING, so schedule() enqueues the thread again.
thread_yield_still_running(s) ==
  schedule([SaveIntr(s) EXCEPT !.ready = Append(@, s.cur)])

thread_yield(s) ==
  IF elem_find(s.ready, s.cur) THEN panic_spin(s)
  ELSE schedule([SaveIntr(s) EXCEPT !.ready = Append(@, s.cur),
                                    !.status[s.cur] = TASK_READY])

thread_block(s, stat) ==
  IF stat \notin NotScheduled THEN panic_spin(s)
  ELSE schedule([SaveIntr(s) EXCEPT !.status[s.cur] = stat])

-----------------------------------------------------------------------------
(* Creation, the idle loop, and interrupts.                                *)

\* init_thread and thread_create: a PCB that is on no list yet.
init_thread(s, t) ==
  [s EXCEPT !.status[t] = TASK_READY, !.ticks[t] = Priority[t], !.old[t] = TRUE]

\* The rest of thread_start: the new thread is the last of the ready list.
EnqueueNew(s, t) ==
  IF elem_find(s.ready, t) THEN panic_spin(s)
  ELSE [s EXCEPT !.ready = Append(@, t)]

\* A step of idle's loop: thread_block, which returns with interrupts on, and after it
\* "sti; hlt".
idle(s) ==
  IF s.at = "block" THEN thread_block([s EXCEPT !.at = "sti"], TASK_BLOCKED)
  ELSE [s EXCEPT !.intr = TRUE, !.at = "hlt"]

\* Any interrupt ends a hlt of the thread it interrupts.
EndHlt(s) == [s EXCEPT !.at = IF s.cur = idle_thread /\ @ = "hlt" THEN "block" ELSE @]

\* A handler runs with IF off; iretd turns it on again for whom it interrupted.
intr_timer_handler(s) ==
  IF s.ticks[s.cur] = 0
  THEN schedule(SaveIntr(EndHlt(s)))
  ELSE [EndHlt(s) EXCEPT !.ticks[s.cur] = @ - 1]

\* thread_init: main runs, idle is ready; no other thread exists.
thread_init ==
  [cur    |-> main_thread,
   intr   |-> FALSE,
   old    |-> [t \in Threads |-> TRUE],
   status |-> [t \in Threads |-> IF t = main_thread THEN TASK_RUNING
                            ELSE IF t = idle_thread THEN TASK_READY ELSE NONE],
   ready  |-> <<idle_thread>>,
   ticks  |-> Priority,
   at     |-> "block",
   panic  |-> FALSE]

\* After init_all: interrupts are on and thread_start has made the threads of
\* the sequence "started", idle the first of them.
Booted(started) ==
  [thread_init EXCEPT
     !.intr = TRUE,
     !.status = [t \in Threads |-> IF t = main_thread THEN TASK_RUNING ELSE TASK_READY],
     !.ready = started]

\* Whether the running thread may take a step of its own, and whether the CPU
\* accepts an interrupt.
Runs(s, t) == ~s.panic /\ s.cur = t
Interruptible(s) == ~s.panic /\ s.intr

-----------------------------------------------------------------------------
(* What every call of this module relies on and leaves behind.  New is the *)
(* set of threads that have a PCB but are not on the ready list yet.       *)

ReadyExact(s, New) ==
  /\ IsInjective(s.ready)
  /\ \A t \in Threads :
       elem_find(s.ready, t) <=> s.status[t] = TASK_READY /\ t \notin New

OneRuns(s) == \A t \in Threads : s.status[t] = TASK_RUNING <=> s.cur = t

Created(s, New) ==
  /\ s.status[idle_thread] # NONE /\ idle_thread \notin New
  /\ \A t \in Threads : t \in New => s.status[t] = TASK_READY

Blocked(s, t) == s.status[t] \in NotScheduled

WellFormed(s, New) ==
  ~s.panic /\ ReadyExact(s, New) /\ OneRuns(s) /\ Created(s, New)
=============================================================================
