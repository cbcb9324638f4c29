------------------------------- MODULE Ioqueue -------------------------------
(***************************************************************************)
(* The character queue (device/ioqueue.c) between consumer threads,        *)
(* producer threads and the keyboard interrupt, with its lock taken from   *)
(* Sync.  A caller turns interrupts off around ioq_getchar or ioq_putchar, *)
(* and both assert on entry, and in every test of their loop, that they    *)
(* are; a call gives up the CPU only where it blocks: on the lock, or in   *)
(* ioq_wait with the lock held.                                            *)
(***************************************************************************)
EXTENDS Sync

CONSTANTS
  Started,      \* the order in which thread_start made the threads
  BUFFSIZE,     \* slots of the ring; one of them stays free
  Chars,        \* the characters that are sent
  Consumers,    \* threads that call ioq_getchar
  Producers,    \* threads that call ioq_putchar
  Keyboard,     \* whether the keyboard interrupt calls ioq_putchar
  ioq           \* the queue, as the name of its lock

ASSUME IoqueueAssumption ==
  /\ Started \in Seq(Threads)
  /\ IsInjective(Started)
  /\ Range(Started) = Threads \ {main_thread}
  /\ BUFFSIZE \in Nat \ {0, 1}
  /\ Consumers \subseteq Threads \ {idle_thread}
  /\ Producers \subseteq Threads \ {idle_thread}
  /\ Consumers \intersect Producers = {}
  /\ Keyboard \in BOOLEAN
  /\ NULL \notin Chars
  /\ Locks = {ioq}

VARIABLES
  users,                \* which of the consumers and producers run; it does not change
  buf, head, tail,      \* the ring
  consumer, producer,   \* whom the other side has to wake, or NULL
  byte,                 \* the last character ioq_getchar returned
  sent                  \* the last character that was stored (history)

ring == <<buf, head, tail, byte, sent>>
waiting == <<consumer, producer>>

vars == <<users, syncVars, ring, waiting>>

Init ==
  /\ users \in SUBSET (Consumers \union Producers)
  /\ sys = Booted(Started)
  /\ SyncInit
  /\ pc = [t \in Threads |-> "run"]
  /\ lk = [t \in Threads |-> ioq]
  /\ ret = [t \in Threads |-> "run"]
  /\ saved = [t \in Threads |-> TRUE]
  /\ \E c \in Chars : buf = [i \in 0..(BUFFSIZE - 1) |-> c] /\ byte = c /\ sent = c
  /\ head = 0 /\ tail = 0
  /\ consumer = NULL /\ producer = NULL

-----------------------------------------------------------------------------
(* The ring.                                                               *)

next_pos(pos) == (pos + 1) % BUFFSIZE

\* Mutant: the test for full forgets the wrap.
ioq_full_no_wrap == head + 1 = tail

ioq_full == next_pos(head) = tail

ioq_empty == tail = head

\* The waiter is made ready and taken off the record, if there is one.
wakeup(s, waiter) == IF waiter = NULL THEN s ELSE thread_unblock(s, waiter)

\* Mutant: the woken consumer stays on record.
Store_keeps_waiter(c) ==
  /\ buf' = [buf EXCEPT ![head] = c]
  /\ head' = next_pos(head) /\ sent' = c
  /\ UNCHANGED <<tail, byte, consumer, producer>>

\* buf[head] = c, and the consumer that waits is woken.
Store(c) ==
  /\ buf' = [buf EXCEPT ![head] = c]
  /\ head' = next_pos(head) /\ sent' = c
  /\ consumer' = NULL
  /\ UNCHANGED <<tail, byte, producer>>

Fetch ==
  /\ byte' = buf[tail]
  /\ tail' = next_pos(tail)
  /\ producer' = NULL
  /\ UNCHANGED <<buf, head, sent, consumer>>

EnableIntr(s) == [s EXCEPT !.intr = TRUE]

-----------------------------------------------------------------------------
(* ioq_getchar.                                                            *)

\* The caller turns interrupts off and calls.
GetCall(t) ==
  /\ t \in Consumers \intersect users /\ At(t, "run")
  /\ sys' = [sys EXCEPT !.intr = FALSE]
  /\ Goto(t, "get")
  /\ UNCHANGED <<semaphore, lock, lk, ret, saved, ring, waiting>>

\* The ASSERT of ioq_getchar, on entry, and of ioq_empty, each time around the loop.
GetEmpty(t) ==
  /\ At(t, "get") /\ ioq_empty
  /\ ASSERT(~sys.intr,
       /\ Call(t, "acquire", ioq, "get_wait")
       /\ UNCHANGED <<sys, semaphore, lock>>)
  /\ UNCHANGED <<ring, waiting>>

\* ioq_wait(&ioq->consumer)
GetWait(t) ==
  /\ At(t, "get_wait")
  /\ ASSERT(consumer = NULL,
       /\ sys' = thread_block(sys, TASK_BLOCKED)
       /\ Goto(t, "get_awake")
       /\ UNCHANGED <<semaphore, lock, lk, ret, saved>>)
  /\ consumer' = t
  /\ UNCHANGED <<ring, producer>>

GetAwake(t) ==
  /\ At(t, "get_awake")
  /\ Call(t, "release", ioq, "get")
  /\ UNCHANGED <<sys, semaphore, lock, ring, waiting>>

GetChar(t) ==
  /\ At(t, "get") /\ ~ioq_empty
  /\ ASSERT(~sys.intr,
       /\ sys' = EnableIntr(wakeup(sys, producer))
       /\ Goto(t, "run")
       /\ UNCHANGED <<semaphore, lock, lk, ret, saved>>)
  /\ IF sys.intr THEN UNCHANGED <<ring, waiting>> ELSE Fetch

ioq_getchar(t) == GetCall(t) \/ GetEmpty(t) \/ GetWait(t) \/ GetAwake(t) \/ GetChar(t)

-----------------------------------------------------------------------------
(* ioq_putchar, from a thread and from the keyboard interrupt.             *)

PutCall(t) ==
  /\ t \in Producers \intersect users /\ At(t, "run")
  /\ sys' = [sys EXCEPT !.intr = FALSE]
  /\ Goto(t, "put")
  /\ UNCHANGED <<semaphore, lock, lk, ret, saved, ring, waiting>>

\* The ASSERT of ioq_putchar, on entry, and of ioq_full, each time around the loop.
PutFull(t) ==
  /\ At(t, "put") /\ ioq_full
  /\ ASSERT(~sys.intr,
       /\ Call(t, "acquire", ioq, "put_wait")
       /\ UNCHANGED <<sys, semaphore, lock>>)
  /\ UNCHANGED <<ring, waiting>>

\* ioq_wait(&ioq->producer)
PutWait(t) ==
  /\ At(t, "put_wait")
  /\ ASSERT(producer = NULL,
       /\ sys' = thread_block(sys, TASK_BLOCKED)
       /\ Goto(t, "put_awake")
       /\ UNCHANGED <<semaphore, lock, lk, ret, saved>>)
  /\ producer' = t
  /\ UNCHANGED <<ring, consumer>>

PutAwake(t) ==
  /\ At(t, "put_awake")
  /\ Call(t, "release", ioq, "put")
  /\ UNCHANGED <<sys, semaphore, lock, ring, waiting>>

PutChar(t, c) ==
  /\ At(t, "put") /\ ~ioq_full
  /\ ASSERT(~sys.intr,
       /\ sys' = EnableIntr(wakeup(sys, consumer))
       /\ Goto(t, "run")
       /\ UNCHANGED <<semaphore, lock, lk, ret, saved>>)
  /\ IF sys.intr THEN UNCHANGED <<ring, waiting>> ELSE Store(c)

ioq_putchar(t) ==
  PutCall(t) \/ PutFull(t) \/ PutWait(t) \/ PutAwake(t) \/ \E c \in Chars : PutChar(t, c)

\* Mutant: the interrupt stores the character and wakes nobody.
KeyboardInterrupt_no_wakeup(c) ==
  /\ Keyboard /\ Interruptible(sys) /\ c # NULL /\ ~ioq_full
  /\ sys' = EndHlt(sys)
  /\ buf' = [buf EXCEPT ![head] = c]
  /\ head' = next_pos(head) /\ sent' = c
  /\ UNCHANGED <<semaphore, lock, frame, tail, byte, waiting>>

\* intr_keyboard_handler on a scan code that makes the character c, or none (NULL);
\* a character is dropped when there is no room.  The gate of the interrupt has turned
\* interrupts off, as ioq_full and ioq_putchar assert.
KeyboardInterrupt(c) ==
  /\ Keyboard /\ Interruptible(sys)
  /\ IF c = NULL \/ ioq_full
     THEN sys' = EndHlt(sys) /\ UNCHANGED <<ring, waiting>>
     ELSE sys' = wakeup(EndHlt(sys), consumer) /\ Store(c)
  /\ UNCHANGED <<semaphore, lock, frame>>

ThreadStep(t) ==
  \/ ioq_getchar(t)
  \/ ioq_putchar(t)
  \/ SyncStep(t) /\ UNCHANGED <<ring, waiting>>

Interrupt ==
  \/ TimerInterrupt /\ UNCHANGED <<ring, waiting>>
  \/ \E c \in Chars \union {NULL} : KeyboardInterrupt(c)

Next ==
  /\ \/ \E t \in Threads : ThreadStep(t)
     \/ Interrupt
     \/ Idle /\ UNCHANGED <<ring, waiting>>
  /\ UNCHANGED users

Spec == Init /\ [][Next]_vars

\* The timer ticks for ever, the CPU goes on with what runs on it, and a thread
\* that gets the CPU again and again makes progress.
Fairness ==
  /\ SF_vars(TimerInterrupt /\ UNCHANGED <<users, ring, waiting>>)
  /\ WF_vars(Idle /\ UNCHANGED <<users, ring, waiting>>)
  /\ \A t \in Consumers \union Producers : SF_vars(ThreadStep(t) /\ UNCHANGED users)

FairSpec == Spec /\ Fairness

-----------------------------------------------------------------------------
(* What every step preserves.                                              *)

CallerLabels == {"run", "get", "get_wait", "get_awake", "put", "put_wait", "put_awake"}

RingOK ==
  /\ buf \in [0..(BUFFSIZE - 1) -> Chars] /\ byte \in Chars /\ sent \in Chars
  /\ head \in 0..(BUFFSIZE - 1) /\ tail \in 0..(BUFFSIZE - 1)

TypeOK ==
  /\ sys \in SchedulerState
  /\ value \in [Locks -> 0..1] /\ waiters \in [Locks -> Seq(Threads)]
  /\ holder \in [Locks -> Threads \union {NULL}] /\ holder_repeat_nr \in [Locks -> 0..1]
  /\ pc \in [Threads -> SyncLabels \union CallerLabels] /\ lk \in [Threads -> Locks]
  /\ ret \in [Threads -> CallerLabels] /\ saved \in [Threads -> BOOLEAN]
  /\ consumer \in Threads \union {NULL} /\ producer \in Threads \union {NULL}
  /\ RingOK

\* t has taken the semaphore of the queue's lock and not given it back; it keeps it while
\* it sleeps in ioq_wait.
Owns(t) ==
  pc[t] \in {"set_holder", "set_repeat", "get_wait", "put_wait", "get_awake", "put_awake",
             "release", "clear_repeat", "up"}

\* lock_acquire returns to ioq_wait, lock_release to the test of the loop.
FrameInv ==
  \A t \in Threads :
    /\ pc[t] \in {"acquire", "down", "woken", "set_holder", "set_repeat"} =>
         ret[t] \in {"get_wait", "put_wait"}
    /\ pc[t] \in {"release", "clear_repeat", "up"} => ret[t] \in {"get", "put"}
    /\ sys.status[t] # NONE
    /\ t = idle_thread => pc[t] = "run"

\* The semaphore is 0 exactly while a thread owns the lock, which is never acquired twice.
OwnerInv ==
  /\ \A t, u \in Threads : Owns(t) /\ Owns(u) => t = u
  /\ \A t \in Threads :
       Owns(t) => /\ value[ioq] = 0
                  /\ holder_repeat_nr[ioq] = IF pc[t] \in {"set_holder", "set_repeat", "up"} THEN 0 ELSE 1
  /\ value[ioq] = 1 => holder_repeat_nr[ioq] = 0
  /\ \A t \in Threads :
       holder[ioq] = t <=> Owns(t) /\ pc[t] \notin {"set_holder", "clear_repeat", "up"}

\* The waiters of the lock are the threads that are blocked in its sema_down.
WaitersInv ==
  /\ IsInjective(waiters[ioq])
  /\ \A t \in Threads : elem_find(waiters[ioq], t) <=> pc[t] = "woken" /\ Blocked(sys, t)

\* Who is on record to be woken sleeps in its ioq_wait.
RecordInv ==
  /\ consumer # NULL => pc[consumer] = "get_awake" /\ Blocked(sys, consumer)
  /\ producer # NULL => pc[producer] = "put_awake" /\ Blocked(sys, producer)

\* Inside a call t has interrupts off, and has saved that they are wherever it sleeps.
KeptOff(t) ==
  /\ IF sys.cur = t THEN ~sys.intr ELSE ~sys.old[t]
  /\ pc[t] = "woken" => ~saved[t]

IntrInv == \A t \in Threads : pc[t] # "run" => KeptOff(t)

\* With IntrInv, the inductive invariant behind NoPanic.
IInv == TypeOK /\ WellFormed(sys, {}) /\ FrameInv /\ OwnerInv /\ WaitersInv /\ RecordInv

\* The only user is t, a consumer: the interrupts that are off from the test of the loop
\* to ioq_wait keep the keyboard away, and nobody else can have the lock.
Alone(t) ==
  /\ \A u \in Threads \ {t} : pc[u] = "run"
  /\ pc[t] \notin {"put", "put_wait", "put_awake", "woken"}
  /\ value[ioq] = 0 => Owns(t)
  /\ pc[t] \notin {"run", "get_awake"} => sys.cur = t
  /\ pc[t] \in {"acquire", "down", "set_holder", "set_repeat"} => ret[t] = "get_wait"
  /\ pc[t] \in {"release", "clear_repeat", "up"} => ret[t] = "get"
  /\ pc[t] \in {"acquire", "down", "set_holder", "set_repeat", "get_wait"} => ioq_empty
  /\ consumer # NULL => ioq_empty

\* With IInv and IntrInv, the inductive invariant behind SleepsOnlyOnEmpty.
AloneInv == \A t \in Consumers : users = {t} => Alone(t)

-----------------------------------------------------------------------------
(* Properties.                                                             *)

\* No ASSERT of ioqueue.c, sync.c or thread.c fails for callers that turn interrupts
\* off: they are still off at every test of a loop, also behind a sleep on the lock or
\* in ioq_wait, at most one thread is on record as waiting for each side, and who is
\* woken is blocked.
NoPanic == ~sys.panic

\* The characters in the ring, the oldest first.
Content ==
  [i \in 1..((BUFFSIZE + head - tail) % BUFFSIZE) |-> buf[(tail + i - 1) % BUFFSIZE]]

Q == INSTANCE Fifo WITH Capacity <- BUFFSIZE - 1, queue <- Content,
                         in <- sent, out <- byte

\* The ring is a first-in first-out queue of BUFFSIZE - 1 characters for any mix
\* of consumers, producers and keyboard interrupts: none is overwritten, read
\* twice, altered or read in another order.
ImplementsFifo == Q!Spec

\* With the keyboard as the only producer and one consumer, the consumer sleeps in
\* ioq_wait only while there is nothing to read.
SleepsOnlyOnEmpty ==
  (\E t \in Consumers : users = {t}) /\ consumer # NULL => ioq_empty

\* The comment of ioqueue.c at lines 72 to 74: a producer that finds the queue
\* full puts itself on record so that, when the consumer has taken what is in the
\* buffer, it knows which producer to wake.  A producer that blocks in
\* ioq_putchar is made ready again as long as a consumer goes on reading.
BlockedProducerIsWoken ==
  \A t \in Producers :
    users \intersect Consumers # {} /\ sys.status[t] = TASK_BLOCKED
      ~> sys.status[t] # TASK_BLOCKED
=============================================================================
