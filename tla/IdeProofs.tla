------------------------------ MODULE IdeProofs ------------------------------
(***************************************************************************)
(* What is proved about an IDE channel, for any number of threads, disks,  *)
(* sectors and sectors in a command.                                       *)
(***************************************************************************)
EXTENDS Ide, TLAPS

\* A call, field by field.
LEMMA RequestFacts ==
  ASSUME NEW r \in Requests
  PROVE  /\ r.op \in {"read", "write"} /\ r.hd \in Disks /\ r.lba \in 0..(Sectors - 1)
         /\ r.cnt \in Nat /\ r.cnt > 0 /\ r.lba + r.cnt <= Sectors
         /\ r.op = "write" => r.data \in Values
<1>1. MaxCnt \in Nat /\ Sectors \in Nat
  BY IdeAssumption, Zenon
<1> QED BY <1>1 DEF Requests

\* There is a call that stands for none.
LEMMA NoRequestFacts == NoRequest \in Requests /\ NoRequest.op = "read"
<1>1. PICK d \in Disks : TRUE
  BY IdeAssumption, Zenon
<1>2. 0 \in 0..(Sectors - 1) /\ 1 \in 1..MaxCnt /\ 0 + 1 <= Sectors
  BY IdeAssumption
<1>3. [op |-> "read", hd |-> d, lba |-> 0, cnt |-> 1, data |-> NULL] \in Requests
  BY <1>2, Zenon DEF Requests
<1>4. \E r \in Requests : r.op = "read"
  BY <1>3, Zenon
<1> QED BY <1>4, Zenon DEF NoRequest

\* A command has at least one sector, at most MaxOp and no more than are to do, and a
\* transfer moves as many as the device expects.
LEMMA RoundFacts ==
  ASSUME IInv, NEW t \in Threads, pc[t] \in Round
  PROVE  /\ SecsOp(t) \in 1..MaxOp /\ secs_done[t] + SecsOp(t) <= req[t].cnt
         /\ Moved(t) = SecsOp(t)
         /\ pc[t] # "select" /\ ~overrun => Count = Moved(t)
<1>1. /\ req[t] \in Requests /\ secs_done[t] \in Nat /\ secs_done[t] < req[t].cnt
      /\ MaxOp \in Nat \ {0} /\ req[t].cnt \in Nat
  BY IdeAssumption, RequestFacts, Zenon DEF IInv, TypeOK, RoundInv, RoundAt
<1>2. SecsOp(t) \in 1..MaxOp /\ secs_done[t] + SecsOp(t) <= req[t].cnt
  BY <1>1 DEF SecsOp
<1>3. \A x \in 1..MaxOp : x % MaxOp = IF x = MaxOp THEN 0 ELSE x
  BY <1>1
<1>4. Moved(t) = SecsOp(t)
  BY <1>1, <1>2, <1>3 DEF Moved
<1>5. pc[t] # "select" /\ ~overrun => dev.count = SecsOp(t) % MaxOp
  BY Zenon DEF IInv, RoundInv, RoundAt
<1>6. pc[t] # "select" /\ ~overrun => Count = SecsOp(t)
  BY <1>1, <1>2, <1>3, <1>5 DEF Count
<1> QED BY <1>2, <1>4, <1>6, Zenon

\* Nothing is under way when the system starts.
LEMMA InitIInv == Init => IInv
<1> SUFFICES ASSUME Init PROVE IInv
  BY Zenon
<1>0. NoRequest \in Requests
  BY NoRequestFacts, Zenon
<1>1. /\ owner = [l \in {"channel"} |-> NULL] /\ nesting = [l \in {"channel"} |-> 0]
      /\ \A t \in Threads : pc[t] = "out" /\ secs_done[t] = 0 /\ buf[t] = <<>>
      /\ dev.state = "idle" /\ disk_done = 0 /\ ~expecting_intr /\ ~overrun /\ ~mistaken
  BY Zenon DEF Init, Lock!Init
<1>2. TypeOK
  <2>1. (CHOOSE d \in Disks : TRUE) \in Disks
    BY IdeAssumption, Zenon
  <2>2. dev \in DeviceType
    BY <2>1, Zenon DEF Init, DeviceType
  <2>3. disk \in [Disks -> [0..(Sectors - 1) -> Values]]
    BY Zenon DEF Init
  <2>4. /\ pc \in [Threads -> Round \union {"out", "return"}] /\ req \in [Threads -> Requests]
        /\ secs_done \in [Threads -> Nat] /\ time_limit \in [Threads -> Int]
        /\ DOMAIN buf = Threads
    BY <1>0 DEF Init
  <2>5. /\ owner \in [{"channel"} -> Threads \union {NULL}] /\ nesting \in [{"channel"} -> {0, 1}]
        /\ expecting_intr \in BOOLEAN /\ disk_done \in {0, 1} /\ panic \in {"none", "timeout"}
        /\ mistaken \in BOOLEAN /\ overrun \in BOOLEAN
    BY <1>1, Zenon DEF Init
  <2> QED BY <2>2, <2>3, <2>4, <2>5, Zenon DEF TypeOK
<1>3. OwnerInv /\ RoundInv /\ WaitInv /\ DeviceInv /\ DataInv
  BY <1>1, IdeAssumption, Zenon DEF OwnerInv, RoundInv, RoundAt, WaitInv, WaitAt, Quiet, DeviceInv,
     DeviceAt, Rested, DataInv, DataAt, Round
<1> QED BY <1>2, <1>3, Zenon DEF IInv

\* At most one thread is in a call.
LEMMA Alone ==
  ASSUME IInv, NEW t \in Threads, pc[t] # "out"
  PROVE  /\ owner["channel"] = t /\ t # NULL
         /\ \A u \in Threads : u # t => pc[u] = "out" /\ secs_done[u] = 0 /\ buf[u] = <<>>
  BY IdeAssumption, ZenonT(60) DEF IInv, OwnerInv, RoundInv, RoundAt, DataInv, DataAt

\* A step inside the call of t concerns t only.
LEMMA OwnStep ==
  ASSUME IInv, NEW t \in Threads, pc[t] # "out", UNCHANGED locks,
         NEW l \in Round \union {"return"}, pc' = [pc EXCEPT ![t] = l],
         \A u \in Threads : u # t => secs_done'[u] = secs_done[u] /\ buf'[u] = buf[u],
         RoundAt(t)', WaitAt(t)', overrun' => mistaken', ~overrun' => DeviceAt(t)', DataAt(t)'
  PROVE  OwnerInv' /\ RoundInv' /\ WaitInv' /\ DeviceInv' /\ DataInv'
<1>1. /\ owner["channel"] = t /\ t # NULL
      /\ \A u \in Threads : u # t => pc[u] = "out" /\ secs_done[u] = 0 /\ buf[u] = <<>>
  BY Alone, Zenon
<1>2. pc'[t] = l /\ l # "out"
      /\ \A u \in Threads : u # t => pc'[u] = "out" /\ secs_done'[u] = 0 /\ buf'[u] = <<>>
  BY <1>1, Zenon DEF IInv, TypeOK, Round
<1>3. owner' = owner /\ nesting' = nesting
  BY Zenon DEF locks
<1>4. OwnerInv'
  BY <1>1, <1>2, <1>3, Zenon DEF IInv, OwnerInv
<1>5. RoundInv'
  BY <1>2, Zenon DEF RoundInv, RoundAt, Round
<1>6. WaitInv'
  BY <1>1, <1>2, <1>3, Zenon DEF WaitInv, WaitAt
<1>7. DeviceInv'
  BY <1>1, <1>2, <1>3, Zenon DEF DeviceInv, DeviceAt
<1>8. DataInv'
  BY <1>2, ZenonT(60) DEF DataInv, DataAt
<1> QED BY <1>4, <1>5, <1>6, <1>7, <1>8, Zenon

\* A step of the device or of its interrupt leaves the calls alone.
LEMMA DeviceStep ==
  ASSUME IInv, UNCHANGED <<disk, locks, call, overrun>>,
         dev'.hd = dev.hd, dev'.lba = dev.lba, dev'.count = dev.count
  PROVE  OwnerInv' /\ RoundInv' /\ DataInv'
<1>1. UNCHANGED <<disk, owner, nesting, pc, req, secs_done, buf>> /\ (overrun' <=> overrun)
  BY Zenon DEF locks, call
<1>2. OwnerInv'
  BY <1>1, Zenon DEF IInv, OwnerInv
<1>3. RoundInv'
  BY <1>1, Zenon DEF IInv, RoundInv, RoundAt, SecsOp
<1>4. DataInv'
  <2> SUFFICES ASSUME NEW t \in Threads PROVE DataAt(t)'
    BY Zenon DEF DataInv
  <2>1. DataAt(t) /\ Done(t)' = Done(t)
    BY <1>1, Zenon DEF IInv, DataInv, Done, SecsOp
  <2> QED BY <1>1, <2>1, Zenon DEF DataAt
<1> QED BY <1>2, <1>3, <1>4, Zenon

-----------------------------------------------------------------------------
(* The device and its interrupt.                                           *)

\* A device goes on only while a thread waits for it.
LEMMA DeviceSteps ==
  ASSUME IInv, Device PROVE IInv'
<1>1. /\ UNCHANGED <<disk, owner, nesting, expecting_intr, disk_done, panic, call, mistaken, overrun>>
      /\ UNCHANGED <<pc, req, secs_done, time_limit, buf>> /\ UNCHANGED locks
  BY Zenon DEF Device, DeviceRead, DeviceAccept, DeviceStored, channel, locks, call, history
<1>2. /\ dev \in DeviceType
      /\ \A t \in Threads : req[t].op \in {"read", "write"} /\ pc[t] \in Round \union {"out", "return"}
      /\ overrun => mistaken
      /\ ~overrun => (owner["channel"] = NULL => Rested) /\ \A t \in Threads : DeviceAt(t)
  BY RequestFacts, Zenon DEF IInv, TypeOK, DeviceInv
<1>3. /\ dev' \in DeviceType
      /\ dev'.hd = dev.hd /\ dev'.lba = dev.lba /\ dev'.count = dev.count /\ dev.state # "idle"
      /\ \/ dev.state = "reading" /\ dev'.state = "read_ready" /\ dev'.irq = "own"
         \/ dev.state = "writing" /\ dev'.state = "write_ready" /\ dev'.irq = dev.irq
         \/ dev.state = "storing" /\ dev'.state = "idle" /\ dev'.irq = "own"
  <2>1. CASE DeviceRead
    BY <1>2, <2>1, Zenon DEF DeviceRead, DeviceType
  <2>2. CASE DeviceAccept
    BY <1>2, <2>2, Zenon DEF DeviceAccept, DeviceType
  <2>3. CASE DeviceStored
    BY <1>2, <2>3, Zenon DEF DeviceStored, DeviceType
  <2> QED BY <2>1, <2>2, <2>3, Zenon DEF Device
<1>4. TypeOK'
  BY <1>1, <1>3, Zenon DEF IInv, TypeOK
<1>5. ASSUME ~overrun, NEW t \in Threads PROVE DeviceAt(t)'
  <2>1. DeviceAt(t) /\ req[t].op \in {"read", "write"} /\ pc[t] \in Round \union {"out", "return"}
    BY <1>2, <1>5, Zenon
  <2> QED BY <1>1, <1>3, <2>1 DEF DeviceAt, Rested, Unanswered, Round
<1>6. DeviceInv'
  <2>1. ~overrun /\ owner["channel"] = NULL => Rested'
    BY <1>1, <1>2, <1>3 DEF Rested
  <2> QED BY <1>1, <1>2, <1>5, <2>1, Zenon DEF DeviceInv
<1>7. WaitInv'
  BY <1>1, Zenon DEF IInv, WaitInv, WaitAt, Quiet, Awaited
<1> QED BY <1>1, <1>3, <1>4, <1>6, <1>7, DeviceStep, Zenon DEF IInv

\* An interrupt that is expected finds disk_done at 0.
LEMMA InterruptStep ==
  ASSUME IInv, intr_hd_handler PROVE IInv'
<1>1. /\ UNCHANGED <<disk, owner, nesting, locks, call, pc, req, secs_done, time_limit, buf, overrun>>
      /\ dev.irq # "none"
  BY Zenon DEF intr_hd_handler, locks, call
<1>2. /\ dev \in DeviceType
      /\ \A t \in Threads : req[t].op \in {"read", "write"} /\ pc[t] \in Round \union {"out", "return"}
      /\ overrun => mistaken
      /\ ~overrun => (owner["channel"] = NULL => Rested) /\ \A t \in Threads : DeviceAt(t)
  BY RequestFacts, Zenon DEF IInv, TypeOK, DeviceInv
<1>3. /\ dev' \in DeviceType
      /\ dev'.hd = dev.hd /\ dev'.lba = dev.lba /\ dev'.count = dev.count
      /\ dev'.state = dev.state /\ dev'.irq = "none" /\ dev.irq \in {"own", "late"}
  BY <1>1, <1>2, Zenon DEF intr_hd_handler, DeviceType
<1>4. expecting_intr => disk_done = 0
  <2>1. CASE owner["channel"] = NULL
    BY <2>1, Zenon DEF IInv, WaitInv, Quiet
  <2>2. CASE owner["channel"] # NULL
    <3>1. PICK t \in Threads : pc[t] # "out"
      BY <2>2, Zenon DEF IInv, OwnerInv, TypeOK
    <3>2. pc[t] \in Round \union {"return"} /\ WaitAt(t)
      BY <1>2, <3>1, Zenon DEF IInv, WaitInv
    <3> QED BY <3>2, Zenon DEF WaitAt, Quiet, Awaited, Round
  <2> QED BY <2>1, <2>2, Zenon
<1>5. IF expecting_intr
      THEN /\ expecting_intr' = FALSE /\ disk_done' = 1 /\ panic' = panic
           /\ mistaken' = IF dev.irq = "late" THEN TRUE ELSE mistaken
      ELSE UNCHANGED <<expecting_intr, disk_done, panic, mistaken>>
  BY <1>4, Zenon DEF intr_hd_handler
<1>6. TypeOK'
  BY <1>1, <1>3, <1>5, Zenon DEF IInv, TypeOK
<1>7. WaitInv'
  <2>1. (Quiet => Quiet') /\ (Awaited => Awaited')
    BY <1>5, Zenon DEF Quiet, Awaited
  <2> QED BY <1>1, <2>1, Zenon DEF IInv, WaitInv, WaitAt
<1>8. DeviceInv'
  <2>1. (mistaken => mistaken') /\ (Rested => Rested')
    BY <1>3, <1>5, Zenon DEF Rested
  <2>2. Unanswered => Unanswered'
    BY <1>3, <1>5, Zenon DEF Unanswered
  <2>3. ASSUME ~overrun, NEW t \in Threads PROVE DeviceAt(t)'
    BY <1>1, <1>2, <1>3, <2>1, <2>2, <2>3, Zenon DEF DeviceAt
  <2> QED BY <1>1, <1>2, <2>1, <2>3, Zenon DEF DeviceInv
<1> QED BY <1>1, <1>3, <1>6, <1>7, <1>8, DeviceStep, Zenon DEF IInv

-----------------------------------------------------------------------------
(* ide_read and ide_write.                                                 *)

\* What the steps of a call know.
LEMMA CallFacts ==
  ASSUME IInv, NEW t \in Threads
  PROVE  /\ pc \in [Threads -> Round \union {"out", "return"}] /\ req \in [Threads -> Requests]
         /\ req[t].op \in {"read", "write"} /\ req[t].hd \in Disks /\ req[t].lba \in Nat
         /\ req[t].cnt \in Nat /\ req[t].lba + req[t].cnt <= Sectors
         /\ secs_done \in [Threads -> Nat] /\ time_limit \in [Threads -> Int]
         /\ DOMAIN buf = Threads /\ dev \in DeviceType /\ MaxOp \in Nat \ {0} /\ Limit \in Nat
         /\ RoundAt(t) /\ WaitAt(t) /\ DataAt(t)
         /\ overrun => mistaken
         /\ ~overrun => DeviceAt(t)
<1>1. req[t] \in Requests /\ MaxOp \in Nat \ {0} /\ Limit \in Nat /\ Sectors \in Nat
  BY IdeAssumption, Zenon DEF IInv, TypeOK
<1>2. /\ req[t].op \in {"read", "write"} /\ req[t].hd \in Disks /\ req[t].lba \in Nat
      /\ req[t].cnt \in Nat /\ req[t].lba + req[t].cnt <= Sectors
  BY <1>1, RequestFacts
<1> QED BY <1>1, <1>2, Zenon DEF IInv, TypeOK, RoundInv, WaitInv, DeviceInv, DataInv

\* A step that moves no data leaves what is said of them.
LEMMA SameData ==
  ASSUME IInv, NEW t \in Threads, pc[t] # "out", pc'[t] # "out",
         UNCHANGED <<disk, req, secs_done, buf>>, overrun => overrun',
         req[t].op = "write" => (pc'[t] = "down" <=> pc[t] = "down")
  PROVE  DataAt(t)'
<1>1. DataAt(t)
  BY Zenon DEF IInv, DataInv
<1>2. SecsOp(t)' = SecsOp(t)
  BY Zenon DEF SecsOp
<1>3. req[t].op # "read" => Done(t)' = Done(t)
  BY <1>2, CallFacts, Zenon DEF Done
<1> QED BY <1>1, <1>3, Zenon DEF DataAt

\* A step in a round that leaves the registers leaves what is said of them.
LEMMA SameRound ==
  ASSUME IInv, NEW t \in Threads, pc[t] \in Round \ {"select"}, pc'[t] \in Round,
         UNCHANGED <<req, secs_done, overrun>>,
         dev'.hd = dev.hd, dev'.lba = dev.lba, dev'.count = dev.count
  PROVE  RoundAt(t)'
<1>1. RoundAt(t)
  BY Zenon DEF IInv, RoundInv
<1>2. SecsOp(t)' = SecsOp(t)
  BY Zenon DEF SecsOp
<1> QED BY <1>1, <1>2, Zenon DEF RoundAt, Round

\* Registers that are written to a device at work count as an overrun, which only a late
\* interrupt makes possible.
LEMMA RegisterFacts ==
  ASSUME IInv, NEW d \in DeviceType, SetRegisters(d), UNCHANGED mistaken,
         d.state = dev.state, d.irq = dev.irq, ~overrun => Rested
  PROVE  /\ dev' \in DeviceType /\ dev'.state = dev.state /\ dev'.irq = dev.irq
         /\ overrun' \in BOOLEAN
         /\ overrun => overrun'
         /\ overrun' => mistaken'
         /\ ~overrun' => dev' = d /\ dev.state = "idle"
<1>1. dev \in DeviceType /\ overrun \in BOOLEAN /\ (overrun => mistaken)
  BY Zenon DEF IInv, TypeOK, DeviceInv
<1>2. CASE dev.state = "idle"
  BY <1>1, <1>2, Zenon DEF SetRegisters
<1>3. CASE dev.state # "idle"
  <2>1. dev' \in {dev, d} /\ overrun' = TRUE
    BY <1>3, Zenon DEF SetRegisters
  <2>2. mistaken
    BY <1>1, <1>3, Zenon DEF Rested
  <2> QED BY <1>1, <2>1, <2>2, Zenon
<1> QED BY <1>2, <1>3, Zenon

\* ide_read or ide_write takes the channel, where no interrupt is waited for.
LEMMA BeginStep ==
  ASSUME IInv, NEW t \in Threads, NEW r \in Requests, Begin(t, r) PROVE IInv'
<1>1. /\ pc[t] = "out" /\ owner["channel"] = NULL
      /\ owner' = [owner EXCEPT !["channel"] = t] /\ nesting' = [nesting EXCEPT !["channel"] = 1]
      /\ req' = [req EXCEPT ![t] = r] /\ SetRegisters([dev EXCEPT !.hd = r.hd])
      /\ pc' = [pc EXCEPT ![t] = "select"]
      /\ UNCHANGED <<disk, expecting_intr, disk_done, panic, secs_done, time_limit, buf, mistaken>>
  BY Zenon DEF Begin, At, Goto, Lock!Take
<1>2. /\ pc \in [Threads -> Round \union {"out", "return"}] /\ req \in [Threads -> Requests]
      /\ dev \in DeviceType /\ r.hd \in Disks /\ r.cnt \in Nat /\ r.cnt > 0 /\ r.lba \in Nat
      /\ \A u \in Threads : pc[u] = "out" /\ secs_done[u] = 0 /\ buf[u] = <<>>
  <2>1. \A u \in Threads : pc[u] = "out"
    BY <1>1, IdeAssumption, Zenon DEF IInv, OwnerInv
  <2>2. \A u \in Threads : secs_done[u] = 0 /\ buf[u] = <<>>
    BY <2>1, Zenon DEF IInv, RoundInv, RoundAt, DataInv, DataAt
  <2>3. r.hd \in Disks /\ r.cnt \in Nat /\ r.cnt > 0 /\ r.lba \in Nat
    BY RequestFacts, IdeAssumption
  <2> QED BY <2>1, <2>2, <2>3, CallFacts, Zenon
<1>3. /\ pc'[t] = "select" /\ req'[t] = r
      /\ \A u \in Threads : u # t => pc'[u] = "out"
      /\ owner'["channel"] = t /\ nesting'["channel"] = 1
  BY <1>1, <1>2, Zenon DEF IInv, TypeOK
<1>9. /\ dev' \in DeviceType /\ dev'.state = dev.state /\ overrun' \in BOOLEAN
      /\ overrun' => mistaken'
      /\ ~overrun' => dev.state = "idle"
  <2> DEFINE d == [dev EXCEPT !.hd = r.hd]
  <2>1. d \in DeviceType /\ d.state = dev.state /\ d.irq = dev.irq
    BY <1>2, Zenon DEF DeviceType
  <2>2. ~overrun => Rested
    BY <1>1, Zenon DEF IInv, DeviceInv
  <2> HIDE DEF d
  <2>3. SetRegisters(d) /\ UNCHANGED mistaken
    BY <1>1, Zenon DEF d
  <2> QED BY <2>1, <2>2, <2>3, RegisterFacts, Zenon
<1>4. TypeOK'
  BY <1>1, <1>2, <1>3, <1>9, Zenon DEF IInv, TypeOK, Round
<1>5. OwnerInv'
  BY <1>3, IdeAssumption, Zenon DEF OwnerInv
<1>6. RoundInv'
  BY <1>1, <1>2, <1>3, Zenon DEF RoundInv, RoundAt, Round
<1>7. WaitInv' /\ DeviceInv'
  <2>1. Quiet'
    BY <1>1, Zenon DEF IInv, WaitInv, Quiet
  <2>2. ~overrun' => Rested'
    BY <1>9, Zenon DEF Rested
  <2> QED BY <1>3, <1>9, <2>1, <2>2, IdeAssumption, Zenon DEF WaitInv, WaitAt, DeviceInv, DeviceAt
<1>8. DataInv'
  <2>1. DataAt(t)'
    <3>1. CASE r.op = "read"
      <4>1. buf'[t] = [i \in 1..0 |-> disk'[r.hd][r.lba + i - 1]]
        BY <1>1, <1>2
      <4> QED BY <1>1, <1>2, <1>3, <3>1, <4>1 DEF DataAt
    <3>2. CASE r.op # "read"
      <4>1. Done(t)' = 0
        BY <1>1, <1>2, <1>3 DEF Done
      <4> QED BY <1>2, <1>3, <3>2, <4>1 DEF DataAt
    <3> QED BY <3>1, <3>2, Zenon
  <2> QED BY <1>1, <1>2, <1>3, <2>1 DEF DataInv, DataAt
<1> QED BY <1>4, <1>5, <1>6, <1>7, <1>8, Zenon DEF IInv

\* The registers are set whether or not the interrupts of the last command have arrived.
LEMMA SelectSectorStep ==
  ASSUME IInv, NEW t \in Threads, SelectSector(t) PROVE IInv'
<1>1. /\ pc[t] = "select" /\ pc' = [pc EXCEPT ![t] = "expect"]
      /\ SetRegisters([dev EXCEPT !.hd = req[t].hd, !.lba = req[t].lba + secs_done[t], !.count = SecsOp(t) % MaxOp])
      /\ UNCHANGED <<disk, locks, owner, nesting, expecting_intr, disk_done, panic, req, secs_done, time_limit, buf>>
      /\ UNCHANGED mistaken
  BY Zenon DEF SelectSector, At, Goto, channel, locks
<1>2. /\ pc \in [Threads -> Round \union {"out", "return"}] /\ req[t].hd \in Disks /\ req[t].lba \in Nat
      /\ secs_done[t] \in Nat /\ dev \in DeviceType /\ RoundAt(t) /\ WaitAt(t) /\ (~overrun => DeviceAt(t))
      /\ SecsOp(t) \in Nat /\ SecsOp(t) % MaxOp \in Nat
  BY <1>1, CallFacts, RoundFacts DEF Round
<1>3. /\ dev' \in DeviceType /\ dev'.state = dev.state /\ dev'.irq = dev.irq
      /\ overrun' \in BOOLEAN /\ (overrun => overrun') /\ (overrun' => mistaken')
      /\ ~overrun' => /\ dev'.hd = req[t].hd /\ dev'.lba = req[t].lba + secs_done[t]
                      /\ dev'.count = SecsOp(t) % MaxOp /\ dev.state = "idle"
      /\ pc'[t] = "expect"
  <2> DEFINE h == req[t].hd a == req[t].lba + secs_done[t] c == SecsOp(t) % MaxOp
  <2>1. h \in Disks /\ a \in Nat /\ c \in Nat
    BY <1>2
  <2> DEFINE d == [dev EXCEPT !.hd = h, !.lba = a, !.count = c]
  <2>2. SetRegisters(d)
    BY <1>1, Zenon
  <2> HIDE DEF h, a, c
  <2>3. /\ d \in DeviceType /\ d.state = dev.state /\ d.irq = dev.irq
        /\ d.hd = h /\ d.lba = a /\ d.count = c
    BY <1>2, <2>1, Zenon DEF DeviceType
  <2>4. pc'[t] = "expect" /\ (~overrun => Rested)
    BY <1>1, <1>2, Zenon DEF DeviceAt
  <2> HIDE DEF d
  <2>5. /\ dev' \in DeviceType /\ dev'.state = dev.state /\ dev'.irq = dev.irq
        /\ overrun' \in BOOLEAN /\ (overrun => overrun') /\ (overrun' => mistaken')
        /\ ~overrun' => dev' = d /\ dev.state = "idle"
    BY <1>1, <2>2, <2>3, <2>4, RegisterFacts, Zenon
  <2> QED BY <2>3, <2>4, <2>5, Zenon DEF h, a, c
<1>4. TypeOK'
  BY <1>1, <1>2, <1>3, Zenon DEF IInv, TypeOK, Round
<1>5. RoundAt(t)'
  <2>1. SecsOp(t)' = SecsOp(t)
    BY <1>1, Zenon DEF SecsOp
  <2> QED BY <1>1, <1>2, <1>3, <2>1, Zenon DEF RoundAt, Round
<1>6. WaitAt(t)' /\ (~overrun' => DeviceAt(t)')
  BY <1>1, <1>2, <1>3, Zenon DEF WaitAt, Quiet, DeviceAt
<1>7. DataAt(t)'
  BY <1>1, <1>3, SameData, Zenon
<1> QED BY <1>1, <1>3, <1>4, <1>5, <1>6, <1>7, OwnStep, Zenon DEF IInv, Round

\* cmd_out expects an interrupt from then on.
LEMMA CmdExpectStep ==
  ASSUME IInv, NEW t \in Threads, CmdExpect(t) PROVE IInv'
<1>1. /\ pc[t] = "expect" /\ pc' = [pc EXCEPT ![t] = "command"] /\ expecting_intr' = TRUE
      /\ dev' = [dev EXCEPT !.irq = IF @ = "none" THEN @ ELSE "late"]
      /\ UNCHANGED <<disk, locks, owner, nesting, disk_done, panic, req, secs_done, time_limit, buf>>
      /\ UNCHANGED <<mistaken, overrun>>
  BY Zenon DEF CmdExpect, At, Goto, locks, history
<1>2. /\ pc \in [Threads -> Round \union {"out", "return"}] /\ dev \in DeviceType
      /\ WaitAt(t) /\ (overrun => mistaken) /\ (~overrun => DeviceAt(t))
  BY CallFacts, Zenon
<1>3. /\ pc'[t] = "command" /\ dev' \in DeviceType /\ dev'.state = dev.state /\ dev'.irq # "own"
      /\ dev'.hd = dev.hd /\ dev'.lba = dev.lba /\ dev'.count = dev.count
  BY <1>1, <1>2, Zenon DEF DeviceType
<1>4. TypeOK'
  BY <1>1, <1>2, <1>3, Zenon DEF IInv, TypeOK, Round
<1>5. RoundAt(t)'
  BY <1>1, <1>3, SameRound, Zenon DEF Round
<1>6. WaitAt(t)' /\ (~overrun' => DeviceAt(t)')
  <2>1. disk_done' = 0 /\ disk_done' # 1
    BY <1>1, <1>2 DEF WaitAt, Quiet
  <2> QED BY <1>1, <1>2, <1>3, <2>1, Zenon DEF WaitAt, Awaited, DeviceAt, Unanswered
<1>7. DataAt(t)'
  BY <1>1, <1>3, SameData, Zenon
<1> QED BY <1>1, <1>2, <1>4, <1>5, <1>6, <1>7, OwnStep, Zenon DEF IInv, Round

\* The command is out; a device that is idle takes it.
LEMMA CmdOutStep ==
  ASSUME IInv, NEW t \in Threads, CmdOut(t) PROVE IInv'
<1> DEFINE l == IF req[t].op = "read" THEN "down" ELSE "poll"
           st == IF req[t].op = "read" THEN "reading" ELSE "writing"
<1>1. /\ pc[t] = "command" /\ pc' = [pc EXCEPT ![t] = l]
      /\ dev' = IF BSY THEN dev ELSE [dev EXCEPT !.state = st]
      /\ time_limit' \in {time_limit, [time_limit EXCEPT ![t] = Limit]}
      /\ UNCHANGED <<disk, locks, owner, nesting, expecting_intr, disk_done, panic, req, secs_done, buf>>
      /\ UNCHANGED <<mistaken, overrun>>
  BY Zenon DEF CmdOut, At, Goto, channel, locks, history
<1>2. /\ pc \in [Threads -> Round \union {"out", "return"}] /\ time_limit \in [Threads -> Int] /\ Limit \in Nat
      /\ dev \in DeviceType /\ req[t].op \in {"read", "write"}
      /\ WaitAt(t) /\ (overrun => mistaken) /\ (~overrun => DeviceAt(t))
  BY CallFacts, Zenon
<1>3. Awaited /\ (~overrun => dev.state = "idle" /\ Unanswered)
  BY <1>1, <1>2, Zenon DEF WaitAt, DeviceAt
<1>4. /\ dev' = dev \/ dev' = [dev EXCEPT !.state = st]
      /\ ~overrun => dev' = [dev EXCEPT !.state = st]
  BY <1>1, <1>3, Zenon DEF BSY
<1>5. /\ dev' \in DeviceType /\ (~overrun => dev'.state = st) /\ dev'.irq = dev.irq
      /\ dev'.hd = dev.hd /\ dev'.lba = dev.lba /\ dev'.count = dev.count
      /\ pc'[t] = l /\ l \in Round \ {"select"} /\ time_limit' \in [Threads -> Int]
  BY <1>1, <1>2, <1>4 DEF DeviceType, Round
<1>6. TypeOK'
  BY <1>1, <1>2, <1>5, Zenon DEF IInv, TypeOK
<1>7. RoundAt(t)'
  BY <1>1, <1>5, SameRound, Zenon DEF Round
<1>8. WaitAt(t)' /\ (~overrun' => DeviceAt(t)')
  BY <1>1, <1>2, <1>3, <1>5, Zenon DEF WaitAt, Awaited, DeviceAt, Unanswered
<1>9. DataAt(t)'
  BY <1>1, <1>5, SameData
<1> QED BY <1>1, <1>2, <1>5, <1>6, <1>7, <1>8, <1>9, OwnStep, Zenon DEF IInv

\* One round of busy_wait; it ends when the device has data, or wants them.
LEMMA BusyWaitStep ==
  ASSUME IInv, NEW t \in Threads, BusyWait(t) PROVE IInv'
<1>1. PICK l \in {"poll", "transfer"} :
        /\ pc[t] = "poll" /\ pc' = [pc EXCEPT ![t] = l] /\ (l = "transfer" => ~BSY)
        /\ time_limit' = [time_limit EXCEPT ![t] = IF BSY THEN @ - 1 ELSE 0]
        /\ panic' \in {panic, "timeout"}
        /\ UNCHANGED <<disk, locks, owner, nesting, expecting_intr, disk_done, dev, req, secs_done, buf>>
        /\ UNCHANGED <<mistaken, overrun>>
  <2>1. pc[t] = "poll" /\ pc = [pc EXCEPT ![t] = "poll"]
    BY CallFacts, Zenon DEF BusyWait, At
  <2>2. /\ time_limit' = [time_limit EXCEPT ![t] = IF BSY THEN @ - 1 ELSE 0]
        /\ panic' \in {panic, "timeout"}
        /\ UNCHANGED <<disk, locks, owner, nesting, expecting_intr, disk_done, dev, req, secs_done, buf>>
        /\ UNCHANGED <<mistaken, overrun>>
        /\ pc' = pc \/ (~BSY /\ pc' = [pc EXCEPT ![t] = "transfer"])
    BY Zenon DEF BusyWait, Goto, channel, locks, history
  <2> QED BY <2>1, <2>2, Zenon
<1>2. /\ pc \in [Threads -> Round \union {"out", "return"}] /\ time_limit \in [Threads -> Int]
      /\ req[t].op \in {"read", "write"}
      /\ WaitAt(t) /\ (overrun => mistaken) /\ (~overrun => DeviceAt(t))
  BY CallFacts, Zenon
<1>3. pc'[t] = l /\ time_limit' \in [Threads -> Int] /\ l \in Round
  BY <1>1, <1>2 DEF Round
<1>4. TypeOK'
  BY <1>1, <1>2, <1>3, Zenon DEF IInv, TypeOK
<1>5. RoundAt(t)'
  BY <1>1, <1>3, SameRound, Zenon DEF Round
<1>6. WaitAt(t)' /\ (~overrun' => DeviceAt(t)')
  BY <1>1, <1>2, <1>3, Zenon DEF WaitAt, Quiet, Awaited, DeviceAt, Unanswered, BSY
<1>7. DataAt(t)'
  BY <1>1, <1>3, SameData, Zenon
<1> QED BY <1>1, <1>2, <1>3, <1>4, <1>5, <1>6, <1>7, OwnStep, Zenon DEF IInv

\* The channel is given back, with an interrupt to come or not.
LEMMA ReturnStep ==
  ASSUME IInv, NEW t \in Threads, Return(t) PROVE IInv'
<1>1. /\ pc[t] = "return" /\ owner["channel"] = t
      /\ owner' = IF nesting["channel"] = 1 THEN [owner EXCEPT !["channel"] = NULL] ELSE owner
      /\ nesting' = [nesting EXCEPT !["channel"] = @ - 1]
      /\ pc' = [pc EXCEPT ![t] = "out"] /\ req' = [req EXCEPT ![t] = NoRequest]
      /\ secs_done' = [secs_done EXCEPT ![t] = 0] /\ time_limit' = [time_limit EXCEPT ![t] = 0]
      /\ buf' = [buf EXCEPT ![t] = <<>>]
      /\ UNCHANGED <<disk, expecting_intr, disk_done, panic, dev, mistaken, overrun>>
  BY Zenon DEF Return, At, Goto, Lock!GiveBack, history
<1>2. /\ pc \in [Threads -> Round \union {"out", "return"}] /\ req \in [Threads -> Requests]
      /\ secs_done \in [Threads -> Nat] /\ time_limit \in [Threads -> Int] /\ DOMAIN buf = Threads
      /\ WaitAt(t) /\ (overrun => mistaken) /\ (~overrun => DeviceAt(t)) /\ NoRequest \in Requests
  BY CallFacts, NoRequestFacts, Zenon
<1>3. /\ nesting["channel"] = 1 /\ t # NULL
      /\ \A u \in Threads : u # t => pc[u] = "out" /\ secs_done[u] = 0 /\ buf[u] = <<>>
  BY <1>1, Alone, Zenon DEF IInv, OwnerInv
<1>4. /\ owner'["channel"] = NULL /\ nesting'["channel"] = 0
      /\ \A u \in Threads : pc'[u] = "out" /\ secs_done'[u] = 0 /\ buf'[u] = <<>>
  BY <1>1, <1>2, <1>3 DEF IInv, TypeOK
<1>5. TypeOK'
  <2>1. /\ pc' \in [Threads -> Round \union {"out", "return"}] /\ req' \in [Threads -> Requests]
        /\ secs_done' \in [Threads -> Nat] /\ time_limit' \in [Threads -> Int] /\ DOMAIN buf' = Threads
    BY <1>1, <1>2
  <2>2. owner' \in [{"channel"} -> Threads \union {NULL}] /\ nesting' \in [{"channel"} -> {0, 1}]
    BY <1>1, <1>3 DEF IInv, TypeOK
  <2> QED BY <1>1, <2>1, <2>2, Zenon DEF IInv, TypeOK
<1>6. OwnerInv'
  BY <1>4, IdeAssumption, Zenon DEF OwnerInv
<1>7. RoundInv' /\ DataInv'
  BY <1>4, Zenon DEF RoundInv, RoundAt, DataInv, DataAt, Round
<1>8. WaitInv' /\ DeviceInv'
  <2>1. Quiet' /\ (~overrun' => Rested')
    BY <1>1, <1>2, Zenon DEF WaitAt, Quiet, DeviceAt, Rested
  <2> QED BY <1>1, <1>2, <1>4, <2>1, Zenon DEF WaitInv, WaitAt, DeviceInv, DeviceAt
<1> QED BY <1>5, <1>6, <1>7, <1>8, Zenon DEF IInv

\* The end of a round of the loop over the commands.
LEMMA AdvanceFacts ==
  ASSUME IInv, NEW t \in Threads, pc[t] \in Round, Advance(t), UNCHANGED req
  PROVE  /\ secs_done' \in [Threads -> Nat] /\ secs_done'[t] = secs_done[t] + SecsOp(t)
         /\ \A u \in Threads : u # t => secs_done'[u] = secs_done[u]
         /\ pc' \in [Threads -> Round \union {"out", "return"}]
         /\ \E l \in {"select", "return"} : pc' = [pc EXCEPT ![t] = l] /\ pc'[t] = l
         /\ RoundAt(t)'
<1> DEFINE n == secs_done[t] + SecsOp(t)
           l == IF n < req[t].cnt THEN "select" ELSE "return"
<1>1. /\ secs_done' = [secs_done EXCEPT ![t] = n] /\ pc' = [pc EXCEPT ![t] = l]
  BY Zenon DEF Advance, Goto
<1>2. /\ pc \in [Threads -> Round \union {"out", "return"}] /\ secs_done \in [Threads -> Nat]
      /\ req[t].cnt \in Nat /\ n \in Nat /\ n <= req[t].cnt
  BY CallFacts, RoundFacts
<1>3. /\ secs_done' \in [Threads -> Nat] /\ secs_done'[t] = n
      /\ \A u \in Threads : u # t => secs_done'[u] = secs_done[u]
  BY <1>1, <1>2, Zenon
<1>4. /\ l \in {"select", "return"} /\ pc'[t] = l /\ pc' \in [Threads -> Round \union {"out", "return"}]
  BY <1>1, <1>2, Zenon DEF Round
<1>5. RoundAt(t)'
  BY <1>2, <1>3, <1>4 DEF RoundAt, Round
<1> QED BY <1>1, <1>3, <1>4, <1>5, Zenon

\* The semaphore is down behind the interrupt of the command, or behind a late one.
LEMMA SemaDownStep ==
  ASSUME IInv, NEW t \in Threads, SemaDown(t) PROVE IInv'
<1>1. /\ pc[t] = "down" /\ disk_done > 0 /\ disk_done' = disk_done - 1
      /\ UNCHANGED <<disk, locks, owner, nesting, expecting_intr, panic, dev, req, buf, mistaken, overrun>>
  BY Zenon DEF SemaDown, At, locks, history
<1>2. /\ pc \in [Threads -> Round \union {"out", "return"}] /\ time_limit \in [Threads -> Int] /\ Limit \in Nat
      /\ secs_done \in [Threads -> Nat] /\ DataAt(t) /\ req[t].op \in {"read", "write"}
      /\ WaitAt(t) /\ (overrun => mistaken) /\ (~overrun => DeviceAt(t))
  BY CallFacts, Zenon
<1>3. /\ ~expecting_intr /\ disk_done = 1 /\ disk_done' = 0
      /\ ~overrun => IF req[t].op = "read" THEN dev.state \in {"reading", "read_ready"} ELSE Rested
  <2>1. Awaited
    BY <1>1, <1>2, Zenon DEF WaitAt
  <2>2. ~expecting_intr /\ disk_done = 1
    BY <1>1, <2>1 DEF Awaited
  <2>3. disk_done' = 0
    BY <1>1, <2>2
  <2> QED BY <1>1, <1>2, <2>2, <2>3, Zenon DEF DeviceAt, Unanswered, Rested
<1>4. CASE req[t].op = "read"
  <2>1. /\ pc' = [pc EXCEPT ![t] = "poll"] /\ time_limit' = [time_limit EXCEPT ![t] = Limit]
        /\ UNCHANGED secs_done
    BY <1>4, Zenon DEF SemaDown, Goto
  <2>2. pc'[t] = "poll" /\ time_limit' \in [Threads -> Int]
    BY <1>2, <2>1
  <2>3. TypeOK'
    BY <1>1, <1>2, <1>3, <2>1, <2>2, Zenon DEF IInv, TypeOK, Round
  <2>4. RoundAt(t)'
    BY <1>1, <2>1, <2>2, SameRound, Zenon DEF Round
  <2>5. WaitAt(t)' /\ (~overrun' => DeviceAt(t)')
    BY <1>1, <1>3, <1>4, <2>2, Zenon DEF WaitAt, Quiet, DeviceAt
  <2>6. DataAt(t)'
    BY <1>1, <1>4, <2>1, <2>2, SameData, Zenon
  <2> QED BY <1>1, <1>2, <2>1, <2>3, <2>4, <2>5, <2>6, OwnStep, Zenon DEF IInv, Round
<1>5. CASE req[t].op = "write"
  <2>1. Advance(t) /\ UNCHANGED time_limit
    BY <1>5, Zenon DEF SemaDown
  <2>2. pc[t] \in Round
    BY <1>1, Zenon DEF Round
  <2>3. PICK l \in {"select", "return"} : pc' = [pc EXCEPT ![t] = l] /\ pc'[t] = l
    BY <1>1, <2>1, <2>2, AdvanceFacts, Zenon
  <2>4. /\ secs_done' \in [Threads -> Nat] /\ secs_done'[t] = secs_done[t] + SecsOp(t)
        /\ \A u \in Threads : u # t => secs_done'[u] = secs_done[u]
        /\ pc' \in [Threads -> Round \union {"out", "return"}]
        /\ RoundAt(t)'
    BY <1>1, <2>1, <2>2, AdvanceFacts, Zenon
  <2>5. TypeOK'
    BY <1>1, <1>3, <2>1, <2>4, Zenon DEF IInv, TypeOK
  <2>6. WaitAt(t)' /\ (~overrun' => DeviceAt(t)')
    BY <1>1, <1>3, <1>5, <2>3, Zenon DEF WaitAt, Quiet, DeviceAt, Rested
  <2>7. DataAt(t)'
    <3>1. SecsOp(t) \in Nat
      BY <2>2, RoundFacts
    <3>2. Done(t)' = Done(t)
      BY <1>1, <1>2, <1>5, <2>3, <2>4, <3>1 DEF Done
    <3> QED BY <1>1, <1>2, <1>5, <2>3, <3>2, Zenon DEF DataAt
  <2> QED BY <1>1, <1>2, <2>3, <2>4, <2>5, <2>6, <2>7, OwnStep, Zenon DEF IInv, Round
<1> QED BY <1>2, <1>4, <1>5, Zenon

\* Two runs of sectors, the second behind the first, are one.
LEMMA Runs ==
  ASSUME NEW row, NEW lba \in Nat, NEW a \in Nat, NEW b \in Nat
  PROVE  [i \in 1..a |-> row[lba + i - 1]] \o [i \in 1..b |-> row[lba + a + i - 1]]
         = [i \in 1..(a + b) |-> row[lba + i - 1]]
<1> DEFINE S == {row[x] : x \in Int}
           f == [i \in 1..a |-> row[lba + i - 1]]
           g == [i \in 1..b |-> row[lba + a + i - 1]]
           h == [i \in 1..(a + b) |-> row[lba + i - 1]]
<1>1. f \in Seq(S) /\ g \in Seq(S) /\ h \in Seq(S)
  <2>1. \A x \in Int : row[x] \in S
    BY Zenon
  <2> HIDE DEF S
  <2>2. f \in [1..a -> S] /\ g \in [1..b -> S] /\ h \in [1..(a + b) -> S]
    BY <2>1
  <2>3. a + b \in Nat
    OBVIOUS
  <2> HIDE DEF f, g, h
  <2> QED BY <2>2, <2>3
<1>2. Len(f) = a /\ Len(g) = b /\ Len(h) = a + b
  BY <1>1
<1>3. /\ \A i \in 1..a : f[i] = row[lba + i - 1]
      /\ \A i \in 1..b : g[i] = row[lba + a + i - 1]
      /\ \A i \in 1..(a + b) : h[i] = row[lba + i - 1]
  BY Zenon
<1> HIDE DEF f, g, h, S
<1>4. /\ f \o g \in Seq(S) /\ Len(f \o g) = a + b
      /\ \A i \in 1..(a + b) : (f \o g)[i] = IF i <= a THEN f[i] ELSE g[i - a]
  <2>1. /\ f \o g \in Seq(S) /\ Len(f \o g) = Len(f) + Len(g)
        /\ \A i \in 1..(Len(f) + Len(g)) : (f \o g)[i] = IF i <= Len(f) THEN f[i] ELSE g[i - Len(f)]
    BY <1>1
  <2> QED BY <1>2, <2>1, Zenon
<1>5. ASSUME NEW i \in 1..(a + b) PROVE (f \o g)[i] = h[i]
  <2>1. CASE i <= a
    <3>1. i \in 1..a
      BY <2>1
    <3> QED BY <1>3, <1>4, <2>1, <3>1, Zenon
  <2>2. CASE ~(i <= a)
    <3>1. i - a \in 1..b /\ lba + a + (i - a) - 1 = lba + i - 1
      BY <2>2
    <3> QED BY <1>3, <1>4, <2>2, <3>1, Zenon
  <2> QED BY <2>1, <2>2, Zenon
<1>6. f \o g = h
  <2> DEFINE c == f \o g
  <2>1. c \in Seq(S) /\ Len(c) = Len(h) /\ \A i \in 1..Len(h) : c[i] = h[i]
    BY <1>2, <1>4, <1>5, Zenon
  <2> HIDE DEF c
  <2>2. c = [i \in 1..Len(c) |-> c[i]] /\ h = [i \in 1..Len(h) |-> h[i]]
    BY <1>1, <2>1
  <2>3. c = h
    BY <2>1, <2>2, Zenon
  <2> QED BY <2>3, Zenon DEF c
<1> QED BY <1>6, Zenon DEF f, g, h

\* The sectors of a read command are those behind the ones that are read.
LEMMA ReadFromSectorStep ==
  ASSUME IInv, NEW t \in Threads, ReadFromSector(t) PROVE IInv'
<1> DEFINE q == req[t] n == secs_done[t] k == SecsOp(t) row == disk[q.hd]
<1>1. /\ pc[t] = "transfer" /\ q.op = "read" /\ Advance(t)
      /\ buf' = [buf EXCEPT ![t] = @ \o [i \in 1..Moved(t) |->
                    IF i <= Count THEN disk[dev.hd][dev.lba + i - 1] ELSE NULL]]
      /\ dev' = [dev EXCEPT !.state = IF Moved(t) >= Count THEN "idle" ELSE @,
                            !.irq = IF Count = 1 THEN @ ELSE "own"]
      /\ UNCHANGED <<disk, locks, owner, nesting, expecting_intr, disk_done, panic, req, time_limit>>
      /\ UNCHANGED <<mistaken, overrun>>
  BY Zenon DEF ReadFromSector, At, channel, locks, history
<1>2. pc[t] \in Round /\ pc[t] # "select" /\ pc[t] # "out"
  BY <1>1, Zenon DEF Round
<1>3. /\ DataAt(t) /\ RoundAt(t) /\ dev \in DeviceType /\ DOMAIN buf = Threads
      /\ WaitAt(t) /\ (overrun => mistaken)
      /\ n \in Nat /\ q.lba \in Nat
  BY CallFacts, Zenon
<1>4. k \in Nat /\ k >= 1 /\ Moved(t) = k /\ (~overrun => Count = k)
  BY <1>2, RoundFacts
<1>5. PICK l \in {"select", "return"} : pc' = [pc EXCEPT ![t] = l] /\ pc'[t] = l
  BY <1>1, <1>2, AdvanceFacts, Zenon
<1>6. /\ secs_done' \in [Threads -> Nat] /\ secs_done'[t] = n + k
      /\ \A u \in Threads : u # t => secs_done'[u] = secs_done[u]
      /\ pc' \in [Threads -> Round \union {"out", "return"}]
      /\ RoundAt(t)'
  BY <1>1, <1>2, AdvanceFacts, Zenon
<1>7. dev' \in DeviceType /\ (~overrun => dev'.state = "idle")
  <2>1. dev' \in DeviceType /\ (Moved(t) >= Count => dev'.state = "idle")
    BY <1>1, <1>3, Zenon DEF DeviceType
  <2>2. ~overrun => Moved(t) >= Count
    <3> HIDE DEF k
    <3> QED BY <1>4
  <2> QED BY <2>1, <2>2, Zenon
<1>8. TypeOK'
  BY <1>1, <1>6, <1>7, Zenon DEF IInv, TypeOK
<1>9. WaitAt(t)' /\ (~overrun' => DeviceAt(t)')
  BY <1>1, <1>3, <1>5, <1>7, Zenon DEF WaitAt, Quiet, DeviceAt, Rested
<1>10. DataAt(t)'
  <2>0. CASE overrun
    BY <1>1, <1>5, <2>0, Zenon DEF DataAt
  <2> SUFFICES ASSUME ~overrun PROVE DataAt(t)'
    BY <2>0, Zenon
  <2>1. /\ dev.hd = q.hd /\ dev.lba = q.lba + n
    BY <1>2, <1>3, Zenon DEF RoundAt
  <2>2. buf[t] = [i \in 1..n |-> row[q.lba + i - 1]]
    BY <1>1, <1>2, <1>3, Zenon DEF DataAt
  <2>3. buf'[t] = buf[t] \o [i \in 1..k |-> row[q.lba + n + i - 1]]
    <3> DEFINE f(m) == [i \in 1..k |-> IF i <= m THEN row[q.lba + n + i - 1] ELSE NULL]
    <3>1. buf'[t] = buf[t] \o f(k)
      BY <1>1, <1>3, <1>4, <2>1, Zenon
    <3>2. \A i \in 1..k : i <= k
      <4> HIDE DEF k
      <4> QED BY <1>4
    <3>3. f(k) = [i \in 1..k |-> row[q.lba + n + i - 1]]
      <4> HIDE DEF row, k, n, q
      <4> QED BY <3>2, Zenon
    <3> QED BY <3>1, <3>3, Zenon
  <2>4. buf'[t] = [i \in 1..(n + k) |-> row[q.lba + i - 1]]
    <3>1. [i \in 1..n |-> row[q.lba + i - 1]] \o [i \in 1..k |-> row[q.lba + n + i - 1]]
          = [i \in 1..(n + k) |-> row[q.lba + i - 1]]
      <4> HIDE DEF row, n, k, q
      <4> QED BY <1>3, <1>4, Runs
    <3> HIDE DEF row, n, k, q
    <3> QED BY <2>2, <2>3, <3>1, Zenon
  <2> QED BY <1>1, <1>5, <1>6, <2>4, Zenon DEF DataAt
<1>11. \A u \in Threads : u # t => buf'[u] = buf[u]
  BY <1>1, <1>3, Zenon
<1> QED BY <1>1, <1>2, <1>3, <1>5, <1>6, <1>8, <1>9, <1>10, <1>11, OwnStep, Zenon DEF IInv, Round

\* The row of a disk that a transfer changes.
Written(row, data, lba, moved, count) ==
  [i \in DOMAIN row |-> IF i \in lba..(lba + moved - 1) /\ i < lba + count THEN data ELSE row[i]]

\* The sectors of a write command are those behind the ones that are written.
LEMMA Write2SectorStep ==
  ASSUME IInv, NEW t \in Threads, Write2Sector(t)
  PROVE  /\ IInv'
         /\ ~overrun => \A d \in Disks, i \in 0..(Sectors - 1) : disk'[d][i] # disk[d][i] =>
              d = req[t].hd /\ i \in req[t].lba..(req[t].lba + req[t].cnt - 1)
<1> DEFINE q == req[t] n == secs_done[t] k == SecsOp(t)
           first == q.lba + n
           row == Written(disk[dev.hd], q.data, dev.lba, Moved(t), Count)
<1>1. /\ pc[t] = "transfer" /\ q.op = "write" /\ pc' = [pc EXCEPT ![t] = "down"]
      /\ disk' = [disk EXCEPT ![dev.hd] = row]
      /\ dev' = IF Moved(t) < Count THEN dev
                ELSE IF Count = 1 THEN [dev EXCEPT !.state = "storing"]
                ELSE [dev EXCEPT !.state = "idle", !.irq = "own"]
      /\ \/ UNCHANGED <<expecting_intr, disk_done>>
         \/ Count > 1 /\ expecting_intr /\ expecting_intr' = FALSE /\ disk_done' = disk_done + 1
      /\ UNCHANGED <<locks, owner, nesting, panic, req, secs_done, time_limit, buf, mistaken, overrun>>
  BY Zenon DEF Write2Sector, Written, At, Goto, locks, history
<1>2. pc[t] \in Round /\ pc[t] # "select" /\ pc[t] # "out"
  BY <1>1, Zenon DEF Round
<1>3. /\ DataAt(t) /\ RoundAt(t) /\ dev \in DeviceType /\ dev.hd \in Disks
      /\ WaitAt(t) /\ (overrun => mistaken) /\ (~overrun => DeviceAt(t))
      /\ pc \in [Threads -> Round \union {"out", "return"}]
      /\ n \in Nat /\ q.lba \in Nat /\ q.hd \in Disks /\ q.cnt \in Nat /\ q.lba + q.cnt <= Sectors
  BY CallFacts, Zenon DEF DeviceType
<1>4. k \in Nat /\ k >= 1 /\ Moved(t) = k /\ n + k <= q.cnt /\ (~overrun => Count = k)
  BY <1>2, RoundFacts
<1>5. ~overrun => dev.hd = q.hd /\ dev.lba = first
  BY <1>2, <1>3, Zenon DEF RoundAt
<1>6. /\ disk \in [Disks -> [0..(Sectors - 1) -> Values]] /\ q.data \in Values /\ Sectors \in Nat
      /\ Awaited
  BY <1>1, <1>3, RequestFacts, IdeAssumption, Zenon DEF IInv, TypeOK, WaitAt
<1>7. /\ disk' \in [Disks -> [0..(Sectors - 1) -> Values]]
      /\ disk'[dev.hd] = row /\ \A d \in Disks : d # dev.hd => disk'[d] = disk[d]
      /\ DOMAIN disk[dev.hd] = 0..(Sectors - 1)
  <2>1. row \in [0..(Sectors - 1) -> Values]
    BY <1>3, <1>6, Zenon DEF Written
  <2> HIDE DEF row
  <2> QED BY <1>1, <1>3, <1>6, <2>1, Zenon
<1>8. ~overrun => \A i \in 0..(Sectors - 1) :
        row[i] = IF i \in first..(first + k - 1) THEN q.data ELSE disk[q.hd][i]
  <2> SUFFICES ASSUME ~overrun, NEW i \in 0..(Sectors - 1)
               PROVE  row[i] = IF i \in first..(first + k - 1) THEN q.data ELSE disk[q.hd][i]
    BY Zenon
  <2>1. row[i] = IF i \in first..(first + k - 1) /\ i < first + k THEN q.data ELSE disk[q.hd][i]
    BY <1>4, <1>5, <1>7, Zenon DEF Written
  <2>2. i \in first..(first + k - 1) => i < first + k
    <3>1. first \in Nat
      BY <1>3
    <3> HIDE DEF first, k
    <3> QED BY <1>4, <3>1
  <2> HIDE DEF row, first, k
  <2> QED BY <2>1, <2>2, Zenon
<1> HIDE DEF row
<1>9. /\ dev' \in DeviceType /\ dev'.hd = dev.hd /\ dev'.lba = dev.lba /\ dev'.count = dev.count
      /\ ~overrun => \/ dev'.state = "storing" /\ dev'.irq = dev.irq /\ Count = 1
                     \/ dev'.state = "idle"
  <2>1. ~overrun => ~(Moved(t) < Count)
    <3> HIDE DEF k
    <3> QED BY <1>4
  <2> QED BY <1>1, <1>3, <2>1, Zenon DEF DeviceType
<1>10. pc'[t] = "down"
  BY <1>1, <1>3, Zenon
<1>11. /\ Awaited' /\ expecting_intr' \in BOOLEAN /\ disk_done' \in {0, 1}
       /\ Count = 1 => UNCHANGED <<expecting_intr, disk_done>>
  <2>1. CASE UNCHANGED <<expecting_intr, disk_done>>
    BY <1>6, <2>1, Zenon DEF IInv, TypeOK, Awaited
  <2>2. CASE Count > 1 /\ expecting_intr /\ expecting_intr' = FALSE /\ disk_done' = disk_done + 1
    <3>1. disk_done' = 1 /\ Count # 1
      BY <1>6, <2>2 DEF Awaited
    <3> QED BY <2>2, <3>1, Zenon DEF Awaited
  <2> QED BY <1>1, <2>1, <2>2, Zenon
<1>12. TypeOK'
  BY <1>1, <1>3, <1>7, <1>9, <1>11, Zenon DEF IInv, TypeOK, Round
<1>13. RoundAt(t)'
  BY <1>1, <1>2, <1>9, <1>10, SameRound, Zenon DEF Round
<1>14. WaitAt(t)' /\ (~overrun' => DeviceAt(t)')
  BY <1>1, <1>3, <1>9, <1>10, <1>11, Zenon DEF WaitAt, DeviceAt, Unanswered
<1>0. /\ \A i \in q.lba..(q.lba + (n + k) - 1) :
           i \in 0..(Sectors - 1) /\ (i \in first..(first + k - 1) \/ i \in q.lba..(q.lba + n - 1))
      /\ \A i \in first..(first + k - 1) : i \in q.lba..(q.lba + q.cnt - 1)
  <2>1. PICK lba, cnt, m, l, size \in Nat : /\ lba = q.lba /\ cnt = q.cnt /\ m = n /\ l = k /\ size = Sectors
                                          /\ m + l <= cnt /\ lba + cnt <= size
    BY <1>3, <1>4, <1>6, Zenon
  <2>2. /\ \A i \in lba..(lba + (m + l) - 1) :
             i \in 0..(size - 1) /\ (i \in (lba + m)..(lba + m + l - 1) \/ i \in lba..(lba + m - 1))
        /\ \A i \in (lba + m)..(lba + m + l - 1) : i \in lba..(lba + cnt - 1)
    BY <2>1
  <2> QED BY <2>1, <2>2, Zenon
<1>15. DataAt(t)'
  <2>0. CASE overrun
    BY <1>1, <1>10, <2>0, Zenon DEF DataAt
  <2> SUFFICES ASSUME ~overrun PROVE DataAt(t)'
    BY <2>0, Zenon
  <2>1. Done(t)' = n + k /\ Done(t) = n
    <3>1. SecsOp(t)' = k
      BY <1>1, Zenon DEF SecsOp
    <3> QED BY <1>1, <1>3, <1>10, <3>1 DEF Done
  <2>2. \A i \in q.lba..(q.lba + n - 1) : disk[q.hd][i] = q.data
    BY <1>1, <1>2, <1>3, <2>1, Zenon DEF DataAt
  <2>3. ASSUME NEW i \in q.lba..(q.lba + (n + k) - 1) PROVE disk'[q.hd][i] = q.data
    <3>1. i \in 0..(Sectors - 1) /\ (i \in first..(first + k - 1) \/ i \in q.lba..(q.lba + n - 1))
      BY <1>0, Zenon
    <3> QED BY <1>5, <1>7, <1>8, <2>2, <3>1, Zenon
  <2> QED BY <1>1, <1>10, <2>1, <2>3, Zenon DEF DataAt
<1>16. ASSUME ~overrun, NEW d \in Disks, NEW i \in 0..(Sectors - 1), disk'[d][i] # disk[d][i]
       PROVE  d = q.hd /\ i \in q.lba..(q.lba + q.cnt - 1)
  <2>1. d = q.hd
    BY <1>5, <1>7, <1>16, Zenon
  <2>2. i \in first..(first + k - 1)
    BY <1>5, <1>7, <1>8, <1>16, <2>1, Zenon
  <2> QED BY <1>0, <2>1, <2>2, Zenon
<1>17. IInv'
  BY <1>1, <1>2, <1>3, <1>12, <1>13, <1>14, <1>15, OwnStep, Zenon DEF IInv, Round
<1> QED BY <1>16, <1>17, Zenon

\* Every step preserves the invariant.
LEMMA NextIInv == IInv /\ [Next]_vars => IInv'
<1> SUFFICES ASSUME IInv, [Next]_vars PROVE IInv'
  BY Zenon
<1>1. ASSUME NEW t \in Threads, Step(t) PROVE IInv'
  BY <1>1, SelectSectorStep, CmdExpectStep, CmdOutStep, SemaDownStep, BusyWaitStep,
     ReadFromSectorStep, Write2SectorStep, ReturnStep, Zenon DEF Step
<1>2. ASSUME NEW t \in Threads, NEW r \in Requests, Begin(t, r) PROVE IInv'
  BY <1>2, BeginStep, Zenon
<1>3. CASE Device
  BY <1>3, DeviceSteps, Zenon
<1>4. CASE intr_hd_handler
  BY <1>4, InterruptStep, Zenon
<1>5. CASE UNCHANGED vars
  <2>1. /\ UNCHANGED <<disk, locks, call, expecting_intr, disk_done, panic, dev, mistaken, overrun>>
        /\ UNCHANGED <<owner, nesting, pc, req, secs_done, time_limit, buf>>
    BY <1>5, Zenon DEF vars, channel, locks, call, history
  <2>2. TypeOK'
    BY <2>1, Zenon DEF IInv, TypeOK
  <2>3. WaitInv' /\ DeviceInv'
    BY <2>1, Zenon DEF IInv, WaitInv, WaitAt, Quiet, Awaited, DeviceInv, DeviceAt, Rested, Unanswered
  <2> QED BY <2>1, <2>2, <2>3, DeviceStep, Zenon DEF IInv
<1> QED BY <1>1, <1>2, <1>3, <1>4, <1>5, Zenon DEF Next

-----------------------------------------------------------------------------
(* Theorems.                                                               *)

\* The inductive invariant holds in every state; the ASSERT of sema_up never fails.
THEOREM Invariance == Spec => []IInv
  BY InitIInv, NextIInv, PTL DEF Spec

\* Registers and commands reach a device at work only if an interrupt of an earlier command
\* was taken for that of a later one, and each command has one interrupt to wait for.
THEOREM OneCommandAtATime == Spec => []CommandsDoNotOverlap
<1>1. IInv => CommandsDoNotOverlap
  BY Zenon DEF IInv, WaitInv, WaitAt, Awaited, DeviceInv, DeviceAt, CommandsDoNotOverlap
<1> QED BY <1>1, Invariance, PTL

\* ide_read returns and ide_write leaves what was asked for, for any split of a request
\* into commands and any late interrupts, until a device at work is given registers.
THEOREM Transfers == Spec => []TransfersExact
<1>1. IInv => TransfersExact
  <2> SUFFICES ASSUME IInv, NEW t \in Threads, pc[t] = "return", ~overrun
               PROVE  IF req[t].op = "read"
                      THEN buf[t] = [i \in 1..req[t].cnt |-> disk[req[t].hd][req[t].lba + i - 1]]
                      ELSE \A i \in req[t].lba..(req[t].lba + req[t].cnt - 1) :
                             disk[req[t].hd][i] = req[t].data
    BY Zenon DEF TransfersExact
  <2>1. secs_done[t] = req[t].cnt /\ DataAt(t) /\ secs_done[t] \in Nat
    BY CallFacts, Zenon DEF RoundAt
  <2>2. Done(t) = secs_done[t]
    BY <2>1 DEF Done
  <2> QED BY <2>1, <2>2, Zenon DEF DataAt
<1> QED BY <1>1, Invariance, PTL

\* No step changes a sector that the thread with the channel was not asked to write, until
\* a device at work is given registers.
THEOREM OnlyRequestedIsWritten == Spec => WritesOnlyRequested
<1> DEFINE Allowed ==
      \A d \in Disks : \A i \in 0..(Sectors - 1) :
        disk'[d][i] # disk[d][i] /\ ~overrun =>
          \E t \in Threads : /\ owner["channel"] = t /\ req[t].op = "write" /\ req[t].hd = d
                             /\ i \in req[t].lba..(req[t].lba + req[t].cnt - 1)
<1>1. IInv /\ [Next]_vars => [Allowed]_vars
  <2> SUFFICES ASSUME IInv, Next PROVE Allowed
    BY Zenon
  <2>1. ASSUME NEW t \in Threads, Write2Sector(t) PROVE Allowed
    <3>1. owner["channel"] = t /\ req[t].op = "write"
      BY <2>1, Alone, Zenon DEF Write2Sector, At
    <3>2. ~overrun => \A d \in Disks, i \in 0..(Sectors - 1) : disk'[d][i] # disk[d][i] =>
            d = req[t].hd /\ i \in req[t].lba..(req[t].lba + req[t].cnt - 1)
      BY <2>1, Write2SectorStep, Zenon
    <3> QED BY <3>1, <3>2, Zenon
  <2>2. CASE UNCHANGED disk
    BY <2>2, Zenon
  <2> QED
    BY <2>1, <2>2, Zenon DEF Next, Step, Device, DeviceRead, DeviceAccept, DeviceStored, intr_hd_handler,
       Begin, SelectSector, CmdExpect, CmdOut, SemaDown, BusyWait, ReadFromSector, Return
<1> QED BY <1>1, Invariance, PTL DEF Spec, WritesOnlyRequested
=============================================================================
