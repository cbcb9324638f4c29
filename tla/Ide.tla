--------------------------------- MODULE Ide ---------------------------------
(***************************************************************************)
(* One IDE channel (device/ide.c): threads in ide_read and ide_write, the  *)
(* disk interrupt, and the two disks of the channel, of which the program  *)
(* sees registers, data and one interrupt per sector.  The data of all the *)
(* sectors of a command are there at once, as in an emulated disk: the     *)
(* code does not wait between two sectors.  The interrupt controller keeps *)
(* one interrupt until it is taken, which may be long after the transfer:  *)
(* interrupts are off in a system call until the thread blocks.  The lock  *)
(* of the channel does what module Mutex says; disk_done is a semaphore    *)
(* that a thread waits for until it is 1.  A command moves at most MaxOp   *)
(* sectors (256 in the code), and a sector holds one value.                *)
(***************************************************************************)
EXTENDS Integers, Sequences

CONSTANTS
  Threads,      \* threads that use the disks
  Disks,        \* the devices of the channel: dev_no
  Sectors,      \* sectors of a disk
  MaxOp,        \* sectors the sector count register can name, 0 standing for all
  MaxCnt,       \* sectors a caller asks for
  Limit,        \* milliseconds busy_wait starts with
  Values,       \* what a sector holds
  NULL

ASSUME IdeAssumption ==
  /\ {Sectors, MaxOp, MaxCnt, Limit} \subseteq Nat \ {0}
  /\ Disks # {} /\ NULL \notin Threads

VARIABLES
  disk,                 \* per disk and sector, its value
  owner, nesting,       \* the lock of the channel
  expecting_intr,       \* a command is under way
  disk_done,            \* the value of the semaphore
  panic,                \* "none" or why the kernel has stopped
  dev,                  \* the device: its registers, what it does, and its interrupt: "none",
                        \* "own" of the last command, "late" when the next one is announced
  pc,                   \* per thread, where it is in its call
  req,                  \* per thread, its call: op, hd, lba, cnt and data to write
  secs_done,            \* per thread, sectors that are done
  time_limit,           \* per thread, the counter of busy_wait while it lasts
  buf,                  \* per thread, what it has read
  mistaken,             \* history: a late interrupt was taken for one of a later command
  overrun               \* history: registers were written while a device was at work

locks == <<owner, nesting>>
channel == <<locks, expecting_intr, disk_done>>
call == <<pc, req, secs_done, time_limit, buf>>
history == <<mistaken, overrun>>
vars == <<disk, channel, panic, dev, call, history>>

Lock == INSTANCE Mutex WITH Users <- Threads, Locks <- {"channel"}, NoUser <- NULL

\* The calls a thread makes; a read has no data of its own.
Requests ==
  {r \in [op : {"read", "write"}, hd : Disks, lba : 0..(Sectors - 1),
          cnt : 1..MaxCnt, data : Values \union {NULL}] :
     r.lba + r.cnt <= Sectors /\ (r.op = "read" <=> r.data = NULL)}

NoRequest == CHOOSE r \in Requests : r.op = "read"

Init ==
  /\ \E v \in Values : disk = [d \in Disks |-> [i \in 0..(Sectors - 1) |-> v]]
  /\ Lock!Init
  /\ expecting_intr = FALSE /\ disk_done = 0 /\ panic = "none"
  /\ dev = [state |-> "idle", irq |-> "none", hd |-> CHOOSE d \in Disks : TRUE,
            lba |-> 0, count |-> 0]
  /\ pc = [t \in Threads |-> "out"]
  /\ req = [t \in Threads |-> NoRequest]
  /\ secs_done = [t \in Threads |-> 0]
  /\ time_limit = [t \in Threads |-> 0]
  /\ buf = [t \in Threads |-> <<>>]
  /\ mistaken = FALSE /\ overrun = FALSE

At(t, label) == panic = "none" /\ pc[t] = label
Goto(t, label) == pc' = [pc EXCEPT ![t] = label]
BSY == dev.state \in {"reading", "writing", "storing"}
DRQ == dev.state \in {"read_ready", "write_ready"}

\* The device's reading of its sector count register.
Count == IF dev.count = 0 THEN MaxOp ELSE dev.count

-----------------------------------------------------------------------------
(* The devices.                                                            *)

\* A sector is read: data is ready.
DeviceRead ==
  /\ panic = "none" /\ dev.state = "reading"
  /\ dev' = [dev EXCEPT !.state = "read_ready", !.irq = "own"]
  /\ UNCHANGED <<disk, channel, panic, call, history>>

\* The device is ready to take the data of a write command.
DeviceAccept ==
  /\ panic = "none" /\ dev.state = "writing"
  /\ dev' = [dev EXCEPT !.state = "write_ready"]
  /\ UNCHANGED <<disk, channel, panic, call, history>>

DeviceStored ==
  /\ panic = "none" /\ dev.state = "storing"
  /\ dev' = [dev EXCEPT !.state = "idle", !.irq = "own"]
  /\ UNCHANGED <<disk, channel, panic, call, history>>

\* Mutant: every interrupt is one that is waited for.
intr_hd_handler_always ==
  /\ panic = "none" /\ dev.irq # "none"
  /\ dev' = [dev EXCEPT !.irq = "none"]
  /\ expecting_intr' = FALSE /\ disk_done' = 1
  /\ UNCHANGED <<disk, locks, panic, call, history>>

\* intr_hd_handler, with the ASSERT of sema_up.  An interrupt nobody expects, as behind
\* the first sector of a command, is dropped; one that comes when the next command is
\* announced cannot be told from its own.
intr_hd_handler ==
  /\ panic = "none" /\ dev.irq # "none"
  /\ dev' = [dev EXCEPT !.irq = "none"]
  /\ IF ~expecting_intr THEN UNCHANGED <<expecting_intr, disk_done, panic, mistaken>>
     ELSE /\ expecting_intr' = FALSE
          /\ mistaken' = IF dev.irq = "late" THEN TRUE ELSE mistaken
          /\ IF disk_done = 0 THEN disk_done' = 1 /\ UNCHANGED panic
             ELSE panic' = "assert" /\ UNCHANGED disk_done
  /\ UNCHANGED <<disk, locks, call, overrun>>

-----------------------------------------------------------------------------
(* ide_read and ide_write.                                                 *)

\* The registers are written.  A device that is at work keeps the old ones, or takes them.
SetRegisters(d) ==
  IF dev.state = "idle" THEN dev' = d /\ UNCHANGED overrun
  ELSE dev' \in {dev, d} /\ overrun' = TRUE

\* Take the lock and select the disk.
Begin(t, r) ==
  /\ At(t, "out")
  /\ Lock!Take(t, "channel")
  /\ req' = [req EXCEPT ![t] = r]
  /\ SetRegisters([dev EXCEPT !.hd = r.hd])
  /\ Goto(t, "select")
  /\ UNCHANGED <<disk, expecting_intr, disk_done, panic, secs_done, time_limit, buf, mistaken>>

\* Mutant: the last command of a request is not shorter.
SecsOp_full(t) == MaxOp

SecsOp(t) ==
  IF secs_done[t] + MaxOp <= req[t].cnt THEN MaxOp ELSE req[t].cnt - secs_done[t]

\* Mutant: every command begins at the first sector.
SelectSector_no_offset(t) ==
  /\ At(t, "select")
  /\ SetRegisters([dev EXCEPT !.hd = req[t].hd, !.lba = req[t].lba, !.count = SecsOp(t) % MaxOp])
  /\ Goto(t, "expect")
  /\ UNCHANGED <<disk, channel, panic, req, secs_done, time_limit, buf, mistaken>>

SelectSector(t) ==
  /\ At(t, "select")
  /\ SetRegisters([dev EXCEPT !.hd = req[t].hd, !.lba = req[t].lba + secs_done[t],
                              !.count = SecsOp(t) % MaxOp])
  /\ Goto(t, "expect")
  /\ UNCHANGED <<disk, channel, panic, req, secs_done, time_limit, buf, mistaken>>

\* Mutant: expecting_intr is not set before the command is out.
CmdExpect_not(t) ==
  /\ At(t, "expect")
  /\ Goto(t, "command")
  /\ UNCHANGED <<disk, channel, panic, dev, req, secs_done, time_limit, buf, history>>

\* cmd_out: expecting_intr, and then the command.  An interrupt that is still to come is
\* late from now on.
CmdExpect(t) ==
  /\ At(t, "expect")
  /\ expecting_intr' = TRUE
  /\ dev' = [dev EXCEPT !.irq = IF @ = "none" THEN @ ELSE "late"]
  /\ Goto(t, "command")
  /\ UNCHANGED <<disk, locks, disk_done, panic, req, secs_done, time_limit, buf, history>>

\* A device that is busy does not take a command.
CmdOut(t) ==
  /\ At(t, "command")
  /\ dev' = IF BSY THEN dev
            ELSE [dev EXCEPT !.state = IF req[t].op = "read" THEN "reading" ELSE "writing"]
  /\ IF req[t].op = "read"
     THEN Goto(t, "down") /\ UNCHANGED time_limit
     ELSE /\ Goto(t, "poll")
          /\ time_limit' = [time_limit EXCEPT ![t] = Limit]
  /\ UNCHANGED <<disk, channel, panic, req, secs_done, buf, history>>

\* The end of a round of the loop.
Advance(t) ==
  /\ secs_done' = [secs_done EXCEPT ![t] = @ + SecsOp(t)]
  /\ Goto(t, IF secs_done[t] + SecsOp(t) < req[t].cnt THEN "select" ELSE "return")

\* sema_down: before busy_wait in ide_read, at the end of the round in ide_write.
SemaDown(t) ==
  /\ At(t, "down") /\ disk_done > 0
  /\ disk_done' = disk_done - 1
  /\ IF req[t].op = "write" THEN Advance(t) /\ UNCHANGED time_limit
     ELSE /\ Goto(t, "poll")
          /\ time_limit' = [time_limit EXCEPT ![t] = Limit]
          /\ UNCHANGED secs_done
  /\ UNCHANGED <<disk, locks, expecting_intr, panic, dev, req, buf, history>>

\* One round of busy_wait.  "time_limit -=10 >= 0" subtracts the value of 10 >= 0.
BusyWait(t) ==
  /\ At(t, "poll")
  /\ time_limit' = [time_limit EXCEPT ![t] = IF BSY THEN @ - 1 ELSE 0]
  /\ IF time_limit[t] - 1 = 0 \/ (~BSY /\ ~DRQ)
     THEN panic' = "timeout" /\ UNCHANGED pc
     ELSE /\ UNCHANGED panic
          /\ IF BSY THEN UNCHANGED pc ELSE Goto(t, "transfer")
  /\ UNCHANGED <<disk, channel, dev, req, secs_done, buf, history>>

\* The sectors a transfer moves: sec_cnt is a byte, and 0 stands for all.
Moved(t) == IF SecsOp(t) % MaxOp = 0 THEN MaxOp ELSE SecsOp(t) % MaxOp

\* The device gives the sectors of its command, and nothing behind them.  Each but the
\* first interrupts again.
ReadFromSector(t) ==
  /\ At(t, "transfer") /\ req[t].op = "read"
  /\ buf' = [buf EXCEPT ![t] = @ \o [i \in 1..Moved(t) |->
                IF i <= Count THEN disk[dev.hd][dev.lba + i - 1] ELSE NULL]]
  /\ dev' = [dev EXCEPT !.state = IF Moved(t) >= Count THEN "idle" ELSE @,
                        !.irq = IF Count = 1 THEN @ ELSE "own"]
  /\ Advance(t)
  /\ UNCHANGED <<disk, channel, panic, req, time_limit, history>>

\* A single sector is stored in time, and several are while they are transferred: each of
\* them interrupts, and the handler may run before the last of them does.
Write2Sector(t) ==
  /\ At(t, "transfer") /\ req[t].op = "write"
  /\ disk' = [disk EXCEPT ![dev.hd] = [i \in DOMAIN @ |->
                IF i \in dev.lba..(dev.lba + Moved(t) - 1) /\ i < dev.lba + Count
                THEN req[t].data ELSE @[i]]]
  /\ dev' = IF Moved(t) < Count THEN dev
            ELSE IF Count = 1 THEN [dev EXCEPT !.state = "storing"]
            ELSE [dev EXCEPT !.state = "idle", !.irq = "own"]
  /\ \/ UNCHANGED <<expecting_intr, disk_done>>
     \/ Count > 1 /\ expecting_intr /\ expecting_intr' = FALSE /\ disk_done' = disk_done + 1
  /\ Goto(t, "down")
  /\ UNCHANGED <<locks, panic, req, secs_done, time_limit, buf, history>>

Return(t) ==
  /\ At(t, "return")
  /\ Lock!GiveBack(t, "channel")
  /\ Goto(t, "out")
  /\ req' = [req EXCEPT ![t] = NoRequest]
  /\ secs_done' = [secs_done EXCEPT ![t] = 0]
  /\ time_limit' = [time_limit EXCEPT ![t] = 0]
  /\ buf' = [buf EXCEPT ![t] = <<>>]
  /\ UNCHANGED <<disk, expecting_intr, disk_done, panic, dev, history>>

Step(t) ==
  \/ SelectSector(t) \/ CmdExpect(t) \/ CmdOut(t) \/ SemaDown(t) \/ BusyWait(t)
  \/ ReadFromSector(t) \/ Write2Sector(t) \/ Return(t)

Device == DeviceRead \/ DeviceAccept \/ DeviceStored

Next ==
  \/ \E t \in Threads : Step(t) \/ \E r \in Requests : Begin(t, r)
  \/ Device
  \/ intr_hd_handler

Spec == Init /\ [][Next]_vars

\* The devices finish what they begin, interrupts arrive, and threads go on.
Fairness == WF_vars(Device) /\ WF_vars(intr_hd_handler) /\ \A t \in Threads : WF_vars(Step(t))

FairSpec == Spec /\ Fairness

-----------------------------------------------------------------------------
(* What every step preserves.                                              *)

\* The labels in a round of the loop over the commands of a call.
Round == {"select", "expect", "command", "down", "poll", "transfer"}

DeviceType ==
  [state : {"idle", "reading", "read_ready", "writing", "write_ready", "storing"},
   irq : {"none", "own", "late"}, hd : Disks, lba : Nat, count : Nat]

\* The ASSERT of sema_up does not fail: the kernel stops only in busy_wait.
TypeOK ==
  /\ disk \in [Disks -> [0..(Sectors - 1) -> Values]]
  /\ owner \in [{"channel"} -> Threads \union {NULL}] /\ nesting \in [{"channel"} -> {0, 1}]
  /\ expecting_intr \in BOOLEAN /\ disk_done \in {0, 1} /\ panic \in {"none", "timeout"}
  /\ dev \in DeviceType
  /\ pc \in [Threads -> Round \union {"out", "return"}] /\ req \in [Threads -> Requests]
  /\ secs_done \in [Threads -> Nat] /\ time_limit \in [Threads -> Int]
  /\ DOMAIN buf = Threads /\ mistaken \in BOOLEAN /\ overrun \in BOOLEAN

\* Who is in a call has the channel.
OwnerInv ==
  /\ \A t \in Threads : pc[t] # "out" <=> owner["channel"] = t
  /\ nesting["channel"] = IF owner["channel"] = NULL THEN 0 ELSE 1

\* How far the call of t is, and what the registers of the device say.
RoundAt(t) ==
  /\ pc[t] = "out" => secs_done[t] = 0
  /\ pc[t] \in Round => secs_done[t] < req[t].cnt
  /\ pc[t] = "return" => secs_done[t] = req[t].cnt
  /\ pc[t] \in Round \ {"select"} /\ ~overrun =>
       /\ dev.hd = req[t].hd /\ dev.lba = req[t].lba + secs_done[t]
       /\ dev.count = SecsOp(t) % MaxOp

RoundInv == \A t \in Threads : RoundAt(t)

\* Between two commands no interrupt is expected and none is counted.  A command has one
\* to wait for: it is expected, or counted.
Quiet == ~expecting_intr /\ disk_done = 0
Awaited == IF expecting_intr THEN disk_done = 0 ELSE disk_done = 1

WaitAt(t) ==
  /\ pc[t] \in {"select", "expect", "return"} => Quiet
  /\ pc[t] \in {"command", "down"} => Awaited
  /\ pc[t] \in {"poll", "transfer"} => IF req[t].op = "read" THEN Quiet ELSE Awaited

WaitInv ==
  /\ owner["channel"] = NULL => Quiet
  /\ \A t \in Threads : WaitAt(t)

\* The device is idle, or stores a sector whose interrupt was not waited for.
Rested == dev.state = "idle" \/ (dev.state = "storing" /\ mistaken)

\* The device has not interrupted for this command: what is counted was late.
Unanswered == dev.irq # "own" /\ (disk_done = 1 => mistaken)

DeviceAt(t) ==
  /\ pc[t] \in {"select", "return"} => Rested
  /\ pc[t] \in {"expect", "command"} => dev.state = "idle"
  /\ pc[t] = "command" => Unanswered
  /\ pc[t] \in {"down", "poll", "transfer"} /\ req[t].op = "read" =>
       dev.state \in {"reading", "read_ready"}
  /\ pc[t] \in {"poll", "transfer"} /\ req[t].op = "write" =>
       dev.state \in {"writing", "write_ready"} /\ Unanswered
  /\ pc[t] = "transfer" => dev.state \in {"read_ready", "write_ready"}
  /\ pc[t] = "down" /\ req[t].op = "write" =>
       dev.state = "idle" \/ (dev.state = "storing" /\ Unanswered)

DeviceInv ==
  IF overrun THEN mistaken
  ELSE (owner["channel"] = NULL => Rested) /\ \A t \in Threads : DeviceAt(t)

\* The sectors of the call that are done; those of a write are stored at "down".
Done(t) == secs_done[t] + (IF pc[t] = "down" /\ req[t].op = "write" THEN SecsOp(t) ELSE 0)

\* What is read and written so far.
DataAt(t) ==
  IF pc[t] = "out" THEN buf[t] = <<>>
  ELSE IF overrun THEN TRUE
  ELSE IF req[t].op = "read"
  THEN buf[t] = [i \in 1..secs_done[t] |-> disk[req[t].hd][req[t].lba + i - 1]]
  ELSE \A i \in req[t].lba..(req[t].lba + Done(t) - 1) : disk[req[t].hd][i] = req[t].data

DataInv == \A t \in Threads : DataAt(t)

\* The inductive invariant.
IInv == TypeOK /\ OwnerInv /\ RoundInv /\ WaitInv /\ DeviceInv /\ DataInv

-----------------------------------------------------------------------------
(* Properties.                                                             *)

\* Registers and commands reach a device only when it is idle, unless intr_hd_handler took
\* an interrupt that an earlier command had left for that of a later one: then a write
\* can end before its sector is stored.  Even so every command has exactly one interrupt
\* to wait for: it is expected, or disk_done has it.
CommandsDoNotOverlap ==
  /\ overrun => mistaken
  /\ \A t \in Threads :
       pc[t] = "command" => /\ dev.state = "idle" \/ mistaken
                            /\ IF expecting_intr THEN disk_done = 0 ELSE disk_done = 1

\* ide_read returns the sectors it was asked for, in order, and after ide_write
\* they hold the data, however the request is cut into commands and whichever interrupts
\* are late, unless registers were written while a device was at work.
TransfersExact ==
  \A t \in Threads :
    pc[t] = "return" /\ ~overrun =>
      IF req[t].op = "read"
      THEN buf[t] = [i \in 1..req[t].cnt |-> disk[req[t].hd][req[t].lba + i - 1]]
      ELSE \A i \in req[t].lba..(req[t].lba + req[t].cnt - 1) : disk[req[t].hd][i] = req[t].data

\* A step changes only sectors of the write request whose thread has the channel, again
\* unless registers were written while a device was at work.
WritesOnlyRequested ==
  [][\A d \in Disks : \A i \in 0..(Sectors - 1) :
       disk'[d][i] # disk[d][i] /\ ~overrun =>
         \E t \in Threads : /\ owner["channel"] = t /\ req[t].op = "write" /\ req[t].hd = d
                            /\ i \in req[t].lba..(req[t].lba + req[t].cnt - 1)]_vars

\* Every call ends, or the kernel stops because a device was too slow.
CallsReturn ==
  \A t \in Threads : pc[t] # "out" ~> pc[t] = "out" \/ panic = "timeout"
=============================================================================
