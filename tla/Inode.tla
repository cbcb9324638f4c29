-------------------------------- MODULE Inode --------------------------------
(***************************************************************************)
(* The open inodes of the mounted partition (fs/inode.c): inode_open,      *)
(* inode_close, inode_sync and inode_init, called by tasks that lose the   *)
(* processor wherever interrupts are on.  No lock is taken around the list *)
(* or around the inode table.                                              *)
(*                                                                         *)
(* A task has at most one inode open.  What a file is, is a number that    *)
(* grows with every change.  The inode table is a row of cells: an inode   *)
(* takes InodeCells of them and may lie in two sectors, as with 76 and 512 *)
(* bytes.  ide_read and ide_write are atomic (module Ide).                 *)
(***************************************************************************)
EXTENDS Integers, Sequences, FiniteSets, Functions

CONSTANTS
  Tasks,
  Inodes,         \* the files there are at first, and those to be created
  Existing,
  Copies,         \* addresses sys_malloc may return for an inode
  InodeCells, SectorCells,
  Wrap,           \* what a uint8_t holds: 256
  MaxChange,      \* bound: changes and creations of files
  NONE

ASSUME InodeAssumption ==
  /\ IsFiniteSet(Tasks) /\ MaxChange \in Nat
  /\ 0 \in Existing /\ Existing \subseteq Inodes /\ Inodes \subseteq Nat
  /\ {InodeCells, SectorCells, Wrap} \subseteq Nat \ {0} /\ InodeCells <= SectorCells

\* NONE is the tail of the list, and what is at an address whose block is free.
ASSUME NoneAssumption ==
  NONE \notin Copies /\ NONE \notin [i_no : Nat, data : Nat, i_open_cnts : Int]

VARIABLES
  open_inodes,    \* the list, as a sequence of copies
  copy,           \* copy[a]: the inode at address a, NONE if the block is free
  after,          \* after[a]: the successor the last copy at a had when it was removed
  table,          \* the cells of the inode table on the disk
  task,           \* task[t]: where t is in a call, and its local variables
  changes,
  saved,          \* history: what the last inode_sync of an inode was given
  lost,           \* history: copies of which a change of i_open_cnts was lost
  twice,          \* history: inodes pushed while another task looked for them
  misread,        \* history: copies inode_open has read in the place of another inode
  overwritten     \* history: inodes whose place a sync of another one has written

memory == <<open_inodes, copy, after>>
history == <<saved, lost, twice, misread, overwritten>>
vars == <<memory, table, task, changes, history>>

-----------------------------------------------------------------------------
(* Where an inode is.                                                      *)

CellsOf(i) == (i * InodeCells) .. (i * InodeCells + InodeCells - 1)

\* Mutant: an inode lies in one sector.
SectorsOf_one(i) == {(i * InodeCells) \div SectorCells}

\* The one or two sectors inode_locate finds.
SectorsOf(i) ==
  LET off_size == i * InodeCells
      two_sec == SectorCells - (off_size % SectorCells) < InodeCells
  IN  {off_size \div SectorCells} \union (IF two_sec THEN {off_size \div SectorCells + 1} ELSE {})

CellsIn(sectors) == {c \in DOMAIN table : c \div SectorCells \in sectors}

-----------------------------------------------------------------------------
(* The tasks.                                                              *)

Idle == [pc |-> "idle"]

\* t has used a block that is free, or has linked the list through an element that is not
\* in it.  What comes of that is not followed further.
Astray == [pc |-> "astray"]

At(t, pc) == task[t].pc = pc
Go(t, s) == task' = [task EXCEPT ![t] = s]
GoTo(t, pc) == Go(t, [task[t] EXCEPT !.pc = pc])

Record(i, v) == [i_no |-> i, data |-> v]

\* An inode that was never written has the number 0 in the table.
Init ==
  /\ open_inodes = <<>> /\ copy = [a \in Copies |-> NONE] /\ after = [a \in Copies |-> NONE]
  /\ table = [c \in UNION {CellsOf(i) : i \in Inodes} |->
                LET i == c \div InodeCells IN Record(IF i \in Existing THEN i ELSE 0, 0)]
  /\ task = [t \in Tasks |-> Idle] /\ changes = 0
  /\ saved = [i \in Existing |-> 0] /\ lost = {} /\ twice = {} /\ misread = {} /\ overwritten = {}

IndexOf(s, a) == CHOOSE k \in DOMAIN s : s[k] = a

\* The copy behind a, as the next pointer of a says.
NextOf(a) ==
  IF a \notin Range(open_inodes) THEN after[a]
  ELSE LET k == IndexOf(open_inodes, a)
       IN  IF k = Len(open_inodes) THEN NONE ELSE open_inodes[k + 1]

\* list_insert_before and list_remove, for elements of the list; NONE is the tail.
InsertBefore(s, before, a) ==
  LET k == IF before = NONE THEN Len(s) + 1 ELSE IndexOf(s, before)
  IN  SubSeq(s, 1, k - 1) \o <<a>> \o SubSeq(s, k, Len(s))

Removed(s, a) ==
  LET k == IndexOf(s, a) IN SubSeq(s, 1, k - 1) \o SubSeq(s, k + 1, Len(s))

-----------------------------------------------------------------------------
(* inode_open.                                                             *)

InOpen(t) == task[t].pc \in {"walk", "found", "store"}

\* Mutant: the walk begins behind the first element.
Open_behind(t, i) ==
  /\ At(t, "idle") /\ i \in DOMAIN saved
  /\ Go(t, [pc |-> "walk", no |-> i, freed |-> {}, n |-> 0,
            elem |-> IF open_inodes = <<>> THEN NONE ELSE NextOf(Head(open_inodes))])
  /\ UNCHANGED <<memory, table, changes, history>>

\* The call, for an inode that is on the disk.  freed collects what is freed during it.
Open(t, i) ==
  /\ At(t, "idle") /\ i \in DOMAIN saved
  /\ Go(t, [pc |-> "walk", no |-> i, freed |-> {}, n |-> 0,
            elem |-> IF open_inodes = <<>> THEN NONE ELSE Head(open_inodes)])
  /\ UNCHANGED <<memory, table, changes, history>>

\* An element is compared, and the walk ends or goes on.
Walk(t) ==
  /\ At(t, "walk") /\ task[t].elem # NONE
  /\ LET a == task[t].elem
     IN  IF a \in task[t].freed THEN Go(t, Astray)
         ELSE IF copy[a].i_no = task[t].no THEN GoTo(t, "found")
         ELSE Go(t, [task[t] EXCEPT !.elem = NextOf(a)])
  /\ UNCHANGED <<memory, table, changes, history>>

\* i_open_cnts++ loads the count,
Load(t) ==
  /\ At(t, "found")
  /\ IF task[t].elem \in task[t].freed THEN Go(t, Astray)
     ELSE Go(t, [task[t] EXCEPT !.pc = "store", !.n = copy[task[t].elem].i_open_cnts])
  /\ UNCHANGED <<memory, table, changes, history>>

Held(t, a) == [pc |-> "held", no |-> task[t].no, elem |-> a]

\* The tasks that have the copy at a open.
Holders(a) == {t \in Tasks : task[t].pc \in {"held", "sync_read", "sync_write"} /\ task[t].elem = a}

\* Mutant: an inode found in the list is not counted.
Store_uncounted(t) ==
  /\ At(t, "store")
  /\ Go(t, Held(t, task[t].elem))
  /\ UNCHANGED <<memory, table, changes, history>>

\* and stores it; inode_open returns the copy it has found.
Store(t) ==
  /\ At(t, "store")
  /\ LET a == task[t].elem
         raced == \/ copy[a].i_open_cnts # task[t].n \/ a \notin Range(open_inodes)
                  \/ \E u \in Tasks : At(u, "count") /\ task[u].elem = a
     IN  IF a \in task[t].freed
         THEN Go(t, Astray) /\ UNCHANGED <<copy, lost>>
         ELSE /\ copy' = [copy EXCEPT ![a].i_open_cnts = task[t].n + 1]
              /\ lost' = IF raced THEN lost \union {a} ELSE lost
              /\ Go(t, Held(t, a))
  /\ UNCHANGED <<open_inodes, after, table, changes, saved, twice, misread, overwritten>>

\* The inode is not in the list.
Miss(t) ==
  /\ At(t, "walk") /\ task[t].elem = NONE
  /\ GoTo(t, "read")
  /\ UNCHANGED <<memory, table, changes, history>>

\* The copy is allocated and read from the disk.  A block that may be freed once more
\* is not taken again: what happens with it is not followed.
Read(t) ==
  /\ At(t, "read")
  /\ \E a \in Copies :
       /\ copy[a] = NONE /\ a \notin lost
       /\ LET r == table[task[t].no * InodeCells]
          IN  /\ copy' = [copy EXCEPT ![a] = [i_no |-> r.i_no, data |-> r.data, i_open_cnts |-> 0]]
              /\ misread' = IF r.i_no = task[t].no THEN misread \ {a} ELSE misread \union {a}
       /\ Go(t, [task[t] EXCEPT !.pc = "push", !.elem = a])
  /\ UNCHANGED <<open_inodes, after, table, changes, saved, lost, twice, overwritten>>

\* list_push finds the first element with interrupts on,
Push(t) ==
  /\ At(t, "push")
  /\ Go(t, [pc |-> "insert", no |-> task[t].no, elem |-> task[t].elem,
            before |-> IF open_inodes = <<>> THEN NONE ELSE Head(open_inodes)])
  /\ UNCHANGED <<memory, table, changes, history>>

\* The tasks that are in inode_open for an inode that is not in the list, as far as they know.
Opening(i) == {t \in Tasks : task[t].pc \in {"walk", "read", "push", "insert"} /\ task[t].no = i}

\* and list_insert_before puts the copy in front of that one, wherever it is by then.
Insert(t) ==
  /\ At(t, "insert")
  /\ IF task[t].before \in Range(open_inodes) \union {NONE}
     THEN /\ open_inodes' = InsertBefore(open_inodes, task[t].before, task[t].elem)
          /\ twice' = IF Opening(task[t].no) = {t} THEN twice ELSE twice \union {task[t].no}
          /\ Go(t, [pc |-> "count", no |-> task[t].no, elem |-> task[t].elem])
     ELSE Go(t, Astray) /\ UNCHANGED <<open_inodes, twice>>
  /\ UNCHANGED <<copy, after, table, changes, saved, lost, misread, overwritten>>

\* i_open_cnts = 1, behind the push; inode_open returns.
SetCount(t) ==
  /\ At(t, "count")
  /\ LET a == task[t].elem
     IN  IF copy[a] = NONE THEN Go(t, Astray) /\ UNCHANGED <<copy, lost>>
         ELSE /\ copy' = [copy EXCEPT ![a].i_open_cnts = 1]
              /\ lost' = IF copy[a].i_open_cnts # 0 \/ Holders(a) # {} THEN lost \union {a} ELSE lost
              /\ Go(t, Held(t, a))
  /\ UNCHANGED <<open_inodes, after, table, changes, saved, twice, misread, overwritten>>

-----------------------------------------------------------------------------
(* inode_close.                                                            *)

\* Mutant: the copy stays in the list.
Close_in_list(t) ==
  /\ At(t, "held") /\ copy[task[t].elem] # NONE
  /\ copy' = [copy EXCEPT ![task[t].elem].i_open_cnts = @ - 1]
  /\ IF copy[task[t].elem].i_open_cnts = 1 THEN GoTo(t, "free") ELSE Go(t, Idle)
  /\ UNCHANGED <<open_inodes, after, table, changes, history>>

\* Interrupts are off; sys_free may have to wait for the lock of the pool.  A copy that
\* another close has taken off the list would be removed and freed a second time.
Close(t) ==
  /\ At(t, "held")
  /\ LET a == task[t].elem
     IN  IF copy[a] = NONE
         THEN Go(t, Astray) /\ UNCHANGED memory
         ELSE /\ copy' = [copy EXCEPT ![a].i_open_cnts = @ - 1]
              /\ IF copy[a].i_open_cnts = 1 /\ a \in Range(open_inodes)
                 THEN /\ GoTo(t, "free")
                      /\ after' = [after EXCEPT ![a] = NextOf(a)]
                      /\ open_inodes' = Removed(open_inodes, a)
                 ELSE /\ Go(t, IF copy[a].i_open_cnts = 1 THEN Astray ELSE Idle)
                      /\ UNCHANGED <<after, open_inodes>>
  /\ UNCHANGED <<table, changes, history>>

\* sys_free; the tasks in inode_open may stand on the block.
Free(t) ==
  /\ At(t, "free")
  /\ LET a == task[t].elem
     IN  /\ copy' = [copy EXCEPT ![a] = NONE] /\ after' = [after EXCEPT ![a] = NONE]
         /\ task' = [u \in Tasks |->
                       IF u = t THEN Idle
                       ELSE IF InOpen(u) THEN [task[u] EXCEPT !.freed = @ \union {a}] ELSE task[u]]
  /\ UNCHANGED <<open_inodes, table, changes, history>>

-----------------------------------------------------------------------------
(* inode_sync.                                                             *)

\* The holder of an inode changes it.
Change(t) ==
  /\ At(t, "held") /\ copy[task[t].elem] # NONE /\ changes < MaxChange
  /\ changes' = changes + 1
  /\ copy' = [copy EXCEPT ![task[t].elem].data = changes + 1]
  /\ UNCHANGED <<open_inodes, after, table, task, history>>

\* The call for r.  The number goes through a uint8_t; undone collects the inodes that
\* others store in the sectors between the read and the write.
Sync(t, r, a) ==
  Go(t, [pc |-> "sync_read", elem |-> a, no |-> r.i_no, record |-> r, place |-> r.i_no % Wrap,
         buf |-> <<>>, undone |-> {}])

\* inode_sync of an open inode, of which pure_inode is a copy.
SyncOpen(t) ==
  /\ At(t, "held") /\ copy[task[t].elem] # NONE
  /\ LET c == copy[task[t].elem] IN Sync(t, Record(c.i_no, c.data), task[t].elem)
  /\ UNCHANGED <<memory, table, changes, history>>

\* inode_init and inode_sync of a new inode, whose number no other task takes.
SyncNew(t, i) ==
  /\ At(t, "idle") /\ i \notin DOMAIN saved /\ changes < MaxChange
  /\ \A u \in Tasks : ~(task[u].pc \in {"sync_read", "sync_write"} /\ task[u].record.i_no = i)
  /\ changes' = changes + 1
  /\ Sync(t, Record(i, changes + 1), NONE)
  /\ UNCHANGED <<memory, table, history>>

SyncRead(t) ==
  /\ At(t, "sync_read")
  /\ Go(t, [task[t] EXCEPT !.pc = "sync_write",
                           !.buf = Restrict(table, CellsIn(SectorsOf(task[t].place)))])
  /\ UNCHANGED <<memory, table, changes, history>>

Shares(u, i) == SectorsOf(task[u].place) \intersect SectorsOf(i) # {}

SyncWrite(t) ==
  /\ At(t, "sync_write")
  /\ LET s == task[t]
     IN  /\ table' = [c \in DOMAIN table |->
                        IF c \in CellsOf(s.place) /\ c \in DOMAIN s.buf THEN s.record
                        ELSE IF c \in DOMAIN s.buf THEN s.buf[c] ELSE table[c]]
         /\ saved' = [i \in DOMAIN saved \union {s.record.i_no} |->
                        IF i = s.record.i_no THEN s.record.data ELSE saved[i]]
         /\ overwritten' = overwritten \union s.undone
                             \union (IF s.place = s.record.i_no THEN {} ELSE {s.place, s.record.i_no})
         /\ task' = [u \in Tasks |->
              IF u = t THEN IF s.elem = NONE THEN Idle ELSE [pc |-> "held", no |-> s.no, elem |-> s.elem]
              ELSE IF At(u, "sync_write") /\ Shares(u, s.place) /\ task[u].place # s.place
                   THEN [task[u] EXCEPT !.undone = @ \union {s.place}] ELSE task[u]]
  /\ UNCHANGED <<memory, changes, lost, twice, misread>>

-----------------------------------------------------------------------------

Step(t) ==
  \/ (\E i \in Inodes : Open(t, i)) \/ Walk(t) \/ Load(t) \/ Store(t)
  \/ Miss(t) \/ Read(t) \/ Push(t) \/ Insert(t) \/ SetCount(t)
  \/ Close(t) \/ Free(t)
  \/ Change(t) \/ SyncOpen(t) \/ (\E i \in Inodes : SyncNew(t, i)) \/ SyncRead(t) \/ SyncWrite(t)

Next == \E t \in Tasks : Step(t)

Spec == Init /\ [][Next]_vars

-----------------------------------------------------------------------------
(* Properties.                                                             *)

\* A task that walks over the list stands on a copy that is in the list, or that is
\* being closed, unless a copy was freed under it: inode_open walks with interrupts
\* on, and pushes and removals of other tasks do not lead it astray.
WalkOnList ==
  \A t \in Tasks : (At(t, "walk") /\ task[t].elem \notin task[t].freed \union {NONE}) =>
    \/ task[t].elem \in Range(open_inodes) /\ copy[task[t].elem] # NONE
    \/ \E u \in Tasks : At(u, "free") /\ task[u].elem = task[t].elem

\* No inode is in the list twice, unless one task has pushed it while another was in
\* inode_open for it, or one of the copies was read in the place of another inode; and
\* that does not happen before an inode_sync has written the place of another inode.
OneCopy ==
  /\ \A a, b \in Range(open_inodes) \ misread :
       (copy[a].i_no = copy[b].i_no /\ copy[a].i_no \notin twice) => a = b
  /\ overwritten = {} => misread = {}

\* The count of a copy is the number of tasks that have it open, and those tasks have a
\* copy that is allocated and in the list, unless an update of the count was lost: to
\* another i_open_cnts++ or to a close between load and store, to the count of 1 which
\* inode_open sets behind the push, or to the sys_free of a close.
CountIsHolders ==
  \A a \in Copies \ lost :
    /\ Holders(a) # {} => a \in Range(open_inodes)
    /\ (a \in Range(open_inodes) /\ \A t \in Tasks : ~(At(t, "count") /\ task[t].elem = a)) =>
         copy[a].i_open_cnts = Cardinality(Holders(a))

\* The inode table has what the last inode_sync of an inode was given, in every sector
\* it lies in, unless a sync of an inode in the same sector was between its read and
\* its write, or the number of one of the two does not fit uint8_t.
SyncKept ==
  \A i \in DOMAIN saved \ overwritten : \A c \in CellsOf(i) : table[c] = Record(i, saved[i])

-----------------------------------------------------------------------------
(* What every step preserves; module InodeProofs.                          *)

CopyRecord == [i_no : Inodes, data : Nat, i_open_cnts : Int]
DiskRecord == [i_no : Inodes, data : Nat]

Looking == [pc : {"walk", "found", "store", "read", "push"}, no : Inodes,
            freed : SUBSET Copies, n : Int, elem : Copies \union {NONE}]
Inserting == [pc : {"insert"}, no : Inodes, elem : Copies, before : Copies \union {NONE}]
Having == [pc : {"count", "held", "free"}, no : Inodes, elem : Copies]

\* The same for a task in inode_sync, whose buffer has some cells of the table.
Syncing(s) ==
  /\ DOMAIN s = {"pc", "elem", "no", "record", "place", "buf", "undone"}
  /\ s.pc \in {"sync_read", "sync_write"} /\ s.elem \in Copies \union {NONE} /\ s.no \in Inodes
  /\ s.record \in DiskRecord /\ s.place \in Nat
  /\ \A c \in DOMAIN s.buf : s.buf[c] \in DiskRecord

\* A task has the local variables of the call it is in.
TaskType ==
  /\ DOMAIN task = Tasks
  /\ \A t \in Tasks : \/ task[t] \in {Idle, Astray} \union Looking \union Inserting \union Having
                      \/ Syncing(task[t])
  /\ \A t \in Tasks : task[t].pc \in {"found", "store", "push"} => task[t].elem \in Copies

\* The types of the variables.
TypeOK ==
  /\ open_inodes \in Seq(Copies)
  /\ copy \in [Copies -> CopyRecord \union {NONE}]
  /\ after \in [Copies -> Copies \union {NONE}]
  /\ table \in [UNION {CellsOf(i) : i \in Inodes} -> DiskRecord]
  /\ TaskType
  /\ changes \in Nat
  /\ DOMAIN saved \subseteq Inodes /\ saved \in [DOMAIN saved -> Nat]
  /\ lost \subseteq Copies /\ misread \subseteq Copies

\* The tasks between the allocation of a copy and its insertion, and behind its removal.
Outside == {t \in Tasks : task[t].pc \in {"push", "insert", "free"}}

\* A block is free, in the list, or in the hands of one task that inserts or frees it.
BlockInv ==
  /\ IsInjective(open_inodes)
  /\ \A a \in Range(open_inodes) : copy[a] # NONE
  /\ \A t \in Outside : task[t].elem \notin Range(open_inodes) /\ copy[task[t].elem] # NONE
  /\ \A t, u \in Outside : task[t].elem = task[u].elem => t = u

Counting(a) == {t \in Tasks : At(t, "count") /\ task[t].elem = a}

\* The count of a copy in the list, from its insertion on.
Counted(a) ==
  /\ Holders(a) # {} => a \in Range(open_inodes)
  /\ Counting(a) # {} => a \in Range(open_inodes) /\ copy[a].i_open_cnts = 0 /\ Holders(a) = {}
  /\ (a \in Range(open_inodes) /\ Counting(a) = {}) => copy[a].i_open_cnts = Cardinality(Holders(a))

\* One task inserts a copy and sets its count, which was 0, and none has it open before.
NewInv ==
  /\ \A t \in Outside : At(t, "free") \/ copy[task[t].elem].i_open_cnts = 0
  /\ \A t, u \in Tasks : At(t, "count") /\ task[u].pc \in {"push", "insert", "count"}
                           /\ task[t].elem = task[u].elem => t = u
  /\ \A t, u \in Tasks : task[t].pc \in {"push", "insert"} /\ task[u].pc \in {"held", "sync_read", "sync_write"}
                           => task[t].elem # task[u].elem

CountInv == \A a \in Copies \ lost : Counted(a)

\* a comes in front of b in s, or is b.
UpTo(s, a, b) == \E i, j \in DOMAIN s : i <= j /\ s[i] = a /\ s[j] = b

Closing(a) == \E t \in Tasks : At(t, "free") /\ task[t].elem = a

\* The copies of inode i a task in inode_open for i should find.
Copy(i) == {a \in Range(open_inodes) \ misread : copy[a].i_no = i}

\* S has the elements t may still come to: an element of the list that is being closed
\* leads where it led when it was removed.  All copies of what t looks for lie ahead.
Path(t, S) ==
  /\ task[t].elem \in S
  /\ \A x \in S : \/ x \in {NONE} \union task[t].freed \union Range(open_inodes)
                  \/ Closing(x) /\ after[x] \in S
  /\ task[t].no \notin twice =>
       \A b \in Copy(task[t].no) :
         /\ NONE \notin S
         /\ \A x \in (S \intersect Range(open_inodes)) \ task[t].freed : UpTo(open_inodes, x, b)

\* Where a task is that looks for an inode, and what it knows when it has not found it.
Knows(t) ==
  /\ At(t, "walk") => \E S \in SUBSET (Copies \union {NONE}) : Path(t, S)
  /\ task[t].pc \in {"found", "store"} =>
       task[t].elem \in task[t].freed \union Range(open_inodes) \/ Closing(task[t].elem)
  /\ task[t].pc \in {"read", "push", "insert"} => task[t].no \in twice \/ Copy(task[t].no) = {}
  /\ task[t].pc \in {"push", "insert"} =>
       task[t].elem \in misread \/ copy[task[t].elem].i_no = task[t].no

WalkInv == \A t \in Tasks : Knows(t)

\* What a task has read of the sectors is what is there, but for the inode it writes and
\* for those that others have written since.
SyncInv ==
  /\ \A t \in Tasks : task[t].pc \in {"walk", "read"} => task[t].no \in DOMAIN saved
  /\ \A t \in Tasks : At(t, "sync_write") =>
       /\ DOMAIN task[t].buf = CellsIn(SectorsOf(task[t].place))
       /\ \A i \in (DOMAIN saved \ overwritten) \ (task[t].undone \union {task[t].place}) :
            \A c \in CellsOf(i) \intersect DOMAIN task[t].buf : task[t].buf[c] = table[c]

IInv == TypeOK /\ BlockInv /\ NewInv /\ CountInv /\ WalkInv /\ OneCopy /\ SyncInv /\ SyncKept
=============================================================================
