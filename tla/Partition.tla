------------------------------ MODULE Partition ------------------------------
(***************************************************************************)
(* How ide_init finds the disks and their partitions (device/ide.c): the   *)
(* loops over the channels and the disks, with the interrupt each disk has *)
(* to answer identify_disk with, and the recursion of partition_scan,      *)
(* whose activations are the frames of a stack.                            *)
(*                                                                         *)
(* A layout says what is on a slave disk: the slots of its boot sector,    *)
(* how many logical partitions are chained in the extended one, and the    *)
(* sectors of a partition.  An entry of a table is a type, a start and a   *)
(* size, and starts are relative as on a real disk: the start of a logical *)
(* partition to its own table, the start of the next table to the extended *)
(* partition.                                                              *)
(***************************************************************************)
EXTENDS Integers, Sequences, FiniteSets, Functions, TLC

CONSTANTS
  Slots,        \* entries of a partition table, and size of prim_parts: 4
  Logics,       \* size of logic_parts: 8
  MaxPrimaries, \* primary partitions a layout has at most
  MaxChain,     \* logical partitions a layout has at most
  Sizes         \* the sectors a partition can have

ASSUME PartitionAssumption ==
  /\ {Slots, Logics} \subseteq Nat \ {0} /\ Sizes \subseteq Nat \ {0}
  /\ MaxPrimaries \in Nat /\ MaxChain \in Nat

VARIABLES
  hd_cnt,               \* the number of disks the BIOS has counted
  layout,               \* what is on the slave disks, which are alike
  disk,                 \* what the kernel has written: channel and sector to content
  pc,                   \* what the boot does
  channel_no, dev_no,   \* the disk it is at
  stack,                \* the activations of partition_scan, the innermost first
  ext_lba_base,
  p_no, l_no,           \* the elements of prim_parts and logic_parts in use
  partition_list,
  buffers,              \* blocks of sys_malloc that are not freed
  panic,                \* an ASSERT has failed, the kernel hangs in a fault, or a disk fails
  failed                \* ... and it is a disk

hardware == <<hd_cnt, layout, disk>>
scan == <<stack, ext_lba_base, p_no, l_no, partition_list>>
halt == <<panic, failed>>
vars == <<hardware, pc, channel_no, dev_no, scan, buffers, halt>>

-----------------------------------------------------------------------------
(* What is on a disk.                                                      *)

Kinds == {"none", "primary", "extended"}

SlotsOf(l, kind) == {i \in 1..Slots : l.slots[i] = kind}

Layouts ==
  {l \in [slots : [1..Slots -> Kinds], chain : 0..MaxChain, size : Sizes] :
     /\ Cardinality(SlotsOf(l, "primary")) <= MaxPrimaries
     /\ Cardinality(SlotsOf(l, "extended")) <= 1
     /\ SlotsOf(l, "extended") = {} => l.chain = 0}

\* The room of a slot holds a chain: tables and partitions in turn.
SlotStart(l, i) == i * (MaxChain + 1) * (l.size + 1)
TableStart(l, j) == j * (l.size + 1)

ExtStart(l) == SlotStart(l, CHOOSE i \in SlotsOf(l, "extended") : TRUE)

Entry(type, start, cnt) == [type |-> type, start_lba |-> start, sec_cnt |-> cnt]
Empty == Entry("none", 0, 0)

\* The table of the j-th logical partition, from 0.
ChainTable(l, j) ==
  [i \in 1..Slots |->
     CASE i = 1 /\ j < l.chain     -> Entry("primary", 1, l.size)
       [] i = 2 /\ j + 1 < l.chain -> Entry("extended", TableStart(l, j + 1), l.size + 1)
       [] OTHER                    -> Empty]

\* The table ide_read finds at an address.  There is none that the layout does not
\* place, and what the kernel writes reads as an empty one.
TableAt(l, lba) ==
  IF <<channel_no, lba>> \in DOMAIN disk THEN [i \in 1..Slots |-> Empty]
  ELSE IF lba = 0
  THEN [i \in 1..Slots |-> IF l.slots[i] = "none" THEN Empty
                           ELSE Entry(l.slots[i], SlotStart(l, i), l.size)]
  ELSE IF SlotsOf(l, "extended") # {} /\ \E j \in 0..MaxChain : lba = ExtStart(l) + TableStart(l, j)
       THEN ChainTable(l, (lba - ExtStart(l)) \div (l.size + 1))
       ELSE [i \in 1..Slots |-> Empty]

\* Element n of prim_parts or logic_parts of the slave of channel c.
Part(c, kind, n, start, cnt) ==
  [channel |-> c, kind |-> kind, no |-> n, start_lba |-> start, sec_cnt |-> cnt]

\* The partitions a slave disk has, as far as logic_parts has room for them.
PartsOf(c) ==
  {Part(c, "prim", Cardinality({j \in SlotsOf(layout, "primary") : j < i}),
        SlotStart(layout, i), layout.size) : i \in SlotsOf(layout, "primary")}
    \union
  {Part(c, "logic", j, ExtStart(layout) + TableStart(layout, j) + 1, layout.size) :
     j \in {n \in 0..(Logics - 1) : n < layout.chain}}

-----------------------------------------------------------------------------
(* The disks.                                                              *)

\* ide_init has not begun.  hd_cnt, layout and disk are the machine's.
Started ==
  /\ pc = "identify" /\ channel_no = 0 /\ dev_no = 0
  /\ stack = <<>> /\ ext_lba_base = 0 /\ p_no = 0 /\ l_no = 0
  /\ partition_list = <<>> /\ buffers = 0 /\ panic = FALSE /\ failed = FALSE

Init == hd_cnt \in 1..4 /\ layout \in Layouts /\ disk = <<>> /\ Started

channel_cnt == (hd_cnt + 1) \div 2

irq_no(c) == 14 + c

\* Mutant: the interrupts of both channels get through.
OpenIrqs_both == {0, 1, 2, 14, 15}

\* The lines the masks 0xf8 and 0xbf of pic_init leave open.
OpenIrqs == {0, 1, 2, 14}

\* The interrupt that identify_disk waits for comes: there is such a disk, the BIOS
\* having counted from the first one, and its line is open.
Answers == 2 * channel_no + dev_no < hd_cnt /\ irq_no(channel_no) \in OpenIrqs

Frame(lba) == [ext_lba |-> lba, part_idx |-> 0]

\* busy_wait finds no data: the PANIC of identify_disk, ide_read and ide_write.
DiskFails == panic' = TRUE /\ failed' = TRUE

\* identify_disk fails or returns; the first disk of a channel is not scanned.
identify_disk ==
  /\ pc = "identify" /\ ~panic /\ Answers
  /\ \/ DiskFails /\ UNCHANGED <<pc, dev_no, stack, buffers>>
     \/ dev_no = 0 /\ dev_no' = 1 /\ UNCHANGED <<pc, stack, buffers, halt>>
     \/ /\ dev_no = 1
        /\ pc' = "scan" /\ stack' = <<Frame(0)>> /\ buffers' = buffers + 1
        /\ UNCHANGED <<dev_no, halt>>
  /\ UNCHANGED <<hardware, channel_no, ext_lba_base, p_no, l_no, partition_list>>

-----------------------------------------------------------------------------
(* The scan.                                                               *)

Scanning == pc = "scan" /\ stack # <<>> /\ ~panic
Top == stack[1]
InTable == Scanning /\ Top.part_idx < Slots
p == TableAt(layout, Top.ext_lba)[Top.part_idx + 1]

\* The activation that runs has taken its next entry.
Advanced == <<[Top EXCEPT !.part_idx = @ + 1]>> \o Tail(stack)

\* The table cannot be read.
TableFails ==
  /\ Scanning /\ Top.part_idx = 0 /\ DiskFails
  /\ UNCHANGED <<hardware, pc, channel_no, dev_no, scan, buffers>>

\* An extended entry: the call of partition_scan.
ExtendedEntry ==
  /\ InTable /\ p.type = "extended"
  /\ ext_lba_base' = IF ext_lba_base # 0 THEN ext_lba_base ELSE p.start_lba
  /\ stack' = <<Frame(p.start_lba + ext_lba_base)>> \o Advanced
  /\ buffers' = buffers + 1
  /\ UNCHANGED <<hardware, pc, channel_no, dev_no, p_no, l_no, partition_list, halt>>

\* A primary partition, and the ASSERT that follows p_no++.
PrimaryEntry ==
  /\ InTable /\ p.type = "primary" /\ Top.ext_lba = 0
  /\ partition_list' = Append(partition_list, Part(channel_no, "prim", p_no, p.start_lba, p.sec_cnt))
  /\ p_no' = p_no + 1
  /\ panic' = ~(p_no + 1 < Slots)
  /\ stack' = Advanced
  /\ UNCHANGED <<hardware, pc, channel_no, dev_no, ext_lba_base, l_no, buffers, failed>>

\* A logical partition; with the last element of logic_parts the activation returns.
LogicalEntry ==
  /\ InTable /\ p.type = "primary" /\ Top.ext_lba # 0
  /\ partition_list' = Append(partition_list,
                            Part(channel_no, "logic", l_no, Top.ext_lba + p.start_lba, p.sec_cnt))
  /\ l_no' = l_no + 1
  /\ stack' = IF l_no + 1 >= Logics THEN Tail(stack) ELSE Advanced
  /\ UNCHANGED <<hardware, pc, channel_no, dev_no, ext_lba_base, p_no, buffers, halt>>

\* Mutant: an empty entry is looked at again.
EmptyEntry_stays ==
  /\ InTable /\ p.type = "none"
  /\ UNCHANGED vars

EmptyEntry ==
  /\ InTable /\ p.type = "none"
  /\ stack' = Advanced
  /\ UNCHANGED <<hardware, pc, channel_no, dev_no, ext_lba_base, p_no, l_no, partition_list, buffers, halt>>

\* Mutant: the buffer is freed only by the outermost activation.
EndOfTable_keeps ==
  /\ Scanning /\ Top.part_idx = Slots
  /\ stack' = Tail(stack)
  /\ buffers' = IF Top.ext_lba = 0 THEN buffers - 1 ELSE buffers
  /\ UNCHANGED <<hardware, pc, channel_no, dev_no, ext_lba_base, p_no, l_no, partition_list, halt>>

EndOfTable ==
  /\ Scanning /\ Top.part_idx = Slots
  /\ stack' = Tail(stack) /\ buffers' = buffers - 1
  /\ UNCHANGED <<hardware, pc, channel_no, dev_no, ext_lba_base, p_no, l_no, partition_list, halt>>

\* The scan of a disk is done.  p_no and l_no are reset, ext_lba_base is not; after
\* the last channel init_all goes on to filesys_init.
NextDisk ==
  /\ pc = "scan" /\ stack = <<>> /\ ~panic
  /\ p_no' = 0 /\ l_no' = 0 /\ dev_no' = 0
  /\ IF channel_no + 1 < channel_cnt
     THEN pc' = "identify" /\ channel_no' = channel_no + 1
     ELSE pc' = "filesys" /\ channel_no' = 0
  /\ UNCHANGED <<hardware, stack, ext_lba_base, partition_list, buffers, halt>>

partition_scan ==
  TableFails \/ ExtendedEntry \/ PrimaryEntry \/ LogicalEntry \/ EmptyEntry \/ EndOfTable

ide_init == identify_disk \/ partition_scan \/ NextDisk
=============================================================================
