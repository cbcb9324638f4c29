------------------------------- MODULE Format --------------------------------
(***************************************************************************)
(* filesys_init (fs/fs.c) after ide_init: the search for file systems,     *)
(* partition_format with its five writes, mount_partition, and the power   *)
(* going at any time, inside a write of several sectors too, followed by a *)
(* new boot from the same disk.                                            *)
(*                                                                         *)
(* Sectors keep their addresses and hold what format puts there; the bits  *)
(* of the bitmaps are sets.  The constants stand for 608 sectors of inode  *)
(* table, 4096 bits of a sector and 8 bits of a byte.                      *)
(***************************************************************************)
EXTENDS Partition

CONSTANTS
  inode_table_sects,
  BITS_PER_SECTOR,
  BITS_PER_BYTE,
  MaxCrashes,      \* how often the power goes
  NONE             \* no partition is mounted

ASSUME FormatAssumption ==
  /\ inode_table_sects \in Nat \ {0} /\ BITS_PER_BYTE \in Nat \ {0}
  /\ BITS_PER_SECTOR % BITS_PER_BYTE = 0 /\ BITS_PER_SECTOR > 3 + inode_table_sects
  /\ MaxCrashes \in Nat

VARIABLES
  part_idx,        \* the loop variable of filesys_init
  writes,          \* the writes partition_format has done
  cur_part,        \* what mount_partition has read
  crashes,
  torn             \* the partitions whose format an earlier boot has left undone, the
                   \* super block written

fs == <<part_idx, writes, cur_part>>
faults == <<crashes, torn>>
allvars == <<vars, fs, faults>>

-----------------------------------------------------------------------------
(* What partition_format computes.                                         *)

DIV_ROUND_UP(a, b) == (a + b - 1) \div b

used_sects == 1 + 1 + 1 + inode_table_sects

\* free_sects is unsigned, and wraps for a partition smaller than its tables.  Both
\* roundings, which add BITS_PER_SECTOR - 1, wrap it back to a bitmap of 0 sectors, as
\* they do in the integers here.
Underflows(part) == part.sec_cnt < used_sects

free_sects(part) == part.sec_cnt - used_sects

block_bitmap_bit_len(part) == free_sects(part) - DIV_ROUND_UP(free_sects(part), BITS_PER_SECTOR)

block_bitmap_sects(part) == DIV_ROUND_UP(block_bitmap_bit_len(part), BITS_PER_SECTOR)

\* The super block.  data_start_lba leaves the room of two inode tables.
Super(part) ==
  LET bb == part.start_lba + 2
      ib == bb + block_bitmap_sects(part)
  IN  [block_bitmap_lba |-> bb, block_bitmap_sects |-> block_bitmap_sects(part),
       inode_bitmap_lba |-> ib, inode_table_lba |-> ib + 1,
       data_start_lba |-> ib + 1 + inode_table_sects + inode_table_sects]

\* The bits of the block bitmap that are set: bit 0 for the root directory, the bytes
\* from the last one on, less the bits of that byte that stand for blocks.
BlockBits(part) ==
  LET last_byte == block_bitmap_bit_len(part) \div BITS_PER_BYTE
      last_bit == block_bitmap_bit_len(part) % BITS_PER_BYTE
      first == last_byte * BITS_PER_BYTE
      end == block_bitmap_sects(part) * BITS_PER_SECTOR
  IN  (({0} \union (first .. (end - 1))) \ (first .. (first + last_bit - 1))) \intersect (0 .. (end - 1))

SectorOf(bits, k) == {b \in bits : b \div BITS_PER_SECTOR = k}

Write(lba, content) == [lba |-> lba, content |-> content]

\* Mutant: the inode bitmap goes where the inode table is.
FormatWrites_misplaced(part) ==
  LET sb == Super(part)
  IN  << Write(part.start_lba + 1, <<[kind |-> "super", sb |-> sb]>>),
         Write(sb.block_bitmap_lba,
               [k \in 1..sb.block_bitmap_sects |->
                  [kind |-> "block_bitmap", bits |-> SectorOf(BlockBits(part), k - 1)]]),
         Write(sb.inode_table_lba, <<[kind |-> "inode_bitmap", bits |-> {0}]>>),
         Write(sb.inode_table_lba,
               [k \in 1..inode_table_sects |->
                  [kind |-> "inode_table", root |-> IF k = 1 THEN sb.data_start_lba ELSE 0]]),
         Write(sb.data_start_lba, <<[kind |-> "directory"]>>) >>

\* The calls of ide_write, in order.
FormatWrites(part) ==
  LET sb == Super(part)
  IN  << Write(part.start_lba + 1, <<[kind |-> "super", sb |-> sb]>>),
         Write(sb.block_bitmap_lba,
               [k \in 1..sb.block_bitmap_sects |->
                  [kind |-> "block_bitmap", bits |-> SectorOf(BlockBits(part), k - 1)]]),
         Write(sb.inode_bitmap_lba, <<[kind |-> "inode_bitmap", bits |-> {0}]>>),
         Write(sb.inode_table_lba,
               [k \in 1..inode_table_sects |->
                  [kind |-> "inode_table", root |-> IF k = 1 THEN sb.data_start_lba ELSE 0]]),
         Write(sb.data_start_lba, <<[kind |-> "directory"]>>) >>

-----------------------------------------------------------------------------
(* The disk.                                                               *)

\* The disk after the first n sectors of a write to the slave of channel c.
Stored(c, w, n) ==
  [s \in {<<c, w.lba + k>> : k \in 0..(n - 1)} |-> w.content[s[2] - w.lba + 1]] @@ disk

\* What ide_read finds in a sector; one never written has no magic.
SectorOn(d, c, lba) == IF <<c, lba>> \in DOMAIN d THEN d[<<c, lba>>] ELSE [kind |-> "blank"]
Sector(c, lba) == SectorOn(disk, c, lba)

\* Mutant: the magic is not looked for.
HasMagic_never(part) == FALSE

HasMagic(part) == Sector(part.channel, part.start_lba + 1).kind = "super"

-----------------------------------------------------------------------------
(* filesys_init.                                                           *)

\* The element of prim_parts or logic_parts the loop is at, as a set: empty if its
\* sec_cnt is 0.
Element ==
  {part \in Range(partition_list) :
     /\ part.channel = channel_no
     /\ part_idx = IF part.kind = "prim" THEN part.no ELSE Slots + part.no}

Searching == pc = "search" /\ ~panic

\* The buffer for super blocks.
StartSearch ==
  /\ pc = "filesys"
  /\ pc' = "search" /\ part_idx' = 0 /\ buffers' = buffers + 1
  /\ UNCHANGED <<hardware, channel_no, dev_no, scan, halt, writes, cur_part, faults>>

\* An element without a partition, or with one that has a file system.
SkipElement ==
  /\ Searching /\ part_idx < Slots + Logics
  /\ \A part \in Element : HasMagic(part)
  /\ part_idx' = part_idx + 1
  /\ UNCHANGED <<hardware, pc, channel_no, dev_no, scan, buffers, halt, writes, cur_part, faults>>

\* The call of partition_format.
StartFormat ==
  /\ Searching /\ part_idx < Slots + Logics
  /\ \E part \in Element : ~HasMagic(part)
  /\ pc' = "format" /\ writes' = 0
  /\ UNCHANGED <<hardware, channel_no, dev_no, scan, buffers, halt, part_idx, cur_part, faults>>

Formatting == pc = "format" /\ ~panic
Formatted == CHOOSE part \in Element : TRUE
NextWrite == FormatWrites(Formatted)[writes + 1]

\* Behind the first write: the memset of the last byte of the bitmap, which is far
\* behind the buffer if free_sects has wrapped, faults.  Or a bitmap of no sectors is
\* written: the ASSERT of ide_write fails.
Fails == writes = 1 /\ (Underflows(Formatted) \/ block_bitmap_sects(Formatted) = 0)

FormatFails ==
  /\ Formatting /\ Fails
  /\ panic' = TRUE
  /\ UNCHANGED <<hardware, pc, channel_no, dev_no, scan, buffers, failed, fs, faults>>

\* The super block is written, and the buffer taken; the other regions.
FormatWrite ==
  /\ Formatting /\ ~Fails /\ writes < 4
  /\ disk' = Stored(channel_no, NextWrite, Len(NextWrite.content))
  /\ writes' = writes + 1
  /\ buffers' = IF writes = 0 THEN buffers + 1 ELSE buffers
  /\ UNCHANGED <<hd_cnt, layout, pc, channel_no, dev_no, scan, halt, part_idx, cur_part, faults>>

\* Mutant: there is no root directory.
FormatDone_rootless ==
  /\ Formatting /\ writes = 4
  /\ writes' = 0 /\ pc' = "search" /\ part_idx' = part_idx + 1 /\ buffers' = buffers - 1
  /\ UNCHANGED <<hardware, channel_no, dev_no, scan, halt, cur_part, faults>>

\* The root directory is written, the buffer freed, and the loop goes on.
FormatDone ==
  /\ Formatting /\ writes = 4
  /\ disk' = Stored(channel_no, NextWrite, 1)
  /\ writes' = 0 /\ pc' = "search" /\ part_idx' = part_idx + 1 /\ buffers' = buffers - 1
  /\ UNCHANGED <<hd_cnt, layout, channel_no, dev_no, scan, halt, cur_part, faults>>

\* The next channel, for which part_idx is not reset, or the end of the search.
NextChannel ==
  /\ Searching /\ part_idx = Slots + Logics
  /\ IF channel_no = 0 THEN channel_no' = 1 /\ UNCHANGED <<pc, buffers>>
     ELSE channel_no' = 0 /\ pc' = "mount" /\ buffers' = buffers - 1
  /\ UNCHANGED <<hardware, dev_no, scan, halt, fs, faults>>

\* The partition named sdb1.
Default == {part \in Range(partition_list) : part.channel = 0 /\ part.kind = "prim" /\ part.no = 0}

\* The bits read from the sectors of a bitmap, clear where nothing was written.
BitsRead(lba, n) ==
  UNION {LET s == Sector(0, lba + k) IN IF s.kind \in {"block_bitmap", "inode_bitmap"} THEN s.bits ELSE {}
           : k \in 0..(n - 1)}

\* What mount_partition leaves in cur_part.
Mounted(part) ==
  LET sb == Sector(0, part.start_lba + 1).sb
  IN  [part |-> part, sb |-> sb,
       block_bitmap |-> BitsRead(sb.block_bitmap_lba, sb.block_bitmap_sects),
       inode_bitmap |-> BitsRead(sb.inode_bitmap_lba, 1)]

\* A bitmap of no sectors cannot be read: the ASSERT of ide_read fails.
Unreadable(part) == block_bitmap_sects(part) = 0

\* list_traversal with mount_partition, the end of filesys_init.  Two super blocks and
\* two bitmaps stay allocated.
mount_partition ==
  /\ pc = "mount" /\ ~panic
  /\ IF Default = {} THEN pc' = "ready" /\ UNCHANGED <<cur_part, buffers, panic>>
     ELSE LET part == CHOOSE d \in Default : TRUE
          IN  IF Unreadable(part) THEN panic' = TRUE /\ UNCHANGED <<pc, cur_part, buffers>>
              ELSE /\ pc' = "ready" /\ cur_part' = Mounted(part) /\ buffers' = buffers + 4
                   /\ UNCHANGED panic
  /\ UNCHANGED <<hardware, channel_no, dev_no, scan, failed, part_idx, writes, faults>>

\* A super block or a bitmap cannot be read, or the disk takes only some sectors.
TransferFails ==
  /\ DiskFails
  /\ \/ Searching /\ part_idx < Slots + Logics /\ Element # {} /\ UNCHANGED disk
     \/ pc = "mount" /\ ~panic /\ Default # {} /\ UNCHANGED disk
     \/ /\ Formatting /\ ~Fails
        /\ \E n \in 0..(Len(NextWrite.content) - 1) : disk' = Stored(channel_no, NextWrite, n)
  /\ UNCHANGED <<hd_cnt, layout, pc, channel_no, dev_no, scan, buffers, fs, faults>>

filesys_init ==
  \/ StartSearch \/ SkipElement \/ StartFormat \/ FormatWrite \/ FormatDone \/ FormatFails
  \/ NextChannel \/ mount_partition \/ TransferFails

-----------------------------------------------------------------------------
(* The power, and the use of the file system.                              *)

\* A file is created in the mounted file system: the inode bitmap is written back.
CreateFile ==
  /\ pc = "ready" /\ cur_part # NONE
  /\ disk' = (<<0, cur_part.sb.inode_bitmap_lba>> :> [kind |-> "inode_bitmap", bits |-> {0, 1}]) @@ disk
  /\ UNCHANGED <<hd_cnt, layout, pc, channel_no, dev_no, scan, buffers, halt, fs, faults>>

\* The power goes, perhaps behind some sectors of a write, and the kernel boots again.
\* What is in memory is lost.
Crash ==
  /\ crashes < MaxCrashes /\ crashes' = crashes + 1
  /\ IF Formatting /\ ~Fails
     THEN \E n \in 0..Len(NextWrite.content) : disk' = Stored(channel_no, NextWrite, n)
     ELSE disk' = disk
  /\ torn' = IF pc = "format" /\ SectorOn(disk', channel_no, Formatted.start_lba + 1).kind = "super"
             THEN torn \union {Formatted} ELSE torn
  /\ pc' = "identify" /\ channel_no' = 0 /\ dev_no' = 0
  /\ stack' = <<>> /\ ext_lba_base' = 0 /\ p_no' = 0 /\ l_no' = 0
  /\ partition_list' = <<>> /\ buffers' = 0 /\ panic' = FALSE /\ failed' = FALSE
  /\ part_idx' = 0 /\ writes' = 0 /\ cur_part' = NONE
  /\ UNCHANGED <<hd_cnt, layout>>

FInit ==
  /\ Init
  /\ part_idx = 0 /\ writes = 0 /\ cur_part = NONE /\ crashes = 0 /\ torn = {}

Boot == (ide_init /\ UNCHANGED <<fs, faults>>) \/ filesys_init

FNext == Boot \/ CreateFile \/ Crash

\* The boot does not stop between two of its steps; nobody has to create a file.
FSpec == FInit /\ [][FNext]_allvars /\ WF_allvars(Boot)

-----------------------------------------------------------------------------
(* Properties.                                                             *)

\* The partitions are large enough: the root directory lies inside.
Roomy == \A part \in PartsOf(0) :
  ~Unreadable(part) /\ Super(part).data_start_lba < part.start_lba + part.sec_cnt

\* If no disk has four primary partitions (the ASSERT fails on the fourth, for which
\* prim_parts still has room), the scan does not stop the kernel unless the disk
\* fails, and after it partition_list has each partition once, in the element of the
\* arrays that names it, with the start it has on the disk, in the first boot and in those
\* that find formatted partitions.  Only one disk is ever scanned: the ext_lba_base it leaves
\* would be taken for the next one's.
PartitionsListed ==
  (Cardinality(SlotsOf(layout, "primary")) < Slots /\ (disk = <<>> \/ Roomy)) =>
    /\ pc = "scan" => panic = failed
    /\ pc \notin {"identify", "scan"} =>
         /\ Range(partition_list) = UNION {PartsOf(c) : c \in 0..(channel_cnt - 1)}
         /\ IsInjective(partition_list)

\* The blocks of sys_malloc that are left when the boot is over: the four of the mounted
\* partition, and the buffer of the partition_scan that has used up logic_parts,
\* whose early return leaves it.
BuffersFreed ==
  pc = "ready" =>
    buffers = (IF cur_part = NONE THEN 0 ELSE 4)
              + (IF \E part \in Range(partition_list) : part.kind = "logic" /\ part.no = Logics - 1
                 THEN 1 ELSE 0)

\* What mount_partition reads is what partition_format computes, the root directory is
\* where the root inode says, and the bitmap has exactly the blocks 1 to bit_len - 1
\* free, whatever crashes there were; unless one has come between the super block and
\* the end of the format of this partition: the magic then stands for a file system
\* that was never written.
MountedIsComplete ==
  (Roomy /\ cur_part # NONE /\ cur_part.part \notin torn) =>
    LET part == cur_part.part
        bits == block_bitmap_sects(part) * BITS_PER_SECTOR
    IN  /\ cur_part.sb = Super(part)
        /\ (0..(bits - 1)) \ cur_part.block_bitmap = 1..(block_bitmap_bit_len(part) - 1)
        /\ 0 \in cur_part.inode_bitmap
        /\ Sector(0, cur_part.sb.inode_table_lba).root = cur_part.sb.data_start_lba
        /\ Sector(0, cur_part.sb.data_start_lba).kind = "directory"

\* What a file system has got since it was formatted is not lost: a file stays in the
\* inode bitmap through every later boot, whose search finds the magic.
FilesKept ==
  [][\A s \in DOMAIN disk :
        (Roomy /\ disk[s] = [kind |-> "inode_bitmap", bits |-> {0, 1}]) => disk'[s] = disk[s]]_allvars

\* The tables of a partition with a magic are all there: in every partition, mounted or
\* not, whatever was formatted before and behind it, in this boot or an earlier one, and
\* wherever the power has gone or a disk has failed; but for a partition whose own format
\* was not done.  If a partition has no room behind two inode tables, for which
\* data_start_lba leaves it, its root directory is written over what follows it.
FormattedIsComplete ==
  Roomy =>
    \A part \in PartsOf(0) :
      \/ ~HasMagic(part) \/ part \in torn \/ (pc = "format" /\ part = Formatted)
      \/ \A w \in Range(FormatWrites(part)) : \A k \in 1..Len(w.content) :
           LET s == Sector(0, w.lba + k - 1)
           IN  s = w.content[k] \/ (s.kind = "inode_bitmap" /\ s.bits = {0, 1})

\* What stops no boot with two disks: at most three primary partitions, and none too
\* small for its bitmap; or it is not the one that is mounted, and an earlier boot, which
\* it has stopped, has left the magic there.
Bootable ==
  /\ Cardinality(SlotsOf(layout, "primary")) < Slots
  /\ \A part \in PartsOf(0) : Unreadable(part) => part \in torn /\ ~(part.kind = "prim" /\ part.no = 0)

\* With the two disks of bochsrc.mac the boot gets to its end, once the power stays,
\* exactly if the layout lets it and no disk fails: no scan, no search and no wait in
\* it goes on for ever.
BootDone ==
  hd_cnt = 2 => <>[]((pc = "ready") <=> (Bootable /\ ~failed))
=============================================================================
