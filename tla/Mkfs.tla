-------------------------------- MODULE Mkfs --------------------------------
(***************************************************************************)
(* usr/mkfs.ext2/mkfs.ext2.c: making an ext2 file system on a partition or *)
(* in a normal file.  compute_layout divides the blocks into groups, and   *)
(* the six functions that format_ext2 calls write the image, each from its *)
(* own copy of the arithmetic.                                             *)
(*                                                                         *)
(* `image` holds the blocks written so far.  A block is what the program   *)
(* puts in it: the super block, a block of group descriptors, a bitmap     *)
(* (the set of its bits), a block of the inode table, a directory.         *)
(*                                                                         *)
(* Sizes are in an arbitrary unit.  SMALL is 1024 bytes, SECTOR 512, INODE *)
(* 128, DENSITY 2048, DESC the size of a descriptor, ENTRY that of a short *)
(* directory entry; MAX16 is 2^16 - 1, W32 and W64 are 2^32 and 2^64.      *)
(***************************************************************************)
EXTENDS Integers, FiniteSets, FiniteSetsExt, Sequences, TLC

CONSTANTS SMALL, SECTOR, INODE, DENSITY, DESC, ENTRY, MAX16, W32, W64,
          LIMIT,        \* EXT2_1024_MAX_SECTOR_COUNT
          Devices       \* sectors of the devices given to the program

VARIABLES sectors,      \* part_sector_cnt
          norm,         \* is_norm: the device is a normal file
          params,       \* g_params
          image,        \* blocks written, by number
          step,         \* the function that runs
          group,        \* its loop variable
          cache         \* group_descs of the file system once mounted

vars == <<sectors, norm, params, image, step, group, cache>>

RESERVED == 11          \* inodes 1 to 11 of group 0
RootIno == 2
LostFoundIno == 11
CeilDiv(a, b) == (a + b - 1) \div b

-----------------------------------------------------------------------------
(* compute_layout                                                          *)

(* get_block_size: 1024, 2048 or 4096, unless the device is too large for  *)
(* it.                                                                     *)
BlockSizes ==
    {bs \in {SMALL, 2 * SMALL, 4 * SMALL} :
        /\ bs = SMALL => sectors <= LIMIT
        /\ bs = 2 * SMALL => sectors <= 2 * LIMIT}

(* For the smallest size the boot block is taken off, and the subtraction  *)
(* wraps.                                                                  *)
FsBlocks(bs) ==
    (((sectors * SECTOR - (IF bs = SMALL THEN SMALL ELSE 0)) % W64) \div bs) % W32

InodesPerGroup(bs) ==
    LET perBlock == bs \div INODE
        target == Max({(bs * 8 * bs) \div DENSITY, perBlock})
    IN  CeilDiv(target, perBlock) * perBlock

Layout(bs) ==
    LET first == IF bs = SMALL THEN 1 ELSE 0
        groups == FsBlocks(bs) \div (bs * 8)
        gdt == CeilDiv(groups * DESC, bs)
        ipg == InodesPerGroup(bs)
        table == ipg \div (bs \div INODE)
    IN  [block_size |-> bs, blocks_per_group |-> bs * 8, inodes_per_group |-> ipg,
         group_count |-> groups, first_data_block |-> first, sb_block |-> first,
         gdt_block |-> first + 1, gdt_blocks |-> gdt, inode_table_blocks |-> table,
         total_blocks |-> groups * bs * 8 + first, total_inodes |-> groups * ipg,
         used_blocks |-> groups * (3 + table + gdt) + 2,
         free_blocks |-> groups * bs * 8 - (groups * (3 + table + gdt) + 2),
         free_inodes |-> (ipg - RESERVED) + (groups - 1) * ipg,
         root_dir_block |-> 0, lostfound_block |-> 0]

(* The early returns of compute_layout.                                    *)
Accepted(l) ==
    /\ l.group_count > 0
    /\ 5 + l.gdt_blocks + l.inode_table_blocks <= l.blocks_per_group
    /\ l.used_blocks <= l.total_blocks

NoParams == [block_size |-> 0]

Init ==
    /\ sectors \in Devices
    /\ norm \in BOOLEAN
    /\ params = NoParams
    /\ image = <<>>
    /\ step = "main"
    /\ group = 0
    /\ cache = <<>>

compute_layout ==
    /\ step = "main"
    /\ \/ /\ sectors > 2 * LIMIT
          /\ step' = "failed"
          /\ UNCHANGED params
       \/ /\ sectors <= 2 * LIMIT
          /\ \E bs \in BlockSizes :
                /\ params' = Layout(bs)
                /\ step' = IF Accepted(Layout(bs)) THEN "super" ELSE "failed"
    /\ UNCHANGED <<sectors, norm, image, group, cache>>

-----------------------------------------------------------------------------
(* Writing.  A write behind the end of a partition is short; one behind    *)
(* the end of a normal file extends it.  Any write may fail, and the       *)
(* program then stops.                                                     *)

rw_one_block == params.block_size \div (IF norm THEN 1 ELSE SECTOR)

AllGroups == 0 .. params.group_count - 1

GroupStart(g) == g * params.blocks_per_group + params.first_data_block

Written(blocks) ==
    /\ norm \/ \A b \in DOMAIN blocks : (b + 1) * params.block_size <= sectors * SECTOR
    /\ image' = blocks @@ image

Fail ==
    /\ step \in {"super", "descriptors", "block bitmaps", "inode bitmaps", "inode tables",
                "directories"}
    /\ step' = "failed"
    /\ UNCHANGED <<sectors, norm, params, image, group, cache>>

(* The loop over the groups goes on, or the next function runs.            *)
Advance(last, next) ==
    /\ group' = IF group = last THEN 0 ELSE group + 1
    /\ step' = IF group = last THEN next ELSE step
    /\ UNCHANGED <<sectors, norm, cache>>

(* The super block goes to block 1 whatever the size of a block is.        *)
write_superblock ==
    /\ step = "super"
    /\ Written(1 :> [kind |-> "super", params |-> params])
    /\ Advance(0, "descriptors")
    /\ UNCHANGED params

Capped(n) == IF n > MAX16 THEN MAX16 ELSE n

Descriptor(g) ==
    LET bitmap == (IF g = 0 THEN params.sb_block ELSE GroupStart(g)) + 1 + params.gdt_blocks
        used == params.gdt_blocks + 3 + params.inode_table_blocks + (IF g = 0 THEN 2 ELSE 0)
    IN  [block_bitmap |-> bitmap, inode_bitmap |-> bitmap + 1, inode_table |-> bitmap + 2,
         free_blocks |-> Capped(params.blocks_per_group - used),
         free_inodes |-> Capped(params.inodes_per_group - (IF g = 0 THEN RESERVED ELSE 0)),
         used_dirs |-> IF g = 0 THEN 2 ELSE 0]

DescriptorsPerBlock == params.block_size \div DESC

(* Only the first block of the descriptors is written.                     *)
write_group_descriptors ==
    /\ step = "descriptors"
    /\ Written(params.gdt_block :>
            [kind |-> "descriptors",
             of |-> [g \in {x \in AllGroups : x < DescriptorsPerBlock} |-> Descriptor(g)]])
    /\ params' = [params EXCEPT
            !.root_dir_block = params.sb_block + 3 + params.gdt_blocks + params.inode_table_blocks,
            !.lostfound_block = params.sb_block + 4 + params.gdt_blocks + params.inode_table_blocks]
    /\ Advance(0, "block bitmaps")

BlockBits(g) ==
    {r \in 0 .. params.gdt_blocks + 2 + params.inode_table_blocks + (IF g = 0 THEN 2 ELSE 0) :
        r < params.blocks_per_group}

init_block_bitmap ==
    /\ step = "block bitmaps"
    /\ Written(GroupStart(group) + 1 + params.gdt_blocks :>
            [kind |-> "bits", set |-> BlockBits(group)])
    /\ Advance(params.group_count - 1, "inode bitmaps")
    /\ UNCHANGED params

(* The bytes behind the last inode are all ones.                           *)
InodeBits(g) ==
    (IF g = 0 THEN 0 .. RESERVED - 1 ELSE {}) \cup
    (8 * CeilDiv(params.inodes_per_group, 8) .. 8 * params.block_size - 1)

init_inode_bitmap ==
    /\ step = "inode bitmaps"
    /\ Written((IF group = 0 THEN params.sb_block + 1 + params.gdt_blocks + 1
                ELSE GroupStart(group) + 2 + params.gdt_blocks) :>
            [kind |-> "bits", set |-> InodeBits(group)])
    /\ Advance(params.group_count - 1, "inode tables")
    /\ UNCHANGED params

(* Mutant: the groups after the first have their table one block too low.  *)
TableStart_Low(g) ==
    IF g = 0 THEN params.sb_block + 1 + params.gdt_blocks + 2
    ELSE GroupStart(g) + 2 + params.gdt_blocks

TableStart(g) ==
    IF g = 0 THEN params.sb_block + 1 + params.gdt_blocks + 2
    ELSE GroupStart(g) + 3 + params.gdt_blocks

init_inode_tables ==
    /\ step = "inode tables"
    /\ Written([b \in TableStart(group) .. TableStart(group) + params.inode_table_blocks - 1 |->
                    [kind |-> "inodes", of |-> <<>>]])
    /\ Advance(params.group_count - 1, "directories")
    /\ UNCHANGED params

-----------------------------------------------------------------------------
(* create_initial_dirs: two blocks of entries, then two inodes, each read, *)
(* filled in and written back with the block of the table that holds it.   *)

Entry(name, ino, rec) == [name |-> name, inode |-> ino, rec_len |-> rec]

Directory(entries) == [kind |-> "directory", entries |-> entries]

LostFound ==
    Directory(<<Entry(".", LostFoundIno, ENTRY),
                Entry("..", RootIno, params.block_size - ENTRY)>>)

Root ==
    Directory(<<Entry(".", RootIno, ENTRY), Entry("..", RootIno, ENTRY),
                Entry("lost+found", LostFoundIno, params.block_size - 2 * ENTRY)>>)

(* The block of the table with this inode filled in.                       *)
Filled(ino, links, data) ==
    LET b == TableStart(0) + ((ino - 1) * INODE) \div params.block_size
        at == (((ino - 1) * INODE) % params.block_size) \div INODE
        inode == [size |-> params.block_size, links |-> links, blocks |-> rw_one_block,
                  block |-> data]
    IN  b :> [image[b] EXCEPT !.of = (at :> inode) @@ @]

create_initial_dirs ==
    /\ step = "directories"
    /\ Written(CASE group = 0 -> params.lostfound_block :> LostFound
                 [] group = 1 -> params.root_dir_block :> Root
                 [] group = 2 -> Filled(RootIno, 3, params.root_dir_block)
                 [] group = 3 -> Filled(LostFoundIno, 2, params.lostfound_block))
    /\ Advance(3, "done")
    /\ UNCHANGED params

-----------------------------------------------------------------------------
(* The kernel mounts the image, on its partition or copied to one:         *)
(* src/fs/ext2.c.  The super block is 1024 bytes from the start.           *)

Holds(b, kind) == b \in DOMAIN image /\ image[b].kind = kind

SuperBlock == SMALL \div params.block_size

(* ext2_load_group_descs rounds up, and the count of the super block has   *)
(* the boot block in it: one group more than there are.                    *)
KernelGroups == 0 .. CeilDiv(params.total_blocks, params.blocks_per_group) - 1

DescBlock(g) == (IF params.block_size = SMALL THEN 2 ELSE 1) + g \div DescriptorsPerBlock

ZeroDesc == [block_bitmap |-> 0, inode_bitmap |-> 0, inode_table |-> 0,
             free_blocks |-> 0, free_inodes |-> 0, used_dirs |-> 0]

DescOnDisk(g) ==
    IF g \in DOMAIN image[DescBlock(g)].of THEN image[DescBlock(g)].of[g] ELSE ZeroDesc

ext2_read_root_inode ==
    /\ step = "done"
    /\ \/ /\ ~Holds(SuperBlock, "super")
          /\ step' = "refused"
          /\ UNCHANGED cache
       \/ /\ Holds(SuperBlock, "super")
          /\ \E g \in KernelGroups : ~Holds(DescBlock(g), "descriptors")
          /\ step' = "misread"
          /\ UNCHANGED cache
       \/ /\ Holds(SuperBlock, "super")
          /\ \A g \in KernelGroups : Holds(DescBlock(g), "descriptors")
          /\ step' = "mounted"
          /\ cache' = [g \in KernelGroups |-> DescOnDisk(g)]
    /\ UNCHANGED <<sectors, norm, params, image, group>>

(* ext2_read_inode, or NoInode when no inode was written there.            *)
NoInode == [size |-> 0, links |-> 0, blocks |-> 0, block |-> 0]

InodeOnDisk(ino) ==
    LET k == (ino - 1) % params.inodes_per_group
        perBlock == params.block_size \div INODE
        b == cache[(ino - 1) \div params.inodes_per_group].inode_table + k \div perBlock
    IN  IF Holds(b, "inodes") /\ k % perBlock \in DOMAIN image[b].of
        THEN image[b].of[k % perBlock] ELSE NoInode

Next ==
    \/ compute_layout
    \/ write_superblock
    \/ write_group_descriptors
    \/ init_block_bitmap
    \/ init_inode_bitmap
    \/ init_inode_tables
    \/ create_initial_dirs
    \/ Fail
    \/ ext2_read_root_inode

Spec == Init /\ [][Next]_vars

-----------------------------------------------------------------------------
TypeOK ==
    /\ sectors \in Devices /\ norm \in BOOLEAN
    /\ step \in {"main", "super", "descriptors", "block bitmaps", "inode bitmaps",
                 "inode tables", "directories", "done", "failed",
                 "refused", "misread", "mounted"}
    /\ group \in Nat
    /\ \A b \in DOMAIN image :
            image[b].kind \in {"super", "descriptors", "bits", "inodes", "directory"}

(* Blocks of a group that the program wrote, or that it keeps for copies   *)
(* of the super block and of the descriptors.                              *)
InUse(g) ==
    {r \in 0 .. params.blocks_per_group - 1 :
        r <= params.gdt_blocks \/ GroupStart(g) + r \in DOMAIN image}

(* Bitmaps, descriptors and the blocks written agree in every group.       *)
GroupsAgree ==
    \A g \in AllGroups :
        LET d == cache[g]
            bits == image[d.block_bitmap].set
            inodes == image[d.inode_bitmap].set
        IN  /\ Holds(d.block_bitmap, "bits") /\ Holds(d.inode_bitmap, "bits")
            /\ bits = InUse(g)
            /\ d.free_blocks = params.blocks_per_group - Cardinality(bits)
            /\ d.free_inodes = 8 * params.block_size - Cardinality(inodes)
            /\ params.inodes_per_group .. 8 * params.block_size - 1 \subseteq inodes
            /\ \A b \in d.inode_table .. d.inode_table + params.inode_table_blocks - 1 :
                    Holds(b, "inodes")

(* The super block has the totals of the groups that the kernel loaded,    *)
(* and every block of the file system is on the device.                    *)
TotalsAgree ==
    LET s == image[SuperBlock].params
    IN  /\ s.free_blocks = MapThenSumSet(LAMBDA g : cache[g].free_blocks, KernelGroups)
        /\ s.free_inodes = MapThenSumSet(LAMBDA g : cache[g].free_inodes, KernelGroups)
        /\ s.total_inodes = s.group_count * s.inodes_per_group
        /\ s.total_blocks * s.block_size <= sectors * SECTOR

(* From the root one reaches the directories that the descriptors count,   *)
(* each with ".", records that fill its block and a link for every entry   *)
(* that names it.                                                          *)
EntriesOf(ino) == image[InodeOnDisk(ino).block].entries

Directories == {RootIno} \cup {EntriesOf(RootIno)[k].inode : k \in DOMAIN EntriesOf(RootIno)}

TreeAgrees ==
    /\ Holds(InodeOnDisk(RootIno).block, "directory")
    /\ \A ino \in Directories :
        LET e == EntriesOf(ino)
            naming == {<<d, k>> \in Directories \X (1 .. 3) :
                            k \in DOMAIN EntriesOf(d) /\ EntriesOf(d)[k].inode = ino}
        IN  /\ Holds(InodeOnDisk(ino).block, "directory")
            /\ e[1] = Entry(".", ino, ENTRY)
            /\ MapThenSumSet(LAMBDA k : e[k].rec_len, DOMAIN e) = params.block_size
            /\ InodeOnDisk(ino).links = Cardinality(naming)
            /\ ino - 1 \in image[cache[0].inode_bitmap].set
            /\ ~norm => InodeOnDisk(ino).blocks * SECTOR = InodeOnDisk(ino).size
    /\ cache[0].used_dirs = Cardinality(Directories)

(* The sizes the program serves: blocks of 1024 bytes, and descriptors     *)
(* that leave room in their first block for the group that is one too      *)
(* many.                                                                   *)
Served == params.block_size = SMALL /\ params.group_count < DescriptorsPerBlock

(* What the six functions of mkfs.ext2 write, each from its own            *)
(* arithmetic, is one file system: the kernel mounts it, and bitmaps,      *)
(* counts, totals, tables and the two directories agree as the kernel      *)
(* reads them, for every size of device that is Served.                    *)
FormatSound ==
    /\ step \in {"refused", "misread"} => ~Served
    /\ step = "mounted" /\ Served => GroupsAgree /\ TotalsAgree /\ TreeAgrees
=============================================================================
