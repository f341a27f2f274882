------------------------------ MODULE Ext2Map -------------------------------
(***************************************************************************)
(* How ext2 maps the blocks of a file to blocks of the disk                *)
(* (src/fs/ext2.c): direct, indirect and doubly indirect pointers, the     *)
(* allocation of blocks by a write, their release by a truncation and by   *)
(* the end of the inode.                                                   *)
(*                                                                         *)
(* A block holds PerBlock words: pointers if the file system uses it so,   *)
(* and Data once a file has written to it.  Nothing erases a freed block.  *)
(* Writes to different files interleave block by block; the data and meta  *)
(* locks of the inode serialise calls on one file.                         *)
(*                                                                         *)
(* ext2_rw_block may fail (the USB drivers return -1): in every step the   *)
(* reads or the writes of one block may.  Most callers give up; some go    *)
(* on.  harm says what that has left behind: "leak", a block whose bit is  *)
(* set and that no pointer leads to; "beyond", a block mapped behind the   *)
(* end; "stale", a pointer block whose new contents did not reach the      *)
(* disk, so that it still leads to freed blocks or was never zeroed.       *)
(* Nothing is claimed after "stale", and a behaviour ends there. The       *)
(* bitmaps are kept in memory; a failed write of one changes nothing here. *)
(***************************************************************************)
EXTENDS Integers, FiniteSets, Sequences

CONSTANTS File,       \* the inodes
          Blocks,     \* number of blocks free for files
          NDir,       \* EXT2_NDIR_BLOCKS
          PerBlock,   \* pointers per block
          BlockSize,  \* bytes per block
          Starts,     \* bound: where writes begin
          Lens,       \* bound: their lengths
          Sizes,      \* bound: sizes set by truncate
          MaxFaults,  \* bound: steps in which transfers fail
          MaxCalls    \* bound: calls made in a behaviour

VARIABLES taken,      \* the blocks whose bit is set
          disk,       \* contents of the blocks
          iBlock,     \* i_block of every inode
          iBlocks,    \* i_blocks, in blocks
          size,       \* i_size, in bytes
          op,         \* the write under way on every inode
          asked,      \* the size that the last step was asked to set, if any
          faults,     \* steps in which a transfer failed
          harm,       \* what failed transfers have left behind
          calls       \* calls made so far

mapVars == <<taken, disk, iBlock, iBlocks, size, op, asked, faults, harm, calls>>

Block == 1 .. Blocks
Slot == 0 .. PerBlock - 1
IND == NDir
DIND == NDir + 1
Top == 0 .. DIND
Logical == 0 .. NDir + PerBlock + PerBlock * PerBlock - 1
Data == -1
Idle == [pos |-> 0, end |-> 0, busy |-> FALSE, dirty |-> FALSE, ok |-> FALSE]

MapInit ==
    /\ taken = {}
    /\ disk = [b \in Block |-> [i \in Slot |-> Data]]
    /\ iBlock = [f \in File |-> [k \in Top |-> 0]]
    /\ iBlocks = [f \in File |-> 0]
    /\ size = [f \in File |-> 0]
    /\ op = [f \in File |-> Idle]
    /\ asked = 0 /\ faults = 0 /\ harm = {}
    /\ calls = 0

BlocksOf(bytes) == (bytes + BlockSize - 1) \div BlockSize
Least(S) == CHOOSE x \in S : \A y \in S : x <= y

-----------------------------------------------------------------------------
(* The inode under construction is a record s of what the calls below      *)
(* change: the bits, the disk, the pointers, the count, the block returned *)
(* (-1 for an error) and the harm done.  s.unread and s.unwritten are the  *)
(* blocks whose transfers fail.                                            *)

Fault == {<<{}, {}>>} \union
         (IF faults = MaxFaults THEN {} ELSE UNION {{<<{b}, {}>>, <<{}, {b}>>} : b \in Block})

Work(f, fault) ==
    [taken |-> taken, disk |-> disk, ptr |-> iBlock[f], count |-> iBlocks[f],
     dirty |-> op[f].dirty, ret |-> 0, harm |-> harm, hit |-> FALSE,
     unread |-> fault[1], unwritten |-> fault[2]]

Failed(s) == [s EXCEPT !.ret = -1, !.hit = TRUE]
Harmed(s, how) == [s EXCEPT !.harm = @ \union {how}, !.hit = TRUE]

\* ext2_alloc_block and the count its callers keep, which goes up first.
AllocBlock(s) ==
    LET t == [s EXCEPT !.count = @ + 1, !.dirty = TRUE]
    IN  IF s.taken = Block
        THEN [t EXCEPT !.ret = -1]
        ELSE LET b == Least(Block \ s.taken)
             IN  [t EXCEPT !.taken = @ \union {b}, !.ret = b]

\* mutation: a new pointer block keeps what the disk had there
Zeroed_Not(s) == s

\* ext2_set_block_all_zero, which does not look at the outcome of its write
Zeroed(s) == IF s.ret = -1 THEN s
             ELSE IF s.ret \in s.unwritten THEN Harmed(s, "stale")
             ELSE [s EXCEPT !.disk[s.ret] = [i \in Slot |-> 0]]

\* mutation: the pointer blocks of the inode are not counted
InTop_Uncounted(s, k, pointers) ==
    IF s.ptr[k] # 0 THEN [s EXCEPT !.ret = s.ptr[k]]
    ELSE LET t == IF pointers THEN [Zeroed(AllocBlock(s)) EXCEPT !.count = s.count]
                  ELSE AllocBlock(s)
         IN  IF t.ret = -1 THEN t ELSE [t EXCEPT !.ptr[k] = t.ret]

\* The block behind a pointer of the inode, allocated if it is missing.
InTop(s, k, pointers) ==
    IF s.ptr[k] # 0 THEN [s EXCEPT !.ret = s.ptr[k]]
    ELSE LET t == IF pointers THEN Zeroed(AllocBlock(s)) ELSE AllocBlock(s)
         IN  IF t.ret = -1 THEN t ELSE [t EXCEPT !.ptr[k] = t.ret]

\* The same for entry i of the pointer block s.ret.  Its write is not looked at:
\* when it fails the new block is used once and then lost.
InBlock(s, i, pointers) ==
    LET b == s.ret
    IN  IF b = -1 THEN s
        ELSE IF b \in s.unread THEN Failed(s)
        ELSE IF s.disk[b][i] # 0 THEN [s EXCEPT !.ret = s.disk[b][i]]
        ELSE LET t == IF pointers THEN Zeroed(AllocBlock(s)) ELSE AllocBlock(s)
             IN  IF t.ret = -1 THEN t
                 ELSE IF b \in s.unwritten THEN Harmed(t, "leak")
                 ELSE [t EXCEPT !.disk[b][i] = t.ret]

BmapAlloc(s, n) ==
    LET o == n - (NDir + PerBlock)
    IN  IF n < NDir THEN InTop(s, n, FALSE)
        ELSE IF n < NDir + PerBlock THEN InBlock(InTop(s, IND, TRUE), n - NDir, FALSE)
        ELSE IF o < PerBlock * PerBlock
        THEN InBlock(InBlock(InTop(s, DIND, TRUE), o \div PerBlock, TRUE), o % PerBlock, FALSE)
        ELSE [s EXCEPT !.ret = -1]

\* ext2_bmap on the contents d of the disk: 0 is a hole, -1 out of range.
BmapIn(d, ptr, n) ==
    LET o == n - (NDir + PerBlock)
        Through(b, i) == IF b \in Block THEN d[b][i] ELSE b
    IN  IF n < NDir THEN ptr[n]
        ELSE IF n < NDir + PerBlock THEN Through(ptr[IND], n - NDir)
        ELSE IF o < PerBlock * PerBlock
        THEN Through(Through(ptr[DIND], o \div PerBlock), o % PerBlock)
        ELSE -1

Bmap(f, n) == BmapIn(disk, iBlock[f], n)

-----------------------------------------------------------------------------
(* Release.                                                                *)

\* ext2_free_block on every block of B, and the count.
FreeBlocks(s, B) == [s EXCEPT !.taken = @ \ B, !.count = @ - Cardinality(B)]

Below(s, b) == {s.disk[b][i] : i \in Slot} \ {0}

\* ext2_free_ind_blocks of level 1 on every block of C.  One that cannot be read stays taken,
\* with all that is below it, though the caller forgets it.
FreeTrees(s, C) ==
    LET known == C \ s.unread
        t == FreeBlocks(s, known \union UNION {Below(s, c) : c \in known})
    IN  IF known = C THEN t ELSE Harmed(t, "leak")

\* mutation: only one level below the block is freed
FreeTree_OneLevel(s, b, level) == FreeTrees(s, {b})

\* ext2_free_ind_blocks: a pointer block of level 1 or 2 and all below it.
FreeTree(s, b, level) ==
    IF level = 1 THEN FreeTrees(s, {b})
    ELSE IF b \in s.unread THEN Harmed(s, "leak")
    ELSE FreeBlocks(FreeTrees(s, Below(s, b)), {b})

FreeTop(s, k, level) ==
    IF s.ptr[k] = 0 THEN s ELSE [FreeTree(s, s.ptr[k], level) EXCEPT !.ptr[k] = 0]

\* Pointer block b is written back without the entries gone, and nobody asks whether it was.
Cleared(s, b, gone) ==
    IF b \in s.unwritten /\ gone # {} THEN Harmed(s, "stale")
    ELSE [s EXCEPT !.disk[b] = [i \in Slot |-> IF i \in gone THEN 0 ELSE @[i]]]

\* Free the entries from..PerBlock-1 of pointer block b and clear them.
FreeFrom(s, b, from) ==
    LET gone == {i \in Slot : i >= from /\ s.disk[b][i] # 0}
    IN  IF b \in s.unread THEN Failed(s)
        ELSE Cleared(FreeBlocks(s, {s.disk[b][i] : i \in gone}), b, gone)

FreeDirect(s, from, to) ==
    LET gone == {i \in from .. to - 1 : i < NDir /\ s.ptr[i] # 0}
    IN  [FreeBlocks(s, {s.ptr[i] : i \in gone})
             EXCEPT !.ptr = [k \in Top |-> IF k \in gone THEN 0 ELSE @[k]]]

\* mutation: the first block behind the end is kept
FreeIndirect_OffByOne(s, new) ==
    IF new <= NDir THEN FreeTop(s, IND, 1)
    ELSE IF s.ptr[IND] = 0 THEN s
    ELSE FreeFrom(s, s.ptr[IND], new - NDir + 1)

FreeIndirect(s, new) ==
    IF new <= NDir THEN FreeTop(s, IND, 1)
    ELSE IF s.ptr[IND] = 0 THEN s
    ELSE FreeFrom(s, s.ptr[IND], new - NDir)

\* mutation: the pointer block that the new end falls into goes whole too
FreeDoubly_Whole(s, new) ==
    LET first == (new - (NDir + PerBlock)) \div PerBlock
        b == s.ptr[DIND]
        gone == {i \in Slot : i >= first /\ s.disk[b][i] # 0}
    IN  IF new <= NDir + PerBlock THEN FreeTop(s, DIND, 2)
        ELSE IF b = 0 THEN s
        ELSE Cleared(FreeTrees(s, {s.disk[b][i] : i \in gone}), b, gone)

\* The block the new end falls into loses a part, those after it go whole.
FreeDoubly(s, new) ==
    LET start == new - (NDir + PerBlock)
        first == start \div PerBlock
        b == s.ptr[DIND]
        part == IF first \in Slot /\ s.disk[b][first] # 0
                THEN FreeFrom(s, s.disk[b][first], start % PerBlock) ELSE s
        gone == {i \in Slot : i > first /\ part.disk[b][i] # 0}
    IN  IF new <= NDir + PerBlock THEN FreeTop(s, DIND, 2)
        ELSE IF b = 0 THEN s
        ELSE IF b \in s.unread THEN Failed(s)
        ELSE IF part.ret = -1 THEN part
        ELSE Cleared(FreeTrees(part, {part.disk[b][i] : i \in gone}), b, gone)

\* ext2_truncate_blocks: a pointer block that cannot be read ends it half-way
TruncateBlocks(s, old, new) ==
    LET t == FreeIndirect(FreeDirect(s, new, old), new)
    IN  IF t.ret = -1 THEN t ELSE FreeDoubly(t, new)

\* ext2_delete frees a pointer block also when it cannot be read; what is below it is lost
DropTop(s, k, level) ==
    LET b == s.ptr[k]
        t == IF level = 1 \/ b \in s.unread THEN FreeTrees(s, {b})
             ELSE LET u == FreeTrees(s, Below(s, b)) IN [u EXCEPT !.taken = @ \ Below(s, b)]
    IN  IF b = 0 THEN s ELSE [t EXCEPT !.taken = @ \ {b}, !.ptr[k] = 0]

-----------------------------------------------------------------------------
Apply(f, s) ==
    /\ taken' = s.taken
    /\ disk' = s.disk
    /\ iBlock' = [iBlock EXCEPT ![f] = s.ptr]
    /\ iBlocks' = [iBlocks EXCEPT ![f] = s.count]
    /\ harm' = s.harm /\ faults' = faults + IF s.hit THEN 1 ELSE 0

\* A write begins, at any position: lseek does not ask for the size.
WriteStart(f, pos, len) ==
    /\ ~op[f].busy /\ calls < MaxCalls /\ len > 0
    /\ op' = [op EXCEPT ![f] = [pos |-> pos, end |-> pos + len, busy |-> TRUE,
                                dirty |-> FALSE, ok |-> TRUE]]
    /\ calls' = calls + 1 /\ asked' = 0
    /\ UNCHANGED <<taken, disk, iBlock, iBlocks, size, faults, harm>>

\* The data go into block s.ret, which is read first if it is not written whole.
Filled(s, whole) ==
    IF s.ret = -1 THEN s
    ELSE IF s.ret \in s.unwritten \/ (s.ret \in s.unread /\ ~whole) THEN Failed(s)
    ELSE [s EXCEPT !.disk[s.ret] = [i \in Slot |-> Data]]

\* One turn of the loop of ext2_write: map the block and write into it.
WriteBlock(f, fault) ==
    LET o == op[f]
        n == Least({BlockSize - (o.pos % BlockSize), o.end - o.pos})
        m == BmapAlloc(Work(f, fault), o.pos \div BlockSize)
        s == Filled(m, n = BlockSize)
    IN  /\ o.busy /\ o.ok /\ o.pos < o.end
        /\ Apply(f, IF s.ret = -1 /\ m.ret # -1 /\ o.pos \div BlockSize >= BlocksOf(size[f])
                    THEN Harmed(s, "beyond") ELSE s)
        /\ op' = [op EXCEPT ![f] = IF s.ret = -1
                                   THEN [o EXCEPT !.ok = FALSE, !.dirty = s.dirty]
                                   ELSE [o EXCEPT !.pos = @ + n, !.dirty = s.dirty]]
        /\ asked' = 0
        /\ UNCHANGED <<size, calls>>

\* The end of ext2_write: the size follows what was written or mapped.
WriteEnd(f) ==
    LET o == op[f]
    IN  /\ o.busy /\ (o.pos = o.end \/ ~o.ok)
        /\ size' = IF (o.ok \/ o.dirty) /\ o.pos > size[f]
                   THEN [size EXCEPT ![f] = o.pos] ELSE size
        /\ op' = [op EXCEPT ![f] = Idle] /\ asked' = 0
        /\ UNCHANGED <<taken, disk, iBlock, iBlocks, faults, harm, calls>>

\* ext2_setattr with a size: blocks are released only when it shrinks, and the size stays
\* when the release fails half-way.
SetSize(f, new, fault) ==
    LET s == IF new < size[f] THEN TruncateBlocks(Work(f, fault), BlocksOf(size[f]), BlocksOf(new))
             ELSE Work(f, fault)
    IN  /\ ~op[f].busy /\ calls < MaxCalls /\ new # size[f]
        /\ Apply(f, s)
        /\ size' = IF s.ret = -1 THEN size ELSE [size EXCEPT ![f] = new]
        /\ calls' = calls + 1 /\ asked' = new
        /\ UNCHANGED op

\* ext2_delete of an unlinked inode: all pointers are followed, then zeroed.
\* The slot of File stands for the next inode from then on.
DeleteInode(f, fault) ==
    LET s == DropTop(DropTop(FreeDirect(Work(f, fault), 0, NDir), IND, 1), DIND, 2)
    IN  /\ ~op[f].busy /\ calls < MaxCalls
        /\ Apply(f, [s EXCEPT !.count = 0])
        /\ size' = [size EXCEPT ![f] = 0]
        /\ calls' = calls + 1 /\ asked' = 0
        /\ UNCHANGED op

MapNext ==
    /\ "stale" \notin harm
    /\ \E f \in File :
        \/ \E pos \in Starts, len \in Lens : WriteStart(f, pos, len)
        \/ WriteEnd(f)
        \/ \E fault \in Fault :
             \/ WriteBlock(f, fault)
             \/ \E new \in Sizes : SetSize(f, new, fault)
             \/ DeleteInode(f, fault)

MapSpec == MapInit /\ [][MapNext]_mapVars

-----------------------------------------------------------------------------
(* Properties.                                                             *)

\* Every pointer of an inode and of its pointer blocks that is not zero.
Places(f) ==
    LET p == iBlock[f]
        In(b) == IF b = 0 THEN {} ELSE {i \in Slot : disk[b][i] # 0}
    IN  {<<k>> : k \in {k \in Top : p[k] # 0}}
        \union {<<IND, i>> : i \in In(p[IND])}
        \union {<<DIND, i>> : i \in In(p[DIND])}
        \union UNION {{<<DIND, i, j>> : j \in In(disk[p[DIND]][i])} : i \in In(p[DIND])}

BlockAt(f, p) ==
    LET a == iBlock[f][p[1]]
    IN  IF Len(p) = 1 THEN a
        ELSE IF Len(p) = 2 THEN disk[a][p[2]]
        ELSE disk[disk[a][p[2]]][p[3]]

Owners == UNION {{<<f, p>> : p \in Places(f)} : f \in File}

Faithful == "stale" \notin harm

\* Types: a pointer is a block or zero, so no call takes file data for one.
MapTypeOK ==
    /\ taken \subseteq Block
    /\ disk \in [Block -> [Slot -> Block \union {0, Data}]]
    /\ iBlock \in [File -> [Top -> Block \union {0}]]
    /\ iBlocks \in [File -> Nat]
    /\ size \in [File -> Nat]
    /\ faults \in 0 .. MaxFaults /\ harm \subseteq {"leak", "beyond", "stale"}
    /\ Faithful => \A f \in File, n \in Logical : Bmap(f, n) \in Block \union {0}

\* No block has two pointers to it in the whole file system, and none that a
\* pointer leads to is free for another, whatever transfers fail, until a
\* pointer block did not reach the disk.  The bitmap is exactly what the
\* inodes use while no failed transfer has lost a block: a write that finds
\* no room and a partial release of pointer blocks lose none.
BlocksOwnedOnce ==
    LET used == {BlockAt(o[1], o[2]) : o \in Owners}
    IN  Faithful => /\ used \subseteq taken
                    /\ Cardinality(used) = Cardinality(Owners)
                    /\ "leak" \notin harm => used = taken

\* i_blocks is never less than what the inode uses, so that the
\* subtractions of a release do not wrap around.  (It is more after an
\* allocation that failed, which is counted all the same.)
NeverUndercounted == Faithful => \A f \in File : iBlocks[f] >= Cardinality(Places(f))

\* Between calls no block is mapped at or beyond the end of the file: a
\* truncation frees all of them, at every level of indirection, and a write
\* moves the end past all it maps, unless the transfer of the data failed
\* after the block was mapped.
NothingBeyondEnd ==
    Faithful /\ "beyond" \notin harm =>
        \A f \in File : ~op[f].busy =>
            \A n \in Logical : n >= BlocksOf(size[f]) => Bmap(f, n) = 0

\* A step takes a mapped block away from a file only by truncating or
\* deleting that file, and only at or beyond the end it asks for, also when
\* the truncation fails half-way and leaves the size as it was.
MappingStable ==
    [][Faithful' /\ ~UNCHANGED <<disk, iBlock>> => \A f \in File, n \in Logical :
          Bmap(f, n) # 0 /\ Bmap(f, n)' # Bmap(f, n)
              => ~op[f].busy /\ n >= BlocksOf(asked')]_mapVars

=============================================================================
