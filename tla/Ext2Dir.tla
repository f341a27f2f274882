------------------------------ MODULE Ext2Dir -------------------------------
(***************************************************************************)
(* The directories of ext2 (src/fs/ext2.c) as the system calls of          *)
(* src/fs/fs.c use them: records that tile the directory's blocks, link    *)
(* counts, ".." and the names that the directory cache knows.              *)
(*                                                                         *)
(* Lengths count words of four bytes, to which records are aligned.  Calls *)
(* that remove, move or make directories hold the write lock of the name   *)
(* space, so one of them runs at a time.  vfs_open creates without it:     *)
(* tasks that create run beside that call and beside each other, and no    *)
(* lock guards the blocks of a directory.  An entry is put in or taken out *)
(* by reading a block, changing the copy and writing it back, sleeping in  *)
(* both transfers, each of which may also fail.  An unlinked inode is      *)
(* released at once; none is open here.                                    *)
(*                                                                         *)
(* damaged: the directories are no longer what the calls say, because - a  *)
(* block was written back that another task had changed since it was read, *)
(* or an entry was made whose name had come into being since the lookup; - *)
(* a transfer failed where the code does not undo what it did: the inode   *)
(* of an unlink or rmdir that has removed the entry, the inode of a create *)
(* that has made it, the ".." of a directory that moved, the old entry of  *)
(* a rename that is put back; - a task took the room of the entry that a   *)
(* rename has to put back. A behaviour ends there.                         *)
(***************************************************************************)
EXTENDS Integers, Sequences, FiniteSets, SequencesExt

CONSTANTS Name,         \* names of files and directories
          Words(_),     \* EXT2_DIR_REC_LEN of a name
          BlockWords,   \* length of a block
          MaxBlocks,    \* blocks a directory can get before the disk is full
          Inodes,       \* number of inodes
          Creator,      \* the tasks that open with O_CREAT
          RenameOver    \* may a caller rename to a name that exists on disk
                        \* but is not in the directory cache?

VARIABLES kind,         \* what every inode is
          links,        \* i_links_count
          dir,          \* the blocks of every directory, sequences of records
          cached,       \* the <<directory, name>> that have a dentry
          job,          \* the call of every task
          damaged       \* see above

dirVars == <<kind, links, dir, cached, job, damaged>>

Inode == 1 .. Inodes
Root == 1
Dot == "."
DotDot == ".."
Rec(i, n, r) == [ino |-> i, name |-> n, rec |-> r]
None == ""

\* who holds the write lock of the name space, and those who create
Holder == "holder"
Worker == Creator \union {Holder}

(* A call: directory and name, the new ones of a rename, the inode, the    *)
(* block that is looked at, how many there were at the start, the copy of  *)
(* the block, the blocks that a rename left without the entry.             *)
NoJob == [op |-> None, pc |-> None, d |-> 0, n |-> None, e |-> 0, m |-> None, i |-> 0,
          k |-> 0, last |-> 0, old |-> <<>>, left |-> <<>>, back |-> FALSE]

Need(n) == IF n \in {Dot, DotDot} THEN 3 ELSE Words(n)

\* The two records a directory starts with.
FreshDir(i, parent) == << <<Rec(i, Dot, 3), Rec(parent, DotDot, BlockWords - 3)>> >>

DirInit ==
    /\ kind = [i \in Inode |-> IF i = Root THEN "dir" ELSE "free"]
    /\ links = [i \in Inode |-> IF i = Root THEN 2 ELSE 0]
    /\ dir = [i \in Inode |-> IF i = Root THEN FreshDir(Root, Root) ELSE <<>>]
    /\ cached = {}
    /\ job = [w \in Worker |-> NoJob] /\ damaged = FALSE

-----------------------------------------------------------------------------
(* Records.                                                                *)

\* A deleted record can be taken over, one in use can give its tail.
Fits(r, need) ==
    IF r.ino = 0 THEN r.rec >= need ELSE r.rec - Need(r.name) >= need

\* mutation: the new record claims the length that the old one had
Placed_TooLong(b, k, n, i) ==
    LET r == b[k]
    IN  IF r.ino = 0 THEN ReplaceAt(b, k, Rec(i, n, r.rec))
        ELSE InsertAt(ReplaceAt(b, k, [r EXCEPT !.rec = Need(r.name)]), k + 1, Rec(i, n, r.rec))

Placed(b, k, n, i) ==
    LET r == b[k]
    IN  IF r.ino = 0 THEN ReplaceAt(b, k, Rec(i, n, r.rec))
        ELSE InsertAt(ReplaceAt(b, k, [r EXCEPT !.rec = Need(r.name)]),
                      k + 1, Rec(i, n, r.rec - Need(r.name)))

\* The space of record k goes to the one before it, or stays as a deleted
\* record, together with a deleted record behind it.
Cleared(b, k) ==
    LET more == k < Len(b) /\ b[k + 1].ino = 0
        space == b[k].rec + IF more THEN b[k + 1].rec ELSE 0
        rest == SubSeq(b, IF more THEN k + 2 ELSE k + 1, Len(b))
    IN  IF k > 1
        THEN SubSeq(b, 1, k - 2) \o <<[b[k - 1] EXCEPT !.rec = @ + space]>> \o rest
        ELSE <<Rec(0, None, space)>> \o rest

Records(d) == UNION {ToSet(dir[d][k]) : k \in DOMAIN dir[d]}
Live(d) == {r \in Records(d) : r.ino # 0 /\ r.name \notin {Dot, DotDot}}
Dirs == {i \in Inode : kind[i] = "dir"}

\* ext2_lookup: the inode a name leads to, 0 if it is not there.
Found(d, n) ==
    LET k == SelectInSeq(dir[d], LAMBDA b : \E j \in DOMAIN b : b[j].ino # 0 /\ b[j].name = n)
    IN  IF k = 0 THEN 0
        ELSE dir[d][k][SelectInSeq(dir[d][k], LAMBDA r : r.ino # 0 /\ r.name = n)].ino

Parents(i) == {d \in Dirs : \E r \in Live(d) : r.ino = i}
Links == UNION {{<<d, r.name, r.ino>> : r \in Live(d)} : d \in Dirs}

\* The links that calls have made, an entry that a rename has taken out and
\* not yet made again being where it was.
Shown ==
    LET j == job[Holder]
    IN  Links \union IF j.op = "rename" /\ j.pc \in {"add", "place"} THEN {<<j.d, j.n, j.i>>} ELSE {}

\* A directory and all those it lies in, given the links.
UpFrom(all, d) ==
    LET up[k \in 0 .. Inodes] ==
            IF k = 0 THEN {d}
            ELSE LET u == up[k - 1] IN u \union {l[1] : l \in {l \in all : l[3] \in u}}
    IN  up[Inodes]

\* The dentries that the walk to directory d leaves in the cache.
PathTo(d) ==
    LET all == Links
        up == UpFrom(all, d)
    IN  {<<l[1], l[2]>> : l \in {l \in all : l[3] \in up}}

-----------------------------------------------------------------------------
(* The steps of calls.                                                     *)

FreeInode == CHOOSE i \in Inode : kind[i] = "free" /\ \A j \in Inode : kind[j] = "free" => i <= j
SomeInode == \E i \in Inode : kind[i] = "free"

\* The lock of the name space is free, so that one can look up.
Unlocked == job[Holder] = NoJob

\* The directory and the name of the entry that a call makes.
Place(j) == IF j.op = "rename" /\ ~j.back THEN <<j.e, j.m>> ELSE <<j.d, j.n>>

\* A call goes through the blocks of directory t, as many as there are now.
Scan(j, pc, t) == [j EXCEPT !.pc = pc, !.k = 1, !.last = Len(dir[t]), !.old = <<>>]

Ends(w) == job' = [job EXCEPT ![w] = NoJob]


\* ext2_dir_add_entry returns -1: the new inode is freed; a rename puts the
\* old entry back, and if that fails too the entry is lost.
AddFails(w, why) ==
    LET j == job[w]
    IN  IF j.op # "rename"
        THEN kind' = [kind EXCEPT ![j.i] = "free"] /\ Ends(w) /\ UNCHANGED damaged
        ELSE /\ UNCHANGED kind
             /\ IF ~j.back
                THEN /\ job' = [job EXCEPT ![w] = Scan([j EXCEPT !.back = TRUE], "add", j.d)]
                     /\ UNCHANGED damaged
                ELSE Ends(w) /\ damaged' = (why = "transfer" \/ dir[j.d] # j.left)

\* ext2_dir_add_entry reads the next block and looks for the first record
\* with room; when no block has one it takes a new block.
AddRead(w) ==
    LET j == job[w]
        t == Place(j)
        b == dir[t[1]][j.k]
        room == \E r \in ToSet(b) : Fits(r, Need(t[2]))
    IN  /\ j.pc = "add"
        /\ IF ~room /\ j.k = j.last /\ j.last = MaxBlocks
           THEN AddFails(w, "full")
           ELSE /\ job' = [job EXCEPT ![w] =
                        IF room THEN [j EXCEPT !.pc = "place", !.old = b]
                        ELSE IF j.k < j.last THEN [j EXCEPT !.k = @ + 1]
                        ELSE [j EXCEPT !.pc = "place", !.k = @ + 1]]
                /\ UNCHANGED <<kind, damaged>>
        /\ UNCHANGED <<links, dir, cached>>

\* A transfer of ext2_dir_add_entry fails.
AddTransferFails(w) ==
    /\ job[w].pc \in {"add", "place"}
    /\ AddFails(w, "transfer")
    /\ UNCHANGED <<links, dir, cached>>

\* The block that ext2_dir_add_entry writes, from the copy it read, or new.
Written(j) ==
    LET n == Place(j)[2]
    IN  IF j.old = <<>> THEN <<Rec(j.i, n, BlockWords)>>
        ELSE Placed(j.old, SelectInSeq(j.old, LAMBDA r : Fits(r, Need(n))), n, j.i)

\* What a call overwrites is what it read, and no other entry has the name.
Undisturbed(j) ==
    LET t == Place(j)
        bs == dir[t[1]]
    IN  /\ IF j.old = <<>> THEN Len(bs) = j.last ELSE bs[j.k] = j.old
        /\ \A l \in Shown : <<l[1], l[2]>> = t => l[3] = j.i

\* ext2_dir_add_entry writes the block.  What follows it: a file's inode is
\* still to be read; a directory counts in its parent, and after a move in
\* the new one, where ".." is still to be made to lead.  The inodes of the
\* directories are written without looking whether that fails.
AddWrite(w) ==
    LET j == job[w]
        t == Place(j)
        old == dir[t[1]]
        with == [dir EXCEPT ![t[1]] =
                     IF j.k > Len(old) THEN Append(old, Written(j)) ELSE ReplaceAt(old, j.k, Written(j))]
        moves == kind[j.i] = "dir" /\ j.d # j.e
    IN  /\ j.pc = "place"
        /\ damaged' \in {~Undisturbed(j), TRUE}
        /\ \/ /\ j.op = "create"
              /\ kind' = [kind EXCEPT ![j.i] = "file"]
              /\ links' = [links EXCEPT ![j.i] = 1]
              /\ dir' = with
              /\ job' = [job EXCEPT ![w] = [j EXCEPT !.pc = "iget", !.k = 0, !.last = 0, !.old = <<>>]]
              /\ UNCHANGED cached
           \/ /\ j.op = "mkdir"
              /\ kind' = [kind EXCEPT ![j.i] = "dir"]
              /\ links' = [links EXCEPT ![j.i] = 2, ![j.d] = @ + 1]
              /\ dir' = [with EXCEPT ![j.i] = FreshDir(j.i, j.d)]
              /\ cached' = cached \union {<<j.d, j.n>>}
              /\ Ends(w)
           \/ /\ j.op = "rename" /\ ~j.back
              /\ dir' = with
              /\ links' = IF moves THEN [links EXCEPT ![j.d] = @ - 1, ![j.e] = @ + 1] ELSE links
              /\ cached' = (cached \ {<<j.d, j.n>>}) \union {<<j.e, j.m>>}
              /\ IF moves THEN job' = [job EXCEPT ![w] = Scan(j, "parent", j.i)] ELSE Ends(w)
              /\ UNCHANGED kind
           \/ /\ j.op = "rename" /\ j.back
              /\ dir' = with
              /\ Ends(w)
              /\ UNCHANGED <<kind, links, cached>>

\* ext2_dir_remove_entry reads the next block and looks for the inode.
RemoveRead(w) ==
    LET j == job[w]
        b == dir[j.d][j.k]
        here == \E r \in ToSet(b) : r.ino = j.i
    IN  /\ j.pc = "remove"
        /\ IF ~here /\ j.k = j.last THEN Ends(w)
           ELSE job' = [job EXCEPT ![w] = IF here THEN [j EXCEPT !.pc = "clear", !.old = b]
                                          ELSE [j EXCEPT !.k = @ + 1]]
        /\ UNCHANGED <<kind, links, dir, cached, damaged>>

\* A transfer of ext2_dir_remove_entry fails, and the call with it.
RemoveTransferFails(w) ==
    /\ job[w].pc \in {"remove", "clear"}
    /\ Ends(w)
    /\ UNCHANGED <<kind, links, dir, cached, damaged>>


\* dentry_delete: the dentry that goes with the entry.
Forgotten(j) == {<<j.d, j.n>>}

\* ext2_dir_remove_entry writes the block.  An unlink or rmdir then writes
\* the inode, and without that stops; its blocks and number become free
\* (ext2_delete).  A rename goes on to make the new entry.
RemoveWrite(w) ==
    LET j == job[w]
        b == Cleared(j.old, SelectInSeq(j.old, LAMBDA r : r.ino = j.i))
        without == [dir EXCEPT ![j.d] = ReplaceAt(@, j.k, b)]
        clash == dir[j.d][j.k] # j.old
    IN  /\ j.pc = "clear"
        /\ damaged' \in {clash, clash \/ j.op # "rename"}
        /\ IF j.op = "rename"
           THEN /\ dir' = without
                /\ job' = [job EXCEPT ![w] = [Scan(j, "add", j.e) EXCEPT !.left = without[j.d]]]
                /\ UNCHANGED <<kind, links, cached>>
           ELSE /\ kind' = [kind EXCEPT ![j.i] = "free"]
                /\ links' = [links EXCEPT ![j.i] = 0, ![j.d] = IF kind[j.i] = "dir" THEN @ - 1 ELSE @]
                /\ dir' = [without EXCEPT ![j.i] = <<>>]
                /\ cached' = cached \ Forgotten(j)
                /\ Ends(w)

\* mutation: ".." of a directory that moved is left alone
Reparent_Not(b, p) == b

\* The second record of a directory that moved is made to lead to p.
Reparent(b, p) == ReplaceAt(b, 2, [b[2] EXCEPT !.ino = p])

\* ext2_rename reads the first block of a directory that moved...
ParentRead(w) ==
    LET j == job[w]
    IN  /\ j.pc = "parent"
        /\ job' = [job EXCEPT ![w] = [j EXCEPT !.pc = "reparent", !.old = dir[j.i][1]]]
        /\ UNCHANGED <<kind, links, dir, cached, damaged>>

\* ... and writes it.
ParentWrite(w) ==
    LET j == job[w]
    IN  /\ j.pc = "reparent"
        /\ dir' = [dir EXCEPT ![j.i] = ReplaceAt(@, 1, Reparent(j.old, j.e))]
        /\ damaged' = (dir[j.i][1] # j.old)
        /\ Ends(w)
        /\ UNCHANGED <<kind, links, cached>>

\* One of these transfers fails, which ext2_rename does not tell.
ParentTransferFails(w) ==
    /\ job[w].pc \in {"parent", "reparent"}
    /\ damaged' = TRUE
    /\ Ends(w)
    /\ UNCHANGED <<kind, links, dir, cached>>

\* The end of ext2_create: the inode is read and the dentry gets its place.
\* When that fails the inode is freed under its entry; when the entry was
\* taken away meanwhile the dentry stands for nothing.
Created(w) ==
    LET j == job[w]
    IN  /\ j.pc = "iget"
        /\ damaged' \in {Found(j.d, j.n) # j.i, TRUE}
        /\ cached' = cached \union {<<j.d, j.n>>}
        /\ Ends(w)
        /\ UNCHANGED <<kind, links, dir>>

-----------------------------------------------------------------------------
(* The calls begin: all look names up, under the lock of the name space.   *)

\* __vfs_lookup_locked: a name found on disk gets a dentry.
Lookup(d, n) ==
    /\ cached' = cached \union PathTo(d) \union IF Found(d, n) # 0 THEN {<<d, n>>} ELSE {}
    /\ UNCHANGED <<kind, links, dir, job, damaged>>

\* dentry_cache_task: a dentry goes that no other one has for a parent and
\* nobody creates in.
Evict(d, n) ==
    /\ <<d, n>> \in cached
    /\ \A e \in cached : e[1] # Found(d, n)
    /\ \A c \in Creator : job[c].d # Found(d, n)
    /\ cached' = cached \ {<<d, n>>}
    /\ UNCHANGED <<kind, links, dir, job, damaged>>

\* A call for an inode that is new, after the lookup that did not find the
\* name: vfs_open with O_CREAT, sys_mkdir.
BeginNew(w, op, d, n) ==
    /\ job[w] = NoJob
    /\ Found(d, n) = 0 /\ SomeInode
    /\ kind' = [kind EXCEPT ![FreeInode] = "new"]
    /\ job' = [job EXCEPT ![w] = Scan([NoJob EXCEPT !.op = op, !.d = d, !.n = n, !.i = FreeInode], "add", d)]
    /\ cached' = cached \union PathTo(d)
    /\ UNCHANGED <<links, dir, damaged>>

Create(c, d, n) == BeginNew(c, "create", d, n)
Mkdir(d, n) == BeginNew(Holder, "mkdir", d, n)

\* A call that removes the entry <<d, n>>.
BeginRemove(call, also) ==
    /\ job' = [job EXCEPT ![Holder] = Scan(call, "remove", call.d)]
    /\ cached' = cached \union PathTo(call.d) \union {<<call.d, call.n>>} \union also
    /\ UNCHANGED <<kind, links, dir, damaged>>

\* sys_unlink.
Unlink(d, n) ==
    LET i == Found(d, n)
    IN  /\ i # 0 /\ kind[i] = "file"
        /\ BeginRemove([NoJob EXCEPT !.op = "unlink", !.d = d, !.n = n, !.i = i], {})

\* sys_rmdir and the start of ext2_rmdir: no cached child, nobody who works
\* in the directory, no record but the two.
Rmdir(d, n) ==
    LET i == Found(d, n)
    IN  /\ i # 0 /\ kind[i] = "dir"
        /\ Live(i) = {} /\ \A c \in Creator : job[c].d # i
        /\ BeginRemove([NoJob EXCEPT !.op = "rmdir", !.d = d, !.n = n, !.i = i], {})

\* sys_rename.  Whether the new name exists is asked of the directory cache.
Rename(d, n, e, m) ==
    LET i == Found(d, n)
        seen == cached \union PathTo(d) \union PathTo(e) \union {<<d, n>>}
    IN  /\ i # 0
        /\ kind[i] = "dir" => i \notin UpFrom(Links, e)
        /\ <<e, m>> \in seen => Found(e, m) = i
        /\ Found(e, m) \notin {0, i} => RenameOver
        /\ BeginRemove([NoJob EXCEPT !.op = "rename", !.d = d, !.n = n, !.e = e, !.m = m, !.i = i],
                       PathTo(e))

DirNext ==
    /\ ~damaged
    /\ \/ Unlocked /\ \E d \in Dirs, n \in Name :
              \/ Lookup(d, n)
              \/ Evict(d, n)
              \/ \E c \in Creator : Create(c, d, n)
              \/ Mkdir(d, n)
              \/ Unlink(d, n)
              \/ Rmdir(d, n)
              \/ \E e \in Dirs, m \in Name : Rename(d, n, e, m)
       \/ \E w \in Worker :
              \/ AddRead(w)
              \/ AddTransferFails(w)
              \/ AddWrite(w)
              \/ RemoveRead(w)
              \/ RemoveTransferFails(w)
              \/ RemoveWrite(w)
              \/ ParentRead(w)
              \/ ParentWrite(w)
              \/ ParentTransferFails(w)
              \/ Created(w)

DirSpec == DirInit /\ [][DirNext]_dirVars

-----------------------------------------------------------------------------
(* Properties.                                                             *)

\* Types; the root stays a directory and only directories have blocks.
DirTypeOK ==
    /\ kind \in [Inode -> {"free", "new", "file", "dir"}] /\ kind[Root] = "dir"
    /\ links \in [Inode -> Nat]
    /\ \A i \in Inode : kind[i] = "dir" <=> dir[i] # <<>>
    /\ \A d \in Dirs : Records(d) \subseteq
           [ino : Inode \union {0}, name : Name \union {Dot, DotDot, None}, rec : Nat]
    /\ cached \subseteq Inode \X Name
    /\ DOMAIN job = Worker /\ \A w \in Worker : DOMAIN job[w] = DOMAIN NoJob
    /\ damaged \in BOOLEAN

\* The records of a directory block fill it exactly and each has room for
\* its name, however entries were split, cleared and taken over, two tasks
\* wrote the block or a transfer failed: a walk by rec_len ends at the
\* block's end.
RecordsTile ==
    \A d \in Dirs : \A k \in DOMAIN dir[d] :
        LET b == dir[d][k]
        IN  /\ FoldLeft(LAMBDA s, r : s + r.rec, 0, b) = BlockWords
            /\ \A j \in DOMAIN b : b[j].ino # 0 => b[j].rec >= Need(b[j].name)

\* i_links_count of a directory is 2 and one for each directory in it, of a
\* file 1, through mkdir, rmdir and renames across directories; and ".." of
\* a directory leads to where its entry is, once the rename is through.
LinksAndParents ==
    LET all == Shown
        moved == IF job[Holder].pc \in {"parent", "reparent"} THEN job[Holder].i ELSE Root
        parents == {<<l[3], l[1]>> : l \in all}
        below(i) == {l \in all : l[1] = i /\ kind[l[3]] = "dir"}
    IN  ~damaged =>
            /\ \A i \in Inode : kind[i] = "file" => links[i] = 1
            /\ \A i \in Dirs : links[i] = 2 + Cardinality(below(i))
            /\ \A i \in Dirs \ {Root} :
                   /\ dir[i][1][1].ino = i /\ dir[i][1][1].name = Dot
                   /\ dir[i][1][2].name = DotDot
                   /\ i = moved \/ \A d \in Inode : <<i, d>> \in parents <=> d = dir[i][1][2].ino

\* A dentry stands for an entry that is on the disk.
CacheCoherent == ~damaged => cached \subseteq {<<l[1], l[2]>> : l \in Shown}

\* "check whether the target already exists (overwriting is not supported)":
\* no directory ever has two entries of one name.
NamesUnique ==
    \A d \in Dirs : \A r, s \in Live(d) : r.name = s.name => r = s

\* The change of the tree that a call asks for.
Wish(j) ==
    CASE j.op \in {"create", "mkdir"} -> <<"link", j.d, j.n>>
      [] j.op \in {"unlink", "rmdir"} -> <<"remove", j.d, j.n>>
      [] j.op = "rename" -> <<"move", j.d, j.n, j.e, j.m>>
      [] OTHER -> <<>>

\* A call makes the one change it was asked for, at one moment, or none: a
\* create makes a link, an unlink or rmdir removes its own, and a rename
\* moves one, or, when there is no room in the new directory, leaves it.
Tree == INSTANCE TreeSpec WITH tree <- Shown, wishes <- {Wish(job[w]) : w \in Worker}, lost <- damaged
=============================================================================
