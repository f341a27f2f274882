-------------------------------- MODULE Vfs ---------------------------------
(***************************************************************************)
(* The virtual file system of src/src/fs/fs.c: the dentry cache with its   *)
(* reference counts, path lookup across mount points, and the calls that   *)
(* open, create, remove, rename and mount.  Three super blocks exist: "R", *)
(* the ramfs at the root, "D", the devfs on /dev, and "P", the partition   *)
(* /dev/sda1 when it is mounted on /mnt ("X" once it is unmounted).  One   *)
(* step of a call runs to the next place where it may wait, a lock or an   *)
(* operation of the file system that does I/O, or where what other CPUs do *)
(* matters: after every component of a path, and in dentry_put between the *)
(* decrement that reaches zero, the test of deleted, the test and set of   *)
(* in_cache_list, the look at the count under the lock of the list, and    *)
(* the clearing of the bit.                                                *)
(*                                                                         *)
(* dc.bad tells the first time that memory given back is used, or a dentry *)
(* in use is given back; a behaviour ends there. "put"     dentry_put goes *)
(* on with a dentry whose count it took to zero and that was freed, or     *)
(* taken up again and deleted, since "evict"   dentry_cache_task goes on   *)
(* with a dentry that was freed since it took it off the list "umount"  a  *)
(* call without a count on the partition goes on in it after umount: exit, *)
(* after sb_put, and unlink, rmdir and truncate of an absolute path, after *)
(* the lock of the name space "getcwd"  sys_getcwd follows a dentry after  *)
(* the path has changed "mount"   read_root_inode failed:                  *)
(* super_block_destroy calls put_super on what it has freed "other"   none *)
(* of these                                                                *)
(***************************************************************************)
EXTENDS Integers, FiniteSets, Sequences, FiniteSetsExt, SequencesExt

CONSTANTS Tasks,        \* processes
          Worlds,       \* the instances a behaviour may start in, see Init
          Fds,          \* descriptors of a process (NR_OPEN_DEFAULT of them)
          MaxDentries,  \* dentries the allocator can provide
          MaxFiles,     \* open files the allocator can provide
          MaxNodes,     \* inodes of the partition of each kind
          MaxDepth,     \* directories below a root
          CacheSize     \* DENTRY_CACHE_SIZE

ASSUME BoundsAssumption ==
    /\ MaxDentries \in Nat /\ MaxDentries > 6
    /\ MaxDepth \in Nat /\ MaxFiles \in Nat /\ MaxNodes \in Nat
    /\ CacheSize \in Nat

VARIABLES world,      \* which calls this behaviour makes; chosen in Init
          dc,         \* dentry cache: de, the list lru, its count num, bad,
                      \* and low, by how much a delete has made num too small
          ent,        \* directory entries <<directory node, name, node>>
          sbp,        \* super block of the partition
          part,       \* the partition: its fs_dentry and mounted_sb # NULL
          fsref,      \* fs_ref of every super block
          locks,      \* vfs_mgr.mount_lock and vfs_mgr.namespace_lock
          cwd,        \* task -> dentry, 0 for a task that does not exist
          fds,        \* task -> descriptor -> open file, or 0
          files,      \* open file -> [dentry, ref]
          call,       \* task, cache task -> the locals of its call
          made        \* calls with a path made so far

vars == <<world, dc, ent, sbp, part, fsref, locks, cwd, fds,
          files, call, made>>
space == <<ent, sbp, part, fsref, made>>
procs == <<cwd, fds, files>>

Ids == 1 .. MaxDentries
FileIds == 1 .. MaxFiles
Cache == "cache"    \* dentry_cache_task
Everyone == Tasks \union {Cache}
NoNode == <<"none", 0>>

Root == 1      \* vfs_mgr.root
Dev == 2       \* /dev, where devfs is mounted
DevRoot == 3   \* root of devfs
Mnt == 4       \* /mnt
Disk == 5      \* /dev/sda
NoDentry == [st |-> "free", name |-> "", parent |-> 0, linked |-> FALSE, ref |-> 0,
             bit |-> FALSE, off |-> FALSE, del |-> FALSE, node |-> NoNode, sb |-> "", mp |-> ""]
NoSb == [st |-> "none", root |-> 0, mountpoint |-> 0, held |-> 0]

\* The locals of a call.  due: dentries still to be put; win: the one whose count
\* this task took to zero, stage: how far dentry_put is with it; purge: the super
\* block of an inode that is being deleted; dying: dentries still to be deleted;
\* at, chain: pointers that hold no reference.
Idle == [op |-> "none", pc |-> "idle", goal |-> "", path |-> <<>>, to |-> <<>>,
         todo |-> <<>>, start |-> 0, start2 |-> 0, cur |-> 0, tmp |-> 0, old |-> 0,
         par |-> 0, par2 |-> 0, due |-> <<>>, win |-> 0, stage |-> "", purge |-> "",
         dying |-> <<>>, at |-> 0, chain |-> <<>>, stirred |-> FALSE, sb |-> "", file |-> 0, fd |-> 0]

-----------------------------------------------------------------------------
(* The dentry cache.  c is a value of dc.                                  *)

Live(c) == {d \in Ids : c.de[d].st = "live"}

\* What dentry_create may hand out: memory to which nobody keeps a pointer, so that the
\* use of a dentry after it was freed is seen.
Pointers == UNION {{call[t].win, call[t].at} \union Range(call[t].chain) : t \in Everyone}
Unused(c) == Ids \ (Live(c) \union Pointers)
Bad(c, why) == IF c.bad = "" THEN [c EXCEPT !.bad = why] ELSE c

\* dentry_create: reference count 1, held by the creator.
Fresh(name, sb, node) ==
    [NoDentry EXCEPT !.st = "live", !.name = name, !.ref = 1, !.sb = sb, !.node = node]

dentry_create(c, name, sb, node) == [c EXCEPT !.de[Min(Unused(c))] = Fresh(name, sb, node)]

dentry_get(c, d) ==
    IF c.de[d].st = "free" THEN Bad(c, "other") ELSE [c EXCEPT !.de[d].ref = @ + 1]

\* dentry_put is due; Settle takes the counts down.
dentry_put(c, d) == IF d = 0 THEN c ELSE [c EXCEPT !.due = Append(@, d)]
Puts(c, ds) == FoldLeft(dentry_put, c, ds)

\* The decrements of the puts that are due, up to one that reaches zero.
Settle(c) ==
    LET dec(x, d) ==
            IF x.win # 0 THEN x
            ELSE IF x.de[d].st = "free" THEN [Bad(x, "other") EXCEPT !.due = Tail(@)]
            ELSE [x EXCEPT !.de[d].ref = @ - 1, !.due = Tail(@),
                           !.win = IF x.de[d].ref = 1 THEN d ELSE 0]
    IN FoldLeft(dec, c, c.due)

\* dentry_delete of a dentry that nobody else has seen.
Discard(c, d) == [c EXCEPT !.de[d] = NoDentry]

dentry_set_parent(c, p, d) ==
    [dentry_get(c, p) EXCEPT !.de[d].parent = p, !.de[d].linked = TRUE]

Children(c, d) == {x \in Live(c) : c.de[x].linked /\ c.de[x].parent = d}
Named(c, d, name) == {x \in Children(c, d) : c.de[x].name = name}
IsDir(c, d) == c.de[d].node[1] = "dir"

\* The dentries that umount_cleanup_dentry deletes below r, children first.
Below(c, r) ==
    LET lv[n \in 0 .. MaxDepth] ==
            IF n = 0 THEN {r} ELSE UNION {Children(c, x) : x \in lv[n - 1]}
    IN FoldLeft(LAMBDA s, n : SetToSeq(lv[n - 1]) \o s, <<>>, [n \in 1 .. MaxDepth + 1 |-> n])

-----------------------------------------------------------------------------
(* Read-write locks of src/lib/lock.c, as the sets of their holders        *)

CanRead(l) == locks[l].w = {}
CanWrite(l) == locks[l].w = {} /\ locks[l].r = {}
read_lock(l, t) == [locks EXCEPT ![l].r = @ \union {t}]
write_lock(l, t) == [locks EXCEPT ![l].w = {t}]
Unlocked(ls, t) == [l \in DOMAIN locks |-> IF l \in ls
                    THEN [w |-> locks[l].w \ {t}, r |-> locks[l].r \ {t}] ELSE locks[l]]

Opens == {"open", "creat", "excl"}
MountReaders == Opens \union {"chdir"}
MountWriters == {"mount", "umount", "reload"}
NsReaders == Opens \union {"chdir", "truncate"}
StartsEarly == Opens \union {"truncate"}
StartsLocked == {"mkdir", "rmdir", "unlink", "rename"}

-----------------------------------------------------------------------------
(* How a call goes on: paths, and the puts it owes                         *)

RootOf(sb) == CASE sb = "D" -> DevRoot [] sb = "P" -> sbp.root [] OTHER -> 0
MountpointOf(sb) == CASE sb = "D" -> Dev [] sb = "P" -> sbp.mountpoint [] OTHER -> 0

\* A path is a sequence of names, preceded by "/" when it is absolute.
Absolute(p) == p # <<>> /\ p[1] = "/"
StartOf(t, p) == IF Absolute(p) THEN Root ELSE cwd[t]
Names(p) == IF Absolute(p) THEN Tail(p) ELSE p

\* split_path: the path of the parent, <<>> when the path is one relative name.
ParentPath(p) == Front(p)

\* sys_getcwd goes from d to where d is mounted, and then to the parent.
Mounted(d) == IF d # 0 /\ dc.de[d].parent = 0 THEN MountpointOf(dc.de[d].sb) ELSE d
ParentOf(d) == IF d = 0 THEN 0 ELSE dc.de[d].parent
PathOf(d) ==
    LET up[n \in 0 .. 2 * MaxDepth] ==
            IF n = 0 THEN {d} ELSE {ParentOf(Mounted(x)) : x \in up[n - 1] \ {Root}}
        all == UNION {up[n] : n \in 0 .. 2 * MaxDepth}
    IN (all \union {Mounted(x) : x \in all}) \ {0, Root}

\* What the calls under way see of a step that makes the cache c: a getcwd is marked when
\* its path changes, and an inode being deleted loses its super block to umount.
Others(c) ==
    LET changes(d) == \/ c.de[d].st # dc.de[d].st \/ c.de[d].parent # dc.de[d].parent
                      \/ c.de[d].name # dc.de[d].name \/ c.de[d].mp # dc.de[d].mp
        gone == \E d \in Ids : c.de[d].sb = "X" /\ dc.de[d].sb = "P"
    IN [u \in Everyone |->
          IF call[u].op = "getcwd" /\ \E d \in PathOf(cwd[u]) : changes(d)
          THEN [call[u] EXCEPT !.stirred = TRUE]
          ELSE IF call[u].purge = "P" /\ gone THEN [call[u] EXCEPT !.purge = "X"]
          ELSE call[u]]

\* The call goes on as k, once the puts are through.
Owes(s) == s.due # <<>> \/ s.win # 0
Owing(k, s) == [k EXCEPT !.due = s.due, !.win = s.win, !.stage = IF s.win = 0 THEN "" ELSE "zero"]
Quiet(s) == [s EXCEPT !.due = <<>>, !.win = 0]

Goto(t, k, c) ==
    LET s == Settle(c)
    IN dc' = Quiet(s) /\ call' = [Others(s) EXCEPT ![t] = Owing(k, s)]

\* The call is over after the puts, and gives its locks up then; vfs_lookup has given
\* up the one of the name space before.
Return(t, c) ==
    LET s == Settle(c)
        over == [Idle EXCEPT !.op = call[t].op, !.pc = "return"]
        early == IF call[t].op \in NsReaders THEN {"ns"} ELSE {}
    IN /\ dc' = Quiet(s)
       /\ call' = [Others(s) EXCEPT ![t] = IF Owes(s) THEN Owing(over, s) ELSE Idle]
       /\ locks' = Unlocked(IF Owes(s) THEN early ELSE {"mount", "ns"}, t)

-----------------------------------------------------------------------------
(* dentry_put and dentry_delete, after the count                           *)

\* The list lock is held while the bit is cleared.
ListFree == \A t \in Everyone : call[t].stage # "clear"

\* The puts of t go on: dentry_put has read what it needed of d.
PutGoes(t, c, stage) ==
    IF stage # "" THEN dc' = c /\ call' = [call EXCEPT ![t].stage = stage]
    ELSE Goto(t, call[t], [c EXCEPT !.due = call[t].due])

\* deleted: the dentry is freed and its parent put.  On the partition dentry_free goes
\* to the inode's super block, by way of inode_put and ext2_delete.
PutZero(t) ==
    LET k == call[t]
        d == dc.de[k.win]
        listed == k.win \in Range(dc.lru)
        up == IF d.parent = 0 THEN <<>> ELSE <<d.parent>>
    IN
    /\ k.stage = "zero"
    /\ IF d.st = "free" \/ (d.del /\ (d.ref # 0 \/ listed)) THEN PutGoes(t, Bad(dc, "put"), "")
       ELSE IF ~d.del THEN PutGoes(t, dc, "bit")
       ELSE Goto(t, [k EXCEPT !.purge = IF d.sb \in {"P", "X"} THEN d.sb ELSE ""],
                 [Discard(dc, k.win) EXCEPT !.due = up \o k.due])
    /\ UNCHANGED <<world, space, locks, procs>>

\* in_cache_list is tested and set.
PutBit(t) ==
    LET d == dc.de[call[t].win] IN
    /\ call[t].stage = "bit"
    /\ IF d.st = "free" THEN PutGoes(t, Bad(dc, "put"), "")
       ELSE IF d.bit THEN PutGoes(t, dc, "")
       ELSE PutGoes(t, [dc EXCEPT !.de[call[t].win].bit = TRUE], "lock")
    /\ UNCHANGED <<world, space, locks, procs>>

\* Under the list lock the count is read again.
PutLock(t) ==
    LET w == call[t].win IN
    /\ call[t].stage = "lock" /\ ListFree
    /\ IF dc.de[w].st = "free" THEN PutGoes(t, Bad(dc, "put"), "")
       ELSE IF dc.de[w].ref = 0
       THEN PutGoes(t, [dc EXCEPT !.lru = Append(@, w), !.num = @ + 1, !.de[w].off = FALSE], "")
       ELSE PutGoes(t, dc, "clear")
    /\ UNCHANGED <<world, space, locks, procs>>

\* Somebody has taken the dentry up: the bit is cleared.  The dentry is off the list for
\* good when that reference is gone too, put while the bit was still set.
PutClear(t) ==
    LET w == call[t].win IN
    /\ call[t].stage = "clear"
    /\ IF dc.de[w].st = "free" THEN PutGoes(t, Bad(dc, "put"), "")
       ELSE PutGoes(t, [dc EXCEPT !.de[w].bit = FALSE, !.de[w].off = dc.de[w].ref = 0], "")
    /\ UNCHANGED <<world, space, locks, procs>>

\* inode_put has deleted the inode on disk.
Purged(t) ==
    LET k == call[t] IN
    /\ k.purge # "" /\ k.win = 0
    /\ Goto(t, [k EXCEPT !.purge = ""], IF k.purge = "X" THEN Bad(dc, "umount") ELSE dc)
    /\ UNCHANGED <<world, space, locks, procs>>

\* dentry_delete marks the dentry, then takes it off the list and puts it.
DeleteMark(t) ==
    LET k == call[t] IN
    /\ k.pc = "delete"
    /\ Goto(t, [k EXCEPT !.pc = "unlist"], [dc EXCEPT !.de[Head(k.dying)].del = TRUE])
    /\ UNCHANGED <<world, space, locks, procs>>

DeleteUnlist(t) ==
    LET k == call[t]
        d == Head(k.dying)
        next == CASE k.op = "umount" -> "destroy" [] k.op = "reload" -> "scan" [] OTHER -> "return"
        c == IF ~dc.de[d].bit THEN dc
             ELSE [dc EXCEPT !.num = @ - 1, !.lru = SelectSeq(@, LAMBDA x : x # d),
                             !.low = @ + (IF d \in Range(dc.lru) THEN 0 ELSE 1)]
    IN
    /\ k.pc = "unlist" /\ ListFree
    /\ Goto(t, [k EXCEPT !.dying = Tail(@), !.pc = IF Len(k.dying) = 1 THEN next ELSE "delete"],
            dentry_put(c, d))
    /\ UNCHANGED <<world, space, locks, procs>>

\* The end of a call that owed puts.
Returned(t) ==
    /\ call[t].pc = "return" /\ call' = [call EXCEPT ![t] = Idle]
    /\ locks' = Unlocked({"mount", "ns"}, t)
    /\ UNCHANGED <<world, dc, space, procs>>

-----------------------------------------------------------------------------
(* Path lookup                                                             *)

\* __vfs_lookup_locked from dentry d: the reference it takes on where it is.
Lookup(t, k, c, d, p, goal) ==
    Goto(t, [k EXCEPT !.cur = d, !.todo = Names(p), !.goal = goal,
                      !.pc = IF Names(p) = <<>> THEN "got" ELSE "walk"], dentry_get(c, d))

\* The end of one component: jump from a mount point to the root mounted on it,
\* put the directory left.  The reference on next is held.
Arrive(t, c, next) ==
    LET k == call[t]
        mounted == c.de[next].mp
        to == IF mounted = "" THEN next ELSE RootOf(mounted)
        jumped == IF mounted = "" THEN c ELSE dentry_put(dentry_get(c, to), next)
    IN Goto(t, [k EXCEPT !.cur = to, !.tmp = 0, !.todo = Tail(@),
                         !.pc = IF Len(k.todo) = 1 THEN "got" ELSE "walk"],
            dentry_put(jumped, k.cur))


\* The lookup fails: NULL.
Lost(t, c) ==
    Goto(t, [call[t] EXCEPT !.cur = 0, !.tmp = 0, !.todo = <<>>, !.pc = "got"],
         dentry_put(c, call[t].cur))

\* Where ".." leads: from a mount root to the parent of the mount point, and from
\* the root to itself.
DotDot(c, d) ==
    LET at == c.de[d]
        up == IF at.sb # "R" /\ d = RootOf(at.sb) THEN c.de[MountpointOf(at.sb)].parent
              ELSE at.parent
    IN IF up = 0 THEN d ELSE up

\* One component answered from memory: "..", or a child in the list.
WalkCached(t) ==
    LET k == call[t] IN
    /\ k.pc = "walk"
    /\ \E next \in IF Head(k.todo) = ".." THEN {DotDot(dc, k.cur)}
                   ELSE Named(dc, k.cur, Head(k.todo)) :
          Arrive(t, dentry_get(dc, next), next)
    /\ UNCHANGED <<world, space, locks, procs>>

\* No child of that name: a temporary dentry, for which the file system is asked.
WalkMiss(t) ==
    LET k == call[t] IN
    /\ k.pc = "walk" /\ Head(k.todo) # ".." /\ Named(dc, k.cur, Head(k.todo)) = {}
    /\ IF Unused(dc) = {} THEN Lost(t, dc)
       ELSE Goto(t, [k EXCEPT !.tmp = Min(Unused(dc)), !.pc = "look"],
                 dentry_create(dc, Head(k.todo), dc.de[k.cur].sb, NoNode))
    /\ UNCHANGED <<world, space, locks, procs>>

\* A transfer of an operation on the partition may fail.
MayFail(d) == dc.de[d].sb = "P"

\* The file system answers; a dentry inserted meanwhile is preferred to tmp.
Looked(t) ==
    LET k == call[t]
        hits == {e \in ent : e[1] = dc.de[k.cur].node /\ e[2] = Head(k.todo)}
        there == Named(dc, k.cur, Head(k.todo))
    IN
    /\ k.pc = "look"
    /\ \/ (hits = {} \/ MayFail(k.cur)) /\ Lost(t, Discard(dc, k.tmp))
       \/ \E next \in there :
             hits # {} /\ Arrive(t, Discard(dentry_get(dc, next), k.tmp), next)
       \/ \E e \in hits :
             /\ there = {}
             /\ Arrive(t, [dentry_set_parent(dc, k.cur, k.tmp) EXCEPT !.de[k.tmp].node = e[3]],
                       k.tmp)
    /\ UNCHANGED <<world, space, locks, procs>>

-----------------------------------------------------------------------------
(* Entering a call: the locks, the start directory, the lookup             *)

\* The call is made: its mount lock, and the start of an open or a truncate.
Begin(t, op, p, q) ==
    /\ call[t] = Idle /\ cwd[t] # 0 /\ made < world.budget /\ made' = made + 1
    /\ locks' = CASE op \in MountReaders -> read_lock("mount", t)
                  [] op \in MountWriters -> write_lock("mount", t)
                  [] OTHER -> locks
    /\ op \in MountReaders => CanRead("mount")
    /\ op \in MountWriters => CanWrite("mount")
    /\ LET k == [Idle EXCEPT !.op = op, !.pc = "enter", !.goal = "full", !.path = p, !.to = q]
       IN IF op \in StartsEarly
          THEN Goto(t, [k EXCEPT !.start = StartOf(t, p)], dentry_get(dc, StartOf(t, p)))
          ELSE Goto(t, k, dc)
    /\ UNCHANGED <<world, ent, sbp, part, fsref, procs>>

\* The namespace lock, then the first lookup.
Enter(t) ==
    LET k == call[t]
        p == IF k.goal = "parent" THEN ParentPath(k.path) ELSE k.path
        s == StartOf(t, k.path)
        k1 == IF k.op \in StartsLocked THEN [k EXCEPT !.start = s] ELSE k
        c1 == IF k.op \in StartsLocked THEN dentry_get(dc, s) ELSE dc
        k2 == IF k.op = "rename" THEN [k1 EXCEPT !.start2 = StartOf(t, k.to)] ELSE k1
        c2 == IF k.op = "rename" THEN dentry_get(c1, StartOf(t, k.to)) ELSE c1
    IN
    /\ k.pc = "enter"
    /\ IF k.op \in NsReaders THEN CanRead("ns") /\ locks' = read_lock("ns", t)
       ELSE CanWrite("ns") /\ locks' = write_lock("ns", t)
    /\ Lookup(t, k2, c2, s, p, k.goal)
    /\ UNCHANGED <<world, space, procs>>

At(t, ops, goal) == call[t].pc = "got" /\ call[t].goal = goal /\ call[t].op \in ops

-----------------------------------------------------------------------------
(* open, with O_CREAT ("creat") and with O_CREAT | O_EXCL ("excl")         *)

FreeNodes(kind) ==
    {n \in 1 .. MaxNodes : /\ \A e \in ent : e[1] # <<kind, n>> /\ e[3] # <<kind, n>>
                           /\ \A d \in Live(dc) : dc.de[d].node # <<kind, n>>}

\* The end of vfs_open and sys_open on the dentry d, whose reference the file keeps.
OpenFile(t, c, d) ==
    LET new == {f \in FileIds : files[f].ref = 0}
        slot == {i \in Fds : fds[t][i] = 0}
    IN IF new = {} \/ slot = {}
       THEN Return(t, dentry_put(c, d)) /\ UNCHANGED <<procs, fsref>>
       ELSE /\ Return(t, c)
            /\ files' = [files EXCEPT ![Min(new)] = [dentry |-> d, ref |-> 1]]
            /\ fds' = [fds EXCEPT ![t][Min(slot)] = Min(new)]
            /\ fsref' = [fsref EXCEPT ![c.de[d].sb] = @ + 1]
            /\ UNCHANGED cwd

\* dentry_create of the new name below the directory p.
NewName(t, k, c, p) ==
    IF Unused(c) = {} THEN Return(t, Puts(c, <<p, k.start>>))
    ELSE /\ Goto(t, [k EXCEPT !.par = p, !.cur = 0, !.tmp = Min(Unused(c)), !.pc = "create"],
                 dentry_create(c, Last(k.path), c.de[p].sb, NoNode))
         /\ locks' = IF k.op \in NsReaders THEN Unlocked({"ns"}, t) ELSE locks

OpenFound(t) ==
    LET k == call[t] IN
    /\ At(t, Opens, "full") /\ k.cur # 0
    /\ IF k.op = "excl"
       THEN Return(t, Puts(dc, <<k.cur, k.start>>)) /\ UNCHANGED <<procs, fsref>>
       ELSE OpenFile(t, dentry_put(dc, k.start), k.cur)
    /\ UNCHANGED <<world, ent, sbp, part, made>>

OpenMissing(t) ==
    LET k == call[t] IN
    /\ At(t, Opens, "full") /\ k.cur = 0
    /\ IF k.op = "open" THEN Return(t, dentry_put(dc, k.start))
       ELSE IF ParentPath(k.path) = <<>> THEN NewName(t, [k EXCEPT !.start = 0], dc, k.start)
       ELSE Goto(t, [k EXCEPT !.pc = "enter", !.goal = "parent"], dc)
            /\ locks' = Unlocked({"ns"}, t)
    /\ UNCHANGED <<world, space, procs>>

OpenParent(t) ==
    LET k == call[t] IN
    /\ At(t, Opens, "parent")
    /\ IF k.cur = 0 \/ ~IsDir(dc, k.cur) \/ Last(k.path) = ".."
       THEN Return(t, Puts(dc, <<k.start, k.cur>>))
       ELSE NewName(t, [k EXCEPT !.start = 0], dentry_put(dc, k.start), k.cur)
    /\ UNCHANGED <<world, space, procs>>

\* The file system's create or mkdir: the entry is on disk, or it fails.
FsMake(t) ==
    LET k == call[t]
        kind == IF k.op = "mkdir" THEN "dir" ELSE "file"
    IN
    /\ k.pc = "create"
    /\ \/ /\ dc.de[k.par].sb = "D" \/ FreeNodes(kind) = {} \/ MayFail(k.par)
          /\ Return(t, Puts(Discard(dc, k.tmp), <<k.par, k.start>>))
          /\ UNCHANGED ent
       \/ /\ dc.de[k.par].sb # "D" /\ FreeNodes(kind) # {}
          /\ LET new == <<kind, Min(FreeNodes(kind))>> IN
             /\ ent' = ent \union {<<dc.de[k.par].node, dc.de[k.tmp].name, new>>}
             /\ Goto(t, [k EXCEPT !.pc = "made"], [dc EXCEPT !.de[k.tmp].node = new])
          /\ UNCHANGED locks
    /\ UNCHANGED <<world, sbp, part, fsref, made, procs>>

\* The new dentry joins the children of its parent; an open goes on to the file.
OpenMade(t) ==
    LET k == call[t] IN
    /\ k.pc = "made" /\ k.op \in Opens
    /\ OpenFile(t, dentry_put(dentry_set_parent(dc, k.par, k.tmp), k.par), k.tmp)
    /\ UNCHANGED <<world, ent, sbp, part, made>>

-----------------------------------------------------------------------------
(* mkdir, rmdir, unlink, truncate, rename                                  *)

MkdirFull(t) ==
    LET k == call[t] IN
    /\ At(t, {"mkdir"}, "full")
    /\ IF k.cur # 0 \/ Last(k.path) = ".." THEN Return(t, Puts(dc, <<k.cur, k.start>>))
       ELSE IF ParentPath(k.path) = <<>> THEN NewName(t, k, dentry_get(dc, k.start), k.start)
       ELSE /\ Lookup(t, k, dc, k.start, ParentPath(k.path), "parent")
            /\ UNCHANGED locks
    /\ UNCHANGED <<world, space, procs>>

MkdirParent(t) ==
    LET k == call[t] IN
    /\ At(t, {"mkdir"}, "parent")
    /\ IF k.cur = 0 \/ ~IsDir(dc, k.cur) THEN Return(t, Puts(dc, <<k.cur, k.start>>))
       ELSE NewName(t, k, dc, k.cur)
    /\ UNCHANGED <<world, space, procs>>

Mkdirred(t) ==
    LET k == call[t] IN
    /\ k.pc = "made" /\ k.op = "mkdir"
    /\ Return(t, Puts(dentry_set_parent(dc, k.par, k.tmp), <<k.tmp, k.par, k.start>>))
    /\ UNCHANGED <<world, space, procs>>

\* unlink refuses directories, rmdir everything else, a directory with children in
\* the cache, a mount point, and one in use.
RemoveFound(t) ==
    LET k == call[t]
        d == dc.de[k.cur]
        refused == \/ IsDir(dc, k.cur) # (k.op = "rmdir") \/ d.parent = 0
                   \/ k.op = "rmdir" /\ (Children(dc, k.cur) # {} \/ d.mp # "" \/ d.ref # 1)
    IN
    /\ At(t, {"unlink", "rmdir"}, "full")
    /\ IF k.cur = 0 THEN Return(t, dentry_put(dc, k.start))
       ELSE IF refused THEN Return(t, Puts(dc, <<k.cur, k.start>>))
       ELSE /\ Goto(t, [k EXCEPT !.par = d.parent, !.pc = "remove"], dentry_get(dc, d.parent))
            /\ UNCHANGED locks
    /\ UNCHANGED <<world, space, procs>>

\* The file system removes the entry; the dentry leaves the list of children and the
\* namespace lock is given back before the dentry is deleted.
FsRemove(t) ==
    LET k == call[t]
        d == dc.de[k.cur]
        hit == {e \in ent : e[1] = dc.de[k.par].node /\ e[3] = d.node}
        ok == d.sb # "D" /\ hit # {} /\ \A e \in ent : e[1] # d.node
    IN
    /\ k.pc = "remove"
    /\ \/ /\ ok
          /\ \E e \in hit : ent' = ent \ {e}
          /\ Goto(t, [k EXCEPT !.par = 0, !.start = 0, !.pc = "unlock"],
                  Puts([dc EXCEPT !.de[k.cur].linked = FALSE], <<k.par, k.start>>))
          /\ UNCHANGED locks
       \/ /\ ~ok \/ MayFail(k.par)
          /\ Return(t, Puts(dc, <<k.par, k.cur, k.start>>)) /\ UNCHANGED ent
    /\ UNCHANGED <<world, sbp, part, fsref, made, procs>>

RemoveUnlock(t) ==
    LET k == call[t] IN
    /\ k.pc = "unlock" /\ locks' = Unlocked({"ns"}, t)
    /\ Goto(t, [k EXCEPT !.dying = <<k.cur>>, !.cur = 0, !.pc = "delete"], dc)
    /\ UNCHANGED <<world, space, procs>>

TruncateFound(t) ==
    LET k == call[t] IN
    /\ At(t, {"truncate"}, "full")
    /\ IF k.cur = 0 \/ dc.de[k.cur].node[1] # "file" THEN Return(t, Puts(dc, <<k.cur, k.start>>))
       ELSE Goto(t, [k EXCEPT !.pc = "setattr"], dc) /\ locks' = Unlocked({"ns"}, t)
    /\ UNCHANGED <<world, space, procs>>

Truncated(t) ==
    LET k == call[t]
        c == IF dc.de[k.cur].sb = "X" THEN Bad(dc, "umount") ELSE dc
    IN
    /\ k.pc = "setattr" /\ Return(t, Puts(c, <<k.cur, k.start>>))
    /\ UNCHANGED <<world, space, procs>>

\* What rename drops on the way out: the dentry, the parents and the starts.
RenameOut(t, c, k) ==
    Return(t, Puts(c, <<IF k.goal = "full" THEN k.cur ELSE k.old, k.par, k.par2, k.start,
                        k.start2>>))

\* The source is found, then its parent, then the parent of the target; a parent of
\* a one-name path is the start directory.  The source is kept in old.
RenameLookup(t) ==
    LET k == call[t]
        found == IF k.goal = "full" THEN [k EXCEPT !.old = k.cur, !.cur = 0]
                 ELSE [k EXCEPT !.par = k.cur, !.cur = 0]
        p == ParentPath(IF k.goal = "full" THEN k.path ELSE k.to)
        s == IF k.goal = "full" THEN k.start ELSE k.start2
        goal == IF k.goal = "full" THEN "oldpar" ELSE "newpar"
    IN
    /\ At(t, {"rename"}, "full") \/ At(t, {"rename"}, "oldpar")
    /\ IF k.cur = 0 THEN RenameOut(t, dc, k)
       ELSE /\ IF p = <<>>
               THEN Goto(t, [found EXCEPT !.cur = s, !.goal = goal], dentry_get(dc, s))
               ELSE Lookup(t, found, dc, s, p, goal)
            /\ UNCHANGED locks
    /\ UNCHANGED <<world, space, procs>>

\* A dentry and everything above it, inside its file system.
Above(c, d) ==
    LET up[n \in 0 .. 2 * MaxDepth] ==
            IF n = 0 THEN {d} ELSE {c.de[x].parent : x \in up[n - 1] \ {0}}
    IN UNION {up[n] : n \in 0 .. 2 * MaxDepth} \ {0}

RenameCheck(t) ==
    LET k == call[t]
        k1 == [k EXCEPT !.par2 = k.cur, !.cur = 0]
        target == Named(dc, k.cur, Last(k.to))
        refused == \/ dc.de[k.par].sb # dc.de[k.cur].sb
                   \/ IsDir(dc, k.old) /\ k.old \in Above(dc, k.cur)
                   \/ target # {} /\ k.old \notin target
    IN
    /\ At(t, {"rename"}, "newpar")
    /\ IF k.cur = 0 \/ refused THEN RenameOut(t, dc, k1)
       ELSE Goto(t, [k1 EXCEPT !.pc = "rename"], dc) /\ UNCHANGED locks
    /\ UNCHANGED <<world, space, procs>>

\* Mutation: the dentry keeps the name it had.
FsRename_OldName(t) ==
    LET k == call[t]
        d == dc.de[k.old]
        hit == {e \in ent : e[1] = dc.de[k.par].node /\ e[3] = d.node}
        moved == [dentry_get(dentry_put(dc, k.par), k.par2) EXCEPT
                  !.de[k.old].parent = k.par2, !.de[k.old].linked = TRUE]
    IN
    /\ k.pc = "rename"
    /\ \/ (d.sb = "D" \/ hit = {} \/ MayFail(k.par)) /\ RenameOut(t, dc, k) /\ UNCHANGED ent
       \/ /\ d.sb # "D"
          /\ \E e \in hit :
                ent' = (ent \ {e}) \union {<<dc.de[k.par2].node, Last(k.to), d.node>>}
          /\ RenameOut(t, moved, k)
    /\ UNCHANGED <<world, sbp, part, fsref, made, procs>>

\* The file system moves the entry, then the dentry changes parent and name.
FsRename(t) ==
    LET k == call[t]
        d == dc.de[k.old]
        hit == {e \in ent : e[1] = dc.de[k.par].node /\ e[3] = d.node}
        moved == [dentry_get(dentry_put(dc, k.par), k.par2) EXCEPT
                  !.de[k.old].parent = k.par2, !.de[k.old].linked = TRUE,
                  !.de[k.old].name = Last(k.to)]
    IN
    /\ k.pc = "rename"
    /\ \/ (d.sb = "D" \/ hit = {} \/ MayFail(k.par)) /\ RenameOut(t, dc, k) /\ UNCHANGED ent
       \/ /\ d.sb # "D"
          /\ \E e \in hit :
                ent' = (ent \ {e}) \union {<<dc.de[k.par2].node, Last(k.to), d.node>>}
          /\ RenameOut(t, moved, k)
    /\ UNCHANGED <<world, sbp, part, fsref, made, procs>>

-----------------------------------------------------------------------------
(* chdir and getcwd                                                        *)

\* Mutation: the super block of the new directory is not counted as used.
ChdirFound_NotCounted(t) ==
    LET k == call[t] IN
    /\ At(t, {"chdir"}, "full")
    /\ IF k.cur = 0 \/ ~IsDir(dc, k.cur)
       THEN Return(t, dentry_put(dc, k.cur)) /\ UNCHANGED <<cwd, fsref>>
       ELSE /\ Return(t, dentry_put(dc, cwd[t]))
            /\ cwd' = [cwd EXCEPT ![t] = k.cur]
            /\ fsref' = [fsref EXCEPT ![dc.de[cwd[t]].sb] = @ - 1]
    /\ UNCHANGED <<world, ent, sbp, part, made, fds, files>>

ChdirFound(t) ==
    LET k == call[t] IN
    /\ At(t, {"chdir"}, "full")
    /\ IF k.cur = 0 \/ ~IsDir(dc, k.cur)
       THEN Return(t, dentry_put(dc, k.cur)) /\ UNCHANGED <<cwd, fsref>>
       ELSE /\ Return(t, dentry_put(dc, cwd[t]))
            /\ cwd' = [cwd EXCEPT ![t] = k.cur]
            /\ fsref' = LET up == [fsref EXCEPT ![dc.de[k.cur].sb] = @ + 1]
                        IN [up EXCEPT ![dc.de[cwd[t]].sb] = @ - 1]
    /\ UNCHANGED <<world, ent, sbp, part, made, fds, files>>

\* sys_getcwd takes no lock and no references: it goes up first, and reads the names then.
Getcwd(t) ==
    /\ call[t] = Idle /\ cwd[t] # 0 /\ "getcwd" \in world.does
    /\ made < world.budget /\ made' = made + 1
    /\ call' = [call EXCEPT ![t] = [Idle EXCEPT !.op = "getcwd", !.pc = "climb", !.at = cwd[t]]]
    /\ UNCHANGED <<world, dc, ent, sbp, part, fsref, locks, procs>>

GetcwdLost(t) == Return(t, Bad(dc, IF call[t].stirred THEN "getcwd" ELSE "other"))

GetcwdClimb(t) ==
    LET k == call[t]
        x == Mounted(k.at)
    IN
    /\ k.pc = "climb" /\ k.at # Root
    /\ IF k.at = 0 \/ dc.de[k.at].st = "free" THEN GetcwdLost(t)
       ELSE IF x = 0 THEN Return(t, dc)
       ELSE /\ Goto(t, [k EXCEPT !.at = dc.de[x].parent, !.chain = <<x>> \o @], dc)
            /\ UNCHANGED locks
    /\ UNCHANGED <<world, space, procs>>

GetcwdNames(t) ==
    LET k == call[t] IN
    /\ k.pc = "climb" /\ k.at = Root
    /\ IF \E d \in Range(k.chain) : dc.de[d].st = "free" THEN GetcwdLost(t)
       ELSE /\ Goto(t, [k EXCEPT !.path = [i \in DOMAIN k.chain |-> dc.de[k.chain[i]].name],
                                 !.pc = "answer"], dc)
            /\ UNCHANGED locks
    /\ UNCHANGED <<world, space, procs>>

GetcwdAnswer(t) ==
    /\ call[t].pc = "answer" /\ Return(t, dc)
    /\ UNCHANGED <<world, space, procs>>

-----------------------------------------------------------------------------
(* mount, umount, reload_partition                                         *)

MountDevice(t) ==
    LET k == call[t] IN
    /\ At(t, {"mount"}, "full")
    /\ IF k.cur = 0 THEN Return(t, dc)
       ELSE IF dc.de[k.cur].node[1] # "part" \/ part.mounted THEN Return(t, dentry_put(dc, k.cur))
       ELSE /\ Lookup(t, [k EXCEPT !.old = k.cur], dc, Root, k.to, "at")
            /\ UNCHANGED locks
    /\ UNCHANGED <<world, space, procs>>

\* The checks of __vfs_mount_locked; the super block is created and its device says so.
MountAt(t) ==
    LET k == call[t]
        refused == \/ dc.de[k.cur].mp # "" \/ ~IsDir(dc, k.cur)
                   \/ k.cur = RootOf(dc.de[k.cur].sb) \/ Children(dc, k.cur) # {}
    IN
    /\ At(t, {"mount"}, "at")
    /\ IF k.cur = 0 \/ refused
       THEN Return(t, Puts(dc, <<k.cur, k.old>>)) /\ UNCHANGED part
       ELSE /\ Goto(t, [k EXCEPT !.par = k.cur, !.cur = 0, !.pc = "rootio"], dc)
            /\ part' = [part EXCEPT !.mounted = TRUE] /\ UNCHANGED locks
    /\ UNCHANGED <<world, ent, sbp, fsref, made, procs>>

\* read_root_inode has read the super block: the root dentry, the mount point's flag.
\* The device keeps the reference of the lookup.
MountDone(t) ==
    LET k == call[t]
        root == Min(Unused(dc))
        c == dentry_create(dc, "/", "P", <<"dir", 1>>)
    IN
    /\ k.pc = "rootio" /\ Unused(dc) # {}
    /\ Return(t, [c EXCEPT !.de[k.par].mp = "P"])
    /\ sbp' = [st |-> "on", root |-> root, mountpoint |-> k.par, held |-> k.old]
    /\ fsref' = [fsref EXCEPT ![dc.de[k.par].sb] = @ + 1, !["P"] = 0]
    /\ UNCHANGED <<world, ent, part, made, procs>>

\* No root: the file system is unknown, its root inode cannot be read, or there is no
\* dentry for it.  super_block_destroy goes through put_super, which after a failed
\* read_root_inode is handed memory that was freed; mounted_sb stays set.
MountFails(t) ==
    LET k == call[t] IN
    /\ k.pc = "rootio"
    /\ \E c \in {dc, Bad(dc, "mount")} : Return(t, Puts(c, <<k.par, k.old>>))
    /\ UNCHANGED <<world, space, procs>>

\* umount refuses a super block in use.  The mount point is given back, every dentry of
\* the partition deleted (umount_cleanup_dentry), and the super block destroyed then.
UmountFound(t) ==
    LET k == call[t]
        isRoot == k.cur = RootOf(dc.de[k.cur].sb)
        m == IF isRoot THEN MountpointOf(dc.de[k.cur].sb) ELSE k.cur
        c == IF isRoot THEN dentry_put(dentry_get(dc, m), k.cur) ELSE dc
        cleared == dentry_put([c EXCEPT !.de[m].mp = ""], m)
        all == Below(dc, sbp.root)
    IN
    /\ At(t, {"umount"}, "full")
    /\ IF k.cur = 0 THEN Return(t, dc) /\ UNCHANGED sbp
       ELSE IF dc.de[m].mp # "P" \/ fsref["P"] # 0
       THEN Return(t, dentry_put(c, m)) /\ UNCHANGED sbp
       ELSE /\ Goto(t, [k EXCEPT !.par = m, !.cur = 0, !.dying = all, !.pc = "delete"],
                    FoldLeft(dentry_get, cleared, all))
            /\ sbp' = [sbp EXCEPT !.st = "leaving", !.mountpoint = 0]
            /\ UNCHANGED locks
    /\ UNCHANGED <<world, ent, part, fsref, made, procs>>

Umounted(t) ==
    LET k == call[t]
        gone == [d \in Ids |-> IF dc.de[d].sb = "P" THEN [dc.de[d] EXCEPT !.sb = "X"] ELSE dc.de[d]]
    IN
    /\ k.pc = "destroy"
    /\ Return(t, Puts([dc EXCEPT !.de = gone], <<k.par, part.dentry>>))
    /\ sbp' = NoSb
    /\ fsref' = [fsref EXCEPT ![dc.de[k.par].sb] = @ - 1]
    /\ part' = [part EXCEPT !.mounted = FALSE]
    /\ UNCHANGED <<world, ent, made, procs>>

\* A partition's node in devfs.
devfs_unregister(c, d) == [c EXCEPT !.de[d].linked = FALSE]
devfs_block_register(c) ==
    dentry_set_parent(dentry_create(c, "sda1", "D", <<"part", 0>>), DevRoot, Min(Unused(c)))

\* reload_partition: nobody else may hold the disk or its partition; the partition's
\* node in devfs goes, and the table is read again.
ReloadFound(t) ==
    LET k == call[t]
        refused == \/ dc.de[k.cur].node[1] # "disk" \/ dc.de[k.cur].ref # 2
                   \/ part.dentry # 0 /\ dc.de[part.dentry].ref # 1
        old == part.dentry
    IN
    /\ At(t, {"reload"}, "full")
    /\ IF k.cur = 0 \/ refused THEN Return(t, dentry_put(dc, k.cur)) /\ UNCHANGED part
       ELSE /\ IF old = 0 THEN Goto(t, [k EXCEPT !.pc = "scan"], dc)
               ELSE Goto(t, [k EXCEPT !.dying = <<old>>, !.pc = "delete"], devfs_unregister(dc, old))
            /\ part' = [dentry |-> 0, mounted |-> FALSE] /\ UNCHANGED locks
    /\ UNCHANGED <<world, ent, sbp, fsref, made, procs>>

\* The scan finds the partition again (devfs_block_register), or finds none.
Reloaded(t) ==
    LET k == call[t]
        new == Min(Unused(dc))
    IN
    /\ k.pc = "scan"
    /\ \/ Return(t, dentry_put(dc, k.cur)) /\ UNCHANGED part
       \/ /\ Unused(dc) # {} /\ Return(t, dentry_put(devfs_block_register(dc), k.cur))
          /\ part' = [dentry |-> new, mounted |-> FALSE]
    /\ UNCHANGED <<world, ent, sbp, fsref, made, procs>>

-----------------------------------------------------------------------------
(* Descriptors and processes                                               *)

Running(t) == call[t] = Idle /\ cwd[t] # 0

\* fd_close and vfs_close: the last descriptor of a file gives up its dentry, and its
\* count on the super block after that (sb_put).  The call goes on as k.
vfs_close(t, k, i) ==
    LET f == fds[t][i]
        d == files[f].dentry
        last == files[f].ref = 1
    IN /\ fds' = [fds EXCEPT ![t][i] = 0]
       /\ files' = [files EXCEPT ![f] = IF last THEN [dentry |-> 0, ref |-> 0]
                                        ELSE [@ EXCEPT !.ref = @ - 1]]
       /\ Goto(t, IF last THEN [k EXCEPT !.sb = dc.de[d].sb] ELSE k,
                IF last THEN dentry_put(dc, d) ELSE dc)

Closed(t) ==
    /\ call[t].sb # ""
    /\ fsref' = [fsref EXCEPT ![call[t].sb] = @ - 1]
    /\ call' = [call EXCEPT ![t].sb = ""]
    /\ UNCHANGED <<world, dc, ent, sbp, part, made, locks, procs>>

Close(t, i) ==
    /\ "close" \in world.does /\ Running(t) /\ fds[t][i] # 0
    /\ vfs_close(t, [Idle EXCEPT !.op = "close", !.pc = "return"], i)
    /\ UNCHANGED <<world, space, locks, cwd>>

\* dup: the lowest free descriptor.  dup2: descriptor j, closed first.
Dup(t, i, j) ==
    LET f == fds[t][i]
        k == [Idle EXCEPT !.op = "dup", !.pc = "install", !.file = f, !.fd = j]
    IN
    /\ "dup" \in world.does /\ Running(t) /\ f # 0 /\ fds[t][j] # f
    /\ IF fds[t][j] = 0 THEN Goto(t, k, dc) /\ UNCHANGED <<fds, files>> ELSE vfs_close(t, k, j)
    /\ UNCHANGED <<world, space, locks, cwd>>

DupInstall(t) ==
    LET k == call[t] IN
    /\ k.pc = "install"
    /\ fds' = [fds EXCEPT ![t][k.fd] = k.file]
    /\ files' = [files EXCEPT ![k.file].ref = @ + 1]
    /\ call' = [call EXCEPT ![t] = Idle]
    /\ UNCHANGED <<world, dc, space, locks, cwd>>

\* put_thread and fork_enter: the child shares the directory and the files.
Fork(t, u) ==
    LET shared(f) == Cardinality({i \in Fds : fds[t][i] = f}) IN
    /\ "fork" \in world.does /\ Running(t) /\ call[u] = Idle /\ cwd[u] = 0
    /\ cwd' = [cwd EXCEPT ![u] = cwd[t]]
    /\ dc' = dentry_get(dc, cwd[t])
    /\ fds' = [fds EXCEPT ![u] = fds[t]]
    /\ files' = [f \in FileIds |-> [files[f] EXCEPT !.ref = @ + shared(f)]]
    /\ fsref' = [fsref EXCEPT ![dc.de[cwd[t]].sb] = @ + 1]
    /\ UNCHANGED <<world, ent, sbp, part, made, locks, call>>

\* free_task: every descriptor, then the count on the super block of the directory, then
\* the directory; no lock is held.
Exit(t) ==
    /\ "fork" \in world.does /\ Running(t)
    /\ \E u \in Tasks \ {t} : cwd[u] # 0 /\ call[u].op # "exit"
    /\ call' = [call EXCEPT ![t] = [Idle EXCEPT !.op = "exit", !.pc = "closing"]]
    /\ UNCHANGED <<world, dc, space, locks, procs>>

ExitClose(t) ==
    LET open == {i \in Fds : fds[t][i] # 0} IN
    /\ call[t].pc = "closing" /\ open # {}
    /\ vfs_close(t, call[t], Min(open))
    /\ UNCHANGED <<world, space, locks, cwd>>

ExitLeave(t) ==
    /\ call[t].pc = "closing" /\ \A i \in Fds : fds[t][i] = 0
    /\ fsref' = [fsref EXCEPT ![dc.de[cwd[t]].sb] = @ - 1]
    /\ call' = [call EXCEPT ![t].pc = "left"]
    /\ UNCHANGED <<world, dc, ent, sbp, part, made, locks, procs>>

ExitLeft(t) ==
    /\ call[t].pc = "left" /\ Return(t, dentry_put(dc, cwd[t]))
    /\ cwd' = [cwd EXCEPT ![t] = 0]
    /\ UNCHANGED <<world, space, fds, files>>

-----------------------------------------------------------------------------
(* dentry_cache_task: take the oldest dentry off the list, then free it if *)
(* nobody refers to it, or put it back                                     *)

EvictTake ==
    LET k == [Idle EXCEPT !.op = "evict", !.pc = "decide", !.at = Head(dc.lru)] IN
    /\ "evict" \in world.does /\ call[Cache] = Idle /\ dc.num > CacheSize /\ ListFree
    /\ IF dc.lru = <<>> THEN dc' = Bad(dc, "other") /\ UNCHANGED call
       ELSE Goto(Cache, k, [dc EXCEPT !.lru = Tail(@)])
    /\ UNCHANGED <<world, space, locks, procs>>


\* The decision is taken, and the dentry unlinked, under the parent's i_meta_lock.
EvictDecide ==
    LET k == call[Cache]
        d == dc.de[k.at]
        out == [dc EXCEPT !.de[k.at].linked = FALSE, !.de[k.at].parent = 0]
    IN
    /\ k.pc = "decide"
    /\ \/ d.st = "free" /\ dc' = Bad(dc, "evict") /\ UNCHANGED call
       \/ /\ d.st = "live" /\ d.ref = 0
          /\ Goto(Cache, [k EXCEPT !.pc = "free"], dentry_put(out, d.parent))
       \/ /\ d.st = "live" /\ d.ref # 0 /\ ListFree
          /\ Goto(Cache, Idle, [dc EXCEPT !.lru = Append(@, k.at)])
    /\ UNCHANGED <<world, space, locks, procs>>

EvictFree ==
    LET k == call[Cache]
        d == dc.de[k.at]
    IN
    /\ k.pc = "free"
    /\ IF d.st = "free" THEN dc' = Bad(dc, "evict") /\ UNCHANGED call
       ELSE Goto(Cache, Idle, Discard([IF d.sb = "X" THEN Bad(dc, "umount") ELSE dc
                                       EXCEPT !.num = @ - 1], k.at))
    /\ UNCHANGED <<world, space, locks, procs>>

-----------------------------------------------------------------------------
(* init_vfs_mgr has mounted devfs and made /mnt; the disk is registered;   *)
(* in a mounted world sys_mount has been called, and when it says so every *)
(* process has changed to /mnt.  A world names the calls, the other        *)
(* operations and the entries.                                             *)

PRoot == 7
Dentries(w) ==
    LET inside == IF w.inside THEN w.alive ELSE 0
        outside == w.alive - inside
    IN [d \in Ids |->
          CASE d = Root -> [Fresh("/", "R", <<"dir", -1>>) EXCEPT !.ref = 4 + outside]
            [] d = Dev -> [Fresh("dev", "R", <<"dir", -2>>) EXCEPT
                           !.parent = Root, !.linked = TRUE, !.bit = TRUE, !.mp = "D"]
            [] d = DevRoot -> [Fresh("/", "D", <<"dir", -3>>) EXCEPT !.ref = 3]
            [] d = Mnt -> [Fresh("mnt", "R", <<"dir", -4>>) EXCEPT
                           !.parent = Root, !.linked = TRUE, !.bit = TRUE,
                           !.ref = IF w.mounted THEN 1 ELSE 0,
                           !.mp = IF w.mounted THEN "P" ELSE ""]
            [] d = Disk -> [Fresh("sda", "D", <<"disk", 0>>) EXCEPT
                            !.parent = DevRoot, !.linked = TRUE]
            [] d = Disk + 1 -> [Fresh("sda1", "D", <<"part", 0>>) EXCEPT
                                !.parent = DevRoot, !.linked = TRUE,
                                !.ref = IF w.mounted THEN 2 ELSE 1]
            [] d = PRoot /\ w.mounted -> [Fresh("/", "P", <<"dir", 1>>) EXCEPT !.ref = 1 + inside]
            [] OTHER -> NoDentry]

Init ==
    /\ world \in Worlds
    /\ dc = [de |-> Dentries(world), lru |-> <<Dev, Mnt>>, num |-> 2, low |-> 0, bad |-> "",
             due |-> <<>>, win |-> 0]
    /\ made = 0
    /\ ent = world.entries \union {<<<<"dir", -1>>, "dev", <<"dir", -2>>>>,
                                   <<<<"dir", -1>>, "mnt", <<"dir", -4>>>>}
    /\ sbp = IF world.mounted
             THEN [st |-> "on", root |-> PRoot, mountpoint |-> Mnt, held |-> Disk + 1]
             ELSE NoSb
    /\ part = [dentry |-> Disk + 1, mounted |-> world.mounted]
    /\ fsref = [R |-> 2 + (IF world.mounted THEN 1 ELSE 0) + (IF world.inside THEN 0 ELSE world.alive),
                D |-> 0, P |-> IF world.inside THEN world.alive ELSE 0]
    /\ locks = [l \in {"mount", "ns"} |-> [w |-> {}, r |-> {}]]
    /\ \E alive \in kSubset(world.alive, Tasks) :
          cwd = [t \in Tasks |-> IF t \notin alive THEN 0
                                 ELSE IF world.inside THEN PRoot ELSE Root]
    /\ fds = [t \in Tasks |-> [i \in Fds |-> 0]]
    /\ files = [f \in FileIds |-> [dentry |-> 0, ref |-> 0]]
    /\ call = [t \in Everyone |-> Idle]

Calls(t) ==
    \E op \in DOMAIN world.calls : \E p \in world.calls[op] :
        \E q \in IF op \in {"rename", "mount"} THEN world.targets ELSE {<<>>} : Begin(t, op, p, q)

\* A put that took a count to zero, an inode being deleted and vfs_close come first.
Ready(t) == call[t].win = 0 /\ call[t].purge = "" /\ call[t].sb = ""
PutStep(t) == PutZero(t) \/ PutBit(t) \/ PutLock(t) \/ PutClear(t) \/ Purged(t)
CloseStep(t) == call[t].win = 0 /\ call[t].purge = "" /\ Closed(t)

DeleteStep(t) == DeleteMark(t) \/ DeleteUnlist(t) \/ Returned(t)
LookupStep(t) == Enter(t) \/ WalkCached(t) \/ WalkMiss(t) \/ Looked(t)
OpenStep(t) == OpenFound(t) \/ OpenMissing(t) \/ OpenParent(t) \/ FsMake(t) \/ OpenMade(t)
NameStep(t) ==
    \/ MkdirFull(t) \/ MkdirParent(t) \/ Mkdirred(t)
    \/ RemoveFound(t) \/ FsRemove(t) \/ RemoveUnlock(t)
    \/ TruncateFound(t) \/ Truncated(t)
    \/ RenameLookup(t) \/ RenameCheck(t) \/ FsRename(t) \/ ChdirFound(t)
    \/ Getcwd(t) \/ GetcwdClimb(t) \/ GetcwdNames(t) \/ GetcwdAnswer(t)
MountStep(t) ==
    \/ MountDevice(t) \/ MountAt(t) \/ MountDone(t) \/ MountFails(t)
    \/ UmountFound(t) \/ Umounted(t) \/ ReloadFound(t) \/ Reloaded(t)
FdStep(t) == \/ \E i \in Fds : Close(t, i) \/ \E j \in Fds : Dup(t, i, j)
             \/ DupInstall(t)
             \/ \E u \in Tasks : Fork(t, u)
             \/ Exit(t) \/ ExitClose(t) \/ ExitLeave(t) \/ ExitLeft(t)

TaskStep(t) == \/ Calls(t) \/ DeleteStep(t) \/ LookupStep(t) \/ OpenStep(t) \/ NameStep(t)
               \/ MountStep(t) \/ FdStep(t)

\* The bound on the calls is reached and every call has returned, or memory was used
\* that was given back.
Finished == /\ \/ made = world.budget /\ \A t \in Tasks : call[t] = Idle
               \/ dc.bad # ""
            /\ UNCHANGED vars

Next == \/ /\ dc.bad = ""
           /\ \/ \E t \in Everyone : PutStep(t)
              \/ \E t \in Tasks : CloseStep(t) \/ (Ready(t) /\ TaskStep(t))
              \/ Ready(Cache) /\ (EvictTake \/ EvictDecide \/ EvictFree)
        \/ Finished

Spec == Init /\ [][Next]_vars

-----------------------------------------------------------------------------
(* Properties                                                              *)

\* Type invariant: reference counts never go below zero, pointers lead into the
\* table of dentries or the table of files.
TypeOK ==
    /\ world \in Worlds /\ made \in 0 .. world.budget
    /\ dc.num \in Int /\ dc.low \in Nat /\ dc.due = <<>> /\ dc.win = 0 /\ dc.lru \in Seq(Ids)
    /\ cwd \in [Tasks -> Ids \union {0}] /\ fds \in [Tasks -> [Fds -> FileIds \union {0}]]
    /\ \A d \in Ids : dc.de[d].ref \in Nat /\ dc.de[d].parent \in Ids \union {0}
    /\ \A f \in FileIds : files[f].ref \in Nat /\ files[f].dentry \in Ids \union {0}
    /\ \A s \in DOMAIN fsref : fsref[s] \in Nat

\* The dentries the locals of a call refer to, one reference for each: what it works on,
\* what it still has to delete and what it still has to put.
Locals(k) == <<k.start, k.start2, k.cur, k.tmp, k.old, k.par, k.par2>> \o k.dying \o k.due

\* The root of a file system that was unmounted: umount_cleanup_dentry drops only the
\* reference it took itself, so the one of the super block keeps it allocated.
LeakedRoot(d) == dc.de[d].parent = 0 /\ dc.de[d].node = <<"dir", 1>> /\ dc.de[d].sb = "X"

\* Who holds references to d: directories of processes, calls, open files, children,
\* the mount, and what init_vfs_mgr and the devices keep.  held are the locals.
Holders(d, held) ==
    LET ofTasks == {t \in Tasks : cwd[t] = d}
        ofCalls == UNION {{t} \X {i \in DOMAIN held[t] : held[t][i] = d} : t \in Everyone}
        ofFiles == {f \in FileIds : files[f].dentry = d}
        below == {x \in Live(dc) : dc.de[x].parent = d}
        fixed == (IF d = Root THEN 2 ELSE 0) + (IF d \in {Dev, DevRoot, Disk} THEN 1 ELSE 0)
                 + (IF d = part.dentry THEN 1 ELSE 0) + (IF LeakedRoot(d) THEN 1 ELSE 0)
        ofMount == {x \in DOMAIN sbp \ {"st"} : sbp[x] = d}
    IN Cardinality(ofTasks) + Cardinality(ofCalls) + Cardinality(ofFiles)
       + Cardinality(below) + Cardinality(ofMount) + fixed

\* The dentry the cache task has taken off the list, and those of the puts under way.
Popped == {call[Cache].at} \ {0}
InPut == {call[t].win : t \in Everyone} \ {0}

\* dentry_cache_num counts the list and the dentry the cache task has, less the deletes
\* of dentries that were marked as listed and not on the list; a dentry without references
\* is on the list unless a put still has it, or found it marked by another put that
\* cleared the mark again.
CacheListExact ==
    /\ dc.num = Len(dc.lru) + Cardinality(Popped) - dc.low
    /\ IsInjective(dc.lru) /\ Range(dc.lru) \intersect Popped = {}
    /\ \A d \in Live(dc) : dc.de[d].ref = 0 =>
          d \in Range(dc.lru) \union Popped \union InPut \/ dc.de[d].off


\* A call inside an operation of the partition's file system.
InPartition(k) == /\ k.pc \in {"look", "create", "made", "remove", "rename"}
                  /\ \E x \in {k.cur, k.par} \ {0} : dc.de[x].sb \in {"P", "X"}


\* The dentry dentry_cache_task has taken off the list is still there when it looks at
\* it again, and the release of it is safe, as the comment at fs.c:980 says.
EvictionSafe == dc.bad # "evict"

\* What getcwd returns leads back: looked up from the root it is the directory, both
\* through the lists of children and through the entries on disk, if no rename, mount or
\* umount changed the path while getcwd, which takes no lock, was on its way, and no
\* other file system is mounted over the directory.  Worlds with creat are left out: two
\* dentries of one name can be made there (vfs_open unlocks the namespace before it
\* creates).
GetcwdLeadsBack ==
    "creat" \notin DOMAIN world.calls =>
    \A t \in Tasks : LET k == call[t] IN
        k.pc = "answer" /\ ~k.stirred /\ dc.de[cwd[t]].mp = "" =>
        LET onDisk(d, x) == <<dc.de[d].node, dc.de[x].name, dc.de[x].node>> \in ent
            go(d, name) ==
                LET next == {x \in Named(dc, d, name) : onDisk(d, x)} IN
                IF Cardinality(next) # 1 THEN 0
                ELSE LET x == CHOOSE x \in next : TRUE
                     IN IF dc.de[x].mp = "" THEN x ELSE RootOf(dc.de[x].mp)
        IN FoldLeft(LAMBDA d, name : IF d = 0 THEN 0 ELSE go(d, name), Root, k.path) = cwd[t]
=============================================================================
