------------------------------- MODULE MCVfs --------------------------------
(***************************************************************************)
(* The virtual file system and ramfs for TLC.  A behaviour picks one of    *)
(* the two (`which`); the other stays at its initial state.  A world of    *)
(* Vfs is a set of calls that processes make in any order.                 *)
(***************************************************************************)
EXTENDS Vfs, TLC

CONSTANTS FileNames, MaxSlots, MaxLength

VARIABLES which, does, node, entry, obj, file, damaged, written

Sets == {{"create", "write", "unlink"},
         {"create", "unlink", "rename", "mkdir", "rmdir"},
         {"create", "mkdir", "evict"}}

R == INSTANCE Ramfs WITH Repertoires <- Sets

ramVars == <<does, node, entry, obj, file, damaged, written>>

Symmetry == Permutations(Tasks)

-----------------------------------------------------------------------------
(* Worlds.  In a mounted one the processes start in the root of the        *)
(* partition, or at the root of all.                                       *)

Dir(n) == <<"dir", n>>
World(calls, targets, others, start, alive, budget, entries) ==
    [calls |-> calls, targets |-> targets, does |-> others, mounted |-> start # "unmounted",
     inside |-> start = "inside", alive |-> alive, budget |-> budget, entries |-> entries]

(* Files come, move and go.                                                *)
FilesWorld ==
    World([creat |-> {<<"a">>}, unlink |-> {<<"a">>}, rename |-> {<<"a">>},
           truncate |-> {<<"a">>}],
          {<<"b", "a">>}, {"close"}, "inside", 2, 3, {<<Dir(1), "b", Dir(2)>>})

(* Directories come, move and go while files are made in them and tasks    *)
(* enter them.                                                             *)
DirectoriesWorld ==
    World([excl |-> {<<"b", "a">>}, mkdir |-> {<<"b">>}, rmdir |-> {<<"b">>},
           unlink |-> {<<"b", "a">>}, rename |-> {<<"b">>}, chdir |-> {<<"b">>}],
          {<<"c">>}, {"getcwd"}, "inside", 2, 3, {<<Dir(1), "b", Dir(2)>>})

(* The partition is mounted, entered, unmounted and scanned again.         *)
MountsWorld ==
    World([mount |-> {<<"/", "dev", "sda1">>}, umount |-> {<<"/", "mnt">>},
           reload |-> {<<"/", "dev", "sda">>}, chdir |-> {<<"/", "mnt">>, <<"..">>}],
          {<<"/", "mnt">>}, {"fork", "getcwd"}, "unmounted", 1, 5, {})

(* Descriptors are shared while the partition may be unmounted.            *)
DescriptorsWorld ==
    World([umount |-> {<<"/", "mnt">>}, open |-> {<<"/", "mnt", "a">>}, chdir |-> {<<"..">>}],
          {}, {"close", "fork", "dup"}, "inside", 1, 4, {<<Dir(1), "a", <<"file", 1>>>>})

(* A process exits in a directory of the partition, which is unmounted.    *)
LeavingWorld ==
    World([umount |-> {<<"/", "mnt">>}, chdir |-> {<<"b">>, <<"..", "..">>}],
          {}, {"fork"}, "inside", 1, 3, {<<Dir(1), "b", Dir(2)>>})

(* A directory is moved up and its old parent removed while a process in   *)
(* it asks where it is.                                                    *)
PathsWorld ==
    World([chdir |-> {<<"b", "d">>}, rename |-> {<<"b", "d">>}, rmdir |-> {<<"b">>}],
          {<<"d">>}, {"getcwd"}, "inside", 2, 4,
          {<<Dir(1), "b", Dir(2)>>, <<Dir(2), "d", Dir(3)>>})

(* Unused dentries are evicted while others are looked up; nothing is      *)
(* removed.                                                                *)
EvictionWorld ==
    World([open |-> {<<"b">>}, mkdir |-> {<<"a">>, <<"a", "b">>},
           chdir |-> {<<"a">>, <<"..">>}],
          {}, {"close", "evict"}, "inside", 2, 3, {<<Dir(1), "b", <<"file", 1>>>>})

(* The partition is unmounted while files are removed and truncated in it  *)
(* from outside.                                                           *)
OutsideWorld ==
    World([umount |-> {<<"/", "mnt">>}, unlink |-> {<<"/", "mnt", "a">>},
           rmdir |-> {<<"/", "mnt", "b">>}, truncate |-> {<<"/", "mnt", "a">>}],
          {}, {}, "outside", 2, 3, {<<Dir(1), "a", <<"file", 1>>>>, <<Dir(1), "b", Dir(2)>>})

(* Unused dentries are evicted while a file is removed.                    *)
EvictionAndUnlink ==
    {World([open |-> {<<"a">>}, unlink |-> {<<"a">>}], {}, {"close", "evict"}, "inside", 2, 3,
           {<<Dir(1), "a", <<"file", 1>>>>})}

MCWorlds == {FilesWorld, DirectoriesWorld, MountsWorld, DescriptorsWorld, EvictionWorld,
             OutsideWorld, LeavingWorld, PathsWorld} \union EvictionAndUnlink

-----------------------------------------------------------------------------
VfsInit ==
    /\ which \in {"vfs", "ramfs"}
    /\ Init /\ R!Init
    /\ which = "vfs" => does = {"create", "write", "unlink"}
    /\ which = "ramfs" => world = CHOOSE w \in Worlds : TRUE

VfsNext ==
    \/ which = "vfs" /\ Next /\ UNCHANGED <<which, ramVars>>
    \/ which = "ramfs" /\ R!Next /\ UNCHANGED <<which, vars>>

VfsSpec == VfsInit /\ [][VfsNext]_<<which, vars, ramVars>>

-----------------------------------------------------------------------------
(* Type invariant of the virtual file system and of ramfs.                 *)
TypesOK == TypeOK /\ R!TypeOK

(* ramfs keeps a node exactly while an entry names it or somebody has it   *)
(* open, and a file holds what was written to it (ramfs_write,             *)
(* ramfs_setattr, ramfs_unlink, ramfs_delete).                             *)
RamfsExact == which = "ramfs" => R!NodesExact /\ R!ContentExact
=============================================================================
