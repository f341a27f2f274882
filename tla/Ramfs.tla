------------------------------- MODULE Ramfs --------------------------------
(***************************************************************************)
(* The ramfs of src/src/fs/ramfs.c below one directory: its nodes and      *)
(* their bytes, its directory entries, and the inodes through which the    *)
(* virtual file system reaches them.  An object stands for a dentry with   *)
(* its inode, which ramfs always creates together.  No operation of ramfs  *)
(* waits, so an operation is one step.  Two operations damage the list of  *)
(* nodes: rmdir frees a node twice, and the eviction of a dentry frees a   *)
(* node that an entry still names.  What the program does after that is    *)
(* not defined, and a behaviour ends there.                                *)
(***************************************************************************)
EXTENDS Integers, FiniteSets, Sequences, FiniteSetsExt, SequencesExt

CONSTANTS FileNames,    \* names in the directory
          MaxSlots,     \* objects, nodes and open files the allocator can provide
          MaxLength,    \* longest file
          Repertoires   \* sets of operations; a behaviour uses one of them

VARIABLES does,     \* the operations of this behaviour, chosen in Init
          node,     \* ino -> [st, kind, links, data], the list sbi->node_list
          entry,    \* dir_entries of the directory: set of <<name, ino>>
          obj,      \* dentry and inode: [st, name, ino, ref, size, linked]
          file,     \* open file -> [obj, pos], obj = 0 when closed
          damaged,  \* a node was freed twice, or while an entry names it
          written   \* ino -> the bytes a file should hold
rvars == <<does, node, entry, obj, file, damaged, written>>

Slots == 1 .. MaxSlots
NoNode == [st |-> "free", kind |-> "file", links |-> 0, data |-> <<>>]
NoObj == [st |-> "free", name |-> "", ino |-> 0, ref |-> 0, size |-> 0, linked |-> FALSE]
NoFile == [obj |-> 0, pos |-> 0]
Byte == 1       \* what a write stores; 0 is what a gap is filled with
Zeros(n) == [i \in 1 .. n |-> 0]

Opened(o) == {f \in Slots : file[f].obj = o}
Cached(name) == {o \in Slots : obj[o].st = "live" /\ obj[o].linked /\ obj[o].name = name}
FreeNode == {i \in Slots : node[i].st = "free"}
FreeObj == {o \in Slots : obj[o].st = "free"}
FreeFile == {f \in Slots : file[f].obj = 0}

Init ==
    /\ does \in Repertoires
    /\ node = [i \in Slots |-> NoNode] /\ entry = {}
    /\ obj = [o \in Slots |-> NoObj] /\ file = [f \in Slots |-> NoFile]
    /\ damaged = FALSE /\ written = [i \in Slots |-> <<>>]

\* inode_put n times on object o, after its fields became u and the nodes became
\* nodes.  ramfs_delete frees the node with the last reference, whatever its links.
Release(o, u, n, nodes) ==
    LET last == u.ref = n IN
    /\ obj' = [obj EXCEPT ![o] = IF last THEN NoObj ELSE [u EXCEPT !.ref = @ - n]]
    /\ node' = IF last THEN [nodes EXCEPT ![u.ino] = NoNode] ELSE nodes
    /\ damaged' = (last /\ (nodes[u.ino].st = "free" \/ \E e \in entry' : e[2] = u.ino))

Make(name, kind, ref) ==
    LET i == Min(FreeNode) IN
    /\ FreeNode # {} /\ FreeObj # {} /\ Cached(name) = {}
    /\ node' = [node EXCEPT ![i] = [st |-> "live", kind |-> kind, links |-> 1, data |-> <<>>]]
    /\ entry' = entry \union {<<name, i>>}
    /\ written' = [written EXCEPT ![i] = <<>>]
    /\ obj' = [obj EXCEPT ![Min(FreeObj)] = [st |-> "live", name |-> name, ino |-> i,
                                             ref |-> ref, size |-> 0, linked |-> TRUE]]
    /\ UNCHANGED <<does, damaged>>

\* open(O_CREAT) of a new name: ramfs_create, then the file's reference on the inode.
Create(name) ==
    /\ "create" \in does /\ FreeFile # {}
    /\ Make(name, "file", 2)
    /\ file' = [file EXCEPT ![Min(FreeFile)] = [obj |-> Min(FreeObj), pos |-> 0]]

Mkdir(name) == "mkdir" \in does /\ Make(name, "dir", 1) /\ UNCHANGED file

Open(name) ==
    /\ "create" \in does /\ FreeFile # {}
    /\ \E o \in Cached(name) :
          /\ obj' = [obj EXCEPT ![o].ref = @ + 1]
          /\ file' = [file EXCEPT ![Min(FreeFile)] = [obj |-> o, pos |-> 0]]
    /\ UNCHANGED <<does, node, entry, damaged, written>>

\* Mutation: the inode of a deleted dentry is put once, for the file only.
CloseFile_OnePut(f) ==
    LET o == file[f].obj
    IN
    /\ o # 0
    /\ UNCHANGED <<does, entry, written>>
    /\ Release(o, obj[o], 1, node)
    /\ file' = [file EXCEPT ![f] = NoFile]

\* vfs_close: the file's reference; the last one frees a deleted dentry.
CloseFile(f) ==
    LET o == file[f].obj
        last == Opened(o) = {f} /\ ~obj[o].linked
    IN
    /\ o # 0
    /\ UNCHANGED <<does, entry, written>>
    /\ Release(o, obj[o], IF last THEN 2 ELSE 1, node)
    /\ file' = [file EXCEPT ![f] = NoFile]

\* sys_unlink: the entry goes, then the dentry unless it is open.
Unlink(o) ==
    /\ "unlink" \in does /\ obj[o].st = "live" /\ obj[o].linked /\ node[obj[o].ino].kind = "file"
    /\ entry' = {e \in entry : e[1] # obj[o].name}
    /\ LET nodes == [node EXCEPT ![obj[o].ino].links = @ - 1]
           unopened == Opened(o) = {}
       IN Release(o, [obj[o] EXCEPT !.linked = FALSE], IF unopened THEN 1 ELSE 0, nodes)
    /\ UNCHANGED <<does, file, written>>

\* sys_rmdir of an empty directory nobody uses: ramfs_rmdir frees the node with its last link, then
\* the dentry and the inode go.
Rmdir(o) ==
    /\ "rmdir" \in does /\ obj[o].st = "live" /\ obj[o].linked /\ Opened(o) = {}
    /\ node[obj[o].ino].kind = "dir"
    /\ entry' = {e \in entry : e[1] # obj[o].name}
    /\ LET links == node[obj[o].ino].links - 1
           nodes == [node EXCEPT ![obj[o].ino] = IF links = 0 THEN NoNode
                                                 ELSE [@ EXCEPT !.links = links]]
       IN Release(o, [obj[o] EXCEPT !.linked = FALSE], 1, nodes)
    /\ UNCHANGED <<does, file, written>>

Rename(o, name) ==
    /\ "rename" \in does /\ obj[o].st = "live" /\ obj[o].linked /\ Cached(name) = {}
    /\ entry' = {e \in entry : e[1] # obj[o].name} \union {<<name, obj[o].ino>>}
    /\ obj' = [obj EXCEPT ![o].name = name]
    /\ UNCHANGED <<does, node, file, damaged, written>>

\* dentry_cache_task frees a dentry nobody refers to, and the inode with it.
Evict(o) ==
    /\ "evict" \in does /\ obj[o].st = "live" /\ obj[o].linked /\ Opened(o) = {}
    /\ UNCHANGED <<does, entry, file, written>>
    /\ Release(o, [obj[o] EXCEPT !.linked = FALSE], 1, node)

-----------------------------------------------------------------------------
(* The bytes of a file                                                     *)

\* n bytes at position p over the bytes s, zeros between: what a file should hold.
Patched(s, p, n) ==
    [i \in 1 .. Max({Len(s), p + n}) |->
        IF i \in p + 1 .. p + n THEN Byte ELSE IF i <= Len(s) THEN s[i] ELSE 0]

\* ramfs_write: grow to the end of the write when it lies beyond the data, then copy.
Write(f, n) ==
    LET o == file[f].obj
        i == obj[o].ino
        p == file[f].pos
        data == node[i].data
        grown == IF p + n > Len(data) THEN data \o Zeros(p + n - Len(data)) ELSE data
    IN
    /\ "write" \in does /\ o # 0 /\ p + n <= MaxLength
    /\ node' = [node EXCEPT ![i].data = [k \in DOMAIN grown |->
                                           IF k \in p + 1 .. p + n THEN Byte ELSE grown[k]]]
    /\ obj' = [obj EXCEPT ![o].size = IF p + n > Len(data) THEN p + n ELSE @]
    /\ file' = [file EXCEPT ![f].pos = p + n]
    /\ written' = [written EXCEPT ![i] = Patched(@, p, n)]
    /\ UNCHANGED <<does, entry, damaged>>

\* sys_ftruncate, ramfs_setattr: zeros behind, or a shorter copy.
Truncate(f, n) ==
    LET o == file[f].obj
        i == obj[o].ino
        data == node[i].data
    IN
    /\ "write" \in does /\ o # 0
    /\ node' = [node EXCEPT ![i].data = IF n > Len(data) THEN @ \o Zeros(n - Len(data))
                                        ELSE SubSeq(@, 1, n)]
    /\ obj' = [obj EXCEPT ![o].size = n]
    /\ written' = [written EXCEPT ![i] = [k \in 1 .. n |-> IF k <= Len(@) THEN @[k] ELSE 0]]
    /\ UNCHANGED <<does, entry, file, damaged>>

\* sys_lseek to an absolute position, or from the end; ramfs_read moves the position on.
Seek(f, p) ==
    /\ "write" \in does /\ file[f].obj # 0
    /\ file' = [file EXCEPT ![f].pos = p]
    /\ UNCHANGED <<does, node, entry, obj, damaged, written>>

ReadLength(f, n) ==
    LET o == file[f].obj
        rest == obj[o].size - file[f].pos
    IN IF node[obj[o].ino].data = <<>> \/ rest <= 0 THEN 0 ELSE Min({n, rest})

Read(f, n) ==
    /\ file[f].obj # 0 /\ Seek(f, file[f].pos + ReadLength(f, n))

Step ==
    \/ \E name \in FileNames : Create(name) \/ Mkdir(name) \/ Open(name)
    \/ \E o \in Slots : \/ Unlink(o) \/ Rmdir(o) \/ Evict(o)
                        \/ \E name \in FileNames : Rename(o, name)
    \/ \E f \in Slots : \/ CloseFile(f)
                        \/ \E n \in 0 .. MaxLength : Write(f, n) \/ Truncate(f, n) \/ Seek(f, n)
                                                    \/ Read(f, n)

\* Nothing is said of a run in which the list of nodes is damaged.
Next == (~damaged /\ Step) \/ (damaged /\ UNCHANGED rvars)

Spec == Init /\ [][Next]_rvars

\* Type invariant.
TypeOK ==
    /\ does \in Repertoires /\ damaged \in BOOLEAN
    /\ \A e \in entry : e \in FileNames \X Slots
    /\ \A i \in Slots :
          /\ node[i].st \in {"free", "live"} /\ node[i].links \in Nat
          /\ obj[i].ino \in Slots \union {0} /\ obj[i].ref \in Nat
          /\ file[i].obj \in Slots \union {0} /\ file[i].pos \in 0 .. MaxLength

\* A node is in memory exactly while an entry names it or somebody has it open: an
\* unlinked file that is open keeps its node, and nothing is left behind (ramfs_create,
\* ramfs_unlink, ramfs_delete).
NodesExact ==
    ~damaged => \A i \in Slots : (node[i].st = "live") <=>
        \/ \E e \in entry : e[2] = i
        \/ \E f \in Slots : file[f].obj # 0 /\ obj[file[f].obj].ino = i

\* A file holds the bytes written to it, with zeros where nothing was, and every inode
\* says its length; a read never goes past the data (ramfs_write, ramfs_setattr).
ContentExact ==
    \A o \in Slots : obj[o].st = "live" /\ node[obj[o].ino].st = "live" =>
        /\ node[obj[o].ino].data = written[obj[o].ino]
        /\ obj[o].size = Len(node[obj[o].ino].data)
=============================================================================
