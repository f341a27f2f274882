------------------------------- MODULE Block -------------------------------
(***************************************************************************)
(* Disks and their partitions: block_register, block_unregister, mbr_scan  *)
(* and the device files of src/src/fs/block.c, mount_root, and             *)
(* sys_reload_partition of src/src/fs/fs.c.  A scan runs at boot or under  *)
(* both locks of the VFS, with the disk's own file closed, so it is one    *)
(* step.  A sector that cannot be read or has no signature is missing from *)
(* the tables of a disk.                                                   *)
(***************************************************************************)
EXTENDS Integers, Sequences, SequencesExt, FiniteSets, TLC

CONSTANTS
    NDisks,       \* disks the drivers have registered
    LETTERS,      \* letters of a disk's name (26)
    SAFETY,       \* extended tables read after the first (32)
    W32,          \* values of a uint32_t
    Disks,        \* Disks[d]: what disk d may hold: [tables, root]
    Lbas, Lens,   \* positions and lengths of transfers
    Proc,
    MaxScans,     \* scans of a behaviour, and mounts at a time (bounds)
    MaxMounts,
    Rewritten     \* disks that are partitioned again

Disk == 0 .. NDisks - 1
NoFile == [id |-> -1, dev |-> <<>>]

VARIABLES
    content,      \* what the disks hold
    mgr,          \* block_mgr and devfs: [dev, childs, list, nodes, id]
    scanned,      \* the content at a disk's last scan
    files,        \* device file a process has open, and the device it opened
    mounted,      \* partitions sys_mount holds a reference for
    root,         \* the partition mount_root mounted, without one
    astray,       \* a transfer has left the partition that was opened
    phase,        \* "boot", "scanned", "up"; "halted", "stuck" or "lost" at the end
    scans

vars == <<content, mgr, scanned, files, mounted, root, astray, phase, scans>>

-----------------------------------------------------------------------------
(* Devices.                                                                *)

\* "a" to "z", then "aa": digits without a zero
RECURSIVE disk_index_to_name(_)
disk_index_to_name(index) ==
    (IF index < LETTERS THEN <<>> ELSE disk_index_to_name(index \div LETTERS - 1))
        \o <<index % LETTERS>>

\* sda is <<"a">>, 0 and sda1 is <<"a">>, 1
NameOf(dev) == <<disk_index_to_name(dev.disk), dev.index>>

\* The id, the lists and the device file; a name that exists gets no second file.
block_register(m, dev) ==
    [dev |-> m.dev @@ (m.id :> dev),
     childs |-> IF dev.index = 0 THEN m.childs
                ELSE [m.childs EXCEPT ![dev.disk] = Append(@, m.id)],
     list |-> Append(m.list, m.id),
     nodes |-> m.nodes @@ (NameOf(dev) :> m.id),
     id |-> m.id + 1]

HasNode(m, id) == \E n \in DOMAIN m.nodes : m.nodes[n] = id

\* The file goes by its name, the memory is freed; block_list keeps its entry.
block_unregister(m, id) ==
    LET name == NameOf(m.dev[id])
    IN  [m EXCEPT
           !.dev = [i \in DOMAIN m.dev \ {id} |-> m.dev[i]],
           !.childs[m.dev[id].disk] = Remove(@, id),
           !.nodes = [n \in DOMAIN m.nodes \ {name} |-> m.nodes[n]]]

Whole(d) == [disk |-> d, index |-> 0, start |-> 0, count |-> W32, root |-> FALSE]

\* read_uuid looks for a super block at the start of a Linux partition
Partition(d, index, start, e, c) ==
    [disk |-> d, index |-> index, start |-> start, count |-> e.count,
     root |-> e.kind = "linux" /\ start \in c.root]

-----------------------------------------------------------------------------
(* The scan.                                                               *)

Used(e) == e.kind # "none" /\ e.count # 0

load_primary_partition(m, d, c, i, e) ==
    IF e.count = 0 THEN m ELSE block_register(m, Partition(d, i, e.start, e, c))

\* mutation: the next table is looked for from the last one
NextTable_Chained(base, at, next) == (at + next.start) % W32

NextTable(base, at, next) == (base + next.start) % W32

\* The loop of scan_extended: a logical partition starts behind its own table, the
\* next table is counted from the first one.
RECURSIVE ScanFrom(_, _, _, _, _, _, _)
ScanFrom(m, d, c, base, at, index, safety) ==
    IF safety > SAFETY \/ at \notin DOMAIN c.tables THEN m
    ELSE LET e == c.tables[at][1]
             next == c.tables[at][2]
             m2 == IF ~Used(e) THEN m
                   ELSE block_register(m, Partition(d, index, (at + e.start) % W32, e, c))
             index2 == IF Used(e) THEN index + 1 ELSE index
         IN  IF ~Used(next) THEN m2
             ELSE ScanFrom(m2, d, c, base, NextTable(base, at, next), index2, safety + 1)

scan_extended(m, d, c, base) == ScanFrom(m, d, c, base, base, 5, 0)

\* No table, or one that protects a GPT: nothing.  Otherwise the entries in order.
mbr_scan(m, d, c) ==
    IF 0 \notin DOMAIN c.tables THEN m
    ELSE LET entry == c.tables[0]
             Step(m2, i) ==
                 CASE entry[i].kind = "none" -> m2
                   [] entry[i].kind = "ext" -> scan_extended(m2, d, c, entry[i].start)
                   [] OTHER -> load_primary_partition(m2, d, c, i, entry[i])
         IN  IF \E i \in 1 .. 4 : entry[i].kind = "gpt" THEN m
             ELSE FoldLeft(Step, m, <<1, 2, 3, 4>>)

-----------------------------------------------------------------------------
(* Boot.                                                                   *)

\* init_block, and the drivers' block_register of every disk
Init ==
    /\ content \in [Disk -> UNION {Disks[d] : d \in Disk}]
    /\ \A d \in Disk : content[d] \in Disks[d]
    /\ mgr = FoldLeft(block_register,
                      [dev |-> <<>>, childs |-> [d \in Disk |-> <<>>], list |-> <<>>,
                       nodes |-> <<>>, id |-> 0],
                      [i \in 1 .. NDisks |-> Whole(i - 1)])
    /\ scanned = content
    /\ files = [p \in Proc |-> NoFile] /\ mounted = {} /\ root = -1
    /\ astray = FALSE /\ phase = "boot" /\ scans = 0

read_partitions ==
    /\ phase = "boot" /\ phase' = "scanned"
    /\ mgr' = FoldLeft(LAMBDA m, i : mbr_scan(m, i - 1, content[i - 1]), mgr,
                       [i \in 1 .. NDisks |-> i])
    /\ UNCHANGED <<content, scanned, files, mounted, root, astray, scans>>

\* The first partition of block_list with the uuid of the root; without one, halt().
mount_root ==
    LET found == SelectSeq(mgr.list, LAMBDA id : mgr.dev[id].root)
    IN  /\ phase = "scanned"
        /\ IF found = <<>> THEN phase' = "halted" /\ UNCHANGED root
           ELSE phase' = "up" /\ root' = Head(found)
        /\ UNCHANGED <<content, mgr, scanned, files, mounted, astray, scans>>

-----------------------------------------------------------------------------
(* Calls.                                                                  *)

Open(p, name) ==
    LET id == mgr.nodes[name]
    IN  /\ phase = "up" /\ files[p] = NoFile
        /\ files' = [files EXCEPT ![p] = [id |-> id, dev |-> mgr.dev[id]]]
       
        /\ UNCHANGED <<content, mgr, scanned, mounted, root, astray, phase, scans>>

Close(p) ==
    /\ phase = "up" /\ files[p] # NoFile
    /\ files' = [files EXCEPT ![p] = NoFile]
    /\ UNCHANGED <<content, mgr, scanned, mounted, root, astray, phase, scans>>

\* mutation: only the first sector is compared with the end
Inside_First(dev, lba, cnt) == dev.index = 0 \/ lba < dev.count

Inside(dev, lba, cnt) == dev.index = 0 \/ lba + cnt <= dev.count

OnDevice(dev, d, sectors) ==
    d = dev.disk /\ (dev.index = 0 \/ sectors \subseteq dev.start .. dev.start + dev.count - 1)

\* block_file_read and block_file_write, by partition_read and partition_write
block_file_rw(p, lba, len) ==
    LET id == files[p].id
        cnt == len % W32
    IN  /\ phase = "up" /\ files[p] # NoFile
        /\ id \in DOMAIN mgr.dev /\ Inside(mgr.dev[id], lba, cnt)
        /\ LET dev == mgr.dev[id]
               Sectors == {dev.start + lba + k : k \in 0 .. cnt - 1}
           IN  astray' = (astray \/ ~OnDevice(files[p].dev, dev.disk, Sectors))
        /\ UNCHANGED <<content, mgr, scanned, files, mounted, root, phase, scans>>

\* a write to the file of a disk changes its tables
Repartition(p, c) ==
    LET d == files[p].dev.disk
    IN  /\ phase = "up" /\ files[p] # NoFile /\ files[p].dev.index = 0
        /\ content' = [content EXCEPT ![d] = c]
       
        /\ UNCHANGED <<mgr, scanned, files, mounted, root, astray, phase, scans>>

\* sys_mount takes a reference to the device file, sys_umount drops it
sys_mount(name) ==
    /\ phase = "up" /\ mgr.dev[mgr.nodes[name]].index # 0 /\ Cardinality(mounted) < MaxMounts
    /\ mgr.nodes[name] \notin mounted \cup {root}
    /\ mounted' = mounted \cup {mgr.nodes[name]}
    /\ UNCHANGED <<content, mgr, scanned, files, root, astray, phase, scans>>

sys_umount(id) ==
    /\ phase = "up" /\ mounted' = mounted \ {id}
    /\ UNCHANGED <<content, mgr, scanned, files, root, astray, phase, scans>>

\* references to the file of a device beyond its own
Busy(id) == id \in mounted \/ \E p \in Proc : files[p].id = id

\* mutation: the reference of a mount is not looked at
Refused_OpenOnly(d) ==
    \/ \E p \in Proc : files[p].id = d
    \/ \E i \in DOMAIN mgr.childs[d] : \E p \in Proc : files[p].id = mgr.childs[d][i]

\* A reload is refused when the disk or, before any child without a file, a child is in use.
Refused(d) ==
    \/ Busy(d)
    \/ \E i \in DOMAIN mgr.childs[d] :
         /\ Busy(mgr.childs[d][i])
         /\ \A j \in 1 .. i - 1 : HasNode(mgr, mgr.childs[d][j])

\* A child without a file: fs_dentry is NULL, the caller dies and both locks stay taken.
sys_reload_partition(d) ==
    LET gone == FoldLeft(block_unregister, mgr, mgr.childs[d])
    IN  /\ phase = "up" /\ scans < MaxScans /\ ~Refused(d)
        /\ scans' = scans + 1
        /\ IF \A i \in DOMAIN mgr.childs[d] : HasNode(mgr, mgr.childs[d][i])
           THEN /\ mgr' = mbr_scan(gone, d, content[d])
                /\ scanned' = [scanned EXCEPT ![d] = content[d]]
                /\ phase' = IF root \in DOMAIN gone.dev THEN "up" ELSE "lost"
           ELSE phase' = "stuck" /\ UNCHANGED <<mgr, scanned>>
        /\ UNCHANGED <<content, files, mounted, root, astray>>

Next ==
    \/ read_partitions \/ mount_root
    \/ \E name \in DOMAIN mgr.nodes : sys_mount(name) \/ \E p \in Proc : Open(p, name)
    \/ \E id \in mounted : sys_umount(id)
    \/ \E p \in Proc : Close(p) \/ \E lba \in Lbas, len \in Lens : block_file_rw(p, lba, len)
    \/ \E p \in Proc, d \in Rewritten : \E c \in Disks[d] : files[p].id = d /\ Repartition(p, c)
    \/ \E d \in Disk : sys_reload_partition(d)

-----------------------------------------------------------------------------
(* Type invariant of the lists, the device files and their users.          *)
TypeOK ==
    /\ \A d \in Disk : content[d] \in Disks[d] /\ scanned[d] \in Disks[d]
    /\ DOMAIN mgr.dev \subseteq 0 .. mgr.id - 1 /\ Disk \subseteq DOMAIN mgr.dev
    /\ \A n \in DOMAIN mgr.nodes : mgr.nodes[n] \in DOMAIN mgr.dev
    /\ root \in -1 .. mgr.id - 1 /\ scans \in 0 .. MaxScans
    /\ phase \in {"boot", "scanned", "up", "halted", "stuck", "lost"}

Extended(c) ==
    IF 0 \in DOMAIN c.tables THEN {i \in 1 .. 4 : c.tables[0][i].kind = "ext"} ELSE {}

\* What tables mean, without the loop: the k-th table of the chain, and the partitions.
Described(d, c) ==
    LET entry == c.tables[0]
        base == entry[CHOOSE i \in Extended(c) : TRUE].start
        ebr[k \in 0 .. SAFETY] ==
            IF k = 0 THEN base
            ELSE IF ebr[k-1] \in DOMAIN c.tables /\ Used(c.tables[ebr[k-1]][2])
                 THEN (base + c.tables[ebr[k-1]][2].start) % W32 ELSE -1
        full == {k \in 0 .. SAFETY : ebr[k] \in DOMAIN c.tables /\ Used(c.tables[ebr[k]][1])}
        logical(k) == Partition(d, 4 + Cardinality({j \in full : j <= k}),
                         (ebr[k] + c.tables[ebr[k]][1].start) % W32, c.tables[ebr[k]][1], c)
    IN  IF 0 \notin DOMAIN c.tables \/ \E i \in 1 .. 4 : entry[i].kind = "gpt" THEN {}
        ELSE {Partition(d, i, entry[i].start, entry[i], c) :
                i \in {j \in 1 .. 4 : Used(entry[j])} \ Extended(c)}
             \cup IF Extended(c) = {} THEN {} ELSE {logical(k) : k \in full}

(* Outside a scan, and unless its tables have two extended entries, the    *)
(* partitions of a disk are those that the tables it held at its last scan *)
(* describe, each with a device file of its own that leads to it; and      *)
(* mount_root has halted only if none of them has the uuid of the root.    *)
ScanExact ==
    \A d \in Disk :
        LET kids == mgr.childs[d] IN
        phase # "boot" /\ Cardinality(Extended(scanned[d])) <= 1 =>
            /\ phase = "halted" => \A p \in Described(d, scanned[d]) : ~p.root
            /\ {mgr.dev[kids[i]] : i \in DOMAIN kids} = Described(d, scanned[d])
            /\ Len(kids) = Cardinality(Described(d, scanned[d]))
            /\ \A i \in DOMAIN kids : mgr.nodes[NameOf(mgr.dev[kids[i]])] = kids[i]

(* A device that a process has open or that is mounted by sys_mount is the *)
(* one it was, whatever has been written to the disk or scanned since, and *)
(* a transfer stays on the sectors of the partition that was opened.  Of   *)
(* the root, mounted without a reference, this is not true: a reload of    *)
(* its disk ends the behaviour ("lost").                                   *)
UsedDevicesStay ==
    /\ \A p \in Proc : files[p] # NoFile =>
         files[p].id \in DOMAIN mgr.dev /\ mgr.dev[files[p].id] = files[p].dev
    /\ mounted \subseteq DOMAIN mgr.dev
    /\ ~astray
=============================================================================
