------------------------------ MODULE MCFiles -------------------------------
(***************************************************************************)
(* The pipe, the terminals, the partitions of disks and the parts of ext2  *)
(* for TLC: formatting, allocation of numbers, mapping of blocks,          *)
(* directories.  They share no variable, so a behaviour picks one of them  *)
(* (`which`) and the others stay at their initial states.                  *)
(***************************************************************************)
EXTENDS Pipe, Ext2Alloc, TLC

CONSTANTS File, Blocks, NDir, PerBlock, BlockSize, Starts, Lengths, Sizes, MaxFaults, MapCalls,
          Name, BlockWords, MaxBlocks, Inodes, Creator, RenameOver,
          OnTty, RingSize, NTtys, BufSize, LineMax, QueueSize, MaxOut, ReadSizes,
          NDisks, LETTERS, SAFETY, W32, Positions, Counts, Openers, MaxScans, MaxMounts, Rewritten,
          SMALL, SECTOR, INODE, DENSITY, DESC, ENTRY, MAX16, FsW32, W64, LIMIT, Devices

Mixed == [s \in Side |-> (0 .. 4) \cup {7}]
Words(n) == IF n = "b" THEN 4 ELSE 3
Symmetry == Permutations(File)

(* What is pressed, how often, and what the two tasks of the first         *)
(* terminal do.                                                            *)
Board(pressed, n, does) == [keys |-> pressed, events |-> n, does |-> [x \in OnTty |-> does]]
Typing == Board({"a", "enter", "bs"}, 3, {"read"})
MCBoards ==
    {Typing, Board({"a"}, 2, {"write"}),
     Board({"a", "lalt", "f2", "up"}, 3, {}),
     Board({"a", "1", "lshift", "rshift", "rctrl", "caps", "up", "f1"}, 3, {})}

(* Partition tables: primaries, a chain of extended tables with a hole,    *)
(* one that comes back to its start, one that wraps, two extended entries, *)
(* GPT.                                                                    *)
Entry(k, s, n) == [kind |-> k, start |-> s, count |-> n]
None == Entry("none", 0, 0)
Linux(s, n) == Entry("linux", s, n)
Ext(s) == Entry("ext", s, 9)
Mbr(a, b, c) == <<a, b, c, None>>
Ebr(a, b) == <<a, b, None, None>>
Holding(tables, roots) == [tables |-> tables, root |-> roots]
Empty == Holding(<<>>, {})
Primaries == Holding(0 :> Mbr(Linux(1, 2), Entry("other", 3, 0), Linux(3, 2)), {3})
Chain == (4 :> Ebr(Linux(1, 1), Ext(2))) @@ (6 :> Ebr(None, Ext(4))) @@ (8 :> Ebr(Linux(1, 2), Ext(6)))
Chained == Holding((0 :> Mbr(Linux(1, 2), Ext(4), None)) @@ Chain, {1})
Broken == Holding((0 :> Mbr(Ext(4), Linux(1, 2), None)) @@ Chain @@ (10 :> Ebr(Linux(1, 3), Ext(14))), {9})
Looping == Holding((0 :> Mbr(Ext(14), Linux(2, 1), None)) @@ (14 :> Ebr(Linux(3, 1), Ext(0))), {1})
Twice == Holding((0 :> Mbr(Ext(4), Linux(1, 1), Ext(8))) @@ Chain, {1})
Gpt == Holding(0 :> Mbr(Entry("gpt", 1, 15), None, None), {})
MCDisks(d) == CASE d = 0 -> {Primaries, Chained, Broken, Looping, Twice, Gpt}
                [] d = 1 -> {Primaries, Empty}
                [] OTHER -> {Empty}

VARIABLES
    which,
    content, mgr, scanned, files, mounted, root, astray, phase, scans,
    taken, disk, iBlock, iBlocks, size, op, asked, faults, harm, mapped,
    kind, links, dir, cached, job, damaged,
    sectors, norm, params, image, step, group, cache,
    board, kbd, keys, wire, held, events, press, made, both,
    current_tty, server, line, lines, output, task, typed, lost, heard, shown

M == INSTANCE Ext2Map WITH Lens <- Lengths, MaxCalls <- MapCalls, calls <- mapped
D == INSTANCE Ext2Dir
T == INSTANCE Tty WITH Boards <- MCBoards, Tasks <- OnTty, TtyOf <- [x \in OnTty |-> 1],
        Lengths <- ReadSizes, got <- heard, ring <- output

B == INSTANCE Block WITH Disks <- [d \in 0 .. NDisks - 1 |-> MCDisks(d)], Lbas <- Positions,
        Lens <- Counts, Proc <- Openers

F == INSTANCE Mkfs WITH W32 <- FsW32

mapVars == <<taken, disk, iBlock, iBlocks, size, op, asked, faults, harm, mapped>>
dirVars == <<kind, links, dir, cached, job, damaged>>
ttyVars == <<board, kbd, keys, wire, held, events, press, made, both,
             current_tty, server, line, lines, output, task, typed, lost, heard, shown>>
blockVars == <<content, mgr, scanned, files, mounted, root, astray, phase, scans>>
mkfsVars == <<sectors, norm, params, image, step, group, cache>>

FilesInit ==
    /\ which \in {"pipe", "alloc", "map", "dir", "tty", "block", "mkfs"}
    /\ Init /\ AllocInit /\ M!MapInit /\ D!DirInit /\ T!Init /\ B!Init /\ F!Init
    /\ which # "alloc" => what = "block"
    /\ which # "tty" => board = Typing
    /\ which # "block" => content[0] = Gpt /\ content[1] = Empty
    /\ which # "mkfs" => norm /\ sectors = 0

FilesNext ==
    \/ which = "pipe" /\ Next /\ UNCHANGED <<which, allocVars, mapVars, dirVars, ttyVars, blockVars, mkfsVars>>
    \/ which = "alloc" /\ AllocNext /\ UNCHANGED <<which, vars, mapVars, dirVars, ttyVars, blockVars, mkfsVars>>
    \/ which = "map" /\ M!MapNext /\ UNCHANGED <<which, vars, allocVars, dirVars, ttyVars, blockVars, mkfsVars>>
    \/ which = "dir" /\ D!DirNext /\ UNCHANGED <<which, vars, allocVars, mapVars, ttyVars, blockVars, mkfsVars>>
    \/ which = "tty" /\ T!Next /\ UNCHANGED <<which, vars, allocVars, mapVars, dirVars, blockVars, mkfsVars>>
    \/ which = "block" /\ B!Next /\ UNCHANGED <<which, vars, allocVars, mapVars, dirVars, ttyVars, mkfsVars>>
    \/ which = "mkfs" /\ F!Next /\ UNCHANGED <<which, vars, allocVars, mapVars, dirVars, ttyVars, blockVars>>

FilesSpec == FilesInit /\ [][FilesNext]_<<which, vars, allocVars, mapVars, dirVars, ttyVars, blockVars, mkfsVars>>

-----------------------------------------------------------------------------
(* What the parts of ext2 state, as properties of this composition.        *)

(* Type invariants of the pipe, the bitmaps and counts, the block          *)
(* pointers, the directories, the buffers of a terminal, the devices and   *)
(* the image that mkfs.ext2 writes.                                        *)
TypesOK ==
    CASE which = "pipe" -> TypeOK
      [] which = "alloc" -> AllocTypeOK
      [] which = "map" -> M!MapTypeOK
      [] which = "dir" -> D!DirTypeOK
      [] which = "tty" -> T!TypeOK
      [] which = "block" -> B!TypeOK
      [] which = "mkfs" -> F!TypeOK

(* ext2_bmap_alloc, ext2_truncate_blocks and ext2_delete leave one pointer *)
(* to every block whose bit is set and none to the others, nothing mapped  *)
(* beyond the end of a file, and i_blocks never below what the inode uses. *)
(* A transfer that fails may lose blocks or leave one mapped beyond the    *)
(* end, but gives no block a second owner, until a pointer block that was  *)
(* to be written did not reach the disk.                                   *)
MappingExact ==
    which = "map" => M!BlocksOwnedOnce /\ M!NeverUndercounted /\ M!NothingBeyondEnd

(* Only a truncation takes mapped blocks away, and only behind the end it  *)
(* asks for, also when ext2_truncate_blocks stops at a failed transfer.    *)
MappingStable == M!MappingStable


(* The line discipline and the pty ring: readers get the lines typed,      *)
(* whole and in order, less those dropped; the screen gets the bytes       *)
(* written, in order; nobody sleeps on a condition that holds; and         *)
(* handle_scancode gives a key the code that the keys held give it.        *)
TerminalSound ==
    which = "tty" => /\ T!LinesIntact /\ T!OutputIntact /\ T!SleepersJustified
                     /\ T!KeysMeanWhatIsHeld

(* mbr_scan registers the partitions that the tables describe; nothing     *)
(* that is open or mounted goes away under sys_reload_partition; and what  *)
(* mkfs.ext2 puts on a partition the kernel mounts and finds consistent.   *)
DisksSound ==
    /\ which = "block" => B!ScanExact /\ B!UsedDevicesStay
    /\ which = "mkfs" => F!FormatSound

(* sys_rename never makes two entries of one name in a directory.          *)
NamesUnique == D!NamesUnique

=============================================================================
