----------------------------- MODULE Ext2Table -----------------------------
(***************************************************************************)
(* The inode table of ext2 (src/fs/ext2.c).  Several inodes share a block  *)
(* of the table.  ext2_write_inode reads the block, replaces its inode and *)
(* writes the block back, and both transfers put the task to sleep; its    *)
(* callers hold the locks of their own inode only.                         *)
(***************************************************************************)
EXTENDS Naturals

CONSTANTS Inode,     \* the inodes of one block of the table
          MaxChange  \* bound: changes to one inode

VARIABLES mem,       \* version of the inode in memory
          disk,      \* version of the inode in the table
          pc,        \* where the task that works on an inode stands
          buf        \* block_buf of that task

tableVars == <<mem, disk, pc, buf>>

TableInit ==
    /\ mem = [i \in Inode |-> 0]
    /\ disk = [i \in Inode |-> 0]
    /\ pc = [i \in Inode |-> "idle"]
    /\ buf = [i \in Inode |-> disk]

\* A write, a truncation, an unlink... changes the inode and saves it.
Change(i) ==
    /\ pc[i] = "idle" /\ mem[i] < MaxChange
    /\ mem' = [mem EXCEPT ![i] = @ + 1]
    /\ pc' = [pc EXCEPT ![i] = "read"]
    /\ UNCHANGED <<disk, buf>>

\* The block is in the buffer, with the inode replaced.
ReadTable(i) ==
    /\ pc[i] = "read"
    /\ buf' = [buf EXCEPT ![i] = [disk EXCEPT ![i] = mem[i]]]
    /\ pc' = [pc EXCEPT ![i] = "write"]
    /\ UNCHANGED <<mem, disk>>

WriteTable(i) ==
    /\ pc[i] = "write"
    /\ disk' = buf[i]
    /\ pc' = [pc EXCEPT ![i] = "idle"]
    /\ UNCHANGED <<mem, buf>>

TableNext == \E i \in Inode : Change(i) \/ ReadTable(i) \/ WriteTable(i)

TableSpec == TableInit /\ [][TableNext]_tableVars

\* "update the disk copy of the inode": once the call is over, and while no
\* other call changes that inode, the table has what the inode has.
DiskCopyUpdated == \A i \in Inode : pc[i] = "idle" => disk[i] = mem[i]
=============================================================================
