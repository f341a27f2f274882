------------------------------ MODULE TaskLife ------------------------------
(***************************************************************************)
(* Birth, exit and reaping of tasks: put_thread / fork_enter, sys_exit and *)
(* sys_waitpid of src/src/task/task.c, over the family lists and the wait  *)
(* queue in every pcb.                                                     *)
(*                                                                         *)
(* A step is one spinlocked section, or one read or write of a pcb field   *)
(* that other tasks use without a lock.  The scheduler is abstract: a task *)
(* that is not asleep runs.  A wait queue of a pcb has at most one         *)
(* sleeper, its owner.  System calls run with interrupts off; only kernel  *)
(* threads can be hit by the timer inside sys_exit.                        *)
(***************************************************************************)
EXTENDS Integers, Sequences

CONSTANTS
    Proc,      \* the tasks besides init
    init,      \* pcb_of_init
    First      \* the child of init that exists at the start

ASSUME FamilyAssumption == init \notin Proc /\ First \in Proc

Any == Proc \cup {init}
AnyPid == -1                                  \* waitpid(-1, ..)
Unset  == -2                                  \* a field nobody has written

VARIABLES
    kthread,      \* the tasks of Proc that are kernel threads
    state,        \* "NONE" before birth, "ALIVE" (ready, running or asleep), "ZOMBIE"
    parent,       \* pcb->parent
    childs,       \* pcb->childs, in list order
    exit_status,  \* pcb->exit_status: Unset, or the argument of sys_exit
    code,         \* the argument of sys_exit
    asleep,       \* the task is in its own wait queue
    freed,        \* free_task has run on the pcb
    at, want,     \* place in the code; the pid waitpid looks for
    tgt, got      \* the parent sys_exit wakes; what waitpid found

lifeVars == <<kthread, state, parent, childs, exit_status, code, asleep, freed, at, want, tgt, got>>

LifeInit ==
    /\ kthread \in SUBSET Proc
    /\ state = [p \in Any |-> IF p \in {init, First} THEN "ALIVE" ELSE "NONE"]
    /\ parent = [p \in Any |-> init]
    /\ childs = [p \in Any |-> IF p = init THEN <<First>> ELSE <<>>]
    /\ exit_status = [p \in Any |-> Unset] /\ code = [p \in Any |-> Unset]
    /\ asleep = [p \in Any |-> FALSE] /\ freed = [p \in Any |-> FALSE]
    /\ at = [p \in Any |-> "run"] /\ want = [p \in Any |-> AnyPid]
    /\ tgt = [p \in Any |-> init] /\ got = [p \in Any |-> <<>>]

Reach(p, place) == at' = [at EXCEPT ![p] = place]

(* put_thread with parent = the caller: the child joins the caller's list. *)
Fork(p, c) ==
    /\ at[p] = "run" /\ state[p] = "ALIVE" /\ p # init /\ state[c] = "NONE"
    /\ state' = [state EXCEPT ![c] = "ALIVE"]
    /\ parent' = [parent EXCEPT ![c] = p]
    /\ childs' = [childs EXCEPT ![p] = Append(@, c)]
    /\ UNCHANGED <<kthread, exit_status, code, asleep, freed, at, want, tgt, got>>

-----------------------------------------------------------------------------
(* sys_exit.                                                               *)

\* mutation: the children's parent pointers are left alone
ExitHandOver_KeepParent(p, v) ==
    /\ at[p] = "run" /\ state[p] = "ALIVE" /\ p # init
    /\ code' = [code EXCEPT ![p] = v]
    /\ childs' = [childs EXCEPT ![p] = <<>>, ![init] = childs[p] \o @]
    /\ Reach(p, "status")
    /\ UNCHANGED <<kthread, state, parent, exit_status, asleep, freed, want, tgt, got>>

(* Under both child locks: every child gets init as its parent and the     *)
(* whole list is spliced in front of init's.                               *)
ExitHandOver(p, v) ==
    /\ at[p] = "run" /\ state[p] = "ALIVE" /\ p # init
    /\ code' = [code EXCEPT ![p] = v]
    /\ parent' = [c \in Any |-> IF \E k \in DOMAIN childs[p] : childs[p][k] = c
                                THEN init ELSE parent[c]]
    /\ childs' = [childs EXCEPT ![p] = <<>>, ![init] = childs[p] \o @]
    /\ Reach(p, "status")
    /\ UNCHANGED <<kthread, state, exit_status, asleep, freed, want, tgt, got>>

\* mutation: the zombie is published before its status is stored
ExitStatus_Skip(p) ==
    /\ at[p] = "status"
    /\ Reach(p, "zombie")
    /\ UNCHANGED <<kthread, state, parent, childs, exit_status, code, asleep, freed, want, tgt, got>>

ExitStatus(p) ==
    /\ at[p] = "status"
    /\ exit_status' = [exit_status EXCEPT ![p] = code[p]]
    /\ Reach(p, "zombie")
    /\ UNCHANGED <<kthread, state, parent, childs, code, asleep, freed, want, tgt, got>>

ExitZombie(p) ==
    /\ at[p] = "zombie"
    /\ state' = [state EXCEPT ![p] = "ZOMBIE"]
    /\ Reach(p, "find_parent")
    /\ UNCHANGED <<kthread, parent, childs, exit_status, code, asleep, freed, want, tgt, got>>

(* wake_up_all(&task->parent->wait_queue): the pointer is read without a   *)
(* lock ...                                                                *)
ExitFindParent(p) ==
    /\ at[p] = "find_parent"
    /\ tgt' = [tgt EXCEPT ![p] = parent[p]]
    /\ Reach(p, "wake")
    /\ UNCHANGED <<kthread, state, parent, childs, exit_status, code, asleep, freed, want, got>>

\* mutation: nobody is woken
ExitWake_None(p) ==
    /\ at[p] = "wake"
    /\ Reach(p, "leave")
    /\ UNCHANGED <<kthread, state, parent, childs, exit_status, code, asleep, freed, want, tgt, got>>

(* ... and the queue it names is emptied.                                  *)
ExitWake(p) ==
    /\ at[p] = "wake"
    /\ asleep' = [asleep EXCEPT ![tgt[p]] = FALSE]
    /\ Reach(p, "leave")
    /\ UNCHANGED <<kthread, state, parent, childs, exit_status, code, freed, want, tgt, got>>

(* schedule_zombie: off the CPU, in no list.                               *)
ExitLeave(p) ==
    /\ at[p] = "leave"
    /\ Reach(p, "gone")
    /\ UNCHANGED <<kthread, state, parent, childs, exit_status, code, asleep, freed, want, tgt, got>>

(* timer_intr_soft ends the slice of a kernel thread between the store of  *)
(* TASK_ZOMBIE and the switch: the state becomes READY, later RUNNING.     *)
ExitTick(p) ==
    /\ p \in kthread /\ at[p] \in {"find_parent", "leave"}
    /\ state' = [state EXCEPT ![p] = "ALIVE"]
    /\ UNCHANGED <<kthread, parent, childs, exit_status, code, asleep, freed, at, want, tgt, got>>

-----------------------------------------------------------------------------
(* sys_waitpid.                                                            *)

WaitCall(p, pid) ==
    /\ at[p] = "run" /\ state[p] = "ALIVE" /\ (p = init => pid = AnyPid)
    /\ want' = [want EXCEPT ![p] = pid]
    /\ Reach(p, "scan")
    /\ UNCHANGED <<kthread, state, parent, childs, exit_status, code, asleep, freed, tgt, got>>

Matches(p, c, pid) == (pid = AnyPid \/ pid = c) /\ state[c] = "ZOMBIE"

Without(s, k) == SubSeq(s, 1, k - 1) \o SubSeq(s, k + 1, Len(s))

(* The scan, under childs.lock: the first zombie with the pid leaves the   *)
(* list with its status, or there is none.                                 *)
WaitScan(p) ==
    LET hits == {k \in DOMAIN childs[p] : Matches(p, childs[p][k], want[p])}
    IN
    /\ at[p] = "scan"
    /\ \/ hits = {} /\ Reach(p, "sleep") /\ UNCHANGED <<childs, got>>
       \/ \E k \in hits :
             LET c == childs[p][k] IN
             /\ \A i \in hits : k <= i
             /\ childs' = [childs EXCEPT ![p] = Without(@, k)]
             /\ got' = [got EXCEPT ![p] = <<c, exit_status[c]>>]
             /\ Reach(p, "free")
    /\ UNCHANGED <<kthread, state, parent, exit_status, code, asleep, freed, want, tgt>>

(* free_task, then return.                                                 *)
WaitFree(p) ==
    /\ at[p] = "free"
    /\ freed' = [freed EXCEPT ![got[p][1]] = TRUE]
    /\ got' = [got EXCEPT ![p] = <<>>]
    /\ Reach(p, "run")
    /\ UNCHANGED <<kthread, state, parent, childs, exit_status, code, asleep, want, tgt>>

(* sleep_on, after childs.lock has been released ...                       *)
WaitSleep(p) ==
    /\ at[p] = "sleep"
    /\ asleep' = [asleep EXCEPT ![p] = TRUE]
    /\ Reach(p, "asleep")
    /\ UNCHANGED <<kthread, state, parent, childs, exit_status, code, freed, want, tgt, got>>

(* ... until somebody empties the queue: scan again.                       *)
WaitAgain(p) ==
    /\ at[p] = "asleep" /\ ~asleep[p]
    /\ Reach(p, "scan")
    /\ UNCHANGED <<kthread, state, parent, childs, exit_status, code, asleep, freed, want, tgt, got>>

-----------------------------------------------------------------------------
Codes == {0, 1}

Advance(p) ==
    \/ ExitStatus(p) \/ ExitZombie(p) \/ ExitFindParent(p) \/ ExitWake(p) \/ ExitLeave(p)
    \/ WaitScan(p) \/ WaitFree(p) \/ WaitSleep(p) \/ WaitAgain(p)

SysCall(p) ==
    \/ \E c \in Proc : Fork(p, c)
    \/ \E v \in Codes : ExitHandOver(p, v)
    \/ \E pid \in Proc \cup {AnyPid} : WaitCall(p, pid)

LifeNext == \E p \in Any : SysCall(p) \/ Advance(p) \/ ExitTick(p)

LifeSpec == LifeInit /\ [][LifeNext]_lifeVars

(* A task that is not asleep runs on (Sched), and init waits for ever.     *)
LifeFairSpec == LifeSpec /\ (\A p \in Any : WF_lifeVars(Advance(p))) /\ WF_lifeVars(SysCall(init))

-----------------------------------------------------------------------------
(* Type invariant of the pcb fields used here.                             *)
LifeTypeOK ==
    /\ kthread \subseteq Proc
    /\ state \in [Any -> {"NONE", "ALIVE", "ZOMBIE"}]
    /\ parent \in [Any -> Any] /\ tgt \in [Any -> Any]
    /\ childs \in [Any -> Seq(Proc)]
    /\ exit_status \in [Any -> Codes \cup {Unset}] /\ code \in [Any -> Codes \cup {Unset}]
    /\ asleep \in [Any -> BOOLEAN] /\ freed \in [Any -> BOOLEAN]
    /\ at \in [Any -> {"run", "status", "zombie", "find_parent", "wake", "leave", "gone",
                       "scan", "free", "sleep", "asleep"}]
    /\ want \in [Any -> Proc \cup {AnyPid}]
    /\ got \in [Any -> {<<>>} \cup (Proc \X (Codes \cup {Unset}))]

(* The task waitpid has taken out of the list and not yet freed.           *)
InHand(c) == \E p \in Any : got[p] # <<>> /\ got[p][1] = c

(* The family tree: every task that was born and not reaped is in exactly  *)
(* one childs list, once, and that list belongs to its parent, whose pcb   *)
(* has not been freed; so every exiting task finds somebody who will look  *)
(* for it, however exits, adoptions and waits interleave.                  *)
ListedOnce ==
    \A c \in Proc :
        LET places == UNION {{<<p, k>> : k \in {j \in DOMAIN childs[p] : childs[p][j] = c}} : p \in Any}
        IN  IF state[c] = "NONE" \/ freed[c] \/ InHand(c) THEN places = {}
            ELSE /\ \E k \in DOMAIN childs[parent[c]] : places = {<<parent[c], k>>}
                 /\ ~freed[parent[c]]

(* waitpid hands out the argument of the child's sys_exit, never a stale   *)
(* exit_status, though the field is written and read without a lock.       *)
StatusIsExitCode ==
    \A p \in Any : got[p] # <<>> => got[p][2] = code[got[p][1]] /\ got[p][2] \in Codes

(* sys_exit and sys_waitpid keep every task in its parent's list, once,    *)
(* and sys_waitpid returns the argument of the child's sys_exit.           *)
FamilyTree == ListedOnce /\ StatusIsExitCode

(* A parent asleep in waitpid when a child it waits for, a user process,   *)
(* has become a zombie and is about to wake it does reap: no matter which  *)
(* other children wake it or what they do, waitpid returns.                *)
SleeperReaps ==
    \A p \in Any, c \in Proc :
        /\ at[p] = "asleep" /\ want[p] \in {AnyPid, c} /\ c \notin kthread
        /\ at[c] = "find_parent" /\ \E k \in DOMAIN childs[p] : childs[p][k] = c
        ~> at[p] \in {"free", "run"}

(* test_pipe.c: the parent waits for its child and then prints "Parent     *)
(* done.": waitpid for a child that exits returns.                         *)
WaitReturns ==
    \A p \in Proc, c \in Proc :
        at[p] \in {"scan", "sleep", "asleep"} /\ want[p] = c /\ parent[c] = p
            /\ state[c] = "ZOMBIE" /\ c \notin kthread
        ~> at[p] \in {"free", "run"}
=============================================================================
