------------------------------ MODULE MCTasks -------------------------------
(***************************************************************************)
(* Mutex and TaskLife for TLC.  They share no variable, so a behaviour     *)
(* picks one of them (`which`) and the other stays at its initial state.   *)
(***************************************************************************)
EXTENDS Mutex, TaskLife

VARIABLE which

TasksInit ==
    /\ which \in {"mutex", "life"}
    /\ Init /\ LifeInit
    /\ kthread \in (IF which = "mutex" THEN {{}} ELSE {{}, Proc})

TasksNext ==
    \/ which = "mutex" /\ Next /\ UNCHANGED <<which, lifeVars>>
    \/ which = "life" /\ LifeNext /\ UNCHANGED <<which, vars>>

TasksSpec == TasksInit /\ [][TasksNext]_<<which, vars, lifeVars>>

(* The fairness of Mutex!FairSpec and TaskLife!LifeFairSpec, each for the  *)
(* behaviours of its own.                                                  *)
TasksFairSpec ==
    /\ TasksSpec
    /\ \A t \in Task : /\ WF_vars(which = "mutex" /\ Step(t))
                       /\ SF_vars(which = "mutex" /\ CallUnlock(t))
    /\ \A p \in Any : WF_lifeVars(which = "life" /\ Advance(p))
    /\ WF_lifeVars(which = "life" /\ SysCall(init))

-----------------------------------------------------------------------------
(* Type invariants of the mutex and of the pcb fields of task.c.           *)
TypesOK == TypeOK /\ LifeTypeOK

(* A task asleep in mutex_lock is in time woken by a mutex_unlock, and a   *)
(* parent asleep in sys_waitpid in time reaps its child.                   *)
SleepersProceed == SleeperEventuallyWoken /\ SleeperReaps
=============================================================================
