-------------------------------- MODULE Mutex --------------------------------
(***************************************************************************)
(* The sleeping mutex of src/src/lib/lock.c.  The wait queue and the       *)
(* release are protected by the spinlock queue_lock; a waiter that was     *)
(* woken retries with a bare test-and-set, outside it.                     *)
(*                                                                         *)
(* pc[t] is where task t stands in mutex_lock, mutex_trylock or            *)
(* mutex_unlock; what Sched shows is used here: a task put on a ready list *)
(* runs, a sleeper is off its CPU before queue_lock is released, and a     *)
(* task that calls schedule() without being queued never runs again.       *)
(***************************************************************************)
EXTENDS Naturals, Sequences

CONSTANTS Task, None

ASSUME NoneAssumption == None \notin Task

VARIABLES
    locked,      \* lock->locked
    queue_lock,  \* the task in the spinlocked section, or None
    wait_queue,  \* lock->wait_queue, first waiter first
    pc

vars == <<locked, queue_lock, wait_queue, pc>>

Init ==                                                      \* mutex_init
    /\ locked = 0 /\ queue_lock = None /\ wait_queue = <<>>
    /\ pc = [t \in Task |-> "idle"]

Goto(t, place) == pc' = [pc EXCEPT ![t] = place]

(* spin_lock(&lock->queue_lock) at the head of the three functions.        *)
Enter(t, from, to) ==
    /\ pc[t] = from /\ queue_lock = None
    /\ queue_lock' = t
    /\ Goto(t, to)
    /\ UNCHANGED <<locked, wait_queue>>

CallLock(t)    == Enter(t, "idle", "lock")
CallTrylock(t) == Enter(t, "idle", "trylock")
CallUnlock(t)  == Enter(t, "held", "unlock")

\* mutation: the locked flag is read and then set without looking again
TryFast_NoCompare(t) ==
    /\ pc[t] \in {"lock", "trylock"}
    /\ locked' = 1 /\ queue_lock' = None
    /\ Goto(t, "held")
    /\ UNCHANGED wait_queue

(* The compare-and-swap succeeds.                                          *)
TryFast(t) ==
    /\ pc[t] \in {"lock", "trylock"} /\ locked = 0
    /\ locked' = 1 /\ queue_lock' = None
    /\ Goto(t, "held")
    /\ UNCHANGED wait_queue

(* It fails: mutex_trylock returns 0 ...                                   *)
TryFail(t) ==
    /\ pc[t] = "trylock" /\ locked = 1
    /\ queue_lock' = None
    /\ Goto(t, "idle")
    /\ UNCHANGED <<locked, wait_queue>>

(* ... and mutex_lock joins the queue and sleeps; the switch releases      *)
(* queue_lock when the context is stored.                                  *)
Sleep(t) ==
    /\ pc[t] = "lock" /\ locked = 1
    /\ wait_queue' = Append(wait_queue, t)
    /\ queue_lock' = None
    /\ Goto(t, "asleep")
    /\ UNCHANGED locked

\* mutation: the exchange is an increment
Retry_Count(t) ==
    /\ pc[t] = "woken"
    /\ locked' = locked + 1
    /\ Goto(t, IF locked = 0 THEN "held" ELSE "gone")
    /\ UNCHANGED <<queue_lock, wait_queue>>

(* A woken waiter: test-and-set.  When the lock has been taken meanwhile,  *)
(* schedule() gives the CPU away with the task in no list.                 *)
Retry(t) ==
    /\ pc[t] = "woken"
    /\ locked' = 1
    /\ Goto(t, IF locked = 0 THEN "held" ELSE "gone")
    /\ UNCHANGED <<queue_lock, wait_queue>>

(* mutex_unlock, in the spinlocked section: the flag first ...             *)
Clear(t) ==
    /\ pc[t] = "unlock"
    /\ locked' = 0
    /\ Goto(t, "wake")
    /\ UNCHANGED <<queue_lock, wait_queue>>

\* mutation: the release does not look at the wait queue
WakeFirst_None(t) ==
    /\ pc[t] = "wake"
    /\ Goto(t, "idle")
    /\ queue_lock' = None
    /\ UNCHANGED <<locked, wait_queue>>

\* mutation: the last waiter is woken instead of the first
WakeFirst_Last(t) ==
    /\ pc[t] = "wake"
    /\ IF wait_queue = <<>>
         THEN Goto(t, "idle") /\ UNCHANGED wait_queue
         ELSE /\ pc' = [pc EXCEPT ![t] = "idle", ![wait_queue[Len(wait_queue)]] = "woken"]
              /\ wait_queue' = SubSeq(wait_queue, 1, Len(wait_queue) - 1)
    /\ queue_lock' = None
    /\ UNCHANGED locked

(* ... then the first waiter goes to its ready list.                       *)
WakeFirst(t) ==
    /\ pc[t] = "wake"
    /\ IF wait_queue = <<>>
         THEN Goto(t, "idle") /\ UNCHANGED wait_queue
         ELSE /\ pc' = [pc EXCEPT ![t] = "idle", ![Head(wait_queue)] = "woken"]
              /\ wait_queue' = Tail(wait_queue)
    /\ queue_lock' = None
    /\ UNCHANGED locked

Call(t) == CallLock(t) \/ CallTrylock(t)
Step(t) == TryFast(t) \/ TryFail(t) \/ Sleep(t) \/ Retry(t) \/ Clear(t) \/ WakeFirst(t)
Next == \E t \in Task : Call(t) \/ CallUnlock(t) \/ Step(t)

Spec == Init /\ [][Next]_vars

(* A ready task runs (Sched), a spinning one gets queue_lock in the end,   *)
(* and a holder releases the mutex.  No task has to ask for it.            *)
FairSpec == Spec /\ \A t \in Task :
                /\ WF_vars(Step(t))
                /\ SF_vars(CallUnlock(t))

-----------------------------------------------------------------------------
(* Type invariant of the mutex and of its callers.                         *)
TypeOK ==
    /\ locked \in {0, 1}
    /\ queue_lock \in Task \cup {None}
    /\ wait_queue \in Seq(Task)
    /\ pc \in [Task -> {"idle", "lock", "trylock", "held", "unlock", "wake",
                        "asleep", "woken", "gone"}]

(* The tasks that have the mutex: from the test that gave it to them to    *)
(* the assignment that gives it back.                                      *)
Holders == {t \in Task : pc[t] \in {"held", "unlock"}}

(* Mutual exclusion, and `locked` says whether somebody is inside, though  *)
(* it is written by the fast path and the release under queue_lock and by  *)
(* the retry without it.                                                   *)
LockedMeansHeld ==
    /\ \A t, u \in Holders : t = u
    /\ locked = 1 <=> Holders # {}

(* A sleeper is never left behind: while the queue is not empty the mutex  *)
(* is held, or a woken task is about to retry, or a release is on its way  *)
(* to the queue.  And the queue is exactly the sleepers, each once.        *)
NoSleeperStranded ==
    /\ wait_queue # <<>> => locked = 1 \/ \E t \in Task : pc[t] \in {"woken", "wake"}
    /\ \A t \in Task : pc[t] = "asleep" <=> \E k \in DOMAIN wait_queue : wait_queue[k] = t
    /\ \A j, k \in DOMAIN wait_queue : wait_queue[j] = wait_queue[k] => j = k

(* Mutex implements LockSpec: its holder is the task inside.               *)
Holder == IF Holders = {} THEN None ELSE CHOOSE t \in Task : t \in Holders
Lock == INSTANCE LockSpec WITH holder <- Holder
ImplementsLock == Lock!LockOnly

(* First come, first woken: mutex_unlock reaches every sleeper in the end, *)
(* however many tasks overtake it.                                         *)
SleeperEventuallyWoken == \A t \in Task : pc[t] = "asleep" ~> pc[t] # "asleep"

(* mutex_lock returns: "after being woken, try again to get the lock".     *)
WokenEventuallyHolds == \A t \in Task : pc[t] = "woken" ~> pc[t] = "held"
=============================================================================
