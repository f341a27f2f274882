------------------------------ MODULE SchedInv ------------------------------
(* The inductive invariant of the scheduler.                               *)
EXTENDS Sched, Lists

Quiet == {"exec", "tick", "balance_1", "balance_2"}    \* on the task's stack
Gone  == {"unlock", "unlock_wq", "load"}               \* between two stacks
Off   == {"yield", "sleep", "sleep_switch"}            \* interrupts are off
Holding == {"sleep_switch", "wake_loop", "wake_put", "wake_unlock"}

(* Which stack a CPU is on: that of its running task, except in the middle *)
(* of a switch.  A context is saved exactly while no CPU is on its stack.  *)
Stacks ==
    /\ \A c \in CPU :
          /\ now_running[c] \in Task \cup {Idle[c]}
          /\ phase[c] \in Quiet => stack[c] = now_running[c]
          /\ phase[c] = "save" => stack[c] \in Task \cup {Idle[c]}
          /\ phase[c] \in Gone => stack[c] = None
    /\ \A c, d \in CPU : now_running[c] = now_running[d] => c = d
    /\ \A c, d \in CPU : stack[c] = stack[d] /\ stack[c] # None => c = d
    /\ \A t \in AnyTask : saved[t] <=> \A c \in CPU : stack[c] # t

(* What a task's own code goes by: with interrupts off it is not switched  *)
(* out, and the place decides what its local variables hold.               *)
Code ==
    \A t \in AnyTask :
        /\ t \notin Task => pc[t] = "run"
        /\ pc[t] \in Off => \E c \in CPU : phase[c] = "exec" /\ stack[c] = t
        /\ pc[t] \notin {"run", "yield"} => arg[t] \in Queue
        /\ hand[t] # None <=> pc[t] = "wake_put"

(* OnePlace without cardinalities.                                         *)
Placed ==
    /\ Once(ready_list) /\ Once(wait_list)
    /\ \A t \in Task :
          /\ state[t] = "READY" <=>
                (\E c \in CPU : Has(ready_list, c, t)) \/ (\E u \in AnyTask : hand[u] = t)
          /\ state[t] = "SLEEP" <=> \E q \in Queue : Has(wait_list, q, t)
          /\ (\E c \in CPU : now_running[c] = t) <=>
                state[t] = "RUNNING" \/ (state[t] = "SLEEP" /\ pc[t] = "sleep_switch")
          /\ pc[t] = "sleep_switch" => Has(wait_list, arg[t], t)
    /\ \A u, v \in AnyTask : hand[u] = hand[v] /\ hand[u] # None => u = v
    /\ \A u \in AnyTask, c \in CPU : hand[u] # None => ~Has(ready_list, c, hand[u])
    /\ \A c \in CPU : total_ready_num[c] = Len(ready_list[c])

(* Who holds the lock of a ready list: the switching CPU, or a balancing   *)
(* one between its two locks.                                              *)
ReadyLocks ==
    /\ \A c \in CPU :
          /\ phase[c] \in {"save", "unlock"} => rlock[c]
          /\ phase[c] = "balance_2" => rlock[FirstLock(bal[c])]
          /\ phase[c] \in {"balance_1", "balance_2"} => bal[c][1] # bal[c][2]
    /\ \A c, d \in CPU :
          phase[d] = "balance_2" =>
             /\ phase[c] \in {"save", "unlock"} => FirstLock(bal[d]) # c
             /\ phase[c] = "balance_2" /\ c # d => FirstLock(bal[d]) # FirstLock(bal[c])

(* Who holds the lock of a wait queue: a task in its critical section, or  *)
(* the CPU that is switching away from a sleeper.                          *)
QueueLocks ==
    /\ \A t \in Task : pc[t] \in Holding => wlock[arg[t]] = t
    /\ \A q \in Queue : wlock[q] # None =>
          \/ pc[wlock[q]] \in Holding /\ arg[wlock[q]] = q
          \/ \E c \in CPU : relq[c] = q
    /\ \A c \in CPU :
          /\ phase[c] = "unlock_wq" => relq[c] # None
          /\ relq[c] # None => phase[c] \in {"save", "unlock", "unlock_wq"}
    /\ \A c \in CPU, q \in Queue : relq[c] = q =>
          /\ wlock[q] \in Task /\ Has(wait_list, q, wlock[q])
          /\ ~(pc[wlock[q]] \in Holding /\ arg[wlock[q]] = q)
    /\ \A c, d \in CPU : relq[c] = relq[d] /\ relq[c] # None => c = d

(* Where a task is whose CPU is about to store its context: behind a lock  *)
(* that this CPU still holds.                                              *)
Leaving ==
    \A c \in CPU : phase[c] = "save" /\ stack[c] \in Task =>
        \/ now_running[c] = stack[c]
        \/ Has(ready_list, c, stack[c])
        \/ relq[c] # None /\ Has(wait_list, relq[c], stack[c])

SInv == TypeOK /\ Stacks /\ Code /\ Placed /\ ReadyLocks /\ QueueLocks /\ Leaving

(* The nesting of preempt_disable at a place of a task's code.             *)
Depth(place) ==
    CASE place \in {"run", "wake_current"} -> 0
      [] place \in {"yield", "sleep", "wake_lock", "wake_loop", "wake_unlock"} -> 1
      [] place \in {"sleep_switch", "wake_put"} -> 2

(* Without the race of get_current preempt_count is that nesting, so no    *)
(* task in wake_up_all or wake_up_first is switched out.                   *)
CountedTask(t) ==
    /\ pc[t] # "run" => \E c \in CPU : phase[c] = "exec" /\ stack[c] = t
    /\ pc[t] = "wake_current" => stack[idread[t]] = t
    /\ (\A c \in CPU : ~(phase[c] = "save" /\ stack[c] = t)) => preempt_count[t] = Depth(pc[t])

CountedSave(c) ==
    phase[c] = "save" => preempt_count[stack[c]] = IF relq[c] = None THEN 1 ELSE 2

Counted ==
    ~world.race => (\A t \in AnyTask : CountedTask(t)) /\ (\A c \in CPU : CountedSave(c))
=============================================================================
