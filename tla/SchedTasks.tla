----------------------------- MODULE SchedTasks -----------------------------
(* What a task does in its own code keeps the invariant, and every step    *)
(* keeps the nesting of preempt_disable.                                   *)
EXTENDS SchedInv

(* preempt_disable and preempt_enable leave a number.                      *)
LEMMA CountTyped ==
    ASSUME TypeOK, NEW t \in AnyTask,
           \/ preempt_count' = [preempt_count EXCEPT ![t] = @ + 1]
           \/ preempt_count' = [preempt_count EXCEPT ![t] = @ - 1]
    PROVE  preempt_count' \in [AnyTask -> Int]
<1>1. preempt_count \in [AnyTask -> Int] /\ preempt_count[t] \in Int
  BY DEF TypeOK
<1> QED
  BY <1>1

(* Steps between places where a task holds no queue and has no other task  *)
(* in hand.                                                                *)
LEMMA OwnStepKeeps ==
    ASSUME SInv, TypeOK', NEW c \in CPU, NEW t \in Task, Runs(c, t),
           UNCHANGED <<cpuVars, state, saved, hand, wqVars>>,
           \A u \in AnyTask \ {t} : pc'[u] = pc[u] /\ arg'[u] = arg[u],
           pc[t] \notin Holding, pc'[t] \notin Holding,
           pc'[t] \notin {"run", "yield"} => arg'[t] \in Queue
    PROVE  SInv'
<1> USE SchedAssumption
<1>e. /\ phase[c] = "exec" /\ stack[c] = t /\ t \in AnyTask
      /\ UNCHANGED <<now_running, stack, ready_list, total_ready_num, rlock, phase, bal, relq,
                     state, saved, hand, wait_list, wlock>>
      /\ pc[t] \notin {"sleep_switch", "wake_put"} /\ pc'[t] \notin {"sleep_switch", "wake_put"}
  BY DEF Runs, cpuVars, wqVars, AnyTask, Holding
<1>2. Stacks'
  BY <1>e DEF SInv, Stacks
<1>3. Code'
  BY <1>e DEF SInv, Code, AnyTask
<1>4. Placed'
  <2>1. \A u \in Task : pc'[u] = "sleep_switch" <=> pc[u] = "sleep_switch"
    BY <1>e DEF AnyTask
  <2>2. \A u \in Task : pc[u] = "sleep_switch" => arg'[u] = arg[u]
    BY <1>e DEF AnyTask
  <2> QED
    BY <1>e, <2>1, <2>2 DEF SInv, Placed
<1>5. ReadyLocks'
  BY <1>e DEF SInv, ReadyLocks
<1>6. QueueLocks'
  <2>1. \A u \in Task : pc'[u] \in Holding <=> pc[u] \in Holding
    BY <1>e DEF AnyTask
  <2>2. \A u \in Task : pc[u] \in Holding => arg'[u] = arg[u]
    BY <1>e DEF AnyTask
  <2>3. \A q \in Queue : wlock[q] # None => wlock[q] \in Task
    BY DEF SInv, TypeOK
  <2> QED
    BY <1>e, <2>1, <2>2, <2>3 DEF SInv, QueueLocks
<1>7. Leaving'
  BY <1>e DEF SInv, Leaving
<1> QED
  BY <1>2, <1>3, <1>4, <1>5, <1>6, <1>7 DEF SInv

LEMMA YieldStartKeeps ==
    ASSUME SInv, NEW c \in CPU, NEW t \in Task, YieldStart(c, t)
    PROVE  SInv'
<1> USE SchedAssumption
<1>1. TypeOK'
  <2>1. preempt_count' \in [AnyTask -> Int]
    BY CountTyped, Zenon DEF SInv, YieldStart, AnyTask
  <2> QED
    BY <2>1, Zenon DEF SInv, TypeOK, YieldStart, Goto, cpuVars, args, wqVars, Places
<1>2. /\ UNCHANGED <<cpuVars, state, saved, hand, wqVars>> /\ Runs(c, t)
      /\ pc[t] = "run" /\ pc'[t] = "yield"
      /\ \A u \in AnyTask \ {t} : pc'[u] = pc[u] /\ arg'[u] = arg[u]
  BY DEF SInv, TypeOK, YieldStart, Goto, args, AnyTask
<1> QED
  BY <1>1, <1>2, OwnStepKeeps DEF Holding

LEMMA SleepStartKeeps ==
    ASSUME SInv, NEW c \in CPU, NEW t \in Task, NEW q \in Queue, SleepStart(c, t, q)
    PROVE  SInv'
<1> USE SchedAssumption
<1>1. TypeOK'
  <2>1. preempt_count' \in [AnyTask -> Int]
    BY CountTyped, Zenon DEF SInv, SleepStart, AnyTask
  <2> QED
    BY <2>1, Zenon DEF SInv, TypeOK, SleepStart, Goto, cpuVars, args, wqVars, Places
<1>2. /\ UNCHANGED <<cpuVars, state, saved, hand, wqVars>> /\ Runs(c, t)
      /\ pc[t] = "run" /\ pc'[t] = "sleep" /\ arg'[t] = q
      /\ \A u \in AnyTask \ {t} : pc'[u] = pc[u] /\ arg'[u] = arg[u]
  BY DEF SInv, TypeOK, SleepStart, Goto, args, AnyTask
<1> QED
  BY <1>1, <1>2, OwnStepKeeps DEF Holding

LEMMA WakeStartKeeps ==
    ASSUME SInv, NEW c \in CPU, NEW t \in Task, NEW q \in Queue, NEW all \in BOOLEAN,
           WakeStart(c, t, q, all)
    PROVE  SInv'
<1> USE SchedAssumption
<1>1. TypeOK'
  BY Zenon DEF SInv, TypeOK, WakeStart, Goto, cpuVars, args, wqVars, Places, AnyTask
<1>2. /\ UNCHANGED <<cpuVars, state, saved, hand, wqVars>> /\ Runs(c, t)
      /\ pc[t] = "run" /\ pc'[t] = "wake_current" /\ arg'[t] = q
      /\ \A u \in AnyTask \ {t} : pc'[u] = pc[u] /\ arg'[u] = arg[u]
  BY DEF SInv, TypeOK, WakeStart, Goto, args, AnyTask
<1> QED
  BY <1>1, <1>2, OwnStepKeeps DEF Holding

LEMMA WakeDisableKeeps ==
    ASSUME SInv, BootCpu \in CPU, NEW c \in CPU, NEW t \in Task, WakeDisable(c, t)
    PROVE  SInv'
<1> USE SchedAssumption
<1>1. TypeOK'
  <2>1. now_running[idread[t]] \in AnyTask
    BY DEF SInv, TypeOK, AnyTask
  <2>2. preempt_count' \in [AnyTask -> Int]
    BY <2>1, CountTyped, Zenon DEF SInv, WakeDisable
  <2> QED
    BY <2>2, Zenon DEF SInv, TypeOK, WakeDisable, Goto, cpuVars, args, wqVars, Places
<1>2. /\ UNCHANGED <<cpuVars, state, saved, hand, wqVars>> /\ Runs(c, t)
      /\ pc[t] = "wake_current" /\ pc'[t] = "wake_lock" /\ UNCHANGED arg
      /\ \A u \in AnyTask \ {t} : pc'[u] = pc[u] /\ arg'[u] = arg[u]
  BY DEF SInv, TypeOK, WakeDisable, Goto, args, AnyTask
<1>3. arg'[t] \in Queue
  BY <1>2 DEF SInv, Code, AnyTask
<1> QED
  BY <1>1, <1>2, <1>3, OwnStepKeeps DEF Holding

LEMMA WakeLockKeeps ==
    ASSUME SInv, NEW c \in CPU, NEW t \in Task, WakeLock(c, t)
    PROVE  SInv'
<1> USE SchedAssumption
<1>0. TypeOK /\ t \in AnyTask
  BY DEF SInv, AnyTask
<1> DEFINE q == arg[t]
<1>q. q \in Queue
  BY <1>0 DEF SInv, Code, WakeLock
<1>1. TypeOK'
  BY <1>0, <1>q, Zenon DEF TypeOK, WakeLock, Goto, cpuVars, args, Places
<1>e. /\ phase[c] = "exec" /\ stack[c] = t /\ wlock[q] = None /\ wlock'[q] = t
      /\ pc[t] = "wake_lock" /\ pc'[t] = "wake_loop"
      /\ \A u \in AnyTask \ {t} : pc'[u] = pc[u]
      /\ \A p \in Queue \ {q} : wlock'[p] = wlock[p]
      /\ UNCHANGED <<now_running, stack, ready_list, total_ready_num, rlock, phase, bal, relq,
                     state, saved, arg, hand, wait_list>>
  BY <1>0, <1>q DEF TypeOK, WakeLock, Goto, Runs, cpuVars, args
<1>2. Stacks'
  BY <1>e DEF SInv, Stacks
<1>3. Code'
  BY <1>e, <1>q DEF SInv, Code, Off
<1>4. Placed'
  <2>1. \A u \in Task : pc'[u] = "sleep_switch" <=> pc[u] = "sleep_switch"
    BY <1>e DEF AnyTask
  <2> QED
    BY <1>e, <2>1 DEF SInv, Placed
<1>5. ReadyLocks'
  BY <1>e DEF SInv, ReadyLocks
<1>6. QueueLocks'
  <2>1. \A u \in Task \ {t} : pc'[u] \in Holding => arg[u] # q /\ arg[u] \in Queue /\ pc[u] \in Holding
    BY <1>e, <1>q DEF SInv, QueueLocks, Code, AnyTask, Holding
  <2>2. \A d \in CPU : relq[d] # q
    BY <1>e, <1>q DEF SInv, QueueLocks
  <2>3. \A p \in Queue \ {q} : wlock[p] # None => wlock[p] \in AnyTask
    BY <1>0 DEF TypeOK, AnyTask
  <2> HIDE DEF q
  <2>4. \A u \in Task : pc'[u] \in Holding => wlock'[arg'[u]] = u
    BY <1>e, <2>1 DEF SInv, QueueLocks, AnyTask, q
  <2>5. \A p \in Queue : wlock'[p] # None =>
          \/ pc'[wlock'[p]] \in Holding /\ arg'[wlock'[p]] = p
          \/ \E d \in CPU : relq'[d] = p
    BY <1>e, <2>3 DEF SInv, QueueLocks, Holding, q
  <2>6. \A d \in CPU, p \in Queue : relq'[d] = p =>
          /\ wlock'[p] \in Task /\ Has(wait_list, p, wlock'[p])
          /\ ~(pc'[wlock'[p]] \in Holding /\ arg'[wlock'[p]] = p)
    BY <1>e, <2>2, <2>3 DEF SInv, QueueLocks, q
  <2> QED
    BY <1>e, <2>4, <2>5, <2>6 DEF SInv, QueueLocks
<1>7. Leaving'
  BY <1>e DEF SInv, Leaving
<1> QED
  BY <1>1, <1>2, <1>3, <1>4, <1>5, <1>6, <1>7 DEF SInv

LEMMA WakeUnlockKeeps ==
    ASSUME SInv, NEW c \in CPU, NEW t \in Task, WakeUnlock(c, t)
    PROVE  SInv'
<1> USE SchedAssumption
<1>0. TypeOK /\ t \in AnyTask /\ pc[t] \in {"wake_loop", "wake_unlock"} /\ pc[t] \in Holding
  BY DEF SInv, AnyTask, WakeUnlock, Holding
<1> DEFINE q == arg[t]
<1>q. q \in Queue
  BY <1>0 DEF SInv, Code
<1>1. TypeOK'
  <2>1. preempt_count' \in [AnyTask -> Int]
    BY <1>0, CountTyped, Zenon DEF WakeUnlock
  <2> QED
    BY <1>0, <1>q, <2>1, Zenon DEF TypeOK, WakeUnlock, Goto, cpuVars, Places
<1>e. /\ phase[c] = "exec" /\ stack[c] = t /\ wlock'[q] = None /\ pc'[t] = "run"
      /\ \A u \in AnyTask \ {t} : pc'[u] = pc[u] /\ arg'[u] = arg[u]
      /\ \A p \in Queue \ {q} : wlock'[p] = wlock[p]
      /\ UNCHANGED <<now_running, stack, ready_list, total_ready_num, rlock, phase, bal, relq,
                     state, saved, hand, wait_list>>
  BY <1>0, <1>q DEF TypeOK, WakeUnlock, Goto, Runs, cpuVars
<1>2. Stacks'
  BY <1>e DEF SInv, Stacks
<1>3. Code'
  BY <1>0, <1>e DEF SInv, Code, Off
<1>4. Placed'
  <2>1. \A u \in Task : pc'[u] = "sleep_switch" <=> pc[u] = "sleep_switch"
    BY <1>0, <1>e DEF AnyTask
  <2>2. \A u \in Task : pc[u] = "sleep_switch" => arg'[u] = arg[u]
    BY <1>0, <1>e DEF AnyTask
  <2> QED
    BY <1>e, <2>1, <2>2 DEF SInv, Placed
<1>5. ReadyLocks'
  BY <1>e DEF SInv, ReadyLocks
<1>6. QueueLocks'
  <2>0. wlock[q] = t
    BY <1>0 DEF SInv, QueueLocks
  <2>1. \A u \in Task \ {t} : pc'[u] \in Holding => arg[u] # q /\ arg[u] \in Queue /\ pc[u] \in Holding
    BY <1>e, <1>q, <2>0 DEF SInv, QueueLocks, Code, AnyTask, Holding
  <2>2. \A d \in CPU : relq[d] # q
    BY <1>0, <1>e, <1>q, <2>0 DEF SInv, QueueLocks
  <2>3. \A p \in Queue \ {q} : wlock[p] # None => wlock[p] \in AnyTask
    BY <1>0 DEF TypeOK, AnyTask
  <2> HIDE DEF q
  <2>4. \A u \in Task : pc'[u] \in Holding => wlock'[arg'[u]] = u
    BY <1>e, <2>1 DEF SInv, QueueLocks, AnyTask, Holding
  <2>5. \A p \in Queue : wlock'[p] # None =>
          \/ pc'[wlock'[p]] \in Holding /\ arg'[wlock'[p]] = p
          \/ \E d \in CPU : relq'[d] = p
    BY <1>e, <2>3 DEF SInv, QueueLocks, q
  <2>6. \A d \in CPU, p \in Queue : relq'[d] = p =>
          /\ wlock'[p] \in Task /\ Has(wait_list, p, wlock'[p])
          /\ ~(pc'[wlock'[p]] \in Holding /\ arg'[wlock'[p]] = p)
    BY <1>e, <2>2, <2>3 DEF SInv, QueueLocks, Holding
  <2> QED
    BY <1>e, <2>4, <2>5, <2>6 DEF SInv, QueueLocks
<1>7. Leaving'
  BY <1>e DEF SInv, Leaving
<1> QED
  BY <1>1, <1>2, <1>3, <1>4, <1>5, <1>6, <1>7 DEF SInv

LEMMA SleepEnqueueKeeps ==
    ASSUME SInv, NEW c \in CPU, NEW t \in Task, SleepEnqueue(c, t)
    PROVE  SInv'
<1> USE SchedAssumption
<1>0. TypeOK /\ t \in AnyTask
  BY DEF SInv, AnyTask
<1> DEFINE q == arg[t]
<1>q. q \in Queue /\ wait_list \in [Queue -> Seq(Task)]
  BY <1>0, Zenon DEF SInv, Code, SleepEnqueue, TypeOK
<1>w. wait_list' = [wait_list EXCEPT ![q] = Append(wait_list[q], t)]
  BY DEF SleepEnqueue
<1>e. /\ phase[c] = "exec" /\ stack[c] = t /\ wlock[q] = None /\ wlock'[q] = t
      /\ pc[t] = "sleep" /\ pc'[t] = "sleep_switch" /\ state'[t] = "SLEEP"
      /\ \A u \in AnyTask \ {t} : pc'[u] = pc[u] /\ state'[u] = state[u]
      /\ \A p \in Queue \ {q} : wlock'[p] = wlock[p]
      /\ UNCHANGED <<now_running, stack, ready_list, total_ready_num, rlock, phase, bal, relq,
                     saved, arg, hand>>
  BY <1>0, <1>q DEF TypeOK, SleepEnqueue, Goto, Runs, cpuVars, args
<1>s. now_running[c] = t /\ state[t] = "RUNNING"
  <2>1. now_running[c] = t
    BY <1>e DEF SInv, Stacks, Quiet
  <2> QED
    BY <1>e, <2>1 DEF SInv, Placed
<1>o. Once(wait_list) /\ \A p \in Queue : ~Has(wait_list, p, t)
  BY <1>s DEF SInv, Placed
<1> HIDE DEF q
<1>l. /\ wait_list' \in [Queue -> Seq(Task)] /\ Once(wait_list')
      /\ \A p \in Queue : \A u : Has(wait_list', p, u) <=> Has(wait_list, p, u) \/ (p = q /\ u = t)
  <2>1. Added(Queue, Task, wait_list, q, t, wait_list')
    BY <1>q, <1>w, AppendToOne, Zenon
  <2> QED
    BY <1>o, <2>1 DEF Added
<1>1. TypeOK'
  <2>1. preempt_count' \in [AnyTask -> Int]
    BY <1>0, CountTyped, Zenon DEF SleepEnqueue
  <2>2. wlock' \in [Queue -> Task \cup {None}] /\ state' \in [AnyTask -> {"UNBORN", "READY", "RUNNING", "SLEEP"}]
        /\ pc' \in [AnyTask -> Places]
    BY <1>0, <1>q, Zenon DEF TypeOK, SleepEnqueue, Goto, Places
  <2> QED
    BY <1>0, <1>l, <2>1, <2>2, Zenon DEF TypeOK, SleepEnqueue, cpuVars, args
<1>2. Stacks'
  BY <1>e DEF SInv, Stacks
<1>3. Code'
  BY <1>e, <1>q DEF SInv, Code, Off, q
<1>4. Placed'
  <2>1. \A u \in Task : state'[u] = "READY" <=> state[u] = "READY"
    BY <1>e, <1>s DEF AnyTask
  <2>2. \A u \in Task : state'[u] = "SLEEP" <=> state[u] = "SLEEP" \/ u = t
    BY <1>e DEF AnyTask
  <2>3. \A u \in Task : (\E d \in CPU : now_running'[d] = u) <=>
           state'[u] = "RUNNING" \/ (state'[u] = "SLEEP" /\ pc'[u] = "sleep_switch")
    BY <1>e, <1>s DEF SInv, Placed, AnyTask
  <2>4. \A u \in Task : pc'[u] = "sleep_switch" => Has(wait_list', arg'[u], u)
    <3>1. \A u \in Task : pc[u] = "sleep_switch" => arg[u] \in Queue
      BY DEF SInv, Code, AnyTask
    <3>2. \A u \in Task \ {t} : pc'[u] = "sleep_switch" => Has(wait_list', arg[u], u)
      BY <1>e, <1>l, <3>1, SMTT(30) DEF SInv, Placed, AnyTask
    <3>3. Has(wait_list', q, t)
      BY <1>l, <1>q
    <3> QED
      BY <1>e, <3>2, <3>3 DEF q
  <2>5. \A u \in Task : state'[u] = "SLEEP" <=> \E p \in Queue : Has(wait_list', p, u)
    BY <1>l, <1>q, <2>2 DEF SInv, Placed
  <2> QED
    BY <1>e, <1>l, <2>1, <2>3, <2>4, <2>5, SMTT(30) DEF SInv, Placed
<1>5. ReadyLocks'
  BY <1>e DEF SInv, ReadyLocks
<1>6. QueueLocks'
  <2>1. \A u \in Task \ {t} : pc'[u] \in Holding => arg[u] # q /\ arg[u] \in Queue /\ pc[u] \in Holding
    BY <1>e, <1>q DEF SInv, QueueLocks, Code, AnyTask, Holding
  <2>2. \A d \in CPU : relq[d] # q
    BY <1>e, <1>q DEF SInv, QueueLocks
  <2>3. \A p \in Queue \ {q} : wlock[p] # None => wlock[p] \in AnyTask
    BY <1>0 DEF TypeOK, AnyTask
  <2>4. \A u \in Task : pc'[u] \in Holding => wlock'[arg'[u]] = u
    BY <1>e, <2>1 DEF SInv, QueueLocks, AnyTask, q
  <2>5. \A p \in Queue : wlock'[p] # None =>
          \/ pc'[wlock'[p]] \in Holding /\ arg'[wlock'[p]] = p
          \/ \E d \in CPU : relq'[d] = p
    BY <1>e, <2>3 DEF SInv, QueueLocks, Holding, q
  <2>6. \A d \in CPU, p \in Queue : relq'[d] = p =>
          /\ wlock'[p] \in Task /\ Has(wait_list', p, wlock'[p])
          /\ ~(pc'[wlock'[p]] \in Holding /\ arg'[wlock'[p]] = p)
    <3> SUFFICES ASSUME NEW d \in CPU, NEW p \in Queue, relq[d] = p
                 PROVE  /\ wlock'[p] \in Task /\ Has(wait_list', p, wlock'[p])
                        /\ ~(pc'[wlock'[p]] \in Holding /\ arg'[wlock'[p]] = p)
      BY <1>e
    <3>1. wlock'[p] = wlock[p] /\ p # q
      BY <1>e, <2>2
    <3>2. wlock[p] \in Task /\ Has(wait_list, p, wlock[p])
          /\ ~(pc[wlock[p]] \in Holding /\ arg[wlock[p]] = p)
      BY DEF SInv, QueueLocks
    <3>3. wlock[p] # t => pc'[wlock[p]] = pc[wlock[p]]
      BY <1>e, <3>2 DEF AnyTask
    <3> QED
      BY <1>e, <1>l, <3>1, <3>2, <3>3 DEF q
  <2> QED
    BY <1>e, <2>4, <2>5, <2>6 DEF SInv, QueueLocks
<1>7. Leaving'
  <2>1. \A d \in CPU : relq[d] # None => relq[d] \in Queue
    BY <1>0 DEF TypeOK
  <2> QED
    BY <1>e, <1>l, <2>1 DEF SInv, Leaving
<1> QED
  BY <1>1, <1>2, <1>3, <1>4, <1>5, <1>6, <1>7 DEF SInv

LEMMA WakePopKeeps ==
    ASSUME SInv, NEW c \in CPU, NEW t \in Task, WakePop(c, t)
    PROVE  SInv'
<1> USE SchedAssumption
<1>0. TypeOK /\ t \in AnyTask /\ pc[t] = "wake_loop" /\ pc[t] \in Holding
  BY DEF SInv, AnyTask, WakePop, Holding
<1> DEFINE q == arg[t]
           v == Head(wait_list[q])
<1>q. q \in Queue /\ wait_list \in [Queue -> Seq(Task)] /\ wait_list[q] # <<>> /\ wlock[q] = t
  BY <1>0, Zenon DEF SInv, Code, WakePop, TypeOK, QueueLocks
<1>w. wait_list' = [wait_list EXCEPT ![q] = Tail(wait_list[q])]
  BY DEF WakePop
<1>o. Once(wait_list)
  BY DEF SInv, Placed
<1>r. Removed(Queue, Task, wait_list, q, v, wait_list')
  BY <1>q, <1>w, <1>o, TailOfOne, Zenon
<1> HIDE DEF v
<1>l. /\ wait_list' \in [Queue -> Seq(Task)] /\ Once(wait_list')
      /\ v \in Task /\ v \in AnyTask /\ Has(wait_list, q, v)
      /\ \A p \in Queue : \A u : Has(wait_list', p, u) <=> Has(wait_list, p, u) /\ u # v
  BY <1>r DEF Removed, AnyTask
<1>e. /\ phase[c] = "exec" /\ stack[c] = t /\ hand'[t] = v
      /\ pc'[t] = "wake_put" /\ state'[v] = "READY"
      /\ \A u \in AnyTask \ {t} : pc'[u] = pc[u] /\ hand'[u] = hand[u]
      /\ \A u \in AnyTask \ {v} : state'[u] = state[u]
      /\ UNCHANGED <<now_running, stack, ready_list, total_ready_num, rlock, phase, bal, relq,
                     cpuid, saved, arg, many, idread, wlock>>
  <2>1. /\ phase[c] = "exec" /\ stack[c] = t /\ hand' = [hand EXCEPT ![t] = v]
        /\ pc' = [pc EXCEPT ![t] = "wake_put"] /\ state' = [state EXCEPT ![v] = "READY"]
        /\ UNCHANGED <<now_running, stack, ready_list, total_ready_num, rlock, phase, bal, relq,
                       cpuid, saved, arg, many, idread, wlock>>
    BY DEF WakePop, Goto, Runs, cpuVars, v
  <2> QED
    BY <1>0, <1>l, <2>1 DEF TypeOK
<1>p. \A p \in Queue : Has(wait_list, p, v) => p = q
  BY <1>q, <1>o, <1>l DEF Has, Once
<1>v. state[v] = "SLEEP" /\ pc[v] # "sleep_switch" /\ hand[t] = None
  <2>1. state[v] = "SLEEP"
    BY <1>l, <1>q DEF SInv, Placed
  <2>2. ASSUME pc[v] = "sleep_switch" PROVE FALSE
    <3>1. Has(wait_list, arg[v], v) /\ arg[v] \in Queue /\ wlock[arg[v]] = v
      BY <1>l, <2>2 DEF SInv, Placed, Code, QueueLocks, Holding
    <3> QED
      BY <1>0, <1>p, <1>q, <2>2, <3>1
  <2> QED
    BY <1>0, <2>1, <2>2 DEF SInv, Code
<1>h. \A u \in AnyTask : hand[u] # v
  BY <1>l, <1>v DEF SInv, Placed
<1>d. \A d \in CPU : relq[d] # q
  BY <1>0, <1>q DEF SInv, QueueLocks
<1> HIDE DEF q
<1>1. TypeOK'
  <2>1. preempt_count' \in [AnyTask -> Int]
    BY <1>0, CountTyped, Zenon DEF WakePop
  <2>2. /\ state' \in [AnyTask -> {"UNBORN", "READY", "RUNNING", "SLEEP"}]
        /\ pc' \in [AnyTask -> Places] /\ hand' \in [AnyTask -> Task \cup {None}]
    BY <1>0, <1>l, Zenon DEF TypeOK, WakePop, Goto, Places, v, q
  <2> QED
    BY <1>0, <1>e, <1>l, <2>1, <2>2, Zenon DEF TypeOK
<1>2. Stacks'
  BY <1>e DEF SInv, Stacks
<1>3. Code'
  BY <1>0, <1>e, <1>l DEF SInv, Code, Off
<1>4. Placed'
  <2>1. \A u \in Task : state'[u] = "READY" <=>
           (\E d \in CPU : Has(ready_list', d, u)) \/ (\E x \in AnyTask : hand'[x] = u)
    <3>1. \A u \in Task \ {v} : (\E x \in AnyTask : hand'[x] = u) <=> (\E x \in AnyTask : hand[x] = u)
      BY <1>0, <1>e, <1>v
    <3> QED
      BY <1>0, <1>e, <1>l, <3>1 DEF SInv, Placed, AnyTask
  <2>2. \A u \in Task : state'[u] = "SLEEP" <=> \E p \in Queue : Has(wait_list', p, u)
    BY <1>e, <1>l DEF SInv, Placed, AnyTask
  <2>3. \A u \in Task : (\E d \in CPU : now_running'[d] = u) <=>
           state'[u] = "RUNNING" \/ (state'[u] = "SLEEP" /\ pc'[u] = "sleep_switch")
    BY <1>0, <1>e, <1>v DEF SInv, Placed, AnyTask
  <2>4. \A u \in Task : pc'[u] = "sleep_switch" => Has(wait_list', arg'[u], u)
    <3>1. \A u \in Task : pc[u] = "sleep_switch" => arg[u] \in Queue
      BY DEF SInv, Code, AnyTask
    <3> QED
      BY <1>e, <1>l, <1>v, <3>1 DEF SInv, Placed, AnyTask
  <2>5. \A u, x \in AnyTask : hand'[u] = hand'[x] /\ hand'[u] # None => u = x
    BY <1>e, <1>h DEF SInv, Placed
  <2>6. \A u \in AnyTask, d \in CPU : hand'[u] # None => ~Has(ready_list', d, hand'[u])
    BY <1>e, <1>l, <1>v DEF SInv, Placed
  <2> QED
    BY <1>e, <1>l, <2>1, <2>2, <2>3, <2>4, <2>5, <2>6 DEF SInv, Placed
<1>5. ReadyLocks'
  BY <1>e DEF SInv, ReadyLocks
<1>6. QueueLocks'
  <2>1. \A u \in Task : pc'[u] \in Holding <=> pc[u] \in Holding
    BY <1>0, <1>e DEF AnyTask, Holding
  <2>2. \A p \in Queue : wlock[p] # None => wlock[p] \in Task
    BY <1>0 DEF TypeOK
  <2>3. \A d \in CPU, p \in Queue : relq[d] = p => Has(wait_list', p, wlock[p])
    BY <1>d, <1>l, <1>p DEF SInv, QueueLocks
  <2> QED
    BY <1>e, <2>1, <2>2, <2>3 DEF SInv, QueueLocks
<1>7. Leaving'
  <2>1. \A d \in CPU : relq[d] # None => relq[d] \in Queue /\ relq[d] # q
    BY <1>0, <1>d DEF TypeOK
  <2> QED
    BY <1>e, <1>l, <1>p, <2>1 DEF SInv, Leaving
<1> QED
  BY <1>1, <1>2, <1>3, <1>4, <1>5, <1>6, <1>7 DEF SInv

LEMMA WakePutKeeps ==
    ASSUME SInv, NEW c \in CPU, NEW t \in Task, WakePut(c, t)
    PROVE  SInv'
<1> USE SchedAssumption
<1>0. TypeOK /\ t \in AnyTask /\ pc[t] = "wake_put" /\ pc[t] \in Holding
  BY SMTT(30) DEF SInv, AnyTask, WakePut, Holding
<1> DEFINE v == hand[t]
           d == cpuid[v]
<1>v. v \in Task /\ v \in AnyTask /\ d \in CPU /\ ready_list \in [CPU -> Seq(Task)] /\ v # None
  BY <1>0 DEF SInv, Code, TypeOK, AnyTask
<1>w. ready_list' = [ready_list EXCEPT ![d] = <<v>> \o ready_list[d]]
  BY DEF WakePut
<1>r. Added(CPU, Task, ready_list, d, v, ready_list')
  BY <1>v, <1>w, ConsToOne, Zenon
<1>o. Once(ready_list) /\ \A a \in CPU : ~Has(ready_list, a, v)
  BY <1>0, <1>v DEF SInv, Placed
<1>e. /\ phase[c] = "exec" /\ stack[c] = t /\ hand'[t] = None
      /\ pc'[t] \in {"wake_loop", "wake_unlock"}
      /\ \A u \in AnyTask \ {t} : pc'[u] = pc[u] /\ hand'[u] = hand[u]
      /\ total_ready_num' = [total_ready_num EXCEPT ![d] = total_ready_num[d] + 1]
      /\ UNCHANGED <<now_running, stack, rlock, phase, bal, relq,
                     state, cpuid, saved, arg, many, idread, wlock, wait_list>>
  BY <1>0, <1>v DEF TypeOK, WakePut, Goto, Runs, wqVars
<1>x. v = hand[t]
  OBVIOUS
<1> HIDE DEF v, d
<1>l. /\ ready_list' \in [CPU -> Seq(Task)] /\ Once(ready_list')
      /\ \A a \in CPU \ {d} : ready_list'[a] = ready_list[a]
      /\ Len(ready_list'[d]) = Len(ready_list[d]) + 1
      /\ \A a \in CPU : \A u : Has(ready_list', a, u) <=> Has(ready_list, a, u) \/ (a = d /\ u = v)
  BY <1>o, <1>r DEF Added
<1>1. TypeOK'
  <2>1. preempt_count' \in [AnyTask -> Int]
    BY <1>0, CountTyped, Zenon DEF WakePut
  <2>2. pc' \in [AnyTask -> Places] /\ hand' \in [AnyTask -> Task \cup {None}]
    BY <1>0, Zenon DEF TypeOK, WakePut, Goto, Places
  <2>3. total_ready_num' \in [CPU -> Nat]
    <3>1. total_ready_num \in [CPU -> Nat] /\ total_ready_num[d] \in Nat
      BY <1>0, <1>v DEF TypeOK
    <3>2. total_ready_num[d] + 1 \in Nat
      BY <3>1
    <3> QED
      BY <1>e, <3>1, <3>2, Zenon
  <2> QED
    BY <1>0, <1>e, <1>l, <2>1, <2>2, <2>3, Zenon DEF TypeOK
<1>2. Stacks'
  BY <1>e DEF SInv, Stacks
<1>3. Code'
  BY <1>0, <1>e DEF SInv, Code, Off
<1>4. Placed'
  <2>1. \A u \in Task : state'[u] = "READY" <=>
           (\E a \in CPU : Has(ready_list', a, u)) \/ (\E y \in AnyTask : hand'[y] = u)
    <3>1. \A u \in Task \ {v} : (\E y \in AnyTask : hand'[y] = u) <=> (\E y \in AnyTask : hand[y] = u)
      BY <1>0, <1>e, <1>x
    <3>2. state[v] = "READY"
      BY <1>0, <1>v, <1>x DEF SInv, Placed
    <3>3. \A u \in Task : (\E a \in CPU : Has(ready_list', a, u)) <=>
                              u = v \/ \E a \in CPU : Has(ready_list, a, u)
      BY <1>l, <1>v
    <3>4. \A u \in Task : state'[u] = state[u]
      BY <1>e
    <3>5. \A u \in Task : state[u] = "READY" <=>
             (\E a \in CPU : Has(ready_list, a, u)) \/ (\E y \in AnyTask : hand[y] = u)
      BY DEF SInv, Placed
    <3> QED
      BY <3>1, <3>2, <3>3, <3>4, <3>5
  <2>2. \A u \in Task : pc'[u] = "sleep_switch" <=> pc[u] = "sleep_switch"
    BY <1>0, <1>e DEF AnyTask
  <2>3. \A u, y \in AnyTask : hand'[u] = hand'[y] /\ hand'[u] # None => u = y
    BY <1>e DEF SInv, Placed
  <2>4. \A u \in AnyTask, a \in CPU : hand'[u] # None => ~Has(ready_list', a, hand'[u])
    <3>1. \A u \in AnyTask \ {t} : hand[u] # v
      BY <1>0, <1>v, <1>x DEF SInv, Placed
    <3>2. \A u \in AnyTask, a \in CPU : hand[u] # None => ~Has(ready_list, a, hand[u])
      BY DEF SInv, Placed
    <3>3. \A u \in AnyTask : hand'[u] # None => u # t /\ hand'[u] = hand[u]
      BY <1>e
    <3> QED
      BY <1>l, <3>1, <3>2, <3>3, SMTT(30)
  <2>5. \A a \in CPU : total_ready_num'[a] = Len(ready_list'[a])
    <3>1. total_ready_num \in [CPU -> Nat]
      BY <1>0 DEF TypeOK
    <3>2. total_ready_num'[d] = Len(ready_list[d]) + 1
      BY <1>e, <1>v, <3>1 DEF SInv, Placed
    <3>3. \A a \in CPU \ {d} : total_ready_num'[a] = Len(ready_list[a])
      BY <1>e, <1>v, <3>1 DEF SInv, Placed
    <3> QED
      BY <1>l, <3>2, <3>3, Zenon
  <2> QED
    BY <1>e, <1>l, <2>1, <2>2, <2>3, <2>4, <2>5 DEF SInv, Placed
<1>5. ReadyLocks'
  BY <1>e DEF SInv, ReadyLocks
<1>6. QueueLocks'
  <2>1. \A u \in Task : pc'[u] \in Holding <=> pc[u] \in Holding
    BY <1>0, <1>e DEF AnyTask, Holding
  <2>2. \A p \in Queue : wlock[p] # None => wlock[p] \in Task
    BY <1>0 DEF TypeOK
  <2> QED
    BY <1>e, <2>1, <2>2 DEF SInv, QueueLocks
<1>7. Leaving'
  BY <1>e, <1>l, Zenon DEF SInv, Leaving
<1> QED
  BY <1>1, <1>2, <1>3, <1>4, <1>5, <1>6, <1>7 DEF SInv

LEMMA SpawnKeeps ==
    ASSUME SInv, NEW c \in CPU, NEW t \in Task, NEW new \in Task, NEW n \in CPU,
           Spawn(c, t, new, n)
    PROVE  SInv'
<1> USE SchedAssumption
<1>0. TypeOK /\ new \in AnyTask /\ ready_list \in [CPU -> Seq(Task)] /\ state[new] = "UNBORN"
  BY Zenon DEF SInv, AnyTask, TypeOK, Spawn
<1>w. ready_list' = [ready_list EXCEPT ![n] = <<new>> \o ready_list[n]]
  BY DEF Spawn
<1>r. Added(CPU, Task, ready_list, n, new, ready_list')
  BY <1>0, <1>w, ConsToOne, Zenon
<1>o. Once(ready_list) /\ \A a \in CPU : ~Has(ready_list, a, new)
  BY <1>0, Zenon DEF SInv, Placed
<1>l. /\ ready_list' \in [CPU -> Seq(Task)] /\ Once(ready_list')
      /\ \A a \in CPU \ {n} : ready_list'[a] = ready_list[a]
      /\ Len(ready_list'[n]) = Len(ready_list[n]) + 1
      /\ \A a \in CPU : \A u : Has(ready_list', a, u) <=> Has(ready_list, a, u) \/ (a = n /\ u = new)
  BY <1>o, <1>r DEF Added
<1>e. /\ state'[new] = "READY" /\ \A u \in AnyTask \ {new} : state'[u] = state[u]
      /\ total_ready_num' = [total_ready_num EXCEPT ![n] = total_ready_num[n] + 1]
      /\ UNCHANGED <<now_running, stack, rlock, phase, bal, relq, preempt_count, saved, pc,
                     arg, many, idread, hand, wlock, wait_list>>
  BY <1>0 DEF TypeOK, Spawn, args, wqVars
<1>1. TypeOK'
  <2>1. /\ state' \in [AnyTask -> {"UNBORN", "READY", "RUNNING", "SLEEP"}]
        /\ cpuid' \in [AnyTask -> CPU]
    BY <1>0, Zenon DEF TypeOK, Spawn
  <2>2. total_ready_num' \in [CPU -> Nat]
    <3>1. total_ready_num \in [CPU -> Nat] /\ total_ready_num[n] \in Nat
      BY <1>0 DEF TypeOK
    <3>2. total_ready_num[n] + 1 \in Nat
      BY <3>1
    <3> QED
      BY <1>e, <3>1, <3>2
  <2> QED
    BY <1>0, <1>e, <1>l, <2>1, <2>2, Zenon DEF TypeOK
<1>2. Stacks'
  BY <1>e DEF SInv, Stacks
<1>3. Code'
  BY <1>e DEF SInv, Code
<1>4. Placed'
  <2>1. \A u \in Task : state'[u] = "READY" <=>
           (\E a \in CPU : Has(ready_list', a, u)) \/ (\E y \in AnyTask : hand'[y] = u)
    <3>1. \A u \in Task : (\E a \in CPU : Has(ready_list', a, u)) <=>
                             u = new \/ \E a \in CPU : Has(ready_list, a, u)
      BY <1>l
    <3>2. \A u \in Task : state'[u] = "READY" <=> u = new \/ state[u] = "READY"
      BY <1>e DEF AnyTask
    <3>3. \A u \in Task : state[u] = "READY" <=>
             (\E a \in CPU : Has(ready_list, a, u)) \/ (\E y \in AnyTask : hand[y] = u)
      BY DEF SInv, Placed
    <3> QED
      BY <1>e, <3>1, <3>2, <3>3
  <2>2. \A u \in Task : /\ state'[u] = "SLEEP" <=> state[u] = "SLEEP"
                        /\ state'[u] = "RUNNING" <=> state[u] = "RUNNING"
    BY <1>0, <1>e, Zenon DEF AnyTask
  <2>3. \A u \in AnyTask, a \in CPU : hand'[u] # None => ~Has(ready_list', a, hand'[u])
    <3>1. \A u \in AnyTask : hand[u] # new
      BY <1>0, Zenon DEF SInv, Placed
    <3>2. \A u \in AnyTask, a \in CPU : hand[u] # None => ~Has(ready_list, a, hand[u])
      BY DEF SInv, Placed
    <3> QED
      BY <1>e, <1>l, <3>1, <3>2
  <2>4. \A a \in CPU : total_ready_num'[a] = Len(ready_list'[a])
    <3>1. total_ready_num \in [CPU -> Nat]
      BY <1>0 DEF TypeOK
    <3>2. total_ready_num'[n] = Len(ready_list[n]) + 1
      BY <1>e, <3>1 DEF SInv, Placed
    <3>3. \A a \in CPU \ {n} : total_ready_num'[a] = Len(ready_list[a])
      BY <1>e, <3>1 DEF SInv, Placed
    <3> QED
      BY <1>l, <3>2, <3>3, Zenon
  <2>5. \A u \in Task : /\ state'[u] = "SLEEP" <=> \E q \in Queue : Has(wait_list', q, u)
                        /\ (\E a \in CPU : now_running'[a] = u) <=>
                              state'[u] = "RUNNING" \/ (state'[u] = "SLEEP" /\ pc'[u] = "sleep_switch")
                        /\ pc'[u] = "sleep_switch" => Has(wait_list', arg'[u], u)
    BY <1>e, <2>2 DEF SInv, Placed
  <2>6. Once(ready_list') /\ Once(wait_list')
        /\ \A u, v \in AnyTask : hand'[u] = hand'[v] /\ hand'[u] # None => u = v
    BY <1>e, <1>l DEF SInv, Placed
  <2> QED
    BY <2>1, <2>3, <2>4, <2>5, <2>6, Zenon DEF Placed
<1>5. ReadyLocks'
  BY <1>e DEF SInv, ReadyLocks
<1>6. QueueLocks'
  BY <1>e DEF SInv, QueueLocks
<1>7. Leaving'
  BY <1>e, <1>l, Zenon DEF SInv, Leaving
<1> QED
  BY <1>1, <1>2, <1>3, <1>4, <1>5, <1>6, <1>7 DEF SInv

-----------------------------------------------------------------------------
(* Every step keeps the nesting of preempt_disable, if get_current is not  *)
(* interrupted.                                                            *)
LEMMA CountHere ==
    ASSUME SInv, Counted, ~world.race, NEW c \in CPU, NEW t \in AnyTask, Runs(c, t)
    PROVE  preempt_count[t] = Depth(pc[t]) /\ now_running[c] = t
<1>1. None \notin AnyTask
  BY SchedAssumption DEF AnyTask
<1>2. \A d \in CPU : ~(phase[d] = "save" /\ stack[d] = t)
  BY <1>1 DEF Runs, SInv, Stacks
<1>3. now_running[c] = t
  BY DEF Runs, SInv, Stacks, Quiet
<1>4. CountedTask(t)
  BY Zenon DEF Counted
<1> QED
  BY <1>2, <1>3, <1>4, Zenon DEF CountedTask

(* Where the CPUs are that store a context.                                *)
LEMMA SavedStacks ==
    ASSUME SInv
    PROVE  /\ None \notin AnyTask
           /\ \A d \in CPU : phase[d] = "save" => stack[d] \in AnyTask
           /\ \A c, d \in CPU : stack[c] \in AnyTask /\ stack[d] = stack[c] => d = c
<1>1. None \notin AnyTask
  BY SchedAssumption DEF AnyTask
<1>2. \A d \in CPU : phase[d] = "save" => stack[d] \in AnyTask
  BY DEF SInv, Stacks, AnyTask
<1>3. \A c, d \in CPU : stack[c] = stack[d] /\ stack[c] # None => c = d
  BY Zenon DEF SInv, Stacks
<1> QED
  BY <1>1, <1>2, <1>3

(* Steps of a task's own code ...                                          *)
LEMMA OwnStepCounts ==
    ASSUME SInv, Counted, NEW c \in CPU, NEW t \in AnyTask, Runs(c, t),
           UNCHANGED <<world, phase, stack, relq>>,
           ~world.race =>
              /\ \A u \in AnyTask \ {t} : /\ pc'[u] = pc[u] /\ idread'[u] = idread[u]
                                          /\ preempt_count'[u] = preempt_count[u]
              /\ preempt_count'[t] = Depth(pc'[t])
              /\ pc'[t] = "wake_current" => idread'[t] = c
    PROVE  Counted'
<1>1. phase[c] = "exec" /\ stack[c] = t
  BY DEF Runs
<1>2. \A d \in CPU : phase[d] = "save" => stack[d] \in AnyTask \ {t}
  BY <1>1, SavedStacks
<1>3. ASSUME ~world.race, NEW u \in AnyTask PROVE CountedTask(u)'
  <2>1. CASE u = t
    BY <1>1, <1>3, <2>1 DEF CountedTask
  <2>2. CASE u # t
    <3>1. CountedTask(u)
      BY <1>3, Zenon DEF Counted
    <3>2. pc'[u] = pc[u] /\ idread'[u] = idread[u] /\ preempt_count'[u] = preempt_count[u]
      BY <1>3, <2>2, Zenon
    <3> QED
      BY <3>1, <3>2 DEF CountedTask
  <2> QED
    BY <2>1, <2>2
<1>4. ASSUME ~world.race, NEW d \in CPU PROVE CountedSave(d)'
  <2>1. CountedSave(d)
    BY <1>4, Zenon DEF Counted
  <2> QED
    BY <1>2, <1>4, <2>1 DEF CountedSave
<1> QED
  BY <1>3, <1>4, Zenon DEF Counted

LEMMA OwnActionsCount ==
    ASSUME SInv, Counted, UNCHANGED world, NEW c \in CPU, NEW t \in Task,
           \/ Start(c, t) \/ SleepEnqueue(c, t)
           \/ WakeDisable(c, t) \/ WakeLock(c, t) \/ WakePop(c, t) \/ WakePut(c, t)
           \/ WakeUnlock(c, t)
    PROVE  Counted'
<1>0. t \in AnyTask
  BY DEF AnyTask
<1>t. /\ pc \in [AnyTask -> Places] /\ preempt_count \in [AnyTask -> Int]
      /\ idread \in [AnyTask -> CPU]
  BY Zenon DEF SInv, TypeOK
<1> DEFINE Counts == ~world.race =>
              /\ \A u \in AnyTask \ {t} : /\ pc'[u] = pc[u] /\ idread'[u] = idread[u]
                                          /\ preempt_count'[u] = preempt_count[u]
              /\ preempt_count'[t] = Depth(pc'[t])
              /\ pc'[t] = "wake_current" => idread'[t] = c
           Stays == Runs(c, t) /\ UNCHANGED <<phase, stack, relq>>
<1>1. Runs(c, t) /\ ~world.race => preempt_count[t] = Depth(pc[t]) /\ now_running[c] = t
  BY <1>0, CountHere, Zenon
<1>2. ASSUME YieldStart(c, t) PROVE Stays /\ Counts
  BY <1>0, <1>1, <1>2, <1>t DEF YieldStart, Goto, Depth, args, cpuVars
<1>3. ASSUME NEW q \in Queue, SleepStart(c, t, q) PROVE Stays /\ Counts
  BY <1>0, <1>1, <1>3, <1>t DEF SleepStart, Goto, Depth, cpuVars
<1>4. ASSUME NEW q \in Queue, NEW all \in BOOLEAN, WakeStart(c, t, q, all) PROVE Stays /\ Counts
  BY <1>0, <1>1, <1>4, <1>t DEF WakeStart, Goto, Depth, cpuVars
<1>5. ASSUME NEW new \in Task, NEW n \in CPU, Spawn(c, t, new, n) PROVE Stays /\ Counts
  BY <1>0, <1>1, <1>5, <1>t DEF Spawn, args, Depth
<1>6. ASSUME SleepEnqueue(c, t) PROVE Stays /\ Counts
  BY <1>0, <1>1, <1>6, <1>t DEF SleepEnqueue, Goto, Depth, args, cpuVars
<1>7. ASSUME WakeDisable(c, t) PROVE Stays /\ Counts
  <2>1. Stays /\ pc[t] = "wake_current"
    BY <1>7, SMTT(30) DEF WakeDisable, cpuVars
  <2>2. ASSUME ~world.race PROVE now_running[idread[t]] = t
    <3>1. stack[idread[t]] = t /\ idread[t] \in CPU
      BY <1>0, <1>t, <2>1, <2>2 DEF Counted, CountedTask
    <3>2. stack[c] = t
      BY <2>1 DEF Runs
    <3>3. idread[t] = c
      BY <1>0, <3>1, <3>2, SavedStacks
    <3> QED
      BY <1>1, <2>1, <2>2, <3>3
  <2> QED
    BY <1>0, <1>1, <1>7, <1>t, <2>1, <2>2 DEF WakeDisable, Goto, Depth
<1>8. ASSUME WakeLock(c, t) PROVE Stays /\ Counts
  BY <1>0, <1>1, <1>8, <1>t DEF WakeLock, Goto, Depth, args, cpuVars
<1>9. ASSUME WakePop(c, t) PROVE Stays /\ Counts
  BY <1>0, <1>1, <1>9, <1>t DEF WakePop, Goto, Depth, cpuVars
<1>a. ASSUME WakePut(c, t) PROVE Stays /\ Counts
  BY <1>0, <1>1, <1>a, <1>t DEF WakePut, Goto, Depth
<1>b. ASSUME WakeUnlock(c, t) PROVE Stays /\ Counts
  BY <1>0, <1>1, <1>b, <1>t DEF WakeUnlock, Goto, Depth, cpuVars
<1>c. Stays /\ Counts
  <2> HIDE DEF Stays, Counts
  <2> QED
    BY <1>2, <1>3, <1>4, <1>5, <1>6, <1>7, <1>8, <1>9, <1>a, <1>b, Zenon DEF Start
<1> QED
  BY <1>0, <1>c, OwnStepCounts, Zenon

(* ... steps of a CPU that neither begin nor end the storing of a context  *)
(* nor interrupt a task ...                                                *)
LEMMA PhaseStepCounts ==
    ASSUME SInv, Counted, UNCHANGED <<world, pc, preempt_count, idread, stack>>,
           \A d \in CPU : /\ phase'[d] = "save" <=> phase[d] = "save"
                          /\ phase[d] = "exec" => phase'[d] = "exec"
                          /\ phase[d] = "save" => relq'[d] = relq[d]
    PROVE  Counted'
<1>1. ASSUME ~world.race, NEW u \in AnyTask PROVE CountedTask(u)'
  <2>1. CountedTask(u)
    BY <1>1, Zenon DEF Counted
  <2> QED
    BY <2>1 DEF CountedTask
<1>2. ASSUME ~world.race, NEW d \in CPU PROVE CountedSave(d)'
  <2>1. CountedSave(d)
    BY <1>2, Zenon DEF Counted
  <2> QED
    BY <2>1 DEF CountedSave
<1> QED
  BY <1>1, <1>2, Zenon DEF Counted

(* ... the switch away from a task, from sys_yield, sleep_on or the timer, *)
(* which all come with the count that SwitchSave gives back ...            *)
LEMMA LeavingCounts ==
    ASSUME SInv, Counted, UNCHANGED <<world, stack, idread>>, NEW c \in CPU, NEW t \in AnyTask,
           stack[c] = t, phase[c] \in {"exec", "tick"},
           phase' = [phase EXCEPT ![c] = "save"],
           \A d \in CPU \ {c} : relq'[d] = relq[d],
           ~world.race =>
              /\ \A u \in AnyTask \ {t} : pc'[u] = pc[u] /\ preempt_count'[u] = preempt_count[u]
              /\ pc'[t] = "run"
              /\ preempt_count'[t] = IF relq'[c] = None THEN 1 ELSE 2
    PROVE  Counted'
<1>1. phase'[c] = "save" /\ \A d \in CPU \ {c} : phase'[d] = phase[d]
  BY DEF SInv, TypeOK
<1>2. \A d \in CPU \ {c} : stack[d] # t /\ (phase[d] = "save" => stack[d] \in AnyTask \ {t})
  BY SavedStacks
<1>3. ASSUME ~world.race, NEW u \in AnyTask PROVE CountedTask(u)'
  <2>1. CASE u = t
    BY <1>1, <1>3, <2>1 DEF CountedTask
  <2>2. CASE u # t
    <3>1. CountedTask(u) /\ pc'[u] = pc[u] /\ preempt_count'[u] = preempt_count[u]
      BY <1>3, <2>2, Zenon DEF Counted
    <3>2. \A d \in CPU : stack[d] = u => phase'[d] = phase[d]
      BY <1>1, <2>2
    <3> QED
      BY <3>1, <3>2 DEF CountedTask
  <2> QED
    BY <2>1, <2>2
<1>4. ASSUME ~world.race, NEW d \in CPU PROVE CountedSave(d)'
  <2>1. CASE d = c
    BY <1>4, <2>1 DEF CountedSave
  <2>2. CASE d # c
    <3>1. CountedSave(d) /\ phase'[d] = phase[d] /\ relq'[d] = relq[d]
      BY <1>1, <1>4, <2>2, Zenon DEF Counted
    <3> QED
      BY <1>2, <1>4, <2>2, <3>1 DEF CountedSave
  <2> QED
    BY <2>1, <2>2
<1> QED
  BY <1>3, <1>4, Zenon DEF Counted

LEMMA LeavingActionsCount ==
    ASSUME SInv, Counted, UNCHANGED world, NEW c \in CPU,
           TickPreempt(c) \/ \E t \in Task : Yield(c, t) \/ SleepSwitch(c, t)
    PROVE  Counted'
<1>t. /\ pc \in [AnyTask -> Places] /\ preempt_count \in [AnyTask -> Int]
      /\ relq \in [CPU -> Queue \cup {None}]
  BY Zenon DEF SInv, TypeOK
<1> DEFINE Leaves(t) ==
              /\ t \in AnyTask /\ stack[c] = t /\ phase[c] \in {"exec", "tick"}
              /\ phase' = [phase EXCEPT ![c] = "save"] /\ UNCHANGED <<stack, idread>>
              /\ \A d \in CPU \ {c} : relq'[d] = relq[d]
           Counts(t) ==
              ~world.race =>
                 /\ \A u \in AnyTask \ {t} : pc'[u] = pc[u] /\ preempt_count'[u] = preempt_count[u]
                 /\ pc'[t] = "run"
                 /\ preempt_count'[t] = IF relq'[c] = None THEN 1 ELSE 2
<1>1. ASSUME NEW t \in Task, Yield(c, t) PROVE Leaves(t) /\ Counts(t)
  <2>1. t \in AnyTask /\ Runs(c, t) /\ pc[t] = "yield"
    BY <1>1 DEF AnyTask, Yield
  <2>2. /\ phase[c] = "exec" /\ stack[c] = t /\ phase' = [phase EXCEPT ![c] = "save"]
        /\ relq' = [relq EXCEPT ![c] = None] /\ pc' = [pc EXCEPT ![t] = "run"]
        /\ UNCHANGED <<stack, idread, preempt_count>>
    BY <1>1, Zenon DEF Yield, Pick, Runs, Goto, args
  <2>3. ~world.race => preempt_count[t] = 1
    BY <2>1, CountHere DEF Depth
  <2> QED
    BY <1>t, <2>1, <2>2, <2>3, SMTT(30)
<1>2. ASSUME NEW t \in Task, SleepSwitch(c, t) PROVE Leaves(t) /\ Counts(t)
  <2>1. t \in AnyTask /\ Runs(c, t) /\ pc[t] = "sleep_switch"
    BY <1>2 DEF AnyTask, SleepSwitch
  <2>2. /\ phase[c] = "exec" /\ stack[c] = t /\ phase' = [phase EXCEPT ![c] = "save"]
        /\ relq' = [relq EXCEPT ![c] = arg[t]] /\ pc' = [pc EXCEPT ![t] = "run"]
        /\ UNCHANGED <<stack, idread, preempt_count>>
    BY <1>2, Zenon DEF SleepSwitch, Pick, Runs, Goto
  <2>3. ~world.race => preempt_count[t] = 2
    BY <2>1, CountHere DEF Depth
  <2>4. arg[t] \in Queue /\ arg[t] # None
    BY <2>1, SchedAssumption DEF SInv, Code
  <2> QED
    BY <1>t, <2>1, <2>2, <2>3, <2>4, SMTT(30)
<1>3. ASSUME TickPreempt(c) PROVE Leaves(stack[c]) /\ Counts(stack[c])
  <2>1. /\ phase[c] = "tick" /\ phase' = [phase EXCEPT ![c] = "save"]
        /\ relq' = [relq EXCEPT ![c] = None]
        /\ preempt_count' = [preempt_count EXCEPT ![stack[c]] = @ + 1]
        /\ UNCHANGED <<stack, idread, pc>>
    BY <1>3, ZenonT(30) DEF TickPreempt, Pick, args
  <2>2. stack[c] \in AnyTask
    BY <2>1 DEF SInv, Stacks, Quiet, AnyTask
  <2>3. \A d \in CPU : stack[d] = stack[c] => d = c
    BY <2>2, SavedStacks
  <2>4. ASSUME ~world.race PROVE pc[stack[c]] = "run" /\ preempt_count[stack[c]] = 0
    <3>1. CountedTask(stack[c])
      BY <2>2, <2>4, Zenon DEF Counted
    <3>2. \A d \in CPU : stack[d] = stack[c] => phase[d] = "tick"
      BY <2>1, <2>3, SMTT(30)
    <3> QED
      BY <3>1, <3>2 DEF CountedTask, Depth
  <2> QED
    BY <1>t, <2>1, <2>2, <2>4
<1>4. PICK t \in AnyTask : Leaves(t) /\ Counts(t)
  BY <1>1, <1>2, <1>3
<1> QED
  BY <1>4, LeavingCounts, Zenon

(* ... the two ends of the switch, and the interrupt.                      *)
LEMMA SwitchSaveCounts ==
    ASSUME SInv, Counted, UNCHANGED world, NEW c \in CPU, SwitchSave(c)
    PROVE  Counted'
<1> DEFINE t == stack[c]
<1>1. /\ phase[c] = "save" /\ phase'[c] = "unlock" /\ stack'[c] = None
      /\ \A d \in CPU \ {c} : phase'[d] = phase[d] /\ stack'[d] = stack[d]
      /\ UNCHANGED <<pc, idread, relq>>
  BY DEF SwitchSave, args, SInv, TypeOK
<1>2. t \in AnyTask /\ None \notin AnyTask
      /\ \A d \in CPU \ {c} : phase[d] = "save" => stack[d] \in AnyTask \ {t}
  BY <1>1, SavedStacks
<1>3. /\ preempt_count'[t] = preempt_count[t] - (IF relq[c] = None THEN 1 ELSE 2)
      /\ \A u \in AnyTask \ {t} : preempt_count'[u] = preempt_count[u]
  BY <1>2, SMTT(30) DEF SwitchSave, SInv, TypeOK
<1>4. ASSUME ~world.race PROVE pc[t] = "run" /\ preempt_count'[t] = 0
  <2>1. CountedTask(t) /\ CountedSave(c)
    BY <1>2, <1>4, ZenonT(30) DEF Counted
  <2>2. \A d \in CPU : stack[d] = t => phase[d] = "save"
    BY <1>1, <1>2, SavedStacks
  <2>3. pc[t] = "run"
    BY <2>1, <2>2 DEF CountedTask
  <2> QED
    BY <1>1, <1>3, <2>1, <2>3 DEF CountedSave
<1>5. ASSUME ~world.race, NEW u \in AnyTask PROVE CountedTask(u)'
  <2>1. CASE u = t
    BY <1>1, <1>4, <1>5, <2>1 DEF CountedTask, Depth
  <2>2. CASE u # t
    <3>1. CountedTask(u) /\ preempt_count'[u] = preempt_count[u]
      BY <1>3, <1>5, <2>2, Zenon DEF Counted
    <3>2. \A d \in CPU : /\ stack[d] = u => stack'[d] = u /\ phase'[d] = phase[d]
                         /\ stack'[d] = u => stack[d] = u /\ phase'[d] = phase[d]
      BY <1>1, <1>2, <2>2
    <3>3. idread[u] \in CPU
      BY DEF SInv, TypeOK
    <3> QED
      BY <1>1, <3>1, <3>2, <3>3 DEF CountedTask
  <2> QED
    BY <2>1, <2>2
<1>6. ASSUME ~world.race, NEW d \in CPU PROVE CountedSave(d)'
  <2>1. CountedSave(d)
    BY <1>6, Zenon DEF Counted
  <2> QED
    BY <1>1, <1>2, <1>3, <2>1 DEF CountedSave
<1> QED
  BY <1>5, <1>6, Zenon DEF Counted

LEMMA SwitchLoadCounts ==
    ASSUME SInv, Counted, UNCHANGED world, NEW c \in CPU, SwitchLoad(c)
    PROVE  Counted'
<1>1. /\ phase[c] = "load" /\ phase'[c] = "exec" /\ stack'[c] = now_running[c] /\ stack[c] = None
      /\ \A d \in CPU \ {c} : phase'[d] = phase[d] /\ stack'[d] = stack[d]
      /\ UNCHANGED <<pc, idread, relq, preempt_count>>
  BY SMTT(30) DEF SwitchLoad, args, SInv, TypeOK, Stacks, Gone
<1>2. ASSUME ~world.race, NEW u \in AnyTask PROVE CountedTask(u)'
  <2>1. CountedTask(u) /\ u # None
    BY <1>2, SavedStacks, SMTT(30) DEF Counted
  <2>2. \A d \in CPU : stack[d] = u => stack'[d] = u /\ phase'[d] = phase[d]
    BY <1>1, <2>1
  <2>3. idread[u] \in CPU
    BY DEF SInv, TypeOK
  <2> QED
    BY <1>1, <2>1, <2>2, <2>3 DEF CountedTask
<1>3. ASSUME ~world.race, NEW d \in CPU PROVE CountedSave(d)'
  <2>1. CountedSave(d)
    BY <1>3, Zenon DEF Counted
  <2> QED
    BY <1>1, <2>1 DEF CountedSave
<1> QED
  BY <1>2, <1>3, Zenon DEF Counted

LEMMA TickCounts ==
    ASSUME SInv, Counted, UNCHANGED world, NEW c \in CPU, Tick(c)
    PROVE  Counted'
<1> DEFINE t == stack[c]
<1>1. /\ phase[c] = "exec" /\ IntrOn(t) /\ preempt_count[t] <= 0
      /\ UNCHANGED <<stack, pc, idread, relq>>
      /\ preempt_count' = [preempt_count EXCEPT ![t] = 0]
  BY Zenon DEF Tick, args
<1>2. phase'[c] \in {"tick", "balance_1"} /\ \A d \in CPU \ {c} : phase'[d] = phase[d]
  BY DEF Tick, SInv, TypeOK
<1>3. t \in AnyTask
  BY <1>1 DEF SInv, Stacks, Quiet, TypeOK
<1>4. ASSUME ~world.race PROVE pc[t] = "run" /\ preempt_count' = preempt_count
  <2>1. preempt_count[t] = Depth(pc[t]) /\ preempt_count[t] <= 0
    BY <1>1, <1>3, <1>4, CountHere DEF Runs
  <2>2. pc[t] \in {"run", "wake_lock", "wake_loop", "wake_put", "wake_unlock"}
    BY <1>1, <1>4 DEF IntrOn
  <2>3. pc[t] = "run"
    BY <2>1, <2>2 DEF Depth
  <2>4. preempt_count[t] = 0
    BY <2>1, <2>3 DEF Depth
  <2>5. preempt_count \in [AnyTask -> Int]
    BY Zenon DEF SInv, TypeOK
  <2> QED
    BY <1>1, <2>3, <2>4, <2>5
<1>5. \A d \in CPU : phase'[d] = "save" <=> phase[d] = "save"
  BY <1>1, <1>2
<1>6. ASSUME ~world.race, NEW u \in AnyTask PROVE CountedTask(u)'
  <2>1. CountedTask(u)
    BY <1>6, Zenon DEF Counted
  <2>2. pc[u] # "run" => \A d \in CPU : stack[d] = u => phase'[d] = phase[d]
    BY <1>2, <1>4, <1>6
  <2> QED
    BY <1>1, <1>4, <1>5, <1>6, <2>1, <2>2 DEF CountedTask
<1>7. ASSUME ~world.race, NEW d \in CPU PROVE CountedSave(d)'
  <2>1. CountedSave(d)
    BY <1>7, Zenon DEF Counted
  <2> QED
    BY <1>1, <1>4, <1>5, <1>7, <2>1 DEF CountedSave
<1> QED
  BY <1>6, <1>7, Zenon DEF Counted
=============================================================================
