---------------------------- MODULE SchedSwitch ----------------------------
(* Task switches, timer ticks and load balancing keep the invariant.       *)
EXTENDS SchedInv

(* The locks of a balanced pair are locks of CPUs, and two.                *)
LEMMA LockIsCpu ==
    ASSUME TypeOK, NEW c \in CPU
    PROVE  /\ FirstLock(bal[c]) \in CPU /\ SecondLock(bal[c]) \in CPU
           /\ bal[c] = <<bal[c][1], bal[c][2]>> /\ bal[c][1] \in CPU /\ bal[c][2] \in CPU
           /\ {FirstLock(bal[c]), SecondLock(bal[c])} = {bal[c][1], bal[c][2]}
           /\ bal[c][1] # bal[c][2] => FirstLock(bal[c]) < SecondLock(bal[c])
<1>1. bal[c] \in CPU \X CPU
  BY Zenon DEF TypeOK
<1>2. bal[c] = <<bal[c][1], bal[c][2]>> /\ bal[c][1] \in CPU /\ bal[c][2] \in CPU
  BY <1>1
<1>3. bal[c][1] \in Nat /\ bal[c][2] \in Nat
  BY <1>2, SchedAssumption
<1> QED
  BY <1>2, <1>3 DEF FirstLock, SecondLock

LEMMA SwitchUnlockKeeps ==
    ASSUME SInv, NEW c \in CPU, SwitchUnlock(c)
    PROVE  SInv'
<1> USE SchedAssumption
<1>t. TypeOK
  BY DEF SInv
<1>e. /\ phase[c] = "unlock" /\ phase'[c] \in {"unlock_wq", "load"}
      /\ phase'[c] = "unlock_wq" <=> relq[c] # None
      /\ \A d \in CPU \ {c} : phase'[d] = phase[d] /\ rlock'[d] = rlock[d]
      /\ UNCHANGED <<now_running, stack, ready_list, total_ready_num, bal, relq, state, cpuid,
                     preempt_count, saved, pc, arg, many, idread, hand, wait_list, wlock>>
  BY <1>t DEF TypeOK, SwitchUnlock, taskVars, wqVars, args
<1>1. TypeOK'
  BY <1>t, Zenon DEF TypeOK, SwitchUnlock, taskVars, wqVars, args, Phases
<1>2. Stacks'
  BY <1>e DEF SInv, Stacks, Quiet, Gone
<1>3. Code'
  BY <1>e DEF SInv, Code
<1>4. Placed'
  BY <1>e DEF SInv, Placed
<1>5. ReadyLocks'
  BY <1>e, <1>t, LockIsCpu, SMTT(30) DEF SInv, ReadyLocks
<1>6. QueueLocks'
  BY <1>e DEF SInv, QueueLocks
<1>7. Leaving'
  BY <1>e DEF SInv, Leaving
<1> QED
  BY <1>1, <1>2, <1>3, <1>4, <1>5, <1>6, <1>7 DEF SInv

LEMMA SwitchSaveKeeps ==
    ASSUME SInv, NEW c \in CPU, SwitchSave(c)
    PROVE  SInv'
<1> USE SchedAssumption
<1>t. TypeOK
  BY DEF SInv
<1>e. /\ phase[c] = "save" /\ phase'[c] = "unlock"
      /\ stack'[c] = None /\ saved'[stack[c]] = TRUE /\ stack[c] \in AnyTask
      /\ \A d \in CPU \ {c} : phase'[d] = phase[d] /\ stack'[d] = stack[d]
      /\ \A t \in AnyTask \ {stack[c]} : saved'[t] = saved[t]
      /\ UNCHANGED <<now_running, ready_list, total_ready_num, rlock, bal, relq, state, cpuid,
                     pc, arg, many, idread, hand, wait_list, wlock>>
  BY <1>t DEF TypeOK, SwitchSave, wqVars, args, SInv, Stacks, AnyTask
<1>n. None \notin AnyTask
  BY DEF AnyTask
<1>1. TypeOK'
  <2>1. preempt_count' \in [AnyTask -> Int]
    <3> DEFINE n == preempt_count[stack[c]] - (IF relq[c] = None THEN 1 ELSE 2)
    <3>1. n \in Int
      <4>1. preempt_count[stack[c]] \in Int
        BY <1>t, <1>e DEF TypeOK
      <4> QED
        BY <4>1
    <3>2. preempt_count' = [preempt_count EXCEPT ![stack[c]] = n]
      BY DEF SwitchSave
    <3> HIDE DEF n
    <3> QED
      BY <1>t, <3>1, <3>2, Zenon DEF TypeOK
  <2>2. saved' \in [AnyTask -> BOOLEAN]
    BY <1>t, <1>e DEF TypeOK, SwitchSave
  <2>3. stack' \in [CPU -> AnyTask \cup {None}] /\ phase' \in [CPU -> Phases]
    BY <1>t, Zenon DEF TypeOK, SwitchSave, Phases
  <2> QED
    BY <1>t, <1>e, <2>1, <2>2, <2>3, Zenon DEF TypeOK
<1>2. Stacks'
  BY <1>e, <1>n DEF SInv, Stacks, Quiet, Gone
<1>3. Code'
  BY <1>e DEF SInv, Code
<1>4. Placed'
  BY <1>e DEF SInv, Placed
<1>5. ReadyLocks'
  BY <1>e, <1>t, LockIsCpu, SMTT(30) DEF SInv, ReadyLocks
<1>6. QueueLocks'
  BY <1>e DEF SInv, QueueLocks
<1>7. Leaving'
  BY <1>e DEF SInv, Leaving
<1> QED
  BY <1>1, <1>2, <1>3, <1>4, <1>5, <1>6, <1>7 DEF SInv

LEMMA SwitchUnlockQueueKeeps ==
    ASSUME SInv, NEW c \in CPU, SwitchUnlockQueue(c)
    PROVE  SInv'
<1> USE SchedAssumption
<1>t. TypeOK
  BY DEF SInv
<1>q. relq[c] \in Queue
  BY <1>t DEF TypeOK, SwitchUnlockQueue, SInv, QueueLocks
<1>e. /\ phase[c] = "unlock_wq" /\ phase'[c] = "load"
      /\ wlock'[relq[c]] = None /\ relq'[c] = None
      /\ \A d \in CPU \ {c} : phase'[d] = phase[d] /\ relq'[d] = relq[d]
      /\ \A p \in Queue \ {relq[c]} : wlock'[p] = wlock[p]
      /\ UNCHANGED <<now_running, stack, ready_list, total_ready_num, rlock, bal, state, cpuid,
                     preempt_count, saved, pc, arg, many, idread, hand, wait_list>>
  BY <1>t, <1>q DEF TypeOK, SwitchUnlockQueue, taskVars, args
<1>1. TypeOK'
  BY <1>t, <1>q, Zenon DEF TypeOK, SwitchUnlockQueue, taskVars, args, Phases
<1>2. Stacks'
  BY <1>e DEF SInv, Stacks, Quiet, Gone
<1>3. Code'
  BY <1>e DEF SInv, Code
<1>4. Placed'
  BY <1>e DEF SInv, Placed
<1>5. ReadyLocks'
  BY <1>e, <1>t, LockIsCpu DEF SInv, ReadyLocks
<1>6. QueueLocks'
  <2>1. \A t \in Task : pc[t] \in Holding => arg[t] \in Queue \ {relq[c]}
    BY <1>q DEF SInv, QueueLocks, Code, AnyTask, Holding
  <2>2. \A d \in CPU \ {c} : relq[d] # relq[c]
    BY <1>q DEF SInv, QueueLocks
  <2> QED
    BY <1>e, <1>q, <2>1, <2>2 DEF SInv, QueueLocks
<1>7. Leaving'
  BY <1>e DEF SInv, Leaving
<1> QED
  BY <1>1, <1>2, <1>3, <1>4, <1>5, <1>6, <1>7 DEF SInv

(* The context that a CPU is about to load has been stored: a task that is *)
(* still on some stack is running there, or is listed behind a lock that   *)
(* the other CPU holds until its context is stored.                        *)
LEMMA ContextOfNext ==
    ASSUME SInv, NEW c \in CPU, phase[c] \in Gone
    PROVE  saved[now_running[c]]
<1> USE SchedAssumption
<1> DEFINE t == now_running[c]
<1> SUFFICES ASSUME ~saved[t] PROVE FALSE
  OBVIOUS
<1>1. t \in AnyTask /\ t \in Task \cup {Idle[c]}
  BY DEF SInv, TypeOK, Stacks
<1>2. PICK d \in CPU : stack[d] = t
  BY <1>1 DEF SInv, Stacks
<1>3. t # None /\ stack[c] = None /\ d # c
  BY <1>1, <1>2 DEF SInv, Stacks, AnyTask
<1>4. phase[d] = "save"
  <2>1. phase[d] \in Quiet \cup Gone \cup {"save"}
    BY DEF SInv, TypeOK, Phases, Quiet, Gone
  <2> QED
    BY <1>2, <1>3, <2>1 DEF SInv, Stacks
<1>5. t \in Task
  BY <1>1, <1>2, <1>3, <1>4 DEF SInv, Stacks
<1>6. state[t] = "RUNNING" \/ (state[t] = "SLEEP" /\ pc[t] = "sleep_switch")
  BY <1>5 DEF SInv, Placed
<1>7. now_running[d] # t
  BY <1>3 DEF SInv, Stacks
<1>8. ~Has(ready_list, d, t)
  BY <1>5, <1>6, SMTT(30) DEF SInv, Placed
<1>9. relq[d] # None /\ Has(wait_list, relq[d], t)
  BY <1>2, <1>4, <1>5, <1>7, <1>8 DEF SInv, Leaving
<1>10. pc[t] = "sleep_switch"
  <2>1. relq[d] \in Queue
    BY <1>9 DEF SInv, TypeOK
  <2>2. state[t] = "SLEEP"
    BY <1>5, <1>9, <2>1 DEF SInv, Placed
  <2> QED
    BY <1>6, <2>2
<1>11. PICK e \in CPU : phase[e] = "exec" /\ stack[e] = t
  BY <1>1, <1>10 DEF SInv, Code, Off
<1> QED
  BY <1>2, <1>3, <1>4, <1>11 DEF SInv, Stacks

LEMMA SwitchLoadKeeps ==
    ASSUME SInv, NEW c \in CPU, SwitchLoad(c)
    PROVE  SInv'
<1> USE SchedAssumption
<1>t. TypeOK
  BY DEF SInv
<1>e. /\ phase[c] = "load" /\ phase'[c] = "exec"
      /\ stack[c] = None /\ stack'[c] = now_running[c] /\ saved'[now_running[c]] = FALSE
      /\ now_running[c] \in AnyTask
      /\ \A d \in CPU \ {c} : phase'[d] = phase[d] /\ stack'[d] = stack[d]
      /\ \A t \in AnyTask \ {now_running[c]} : saved'[t] = saved[t]
      /\ UNCHANGED <<now_running, ready_list, total_ready_num, rlock, bal, relq, state, cpuid,
                     preempt_count, pc, arg, many, idread, hand, wait_list, wlock>>
  BY <1>t DEF TypeOK, SwitchLoad, wqVars, args, SInv, Stacks, Gone
<1>n. None \notin AnyTask
  BY DEF AnyTask
<1>s. \A d \in CPU : stack[d] # now_running[c]
  BY <1>e, ContextOfNext DEF SInv, Stacks, Gone
<1>1. TypeOK'
  <2>1. saved' \in [AnyTask -> BOOLEAN]
    BY <1>t, <1>e DEF TypeOK, SwitchLoad
  <2>2. stack' \in [CPU -> AnyTask \cup {None}] /\ phase' \in [CPU -> Phases]
    BY <1>t, <1>e, Zenon DEF TypeOK, SwitchLoad, Phases
  <2> QED
    BY <1>t, <1>e, <2>1, <2>2, Zenon DEF TypeOK
<1>2. Stacks'
  BY <1>e, <1>n, <1>s DEF SInv, Stacks, Quiet, Gone
<1>3. Code'
  BY <1>e, <1>n DEF SInv, Code
<1>4. Placed'
  BY <1>e DEF SInv, Placed
<1>5. ReadyLocks'
  BY <1>e, <1>t, LockIsCpu DEF SInv, ReadyLocks
<1>6. QueueLocks'
  BY <1>e DEF SInv, QueueLocks
<1>7. Leaving'
  BY <1>e DEF SInv, Leaving
<1> QED
  BY <1>1, <1>2, <1>3, <1>4, <1>5, <1>6, <1>7 DEF SInv

-----------------------------------------------------------------------------
(* The choice of the next task.                                            *)

(* What Pick leaves behind when task t gives CPU c up, back in the ready   *)
(* list or not, and `next` follows it.                                     *)
Chosen(c, t, requeue, next) ==
    /\ next \in AnyTask /\ next \in Task \cup {Idle[c]}
    /\ next = Idle[c] \/ Has(ready_list, c, next) \/ (requeue /\ next = t)
    /\ now_running' = [now_running EXCEPT ![c] = next]
    /\ ready_list' \in [CPU -> Seq(Task)] /\ Once(ready_list')
    /\ \A d \in CPU : \A u : Has(ready_list', d, u) <=>
          u # next /\ (Has(ready_list, d, u) \/ (requeue /\ d = c /\ u = t))
    /\ total_ready_num' \in [CPU -> Nat]
    /\ \A d \in CPU : total_ready_num'[d] = Len(ready_list'[d])
    /\ state' \in [AnyTask -> {"UNBORN", "READY", "RUNNING", "SLEEP"}]
    /\ \A u \in Task : state'[u] = IF u = next THEN "RUNNING"
                                   ELSE IF requeue /\ u = t THEN "READY" ELSE state[u]
    /\ cpuid' \in [AnyTask -> CPU]

LEMMA PickChooses ==
    ASSUME SInv, NEW c \in CPU, NEW t, NEW q, NEW requeue \in BOOLEAN,
           requeue => t \in Task /\ \A d \in CPU : ~Has(ready_list, d, t),
           NEW list, list = IF requeue THEN Append(ready_list[c], t) ELSE ready_list[c],
           NEW n, n = IF requeue THEN total_ready_num[c] + 1 ELSE total_ready_num[c],
           NEW st, st = IF requeue THEN [state EXCEPT ![t] = "READY"] ELSE state,
           Pick(c, list, n, st, q)
    PROVE  \E next : Chosen(c, t, requeue, next)
<1> USE SchedAssumption
<1> DEFINE States == {"UNBORN", "READY", "RUNNING", "SLEEP"}
<1>0. /\ ready_list \in [CPU -> Seq(Task)] /\ Once(ready_list)
      /\ total_ready_num \in [CPU -> Nat] /\ state \in [AnyTask -> States]
      /\ cpuid \in [AnyTask -> CPU] /\ Idle[c] \in AnyTask
      /\ \A d \in CPU : total_ready_num[d] = Len(ready_list[d])
  <2>1. TypeOK /\ Placed
    BY Zenon DEF SInv
  <2>2. Idle[c] \in AnyTask
    BY Zenon DEF AnyTask
  <2>3. Once(ready_list) /\ \A d \in CPU : total_ready_num[d] = Len(ready_list[d])
    BY <2>1, Zenon DEF Placed
  <2> QED
    BY <2>1, <2>2, <2>3, Zenon DEF TypeOK
<1> DEFINE F == [ready_list EXCEPT ![c] = list]
<1>1. /\ F \in [CPU -> Seq(Task)] /\ F[c] = list /\ \A d \in CPU \ {c} : F[d] = ready_list[d]
      /\ Len(list) = n /\ n \in Nat /\ Once(F)
      /\ \A d \in CPU : \A u : Has(F, d, u) <=> Has(ready_list, d, u) \/ (requeue /\ d = c /\ u = t)
  <2>1. CASE requeue
    <3>1. F = [ready_list EXCEPT ![c] = Append(ready_list[c], t)] /\ F[c] = list
          /\ n = total_ready_num[c] + 1 /\ total_ready_num[c] = Len(ready_list[c])
          /\ total_ready_num[c] \in Nat /\ t \in Task
      BY <1>0, <2>1
    <3>2. Added(CPU, Task, ready_list, c, t, F)
      BY <1>0, <3>1, AppendToOne, Zenon
    <3> HIDE DEF F
    <3>3. n \in Nat
      BY <3>1
    <3> QED
      BY <1>0, <2>1, <3>1, <3>2, <3>3, Zenon DEF Added
  <2>2. CASE ~requeue
    <3>1. F = ready_list /\ list = ready_list[c] /\ n = total_ready_num[c]
      BY <1>0, <2>2
    <3> HIDE DEF F
    <3> QED
      BY <1>0, <2>2, <3>1
  <2> QED
    BY <2>1, <2>2, Zenon
<1>2. st \in [AnyTask -> States] /\ \A u \in Task : st[u] = IF requeue /\ u = t THEN "READY" ELSE state[u]
  BY <1>0 DEF AnyTask
<1>3. CASE list = <<>>
  <2>1. /\ ready_list' = F /\ now_running' = [now_running EXCEPT ![c] = Idle[c]]
        /\ total_ready_num' = [total_ready_num EXCEPT ![c] = n]
        /\ state' = [st EXCEPT ![Idle[c]] = "RUNNING"] /\ cpuid' = [cpuid EXCEPT ![Idle[c]] = c]
    BY <1>3, Zenon DEF Pick
  <2>2. \A d \in CPU : \A u : Has(F, d, u) => u \in Task
    BY <1>1, ListElement, SMTT(30) DEF Has
  <2> HIDE DEF F
  <2>3. Chosen(c, t, requeue, Idle[c])
    <3>1. total_ready_num' \in [CPU -> Nat] /\ \A d \in CPU : total_ready_num'[d] = Len(F[d])
      BY <1>0, <1>1, <2>1, Zenon
    <3>2. /\ state' \in [AnyTask -> States] /\ cpuid' \in [AnyTask -> CPU]
          /\ \A u \in Task : state'[u] = st[u] /\ u # Idle[c]
      BY <1>0, <1>2, <2>1, Zenon DEF AnyTask
    <3>3. \A d \in CPU : \A u : Has(ready_list', d, u) <=>
            u # Idle[c] /\ (Has(ready_list, d, u) \/ (requeue /\ d = c /\ u = t))
      BY <1>1, <2>1, <2>2
    <3>4. \A u \in Task : state'[u] = IF u = Idle[c] THEN "RUNNING"
                                     ELSE IF requeue /\ u = t THEN "READY" ELSE state[u]
      BY <1>2, <3>2
    <3>5. ready_list' \in [CPU -> Seq(Task)] /\ Once(ready_list')
      BY <1>1, <2>1
    <3> QED
      BY <1>0, <2>1, <3>1, <3>2, <3>3, <3>4, <3>5, Zenon DEF Chosen
  <2> QED
    BY <2>3
<1>4. CASE list # <<>>
  <2> DEFINE next == Head(list)
  <2>1. /\ ready_list' = [F EXCEPT ![c] = Tail(F[c])] /\ now_running' = [now_running EXCEPT ![c] = next]
        /\ total_ready_num' = [total_ready_num EXCEPT ![c] = n - 1]
        /\ state' = [st EXCEPT ![next] = "RUNNING"] /\ cpuid' = [cpuid EXCEPT ![next] = c]
    BY <1>0, <1>1, <1>4, Zenon DEF Pick
  <2> HIDE DEF F
  <2>2. Removed(CPU, Task, F, c, Head(F[c]), ready_list')
    BY <1>1, <1>4, <2>1, TailOfOne, Zenon
  <2>3. /\ ready_list' \in [CPU -> Seq(Task)] /\ Len(ready_list'[c]) = n - 1
        /\ \A d \in CPU \ {c} : ready_list'[d] = ready_list[d]
        /\ next \in Task /\ Has(F, c, next) /\ Once(ready_list')
        /\ \A d \in CPU : \A u : Has(ready_list', d, u) <=> Has(F, d, u) /\ u # next
    BY <1>1, <2>2, Zenon DEF Removed
  <2> HIDE DEF next
  <2>4. Chosen(c, t, requeue, next)
    <3>1. \A d \in CPU : total_ready_num'[d] = Len(ready_list'[d])
      BY <1>0, <2>1, <2>3, SMTT(30)
    <3>2. total_ready_num' \in [CPU -> Nat]
      <4>1. n - 1 \in Nat
        BY <2>3, ListLength
      <4> QED
        BY <1>0, <2>1, <4>1
    <3>3. next \in AnyTask
      BY <2>3 DEF AnyTask
    <3>4. /\ state' \in [AnyTask -> States] /\ cpuid' \in [AnyTask -> CPU]
          /\ \A u \in Task : state'[u] = IF u = next THEN "RUNNING" ELSE st[u]
      BY <1>0, <1>2, <2>1, <3>3, Zenon DEF AnyTask
    <3>5. \A d \in CPU : \A u : Has(ready_list', d, u) <=>
            u # next /\ (Has(ready_list, d, u) \/ (requeue /\ d = c /\ u = t))
      BY <1>1, <2>3, SMTT(30)
    <3>6. \A u \in Task : state'[u] = IF u = next THEN "RUNNING"
                                     ELSE IF requeue /\ u = t THEN "READY" ELSE state[u]
      BY <1>2, <3>4
    <3>7. next = Idle[c] \/ Has(ready_list, c, next) \/ (requeue /\ next = t)
      BY <1>1, <2>3
    <3> QED
      BY <2>1, <2>3, <3>1, <3>2, <3>3, <3>4, <3>5, <3>6, <3>7, Zenon DEF Chosen
  <2> QED
    BY <2>4
<1> QED
  BY <1>3, <1>4

(* A switch away from task t, by its own code or by the timer: which part  *)
(* of the code gave the CPU up.                                            *)
LeftFrom(c, t, requeue, q) ==
    \/ /\ phase[c] = "exec" /\ pc[t] = "yield" /\ pc'[t] = "run" /\ arg'[t] = arg[t]
       /\ t \in Task /\ requeue /\ q = None
    \/ /\ phase[c] = "exec" /\ pc[t] = "sleep_switch" /\ pc'[t] = "run" /\ arg'[t] = None
       /\ t \in Task /\ ~requeue /\ q = arg[t]
    \/ /\ phase[c] = "tick" /\ pc'[t] = pc[t] /\ arg'[t] = arg[t]
       /\ requeue <=> t # Idle[c]
       /\ q = None

LEMMA InOneReadyList ==
    ASSUME SInv
    PROVE  \A c, d \in CPU : \A t : Has(ready_list, c, t) /\ Has(ready_list, d, t) => c = d
<1>1. ready_list \in [CPU -> Seq(Task)] /\ Once(ready_list)
  BY DEF SInv, TypeOK, Placed
<1> QED
  BY <1>1, InOneList

LEMMA LeavingKeeps ==
    ASSUME SInv, NEW c \in CPU, NEW t \in AnyTask, NEW requeue \in BOOLEAN, NEW q, NEW next,
           Chosen(c, t, requeue, next), LeftFrom(c, t, requeue, q), stack[c] = t, ~rlock[c],
           rlock' = [rlock EXCEPT ![c] = TRUE],
           phase' = [phase EXCEPT ![c] = "save"],
           relq' = [relq EXCEPT ![c] = q],
           preempt_count' \in [AnyTask -> Int],
           pc' \in [AnyTask -> Places], arg' \in [AnyTask -> Queue \cup {None}],
           \A u \in AnyTask \ {t} : pc'[u] = pc[u] /\ arg'[u] = arg[u],
           UNCHANGED <<stack, bal, saved, many, idread, hand, wait_list, wlock>>
    PROVE  SInv'
<1> USE SchedAssumption
<1>0. TypeOK /\ None \notin AnyTask /\ (q = None \/ q \in Queue)
  BY DEF SInv, LeftFrom, Code, AnyTask
<1>e. /\ phase[c] \in {"exec", "tick"} /\ phase'[c] = "save" /\ relq'[c] = q /\ rlock'[c]
      /\ \A d \in CPU \ {c} : phase'[d] = phase[d] /\ relq'[d] = relq[d] /\ rlock'[d] = rlock[d]
  BY <1>0 DEF TypeOK, LeftFrom
<1>p. pc'[t] \notin Off
  <2>1. phase[c] = "tick" => pc[t] \notin Off
    BY <1>0 DEF SInv, Code, Stacks
  <2> QED
    BY <2>1 DEF LeftFrom, Off
<1>n. /\ now_running[c] = t /\ now_running'[c] = next
      /\ \A d \in CPU \ {c} : now_running'[d] = now_running[d]
      /\ t \in Task \cup {Idle[c]}
  <2>1. now_running[c] = t /\ t \in Task \cup {Idle[c]}
    BY <1>e DEF SInv, Stacks, Quiet
  <2> QED
    BY <1>0, <2>1 DEF Chosen, TypeOK
<1>s. /\ pc[t] = "sleep_switch" => ~requeue /\ q = arg[t] /\ q \in Queue /\ pc'[t] = "run"
      /\ pc[t] # "sleep_switch" => q = None /\ (t \in Task => requeue) /\ pc'[t] # "sleep_switch"
      /\ t \in Task /\ pc[t] # "sleep_switch" => state[t] = "RUNNING"
      /\ t \in Task /\ pc[t] = "sleep_switch" => state[t] = "SLEEP"
      /\ requeue => t \in Task
  <2>1. pc[t] = "sleep_switch" => phase[c] = "exec" /\ arg[t] \in Queue
    BY <1>e DEF SInv, Code, Off, Stacks
  <2>2. requeue => t \in Task
    BY <1>n DEF LeftFrom
  <2>3. /\ t \in Task /\ pc[t] # "sleep_switch" => state[t] = "RUNNING"
        /\ t \in Task /\ pc[t] = "sleep_switch" => state[t] = "SLEEP"
    BY <1>n, <2>1 DEF SInv, Placed
  <2> QED
    BY <1>n, <2>1, <2>2, <2>3 DEF LeftFrom
<1>x. /\ next \in AnyTask /\ next \in Task \cup {Idle[c]}
      /\ \/ next = Idle[c]
         \/ next \in Task /\ next # t /\ Has(ready_list, c, next) /\ state[next] = "READY"
         \/ next \in Task /\ next = t /\ requeue /\ state[next] = "RUNNING"
  BY <1>n, <1>s, SMTT(30) DEF Chosen, SInv, Placed
<1>l. /\ ready_list' \in [CPU -> Seq(Task)] /\ Once(ready_list')
      /\ \A d \in CPU : \A u : Has(ready_list', d, u) <=>
            u # next /\ (Has(ready_list, d, u) \/ (requeue /\ d = c /\ u = t))
      /\ \A u \in Task : state'[u] = IF u = next THEN "RUNNING"
                                   ELSE IF requeue /\ u = t THEN "READY" ELSE state[u]
      /\ \A d \in CPU : total_ready_num'[d] = Len(ready_list'[d])
  BY DEF Chosen
<1>1. TypeOK'
  <2>1. relq' \in [CPU -> Queue \cup {None}] /\ phase' \in [CPU -> Phases] /\ rlock' \in [CPU -> BOOLEAN]
        /\ now_running' \in [CPU -> AnyTask]
    BY <1>0, <1>x, Zenon DEF TypeOK, Phases, Chosen
  <2> QED
    BY <1>0, <2>1, Zenon DEF TypeOK, Chosen
<1>2. Stacks'
  <2>1. \A d \in CPU \ {c} : now_running[d] # next
    <3> SUFFICES ASSUME NEW d \in CPU \ {c}, now_running[d] = next PROVE FALSE
      OBVIOUS
    <3>1. next # Idle[c] /\ next # t
      BY <1>n DEF SInv, Stacks
    <3> QED
      BY <1>x, <1>n, <3>1, ZenonT(30) DEF SInv, Placed
  <2>2. \A d \in CPU : now_running'[d] \in Task \cup {Idle[d]}
    BY <1>n, <1>x DEF SInv, Stacks
  <2> QED
    BY <1>e, <1>n, <2>1, <2>2 DEF SInv, Stacks, Quiet, Gone
<1>3. Code'
  <2>1. \A u \in AnyTask \ {t} : pc'[u] \in Off => \E d \in CPU : phase'[d] = "exec" /\ stack[d] = u
    BY <1>e DEF SInv, Code
  <2>2. /\ t \notin Task => pc'[t] = "run"
        /\ pc'[t] \notin {"run", "yield"} => arg'[t] \in Queue
        /\ hand[t] # None <=> pc'[t] = "wake_put"
    BY DEF SInv, Code, LeftFrom
  <2> QED
    BY <1>e, <1>p, <2>1, <2>2 DEF SInv, Code
<1>4. Placed'
  <2>1. \A u \in Task : state[u] = "READY" <=>
           (\E d \in CPU : Has(ready_list, d, u)) \/ (\E v \in AnyTask : hand[v] = u)
    BY Zenon DEF SInv, Placed
  <2>2. \A v \in AnyTask : hand[v] # None => hand[v] # next /\ (requeue => hand[v] # t) /\ hand[v] \in Task
    <3> SUFFICES ASSUME NEW v \in AnyTask, hand[v] # None
                 PROVE  hand[v] # next /\ (requeue => hand[v] # t) /\ hand[v] \in Task
      OBVIOUS
    <3>1. hand[v] \in Task /\ state[hand[v]] = "READY" /\ \A d \in CPU : ~Has(ready_list, d, hand[v])
      <4>1. hand[v] \in Task
        BY <1>0 DEF TypeOK
      <4>2. \A d \in CPU : ~Has(ready_list, d, hand[v])
        BY DEF SInv, Placed
      <4> QED
        BY <2>1, <4>1, <4>2
    <3> QED
      BY <1>x, <1>s, <3>1
  <2>3. \A u \in Task : state'[u] = "READY" <=>
           (\E d \in CPU : Has(ready_list', d, u)) \/ (\E v \in AnyTask : hand[v] = u)
    <3> SUFFICES ASSUME NEW u \in Task
                 PROVE  state'[u] = "READY" <=>
                          (\E d \in CPU : Has(ready_list', d, u)) \/ (\E v \in AnyTask : hand[v] = u)
      OBVIOUS
    <3>1. CASE u = next
      BY <1>l, <2>2, <3>1
    <3>2. CASE u # next /\ requeue /\ u = t
      BY <1>l, <3>2
    <3>3. CASE u # next /\ ~(requeue /\ u = t)
      <4>1. state'[u] = state[u] /\ \A d \in CPU : Has(ready_list', d, u) <=> Has(ready_list, d, u)
        BY <1>l, <3>3
      <4> QED
        BY <2>1, <4>1
    <3> QED
      BY <3>1, <3>2, <3>3
  <2>4. \A u \in Task : state'[u] = "SLEEP" <=> state[u] = "SLEEP"
    <3> SUFFICES ASSUME NEW u \in Task PROVE state'[u] = "SLEEP" <=> state[u] = "SLEEP"
      OBVIOUS
    <3>1. CASE u = next
      BY <1>l, <1>x, <3>1
    <3>2. CASE u # next /\ requeue /\ u = t
      BY <1>l, <1>s, <3>2
    <3>3. CASE u # next /\ ~(requeue /\ u = t)
      BY <1>l, <3>3
    <3> QED
      BY <3>1, <3>2, <3>3
  <2>5. \A u \in Task : (\E d \in CPU : now_running'[d] = u) <=>
           state'[u] = "RUNNING" \/ (state'[u] = "SLEEP" /\ pc'[u] = "sleep_switch")
    <3> SUFFICES ASSUME NEW u \in Task
                 PROVE  (\E d \in CPU : now_running'[d] = u) <=>
                           state'[u] = "RUNNING" \/ (state'[u] = "SLEEP" /\ pc'[u] = "sleep_switch")
      OBVIOUS
    <3>1. CASE u = next
      BY <1>l, <1>n, <3>1
    <3>2. CASE u # next /\ u = t
      <4>1. \A d \in CPU : now_running'[d] # u
        BY <1>n, <3>2 DEF SInv, Stacks
      <4>2. state'[u] # "RUNNING" /\ (state'[u] = "SLEEP" => pc'[u] # "sleep_switch")
        BY <1>l, <1>s, <3>2
      <4> QED
        BY <4>1, <4>2
    <3>3. CASE u # next /\ u # t
      <4>1. state'[u] = state[u] /\ pc'[u] = pc[u]
        BY <1>l, <3>3 DEF AnyTask
      <4>2. (\E d \in CPU : now_running'[d] = u) <=> (\E d \in CPU : now_running[d] = u)
        BY <1>n, <3>3
      <4> QED
        BY <4>1, <4>2, ZenonT(30) DEF SInv, Placed
    <3> QED
      BY <3>1, <3>2, <3>3
  <2>6. \A u \in Task : pc'[u] = "sleep_switch" => pc[u] = "sleep_switch" /\ arg'[u] = arg[u]
    BY <1>s DEF AnyTask
  <2>7. \A v \in AnyTask, d \in CPU : hand[v] # None => ~Has(ready_list', d, hand[v])
    BY <1>l, <2>2 DEF SInv, Placed
  <2>8. \A u \in Task : pc'[u] = "sleep_switch" => Has(wait_list, arg'[u], u)
    BY <2>6 DEF SInv, Placed
  <2>9. /\ Once(wait_list) /\ \A u, v \in AnyTask : hand[u] = hand[v] /\ hand[u] # None => u = v
        /\ \A u \in Task : state'[u] = "SLEEP" <=> \E p \in Queue : Has(wait_list, p, u)
    BY <2>4 DEF SInv, Placed
  <2>h. hand' = hand /\ wait_list' = wait_list
    OBVIOUS
  <2>a. Once(ready_list') /\ Once(wait_list') /\ \A d \in CPU : total_ready_num'[d] = Len(ready_list'[d])
    BY <1>l, <2>9, <2>h
  <2>b. /\ \A u, v \in AnyTask : hand'[u] = hand'[v] /\ hand'[u] # None => u = v
        /\ \A u \in AnyTask, d \in CPU : hand'[u] # None => ~Has(ready_list', d, hand'[u])
    BY <2>7, <2>9, <2>h
  <2>c. \A u \in Task :
          /\ state'[u] = "READY" <=>
                (\E d \in CPU : Has(ready_list', d, u)) \/ (\E v \in AnyTask : hand'[v] = u)
          /\ state'[u] = "SLEEP" <=> \E p \in Queue : Has(wait_list', p, u)
          /\ pc'[u] = "sleep_switch" => Has(wait_list', arg'[u], u)
    BY <2>3, <2>8, <2>9, <2>h
  <2> QED
    BY <2>5, <2>a, <2>b, <2>c, Zenon DEF Placed
<1>5. ReadyLocks'
  <2>1. \A d \in CPU : phase[d] = "balance_2" => FirstLock(bal[d]) # c /\ FirstLock(bal[d]) \in CPU
    BY <1>0, LockIsCpu DEF SInv, ReadyLocks
  <2> QED
    BY <1>e, <2>1 DEF SInv, ReadyLocks
<1>6. QueueLocks'
  <2>0. relq[c] = None
    BY <1>e DEF SInv, QueueLocks
  <2>1. CASE pc[t] # "sleep_switch"
    <3>1. relq' = relq /\ \A u \in Task \cup {t} : pc'[u] \in Holding <=> pc[u] \in Holding
      <4>1. q = None
        BY <1>s, <2>1
      <4>2. relq' = relq
        BY <1>0, <2>0, <4>1 DEF TypeOK
      <4>3. pc'[t] \in Holding <=> pc[t] \in Holding
        BY <2>1 DEF LeftFrom, Holding
      <4> QED
        BY <4>2, <4>3 DEF AnyTask
    <3>2. \A u \in Task : pc[u] \in Holding => arg'[u] = arg[u]
      BY <2>1 DEF LeftFrom, Holding, AnyTask
    <3>3. \A p \in Queue : wlock[p] # None => wlock[p] \in Task
      BY <1>0 DEF TypeOK
    <3>4. \A d \in CPU : relq[d] # None => d # c
      BY <2>0
    <3> QED
      BY <1>e, <3>1, <3>2, <3>3, <3>4 DEF SInv, QueueLocks
  <2>2. CASE pc[t] = "sleep_switch"
    <3>1. q = arg[t] /\ q \in Queue /\ pc'[t] = "run" /\ pc'[t] \notin Holding /\ t \in Task
      BY <1>s, <2>2 DEF Holding, SInv, Code
    <3>2. wlock[q] = t /\ Has(wait_list, q, t)
      BY <2>2, <3>1 DEF SInv, QueueLocks, Placed, Holding
    <3>3. \A d \in CPU : relq[d] # q
      BY <2>2, <3>1, <3>2 DEF SInv, QueueLocks, Holding
    <3>4. \A p \in Queue : wlock[p] # None => wlock[p] \in Task
      BY <1>0 DEF TypeOK
    <3>5. \A p \in Queue \ {q} : wlock[p] # t \/ ~(pc[t] \in Holding /\ arg[t] = p)
      BY <3>1
    <3>6. \A u \in Task \ {t} : pc'[u] = pc[u] /\ arg'[u] = arg[u]
      BY DEF AnyTask
    <3>a. \A u \in Task : pc'[u] \in Holding => wlock[arg'[u]] = u
      BY <3>1, <3>6 DEF SInv, QueueLocks
    <3>b. ASSUME NEW p \in Queue, wlock[p] # None
          PROVE  \/ pc'[wlock[p]] \in Holding /\ arg'[wlock[p]] = p
                 \/ \E d \in CPU : relq'[d] = p
      <4>1. CASE p = q
        BY <1>e, <4>1
      <4>2. CASE p # q
        <5>1. (pc[wlock[p]] \in Holding /\ arg[wlock[p]] = p) \/ \E d \in CPU : relq[d] = p
          BY <3>b DEF SInv, QueueLocks
        <5> QED
          BY <1>e, <2>0, <3>1, <3>4, <3>6, <3>b, <4>2, <5>1
      <4> QED
        BY <4>1, <4>2
    <3>c. \A d \in CPU :
          /\ phase'[d] = "unlock_wq" => relq'[d] # None
          /\ relq'[d] # None => phase'[d] \in {"save", "unlock", "unlock_wq"}
      BY <1>e DEF SInv, QueueLocks
    <3>d. \A d \in CPU, p \in Queue : relq'[d] = p =>
             /\ wlock[p] \in Task /\ Has(wait_list, p, wlock[p])
             /\ ~(pc'[wlock[p]] \in Holding /\ arg'[wlock[p]] = p)
      <4> SUFFICES ASSUME NEW d \in CPU, NEW p \in Queue, relq'[d] = p
                   PROVE  /\ wlock[p] \in Task /\ Has(wait_list, p, wlock[p])
                          /\ ~(pc'[wlock[p]] \in Holding /\ arg'[wlock[p]] = p)
        OBVIOUS
      <4>1. CASE d = c
        BY <1>e, <3>1, <3>2, <4>1
      <4>2. CASE d # c
        <5>1. /\ relq[d] = p /\ wlock[p] \in Task /\ Has(wait_list, p, wlock[p])
              /\ ~(pc[wlock[p]] \in Holding /\ arg[wlock[p]] = p)
          BY <1>e, <4>2 DEF SInv, QueueLocks
        <5> QED
          BY <3>1, <3>6, <5>1
      <4> QED
        BY <4>1, <4>2
    <3>f. \A a, d \in CPU : relq'[a] = relq'[d] /\ relq'[a] # None => a = d
      BY <1>e, <3>3 DEF SInv, QueueLocks
    <3> QED
      BY <3>a, <3>b, <3>c, <3>d, <3>f DEF QueueLocks
  <2> QED
    BY <2>1, <2>2
<1>7. Leaving'
  <2>1. ASSUME NEW d \in CPU \ {c}, phase[d] = "save", stack[d] \in Task, Has(ready_list, d, stack[d])
        PROVE  Has(ready_list', d, stack[d])
    <3>1. stack[d] # next
      <4>1. ~Has(ready_list, c, stack[d])
        BY <2>1, InOneReadyList
      <4>2. stack[d] # t
        BY <2>1 DEF SInv, Stacks
      <4> QED
        BY <1>x, <2>1, <4>1, <4>2
    <3> QED
      BY <1>l, <2>1, <3>1
  <2>2. t \in Task => next = t \/ Has(ready_list', c, t) \/ (q # None /\ Has(wait_list, q, t))
    BY <1>0, <1>l, <1>s DEF SInv, Placed
  <2> QED
    BY <1>e, <1>n, <2>1, <2>2 DEF SInv, Leaving
<1> QED
  BY <1>1, <1>2, <1>3, <1>4, <1>5, <1>6, <1>7 DEF SInv

LEMMA YieldKeeps ==
    ASSUME SInv, NEW c \in CPU, NEW t \in Task, Yield(c, t)
    PROVE  SInv'
<1> USE SchedAssumption
<1>0. TypeOK /\ t \in AnyTask
  BY DEF SInv, AnyTask
<1>e. /\ phase[c] = "exec" /\ stack[c] = t /\ pc[t] = "yield" /\ pc'[t] = "run" /\ ~rlock[c]
      /\ pc' \in [AnyTask -> Places]
      /\ \A u \in AnyTask \ {t} : pc'[u] = pc[u]
      /\ UNCHANGED <<stack, bal, preempt_count, saved, arg, many, idread, hand, wait_list, wlock>>
  BY <1>0 DEF TypeOK, Yield, Runs, Goto, args, wqVars, Places
<1>1. Pick(c, Append(ready_list[c], t), total_ready_num[c] + 1, [state EXCEPT ![t] = "READY"], None)
  BY DEF Yield
<1>2. \A d \in CPU : ~Has(ready_list, d, t)
  <2>1. now_running[c] = t
    BY <1>e DEF SInv, Stacks, Quiet
  <2> QED
    BY <1>e, <2>1 DEF SInv, Placed
<1>3. PICK next : Chosen(c, t, TRUE, next)
  BY <1>1, <1>2, PickChooses, Zenon
<1>4. LeftFrom(c, t, TRUE, None)
  BY <1>e DEF LeftFrom
<1>5. /\ rlock' = [rlock EXCEPT ![c] = TRUE] /\ phase' = [phase EXCEPT ![c] = "save"]
      /\ relq' = [relq EXCEPT ![c] = None]
  BY <1>1 DEF Pick
<1>6. preempt_count' \in [AnyTask -> Int] /\ arg' \in [AnyTask -> Queue \cup {None}]
  BY <1>0, <1>e, Zenon DEF TypeOK
<1> QED
  BY <1>0, <1>e, <1>3, <1>4, <1>5, <1>6, LeavingKeeps, Zenon

LEMMA SleepSwitchKeeps ==
    ASSUME SInv, NEW c \in CPU, NEW t \in Task, SleepSwitch(c, t)
    PROVE  SInv'
<1> USE SchedAssumption
<1>0. TypeOK /\ t \in AnyTask
  BY DEF SInv, AnyTask
<1>e. /\ phase[c] = "exec" /\ stack[c] = t /\ pc[t] = "sleep_switch" /\ pc'[t] = "run" /\ ~rlock[c]
      /\ pc' \in [AnyTask -> Places] /\ arg' \in [AnyTask -> Queue \cup {None}] /\ arg'[t] = None
      /\ \A u \in AnyTask \ {t} : pc'[u] = pc[u] /\ arg'[u] = arg[u]
      /\ UNCHANGED <<stack, bal, preempt_count, saved, many, idread, hand, wait_list, wlock>>
  BY <1>0, ZenonT(30) DEF TypeOK, SleepSwitch, Runs, Goto, wqVars, Places
<1>1. Pick(c, ready_list[c], total_ready_num[c], state, arg[t])
  BY DEF SleepSwitch
<1>3. PICK next : Chosen(c, t, FALSE, next)
  BY <1>1, PickChooses, Zenon
<1>4. LeftFrom(c, t, FALSE, arg[t])
  BY <1>e DEF LeftFrom
<1>5. /\ rlock' = [rlock EXCEPT ![c] = TRUE] /\ phase' = [phase EXCEPT ![c] = "save"]
      /\ relq' = [relq EXCEPT ![c] = arg[t]]
  BY <1>1 DEF Pick
<1>6. preempt_count' \in [AnyTask -> Int]
  BY <1>0, <1>e DEF TypeOK
<1> QED
  BY <1>0, <1>e, <1>3, <1>4, <1>5, <1>6, LeavingKeeps, Zenon

LEMMA TickPreemptKeeps ==
    ASSUME SInv, NEW c \in CPU, TickPreempt(c)
    PROVE  SInv'
<1> USE SchedAssumption
<1> DEFINE t == stack[c]
<1>0. TypeOK /\ phase[c] = "tick" /\ ~rlock[c]
  BY DEF SInv, TickPreempt
<1>n. now_running[c] = t /\ t \in Task \cup {Idle[c]} /\ t \in AnyTask
  BY <1>0 DEF SInv, Stacks, Quiet, AnyTask
<1>e. /\ UNCHANGED <<stack, bal, saved, pc, arg, many, idread, hand, wait_list, wlock>>
      /\ preempt_count' = [preempt_count EXCEPT ![t] = @ + 1]
  BY DEF TickPreempt, args, wqVars
<1>c. preempt_count' \in [AnyTask -> Int]
  <2>1. preempt_count \in [AnyTask -> Int] /\ preempt_count[t] \in Int
    BY <1>0, <1>n DEF TypeOK
  <2>2. preempt_count[t] + 1 \in Int
    BY <2>1
  <2> HIDE DEF t
  <2> QED
    BY <1>e, <2>1, <2>2, Zenon
<1>p. pc' \in [AnyTask -> Places] /\ arg' \in [AnyTask -> Queue \cup {None}]
      /\ \A u \in AnyTask : pc'[u] = pc[u] /\ arg'[u] = arg[u]
  BY <1>0, <1>e, Zenon DEF TypeOK
<1>i. Idle[c] \notin Task
  OBVIOUS
<1>1. CASE t = Idle[c]
  <2>1. Pick(c, ready_list[c], total_ready_num[c], state, None)
    BY <1>1 DEF TickPreempt
  <2> HIDE DEF t
  <2>3. PICK next : Chosen(c, t, FALSE, next)
    BY <2>1, PickChooses, Zenon
  <2>4. LeftFrom(c, t, FALSE, None)
    BY <1>0, <1>1, <1>e DEF LeftFrom
  <2>5. /\ rlock' = [rlock EXCEPT ![c] = TRUE] /\ phase' = [phase EXCEPT ![c] = "save"]
        /\ relq' = [relq EXCEPT ![c] = None]
    BY <2>1 DEF Pick
  <2>6. stack[c] = t
    BY DEF t
  <2> QED
    BY <1>0, <1>n, <1>c, <1>e, <1>p, <2>3, <2>4, <2>5, <2>6, LeavingKeeps, Zenon
<1>2. CASE t # Idle[c]
  <2>1. Pick(c, Append(ready_list[c], t), total_ready_num[c] + 1, [state EXCEPT ![t] = "READY"], None)
    BY <1>2 DEF TickPreempt
  <2>2. t \in Task /\ \A d \in CPU : ~Has(ready_list, d, t)
    BY <1>n, <1>2 DEF SInv, Placed
  <2>6. stack[c] = t
    OBVIOUS
  <2> HIDE DEF t
  <2>3. PICK next : Chosen(c, t, TRUE, next)
    BY <2>1, <2>2, PickChooses, Zenon
  <2>4. LeftFrom(c, t, TRUE, None)
    BY <1>0, <1>2, <1>e DEF LeftFrom
  <2>5. /\ rlock' = [rlock EXCEPT ![c] = TRUE] /\ phase' = [phase EXCEPT ![c] = "save"]
        /\ relq' = [relq EXCEPT ![c] = None]
    BY <2>1 DEF Pick
  <2> QED
    BY <1>0, <1>n, <1>c, <1>e, <1>p, <2>3, <2>4, <2>5, <2>6, LeavingKeeps, Zenon
<1> QED
  BY <1>1, <1>2

-----------------------------------------------------------------------------
(* The timer.                                                              *)

LEMMA TickReturnKeeps ==
    ASSUME SInv, NEW c \in CPU, TickReturn(c)
    PROVE  SInv'
<1>t. TypeOK
  BY DEF SInv
<1>e. /\ phase[c] = "tick" /\ phase'[c] = "exec"
      /\ \A d \in CPU \ {c} : phase'[d] = phase[d]
      /\ UNCHANGED <<now_running, stack, ready_list, total_ready_num, rlock, bal, relq, state, cpuid,
                     preempt_count, saved, pc, arg, many, idread, hand, wait_list, wlock>>
  BY <1>t DEF TypeOK, TickReturn, taskVars, wqVars, args
<1>1. TypeOK'
  BY <1>t, Zenon DEF TypeOK, TickReturn, taskVars, wqVars, args, Phases
<1>2. Stacks'
  BY <1>e DEF SInv, Stacks, Quiet, Gone
<1>3. Code'
  BY <1>e DEF SInv, Code
<1>4. Placed'
  BY <1>e DEF SInv, Placed
<1>5. ReadyLocks'
  BY <1>e, SMTT(30) DEF SInv, ReadyLocks
<1>6. QueueLocks'
  BY <1>e DEF SInv, QueueLocks
<1>7. Leaving'
  BY <1>e DEF SInv, Leaving
<1> QED
  BY <1>1, <1>2, <1>3, <1>4, <1>5, <1>6, <1>7 DEF SInv

LEMMA TickKeeps ==
    ASSUME SInv, NEW c \in CPU, BalancePair(c) \in CPU \X CPU, Tick(c)
    PROVE  SInv'
<1> USE SchedAssumption
<1>t. TypeOK
  BY DEF SInv
<1>p. PICK pair \in CPU \X CPU :
         /\ bal' = [bal EXCEPT ![c] = pair]
         /\ phase' = [phase EXCEPT ![c] = IF pair[1] = pair[2] THEN "tick" ELSE "balance_1"]
  <2>1. PICK due \in BOOLEAN : LET pair == IF due THEN BalancePair(c) ELSE <<c, c>> IN
         /\ bal' = [bal EXCEPT ![c] = pair]
         /\ phase' = [phase EXCEPT ![c] = IF pair[1] = pair[2] THEN "tick" ELSE "balance_1"]
    BY Zenon DEF Tick
  <2>2. BalancePair(c) \in CPU \X CPU /\ <<c, c>> \in CPU \X CPU
    OBVIOUS
  <2> QED
    BY <2>1, <2>2, Zenon
<1>e. /\ phase[c] = "exec" /\ phase'[c] \in {"tick", "balance_1"} /\ IntrOn(stack[c])
      /\ bal'[c] = pair /\ (phase'[c] = "balance_1" => pair[1] # pair[2])
      /\ \A d \in CPU \ {c} : phase'[d] = phase[d] /\ bal'[d] = bal[d]
      /\ preempt_count' = [preempt_count EXCEPT ![stack[c]] = 0]
      /\ UNCHANGED <<now_running, stack, ready_list, total_ready_num, rlock, relq, state, cpuid,
                     saved, pc, arg, many, idread, hand, wait_list, wlock>>
  <2>1. /\ phase'[c] \in {"tick", "balance_1"} /\ bal'[c] = pair
        /\ phase'[c] = "balance_1" => pair[1] # pair[2]
        /\ \A d \in CPU \ {c} : phase'[d] = phase[d] /\ bal'[d] = bal[d]
    BY <1>t, <1>p DEF TypeOK
  <2>2. phase[c] = "exec" /\ IntrOn(stack[c]) /\ preempt_count' = [preempt_count EXCEPT ![stack[c]] = 0]
    BY DEF Tick
  <2>3. UNCHANGED <<now_running, stack, ready_list, total_ready_num, rlock, relq, state, cpuid,
                    saved, pc, arg, many, idread, hand, wait_list, wlock>>
    BY DEF Tick, wqVars, args
  <2> QED
    BY <2>1, <2>2, <2>3
<1>1. TypeOK'
  <2>1. phase' \in [CPU -> Phases]
    BY <1>t, <1>p DEF TypeOK, Phases
  <2>2. bal' \in [CPU -> CPU \X CPU]
    BY <1>t, <1>p DEF TypeOK
  <2>3. preempt_count' \in [AnyTask -> Int]
    <3>1. preempt_count \in [AnyTask -> Int]
      BY <1>t DEF TypeOK
    <3>2. preempt_count' = [preempt_count EXCEPT ![stack[c]] = 0]
      BY <1>e
    <3>3. stack[c] \in AnyTask /\ 0 \in Int
      BY <1>t, <1>e DEF SInv, Stacks, Quiet, TypeOK
    <3> QED
      BY <3>1, <3>2, <3>3
  <2> QED
    BY <1>t, <1>e, <2>1, <2>2, <2>3, Zenon DEF TypeOK
<1>2. Stacks'
  BY <1>e DEF SInv, Stacks, Quiet, Gone
<1>3. Code'
  <2>1. \A t \in AnyTask : pc[t] \in Off => stack[c] # t
    BY <1>e DEF IntrOn, Off
  <2> QED
    BY <1>e, <2>1 DEF SInv, Code
<1>4. Placed'
  BY <1>e DEF SInv, Placed
<1>5. ReadyLocks'
  BY <1>e DEF SInv, ReadyLocks
<1>6. QueueLocks'
  BY <1>e DEF SInv, QueueLocks
<1>7. Leaving'
  BY <1>e DEF SInv, Leaving
<1> QED
  BY <1>1, <1>2, <1>3, <1>4, <1>5, <1>6, <1>7 DEF SInv

LEMMA BalanceLockKeeps ==
    ASSUME SInv, NEW c \in CPU, BalanceLock(c)
    PROVE  SInv'
<1> USE SchedAssumption
<1> DEFINE first == FirstLock(bal[c])
<1>t. TypeOK /\ first \in CPU
  BY LockIsCpu DEF SInv
<1>e. /\ phase[c] = "balance_1" /\ phase'[c] = "balance_2" /\ ~rlock[first] /\ rlock'[first]
      /\ \A d \in CPU \ {c} : phase'[d] = phase[d]
      /\ \A d \in CPU \ {first} : rlock'[d] = rlock[d]
      /\ UNCHANGED <<now_running, stack, ready_list, total_ready_num, bal, relq, state, cpuid,
                     preempt_count, saved, pc, arg, many, idread, hand, wait_list, wlock>>
  BY <1>t DEF TypeOK, BalanceLock, taskVars, wqVars, args
<1>1. TypeOK'
  <2>1. phase' \in [CPU -> Phases] /\ rlock' \in [CPU -> BOOLEAN]
    BY <1>t, Zenon DEF TypeOK, BalanceLock, Phases
  <2> QED
    BY <1>t, <1>e, <2>1, Zenon DEF TypeOK
<1>2. Stacks'
  BY <1>e DEF SInv, Stacks, Quiet, Gone
<1>3. Code'
  BY <1>e DEF SInv, Code
<1>4. Placed'
  BY <1>e DEF SInv, Placed
<1>5. ReadyLocks'
  <2>1. \A d \in CPU : /\ phase[d] \in {"save", "unlock"} => d # first
                       /\ phase[d] = "balance_2" => FirstLock(bal[d]) # first
    BY <1>e DEF SInv, ReadyLocks
  <2>2. \A d \in CPU : FirstLock(bal[d]) \in CPU
    BY <1>t, LockIsCpu
  <2> HIDE DEF first
  <2>3. first = FirstLock(bal[c]) /\ bal' = bal
    BY <1>e DEF first
  <2>4. \A d \in CPU :
          /\ phase'[d] \in {"save", "unlock"} => rlock'[d]
          /\ phase'[d] = "balance_2" => rlock'[FirstLock(bal[d])]
          /\ phase'[d] \in {"balance_1", "balance_2"} => bal[d][1] # bal[d][2]
    BY <1>e, <1>t, <2>1, <2>2, <2>3 DEF SInv, ReadyLocks
  <2>5. \A a, d \in CPU :
          phase'[d] = "balance_2" =>
             /\ phase'[a] \in {"save", "unlock"} => FirstLock(bal[d]) # a
             /\ phase'[a] = "balance_2" /\ a # d => FirstLock(bal[d]) # FirstLock(bal[a])
    BY <1>e, <1>t, <2>1, <2>2, <2>3 DEF SInv, ReadyLocks
  <2> QED
    BY <2>3, <2>4, <2>5 DEF ReadyLocks
<1>6. QueueLocks'
  BY <1>e DEF SInv, QueueLocks
<1>7. Leaving'
  BY <1>e DEF SInv, Leaving
<1> QED
  BY <1>1, <1>2, <1>3, <1>4, <1>5, <1>6, <1>7 DEF SInv

(* What tasks_travel moves: nothing, or one task from the end of one list  *)
(* to the end of the other.                                                *)
LEMMA TravelMoves ==
    ASSUME SInv, NEW c \in CPU, Balance(c), NEW from, NEW to,
           from = bal[c][1], to = bal[c][2], from \in CPU, to \in CPU, from # to
    PROVE  /\ ready_list' \in [CPU -> Seq(Task)] /\ Once(ready_list')
           /\ total_ready_num' \in [CPU -> Nat] /\ cpuid' \in [AnyTask -> CPU]
           /\ \A d \in CPU : total_ready_num'[d] = Len(ready_list'[d])
           /\ \A d \in CPU \ {from, to} : ready_list'[d] = ready_list[d]
           /\ \A u : (\E d \in CPU : Has(ready_list', d, u)) <=> (\E d \in CPU : Has(ready_list, d, u))
<1> USE SchedAssumption
<1>0. /\ ready_list \in [CPU -> Seq(Task)] /\ Once(ready_list)
      /\ total_ready_num \in [CPU -> Nat] /\ cpuid \in [AnyTask -> CPU]
      /\ \A d \in CPU : total_ready_num[d] = Len(ready_list[d]) /\ total_ready_num[d] \in Nat
  BY Zenon DEF SInv, TypeOK, Placed
<1>1. CASE UNCHANGED <<ready_list, total_ready_num, cpuid>>
  BY <1>0, <1>1
<1>2. CASE ~UNCHANGED <<ready_list, total_ready_num, cpuid>>
  <2> DEFINE last == ready_list[from][Len(ready_list[from])]
             G == [ready_list EXCEPT ![from] = SubSeq(ready_list[from], 1, Len(ready_list[from]) - 1)]
  <2>1. /\ total_ready_num[from] > total_ready_num[to]
        /\ ready_list' = [ready_list EXCEPT ![from] = SubSeq(@, 1, Len(@) - 1), ![to] = Append(@, last)]
        /\ total_ready_num' = [total_ready_num EXCEPT ![from] = @ - 1, ![to] = @ + 1]
        /\ cpuid' = [cpuid EXCEPT ![last] = to]
    BY <1>2, Zenon DEF Balance
  <2>2. Len(ready_list[from]) > 0 /\ Len(ready_list[from]) \in Nat
    <3>1. /\ total_ready_num[from] = Len(ready_list[from])
          /\ total_ready_num[from] \in Nat /\ total_ready_num[to] \in Nat
      BY <1>0, SMTT(30)
    <3> QED
      BY <2>1, <3>1
  <2>3. Removed(CPU, Task, ready_list, from, last, G)
    BY <1>0, <2>2, FrontOfOne, Zenon
  <2>4. G[to] = ready_list[to] /\ ready_list' = [G EXCEPT ![to] = Append(G[to], last)]
    BY <1>0, <2>1, Zenon
  <2> HIDE DEF G, last
  <2>5. /\ G \in [CPU -> Seq(Task)] /\ Len(G[from]) = Len(ready_list[from]) - 1 /\ Once(G)
        /\ \A d \in CPU \ {from} : G[d] = ready_list[d]
        /\ last \in Task /\ Has(ready_list, from, last)
        /\ \A d \in CPU : \A u : Has(G, d, u) <=> Has(ready_list, d, u) /\ u # last
    BY <2>3 DEF Removed
  <2>6. Added(CPU, Task, G, to, last, ready_list')
    BY <2>4, <2>5, AppendToOne, Zenon
  <2>7. /\ ready_list' \in [CPU -> Seq(Task)] /\ Len(ready_list'[to]) = Len(G[to]) + 1
        /\ \A d \in CPU \ {to} : ready_list'[d] = G[d]
        /\ \A d \in CPU : \A u : Has(ready_list', d, u) <=> Has(G, d, u) \/ (d = to /\ u = last)
        /\ Once(ready_list')
    BY <2>5, <2>6, Zenon DEF Added
  <2>8. \A u : (\E d \in CPU : Has(ready_list', d, u)) <=> (\E d \in CPU : Has(ready_list, d, u))
    <3> SUFFICES ASSUME NEW u
                 PROVE  (\E d \in CPU : Has(ready_list', d, u)) <=> (\E d \in CPU : Has(ready_list, d, u))
      OBVIOUS
    <3>1. CASE u = last
      BY <2>5, <2>7, <3>1, Zenon
    <3>2. CASE u # last
      <4>1. \A d \in CPU : Has(ready_list', d, u) <=> Has(ready_list, d, u)
        BY <2>5, <2>7, <3>2, Zenon
      <4> QED
        BY <4>1
    <3> QED
      BY <3>1, <3>2
  <2>9. /\ total_ready_num'[from] = total_ready_num[from] - 1
        /\ total_ready_num'[to] = total_ready_num[to] + 1
        /\ \A d \in CPU \ {from, to} : total_ready_num'[d] = total_ready_num[d]
        /\ total_ready_num' = [d \in CPU |-> total_ready_num'[d]]
    BY <1>0, <2>1, Zenon
  <2>a. \A d \in CPU : total_ready_num'[d] = Len(ready_list'[d])
    <3>1. total_ready_num'[from] = Len(ready_list'[from])
      BY <1>0, <2>5, <2>7, <2>9, Zenon
    <3>2. total_ready_num'[to] = Len(ready_list'[to])
      <4>1. Len(ready_list'[to]) = Len(ready_list[to]) + 1
        BY <2>4, <2>7
      <4>2. total_ready_num[to] = Len(ready_list[to])
        BY <1>0
      <4> QED
        BY <2>9, <4>1, <4>2, SMTT(30)
    <3>3. \A d \in CPU \ {from, to} : total_ready_num'[d] = Len(ready_list'[d])
      <4>1. \A d \in CPU \ {from, to} : ready_list'[d] = ready_list[d]
        BY <2>5, <2>7, Zenon
      <4> QED
        BY <1>0, <2>9, <4>1, SMTT(30)
    <3> QED
      BY <3>1, <3>2, <3>3, SMTT(30)
  <2>b. total_ready_num' \in [CPU -> Nat]
    <3>1. \A d \in CPU : Len(ready_list'[d]) \in Nat
      BY <2>7, ListLength
    <3> QED
      BY <2>9, <2>a, <3>1
  <2>c. cpuid' \in [AnyTask -> CPU]
    BY <1>0, <2>1, Zenon
  <2> QED
    BY <2>5, <2>7, <2>8, <2>a, <2>b, <2>c, Zenon
<1> QED
  BY <1>1, <1>2, SMTT(30)

LEMMA BalanceKeeps ==
    ASSUME SInv, NEW c \in CPU, Balance(c)
    PROVE  SInv'
<1> USE SchedAssumption
<1> DEFINE first == FirstLock(bal[c])
           from == bal[c][1]
           to == bal[c][2]
<1>t. TypeOK /\ first \in CPU
  BY LockIsCpu DEF SInv
<1>e. /\ phase[c] = "balance_2" /\ phase'[c] = "tick" /\ ~rlock[SecondLock(bal[c])]
      /\ \A d \in CPU \ {c} : phase'[d] = phase[d] /\ bal'[d] = bal[d]
      /\ \A d \in CPU \ {first} : rlock'[d] = rlock[d]
      /\ UNCHANGED <<now_running, stack, relq, state, preempt_count, saved, pc, arg, many, idread,
                     hand, wait_list, wlock>>
  <2>1. /\ phase \in [CPU -> Phases] /\ bal \in [CPU -> CPU \X CPU] /\ rlock \in [CPU -> BOOLEAN]
    BY <1>t, Zenon DEF TypeOK
  <2>2. /\ phase[c] = "balance_2" /\ phase' = [phase EXCEPT ![c] = "tick"]
        /\ ~rlock[SecondLock(bal[c])] /\ rlock' = [rlock EXCEPT ![first] = FALSE]
        /\ bal' = [bal EXCEPT ![c] = <<c, c>>]
        /\ UNCHANGED <<now_running, stack, relq, state, preempt_count, saved, pc, arg, many, idread,
                       hand, wait_list, wlock>>
    BY Zenon DEF Balance, wqVars, args
  <2> QED
    BY <2>1, <2>2
<1>f. /\ from \in CPU /\ to \in CPU /\ from # to
      /\ \A d \in CPU : phase[d] \in {"save", "unlock"} => d \notin {from, to}
  <2>1. from \in CPU /\ to \in CPU /\ {first, SecondLock(bal[c])} = {from, to} /\ from # to
    BY <1>t, <1>e, LockIsCpu, Zenon DEF SInv, ReadyLocks
  <2>2. \A d \in CPU : phase[d] \in {"save", "unlock"} => d # first /\ d # SecondLock(bal[c])
    BY <1>e DEF SInv, ReadyLocks
  <2> QED
    BY <2>1, <2>2
<1>l. /\ ready_list' \in [CPU -> Seq(Task)] /\ Once(ready_list')
      /\ total_ready_num' \in [CPU -> Nat] /\ cpuid' \in [AnyTask -> CPU]
      /\ \A d \in CPU : total_ready_num'[d] = Len(ready_list'[d])
      /\ \A d \in CPU \ {from, to} : ready_list'[d] = ready_list[d]
      /\ \A u : (\E d \in CPU : Has(ready_list', d, u)) <=> (\E d \in CPU : Has(ready_list, d, u))
  BY <1>f, TravelMoves, ZenonT(30)
<1>1. TypeOK'
  <2>1. phase' \in [CPU -> Phases]
    BY <1>t DEF TypeOK, Balance, Phases
  <2>2. rlock' \in [CPU -> BOOLEAN]
    BY <1>t DEF TypeOK, Balance
  <2>3. bal' \in [CPU -> CPU \X CPU]
    BY <1>t DEF TypeOK, Balance
  <2> QED
    BY <1>t, <1>e, <1>l, <2>1, <2>2, <2>3, Zenon DEF TypeOK
<1>2. Stacks'
  BY <1>e DEF SInv, Stacks, Quiet, Gone
<1>3. Code'
  BY <1>e DEF SInv, Code
<1>4. Placed'
  <2>1. \A u \in Task : state'[u] = "READY" <=>
           (\E d \in CPU : Has(ready_list', d, u)) \/ (\E v \in AnyTask : hand'[v] = u)
    <3>1. \A u \in Task : state[u] = "READY" <=>
             (\E d \in CPU : Has(ready_list, d, u)) \/ (\E v \in AnyTask : hand[v] = u)
      BY DEF SInv, Placed
    <3>2. \A u \in Task : state[u] = "READY" <=>
             (\E d \in CPU : Has(ready_list', d, u)) \/ (\E v \in AnyTask : hand[v] = u)
      BY <1>l, <3>1
    <3> QED
      BY <1>e, <3>2
  <2>2. \A v \in AnyTask, d \in CPU : hand'[v] # None => ~Has(ready_list', d, hand'[v])
    BY <1>e, <1>l DEF SInv, Placed
  <2>3. \A u \in Task :
           /\ state'[u] = "SLEEP" <=> \E q \in Queue : Has(wait_list', q, u)
           /\ (\E d \in CPU : now_running'[d] = u) <=>
                 state'[u] = "RUNNING" \/ (state'[u] = "SLEEP" /\ pc'[u] = "sleep_switch")
           /\ pc'[u] = "sleep_switch" => Has(wait_list', arg'[u], u)
    BY <1>e DEF SInv, Placed
  <2>4. Once(ready_list') /\ Once(wait_list')
        /\ \A u, v \in AnyTask : hand'[u] = hand'[v] /\ hand'[u] # None => u = v
    BY <1>e, <1>l DEF SInv, Placed
  <2> QED
    BY <1>l, <2>1, <2>2, <2>3, <2>4, Zenon DEF Placed
<1>5. ReadyLocks'
  <2>1. \A d \in CPU : /\ phase[d] \in {"save", "unlock"} => d # first
                       /\ phase[d] = "balance_2" /\ d # c => FirstLock(bal[d]) # first
    BY <1>e DEF SInv, ReadyLocks
  <2>2. \A d \in CPU : FirstLock(bal[d]) \in CPU
    BY <1>t, LockIsCpu
  <2> HIDE DEF first
  <2>3. \A d \in CPU :
          /\ phase'[d] \in {"save", "unlock"} => rlock'[d]
          /\ phase'[d] = "balance_2" => rlock'[FirstLock(bal'[d])]
          /\ phase'[d] \in {"balance_1", "balance_2"} => bal'[d][1] # bal'[d][2]
    BY <1>e, <1>t, <2>1, <2>2 DEF SInv, ReadyLocks
  <2>4. \A a, d \in CPU :
          phase'[d] = "balance_2" =>
             /\ phase'[a] \in {"save", "unlock"} => FirstLock(bal'[d]) # a
             /\ phase'[a] = "balance_2" /\ a # d => FirstLock(bal'[d]) # FirstLock(bal'[a])
    BY <1>e DEF SInv, ReadyLocks
  <2> QED
    BY <2>3, <2>4 DEF ReadyLocks
<1>6. QueueLocks'
  BY <1>e DEF SInv, QueueLocks
<1>7. Leaving'
  <2>1. \A d \in CPU : phase[d] = "save" => ready_list'[d] = ready_list[d]
    BY <1>f, <1>l
  <2>2. \A d \in CPU : phase[d] = "save" => \A u : Has(ready_list', d, u) <=> Has(ready_list, d, u)
    BY <2>1 DEF Has
  <2> QED
    BY <1>e, <2>2 DEF SInv, Leaving
<1> QED
  BY <1>1, <1>2, <1>3, <1>4, <1>5, <1>6, <1>7 DEF SInv
=============================================================================
