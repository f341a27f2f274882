-------------------------------- MODULE Sched --------------------------------
(***************************************************************************)
(* The multi-core scheduler: ready lists, context switch, wait queues, the *)
(* timer interrupt and load balancing (src/src/task/task.c, lib/lock.c,    *)
(* lib/waitqueue.c, machine/time.c and task_switch_* of boot.asm).         *)
(*                                                                         *)
(* A step is what happens between two points where another CPU can see a   *)
(* difference: taking a spinlock, releasing one, saving or loading a       *)
(* kernel stack.  pc[t] is where task t stands in its own kernel code, and *)
(* survives a preemption; phase[c] is where CPU c stands in the code that  *)
(* runs on behalf of no task: the timer handler and the task switch.       *)
(*                                                                         *)
(* System calls enter through an interrupt gate and run with interrupts    *)
(* off; kernel threads run with them on.  The tasks here are kernel        *)
(* threads: they can be preempted wherever preempt_count allows it, which  *)
(* covers what a task inside a system call does.                           *)
(***************************************************************************)
EXTENDS Integers, Sequences, FiniteSets

CONSTANTS
    CPU,          \* logical cpu ids, a set of naturals
    Task,         \* every task but the idle ones
    Idle,         \* Idle[c]: the idle task of CPU c
    Queue,        \* the wait queues
    Born,         \* the tasks that exist when the scheduler starts
    Worlds,       \* [race, spawn]: may the timer hit between the two reads of
                  \* get_current, and are tasks created?
    None

ASSUME SchedAssumption ==
    /\ CPU \subseteq Nat /\ CPU # {} /\ IsFiniteSet(CPU)
    /\ Born \subseteq Task /\ IsFiniteSet(Born)
    /\ Worlds \subseteq [race : BOOLEAN, spawn : BOOLEAN]
    /\ None \notin Task \cup Queue
    /\ Idle = [c \in CPU |-> Idle[c]]
    /\ \A c \in CPU : Idle[c] \notin Task \cup {None}
    /\ \A c, d \in CPU : Idle[c] = Idle[d] => c = d

AnyTask == Task \cup {Idle[c] : c \in CPU}
BALANCE_DELTA == 1                          \* MULTI_CORE_BALANCE_DELTA

VARIABLES
    world,            \* the member of Worlds this behaviour is about
    now_running,      \* cpus->items[c].now_running
    stack,            \* the task whose kernel stack CPU c pushes on
    ready_list,       \* cpus->items[c].ready_list
    total_ready_num,  \* cpus->items[c].total_ready_num
    rlock,            \* ready_list.lock (with timer_list.lock): TRUE = taken
    wait_list,        \* wq->list
    wlock,            \* wq->lock: the task that took it, or None
    state, cpuid, preempt_count, \* fields of the pcb
    saved,            \* pcb->rsp holds the task's whole context
    pc,               \* where the task stands in its own code
    arg, many,        \* the queue it works on; wake all of it?
    idread, hand,     \* the cpu id get_current read; the task being woken
    phase, bal, relq  \* CPU code: place, the balanced pair, the queue to unlock

cpuVars  == <<now_running, stack, ready_list, total_ready_num, rlock, phase, bal, relq>>
args     == <<arg, many, idread, hand>>
taskVars == <<state, cpuid, preempt_count, saved, pc, args>>
wqVars   == <<wait_list, wlock>>
moving == <<cpuVars, taskVars, wqVars>>
vars == <<world, moving>>

BootCpu == CHOOSE c \in CPU : \A d \in CPU : c <= d    \* the BSP, id 0

Init ==
    /\ world \in Worlds
    /\ now_running = Idle /\ stack = Idle
    /\ \E order \in [1 .. Cardinality(Born) -> Born] :
         /\ \A t \in Born : \E k \in DOMAIN order : order[k] = t
         /\ ready_list = [c \in CPU |-> IF c = BootCpu THEN order ELSE <<>>]
    /\ total_ready_num = [c \in CPU |-> Len(ready_list[c])]
    /\ rlock = [c \in CPU |-> FALSE]
    /\ wait_list = [q \in Queue |-> <<>>] /\ wlock = [q \in Queue |-> None]
    /\ state = [t \in AnyTask |-> IF t \in Born THEN "READY"
                                  ELSE IF t \in Task THEN "UNBORN" ELSE "RUNNING"]
    /\ cpuid = [t \in AnyTask |-> IF t \in Task THEN BootCpu
                                  ELSE CHOOSE c \in CPU : Idle[c] = t]
    /\ preempt_count = [t \in AnyTask |-> 0]
    /\ saved = [t \in AnyTask |-> t \in Task]
    /\ pc = [t \in AnyTask |-> "run"]
    /\ arg = [t \in AnyTask |-> None] /\ hand = [t \in AnyTask |-> None]
    /\ many = [t \in AnyTask |-> FALSE] /\ idread = [t \in AnyTask |-> BootCpu]
    /\ phase = [c \in CPU |-> "exec"]
    /\ bal = [c \in CPU |-> <<c, c>>] /\ relq = [c \in CPU |-> None]

-----------------------------------------------------------------------------
(* The task switch.                                                        *)

\* mutation: the counter also drops when the idle task is chosen
Pick_AlwaysCount(c, list, n, st, q) ==
    LET next == IF list = <<>> THEN Idle[c] ELSE Head(list)
    IN  /\ ready_list' = [ready_list EXCEPT ![c] = IF list = <<>> THEN list ELSE Tail(list)]
        /\ total_ready_num' = [total_ready_num EXCEPT ![c] = n - 1]
        /\ now_running' = [now_running EXCEPT ![c] = next]
        /\ cpuid' = [cpuid EXCEPT ![next] = c]
        /\ state' = [st EXCEPT ![next] = "RUNNING"]
        /\ rlock' = [rlock EXCEPT ![c] = TRUE]
        /\ relq' = [relq EXCEPT ![c] = q]
        /\ phase' = [phase EXCEPT ![c] = "save"]

(* __schedule_locked up to the call of task_switch_unlock: `list` is the   *)
(* ready list of c, `n` its counter, `st` the states; q is the queue whose *)
(* lock the switch also has to drop (None when there is none).             *)
Pick(c, list, n, st, q) ==
    LET next == IF list = <<>> THEN Idle[c] ELSE Head(list)
    IN  /\ ready_list' = [ready_list EXCEPT ![c] = IF list = <<>> THEN list ELSE Tail(list)]
        /\ total_ready_num' = [total_ready_num EXCEPT ![c] = IF list = <<>> THEN n ELSE n - 1]
        /\ now_running' = [now_running EXCEPT ![c] = next]
        /\ cpuid' = [cpuid EXCEPT ![next] = c]
        /\ state' = [st EXCEPT ![next] = "RUNNING"]
        /\ rlock' = [rlock EXCEPT ![c] = TRUE]
        /\ relq' = [relq EXCEPT ![c] = q]
        /\ phase' = [phase EXCEPT ![c] = "save"]

(* task_switch_unlock / task_switch_double_unlock, instruction by          *)
(* instruction: store rsp and give the preempt counts back ...             *)
SwitchSave(c) ==
    /\ phase[c] = "save"
    /\ saved' = [saved EXCEPT ![stack[c]] = TRUE]
    /\ preempt_count' = [preempt_count EXCEPT ![stack[c]] = @ - (IF relq[c] = None THEN 1 ELSE 2)]
    /\ stack' = [stack EXCEPT ![c] = None]
    /\ phase' = [phase EXCEPT ![c] = "unlock"]
    /\ UNCHANGED <<now_running, ready_list, total_ready_num, rlock, bal, relq,
                   state, cpuid, pc, args, wqVars>>

(* ... release the ready list ...                                          *)
SwitchUnlock(c) ==
    /\ phase[c] = "unlock"
    /\ rlock' = [rlock EXCEPT ![c] = FALSE]
    /\ phase' = [phase EXCEPT ![c] = IF relq[c] = None THEN "load" ELSE "unlock_wq"]
    /\ UNCHANGED <<now_running, stack, ready_list, total_ready_num, bal, relq, taskVars, wqVars>>

(* ... release the wait queue ...                                          *)
SwitchUnlockQueue(c) ==
    /\ phase[c] = "unlock_wq"
    /\ wlock' = [wlock EXCEPT ![relq[c]] = None]
    /\ relq' = [relq EXCEPT ![c] = None]
    /\ phase' = [phase EXCEPT ![c] = "load"]
    /\ UNCHANGED <<now_running, stack, ready_list, total_ready_num, rlock, bal, taskVars, wait_list>>

(* ... and pop the context of the task that runs next.                     *)
SwitchLoad(c) ==
    /\ phase[c] = "load"
    /\ stack' = [stack EXCEPT ![c] = now_running[c]]
    /\ saved' = [saved EXCEPT ![now_running[c]] = FALSE]
    /\ phase' = [phase EXCEPT ![c] = "exec"]
    /\ UNCHANGED <<now_running, ready_list, total_ready_num, rlock, bal, relq,
                   state, cpuid, preempt_count, pc, args, wqVars>>

\* mutation: the ready list can be unlocked before rsp is stored
Switch_UnlockFirst(c) ==
    \/ /\ phase[c] = "save" /\ rlock[c]
       /\ rlock' = [rlock EXCEPT ![c] = FALSE]
       /\ UNCHANGED <<now_running, stack, ready_list, total_ready_num, phase, bal, relq, taskVars, wqVars>>
    \/ SwitchSave(c) \/ SwitchUnlock(c) \/ SwitchUnlockQueue(c) \/ SwitchLoad(c)

Switch(c) == SwitchSave(c) \/ SwitchUnlock(c) \/ SwitchUnlockQueue(c) \/ SwitchLoad(c)

-----------------------------------------------------------------------------
(* Task code.  Task t runs on CPU c when Runs(c, t).                       *)

Runs(c, t) == phase[c] = "exec" /\ stack[c] = t

Goto(t, place) == pc' = [pc EXCEPT ![t] = place]

(* sys_yield: interrupts off, then spin on the own ready list ...          *)
YieldStart(c, t) ==
    /\ Runs(c, t) /\ t \in Task /\ pc[t] = "run"
    /\ preempt_count' = [preempt_count EXCEPT ![t] = @ + 1]
    /\ Goto(t, "yield")
    /\ UNCHANGED <<cpuVars, state, cpuid, saved, args, wqVars>>

(* ... queue up at its tail and switch.                                    *)
Yield(c, t) ==
    /\ Runs(c, t) /\ pc[t] = "yield" /\ ~rlock[c]
    /\ Pick(c, Append(ready_list[c], t), total_ready_num[c] + 1,
            [state EXCEPT ![t] = "READY"], None)
    /\ Goto(t, "run")
    /\ UNCHANGED <<stack, bal, preempt_count, saved, args, wqVars>>

(* sleep_on: interrupts off, then spin on the queue's lock ...             *)
SleepStart(c, t, q) ==
    /\ Runs(c, t) /\ t \in Task /\ pc[t] = "run"
    /\ preempt_count' = [preempt_count EXCEPT ![t] = @ + 1]
    /\ arg' = [arg EXCEPT ![t] = q]
    /\ Goto(t, "sleep")
    /\ UNCHANGED <<cpuVars, state, cpuid, saved, many, idread, hand, wqVars>>

(* ... join the queue and go to spin on the ready list (entering           *)
(* __schedule_other_locked) ...                                            *)
SleepEnqueue(c, t) ==
    /\ Runs(c, t) /\ pc[t] = "sleep" /\ wlock[arg[t]] = None
    /\ wlock' = [wlock EXCEPT ![arg[t]] = t]
    /\ wait_list' = [wait_list EXCEPT ![arg[t]] = Append(@, t)]
    /\ state' = [state EXCEPT ![t] = "SLEEP"]
    /\ preempt_count' = [preempt_count EXCEPT ![t] = @ + 1]
    /\ Goto(t, "sleep_switch")
    /\ UNCHANGED <<cpuVars, cpuid, saved, args>>

(* ... and switch; the queue stays locked until the context is stored.     *)
SleepSwitch(c, t) ==
    /\ Runs(c, t) /\ pc[t] = "sleep_switch" /\ ~rlock[c]
    /\ Pick(c, ready_list[c], total_ready_num[c], state, arg[t])
    /\ Goto(t, "run")
    /\ arg' = [arg EXCEPT ![t] = None]
    /\ UNCHANGED <<stack, bal, preempt_count, saved, many, idread, hand, wqVars>>

(* wake_up_all / wake_up_first, interrupts on.  spin_lock begins with      *)
(* preempt_disable, whose get_current first reads the cpu id ...           *)
WakeStart(c, t, q, all) ==
    /\ Runs(c, t) /\ t \in Task /\ pc[t] = "run"
    /\ arg' = [arg EXCEPT ![t] = q]
    /\ many' = [many EXCEPT ![t] = all]
    /\ idread' = [idread EXCEPT ![t] = c]
    /\ Goto(t, "wake_current")
    /\ UNCHANGED <<cpuVars, state, cpuid, preempt_count, saved, hand, wqVars>>

\* mutation: wake_up takes the queue's lock without preempt_disable
WakeDisable_Not(c, t) ==
    /\ Runs(c, t) /\ pc[t] = "wake_current"
    /\ idread' = [idread EXCEPT ![t] = BootCpu]
    /\ Goto(t, "wake_lock")
    /\ UNCHANGED <<cpuVars, state, cpuid, preempt_count, saved, arg, many, hand, wqVars>>

(* ... then that CPU's now_running, and counts on the task found there.    *)
WakeDisable(c, t) ==
    /\ Runs(c, t) /\ pc[t] = "wake_current"
    /\ preempt_count' = [preempt_count EXCEPT ![now_running[idread[t]]] = @ + 1]
    /\ idread' = [idread EXCEPT ![t] = BootCpu]
    /\ Goto(t, "wake_lock")
    /\ UNCHANGED <<cpuVars, state, cpuid, saved, arg, many, hand, wqVars>>

WakeLock(c, t) ==
    /\ Runs(c, t) /\ pc[t] = "wake_lock" /\ wlock[arg[t]] = None
    /\ wlock' = [wlock EXCEPT ![arg[t]] = t]
    /\ Goto(t, "wake_loop")
    /\ UNCHANGED <<cpuVars, state, cpuid, preempt_count, saved, args, wait_list>>

\* mutation: the sleeper is woken but not taken off the queue
WakePop_Leave(c, t) ==
    LET q == arg[t] IN
    /\ Runs(c, t) /\ pc[t] = "wake_loop" /\ wait_list[q] # <<>>
    /\ hand' = [hand EXCEPT ![t] = Head(wait_list[q])]
    /\ state' = [state EXCEPT ![Head(wait_list[q])] = "READY"]
    /\ preempt_count' = [preempt_count EXCEPT ![t] = @ + 1]
    /\ Goto(t, "wake_put")
    /\ UNCHANGED <<cpuVars, cpuid, saved, arg, many, idread, wqVars>>

(* Take the first sleeper off the queue and go to spin on the ready list   *)
(* of the CPU it last ran on ...                                           *)
WakePop(c, t) ==
    LET q == arg[t] IN
    /\ Runs(c, t) /\ pc[t] = "wake_loop" /\ wait_list[q] # <<>>
    /\ hand' = [hand EXCEPT ![t] = Head(wait_list[q])]
    /\ wait_list' = [wait_list EXCEPT ![q] = Tail(@)]
    /\ state' = [state EXCEPT ![Head(wait_list[q])] = "READY"]
    /\ preempt_count' = [preempt_count EXCEPT ![t] = @ + 1]
    /\ Goto(t, "wake_put")
    /\ UNCHANGED <<cpuVars, cpuid, saved, arg, many, idread, wlock>>

(* ... put_to_ready_list_first: insert it at the head.                     *)
WakePut(c, t) ==
    LET d == cpuid[hand[t]] IN
    /\ Runs(c, t) /\ pc[t] = "wake_put" /\ ~rlock[d]
    /\ ready_list' = [ready_list EXCEPT ![d] = <<hand[t]>> \o @]
    /\ total_ready_num' = [total_ready_num EXCEPT ![d] = @ + 1]
    /\ hand' = [hand EXCEPT ![t] = None]
    /\ preempt_count' = [preempt_count EXCEPT ![t] = @ - 1]
    /\ Goto(t, IF many[t] THEN "wake_loop" ELSE "wake_unlock")
    /\ UNCHANGED <<now_running, stack, rlock, phase, bal, relq,
                   state, cpuid, saved, arg, many, idread, wqVars>>

WakeUnlock(c, t) ==
    LET q == arg[t] IN
    /\ Runs(c, t)
    /\ pc[t] = "wake_unlock" \/ (pc[t] = "wake_loop" /\ wait_list[q] = <<>>)
    /\ wlock' = [wlock EXCEPT ![q] = None]
    /\ preempt_count' = [preempt_count EXCEPT ![t] = @ - 1]
    /\ arg' = [arg EXCEPT ![t] = None]
    /\ many' = [many EXCEPT ![t] = FALSE]
    /\ Goto(t, "run")
    /\ UNCHANGED <<cpuVars, state, cpuid, saved, idread, hand, wait_list>>

(* kernel_thread / fork: a new task, its first frame prepared, enters CPU  *)
(* n through add_to_cpu_n_ready_list, at the head.                         *)
Spawn(c, t, new, n) ==
    /\ Runs(c, t) /\ t \in Task /\ pc[t] = "run"
    /\ world.spawn /\ state[new] = "UNBORN" /\ ~rlock[n]
    /\ state' = [state EXCEPT ![new] = "READY"]
    /\ cpuid' = [cpuid EXCEPT ![new] = n]
    /\ ready_list' = [ready_list EXCEPT ![n] = <<new>> \o @]
    /\ total_ready_num' = [total_ready_num EXCEPT ![n] = @ + 1]
    /\ UNCHANGED <<now_running, stack, rlock, phase, bal, relq,
                   preempt_count, saved, pc, args, wqVars>>

-----------------------------------------------------------------------------
(* The timer interrupt, timer_intr_soft.                                   *)

(* The places of a task's code where interrupts are on.                    *)
IntrOn(t) ==
    pc[t] \in {"run", "wake_lock", "wake_loop", "wake_put", "wake_unlock"}
              \cup (IF world.race THEN {"wake_current"} ELSE {})

(* load_balance: the unlocked look at every counter; the pair of CPUs it   *)
(* decides to balance, or <<c, c>> for none.                               *)
BalancePair(c) ==
    LET n       == total_ready_num
        busiest == CHOOSE d \in CPU : \A e \in CPU : n[d] > n[e] \/ (n[d] = n[e] /\ d <= e)
        laziest == CHOOSE d \in CPU : \A e \in CPU : n[d] < n[e] \/ (n[d] = n[e] /\ d <= e)
    IN  IF n[busiest] - n[laziest] < BALANCE_DELTA THEN <<c, c>>
        ELSE IF n[c] = n[busiest] THEN <<c, laziest>>
        ELSE IF n[c] = n[laziest] THEN <<busiest, c>>
        ELSE <<c, c>>

(* A positive preempt_count makes the handler return at once.  Otherwise   *)
(* it passes the ready list's lock once (local_timer_timeout) and, on some *)
(* ticks, considers load balancing.                                        *)
Tick(c) ==
    LET t == stack[c] IN
    /\ phase[c] = "exec" /\ IntrOn(t) /\ preempt_count[t] <= 0 /\ ~rlock[c]
    /\ preempt_count' = [preempt_count EXCEPT ![t] = 0]
    /\ \E due \in BOOLEAN : LET pair == IF due THEN BalancePair(c) ELSE <<c, c>> IN
         /\ bal' = [bal EXCEPT ![c] = pair]
         /\ phase' = [phase EXCEPT ![c] = IF pair[1] = pair[2] THEN "tick" ELSE "balance_1"]
    /\ UNCHANGED <<now_running, stack, ready_list, total_ready_num, rlock, relq,
                   state, cpuid, saved, pc, args, wqVars>>

(* alloc_load_balance_lock takes the locks in address order.               *)
\* mutation: the lock of the source list is always taken first
FirstLock_Source(pair) == pair[1]

FirstLock(pair)  == IF pair[1] < pair[2] THEN pair[1] ELSE pair[2]
SecondLock(pair) == IF pair[1] < pair[2] THEN pair[2] ELSE pair[1]

BalanceLock(c) ==
    /\ phase[c] = "balance_1" /\ ~rlock[FirstLock(bal[c])]
    /\ rlock' = [rlock EXCEPT ![FirstLock(bal[c])] = TRUE]
    /\ phase' = [phase EXCEPT ![c] = "balance_2"]
    /\ UNCHANGED <<now_running, stack, ready_list, total_ready_num, bal, relq, taskVars, wqVars>>

(* tasks_travel, both lists locked: look again at the counters and move    *)
(* the last task of the longer list to the end of the shorter one.         *)
Balance(c) ==
    LET from == bal[c][1]
        to   == bal[c][2]
        last == ready_list[from][Len(ready_list[from])]
        far  == (total_ready_num[from] - total_ready_num[to]) \div 2 >= BALANCE_DELTA
    IN
    /\ phase[c] = "balance_2" /\ ~rlock[SecondLock(bal[c])]
    /\ IF total_ready_num[from] > total_ready_num[to] /\ far
         THEN /\ ready_list' = [ready_list EXCEPT ![from] = SubSeq(@, 1, Len(@) - 1),
                                                  ![to] = Append(@, last)]
              /\ total_ready_num' = [total_ready_num EXCEPT ![from] = @ - 1, ![to] = @ + 1]
              /\ cpuid' = [cpuid EXCEPT ![last] = to]
         ELSE UNCHANGED <<ready_list, total_ready_num, cpuid>>
    /\ rlock' = [rlock EXCEPT ![FirstLock(bal[c])] = FALSE]
    /\ bal' = [bal EXCEPT ![c] = <<c, c>>]
    /\ phase' = [phase EXCEPT ![c] = "tick"]
    /\ UNCHANGED <<now_running, stack, relq, state, preempt_count, saved, pc, args, wqVars>>

(* The time slice is not used up: back to the interrupted code.            *)
TickReturn(c) ==
    /\ phase[c] = "tick"
    /\ phase' = [phase EXCEPT ![c] = "exec"]
    /\ UNCHANGED <<now_running, stack, ready_list, total_ready_num, rlock, bal, relq, taskVars, wqVars>>

\* mutation: the preempted task goes back to the head of the list
TickPreempt_Head(c) ==
    LET t == stack[c] IN
    /\ phase[c] = "tick" /\ ~rlock[c]
    /\ IF t = Idle[c]
         THEN Pick(c, ready_list[c], total_ready_num[c], state, None)
         ELSE Pick(c, <<t>> \o ready_list[c], total_ready_num[c] + 1,
                   [state EXCEPT ![t] = "READY"], None)
    /\ preempt_count' = [preempt_count EXCEPT ![t] = @ + 1]
    /\ UNCHANGED <<stack, bal, saved, pc, args, wqVars>>

(* It is: requeue the task (the idle one is never queued) and switch.      *)
TickPreempt(c) ==
    LET t == stack[c] IN
    /\ phase[c] = "tick" /\ ~rlock[c]
    /\ IF t = Idle[c]
         THEN Pick(c, ready_list[c], total_ready_num[c], state, None)
         ELSE Pick(c, Append(ready_list[c], t), total_ready_num[c] + 1,
                   [state EXCEPT ![t] = "READY"], None)
    /\ preempt_count' = [preempt_count EXCEPT ![t] = @ + 1]
    /\ UNCHANGED <<stack, bal, saved, pc, args, wqVars>>

Timer(c) == Tick(c) \/ BalanceLock(c) \/ Balance(c) \/ TickReturn(c) \/ TickPreempt(c)

-----------------------------------------------------------------------------
Finish(c, t) ==
    \/ Yield(c, t) \/ SleepEnqueue(c, t) \/ SleepSwitch(c, t)
    \/ WakeDisable(c, t) \/ WakeLock(c, t) \/ WakePop(c, t) \/ WakePut(c, t)
    \/ WakeUnlock(c, t)

Start(c, t) ==
    \/ YieldStart(c, t)
    \/ \E q \in Queue : SleepStart(c, t, q)
    \/ \E q \in Queue, all \in BOOLEAN : WakeStart(c, t, q, all)
    \/ \E new \in Task, n \in CPU : Spawn(c, t, new, n)

Next ==
    /\ \E c \in CPU :
          \/ Switch(c)
          \/ Timer(c)
          \/ \E t \in Task : Start(c, t) \/ Finish(c, t)
    /\ UNCHANGED world

Spec == Init /\ [][Next]_vars

(* A CPU executes what it has begun.  A spinning CPU gets the lock it      *)
(* waits for: ready lists are locked for a few instructions between two    *)
(* ticks.  The timer fires again and again, and every DEFUALT_TICKS-th     *)
(* tick of a task finds its slice used up.                                 *)
Fairness ==
    \A c \in CPU :
        /\ WF_moving(Switch(c))
        /\ SF_moving(BalanceLock(c)) /\ SF_moving(Balance(c))
        /\ SF_moving(\E t \in Task : Finish(c, t))
        /\ SF_moving(Tick(c)) /\ SF_moving(TickPreempt(c))

FairSpec == Spec /\ Fairness

-----------------------------------------------------------------------------
Places == {"run", "yield", "sleep", "sleep_switch", "wake_current", "wake_lock",
           "wake_loop", "wake_put", "wake_unlock"}
Phases == {"exec", "save", "unlock", "unlock_wq", "load", "tick", "balance_1", "balance_2"}

(* Type invariant of the CPU table, the pcbs and the wait queues.          *)
TypeOK ==
    /\ now_running \in [CPU -> AnyTask]
    /\ stack \in [CPU -> AnyTask \cup {None}]
    /\ ready_list \in [CPU -> Seq(Task)]
    /\ total_ready_num \in [CPU -> Nat]
    /\ rlock \in [CPU -> BOOLEAN]
    /\ wait_list \in [Queue -> Seq(Task)]
    /\ wlock \in [Queue -> Task \cup {None}]
    /\ state \in [AnyTask -> {"UNBORN", "READY", "RUNNING", "SLEEP"}]
    /\ cpuid \in [AnyTask -> CPU]
    /\ preempt_count \in [AnyTask -> Int]
    /\ saved \in [AnyTask -> BOOLEAN]
    /\ pc \in [AnyTask -> Places]
    /\ arg \in [AnyTask -> Queue \cup {None}]
    /\ many \in [AnyTask -> BOOLEAN]
    /\ idread \in [AnyTask -> CPU]
    /\ hand \in [AnyTask -> Task \cup {None}]
    /\ phase \in [CPU -> Phases]
    /\ bal \in [CPU -> CPU \X CPU]
    /\ relq \in [CPU -> Queue \cup {None}]

OnCpu(t)   == {c \in CPU : now_running[c] = t}
InReady(t) == {ck \in UNION {{c} \X DOMAIN ready_list[c] : c \in CPU} :
                   ready_list[ck[1]][ck[2]] = t}
InWait(t)  == {qk \in UNION {{q} \X DOMAIN wait_list[q] : q \in Queue} :
                   wait_list[qk[1]][qk[2]] = t}
InHand(t)  == {u \in AnyTask : hand[u] = t}

(* No task is lost and none is in two places: it is the running task of    *)
(* one CPU, or sits once in one ready list or in a waker's hands, or once  *)
(* in one wait queue, as its state says.  Only a task inside sleep_on,     *)
(* holding the queue's lock, is both queued and running.  The counter that *)
(* load balancing reads without a lock is the length of the list.          *)
OnePlace ==
    /\ \A t \in Task :
          LET at == <<Cardinality(OnCpu(t)), Cardinality(InReady(t)) + Cardinality(InHand(t)),
                      Cardinality(InWait(t))>>
          IN  at = CASE state[t] = "UNBORN"  -> <<0, 0, 0>>
                     [] state[t] = "RUNNING" -> <<1, 0, 0>>
                     [] state[t] = "READY"   -> <<0, 1, 0>>
                     [] state[t] = "SLEEP" /\ pc[t] # "sleep_switch" -> <<0, 0, 1>>
                     [] state[t] = "SLEEP" /\ pc[t] = "sleep_switch" -> <<1, 0, 1>>
    /\ \A c \in CPU : total_ready_num[c] = Len(ready_list[c])

(* A CPU loads a kernel stack only after the CPU that left it has stored   *)
(* the whole context there, and never two CPUs push on one stack: the      *)
(* order save, unlock ready list, unlock queue of task_switch_* matters.   *)
ContextSaved ==
    /\ \A c \in CPU : phase[c] = "load" => saved[now_running[c]]
    /\ \A c, d \in CPU : c # d /\ stack[c] # None => stack[c] # stack[d]

(* The locks CPU c holds and the one it spins on: <<"r", d>> is the ready  *)
(* list of d, <<"w", q>> the wait queue q.                                 *)
Holds(c) ==
    {<<"r", d>> : d \in {e \in CPU : \/ e = c /\ phase[c] \in {"save", "unlock"}
                                     \/ phase[c] = "balance_2" /\ e = FirstLock(bal[c])}}
    \cup {<<"w", q>> : q \in {p \in Queue : \/ relq[c] = p
                                            \/ wlock[p] # None /\ stack[c] = wlock[p]}}

Wants(c) ==
    LET t == stack[c] IN
    CASE phase[c] = "balance_1" -> {<<"r", FirstLock(bal[c])>>}
      [] phase[c] = "balance_2" -> {<<"r", SecondLock(bal[c])>>}
      [] phase[c] = "tick" -> {<<"r", c>>}
      [] phase[c] = "exec" /\ pc[t] \in {"yield", "sleep_switch"} -> {<<"r", c>>}
      [] phase[c] = "exec" /\ pc[t] = "wake_put" -> {<<"r", cpuid[hand[t]]>>}
      [] phase[c] = "exec" /\ pc[t] \in {"sleep", "wake_lock"} -> {<<"w", arg[t]>>}
      [] OTHER -> {}

(* No ring of CPUs in which each spins on a lock another one of the ring   *)
(* holds (or on its own): wait queue before ready list, ready lists in     *)
(* address order, and no lock held when the timer handler takes one.       *)
NoCircularWait ==
    \A S \in (SUBSET CPU) \ {{}} :
        \E c \in S : \A d \in S : Wants(c) \cap Holds(d) = {}

(* safelist.h: a spinlock is for short sections that are not interrupted:  *)
(* a task that holds a wait queue's spinlock is never sent back to a ready *)
(* list by the timer.                                                      *)
SpinHolderNotPreempted ==
    \A q \in Queue : wlock[q] # None => state[wlock[q]] # "READY"

(* Locks and preemption (schedule, timer_intr_soft, wake_up_all): while    *)
(* get_current is not interrupted, no lock holder is preempted, no ring of *)
(* CPUs spins, and some step is always possible.                           *)
LocksSound ==
    ~world.race => SpinHolderNotPreempted /\ NoCircularWait /\ ENABLED Next

(* Every task put on a ready list is eventually run, whatever the timers   *)
(* and the load balancers of the CPUs do.                                  *)
ReadyEventuallyRuns ==
    \A t \in Task : state[t] = "READY" ~> state[t] = "RUNNING"
=============================================================================
