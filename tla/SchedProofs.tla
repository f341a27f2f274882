---------------------------- MODULE SchedProofs ----------------------------
(* The scheduler for any number of CPUs, tasks and wait queues: no task is *)
(* lost or in two places, no context is loaded before it is stored, and no *)
(* CPUs wait for each other's locks.                                       *)
EXTENDS SchedSwitch, SchedTasks, FiniteSetTheorems

(* A non-empty set of naturals has a least member ...                      *)
LEMMA HasMinimum ==
    ASSUME NEW S, S \subseteq Nat, S # {}
    PROVE  \E x \in S : \A y \in S : x <= y
<1> DEFINE Below == {ss \in Nat \X Nat : ss[1] < ss[2]}
<1>1. \A x, y \in Nat : <<y, x>> \in Below \/ x <= y
  OBVIOUS
<1>2. IsWellFoundedOn(Below, Nat)
  BY NatLessThanWellFounded, Zenon DEF OpToRel
<1> HIDE DEF Below
<1>3. \E x \in S : \A y \in S : ~(<<y, x>> \in Below)
  BY <1>2, WFMin, Zenon
<1> QED
  BY <1>1, <1>3, Zenon

(* ... and over a finite set a function to the naturals has a greatest     *)
(* value: of the CPUs that wait for a lock one waits for the highest.      *)
LEMMA HasGreatest ==
    ASSUME NEW C, IsFiniteSet(C), C # {}, NEW f \in [C -> Nat]
    PROVE  \E x \in C : \A y \in C : f[y] <= f[x]
<1> DEFINE Worst == {T \in SUBSET C : T # {} /\ \A x \in T : \E y \in T : ~(f[y] <= f[x])}
           R == StrictSubsetOrdering(C)
<1> SUFFICES ASSUME C \in Worst PROVE FALSE
  OBVIOUS
<1>1. Worst \subseteq FiniteSubsetsOf(C)
  BY FS_Subset, Zenon DEF FiniteSubsetsOf
<1>2. IsWellFoundedOn(R, FiniteSubsetsOf(C))
  BY FS_StrictSubsetOrderingWellFounded, Zenon
<1>3. PICK T \in Worst : \A U \in Worst : ~(<<U, T>> \in R)
  <2> HIDE DEF Worst, R
  <2> QED
    BY <1>1, <1>2, WFMin, Zenon
<1>4. \A a \in T : f[a] \in Nat
  OBVIOUS
<1>5. PICK x \in T : TRUE
  BY Zenon
<1> DEFINE U == T \ {x}
<1>6. U \notin Worst
  BY <1>3, <1>5, ZenonT(30) DEF StrictSubsetOrdering
<1>7. CASE U = {}
  BY <1>4, <1>5, <1>7
<1>8. CASE U # {}
  <2>1. PICK m \in U : \A y \in U : f[y] <= f[m]
    BY <1>6, <1>8, Zenon
  <2>2. CASE f[x] <= f[m]
    BY <2>1, <2>2
  <2>3. CASE ~(f[x] <= f[m])
    <3>1. \A y \in T : f[y] <= f[x]
      BY <1>4, <1>5, <2>1, <2>3
    <3> QED
      BY <1>5, <3>1
  <2> QED
    BY <2>2, <2>3
<1> QED
  BY <1>7, <1>8

LEMMA OneOrNone == Cardinality({}) = 0 /\ \A x : Cardinality({x}) = 1
BY FS_EmptySet, FS_Singleton

(* A list as long as a set that has all its members has each one once.     *)
LEMMA OrderedOnce ==
    ASSUME NEW S, IsFiniteSet(S), NEW order \in [1 .. Cardinality(S) -> S],
           \A t \in S : \E k \in DOMAIN order : order[k] = t
    PROVE  /\ Cardinality(S) \in Nat
           /\ \A k, l \in 1 .. Cardinality(S) : order[k] = order[l] => k = l
<1> DEFINE n == Cardinality(S)
<1>1. n \in Nat
  BY FS_CardinalityType
<1> HIDE DEF n
<1>2. order \in Surjection(1 .. n, S)
  BY DEF Surjection, n
<1>3. IsFiniteSet(1 .. n) /\ Cardinality(1 .. n) = n
  <2>1. 1 \in Int /\ n \in Int
    BY <1>1
  <2>2. IsFiniteSet(1 .. n) /\ Cardinality(1 .. n) = IF 1 > n THEN 0 ELSE n - 1 + 1
    BY <2>1, FS_Interval
  <2> QED
    BY <1>1, <2>2
<1>4. order \in Injection(1 .. n, S)
  BY <1>2, <1>3, FS_SurjSameCardinalityImpliesInj DEF n
<1> QED
  BY <1>1, <1>4 DEF Injection, IsInjective, n

(* How often a task is in a family of lists without repetitions.           *)
Positions(I, F, t) == {ck \in UNION {{c} \X DOMAIN F[c] : c \in I} : F[ck[1]][ck[2]] = t}

LEMMA PlacesInLists ==
    ASSUME NEW I, NEW S, NEW F \in [I -> Seq(S)], Once(F), NEW t
    PROVE  Cardinality(Positions(I, F, t)) = IF \E c \in I : Has(F, c, t) THEN 1 ELSE 0
<1> DEFINE P == {ck \in UNION {{c} \X DOMAIN F[c] : c \in I} : F[ck[1]][ck[2]] = t}
<1>p. Positions(I, F, t) = P
  BY DEF Positions
<1>0. \A c \in I : DOMAIN F[c] = 1 .. Len(F[c])
  OBVIOUS
<1>1. CASE \E c \in I : Has(F, c, t)
  <2>0. PICK c \in I : Has(F, c, t)
    BY <1>1
  <2>1. PICK k \in 1 .. Len(F[c]) : F[c][k] = t
    BY <2>0 DEF Has
  <2>2. <<c, k>> \in P
    BY <1>0, <2>1
  <2>3. ASSUME NEW p \in P PROVE p = <<c, k>>
    <3>1. PICK d \in I : p \in {d} \X DOMAIN F[d]
      OBVIOUS
    <3>2. p = <<d, p[2]>> /\ p[1] = d /\ p[2] \in 1 .. Len(F[d]) /\ F[d][p[2]] = t
      BY <1>0, <3>1
    <3>3. d = c /\ p[2] = k
      BY <2>1, <3>2 DEF Once
    <3> QED
      BY <3>2, <3>3
  <2>4. P = {<<c, k>>}
    BY <2>2, <2>3
  <2> QED
    BY <1>1, <1>p, <2>4, OneOrNone
<1>2. CASE ~\E c \in I : Has(F, c, t)
  <2>1. ASSUME NEW p \in P PROVE FALSE
    <3>1. PICK d \in I : p \in {d} \X DOMAIN F[d]
      OBVIOUS
    <3>2. p[1] = d /\ p[2] \in 1 .. Len(F[d]) /\ F[d][p[2]] = t
      BY <1>0, <3>1
    <3> QED
      BY <1>2, <3>2 DEF Has
  <2>2. P = {}
    BY <2>1
  <2> QED
    BY <1>2, <1>p, <2>2, OneOrNone
<1> QED
  BY <1>1, <1>2

-----------------------------------------------------------------------------

(* The first CPU is one.                                                   *)
LEMMA BootIsCpu == BootCpu \in CPU
  BY SchedAssumption, HasMinimum DEF BootCpu

(* The scan of load_balance ends at a busiest and at a laziest CPU.        *)
LEMMA BalancePairIsCpus ==
    ASSUME TypeOK, NEW c \in CPU
    PROVE  BalancePair(c) \in CPU \X CPU
<1> DEFINE n == total_ready_num
           Busiest(d) == \A e \in CPU : n[d] > n[e] \/ (n[d] = n[e] /\ d <= e)
           Laziest(d) == \A e \in CPU : n[d] < n[e] \/ (n[d] = n[e] /\ d <= e)
<1>0. CPU \subseteq Nat /\ CPU # {} /\ IsFiniteSet(CPU) /\ n \in [CPU -> Nat]
      /\ \A d \in CPU : n[d] \in Nat /\ d \in Nat
  BY SchedAssumption, Zenon DEF TypeOK
<1> HIDE DEF n
<1>1. \E d \in CPU : Busiest(d)
  <2> DEFINE M == {d \in CPU : \A e \in CPU : n[e] <= n[d]}
  <2>1. M # {} /\ M \subseteq Nat
    BY <1>0, HasGreatest, Zenon
  <2>2. PICK d \in M : \A e \in M : d <= e
    <3> HIDE DEF M
    <3> QED
      BY <2>1, HasMinimum, Zenon
  <2>3. ASSUME NEW e \in CPU PROVE n[d] > n[e] \/ (n[d] = n[e] /\ d <= e)
    <3>1. CASE e \in M
      <4>1. n[d] <= n[e] /\ n[e] <= n[d]
        BY <3>1
      <4> QED
        BY <1>0, <2>2, <3>1, <4>1
    <3>2. CASE e \notin M
      <4>1. PICK k \in CPU : ~(n[k] <= n[e])
        BY <3>2
      <4>2. n[k] <= n[d]
        OBVIOUS
      <4> QED
        BY <1>0, <4>1, <4>2
    <3> QED
      BY <3>1, <3>2
  <2> QED
    BY <2>3
<1>2. \E d \in CPU : Laziest(d)
  <2> DEFINE V == {n[d] : d \in CPU}
  <2>1. V # {} /\ V \subseteq Nat
    BY <1>0
  <2>2. PICK v \in V : \A w \in V : v <= w
    <3> HIDE DEF V
    <3> QED
      BY <2>1, HasMinimum, Zenon
  <2> DEFINE M == {d \in CPU : n[d] = v}
  <2>3. M # {} /\ M \subseteq Nat
    BY <1>0, Zenon
  <2>4. PICK d \in M : \A e \in M : d <= e
    <3> HIDE DEF M
    <3> QED
      BY <2>3, HasMinimum, Zenon
  <2>5. ASSUME NEW e \in CPU PROVE n[d] < n[e] \/ (n[d] = n[e] /\ d <= e)
    <3>1. n[d] = v /\ v <= n[e] /\ n[e] \in Nat /\ v \in Nat
      BY <1>0, <2>2
    <3>2. n[e] = v => d <= e
      BY <2>4
    <3> QED
      BY <3>1, <3>2
  <2> QED
    BY <2>5
<1> DEFINE busiest == CHOOSE d \in CPU : Busiest(d)
           laziest == CHOOSE d \in CPU : Laziest(d)
<1>3. busiest \in CPU /\ laziest \in CPU
  BY <1>1, <1>2
<1>4. BalancePair(c) \in {<<c, c>>, <<c, laziest>>, <<busiest, c>>}
  BY DEF BalancePair, n
<1> HIDE DEF busiest, laziest
<1> QED
  BY <1>3, <1>4

-----------------------------------------------------------------------------
(* The invariant holds when task_init is done, and every step keeps it.    *)
LEMMA InitHolds ==
    ASSUME Init
    PROVE  SInv
<1> USE SchedAssumption
<1>b. BootCpu \in CPU
  BY BootIsCpu
<1> DEFINE n == Cardinality(Born)
<1>1. PICK order \in [1 .. n -> Born] :
         /\ \A t \in Born : \E k \in DOMAIN order : order[k] = t
         /\ ready_list = [c \in CPU |-> IF c = BootCpu THEN order ELSE <<>>]
  BY Zenon DEF Init
<1>2. n \in Nat
  BY <1>1, OrderedOnce, Zenon
<1>3. \A k, l \in 1 .. n : order[k] = order[l] => k = l
  BY <1>1, OrderedOnce, Zenon
<1> HIDE DEF n
<1>4. order \in Seq(Task) /\ Len(order) = n
  <2>1. order \in [1 .. n -> Task]
    BY <1>1
  <2> QED
    BY <1>2, <2>1
<1>5. <<>> \in Seq(Task) /\ Len(<<>>) = 0
  OBVIOUS
<1>6. /\ ready_list \in [CPU -> Seq(Task)] /\ Once(ready_list)
      /\ \A c \in CPU : \A t : Has(ready_list, c, t) <=> c = BootCpu /\ t \in Born
  <2>1. /\ ready_list \in [CPU -> Seq(Task)] /\ ready_list[BootCpu] = order
        /\ \A c \in CPU \ {BootCpu} : ready_list[c] = <<>>
    BY <1>b, <1>1, <1>4, <1>5
  <2>2. Once(ready_list)
    BY <1>2, <1>3, <1>4, <1>5, <2>1 DEF Once
  <2>3. \A t : Has(ready_list, BootCpu, t) <=> t \in Born
    <3>1. DOMAIN order = 1 .. Len(order)
      BY <1>1, <1>4
    <3>2. \A t : Has(ready_list, BootCpu, t) <=> \E k \in DOMAIN order : order[k] = t
      BY <2>1, <3>1 DEF Has
    <3>3. \A k \in DOMAIN order : order[k] \in Born
      BY <1>1
    <3> QED
      BY <1>1, <3>2, <3>3
  <2>4. \A c \in CPU \ {BootCpu} : \A t : ~Has(ready_list, c, t)
    BY <1>5, <2>1 DEF Has
  <2> QED
    BY <2>1, <2>2, <2>3, <2>4
<1>7. /\ wait_list \in [Queue -> Seq(Task)] /\ Once(wait_list)
      /\ \A q \in Queue : \A t : ~Has(wait_list, q, t)
  <2>1. wait_list = [q \in Queue |-> <<>>]
    BY DEF Init
  <2> QED
    BY <1>5, <2>1 DEF Once, Has
<1>e. /\ now_running = Idle /\ stack = Idle /\ rlock = [c \in CPU |-> FALSE]
      /\ wlock = [q \in Queue |-> None]
      /\ state = [t \in AnyTask |-> IF t \in Born THEN "READY"
                                    ELSE IF t \in Task THEN "UNBORN" ELSE "RUNNING"]
      /\ preempt_count = [t \in AnyTask |-> 0] /\ saved = [t \in AnyTask |-> t \in Task]
      /\ pc = [t \in AnyTask |-> "run"]
      /\ arg = [t \in AnyTask |-> None] /\ hand = [t \in AnyTask |-> None]
      /\ many = [t \in AnyTask |-> FALSE] /\ idread = [t \in AnyTask |-> BootCpu]
      /\ phase = [c \in CPU |-> "exec"]
      /\ bal = [c \in CPU |-> <<c, c>>] /\ relq = [c \in CPU |-> None]
  BY DEF Init
<1>8. total_ready_num \in [CPU -> Nat] /\ \A c \in CPU : total_ready_num[c] = Len(ready_list[c])
  <2>1. \A c \in CPU : Len(ready_list[c]) \in Nat
    BY <1>6, ListLength
  <2> QED
    BY <2>1 DEF Init
<1>9. cpuid \in [AnyTask -> CPU]
  <2> DEFINE Owner(t) == CHOOSE c \in CPU : Idle[c] = t
  <2>1. cpuid = [t \in AnyTask |-> IF t \in Task THEN BootCpu ELSE Owner(t)]
    BY DEF Init
  <2>2. ASSUME NEW t \in AnyTask \ Task PROVE Owner(t) \in CPU
    <3>1. \E c \in CPU : Idle[c] = t
      BY DEF AnyTask
    <3> QED
      BY <3>1
  <2> HIDE DEF Owner
  <2> QED
    BY <1>b, <2>1, <2>2
<1>a. \A c \in CPU : Idle[c] \in AnyTask
  BY DEF AnyTask
<1>c. None \notin AnyTask
  BY DEF AnyTask
<1>t. TypeOK
  <2>1. now_running \in [CPU -> AnyTask] /\ stack \in [CPU -> AnyTask \cup {None}]
    BY <1>e, <1>a
  <2>2. /\ rlock \in [CPU -> BOOLEAN] /\ wlock \in [Queue -> Task \cup {None}]
        /\ phase \in [CPU -> Phases] /\ bal \in [CPU -> CPU \X CPU] /\ relq \in [CPU -> Queue \cup {None}]
    BY <1>e DEF Phases
  <2>3. /\ state \in [AnyTask -> {"UNBORN", "READY", "RUNNING", "SLEEP"}]
        /\ preempt_count \in [AnyTask -> Int] /\ saved \in [AnyTask -> BOOLEAN]
        /\ pc \in [AnyTask -> Places] /\ arg \in [AnyTask -> Queue \cup {None}]
        /\ hand \in [AnyTask -> Task \cup {None}]
        /\ many \in [AnyTask -> BOOLEAN] /\ idread \in [AnyTask -> CPU]
    BY <1>e, <1>b DEF Places
  <2> QED
    BY <1>6, <1>7, <1>8, <1>9, <2>1, <2>2, <2>3, ZenonT(30) DEF TypeOK
<1>s. Stacks
  <2>1. \A t \in AnyTask : saved[t] <=> \A c \in CPU : stack[c] # t
    <3>1. \A t \in AnyTask : saved[t] <=> t \in Task
      BY <1>e, Zenon
    <3>2. \A t \in AnyTask : t \in Task <=> \A c \in CPU : Idle[c] # t
      BY DEF AnyTask
    <3> QED
      BY <1>e, <3>1, <3>2
  <2> QED
    BY <1>e, <2>1 DEF Stacks, Gone
<1>o. Code
  BY <1>e DEF Code, Off
<1>p. Placed
  <2>1. \A t \in Task : pc[t] = "run" /\ (\A c \in CPU : now_running[c] # t) /\ \A u \in AnyTask : hand[u] # t
    BY <1>e DEF AnyTask
  <2>2. \A t \in Task : state[t] = IF t \in Born THEN "READY" ELSE "UNBORN"
    BY <1>e DEF AnyTask
  <2>3. \A u \in AnyTask : hand[u] = None
    BY <1>e
  <2> QED
    BY <1>6, <1>7, <1>8, <1>b, <2>1, <2>2, <2>3 DEF Placed
<1>r. ReadyLocks
  BY <1>e DEF ReadyLocks
<1>q. QueueLocks
  <2>1. \A t \in Task : pc[t] \notin Holding
    BY <1>e DEF AnyTask, Holding
  <2>2. \A c \in CPU : relq[c] = None /\ phase[c] = "exec"
    BY <1>e
  <2>3. \A q \in Queue : wlock[q] = None /\ q # None
    BY <1>e
  <2> QED
    BY <2>1, <2>2, <2>3 DEF QueueLocks
<1>l. Leaving
  BY <1>e DEF Leaving
<1> QED
  BY <1>t, <1>s, <1>o, <1>p, <1>r, <1>q, <1>l, Zenon DEF SInv

LEMMA StepKeeps ==
    ASSUME SInv, [Next]_vars
    PROVE  SInv'
<1>1. CASE UNCHANGED vars
  <2>1. UNCHANGED <<now_running, stack, ready_list, total_ready_num, rlock, phase, bal, relq, state,
                    cpuid, preempt_count, saved, pc, arg, many, idread, hand, wait_list, wlock>>
    BY <1>1 DEF vars, moving, cpuVars, taskVars, args, wqVars
  <2>2. TypeOK'
    BY <2>1, Zenon DEF SInv, TypeOK
  <2>3. Stacks' /\ Code'
    BY <2>1 DEF SInv, Stacks, Code
  <2>4. Placed'
    BY <2>1 DEF SInv, Placed
  <2>5. ReadyLocks' /\ QueueLocks' /\ Leaving'
    BY <2>1 DEF SInv, ReadyLocks, QueueLocks, Leaving
  <2> QED
    BY <2>2, <2>3, <2>4, <2>5 DEF SInv
<1>2. ASSUME NEW c \in CPU, Switch(c) PROVE SInv'
  BY <1>2, SwitchSaveKeeps, SwitchUnlockKeeps, SwitchUnlockQueueKeeps, SwitchLoadKeeps DEF Switch
<1>3. ASSUME NEW c \in CPU, Timer(c) PROVE SInv'
  <2>1. BalancePair(c) \in CPU \X CPU
    BY BalancePairIsCpus DEF SInv
  <2> QED
    BY <1>3, <2>1, TickKeeps, BalanceLockKeeps, BalanceKeeps, TickReturnKeeps, TickPreemptKeeps DEF Timer
<1>4. ASSUME NEW c \in CPU, NEW t \in Task, Start(c, t) PROVE SInv'
  BY <1>4, YieldStartKeeps, SleepStartKeeps, WakeStartKeeps, SpawnKeeps DEF Start
<1>5. ASSUME NEW c \in CPU, NEW t \in Task, Finish(c, t) PROVE SInv'
  BY <1>5, BootIsCpu, YieldKeeps, SleepEnqueueKeeps, SleepSwitchKeeps, WakeDisableKeeps, WakeLockKeeps,
     WakePopKeeps, WakePutKeeps, WakeUnlockKeeps, ZenonT(30) DEF Finish
<1> QED
  BY <1>1, <1>2, <1>3, <1>4, <1>5, ZenonT(30) DEF Next

LEMMA SchedInvariant == Spec => []SInv
<1>1. Init => SInv
  BY InitHolds
<1>2. SInv /\ [Next]_vars => SInv'
  BY StepKeeps
<1> QED
  BY <1>1, <1>2, PTL DEF Spec

-----------------------------------------------------------------------------
(* What follows from it.                                                   *)

LEMMA PlacesOfTask ==
    ASSUME SInv, NEW t \in Task
    PROVE  /\ Cardinality(OnCpu(t)) = IF \E c \in CPU : now_running[c] = t THEN 1 ELSE 0
           /\ Cardinality(InReady(t)) = IF \E c \in CPU : Has(ready_list, c, t) THEN 1 ELSE 0
           /\ Cardinality(InHand(t)) = IF \E u \in AnyTask : hand[u] = t THEN 1 ELSE 0
           /\ Cardinality(InWait(t)) = IF \E q \in Queue : Has(wait_list, q, t) THEN 1 ELSE 0
<1>0. t # None
  BY SchedAssumption
<1>1. /\ ready_list \in [CPU -> Seq(Task)] /\ Once(ready_list)
      /\ wait_list \in [Queue -> Seq(Task)] /\ Once(wait_list)
  BY DEF SInv, TypeOK, Placed
<1>2. Cardinality(InReady(t)) = IF \E c \in CPU : Has(ready_list, c, t) THEN 1 ELSE 0
  <2>1. InReady(t) = Positions(CPU, ready_list, t)
    BY DEF InReady, Positions
  <2> QED
    BY <1>1, <2>1, PlacesInLists
<1>3. Cardinality(InWait(t)) = IF \E q \in Queue : Has(wait_list, q, t) THEN 1 ELSE 0
  <2>1. InWait(t) = Positions(Queue, wait_list, t)
    BY DEF InWait, Positions
  <2> QED
    BY <1>1, <2>1, PlacesInLists
<1>4. Cardinality(OnCpu(t)) = IF \E c \in CPU : now_running[c] = t THEN 1 ELSE 0
  <2>1. CASE \E c \in CPU : now_running[c] = t
    <3>1. PICK c \in CPU : now_running[c] = t
      BY <2>1
    <3>2. OnCpu(t) = {c}
      BY <3>1 DEF OnCpu, SInv, Stacks
    <3> QED
      BY <2>1, <3>2, OneOrNone, Zenon
  <2>2. CASE ~\E c \in CPU : now_running[c] = t
    <3>1. OnCpu(t) = {}
      BY <2>2 DEF OnCpu
    <3> QED
      BY <2>2, <3>1, OneOrNone
  <2> QED
    BY <2>1, <2>2
<1>5. Cardinality(InHand(t)) = IF \E u \in AnyTask : hand[u] = t THEN 1 ELSE 0
  <2>1. CASE \E u \in AnyTask : hand[u] = t
    <3>1. PICK u \in AnyTask : hand[u] = t
      BY <2>1
    <3>2. InHand(t) = {u}
      BY <1>0, <3>1 DEF InHand, SInv, Placed
    <3> QED
      BY <2>1, <3>2, OneOrNone, Zenon
  <2>2. CASE ~\E u \in AnyTask : hand[u] = t
    <3>1. InHand(t) = {}
      BY <2>2 DEF InHand
    <3> QED
      BY <2>2, <3>1, OneOrNone
  <2> QED
    BY <2>1, <2>2
<1> QED
  BY <1>2, <1>3, <1>4, <1>5

(* Every variable of the CPU table, the pcbs and the wait queues keeps its *)
(* type: no step of the scheduler indexes a table outside of it.           *)
THEOREM SchedTypes == Spec => []TypeOK
<1>1. SInv => TypeOK
  BY DEF SInv
<1> QED
  BY <1>1, SchedInvariant, PTL

(* However many CPUs, tasks and queues there are, schedule, the timer with *)
(* its load balancing, sleep_on, wake_up_* and the creation of a task      *)
(* neither lose a task nor put it into two places, and total_ready_num is  *)
(* the length of the ready list.                                           *)
THEOREM TasksStayInOnePlace == Spec => []OnePlace
<1>1. SInv => OnePlace
  <2> SUFFICES ASSUME SInv PROVE OnePlace
    OBVIOUS
  <2>1. ASSUME NEW t \in Task
        PROVE  <<Cardinality(OnCpu(t)), Cardinality(InReady(t)) + Cardinality(InHand(t)),
                 Cardinality(InWait(t))>>
               = CASE state[t] = "UNBORN"  -> <<0, 0, 0>>
                   [] state[t] = "RUNNING" -> <<1, 0, 0>>
                   [] state[t] = "READY"   -> <<0, 1, 0>>
                   [] state[t] = "SLEEP" /\ pc[t] # "sleep_switch" -> <<0, 0, 1>>
                   [] state[t] = "SLEEP" /\ pc[t] = "sleep_switch" -> <<1, 0, 1>>
    <3>1. state[t] \in {"UNBORN", "READY", "RUNNING", "SLEEP"}
      BY DEF SInv, TypeOK, AnyTask
    <3>2. /\ state[t] = "READY" <=>
                (\E c \in CPU : Has(ready_list, c, t)) \/ (\E u \in AnyTask : hand[u] = t)
          /\ state[t] = "SLEEP" <=> \E q \in Queue : Has(wait_list, q, t)
          /\ (\E c \in CPU : now_running[c] = t) <=>
                state[t] = "RUNNING" \/ (state[t] = "SLEEP" /\ pc[t] = "sleep_switch")
      BY DEF SInv, Placed
    <3>3. ~((\E c \in CPU : Has(ready_list, c, t)) /\ (\E u \in AnyTask : hand[u] = t))
      BY SchedAssumption DEF SInv, Placed
    <3>4. /\ Cardinality(OnCpu(t)) = IF \E c \in CPU : now_running[c] = t THEN 1 ELSE 0
          /\ Cardinality(InReady(t)) = IF \E c \in CPU : Has(ready_list, c, t) THEN 1 ELSE 0
          /\ Cardinality(InHand(t)) = IF \E u \in AnyTask : hand[u] = t THEN 1 ELSE 0
          /\ Cardinality(InWait(t)) = IF \E q \in Queue : Has(wait_list, q, t) THEN 1 ELSE 0
      BY PlacesOfTask
    <3>5. CASE state[t] = "UNBORN"
      BY <3>2, <3>4, <3>5
    <3>6. CASE state[t] = "RUNNING"
      BY <3>2, <3>4, <3>6
    <3>7. CASE state[t] = "READY"
      BY <3>2, <3>3, <3>4, <3>7
    <3>8. CASE state[t] = "SLEEP"
      BY <3>2, <3>4, <3>8
    <3> QED
      BY <3>1, <3>5, <3>6, <3>7, <3>8
  <2>2. \A c \in CPU : total_ready_num[c] = Len(ready_list[c])
    BY DEF SInv, Placed
  <2> QED
    BY <2>1, <2>2 DEF OnePlace
<1> QED
  BY <1>1, SchedInvariant, PTL

(* A CPU loads a kernel stack only when the CPU that left it has stored    *)
(* the whole context, and no two CPUs push on one stack: the order store   *)
(* rsp, unlock the ready list, unlock the queue of task_switch_unlock and  *)
(* task_switch_double_unlock is enough for any number of CPUs.             *)
THEOREM ContextsAreSaved == Spec => []ContextSaved
<1>1. SInv => ContextSaved
  <2> SUFFICES ASSUME SInv PROVE ContextSaved
    OBVIOUS
  <2>1. \A c \in CPU : phase[c] = "load" => saved[now_running[c]]
    BY ContextOfNext DEF Gone
  <2>2. \A c, d \in CPU : c # d /\ stack[c] # None => stack[c] # stack[d]
    BY DEF SInv, Stacks
  <2> QED
    BY <2>1, <2>2 DEF ContextSaved
<1> QED
  BY <1>1, SchedInvariant, PTL

-----------------------------------------------------------------------------
(* The nesting of preempt_disable, and what follows from it: a spin lock   *)
(* of a wait queue is held by a task that is on a CPU.                     *)
LEMMA StepCounts ==
    ASSUME SInv, Counted, [Next]_vars
    PROVE  Counted'
<1>t. phase \in [CPU -> Phases] /\ relq \in [CPU -> Queue \cup {None}]
  BY Zenon DEF SInv, TypeOK
<1>1. CASE UNCHANGED vars
  BY <1>1 DEF Counted, CountedTask, CountedSave, vars, moving, cpuVars, taskVars, args
<1>2. ASSUME UNCHANGED world, NEW c \in CPU, Switch(c) \/ Timer(c) PROVE Counted'
  <2>1. CASE SwitchUnlock(c) \/ BalanceLock(c) \/ TickReturn(c) \/ Balance(c)
    <3>1. UNCHANGED <<pc, preempt_count, idread, stack, relq>>
      BY <2>1, ZenonT(30) DEF SwitchUnlock, BalanceLock, TickReturn, Balance, taskVars, args
    <3>2. \A d \in CPU : phase'[d] = "save" <=> phase[d] = "save"
      BY <1>t, <2>1, ZenonT(30) DEF SwitchUnlock, BalanceLock, TickReturn, Balance
    <3>3. \A d \in CPU : phase[d] = "exec" => phase'[d] = "exec"
      BY <1>t, <2>1, Zenon DEF SwitchUnlock, BalanceLock, TickReturn, Balance
    <3> QED
      BY <1>2, <3>1, <3>2, <3>3, PhaseStepCounts
  <2>2. CASE SwitchUnlockQueue(c)
    <3>1. UNCHANGED <<pc, preempt_count, idread, stack>>
      BY <2>2 DEF SwitchUnlockQueue, taskVars, args
    <3>2. \A d \in CPU : /\ phase'[d] = "save" <=> phase[d] = "save"
                         /\ phase[d] = "exec" => phase'[d] = "exec"
                         /\ phase[d] = "save" => relq'[d] = relq[d]
      BY <1>t, <2>2 DEF SwitchUnlockQueue
    <3> QED
      BY <1>2, <3>1, <3>2, PhaseStepCounts
  <2> QED
    BY <1>2, <2>1, <2>2, SwitchSaveCounts, SwitchLoadCounts, TickCounts, LeavingActionsCount
    DEF Switch, Timer
<1>3. ASSUME UNCHANGED world, NEW c \in CPU, NEW t \in Task, Start(c, t) \/ Finish(c, t)
      PROVE  Counted'
  BY <1>3, OwnActionsCount, LeavingActionsCount DEF Finish
<1> QED
  BY <1>1, <1>2, <1>3 DEF Next

LEMMA CountedInvariant == Spec => []Counted
<1>1. Init => Counted
  <2> SUFFICES ASSUME Init PROVE Counted
    OBVIOUS
  <2>1. /\ \A t \in AnyTask : pc[t] = "run" /\ preempt_count[t] = 0
        /\ \A c \in CPU : phase[c] = "exec"
    BY DEF Init
  <2> QED
    BY <2>1 DEF Counted, CountedTask, CountedSave, Depth
<1>2. SInv /\ Counted /\ [Next]_vars => Counted'
  BY StepCounts
<1> QED
  BY <1>1, <1>2, SchedInvariant, PTL DEF Spec

(* What a CPU that spins on a lock and holds another one is doing.         *)
LEMMA WaitingHolders ==
    ASSUME SInv, Counted, ~world.race, NEW d \in CPU, Wants(d) # {}
    PROVE  /\ \A e \in CPU : <<"r", e>> \in Holds(d) =>
                 phase[d] = "balance_2" /\ e = FirstLock(bal[d])
           /\ \A q \in Queue : <<"w", q>> \in Holds(d) =>
                 \E e : Wants(d) = {<<"r", e>>}
<1> USE SchedAssumption
<1>0. phase[d] \in Quiet
  BY DEF Wants, SInv, TypeOK, Phases, Quiet
<1>1. \A e \in CPU : <<"r", e>> \in Holds(d) => phase[d] = "balance_2" /\ e = FirstLock(bal[d])
  BY <1>0 DEF Holds, Quiet
<1>2. ASSUME NEW q \in Queue, <<"w", q>> \in Holds(d)
      PROVE  \E e : Wants(d) = {<<"r", e>>}
  <2>1. relq[d] = None
    BY <1>0 DEF SInv, QueueLocks, Quiet
  <2>2. wlock[q] # None /\ stack[d] = wlock[q]
    BY <1>2, <2>1 DEF Holds
  <2> DEFINE u == wlock[q]
  <2>3. u \in Task /\ u \in AnyTask /\ now_running[d] = u
    BY <1>0, <2>2 DEF SInv, TypeOK, Stacks, AnyTask
  <2>4. pc[u] \in Holding
    <3>1. CASE \E c \in CPU : relq[c] = q
      <4>1. Has(wait_list, q, u)
        BY <3>1 DEF SInv, QueueLocks
      <4>2. state[u] = "SLEEP"
        BY <2>3, <4>1 DEF SInv, Placed
      <4> QED
        BY <2>3, <4>2 DEF SInv, Placed, Holding
    <3>2. CASE ~\E c \in CPU : relq[c] = q
      BY <2>2, <3>2 DEF SInv, QueueLocks
    <3> QED
      BY <3>1, <3>2
  <2>5. phase[d] = "exec"
    <3>1. PICK c \in CPU : phase[c] = "exec" /\ stack[c] = u
      BY <2>3, <2>4 DEF Counted, CountedTask, Holding
    <3>2. c = d
      BY <2>2, <2>3, <3>1 DEF SInv, Stacks
    <3> QED
      BY <3>1, <3>2
  <2>6. Wants(d) = {<<"r", d>>} \/ Wants(d) = {<<"r", cpuid[hand[u]]>>} \/ Wants(d) = {}
    BY <2>2, <2>4, <2>5 DEF Wants, Holding
  <2> QED
    BY <2>6, Zenon
<1> QED
  BY <1>1, <1>2, Zenon

(* As long as get_current is not interrupted between its two reads, a task *)
(* that holds a wait queue's spinlock is never back on a ready list, and   *)
(* no ring of CPUs spins, each on a lock another one holds: wait queue     *)
(* before ready list, ready lists in address order (tasks_travel), timer   *)
(* handler without locks.                                                  *)
THEOREM LocksAreHeldSafely ==
    Spec => [](~world.race => SpinHolderNotPreempted /\ NoCircularWait)
<1>1. SInv /\ Counted /\ ~world.race => SpinHolderNotPreempted
  <2> SUFFICES ASSUME SInv, Counted, ~world.race, NEW q \in Queue, wlock[q] # None
               PROVE  state[wlock[q]] # "READY"
    BY DEF SpinHolderNotPreempted
  <2> DEFINE u == wlock[q]
  <2>1. u \in Task /\ u \in AnyTask
    BY DEF SInv, TypeOK, AnyTask
  <2>2. CASE pc[u] \in Holding
    <3>1. PICK c \in CPU : phase[c] = "exec" /\ stack[c] = u
      BY <2>1, <2>2 DEF Counted, CountedTask, Holding
    <3>2. now_running[c] = u
      BY <3>1 DEF SInv, Stacks, Quiet
    <3> QED
      BY <2>1, <3>2 DEF SInv, Placed
  <2>3. CASE pc[u] \notin Holding
    <3>1. PICK c \in CPU : relq[c] = q
      BY <2>3 DEF SInv, QueueLocks
    <3>2. Has(wait_list, q, u)
      BY <3>1 DEF SInv, QueueLocks
    <3> QED
      BY <2>1, <3>2 DEF SInv, Placed
  <2> QED
    BY <2>2, <2>3
<1>2. SInv /\ Counted /\ ~world.race => NoCircularWait
  <2> SUFFICES ASSUME SInv, Counted, ~world.race, NEW S \in (SUBSET CPU) \ {{}},
                      \A c \in S : \E d \in S : Wants(c) \cap Holds(d) # {}
               PROVE  FALSE
    BY DEF NoCircularWait
  <2> USE SchedAssumption
  <2>0. S \subseteq CPU /\ S # {} /\ \A d \in S : d \in CPU /\ Wants(d) # {}
    <3>1. S \in SUBSET CPU /\ S # {}
      OBVIOUS
    <3>2. ASSUME NEW d \in S PROVE Wants(d) # {}
      <4>1. PICK e \in S : Wants(d) \cap Holds(e) # {}
        OBVIOUS
      <4> QED
        BY <4>1
    <3> QED
      BY <3>1, <3>2
  <2>t. TypeOK
    BY DEF SInv
  <2> DEFINE B == {d \in S : phase[d] = "balance_2"}
  <2>1. \A c \in S : \A e : Wants(c) = {<<"r", e>>} => \E d \in B : e = FirstLock(bal[d])
    <3> SUFFICES ASSUME NEW c \in S, NEW e, Wants(c) = {<<"r", e>>}
                 PROVE  \E d \in B : e = FirstLock(bal[d])
      OBVIOUS
    <3>1. PICK d \in S : <<"r", e>> \in Holds(d)
      OBVIOUS
    <3>2. e \in CPU
      BY <2>0, <3>1 DEF Holds
    <3> QED
      BY <2>0, <3>1, <3>2, WaitingHolders
  <2>2. B # {}
    <3>1. PICK c \in S : TRUE
      BY <2>0
    <3>2. PICK d \in S : Wants(c) \cap Holds(d) # {}
      OBVIOUS
    <3>3. PICK l \in Holds(d) : TRUE
      BY <3>2
    <3>4. (\E e \in CPU : l = <<"r", e>>) \/ (\E q \in Queue : l = <<"w", q>>)
      BY DEF Holds
    <3>5. CASE \E e \in CPU : l = <<"r", e>>
      BY <2>0, <3>3, <3>5, WaitingHolders
    <3>6. CASE \E q \in Queue : l = <<"w", q>>
      <4>0. PICK q \in Queue : <<"w", q>> \in Holds(d)
        BY <3>3, <3>6
      <4>1. \E e : Wants(d) = {<<"r", e>>}
        BY <2>0, <4>0, WaitingHolders
      <4> QED
        BY <2>1, <4>1
    <3> QED
      BY <3>4, <3>5, <3>6
  <2> DEFINE f == [d \in B |-> SecondLock(bal[d])]
  <2>3. \A d \in B : /\ d \in CPU /\ FirstLock(bal[d]) \in Nat /\ SecondLock(bal[d]) \in Nat
                     /\ FirstLock(bal[d]) < SecondLock(bal[d])
    <3> SUFFICES ASSUME NEW d \in B
                 PROVE  /\ d \in CPU /\ FirstLock(bal[d]) \in Nat /\ SecondLock(bal[d]) \in Nat
                        /\ FirstLock(bal[d]) < SecondLock(bal[d])
      OBVIOUS
    <3>1. d \in CPU /\ phase[d] = "balance_2"
      OBVIOUS
    <3>2. bal[d][1] # bal[d][2]
      BY <3>1 DEF SInv, ReadyLocks
    <3> QED
      BY <2>t, <3>1, <3>2, LockIsCpu
  <2>4. PICK x \in B : \A y \in B : f[y] <= f[x]
    <3>1. IsFiniteSet(B)
      BY <2>0, FS_Subset, Zenon
    <3>2. f \in [B -> Nat]
      BY <2>3
    <3> HIDE DEF f, B
    <3> QED
      BY <2>2, <3>1, <3>2, HasGreatest
  <2>5. Wants(x) = {<<"r", SecondLock(bal[x])>>}
    BY DEF Wants
  <2>6. PICK d \in B : SecondLock(bal[x]) = FirstLock(bal[d])
    BY <2>1, <2>5
  <2>7. SecondLock(bal[d]) <= SecondLock(bal[x])
    BY <2>4
  <2> QED
    BY <2>3, <2>6, <2>7
<1> QED
  BY <1>1, <1>2, SchedInvariant, CountedInvariant, PTL
=============================================================================
