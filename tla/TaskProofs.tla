----------------------------- MODULE TaskProofs ------------------------------
(* The family tree and the mutex, for every set of tasks.                  *)
EXTENDS Mutex, TaskLife, Lists

(* The family tree.                                                        *)

Late    == {"find_parent", "wake", "leave", "gone"}       \* a zombie, or hit by a tick
Exiting == {"status", "zombie"} \cup Late
Reaped(c) == freed[c] \/ InHand(c)

(* The childs lists hold exactly the tasks that were born and not reaped,  *)
(* each in its parent's list.  A task in sys_exit has no children left.    *)
Listed ==
    /\ Once(childs)
    /\ \A c \in Proc : /\ (\E p \in Any : Has(childs, p, c)) <=> state[c] # "NONE" /\ ~Reaped(c)
                       /\ \A p \in Any : Has(childs, p, c) => parent[c] = p
    /\ \A p \in Any : at[p] \in Exiting => childs[p] = <<>>

(* init does not exit; a zombie, and whoever is reaped, is past the store  *)
(* of its state in sys_exit; waitpid has a child in hand until it frees it.*)
Lives ==
    /\ at[init] \notin Exiting
    /\ \A p \in Any : /\ state[p] = "NONE" => at[p] = "run"
                      /\ state[p] = "ZOMBIE" => at[p] \in Late
                      /\ Reaped(p) => at[p] \in Late
                      /\ got[p] # <<>> <=> at[p] = "free"

(* exit_status is the argument of sys_exit from its store on.              *)
Statuses ==
    \A p \in Any : /\ at[p] \in Exiting => code[p] \in Codes
                   /\ at[p] \in Exiting \ {"status"} => exit_status[p] = code[p]
                   /\ got[p] # <<>> => got[p][2] = code[got[p][1]]

LInv == LifeTypeOK /\ Listed /\ Lives /\ Statuses

(* A step of one task that moves nobody between lists.                     *)
LEMMA OwnPlaceKeeps ==
    ASSUME LInv, NEW p \in Any, LifeTypeOK', UNCHANGED <<parent, childs, freed, got, code>>,
           \A q \in Any \ {p} : at'[q] = at[q] /\ state'[q] = state[q] /\ exit_status'[q] = exit_status[q],
           state'[p] = "NONE" <=> state[p] = "NONE", state[p] = "NONE" => at'[p] = "run",
           at'[p] \in Exiting <=> at[p] \in Exiting, at[p] \in Late => at'[p] \in Late,
           state'[p] = "ZOMBIE" => at'[p] \in Late, at'[p] # "free", at[p] # "free",
           at'[p] \in Exiting \ {"status"} => exit_status'[p] = code[p]
    PROVE  LInv'
<1>1. \A q \in Any : /\ Reaped(q)' <=> Reaped(q)
                     /\ state'[q] = "NONE" <=> state[q] = "NONE"
                     /\ at'[q] \in Exiting <=> at[q] \in Exiting
                     /\ at[q] \in Late => at'[q] \in Late
  BY DEF Reaped, InHand
<1>2. Listed'
  <2>1. \A c \in Proc : c \in Any
    BY DEF Any
  <2> QED
    BY <1>1, <2>1 DEF LInv, Listed
<1>3. Lives'
  <2>1. init \in Any
    BY DEF Any
  <2>2. at'[init] \notin Exiting
    BY <1>1, <2>1 DEF LInv, Lives
  <2>3. ASSUME NEW q \in Any
        PROVE  /\ state'[q] = "NONE" => at'[q] = "run"
               /\ state'[q] = "ZOMBIE" => at'[q] \in Late
               /\ Reaped(q)' => at'[q] \in Late
               /\ got'[q] # <<>> <=> at'[q] = "free"
    BY <1>1 DEF LInv, Lives
  <2> QED
    BY <2>2, <2>3 DEF Lives
<1>4. Statuses'
  BY <1>1 DEF LInv, Statuses
<1> QED
  BY <1>2, <1>3, <1>4 DEF LInv

(* The steps of sys_exit after the hand-over, the timer tick, and those of *)
(* sys_waitpid around its scan.                                            *)
LEMMA PlaceStepsKeep ==
    ASSUME LInv, NEW p \in Any,
           \/ ExitStatus(p) \/ ExitZombie(p) \/ ExitFindParent(p) \/ ExitWake(p) \/ ExitLeave(p)
           \/ ExitTick(p) \/ WaitSleep(p) \/ WaitAgain(p)
           \/ (\E pid \in Proc \cup {AnyPid} : WaitCall(p, pid))
    PROVE  LInv'
<1>t. LifeTypeOK
  BY SMTT(30) DEF LInv
<1>0. /\ state[p] = "NONE" => at[p] = "run"
      /\ state[p] = "ZOMBIE" => at[p] \in Late
      /\ at[p] \in Exiting \ {"status"} => exit_status[p] = code[p]
  BY SMTT(30) DEF LInv, Lives, Statuses
<1>1. CASE ExitStatus(p)
  <2>1. LifeTypeOK'
    <3>1. code[p] \in Codes \cup {Unset}
      BY <1>t, Zenon DEF LifeTypeOK
    <3> QED
      BY <1>t, <1>1, <3>1, Zenon DEF LifeTypeOK, ExitStatus, Reach
  <2>2. /\ at[p] = "status" /\ at'[p] = "zombie" /\ exit_status'[p] = code[p]
        /\ \A q \in Any \ {p} : at'[q] = at[q] /\ exit_status'[q] = exit_status[q]
        /\ UNCHANGED <<state, parent, childs, freed, got, code>>
    BY <1>t, <1>1, SMTT(30) DEF LifeTypeOK, ExitStatus, Reach
  <2> QED
    BY <1>0, <2>1, <2>2, OwnPlaceKeeps DEF Exiting, Late
<1>2. CASE ExitZombie(p)
  <2>1. LifeTypeOK'
    BY <1>t, <1>2, Zenon DEF LifeTypeOK, ExitZombie, Reach
  <2>2. /\ at[p] = "zombie" /\ at'[p] = "find_parent" /\ state'[p] = "ZOMBIE"
        /\ \A q \in Any \ {p} : at'[q] = at[q] /\ state'[q] = state[q]
        /\ UNCHANGED <<exit_status, parent, childs, freed, got, code>>
    BY <1>t, <1>2 DEF LifeTypeOK, ExitZombie, Reach
  <2> QED
    BY <1>0, <2>1, <2>2, OwnPlaceKeeps, Zenon DEF Exiting, Late
<1>3. CASE ExitFindParent(p) \/ ExitWake(p) \/ ExitLeave(p)
  <2>1. LifeTypeOK'
    <3>1. parent[p] \in Any /\ tgt[p] \in Any
      BY <1>t, Zenon DEF LifeTypeOK
    <3>2. CASE ExitFindParent(p)
      BY <1>t, <3>1, <3>2, Zenon DEF LifeTypeOK, ExitFindParent, Reach
    <3>3. CASE ExitWake(p)
      BY <1>t, <3>1, <3>3, Zenon DEF LifeTypeOK, ExitWake, Reach
    <3>4. CASE ExitLeave(p)
      BY <1>t, <3>4, Zenon DEF LifeTypeOK, ExitLeave, Reach
    <3> QED
      BY <1>3, <3>2, <3>3, <3>4, Zenon
  <2>2. /\ at[p] \in Late /\ at'[p] \in Late
        /\ \A q \in Any \ {p} : at'[q] = at[q]
        /\ UNCHANGED <<state, exit_status, parent, childs, freed, got, code>>
    BY <1>t, <1>3, SMTT(30) DEF LifeTypeOK, ExitFindParent, ExitWake, ExitLeave, Reach, Late
  <2> QED
    BY <1>0, <2>1, <2>2, OwnPlaceKeeps DEF Exiting, Late
<1>4. CASE ExitTick(p)
  <2>1. LifeTypeOK'
    BY <1>t, <1>4, Zenon DEF LifeTypeOK, ExitTick
  <2>2. /\ at[p] \in Late /\ state'[p] = "ALIVE"
        /\ \A q \in Any \ {p} : state'[q] = state[q]
        /\ UNCHANGED <<at, exit_status, parent, childs, freed, got, code>>
    BY <1>t, <1>4, SMTT(30) DEF LifeTypeOK, ExitTick, Late
  <2> QED
    BY <1>0, <2>1, <2>2, OwnPlaceKeeps DEF Exiting, Late
<1>5. CASE \/ WaitSleep(p) \/ WaitAgain(p) \/ (\E pid \in Proc \cup {AnyPid} : WaitCall(p, pid))
  <2>1. /\ at'[p] \in {"scan", "sleep", "asleep"}
        /\ \/ at[p] \in {"scan", "sleep", "asleep"}
           \/ at[p] = "run" /\ state[p] = "ALIVE"
        /\ \E place \in {"scan", "sleep", "asleep"} : at' = [at EXCEPT ![p] = place]
        /\ want' \in [Any -> Proc \cup {AnyPid}] /\ asleep' \in [Any -> BOOLEAN]
        /\ UNCHANGED <<kthread, state, exit_status, parent, childs, freed, got, code, tgt>>
    <3>1. CASE WaitSleep(p)
      BY <1>t, <3>1 DEF LifeTypeOK, WaitSleep, Reach
    <3>2. CASE WaitAgain(p)
      BY <1>t, <3>2 DEF LifeTypeOK, WaitAgain, Reach
    <3>3. CASE \E pid \in Proc \cup {AnyPid} : WaitCall(p, pid)
      BY <1>t, <3>3 DEF LifeTypeOK, WaitCall, Reach
    <3> QED
      BY <1>5, <3>1, <3>2, <3>3, Zenon
  <2>2. PICK place \in {"scan", "sleep", "asleep"} : at' = [at EXCEPT ![p] = place]
    BY <2>1, Zenon
  <2>3. at'[p] = place /\ \A q \in Any \ {p} : at'[q] = at[q]
    BY <1>t, <2>2 DEF LifeTypeOK
  <2>4. at' \in [Any -> {"run", "status", "zombie", "find_parent", "wake", "leave", "gone",
                         "scan", "free", "sleep", "asleep"}]
    BY <1>t, <2>2 DEF LifeTypeOK
  <2>5. LifeTypeOK'
    BY <1>t, <2>1, <2>4, Zenon DEF LifeTypeOK
  <2> QED
    BY <1>0, <2>1, <2>3, <2>5, OwnPlaceKeeps, Zenon DEF Exiting, Late
<1> QED
  BY <1>1, <1>2, <1>3, <1>4, <1>5, Zenon

(* fork_enter and put_thread.                                              *)
LEMMA ForkKeeps ==
    ASSUME LInv, NEW p \in Any, NEW c \in Proc, Fork(p, c)
    PROVE  LInv'
<1>t. LifeTypeOK
  BY DEF LInv
<1>1. /\ at[p] = "run" /\ state[p] = "ALIVE" /\ state[c] = "NONE" /\ c \in Any /\ c # p
      /\ state'[c] = "ALIVE" /\ parent'[c] = p
      /\ \A q \in Any \ {c} : state'[q] = state[q] /\ parent'[q] = parent[q]
      /\ childs' = [childs EXCEPT ![p] = Append(childs[p], c)]
      /\ UNCHANGED <<kthread, exit_status, code, asleep, freed, at, want, tgt, got>>
  BY <1>t DEF LifeTypeOK, Fork, Any
<1>2. childs \in [Any -> Seq(Proc)]
  BY <1>t, Zenon DEF LifeTypeOK
<1>3. at[c] = "run" /\ ~Reaped(c) /\ \A q \in Any : ~Has(childs, q, c)
  BY <1>1 DEF LInv, Lives, Listed, Late
<1>4. Added(Any, Proc, childs, p, c, childs')
  BY <1>1, <1>2, AppendToOne, Zenon
<1>5. /\ childs' \in [Any -> Seq(Proc)] /\ Once(childs')
      /\ \A q \in Any \ {p} : childs'[q] = childs[q]
      /\ \A q \in Any : \A d : Has(childs', q, d) <=> Has(childs, q, d) \/ (q = p /\ d = c)
  BY <1>3, <1>4, Zenon DEF Added, LInv, Listed
<1>6. LifeTypeOK'
  <2>1. parent' \in [Any -> Any] /\ state' \in [Any -> {"NONE", "ALIVE", "ZOMBIE"}]
    BY <1>t, Zenon DEF LifeTypeOK, Fork
  <2> QED
    BY <1>t, <1>1, <1>5, <2>1, Zenon DEF LifeTypeOK
<1>7. \A q \in Any : Reaped(q)' <=> Reaped(q)
  BY <1>1 DEF Reaped, InHand
<1>8. Listed'
  <2>1. ASSUME NEW d \in Proc
        PROVE  (\E q \in Any : Has(childs', q, d)) <=> state'[d] # "NONE" /\ ~Reaped(d)'
    <3>1. d \in Any
      BY DEF Any
    <3>2. CASE d = c
      BY <1>1, <1>3, <1>5, <1>7, <3>2, Zenon
    <3>3. CASE d # c
      <4>1. (\E q \in Any : Has(childs, q, d)) <=> state[d] # "NONE" /\ ~Reaped(d)
        BY DEF LInv, Listed
      <4>2. (\E q \in Any : Has(childs', q, d)) <=> (\E q \in Any : Has(childs, q, d))
        BY <1>5, <3>3, Zenon
      <4>3. state'[d] = state[d] /\ (Reaped(d)' <=> Reaped(d))
        BY <1>1, <1>7, <3>1, <3>3, Zenon
      <4> QED
        BY <4>1, <4>2, <4>3, Zenon
    <3> QED
      BY <3>2, <3>3
  <2>2. ASSUME NEW d \in Proc, NEW q \in Any, Has(childs', q, d) PROVE parent'[d] = q
    <3>1. CASE d = c
      BY <1>1, <1>3, <1>5, <2>2, <3>1, Zenon
    <3>2. CASE d # c
      <4>1. Has(childs, q, d) /\ d \in Any
        BY <1>5, <2>2, <3>2, Zenon DEF Any
      <4> QED
        BY <1>1, <3>2, <4>1 DEF LInv, Listed
    <3> QED
      BY <3>1, <3>2
  <2>3. \A q \in Any : at'[q] \in Exiting => childs'[q] = <<>>
    BY <1>1, <1>5 DEF LInv, Listed, Exiting, Late
  <2> QED
    BY <1>5, <2>1, <2>2, <2>3 DEF Listed
<1>9. Lives' /\ Statuses'
  BY <1>1, <1>3, <1>7 DEF LInv, Lives, Statuses
<1> QED
  BY <1>6, <1>8, <1>9 DEF LInv

(* sys_exit hands its children over to init.                               *)
LEMMA HandOverKeeps ==
    ASSUME LInv, NEW p \in Any, NEW v \in Codes, ExitHandOver(p, v)
    PROVE  LInv'
<1>t. LifeTypeOK /\ init \in Any
  BY DEF LInv, Any
<1>1. /\ at[p] = "run" /\ state[p] = "ALIVE" /\ p # init /\ at'[p] = "status" /\ code'[p] = v
      /\ \A q \in Any \ {p} : at'[q] = at[q] /\ code'[q] = code[q]
      /\ childs' = [childs EXCEPT ![p] = <<>>, ![init] = childs[p] \o childs[init]]
      /\ \A c \in Any : parent'[c] = IF Has(childs, p, c) THEN init ELSE parent[c]
      /\ UNCHANGED <<kthread, state, exit_status, asleep, freed, want, tgt, got>>
  <2>1. childs \in [Any -> Seq(Proc)]
    BY <1>t, Zenon DEF LifeTypeOK
  <2>2. /\ childs' = [childs EXCEPT ![p] = <<>>, ![init] = childs[p] \o @] /\ p # init
        /\ parent' = [c \in Any |-> IF \E k \in DOMAIN childs[p] : childs[p][k] = c
                                    THEN init ELSE parent[c]]
    BY Zenon DEF ExitHandOver
  <2>3. childs' = [childs EXCEPT ![p] = <<>>, ![init] = childs[p] \o childs[init]]
    BY <1>t, <2>1, <2>2
  <2>4. DOMAIN childs[p] = 1 .. Len(childs[p])
    BY <2>1
  <2>5. \A c \in Any : parent'[c] = IF Has(childs, p, c) THEN init ELSE parent[c]
    BY <2>2, <2>4 DEF Has
  <2>6. /\ at[p] = "run" /\ state[p] = "ALIVE" /\ p # init /\ at'[p] = "status" /\ code'[p] = v
        /\ \A q \in Any \ {p} : at'[q] = at[q] /\ code'[q] = code[q]
        /\ UNCHANGED <<kthread, state, exit_status, asleep, freed, want, tgt, got>>
    BY <1>t DEF LifeTypeOK, ExitHandOver, Reach
  <2> QED
    BY <2>3, <2>5, <2>6, Zenon
<1>2. Once(childs) /\ childs \in [Any -> Seq(Proc)]
  BY <1>t, Zenon DEF LifeTypeOK, LInv, Listed
<1>3. Joined(Any, Proc, childs, p, init, childs')
  BY <1>1, <1>2, <1>t, JoinLists, Zenon
<1>4. /\ childs' \in [Any -> Seq(Proc)] /\ Once(childs') /\ childs'[p] = <<>>
      /\ \A q \in Any \ {p, init} : childs'[q] = childs[q]
      /\ \A q \in Any : \A c : Has(childs', q, c) <=>
            q # p /\ (Has(childs, q, c) \/ (q = init /\ Has(childs, p, c)))
  BY <1>3, Zenon DEF Joined
<1>5. LifeTypeOK'
  <2>1. parent' \in [Any -> Any]
    <3>1. \A c \in Any : parent[c] \in Any
      BY <1>t DEF LifeTypeOK
    <3> QED
      BY <1>t, <3>1 DEF ExitHandOver
  <2>2. code' \in [Any -> Codes \cup {Unset}]
    BY <1>t DEF LifeTypeOK, ExitHandOver
  <2>3. at' \in [Any -> {"run", "status", "zombie", "find_parent", "wake", "leave", "gone",
                         "scan", "free", "sleep", "asleep"}]
    BY <1>t, ZenonT(30) DEF LifeTypeOK, ExitHandOver, Reach
  <2> QED
    BY <1>t, <1>1, <1>4, <2>1, <2>2, <2>3, Zenon DEF LifeTypeOK
<1>6. \A q \in Any : Reaped(q)' <=> Reaped(q)
  BY <1>1, SMTT(30) DEF Reaped, InHand
<1>7. Listed'
  <2>1. ASSUME NEW d \in Proc
        PROVE  (\E q \in Any : Has(childs', q, d)) <=> state'[d] # "NONE" /\ ~Reaped(d)'
    <3>1. d \in Any
      BY DEF Any
    <3>2. (\E q \in Any : Has(childs, q, d)) <=> state[d] # "NONE" /\ ~Reaped(d)
      BY DEF LInv, Listed
    <3>3. (\E q \in Any : Has(childs', q, d)) <=> (\E q \in Any : Has(childs, q, d))
      BY <1>t, <1>1, <1>4, ZenonT(30)
    <3> QED
      BY <1>1, <1>6, <3>1, <3>2, <3>3, Zenon
  <2>2. ASSUME NEW d \in Proc, NEW q \in Any, Has(childs', q, d) PROVE parent'[d] = q
    <3>1. d \in Any /\ \A a \in Any : Has(childs, a, d) => parent[d] = a
      BY DEF LInv, Listed, Any
    <3>2. q # p /\ (Has(childs, q, d) \/ (q = init /\ Has(childs, p, d)))
      BY <1>4, <2>2
    <3> QED
      BY <1>1, <3>1, <3>2
  <2>3. \A q \in Any : at'[q] \in Exiting => childs'[q] = <<>>
    <3>1. at[init] \notin Exiting /\ \A q \in Any : at[q] \in Exiting => childs[q] = <<>>
      BY DEF LInv, Listed, Lives
    <3> QED
      BY <1>1, <1>4, <3>1, Zenon
  <2> QED
    BY <1>4, <2>1, <2>2, <2>3, Zenon DEF Listed
<1>8. Lives'
  <2>1. /\ at[init] \notin Exiting
        /\ \A q \in Any : /\ state[q] = "NONE" => at[q] = "run"
                          /\ state[q] = "ZOMBIE" => at[q] \in Late
                          /\ Reaped(q) => at[q] \in Late
                          /\ got[q] # <<>> <=> at[q] = "free"
    BY Zenon DEF LInv, Lives
  <2>2. ~Reaped(p)
    BY <1>1, <2>1, Zenon DEF Late
  <2>3. at'[init] \notin Exiting
    BY <1>t, <1>1, <2>1, Zenon
  <2>4. ASSUME NEW q \in Any
        PROVE  /\ state'[q] = "NONE" => at'[q] = "run"
               /\ state'[q] = "ZOMBIE" => at'[q] \in Late
               /\ Reaped(q)' => at'[q] \in Late
               /\ got'[q] # <<>> <=> at'[q] = "free"
    <3>1. CASE q = p
      BY <1>1, <1>6, <2>1, <2>2, <3>1
    <3>2. CASE q # p
      BY <1>1, <1>6, <2>1, <3>2, Zenon
    <3> QED
      BY <3>1, <3>2, Zenon
  <2> QED
    BY <2>3, <2>4, Zenon DEF Lives
<1>9. Statuses'
  <2>1. ASSUME NEW q \in Any, got[q] # <<>> PROVE got[q][1] # p /\ got[q][1] \in Any
    <3>1. got[q][1] \in Proc
      BY <1>t, <2>1 DEF LifeTypeOK
    <3>2. got[q][1] \in Any /\ Reaped(got[q][1])
      BY <2>1, <3>1 DEF Any, Reaped, InHand
    <3> QED
      BY <1>1, <3>2 DEF LInv, Lives, Late
  <2>2. \A q \in Any : /\ at[q] \in Exiting => code[q] \in Codes
                       /\ at[q] \in Exiting \ {"status"} => exit_status[q] = code[q]
                       /\ got[q] # <<>> => got[q][2] = code[got[q][1]]
    BY DEF LInv, Statuses
  <2> QED
    BY <1>1, <2>1, <2>2, ZenonT(30) DEF Statuses, Exiting
<1> QED
  BY <1>5, <1>7, <1>8, <1>9 DEF LInv

(* The scan of sys_waitpid, under childs.lock.                             *)
LEMMA ScanKeeps ==
    ASSUME LInv, NEW p \in Any, WaitScan(p)
    PROVE  LInv'
<1> DEFINE hits == {k \in DOMAIN childs[p] : Matches(p, childs[p][k], want[p])}
<1>t. LifeTypeOK /\ childs \in [Any -> Seq(Proc)] /\ Once(childs)
  BY ZenonT(30) DEF LInv, Listed, LifeTypeOK
<1>0. at[p] = "scan" /\ got[p] = <<>> /\ state[p] # "NONE" /\ state[p] # "ZOMBIE" /\ ~Reaped(p)
  BY DEF WaitScan, LInv, Lives, Late
<1>1. CASE hits = {}
  <2>1. /\ at' = [at EXCEPT ![p] = "sleep"]
        /\ UNCHANGED <<kthread, state, parent, childs, exit_status, code, asleep, freed, want, tgt, got>>
    BY <1>1, Zenon DEF WaitScan, Reach
  <2>2. LifeTypeOK' /\ at'[p] = "sleep" /\ \A q \in Any \ {p} : at'[q] = at[q]
    BY <1>t, <2>1 DEF LifeTypeOK
  <2> QED
    BY <1>0, <2>1, <2>2, OwnPlaceKeeps DEF Exiting, Late
<1>2. CASE hits # {}
  <2>0. PICK k \in hits :
           /\ childs' = [childs EXCEPT ![p] = Without(childs[p], k)]
           /\ got' = [got EXCEPT ![p] = <<childs[p][k], exit_status[childs[p][k]]>>]
           /\ Reach(p, "free")
    BY <1>2, Zenon DEF WaitScan
  <2> DEFINE c == childs[p][k]
  <2>1. k \in 1 .. Len(childs[p]) /\ state[c] = "ZOMBIE"
    BY <1>t, <2>0 DEF Matches
  <2>2. /\ at' = [at EXCEPT ![p] = "free"]
        /\ childs' = [childs EXCEPT ![p] = Without(childs[p], k)]
        /\ got' = [got EXCEPT ![p] = <<c, exit_status[c]>>]
        /\ UNCHANGED <<kthread, state, parent, exit_status, code, asleep, freed, want, tgt>>
    BY <2>0, Zenon DEF WaitScan, Reach
  <2>3. Removed(Any, Proc, childs, p, c, childs')
    <3>1. Without(childs[p], k) \in Seq(Proc) /\ LeftOut(childs[p], k, Without(childs[p], k))
      BY <1>t, <2>1, OthersOfList, Zenon DEF Without
    <3> QED
      BY <1>t, <2>2, <3>1, TakeFromOne, Zenon
  <2> HIDE DEF c, hits
  <2>4. /\ childs' \in [Any -> Seq(Proc)] /\ Once(childs') /\ c \in Proc /\ Has(childs, p, c)
        /\ \A q \in Any \ {p} : childs'[q] = childs[q]
        /\ \A q \in Any : \A d : Has(childs', q, d) <=> Has(childs, q, d) /\ d # c
    BY <2>3, Zenon DEF Removed
  <2>5. c \in Any /\ at[c] \in Late /\ exit_status[c] = code[c] /\ code[c] \in Codes /\ c # p
    <3>1. c \in Any
      BY <2>4 DEF Any
    <3>2. at[c] \in Late
      BY <2>1, <3>1 DEF LInv, Lives
    <3> QED
      BY <1>0, <3>1, <3>2 DEF LInv, Statuses, Exiting, Late
  <2>6. /\ at'[p] = "free" /\ got'[p] # <<>> /\ got'[p][1] = c /\ got'[p][2] = code[c]
        /\ \A q \in Any \ {p} : at'[q] = at[q] /\ got'[q] = got[q]
    BY <1>t, <2>2, <2>5 DEF LifeTypeOK
  <2>7. LifeTypeOK'
    <3>1. got' \in [Any -> {<<>>} \cup (Proc \X (Codes \cup {Unset}))]
      <4>1. <<c, exit_status[c]>> \in Proc \X (Codes \cup {Unset})
        BY <2>4, <2>5, SMTT(30)
      <4> QED
        BY <1>t, <2>2, <4>1, ZenonT(30) DEF LifeTypeOK
    <3> QED
      BY <1>t, <2>2, <2>4, <3>1, Zenon DEF LifeTypeOK
  <2>8. \A q \in Any : Reaped(q)' <=> Reaped(q) \/ q = c
    BY <1>0, <2>2, <2>6, ZenonT(30) DEF Reaped, InHand
  <2>9. Listed'
    <3>1. ASSUME NEW d \in Proc
          PROVE  (\E q \in Any : Has(childs', q, d)) <=> state'[d] # "NONE" /\ ~Reaped(d)'
      <4>1. (\E q \in Any : Has(childs, q, d)) <=> state[d] # "NONE" /\ ~Reaped(d)
        BY DEF LInv, Listed
      <4>2. Reaped(d)' <=> Reaped(d) \/ d = c
        BY <2>8 DEF Any
      <4>3. (\E q \in Any : Has(childs', q, d)) <=> (\E q \in Any : Has(childs, q, d)) /\ d # c
        BY <2>4
      <4> QED
        BY <2>2, <4>1, <4>2, <4>3, Zenon
    <3>2. \A d \in Proc, q \in Any : Has(childs', q, d) => parent'[d] = q
      BY <2>2, <2>4, Zenon DEF LInv, Listed
    <3>3. \A q \in Any : at'[q] \in Exiting => childs'[q] = <<>>
      BY <2>4, <2>6 DEF LInv, Listed, Exiting, Late
    <3> QED
      BY <2>4, <3>1, <3>2, <3>3, SMTT(30) DEF Listed
  <2>10. Lives'
    <3>1. at'[init] \notin Exiting
      BY <2>6, SMTT(30) DEF LInv, Lives, Exiting, Late, Any
    <3>2. ASSUME NEW q \in Any
          PROVE  /\ state'[q] = "NONE" => at'[q] = "run"
                 /\ state'[q] = "ZOMBIE" => at'[q] \in Late
                 /\ Reaped(q)' => at'[q] \in Late
                 /\ got'[q] # <<>> <=> at'[q] = "free"
      <4>1. CASE q = p
        BY <1>0, <2>2, <2>5, <2>6, <2>8, <4>1, SMTT(30)
      <4>2. CASE q # p
        BY <2>2, <2>5, <2>6, <2>8, <4>2, ZenonT(30) DEF LInv, Lives
      <4> QED
        BY <4>1, <4>2, SMTT(30)
    <3> QED
      BY <3>1, <3>2 DEF Lives
  <2>11. Statuses'
    BY <2>2, <2>6 DEF LInv, Statuses, Exiting, Late
  <2> QED
    BY <2>7, <2>9, <2>10, <2>11, SMTT(30) DEF LInv
<1> QED
  BY <1>1, <1>2

(* free_task.                                                              *)
LEMMA FreeKeeps ==
    ASSUME LInv, NEW p \in Any, WaitFree(p)
    PROVE  LInv'
<1>t. LifeTypeOK
  BY DEF LInv
<1>1. PICK c \in Proc : at[p] = "free" /\ got[p] # <<>> /\ c = got[p][1] /\ c \in Any
  <2>1. at[p] = "free" /\ got[p] # <<>>
    BY Zenon DEF WaitFree, LInv, Lives
  <2> QED
    BY <1>t, <2>1, SMTT(30) DEF LifeTypeOK, Any
<1>2. /\ freed'[c] = TRUE /\ got'[p] = <<>> /\ at'[p] = "run"
      /\ \A q \in Any \ {c} : freed'[q] = freed[q]
      /\ \A q \in Any \ {p} : at'[q] = at[q] /\ got'[q] = got[q]
      /\ UNCHANGED <<kthread, state, parent, childs, exit_status, code, asleep, want, tgt>>
  BY <1>t, <1>1, Zenon DEF LifeTypeOK, WaitFree, Reach
<1>3. LifeTypeOK'
  BY <1>t, Zenon DEF LifeTypeOK, WaitFree, Reach
<1>4. \A q \in Any : Reaped(q)' <=> Reaped(q)
  <2>1. Reaped(c)' /\ Reaped(c)
    BY <1>1, <1>2, ZenonT(30) DEF Reaped, InHand
  <2>2. ASSUME NEW q \in Any, q # c PROVE Reaped(q)' <=> Reaped(q)
    <3>1. InHand(q)' <=> InHand(q)
      BY <1>1, <1>2, <2>2, SMTT(30) DEF InHand
    <3> QED
      BY <1>2, <2>2, <3>1 DEF Reaped
  <2> QED
    BY <2>1, <2>2
<1>5. Listed'
  <2>1. \A d \in Proc : d \in Any
    BY DEF Any
  <2> QED
    BY <1>1, <1>2, <1>4, <2>1 DEF LInv, Listed, Exiting, Late
<1>6. Lives' /\ Statuses'
  <2>1. ~Reaped(p) /\ state[p] # "ZOMBIE"
    BY <1>1 DEF LInv, Lives, Late
  <2>2. init \in Any
    BY DEF Any
  <2>3. /\ at[init] \notin Exiting
        /\ \A q \in Any : /\ state[q] = "NONE" => at[q] = "run"
                          /\ state[q] = "ZOMBIE" => at[q] \in Late
                          /\ Reaped(q) => at[q] \in Late
                          /\ got[q] # <<>> <=> at[q] = "free"
    BY ZenonT(30) DEF LInv, Lives
  <2>4. at'[init] \notin Exiting
    BY <1>2, <2>2, <2>3 DEF Exiting, Late
  <2>5. ASSUME NEW q \in Any
        PROVE  /\ state'[q] = "NONE" => at'[q] = "run"
               /\ state'[q] = "ZOMBIE" => at'[q] \in Late
               /\ Reaped(q)' => at'[q] \in Late
               /\ got'[q] # <<>> <=> at'[q] = "free"
    <3>1. CASE q = p
      BY <1>2, <1>4, <2>1, <3>1
    <3>2. CASE q # p
      BY <1>2, <1>4, <2>3, <3>2, ZenonT(30)
    <3> QED
      BY <3>1, <3>2, ZenonT(30)
  <2>6. Lives'
    BY <2>4, <2>5, Zenon DEF Lives
  <2>7. Statuses'
    BY <1>2 DEF LInv, Statuses, Exiting, Late
  <2> QED
    BY <2>6, <2>7, Zenon
<1> QED
  BY <1>3, <1>5, <1>6 DEF LInv

LEMMA LifeInvariant == LifeSpec => []LInv
<1>1. LifeInit => LInv
  <2> SUFFICES ASSUME LifeInit PROVE LInv
    OBVIOUS
  <2> USE FamilyAssumption
  <2>1. LifeTypeOK
    <3>1. <<First>> \in Seq(Proc) /\ <<>> \in Seq(Proc)
      OBVIOUS
    <3>2. childs \in [Any -> Seq(Proc)]
      BY <3>1 DEF LifeInit
    <3> QED
      BY <3>2 DEF LifeTypeOK, LifeInit, Any, Codes
  <2>2. /\ init \in Any /\ childs[init] = <<First>> /\ Len(<<First>>) = 1 /\ <<First>>[1] = First
        /\ \A p \in Any \ {init} : childs[p] = <<>>
        /\ DOMAIN childs = Any
    BY DEF LifeInit, Any
  <2>3. \A p \in Any : ~Reaped(p) /\ at[p] = "run" /\ got[p] = <<>> /\ parent[p] = init
    BY DEF LifeInit, Reaped, InHand
  <2>4. \A p \in Any : state[p] = IF p \in {init, First} THEN "ALIVE" ELSE "NONE"
    BY DEF LifeInit
  <2>5. \A p \in Any, c \in Proc : Has(childs, p, c) <=> p = init /\ c = First
    BY <2>2 DEF Has
  <2>6. Once(childs)
    BY <2>2 DEF Once
  <2>7. Listed
    BY <2>2, <2>3, <2>4, <2>5, <2>6 DEF Listed, Exiting, Late, Any
  <2>8. Lives /\ Statuses
    BY <2>2, <2>3, <2>4 DEF Lives, Statuses, Exiting, Late
  <2> QED
    BY <2>1, <2>7, <2>8 DEF LInv
<1>2. LInv /\ [LifeNext]_lifeVars => LInv'
  <2> SUFFICES ASSUME LInv, [LifeNext]_lifeVars PROVE LInv'
    OBVIOUS
  <2>1. ASSUME NEW p \in Any, SysCall(p) \/ Advance(p) \/ ExitTick(p) PROVE LInv'
    BY <2>1, PlaceStepsKeep, ForkKeeps, HandOverKeeps, ScanKeeps, FreeKeeps DEF SysCall, Advance
  <2>2. CASE UNCHANGED lifeVars
    BY <2>2 DEF lifeVars, LInv, LifeTypeOK, Listed, Lives, Statuses, Reaped, InHand
  <2> QED
    BY <2>1, <2>2 DEF LifeNext
<1> QED
  BY <1>1, <1>2, PTL DEF LifeSpec

(* put_thread, sys_exit and sys_waitpid keep the types of the pcb fields.  *)
THEOREM FamilyTypes == LifeSpec => []LifeTypeOK
<1>1. LInv => LifeTypeOK
  BY DEF LInv
<1> QED
  BY <1>1, LifeInvariant, PTL

(* sys_exit and sys_waitpid, for every number of tasks and kernel threads: *)
(* a task that was born and not reaped is in one childs list, once, that   *)
(* of its parent, who has not been freed; and waitpid hands out the        *)
(* argument of the child's sys_exit.                                       *)
THEOREM FamilyStaysWhole == LifeSpec => []FamilyTree
<1>1. LInv => FamilyTree
  <2> SUFFICES ASSUME LInv PROVE ListedOnce /\ StatusIsExitCode
    BY DEF FamilyTree
  <2>t. childs \in [Any -> Seq(Proc)] /\ got \in [Any -> {<<>>} \cup (Proc \X (Codes \cup {Unset}))]
    BY Zenon DEF LInv, LifeTypeOK
  <2>1. ASSUME NEW c \in Proc
        PROVE  LET places == UNION {{<<p, k>> : k \in {j \in DOMAIN childs[p] : childs[p][j] = c}} : p \in Any}
               IN  IF state[c] = "NONE" \/ freed[c] \/ InHand(c) THEN places = {}
                   ELSE /\ \E k \in DOMAIN childs[parent[c]] : places = {<<parent[c], k>>}
                        /\ ~freed[parent[c]]
    <3> DEFINE places == UNION {{<<p, k>> : k \in {j \in DOMAIN childs[p] : childs[p][j] = c}} : p \in Any}
    <3>1. \A p \in Any : DOMAIN childs[p] = 1 .. Len(childs[p])
      BY <2>t
    <3>2. \A x : x \in places <=>
             \E p \in Any : \E k \in 1 .. Len(childs[p]) : childs[p][k] = c /\ x = <<p, k>>
      BY <3>1, SMTT(30)
    <3> HIDE DEF places
    <3>3. CASE state[c] = "NONE" \/ Reaped(c)
      <4>1. \A p \in Any : ~Has(childs, p, c)
        BY <3>3 DEF LInv, Listed
      <4>2. places = {}
        BY <3>2, <4>1, Zenon DEF Has
      <4> QED
        BY <3>3, <4>2 DEF Reaped, places
    <3>4. CASE ~(state[c] = "NONE" \/ Reaped(c))
      <4>1. PICK p \in Any : Has(childs, p, c)
        BY <3>4 DEF LInv, Listed
      <4>2. parent[c] = p /\ at[p] \notin Exiting
        <5>1. parent[c] = p
          BY <4>1 DEF LInv, Listed
        <5>2. childs[p] # <<>>
          BY <2>t, <4>1 DEF Has
        <5> QED
          BY <5>1, <5>2 DEF LInv, Listed
      <4>3. ~freed[p]
        BY <4>2 DEF LInv, Lives, Reaped, Exiting
      <4>4. PICK k \in 1 .. Len(childs[p]) : childs[p][k] = c
        BY <4>1 DEF Has
      <4>5. ASSUME NEW q \in Any, NEW j \in 1 .. Len(childs[q]), childs[q][j] = c
            PROVE  q = p /\ j = k
        BY <2>t, <4>4, <4>5 DEF LInv, Listed, Once
      <4>6. places = {<<p, k>>}
        BY <3>2, <4>4, <4>5, Zenon
      <4> QED
        BY <3>1, <3>4, <4>2, <4>3, <4>4, <4>6 DEF Reaped, places
    <3> QED
      BY <3>3, <3>4
  <2>2. ListedOnce
    BY <2>1, Zenon DEF ListedOnce
  <2>3. StatusIsExitCode
    <3> SUFFICES ASSUME NEW p \in Any, got[p] # <<>>
                 PROVE  got[p][2] = code[got[p][1]] /\ got[p][2] \in Codes
      BY DEF StatusIsExitCode
    <3>1. got[p][1] \in Any /\ Reaped(got[p][1])
      BY <2>t DEF Any, Reaped, InHand
    <3>2. at[got[p][1]] \in Exiting
      BY <3>1 DEF LInv, Lives, Exiting
    <3> QED
      BY <3>1, <3>2 DEF LInv, Statuses
  <2> QED
    BY <2>2, <2>3
<1> QED
  BY <1>1, LifeInvariant, PTL

-----------------------------------------------------------------------------
(* The mutex.                                                              *)

(* The inductive invariant.  Exclusion alone is not inductive: a release   *)
(* must not wake a task that holds the mutex, so the queue has to hold the *)
(* sleepers, each once.                                                    *)
IInv == TypeOK /\ LockedMeansHeld /\ NoSleeperStranded

(* Moving a task between places outside the mutex, none of them "asleep",  *)
(* and leaving the flag and the queue alone keeps the invariant, when no   *)
(* waker disappears.                                                       *)
LEMMA MoveOutside ==
    ASSUME IInv, NEW t \in Task, NEW p,
           pc[t] \in {"idle", "lock", "trylock"}, p \in {"idle", "lock", "trylock"},
           pc' = [pc EXCEPT ![t] = p], UNCHANGED <<locked, wait_queue>>,
           queue_lock' \in Task \cup {None}
    PROVE  IInv'
<1> USE DEF IInv
<1>1. TypeOK'
  BY DEF TypeOK
<1>2. Holders' = Holders
  BY DEF TypeOK, Holders
<1>3. LockedMeansHeld'
  BY <1>2 DEF LockedMeansHeld
<1>4. \A u \in Task : /\ pc[u] = "asleep" <=> pc'[u] = "asleep"
                      /\ pc[u] \in {"woken", "wake"} => pc'[u] \in {"woken", "wake"}
  BY DEF TypeOK
<1>5. NoSleeperStranded'
  BY <1>4 DEF NoSleeperStranded
<1> QED
  BY <1>1, <1>3, <1>5

(* A task that gets the mutex, by the fast path or by the retry, finds it  *)
(* free and is then its only holder.                                       *)
LEMMA Acquire ==
    ASSUME IInv, NEW t \in Task, locked = 0, locked' = 1,
           pc[t] \in {"lock", "trylock", "woken"},
           pc' = [pc EXCEPT ![t] = "held"], UNCHANGED wait_queue,
           queue_lock' \in Task \cup {None}
    PROVE  IInv' /\ Holders = {} /\ Holders' = {t}
<1> USE DEF IInv
<1>1. TypeOK'
  BY DEF TypeOK
<1>2. Holders = {}
  BY DEF LockedMeansHeld
<1>3. Holders' = {t}
  BY <1>2 DEF TypeOK, Holders
<1>4. LockedMeansHeld'
  BY <1>3 DEF LockedMeansHeld
<1>5. \A u \in Task : pc[u] = "asleep" <=> pc'[u] = "asleep"
  BY DEF TypeOK
<1>6. NoSleeperStranded'
  BY <1>5 DEF NoSleeperStranded
<1> QED
  BY <1>1, <1>2, <1>3, <1>4, <1>6

(* Joining the queue: the mutex is held by somebody else meanwhile.        *)
LEMMA SleepKeeps ==
    ASSUME IInv, NEW t \in Task, Sleep(t)
    PROVE  IInv' /\ Holders' = Holders
<1> USE DEF IInv, Sleep, Goto
<1>1. /\ wait_queue \in Seq(Task) /\ Len(wait_queue) \in Nat
      /\ Len(wait_queue') = Len(wait_queue) + 1
      /\ DOMAIN wait_queue = 1 .. Len(wait_queue)
      /\ DOMAIN wait_queue' = 1 .. Len(wait_queue) + 1
      /\ \A k \in DOMAIN wait_queue : wait_queue'[k] = wait_queue[k]
      /\ wait_queue'[Len(wait_queue) + 1] = t
      /\ wait_queue' \in Seq(Task)
  BY DEF TypeOK
<1>2. TypeOK'
  BY <1>1 DEF TypeOK
<1>3. Holders' = Holders
  BY DEF TypeOK, Holders
<1>4. LockedMeansHeld'
  BY <1>3 DEF LockedMeansHeld
<1>5. \A k \in DOMAIN wait_queue : wait_queue[k] # t
  BY DEF NoSleeperStranded
<1>6. \A u \in Task : pc'[u] = "asleep" <=> pc[u] = "asleep" \/ u = t
  BY DEF TypeOK
<1>7. \A u \in Task : (\E k \in DOMAIN wait_queue' : wait_queue'[k] = u)
                      <=> (\E k \in DOMAIN wait_queue : wait_queue[k] = u) \/ u = t
  BY <1>1
<1>8. \A u \in Task : pc'[u] = "asleep" <=> \E k \in DOMAIN wait_queue' : wait_queue'[k] = u
  BY <1>6, <1>7 DEF NoSleeperStranded
<1>9. \A j, k \in DOMAIN wait_queue' : wait_queue'[j] = wait_queue'[k] => j = k
  BY <1>1, <1>5 DEF NoSleeperStranded
<1>10. locked' = 1
  OBVIOUS
<1>11. NoSleeperStranded'
  BY <1>8, <1>9, <1>10 DEF NoSleeperStranded
<1> QED
  BY <1>2, <1>3, <1>4, <1>11

(* The release: the one holder leaves and a waker is on its way.           *)
LEMMA ClearKeeps ==
    ASSUME IInv, NEW t \in Task, Clear(t)
    PROVE  IInv' /\ Holders = {t} /\ Holders' = {}
<1> USE DEF IInv, Clear, Goto
<1>1. TypeOK'
  BY DEF TypeOK
<1>2. Holders = {t}
  BY DEF LockedMeansHeld, Holders
<1>3. Holders' = {}
  BY <1>2 DEF TypeOK, Holders
<1>4. LockedMeansHeld'
  BY <1>3 DEF LockedMeansHeld
<1>5. /\ \A u \in Task : pc[u] = "asleep" <=> pc'[u] = "asleep"
      /\ pc'[t] = "wake"
  BY DEF TypeOK
<1>6. NoSleeperStranded'
  BY <1>5 DEF NoSleeperStranded
<1> QED
  BY <1>1, <1>2, <1>3, <1>4, <1>6

(* Waking the first sleeper: it leaves the queue and is about to retry.    *)
LEMMA WakeKeeps ==
    ASSUME IInv, NEW t \in Task, WakeFirst(t)
    PROVE  IInv' /\ Holders' = Holders
<1> USE DEF IInv
<1>1. CASE wait_queue = <<>>
  <2>1. pc' = [pc EXCEPT ![t] = "idle"] /\ pc[t] = "wake" /\ UNCHANGED <<locked, wait_queue>>
    BY <1>1 DEF WakeFirst, Goto
  <2>2. TypeOK'
    BY <2>1 DEF TypeOK, WakeFirst
  <2>3. Holders' = Holders
    BY <2>1 DEF TypeOK, Holders
  <2>4. LockedMeansHeld'
    BY <2>1, <2>3 DEF LockedMeansHeld
  <2>5. \A u \in Task : pc[u] = "asleep" <=> pc'[u] = "asleep"
    BY <2>1 DEF TypeOK
  <2>6. NoSleeperStranded'
    BY <1>1, <2>1, <2>5 DEF NoSleeperStranded
  <2> QED
    BY <2>2, <2>3, <2>4, <2>6
<1>2. CASE wait_queue # <<>>
  <2>0. PICK h \in Task, n \in Nat : h = Head(wait_queue) /\ n = Len(wait_queue)
    BY <1>2 DEF TypeOK
  <2>1. /\ pc[t] = "wake" /\ pc' = [pc EXCEPT ![t] = "idle", ![h] = "woken"]
        /\ wait_queue' = Tail(wait_queue) /\ UNCHANGED locked /\ queue_lock' = None
    BY <1>2, <2>0 DEF WakeFirst
  <2>2. /\ n > 0 /\ DOMAIN wait_queue = 1 .. n
        /\ wait_queue' \in Seq(Task) /\ Len(wait_queue') = n - 1
        /\ DOMAIN wait_queue' = 1 .. (n - 1)
        /\ \A k \in 1 .. (n - 1) : wait_queue'[k] = wait_queue[k + 1]
        /\ h = wait_queue[1]
    BY <1>2, <2>0, <2>1 DEF TypeOK
  <2>3. pc[h] = "asleep" /\ h # t
    BY <2>1, <2>2 DEF NoSleeperStranded
  <2>4. TypeOK'
    BY <2>1, <2>2 DEF TypeOK
  <2>5. /\ pc'[h] = "woken" /\ pc'[t] = "idle" /\ pc[t] = "wake"
        /\ \A u \in Task : u # h /\ u # t => pc'[u] = pc[u]
    BY <2>1, <2>2, <2>3 DEF TypeOK
  <2>6. Holders' = Holders
    <3> SUFFICES ASSUME NEW u \in Task
                 PROVE  pc'[u] \in {"held", "unlock"} <=> pc[u] \in {"held", "unlock"}
      BY DEF Holders
    <3> QED
      BY <2>3, <2>5
  <2>7. LockedMeansHeld'
    BY <2>1, <2>6 DEF LockedMeansHeld
  <2>8. \A u \in Task : pc'[u] = "asleep" <=> pc[u] = "asleep" /\ u # h
    BY <2>3, <2>5
  <2>9. \A k \in 1 .. n : wait_queue[k] = h => k = 1
    BY <2>2 DEF NoSleeperStranded
  <2>10. \A u \in Task : (\E k \in DOMAIN wait_queue' : wait_queue'[k] = u)
                         <=> (\E k \in DOMAIN wait_queue : wait_queue[k] = u) /\ u # h
    <3> TAKE u \in Task
    <3>1. ASSUME NEW k \in 1 .. (n - 1), wait_queue[k + 1] = u
          PROVE  (\E j \in 1 .. n : wait_queue[j] = u) /\ u # h
      BY <3>1, <2>2, <2>9
    <3>2. ASSUME NEW k \in 1 .. n, wait_queue[k] = u, u # h
          PROVE  \E j \in 1 .. (n - 1) : wait_queue[j + 1] = u
      <4>1. k # 1
        BY <3>2, <2>2
      <4>2. k - 1 \in 1 .. (n - 1) /\ (k - 1) + 1 = k
        BY <4>1, <2>2
      <4> QED
        BY <4>2, <3>2
    <3>3. /\ DOMAIN wait_queue = 1 .. n /\ DOMAIN wait_queue' = 1 .. (n - 1)
          /\ \A k \in 1 .. (n - 1) : wait_queue'[k] = wait_queue[k + 1]
      BY <2>2
    <3> QED
      BY <3>1, <3>2, <3>3, Zenon
  <2>11. \A u \in Task : pc'[u] = "asleep" <=> \E k \in DOMAIN wait_queue' : wait_queue'[k] = u
    BY <2>8, <2>10 DEF NoSleeperStranded
  <2>12. \A j, k \in DOMAIN wait_queue' : wait_queue'[j] = wait_queue'[k] => j = k
    <3> SUFFICES ASSUME NEW j \in 1 .. (n - 1), NEW k \in 1 .. (n - 1),
                        wait_queue[j + 1] = wait_queue[k + 1]
                 PROVE  j = k
      BY <2>2, Zenon
    <3>1. j + 1 \in 1 .. n /\ k + 1 \in 1 .. n
      BY <2>2
    <3>2. j + 1 = k + 1
      BY <3>1, <2>2, Zenon DEF NoSleeperStranded
    <3> QED
      BY <3>2
  <2>13. NoSleeperStranded'
    BY <2>2, <2>5, <2>11, <2>12 DEF NoSleeperStranded
  <2> QED
    BY <2>4, <2>6, <2>7, <2>13
<1> QED
  BY <1>1, <1>2

(* The retry that finds the mutex taken: the task is out of the game, but  *)
(* the holder will still look at the queue.                                *)
LEMMA RetryFailKeeps ==
    ASSUME IInv, NEW t \in Task, Retry(t), locked # 0
    PROVE  IInv' /\ Holders' = Holders
<1> USE DEF IInv, Retry, Goto
<1>1. locked = 1 /\ pc' = [pc EXCEPT ![t] = "gone"]
  BY DEF TypeOK
<1>2. TypeOK'
  BY <1>1 DEF TypeOK
<1>3. Holders' = Holders
  BY <1>1 DEF TypeOK, Holders
<1>4. LockedMeansHeld'
  BY <1>1, <1>3 DEF LockedMeansHeld
<1>5. \A u \in Task : pc[u] = "asleep" <=> pc'[u] = "asleep"
  BY <1>1 DEF TypeOK
<1>6. NoSleeperStranded'
  BY <1>5 DEF NoSleeperStranded
<1> QED
  BY <1>2, <1>3, <1>4, <1>6

(* mutex_unlock takes queue_lock: still the holder.                        *)
LEMMA UnlockKeeps ==
    ASSUME IInv, NEW t \in Task, CallUnlock(t)
    PROVE  IInv' /\ Holders' = Holders
<1> USE DEF IInv, CallUnlock, Enter, Goto
<1>1. TypeOK'
  BY DEF TypeOK
<1>2. Holders' = Holders
  BY DEF TypeOK, Holders
<1>3. LockedMeansHeld'
  BY <1>2 DEF LockedMeansHeld
<1>4. \A u \in Task : /\ pc[u] = "asleep" <=> pc'[u] = "asleep"
                      /\ pc[u] \in {"woken", "wake"} => pc'[u] \in {"woken", "wake"}
  BY DEF TypeOK
<1>5. NoSleeperStranded'
  BY <1>4 DEF NoSleeperStranded
<1> QED
  BY <1>1, <1>2, <1>3, <1>5

(* Every step of every task keeps the invariant, and changes the holder    *)
(* only from none to one task or from that task to none.                   *)
LEMMA StepKeeps ==
    ASSUME IInv, [Next]_vars
    PROVE  /\ IInv'
           /\ \/ Holders' = Holders
              \/ \E t \in Task : Holders = {} /\ Holders' = {t}
              \/ \E t \in Task : Holders = {t} /\ Holders' = {}
<1>1. CASE UNCHANGED vars
  BY <1>1 DEF IInv, TypeOK, LockedMeansHeld, NoSleeperStranded, Holders, vars
<1>2. ASSUME NEW t \in Task, Call(t) \/ TryFail(t)
      PROVE  IInv' /\ Holders' = Holders
  <2>1. \E p \in {"idle", "lock", "trylock"} :
           /\ pc[t] \in {"idle", "lock", "trylock"} /\ pc' = [pc EXCEPT ![t] = p]
           /\ UNCHANGED <<locked, wait_queue>> /\ queue_lock' \in Task \cup {None}
    BY <1>2 DEF Call, CallLock, CallTrylock, TryFail, Enter, Goto
  <2>2. IInv'
    BY <2>1, MoveOutside, Zenon
  <2>3. Holders' = Holders
    BY <2>1 DEF Holders, IInv, TypeOK
  <2> QED
    BY <2>2, <2>3
<1>3. ASSUME NEW t \in Task, TryFast(t) \/ (Retry(t) /\ locked = 0)
      PROVE  IInv' /\ Holders = {} /\ Holders' = {t}
  BY <1>3, Acquire DEF TryFast, Retry, Goto, IInv, TypeOK
<1>4. CASE \E t \in Task : Call(t) \/ CallUnlock(t) \/ Step(t)
  BY <1>4, <1>2, <1>3, SleepKeeps, ClearKeeps, WakeKeeps, RetryFailKeeps, UnlockKeeps DEF Step
<1> QED
  BY <1>1, <1>4 DEF Next

(* The invariant holds when the mutex is initialised.                      *)
LEMMA InitHolds == Init => IInv
<1> SUFFICES ASSUME Init PROVE IInv
  OBVIOUS
<1>1. wait_queue = <<>> /\ wait_queue \in Seq(Task) /\ DOMAIN wait_queue = {}
  BY DEF Init
<1>2. Holders = {}
  BY DEF Init, Holders
<1> QED
  BY <1>1, <1>2 DEF Init, IInv, TypeOK, LockedMeansHeld, NoSleeperStranded

(* Mutual exclusion for every number of tasks: at most one task is between *)
(* mutex_lock and the release, and `locked` tells whether there is one.    *)
THEOREM MutualExclusion == Spec => []LockedMeansHeld
<1>1. IInv /\ [Next]_vars => IInv'
  BY StepKeeps
<1>2. IInv => LockedMeansHeld
  BY DEF IInv
<1> QED
  BY InitHolds, <1>1, <1>2, PTL DEF Spec

(* No sleeper is ever left in the queue with nobody to wake it.            *)
THEOREM SleepersAreReached == Spec => [](TypeOK /\ NoSleeperStranded)
<1>1. IInv /\ [Next]_vars => IInv'
  BY StepKeeps
<1>2. IInv => TypeOK /\ NoSleeperStranded
  BY DEF IInv
<1> QED
  BY InitHolds, <1>1, <1>2, PTL DEF Spec

(* The holder of LockSpec, given the set of tasks inside.                  *)
LEMMA HolderIs ==
    ASSUME NEW t \in Task
    PROVE  /\ Holders = {} => Holder = None
           /\ Holders = {t} => Holder = t
           /\ Holders' = {} => Holder' = None
           /\ Holders' = {t} => Holder' = t
  BY DEF Holder

(* The mutex implements LockSpec: every step takes a free lock, gives back *)
(* a held one, or leaves the holder alone.                                 *)
THEOREM MutexImplementsLock == Spec => ImplementsLock
<1>1. Init => Lock!LockInit
  BY DEF Init, Lock!LockInit, Holder, Holders
<1>2. IInv /\ [Next]_vars => [Lock!LockNext]_Holder
  <2> SUFFICES ASSUME IInv, [Next]_vars PROVE [Lock!LockNext]_Holder
    OBVIOUS
  <2>1. CASE Holders' = Holders
    BY <2>1 DEF Holder
  <2>2. ASSUME NEW t \in Task, Holders = {}, Holders' = {t}
        PROVE  Lock!LockNext
    BY <2>2, HolderIs DEF Lock!LockNext, Lock!Take
  <2>3. ASSUME NEW t \in Task, Holders = {t}, Holders' = {}
        PROVE  Lock!LockNext
    BY <2>3, HolderIs DEF Lock!LockNext, Lock!Give
  <2> QED
    BY StepKeeps, <2>1, <2>2, <2>3
<1>3. IInv /\ [Next]_vars => IInv'
  BY StepKeeps
<1> QED
  BY InitHolds, <1>1, <1>2, <1>3, PTL DEF Spec, ImplementsLock, Lock!LockOnly
=============================================================================
