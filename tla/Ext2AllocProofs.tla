-------------------------- MODULE Ext2AllocProofs --------------------------
(* The group counts of ext2 and the numbers it hands out, for every number *)
(* of tasks, groups and bits.                                              *)
EXTENDS Ext2Alloc, FiniteSetTheorems, TLAPS

Inside == {"search", "count", "return", "clear", "countup", "freed"}
Waiting == {"lock", "freelock"}

(* Who stands behind a mutex owns it.                                      *)
Owned ==
    /\ bit \in [Group -> SUBSET Bit]
    /\ free \in [Group -> Int]
    /\ owner \in [Group -> Task \union {NoTask}]
    /\ place \in [Task -> Inside \union Waiting \union {"idle", "probe"}]
    /\ at \in [Task -> 0 .. Groups]
    /\ \A t \in Task : place[t] \in Inside \union Waiting => at[t] \in Group
    /\ \A t \in Task : place[t] \in Inside => owner[at[t]] = t

(* A count is off by one exactly while somebody is between a bit and it.   *)
Tally ==
    /\ \A g \in Group :
          (\A t \in Task : at[t] = g => place[t] \notin {"count", "countup"})
              => free[g] = Cardinality(FreeBits(g))
    /\ \A t \in Task : place[t] = "count" => free[at[t]] = Cardinality(FreeBits(at[t])) + 1
    /\ \A t \in Task : place[t] = "countup" => free[at[t]] = Cardinality(FreeBits(at[t])) - 1

(* The inductive invariant: CountsExact says nothing while a mutex is      *)
(* held, so the tally has to say what the count is then.                   *)
IInv == Owned /\ Tally

Sizes == NoTask \notin Task /\ Groups \in Nat /\ PerGroup \in Nat

(* The clear bits of a group are finite in number.                         *)
LEMMA FiniteBits ==
    ASSUME Sizes, NEW S \in SUBSET Bit
    PROVE  IsFiniteSet(S) /\ Cardinality(S) \in Nat
<1>1. IsFiniteSet(Bit)
  BY FS_Interval DEF Sizes, Bit
<1> QED
  BY <1>1, FS_Subset, FS_CardinalityType

(* The search for a clear bit returns one of them.                         *)
LEMMA LowestIn ==
    ASSUME NEW S \in SUBSET Bit, S # {}
    PROVE  Lowest(S) \in S
<1>1. S \subseteq Nat
  BY DEF Bit
<1> DEFINE Below == {ss \in Nat \X Nat : ss[1] < ss[2]}
<1>2. \A x, y \in Nat : <<y, x>> \in Below \/ x <= y
  OBVIOUS
<1>3. IsWellFoundedOn(Below, Nat)
  BY NatLessThanWellFounded, Zenon DEF OpToRel
<1> HIDE DEF Below
<1>4. \E x \in S : \A y \in S : ~(<<y, x>> \in Below)
  BY <1>1, <1>3, WFMin, Zenon
<1> QED
  BY <1>1, <1>2, <1>4, Zenon DEF Lowest

(* A step that only moves one task, not to or from the two places between  *)
(* a bit and its count, keeps the tally.                                   *)
LEMMA MoveKeepsTally ==
    ASSUME IInv, NEW t \in Task, UNCHANGED <<bit, free>>,
           place[t] \notin {"count", "countup"}, place'[t] \notin {"count", "countup"},
           \A u \in Task \ {t} : place'[u] = place[u] /\ at'[u] = at[u]
    PROVE  Tally'
<1>1. ASSUME NEW g \in Group
      PROVE  (\A u \in Task : at'[u] = g => place'[u] \notin {"count", "countup"})
               => \A u \in Task : at[u] = g => place[u] \notin {"count", "countup"}
  OBVIOUS
<1>2. \A g \in Group : FreeBits(g)' = FreeBits(g)
  BY DEF FreeBits
<1>3. \A u \in Task : place'[u] = "count" => free'[at'[u]] = Cardinality(FreeBits(at[u])') + 1
  BY DEF IInv, Tally, FreeBits
<1>4. \A u \in Task : place'[u] = "countup" => free'[at'[u]] = Cardinality(FreeBits(at[u])') - 1
  BY DEF IInv, Tally, FreeBits
<1> QED
  BY <1>1, <1>2, <1>3, <1>4 DEF IInv, Tally, FreeBits

(* Setting a bit leaves the count one too high, clearing one leaves it one *)
(* too low; counting brings it back.  The owner is alone in its group.     *)
LEMMA BitKeepsTally ==
    ASSUME IInv, NEW t \in Task, place[t] \in {"search", "clear"}, NEW B \in SUBSET Bit,
           bit' = [bit EXCEPT ![at[t]] = B], UNCHANGED <<free, at>>,
           \A u \in Task \ {t} : place'[u] = place[u],
           \/ /\ place'[t] = "count"
              /\ Cardinality(Bit \ B) = Cardinality(FreeBits(at[t])) - 1
              /\ Cardinality(FreeBits(at[t])) \in Nat
           \/ /\ place'[t] = "countup"
              /\ Cardinality(Bit \ B) = Cardinality(FreeBits(at[t])) + 1
              /\ Cardinality(FreeBits(at[t])) \in Nat
    PROVE  Tally'
<1>1. at[t] \in Group /\ \A u \in Task \ {t} : at[u] = at[t] => place[u] \notin Inside
  BY DEF IInv, Owned, Inside
<1>2. free[at[t]] = Cardinality(FreeBits(at[t]))
  BY <1>1 DEF IInv, Tally, Inside
<1>3. FreeBits(at[t])' = Bit \ B
  BY <1>1 DEF FreeBits, IInv, Owned
<1>4. \A g \in Group \ {at[t]} : FreeBits(g)' = FreeBits(g)
  BY <1>1 DEF FreeBits, IInv, Owned
<1>5. \A u \in Task \ {t} : place'[u] \in {"count", "countup"} => at[u] \in Group \ {at[t]}
  BY <1>1 DEF IInv, Owned, Inside
<1>6. \A g \in Group :
          (\A u \in Task : at'[u] = g => place'[u] \notin {"count", "countup"})
              => free'[g] = Cardinality(FreeBits(g)')
  BY <1>1, <1>4 DEF IInv, Tally
<1>7. place'[t] = "count" => free'[at'[t]] = Cardinality(FreeBits(at[t])') + 1
  BY <1>2, <1>3
<1>8. place'[t] = "countup" => free'[at'[t]] = Cardinality(FreeBits(at[t])') - 1
  BY <1>2, <1>3
<1>9. \A u \in Task \ {t} :
          /\ place'[u] = "count" => free'[at'[u]] = Cardinality(FreeBits(at[u])') + 1
          /\ place'[u] = "countup" => free'[at'[u]] = Cardinality(FreeBits(at[u])') - 1
  BY <1>4, <1>5 DEF IInv, Tally
<1> QED
  BY <1>6, <1>7, <1>8, <1>9, Zenon DEF Tally, FreeBits

LEMMA CountKeepsTally ==
    ASSUME IInv, NEW t \in Task, place[t] \in {"count", "countup"},
           free' = [free EXCEPT ![at[t]] = IF place[t] = "count" THEN @ - 1 ELSE @ + 1],
           UNCHANGED <<bit, at>>, place'[t] \in {"return", "freed"},
           \A u \in Task \ {t} : place'[u] = place[u],
           Cardinality(FreeBits(at[t])) \in Nat
    PROVE  Tally'
<1>1. at[t] \in Group /\ \A u \in Task \ {t} : at[u] = at[t] => place[u] \notin Inside
  BY DEF IInv, Owned, Inside
<1>2. free'[at[t]] = Cardinality(FreeBits(at[t]))
  BY <1>1 DEF IInv, Owned, Tally
<1>3. \A g \in Group \ {at[t]} : free'[g] = free[g]
  BY <1>1 DEF IInv, Owned
<1>4. \A g \in Group : FreeBits(g)' = FreeBits(g)
  BY DEF FreeBits
<1>5. \A u \in Task \ {t} : place'[u] \in {"count", "countup"} => at[u] \in Group \ {at[t]}
  BY <1>1 DEF IInv, Owned, Inside
<1>6. \A g \in Group :
          (\A u \in Task : at'[u] = g => place'[u] \notin {"count", "countup"})
              => free'[g] = Cardinality(FreeBits(g)')
  BY <1>1, <1>2, <1>3, <1>4 DEF IInv, Tally
<1>7. \A u \in Task :
          /\ place'[u] = "count" => free'[at'[u]] = Cardinality(FreeBits(at[u])') + 1
          /\ place'[u] = "countup" => free'[at'[u]] = Cardinality(FreeBits(at[u])') - 1
  BY <1>3, <1>4, <1>5 DEF IInv, Tally
<1> QED
  BY <1>6, <1>7 DEF Tally, FreeBits

(* Every step keeps the mutexes and the places of their owners in accord.  *)
LEMMA StepKeepsOwned ==
    ASSUME Sizes, IInv, NEW t \in Task,
           \/ AllocStart(t) \/ Probe(t) \/ LockGroup(t) \/ Search(t) \/ CountDown(t)
           \/ AllocReturn(t) \/ (\E n \in mine[t] : FreeStart(t, n))
           \/ ClearBit(t) \/ CountUp(t) \/ FreeReturn(t)
    PROVE  Owned'
<1> USE DEF Sizes, IInv, Owned, Inside, Waiting, Group, MoveTo
<1>1. CASE AllocStart(t)
  BY <1>1 DEF AllocStart
<1>2. CASE Probe(t)
  <2>1. CASE at[t] = Groups
    <3>1. /\ at' = [at EXCEPT ![t] = 0] /\ place' = [place EXCEPT ![t] = "idle"]
          /\ UNCHANGED <<bit, free, owner>>
      BY <1>2, <2>1 DEF Probe, LeaveCall
    <3> QED
      BY <3>1
  <2>2. CASE at[t] # Groups /\ free[at[t]] = 0
    <3>1. at' = [at EXCEPT ![t] = at[t] + 1] /\ UNCHANGED <<bit, free, owner, place>>
          /\ place[t] = "probe"
      BY <1>2, <2>2 DEF Probe
    <3>2. at[t] + 1 \in 0 .. Groups
      BY <2>2
    <3> QED
      BY <3>1, <3>2
  <2>3. CASE at[t] # Groups /\ free[at[t]] # 0
    <3>1. place' = [place EXCEPT ![t] = "lock"] /\ UNCHANGED <<bit, free, owner, at>>
      BY <1>2, <2>3 DEF Probe
    <3>2. at[t] \in Group
      BY <2>3
    <3> QED
      BY <3>1, <3>2
  <2> QED
    BY <2>1, <2>2, <2>3
<1>3. CASE LockGroup(t)
  BY <1>3 DEF LockGroup
<1>4. CASE Search(t)
  <2> DEFINE i == Lowest(FreeBits(at[t]))
  <2>1. CASE free[at[t]] = 0 \/ FreeBits(at[t]) = {}
    <3>1. /\ owner' = [owner EXCEPT ![at[t]] = NoTask] /\ UNCHANGED <<bit, free>>
          /\ at' = [at EXCEPT ![t] = at[t] + 1] /\ place' = [place EXCEPT ![t] = "probe"]
          /\ place[t] = "search"
      BY <1>4, <2>1 DEF Search, UnlockGroup
    <3>2. at[t] \in Group /\ at[t] + 1 \in 0 .. Groups
      BY <3>1
    <3>3. \A u \in Task \ {t} : place[u] \in Inside => at[u] # at[t]
      BY <3>1
    <3> QED
      BY <3>1, <3>2, <3>3
  <2>2. CASE ~(free[at[t]] = 0 \/ FreeBits(at[t]) = {})
    <3>1. i \in Bit
      <4>1. FreeBits(at[t]) \in SUBSET Bit
        BY DEF FreeBits
      <4> QED
        BY <2>2, <4>1, LowestIn
    <3> HIDE DEF i
    <3>2. bit' = [bit EXCEPT ![at[t]] = @ \union {i}] /\ place' = [place EXCEPT ![t] = "count"]
          /\ UNCHANGED <<owner, at, free>>
      BY <1>4, <2>2 DEF Search, i
    <3> QED
      BY <1>4, <3>1, <3>2 DEF Search
  <2> QED
    BY <2>1, <2>2
<1>5. CASE CountDown(t)
  BY <1>5 DEF CountDown
<1>6. CASE AllocReturn(t)
  BY <1>6 DEF AllocReturn, UnlockGroup, LeaveCall
<1>7. CASE \E n \in mine[t] : FreeStart(t, n)
  <2>1. PICK n \in mine[t] : FreeStart(t, n)
    BY <1>7
  <2> QED
    <3>1. CASE GroupOf(n) \notin Group
      BY <2>1, <3>1 DEF FreeStart
    <3>2. CASE GroupOf(n) \in Group
      <4> DEFINE g == GroupOf(n)
      <4>1. /\ at' = [at EXCEPT ![t] = g] /\ place' = [place EXCEPT ![t] = "freelock"]
            /\ UNCHANGED <<bit, free, owner>>
        BY <2>1, <3>2 DEF FreeStart
      <4>2. g \in Group /\ g \in 0 .. Groups
        BY <3>2
      <4> HIDE DEF g
      <4> QED
        BY <4>1, <4>2
    <3> QED
      BY <3>1, <3>2
<1>8. CASE ClearBit(t)
  <2> DEFINE i == IndexOf(num[t])
  <2>1. CASE i \in bit[at[t]]
    <3>1. /\ bit' = [bit EXCEPT ![at[t]] = @ \ {i}] /\ place' = [place EXCEPT ![t] = "countup"]
          /\ UNCHANGED <<owner, at, free>> /\ place[t] = "clear"
      BY <1>8, <2>1 DEF ClearBit
    <3> HIDE DEF i
    <3> QED
      BY <3>1
  <2>2. CASE i \notin bit[at[t]]
    <3>1. /\ owner' = [owner EXCEPT ![at[t]] = NoTask] /\ UNCHANGED <<bit, free>>
          /\ at' = [at EXCEPT ![t] = 0] /\ place' = [place EXCEPT ![t] = "idle"]
          /\ place[t] = "clear"
      BY <1>8, <2>2 DEF ClearBit, UnlockGroup, LeaveCall
    <3> HIDE DEF i
    <3>2. \A u \in Task \ {t} : place[u] \in Inside => at[u] # at[t]
      BY <3>1
    <3> QED
      BY <3>1, <3>2
  <2> QED
    BY <2>1, <2>2
<1>9. CASE CountUp(t)
  BY <1>9 DEF CountUp
<1>10. CASE FreeReturn(t)
  BY <1>10 DEF FreeReturn, UnlockGroup, LeaveCall
<1> QED
  BY <1>1, <1>2, <1>3, <1>4, <1>5, <1>6, <1>7, <1>8, <1>9, <1>10

(* Every step keeps the tally.                                             *)
LEMMA StepKeepsTally ==
    ASSUME Sizes, IInv, NEW t \in Task,
           \/ AllocStart(t) \/ Probe(t) \/ LockGroup(t) \/ Search(t) \/ CountDown(t)
           \/ AllocReturn(t) \/ (\E n \in mine[t] : FreeStart(t, n))
           \/ ClearBit(t) \/ CountUp(t) \/ FreeReturn(t)
    PROVE  Tally'
<1>0. /\ place \in [Task -> Inside \union Waiting \union {"idle", "probe"}]
      /\ at \in [Task -> 0 .. Groups]
      /\ place[t] \in Inside => at[t] \in Group /\ bit[at[t]] \in SUBSET Bit
  BY DEF IInv, Owned
<1>f. /\ IsFiniteSet(FreeBits(at[t]))
      /\ Cardinality(FreeBits(at[t])) \in Nat
  BY FiniteBits DEF FreeBits
<1>1. CASE AllocStart(t)
  BY <1>0, <1>1, MoveKeepsTally DEF AllocStart, MoveTo
<1>2. CASE Probe(t)
  BY <1>0, <1>2, MoveKeepsTally DEF Probe, LeaveCall, MoveTo
<1>3. CASE LockGroup(t)
  BY <1>0, <1>3, MoveKeepsTally DEF LockGroup, MoveTo
<1>4. CASE Search(t)
  <2> DEFINE i == Lowest(FreeBits(at[t]))
             B == bit[at[t]] \union {i}
  <2>1. CASE free[at[t]] = 0 \/ FreeBits(at[t]) = {}
    BY <1>0, <1>4, <2>1, MoveKeepsTally DEF Search, MoveTo
  <2>2. CASE ~(free[at[t]] = 0 \/ FreeBits(at[t]) = {})
    <3>1. i \in FreeBits(at[t]) /\ i \in Bit
      BY <2>2, LowestIn DEF FreeBits
    <3>2. /\ bit' = [bit EXCEPT ![at[t]] = B] /\ place' = [place EXCEPT ![t] = "count"]
          /\ UNCHANGED <<at, free>> /\ place[t] = "search"
      BY <1>4, <2>2 DEF Search, MoveTo
    <3> HIDE DEF i
    <3>3. B \in SUBSET Bit /\ Bit \ B = FreeBits(at[t]) \ {i}
      BY <1>0, <3>1, <3>2 DEF FreeBits, Inside
    <3>4. Cardinality(Bit \ B) = Cardinality(FreeBits(at[t])) - 1
      BY <1>f, <3>1, <3>3, FS_RemoveElement, Zenon
    <3> HIDE DEF B
    <3>5. place'[t] = "count" /\ \A u \in Task \ {t} : place'[u] = place[u]
      BY <1>0, <3>2
    <3> QED
      BY <1>f, <3>2, <3>3, <3>4, <3>5, BitKeepsTally, Zenon
  <2> QED
    BY <2>1, <2>2
<1>5. CASE CountDown(t)
  <2>1. /\ free' = [free EXCEPT ![at[t]] = IF place[t] = "count" THEN @ - 1 ELSE @ + 1]
        /\ place[t] = "count" /\ place'[t] = "return" /\ UNCHANGED <<bit, at>>
        /\ \A u \in Task \ {t} : place'[u] = place[u]
    BY <1>0, <1>5 DEF CountDown, MoveTo
  <2> QED
    BY <1>f, <2>1, CountKeepsTally, Zenon
<1>6. CASE AllocReturn(t)
  BY <1>0, <1>6, MoveKeepsTally DEF AllocReturn, LeaveCall, MoveTo
<1>7. CASE \E n \in mine[t] : FreeStart(t, n)
  <2>1. PICK n \in mine[t] : FreeStart(t, n)
    BY <1>7
  <2> QED
    BY <1>0, <2>1, MoveKeepsTally DEF FreeStart, MoveTo
<1>8. CASE ClearBit(t)
  <2> DEFINE i == IndexOf(num[t])
             B == bit[at[t]] \ {i}
  <2>1. CASE i \notin bit[at[t]]
    BY <1>0, <1>8, <2>1, MoveKeepsTally DEF ClearBit, LeaveCall, MoveTo
  <2>2. CASE i \in bit[at[t]]
    <3>2. /\ bit' = [bit EXCEPT ![at[t]] = B] /\ place' = [place EXCEPT ![t] = "countup"]
          /\ UNCHANGED <<at, free>> /\ place[t] = "clear"
      BY <1>8, <2>2 DEF ClearBit, MoveTo
    <3> HIDE DEF i
    <3>3. /\ B \in SUBSET Bit /\ i \notin FreeBits(at[t])
          /\ Bit \ B = FreeBits(at[t]) \union {i}
      BY <1>0, <2>2, <3>2 DEF FreeBits, Inside
    <3>4. Cardinality(Bit \ B) = Cardinality(FreeBits(at[t])) + 1
      BY <1>f, <3>3, FS_AddElement, Zenon
    <3> HIDE DEF B
    <3>5. place'[t] = "countup" /\ \A u \in Task \ {t} : place'[u] = place[u]
      BY <1>0, <3>2
    <3> QED
      BY <1>f, <3>2, <3>3, <3>4, <3>5, BitKeepsTally, Zenon
  <2> QED
    BY <2>1, <2>2
<1>9. CASE CountUp(t)
  <2>1. /\ free' = [free EXCEPT ![at[t]] = IF place[t] = "count" THEN @ - 1 ELSE @ + 1]
        /\ place[t] = "countup" /\ place'[t] = "freed" /\ UNCHANGED <<bit, at>>
        /\ \A u \in Task \ {t} : place'[u] = place[u]
    BY <1>0, <1>9 DEF CountUp, MoveTo
  <2> QED
    BY <1>f, <2>1, CountKeepsTally, Zenon
<1>10. CASE FreeReturn(t)
  BY <1>0, <1>10, MoveKeepsTally DEF FreeReturn, LeaveCall, MoveTo
<1> QED
  BY <1>1, <1>2, <1>3, <1>4, <1>5, <1>6, <1>7, <1>8, <1>9, <1>10

(* The counts are exact at the start, and every step keeps the invariant.  *)
LEMMA CountsInit == Sizes /\ AllocInit => IInv
<1> SUFFICES ASSUME Sizes, AllocInit PROVE IInv
  OBVIOUS
<1>1. Owned
  BY DEF AllocInit, Owned, Inside, Waiting, Group, Sizes
<1>2. ASSUME NEW g \in Group PROVE free[g] = Cardinality(FreeBits(g))
  <2>1. FreeBits(g) = 0 .. PerGroup - 1 /\ free[g] = PerGroup
    BY DEF AllocInit, FreeBits, Bit
  <2> QED
    BY <2>1, FS_Interval DEF Sizes
<1> QED
  BY <1>1, <1>2 DEF IInv, Tally, AllocInit

LEMMA CountsInductive == Sizes /\ IInv /\ [AllocNext]_allocVars => IInv'
<1> SUFFICES ASSUME Sizes, IInv, [AllocNext]_allocVars PROVE IInv'
  OBVIOUS
<1>1. CASE AllocNext
  BY <1>1, StepKeepsOwned, StepKeepsTally DEF AllocNext, IInv
<1>2. CASE UNCHANGED allocVars
  BY <1>2 DEF allocVars, IInv, Owned, Tally, FreeBits
<1> QED
  BY <1>1, <1>2

(* ext2_alloc_block, ext2_alloc_inode and the frees keep the count of      *)
(* every group equal to its number of clear bits whenever its mutex is     *)
(* free, for any number of tasks, groups and bits per group.               *)
THEOREM CountsStayExact ==
    ASSUME Sizes
    PROVE  AllocSpec => []CountsExact
<1>1. IInv => CountsExact
  BY DEF IInv, Owned, Tally, CountsExact, Inside, Sizes
<1> QED
  BY <1>1, CountsInit, CountsInductive, PTL DEF AllocSpec

-----------------------------------------------------------------------------
(* One user per number.                                                    *)

Taking == {"count", "return", "freelock", "clear"}
Numbers == {NumberOf(g, i) : g \in Group, i \in Bit}

(* What a call knows of the number it works on: it stands in the number's  *)
(* group, and the number is not also one that the task has.                *)
Linked ==
    /\ what \in {"block", "inode"}
    /\ num \in [Task -> Int]
    /\ mine \in [Task -> SUBSET Int]
    /\ \A t \in Task : Uses(t) \subseteq Numbers
    /\ \A t \in Task : place[t] \in Taking => num[t] \notin mine[t] /\ GroupOf(num[t]) = at[t]

(* The inductive invariant behind OneUserPerNumber.                        *)
UInv == IInv /\ Linked /\ OneUserPerNumber

(* The frees find the group and the bit that the allocation took.          *)
LEMMA NumberIsFoundAgain ==
    ASSUME Sizes, FirstData \in Int, what \in {"block", "inode"},
           NEW g \in Group, NEW i \in Bit
    PROVE  /\ NumberOf(g, i) \in Int
           /\ GroupOf(NumberOf(g, i)) = g
           /\ IndexOf(NumberOf(g, i)) = i
<1> DEFINE first == IF what = "block" THEN FirstData ELSE 1
<1>1. g \in Nat /\ i \in 0 .. PerGroup - 1 /\ PerGroup \in Nat /\ first \in Int
  BY DEF Sizes, Group, Bit
<1>2. (g * PerGroup + i) \div PerGroup = g /\ (g * PerGroup + i) % PerGroup = i
  BY <1>1
<1>3. g * PerGroup \in Int
  BY <1>1
<1>4. NumberOf(g, i) = g * PerGroup + i + first
  BY DEF NumberOf
<1> HIDE DEF first
<1>5. NumberOf(g, i) - first = g * PerGroup + i /\ NumberOf(g, i) \in Int
  BY <1>1, <1>3, <1>4
<1>6. GroupOf(NumberOf(g, i)) = g
  BY <1>2, <1>5 DEF GroupOf, first
<1>7. CASE what = "block"
  <2>1. IndexOf(NumberOf(g, i)) = NumberOf(g, i) - (g * PerGroup + first)
    BY <1>6, <1>7 DEF IndexOf, first
  <2> QED
    BY <1>1, <1>3, <1>4, <1>5, <1>6, <2>1
<1>8. CASE what = "inode"
  BY <1>2, <1>5, <1>6, <1>8 DEF IndexOf, first
<1> QED
  BY <1>7, <1>8

(* A step that leaves the bits and everybody's numbers alone.              *)
LEMMA SameUsersKeepOne ==
    ASSUME UInv, UNCHANGED <<what, bit>>, \A u \in Task : Uses(u)' = Uses(u)
    PROVE  OneUserPerNumber' /\ \A u \in Task : Uses(u)' \subseteq Numbers'
<1>1. \A g \in Group, i \in Bit : NumberOf(g, i)' = NumberOf(g, i)
  BY DEF NumberOf
<1>2. Numbers' = Numbers
  BY <1>1 DEF Numbers
<1> HIDE DEF Numbers
<1>3. \A g \in Group, i \in Bit :
          i \in bit'[g] <=> \E u \in Task : NumberOf(g, i)' \in Uses(u)'
  BY <1>1 DEF UInv, OneUserPerNumber
<1>4. \A t, u \in Task : t # u => Uses(t)' \intersect Uses(u)' = {}
  BY DEF UInv, OneUserPerNumber
<1> QED
  BY <1>2, <1>3, <1>4 DEF UInv, Linked, OneUserPerNumber

(* A step of task t that sets bit i of group g and takes its number, which *)
(* nobody uses while the bit is clear.                                     *)
LEMMA TakingKeepsOne ==
    ASSUME Sizes, FirstData \in Int, UInv, NEW t \in Task, NEW g \in Group,
           NEW i \in Bit, i \notin bit[g], UNCHANGED what,
           bit' = [bit EXCEPT ![g] = @ \union {i}],
           Uses(t)' = Uses(t) \union {NumberOf(g, i)},
           \A u \in Task \ {t} : Uses(u)' = Uses(u)
    PROVE  OneUserPerNumber' /\ \A u \in Task : Uses(u)' \subseteq Numbers'
<1>1. \A h \in Group, j \in Bit : NumberOf(h, j)' = NumberOf(h, j)
  BY DEF NumberOf
<1>2. Numbers' = Numbers /\ NumberOf(g, i) \in Numbers
  BY <1>1 DEF Numbers
<1>3. \A u \in Task : NumberOf(g, i) \notin Uses(u)
  BY DEF UInv, OneUserPerNumber
<1>4. \A h \in Group, j \in Bit : NumberOf(h, j) = NumberOf(g, i) => h = g /\ j = i
  BY NumberIsFoundAgain DEF UInv, Linked
<1>5. \A h \in Group, j \in Bit : j \in bit'[h] <=> j \in bit[h] \/ (h = g /\ j = i)
  BY DEF UInv, IInv, Owned
<1>6. \A h \in Group, j \in Bit :
          (\E u \in Task : NumberOf(h, j) \in Uses(u)')
             <=> (\E u \in Task : NumberOf(h, j) \in Uses(u)) \/ NumberOf(h, j) = NumberOf(g, i)
  OBVIOUS
<1>7. \A h \in Group, j \in Bit :
          j \in bit'[h] <=> \E u \in Task : NumberOf(h, j)' \in Uses(u)'
  BY <1>1, <1>4, <1>5, <1>6 DEF UInv, OneUserPerNumber
<1>8. \A u, v \in Task : u # v => Uses(u)' \intersect Uses(v)' = {}
  BY <1>3 DEF UInv, OneUserPerNumber
<1>9. \A u \in Task : Uses(u)' \subseteq Numbers'
  BY <1>2 DEF UInv, Linked
<1> QED
  BY <1>7, <1>8, <1>9 DEF OneUserPerNumber

(* A step of task t that clears bit i of group g and drops its number,     *)
(* which t alone uses.                                                     *)
LEMMA DroppingKeepsOne ==
    ASSUME Sizes, FirstData \in Int, UInv, NEW t \in Task, NEW g \in Group,
           NEW i \in Bit, NumberOf(g, i) \in Uses(t), UNCHANGED what,
           bit' = [bit EXCEPT ![g] = @ \ {i}],
           Uses(t)' = Uses(t) \ {NumberOf(g, i)},
           \A u \in Task \ {t} : Uses(u)' = Uses(u)
    PROVE  OneUserPerNumber' /\ \A u \in Task : Uses(u)' \subseteq Numbers'
<1>1. \A h \in Group, j \in Bit : NumberOf(h, j)' = NumberOf(h, j)
  BY DEF NumberOf
<1>2. Numbers' = Numbers
  BY <1>1 DEF Numbers
<1>3. \A u \in Task \ {t} : NumberOf(g, i) \notin Uses(u)
  BY DEF UInv, OneUserPerNumber
<1>4. \A h \in Group, j \in Bit : NumberOf(h, j) = NumberOf(g, i) => h = g /\ j = i
  BY NumberIsFoundAgain DEF UInv, Linked
<1>5. \A h \in Group, j \in Bit : j \in bit'[h] <=> j \in bit[h] /\ ~(h = g /\ j = i)
  BY DEF UInv, IInv, Owned
<1>6. \A h \in Group, j \in Bit :
          (\E u \in Task : NumberOf(h, j) \in Uses(u)')
             <=> (\E u \in Task : NumberOf(h, j) \in Uses(u)) /\ NumberOf(h, j) # NumberOf(g, i)
  BY <1>3
<1>7. \A h \in Group, j \in Bit :
          j \in bit'[h] <=> \E u \in Task : NumberOf(h, j)' \in Uses(u)'
  BY <1>1, <1>4, <1>5, <1>6 DEF UInv, OneUserPerNumber
<1>8. \A u, v \in Task : u # v => Uses(u)' \intersect Uses(v)' = {}
  BY DEF UInv, OneUserPerNumber
<1>9. \A u \in Task : Uses(u)' \subseteq Numbers'
  BY <1>2 DEF UInv, Linked
<1> QED
  BY <1>7, <1>8, <1>9 DEF OneUserPerNumber

(* Every step keeps the numbers apart: one that changes no bit changes no  *)
(* task's numbers either.                                                  *)
LEMMA StepKeepsUsers ==
    ASSUME Sizes, FirstData \in Int, UInv, NEW t \in Task,
           \/ AllocStart(t) \/ Probe(t) \/ LockGroup(t) \/ Search(t) \/ CountDown(t)
           \/ AllocReturn(t) \/ (\E n \in mine[t] : FreeStart(t, n))
           \/ ClearBit(t) \/ CountUp(t) \/ FreeReturn(t)
    PROVE  Linked' /\ OneUserPerNumber'
<1>0. /\ place \in [Task -> Inside \union Waiting \union {"idle", "probe"}]
      /\ at \in [Task -> 0 .. Groups] /\ num \in [Task -> Int] /\ mine \in [Task -> SUBSET Int]
      /\ bit \in [Group -> SUBSET Bit] /\ what \in {"block", "inode"}
      /\ place[t] \in Inside \union Waiting => at[t] \in Group
      /\ place[t] \in Taking => num[t] \notin mine[t] /\ GroupOf(num[t]) = at[t]
      /\ \A u \in Task : place[u] \in Taking => num[u] \notin mine[u] /\ GroupOf(num[u]) = at[u]
  BY DEF UInv, IInv, Owned, Linked
<1>w. UNCHANGED what /\ \A n : GroupOf(n)' = GroupOf(n)
  BY DEF AllocStart, Probe, LockGroup, Search, CountDown, AllocReturn, FreeStart, ClearBit,
         CountUp, FreeReturn, GroupOf
<1>u. \A u \in Task : Uses(u) \subseteq Numbers
  BY DEF UInv, Linked
(* What is left to show of a step, once the numbers are known.             *)
<1> DEFINE Shape ==
       /\ num' \in [Task -> Int] /\ mine' \in [Task -> SUBSET Int]
       /\ place'[t] \in Taking => num'[t] \notin mine'[t] /\ GroupOf(num'[t]) = at'[t]
       /\ \A u \in Task \ {t} :
             place'[u] = place[u] /\ at'[u] = at[u] /\ num'[u] = num[u] /\ mine'[u] = mine[u]
<1>q. ASSUME Shape, OneUserPerNumber' /\ \A u \in Task : Uses(u)' \subseteq Numbers'
      PROVE  Linked' /\ OneUserPerNumber'
  <2>1. \A u \in Task : GroupOf(num[u])' = GroupOf(num'[u])
    BY <1>w, ZenonT(30) DEF GroupOf
  <2>2. \A u \in Task : place'[u] \in Taking => num'[u] \notin mine'[u] /\ GroupOf(num'[u]) = at'[u]
    BY <1>0, <1>q, ZenonT(30)
  <2> QED
    BY <1>0, <1>q, <1>w, <2>1, <2>2 DEF Linked
<1>o. ASSUME Shape PROVE \A u \in Task \ {t} : Uses(u)' = Uses(u)
  <2> TAKE u \in Task \ {t}
  <2>1. place'[u] = place[u] /\ num'[u] = num[u] /\ mine'[u] = mine[u]
    BY <1>o, Zenon
  <2> QED
    BY <2>1, Zenon DEF Uses
<1>s. ASSUME Shape, UNCHANGED bit, Uses(t)' = Uses(t)
      PROVE  Linked' /\ OneUserPerNumber'
  <2>1. \A u \in Task : Uses(u)' = Uses(u)
    BY <1>o, <1>s, Zenon
  <2> QED
    BY <1>q, <1>s, <1>w, <2>1, SameUsersKeepOne, ZenonT(30)
<1> HIDE DEF Shape
<1>1. CASE AllocStart(t)
  <2>1. Shape /\ UNCHANGED bit /\ Uses(t)' = Uses(t)
    BY <1>0, <1>1 DEF Shape, AllocStart, MoveTo, Uses, Taking
  <2> QED
    BY <1>s, <2>1, Zenon
<1>2. CASE Probe(t)
  <2>1. Shape /\ UNCHANGED bit /\ Uses(t)' = Uses(t)
    BY <1>0, <1>2 DEF Shape, Probe, LeaveCall, MoveTo, Uses, Taking
  <2> QED
    BY <1>s, <2>1, Zenon
<1>3. CASE LockGroup(t)
  <2>1. Shape /\ UNCHANGED bit /\ Uses(t)' = Uses(t)
    BY <1>0, <1>3 DEF Shape, LockGroup, MoveTo, Uses, Taking
  <2> QED
    BY <1>s, <2>1, Zenon
<1>4. CASE Search(t)
  <2> DEFINE i == Lowest(FreeBits(at[t]))
  <2>1. CASE free[at[t]] = 0 \/ FreeBits(at[t]) = {}
    <3>1. Shape /\ UNCHANGED bit /\ Uses(t)' = Uses(t)
      BY <1>0, <1>4, <2>1 DEF Shape, Search, UnlockGroup, MoveTo, Uses, Taking
    <3> QED
      BY <1>s, <3>1, Zenon
  <2>2. CASE ~(free[at[t]] = 0 \/ FreeBits(at[t]) = {})
    <3>1. i \in FreeBits(at[t]) /\ i \in Bit
      BY <2>2, LowestIn, Zenon DEF FreeBits
    <3>2. /\ bit' = [bit EXCEPT ![at[t]] = @ \union {i}] /\ place' = [place EXCEPT ![t] = "count"]
          /\ num' = [num EXCEPT ![t] = NumberOf(at[t], i)] /\ UNCHANGED <<at, mine>>
          /\ place[t] = "search" /\ at[t] \in Group
      BY <1>0, <1>4, <2>2 DEF Search, MoveTo, Inside
    <3>3. i \notin bit[at[t]]
      BY <3>1, Zenon DEF FreeBits
    <3> HIDE DEF i
    <3>4. /\ NumberOf(at[t], i) \in Int /\ GroupOf(NumberOf(at[t], i)) = at[t]
          /\ NumberOf(at[t], i) \notin Uses(t)
      BY <1>0, <3>1, <3>2, <3>3, NumberIsFoundAgain DEF UInv, OneUserPerNumber
    <3>5. Uses(t) = mine[t] /\ Uses(t)' = Uses(t) \union {NumberOf(at[t], i)}
      BY <1>0, <3>2 DEF Uses
    <3>6. Shape
      BY <1>0, <3>2, <3>4, <3>5 DEF Shape
    <3>7. \A u \in Task \ {t} : Uses(u)' = Uses(u)
      BY <1>o, <3>6, Zenon
    <3> QED
      BY <1>q, <1>w, <3>1, <3>2, <3>3, <3>5, <3>6, <3>7, TakingKeepsOne, ZenonT(30)
  <2> QED
    BY <2>1, <2>2, Zenon
<1>5. CASE CountDown(t)
  <2>1. Shape /\ UNCHANGED bit /\ Uses(t)' = Uses(t)
    BY <1>0, <1>5 DEF Shape, CountDown, MoveTo, Uses, Taking
  <2> QED
    BY <1>s, <2>1, Zenon
<1>6. CASE AllocReturn(t)
  <2>1. Shape /\ UNCHANGED bit /\ Uses(t)' = Uses(t)
    BY <1>0, <1>6 DEF Shape, AllocReturn, LeaveCall, MoveTo, Uses, Taking
  <2> QED
    BY <1>s, <2>1, Zenon
<1>7. CASE \E n \in mine[t] : FreeStart(t, n)
  <2>1. PICK n \in mine[t] : FreeStart(t, n)
    BY <1>7
  <2>2. place[t] = "idle" /\ Uses(t) = mine[t]
    BY <2>1 DEF FreeStart, Uses
  <2>n. n \in Numbers
    BY <1>u, <2>1, <2>2, Zenon
  <2>3. PICK g \in Group, i \in Bit : n = NumberOf(g, i)
    BY <2>n DEF Numbers
  <2>4. GroupOf(n) = g /\ n \in Int
    BY <1>0, <2>3, NumberIsFoundAgain
  <2>5. /\ place' = [place EXCEPT ![t] = "freelock"] /\ at' = [at EXCEPT ![t] = g]
        /\ num' = [num EXCEPT ![t] = n] /\ mine' = [mine EXCEPT ![t] = @ \ {n}] /\ UNCHANGED bit
    BY <2>1, <2>4 DEF FreeStart, MoveTo
  <2>6. Uses(t)' = Uses(t)
    BY <1>0, <2>1, <2>2, <2>5 DEF Uses
  <2>7. Shape
    BY <1>0, <2>4, <2>5 DEF Shape
  <2> QED
    BY <1>s, <2>5, <2>6, <2>7, Zenon
<1>8. CASE ClearBit(t)
  <2>1. place[t] = "clear" /\ num[t] \in Uses(t) /\ at[t] \in Group
    BY <1>0, <1>8 DEF ClearBit, Uses, Inside
  <2>n. num[t] \in Numbers
    BY <1>u, <2>1, Zenon
  <2>2. PICK g \in Group, i \in Bit : num[t] = NumberOf(g, i)
    BY <2>n DEF Numbers
  <2>3. g = at[t] /\ IndexOf(num[t]) = i
    BY <1>0, <2>1, <2>2, NumberIsFoundAgain DEF Taking
  <2>4. i \in bit[g]
    <3>1. OneUserPerNumber
      BY Zenon DEF UInv
    <3>2. i \in bit[g] <=> \E u \in Task : NumberOf(g, i) \in Uses(u)
      BY <3>1, Zenon DEF OneUserPerNumber
    <3> QED
      BY <2>1, <2>2, <3>2, Zenon
  <2>5. /\ bit' = [bit EXCEPT ![g] = @ \ {i}] /\ place' = [place EXCEPT ![t] = "countup"]
        /\ UNCHANGED <<at, num, mine>>
    BY <1>8, <2>3, <2>4, Zenon DEF ClearBit, MoveTo
  <2>6. Uses(t)' = Uses(t) \ {NumberOf(g, i)}
    BY <1>0, <2>1, <2>2, <2>5 DEF Uses, Taking
  <2>7. Shape
    BY <1>0, <2>5 DEF Shape, Taking
  <2>8. \A u \in Task \ {t} : Uses(u)' = Uses(u)
    BY <1>o, <2>7, Zenon
  <2>9. OneUserPerNumber' /\ \A u \in Task : Uses(u)' \subseteq Numbers'
    <3>1. NumberOf(g, i) \in Uses(t) /\ UNCHANGED what /\ bit' = [bit EXCEPT ![g] = @ \ {i}]
      BY <1>w, <2>1, <2>2, <2>5, Zenon
    <3> QED
      BY <2>6, <2>8, <3>1, DroppingKeepsOne, ZenonT(30)
  <2> QED
    BY <1>q, <2>7, <2>9, Zenon
<1>9. CASE CountUp(t)
  <2>1. Shape /\ UNCHANGED bit /\ Uses(t)' = Uses(t)
    BY <1>0, <1>9 DEF Shape, CountUp, MoveTo, Uses, Taking
  <2> QED
    BY <1>s, <2>1, Zenon
<1>10. CASE FreeReturn(t)
  <2>1. Shape /\ UNCHANGED bit /\ Uses(t)' = Uses(t)
    BY <1>0, <1>10 DEF Shape, FreeReturn, LeaveCall, MoveTo, Uses, Taking
  <2> QED
    BY <1>s, <2>1, Zenon
<1> QED
  BY <1>1, <1>2, <1>3, <1>4, <1>5, <1>6, <1>7, <1>8, <1>9, <1>10

(* ext2_alloc_block, ext2_alloc_inode and the frees: a bit is set exactly  *)
(* while one task uses its number, for any number of tasks, groups and     *)
(* bits per group and wherever the data blocks start.  Two callers never   *)
(* get the same block, none is lost, and a free clears the bit that the    *)
(* allocation set.                                                         *)
THEOREM NumbersHaveOneUser ==
    ASSUME Sizes, FirstData \in Int
    PROVE  AllocSpec => []OneUserPerNumber
<1>1. AllocInit => UInv
  <2> SUFFICES ASSUME AllocInit PROVE UInv
    OBVIOUS
  <2>1. \A t \in Task : Uses(t) = {} /\ place[t] = "idle"
    BY DEF AllocInit, Uses
  <2>2. Linked
    BY <2>1 DEF AllocInit, Linked, Taking
  <2>3. OneUserPerNumber
    BY <2>1 DEF AllocInit, OneUserPerNumber
  <2> QED
    BY <2>2, <2>3, CountsInit DEF UInv
<1>2. UInv /\ [AllocNext]_allocVars => UInv'
  <2> SUFFICES ASSUME UInv, [AllocNext]_allocVars PROVE UInv'
    OBVIOUS
  <2>1. IInv'
    BY CountsInductive DEF UInv
  <2>2. CASE AllocNext
    BY <2>1, <2>2, StepKeepsUsers DEF AllocNext, UInv
  <2>3. CASE UNCHANGED allocVars
    <3>1. (\A t \in Task : Uses(t)' = Uses(t)) /\ UNCHANGED <<what, bit>>
      BY <2>3 DEF allocVars, Uses
    <3> QED
      BY <2>1, <2>3, <3>1, SameUsersKeepOne DEF allocVars, UInv, Linked, GroupOf
  <2> QED
    BY <2>2, <2>3
<1>3. UInv => OneUserPerNumber
  BY DEF UInv
<1> QED
  BY <1>1, <1>2, <1>3, PTL DEF AllocSpec
=============================================================================
