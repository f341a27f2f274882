----------------------------- MODULE Ext2Alloc -----------------------------
(***************************************************************************)
(* Allocation of block and inode numbers in ext2 (src/fs/ext2.c): a bitmap *)
(* and a count of clear bits per group, changed under the group's mutex    *)
(* and looked at before without it.  The mutex is held over the write of   *)
(* the bitmap, so other tasks run meanwhile.  The total in the super block *)
(* is left out: nothing in the kernel reads it.                            *)
(***************************************************************************)
EXTENDS Integers, FiniteSets, Minimum

CONSTANTS Task,
          Groups,      \* number of groups
          PerGroup,    \* bits of a group
          FirstData,   \* s_first_data_block
          NoTask

VARIABLES what,        \* "block" or "inode": the two copies of the code
          bit,         \* the set bits of every group
          free,       \* bg_free_blocks_count or bg_free_inodes_count
          owner,       \* who holds the mutex of a group
          place,          \* where every task stands
          at,          \* the group it looks at
          num,         \* the number it takes or gives back
          mine         \* the numbers it has

allocVars == <<what, bit, free, owner, place, at, num, mine>>

Group == 0 .. Groups - 1
Bit == 0 .. PerGroup - 1
FreeBits(g) == Bit \ bit[g]
AllocInit ==
    /\ what \in {"block", "inode"}
    /\ bit = [g \in Group |-> {}]
    /\ free = [g \in Group |-> PerGroup]
    /\ owner = [g \in Group |-> NoTask]
    /\ place = [t \in Task |-> "idle"]
    /\ at = [t \in Task |-> 0]
    /\ num = [t \in Task |-> 0]
    /\ mine = [t \in Task |-> {}]

\* The number of bit i of group g.
NumberOf(g, i) == g * PerGroup + i + IF what = "block" THEN FirstData ELSE 1

\* Where ext2_free_block and ext2_free_inode look for a number.
GroupOf(n) == (n - IF what = "block" THEN FirstData ELSE 1) \div PerGroup
\* mutation: inode numbers are taken to start at 0
IndexOf_FromZero(n) ==
    IF what = "block" THEN n - (GroupOf(n) * PerGroup + FirstData) ELSE n % PerGroup

IndexOf(n) ==
    IF what = "block" THEN n - (GroupOf(n) * PerGroup + FirstData) ELSE (n - 1) % PerGroup

----------------------------------------------------------------------------
MoveTo(t, where) == place' = [place EXCEPT ![t] = where]
UnlockGroup(t) == owner' = [owner EXCEPT ![at[t]] = NoTask]

\* A call ends and its local variables with it.
LeaveCall(t) ==
    /\ MoveTo(t, "idle")
    /\ at' = [at EXCEPT ![t] = 0]
    /\ num' = [num EXCEPT ![t] = 0]

\* ext2_alloc_block or ext2_alloc_inode is called.
AllocStart(t) ==
    /\ place[t] = "idle"
    /\ at' = [at EXCEPT ![t] = 0]
    /\ MoveTo(t, "probe")
    /\ UNCHANGED <<what, bit, free, owner, num, mine>>

\* The count is read without the mutex; behind the last group it fails.
Probe(t) ==
    /\ place[t] = "probe"
    /\ IF at[t] = Groups THEN LeaveCall(t)
       ELSE IF free[at[t]] = 0 THEN at' = [at EXCEPT ![t] = @ + 1] /\ UNCHANGED <<place, num>>
       ELSE MoveTo(t, "lock") /\ UNCHANGED <<at, num>>
    /\ UNCHANGED <<what, bit, free, owner, mine>>

\* mutation: the mutex is not waited for
LockGroup_NoWait(t) ==
    /\ place[t] \in {"lock", "freelock"}
    /\ owner' = [owner EXCEPT ![at[t]] = t]
    /\ MoveTo(t, IF place[t] = "lock" THEN "search" ELSE "clear")
    /\ UNCHANGED <<what, bit, free, at, num, mine>>

LockGroup(t) ==
    /\ place[t] \in {"lock", "freelock"}
    /\ owner[at[t]] = NoTask
    /\ owner' = [owner EXCEPT ![at[t]] = t]
    /\ MoveTo(t, IF place[t] = "lock" THEN "search" ELSE "clear")
    /\ UNCHANGED <<what, bit, free, at, num, mine>>

\* Second look at the count, then the first clear bit is set.
Search(t) ==
    LET g == at[t]
        i == Lowest(FreeBits(g))
    IN  /\ place[t] = "search"
        /\ IF free[g] = 0 \/ FreeBits(g) = {}
           THEN /\ UnlockGroup(t)
                /\ at' = [at EXCEPT ![t] = @ + 1]
                /\ MoveTo(t, "probe")
                /\ UNCHANGED <<bit, num>>
           ELSE /\ bit' = [bit EXCEPT ![g] = @ \union {i}]
                /\ num' = [num EXCEPT ![t] = NumberOf(g, i)]
                /\ MoveTo(t, "count")
                /\ UNCHANGED <<owner, at>>
        /\ UNCHANGED <<what, free, mine>>

CountDown(t) ==
    /\ place[t] = "count"
    /\ free' = [free EXCEPT ![at[t]] = @ - 1]
    /\ MoveTo(t, "return")
    /\ UNCHANGED <<what, bit, owner, at, num, mine>>

\* The bitmap has been written.
AllocReturn(t) ==
    /\ place[t] = "return"
    /\ UnlockGroup(t)
    /\ mine' = [mine EXCEPT ![t] = @ \union {num[t]}]
    /\ LeaveCall(t)
    /\ UNCHANGED <<what, bit, free>>

\* ext2_free_block or ext2_free_inode is called with a number in use.
FreeStart(t, n) ==
    /\ place[t] = "idle" /\ n \in mine[t]
    /\ mine' = [mine EXCEPT ![t] = @ \ {n}]
    /\ IF GroupOf(n) \notin Group
       THEN UNCHANGED <<at, place, num>>
       ELSE /\ at' = [at EXCEPT ![t] = GroupOf(n)]
            /\ num' = [num EXCEPT ![t] = n]
            /\ MoveTo(t, "freelock")
    /\ UNCHANGED <<what, bit, free, owner>>

ClearBit(t) ==
    /\ place[t] = "clear"
    /\ IF IndexOf(num[t]) \in bit[at[t]]
       THEN /\ bit' = [bit EXCEPT ![at[t]] = @ \ {IndexOf(num[t])}]
            /\ MoveTo(t, "countup")
            /\ UNCHANGED <<owner, at, num>>
       ELSE UnlockGroup(t) /\ LeaveCall(t) /\ UNCHANGED bit
    /\ UNCHANGED <<what, free, mine>>

CountUp(t) ==
    /\ place[t] = "countup"
    /\ free' = [free EXCEPT ![at[t]] = @ + 1]
    /\ MoveTo(t, "freed")
    /\ UNCHANGED <<what, bit, owner, at, num, mine>>

FreeReturn(t) ==
    /\ place[t] = "freed"
    /\ UnlockGroup(t)
    /\ LeaveCall(t)
    /\ UNCHANGED <<what, bit, free, mine>>

AllocNext ==
    \E t \in Task :
        \/ AllocStart(t)
        \/ Probe(t)
        \/ LockGroup(t)
        \/ Search(t)
        \/ CountDown(t)
        \/ AllocReturn(t)
        \/ \E n \in mine[t] : FreeStart(t, n)
        \/ ClearBit(t)
        \/ CountUp(t)
        \/ FreeReturn(t)

AllocSpec == AllocInit /\ [][AllocNext]_allocVars

----------------------------------------------------------------------------
(* Properties.                                                             *)

AllocTypeOK ==
    /\ what \in {"block", "inode"}
    /\ bit \in [Group -> SUBSET Bit]
    /\ free \in [Group -> 0 .. PerGroup]
    /\ owner \in [Group -> Task \union {NoTask}]
    /\ at \in [Task -> 0 .. Groups]
    /\ \A t \in Task : mine[t] \subseteq {NumberOf(g, i) : g \in Group, i \in Bit}

\* The numbers of a task: those it has and the one it is taking or giving.
Uses(t) ==
    mine[t] \union IF place[t] \in {"count", "return", "freelock", "clear"} THEN {num[t]} ELSE {}

\* A bit is set exactly while one task has its number: two tasks never get
\* the same block or inode, none is lost, and a free clears the bit that
\* the allocation set, whichever group it was found in.
OneUserPerNumber ==
    /\ \A g \in Group, i \in Bit :
          i \in bit[g] <=> \E t \in Task : NumberOf(g, i) \in Uses(t)
    /\ \A t, u \in Task : t # u => Uses(t) \intersect Uses(u) = {}

\* The count of a group is its number of clear bits whenever its mutex is
\* free, so the count that the next task finds before and under the mutex
\* says truly whether the search will succeed.
CountsExact ==
    \A g \in Group : owner[g] = NoTask => free[g] = Cardinality(FreeBits(g))
=============================================================================
