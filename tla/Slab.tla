-------------------------------- MODULE Slab --------------------------------
(***************************************************************************)
(* The slab allocator of src/src/mm/slab.c, one class of small objects and *)
(* one of middle ones, each operation under mm.lock.                       *)
(*                                                                         *)
(* A small slab is one page whose entry 0 is the header, with a bitmap, a  *)
(* count and the next free entry; mm.slabei and mm.nfslabi name the last   *)
(* slab and the first with room.  A middle slab keeps its header apart,    *)
(* and its entries start at 0.                                             *)
(***************************************************************************)
EXTENDS Integers, FiniteSets, Minimum

CONSTANTS
    EmptyNum,    \* slab_info[i].emptynum: entries of a small slab
    MaxSlabs,    \* bound: small slabs that alloc_page_4k can back
    MiddleNum    \* entries of a middle slab, 32 * 8

ASSUME SlabAssumption == {EmptyNum, MaxSlabs, MiddleNum} \subseteq Nat \ {0}

Entry == 1 .. EmptyNum
Cell  == 0 .. MiddleNum - 1

VARIABLES
    bitmap,     \* bitmap[s]: the entries of small slab s whose bit is set
    totalfree, nextfree,   \* fields of the small slabs
    slabei, nfslabi,       \* mm.slabei, mm.nfslabi
    mbitmap, mtotalfree, mnextfree,   \* the same of the middle slab
    handed,     \* what the last call returned: <<>>, or <<kind, slab, entry>>
    stopped     \* "no", "halt" (halt()), or "spin": spinning on mm.lock for ever

small  == <<bitmap, totalfree, nextfree, slabei, nfslabi>>
middle == <<mbitmap, mtotalfree, mnextfree>>
slabVars == <<small, middle, handed, stopped>>

Slabs == 0 .. slabei

SlabInit ==                                                       \* init_slab
    /\ slabei = 0 /\ nfslabi = 0
    /\ bitmap = [s \in 0 .. MaxSlabs - 1 |-> {}]
    /\ totalfree = [s \in 0 .. MaxSlabs - 1 |-> IF s = 0 THEN EmptyNum ELSE 0]
    /\ nextfree = [s \in 0 .. MaxSlabs - 1 |-> IF s = 0 THEN 1 ELSE 0]
    /\ mbitmap = {} /\ mtotalfree = MiddleNum /\ mnextfree = 0
    /\ handed = <<>> /\ stopped = "no"

Stop(how) == stopped' = how /\ handed' = <<>> /\ UNCHANGED <<small, middle>>

-----------------------------------------------------------------------------
(* slab_alloc of a small object: the next free entry of the first slab     *)
(* with room is taken ...                                                  *)
TakeEntry(s, j) ==
    /\ bitmap' = [bitmap EXCEPT ![s] = @ \cup {j}]
    /\ handed' = <<"small", s, j>>
    /\ UNCHANGED <<middle, stopped>>

\* mutation: the search for the next free entry stops one short
Rest_Short(s) == {k \in nextfree[s] + 1 .. EmptyNum - 1 : k \notin bitmap[s]}

(* ... and the entries after it are searched for the next free one.        *)
Rest(s) == {k \in nextfree[s] + 1 .. EmptyNum : k \notin bitmap[s]}

(* The slab was full with it: the slabs after it are searched for one with *)
(* room.                                                                   *)
Later(s) == {t \in s + 1 .. slabei : totalfree[t] > 0}

AllocSmall ==
    LET s == nfslabi  j == nextfree[s] IN
    /\ stopped = "no"
    /\ \/ /\ totalfree[s] > 1 /\ Rest(s) # {}
          /\ TakeEntry(s, j)
          /\ totalfree' = [totalfree EXCEPT ![s] = @ - 1]
          /\ nextfree' = [nextfree EXCEPT ![s] = Lowest(Rest(s))]
          /\ UNCHANGED <<slabei, nfslabi>>
       \/ /\ totalfree[s] > 1 /\ Rest(s) = {}
          /\ Stop("halt")
       \/ /\ totalfree[s] = 1 /\ Later(s) # {}
          /\ TakeEntry(s, j)
          /\ totalfree' = [totalfree EXCEPT ![s] = 0]
          /\ nextfree' = [nextfree EXCEPT ![s] = 0]
          /\ nfslabi' = Lowest(Later(s))
          /\ UNCHANGED slabei
       \/ /\ totalfree[s] = 1 /\ Later(s) = {} /\ slabei + 1 < MaxSlabs
          /\ TakeEntry(s, j)
          /\ slabei' = slabei + 1 /\ nfslabi' = slabei + 1     \* a fresh page
          /\ totalfree' = [totalfree EXCEPT ![s] = 0, ![slabei + 1] = EmptyNum]
          /\ nextfree' = [nextfree EXCEPT ![s] = 0, ![slabei + 1] = 1]

\* mutation: the first slab with room is not looked at again
FirstRoom_Keep(s) == nfslabi

(* slab_free: the first slab with room may be this one now.                *)
FirstRoom(s) == IF s < nfslabi THEN s ELSE nfslabi

NextFreeEntry(s, j) == IF nextfree[s] = 0 \/ nextfree[s] > j THEN j ELSE nextfree[s]

(* A free of the header, of an entry that is not taken or of a slab that   *)
(* does not exist halts.                                                   *)
FreeSmall(s, j) ==
    /\ stopped = "no"
    /\ IF s > slabei \/ j \notin Entry \/ j \notin bitmap[s]
         THEN Stop("halt")
         ELSE /\ nfslabi' = FirstRoom(s)
              /\ bitmap' = [bitmap EXCEPT ![s] = @ \ {j}]
              /\ nextfree' = [nextfree EXCEPT ![s] = NextFreeEntry(s, j)]
              /\ totalfree' = [totalfree EXCEPT ![s] = @ + 1]
              /\ handed' = <<>>
              /\ UNCHANGED <<slabei, middle, stopped>>

-----------------------------------------------------------------------------
(* A middle object.  The entry that fills the slab makes slab_alloc call   *)
(* kmalloc for a new header, with mm.lock held: the CPU spins on its own   *)
(* lock, so there is never a second middle slab.                           *)
AllocMiddle ==
    LET rest == {k \in mnextfree + 1 .. MiddleNum - 1 : k \notin mbitmap} IN
    /\ stopped = "no"
    /\ \/ /\ mtotalfree > 1 /\ rest # {}
          /\ mbitmap' = mbitmap \cup {mnextfree}
          /\ mtotalfree' = mtotalfree - 1
          /\ mnextfree' = Lowest(rest)
          /\ handed' = <<"middle", 0, mnextfree>>
          /\ UNCHANGED <<small, stopped>>
       \/ /\ mtotalfree > 1 /\ rest = {}
          /\ Stop("halt")
       \/ /\ mtotalfree = 1
          /\ mbitmap' = mbitmap \cup {mnextfree}
          /\ mtotalfree' = 0 /\ mnextfree' = 0
          /\ stopped' = "spin" /\ handed' = <<>>
          /\ UNCHANGED small

MiddleNext(j) == IF mtotalfree = 0 \/ mnextfree > j THEN j ELSE mnextfree

FreeMiddle(j) ==
    /\ stopped = "no" /\ j \in mbitmap          \* callers free what they were given
    /\ mbitmap' = mbitmap \ {j}
    /\ mnextfree' = MiddleNext(j)
    /\ mtotalfree' = mtotalfree + 1
    /\ handed' = <<>>
    /\ UNCHANGED <<small, stopped>>

SlabNext ==
    \/ AllocSmall \/ \E s \in 0 .. MaxSlabs - 1, j \in 0 .. EmptyNum : FreeSmall(s, j)
    \/ AllocMiddle \/ \E j \in Cell : FreeMiddle(j)

SlabSpec == SlabInit /\ [][SlabNext]_slabVars

-----------------------------------------------------------------------------
(* Type invariant of the slab headers and of the indices in MM_MANAGER.    *)
SlabTypeOK ==
    /\ bitmap \in [0 .. MaxSlabs - 1 -> SUBSET Entry]
    /\ totalfree \in [0 .. MaxSlabs - 1 -> 0 .. EmptyNum]
    /\ nextfree \in [0 .. MaxSlabs - 1 -> 0 .. EmptyNum]
    /\ slabei \in 0 .. MaxSlabs - 1 /\ nfslabi \in Slabs
    /\ mbitmap \subseteq Cell /\ mtotalfree \in 0 .. MiddleNum /\ mnextfree \in Cell
    /\ stopped \in {"no", "halt", "spin"}
    /\ handed \in {<<>>} \cup ({"small"} \X Slabs \X Entry) \cup ({"middle"} \X {0} \X Cell)

FreeIn(s) == Entry \ bitmap[s]

(* The caches of the small slabs are exact: the count is the number of     *)
(* clear bits, the next free entry is the lowest of them (0 for a full     *)
(* slab), and nfslabi is the first slab with room; so an allocation always *)
(* fills the lowest hole.                                                  *)
SmallExact ==
    /\ \A s \in Slabs :
         /\ totalfree[s] = Cardinality(FreeIn(s))
         /\ nextfree[s] = IF FreeIn(s) = {} THEN 0 ELSE Lowest(FreeIn(s))
    /\ FreeIn(nfslabi) # {}
    /\ \A s \in Slabs : s < nfslabi => FreeIn(s) = {}

(* So are those of the middle slab, which keeps room as long as the        *)
(* machine runs.                                                           *)
MiddleExact == stopped # "spin" =>
    /\ mtotalfree = Cardinality(Cell \ mbitmap) /\ mtotalfree > 0
    /\ mnextfree = Lowest(Cell \ mbitmap)

(* An allocation hands out an entry that nobody has, and frees or moves no *)
(* other entry; the halt() of its searches is unreachable, so only a wrong *)
(* free can stop the machine that way.                                     *)
HandsOutFreeEntry ==
    [][ /\ handed' # <<>> =>
             LET s == handed'[2]  j == handed'[3] IN
             IF handed'[1] = "small"
               THEN j \in FreeIn(s) /\ bitmap' = [bitmap EXCEPT ![s] = @ \cup {j}]
               ELSE j \notin mbitmap /\ mbitmap' = mbitmap \cup {j}
        /\ AllocSmall \/ AllocMiddle => stopped' # "halt" ]_slabVars

(* slab_alloc and slab_free keep the count and the next free entry of      *)
(* every small slab and of the middle slab, and the first small slab with  *)
(* room, exact; slab_alloc hands out only entries that nobody has, and     *)
(* never halts.                                                            *)
SlabsExact == [](SmallExact /\ MiddleExact) /\ HandsOutFreeEntry
=============================================================================
