-------------------------------- MODULE Heap --------------------------------
(***************************************************************************)
(* The kernel heap of src/src/mm/heap.c: one descriptor per block, all of  *)
(* them in an address-ordered doubly linked list (next, last) and the free *)
(* ones in a second one (nextf, lastf).  Addresses and sizes are counted   *)
(* in pages from HEAP_ADDR_START.  mm.lock is held throughout, so each     *)
(* call is one step.  Descriptors come from slab_alloc (module Slab), the  *)
(* lowest free one first; the fields of one that is given back are         *)
(* cleared, since heap_alloc writes all of them before it reads any.       *)
(***************************************************************************)
EXTENDS Integers, FiniteSets

CONSTANTS
    Pages,     \* HEAP_SIZE_MAX / 4096
    Requests   \* the sizes asked for, in pages after rounding up

Null == -1                         \* (void *)0
Node == 0 .. Pages                 \* at most one block per page, and one spare

VARIABLES
    next, last, nextf, lastf, start_addr, size, used,  \* fields of HEAP
    live,                \* the descriptors slab_alloc has handed out
    shp, nfhp, he,       \* mm.shp, mm.nfhp, mm.he
    halted

fields == <<next, last, nextf, lastf, start_addr, size, used>>
vars   == <<fields, live, shp, nfhp, he, halted>>

Init ==                                                       \* init_heap
    /\ live = {0} /\ shp = 0 /\ nfhp = 0 /\ he = 0 /\ halted = FALSE
    /\ next = [n \in Node |-> Null] /\ last = [n \in Node |-> Null]
    /\ nextf = [n \in Node |-> Null] /\ lastf = [n \in Node |-> Null]
    /\ start_addr = [n \in Node |-> 0] /\ used = [n \in Node |-> FALSE]
    /\ size = [n \in Node |-> IF n = 0 THEN Pages ELSE 0]

(* The k-th descriptor along a list, Null past its end.                    *)
Along(link, first) ==
    LET at[k \in Node] ==
            IF k = 0 THEN first
            ELSE LET d == at[k - 1] IN IF d = Null THEN Null ELSE link[d]
    IN  at

(* The first descriptor of a list with property P, Null when there is none.*)
FirstOf(list, P(_)) ==
    LET hits == {k \in Node : list[k] # Null /\ P(list[k])}
    IN  IF hits = {} THEN Null ELSE list[CHOOSE k \in hits : \A j \in hits : k <= j]

(* f with a few places changed; a change at Null is an assignment the code *)
(* does not make.                                                          *)
With(f, changes) == [n \in Node |-> IF \E c \in changes : c[1] = n
                                    THEN (CHOOSE c \in changes : c[1] = n)[2] ELSE f[n]]

(* slab_free(d) for the descriptors in gone.                               *)
Drop(f, gone, blank) == [n \in Node |-> IF n \in gone THEN blank ELSE f[n]]

Halt == halted' = TRUE /\ UNCHANGED <<fields, live, shp, nfhp, he>>

-----------------------------------------------------------------------------
(* heap_alloc.                                                             *)

\* mutation: the block cut keeps its size
Split_NoShrink(h, n) ==
    LET new == CHOOSE d \in Node \ live : \A e \in Node \ live : d <= e IN
    /\ live' = live \cup {new}
    /\ size' = [size EXCEPT ![new] = n]
    /\ start_addr' = [start_addr EXCEPT ![h] = @ + n, ![new] = start_addr[h]]
    /\ used' = [used EXCEPT ![new] = TRUE]
    /\ nextf' = [nextf EXCEPT ![new] = Null] /\ lastf' = [lastf EXCEPT ![new] = Null]
    /\ next' = With(next, {<<new, h>>, <<last[h], new>>})
    /\ last' = With(last, {<<h, new>>, <<new, last[h]>>})
    /\ shp' = IF last[h] = Null THEN new ELSE shp
    /\ UNCHANGED <<nfhp, halted>>

(* The block is larger: cut its low end off into a new used descriptor in  *)
(* front of it.                                                            *)
Split(h, n) ==
    LET new == CHOOSE d \in Node \ live : \A e \in Node \ live : d <= e IN
    /\ live' = live \cup {new}
    /\ size' = [size EXCEPT ![h] = @ - n, ![new] = n]
    /\ start_addr' = [start_addr EXCEPT ![h] = @ + n, ![new] = start_addr[h]]
    /\ used' = [used EXCEPT ![new] = TRUE]
    /\ nextf' = [nextf EXCEPT ![new] = Null] /\ lastf' = [lastf EXCEPT ![new] = Null]
    /\ next' = With(next, {<<new, h>>, <<last[h], new>>})
    /\ last' = With(last, {<<h, new>>, <<new, last[h]>>})
    /\ shp' = IF last[h] = Null THEN new ELSE shp
    /\ UNCHANGED <<nfhp, halted>>

\* mutation: the successor keeps its pointer to the block taken
Whole_HalfUnlink(h) ==
    /\ used' = [used EXCEPT ![h] = TRUE]
    /\ nextf' = With(nextf, {<<lastf[h], nextf[h]>>})
    /\ UNCHANGED lastf
    /\ nfhp' = IF lastf[h] = Null THEN nextf[h] ELSE nfhp
    /\ UNCHANGED <<next, last, start_addr, size, live, shp, halted>>

(* It fits exactly: unlink it from the free list, whose last block is      *)
(* never given away (the caller halts).                                    *)
Whole(h) ==
    /\ used' = [used EXCEPT ![h] = TRUE]
    /\ nextf' = With(nextf, {<<lastf[h], nextf[h]>>})
    /\ lastf' = With(lastf, {<<nextf[h], lastf[h]>>})
    /\ nfhp' = IF lastf[h] = Null THEN nextf[h] ELSE nfhp
    /\ UNCHANGED <<next, last, start_addr, size, live, shp, halted>>

(* Pages above mm.he get physical pages.                                   *)
Mapped(from, n) == IF from + n > he THEN from + n ELSE he

Alloc(n) ==
    LET h == FirstOf(Along(nextf, nfhp), LAMBDA d : size[d] >= n) IN
    /\ ~halted
    /\ IF h = Null \/ (size[h] = n /\ lastf[h] = Null /\ nextf[h] = Null) THEN Halt
       ELSE /\ IF size[h] > n THEN Split(h, n) ELSE Whole(h)
            /\ he' = Mapped(start_addr[h], n)

-----------------------------------------------------------------------------
(* heap_free.                                                              *)

(* Both neighbours free: the lower one takes in all three.                 *)
MergeBoth(h) ==
    LET lo == last[h]  hi == next[h] IN
    /\ size' = Drop([size EXCEPT ![lo] = @ + size[h] + size[hi]], {h, hi}, 0)
    /\ next' = Drop([next EXCEPT ![lo] = next[hi]], {h, hi}, Null)
    /\ nextf' = Drop([nextf EXCEPT ![lo] = nextf[hi]], {h, hi}, Null)
    /\ last' = Drop(With(last, {<<next[hi], lo>>}), {h, hi}, Null)
    /\ lastf' = Drop(With(lastf, {<<nextf[hi], lo>>}), {h, hi}, Null)
    /\ start_addr' = Drop(start_addr, {h, hi}, 0)
    /\ live' = live \ {h, hi}
    /\ UNCHANGED <<shp, nfhp>>

MergeLow(h) ==
    LET lo == last[h] IN
    /\ size' = Drop([size EXCEPT ![lo] = @ + size[h]], {h}, 0)
    /\ next' = Drop([next EXCEPT ![lo] = next[h]], {h}, Null)
    /\ last' = Drop(With(last, {<<next[h], lo>>}), {h}, Null)
    /\ nextf' = Drop(nextf, {h}, Null) /\ lastf' = Drop(lastf, {h}, Null)
    /\ start_addr' = Drop(start_addr, {h}, 0)
    /\ live' = live \ {h}
    /\ UNCHANGED <<shp, nfhp>>

MergeHigh(h) ==
    LET hi == next[h] IN
    /\ size' = Drop([size EXCEPT ![hi] = @ + size[h]], {h}, 0)
    /\ start_addr' = Drop([start_addr EXCEPT ![hi] = @ - size[h]], {h}, 0)
    /\ last' = Drop([last EXCEPT ![hi] = last[h]], {h}, Null)
    /\ next' = Drop(With(next, {<<last[h], hi>>}), {h}, Null)
    /\ nextf' = Drop(nextf, {h}, Null) /\ lastf' = Drop(lastf, {h}, Null)
    /\ shp' = IF last[h] = Null THEN hi ELSE shp
    /\ live' = live \ {h}
    /\ UNCHANGED nfhp

(* No free neighbour: into the free list, before the first free block that *)
(* lies above it.                                                          *)
Insert(h) ==
    LET list  == Along(nextf, nfhp)
        above == FirstOf(list, LAMBDA d : start_addr[d] > start_addr[h])
        below == IF above # Null THEN lastf[above]
                 ELSE FirstOf(list, LAMBDA d : nextf[d] = Null)
    IN
    /\ nextf' = With(nextf, {<<below, h>>, <<h, above>>})
    /\ lastf' = With(lastf, {<<above, h>>, <<h, below>>})
    /\ nfhp' = IF below = Null THEN h ELSE nfhp
    /\ UNCHANGED <<next, last, start_addr, size, live, shp>>

IsFree(d) == d # Null /\ ~used[d]

(* Freeing an address where no used block starts halts the machine.        *)
Free(addr) ==
    LET h == FirstOf(Along(next, shp), LAMBDA d : used[d] /\ start_addr[d] = addr) IN
    /\ ~halted
    /\ IF h = Null THEN Halt
       ELSE /\ IF IsFree(last[h]) /\ IsFree(next[h]) THEN MergeBoth(h)
               ELSE IF IsFree(last[h]) THEN MergeLow(h)
               ELSE IF IsFree(next[h]) THEN MergeHigh(h)
               ELSE Insert(h)
            /\ used' = [used EXCEPT ![h] = FALSE]
            /\ UNCHANGED <<he, halted>>

Next == (\E n \in Requests : Alloc(n)) \/ (\E addr \in 0 .. Pages - 1 : Free(addr))

Spec == Init /\ [][Next]_vars

-----------------------------------------------------------------------------
(* Type invariant of the descriptors and of the anchors in MM_MANAGER.     *)
TypeOK ==
    /\ {next, last, nextf, lastf} \subseteq [Node -> Node \cup {Null}]
    /\ start_addr \in [Node -> 0 .. Pages] /\ size \in [Node -> 0 .. Pages]
    /\ used \in [Node -> BOOLEAN] /\ halted \in BOOLEAN
    /\ live \subseteq Node /\ shp \in live /\ nfhp \in live
    /\ he \in 0 .. Pages

(* The block list tiles the heap: from shp at address 0 every block ends   *)
(* where its successor begins, back pointers are the inverse of forward    *)
(* ones, and the last block ends at the end of the heap.                   *)
BlocksTile ==
    /\ start_addr[shp] = 0 /\ last[shp] = Null
    /\ \A n \in live :
         /\ size[n] > 0
         /\ IF next[n] = Null THEN start_addr[n] + size[n] = Pages
            ELSE /\ next[n] \in live /\ last[next[n]] = n
                 /\ start_addr[next[n]] = start_addr[n] + size[n]
         /\ last[n] # Null => last[n] \in live /\ next[last[n]] = n
         /\ last[n] = Null => n = shp

(* The free list is exactly the unused blocks in address order, and no two *)
(* of them touch: every release merges with its neighbours, and the list   *)
(* is never empty (the comment in heap_free relies on it).                 *)
FreeListExact ==
    LET unused == {n \in live : ~used[n]}
        list   == Along(nextf, nfhp)
        k      == Cardinality(unused)
    IN  /\ k > 0 /\ {list[j] : j \in 0 .. k - 1} = unused
        /\ k \in Node => list[k] = Null
        /\ lastf[nfhp] = Null
        /\ \A n \in unused : nextf[n] # Null =>
              /\ lastf[nextf[n]] = n
              /\ start_addr[n] + size[n] < start_addr[nextf[n]]

(* Every page of an allocated block is below mm.he and so is mapped.       *)
UsedIsMapped == \A n \in live : used[n] => start_addr[n] + size[n] <= he

(* The heap implements HeapSpec: the used descriptors are its blocks.      *)
Abstract == INSTANCE HeapSpec WITH
    blocks <- {<<start_addr[n], size[n]>> : n \in {d \in live : used[d]}}
ImplementsHeap == Abstract!HeapOnly
=============================================================================
