------------------------------ MODULE UserHeap ------------------------------
(***************************************************************************)
(* The heap of user programs: malloc, free and realloc of usr/pub/mem.c.   *)
(* A program has one thread, so a call is one step.  Addresses and sizes   *)
(* are in units of ALIGNMENT from HEAP_START on.  header[a] is the header  *)
(* of the block at address a; the header of a block that was swallowed is  *)
(* no longer kept track of, though the next of a block in use may lead     *)
(* there.                                                                  *)
(*                                                                         *)
(* Two merges go wrong: malloc returns a block it grew while it is in the  *)
(* free list, and realloc swallows a free block and unlinks another one.   *)
(* `merged` records that one of them has run; the behaviour ends there.    *)
(***************************************************************************)
EXTENDS Integers, Sequences, FiniteSets

CONSTANTS
    HEADER,     \* sizeof(block_header_t)
    PAGE,       \* PAGE_SIZE
    HEAP_END,   \* size of the heap
    Wanted      \* sizes programs ask for

NULL == -1
MIN_BLOCK_SIZE == HEADER + 1

VARIABLES
    header,     \* [addr -> [size, next, is_free]]
    free_list, heap_current,
    given,      \* [addr, size]: what the program has
    merged      \* one of the two merges has run

vars == <<header, free_list, heap_current, given, merged>>

Init == header = <<>> /\ free_list = NULL /\ heap_current = 0 /\ given = {} /\ merged = FALSE

align_up(n) == ((n + PAGE - 1) \div PAGE) * PAGE

Block(n, x, f) == [size |-> n, next |-> x, is_free |-> f]
Write(h, a, b) == [c \in DOMAIN h \cup {a} |-> IF c = a THEN b ELSE h[c]]
End(h, a) == a + HEADER + h[a].size

-----------------------------------------------------------------------------
(* The operations work on m: header, free_list, heap_current.              *)
Now == [header |-> header, free_list |-> free_list, heap_current |-> heap_current]
Set(m) == header' = m.header /\ free_list' = m.free_list /\ heap_current' = m.heap_current

\* the free list from block a on, in order
RECURSIVE ListFrom(_, _)
ListFrom(h, a) == IF a = NULL THEN <<>> ELSE <<a>> \o ListFrom(h, h[a].next)
List(m) == ListFrom(m.header, m.free_list)

\* sbrk: fails beyond the end
Fits(m, n) == m.heap_current + n <= HEAP_END

\* mutation: the rest is one header too large
split_block_NoHeader(m, a, n) ==
    LET b == m.header[a]
        rest == a + HEADER + n
    IN  IF b.size <= n + MIN_BLOCK_SIZE THEN m
        ELSE [m EXCEPT !.header = Write(Write(@, rest, Block(b.size - n, m.free_list, TRUE)),
                                        a, [b EXCEPT !.size = n, !.next = rest]),
                       !.free_list = rest]

(* split_block: the rest of block a becomes a block at the head of the     *)
(* list; a points to it, in the list or not.                               *)
split_block(m, a, n) ==
    LET b == m.header[a]
        rest == a + HEADER + n
    IN  IF b.size <= n + MIN_BLOCK_SIZE THEN m
        ELSE [m EXCEPT !.header = Write(Write(@, rest, Block(b.size - n - HEADER, m.free_list, TRUE)),
                                        a, [b EXCEPT !.size = n, !.next = rest]),
                       !.free_list = rest]

(* coalesce_blocks: a block that ends where its successor in the list      *)
(* begins swallows it; the list is not sorted.                             *)
RECURSIVE coalesce_blocks(_, _)
coalesce_blocks(h, a) ==
    IF a = NULL \/ h[a].next = NULL THEN h
    ELSE LET n == h[a].next
         IN  IF End(h, a) = n
             THEN coalesce_blocks(
                    [b \in DOMAIN h \ {n} |->
                       IF b = a THEN Block(h[a].size + HEADER + h[n].size, h[n].next, TRUE)
                       ELSE h[b]], a)
             ELSE coalesce_blocks(h, n)

\* the first allocation, and any that finds the list empty: four times the
\* size, in whole pages
Opened(m, n) ==
    LET size == align_up(4 * (n + HEADER))
    IN  [header |-> Write(m.header, m.heap_current, Block(size - HEADER, NULL, TRUE)),
         free_list |-> m.heap_current, heap_current |-> m.heap_current + size]

\* block number k of the list leaves it
Unlinked(m, k) ==
    LET l == List(m)
    IN  IF k = 1 THEN [m EXCEPT !.free_list = m.header[l[1]].next]
        ELSE [m EXCEPT !.header[l[k - 1]].next = m.header[l[k]].next]

\* the first block that fits leaves the list and is split
Taken(m, k, n) ==
    LET a == List(m)[k]
        u == Unlinked(m, k)
    IN  [at |-> a,
         m |-> split_block([u EXCEPT !.header[a] = Block(@.size, NULL, FALSE)], a, n)]

\* no block fits: the heap grows by one that is handed out whole, or the last
\* free block grows and is handed out as it is
Extended(m, n) ==
    LET size == align_up(n + HEADER)
        a == m.heap_current
        l == List(m)
        last == l[Len(l)]
        grown == [m EXCEPT !.heap_current = a + size]
    IN  IF End(m.header, last) = a
        THEN [at |-> last, m |-> [grown EXCEPT
                !.header = Write([@ EXCEPT ![last].size = @ + size], a,
                                 Block(size - HEADER, NULL, FALSE))]]
        ELSE [at |-> a, m |-> [grown EXCEPT
                !.header = Write(@, a, Block(size - HEADER, NULL, FALSE))]]

\* malloc of n > 0: where the block is, or NULL, and the heap after it
malloc(m0, n) ==
    IF m0.free_list = NULL /\ ~Fits(m0, align_up(4 * (n + HEADER))) THEN [at |-> NULL, m |-> m0]
    ELSE LET m == IF m0.free_list = NULL THEN Opened(m0, n) ELSE m0
             l == List(m)
             fit == {k \in DOMAIN l : m.header[l[k]].is_free /\ m.header[l[k]].size >= n}
         IN  IF fit # {} THEN Taken(m, CHOOSE k \in fit : \A j \in fit : k <= j, n)
             ELSE IF ~Fits(m, align_up(n + HEADER)) THEN [at |-> NULL, m |-> m]
             ELSE Extended(m, n)

(* free: a block that is free already is left alone.                       *)
free(m, a) ==
    IF m.header[a].is_free THEN m
    ELSE [m EXCEPT !.header = coalesce_blocks([@ EXCEPT ![a].is_free = TRUE,
                                                        ![a].next = m.free_list], a),
                   !.free_list = a]

-----------------------------------------------------------------------------
(* The calls.                                                              *)

Malloc(n) ==
    LET r == malloc(Now, n)
    IN  /\ Set(r.m)
        /\ given' = IF r.at = NULL THEN given ELSE given \cup {[addr |-> r.at, size |-> n]}
        /\ merged' = (r.at # NULL /\ r.m.header[r.at].is_free)

Free(g) ==
    /\ Set(free(Now, g.addr)) /\ given' = given \ {g} /\ UNCHANGED merged

\* what next of block a says when it is to grow: a free block that is large
\* enough, a block in use, or a stale header, which says anything
Listed == {List(Now)[k] : k \in DOMAIN List(Now)}
Enough(a, n) == header[a].size + HEADER + header[header[a].next].size >= n
MayMerge(a, n) ==
    LET x == header[a].next
    IN  x # NULL /\ x \notin {g.addr : g \in given} /\ (x \in Listed => Enough(a, n))
MustMerge(a, n) == header[a].next \in Listed /\ Enough(a, n)

(* realloc: in place when the block is large enough, else the block behind *)
(* it is swallowed, else it moves.                                         *)
Realloc(g, n) ==
    \/ /\ header[g.addr].size >= n
       /\ Set(split_block(Now, g.addr, n))
       /\ given' = (given \ {g}) \cup {[g EXCEPT !.size = n]} /\ UNCHANGED merged
    \/ /\ header[g.addr].size < n /\ MayMerge(g.addr, n)
       /\ merged' = TRUE /\ UNCHANGED <<header, free_list, heap_current, given>>
    \/ /\ header[g.addr].size < n /\ ~MustMerge(g.addr, n)
       /\ LET r == malloc(Now, n)
          IN  IF r.at = NULL THEN Set(r.m) /\ UNCHANGED <<given, merged>>
              ELSE /\ Set(free(r.m, g.addr))
                   /\ given' = (given \ {g}) \cup {[addr |-> r.at, size |-> n]}
                   /\ merged' = r.m.header[r.at].is_free

Next ==
    /\ ~merged
    /\ \/ \E n \in Wanted : Malloc(n)
       \/ \E g \in given : Free(g) \/ \E n \in Wanted : Realloc(g, n)

-----------------------------------------------------------------------------
Extent(a) == a .. End(header, a) - 1

(* Type invariant of the headers and of what the program has.              *)
TypeOK ==
    /\ \A a \in DOMAIN header : header[a] \in [size : Nat, next : Nat \cup {NULL}, is_free : BOOLEAN]
    /\ free_list \in Nat \cup {NULL} /\ heap_current \in 0 .. HEAP_END
    /\ given \subseteq [addr : Nat, size : Wanted] /\ merged \in BOOLEAN

(* malloc, free and realloc, up to the first of the two wrong merges: the  *)
(* blocks of the program and those of the free list cover the heap without *)
(* overlap, so nothing is handed out twice and nothing is lost; every      *)
(* block is as large as was asked for, and is_free says which list it is   *)
(* in.                                                                     *)
HeapPartitioned ==
    ~merged =>
      LET l == List(Now)
          free_blocks == {l[k] : k \in DOMAIN l}
          used == {g.addr : g \in given}
          all == free_blocks \cup used
      IN  /\ Cardinality(free_blocks) = Len(l) /\ free_blocks \cap used = {}
          /\ UNION {Extent(a) : a \in all} = 0 .. heap_current - 1
          /\ \A a, b \in all : a < b => End(header, a) <= b
          /\ \A g, h \in given : g.addr = h.addr => g = h
          /\ \A g \in given : header[g.addr].size >= g.size
          /\ \A a \in all : header[a].is_free <=> a \in free_blocks
=============================================================================
