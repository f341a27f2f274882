------------------------------ MODULE HeapSpec ------------------------------
(***************************************************************************)
(* What the kernel heap promises: the blocks handed out lie inside the     *)
(* heap and never overlap, and freeing one changes no other.               *)
(***************************************************************************)
EXTENDS Naturals

CONSTANT Pages       \* HEAP_SIZE_MAX in pages
VARIABLE blocks      \* the allocated blocks, <<first page, pages>>

Apart(b, c) == b[1] + b[2] <= c[1] \/ c[1] + c[2] <= b[1]

Give(b) ==
    /\ b \in Nat \X (Nat \ {0}) /\ b[1] + b[2] <= Pages
    /\ \A c \in blocks : Apart(b, c)
    /\ blocks' = blocks \cup {b}
TakeBack(b) == b \in blocks /\ blocks' = blocks \ {b}

HeapInit == blocks = {}
HeapNext == (\E b \in blocks' \ blocks : Give(b)) \/ (\E b \in blocks : TakeBack(b))
HeapOnly == HeapInit /\ [][HeapNext]_blocks
=============================================================================
