----------------------------- MODULE SpaceSpec ------------------------------
(***************************************************************************)
(* What processes may rely on: every process has memory of its own.  A     *)
(* step changes the image of one process, its own, except a fork, which    *)
(* gives a process without memory a copy of another's.  A process without  *)
(* memory gets it in no other way than by a fork or, empty but for its     *)
(* arguments, by an exec.                                                  *)
(***************************************************************************)
CONSTANTS
    Proc,       \* the processes
    Page,       \* the user pages of an address space
    Absent,     \* the page is not mapped
    Fresh       \* the image that a program starts to be loaded into

VARIABLE image  \* image[p][v]: the content of page v of process p

Nothing == [v \in Page |-> Absent]

Init == image = [p \in Proc |-> Nothing]

\* a page is written, by the process or by the kernel for it
Store(a, b) == \E v \in Page : /\ a[v] # Absent /\ b[v] # Absent
                               /\ \A u \in Page \ {v} : b[u] = a[u]

\* pages are added, with any content; those that are there keep theirs
Grow(a, b) == a # Nothing /\ \A v \in Page : a[v] # Absent => b[v] = a[v]

\* p goes from image a to image b
Step(p, a, b) ==
    \/ Grow(a, b) \/ Store(a, b)
    \/ b = Nothing
    \/ a = Nothing /\ (b = Fresh \/ \E q \in Proc \ {p} : b = image[q])

Next == \E p \in Proc : /\ \A q \in Proc \ {p} : image'[q] = image[q]
                        /\ Step(p, image[p], image'[p])

Spec == Init /\ [][Next]_image
=============================================================================
