------------------------------ MODULE TreeSpec ------------------------------
(***************************************************************************)
(* What the callers of a file system take its directories for: a set of    *)
(* links <<directory, name, inode>>.  A name leads to one inode, an inode  *)
(* has one link, and no directory lies below itself.  A link is made,      *)
(* removed or moved only for a call under way that asks for just that.     *)
(***************************************************************************)
CONSTANTS Root, Inode, Name

VARIABLES tree,
          wishes,   \* what the calls under way ask for
          lost      \* the promise is off

LinksIn(d) == {l \in tree : l[1] = d}
LinksTo(i) == {l \in tree : l[3] = i}
Absent(d, n) == \A l \in LinksIn(d) : l[2] # n

\* A directory from which, going up, i is not met.
Outside(d, i) ==
    \E S \in SUBSET Inode :
        /\ d \in S /\ i \notin S
        /\ \A l \in tree : l[3] \in S => l[1] \in S

TreeInit == tree = {} /\ ~lost

Link(l) ==
    /\ <<"link", l[1], l[2]>> \in wishes
    /\ l \in Inode \X Name \X Inode
    /\ Absent(l[1], l[2])
    /\ l[1] = Root \/ LinksTo(l[1]) # {}
    /\ l[3] \notin {Root, l[1]} /\ LinksTo(l[3]) = {} /\ LinksIn(l[3]) = {}
    /\ tree' = tree \union {l}

Remove(l) ==
    /\ <<"remove", l[1], l[2]>> \in wishes
    /\ LinksIn(l[3]) = {}
    /\ tree' = tree \ {l}

Move(l, k) ==
    /\ <<"move", l[1], l[2], k[1], k[2]>> \in wishes
    /\ k \in Inode \X Name \X {l[3]}
    /\ Absent(k[1], k[2]) /\ Outside(k[1], k[3])
    /\ tree' = (tree \ {l}) \union {k}

TreeNext ==
    \/ lost'
    \/ \E l \in tree' \ tree : Link(l)
    \/ \E l \in tree \ tree' : Remove(l)
    \/ \E l \in tree \ tree', k \in tree' \ tree : Move(l, k)

TreeSpec == TreeInit /\ [][TreeNext]_tree
=============================================================================
