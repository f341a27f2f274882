------------------------------ MODULE LockSpec ------------------------------
(***************************************************************************)
(* What a mutex promises its callers: it is held by at most one task, is   *)
(* taken only when free and given back only by the task that holds it.     *)
(***************************************************************************)
CONSTANTS Task, None
VARIABLE holder

LockInit == holder = None
Take(t)  == holder = None /\ holder' = t
Give(t)  == holder = t /\ holder' = None

LockNext == \E t \in Task : Take(t) \/ Give(t)
LockOnly == LockInit /\ [][LockNext]_holder
=============================================================================
