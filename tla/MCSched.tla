------------------------------ MODULE MCSched ------------------------------
(* Sched for TLC: symmetric tasks, idle tasks as model values.             *)
EXTENDS Sched, TLC

CONSTANTS t1, t2, t3, t4, i1, i2, i3

Tasks2 == {t1, t2}
Tasks3 == {t1, t2, t3}
Tasks4 == {t1, t2, t3, t4}
Idles  == [c \in CPU |-> CASE c = 1 -> i1 [] c = 2 -> i2 [] c = 3 -> i3]
NoQueue == {}
Calm    == {[race |-> FALSE, spawn |-> TRUE]}
CalmAndRace == Calm \cup {[race |-> TRUE, spawn |-> FALSE]}
Sym    == Permutations(Born)
=============================================================================
