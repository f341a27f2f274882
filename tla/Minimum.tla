------------------------------- MODULE Minimum -------------------------------
(***************************************************************************)
(* The lowest of a set of numbers: what a scan from the bottom of a bitmap *)
(* or of a table finds first.                                              *)
(***************************************************************************)
EXTENDS Integers

Lowest(S) == CHOOSE p \in S : \A q \in S : p <= q
=============================================================================
