------------------------------- MODULE MCGameEnd -------------------------------
(* Instances of GameEnd for TLC. *)
EXTENDS GameEnd, TLC

CONSTANTS p1, p2

Name     == [g \in Games |-> IF g = 2 THEN "Ann" ELSE "Bob"]
Points   == [g \in Games |-> 10 * g]
Symmetric == Permutations(Procs)
================================================================================
