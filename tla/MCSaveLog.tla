----------------------------- MODULE MCSaveLog -----------------------------
(* Instances of SaveLog for TLC. *)
EXTENDS SaveLog, TLC

CONSTANTS p1, p2, w1, look, move, die, yes

OnePrompt == [c \in Commands |-> IF c = look THEN 0 ELSE 1]
PlayerSymmetry == Permutations(Players)
=============================================================================
