----------------------------- MODULE MCSignaling -----------------------------
(* Instances of Signaling for TLC: every connection comes from one address,   *)
(* or the third from another.                                                 *)
EXTENDS Signaling, TLC

CONSTANTS a, b, c, home, away

OneRoom == [x \in Conns |-> home]
TwoRooms == [x \in Conns |-> IF x = c THEN away ELSE home]

Interchangeable == Permutations({a, b, c})
=============================================================================
