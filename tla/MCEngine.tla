--------------------------------- MODULE MCEngine ------------------------------
(***************************************************************************)
(* An instance of Engine for TLC: two processes, a client, and two senders *)
(* of POST /nick.                                                          *)
(***************************************************************************)
EXTENDS Engine, TLC
CONSTANTS p, q, c, r, s, human, host, agent

Same == Permutations({p, q}) \cup Permutations({r, s})
Wishes == [x \in Posts |-> human]
=============================================================================
