--------------------------------- MODULE Lists ---------------------------------
(***************************************************************************)
(* What the stores and the channels make of a list of messages.            *)
(***************************************************************************)
EXTENDS Naturals, Sequences

\* The members of s.
Elements(s) == {s[i] : i \in 1..Len(s)}

\* The members of S in s, in their order.
Only(s, S) ==
  LET kept[i \in 0..Len(s)] ==
        IF i = 0 THEN <<>>
        ELSE IF s[i] \in S THEN Append(kept[i - 1], s[i]) ELSE kept[i - 1]
  IN kept[Len(s)]
=============================================================================
