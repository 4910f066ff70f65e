-------------------------------- MODULE MCFeed --------------------------------
(* Instances of Feed for TLC: an engine e and the tabs t and u, in a line.     *)
EXTENDS Feed, TLC

CONSTANTS e, t, u, mE, mU, gT

Authors == [m \in Messages |-> CASE m = mE -> e [] m = mU -> u [] m = gT -> t]
\* Both are written in the same millisecond.
Stamps == [m \in Texts |-> 1]
Line == {{e, t}, {t, u}}
=============================================================================
