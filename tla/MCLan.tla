--------------------------------- MODULE MCLan ---------------------------------
(***************************************************************************)
(* Instances of Lan for TLC: two nodes, 1 behind a firewall that opens no  *)
(* connection from it to 2.                                                *)
(***************************************************************************)
EXTENDS Lan, TLC
CONSTANTS x, y, z, ack  \* messages: x and z of node 1, y and the acknowledgement ack of node 2

ByNode == [m \in Messages |-> IF m \in {x, z} THEN 1 ELSE 2]
ForX == [a \in Acks |-> x]
OneWay == {<<2, 1>>}

\* Node 2 restarts as another version; or no one does.
Upgrade == [n \in Nodes |-> [i \in Instances |-> IF n = 2 THEN i ELSE 1]]
OneMajor == [n \in Nodes |-> [i \in Instances |-> 1]]
=============================================================================
