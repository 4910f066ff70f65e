---------------------------- MODULE MCMessageStore ----------------------------
(* Instances of MessageStore for TLC: a first start, and starts on a history  *)
(* file that is too long, holds a message twice or one without an id.         *)
EXTENDS MessageStore, TLC

CONSTANTS m1, m2, m3, m4

FirstStart == {Missing}
AnyHistory == {Missing, <<m1, m2, m3, m4>>, <<m2, m1, m1>>, <<m3, NoId>>}
=============================================================================
