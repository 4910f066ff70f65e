------------------------------ MODULE DurableLog ------------------------------
(***************************************************************************)
(* What a persistent message store promises: a log of the last             *)
(* MaxTailMessages messages, each of which is recorded whole or not at     *)
(* all, and a feed that shows it.  Stopping the engine costs nothing that  *)
(* was recorded.                                                           *)
(***************************************************************************)
EXTENDS Naturals, Sequences

CONSTANTS
  Messages,         \* message ids
  MaxTailMessages,  \* 200 in the code
  MayLose           \* the log may be gone as a whole

VARIABLES
  log,    \* what outlives the engine
  feed    \* what the running engine shows

vars == <<log, feed>>

Elements(s) == {s[i] : i \in 1..Len(s)}

\* The last MaxTailMessages elements of s.
Window(s) ==
  IF Len(s) <= MaxTailMessages
  THEN s
  ELSE SubSeq(s, Len(s) - MaxTailMessages + 1, Len(s))

Init == log \in Seq(Messages) /\ feed = <<>>

\* A message that the feed does not show joins it in the log, whole; only a feed that
\* shows the whole log takes one, or the feed that is left of a lost log.
Record(m) ==
  /\ m \notin Elements(feed)
  /\ log = feed \/ (MayLose /\ log = <<>>)
  /\ log' = Window(Append(feed, m))
  /\ UNCHANGED feed

\* The log is lost; a feed that is running is not.
Lose == MayLose /\ log' = <<>> /\ UNCHANGED feed

\* The feed shows what the log holds.
Show == feed' = log /\ UNCHANGED log

\* The engine stops.
Stop == feed' = <<>> /\ UNCHANGED log

Next == (\E m \in Messages : Record(m)) \/ Lose \/ Show \/ Stop

Spec == Init /\ [][Next]_vars
=============================================================================
