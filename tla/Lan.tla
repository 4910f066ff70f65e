---------------------------------- MODULE Lan ----------------------------------
(***************************************************************************)
(* The LAN contour (src/internal/discovery, src/internal/chat/tail.go,     *)
(* keeper.go and hub.go without Broadcast): nodes announce themselves by   *)
(* UDP, register with each other by TCP, forget who is silent, and bring   *)
(* each other up to date by fan-out, by the backlog a register is answered *)
(* with, and by the tail of the neighbour with the least id, the keeper.   *)
(*                                                                         *)
(* Every register, fan-out and tail request is a goroutine of its own; the *)
(* steps below are their accesses to what they share.  A node keeps its    *)
(* address and its port; a message stands for its id, type and author; the *)
(* store always manages to save (MessageStore is about the other case).    *)
(***************************************************************************)
EXTENDS Naturals, Sequences, FiniteSets, Lists

CONSTANTS
  Nodes,        \* peer ids: numbers, in the order of their strings
  Lines, Acks,  \* chat and file_announce messages; acknowledgements
  Author,       \* the peer_id of each of them
  Asks,         \* the lines sent with want_ack
  AckFor,       \* the line an acknowledgement is for
  Major,        \* ProtoMajor of each instance of a node: a restart may be an upgrade
  Dialable,     \* <<n, m>>: the firewall of m lets n open a connection
  MaxTail,      \* MaxTailMessages, 200 in the code
  Recent,       \* recentLocalLimit, 32 in the code
  Failing,      \* what may go wrong: "stop", "silence", "break"; and "scan", a user's
  MaxUpsets     \* bound of the model: how many of those

Messages == Lines \cup Acks
Pairs == {d \in Nodes \X Nodes : d[1] # d[2]}
Instances == 1..(MaxUpsets + 1)
By == {"announce", "scan"}    \* what a register was begun by

ASSUME NodesAssumption == Nodes \subseteq Nat \ {0} /\ IsFiniteSet(Nodes)
ASSUME MessagesAssumption ==
  /\ Lines \cap Acks = {} /\ Author \in [Messages -> Nodes]
  /\ Asks \subseteq Lines /\ AckFor \in [Acks -> Lines]
ASSUME NetworkAssumption == Dialable \subseteq Pairs /\ Major \in [Nodes -> [Instances -> Nat]]
ASSUME BoundsAssumption ==
  /\ MaxTail \in Nat \ {0} /\ Recent \in Nat \ {0} /\ MaxUpsets \in Nat
  /\ Failing \subseteq {"stop", "silence", "break", "scan"}

VARIABLES
  inst,       \* instance_id of the process, a number; 0 before the first start
  up,         \* the nodes that are running
  table,      \* PeerStore: the instance listed for each neighbour, 0 for none
  silent,     \* <<n, m>>: m's LastSeen at n is older than PeerTTL
  mismatch,   \* protoBook: the neighbours refused for their version
  calls,      \* the registers under way
  msgs,       \* the store of each node
  fans,       \* <<x, m>>: a fan-out of message x to m that has still to dial
  wakes,      \* SyncTail goroutines that have not looked at h.syncing yet
  sync,       \* the SyncTail that holds h.syncing, if any: where it is, and with whom
  got,        \* history: the messages that ever were in a store
  upsets      \* how much of MaxUpsets was used

registry == <<inst, up, table, silent, mismatch>>
feeds == <<msgs, fans, got>>
vars == <<registry, calls, feeds, wakes, sync, upsets>>

Idle == [at |-> "idle", with |-> 0, tail |-> <<>>]
Leaving == [Idle EXCEPT !.at = "leaving"]

\* A register of n with m: the server has it ("asked"), has looked m up ("noting"), has
\* answered; the client has looked the server up ("recording"), reads the backlog.
Calls == [from : Nodes, to : Nodes, by : By, inst : Instances, known : BOOLEAN,
          at : {"asked", "noting", "answered", "recording", "reading"}, lines : Seq(Messages)]

-----------------------------------------------------------------------------
Upset(kind) == kind \in Failing /\ upsets < MaxUpsets /\ upsets' = upsets + 1

\* CompatibleProto, of instance i of n and instance j of m.
Compatible(n, i, m, j) == Major[n][i] = Major[m][j]

\* A connection that n opens to m is accepted.
Reaches(n, m) == n \in up /\ m \in up /\ <<n, m>> \in Dialable

\* SelectTailKeeperAmong: the least id among a node and those it lists.
Listed(n) == {m \in Nodes : table[n][m] # 0}
Keeper(n) == CHOOSE k \in Listed(n) \cup {n} : \A m \in Listed(n) \cup {n} : k <= m

\* A mutant of Stored: the oldest message is not dropped.
MutantStored(s, x) == IF x \in Elements(s) THEN s ELSE Append(s, x)

\* What the store makes of a message: the newest, unless it holds it.
Stored(s, x) ==
  IF x \in Elements(s) THEN s
  ELSE IF Len(s) < MaxTail THEN Append(s, x)
  ELSE Append(SubSeq(s, Len(s) - MaxTail + 2, Len(s)), x)

\* RegisterBacklog: the node's own among the last of its feed.
RecentOf(s) == SubSeq(s, IF Len(s) > Recent THEN Len(s) - Recent + 1 ELSE 1, Len(s))
Backlog(n) == Only(RecentOf(msgs[n]), {x \in Messages : Author[x] = n})

\* The node n gets message x.
Takes(n, x) ==
  /\ msgs' = [msgs EXCEPT ![n] = Stored(@, x)]
  /\ got' = [got EXCEPT ![n] = @ \cup {x}]

\* HandleChatLine: the message is stored, and when it asks for it acknowledged, each time
\* it comes.  The acknowledgement is published; whoever it is sent to, as a fan-out or in
\* a backlog, has no use for a line of that type.  (No unused one: the model's bound.)
Unused(n, x) == {k \in Acks : Author[k] = n /\ AckFor[k] = x /\ k \notin got[n]}
HandleChatLine(n, x) ==
  IF x \in Asks /\ Author[x] # n /\ Unused(n, x) # {}
  THEN \E k \in Unused(n, x) :
         /\ msgs' = [msgs EXCEPT ![n] = Stored(Stored(@, x), k)]
         /\ got' = [got EXCEPT ![n] = @ \cup {x, k}]
  ELSE Takes(n, x)

-----------------------------------------------------------------------------
Init ==
  /\ inst = [n \in Nodes |-> 0] /\ up = {}
  /\ table = [n \in Nodes |-> [m \in Nodes |-> 0]]
  /\ silent = {} /\ calls = {} /\ fans = {}
  /\ mismatch = [n \in Nodes |-> {}]
  /\ msgs = [n \in Nodes |-> <<>>]
  /\ got = [n \in Nodes |-> {}]
  /\ wakes = [n \in Nodes |-> 0]
  /\ sync = [n \in Nodes |-> Idle]
  /\ upsets = 0

-----------------------------------------------------------------------------
(***************************************************************************)
(* The process, its announces and its table.                               *)
(***************************************************************************)

Start(n) ==
  /\ n \notin up
  /\ up' = up \cup {n} /\ inst' = [inst EXCEPT ![n] = @ + 1]
  /\ UNCHANGED <<table, silent, mismatch, calls, feeds, wakes, sync, upsets>>

\* The process ends; what it keeps on disk is its feed.
Stop(n) ==
  /\ n \in up /\ Upset("stop")
  /\ up' = up \ {n}
  /\ table' = [table EXCEPT ![n] = [m \in Nodes |-> 0]]
  /\ silent' = {d \in silent : d[1] # n}
  /\ mismatch' = [mismatch EXCEPT ![n] = {}]
  /\ calls' = {c \in calls : c.from # n /\ (c.to # n \/ c.at \in {"answered", "recording", "reading"})}
  /\ fans' = {f \in fans : Author[f[1]] # n}
  /\ wakes' = [wakes EXCEPT ![n] = 0]
  /\ sync' = [sync EXCEPT ![n] = Idle]
  /\ UNCHANGED <<inst, msgs, got>>

\* The register that n begins with m, if its connection is accepted.
Asked(n, m, by) ==
  IF Reaches(n, m)
  THEN {[from |-> n, to |-> m, by |-> by, inst |-> inst[n], known |-> FALSE, at |-> "asked",
         lines |-> <<>>]}
  ELSE {}

\* sendOnce: the broadcast of m may reach every node that runs.
Sends(m, n) == {n, m} \subseteq up /\ n # m

\* protoBook.note; what is noted stays.
Noted(book, m) == book \cup {m}

Busy(n, m) == \E c \in calls : c.from = n /\ c.to = m /\ c.by = "announce"

\* A mutant of Announce: a neighbour that is listed is only seen, not registered with.
MutantAnnounce(m, n) ==
  /\ Sends(m, n)
  /\ IF ~ Compatible(n, inst[n], m, inst[m])
     THEN /\ mismatch' = [mismatch EXCEPT ![n] = Noted(@, m)]
          /\ UNCHANGED <<silent, calls>>
     ELSE /\ ~ Busy(n, m)
          /\ silent' = IF table[n][m] = inst[m] THEN silent \ {<<n, m>>} ELSE silent
          /\ calls' = IF table[n][m] = inst[m] THEN calls
                      ELSE calls \cup Asked(n, m, "announce")
          /\ UNCHANGED mismatch
  /\ UNCHANGED <<inst, up, table, feeds, wakes, sync, upsets>>

\* An announce that m sends is read by n (readLoop, maybeRegister); one that is lost is
\* no step.  One register at a time is begun for announces; a neighbour that is
\* listed is seen, and registered with all the same.
Announce(m, n) ==
  /\ Sends(m, n)
  /\ IF ~ Compatible(n, inst[n], m, inst[m])
     THEN /\ mismatch' = [mismatch EXCEPT ![n] = Noted(@, m)]
          /\ UNCHANGED <<silent, calls>>
     ELSE /\ ~ Busy(n, m)
          /\ silent' = IF table[n][m] = inst[m] THEN silent \ {<<n, m>>} ELSE silent
          /\ calls' = calls \cup Asked(n, m, "announce")
          /\ UNCHANGED mismatch
  /\ UNCHANGED <<inst, up, table, feeds, wakes, sync, upsets>>

\* Scan and dialConfiguredHosts dial without waiting for an announce.  (In the model one
\* that will be refused is not counted.)
Scan(n, m) ==
  /\ Reaches(n, m) /\ "scan" \in Failing
  /\ IF Compatible(n, inst[n], m, inst[m]) THEN Upset("scan") ELSE UNCHANGED upsets
  /\ ~ \E c \in calls : c.from = n /\ c.to = m /\ c.by = "scan"
  /\ calls' = calls \cup Asked(n, m, "scan")
  /\ UNCHANGED <<registry, feeds, wakes, sync>>

\* Nothing was heard of m for PeerTTL: it has stopped, or is another instance, or its
\* announces are lost.
FallSilent(n, m) ==
  /\ table[n][m] # 0 /\ <<n, m>> \notin silent
  /\ IF m \in up /\ table[n][m] = inst[m] THEN Upset("silence") ELSE UNCHANGED upsets
  /\ silent' = silent \cup {<<n, m>>}
  /\ UNCHANGED <<inst, up, table, mismatch, calls, feeds, wakes, sync>>

\* pruneStalePeers: PruneOlderThan, and SyncTail for each one removed.
Prune(n) ==
  LET gone == {m \in Nodes : <<n, m>> \in silent /\ table[n][m] # 0} IN
  /\ gone # {}
  /\ table' = [table EXCEPT ![n] = [m \in Nodes |-> IF m \in gone THEN 0 ELSE @[m]]]
  /\ silent' = {d \in silent : d[1] # n}
  /\ wakes' = [wakes EXCEPT ![n] = @ + Cardinality(gone)]
  /\ UNCHANGED <<inst, up, mismatch, calls, feeds, sync, upsets>>

-----------------------------------------------------------------------------
(***************************************************************************)
(* Registers.                                                              *)
(***************************************************************************)

Becomes(c, d) == calls' = (calls \ {c}) \cup {d}

\* rememberPeer's second access at n, the first having said whether it knew instance i of
\* m: the neighbour is touched (if it is still listed), or it is inserted.
Remember(n, m, i, known) ==
  IF known
  THEN /\ silent' = silent \ {<<n, m>>}
       /\ UNCHANGED <<table, wakes>>
  ELSE /\ table' = [table EXCEPT ![n][m] = i]
       /\ silent' = silent \ {<<n, m>>}
       /\ wakes' = [wakes EXCEPT ![n] = @ + (IF table[n][m] # i THEN 1 ELSE 0)]

\* handleSessionConn refuses another version, and both sides note it ...
Refuse(c) ==
  /\ c \in calls /\ c.at = "asked" /\ ~ Compatible(c.from, c.inst, c.to, inst[c.to])
  /\ calls' = calls \ {c}
  /\ mismatch' = [mismatch EXCEPT ![c.from] = Noted(@, c.to), ![c.to] = Noted(@, c.from)]
  /\ UNCHANGED <<inst, up, table, silent, feeds, wakes, sync, upsets>>

\* A mutant of LookUp: the version is not compared.
MutantLookUp(c) ==
  /\ c \in calls /\ c.at = "asked"
  /\ Becomes(c, [c EXCEPT !.at = "noting", !.known = table[c.to][c.from] = c.inst])
  /\ UNCHANGED <<registry, feeds, wakes, sync, upsets>>

\* ... or looks the client up ...
LookUp(c) ==
  /\ c \in calls /\ c.at = "asked" /\ Compatible(c.from, c.inst, c.to, inst[c.to])
  /\ Becomes(c, [c EXCEPT !.at = "noting", !.known = table[c.to][c.from] = c.inst])
  /\ UNCHANGED <<registry, feeds, wakes, sync, upsets>>

\* ... remembers it, and answers with its own instance and its backlog.
Answer(c) ==
  /\ c \in calls /\ c.at = "noting"
  /\ Remember(c.to, c.from, c.inst, c.known)
  /\ Becomes(c, [c EXCEPT !.at = "answered", !.inst = inst[c.to], !.lines = Backlog(c.to)])
  /\ UNCHANGED <<inst, up, mismatch, feeds, sync, upsets>>

\* The client does the same with the answer ...
LookUpServer(c) ==
  /\ c \in calls /\ c.at = "answered"
  /\ Becomes(c, [c EXCEPT !.at = "recording", !.known = table[c.from][c.to] = c.inst])
  /\ UNCHANGED <<registry, feeds, wakes, sync, upsets>>

\* A mutant of Record: the client forgets to remember the server.
MutantRecord(c) ==
  /\ c \in calls /\ c.at = "recording"
  /\ Becomes(c, [c EXCEPT !.at = "reading"])
  /\ UNCHANGED <<registry, feeds, wakes, sync, upsets>>

Record(c) ==
  /\ c \in calls /\ c.at = "recording"
  /\ Remember(c.from, c.to, c.inst, c.known)
  /\ Becomes(c, [c EXCEPT !.at = "reading"])
  /\ UNCHANGED <<inst, up, mismatch, feeds, sync, upsets>>

\* ... and reads the backlog to its end; an acknowledgement in it is passed over.
ReadLine(c) ==
  /\ c \in calls /\ c.at = "reading" /\ c.lines # <<>>
  /\ IF Head(c.lines) \in Lines
     THEN HandleChatLine(c.from, Head(c.lines)) /\ UNCHANGED fans
     ELSE UNCHANGED feeds
  /\ Becomes(c, [c EXCEPT !.lines = Tail(@)])
  /\ UNCHANGED <<registry, wakes, sync, upsets>>

EndOfBacklog(c) ==
  /\ c \in calls /\ c.at = "reading" /\ c.lines = <<>>
  /\ calls' = calls \ {c}
  /\ UNCHANGED <<registry, feeds, wakes, sync, upsets>>

\* The connection breaks, or DialTimeout is over.
Break(c) ==
  /\ c \in calls /\ Upset("break")
  /\ calls' = calls \ {c}
  /\ UNCHANGED <<registry, feeds, wakes, sync>>

-----------------------------------------------------------------------------
(***************************************************************************)
(* Messages: publish with its fan-out, and the keeper's tail.              *)
(***************************************************************************)

Publish(n, x) ==
  /\ n \in up /\ x \in Lines /\ Author[x] = n /\ x \notin got[n]
  /\ Takes(n, x)
  /\ fans' = fans \cup {<<x, m>> : m \in Listed(n)}
  /\ UNCHANGED <<registry, calls, wakes, sync, upsets>>

\* fanout dials, once.
Fan(x, m) ==
  /\ <<x, m>> \in fans
  /\ fans' = fans \ {<<x, m>>}
  /\ IF Reaches(Author[x], m) THEN HandleChatLine(m, x) ELSE UNCHANGED <<msgs, got>>
  /\ UNCHANGED <<registry, calls, wakes, sync, upsets>>

\* A SyncTail begins; while another is under way it returns.
SyncTail(n) ==
  /\ wakes[n] > 0
  /\ wakes' = [wakes EXCEPT ![n] = @ - 1]
  /\ sync' = [sync EXCEPT ![n].at = IF @ = "idle" THEN "picking" ELSE @]
  /\ UNCHANGED <<registry, calls, feeds, upsets>>

\* It picks the keeper from the table as it now is, and has nothing to do when that is
\* the node itself.
PickKeeper(n) ==
  /\ sync[n].at = "picking"
  /\ sync' = [sync EXCEPT ![n] = IF Keeper(n) = n THEN Leaving
                                 ELSE [at |-> "asking", with |-> Keeper(n), tail |-> <<>>]]
  /\ UNCHANGED <<registry, calls, feeds, wakes, upsets>>

\* fetchTail and HandleTailRequest; or the keeper does not answer, and nobody tries again.
FetchTail(n) ==
  /\ sync[n].at = "asking"
  /\ sync' = [sync EXCEPT ![n] =
                LET k == sync[n].with
                IN IF Reaches(n, k) THEN [at |-> "reading", with |-> k, tail |-> msgs[k]]
                   ELSE Leaving]
  /\ UNCHANGED <<registry, calls, feeds, wakes, upsets>>

FetchBreaks(n) ==
  /\ sync[n].at = "asking" /\ Upset("break")
  /\ sync' = [sync EXCEPT ![n] = Leaving]
  /\ UNCHANGED <<registry, calls, feeds, wakes>>

ReadTail(n) ==
  /\ sync[n].at = "reading"
  /\ IF sync[n].tail = <<>>
     THEN sync' = [sync EXCEPT ![n] = Leaving] /\ UNCHANGED <<msgs, got>>
     ELSE /\ Takes(n, Head(sync[n].tail))
          /\ sync' = [sync EXCEPT ![n].tail = Tail(@)]
  /\ UNCHANGED <<registry, calls, fans, wakes, upsets>>

\* h.syncing is reset, under the lock that SyncTail looks at it under.
Leave(n) ==
  /\ sync[n].at = "leaving"
  /\ sync' = [sync EXCEPT ![n] = Idle]
  /\ UNCHANGED <<registry, calls, feeds, wakes, upsets>>

-----------------------------------------------------------------------------
CallStep(c) ==
  \/ Refuse(c) \/ LookUp(c) \/ Answer(c)
  \/ LookUpServer(c) \/ Record(c) \/ ReadLine(c) \/ EndOfBacklog(c)

SyncStep(n) == SyncTail(n) \/ PickKeeper(n) \/ FetchTail(n) \/ ReadTail(n) \/ Leave(n)

Next ==
  \/ \E n \in Nodes : Start(n) \/ Stop(n) \/ Prune(n) \/ SyncStep(n) \/ FetchBreaks(n)
  \/ \E d \in Pairs : \/ Announce(d[1], d[2]) \/ Scan(d[1], d[2]) \/ FallSilent(d[1], d[2])
  \/ \E c \in calls : CallStep(c) \/ Break(c)
  \/ \E n \in Nodes, x \in Messages : Publish(n, x) \/ Fan(x, n)

\* Timers fire, goroutines run, and a network that loses announces does not lose all.
Fairness ==
  /\ \A n \in Nodes : WF_vars(Prune(n)) /\ WF_vars(SyncStep(n))
  /\ \A d \in Pairs :
       /\ WF_vars(Announce(d[1], d[2]))
       /\ WF_vars(FallSilent(d[1], d[2]) /\ UNCHANGED upsets)
       /\ WF_vars(\E c \in calls : c.from = d[1] /\ c.to = d[2] /\ CallStep(c))

Spec == Init /\ [][Next]_vars
FairSpec == Spec /\ Fairness

-----------------------------------------------------------------------------
\* TYPE INVARIANT.  The variables keep their types, and a feed never outgrows
\* MaxTailMessages.
TypeOK ==
  /\ inst \in [Nodes -> {0} \cup Instances] /\ up \subseteq Nodes
  /\ table \in [Nodes -> [Nodes -> {0} \cup Instances]]
  /\ silent \subseteq Pairs
  /\ mismatch \in [Nodes -> SUBSET Nodes]
  /\ calls \subseteq Calls
  /\ msgs \in [Nodes -> Seq(Messages)] /\ \A n \in Nodes : Len(msgs[n]) <= MaxTail
  /\ fans \subseteq Messages \X Nodes
  /\ wakes \in [Nodes -> Nat]
  /\ sync \in [Nodes -> [at : {"idle", "picking", "asking", "reading", "leaving"},
                         with : {0} \cup Nodes, tail : Seq(Messages)]]
  /\ got \in [Nodes -> SUBSET Messages]
  /\ upsets \in 0..MaxUpsets

Now(n, m) == Compatible(n, inst[n], m, inst[m])

\* SAFETY.  No neighbour is listed under an instance that speaks another version, whatever
\* registers of earlier instances are still under way (handleSessionConn and dialRegister
\* compare before rememberPeer; the table of a process dies with it).
OneVersion ==
  \A n, m \in Nodes : table[n][m] # 0 => Compatible(n, inst[n], m, table[n][m])

\* LIVENESS.  When nothing more goes wrong each table settles to the running neighbours of
\* the same version, under the instance that now runs, if a firewall lets either of the
\* two open a connection: so all name the same keeper (DUD-CHAT-121).
TablesSettle ==
  <>[](\A n \in up : \A m \in Nodes :
         table[n][m] = IF m \in up /\ m # n /\ Now(n, m)
                          /\ {<<n, m>>, <<m, n>>} \cap Dialable # {}
                       THEN inst[m] ELSE 0)

\* LIVENESS.  A node that can open a connection gets what its neighbour last wrote, even
\* when the neighbour cannot open one back ("This makes delivery work when a host firewall
\* permits connections in only one direction", discovery/node.go:526-529).
BacklogArrives ==
  <>[](\A n, m \in up : <<n, m>> \in Dialable /\ Now(n, m) =>
         Elements(Backlog(m)) \cap Lines \subseteq got[n])

\* EXPECTED BY THE SPECIFICATION (docs/specs/chat.md:77): after its join a peer sees the
\* last messages the keeper has.  So a node that does not yet list the running neighbour
\* with the least id gets each message that neighbour now holds, unless the neighbour
\* loses it first.  The code does not keep it: see the run's finding.
JoinerHasTail ==
  \A d \in Dialable : \A x \in Lines :
    LET n == d[1]
        k == d[2]
        Both == {n, k} \subseteq up /\ Now(n, k) /\ x \in Elements(msgs[k])
                /\ \A m \in Nodes : k <= m
    IN Both /\ table[n][k] = 0 ~> ~ Both \/ x \in got[n]
=============================================================================
