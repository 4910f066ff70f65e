--------------------------------- MODULE Mesh ---------------------------------
(***************************************************************************)
(* The WebRTC mesh of the engines (src/internal/rtcmesh/client.go): the    *)
(* clients of one room find each other through the rendezvous, negotiate a *)
(* peer connection for every pair, and list the neighbours whose names     *)
(* arrived over a direct channel.                                          *)
(*                                                                         *)
(* A signaling session has an id that the rendezvous draws at random: a    *)
(* client that reconnects has a new one.  The rendezvous is taken at what  *)
(* module Signaling shows of it: a session's welcome comes first, notices  *)
(* and signals reach it in order while its socket lasts, and a signal to   *)
(* an id that has left closes its sender's socket.  A peer connection is   *)
(* abstracted to its offer, its answer and its DataChannel; candidates     *)
(* travel with the descriptions.                                           *)
(***************************************************************************)
EXTENDS Naturals, Sequences, FiniteSets

CONSTANTS
  Clients,   \* engines
  Ids,       \* the ids the rendezvous may draw, numbered in the order of their bytes
  None,      \* "" as an id, nil as a client
  MaxUpsets  \* bound of the model: losses, failures, renames and stops

ASSUME IdsAssumption == Ids \subseteq Nat \ {0} /\ None \notin Ids
ASSUME ClientsAssumption == None \notin Clients
ASSUME UpsetsAssumption == MaxUpsets \in Nat

VARIABLES
  room,      \* the ids the rendezvous lists
  up,        \* those whose socket still works
  mail,      \* what was sent to each id and not handled yet
  owner,     \* the client each id was drawn for
  running,   \* Start has run and Stop has not
  sock,      \* c.socket, by the id the rendezvous knows it under
  signalID,  \* c.signalID: the id the welcome gave
  peers,     \* c.peers: the client's end of each peer connection
  hello,     \* <<i, j>>: the name of session j is on its way to session i
  listed,    \* Config.Peers: the neighbours an engine shows
  late,      \* history: the neighbours listed from a peer already removed
  closing,   \* the closed connections whose callbacks may still come
  broken,    \* history: the pairs of sessions whose connection failed
  upsets     \* how much of MaxUpsets was used

rendezvous == <<room, up, mail, owner>>
vars == <<rendezvous, running, sock, signalID, peers, hello, listed, late, closing, broken,
          upsets>>

Signal == [type : {"welcome", "peer-joined", "peer-left", "offer", "answer"},
           from : Ids, peers : SUBSET Ids]

\* One end of a peer connection: how far its descriptions are, whether its channel is
\* open (p.open) and whether the other's name has arrived (p.remotePeerID).
Peer == [state : {"none", "new", "offered", "agreed"}, open : BOOLEAN, known : BOOLEAN]

NoPeer == [state |-> "none", open |-> FALSE, known |-> FALSE]

TypeOK ==
  /\ up \subseteq room /\ room \subseteq Ids
  /\ mail \in [Ids -> Seq(Signal)]
  /\ owner \in [Ids -> Clients \cup {None}]
  /\ running \in [Clients -> BOOLEAN]
  /\ sock \in [Clients -> Ids \cup {None}]
  /\ signalID \in [Clients -> Ids \cup {None}]
  /\ peers \in [Clients -> [Ids -> Peer]]
  /\ hello \subseteq Ids \X Ids
  /\ listed \in [Clients -> SUBSET Clients]
  /\ late \in [Clients -> SUBSET Clients]
  /\ closing \in [Clients -> SUBSET Ids]
  /\ broken \subseteq SUBSET Ids
  /\ upsets \in 0..MaxUpsets

\* Every engine has been started.
Init ==
  /\ room = {} /\ up = {}
  /\ mail = [i \in Ids |-> <<>>]
  /\ owner = [i \in Ids |-> None]
  /\ running = [c \in Clients |-> TRUE]
  /\ sock = [c \in Clients |-> None]
  /\ signalID = [c \in Clients |-> None]
  /\ peers = [c \in Clients |-> [i \in Ids |-> NoPeer]]
  /\ hello = {}
  /\ listed = [c \in Clients |-> {}]
  /\ late = [c \in Clients |-> {}]
  /\ closing = [c \in Clients |-> {}]
  /\ broken = {}
  /\ upsets = 0

-----------------------------------------------------------------------------
(***************************************************************************)
(* Slips the properties below must notice.  Each has the signature of the  *)
(* definition it stands in for; none is part of the specification.         *)
(***************************************************************************)
MutantInitiates(ours, theirs) == ours # theirs   \* everybody offers
MutantNote(type, i) ==                           \* a type no client knows
  [type |-> IF type = "answer" THEN "pranswer" ELSE type, from |-> i, peers |-> {}]
MutantRemovePeers(c, gone) ==                    \* the neighbours stay listed
  /\ peers' = [peers EXCEPT ![c] = [i \in Ids |-> IF i \in gone THEN NoPeer ELSE @[i]]]
  /\ UNCHANGED listed
MutantHandleJoined(c) ==                         \* whoever was there first only waits
  /\ sock[c] # None /\ mail[sock[c]] # <<>>
  /\ Head(mail[sock[c]]).type = "peer-joined"
  /\ mail' = [mail EXCEPT ![sock[c]] = Tail(@)]
  /\ UNCHANGED <<room, up, owner, running, sock, signalID, peers, hello, listed, late,
                 closing, broken, upsets>>
MutantHello(c, i) ==                             \* a name before one's own channel is open
  /\ <<sock[c], i>> \in hello
  /\ peers[c][i].state = "agreed"
  /\ hello' = hello \ {<<sock[c], i>>}
  /\ IF peers[c][i].open
     THEN /\ peers' = [peers EXCEPT ![c][i].known = TRUE]
          /\ listed' = [listed EXCEPT ![c] = @ \cup {owner[i]}]
     ELSE UNCHANGED <<peers, listed>>
  /\ UNCHANGED <<rendezvous, running, sock, signalID, late, closing, broken, upsets>>

-----------------------------------------------------------------------------
\* The side that begins the offer: strings.Compare(ours, theirs) > 0.
Initiates(ours, theirs) == ours > theirs

Note(type, i) == [type |-> type, from |-> i, peers |-> {}]

\* box once m was sent to the members of to; a socket that is gone gets nothing.
Posted(box, to, m) == [i \in Ids |-> IF i \in to \cap up THEN Append(box[i], m) ELSE box[i]]

\* sendSignal from c to every member of to, the mail being box: a member that has left
\* makes the rendezvous close the socket, and what follows is not routed.
SendSignal(c, to, type, box) ==
  IF sock[c] \notin up
  THEN mail' = box /\ UNCHANGED up
  ELSE \E routed \in SUBSET (to \cap room) :
         /\ to \subseteq room => routed = to
         /\ mail' = Posted(box, routed, Note(type, sock[c]))
         /\ up' = IF to \subseteq room THEN up ELSE up \ {sock[c]}

\* The owners of those of c's connections whose other end said its name.
Named(c, gone) == {owner[i] : i \in {j \in gone : peers[c][j].known}}

\* The ids under which c holds a connection.
Held(c) == {i \in Ids : peers[c][i].state # "none"}

\* removePeer, closePeers: the connections go, and the neighbours they named.
RemovePeers(c, gone) ==
  /\ peers' = [peers EXCEPT ![c] = [i \in Ids |-> IF i \in gone THEN NoPeer ELSE @[i]]]
  /\ listed' = [listed EXCEPT ![c] = @ \ Named(c, gone)]

\* ensurePeer: the connection there is, or a new one.
Ensured(p) == IF p = NoPeer THEN [NoPeer EXCEPT !.state = "new"] ELSE p

-----------------------------------------------------------------------------
(***************************************************************************)
(* Sessions (reconnectLoop, runSession).                                   *)
(***************************************************************************)

\* A client dials; the rendezvous lists it, welcomes it and tells the others.
Connect(c) ==
  /\ running[c] /\ sock[c] = None
  /\ \E i \in Ids :
       /\ owner[i] = None
       /\ owner' = [owner EXCEPT ![i] = c]
       /\ sock' = [sock EXCEPT ![c] = i]
       /\ mail' = [Posted(mail, room, Note("peer-joined", i)) EXCEPT
                     ![i] = <<[type |-> "welcome", from |-> i, peers |-> room]>>]
       /\ room' = room \cup {i} /\ up' = up \cup {i}
  /\ UNCHANGED <<running, signalID, peers, hello, listed, late, closing, broken, upsets>>

\* A socket is lost: by the network, by the rendezvous, or by the engine's Restart.
Drop(i) ==
  /\ i \in up /\ upsets < MaxUpsets
  /\ up' = up \ {i}
  /\ upsets' = upsets + 1
  /\ UNCHANGED <<room, mail, owner, running, sock, signalID, peers, hello, listed, late,
                 closing, broken>>

\* The rendezvous notices that a socket is gone and tells those who stay.  No later
\* session meets its id, so what is still to be called for it makes no difference.
Leave(i) ==
  /\ i \in room \ up
  /\ room' = room \ {i}
  /\ mail' = Posted(mail, up, Note("peer-left", i))
  /\ closing' = [c \in Clients |-> closing[c] \ {i}]
  /\ UNCHANGED <<up, owner, running, sock, signalID, peers, hello, listed, late, broken,
                 upsets>>

\* runSession returns: its socket and its id are forgotten, and closePeers ends every
\* connection there is; that they are closed calls OnClose and OnConnectionStateChange,
\* later than this.
SessionEnds(c) ==
  /\ sock[c] # None /\ sock[c] \notin up
  /\ sock' = [sock EXCEPT ![c] = None]
  /\ signalID' = [signalID EXCEPT ![c] = None]
  /\ mail' = [mail EXCEPT ![sock[c]] = <<>>]
  /\ RemovePeers(c, Ids)
  /\ closing' = [closing EXCEPT ![c] = @ \cup (Held(c) \cap room)]
  /\ UNCHANGED <<room, up, owner, running, hello, late, broken, upsets>>

\* Stop, as the engine exits: the neighbours are forgotten, however they got there.
Stop(c) ==
  /\ running[c] /\ upsets < MaxUpsets
  /\ upsets' = upsets + 1
  /\ running' = [running EXCEPT ![c] = FALSE]
  /\ up' = up \ {sock[c]}
  /\ mail' = [i \in Ids |-> IF i = sock[c] THEN <<>> ELSE mail[i]]
  /\ sock' = [sock EXCEPT ![c] = None]
  /\ signalID' = [signalID EXCEPT ![c] = None]
  /\ peers' = [peers EXCEPT ![c] = [i \in Ids |-> NoPeer]]
  /\ listed' = [listed EXCEPT ![c] = {}]
  /\ late' = [late EXCEPT ![c] = {}]
  /\ UNCHANGED <<room, owner, hello, closing, broken>>

-----------------------------------------------------------------------------
(***************************************************************************)
(* Signals (handleSignal), one after the other.                            *)
(***************************************************************************)

Waiting(c) == sock[c] # None /\ mail[sock[c]] # <<>>
Incoming(c) == Head(mail[sock[c]])
Handled(c) == [mail EXCEPT ![sock[c]] = Tail(@)]

\* connectPeer for every member of those, by a client whose id is ours: it offers to
\* those it initiates with, and waits for the offers of the others.
ConnectPeers(c, ours, those) ==
  LET others == IF ours = None THEN {} ELSE those \ {ours}
      offers == {i \in others : Initiates(ours, i)}
  IN /\ peers' = [peers EXCEPT ![c] = [i \in Ids |->
           IF i \in offers THEN [Ensured(@[i]) EXCEPT !.state = "offered"]
           ELSE IF i \in others THEN Ensured(@[i]) ELSE @[i]]]
     /\ SendSignal(c, offers, "offer", Handled(c))

\* connectPeer may fail, which ends the handling: some of those are not connected to.  (A
\* connection that was made for the one it failed at never offers, as if there were none.)
ConnectSome(c, ours, those) ==
  \E reached \in SUBSET those :
    /\ ours = None => reached = those
    /\ ConnectPeers(c, ours, reached)
    /\ broken' = broken \cup {{ours, i} : i \in those \ reached}
    /\ IF reached = those THEN UNCHANGED upsets
       ELSE upsets < MaxUpsets /\ upsets' = upsets + 1

HandleWelcome(c) ==
  /\ Waiting(c) /\ Incoming(c).type = "welcome"
  /\ signalID' = [signalID EXCEPT ![c] = Incoming(c).from]
  /\ ConnectSome(c, Incoming(c).from, Incoming(c).peers)
  /\ UNCHANGED <<room, owner, running, sock, hello, listed, late, closing>>

HandleJoined(c) ==
  /\ Waiting(c) /\ Incoming(c).type = "peer-joined"
  /\ ConnectSome(c, signalID[c], {Incoming(c).from})
  /\ UNCHANGED <<room, owner, running, sock, signalID, hello, listed, late, closing>>

HandleLeft(c) ==
  /\ Waiting(c) /\ Incoming(c).type = "peer-left"
  /\ mail' = Handled(c)
  /\ RemovePeers(c, {Incoming(c).from})
  /\ UNCHANGED <<room, up, owner, running, sock, signalID, hello, late, closing, broken,
                 upsets>>

\* An offer is answered; on a connection that has an offer of its own out,
\* SetRemoteDescription fails and nothing changes.
HandleOffer(c) ==
  /\ Waiting(c) /\ Incoming(c).type = "offer"
  /\ LET i == Incoming(c).from IN
     IF peers[c][i].state = "offered"
     THEN mail' = Handled(c) /\ UNCHANGED <<up, peers>>
     ELSE /\ peers' = [peers EXCEPT ![c][i] = [Ensured(@) EXCEPT !.state = "agreed"]]
          /\ SendSignal(c, {i}, "answer", Handled(c))
  /\ UNCHANGED <<room, owner, running, sock, signalID, hello, listed, late, closing, broken,
                 upsets>>

\* An answer from a peer that is gone, or that nobody asked for, is an error.
HandleAnswer(c) ==
  /\ Waiting(c) /\ Incoming(c).type = "answer"
  /\ mail' = Handled(c)
  /\ LET i == Incoming(c).from IN
     peers' = IF peers[c][i].state = "offered"
              THEN [peers EXCEPT ![c][i].state = "agreed"] ELSE peers
  /\ UNCHANGED <<room, up, owner, running, sock, signalID, hello, listed, late, closing, broken,
                 upsets>>

HandleSignal(c) ==
  \/ HandleWelcome(c) \/ HandleJoined(c) \/ HandleLeft(c) \/ HandleOffer(c) \/ HandleAnswer(c)

-----------------------------------------------------------------------------
(***************************************************************************)
(* Direct channels (wireChannel, handlePacket), and their loss.            *)
(***************************************************************************)

\* The other end of c's connection to session i, if it still is one.
Counterpart(c, i) ==
  IF owner[i] = None \/ sock[c] = None \/ sock[owner[i]] # i THEN NoPeer
  ELSE peers[owner[i]][sock[c]]

\* The channel of a connection both ends agreed on opens at c's end: c says its name.
Open(c, i) ==
  /\ peers[c][i].state = "agreed" /\ ~ peers[c][i].open
  /\ Counterpart(c, i).state = "agreed"
  /\ peers' = [peers EXCEPT ![c][i].open = TRUE]
  /\ hello' = hello \cup {<<i, sock[c]>>}
  /\ UNCHANGED <<rendezvous, running, sock, signalID, listed, late, closing, broken, upsets>>

\* SetName: the new name goes to every open channel.
SetName(c) ==
  /\ sock[c] # None /\ upsets < MaxUpsets
  /\ upsets' = upsets + 1
  /\ hello' = hello \cup ({i \in Ids : peers[c][i].open} \X {sock[c]})
  /\ UNCHANGED <<rendezvous, running, sock, signalID, peers, listed, late, closing, broken>>

\* A name arrives and its owner is listed.
Hello(c, i) ==
  /\ <<sock[c], i>> \in hello
  /\ peers[c][i].state = "agreed"
  /\ hello' = hello \ {<<sock[c], i>>}
  /\ peers' = [peers EXCEPT ![c][i].known = TRUE]
  /\ listed' = [listed EXCEPT ![c] = @ \cup {owner[i]}]
  /\ UNCHANGED <<rendezvous, running, sock, signalID, late, closing, broken, upsets>>

\* A name whose connection was removed in the meantime is lost, or, if it was being
\* handled, its owner is listed all the same.
HelloLate(c, i) ==
  /\ \E j \in Ids :
       /\ <<j, i>> \in hello /\ owner[j] = c
       /\ j = sock[c] => peers[c][i].state # "agreed"
       /\ hello' = hello \ {<<j, i>>}
  /\ \/ UNCHANGED <<listed, late>>
     \/ /\ listed' = [listed EXCEPT ![c] = @ \cup {owner[i]}]
        /\ late' = [late EXCEPT ![c] = @ \cup {owner[i]}]
  /\ UNCHANGED <<rendezvous, running, sock, signalID, peers, closing, broken, upsets>>

\* The other end is gone: the channel closes, or the connection fails in the end.
PeerGone(c, i) ==
  /\ peers[c][i].state = "agreed"
  /\ Counterpart(c, i).state \in {"none", "new"}
  /\ RemovePeers(c, {i})
  /\ UNCHANGED <<rendezvous, running, sock, signalID, hello, late, closing, broken, upsets>>

\* A connection fails although both ends are there.
Fail(c, i) ==
  /\ peers[c][i].state = "agreed" /\ upsets < MaxUpsets
  /\ upsets' = upsets + 1
  /\ broken' = broken \cup {{sock[c], i}}
  /\ RemovePeers(c, {i})
  /\ UNCHANGED <<rendezvous, running, sock, signalID, hello, late, closing>>

\* A callback of a closed connection comes late and removes, by the session's id, the
\* connection c has with that session since.
CloseLate(c, i) ==
  /\ i \in closing[c] \cap Held(c)
  /\ broken' = broken \cup {{sock[c], i}}
  /\ RemovePeers(c, {i})
  /\ closing' = [closing EXCEPT ![c] = @ \ {i}]
  /\ UNCHANGED <<rendezvous, running, sock, signalID, hello, late, upsets>>

-----------------------------------------------------------------------------
Next ==
  \/ \E c \in Clients :
       \/ Connect(c) \/ SessionEnds(c) \/ Stop(c) \/ HandleSignal(c) \/ SetName(c)
       \/ \E i \in Ids :
            Open(c, i) \/ Hello(c, i) \/ HelloLate(c, i) \/ PeerGone(c, i)
            \/ Fail(c, i) \/ CloseLate(c, i)
  \/ \E i \in Ids : Drop(i) \/ Leave(i)

\* The read loop and the reconnect loop of an engine never stop, the rendezvous pings
\* its sockets, and ICE and the channels make progress.
Fairness ==
  /\ \A c \in Clients :
       /\ WF_vars(Connect(c)) /\ WF_vars(SessionEnds(c)) /\ WF_vars(HandleSignal(c))
       /\ \A i \in Ids : WF_vars(Open(c, i)) /\ WF_vars(Hello(c, i)) /\ WF_vars(PeerGone(c, i))
  /\ \A i \in Ids : WF_vars(Leave(i))

Spec == Init /\ [][Next]_vars
FairSpec == Spec /\ Fairness

-----------------------------------------------------------------------------
(***************************************************************************)
(* Properties.                                                             *)
(***************************************************************************)

\* However joins, departures and reconnections interleave, two engines never have
\* offers out to each other: neither would take the other's (connectPeer's comparison
\* of ids and the rendezvous' notices agree on one initiator, docs/specs/web.md:72-73).
NoGlare ==
  \A c, d \in Clients :
    sock[c] # None /\ sock[d] # None
      => ~ (peers[c][sock[d]].state = "offered" /\ peers[d][sock[c]].state = "offered")

\* c's session works and c has handled all that was sent to it.
Settled(c) == sock[c] \in up /\ mail[sock[c]] = <<>>

\* Two engines that have handled all their signals have agreed on a connection, or had
\* one that failed: nobody waits for an offer or an answer that never comes.
PairsAgree ==
  \A c, d \in Clients :
    c # d /\ Settled(c) /\ Settled(d) /\ {sock[c], sock[d]} \notin broken
      => peers[c][sock[d]].state = "agreed"

\* An engine shows nobody it has no connection to: whichever way a connection ends
\* (peer-left, a failure, the end of the session), its neighbour goes with it, one
\* listed while its connection was being removed excepted.
ListedAreConnected ==
  \A c \in Clients : listed[c] \subseteq Named(c, Ids) \cup late[c]

\* A name that was said is not lost while both sessions last: once a channel is open at one
\* end, the other end knows whose it is or the name is on its way there, although that end
\* may not have opened yet, and may handle names of connections it has removed.
NamesArrive ==
  \A c, d \in Clients :
    c # d /\ sock[c] \in up /\ sock[d] \in up /\ {sock[c], sock[d]} \notin broken
        /\ peers[c][sock[d]].open
      => peers[d][sock[c]].known \/ <<sock[d], sock[c]>> \in hello

\* Once nothing is lost any more, every two engines that are in the room get an open
\* channel both ways and learn each other's names, unless their connection failed.
Meshed ==
  <>[](\A c, d \in Clients :
         c # d /\ sock[c] \in up /\ sock[d] \in up /\ {sock[c], sock[d]} \notin broken
           => peers[c][sock[d]].open /\ peers[c][sock[d]].known)

\* docs/adr/0002-one-webrtc-mesh.md:27-28: a ready direct channel goes on working without
\* signaling.
ReadyChannelSurvives ==
  [][\A c \in Clients, i \in Ids :
       peers[c][i].open /\ ~ peers[c][i].open'
         => {sock[c], i} \in broken' \/ ~ running'[c] \/ ~ running'[owner[i]]]_vars
=============================================================================
