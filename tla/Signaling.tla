------------------------------ MODULE Signaling ------------------------------
(***************************************************************************)
(* The signaling rendezvous (src/internal/signaling/hub.go): a memory-only *)
(* WebSocket server that puts the tabs and engines behind one public IP in *)
(* a room, tells them of each other and forwards their WebRTC signals.     *)
(*                                                                         *)
(* Every connection runs serveWebSocket in a goroutine of its own (pc) and *)
(* starts a second goroutine that drains its send queue (writer).  Server  *)
(* state is shared under one mutex, which notifyPeers and route release    *)
(* before they post to a queue: those are the interleavings modelled here. *)
(* A connection id is never used again: a client that returns is a new     *)
(* member of Conns.                                                        *)
(***************************************************************************)
EXTENDS Naturals, Sequences, FiniteSets

CONSTANTS
  Conns,            \* connection ids (randomID)
  Rooms,            \* room keys (hashes of the public IP)
  RoomOf,           \* the room each connection's address hashes to
  MaxPeersPerRoom,  \* 8 in the code
  SendQueue,        \* clientSendQueue, 64 in the code
  MaxSignals        \* bound of the model: signals read in a behaviour

ASSUME RoomsAssumption == RoomOf \in [Conns -> Rooms]
ASSUME BoundsAssumption == MaxPeersPerRoom \in Nat \ {0} /\ SendQueue \in Nat \ {0}
ASSUME MaxSignalsAssumption == MaxSignals \in Nat

VARIABLES
  rooms,    \* s.rooms: the members of each room (an absent map entry is {})
  pc,       \* where each connection's serveWebSocket is
  peers,    \* its local snapshot of ids: join's result, later leave's peerIDs
  targets,  \* the clients notifyPeers resolved and has not posted to yet
  fwd,      \* the target route resolved for the signal being forwarded
  queue,    \* client.send
  done,     \* client.done is closed
  writer,   \* the writing goroutine
  open,     \* the WebSocket can still be read from and written to
  view,     \* the ids the client was told of and not told the departure of
  missed,   \* history: the ids a notice about which a full queue swallowed
  signals   \* how many signals have been read so far, for MaxSignals

server == <<rooms, peers, targets, fwd, signals>>
sockets == <<writer, open, done>>
vars == <<rooms, pc, peers, targets, fwd, queue, done, writer, open, view, missed,
          signals>>

Stages == {"idle", "refused", "joined", "announcing", "notifyJoined", "reading",
           "routing", "closing", "left", "notifyLeft", "draining", "closed"}

\* The stages between join's insertion and leave's deletion.
InRoom == {"joined", "announcing", "notifyJoined", "reading", "routing", "closing"}

Message == [type : {"peer-joined", "peer-left", "signal"}, from : Conns]

TypeOK ==
  /\ rooms \in [Rooms -> SUBSET Conns]
  /\ pc \in [Conns -> Stages]
  /\ peers \in [Conns -> SUBSET Conns]
  /\ targets \in [Conns -> SUBSET Conns]
  /\ fwd \in [Conns -> Conns]
  /\ queue \in [Conns -> Seq(Message)]
  /\ done \in [Conns -> BOOLEAN]
  /\ writer \in [Conns -> {"none", "running", "stopped"}]
  /\ open \in [Conns -> BOOLEAN]
  /\ view \in [Conns -> SUBSET Conns]
  /\ missed \in [Conns -> SUBSET Conns]
  /\ signals \in 0..MaxSignals

Init ==
  /\ rooms = [r \in Rooms |-> {}]
  /\ pc = [c \in Conns |-> "idle"]
  /\ peers = [c \in Conns |-> {}]
  /\ targets = [c \in Conns |-> {}]
  /\ fwd = [c \in Conns |-> c]
  /\ queue = [c \in Conns |-> <<>>]
  /\ done = [c \in Conns |-> FALSE]
  /\ writer = [c \in Conns |-> "none"]
  /\ open = [c \in Conns |-> TRUE]
  /\ view = [c \in Conns |-> {}]
  /\ missed = [c \in Conns |-> {}]
  /\ signals = 0

Goto(c, from, to) == pc[c] = from /\ pc' = [pc EXCEPT ![c] = to]

-----------------------------------------------------------------------------
(***************************************************************************)
(* Slips the properties below must notice.  Each has the signature of the  *)
(* definition it stands in for; none is part of the specification.         *)
(***************************************************************************)
MutantRoomIsFull(c) == Cardinality(rooms[RoomOf[c]]) > MaxPeersPerRoom
MutantNoticeTargets(c) == {p \in peers[c] \cap rooms[RoomOf[c]] : pc[p] = "reading"}
MutantNotice(c) ==           \* a type no client knows
  [type |-> IF pc[c] = "notifyJoined" THEN "peer-joined" ELSE "peer-gone", from |-> c]
MutantRouteTargets(c) ==     \* the target looked up in every room
  UNION {rooms[r] : r \in Rooms} \ {c}
MutantStartReading(c) ==     \* reads before every peer has its notice
  /\ Goto(c, "notifyJoined", "reading")
  /\ writer' = [writer EXCEPT ![c] = "running"]
  /\ UNCHANGED <<server, queue, done, open, view, missed>>
MutantAnnounceLeft(c) ==     \* leave tells nobody
  /\ Goto(c, "left", "notifyLeft")
  /\ UNCHANGED <<server, queue, sockets, view, missed>>
MutantCloseDone(c) ==        \* close(c.done) forgotten
  /\ targets[c] = {}
  /\ Goto(c, "notifyLeft", "draining")
  /\ UNCHANGED <<server, queue, sockets, view, missed>>

-----------------------------------------------------------------------------
\* join's capacity check.
RoomIsFull(c) == Cardinality(rooms[RoomOf[c]]) >= MaxPeersPerRoom

\* Whom route may forward to: s.rooms[from.room], the sender excepted.
RouteTargets(c) == rooms[RoomOf[c]] \ {c}

\* The notice a connection is handing out.
Notice(c) ==
  [type |-> IF pc[c] = "notifyJoined" THEN "peer-joined" ELSE "peer-left", from |-> c]

\* An offer, an answer or a candidate, From set by the server.
Signal(c) == [type |-> "signal", from |-> c]

\* The ids of the snapshot that notifyPeers still finds in the room.
NoticeTargets(c) == peers[c] \cap rooms[RoomOf[c]]

-----------------------------------------------------------------------------
(***************************************************************************)
(* Entering a room.                                                        *)
(***************************************************************************)

\* join finds room for one more: the snapshot and the insertion are one step.
Join(c) ==
  LET r == RoomOf[c] IN
  /\ ~RoomIsFull(c)
  /\ Goto(c, "idle", "joined")
  /\ peers' = [peers EXCEPT ![c] = rooms[r]]
  /\ rooms' = [rooms EXCEPT ![r] = @ \cup {c}]
  /\ UNCHANGED <<targets, fwd, signals, queue, sockets, view, missed>>

\* join answers errRoomFull and the socket is closed.
JoinRefused(c) ==
  /\ RoomIsFull(c)
  /\ Goto(c, "idle", "refused")
  /\ open' = [open EXCEPT ![c] = FALSE]
  /\ UNCHANGED <<server, queue, writer, done, view, missed>>

\* The welcome is written to the socket, past the queue: no writer runs yet.
WriteWelcome(c) ==
  /\ open[c]
  /\ Goto(c, "joined", "announcing")
  /\ view' = [view EXCEPT ![c] = peers[c]]
  /\ UNCHANGED <<server, queue, sockets, missed>>

\* The welcome cannot be written: the deferred leave runs, no writer ever does.
WelcomeFails(c) ==
  /\ Goto(c, "joined", "closing")
  /\ open' = [open EXCEPT ![c] = FALSE]
  /\ UNCHANGED <<server, queue, writer, done, view, missed>>

\* notifyPeers resolves the snapshot's ids to the clients still in the room.
Announce(c) ==
  /\ Goto(c, "announcing", "notifyJoined")
  /\ targets' = [targets EXCEPT ![c] = NoticeTargets(c)]
  /\ peers' = [peers EXCEPT ![c] = {}]
  /\ UNCHANGED <<rooms, fwd, signals, queue, sockets, view, missed>>

\* notifyPeers posts to one target; a full queue swallows the notice, and so
\* may a target that has gone.
NotifyOne(c, t) ==
  /\ pc[c] \in {"notifyJoined", "notifyLeft"}
  /\ t \in targets[c]
  /\ targets' = [targets EXCEPT ![c] = @ \ {t}]
  /\ \/ /\ Len(queue[t]) < SendQueue
        /\ queue' = [queue EXCEPT ![t] = Append(@, Notice(c))]
        /\ UNCHANGED missed
     \/ /\ Len(queue[t]) >= SendQueue \/ done[t]
        /\ missed' = [missed EXCEPT ![t] = @ \cup {c}]
        /\ UNCHANGED queue
  /\ UNCHANGED <<rooms, pc, peers, fwd, signals, sockets, view>>

\* Every peer has its notice: the writer starts and readLoop begins.
StartReading(c) ==
  /\ targets[c] = {}
  /\ Goto(c, "notifyJoined", "reading")
  /\ writer' = [writer EXCEPT ![c] = "running"]
  /\ UNCHANGED <<server, queue, done, open, view, missed>>

-----------------------------------------------------------------------------
(***************************************************************************)
(* Forwarding signals.                                                     *)
(***************************************************************************)

\* A valid signal arrives and route finds its target in the sender's room.
ReadSignal(c, to) ==
  /\ open[c]
  /\ to \in RouteTargets(c)
  /\ Goto(c, "reading", "routing")
  /\ fwd' = [fwd EXCEPT ![c] = to]
  /\ signals < MaxSignals
  /\ signals' = signals + 1
  /\ UNCHANGED <<rooms, peers, targets, queue, sockets, view, missed>>

\* A signal to a client that has left the room (or to nobody), an invalid one or
\* one above MaxSignalsPerSec: the sender is closed with a policy violation.
ReadRejected(c) ==
  /\ open[c]
  /\ Goto(c, "reading", "closing")
  /\ open' = [open EXCEPT ![c] = FALSE]
  /\ UNCHANGED <<server, queue, writer, done, view, missed>>

\* route posts the signal, the mutex no longer held.
RoutePosts(c) ==
  /\ Len(queue[fwd[c]]) < SendQueue
  /\ Goto(c, "routing", "reading")
  /\ queue' = [queue EXCEPT ![fwd[c]] = Append(@, Signal(c))]
  /\ fwd' = [fwd EXCEPT ![c] = c]
  /\ UNCHANGED <<rooms, peers, targets, signals, sockets, view, missed>>

\* route meets a full queue (the sender's readLoop ends and its socket stays open
\* until the end) or a target that has gone (a policy violation).
RouteFails(c) ==
  /\ Goto(c, "routing", "closing")
  /\ \/ done[fwd[c]] /\ open' = [open EXCEPT ![c] = FALSE]
     \/ Len(queue[fwd[c]]) >= SendQueue /\ ~done[fwd[c]] /\ UNCHANGED open
  /\ fwd' = [fwd EXCEPT ![c] = c]
  /\ UNCHANGED <<rooms, peers, targets, signals, queue, writer, done, view, missed>>

\* conn.Read fails on a closed socket.
ReadFails(c) ==
  /\ ~open[c]
  /\ Goto(c, "reading", "closing")
  /\ UNCHANGED <<server, queue, sockets, view, missed>>

-----------------------------------------------------------------------------
(***************************************************************************)
(* Leaving the room.                                                       *)
(***************************************************************************)

\* leave deletes the client and takes the ids that stay.
Leave(c) ==
  LET r == RoomOf[c] IN
  /\ Goto(c, "closing", "left")
  /\ rooms' = [rooms EXCEPT ![r] = @ \ {c}]
  /\ peers' = [peers EXCEPT ![c] = rooms[r] \ {c}]
  /\ UNCHANGED <<targets, fwd, signals, queue, sockets, view, missed>>

\* leave's notifyPeers, under the mutex again.
AnnounceLeft(c) ==
  /\ Goto(c, "left", "notifyLeft")
  /\ targets' = [targets EXCEPT ![c] = NoticeTargets(c)]
  /\ peers' = [peers EXCEPT ![c] = {}]
  /\ UNCHANGED <<rooms, fwd, signals, queue, sockets, view, missed>>

\* done is closed for the writer to see; a welcome that failed started none, and
\* returned before close(c.done).
CloseDone(c) ==
  /\ targets[c] = {}
  /\ done' = [done EXCEPT ![c] = writer[c] # "none"]
  /\ Goto(c, "notifyLeft", "draining")
  /\ UNCHANGED <<server, queue, writer, open, view, missed>>

\* The writer has ended (<-writeDone); the deferred leave finds nothing to do.  The
\* client is over: what it knew and what was queued for it no longer count.
Finish(c) ==
  /\ writer[c] # "running"
  /\ Goto(c, "draining", "closed")
  /\ open' = [open EXCEPT ![c] = FALSE]
  /\ queue' = [queue EXCEPT ![c] = <<>>]
  /\ view' = [view EXCEPT ![c] = {}]
  /\ missed' = [missed EXCEPT ![c] = {}]
  /\ UNCHANGED <<server, writer, done>>

-----------------------------------------------------------------------------
(***************************************************************************)
(* The writing goroutine, and the socket.                                  *)
(***************************************************************************)

\* What a client knows once it has read m.
Learn(known, m) == CASE m.type = "peer-joined" -> known \cup {m.from}
                     [] m.type = "peer-left"   -> known \ {m.from}
                     [] m.type = "signal"      -> known

\* The oldest queued message reaches the client.
WriterSends(c) ==
  /\ writer[c] = "running" /\ open[c]
  /\ queue[c] # <<>>
  /\ queue' = [queue EXCEPT ![c] = Tail(@)]
  /\ view' = [view EXCEPT ![c] = Learn(@, Head(queue[c]))]
  /\ UNCHANGED <<pc, server, sockets, missed>>

\* A write fails (the library closes the socket), or a ping is not answered in
\* time (the socket may stay open): the goroutine returns.
WriterFails(c) ==
  /\ writer[c] = "running"
  /\ writer' = [writer EXCEPT ![c] = "stopped"]
  /\ \E stays \in {FALSE, open[c]} : open' = [open EXCEPT ![c] = stays]
  /\ UNCHANGED <<pc, server, queue, done, view, missed>>

\* The goroutine sees done; what is still queued is never written.
WriterQuits(c) ==
  /\ writer[c] = "running" /\ done[c]
  /\ writer' = [writer EXCEPT ![c] = "stopped"]
  /\ UNCHANGED <<pc, server, queue, done, open, view, missed>>

\* The client closes its socket, or the network does.
SocketCloses(c) ==
  /\ open[c] /\ pc[c] # "idle"
  /\ open' = [open EXCEPT ![c] = FALSE]
  /\ UNCHANGED <<pc, server, queue, writer, done, view, missed>>

-----------------------------------------------------------------------------
\* What a connection's own goroutine does without waiting for its client.
Proceed(c) ==
  \/ WriteWelcome(c) \/ WelcomeFails(c) \/ Announce(c) \/ StartReading(c)
  \/ (\E t \in Conns : NotifyOne(c, t))
  \/ RoutePosts(c) \/ RouteFails(c) \/ ReadFails(c)
  \/ Leave(c) \/ AnnounceLeft(c) \/ CloseDone(c) \/ Finish(c)

\* What its writing goroutine does.
Write(c) == WriterSends(c) \/ WriterFails(c) \/ WriterQuits(c)

\* What its client makes it do.
ClientActs(c) ==
  \/ Join(c) \/ JoinRefused(c) \/ SocketCloses(c)
  \/ ReadRejected(c) \/ (\E to \in Conns : ReadSignal(c, to))

Next == \E c \in Conns : Proceed(c) \/ Write(c) \/ ClientActs(c)

\* The Go scheduler runs every goroutine that is not blocked; writes end within
\* writeTimeout.  Clients owe nothing.
Fairness == \A c \in Conns : WF_vars(Proceed(c)) /\ WF_vars(WriterSends(c) \/ WriterQuits(c))

Spec == Init /\ [][Next]_vars
FairSpec == Spec /\ Fairness

-----------------------------------------------------------------------------
(***************************************************************************)
(* Properties.                                                             *)
(***************************************************************************)

\* A room slot belongs to a connection that is still being served, and there are
\* never more of them than MaxPeersPerRoom: no path through serveWebSocket (a
\* welcome that fails, a refused join, a slow writer) leaks one or takes one twice.
Membership ==
  \A r \in Rooms :
    /\ rooms[r] = {c \in Conns : RoomOf[c] = r /\ pc[c] \in InRoom}
    /\ Cardinality(rooms[r]) <= MaxPeersPerRoom

\* Nothing crosses rooms: a client is told of, and receives signals from, members of its
\* own room only (the welcome, the notices and route agree on whose room counts).
RoomIsolation ==
  \A c \in Conns :
    /\ \A p \in view[c] : RoomOf[p] = RoomOf[c]
    /\ \A i \in 1..Len(queue[c]) : RoomOf[queue[c][i].from] = RoomOf[c]

\* What c will have been told before the first queued message reaches it.
Told(c) == IF pc[c] = "joined" THEN peers[c] ELSE view[c]

\* What is queued for c may yet be written to it.
Served(c) == writer[c] = "running" \/ pc[c] \in {"joined", "announcing", "notifyJoined"}

\* In the queue q of a client that was told of the ids in told, a signal comes after the
\* notice of its sender and before the notice of the sender's departure; lost are the
\* ids of the notices a full queue swallowed.
InOrder(q, told, lost) ==
  \A i \in 1..Len(q) :
    q[i].type = "signal" /\ q[i].from \notin lost
      => LET Before(type) == \E j \in 1..(i - 1) : q[j] = [type |-> type, from |-> q[i].from]
         IN (q[i].from \in told \/ Before("peer-joined")) /\ ~Before("peer-left")

\* Whichever way joins, departures, the welcome that bypasses the queue and forwarded
\* signals interleave, a signal reaches a client only after the client was told of its
\* sender (by the welcome or a peer-joined) and before it is told of its departure;
\* the only exception is a notice that a full queue swallowed.
KnownSenders == \A c \in Conns : Served(c) => InOrder(queue[c], Told(c), missed[c])

\* c has read everything that was sent to it.
Settled(c) == pc[c] = "reading" /\ writer[c] = "running" /\ queue[c] = <<>>

\* A settled client believes in no peer that has gone, unless the departure is still
\* being announced or its notice was swallowed by a full queue.
NoGhostPeers ==
  \A c \in Conns : Settled(c) =>
    \A p \in view[c] \ missed[c] :
      \/ pc[p] \in InRoom \cup {"left"}
      \/ pc[p] = "notifyLeft" /\ c \in targets[p]

\* Two settled clients of one room know each other, whichever joined first, unless a
\* notice was swallowed: the join snapshot and the peer-joined notices together leave
\* nobody out.
NoInvisiblePeers ==
  \A c, p \in Conns :
    c # p /\ RoomOf[c] = RoomOf[p] /\ Settled(c) /\ Settled(p)
      => p \in view[c] \cup missed[c]

\* Once its read loop has ended, a connection is torn down: nothing it waits for
\* (its writer, a slow peer's queue) keeps it for ever.
Teardown == \A c \in Conns : pc[c] = "closing" ~> pc[c] = "closed"

Roommates(c) == {p \in Conns \ {c} : RoomOf[p] = RoomOf[c]}

\* A client whose writer keeps working hears of a departure, if the notice fitted its queue.
DepartureHeard ==
  \A c \in Conns : \A p \in Roommates(c) :
    (p \in view[c] /\ pc[p] = "closed")
      ~> (p \notin view[c] \/ p \in missed[c] \/ writer[c] # "running" \/ ~open[c])
=============================================================================
