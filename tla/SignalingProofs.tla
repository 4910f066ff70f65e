--------------------------- MODULE SignalingProofs ---------------------------
(***************************************************************************)
(* Proofs about Signaling, for every set of connections and rooms and      *)
(* every bound: type correctness, that room slots neither leak nor exceed  *)
(* the capacity, and that a signal never precedes the notice of its sender *)
(* nor follows the notice of its departure; that rooms do not mix, that    *)
(* settled clients know who is there and who is gone, and that no teardown *)
(* waits for a writer that may not quit.                                   *)
(***************************************************************************)
EXTENDS Signaling, TLAPS, FiniteSetTheorems, SequenceTheorems

-----------------------------------------------------------------------------
(* Type correctness.                                                       *)

\* What the server itself writes into a message is well formed.
LEMMA NoticeIsMessage ==
  ASSUME NEW c \in Conns, NEW type \in {"peer-joined", "peer-left", "signal"}
  PROVE  [type |-> type, from |-> c] \in Message
BY DEF Message

\* Every action keeps the types.
LEMMA TypeStep == TypeOK /\ [Next]_vars => TypeOK'
<1> SUFFICES ASSUME TypeOK, [Next]_vars PROVE TypeOK'
  OBVIOUS
<1> USE RoomsAssumption, BoundsAssumption, MaxSignalsAssumption
    DEF TypeOK, server, sockets, Goto, Stages
<1>1. ASSUME NEW c \in Conns, Join(c) PROVE TypeOK'
  BY <1>1 DEF Join
<1>2. ASSUME NEW c \in Conns, JoinRefused(c) PROVE TypeOK'
  BY <1>2 DEF JoinRefused
<1>3. ASSUME NEW c \in Conns, WriteWelcome(c) PROVE TypeOK'
  BY <1>3 DEF WriteWelcome
<1>4. ASSUME NEW c \in Conns, WelcomeFails(c) PROVE TypeOK'
  BY <1>4 DEF WelcomeFails
<1>5. ASSUME NEW c \in Conns, Announce(c) PROVE TypeOK'
  BY <1>5 DEF Announce, NoticeTargets
<1>6. ASSUME NEW c \in Conns, NEW t \in Conns, NotifyOne(c, t) PROVE TypeOK'
  <2>1. queue' \in [Conns -> Seq(Message)]
    <3>1. Append(queue[t], Notice(c)) \in Seq(Message)
      BY NoticeIsMessage, AppendProperties DEF Notice
    <3>2. queue' = queue \/ queue' = [queue EXCEPT ![t] = Append(@, Notice(c))]
      BY <1>6 DEF NotifyOne
    <3>3. queue \in [Conns -> Seq(Message)]
      OBVIOUS
    <3>. QED BY ONLY <3>1, <3>2, <3>3, t \in Conns
  <2>2. targets' \in [Conns -> SUBSET Conns]
    BY <1>6 DEF NotifyOne
  <2>3. missed' \in [Conns -> SUBSET Conns]
    <3>1. missed' = missed \/ missed' = [missed EXCEPT ![t] = @ \cup {c}]
      BY <1>6 DEF NotifyOne
    <3>2. missed \in [Conns -> SUBSET Conns]
      OBVIOUS
    <3>. QED BY ONLY <3>1, <3>2, t \in Conns, c \in Conns
  <2>4. UNCHANGED <<rooms, pc, peers, fwd, signals, writer, open, done, view>>
    BY <1>6 DEF NotifyOne
  <2>. QED BY <2>1, <2>2, <2>3, <2>4
<1>7. ASSUME NEW c \in Conns, StartReading(c) PROVE TypeOK'
  BY <1>7 DEF StartReading
<1>8. ASSUME NEW c \in Conns, NEW to \in Conns, ReadSignal(c, to) PROVE TypeOK'
  BY <1>8 DEF ReadSignal
<1>9. ASSUME NEW c \in Conns, ReadRejected(c) PROVE TypeOK'
  BY <1>9 DEF ReadRejected
<1>10. ASSUME NEW c \in Conns, RoutePosts(c) PROVE TypeOK'
  <2>1. queue' \in [Conns -> Seq(Message)]
    <3>1. Signal(c) \in Message
      BY NoticeIsMessage DEF Signal
    <3>2. Append(queue[fwd[c]], Signal(c)) \in Seq(Message)
      BY <3>1, AppendProperties
    <3>. QED BY <1>10, <3>2 DEF RoutePosts
  <2>. QED BY <1>10, <2>1 DEF RoutePosts
<1>11. ASSUME NEW c \in Conns, RouteFails(c) PROVE TypeOK'
  BY <1>11 DEF RouteFails
<1>12. ASSUME NEW c \in Conns, ReadFails(c) PROVE TypeOK'
  BY <1>12 DEF ReadFails
<1>13. ASSUME NEW c \in Conns, Leave(c) PROVE TypeOK'
  BY <1>13 DEF Leave
<1>14. ASSUME NEW c \in Conns, AnnounceLeft(c) PROVE TypeOK'
  BY <1>14 DEF AnnounceLeft, NoticeTargets
<1>15. ASSUME NEW c \in Conns, CloseDone(c) PROVE TypeOK'
  BY <1>15 DEF CloseDone
<1>16. ASSUME NEW c \in Conns, Finish(c) PROVE TypeOK'
  <2>1. <<>> \in Seq(Message)
    OBVIOUS
  <2>. QED BY <1>16, <2>1 DEF Finish
<1>17. ASSUME NEW c \in Conns, WriterSends(c) PROVE TypeOK'
  <2>1. Head(queue[c]) \in Message /\ Tail(queue[c]) \in Seq(Message)
    BY <1>17, HeadTailProperties DEF WriterSends
  <2>2. Head(queue[c]).from \in Conns
    BY <2>1 DEF Message
  <2>3. Learn(view[c], Head(queue[c])) \in SUBSET Conns
    BY <2>1, <2>2 DEF Learn, Message
  <2>. QED BY <1>17, <2>1, <2>3 DEF WriterSends
<1>18. ASSUME NEW c \in Conns, WriterFails(c) PROVE TypeOK'
  <2>1. open' \in [Conns -> BOOLEAN]
    <3>1. PICK stays \in BOOLEAN : open' = [open EXCEPT ![c] = stays]
      BY <1>18 DEF WriterFails
    <3>. QED BY <3>1
  <2>. QED BY <1>18, <2>1 DEF WriterFails
<1>19. ASSUME NEW c \in Conns, WriterQuits(c) PROVE TypeOK'
  BY <1>19 DEF WriterQuits
<1>20. ASSUME NEW c \in Conns, SocketCloses(c) PROVE TypeOK'
  BY <1>20 DEF SocketCloses
<1>21. CASE UNCHANGED vars
  BY <1>21 DEF vars
<1>. QED
  BY <1>1, <1>2, <1>3, <1>4, <1>5, <1>6, <1>7, <1>8, <1>9, <1>10, <1>11, <1>12, <1>13,
     <1>14, <1>15, <1>16, <1>17, <1>18, <1>19, <1>20, <1>21
  DEF Next, Proceed, Write, ClientActs

\* Every variable keeps its type whatever the connections do.
THEOREM SignalingTypes == Spec => []TypeOK
<1>1. Init => TypeOK
  BY RoomsAssumption, MaxSignalsAssumption DEF Init, TypeOK, Stages
<1>. QED BY <1>1, TypeStep, PTL DEF Spec

-----------------------------------------------------------------------------
(***************************************************************************)
(* The inductive invariant.                                                *)
(***************************************************************************)

\* What the stages of one connection say of its own variables: until its read loop
\* starts it has no writer, before it joins nobody can have posted to it, and a
\* signal is on its way to another connection that has joined.
Stagewise ==
  \A c \in Conns :
    /\ pc[c] \in {"idle", "joined", "announcing", "notifyJoined"} => writer[c] = "none"
    /\ pc[c] = "idle" => queue[c] = <<>>
    /\ \A p \in targets[c] : pc[p] # "idle"
    /\ pc[c] = "routing" => fwd[c] # c /\ pc[fwd[c]] # "idle"

\* rooms holds exactly the connections between join and leave.
Slots == \A r \in Rooms : rooms[r] = {c \in Conns : RoomOf[c] = r /\ pc[c] \in InRoom}

Capacity ==
  \A r \in Rooms : IsFiniteSet(rooms[r]) /\ Cardinality(rooms[r]) <= MaxPeersPerRoom

Holds(q, m) == \E i \in 1..Len(q) : q[i] = m
Queued(c, type, z) == Holds(queue[c], [type |-> type, from |-> z])

\* A departure is queued only once its subject has left the room for good.
Departures ==
  \A c, z \in Conns :
    Queued(c, "peer-left", z) => pc[z] \in {"notifyLeft", "draining", "closed"}

\* c has been told of z, will be by what is queued, or the notice was swallowed.
Heard(c, z) == z \in Told(c) \cup missed[c] \/ Queued(c, "peer-joined", z)

\* z has yet to announce itself to c.
Owes(z, c) ==
  \/ pc[z] \in {"joined", "announcing"} /\ c \in peers[z]
  \/ pc[z] = "notifyJoined" /\ c \in targets[z]

\* The clients z's signals can still reach.
Reach(z) == rooms[RoomOf[z]] \cup (IF pc[z] = "routing" THEN {fwd[z]} ELSE {})

\* The stages in which z may still address others, now or later.
Voice == {"joined", "announcing", "notifyJoined", "reading", "routing"}

\* Whoever z can reach has heard of z, or is owed z's notice.
Announced ==
  \A c, z \in Conns :
    c # z /\ Served(c) /\ pc[z] \in Voice /\ c \in Reach(z)
    => Heard(c, z) \/ Owes(z, c)

IInv == TypeOK /\ Stagewise /\ Slots /\ Departures /\ Announced /\ KnownSenders

\* Who is in the room of c.
LEMMA MembersAreServed ==
  ASSUME Slots, NEW c \in Conns
  PROVE  \A p : p \in rooms[RoomOf[c]]
                 <=> p \in Conns /\ RoomOf[p] = RoomOf[c] /\ pc[p] \in InRoom
<1>1. RoomOf[c] \in Rooms
  BY RoomsAssumption
<1>. QED BY <1>1 DEF Slots

\* Every action keeps what the stages say.
LEMMA StageStep == TypeOK /\ Stagewise /\ Slots /\ [Next]_vars => Stagewise'
<1> SUFFICES ASSUME TypeOK, Stagewise, Slots, [Next]_vars PROVE Stagewise'
  OBVIOUS
<1> USE RoomsAssumption DEF TypeOK, Stagewise, InRoom, Stages, server, sockets, Goto
<1>1. ASSUME NEW c \in Conns, Join(c) PROVE Stagewise'
  BY <1>1 DEF Join
<1>2. ASSUME NEW c \in Conns, JoinRefused(c) PROVE Stagewise'
  BY <1>2 DEF JoinRefused
<1>3. ASSUME NEW c \in Conns, WriteWelcome(c) PROVE Stagewise'
  BY <1>3 DEF WriteWelcome
<1>4. ASSUME NEW c \in Conns, WelcomeFails(c) PROVE Stagewise'
  BY <1>4 DEF WelcomeFails
<1>5. ASSUME NEW c \in Conns, Announce(c) PROVE Stagewise'
  <2>1. \A p \in NoticeTargets(c) : p \in Conns /\ pc[p] # "idle"
    BY MembersAreServed DEF NoticeTargets
  <2>2. \A d \in Conns : pc'[d] # pc[d] => d = c /\ pc'[d] \in {"notifyJoined", "notifyLeft"}
    BY <1>5 DEF Announce
  <2>3. \A d \in Conns : targets'[d] = IF d = c THEN NoticeTargets(c) ELSE targets[d]
    BY <1>5 DEF Announce
  <2>4. UNCHANGED <<fwd, queue, writer>> /\ (pc'[c] = "notifyJoined" => pc[c] = "announcing")
    BY <1>5 DEF Announce
  <2>. QED BY <2>1, <2>2, <2>3, <2>4
<1>6. ASSUME NEW c \in Conns, StartReading(c) PROVE Stagewise'
  BY <1>6 DEF StartReading
<1>7. ASSUME NEW c \in Conns, ReadRejected(c) PROVE Stagewise'
  BY <1>7 DEF ReadRejected
<1>8. ASSUME NEW c \in Conns, RoutePosts(c) PROVE Stagewise'
  BY <1>8 DEF RoutePosts
<1>9. ASSUME NEW c \in Conns, RouteFails(c) PROVE Stagewise'
  BY <1>9 DEF RouteFails
<1>10. ASSUME NEW c \in Conns, ReadFails(c) PROVE Stagewise'
  BY <1>10 DEF ReadFails
<1>11. ASSUME NEW c \in Conns, Leave(c) PROVE Stagewise'
  BY <1>11 DEF Leave
<1>12. ASSUME NEW c \in Conns, AnnounceLeft(c) PROVE Stagewise'
  <2>1. \A p \in NoticeTargets(c) : p \in Conns /\ pc[p] # "idle"
    BY MembersAreServed DEF NoticeTargets
  <2>2. \A d \in Conns : pc'[d] # pc[d] => d = c /\ pc'[d] \in {"notifyJoined", "notifyLeft"}
    BY <1>12 DEF AnnounceLeft
  <2>3. \A d \in Conns : targets'[d] = IF d = c THEN NoticeTargets(c) ELSE targets[d]
    BY <1>12 DEF AnnounceLeft
  <2>4. UNCHANGED <<fwd, queue, writer>> /\ (pc'[c] = "notifyJoined" => pc[c] = "announcing")
    BY <1>12 DEF AnnounceLeft
  <2>. QED BY <2>1, <2>2, <2>3, <2>4
<1>13. ASSUME NEW c \in Conns, CloseDone(c) PROVE Stagewise'
  BY <1>13 DEF CloseDone
<1>14. ASSUME NEW c \in Conns, Finish(c) PROVE Stagewise'
  BY <1>14 DEF Finish
<1>15. ASSUME NEW c \in Conns, WriterSends(c) PROVE Stagewise'
  BY <1>15 DEF WriterSends
<1>16. ASSUME NEW c \in Conns, WriterFails(c) PROVE Stagewise'
  BY <1>16 DEF WriterFails
<1>17. ASSUME NEW c \in Conns, WriterQuits(c) PROVE Stagewise'
  BY <1>17 DEF WriterQuits
<1>18. ASSUME NEW c \in Conns, SocketCloses(c) PROVE Stagewise'
  BY <1>18 DEF SocketCloses
<1>19. ASSUME NEW c \in Conns, NEW t \in Conns, NotifyOne(c, t) PROVE Stagewise'
  BY <1>19 DEF NotifyOne
<1>20. ASSUME NEW c \in Conns, NEW to \in Conns, ReadSignal(c, to) PROVE Stagewise'
  <2>1. to # c /\ pc[to] # "idle"
    BY <1>20, MembersAreServed DEF ReadSignal, RouteTargets
  <2>2. \A d \in Conns : pc'[d] = IF d = c THEN "routing" ELSE pc[d]
    BY <1>20 DEF ReadSignal
  <2>3. \A d \in Conns : fwd'[d] = IF d = c THEN to ELSE fwd[d]
    BY <1>20 DEF ReadSignal
  <2>4. UNCHANGED <<targets, queue, writer>>
    BY <1>20 DEF ReadSignal
  <2>5. pc[c] = "reading" /\ pc'[c] = "routing"
    BY <1>20 DEF ReadSignal
  <2> SUFFICES ASSUME NEW d \in Conns PROVE Stagewise!(d)'
    OBVIOUS
  <2>6. fwd[d] \in Conns
    OBVIOUS
  <2>7. CASE d = c
    BY <2>1, <2>2, <2>3, <2>4, <2>5, <2>7
  <2>8. CASE d # c
    BY <2>2, <2>3, <2>4, <2>5, <2>6, <2>8
  <2>. QED BY <2>7, <2>8
<1>21. CASE UNCHANGED vars
  BY <1>21 DEF vars
<1>. QED
  BY <1>1, <1>2, <1>3, <1>4, <1>5, <1>6, <1>7, <1>8, <1>9, <1>10, <1>11,
     <1>12, <1>13, <1>14, <1>15, <1>16, <1>17, <1>18, <1>19, <1>20, <1>21
  DEF Next, Proceed, Write, ClientActs

\* Every action keeps rooms and stages in agreement.
LEMMA SlotStep == TypeOK /\ Slots /\ [Next]_vars => Slots'
<1> SUFFICES ASSUME TypeOK, Slots, [Next]_vars PROVE Slots'
  OBVIOUS
<1> USE RoomsAssumption DEF TypeOK, Slots, InRoom, Stages, server, sockets, Goto
<1>1. ASSUME NEW c \in Conns, Join(c) PROVE Slots'
  BY <1>1 DEF Join
<1>2. ASSUME NEW c \in Conns, JoinRefused(c) PROVE Slots'
  BY <1>2 DEF JoinRefused
<1>3. ASSUME NEW c \in Conns, WriteWelcome(c) PROVE Slots'
  BY <1>3 DEF WriteWelcome
<1>4. ASSUME NEW c \in Conns, WelcomeFails(c) PROVE Slots'
  BY <1>4 DEF WelcomeFails
<1>5. ASSUME NEW c \in Conns, Announce(c) PROVE Slots'
  BY <1>5 DEF Announce, NoticeTargets
<1>6. ASSUME NEW c \in Conns, StartReading(c) PROVE Slots'
  BY <1>6 DEF StartReading
<1>7. ASSUME NEW c \in Conns, ReadRejected(c) PROVE Slots'
  BY <1>7 DEF ReadRejected
<1>8. ASSUME NEW c \in Conns, RoutePosts(c) PROVE Slots'
  BY <1>8 DEF RoutePosts
<1>9. ASSUME NEW c \in Conns, RouteFails(c) PROVE Slots'
  BY <1>9 DEF RouteFails
<1>10. ASSUME NEW c \in Conns, ReadFails(c) PROVE Slots'
  BY <1>10 DEF ReadFails
<1>11. ASSUME NEW c \in Conns, Leave(c) PROVE Slots'
  BY <1>11 DEF Leave
<1>12. ASSUME NEW c \in Conns, AnnounceLeft(c) PROVE Slots'
  BY <1>12 DEF AnnounceLeft, NoticeTargets
<1>13. ASSUME NEW c \in Conns, CloseDone(c) PROVE Slots'
  BY <1>13 DEF CloseDone
<1>14. ASSUME NEW c \in Conns, Finish(c) PROVE Slots'
  BY <1>14 DEF Finish
<1>15. ASSUME NEW c \in Conns, WriterSends(c) PROVE Slots'
  BY <1>15 DEF WriterSends
<1>16. ASSUME NEW c \in Conns, WriterFails(c) PROVE Slots'
  BY <1>16 DEF WriterFails
<1>17. ASSUME NEW c \in Conns, WriterQuits(c) PROVE Slots'
  BY <1>17 DEF WriterQuits
<1>18. ASSUME NEW c \in Conns, SocketCloses(c) PROVE Slots'
  BY <1>18 DEF SocketCloses
<1>19. ASSUME NEW c \in Conns, NEW t \in Conns, NotifyOne(c, t) PROVE Slots'
  BY <1>19 DEF NotifyOne
<1>20. ASSUME NEW c \in Conns, NEW to \in Conns, ReadSignal(c, to) PROVE Slots'
  BY <1>20 DEF ReadSignal, RouteTargets
<1>21. CASE UNCHANGED vars
  BY <1>21 DEF vars
<1>. QED
  BY <1>1, <1>2, <1>3, <1>4, <1>5, <1>6, <1>7, <1>8, <1>9, <1>10, <1>11,
     <1>12, <1>13, <1>14, <1>15, <1>16, <1>17, <1>18, <1>19, <1>20, <1>21
  DEF Next, Proceed, Write, ClientActs

\* Only Join adds to a room, one connection at a time and only below the capacity.
LEMMA CapacityStep == TypeOK /\ Capacity /\ [Next]_vars => Capacity'
<1> SUFFICES ASSUME TypeOK, Capacity, [Next]_vars PROVE Capacity'
  OBVIOUS
<1> USE RoomsAssumption, BoundsAssumption DEF TypeOK, Capacity, server, sockets, Goto
<1>1. ASSUME NEW c \in Conns, Join(c) PROVE Capacity'
  <2> DEFINE r == RoomOf[c]
  <2>1. IsFiniteSet(rooms[r]) /\ Cardinality(rooms[r]) < MaxPeersPerRoom
    <3>1. Cardinality(rooms[r]) \in Nat
      BY FS_CardinalityType
    <3>. QED BY <1>1, <3>1 DEF Join, RoomIsFull
  <2>2. IsFiniteSet(rooms[r] \cup {c})
    BY <2>1, FS_AddElement
  <2>3. Cardinality(rooms[r] \cup {c}) <= MaxPeersPerRoom
    <3>1. Cardinality(rooms[r]) \in Nat
      BY <2>1, FS_CardinalityType
    <3>2. Cardinality(rooms[r] \cup {c}) =
            IF c \in rooms[r] THEN Cardinality(rooms[r]) ELSE Cardinality(rooms[r]) + 1
      BY <2>1, FS_AddElement
    <3>. QED BY <2>1, <3>1, <3>2
  <2>4. rooms' = [rooms EXCEPT ![r] = @ \cup {c}]
    BY <1>1 DEF Join
  <2>. QED BY <2>2, <2>3, <2>4
<1>2. ASSUME NEW c \in Conns, JoinRefused(c) PROVE Capacity'
  BY <1>2 DEF JoinRefused
<1>3. ASSUME NEW c \in Conns, WriteWelcome(c) PROVE Capacity'
  BY <1>3 DEF WriteWelcome
<1>4. ASSUME NEW c \in Conns, WelcomeFails(c) PROVE Capacity'
  BY <1>4 DEF WelcomeFails
<1>5. ASSUME NEW c \in Conns, Announce(c) PROVE Capacity'
  BY <1>5 DEF Announce, NoticeTargets
<1>6. ASSUME NEW c \in Conns, StartReading(c) PROVE Capacity'
  BY <1>6 DEF StartReading
<1>7. ASSUME NEW c \in Conns, ReadRejected(c) PROVE Capacity'
  BY <1>7 DEF ReadRejected
<1>8. ASSUME NEW c \in Conns, RoutePosts(c) PROVE Capacity'
  BY <1>8 DEF RoutePosts
<1>9. ASSUME NEW c \in Conns, RouteFails(c) PROVE Capacity'
  BY <1>9 DEF RouteFails
<1>10. ASSUME NEW c \in Conns, ReadFails(c) PROVE Capacity'
  BY <1>10 DEF ReadFails
<1>11. ASSUME NEW c \in Conns, Leave(c) PROVE Capacity'
  <2> DEFINE r == RoomOf[c]
  <2>1. IsFiniteSet(rooms[r] \ {c})
    BY FS_RemoveElement
  <2>2. Cardinality(rooms[r] \ {c}) <= MaxPeersPerRoom
    <3>1. IsFiniteSet(rooms[r]) /\ Cardinality(rooms[r]) \in Nat
      BY FS_CardinalityType
    <3>2. Cardinality(rooms[r] \ {c}) =
            IF c \in rooms[r] THEN Cardinality(rooms[r]) - 1 ELSE Cardinality(rooms[r])
      BY <3>1, FS_RemoveElement
    <3>. QED BY <3>1, <3>2
  <2>3. rooms' = [rooms EXCEPT ![r] = @ \ {c}]
    BY <1>11 DEF Leave
  <2>. QED BY <2>1, <2>2, <2>3
<1>12. ASSUME NEW c \in Conns, AnnounceLeft(c) PROVE Capacity'
  BY <1>12 DEF AnnounceLeft, NoticeTargets
<1>13. ASSUME NEW c \in Conns, CloseDone(c) PROVE Capacity'
  BY <1>13 DEF CloseDone
<1>14. ASSUME NEW c \in Conns, Finish(c) PROVE Capacity'
  BY <1>14 DEF Finish
<1>15. ASSUME NEW c \in Conns, WriterSends(c) PROVE Capacity'
  BY <1>15 DEF WriterSends
<1>16. ASSUME NEW c \in Conns, WriterFails(c) PROVE Capacity'
  BY <1>16 DEF WriterFails
<1>17. ASSUME NEW c \in Conns, WriterQuits(c) PROVE Capacity'
  BY <1>17 DEF WriterQuits
<1>18. ASSUME NEW c \in Conns, SocketCloses(c) PROVE Capacity'
  BY <1>18 DEF SocketCloses
<1>19. ASSUME NEW c \in Conns, NEW t \in Conns, NotifyOne(c, t) PROVE Capacity'
  BY <1>19 DEF NotifyOne
<1>20. ASSUME NEW c \in Conns, NEW to \in Conns, ReadSignal(c, to) PROVE Capacity'
  BY <1>20 DEF ReadSignal, RouteTargets
<1>21. CASE UNCHANGED vars
  BY <1>21 DEF vars
<1>. QED
  BY <1>1, <1>2, <1>3, <1>4, <1>5, <1>6, <1>7, <1>8, <1>9, <1>10, <1>11,
     <1>12, <1>13, <1>14, <1>15, <1>16, <1>17, <1>18, <1>19, <1>20, <1>21
  DEF Next, Proceed, Write, ClientActs

-----------------------------------------------------------------------------
(* What a queue holds after a message is appended to it or taken off it.   *)

\* Append adds its message and nothing else.
LEMMA AppendHolds ==
  ASSUME NEW q \in Seq(Message), NEW m \in Message, NEW k
  PROVE  Holds(Append(q, m), k) <=> Holds(q, k) \/ k = m
<1>1. /\ Append(q, m) \in Seq(Message)
      /\ Len(Append(q, m)) = Len(q) + 1
      /\ \A i \in 1..Len(q) : Append(q, m)[i] = q[i]
      /\ Append(q, m)[Len(q) + 1] = m
  BY AppendProperties
<1>2. Len(q) \in Nat
  OBVIOUS
<1>3. 1..Len(Append(q, m)) = 1..Len(q) \cup {Len(q) + 1}
  BY <1>1, <1>2
<1>. QED BY <1>1, <1>3 DEF Holds

\* Tail takes the head and nothing else.
LEMMA TailHolds ==
  ASSUME NEW q \in Seq(Message), q # <<>>, NEW k
  PROVE  Holds(q, k) <=> Holds(Tail(q), k) \/ k = Head(q)
<1>1. /\ Tail(q) \in Seq(Message) /\ Len(q) \in Nat \ {0}
      /\ Len(Tail(q)) = Len(q) - 1
      /\ \A i \in 1..Len(Tail(q)) : Tail(q)[i] = q[i + 1]
      /\ Head(q) = q[1]
  BY HeadTailProperties
<1>2. ASSUME Holds(q, k) PROVE Holds(Tail(q), k) \/ k = Head(q)
  <2>1. PICK i \in 1..Len(q) : q[i] = k
    BY <1>2 DEF Holds
  <2>2. CASE i = 1
    BY <1>1, <2>1, <2>2
  <2>3. CASE i # 1
    <3>1. i - 1 \in 1..Len(Tail(q)) /\ (i - 1) + 1 = i
      BY <1>1, <2>1, <2>3
    <3>2. Tail(q)[i - 1] = k
      BY <1>1, <2>1, <3>1
    <3>. QED BY <3>1, <3>2 DEF Holds
  <2>. QED BY <2>2, <2>3
<1>3. ASSUME Holds(Tail(q), k) PROVE Holds(q, k)
  <2>1. PICK i \in 1..Len(Tail(q)) : Tail(q)[i] = k
    BY <1>3 DEF Holds
  <2>2. i + 1 \in 1..Len(q) /\ q[i + 1] = k
    BY <1>1, <2>1
  <2>. QED BY <2>2 DEF Holds
<1>4. ASSUME k = Head(q) PROVE Holds(q, k)
  BY <1>1, <1>4 DEF Holds
<1>. QED BY <1>2, <1>3, <1>4

\* The ways a step changes the queue of one client.
LEMMA NotifyCases ==
  ASSUME TypeOK, NEW x \in Conns, NEW t \in Conns, NotifyOne(x, t), NEW c \in Conns
  PROVE  \/ queue'[c] = queue[c] /\ c # t /\ missed'[c] = missed[c]
         \/ queue'[c] = Append(queue[c], Notice(x)) /\ c = t /\ missed'[c] = missed[c]
         \/ queue'[c] = queue[c] /\ c = t /\ missed'[c] = missed[c] \cup {x}
<1>1. queue \in [Conns -> Seq(Message)] /\ missed \in [Conns -> SUBSET Conns]
  BY DEF TypeOK
<1>2. \/ queue' = [queue EXCEPT ![t] = Append(@, Notice(x))] /\ missed' = missed
      \/ queue' = queue /\ missed' = [missed EXCEPT ![t] = @ \cup {x}]
  BY DEF NotifyOne
<1>. QED BY <1>1, <1>2

\* A forwarded signal reaches the queue of its target.
LEMMA RouteCases ==
  ASSUME TypeOK, NEW x \in Conns, RoutePosts(x), NEW c \in Conns
  PROVE  queue'[c] = IF c = fwd[x] THEN Append(queue[c], Signal(x))
                                   ELSE queue[c]
BY DEF RoutePosts, TypeOK

\* A delivery takes the head of one queue.
LEMMA SendCases ==
  ASSUME TypeOK, NEW x \in Conns, WriterSends(x), NEW c \in Conns
  PROVE  /\ queue[x] # <<>>
         /\ queue'[c] = IF c = x THEN Tail(queue[c]) ELSE queue[c]
BY DEF WriterSends, TypeOK

\* Notices and signals are messages.
LEMMA NoticeType ==
  ASSUME NEW x \in Conns PROVE Notice(x) \in Message /\ Signal(x) \in Message
BY NoticeIsMessage DEF Notice, Signal

\* Queues are sequences of messages.
LEMMA QueueType ==
  ASSUME TypeOK, NEW c \in Conns PROVE queue[c] \in Seq(Message)
BY DEF TypeOK

\* The fields of a notice.
LEMMA NoticeFields ==
  ASSUME NEW x
  PROVE  /\ Notice(x).from = x
         /\ pc[x] = "notifyJoined" => Notice(x).type = "peer-joined"
         /\ pc[x] # "notifyJoined" => Notice(x).type = "peer-left"
BY DEF Notice

-----------------------------------------------------------------------------
(* Departures is preserved.                                                *)

\* Only a connection that has left the room posts its departure.
LEMMA DepartureStep == TypeOK /\ Departures /\ [Next]_vars => Departures'
<1> SUFFICES ASSUME TypeOK, Departures, [Next]_vars PROVE Departures'
  OBVIOUS
<1>0. pc \in [Conns -> Stages]
  BY DEF TypeOK
<1>1. ASSUME NEW x \in Conns, Join(x) PROVE Departures'
  BY <1>0, <1>1 DEF Join, Departures, Queued, Goto, server, sockets
<1>2. ASSUME NEW x \in Conns, JoinRefused(x) PROVE Departures'
  BY <1>0, <1>2 DEF JoinRefused, Departures, Queued, Goto, server, sockets
<1>3. ASSUME NEW x \in Conns, WriteWelcome(x) PROVE Departures'
  BY <1>0, <1>3 DEF WriteWelcome, Departures, Queued, Goto, server, sockets
<1>4. ASSUME NEW x \in Conns, WelcomeFails(x) PROVE Departures'
  BY <1>0, <1>4 DEF WelcomeFails, Departures, Queued, Goto, server, sockets
<1>5. ASSUME NEW x \in Conns, Announce(x) PROVE Departures'
  BY <1>0, <1>5 DEF Announce, Departures, Queued, Goto, server, sockets
<1>6. ASSUME NEW x \in Conns, StartReading(x) PROVE Departures'
  BY <1>0, <1>6 DEF StartReading, Departures, Queued, Goto, server, sockets
<1>7. ASSUME NEW x \in Conns, ReadRejected(x) PROVE Departures'
  BY <1>0, <1>7 DEF ReadRejected, Departures, Queued, Goto, server, sockets
<1>8. ASSUME NEW x \in Conns, RoutePosts(x) PROVE Departures'
  <2>1. ASSUME NEW c \in Conns, NEW z \in Conns
        PROVE  Queued(c, "peer-left", z)' => Queued(c, "peer-left", z)
    <3>1. Signal(x) \in Message /\ queue[c] \in Seq(Message)
      BY NoticeType, QueueType
    <3>2. queue'[c] = queue[c] \/ queue'[c] = Append(queue[c], Signal(x))
      BY <1>8, RouteCases
    <3>3. [type |-> "peer-left", from |-> z] # Signal(x)
      BY DEF Signal
    <3>4. Holds(Append(queue[c], Signal(x)), [type |-> "peer-left", from |-> z])
            => Holds(queue[c], [type |-> "peer-left", from |-> z])
      BY <3>1, <3>3, AppendHolds
    <3>. QED BY <3>2, <3>4 DEF Queued
  <2>. QED BY <1>0, <1>8, <2>1 DEF RoutePosts, Departures, Goto
<1>9. ASSUME NEW x \in Conns, RouteFails(x) PROVE Departures'
  BY <1>0, <1>9 DEF RouteFails, Departures, Queued, Goto, server, sockets
<1>10. ASSUME NEW x \in Conns, ReadFails(x) PROVE Departures'
  BY <1>0, <1>10 DEF ReadFails, Departures, Queued, Goto, server, sockets
<1>11. ASSUME NEW x \in Conns, Leave(x) PROVE Departures'
  BY <1>0, <1>11 DEF Leave, Departures, Queued, Goto, server, sockets
<1>12. ASSUME NEW x \in Conns, AnnounceLeft(x) PROVE Departures'
  BY <1>0, <1>12 DEF AnnounceLeft, Departures, Queued, Goto, server, sockets
<1>13. ASSUME NEW x \in Conns, CloseDone(x) PROVE Departures'
  BY <1>0, <1>13 DEF CloseDone, Departures, Queued, Goto, server, sockets
<1>14. ASSUME NEW x \in Conns, Finish(x) PROVE Departures'
  <2>1. \A c, z \in Conns : Queued(c, "peer-left", z)' => Queued(c, "peer-left", z)
    <3>1. \A m : ~Holds(<<>>, m)
      BY DEF Holds
    <3>2. \A c \in Conns : queue'[c] = queue[c] \/ queue'[c] = <<>>
      BY <1>14 DEF Finish, TypeOK
    <3>. QED BY <3>1, <3>2 DEF Queued
  <2>. QED BY <1>0, <1>14, <2>1 DEF Finish, Departures, Goto
<1>15. ASSUME NEW x \in Conns, WriterSends(x) PROVE Departures'
  <2>1. \A c, z \in Conns : Queued(c, "peer-left", z)' => Queued(c, "peer-left", z)
    BY <1>15, SendCases, QueueType, TailHolds DEF Queued
  <2>. QED BY <1>15, <2>1 DEF WriterSends, Departures
<1>16. ASSUME NEW x \in Conns, WriterFails(x) PROVE Departures'
  BY <1>0, <1>16 DEF WriterFails, Departures, Queued, Goto, server, sockets
<1>17. ASSUME NEW x \in Conns, WriterQuits(x) PROVE Departures'
  BY <1>0, <1>17 DEF WriterQuits, Departures, Queued, Goto, server, sockets
<1>18. ASSUME NEW x \in Conns, SocketCloses(x) PROVE Departures'
  BY <1>0, <1>18 DEF SocketCloses, Departures, Queued, Goto, server, sockets
<1>19. ASSUME NEW x \in Conns, NEW t \in Conns, NotifyOne(x, t) PROVE Departures'
  <2>1. ASSUME NEW c \in Conns, NEW z \in Conns, Queued(c, "peer-left", z)'
        PROVE  Queued(c, "peer-left", z) \/ pc[z] = "notifyLeft"
    <3>1. CASE queue'[c] = queue[c]
      BY <2>1, <3>1 DEF Queued
    <3>2. CASE queue'[c] = Append(queue[c], Notice(x))
      <4>1. Queued(c, "peer-left", z) \/ [type |-> "peer-left", from |-> z] = Notice(x)
        BY <2>1, <3>2, QueueType, NoticeType, AppendHolds DEF Queued
      <4>2. [type |-> "peer-left", from |-> z] = Notice(x) => x = z /\ pc[x] # "notifyJoined"
        <5>1. [type |-> "peer-left", from |-> z].type = "peer-left"
          OBVIOUS
        <5>2. [type |-> "peer-left", from |-> z].from = z
          OBVIOUS
        <5>. QED BY <5>1, <5>2, NoticeFields
      <4>. QED BY <4>1, <4>2, <1>19 DEF NotifyOne
    <3>. QED BY <1>19, <3>1, <3>2, NotifyCases
  <2>2. pc' = pc
    BY <1>19 DEF NotifyOne
  <2>. QED BY <2>1, <2>2 DEF Departures
<1>20. ASSUME NEW x \in Conns, NEW to \in Conns, ReadSignal(x, to) PROVE Departures'
  BY <1>0, <1>20 DEF ReadSignal, Departures, Queued, Goto, server, sockets
<1>21. CASE UNCHANGED vars
  BY <1>21 DEF vars, Departures, Queued
<1>. QED
  BY <1>1, <1>2, <1>3, <1>4, <1>5, <1>6, <1>7, <1>8, <1>9, <1>10, <1>11,
     <1>12, <1>13, <1>14, <1>15, <1>16, <1>17, <1>18, <1>19, <1>20, <1>21
  DEF Next, Proceed, Write, ClientActs

-----------------------------------------------------------------------------
(* Order within one queue.                                               *)

\* Appending keeps the order if the new message is no signal out of place.
LEMMA AppendOrder ==
  ASSUME NEW q \in Seq(Message), NEW told, NEW lost, NEW m \in Message,
         InOrder(q, told, lost),
         m.type = "signal" /\ m.from \notin lost
           => /\ m.from \in told \/ Holds(q, [type |-> "peer-joined", from |-> m.from])
              /\ ~Holds(q, [type |-> "peer-left", from |-> m.from])
  PROVE  InOrder(Append(q, m), told, lost)
<1> DEFINE p == Append(q, m)
<1>1. /\ Len(q) \in Nat /\ Len(p) = Len(q) + 1
      /\ \A i \in 1..Len(q) : p[i] = q[i]
      /\ p[Len(q) + 1] = m
  BY AppendProperties
<1>. HIDE DEF p
<1>2. SUFFICES ASSUME NEW i \in 1..Len(p), p[i].type = "signal", p[i].from \notin lost
      PROVE  /\ p[i].from \in told
                \/ \E j \in 1..(i - 1) : p[j] = [type |-> "peer-joined", from |-> p[i].from]
             /\ ~\E j \in 1..(i - 1) : p[j] = [type |-> "peer-left", from |-> p[i].from]
  BY DEF InOrder, p
<1>3. CASE i \in 1..Len(q)
  <2>1. p[i] = q[i] /\ \A j \in 1..(i - 1) : p[j] = q[j]
    BY <1>1, <1>3
  <2>. QED BY <1>2, <1>3, <2>1 DEF InOrder
<1>4. CASE i = Len(q) + 1
  <2>1. p[i] = m /\ 1..(i - 1) = 1..Len(q) /\ \A j \in 1..(i - 1) : p[j] = q[j]
    BY <1>1, <1>4
  <2>. QED BY <1>2, <2>1 DEF Holds
<1>. QED BY <1>1, <1>3, <1>4

\* Delivering the head keeps the order: what it said is now known.
LEMMA TailOrder ==
  ASSUME NEW q \in Seq(Message), q # <<>>, NEW told, NEW lost, InOrder(q, told, lost)
  PROVE  InOrder(Tail(q), Learn(told, Head(q)), lost)
<1> DEFINE p == Tail(q)
           h == Head(q)
<1>1. /\ Len(q) \in Nat \ {0} /\ Len(p) = Len(q) - 1
      /\ \A i \in 1..Len(p) : p[i] = q[i + 1]
      /\ h = q[1] /\ h \in Message
  BY HeadTailProperties
<1>. HIDE DEF p, h
<1>2. SUFFICES ASSUME NEW i \in 1..Len(p), p[i].type = "signal", p[i].from \notin lost
      PROVE  /\ p[i].from \in Learn(told, h)
                \/ \E j \in 1..(i - 1) : p[j] = [type |-> "peer-joined", from |-> p[i].from]
             /\ ~\E j \in 1..(i - 1) : p[j] = [type |-> "peer-left", from |-> p[i].from]
  BY DEF InOrder, p, h
<1> DEFINE z == p[i].from
<1>3. i + 1 \in 1..Len(q) /\ p[i] = q[i + 1] /\ (i + 1) - 1 = i
  BY <1>1
<1>4. /\ z \in told \/ \E j \in 1..i : q[j] = [type |-> "peer-joined", from |-> z]
      /\ \A j \in 1..i : q[j] # [type |-> "peer-left", from |-> z]
  BY <1>2, <1>3 DEF InOrder
<1>5. \A j \in 1..(i - 1) : j + 1 \in 1..i /\ p[j] = q[j + 1]
  BY <1>1
<1>6. \A j \in 1..(i - 1) : p[j] # [type |-> "peer-left", from |-> z]
  BY <1>4, <1>5
<1>7. z \in Learn(told, h) \/ \E j \in 1..(i - 1) : p[j] = [type |-> "peer-joined", from |-> z]
  <2>1. h # [type |-> "peer-left", from |-> z]
    BY <1>1, <1>4
  <2>2. ASSUME z \in told PROVE z \in Learn(told, h)
    <3>1. h.type = "peer-left" => h.from # z
      BY <1>1, <2>1 DEF Message
    <3>. QED BY <1>1, <2>2, <3>1 DEF Learn, Message
  <2>3. ASSUME NEW j \in 1..i, q[j] = [type |-> "peer-joined", from |-> z]
        PROVE  z \in Learn(told, h)
               \/ \E k \in 1..(i - 1) : p[k] = [type |-> "peer-joined", from |-> z]
    <3>1. CASE j = 1
      <4>1. h.type = "peer-joined" /\ h.from = z
        BY <1>1, <2>3, <3>1
      <4>. QED BY <4>1 DEF Learn
    <3>2. CASE j # 1
      <4>1. j - 1 \in 1..(i - 1) /\ p[j - 1] = q[j]
        BY <1>1, <1>5, <3>2
      <4>. QED BY <2>3, <4>1
    <3>. QED BY <3>1, <3>2
  <2>. QED BY <1>4, <2>2, <2>3
<1>. QED BY <1>6, <1>7

\* Losing more notices excuses more.
LEMMA MoreLost ==
  ASSUME NEW q, NEW told, NEW lost, NEW more, lost \subseteq more, InOrder(q, told, lost)
  PROVE  InOrder(q, told, more)
BY DEF InOrder

\* Nothing is out of place in an empty queue.
LEMMA EmptyOrder == \A told, lost : InOrder(<<>>, told, lost)
BY DEF InOrder

-----------------------------------------------------------------------------
(* Steps that leave the queues and what clients know alone.           *)

\* What c was told, is owed and lost is as before the step.
Steady(c) ==
  Served(c)' => /\ Served(c)
                /\ queue'[c] = queue[c]
                /\ Told(c)' = Told(c)
                /\ missed'[c] = missed[c]

\* What x may still say to others, and has yet to, is as before the step or less.
NoLouder(x) ==
  pc'[x] \in Voice =>
    /\ pc[x] \in Voice
    /\ \A c \in Conns : c \in Reach(x)' =>
         /\ c \in Reach(x)
         /\ Owes(x, c) => Owes(x, c)'

QuietStep == (\A c \in Conns : Steady(c)) /\ (\A z \in Conns : NoLouder(z))

\* Such a step keeps both halves of the argument.
LEMMA QuietKeeps ==
  ASSUME QuietStep
  PROVE  (KnownSenders => KnownSenders') /\ (Announced => Announced')
<1>1. KnownSenders => KnownSenders'
  BY DEF QuietStep, Steady, KnownSenders
<1>2. ASSUME Announced, NEW c \in Conns, NEW z \in Conns,
             c # z, Served(c)', pc'[z] \in Voice, c \in Reach(z)'
      PROVE  Heard(c, z)' \/ Owes(z, c)'
  <2>1. Steady(c) /\ NoLouder(z)
    BY DEF QuietStep
  <2>2. Heard(c, z) \/ Owes(z, c)
    BY <1>2, <2>1 DEF Announced, Steady, NoLouder
  <2>3. Heard(c, z) => Heard(c, z)'
    BY <1>2, <2>1 DEF Steady, Heard, Queued
  <2>4. Owes(z, c) => Owes(z, c)'
    BY <1>2, <2>1 DEF NoLouder
  <2>. QED BY <2>2, <2>3, <2>4
<1>. QED BY <1>1, <1>2 DEF Announced

\* All but five of the actions are such steps.
LEMMA QuietActions ==
  ASSUME TypeOK, Stagewise, NEW x \in Conns,
         \/ JoinRefused(x) \/ WriteWelcome(x) \/ WelcomeFails(x) \/ Announce(x)
         \/ StartReading(x) \/ ReadRejected(x) \/ RouteFails(x) \/ ReadFails(x)
         \/ Leave(x) \/ AnnounceLeft(x) \/ CloseDone(x) \/ WriterFails(x)
         \/ WriterQuits(x) \/ SocketCloses(x)
         \/ \E to \in Conns : ReadSignal(x, to)
  PROVE  QuietStep
<1> USE DEF TypeOK, Stagewise, Goto, server, sockets, Stages
<1>1. ASSUME JoinRefused(x) PROVE QuietStep
  <2>1. ASSUME NEW c \in Conns PROVE Steady(c)
    BY <1>1 DEF JoinRefused, Steady, Served, Told
  <2>2. ASSUME NEW z \in Conns PROVE NoLouder(z)
    BY <1>1 DEF JoinRefused, NoLouder, Voice, Reach, Owes
  <2>. QED BY <2>1, <2>2 DEF QuietStep
<1>2. ASSUME WriteWelcome(x) PROVE QuietStep
  <2>1. ASSUME NEW c \in Conns PROVE Steady(c)
    BY <1>2 DEF WriteWelcome, Steady, Served, Told
  <2>2. ASSUME NEW z \in Conns PROVE NoLouder(z)
    BY <1>2 DEF WriteWelcome, NoLouder, Voice, Reach, Owes
  <2>. QED BY <2>1, <2>2 DEF QuietStep
<1>3. ASSUME WelcomeFails(x) PROVE QuietStep
  <2>1. ASSUME NEW c \in Conns PROVE Steady(c)
    BY <1>3 DEF WelcomeFails, Steady, Served, Told
  <2>2. ASSUME NEW z \in Conns PROVE NoLouder(z)
    BY <1>3 DEF WelcomeFails, NoLouder, Voice, Reach, Owes
  <2>. QED BY <2>1, <2>2 DEF QuietStep
<1>4. ASSUME Announce(x) PROVE QuietStep
  <2>1. ASSUME NEW c \in Conns PROVE Steady(c)
    BY <1>4 DEF Announce, Steady, Served, Told
  <2>2. ASSUME NEW z \in Conns PROVE NoLouder(z)
    BY <1>4 DEF Announce, NoticeTargets, NoLouder, Voice, Reach, Owes
  <2>. QED BY <2>1, <2>2 DEF QuietStep
<1>5. ASSUME StartReading(x) PROVE QuietStep
  <2>1. ASSUME NEW c \in Conns PROVE Steady(c)
    BY <1>5 DEF StartReading, Steady, Served, Told
  <2>2. ASSUME NEW z \in Conns PROVE NoLouder(z)
    BY <1>5 DEF StartReading, NoLouder, Voice, Reach, Owes
  <2>. QED BY <2>1, <2>2 DEF QuietStep
<1>6. ASSUME ReadRejected(x) PROVE QuietStep
  <2>1. ASSUME NEW c \in Conns PROVE Steady(c)
    BY <1>6 DEF ReadRejected, Steady, Served, Told
  <2>2. ASSUME NEW z \in Conns PROVE NoLouder(z)
    BY <1>6 DEF ReadRejected, NoLouder, Voice, Reach, Owes
  <2>. QED BY <2>1, <2>2 DEF QuietStep
<1>7. ASSUME RouteFails(x) PROVE QuietStep
  <2>1. ASSUME NEW c \in Conns PROVE Steady(c)
    BY <1>7 DEF RouteFails, Steady, Served, Told
  <2>2. ASSUME NEW z \in Conns PROVE NoLouder(z)
    BY <1>7 DEF RouteFails, NoLouder, Voice, Reach, Owes
  <2>. QED BY <2>1, <2>2 DEF QuietStep
<1>8. ASSUME ReadFails(x) PROVE QuietStep
  <2>1. ASSUME NEW c \in Conns PROVE Steady(c)
    BY <1>8 DEF ReadFails, Steady, Served, Told
  <2>2. ASSUME NEW z \in Conns PROVE NoLouder(z)
    BY <1>8 DEF ReadFails, NoLouder, Voice, Reach, Owes
  <2>. QED BY <2>1, <2>2 DEF QuietStep
<1>9. ASSUME Leave(x) PROVE QuietStep
  <2>1. ASSUME NEW c \in Conns PROVE Steady(c)
    BY <1>9 DEF Leave, Steady, Served, Told
  <2>2. ASSUME NEW z \in Conns PROVE NoLouder(z)
    BY <1>9 DEF Leave, NoLouder, Voice, Reach, Owes
  <2>. QED BY <2>1, <2>2 DEF QuietStep
<1>10. ASSUME AnnounceLeft(x) PROVE QuietStep
  <2>1. ASSUME NEW c \in Conns PROVE Steady(c)
    BY <1>10 DEF AnnounceLeft, Steady, Served, Told
  <2>2. ASSUME NEW z \in Conns PROVE NoLouder(z)
    BY <1>10 DEF AnnounceLeft, NoticeTargets, NoLouder, Voice, Reach, Owes
  <2>. QED BY <2>1, <2>2 DEF QuietStep
<1>11. ASSUME CloseDone(x) PROVE QuietStep
  <2>1. ASSUME NEW c \in Conns PROVE Steady(c)
    BY <1>11 DEF CloseDone, Steady, Served, Told
  <2>2. ASSUME NEW z \in Conns PROVE NoLouder(z)
    BY <1>11 DEF CloseDone, NoLouder, Voice, Reach, Owes
  <2>. QED BY <2>1, <2>2 DEF QuietStep
<1>12. ASSUME WriterFails(x) PROVE QuietStep
  <2>1. ASSUME NEW c \in Conns PROVE Steady(c)
    BY <1>12 DEF WriterFails, Steady, Served, Told
  <2>2. ASSUME NEW z \in Conns PROVE NoLouder(z)
    BY <1>12 DEF WriterFails, NoLouder, Voice, Reach, Owes
  <2>. QED BY <2>1, <2>2 DEF QuietStep
<1>13. ASSUME WriterQuits(x) PROVE QuietStep
  <2>1. ASSUME NEW c \in Conns PROVE Steady(c)
    BY <1>13 DEF WriterQuits, Steady, Served, Told
  <2>2. ASSUME NEW z \in Conns PROVE NoLouder(z)
    BY <1>13 DEF WriterQuits, NoLouder, Voice, Reach, Owes
  <2>. QED BY <2>1, <2>2 DEF QuietStep
<1>14. ASSUME SocketCloses(x) PROVE QuietStep
  <2>1. ASSUME NEW c \in Conns PROVE Steady(c)
    BY <1>14 DEF SocketCloses, Steady, Served, Told
  <2>2. ASSUME NEW z \in Conns PROVE NoLouder(z)
    BY <1>14 DEF SocketCloses, NoLouder, Voice, Reach, Owes
  <2>. QED BY <2>1, <2>2 DEF QuietStep
<1>15. ASSUME NEW to \in Conns, ReadSignal(x, to) PROVE QuietStep
  <2>1. ASSUME NEW c \in Conns PROVE Steady(c)
    BY <1>15 DEF ReadSignal, Steady, Served, Told
  <2>2. ASSUME NEW z \in Conns PROVE NoLouder(z)
    BY <1>15 DEF ReadSignal, RouteTargets, NoLouder, Voice, Reach, Owes
  <2>. QED BY <2>1, <2>2 DEF QuietStep
<1>. QED
  BY <1>1, <1>2, <1>3, <1>4, <1>5, <1>6, <1>7, <1>8, <1>9, <1>10, <1>11, <1>12, <1>13, <1>14, <1>15

-----------------------------------------------------------------------------
(* The other steps.                                                        *)

JoinInv == Stagewise /\ Slots /\ Announced /\ KnownSenders

\* A newcomer knows whoever is in the room, and owes its notice to them.
LEMMA JoinKeeps ==
  ASSUME TypeOK, JoinInv, NEW x \in Conns, Join(x)
  PROVE  KnownSenders' /\ Announced'
<1> USE DEF TypeOK, Goto, server, sockets
<1>1. /\ pc[x] = "idle" /\ pc' = [pc EXCEPT ![x] = "joined"]
      /\ peers' = [peers EXCEPT ![x] = rooms[RoomOf[x]]]
      /\ rooms' = [rooms EXCEPT ![RoomOf[x]] = @ \cup {x}]
      /\ UNCHANGED <<targets, fwd, queue, writer, view, missed>>
  BY DEF Join
<1>2. writer[x] = "none" /\ queue[x] = <<>>
  BY <1>1 DEF JoinInv, Stagewise
<1>3. \A c \in Conns : c # x => /\ Served(c)' <=> Served(c)
                                /\ Told(c)' = Told(c)
  BY <1>1 DEF Served, Told
<1>4. Told(x)' = rooms[RoomOf[x]]
  BY <1>1 DEF Told
<1>5. KnownSenders'
  <2>1. InOrder(queue[x], Told(x)', missed[x])
    BY <1>2, EmptyOrder
  <2>. QED BY <1>1, <1>3, <2>1 DEF KnownSenders, JoinInv
<1>6. ASSUME NEW c \in Conns, NEW z \in Conns,
             c # z, Served(c)', pc'[z] \in Voice, c \in Reach(z)'
      PROVE  Heard(c, z)' \/ Owes(z, c)'
  <2>0. RoomOf[c] \in Rooms /\ RoomOf[z] \in Rooms
    BY RoomsAssumption
  <2>1. CASE z = x
    <3>1. c \in rooms[RoomOf[x]]
      BY <1>1, <1>6, <2>0, <2>1 DEF Reach
    <3>. QED BY <1>1, <2>1, <3>1 DEF Owes
  <2>2. CASE c = x
    <3>1. fwd[z] # x \/ pc[z] # "routing"
      BY <1>1 DEF JoinInv, Stagewise
    <3>2. pc[z] \in Voice /\ RoomOf[z] = RoomOf[x]
      <4>1. x \in rooms'[RoomOf[z]]
        BY <1>1, <1>6, <2>2, <3>1 DEF Reach
      <4>2. x \notin rooms[RoomOf[z]]
        BY <1>1, MembersAreServed DEF JoinInv, InRoom
      <4>. QED BY <1>1, <1>6, <2>0, <2>2, <4>1, <4>2
    <3>3. z \in rooms[RoomOf[x]]
      BY <3>2, MembersAreServed DEF JoinInv, Voice, InRoom
    <3>. QED BY <1>4, <2>2, <3>3 DEF Heard
  <2>3. CASE z # x /\ c # x
    <3>1. c \in Reach(z) /\ pc[z] \in Voice /\ Served(c)
      BY <1>1, <1>3, <1>6, <2>0, <2>3 DEF Reach
    <3>2. Heard(c, z) \/ Owes(z, c)
      BY <1>6, <3>1 DEF Announced, JoinInv
    <3>3. Heard(c, z) => Heard(c, z)'
      BY <1>1, <1>3, <2>3 DEF Heard, Queued
    <3>4. Owes(z, c) => Owes(z, c)'
      BY <1>1, <2>3 DEF Owes
    <3>. QED BY <3>2, <3>3, <3>4
  <2>. QED BY <2>1, <2>2, <2>3
<1>. QED BY <1>5, <1>6 DEF Announced

\* A notice is never out of order, and whoever got it, or lost it, is no longer owed it.
LEMMA NotifyKeeps ==
  ASSUME TypeOK, KnownSenders, Announced, NEW x \in Conns, NEW t \in Conns, NotifyOne(x, t)
  PROVE  KnownSenders' /\ Announced'
<1>1. /\ UNCHANGED <<rooms, pc, peers, fwd, writer, view>>
      /\ targets' = [targets EXCEPT ![x] = @ \ {t}]
      /\ pc[x] \in {"notifyJoined", "notifyLeft"}
  BY DEF NotifyOne, sockets
<1>2. \A c \in Conns : Served(c)' = Served(c) /\ Told(c)' = Told(c)
  BY <1>1 DEF Served, Told
<1>3. \A c \in Conns : missed[c] \subseteq missed'[c]
  BY NotifyCases
<1>4. Notice(x).type # "signal" /\ Notice(x) \in Message
  BY NoticeFields, NoticeType
<1>5. ASSUME NEW c \in Conns, Served(c)
      PROVE  InOrder(queue'[c], Told(c), missed'[c])
  <2>1. InOrder(queue[c], Told(c), missed'[c])
    BY <1>3, <1>5, MoreLost DEF KnownSenders
  <2>2. CASE queue'[c] = queue[c]
    BY <2>1, <2>2
  <2>3. CASE queue'[c] = Append(queue[c], Notice(x))
    BY <2>1, <2>3, <1>4, QueueType, AppendOrder
  <2>. QED BY <2>2, <2>3, NotifyCases
<1>6. KnownSenders'
  BY <1>2, <1>5 DEF KnownSenders
<1>7. ASSUME NEW c \in Conns, NEW z \in Conns, Heard(c, z) PROVE Heard(c, z)'
  <2>1. Queued(c, "peer-joined", z) => Queued(c, "peer-joined", z)'
    <3>1. CASE queue'[c] = queue[c]
      BY <3>1 DEF Queued
    <3>2. CASE queue'[c] = Append(queue[c], Notice(x))
      BY <3>2, <1>4, QueueType, AppendHolds DEF Queued
    <3>. QED BY <3>1, <3>2, NotifyCases
  <2>. QED BY <1>2, <1>3, <1>7, <2>1 DEF Heard
<1>8. ASSUME NEW c \in Conns, NEW z \in Conns, Owes(z, c)
      PROVE  Heard(c, z)' \/ Owes(z, c)'
  <2>1. CASE z = x /\ c = t /\ pc[z] = "notifyJoined"
    <3>1. Notice(x) = [type |-> "peer-joined", from |-> x]
      BY <2>1 DEF Notice
    <3>2. CASE queue'[c] = Append(queue[c], Notice(x))
      <4>1. Holds(Append(queue[c], Notice(x)), Notice(x))
        BY <1>4, QueueType, AppendHolds
      <4>. QED BY <2>1, <3>1, <3>2, <4>1 DEF Heard, Queued
    <3>3. CASE missed'[c] = missed[c] \cup {x}
      BY <2>1, <3>3 DEF Heard
    <3>. QED BY <2>1, <3>2, <3>3, NotifyCases
  <2>2. CASE ~(z = x /\ c = t /\ pc[z] = "notifyJoined")
    BY <1>1, <1>8, <2>2 DEF Owes, TypeOK
  <2>. QED BY <2>1, <2>2
<1>9. \A c, z \in Conns : Reach(z)' = Reach(z) /\ pc'[z] = pc[z]
  BY <1>1 DEF Reach
<1>10. Announced'
  BY <1>2, <1>7, <1>8, <1>9 DEF Announced
<1>. QED BY <1>6, <1>10

\* The signal that is posted comes from a sender its receiver has heard of, and not
\* heard the departure of.
LEMMA RouteKeeps ==
  ASSUME TypeOK, Stagewise, Departures, KnownSenders, Announced, NEW x \in Conns, RoutePosts(x)
  PROVE  KnownSenders' /\ Announced'
<1>1. /\ UNCHANGED <<rooms, peers, targets, writer, view, missed>>
      /\ pc[x] = "routing" /\ pc' = [pc EXCEPT ![x] = "reading"]
      /\ fwd' = [fwd EXCEPT ![x] = x]
  BY DEF RoutePosts, sockets, Goto
<1>2. pc \in [Conns -> Stages] /\ fwd \in [Conns -> Conns]
  BY DEF TypeOK
<1>3. \A c \in Conns : Served(c)' = Served(c) /\ Told(c)' = Told(c)
  BY <1>1, <1>2 DEF Served, Told
<1>4. Signal(x) \in Message /\ Signal(x).from = x
  BY NoticeType DEF Signal
<1>5. ASSUME NEW c \in Conns, Served(c)
      PROVE  InOrder(queue'[c], Told(c), missed[c])
  <2>1. InOrder(queue[c], Told(c), missed[c])
    BY <1>5 DEF KnownSenders
  <2>2. CASE c # fwd[x]
    BY <2>1, <2>2, RouteCases
  <2>3. CASE c = fwd[x]
    <3>1. c # x /\ c \in Reach(x) /\ pc[x] \in Voice
      BY <1>1, <2>3 DEF Stagewise, Reach, Voice
    <3>2. Heard(c, x)
      <4>1. Heard(c, x) \/ Owes(x, c)
        BY <1>5, <3>1 DEF Announced
      <4>. QED BY <1>1, <4>1 DEF Owes
    <3>3. ~Queued(c, "peer-left", x)
      BY <1>1 DEF Departures
    <3>4. InOrder(Append(queue[c], Signal(x)), Told(c), missed[c])
      BY <1>4, <2>1, <3>2, <3>3, QueueType, AppendOrder DEF Heard, Queued
    <3>. QED BY <2>3, <3>4, RouteCases
  <2>. QED BY <2>2, <2>3
<1>6. KnownSenders'
  BY <1>1, <1>3, <1>5 DEF KnownSenders
<1>7. ASSUME NEW c \in Conns, NEW z \in Conns, Heard(c, z) PROVE Heard(c, z)'
  <2>1. Queued(c, "peer-joined", z) => Queued(c, "peer-joined", z)'
    <3>1. CASE queue'[c] = queue[c]
      BY <3>1 DEF Queued
    <3>2. CASE queue'[c] = Append(queue[c], Signal(x))
      BY <3>2, <1>4, QueueType, AppendHolds DEF Queued
    <3>. QED BY <3>1, <3>2, RouteCases
  <2>. QED BY <1>1, <1>3, <1>7, <2>1 DEF Heard
<1>8. \A z \in Conns : pc'[z] \in Voice => pc[z] \in Voice /\ Reach(z)' \subseteq Reach(z)
  BY <1>1, <1>2 DEF Reach, Voice
<1>9. \A c, z \in Conns : Owes(z, c) => Owes(z, c)'
  BY <1>1, <1>2 DEF Owes
<1>10. Announced'
  BY <1>3, <1>7, <1>8, <1>9 DEF Announced
<1>. QED BY <1>6, <1>10

\* Delivery moves what was queued into what is known.
LEMMA SendKeeps ==
  ASSUME TypeOK, Stagewise, Departures, KnownSenders, Announced, NEW x \in Conns, WriterSends(x)
  PROVE  KnownSenders' /\ Announced'
<1>1. /\ UNCHANGED <<rooms, pc, peers, targets, fwd, writer, missed>>
      /\ writer[x] = "running"
      /\ view' = [view EXCEPT ![x] = Learn(@, Head(queue[x]))]
  BY DEF WriterSends, server, sockets
<1>2. view \in [Conns -> SUBSET Conns] /\ pc[x] # "joined"
  BY <1>1 DEF TypeOK, Stagewise
<1>3. \A c \in Conns : /\ Served(c)' = Served(c)
                       /\ Told(c)' = IF c = x THEN Learn(Told(c), Head(queue[c])) ELSE Told(c)
  BY <1>1, <1>2 DEF Served, Told
<1>4. KnownSenders'
  <2>1. ASSUME NEW c \in Conns, Served(c) PROVE InOrder(queue'[c], Told(c)', missed[c])
    <3>1. InOrder(queue[c], Told(c), missed[c])
      BY <2>1 DEF KnownSenders
    <3>2. CASE c = x
      BY <1>3, <3>1, <3>2, SendCases, QueueType, TailOrder
    <3>3. CASE c # x
      BY <1>3, <3>1, <3>3, SendCases
    <3>. QED BY <3>2, <3>3
  <2>. QED BY <1>1, <1>3, <2>1 DEF KnownSenders
<1>5. ASSUME NEW c \in Conns, NEW z \in Conns, pc[z] \in Voice, Heard(c, z)
      PROVE  Heard(c, z)'
  <2>1. CASE c # x
    BY <1>1, <1>3, <1>5, <2>1, SendCases DEF Heard, Queued
  <2>2. CASE c = x
    <3> DEFINE h == Head(queue[x])
    <3>1. queue[x] # <<>> /\ queue'[x] = Tail(queue[x]) /\ queue[x] \in Seq(Message)
      BY SendCases, QueueType
    <3>2. h \in Message
      BY <3>1, HeadTailProperties
    <3>. HIDE DEF h
    <3>3. h # [type |-> "peer-left", from |-> z]
      <4>1. ~Queued(x, "peer-left", z)
        BY <1>5 DEF Departures, Voice
      <4>. QED BY <3>1, <4>1, TailHolds DEF Queued, h
    <3>4. z \in Told(x) => z \in Learn(Told(x), h)
      <4>1. h.type = "peer-left" => h.from # z
        BY <3>2, <3>3 DEF Message
      <4>. QED BY <3>2, <4>1 DEF Learn, Message
    <3>5. Queued(x, "peer-joined", z) =>
            Queued(x, "peer-joined", z)' \/ [type |-> "peer-joined", from |-> z] = h
      BY <3>1, TailHolds DEF Queued, h
    <3>6. [type |-> "peer-joined", from |-> z] = h => z \in Learn(Told(x), h)
      <4>1. [type |-> "peer-joined", from |-> z].type = "peer-joined"
        OBVIOUS
      <4>2. [type |-> "peer-joined", from |-> z].from = z
        OBVIOUS
      <4>. QED BY <4>1, <4>2 DEF Learn
    <3>. QED BY <1>1, <1>3, <1>5, <2>2, <3>4, <3>5, <3>6 DEF Heard, h
  <2>. QED BY <2>1, <2>2
<1>6. \A c, z \in Conns : Reach(z)' = Reach(z) /\ pc'[z] = pc[z] /\ Owes(z, c)' = Owes(z, c)
  BY <1>1 DEF Reach, Owes
<1>7. Announced'
  BY <1>3, <1>5, <1>6 DEF Announced
<1>. QED BY <1>4, <1>7

\* A connection that is over hears nothing any more.
LEMMA FinishKeeps ==
  ASSUME TypeOK, KnownSenders, Announced, NEW x \in Conns, Finish(x)
  PROVE  KnownSenders' /\ Announced'
<1>1. /\ ~Served(x)'
      /\ \A z \in Conns : /\ z # x => pc'[z] = pc[z]
                          /\ z = x => pc'[z] = "closed"
      /\ UNCHANGED <<rooms, peers, targets, fwd, writer>>
      /\ \A c \in Conns : c # x => queue'[c] = queue[c] /\ view'[c] = view[c] /\ missed'[c] = missed[c]
  BY DEF Finish, Served, Goto, server, TypeOK
<1>2. \A c \in Conns : Steady(c)
  BY <1>1 DEF Steady, Served, Told
<1>3. \A z \in Conns : NoLouder(z)
  BY <1>1 DEF NoLouder, Voice, Reach, Owes
<1>. QED BY <1>2, <1>3, QuietKeeps DEF QuietStep

-----------------------------------------------------------------------------
(* The theorems.                                                           *)

\* The inductive invariant holds at the start, ...
LEMMA IInvInit == Init => IInv
<1> SUFFICES ASSUME Init PROVE IInv
  OBVIOUS
<1>1. TypeOK
  BY RoomsAssumption, MaxSignalsAssumption DEF Init, TypeOK, Stages
<1>2. Stagewise /\ Slots
  BY RoomsAssumption DEF Init, Stagewise, Slots, InRoom
<1>3. \A c \in Conns : Len(queue[c]) = 0 /\ ~Served(c)
  BY DEF Init, Served
<1>4. Departures
  BY <1>3 DEF Departures, Queued, Holds
<1>5. Announced /\ KnownSenders
  BY <1>3 DEF Announced, KnownSenders
<1>. QED BY <1>1, <1>2, <1>4, <1>5 DEF IInv

\* ... and every step keeps it.
LEMMA IInvStep == IInv /\ [Next]_vars => IInv'
<1> SUFFICES ASSUME IInv, [Next]_vars PROVE IInv'
  OBVIOUS
<1>1. TypeOK' /\ Stagewise' /\ Slots' /\ Departures'
  BY TypeStep, StageStep, SlotStep, DepartureStep DEF IInv
<1>2. ASSUME NEW x \in Conns, Proceed(x) \/ Write(x) \/ ClientActs(x)
      PROVE  KnownSenders' /\ Announced'
  <2> USE DEF IInv
  <2>1. CASE Join(x)
    BY <2>1, JoinKeeps DEF JoinInv
  <2>2. ASSUME NEW t \in Conns, NotifyOne(x, t) PROVE KnownSenders' /\ Announced'
    BY <2>2, NotifyKeeps
  <2>3. CASE RoutePosts(x)
    BY <2>3, RouteKeeps
  <2>4. CASE WriterSends(x)
    BY <2>4, SendKeeps
  <2>5. CASE Finish(x)
    BY <2>5, FinishKeeps
  <2>6. CASE \/ JoinRefused(x) \/ WriteWelcome(x) \/ WelcomeFails(x) \/ Announce(x)
             \/ StartReading(x) \/ ReadRejected(x) \/ RouteFails(x) \/ ReadFails(x)
             \/ Leave(x) \/ AnnounceLeft(x) \/ CloseDone(x) \/ WriterFails(x)
             \/ WriterQuits(x) \/ SocketCloses(x)
             \/ \E to \in Conns : ReadSignal(x, to)
    BY <2>6, QuietActions, QuietKeeps
  <2>. QED BY <1>2, <2>1, <2>2, <2>3, <2>4, <2>5, <2>6 DEF Proceed, Write, ClientActs
<1>3. ASSUME UNCHANGED vars PROVE KnownSenders' /\ Announced'
  <2>1. QuietStep
    BY <1>3 DEF vars, QuietStep, Steady, NoLouder, Served, Told, Reach, Owes
  <2>. QED BY <2>1, QuietKeeps DEF IInv
<1>. QED BY <1>1, <1>2, <1>3 DEF IInv, Next

\* What the argument rests on: in every reachable state whoever a connection can still
\* address has heard of it or is owed its notice, and queues are in order.
THEOREM InductiveInvariant == Spec => []IInv
BY IInvInit, IInvStep, PTL DEF Spec

\* Room slots (hub.go join and leave): a room holds exactly the connections between
\* join and leave, and never more than MaxPeersPerRoom of them.
THEOREM SlotsNeverLeak == Spec => []Membership
<1>1. Init => Capacity
  <2>1. IsFiniteSet({}) /\ Cardinality({}) = 0
    BY FS_EmptySet
  <2>. QED BY <2>1, BoundsAssumption DEF Init, Capacity
<1>2. TypeOK /\ Capacity /\ [Next]_vars => Capacity'
  BY CapacityStep
<1>3. IInv /\ Capacity => Membership
  BY DEF IInv, Slots, Capacity, Membership
<1>. QED BY <1>1, <1>2, <1>3, SignalingTypes, InductiveInvariant, PTL DEF Spec

\* No interleaving of joins, departures, notices and forwarded signals hands a client
\* a signal before the notice of its sender, or after that of its departure.
THEOREM SendersAreKnown == Spec => []KnownSenders
<1>1. IInv => KnownSenders
  BY DEF IInv
<1>. QED BY <1>1, InductiveInvariant, PTL

-----------------------------------------------------------------------------
(***************************************************************************)
(* Rooms do not mix.  What a client has been told stays in its room        *)
(* because whom a connection remembers, posts to and forwards to does.     *)
(***************************************************************************)
Same(c, p) == RoomOf[p] = RoomOf[c]

OneRoom(c) ==
  /\ \A p \in view[c] \cup peers[c] \cup targets[c] \cup {fwd[c]} : Same(c, p)
  /\ \A m \in Message : Holds(queue[c], m) => Same(c, m.from)

Apart == \A c \in Conns : OneRoom(c)

LEMMA ApartInit == Init => Apart
  BY DEF Init, Apart, OneRoom, Same, Holds

\* A step that changes only what concerns c keeps the others apart.
LEMMA ApartFrame ==
  ASSUME Apart, NEW c \in Conns, OneRoom(c)',
         \A d \in Conns : d # c =>
           /\ view'[d] = view[d] /\ peers'[d] = peers[d] /\ targets'[d] = targets[d]
           /\ fwd'[d] = fwd[d] /\ queue'[d] = queue[d]
  PROVE  Apart'
<1>. SUFFICES ASSUME NEW d \in Conns, d # c PROVE OneRoom(d)'
  BY DEF Apart
<1>. QED BY DEF Apart, OneRoom, Holds

\* Nor does a message of its own room, put into the queue of t.
LEMMA ApartPost ==
  ASSUME TypeOK, Apart, NEW t \in Conns, NEW m \in Message, Same(t, m.from),
         queue' = [queue EXCEPT ![t] = Append(@, m)],
         \A d \in Conns : /\ view'[d] = view[d] /\ peers'[d] = peers[d]
                          /\ targets'[d] \subseteq targets[d] /\ fwd'[d] \in {fwd[d], d}
  PROVE  Apart'
<1>. SUFFICES ASSUME NEW d \in Conns PROVE OneRoom(d)'
  BY DEF Apart
<1>1. queue[d] \in Seq(Message)
  BY DEF TypeOK
<1>2. queue'[d] = IF d = t THEN Append(queue[d], m) ELSE queue[d]
  BY DEF TypeOK
<1>3. \A k \in Message : Holds(queue'[d], k) => Holds(queue[d], k) \/ (d = t /\ k = m)
  <2>1. \A k : Holds(Append(queue[d], m), k) <=> Holds(queue[d], k) \/ k = m
    BY <1>1, AppendHolds
  <2>. QED BY <1>2, <2>1
<1>4. \A k \in Message : Holds(queue[d], k)' => Same(d, k.from)
  BY <1>3 DEF Apart, OneRoom, Holds
<1>5. \A p \in view'[d] \cup peers'[d] \cup targets'[d] \cup {fwd'[d]} : Same(d, p)
  BY DEF Apart, OneRoom, Same
<1>. QED BY <1>4, <1>5 DEF OneRoom, Same

LEMMA ApartStep == TypeOK /\ Slots /\ Apart /\ [Next]_vars => Apart'
<1> SUFFICES ASSUME TypeOK, Slots, Apart, [Next]_vars PROVE Apart'
  OBVIOUS
<1> USE DEF server, sockets, Goto
<1>1. ASSUME NEW c \in Conns,
             \/ JoinRefused(c) \/ WelcomeFails(c) \/ StartReading(c) \/ ReadRejected(c)
             \/ ReadFails(c) \/ CloseDone(c) \/ WriterFails(c) \/ WriterQuits(c) \/ SocketCloses(c)
      PROVE  Apart'
  <2>1. UNCHANGED <<view, peers, targets, fwd, queue>>
    BY <1>1 DEF JoinRefused, WelcomeFails, StartReading, ReadRejected, ReadFails, CloseDone,
                WriterFails, WriterQuits, SocketCloses
  <2>. QED BY <2>1 DEF Apart, OneRoom, Same, Holds
<1>2. ASSUME NEW c \in Conns, Join(c) \/ Leave(c) PROVE Apart'
  <2>1. \A p \in rooms[RoomOf[c]] : Same(c, p)
    BY MembersAreServed DEF Same
  <2>2. /\ peers'[c] \subseteq rooms[RoomOf[c]]
        /\ \A d \in Conns : d # c => peers'[d] = peers[d]
        /\ UNCHANGED <<view, targets, fwd, queue>>
    BY <1>2 DEF Join, Leave, TypeOK
  <2>. QED BY <2>1, <2>2, ApartFrame DEF Apart, OneRoom, Same, Holds
<1>3. ASSUME NEW c \in Conns, WriteWelcome(c) PROVE Apart'
  <2>1. /\ view'[c] = peers[c] /\ \A d \in Conns : d # c => view'[d] = view[d]
        /\ UNCHANGED <<peers, targets, fwd, queue>>
    BY <1>3 DEF WriteWelcome, TypeOK
  <2>. QED BY <2>1, ApartFrame DEF Apart, OneRoom, Same, Holds
<1>4. ASSUME NEW c \in Conns, Announce(c) \/ AnnounceLeft(c) PROVE Apart'
  <2>1. /\ targets'[c] \subseteq peers[c] /\ peers'[c] = {}
        /\ \A d \in Conns : d # c => targets'[d] = targets[d] /\ peers'[d] = peers[d]
        /\ UNCHANGED <<view, fwd, queue>>
    BY <1>4 DEF Announce, AnnounceLeft, NoticeTargets, TypeOK
  <2>. QED BY <2>1, ApartFrame DEF Apart, OneRoom, Same, Holds
<1>5. ASSUME NEW c \in Conns, NEW t \in Conns, NotifyOne(c, t) PROVE Apart'
  <2>1. /\ t \in targets[c] /\ Notice(c) \in Message /\ Notice(c).from = c
        /\ \A d \in Conns : targets'[d] \subseteq targets[d]
        /\ UNCHANGED <<view, peers, fwd>>
    BY <1>5 DEF NotifyOne, Notice, Message, TypeOK
  <2>2. Same(t, Notice(c).from)
    BY <2>1 DEF Apart, OneRoom, Same
  <2>3. CASE queue' = [queue EXCEPT ![t] = Append(@, Notice(c))]
    BY <2>1, <2>2, <2>3, ApartPost
  <2>4. CASE UNCHANGED queue
    BY <2>1, <2>4 DEF Apart, OneRoom, Same, Holds
  <2>. QED BY <1>5, <2>3, <2>4 DEF NotifyOne
<1>6. ASSUME NEW c \in Conns, NEW to \in Conns, ReadSignal(c, to) PROVE Apart'
  <2>1. Same(c, to)
    BY <1>6, MembersAreServed DEF ReadSignal, RouteTargets, Same
  <2>2. /\ fwd'[c] = to /\ \A d \in Conns : d # c => fwd'[d] = fwd[d]
        /\ UNCHANGED <<view, peers, targets, queue>>
    BY <1>6 DEF ReadSignal, TypeOK
  <2>. QED BY <2>1, <2>2, ApartFrame DEF Apart, OneRoom, Same, Holds
<1>7. ASSUME NEW c \in Conns, RoutePosts(c) PROVE Apart'
  <2>1. /\ fwd[c] \in Conns /\ Signal(c) \in Message /\ Signal(c).from = c
        /\ queue' = [queue EXCEPT ![fwd[c]] = Append(@, Signal(c))]
        /\ \A d \in Conns : fwd'[d] \in {fwd[d], d}
        /\ UNCHANGED <<view, peers, targets>>
    BY <1>7 DEF RoutePosts, Signal, Message, TypeOK
  <2>2. Same(fwd[c], Signal(c).from)
    BY <2>1 DEF Apart, OneRoom, Same
  <2>. QED BY <2>1, <2>2, ApartPost
<1>8. ASSUME NEW c \in Conns, RouteFails(c) PROVE Apart'
  <2>1. /\ fwd'[c] = c /\ \A d \in Conns : d # c => fwd'[d] = fwd[d]
        /\ UNCHANGED <<view, peers, targets, queue>>
    BY <1>8 DEF RouteFails, TypeOK
  <2>. QED BY <2>1, ApartFrame DEF Apart, OneRoom, Same, Holds
<1>9. ASSUME NEW c \in Conns, Finish(c) PROVE Apart'
  <2>1. /\ view'[c] = {} /\ queue'[c] = <<>>
        /\ \A d \in Conns : d # c => view'[d] = view[d] /\ queue'[d] = queue[d]
        /\ UNCHANGED <<peers, targets, fwd>>
    BY <1>9 DEF Finish, TypeOK
  <2>. QED BY <2>1, ApartFrame DEF Apart, OneRoom, Same, Holds
<1>10. ASSUME NEW c \in Conns, WriterSends(c) PROVE Apart'
  <2>1. /\ queue[c] # <<>> /\ queue[c] \in Seq(Message)
        /\ queue'[c] = Tail(queue[c]) /\ view'[c] = Learn(view[c], Head(queue[c]))
        /\ \A d \in Conns : d # c => view'[d] = view[d] /\ queue'[d] = queue[d]
        /\ UNCHANGED <<peers, targets, fwd>>
    BY <1>10 DEF WriterSends, TypeOK
  <2>2. \A m \in Message : Holds(queue'[c], m) \/ m = Head(queue[c]) => Holds(queue[c], m)
    BY <2>1, TailHolds
  <2>3. Head(queue[c]) \in Message
    BY <2>1
  <2>4. Same(c, Head(queue[c]).from)
    BY <2>2, <2>3 DEF Apart, OneRoom
  <2>5. view'[c] \subseteq view[c] \cup {Head(queue[c]).from}
    BY <2>1, <2>3 DEF Learn, Message
  <2>6. \A m \in Message : Holds(queue[c], m)' => Same(c, m.from)
    BY <2>2 DEF Apart, OneRoom, Holds
  <2>7. OneRoom(c)'
    BY <2>1, <2>4, <2>5, <2>6 DEF Apart, OneRoom, Same
  <2>. QED BY <2>1, <2>7, ApartFrame
<1>11. CASE UNCHANGED vars
  BY <1>11 DEF vars, Apart, OneRoom, Same, Holds
<1>. QED
  BY <1>1, <1>2, <1>3, <1>4, <1>5, <1>6, <1>7, <1>8, <1>9, <1>10, <1>11
  DEF Next, Proceed, Write, ClientActs

LEMMA ApartIsolates == TypeOK /\ Apart => RoomIsolation
<1> SUFFICES ASSUME TypeOK, Apart, NEW c \in Conns
             PROVE  /\ \A p \in view[c] : RoomOf[p] = RoomOf[c]
                    /\ \A i \in 1..Len(queue[c]) : RoomOf[queue[c][i].from] = RoomOf[c]
  BY DEF RoomIsolation
<1>1. \A i \in 1..Len(queue[c]) : queue[c][i] \in Message /\ Holds(queue[c], queue[c][i])
  BY DEF TypeOK, Holds
<1>. QED BY <1>1 DEF Apart, OneRoom, Same

\* No notice and no signal crosses rooms (serveWebSocket, notifyPeers and route agree on
\* whose address counts), whichever connections come, go and overlap.
THEOREM RoomsNeverMix == Spec => []RoomIsolation
<1>1. IInv /\ Apart /\ [Next]_vars => Apart'
  BY ApartStep DEF IInv
<1>2. IInv /\ Apart => RoomIsolation
  BY ApartIsolates DEF IInv
<1>. QED BY <1>1, <1>2, ApartInit, InductiveInvariant, PTL DEF Spec

-----------------------------------------------------------------------------
(***************************************************************************)
(* Views of clients that have read everything.  Nobody is invisible        *)
(* because of Announced.  Nobody is a ghost because whoever leaves still   *)
(* has its departure to announce to each client that knows it (Parting),   *)
(* and a queue never has the arrival of a peer behind its departure.       *)
(***************************************************************************)
JoinsFirst(q) ==
  \A i, j \in 1..Len(q) :
    q[i].type = "peer-left" /\ q[j].type = "peer-joined" /\ q[i].from = q[j].from => j < i

Knows(c, z) == z \in Told(c) \/ Queued(c, "peer-joined", z)

Leaving(z, c) ==
  \/ pc[z] \in InRoom
  \/ pc[z] = "left" /\ c \in peers[z]
  \/ pc[z] = "notifyLeft" /\ c \in targets[z]

Part(c, z) ==
  pc[c] \in Voice /\ z \notin missed[c] /\ Knows(c, z)
    => Leaving(z, c) \/ Queued(c, "peer-left", z)

Parting == \A c, z \in Conns : c # z => Part(c, z)
Ordered == \A c \in Conns : JoinsFirst(queue[c])

LEMMA AppendJoins ==
  ASSUME NEW q \in Seq(Message), NEW m \in Message, JoinsFirst(q),
         m.type = "peer-joined" => ~ Holds(q, [type |-> "peer-left", from |-> m.from])
  PROVE  JoinsFirst(Append(q, m))
<1> DEFINE p == Append(q, m)
<1>1. /\ Len(q) \in Nat /\ Len(p) = Len(q) + 1
      /\ \A i \in 1..Len(q) : p[i] = q[i]
      /\ p[Len(q) + 1] = m
  BY AppendProperties
<1>. HIDE DEF p
<1>2. SUFFICES ASSUME NEW i \in 1..Len(p), NEW j \in 1..Len(p), p[i].type = "peer-left",
                      p[j].type = "peer-joined", p[i].from = p[j].from
               PROVE  j < i
  BY DEF JoinsFirst, p
<1>3. i # j
  BY <1>2
<1>4. CASE i \in 1..Len(q) /\ j \in 1..Len(q)
  BY <1>1, <1>2, <1>4 DEF JoinsFirst
<1>5. CASE i = Len(q) + 1
  BY <1>1, <1>3, <1>5
<1>6. CASE i \in 1..Len(q) /\ j = Len(q) + 1
  <2>1. q[i] \in Message /\ q[i].type = "peer-left" /\ q[i].from = m.from /\ m.type = "peer-joined"
    BY <1>1, <1>2, <1>6
  <2>2. q[i] = [type |-> "peer-left", from |-> m.from]
    BY <2>1 DEF Message
  <2>. QED BY <1>6, <2>1, <2>2 DEF Holds
<1>. QED BY <1>1, <1>4, <1>5, <1>6

LEMMA TailJoins ==
  ASSUME NEW q \in Seq(Message), q # <<>>, JoinsFirst(q)
  PROVE  /\ JoinsFirst(Tail(q))
         /\ Head(q).type = "peer-left"
              => ~ Holds(Tail(q), [type |-> "peer-joined", from |-> Head(q).from])
<1> DEFINE p == Tail(q)
<1>1. /\ Len(q) \in Nat \ {0} /\ Len(p) = Len(q) - 1 /\ Head(q) = q[1]
      /\ \A i \in 1..Len(p) : p[i] = q[i + 1]
  BY HeadTailProperties
<1>. HIDE DEF p
<1>2. \A i \in 1..Len(p) : i + 1 \in 1..Len(q) /\ p[i] = q[i + 1]
  BY <1>1
<1>3. JoinsFirst(p)
  <2> SUFFICES ASSUME NEW i \in 1..Len(p), NEW j \in 1..Len(p), p[i].type = "peer-left",
                      p[j].type = "peer-joined", p[i].from = p[j].from
               PROVE  j < i
    BY DEF JoinsFirst
  <2>1. j + 1 < i + 1
    BY <1>2 DEF JoinsFirst
  <2>. QED BY <2>1
<1>4. ASSUME Head(q).type = "peer-left", NEW j \in 1..Len(p),
             p[j] = [type |-> "peer-joined", from |-> Head(q).from]
      PROVE  FALSE
  <2>1. /\ 1 \in 1..Len(q) /\ q[1].type = "peer-left"
        /\ q[j + 1].type = "peer-joined" /\ q[j + 1].from = q[1].from
    BY <1>1, <1>2, <1>4
  <2>2. j + 1 < 1
    BY <1>2, <2>1 DEF JoinsFirst
  <2>. QED BY <2>2
<1>. QED BY <1>3, <1>4 DEF Holds, p

\* Arrivals are posted by those in the room, whose departure nobody has posted.
LEMMA OrderedStep == TypeOK /\ Departures /\ Ordered /\ [Next]_vars => Ordered'
<1> SUFFICES ASSUME TypeOK, Departures, Ordered, [Next]_vars, NEW c \in Conns
             PROVE  JoinsFirst(queue'[c])
  BY DEF Ordered, JoinsFirst
<1> USE DEF server, sockets
<1>1. JoinsFirst(queue[c]) /\ queue[c] \in Seq(Message)
  BY QueueType DEF Ordered
<1>2. CASE queue'[c] = queue[c]
  BY <1>1, <1>2
<1>3. ASSUME NEW x \in Conns, NEW t \in Conns, NotifyOne(x, t) PROVE JoinsFirst(queue'[c])
  <2>1. CASE queue'[c] = Append(queue[c], Notice(x))
    <3>1. Notice(x).type = "peer-joined" => pc[x] = "notifyJoined"
      BY NoticeFields
    <3>2. pc[x] = "notifyJoined" => ~ Queued(c, "peer-left", x)
      BY DEF Departures
    <3>3. Notice(x) \in Message /\ Notice(x).from = x
      BY NoticeType, NoticeFields
    <3>. QED BY <1>1, <2>1, <3>1, <3>2, <3>3, AppendJoins DEF Queued
  <2>. QED BY <1>2, <1>3, <2>1, NotifyCases
<1>4. ASSUME NEW x \in Conns, RoutePosts(x) PROVE JoinsFirst(queue'[c])
  <2>1. Signal(x) \in Message /\ Signal(x).type = "signal"
    BY NoticeType DEF Signal
  <2>. QED BY <1>1, <1>4, <2>1, RouteCases, AppendJoins
<1>5. ASSUME NEW x \in Conns, WriterSends(x) PROVE JoinsFirst(queue'[c])
  BY <1>1, <1>5, SendCases, TailJoins
<1>6. ASSUME NEW x \in Conns, Finish(x) PROVE JoinsFirst(queue'[c])
  <2>1. JoinsFirst(<<>>)
    BY DEF JoinsFirst
  <2>2. queue'[c] = queue[c] \/ queue'[c] = <<>>
    BY <1>6 DEF Finish, TypeOK
  <2>. QED BY <1>2, <2>1, <2>2
<1>7. ASSUME NEW x \in Conns,
             \/ Join(x) \/ JoinRefused(x) \/ WriteWelcome(x) \/ WelcomeFails(x) \/ Announce(x)
             \/ StartReading(x) \/ ReadRejected(x) \/ RouteFails(x) \/ ReadFails(x) \/ Leave(x)
             \/ AnnounceLeft(x) \/ CloseDone(x) \/ WriterFails(x) \/ WriterQuits(x)
             \/ SocketCloses(x) \/ \E to \in Conns : ReadSignal(x, to)
      PROVE  JoinsFirst(queue'[c])
  <2>1. queue' = queue
    BY <1>7 DEF Join, JoinRefused, WriteWelcome, WelcomeFails, Announce, StartReading,
                ReadRejected, RouteFails, ReadFails, Leave, AnnounceLeft, CloseDone,
                WriterFails, WriterQuits, SocketCloses, ReadSignal
  <2>. QED BY <1>2, <2>1
<1>8. CASE UNCHANGED vars
  BY <1>2, <1>8 DEF vars
<1>. QED BY <1>3, <1>4, <1>5, <1>6, <1>7, <1>8 DEF Next, Proceed, Write, ClientActs

\* A step after which c knows of no more peers than before, and z has as much to announce.
LEMMA PartKept ==
  ASSUME NEW c, NEW z, Part(c, z),
         pc'[c] \in Voice => /\ pc[c] \in Voice /\ missed[c] \subseteq missed'[c]
                             /\ Knows(c, z)' => Knows(c, z)
                             /\ Leaving(z, c) => Leaving(z, c)' \/ z \in missed'[c]
                                                 \/ Queued(c, "peer-left", z)'
                             /\ Queued(c, "peer-left", z) => Queued(c, "peer-left", z)'
  PROVE  Part(c, z)'
BY DEF Part

\* A client that knows z shares its room, and is in it as long as it has a voice.
LEMMA KnownFromRoom ==
  ASSUME TypeOK, Slots, Apart, NEW c \in Conns, NEW z \in Conns, Knows(c, z), pc[c] \in Voice
  PROVE  c \in rooms[RoomOf[z]]
<1>1. RoomOf[z] = RoomOf[c]
  <2>1. CASE z \in Told(c)
    BY <2>1 DEF Told, Apart, OneRoom, Same
  <2>2. CASE Queued(c, "peer-joined", z)
    <3>1. [type |-> "peer-joined", from |-> z] \in Message
      BY DEF Message
    <3>2. [type |-> "peer-joined", from |-> z].from = z
      OBVIOUS
    <3>. QED BY <2>2, <3>1, <3>2 DEF Queued, Apart, OneRoom, Same
  <2>. QED BY <2>1, <2>2 DEF Knows
<1>. QED BY <1>1, MembersAreServed DEF Voice, InRoom

LEMMA PartingStep ==
  TypeOK /\ Stagewise /\ Slots /\ Apart /\ Ordered /\ Parting /\ [Next]_vars => Parting'
<1> SUFFICES ASSUME TypeOK, Stagewise, Slots, Apart, Ordered, Parting, [Next]_vars,
                    NEW c \in Conns, NEW z \in Conns, c # z
             PROVE  Part(c, z)'
  BY DEF Parting
<1> USE DEF server, sockets, Goto
<1>0. Part(c, z) /\ pc \in [Conns -> Stages] /\ queue[c] \in Seq(Message)
  BY QueueType DEF Parting, TypeOK
<1>1. ASSUME NEW x \in Conns,
             \/ JoinRefused(x) \/ WelcomeFails(x) \/ StartReading(x) \/ ReadRejected(x)
             \/ RouteFails(x) \/ ReadFails(x) \/ CloseDone(x) \/ WriterFails(x) \/ WriterQuits(x)
             \/ SocketCloses(x) \/ \E to \in Conns : ReadSignal(x, to)
      PROVE  Part(c, z)'
  <2>1. /\ UNCHANGED <<peers, targets, queue, view, missed>>
        /\ \A d \in Conns : d # x => pc'[d] = pc[d]
        /\ \/ pc' = pc
           \/ /\ pc[x] \in InRoom \ {"joined"} /\ pc'[x] \in InRoom \ {"joined"}
              /\ pc'[x] \in Voice => pc[x] \in Voice
           \/ pc'[x] \notin Voice /\ pc[x] \in {"idle"}
           \/ pc'[x] = "closing" /\ pc[x] = "joined"
           \/ pc'[x] = "draining" /\ pc[x] = "notifyLeft" /\ targets[x] = {}
    BY <1>0, <1>1 DEF JoinRefused, WelcomeFails, StartReading, ReadRejected, RouteFails, ReadFails,
                CloseDone, WriterFails, WriterQuits, SocketCloses, ReadSignal, InRoom, Voice
  <2>2. pc'[c] \in Voice => pc[c] \in Voice /\ (pc'[c] = "joined" <=> pc[c] = "joined")
    BY <2>1 DEF InRoom, Voice
  <2>3. Leaving(z, c) => Leaving(z, c)'
    BY <2>1 DEF Leaving, InRoom
  <2>4. pc'[c] \in Voice => Told(c)' = Told(c)
    BY <2>1, <2>2 DEF Told
  <2>. QED BY <1>0, <2>1, <2>2, <2>3, <2>4, PartKept DEF Knows, Queued
<1>2. ASSUME NEW x \in Conns, Join(x) PROVE Part(c, z)'
  <2>1. /\ pc[x] = "idle" /\ pc'[x] = "joined" /\ peers'[x] = rooms[RoomOf[x]]
        /\ \A d \in Conns : d # x => pc'[d] = pc[d] /\ peers'[d] = peers[d]
        /\ UNCHANGED <<targets, queue, view, missed>>
    BY <1>2 DEF Join, TypeOK
  <2>2. CASE c = x
    <3>1. queue'[c] = <<>>
      BY <2>1, <2>2 DEF Stagewise
    <3>2. ~ Queued(c, "peer-joined", z)'
      BY <3>1 DEF Queued, Holds
    <3>3. Told(c)' = rooms[RoomOf[c]]
      BY <2>1, <2>2 DEF Told
    <3>4. z \in rooms[RoomOf[c]] => pc'[z] \in InRoom
      BY <2>1, <2>2, MembersAreServed
    <3>. QED BY <3>2, <3>3, <3>4 DEF Part, Knows, Leaving
  <2>3. CASE c # x
    <3>1. Told(c)' = Told(c) /\ (Leaving(z, c) => Leaving(z, c)')
      BY <2>1, <2>3 DEF Told, Leaving, InRoom
    <3>. QED BY <1>0, <2>1, <2>3, <3>1, PartKept DEF Knows, Queued
  <2>. QED BY <2>2, <2>3
<1>3. ASSUME NEW x \in Conns, WriteWelcome(x) PROVE Part(c, z)'
  <2>1. /\ pc[x] = "joined" /\ pc'[x] = "announcing" /\ view'[x] = peers[x]
        /\ \A d \in Conns : d # x => pc'[d] = pc[d] /\ view'[d] = view[d]
        /\ UNCHANGED <<peers, targets, queue, missed>>
    BY <1>3 DEF WriteWelcome, TypeOK
  <2>2. Told(c)' = Told(c) /\ (Leaving(z, c) => Leaving(z, c)')
    BY <2>1 DEF Told, Leaving, InRoom
  <2>3. pc'[c] \in Voice => pc[c] \in Voice
    BY <2>1 DEF Voice
  <2>. QED BY <1>0, <2>1, <2>2, <2>3, PartKept DEF Knows, Queued
<1>4. ASSUME NEW x \in Conns, Announce(x) PROVE Part(c, z)'
  <2>1. /\ pc[x] = "announcing" /\ pc'[x] = "notifyJoined"
        /\ \A d \in Conns : d # x => pc'[d] = pc[d] /\ peers'[d] = peers[d] /\ targets'[d] = targets[d]
        /\ UNCHANGED <<queue, view, missed>>
    BY <1>4 DEF Announce, TypeOK
  <2>2. Told(c)' = Told(c) /\ (Leaving(z, c) => Leaving(z, c)')
    BY <2>1 DEF Told, Leaving, InRoom
  <2>3. pc'[c] \in Voice => pc[c] \in Voice
    BY <2>1 DEF Voice
  <2>. QED BY <1>0, <2>1, <2>2, <2>3, PartKept DEF Knows, Queued
<1>5. ASSUME NEW x \in Conns, NEW t \in Conns, NotifyOne(x, t) PROVE Part(c, z)'
  <2>1. /\ pc[x] \in {"notifyJoined", "notifyLeft"}
        /\ \A d \in Conns : targets'[d] = IF d = x THEN targets[d] \ {t} ELSE targets[d]
        /\ UNCHANGED <<pc, peers, view>>
    BY <1>5 DEF NotifyOne, TypeOK
  <2>2. Told(c)' = Told(c) /\ (~ (z = x /\ c = t) => (Leaving(z, c) => Leaving(z, c)'))
    BY <2>1 DEF Told, Leaving
  <2>3. CASE queue'[c] = queue[c] /\ c # t /\ missed'[c] = missed[c]
    BY <1>0, <2>1, <2>2, <2>3, PartKept DEF Knows, Queued
  <2>4. CASE queue'[c] = queue[c] /\ c = t /\ missed'[c] = missed[c] \cup {x}
    <3>1. Leaving(z, c) => Leaving(z, c)' \/ z \in missed'[c]
      BY <2>2, <2>4
    <3>. QED BY <1>0, <2>1, <2>2, <2>4, <3>1, PartKept DEF Knows, Queued
  <2>5. CASE queue'[c] = Append(queue[c], Notice(x)) /\ c = t /\ missed'[c] = missed[c]
    <3>1. \A m : Holds(queue'[c], m) <=> Holds(queue[c], m) \/ m = Notice(x)
      BY <1>0, <2>5, NoticeType, AppendHolds
    <3>2. \A m : Holds(queue'[c], m) <=> Holds(queue[c], m)'
      BY DEF Holds
    <3>3. Queued(c, "peer-left", z) => Queued(c, "peer-left", z)'
      BY <3>1, <3>2 DEF Queued
    <3>4. CASE z # x
      <4>1. [type |-> "peer-joined", from |-> z] # Notice(x)
        <5>1. [type |-> "peer-joined", from |-> z].from = z /\ Notice(x).from = x
          BY NoticeFields
        <5>. QED BY <3>4, <5>1
      <4>2. Queued(c, "peer-joined", z)' => Queued(c, "peer-joined", z)
        BY <3>1, <3>2, <4>1 DEF Queued
      <4>. QED BY <1>0, <2>1, <2>2, <2>5, <3>3, <3>4, <4>2, PartKept DEF Knows
    <3>5. CASE z = x /\ pc[x] = "notifyJoined"
      BY <2>1, <3>5 DEF Part, Leaving, InRoom
    <3>6. CASE z = x /\ pc[x] = "notifyLeft"
      <4>1. Notice(x) = [type |-> "peer-left", from |-> z]
        BY <3>6 DEF Notice
      <4>2. Queued(c, "peer-left", z)'
        BY <3>1, <3>2, <4>1 DEF Queued
      <4>. QED BY <4>2 DEF Part
    <3>. QED BY <2>1, <3>4, <3>5, <3>6
  <2>. QED BY <1>5, <2>3, <2>4, <2>5, NotifyCases
<1>6. ASSUME NEW x \in Conns, RoutePosts(x) PROVE Part(c, z)'
  <2>1. /\ pc[x] = "routing" /\ pc'[x] = "reading" /\ \A d \in Conns : d # x => pc'[d] = pc[d]
        /\ UNCHANGED <<peers, targets, view, missed>>
    BY <1>6 DEF RoutePosts, TypeOK
  <2>2. Told(c)' = Told(c) /\ (Leaving(z, c) => Leaving(z, c)')
    BY <2>1 DEF Told, Leaving, InRoom
  <2>3. \A m : m # Signal(x) => (Holds(queue'[c], m) <=> Holds(queue[c], m))
    BY <1>0, <1>6, RouteCases, NoticeType, AppendHolds
  <2>4. \A m : Holds(queue'[c], m) <=> Holds(queue[c], m)'
    BY DEF Holds
  <2>5. /\ [type |-> "peer-joined", from |-> z] # Signal(x)
        /\ [type |-> "peer-left", from |-> z] # Signal(x)
    BY DEF Signal
  <2>6. /\ Queued(c, "peer-joined", z)' <=> Queued(c, "peer-joined", z)
        /\ Queued(c, "peer-left", z)' <=> Queued(c, "peer-left", z)
    BY <2>3, <2>4, <2>5 DEF Queued
  <2>7. pc'[c] \in Voice => pc[c] \in Voice
    BY <2>1 DEF Voice
  <2>. QED BY <1>0, <2>1, <2>2, <2>6, <2>7, PartKept DEF Knows
<1>7. ASSUME NEW x \in Conns, Leave(x) PROVE Part(c, z)'
  <2>1. /\ pc[x] = "closing" /\ pc'[x] = "left" /\ peers'[x] = rooms[RoomOf[x]] \ {x}
        /\ \A d \in Conns : d # x => pc'[d] = pc[d] /\ peers'[d] = peers[d]
        /\ UNCHANGED <<targets, queue, view, missed>>
    BY <1>7 DEF Leave, TypeOK
  <2>2. pc'[c] \in Voice => c # x /\ pc[c] \in Voice
    BY <2>1 DEF Voice
  <2>3. Told(c)' = Told(c) \/ c = x
    BY <2>1 DEF Told
  <2>4. CASE z = x
    <3>1. ASSUME pc'[c] \in Voice, Knows(c, z)' PROVE Leaving(z, c)'
      <4>1. Knows(c, z) /\ pc[c] \in Voice /\ c # x
        BY <2>1, <2>2, <2>3, <3>1 DEF Knows, Queued
      <4>2. c \in rooms[RoomOf[z]]
        BY <4>1, KnownFromRoom
      <4>. QED BY <2>1, <2>4, <4>1, <4>2 DEF Leaving
    <3>. QED BY <3>1 DEF Part
  <2>5. CASE z # x
    <3>1. Leaving(z, c) => Leaving(z, c)'
      BY <2>1, <2>5 DEF Leaving
    <3>. QED BY <1>0, <2>1, <2>2, <2>3, <3>1, PartKept DEF Knows, Queued
  <2>. QED BY <2>4, <2>5
<1>8. ASSUME NEW x \in Conns, AnnounceLeft(x) PROVE Part(c, z)'
  <2>1. /\ pc[x] = "left" /\ pc'[x] = "notifyLeft" /\ targets'[x] = NoticeTargets(x)
        /\ \A d \in Conns : d # x => pc'[d] = pc[d] /\ peers'[d] = peers[d] /\ targets'[d] = targets[d]
        /\ UNCHANGED <<queue, view, missed>>
    BY <1>8 DEF AnnounceLeft, TypeOK
  <2>2. pc'[c] \in Voice => c # x /\ pc[c] \in Voice
    BY <2>1 DEF Voice
  <2>3. Told(c)' = Told(c) \/ c = x
    BY <2>1 DEF Told
  <2>4. ASSUME pc'[c] \in Voice, Knows(c, z) PROVE Leaving(z, c) => Leaving(z, c)'
    <3>1. CASE z = x
      <4>1. c \in rooms[RoomOf[z]]
        BY <2>2, <2>4, KnownFromRoom
      <4>. QED BY <2>1, <3>1, <4>1 DEF Leaving, InRoom, NoticeTargets
    <3>2. CASE z # x
      BY <2>1, <3>2 DEF Leaving
    <3>. QED BY <3>1, <3>2
  <2>5. pc'[c] \in Voice /\ Knows(c, z)' => Knows(c, z)
    BY <2>1, <2>2, <2>3 DEF Knows, Queued
  <2>6. (Queued(c, "peer-left", z)' <=> Queued(c, "peer-left", z)) /\ missed'[c] = missed[c]
    BY <2>1 DEF Queued
  <2>. QED BY <1>0, <2>2, <2>4, <2>5, <2>6 DEF Part
<1>9. ASSUME NEW x \in Conns, Finish(x) PROVE Part(c, z)'
  <2>1. /\ pc[x] = "draining" /\ pc'[x] = "closed"
        /\ \A d \in Conns : d # x => /\ pc'[d] = pc[d] /\ view'[d] = view[d]
                                     /\ queue'[d] = queue[d] /\ missed'[d] = missed[d]
        /\ UNCHANGED <<peers, targets>>
    BY <1>9 DEF Finish, TypeOK
  <2>2. pc'[c] \in Voice => c # x
    BY <2>1 DEF Voice
  <2>3. Leaving(z, c) => Leaving(z, c)'
    BY <2>1 DEF Leaving, InRoom
  <2>4. c # x => Told(c)' = Told(c)
    BY <2>1 DEF Told
  <2>. QED BY <1>0, <2>1, <2>2, <2>3, <2>4, PartKept DEF Knows, Queued
<1>10. ASSUME NEW x \in Conns, WriterSends(x) PROVE Part(c, z)'
  <2>1. /\ writer[x] = "running" /\ view'[x] = Learn(view[x], Head(queue[x]))
        /\ \A d \in Conns : d # x => view'[d] = view[d] /\ queue'[d] = queue[d]
        /\ queue[x] # <<>> /\ queue'[x] = Tail(queue[x])
        /\ UNCHANGED <<pc, peers, targets, missed>>
    BY <1>10 DEF WriterSends, TypeOK
  <2>2. Leaving(z, c) => Leaving(z, c)'
    BY <2>1 DEF Leaving
  <2>3. CASE c # x
    <3>1. Told(c)' = Told(c)
      BY <2>1, <2>3 DEF Told
    <3>. QED BY <1>0, <2>1, <2>2, <2>3, <3>1, PartKept DEF Knows, Queued
  <2>4. CASE c = x
    <3> DEFINE h == Head(queue[c])
               joined == [type |-> "peer-joined", from |-> z]
               left == [type |-> "peer-left", from |-> z]
    <3>1. /\ h \in Message
          /\ \A m : Holds(queue[c], m) <=> Holds(queue'[c], m) \/ m = h
          /\ \A m : Holds(queue'[c], m) <=> Holds(queue[c], m)'
      <4>1. queue[c] \in Seq(Message) /\ queue[c] # <<>> /\ queue'[c] = Tail(queue[c])
        BY <1>0, <2>1, <2>4
      <4>2. h \in Message
        BY <4>1
      <4>3. \A m : Holds(queue[c], m) <=> Holds(Tail(queue[c]), m) \/ m = h
        BY <4>1, TailHolds
      <4>4. \A m : Holds(queue'[c], m) <=> Holds(queue[c], m)'
        BY DEF Holds
      <4>. QED BY <4>1, <4>2, <4>3, <4>4
    <3>2. Told(c) = view[c] /\ Told(c)' = Learn(view[c], h)
      BY <2>1, <2>4 DEF Stagewise, Told
    <3>3. h.type = "peer-left" => ~ Holds(queue'[c], [type |-> "peer-joined", from |-> h.from])
      BY <1>0, <2>1, <2>4, TailJoins DEF Ordered
    <3>4. CASE h = left
      <4>1. h.type = "peer-left" /\ h.from = z
        BY <3>4
      <4>2. z \notin Told(c)'
        BY <3>2, <4>1 DEF Learn
      <4>3. ~ Queued(c, "peer-joined", z)'
        BY <3>1, <3>3, <4>1 DEF Queued
      <4>. QED BY <4>2, <4>3 DEF Part, Knows
    <3>5. CASE h # left
      <4>1. Queued(c, "peer-left", z) => Queued(c, "peer-left", z)'
        BY <3>1, <3>5 DEF Queued
      <4>2. z \in Told(c)' => z \in Told(c) \/ h = joined
        BY <3>1, <3>2 DEF Learn, Message
      <4>3. Knows(c, z)' => Knows(c, z)
        BY <3>1, <4>2 DEF Knows, Queued
      <4>. QED BY <1>0, <2>1, <2>2, <4>1, <4>3, PartKept
    <3>. QED BY <3>4, <3>5
  <2>. QED BY <2>3, <2>4
<1>11. CASE UNCHANGED vars
  BY <1>0, <1>11 DEF vars, Part, Knows, Leaving, Queued, Told
<1>. QED
  BY <1>1, <1>2, <1>3, <1>4, <1>5, <1>6, <1>7, <1>8, <1>9, <1>10, <1>11
  DEF Next, Proceed, Write, ClientActs

LEMMA EmptyQueue ==
  ASSUME NEW c, Settled(c)
  PROVE  /\ Told(c) = view[c] /\ pc[c] \in Voice /\ Served(c)
         /\ \A type, z : ~ Queued(c, type, z)
BY DEF Settled, Told, Voice, Served, Queued, Holds

\* The join's snapshot and the notices leave nobody out (join and notifyPeers, hub.go:232-286):
\* two members that have read everything know each other, unless a queue was full.
THEOREM NobodyIsInvisible == Spec => []NoInvisiblePeers
<1>1. ASSUME IInv PROVE NoInvisiblePeers
  <2> SUFFICES ASSUME NEW c \in Conns, NEW p \in Conns, c # p, RoomOf[c] = RoomOf[p],
                      Settled(c), Settled(p)
               PROVE  p \in view[c] \cup missed[c]
    BY DEF NoInvisiblePeers
  <2>1. c \in Reach(p)
    BY <1>1, MembersAreServed DEF IInv, Reach, Settled, InRoom
  <2>2. Heard(c, p) \/ Owes(p, c)
    BY <1>1, <2>1, EmptyQueue DEF IInv, Announced
  <2>3. ~ Owes(p, c)
    BY DEF Settled, Owes
  <2>. QED BY <2>2, <2>3, EmptyQueue DEF Heard
<1>. QED BY <1>1, InductiveInvariant, PTL

\* Departures reach whoever believes in the one that left (leave, hub.go:250-278): a member
\* that has read everything believes in nobody whose departure was already announced.
THEOREM NobodyIsAGhost == Spec => []NoGhostPeers
<1>1. Init => Ordered /\ Parting
  BY DEF Init, Ordered, JoinsFirst, Parting, Part, Voice
<1>2. IInv /\ Apart /\ Ordered /\ Parting /\ [Next]_vars => (Apart /\ Ordered /\ Parting)'
  BY ApartStep, OrderedStep, PartingStep DEF IInv
<1>3. ASSUME TypeOK, Parting PROVE NoGhostPeers
  <2> SUFFICES ASSUME NEW c \in Conns, Settled(c), NEW p \in view[c] \ missed[c]
               PROVE  \/ pc[p] \in InRoom \cup {"left"}
                      \/ pc[p] = "notifyLeft" /\ c \in targets[p]
    BY DEF NoGhostPeers
  <2>1. CASE p = c
    BY <2>1 DEF Settled, InRoom
  <2>2. CASE p # c
    <3>1. p \in Conns /\ Part(c, p)
      BY <1>3, <2>2 DEF Parting, TypeOK
    <3>. QED BY <3>1, EmptyQueue DEF Part, Knows, Leaving
  <2>. QED BY <2>1, <2>2
<1>4. IInv /\ Parting => NoGhostPeers
  BY <1>3 DEF IInv
<1>. QED BY <1>1, <1>2, <1>4, ApartInit, InductiveInvariant, PTL DEF Spec
-----------------------------------------------------------------------------
(***************************************************************************)
(* done and the writing goroutine.                                         *)
(***************************************************************************)

\* serveWebSocket, hub.go:145-175: done is closed for whoever started a writer and has
\* announced its departure, for all of those and nobody else.  So the wait for writeDone ends: the
\* writer may quit; no writer quits on a client that is still served; and a notice or a signal finds a
\* target gone only after that target was taken out of its room.
DoneMarksTheEnd ==
  \A c \in Conns : done[c] <=> writer[c] # "none" /\ pc[c] \in {"draining", "closed"}

THEOREM DoneIsTheEnd == Spec => []DoneMarksTheEnd
<1>1. Init => DoneMarksTheEnd
  BY DEF Init, DoneMarksTheEnd
<1>2. ASSUME TypeOK, DoneMarksTheEnd, NEW c \in Conns, Proceed(c) \/ Write(c) \/ ClientActs(c)
      PROVE  DoneMarksTheEnd'
  <2> USE DEF TypeOK, DoneMarksTheEnd, Goto, server, sockets
  <2>1. CASE WriteWelcome(c) \/ WelcomeFails(c) \/ Announce(c)
    BY <1>2, <2>1 DEF WriteWelcome, WelcomeFails, Announce
  <2>2. CASE StartReading(c)
    BY <1>2, <2>2 DEF StartReading
  <2>3. CASE \E t \in Conns : NotifyOne(c, t)
    BY <1>2, <2>3 DEF NotifyOne
  <2>4. CASE RoutePosts(c) \/ RouteFails(c) \/ ReadFails(c)
    BY <1>2, <2>4 DEF RoutePosts, RouteFails, ReadFails
  <2>5. CASE Leave(c) \/ AnnounceLeft(c)
    BY <1>2, <2>5 DEF Leave, AnnounceLeft
  <2>6. CASE CloseDone(c)
    BY <1>2, <2>6 DEF CloseDone
  <2>7. CASE Finish(c)
    BY <1>2, <2>7 DEF Finish
  <2>8. CASE Write(c)
    BY <1>2, <2>8 DEF Write, WriterSends, WriterFails, WriterQuits
  <2>9. CASE ClientActs(c)
    BY <1>2, <2>9 DEF ClientActs, Join, JoinRefused, SocketCloses, ReadRejected, ReadSignal
  <2>. QED BY <1>2, <2>1, <2>2, <2>3, <2>4, <2>5, <2>6, <2>7, <2>8, <2>9 DEF Proceed
<1>3. TypeOK /\ DoneMarksTheEnd /\ [Next]_vars => DoneMarksTheEnd'
  BY <1>2 DEF Next, vars, DoneMarksTheEnd
<1>. QED BY <1>1, <1>3, SignalingTypes, PTL DEF Spec
=============================================================================
