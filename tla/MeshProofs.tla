----------------------------- MODULE MeshProofs -----------------------------
(***************************************************************************)
(* Proofs about Mesh, for any number of engines, ids and upsets: type      *)
(* correctness, that two engines never offer to each other, that an engine *)
(* lists nobody it has no connection to, and that two engines that have    *)
(* handled their mail have agreed, and that no name is lost between two    *)
(* that are connected.                                                     *)
(***************************************************************************)
EXTENDS Mesh, TLAPS, SequenceTheorems

-----------------------------------------------------------------------------
(* The inductive invariant.                                                *)

\* What a client believes of its own session is so, and a client without one has no
\* connections.
OwnSession ==
  \A c \in Clients :
    /\ signalID[c] = None \/ signalID[c] = sock[c]
    /\ sock[c] # None => owner[sock[c]] = c
    /\ sock[c] = None => \A i \in Ids : peers[c][i] = NoPeer

\* A welcome gives its session the session's own id.
OwnWelcome ==
  \A i \in Ids : \A k \in 1..Len(mail[i]) : mail[i][k].type = "welcome" => mail[i][k].from = i

\* Names travel between sessions that were drawn, and are known of such sessions only.
NamesAreOwned ==
  /\ \A p \in hello : owner[p[2]] # None
  /\ \A c \in Clients, i \in Ids : peers[c][i].known => owner[i] # None

\* An offer is out only to an id below the client's own.
OffersDescend ==
  \A c \in Clients, i \in Ids :
    peers[c][i].state = "offered" => signalID[c] # None /\ signalID[c] > i

IInv == TypeOK /\ OwnSession /\ OwnWelcome /\ NamesAreOwned /\ OffersDescend /\ ListedAreConnected

-----------------------------------------------------------------------------
(* Facts about peers and mail.                                             *)

LEMMA NoPeerIsPeer == NoPeer \in Peer /\ NoPeer.state = "none" /\ NoPeer.known = FALSE
BY DEF NoPeer, Peer

\* ensurePeer, and the description that follows it, keep what is known of the other end.
LEMMA EnsuredIsPeer ==
  ASSUME NEW p \in Peer
  PROVE  /\ Ensured(p) \in Peer /\ Ensured(p).known = p.known
         /\ p.state # "offered" => Ensured(p).state # "offered"
         /\ \A s \in {"offered", "agreed"} :
              /\ [Ensured(p) EXCEPT !.state = s] \in Peer
              /\ [Ensured(p) EXCEPT !.state = s].state = s
              /\ [Ensured(p) EXCEPT !.state = s].known = p.known
BY DEF Ensured, NoPeer, Peer

\* A notice without ids is a signal.
LEMMA NoteIsSignal ==
  ASSUME NEW i \in Ids, NEW type \in {"welcome", "peer-joined", "peer-left", "offer", "answer"}
  PROVE  Note(type, i) \in Signal /\ Note(type, i).type = type /\ Note(type, i).from = i
BY DEF Note, Signal

\* Posting to a box appends to some of it a message that is no welcome.
LEMMA PostedBox ==
  ASSUME NEW box \in [Ids -> Seq(Signal)], NEW to, NEW m \in Signal, m.type # "welcome",
         NEW i \in Ids
  PROVE  /\ Posted(box, to, m)[i] \in Seq(Signal)
         /\ Posted(box, to, m) \in [Ids -> Seq(Signal)]
         /\ \A k \in 1..Len(Posted(box, to, m)[i]) :
              Posted(box, to, m)[i][k].type = "welcome"
                => k \in 1..Len(box[i]) /\ Posted(box, to, m)[i][k] = box[i][k]
<1>1. \A j \in Ids : Append(box[j], m) \in Seq(Signal)
  BY AppendProperties
<1>2. Posted(box, to, m) \in [Ids -> Seq(Signal)]
  BY <1>1 DEF Posted
<1>3. \/ Posted(box, to, m)[i] = box[i]
      \/ Posted(box, to, m)[i] = Append(box[i], m)
  BY DEF Posted
<1>4. /\ Len(Append(box[i], m)) = Len(box[i]) + 1
      /\ \A k \in 1..Len(box[i]) : Append(box[i], m)[k] = box[i][k]
      /\ Append(box[i], m)[Len(box[i]) + 1] = m
  BY AppendProperties
<1>5. Len(box[i]) \in Nat
  BY LenProperties
<1>6. ASSUME NEW k \in 1..Len(Posted(box, to, m)[i]),
             Posted(box, to, m)[i][k].type = "welcome"
      PROVE  k \in 1..Len(box[i]) /\ Posted(box, to, m)[i][k] = box[i][k]
  <2>1. CASE Posted(box, to, m)[i] = box[i]
    BY <2>1
  <2>2. CASE Posted(box, to, m)[i] = Append(box[i], m)
    <3>1. k # Len(box[i]) + 1
      BY <1>4, <1>6, <2>2
    <3>2. k \in 1..Len(box[i])
      BY <3>1, <2>2, <1>4, <1>5
    <3>. QED BY <3>2, <2>2, <1>4
  <2>. QED BY <1>3, <2>1, <2>2
<1>. QED BY <1>2, <1>6

\* A box with mail for c, and what is left of it once c has taken the oldest.
LEMMA HandledBox ==
  ASSUME TypeOK, NEW c \in Clients, Waiting(c)
  PROVE  /\ sock[c] \in Ids
         /\ Incoming(c) \in Signal
         /\ Incoming(c) = mail[sock[c]][1] /\ 1 \in 1..Len(mail[sock[c]])
         /\ Handled(c) \in [Ids -> Seq(Signal)]
         /\ \A i \in Ids : \A k \in 1..Len(Handled(c)[i]) :
              \E j \in 1..Len(mail[i]) : Handled(c)[i][k] = mail[i][j]
<1>1. sock[c] \in Ids /\ mail[sock[c]] \in Seq(Signal) /\ mail[sock[c]] # <<>>
  BY DEF TypeOK, Waiting
<1>2. /\ Head(mail[sock[c]]) = mail[sock[c]][1]
      /\ Head(mail[sock[c]]) \in Signal
      /\ Tail(mail[sock[c]]) \in Seq(Signal)
      /\ Len(mail[sock[c]]) \in Nat \ {0}
      /\ Len(Tail(mail[sock[c]])) = Len(mail[sock[c]]) - 1
      /\ \A k \in 1..(Len(mail[sock[c]]) - 1) : Tail(mail[sock[c]])[k] = mail[sock[c]][k + 1]
  BY <1>1, HeadTailProperties, EmptySeq, LenProperties
<1>3. Handled(c) \in [Ids -> Seq(Signal)]
  BY <1>1, <1>2 DEF Handled, TypeOK
<1>4. ASSUME NEW i \in Ids, NEW k \in 1..Len(Handled(c)[i])
      PROVE  \E j \in 1..Len(mail[i]) : Handled(c)[i][k] = mail[i][j]
  <2>1. CASE i = sock[c]
    <3>1. Handled(c)[i] = Tail(mail[i])
      BY <2>1, <1>1 DEF Handled, TypeOK
    <3>2. k \in 1..(Len(mail[i]) - 1) /\ k + 1 \in 1..Len(mail[i])
      BY <3>1, <2>1, <1>2
    <3>. QED BY <3>1, <3>2, <2>1, <1>2
  <2>2. CASE i # sock[c]
    <3>1. Handled(c)[i] = mail[i]
      BY <2>2, <1>1 DEF Handled, TypeOK
    <3>. QED BY <3>1
  <2>. QED BY <2>1, <2>2
<1>. QED BY <1>1, <1>2, <1>3, <1>4 DEF Incoming

\* What sendSignal does to mail and sockets.
LEMMA SendEffect ==
  ASSUME NEW c \in Clients, sock[c] \in Ids \cup {None}, up \subseteq room, up \subseteq Ids, NEW to,
         NEW type \in {"offer", "answer"}, NEW box \in [Ids -> Seq(Signal)],
         SendSignal(c, to, type, box)
  PROVE  /\ mail' \in [Ids -> Seq(Signal)]
         /\ up' \subseteq up
         /\ \A i \in Ids : \A k \in 1..Len(mail'[i]) :
              mail'[i][k].type = "welcome" => k \in 1..Len(box[i]) /\ mail'[i][k] = box[i][k]
<1>1. CASE sock[c] \notin up
  BY <1>1 DEF SendSignal
<1>2. CASE sock[c] \in up
  <2>1. PICK routed \in SUBSET (to \cap room) :
          /\ mail' = Posted(box, routed, Note(type, sock[c]))
          /\ up' = IF to \subseteq room THEN up ELSE up \ {sock[c]}
    BY <1>2 DEF SendSignal
  <2>2. Note(type, sock[c]) \in Signal /\ Note(type, sock[c]).type # "welcome"
    BY <1>2, NoteIsSignal
  <2>3. ASSUME NEW i \in Ids
        PROVE  /\ mail' \in [Ids -> Seq(Signal)]
               /\ \A k \in 1..Len(mail'[i]) : mail'[i][k].type = "welcome"
                    => k \in 1..Len(box[i]) /\ mail'[i][k] = box[i][k]
    BY <2>1, <2>2, PostedBox
  <2>4. mail' \in [Ids -> Seq(Signal)]
    <3>1. CASE Ids = {}
      BY <3>1, <1>2
    <3>. QED BY <2>3, <3>1
  <2>. QED BY <2>1, <2>3, <2>4
<1>. QED BY <1>1, <1>2

-----------------------------------------------------------------------------
(* What the shared parts of the actions do to connections and neighbours.  *)

LEMMA RemoveEffect ==
  ASSUME TypeOK, NEW c \in Clients, NEW gone \in SUBSET Ids, RemovePeers(c, gone)
  PROVE  /\ peers' \in [Clients -> [Ids -> Peer]]
         /\ listed' \in [Clients -> SUBSET Clients]
         /\ \A d \in Clients, i \in Ids :
              peers'[d][i] = IF d = c /\ i \in gone THEN NoPeer ELSE peers[d][i]
         /\ \A d \in Clients :
              listed'[d] = IF d = c THEN listed[c] \ Named(c, gone) ELSE listed[d]
BY NoPeerIsPeer DEF RemovePeers, TypeOK

LEMMA ConnectEffect ==
  ASSUME TypeOK, NEW c \in Clients, Waiting(c), NEW ours \in Ids \cup {None},
         NEW those \in SUBSET Ids, ConnectPeers(c, ours, those)
  PROVE  /\ peers' \in [Clients -> [Ids -> Peer]]
         /\ \A d \in Clients \ {c} : peers'[d] = peers[d]
         /\ \A i \in Ids : /\ peers'[c][i].known = peers[c][i].known
                           /\ peers'[c][i].state = "offered"
                                => peers[c][i].state = "offered" \/ (ours # None /\ ours > i)
         /\ mail' \in [Ids -> Seq(Signal)]
         /\ up' \subseteq up
         /\ \A i \in Ids : \A k \in 1..Len(mail'[i]) : mail'[i][k].type = "welcome"
              => k \in 1..Len(Handled(c)[i]) /\ mail'[i][k] = Handled(c)[i][k]
<1> DEFINE others == IF ours = None THEN {} ELSE those \ {ours}
           offers == {i \in others : Initiates(ours, i)}
           Now(i) == IF i \in offers THEN [Ensured(peers[c][i]) EXCEPT !.state = "offered"]
                     ELSE IF i \in others THEN Ensured(peers[c][i]) ELSE peers[c][i]
<1>1. \A i \in Ids : peers[c][i] \in Peer
  BY DEF TypeOK
<1>2. \A i \in Ids :
        /\ Now(i) \in Peer /\ Now(i).known = peers[c][i].known
        /\ Now(i).state = "offered" => peers[c][i].state = "offered" \/ i \in offers
  BY <1>1, EnsuredIsPeer
<1>3. \A i \in offers : ours # None /\ ours > i
  BY DEF Initiates
<1>4. /\ peers' = [peers EXCEPT ![c] = [i \in Ids |-> Now(i)]]
      /\ SendSignal(c, offers, "offer", Handled(c))
  BY DEF ConnectPeers
<1> HIDE DEF Now, offers
<1>5. /\ \A d \in Clients \ {c} : peers'[d] = peers[d]
      /\ \A i \in Ids : peers'[c][i] = Now(i)
      /\ peers' \in [Clients -> [Ids -> Peer]]
  BY <1>2, <1>4 DEF TypeOK
<1>6. /\ mail' \in [Ids -> Seq(Signal)] /\ up' \subseteq up
      /\ \A i \in Ids : \A k \in 1..Len(mail'[i]) : mail'[i][k].type = "welcome"
           => k \in 1..Len(Handled(c)[i]) /\ mail'[i][k] = Handled(c)[i][k]
  <2>1. up \subseteq room /\ up \subseteq Ids /\ sock[c] \in Ids \cup {None}
    BY DEF TypeOK
  <2>. QED BY <2>1, <1>4, HandledBox, SendEffect
<1>. QED BY <1>2, <1>3, <1>5, <1>6

\* Mail whose welcomes were there before keeps OwnWelcome.
LEMMA WelcomesKept ==
  ASSUME OwnWelcome,
         \A i \in Ids : \A k \in 1..Len(mail'[i]) : mail'[i][k].type = "welcome"
           => \E j \in 1..Len(mail[i]) : mail'[i][k] = mail[i][j]
  PROVE  OwnWelcome'
<1>1. ASSUME NEW i \in Ids, NEW k \in 1..Len(mail'[i]), mail'[i][k].type = "welcome"
      PROVE  mail'[i][k].from = i
  <2>1. PICK j \in 1..Len(mail[i]) : mail'[i][k] = mail[i][j]
    BY <1>1
  <2>. QED BY <1>1, <2>1 DEF OwnWelcome
<1>. QED BY <1>1 DEF OwnWelcome

\* A client lists nobody new, and keeps the names of those it lists.
LEMMA ListedKept ==
  ASSUME ListedAreConnected, NEW c \in Clients,
         listed'[c] \subseteq listed[c], late[c] \subseteq late'[c],
         \A i \in Ids : peers[c][i].known
           => owner[i] \notin listed'[c] \/ (peers'[c][i].known /\ owner'[i] = owner[i])
  PROVE  listed'[c] \subseteq Named(c, Ids)' \cup late'[c]
<1>1. ASSUME NEW d \in listed'[c], d \notin late'[c] PROVE d \in Named(c, Ids)'
  <2>1. d \in Named(c, Ids)
    BY <1>1 DEF ListedAreConnected
  <2>2. PICK i \in Ids : peers[c][i].known /\ owner[i] = d
    BY <2>1 DEF Named
  <2>. QED BY <2>2, <1>1 DEF Named
<1>. QED BY <1>1

\* The same when no connection is removed.
LEMMA ListedUnchanged ==
  ASSUME ListedAreConnected, NamesAreOwned, UNCHANGED <<listed, late>>,
         \A i \in Ids : owner[i] # None => owner'[i] = owner[i],
         \A c \in Clients, i \in Ids : peers[c][i].known => peers'[c][i].known
  PROVE  ListedAreConnected'
<1>1. ASSUME NEW c \in Clients PROVE listed'[c] \subseteq Named(c, Ids)' \cup late'[c]
  <2>1. \A i \in Ids : peers[c][i].known => peers'[c][i].known /\ owner'[i] = owner[i]
    BY DEF NamesAreOwned
  <2>. QED BY <2>1, ListedKept
<1>. QED BY <1>1 DEF ListedAreConnected

-----------------------------------------------------------------------------
(* Every action keeps the invariant: sessions.                             *)

LEMMA ConnectStep == ASSUME IInv, NEW c \in Clients, Connect(c) PROVE IInv'
<1>1. PICK i \in Ids :
        /\ owner[i] = None
        /\ owner' = [owner EXCEPT ![i] = c]
        /\ sock' = [sock EXCEPT ![c] = i]
        /\ mail' = [Posted(mail, room, Note("peer-joined", i)) EXCEPT
                      ![i] = <<[type |-> "welcome", from |-> i, peers |-> room]>>]
        /\ room' = room \cup {i} /\ up' = up \cup {i}
  BY DEF Connect
<1>2. /\ sock[c] = None
      /\ UNCHANGED <<running, signalID, peers, hello, listed, late, closing, broken, upsets>>
  BY DEF Connect
<1> DEFINE box == Posted(mail, room, Note("peer-joined", i))
           welcome == [type |-> "welcome", from |-> i, peers |-> room]
<1>3. welcome \in Signal /\ welcome.from = i /\ <<welcome>> \in Seq(Signal)
  BY DEF IInv, TypeOK, Signal
<1>4. /\ box \in [Ids -> Seq(Signal)]
      /\ \A j \in Ids : \A k \in 1..Len(box[j]) : box[j][k].type = "welcome"
           => k \in 1..Len(mail[j]) /\ box[j][k] = mail[j][k]
  <2>1. Note("peer-joined", i) \in Signal /\ Note("peer-joined", i).type # "welcome"
    BY NoteIsSignal
  <2>2. mail \in [Ids -> Seq(Signal)]
    BY DEF IInv, TypeOK
  <2>. QED BY <2>1, <2>2, PostedBox
<1>5. mail' = [box EXCEPT ![i] = <<welcome>>]
  BY <1>1
<1> HIDE DEF box, welcome
<1>6. TypeOK'
  <2>1. mail' \in [Ids -> Seq(Signal)]
    BY <1>3, <1>4, <1>5
  <2>. QED BY <1>1, <1>2, <2>1 DEF IInv, TypeOK
<1>7. OwnSession'
  BY <1>1, <1>2, IdsAssumption, ClientsAssumption DEF IInv, TypeOK, OwnSession
<1>8. OwnWelcome'
  <2>1. ASSUME NEW j \in Ids, NEW k \in 1..Len(mail'[j]), mail'[j][k].type = "welcome"
        PROVE  mail'[j][k].from = j
    <3>1. CASE j = i
      <4>1. mail'[j] = <<welcome>>
        BY <3>1, <1>4, <1>5
      <4>. QED BY <4>1, <3>1, <1>3, <2>1
    <3>2. CASE j # i
      <4>1. mail'[j] = box[j]
        BY <3>2, <1>4, <1>5
      <4>. QED BY <4>1, <2>1, <1>4 DEF IInv, OwnWelcome
    <3>. QED BY <3>1, <3>2
  <2>. QED BY <2>1 DEF OwnWelcome
<1>9. NamesAreOwned'
  <2>1. \A j \in Ids : owner[j] # None => owner'[j] # None
    BY <1>1, ClientsAssumption DEF IInv, TypeOK
  <2>2. \A p \in hello : p[2] \in Ids
    BY DEF IInv, TypeOK
  <2>. QED BY <1>2, <2>1, <2>2 DEF IInv, NamesAreOwned
<1>10. OffersDescend'
  BY <1>2 DEF IInv, OffersDescend
<1>11. ListedAreConnected'
  <2>1. \A j \in Ids : owner[j] # None => owner'[j] = owner[j]
    BY <1>1 DEF IInv, TypeOK
  <2>. QED BY <1>2, <2>1, ListedUnchanged DEF IInv
<1>. QED BY <1>6, <1>7, <1>8, <1>9, <1>10, <1>11 DEF IInv

\* Steps of the rendezvous touch only its own state.
LEMMA RendezvousStep ==
  ASSUME IInv, TypeOK', UNCHANGED <<owner, sock, signalID, peers, hello, listed, late>>,
         \A i \in Ids : \A k \in 1..Len(mail'[i]) : mail'[i][k].type = "welcome"
           => \E j \in 1..Len(mail[i]) : mail'[i][k] = mail[i][j]
  PROVE  IInv'
<1>1. OwnWelcome'
  BY WelcomesKept DEF IInv
<1>2. OwnSession' /\ NamesAreOwned' /\ OffersDescend'
  BY DEF IInv, OwnSession, NamesAreOwned, OffersDescend
<1>3. ListedAreConnected'
  BY ListedUnchanged DEF IInv
<1>. QED BY <1>1, <1>2, <1>3 DEF IInv

LEMMA DropStep == ASSUME IInv, NEW i \in Ids, Drop(i) PROVE IInv'
<1>1. TypeOK'
  BY UpsetsAssumption DEF IInv, TypeOK, Drop
<1>2. UNCHANGED <<mail, owner, sock, signalID, peers, hello, listed, late>>
  BY DEF Drop
<1>. QED BY <1>1, <1>2, RendezvousStep

LEMMA LeaveStep == ASSUME IInv, NEW i \in Ids, Leave(i) PROVE IInv'
<1>1. Note("peer-left", i) \in Signal /\ Note("peer-left", i).type # "welcome"
  BY NoteIsSignal
<1>2. mail \in [Ids -> Seq(Signal)] /\ mail' = Posted(mail, up, Note("peer-left", i))
  BY DEF IInv, TypeOK, Leave
<1>3. /\ mail' \in [Ids -> Seq(Signal)]
      /\ \A j \in Ids : \A k \in 1..Len(mail'[j]) : mail'[j][k].type = "welcome"
           => k \in 1..Len(mail[j]) /\ mail'[j][k] = mail[j][k]
  BY <1>1, <1>2, PostedBox
<1>4. TypeOK'
  BY <1>3 DEF IInv, TypeOK, Leave
<1>5. UNCHANGED <<owner, sock, signalID, peers, hello, listed, late>>
  BY DEF Leave
<1>. QED BY <1>3, <1>4, <1>5, RendezvousStep

LEMMA SessionEndsStep == ASSUME IInv, NEW c \in Clients, SessionEnds(c) PROVE IInv'
<1>1. /\ sock[c] \in Ids
      /\ sock' = [sock EXCEPT ![c] = None]
      /\ signalID' = [signalID EXCEPT ![c] = None]
      /\ mail' = [mail EXCEPT ![sock[c]] = <<>>]
      /\ RemovePeers(c, Ids)
      /\ closing' = [closing EXCEPT ![c] = @ \cup (Held(c) \cap room)]
      /\ UNCHANGED <<room, up, owner, running, hello, late, broken, upsets>>
  BY DEF IInv, TypeOK, SessionEnds
<1>2. /\ peers' \in [Clients -> [Ids -> Peer]]
      /\ listed' \in [Clients -> SUBSET Clients]
      /\ \A d \in Clients, i \in Ids : peers'[d][i] = IF d = c THEN NoPeer ELSE peers[d][i]
      /\ \A d \in Clients : listed'[d] = IF d = c THEN listed[c] \ Named(c, Ids) ELSE listed[d]
  <2>1. TypeOK /\ Ids \in SUBSET Ids /\ RemovePeers(c, Ids)
    BY <1>1 DEF IInv
  <2>2. /\ peers' \in [Clients -> [Ids -> Peer]]
        /\ listed' \in [Clients -> SUBSET Clients]
        /\ \A d \in Clients, i \in Ids :
             peers'[d][i] = IF d = c /\ i \in Ids THEN NoPeer ELSE peers[d][i]
        /\ \A d \in Clients :
             listed'[d] = IF d = c THEN listed[c] \ Named(c, Ids) ELSE listed[d]
    BY <2>1, RemoveEffect, Zenon
  <2>. QED BY <2>2
<1>3. TypeOK'
  <2>1. <<>> \in Seq(Signal)
    OBVIOUS
  <2>2. mail' \in [Ids -> Seq(Signal)]
    BY <1>1, <2>1 DEF IInv, TypeOK
  <2>3. closing' \in [Clients -> SUBSET Ids]
    BY <1>1 DEF IInv, TypeOK, Held
  <2>. QED BY <1>1, <1>2, <2>2, <2>3 DEF IInv, TypeOK
<1>4. OwnSession'
  BY <1>1, <1>2 DEF IInv, TypeOK, OwnSession
<1>5. OwnWelcome'
  <2>1. ASSUME NEW i \in Ids, NEW k \in 1..Len(mail'[i])
        PROVE  mail'[i] = mail[i] /\ k \in 1..Len(mail[i])
    <3>1. mail'[i] = <<>> \/ mail'[i] = mail[i]
      BY <1>1 DEF IInv, TypeOK
    <3>2. Len(<<>>) = 0
      OBVIOUS
    <3>. QED BY <3>1, <3>2, <2>1
  <2>. QED BY <2>1, WelcomesKept DEF IInv
<1>6. NamesAreOwned'
  BY <1>1, <1>2, NoPeerIsPeer DEF IInv, NamesAreOwned
<1>7. OffersDescend'
  <2>1. \A d \in Clients \ {c} : signalID'[d] = signalID[d]
    BY <1>1 DEF IInv, TypeOK
  <2>. QED BY <1>2, <2>1, NoPeerIsPeer DEF IInv, OffersDescend
<1>8. ListedAreConnected'
  <2>1. ASSUME NEW d \in Clients PROVE listed'[d] \subseteq Named(d, Ids)' \cup late'[d]
    <3>1. CASE d = c
      BY <3>1, <1>1, <1>2 DEF IInv, ListedAreConnected
    <3>2. CASE d # c
      <4>1. \A i \in Ids : peers'[d][i] = peers[d][i] /\ owner'[i] = owner[i]
        BY <3>2, <1>1, <1>2
      <4>. QED BY <3>2, <4>1, <1>1, <1>2, ListedKept DEF IInv
    <3>. QED BY <3>1, <3>2
  <2>. QED BY <2>1 DEF ListedAreConnected
<1>. QED BY <1>3, <1>4, <1>5, <1>6, <1>7, <1>8 DEF IInv

LEMMA StopStep == ASSUME IInv, NEW c \in Clients, Stop(c) PROVE IInv'
<1>1. /\ running' = [running EXCEPT ![c] = FALSE]
      /\ up' = up \ {sock[c]}
      /\ mail' = [i \in Ids |-> IF i = sock[c] THEN <<>> ELSE mail[i]]
      /\ sock' = [sock EXCEPT ![c] = None]
      /\ signalID' = [signalID EXCEPT ![c] = None]
      /\ peers' = [peers EXCEPT ![c] = [i \in Ids |-> NoPeer]]
      /\ listed' = [listed EXCEPT ![c] = {}]
      /\ late' = [late EXCEPT ![c] = {}]
      /\ upsets < MaxUpsets /\ upsets' = upsets + 1
      /\ UNCHANGED <<room, owner, hello, closing, broken>>
  BY DEF Stop
<1>2. /\ peers' \in [Clients -> [Ids -> Peer]]
      /\ \A d \in Clients, i \in Ids : peers'[d][i] = IF d = c THEN NoPeer ELSE peers[d][i]
  BY <1>1, NoPeerIsPeer DEF IInv, TypeOK
<1>3. TypeOK'
  <2>1. <<>> \in Seq(Signal)
    OBVIOUS
  <2>2. mail' \in [Ids -> Seq(Signal)]
    BY <1>1, <2>1 DEF IInv, TypeOK
  <2>. QED BY <1>1, <1>2, <2>2, UpsetsAssumption DEF IInv, TypeOK
<1>4. OwnSession'
  BY <1>1, <1>2 DEF IInv, TypeOK, OwnSession
<1>5. OwnWelcome'
  <2>1. ASSUME NEW i \in Ids, NEW k \in 1..Len(mail'[i])
        PROVE  mail'[i] = mail[i] /\ k \in 1..Len(mail[i])
    <3>1. mail'[i] = <<>> \/ mail'[i] = mail[i]
      BY <1>1 DEF IInv, TypeOK
    <3>2. Len(<<>>) = 0
      OBVIOUS
    <3>. QED BY <3>1, <3>2, <2>1
  <2>. QED BY <2>1, WelcomesKept DEF IInv
<1>6. NamesAreOwned'
  BY <1>1, <1>2, NoPeerIsPeer DEF IInv, NamesAreOwned
<1>7. OffersDescend'
  <2>1. \A d \in Clients \ {c} : signalID'[d] = signalID[d]
    BY <1>1 DEF IInv, TypeOK
  <2>. QED BY <1>2, <2>1, NoPeerIsPeer DEF IInv, OffersDescend
<1>8. ListedAreConnected'
  <2>1. ASSUME NEW d \in Clients PROVE listed'[d] \subseteq Named(d, Ids)' \cup late'[d]
    <3>1. CASE d = c
      BY <3>1, <1>1 DEF IInv, TypeOK
    <3>2. CASE d # c
      <4>1. \A i \in Ids : peers'[d][i] = peers[d][i] /\ owner'[i] = owner[i]
        BY <3>2, <1>1, <1>2
      <4>2. listed'[d] = listed[d] /\ late'[d] = late[d]
        BY <3>2, <1>1 DEF IInv, TypeOK
      <4>. QED BY <4>1, <4>2, ListedKept DEF IInv
    <3>. QED BY <3>1, <3>2
  <2>. QED BY <2>1 DEF ListedAreConnected
<1>. QED BY <1>3, <1>4, <1>5, <1>6, <1>7, <1>8 DEF IInv

-----------------------------------------------------------------------------
(* Every action keeps the invariant: signals.                              *)

\* What c takes from its mail leaves no welcome behind that was not there.
LEMMA WelcomesHandled ==
  ASSUME IInv, NEW c \in Clients, Waiting(c),
         \A i \in Ids : \A k \in 1..Len(mail'[i]) : mail'[i][k].type = "welcome"
           => k \in 1..Len(Handled(c)[i]) /\ mail'[i][k] = Handled(c)[i][k]
  PROVE  OwnWelcome'
<1>1. \A i \in Ids : \A k \in 1..Len(Handled(c)[i]) :
        \E j \in 1..Len(mail[i]) : Handled(c)[i][k] = mail[i][j]
  BY HandledBox DEF IInv
<1>2. \A i \in Ids : \A k \in 1..Len(mail'[i]) : mail'[i][k].type = "welcome"
        => \E j \in 1..Len(mail[i]) : mail'[i][k] = mail[i][j]
  BY <1>1
<1>. QED BY <1>2, WelcomesKept DEF IInv

\* connectPeer under the id that c has, or has just been given.
LEMMA ConnectPeersStep ==
  ASSUME IInv, NEW c \in Clients, Waiting(c), NEW ours \in Ids \cup {None},
         NEW those \in SUBSET Ids, ConnectPeers(c, ours, those),
         ours = None \/ ours = sock[c],
         signalID' = [signalID EXCEPT ![c] = ours],
         signalID[c] = None \/ signalID[c] = ours,
         UNCHANGED <<room, owner, running, sock, hello, listed, late, closing>>,
         broken' \subseteq SUBSET Ids, upsets' \in 0..MaxUpsets
  PROVE  IInv'
<1>1. /\ peers' \in [Clients -> [Ids -> Peer]]
      /\ \A d \in Clients \ {c} : peers'[d] = peers[d]
      /\ \A i \in Ids : /\ peers'[c][i].known = peers[c][i].known
                        /\ peers'[c][i].state = "offered"
                             => peers[c][i].state = "offered" \/ (ours # None /\ ours > i)
      /\ mail' \in [Ids -> Seq(Signal)]
      /\ up' \subseteq up
      /\ \A i \in Ids : \A k \in 1..Len(mail'[i]) : mail'[i][k].type = "welcome"
           => k \in 1..Len(Handled(c)[i]) /\ mail'[i][k] = Handled(c)[i][k]
  <2>1. TypeOK
    BY DEF IInv
  <2>. QED BY <2>1, ConnectEffect
<1>2. sock[c] \in Ids /\ sock[c] # None
  BY HandledBox, IdsAssumption DEF IInv
<1>3. TypeOK'
  BY <1>1 DEF IInv, TypeOK
<1>4. OwnSession'
  BY <1>1, <1>2 DEF IInv, TypeOK, OwnSession
<1>5. OwnWelcome'
  BY <1>1, WelcomesHandled
<1>6. \A d \in Clients, i \in Ids : peers'[d][i].known = peers[d][i].known
  BY <1>1
<1>7. NamesAreOwned'
  BY <1>6 DEF IInv, NamesAreOwned
<1>8. OffersDescend'
  <2>1. ASSUME NEW d \in Clients, NEW i \in Ids, peers'[d][i].state = "offered"
        PROVE  signalID'[d] # None /\ signalID'[d] > i
    <3>1. CASE d = c
      <4>1. signalID'[d] = ours
        BY <3>1 DEF IInv, TypeOK
      <4>2. CASE peers[c][i].state = "offered"
        BY <3>1, <4>1, <4>2 DEF IInv, OffersDescend
      <4>3. CASE ours # None /\ ours > i
        BY <4>1, <4>3
      <4>. QED BY <2>1, <3>1, <4>2, <4>3, <1>1
    <3>2. CASE d # c
      <4>1. signalID'[d] = signalID[d] /\ peers'[d] = peers[d]
        BY <3>2, <1>1 DEF IInv, TypeOK
      <4>. QED BY <4>1, <2>1 DEF IInv, OffersDescend
    <3>. QED BY <3>1, <3>2
  <2>. QED BY <2>1 DEF OffersDescend
<1>9. ListedAreConnected'
  BY <1>6, ListedUnchanged DEF IInv
<1>. QED BY <1>3, <1>4, <1>5, <1>7, <1>8, <1>9 DEF IInv

\* A loop over the peers that an error ends connects to some of them.
LEMMA ConnectSomeEffect ==
  ASSUME IInv, NEW c \in Clients, NEW ours \in Ids \cup {None}, NEW those \in SUBSET Ids,
         ConnectSome(c, ours, those)
  PROVE  /\ \E reached \in SUBSET those :
              /\ ConnectPeers(c, ours, reached)
              /\ broken' = broken \cup {{ours, i} : i \in those \ reached}
         /\ broken' \subseteq SUBSET Ids
         /\ upsets' \in 0..MaxUpsets
<1>1. PICK reached \in SUBSET those :
        /\ ours = None => reached = those
        /\ ConnectPeers(c, ours, reached)
        /\ broken' = broken \cup {{ours, i} : i \in those \ reached}
        /\ upsets' = upsets \/ (upsets < MaxUpsets /\ upsets' = upsets + 1)
  BY DEF ConnectSome
<1>2. broken' \subseteq SUBSET Ids
  <2>1. \A i \in those \ reached : {ours, i} \subseteq Ids
    BY <1>1
  <2>. QED BY <1>1, <2>1 DEF IInv, TypeOK
<1>3. upsets' \in 0..MaxUpsets
  BY <1>1, UpsetsAssumption DEF IInv, TypeOK
<1>. QED BY <1>1, <1>2, <1>3

LEMMA HandleWelcomeStep == ASSUME IInv, NEW c \in Clients, HandleWelcome(c) PROVE IInv'
<1>1. Waiting(c) /\ Incoming(c).type = "welcome"
  BY DEF HandleWelcome
<1>2. /\ sock[c] \in Ids /\ Incoming(c) \in Signal
      /\ Incoming(c) = mail[sock[c]][1] /\ 1 \in 1..Len(mail[sock[c]])
  BY <1>1, HandledBox DEF IInv
<1>3. Incoming(c).from = sock[c] /\ Incoming(c).peers \in SUBSET Ids
  BY <1>1, <1>2 DEF IInv, OwnWelcome, Signal
<1>4. signalID[c] = None \/ signalID[c] = sock[c]
  BY DEF IInv, OwnSession
<1>5. /\ ConnectSome(c, sock[c], Incoming(c).peers)
      /\ signalID' = [signalID EXCEPT ![c] = sock[c]]
      /\ UNCHANGED <<room, owner, running, sock, hello, listed, late, closing>>
  BY <1>3 DEF HandleWelcome
<1>6. /\ \E reached \in SUBSET Incoming(c).peers : ConnectPeers(c, sock[c], reached)
      /\ broken' \subseteq SUBSET Ids /\ upsets' \in 0..MaxUpsets
  BY <1>2, <1>3, <1>5, ConnectSomeEffect
<1>7. PICK reached \in SUBSET Ids : ConnectPeers(c, sock[c], reached)
  BY <1>3, <1>6
<1>. QED BY <1>1, <1>2, <1>4, <1>5, <1>6, <1>7, ConnectPeersStep

LEMMA HandleJoinedStep == ASSUME IInv, NEW c \in Clients, HandleJoined(c) PROVE IInv'
<1>1. Waiting(c)
  BY DEF HandleJoined
<1>2. {Incoming(c).from} \in SUBSET Ids
  BY <1>1, HandledBox DEF IInv, Signal
<1>3. signalID[c] \in Ids \cup {None} /\ (signalID[c] = None \/ signalID[c] = sock[c])
  BY DEF IInv, TypeOK, OwnSession
<1>4. /\ ConnectSome(c, signalID[c], {Incoming(c).from})
      /\ signalID' = [signalID EXCEPT ![c] = signalID[c]]
      /\ UNCHANGED <<room, owner, running, sock, hello, listed, late, closing>>
  BY DEF HandleJoined, IInv, TypeOK
<1>5. /\ \E reached \in SUBSET {Incoming(c).from} : ConnectPeers(c, signalID[c], reached)
      /\ broken' \subseteq SUBSET Ids /\ upsets' \in 0..MaxUpsets
  BY <1>2, <1>3, <1>4, ConnectSomeEffect
<1>6. PICK reached \in SUBSET Ids : ConnectPeers(c, signalID[c], reached)
  BY <1>2, <1>5
<1>. QED BY <1>1, <1>3, <1>4, <1>5, <1>6, ConnectPeersStep

\* A connection that goes takes its neighbour along.
LEMMA RemoveStep ==
  ASSUME IInv, NEW c \in Clients, NEW gone \in SUBSET Ids, RemovePeers(c, gone),
         UNCHANGED <<owner, sock, signalID, hello, late>>, TypeOK', OwnWelcome'
  PROVE  IInv'
<1>1. /\ \A d \in Clients, i \in Ids :
           peers'[d][i] = IF d = c /\ i \in gone THEN NoPeer ELSE peers[d][i]
      /\ \A d \in Clients :
           listed'[d] = IF d = c THEN listed[c] \ Named(c, gone) ELSE listed[d]
  <2>1. TypeOK
    BY DEF IInv
  <2>. QED BY <2>1, RemoveEffect, Zenon
<1>2. OwnSession' /\ NamesAreOwned' /\ OffersDescend'
  BY <1>1, NoPeerIsPeer DEF IInv, OwnSession, NamesAreOwned, OffersDescend
<1>3. ListedAreConnected'
  <2>1. ASSUME NEW d \in Clients PROVE listed'[d] \subseteq Named(d, Ids)' \cup late'[d]
    <3>1. ASSUME NEW i \in Ids, peers[d][i].known
          PROVE  owner[i] \notin listed'[d] \/ (peers'[d][i].known /\ owner'[i] = owner[i])
      <4>1. CASE d = c /\ i \in gone
        <5>1. owner[i] \in Named(c, gone)
          BY <3>1, <4>1 DEF Named
        <5>. QED BY <4>1, <5>1, <1>1
      <4>2. CASE ~ (d = c /\ i \in gone)
        BY <3>1, <4>2, <1>1
      <4>. QED BY <4>1, <4>2
    <3>2. listed'[d] \subseteq listed[d] /\ late[d] \subseteq late'[d]
      BY <1>1
    <3>. QED BY <3>1, <3>2, ListedKept DEF IInv
  <2>. QED BY <2>1 DEF ListedAreConnected
<1>. QED BY <1>2, <1>3 DEF IInv

LEMMA HandleLeftStep == ASSUME IInv, NEW c \in Clients, HandleLeft(c) PROVE IInv'
<1>1. /\ Waiting(c) /\ mail' = Handled(c) /\ RemovePeers(c, {Incoming(c).from})
      /\ UNCHANGED <<room, up, owner, running, sock, signalID, hello, late, closing, broken, upsets>>
  BY DEF HandleLeft
<1>2. Handled(c) \in [Ids -> Seq(Signal)] /\ {Incoming(c).from} \in SUBSET Ids
  BY <1>1, HandledBox DEF IInv, Signal
<1>3. /\ peers' \in [Clients -> [Ids -> Peer]]
      /\ listed' \in [Clients -> SUBSET Clients]
  <2>1. TypeOK
    BY DEF IInv
  <2>. QED BY <2>1, <1>1, <1>2, RemoveEffect, Zenon
<1>4. TypeOK'
  BY <1>1, <1>2, <1>3 DEF IInv, TypeOK
<1>5. OwnWelcome'
  BY <1>1, WelcomesHandled
<1>. QED BY <1>1, <1>2, <1>4, <1>5, RemoveStep

\* One end of a connection changes: nothing it knows is forgotten, and no offer begins.
LEMMA EndStep ==
  ASSUME IInv, NEW c \in Clients, NEW i \in Ids, NEW p \in Peer, sock[c] # None,
         peers' = [peers EXCEPT ![c][i] = p],
         peers[c][i].known => p.known, p.known => owner[i] # None,
         p.state = "offered" => peers[c][i].state = "offered",
         UNCHANGED <<owner, sock, signalID>>,
         \A q \in hello' : owner[q[2]] # None
  PROVE  /\ peers' \in [Clients -> [Ids -> Peer]]
         /\ OwnSession' /\ NamesAreOwned' /\ OffersDescend'
         /\ \A d \in Clients, j \in Ids : peers[d][j].known => peers'[d][j].known
<1>1. peers' \in [Clients -> [Ids -> Peer]]
  BY DEF IInv, TypeOK
<1>2. \A d \in Clients, j \in Ids : peers'[d][j] = IF d = c /\ j = i THEN p ELSE peers[d][j]
  BY DEF IInv, TypeOK
<1>3. OwnSession'
  BY <1>2 DEF IInv, OwnSession
<1>4. NamesAreOwned'
  BY <1>2 DEF IInv, NamesAreOwned
<1>5. OffersDescend'
  BY <1>2 DEF IInv, OffersDescend
<1>6. \A d \in Clients, j \in Ids : peers[d][j].known => peers'[d][j].known
  BY <1>2
<1>. QED BY <1>1, <1>3, <1>4, <1>5, <1>6

LEMMA HandleOfferStep == ASSUME IInv, NEW c \in Clients, HandleOffer(c) PROVE IInv'
<1> DEFINE i == Incoming(c).from
           p == [Ensured(peers[c][i]) EXCEPT !.state = "agreed"]
<1>1. Waiting(c) /\ UNCHANGED <<room, owner, running, sock, signalID, hello, listed, late,
                                closing, broken, upsets>>
  BY DEF HandleOffer
<1>2. sock[c] \in Ids /\ i \in Ids /\ Handled(c) \in [Ids -> Seq(Signal)]
  BY <1>1, HandledBox DEF IInv, Signal
<1>3. CASE mail' = Handled(c) /\ UNCHANGED <<up, peers>>
  <2>1. TypeOK'
    BY <1>1, <1>2, <1>3 DEF IInv, TypeOK
  <2>2. OwnWelcome'
    BY <1>1, <1>3, WelcomesHandled
  <2>3. OwnSession' /\ NamesAreOwned' /\ OffersDescend'
    BY <1>1, <1>3 DEF IInv, OwnSession, NamesAreOwned, OffersDescend
  <2>4. ListedAreConnected'
    BY <1>1, <1>3, ListedUnchanged DEF IInv
  <2>. QED BY <2>1, <2>2, <2>3, <2>4 DEF IInv
<1>4. CASE /\ peers' = [peers EXCEPT ![c][i] = p]
           /\ SendSignal(c, {i}, "answer", Handled(c))
  <2>1. peers[c][i] \in Peer
    BY <1>2 DEF IInv, TypeOK
  <2>2. p \in Peer /\ p.state = "agreed" /\ p.known = peers[c][i].known
    BY <2>1, EnsuredIsPeer
  <2> HIDE DEF p
  <2>3. /\ peers[c][i].known => owner[i] # None
        /\ \A q \in hello' : owner[q[2]] # None
    BY <1>1, <1>2 DEF IInv, NamesAreOwned
  <2>4. /\ peers' \in [Clients -> [Ids -> Peer]]
        /\ OwnSession' /\ NamesAreOwned' /\ OffersDescend'
        /\ \A d \in Clients, j \in Ids : peers[d][j].known => peers'[d][j].known
    <3>1. sock[c] # None
      BY <1>2, IdsAssumption
    <3> HIDE DEF i
    <3>. QED BY <1>1, <1>2, <1>4, <2>2, <2>3, <3>1, EndStep
  <2>5. /\ mail' \in [Ids -> Seq(Signal)] /\ up' \subseteq up
        /\ \A j \in Ids : \A k \in 1..Len(mail'[j]) : mail'[j][k].type = "welcome"
             => k \in 1..Len(Handled(c)[j]) /\ mail'[j][k] = Handled(c)[j][k]
    <3>1. up \subseteq room /\ up \subseteq Ids /\ sock[c] \in Ids \cup {None}
      BY DEF IInv, TypeOK
    <3>. QED BY <3>1, <1>2, <1>4, SendEffect
  <2>6. TypeOK'
    BY <1>1, <2>4, <2>5 DEF IInv, TypeOK
  <2>7. OwnWelcome'
    BY <1>1, <2>5, WelcomesHandled
  <2>8. ListedAreConnected'
    BY <1>1, <2>4, ListedUnchanged DEF IInv
  <2>. QED BY <2>4, <2>6, <2>7, <2>8 DEF IInv
<1>. QED BY <1>3, <1>4 DEF HandleOffer

LEMMA HandleAnswerStep == ASSUME IInv, NEW c \in Clients, HandleAnswer(c) PROVE IInv'
<1> DEFINE i == Incoming(c).from
           p == IF peers[c][i].state = "offered"
                THEN [peers[c][i] EXCEPT !.state = "agreed"] ELSE peers[c][i]
<1>1. /\ Waiting(c) /\ mail' = Handled(c)
      /\ UNCHANGED <<room, up, owner, running, sock, signalID, hello, listed, late, closing, broken,
                     upsets>>
  BY DEF HandleAnswer
<1>2. sock[c] \in Ids /\ i \in Ids /\ Handled(c) \in [Ids -> Seq(Signal)]
  BY <1>1, HandledBox DEF IInv, Signal
<1>3. peers[c][i] \in Peer
  BY <1>2 DEF IInv, TypeOK
<1>4. /\ p \in Peer /\ p.known = peers[c][i].known
      /\ p.state = "offered" => peers[c][i].state = "offered"
  BY <1>3 DEF Peer
<1>5. peers' = [peers EXCEPT ![c][i] = p]
  BY <1>2, <1>3 DEF HandleAnswer, IInv, TypeOK
<1> HIDE DEF p, i
<1>6. /\ peers[c][i].known => owner[i] # None
      /\ \A q \in hello' : owner[q[2]] # None
  BY <1>1, <1>2 DEF IInv, NamesAreOwned
<1>7. /\ peers' \in [Clients -> [Ids -> Peer]]
      /\ OwnSession' /\ NamesAreOwned' /\ OffersDescend'
      /\ \A d \in Clients, j \in Ids : peers[d][j].known => peers'[d][j].known
  <2>1. sock[c] # None
    BY <1>2, IdsAssumption
  <2>. QED BY <1>1, <1>2, <1>4, <1>5, <1>6, <2>1, EndStep
<1>8. TypeOK'
  BY <1>1, <1>2, <1>7 DEF IInv, TypeOK
<1>9. OwnWelcome'
  BY <1>1, WelcomesHandled
<1>10. ListedAreConnected'
  BY <1>1, <1>7, ListedUnchanged DEF IInv
<1>. QED BY <1>7, <1>8, <1>9, <1>10 DEF IInv

-----------------------------------------------------------------------------
(* Every action keeps the invariant: channels.                             *)

\* A client with a connection has a session.
LEMMA AgreedHasSession ==
  ASSUME IInv, NEW c \in Clients, NEW i \in Ids, peers[c][i].state # "none"
  PROVE  sock[c] \in Ids /\ sock[c] # None /\ owner[sock[c]] = c
BY NoPeerIsPeer DEF IInv, TypeOK, OwnSession

LEMMA OpenStep == ASSUME IInv, NEW c \in Clients, NEW i \in Ids, Open(c, i) PROVE IInv'
<1> DEFINE p == [peers[c][i] EXCEPT !.open = TRUE]
<1>1. /\ peers[c][i].state = "agreed"
      /\ hello' = hello \cup {<<i, sock[c]>>}
      /\ UNCHANGED <<room, up, mail, owner, running, sock, signalID, listed, late, closing, broken,
                     upsets>>
  BY DEF Open, rendezvous
<1>2. peers[c][i] \in Peer
  BY DEF IInv, TypeOK
<1>3. p \in Peer /\ p.known = peers[c][i].known /\ p.state = peers[c][i].state
  BY <1>2 DEF Peer
<1>4. peers' = [peers EXCEPT ![c][i] = p]
  BY <1>2 DEF Open, IInv, TypeOK
<1> HIDE DEF p
<1>5. sock[c] \in Ids /\ sock[c] # None /\ owner[sock[c]] = c
  BY <1>1, AgreedHasSession
<1>6. /\ peers[c][i].known => owner[i] # None
      /\ \A q \in hello' : owner[q[2]] # None
  BY <1>1, <1>5, ClientsAssumption DEF IInv, NamesAreOwned
<1>7. /\ peers' \in [Clients -> [Ids -> Peer]]
      /\ OwnSession' /\ NamesAreOwned' /\ OffersDescend'
      /\ \A d \in Clients, j \in Ids : peers[d][j].known => peers'[d][j].known
  BY <1>1, <1>3, <1>4, <1>5, <1>6, EndStep
<1>8. TypeOK'
  BY <1>1, <1>5, <1>7 DEF IInv, TypeOK
<1>9. OwnWelcome'
  BY <1>1 DEF IInv, OwnWelcome
<1>10. ListedAreConnected'
  BY <1>1, <1>7, ListedUnchanged DEF IInv
<1>. QED BY <1>7, <1>8, <1>9, <1>10 DEF IInv

LEMMA SetNameStep == ASSUME IInv, NEW c \in Clients, SetName(c) PROVE IInv'
<1> DEFINE told == {i \in Ids : peers[c][i].open} \X {sock[c]}
<1>1. /\ hello' = hello \cup told
      /\ sock[c] # None /\ upsets < MaxUpsets /\ upsets' = upsets + 1
      /\ UNCHANGED <<room, up, mail, owner, running, sock, signalID, peers, listed, late, closing, broken>>
  BY DEF SetName, rendezvous
<1>2. sock[c] \in Ids /\ owner[sock[c]] = c
  BY <1>1 DEF IInv, TypeOK, OwnSession
<1>3. told \subseteq Ids \X Ids /\ \A q \in told : owner[q[2]] # None
  BY <1>2, ClientsAssumption
<1> HIDE DEF told
<1>4. TypeOK'
  BY <1>1, <1>3, UpsetsAssumption DEF IInv, TypeOK
<1>5. OwnSession' /\ OwnWelcome' /\ OffersDescend'
  BY <1>1 DEF IInv, OwnSession, OwnWelcome, OffersDescend
<1>6. NamesAreOwned'
  BY <1>1, <1>3 DEF IInv, NamesAreOwned
<1>7. ListedAreConnected'
  BY <1>1, ListedUnchanged DEF IInv
<1>. QED BY <1>4, <1>5, <1>6, <1>7 DEF IInv

LEMMA HelloStep == ASSUME IInv, NEW c \in Clients, NEW i \in Ids, Hello(c, i) PROVE IInv'
<1> DEFINE p == [peers[c][i] EXCEPT !.known = TRUE]
<1>1. /\ <<sock[c], i>> \in hello /\ peers[c][i].state = "agreed"
      /\ hello' = hello \ {<<sock[c], i>>}
      /\ listed' = [listed EXCEPT ![c] = @ \cup {owner[i]}]
      /\ UNCHANGED <<room, up, mail, owner, running, sock, signalID, late, closing, broken, upsets>>
  BY DEF Hello, rendezvous
<1>2. peers[c][i] \in Peer
  BY DEF IInv, TypeOK
<1>3. p \in Peer /\ p.known = TRUE /\ p.state = peers[c][i].state
  BY <1>2 DEF Peer
<1>4. peers' = [peers EXCEPT ![c][i] = p]
  BY <1>2 DEF Hello, IInv, TypeOK
<1> HIDE DEF p
<1>5. sock[c] # None
  BY <1>1, AgreedHasSession
<1>6. owner[i] # None /\ owner[i] \in Clients
  BY <1>1 DEF IInv, TypeOK, NamesAreOwned
<1>7. \A q \in hello' : owner[q[2]] # None
  BY <1>1 DEF IInv, NamesAreOwned
<1>8. /\ peers' \in [Clients -> [Ids -> Peer]]
      /\ OwnSession' /\ NamesAreOwned' /\ OffersDescend'
      /\ \A d \in Clients, j \in Ids : peers[d][j].known => peers'[d][j].known
  BY <1>1, <1>3, <1>4, <1>5, <1>6, <1>7, EndStep
<1>9. TypeOK'
  BY <1>1, <1>6, <1>8 DEF IInv, TypeOK
<1>10. OwnWelcome'
  BY <1>1 DEF IInv, OwnWelcome
<1>11. ListedAreConnected'
  <2>1. peers'[c][i].known /\ owner'[i] = owner[i]
    BY <1>1, <1>3, <1>4 DEF IInv, TypeOK
  <2>2. ASSUME NEW d \in Clients, NEW e \in listed'[d], e \notin late'[d]
        PROVE  e \in Named(d, Ids)'
    <3>1. CASE d = c /\ e = owner[i]
      BY <3>1, <2>1 DEF Named
    <3>2. CASE e \in listed[d]
      <4>1. e \in Named(d, Ids)
        BY <3>2, <2>2, <1>1 DEF IInv, ListedAreConnected
      <4>2. PICK j \in Ids : peers[d][j].known /\ owner[j] = e
        BY <4>1 DEF Named
      <4>. QED BY <4>2, <1>1, <1>8 DEF Named
    <3>3. (d = c /\ e = owner[i]) \/ e \in listed[d]
      BY <2>2, <1>1 DEF IInv, TypeOK
    <3>. QED BY <3>1, <3>2, <3>3
  <2>. QED BY <2>2 DEF ListedAreConnected
<1>. QED BY <1>8, <1>9, <1>10, <1>11 DEF IInv

LEMMA HelloLateStep == ASSUME IInv, NEW c \in Clients, NEW i \in Ids, HelloLate(c, i) PROVE IInv'
<1>1. /\ UNCHANGED <<room, up, mail, owner, running, sock, signalID, peers, closing, broken, upsets>>
      /\ hello' \subseteq hello
      /\ \E j \in Ids : <<j, i>> \in hello
      /\ \/ UNCHANGED <<listed, late>>
         \/ /\ listed' = [listed EXCEPT ![c] = @ \cup {owner[i]}]
            /\ late' = [late EXCEPT ![c] = @ \cup {owner[i]}]
  BY DEF HelloLate, rendezvous
<1>2. owner[i] \in Clients
  BY <1>1 DEF IInv, TypeOK, NamesAreOwned
<1>3. /\ listed' \in [Clients -> SUBSET Clients] /\ late' \in [Clients -> SUBSET Clients]
      /\ \A d \in Clients : listed'[d] \subseteq listed[d] \cup late'[d] /\ late[d] \subseteq late'[d]
  <2>1. CASE UNCHANGED <<listed, late>>
    BY <2>1 DEF IInv, TypeOK
  <2>2. CASE /\ listed' = [listed EXCEPT ![c] = @ \cup {owner[i]}]
             /\ late' = [late EXCEPT ![c] = @ \cup {owner[i]}]
    <3>1. \A d \in Clients : /\ listed'[d] = IF d = c THEN listed[c] \cup {owner[i]} ELSE listed[d]
                             /\ late'[d] = IF d = c THEN late[c] \cup {owner[i]} ELSE late[d]
      BY <2>2 DEF IInv, TypeOK
    <3>2. listed' \in [Clients -> SUBSET Clients] /\ late' \in [Clients -> SUBSET Clients]
      BY <2>2, <1>2 DEF IInv, TypeOK
    <3>. QED BY <3>1, <3>2
  <2>. QED BY <1>1, <2>1, <2>2
<1>4. TypeOK'
  BY <1>1, <1>3 DEF IInv, TypeOK
<1>5. OwnSession' /\ OwnWelcome' /\ NamesAreOwned' /\ OffersDescend'
  BY <1>1 DEF IInv, OwnSession, OwnWelcome, NamesAreOwned, OffersDescend
<1>6. ListedAreConnected'
  <2>1. \A d \in Clients : Named(d, Ids)' = Named(d, Ids)
    BY <1>1 DEF Named
  <2>. QED BY <2>1, <1>3 DEF IInv, ListedAreConnected
<1>. QED BY <1>4, <1>5, <1>6 DEF IInv

\* Losing one connection: PeerGone, Fail and CloseLate.
LEMMA LoseStep ==
  ASSUME IInv, NEW c \in Clients, NEW i \in Ids, RemovePeers(c, {i}),
         UNCHANGED <<rendezvous, running, sock, signalID, hello, late>>,
         closing' \in [Clients -> SUBSET Ids],
         broken' \subseteq SUBSET Ids, upsets' \in 0..MaxUpsets
  PROVE  IInv'
<1>1. {i} \in SUBSET Ids /\ TypeOK
  BY DEF IInv
<1>2. /\ peers' \in [Clients -> [Ids -> Peer]]
      /\ listed' \in [Clients -> SUBSET Clients]
  BY <1>1, RemoveEffect, Zenon
<1>3. UNCHANGED <<room, up, mail, owner>>
  BY DEF rendezvous
<1>4. TypeOK'
  BY <1>1, <1>2, <1>3 DEF TypeOK
<1>5. OwnWelcome'
  BY <1>3 DEF IInv, OwnWelcome
<1>. QED BY <1>1, <1>3, <1>4, <1>5, RemoveStep

LEMMA PeerGoneStep == ASSUME IInv, NEW c \in Clients, NEW i \in Ids, PeerGone(c, i) PROVE IInv'
<1>1. /\ RemovePeers(c, {i})
      /\ UNCHANGED <<rendezvous, running, sock, signalID, hello, late, closing, broken, upsets>>
  BY DEF PeerGone
<1>2. /\ closing' \in [Clients -> SUBSET Ids]
      /\ broken' \subseteq SUBSET Ids /\ upsets' \in 0..MaxUpsets
  BY <1>1 DEF IInv, TypeOK
<1>. QED BY <1>1, <1>2, LoseStep

LEMMA FailStep ==
  ASSUME IInv, NEW c \in Clients, NEW i \in Ids, Fail(c, i) \/ CloseLate(c, i)
  PROVE  IInv'
<1>1. /\ peers[c][i].state # "none"
      /\ upsets' = upsets \/ (upsets < MaxUpsets /\ upsets' = upsets + 1)
      /\ closing' = closing \/ closing' = [closing EXCEPT ![c] = @ \ {i}]
      /\ broken' = broken \cup {{sock[c], i}}
      /\ RemovePeers(c, {i})
      /\ UNCHANGED <<rendezvous, running, sock, signalID, hello, late>>
  BY DEF Fail, CloseLate, Held
<1>2. sock[c] \in Ids
  BY <1>1, AgreedHasSession
<1>3. broken' \subseteq SUBSET Ids
  BY <1>1, <1>2 DEF IInv, TypeOK
<1>4. upsets' \in 0..MaxUpsets
  BY <1>1, UpsetsAssumption DEF IInv, TypeOK
<1>5. closing' \in [Clients -> SUBSET Ids]
  <2>1. closing \in [Clients -> SUBSET Ids]
    BY DEF IInv, TypeOK
  <2>2. CASE closing' = closing
    BY <2>1, <2>2
  <2>3. CASE closing' = [closing EXCEPT ![c] = @ \ {i}]
    BY <2>1, <2>3
  <2>. QED BY <1>1, <2>2, <2>3
<1>. QED BY <1>1, <1>3, <1>4, <1>5, LoseStep

-----------------------------------------------------------------------------
(* The theorems.                                                           *)

LEMMA InitEstablishes == Init => IInv
<1> SUFFICES ASSUME Init PROVE IInv
  OBVIOUS
<1>1. \A i \in Ids : mail[i] = <<>> /\ mail[i] \in Seq(Signal) /\ Len(mail[i]) = 0
  BY DEF Init
<1>2. TypeOK
  BY <1>1, NoPeerIsPeer, UpsetsAssumption DEF Init, TypeOK
<1>3. OwnSession /\ NamesAreOwned /\ OffersDescend
  BY NoPeerIsPeer DEF Init, OwnSession, NamesAreOwned, OffersDescend
<1>4. OwnWelcome
  BY <1>1 DEF OwnWelcome
<1>5. ListedAreConnected
  BY DEF Init, ListedAreConnected
<1>. QED BY <1>2, <1>3, <1>4, <1>5 DEF IInv

LEMMA NextKeeps == IInv /\ [Next]_vars => IInv'
<1> SUFFICES ASSUME IInv, [Next]_vars PROVE IInv'
  OBVIOUS
<1>1. ASSUME NEW c \in Clients, Connect(c) \/ SessionEnds(c) \/ Stop(c) \/ SetName(c) PROVE IInv'
  BY <1>1, ConnectStep, SessionEndsStep, StopStep, SetNameStep
<1>2. ASSUME NEW c \in Clients, HandleSignal(c) PROVE IInv'
  BY <1>2, HandleWelcomeStep, HandleJoinedStep, HandleLeftStep, HandleOfferStep, HandleAnswerStep
     DEF HandleSignal
<1>3. ASSUME NEW c \in Clients, NEW i \in Ids,
             Open(c, i) \/ Hello(c, i) \/ HelloLate(c, i) \/ PeerGone(c, i)
             \/ Fail(c, i) \/ CloseLate(c, i)
      PROVE  IInv'
  BY <1>3, OpenStep, HelloStep, HelloLateStep, PeerGoneStep, FailStep
<1>4. ASSUME NEW i \in Ids, Drop(i) \/ Leave(i) PROVE IInv'
  BY <1>4, DropStep, LeaveStep
<1>5. CASE UNCHANGED vars
  BY <1>5 DEF vars, rendezvous, IInv, TypeOK, OwnSession, OwnWelcome, NamesAreOwned,
              OffersDescend, ListedAreConnected, Named
<1>. QED BY <1>1, <1>2, <1>3, <1>4, <1>5 DEF Next

\* The inductive invariant: what a client believes of its session, whose names travel,
\* and that offers are out only to ids below one's own.
THEOREM MeshInvariant == Spec => []IInv
BY InitEstablishes, NextKeeps, PTL DEF Spec

\* Every variable of the mesh keeps its type.
THEOREM MeshTypes == Spec => []TypeOK
<1>1. IInv => TypeOK
  BY DEF IInv
<1>. QED BY <1>1, MeshInvariant, PTL

\* Two engines never have offers out to each other (connectPeer): each offer descends
\* from the id of its sender, which is the id of its session.
THEOREM OneSideOffers == Spec => []NoGlare
<1>1. ASSUME IInv PROVE NoGlare
  <2>1. SUFFICES ASSUME NEW c \in Clients, NEW d \in Clients, sock[c] # None, sock[d] # None,
                        peers[c][sock[d]].state = "offered", peers[d][sock[c]].state = "offered"
                 PROVE  FALSE
    BY DEF NoGlare
  <2>2. sock[c] \in Nat /\ sock[d] \in Nat /\ sock[c] \in Ids /\ sock[d] \in Ids
    BY <1>1, <2>1, IdsAssumption DEF IInv, TypeOK
  <2>3. sock[c] > sock[d] /\ sock[d] > sock[c]
    BY <1>1, <2>1, <2>2 DEF IInv, OwnSession, OffersDescend
  <2>. QED BY <2>2, <2>3
<1>. QED BY <1>1, MeshInvariant, PTL

\* An engine lists nobody it has no connection to, the neighbours listed while their
\* connection was being removed excepted (removePeer, closePeers, handlePacket).
THEOREM NoStrayNeighbours == Spec => []ListedAreConnected
<1>1. IInv => ListedAreConnected
  BY DEF IInv
<1>. QED BY <1>1, MeshInvariant, PTL
-----------------------------------------------------------------------------
(***************************************************************************)
(* Engines that have handled their signals agree.  For each two sessions   *)
(* that work, the invariant says where their negotiation is: the one with  *)
(* the greater id is still to be told of the other, or its offer is out    *)
(* and lies with the other, or the answer is on its way back, or both have *)
(* agreed.                                                                 *)
(***************************************************************************)

\* What lies in a box, and in the box of session i.
Within(s) == {s[k] : k \in 1..Len(s)}
In(i) == Within(mail[i])

\* A description of that type from i has not been handled by j.
Flies(type, i, j) == \E m \in In(j) : m.type = type /\ m.from = i

\* A signal tells its receiver that j is there; such a one lies in the box of i.
Tells(m, j) ==
  \/ m.type = "peer-joined" /\ m.from = j
  \/ m.type = "welcome" /\ j \in m.peers
Told(i, j) == \E m \in In(i) : Tells(m, j)

\* The state of the end that session i has of its connection to j.
End(i, j) == peers[owner[i]][j].state

\* The rendezvous lists drawn ids, and the sockets that work are their owners'.
RoomIsDrawn ==
  /\ \A i \in room : owner[i] # None
  /\ \A i \in up : sock[owner[i]] = i

\* Signals are about drawn ids; a departure is of an id that has left, and an offer goes
\* to an id below its sender's.
MailIsDrawn ==
  \A i \in Ids : \A m \in In(i) :
    /\ owner[m.from] # None /\ \A j \in m.peers : owner[j] # None
    /\ m.type = "peer-left" => m.from \notin room
    /\ m.type = "offer" => m.from > i

\* Connections are with drawn ids.
PeersAreDrawn == \A c \in Clients, i \in Ids : peers[c][i].state # "none" => owner[i] # None

\* A session knows its id, or its welcome is what it will handle first.
Greeted(s) == 1 \in 1..Len(s) /\ s[1].type = "welcome"
Welcomed ==
  \A c \in Clients : sock[c] # None => signalID[c] = sock[c] \/ Greeted(mail[sock[c]])

\* Two sessions that both work, the greater id first, and where they are.
Live(i, j) == i \in up /\ j \in up /\ i > j /\ {i, j} \notin broken

InStep(i, j) ==
  /\ Flies("offer", i, j) => End(i, j) \in {"offered", "agreed"}
  /\ End(j, i) = "agreed" => End(i, j) \in {"offered", "agreed"}
  /\ Flies("answer", j, i) => End(j, i) = "agreed"
  /\ End(i, j) = "agreed" => End(j, i) = "agreed"
  /\ \/ Told(i, j)
     \/ End(i, j) = "offered" /\ (Flies("offer", i, j) \/ Flies("answer", j, i))
     \/ End(i, j) = "agreed"

PairsInStep == \A i, j \in Ids : Live(i, j) => InStep(i, j)

PInv == RoomIsDrawn /\ MailIsDrawn /\ PeersAreDrawn /\ Welcomed /\ PairsInStep

-----------------------------------------------------------------------------
(* What the parts of the actions do to the boxes.                          *)

LEMMA WithinAppend ==
  ASSUME NEW s \in Seq(Signal), NEW m \in Signal
  PROVE  /\ Within(Append(s, m)) = Within(s) \cup {m}
         /\ Greeted(s) => Greeted(Append(s, m))
<1>1. /\ Append(s, m) \in Seq(Signal)
      /\ Len(Append(s, m)) = Len(s) + 1
      /\ \A k \in 1..Len(s) : Append(s, m)[k] = s[k]
      /\ Append(s, m)[Len(s) + 1] = m
      /\ Len(s) \in Nat
  BY AppendProperties, LenProperties
<1>2. Within(s) \cup {m} \subseteq Within(Append(s, m))
  BY <1>1 DEF Within
<1>3. Within(Append(s, m)) \subseteq Within(s) \cup {m}
  BY <1>1 DEF Within
<1>4. Greeted(s) => Greeted(Append(s, m))
  BY <1>1 DEF Greeted
<1>. QED BY <1>2, <1>3, <1>4

LEMMA PostedWithin ==
  ASSUME NEW box \in [Ids -> Seq(Signal)], NEW to, NEW m \in Signal, NEW i \in Ids
  PROVE  /\ Within(Posted(box, to, m)[i]) =
              Within(box[i]) \cup (IF i \in to \cap up THEN {m} ELSE {})
         /\ Greeted(box[i]) => Greeted(Posted(box, to, m)[i])
<1>1. box[i] \in Seq(Signal)
  OBVIOUS
<1>2. CASE i \in to \cap up
  <2>1. Posted(box, to, m)[i] = Append(box[i], m)
    BY <1>2 DEF Posted
  <2>. QED BY <1>1, <1>2, <2>1, WithinAppend
<1>3. CASE i \notin to \cap up
  <2>1. Posted(box, to, m)[i] = box[i]
    BY <1>3 DEF Posted
  <2>. QED BY <1>3, <2>1
<1>. QED BY <1>2, <1>3

LEMMA HandledWithin ==
  ASSUME TypeOK, NEW c \in Clients, Waiting(c)
  PROVE  /\ In(sock[c]) = {Incoming(c)} \cup Within(Handled(c)[sock[c]])
         /\ \A i \in Ids \ {sock[c]} : Handled(c)[i] = mail[i]
<1> DEFINE s == mail[sock[c]]
<1>1. sock[c] \in Ids /\ s \in Seq(Signal) /\ s # <<>>
  BY DEF TypeOK, Waiting
<1>2. Handled(c)[sock[c]] = Tail(s) /\ \A i \in Ids \ {sock[c]} : Handled(c)[i] = mail[i]
  BY <1>1 DEF Handled, TypeOK
<1>3. Incoming(c) = Head(s) /\ In(sock[c]) = Within(s)
  BY DEF Incoming, In
<1> HIDE DEF s
<1>4. /\ Head(s) = s[1]
      /\ Len(s) \in Nat \ {0}
      /\ Len(Tail(s)) = Len(s) - 1
      /\ \A k \in 1..(Len(s) - 1) : Tail(s)[k] = s[k + 1]
  BY <1>1, HeadTailProperties, EmptySeq, LenProperties
<1>5. {Head(s)} \cup Within(Tail(s)) \subseteq Within(s)
  BY <1>4 DEF Within
<1>6. ASSUME NEW m \in Within(s) PROVE m \in {Head(s)} \cup Within(Tail(s))
  <2>1. PICK k \in 1..Len(s) : m = s[k]
    BY <1>6 DEF Within
  <2>2. CASE k = 1
    BY <2>1, <2>2, <1>4
  <2>3. CASE k # 1
    <3>1. k - 1 \in 1..Len(Tail(s)) /\ Tail(s)[k - 1] = s[k]
      BY <2>1, <2>3, <1>4
    <3>. QED BY <3>1, <2>1 DEF Within
  <2>. QED BY <2>2, <2>3
<1>. QED BY <1>2, <1>3, <1>5, <1>6

\* What sendSignal adds to the boxes; a sender whose socket still works has reached
\* everybody whose socket does.
LEMMA SendWithin ==
  ASSUME NEW c \in Clients, sock[c] \in Ids, up \subseteq room, up \subseteq Ids, NEW to,
         NEW type \in {"offer", "answer"}, NEW box \in [Ids -> Seq(Signal)],
         SendSignal(c, to, type, box), NEW i \in Ids
  PROVE  /\ Within(box[i]) \subseteq Within(mail'[i])
         /\ Within(mail'[i]) \subseteq
              Within(box[i]) \cup (IF i \in to THEN {Note(type, sock[c])} ELSE {})
         /\ i \in to \cap up /\ sock[c] \in up' => Note(type, sock[c]) \in Within(mail'[i])
         /\ Greeted(box[i]) => Greeted(mail'[i])
         /\ up' \subseteq up
<1>1. CASE sock[c] \notin up
  BY <1>1 DEF SendSignal
<1>2. CASE sock[c] \in up
  <2>1. PICK routed \in SUBSET (to \cap room) :
          /\ to \subseteq room => routed = to
          /\ mail' = Posted(box, routed, Note(type, sock[c]))
          /\ up' = IF to \subseteq room THEN up ELSE up \ {sock[c]}
    BY <1>2 DEF SendSignal
  <2>2. Note(type, sock[c]) \in Signal
    BY NoteIsSignal
  <2> DEFINE got == Posted(box, routed, Note(type, sock[c]))
  <2>3. /\ Within(got[i]) =
             Within(box[i]) \cup (IF i \in routed \cap up THEN {Note(type, sock[c])} ELSE {})
        /\ Greeted(box[i]) => Greeted(got[i])
    BY <2>2, PostedWithin
  <2> HIDE DEF got
  <2>. QED BY <2>1, <2>3 DEF got
<1>. QED BY <1>1, <1>2

\* The step of a handler at c, as the boxes show it: the signal it handles goes, and a
\* description goes to every member of to.
Moves(c, to, type) ==
  /\ up' \subseteq up
  /\ \A i \in Ids :
       /\ \A m \in In(i) : m \in In(i)' \/ (i = sock[c] /\ m = Incoming(c))
       /\ \A m \in In(i)' : m \in In(i) \/ (i \in to /\ m = Note(type, sock[c]))
       /\ i \in to \cap up /\ sock[c] \in up' => Note(type, sock[c]) \in In(i)'
       /\ i # sock[c] /\ Greeted(mail[i]) => Greeted(mail[i])'

LEMMA SendMoves ==
  ASSUME TypeOK, NEW c \in Clients, Waiting(c), NEW to, NEW type \in {"offer", "answer"},
         SendSignal(c, to, type, Handled(c))
  PROVE  Moves(c, to, type)
<1>1. /\ sock[c] \in Ids /\ Handled(c) \in [Ids -> Seq(Signal)]
      /\ up \subseteq room /\ up \subseteq Ids
  BY HandledBox DEF TypeOK
<1>2. /\ In(sock[c]) = {Incoming(c)} \cup Within(Handled(c)[sock[c]])
      /\ \A i \in Ids \ {sock[c]} : Handled(c)[i] = mail[i]
  BY HandledWithin
<1>3. ASSUME NEW i \in Ids
      PROVE  /\ \A m \in In(i) : m \in In(i)' \/ (i = sock[c] /\ m = Incoming(c))
             /\ \A m \in In(i)' : m \in In(i) \/ (i \in to /\ m = Note(type, sock[c]))
             /\ i \in to \cap up /\ sock[c] \in up' => Note(type, sock[c]) \in In(i)'
             /\ i # sock[c] /\ Greeted(mail[i]) => Greeted(mail[i])'
             /\ up' \subseteq up
  <2>1. /\ Within(Handled(c)[i]) \subseteq In(i)'
        /\ In(i)' \subseteq Within(Handled(c)[i]) \cup (IF i \in to THEN {Note(type, sock[c])} ELSE {})
        /\ i \in to \cap up /\ sock[c] \in up' => Note(type, sock[c]) \in In(i)'
        /\ Greeted(Handled(c)[i]) => Greeted(mail[i])'
        /\ up' \subseteq up
    BY <1>1, SendWithin DEF In
  <2>2. In(i) = Within(mail[i])
    BY DEF In
  <2>3. CASE i = sock[c]
    BY <2>1, <2>3, <1>2
  <2>4. CASE i # sock[c]
    BY <2>1, <2>2, <2>4, <1>2
  <2>. QED BY <2>3, <2>4
<1>. QED BY <1>1, <1>3 DEF Moves

LEMMA TakeMoves ==
  ASSUME TypeOK, NEW c \in Clients, Waiting(c), NEW type, mail' = Handled(c), UNCHANGED up
  PROVE  Moves(c, {}, type)
<1>1. /\ In(sock[c]) = {Incoming(c)} \cup Within(Handled(c)[sock[c]])
      /\ \A i \in Ids \ {sock[c]} : Handled(c)[i] = mail[i]
  BY HandledWithin
<1>2. ASSUME NEW i \in Ids
      PROVE  /\ \A m \in In(i) : m \in In(i)' \/ (i = sock[c] /\ m = Incoming(c))
             /\ \A m \in In(i)' : m \in In(i)
             /\ i # sock[c] /\ Greeted(mail[i]) => Greeted(mail[i])'
  <2>1. In(i)' = Within(Handled(c)[i]) /\ In(i) = Within(mail[i])
    BY DEF In
  <2>2. CASE i = sock[c]
    BY <2>1, <2>2, <1>1
  <2>3. CASE i # sock[c]
    BY <2>1, <2>3, <1>1
  <2>. QED BY <2>2, <2>3
<1>. QED BY <1>2 DEF Moves

-----------------------------------------------------------------------------
(* A step that leaves a pair where it is, and what a handler does to one.  *)

LEMMA PairKept ==
  ASSUME NEW i \in Ids, NEW j \in Ids, InStep(i, j),
         End(i, j)' = End(i, j), End(j, i)' = "agreed" <=> End(j, i) = "agreed",
         Told(i, j) => Told(i, j)',
         Flies("offer", i, j)' <=> Flies("offer", i, j),
         Flies("answer", j, i)' <=> Flies("answer", j, i)
  PROVE  InStep(i, j)'
BY DEF InStep

\* A session that works is its owner's, and no other client's.
LEMMA Owners ==
  ASSUME IInv, PInv, NEW i \in up
  PROVE  /\ i \in Ids /\ i \in Nat /\ owner[i] \in Clients /\ sock[owner[i]] = i
         /\ \A c \in Clients : c = owner[i] <=> sock[c] = i
<1>1. i \in Ids /\ i \in Nat /\ i # None /\ owner[i] # None /\ sock[owner[i]] = i
  BY IdsAssumption DEF IInv, TypeOK, PInv, RoomIsDrawn
<1>2. owner[i] \in Clients
  BY <1>1 DEF IInv, TypeOK
<1>3. \A c \in Clients : sock[c] = i => owner[i] = c
  BY <1>1 DEF IInv, OwnSession
<1>. QED BY <1>1, <1>2, <1>3

\* What a handler at c does to two sessions that work after it.
LEMMA MovesPair ==
  ASSUME IInv, PInv, NEW c \in Clients, Waiting(c), NEW to, NEW type \in {"offer", "answer"},
         Moves(c, to, type), broken \subseteq broken',
         NEW i \in Ids, NEW j \in Ids, Live(i, j)'
  PROVE  /\ Live(i, j) /\ InStep(i, j)
         /\ Told(i, j) => Told(i, j)' \/ (sock[c] = i /\ Tells(Incoming(c), j))
         /\ \A t \in {"offer", "answer"} : \A x, y \in {i, j} :
              /\ Flies(t, x, y)' => Flies(t, x, y) \/ (t = type /\ x = sock[c] /\ y \in to)
              /\ Flies(t, x, y) => \/ Flies(t, x, y)'
                                   \/ y = sock[c] /\ Incoming(c).type = t /\ Incoming(c).from = x
         /\ \A x, y \in {i, j} : x = sock[c] /\ y \in to => Flies(type, x, y)'
<1>1. Live(i, j)
  BY DEF Live, Moves
<1>2. InStep(i, j)
  BY <1>1 DEF PInv, PairsInStep
<1>3. ASSUME Told(i, j) PROVE Told(i, j)' \/ (sock[c] = i /\ Tells(Incoming(c), j))
  <2>1. PICK m \in In(i) : Tells(m, j)
    BY <1>3 DEF Told
  <2>2. m \in In(i)' \/ (i = sock[c] /\ m = Incoming(c))
    BY <2>1 DEF Moves
  <2>. QED BY <2>1, <2>2 DEF Told, Tells
<1>4. ASSUME NEW t \in {"offer", "answer"}, NEW x \in {i, j}, NEW y \in {i, j}
      PROVE  /\ Flies(t, x, y)' => Flies(t, x, y) \/ (t = type /\ x = sock[c] /\ y \in to)
             /\ Flies(t, x, y) => \/ Flies(t, x, y)'
                                  \/ y = sock[c] /\ Incoming(c).type = t /\ Incoming(c).from = x
  <2>1. ASSUME Flies(t, x, y)'
        PROVE  Flies(t, x, y) \/ (t = type /\ x = sock[c] /\ y \in to)
    <3>1. PICK m \in In(y)' : m.type = t /\ m.from = x
      BY <2>1 DEF Flies
    <3>2. m \in In(y) \/ (y \in to /\ m = Note(type, sock[c]))
      BY <3>1 DEF Moves
    <3>. QED BY <3>1, <3>2 DEF Flies, Note
  <2>2. ASSUME Flies(t, x, y)
        PROVE  \/ Flies(t, x, y)'
               \/ y = sock[c] /\ Incoming(c).type = t /\ Incoming(c).from = x
    <3>1. PICK m \in In(y) : m.type = t /\ m.from = x
      BY <2>2 DEF Flies
    <3>2. m \in In(y)' \/ (y = sock[c] /\ m = Incoming(c))
      BY <3>1 DEF Moves
    <3>. QED BY <3>1, <3>2 DEF Flies
  <2>. QED BY <2>1, <2>2
<1>5. ASSUME NEW x \in {i, j}, NEW y \in {i, j}, x = sock[c], y \in to
      PROVE  Flies(type, x, y)'
  <2>1. y \in up /\ sock[c] \in up'
    BY <1>1, <1>5 DEF Live
  <2>2. Note(type, sock[c]) \in In(y)'
    BY <1>5, <2>1 DEF Moves
  <2>. QED BY <1>5, <2>2 DEF Flies, Note
<1>. QED BY <1>1, <1>2, <1>3, <1>4, <1>5

\* A handler keeps what is known of the rendezvous and of its signals.
LEMMA MovesKeep ==
  ASSUME IInv, PInv, NEW c \in Clients, Waiting(c), NEW to, NEW type \in {"offer", "answer"},
         Moves(c, to, type), type = "offer" => \A i \in Ids : i \in to => sock[c] > i,
         UNCHANGED <<room, owner, sock>>,
         \A d \in Clients \ {c} : signalID'[d] = signalID[d],
         signalID'[c] = sock[c]
  PROVE  RoomIsDrawn' /\ MailIsDrawn' /\ Welcomed'
<1>1. sock[c] \in Ids /\ owner[sock[c]] = c /\ owner[sock[c]] # None
  BY HandledBox, IdsAssumption, ClientsAssumption DEF IInv, OwnSession
<1>2. RoomIsDrawn'
  BY DEF PInv, RoomIsDrawn, Moves
<1>3. MailIsDrawn'
  <2>1. ASSUME NEW i \in Ids, NEW m \in In(i)'
        PROVE  /\ owner[m.from] # None /\ \A j \in m.peers : owner[j] # None
               /\ m.type = "peer-left" => m.from \notin room
               /\ m.type = "offer" => m.from > i
    <3>1. CASE m \in In(i)
      BY <3>1 DEF PInv, MailIsDrawn
    <3>2. CASE i \in to /\ m = Note(type, sock[c])
      BY <3>2, <1>1 DEF Note
    <3>. QED BY <2>1, <3>1, <3>2 DEF Moves
  <2>. QED BY <2>1 DEF MailIsDrawn
<1>4. Welcomed'
  <2>1. ASSUME NEW d \in Clients, sock[d] # None
        PROVE  signalID'[d] = sock[d] \/ Greeted(mail[sock[d]])'
    <3>1. CASE d = c
      BY <3>1
    <3>2. CASE d # c
      <4>1. sock[d] \in Ids /\ sock[d] # sock[c]
        BY <2>1, <3>2, <1>1 DEF IInv, TypeOK, OwnSession
      <4>2. signalID[d] = sock[d] \/ Greeted(mail[sock[d]])
        BY <2>1 DEF PInv, Welcomed
      <4>3. PICK i \in Ids : i = sock[d]
        BY <4>1
      <4>4. Greeted(mail[i]) => Greeted(mail[i])'
        BY <4>1, <4>3 DEF Moves
      <4>. QED BY <3>2, <4>2, <4>3, <4>4
    <3>. QED BY <3>1, <3>2
  <2>. QED BY <2>1 DEF Welcomed
<1>. QED BY <1>2, <1>3, <1>4

\* A client that handles anything but its welcome knows its id.
LEMMA KnowsItsId ==
  ASSUME IInv, PInv, NEW c \in Clients, Waiting(c), Incoming(c).type # "welcome"
  PROVE  signalID[c] = sock[c]
<1>1. sock[c] # None /\ Incoming(c) = mail[sock[c]][1]
  BY HandledBox DEF IInv, Waiting
<1>. QED BY <1>1 DEF PInv, Welcomed, Greeted

-----------------------------------------------------------------------------
(* Every action keeps the pairs in step: signals.                          *)

\* What connectPeer does to the ends of c, whose id is the one it connects under.
LEMMA ConnectEnds ==
  ASSUME IInv, NEW c \in Clients, Waiting(c), NEW those \in SUBSET Ids,
         ConnectPeers(c, sock[c], those)
  PROVE  /\ Moves(c, {i \in those : sock[c] > i}, "offer")
         /\ \A d \in Clients \ {c} : peers'[d] = peers[d]
         /\ \A i \in Ids :
              /\ i \in those /\ sock[c] > i => peers'[c][i].state = "offered"
              /\ i \notin those => peers'[c][i] = peers[c][i]
              /\ ~ (sock[c] > i)
                   => (peers'[c][i].state = "agreed" <=> peers[c][i].state = "agreed")
<1> DEFINE others == those \ {sock[c]}
           offers == {i \in others : Initiates(sock[c], i)}
           Now(i) == IF i \in offers THEN [Ensured(peers[c][i]) EXCEPT !.state = "offered"]
                     ELSE IF i \in others THEN Ensured(peers[c][i]) ELSE peers[c][i]
<1>1. sock[c] \in Ids /\ sock[c] # None /\ sock[c] \in Nat
  BY HandledBox, IdsAssumption DEF IInv
<1>2. /\ peers' = [peers EXCEPT ![c] = [i \in Ids |-> Now(i)]]
      /\ SendSignal(c, offers, "offer", Handled(c))
  BY <1>1 DEF ConnectPeers
<1>3. \A i \in Ids : ~ (i > i)
  BY IdsAssumption
<1>4. offers = {i \in those : sock[c] > i}
  BY <1>1, <1>3 DEF Initiates
<1>5. \A i \in Ids : peers[c][i] \in Peer
  BY DEF IInv, TypeOK
<1>6. \A i \in Ids :
        /\ i \in offers => Now(i).state = "offered"
        /\ i \notin others => Now(i) = peers[c][i]
        /\ i \notin offers => (Now(i).state = "agreed" <=> peers[c][i].state = "agreed")
  <2>1. ASSUME NEW p \in Peer PROVE Ensured(p).state = "agreed" <=> p.state = "agreed"
    BY DEF Ensured, NoPeer, Peer
  <2>. QED BY <1>5, <2>1, EnsuredIsPeer
<1> HIDE DEF Now, offers
<1>7. /\ \A d \in Clients \ {c} : peers'[d] = peers[d]
      /\ \A i \in Ids : peers'[c][i] = Now(i)
  BY <1>2 DEF IInv, TypeOK
<1>8. Moves(c, offers, "offer")
  BY <1>2, SendMoves DEF IInv
<1>9. ASSUME NEW i \in Ids
      PROVE  /\ i \in those /\ sock[c] > i => peers'[c][i].state = "offered"
             /\ i \notin those => peers'[c][i] = peers[c][i]
             /\ ~ (sock[c] > i)
                  => (peers'[c][i].state = "agreed" <=> peers[c][i].state = "agreed")
  BY <1>4, <1>6, <1>7
<1>. QED BY <1>4, <1>7, <1>8, <1>9

LEMMA ConnectPeersPairs ==
  ASSUME IInv, PInv, NEW c \in Clients, Waiting(c), NEW those \in SUBSET Ids,
         ConnectPeers(c, sock[c], those),
         Incoming(c).type \in {"welcome", "peer-joined"},
         \A i \in those : owner[i] # None /\ Tells(Incoming(c), i),
         \A i \in Ids : Tells(Incoming(c), i) => i \in those \/ {sock[c], i} \in broken',
         \A d \in Clients \ {c} : signalID'[d] = signalID[d], signalID'[c] = sock[c],
         UNCHANGED <<room, owner, sock>>, broken \subseteq broken'
  PROVE  PInv'
<1> DEFINE to == {i \in those : sock[c] > i}
<1>1. /\ Moves(c, to, "offer")
      /\ \A d \in Clients \ {c} : peers'[d] = peers[d]
      /\ \A i \in Ids :
           /\ i \in those /\ sock[c] > i => peers'[c][i].state = "offered"
           /\ i \notin those => peers'[c][i] = peers[c][i]
           /\ ~ (sock[c] > i)
                => (peers'[c][i].state = "agreed" <=> peers[c][i].state = "agreed")
  BY ConnectEnds
<1>2. \A i \in Ids : i \in to <=> i \in those /\ sock[c] > i
  OBVIOUS
<1> HIDE DEF to
<1>3. RoomIsDrawn' /\ MailIsDrawn' /\ Welcomed'
  <2>1. \A i \in Ids : i \in to => sock[c] > i
    BY <1>2
  <2>. QED BY <1>1, <2>1, MovesKeep
<1>4. PeersAreDrawn'
  <2>1. ASSUME NEW d \in Clients, NEW i \in Ids, peers'[d][i].state # "none"
        PROVE  owner[i] # None
    <3>1. CASE d # c
      BY <2>1, <3>1, <1>1 DEF PInv, PeersAreDrawn
    <3>2. CASE d = c /\ i \notin those
      BY <2>1, <3>2, <1>1 DEF PInv, PeersAreDrawn
    <3>. QED BY <3>1, <3>2
  <2>. QED BY <2>1 DEF PeersAreDrawn
<1>5. ASSUME NEW i \in Ids, NEW j \in Ids, Live(i, j)' PROVE InStep(i, j)'
  <2>1. /\ Live(i, j) /\ InStep(i, j)
        /\ Told(i, j) => Told(i, j)' \/ (sock[c] = i /\ Tells(Incoming(c), j))
        /\ \A t \in {"offer", "answer"} : \A x, y \in {i, j} :
             /\ Flies(t, x, y)' => Flies(t, x, y) \/ (t = "offer" /\ x = sock[c] /\ y \in to)
             /\ Flies(t, x, y) => \/ Flies(t, x, y)'
                                  \/ y = sock[c] /\ Incoming(c).type = t /\ Incoming(c).from = x
        /\ \A x, y \in {i, j} : x = sock[c] /\ y \in to => Flies("offer", x, y)'
    BY <1>1, <1>5, MovesPair
  <2>2. /\ i \in Nat /\ j \in Nat /\ i > j
        /\ owner[i] \in Clients /\ owner[j] \in Clients
        /\ \A d \in Clients : (d = owner[i] <=> sock[d] = i) /\ (d = owner[j] <=> sock[d] = j)
    BY <2>1, Owners DEF Live
  <2>3. Flies("answer", j, i)' <=> Flies("answer", j, i)
    BY <2>1
  <2>4. CASE sock[c] = i /\ j \in those
    <3>1. End(i, j)' = "offered" /\ End(j, i)' = End(j, i)
      BY <2>2, <2>4, <1>1 DEF End
    <3>2. Flies("offer", i, j)'
      BY <2>1, <2>2, <2>4, <1>2
    <3>3. End(j, i) = "agreed" \/ ~ Flies("answer", j, i)
      BY <2>1 DEF InStep
    <3>. QED BY <2>3, <3>1, <3>2, <3>3 DEF InStep
  <2>5. CASE ~ (sock[c] = i /\ j \in those)
    <3>1. Told(i, j) => Told(i, j)'
      <4>1. {i, j} \notin broken'
        BY <1>5 DEF Live
      <4>. QED BY <2>1, <2>5, <4>1
    <3>2. Flies("offer", i, j)' <=> Flies("offer", i, j)
      BY <2>1, <2>5, <1>2
    <3>3. End(i, j)' = End(i, j)
      BY <2>2, <2>5, <1>1 DEF End
    <3>4. End(j, i)' = "agreed" <=> End(j, i) = "agreed"
      BY <2>2, <1>1 DEF End
    <3>. QED BY <2>1, <2>3, <3>1, <3>2, <3>3, <3>4, PairKept
  <2>. QED BY <2>4, <2>5
<1>. QED BY <1>3, <1>4, <1>5 DEF PInv, PairsInStep

\* Those who are not connected to when the loop ends are broken with.
LEMMA ConnectSomePairs ==
  ASSUME IInv, PInv, NEW c \in Clients, Waiting(c), NEW those \in SUBSET Ids,
         ConnectSome(c, sock[c], those),
         Incoming(c).type \in {"welcome", "peer-joined"},
         \A i \in those : owner[i] # None,
         \A i \in Ids : Tells(Incoming(c), i) <=> i \in those,
         \A d \in Clients \ {c} : signalID'[d] = signalID[d], signalID'[c] = sock[c],
         UNCHANGED <<room, owner, sock>>
  PROVE  PInv'
<1>1. PICK reached \in SUBSET those :
        /\ ConnectPeers(c, sock[c], reached)
        /\ broken' = broken \cup {{sock[c], i} : i \in those \ reached}
  BY DEF ConnectSome
<1>2. reached \in SUBSET Ids /\ \A i \in reached : owner[i] # None /\ Tells(Incoming(c), i)
  OBVIOUS
<1>3. \A i \in Ids : Tells(Incoming(c), i) => i \in reached \/ {sock[c], i} \in broken'
  BY <1>1
<1>4. broken \subseteq broken'
  BY <1>1
<1>. QED BY <1>1, <1>2, <1>3, <1>4, ConnectPeersPairs

LEMMA HandleWelcomePairs == ASSUME IInv, PInv, NEW c \in Clients, HandleWelcome(c) PROVE PInv'
<1>1. /\ Waiting(c) /\ Incoming(c).type = "welcome"
      /\ signalID' = [signalID EXCEPT ![c] = Incoming(c).from]
      /\ ConnectSome(c, Incoming(c).from, Incoming(c).peers)
      /\ UNCHANGED <<room, owner, sock>>
  BY DEF HandleWelcome
<1>2. /\ sock[c] \in Ids /\ Incoming(c) \in Signal
      /\ Incoming(c) = mail[sock[c]][1] /\ 1 \in 1..Len(mail[sock[c]])
      /\ Incoming(c) \in In(sock[c])
  BY <1>1, HandledBox, HandledWithin DEF IInv
<1>3. Incoming(c).from = sock[c] /\ Incoming(c).peers \in SUBSET Ids
  BY <1>1, <1>2 DEF IInv, OwnWelcome, Signal
<1>4. \A i \in Incoming(c).peers : owner[i] # None
  BY <1>2 DEF PInv, MailIsDrawn
<1>5. \A i \in Ids : Tells(Incoming(c), i) <=> i \in Incoming(c).peers
  BY <1>1 DEF Tells
<1>6. signalID'[c] = sock[c] /\ \A d \in Clients \ {c} : signalID'[d] = signalID[d]
  BY <1>1, <1>3 DEF IInv, TypeOK
<1>. QED BY <1>1, <1>3, <1>4, <1>5, <1>6, ConnectSomePairs

LEMMA HandleJoinedPairs == ASSUME IInv, PInv, NEW c \in Clients, HandleJoined(c) PROVE PInv'
<1>1. /\ Waiting(c) /\ Incoming(c).type = "peer-joined"
      /\ ConnectSome(c, signalID[c], {Incoming(c).from})
      /\ UNCHANGED <<room, owner, sock, signalID>>
  BY DEF HandleJoined
<1>2. /\ sock[c] \in Ids /\ Incoming(c) \in Signal /\ Incoming(c) \in In(sock[c])
  BY <1>1, HandledBox, HandledWithin DEF IInv
<1>3. {Incoming(c).from} \in SUBSET Ids
  BY <1>2 DEF Signal
<1>4. \A i \in {Incoming(c).from} : owner[i] # None
  BY <1>2 DEF PInv, MailIsDrawn
<1>5. \A i \in Ids : Tells(Incoming(c), i) <=> i \in {Incoming(c).from}
  BY <1>1 DEF Tells
<1>6. signalID[c] = sock[c]
  BY <1>1, KnowsItsId
<1>. QED BY <1>1, <1>3, <1>4, <1>5, <1>6, ConnectSomePairs

\* A peer-left is about nobody whose socket works.
LEMMA HandleLeftPairs == ASSUME IInv, PInv, NEW c \in Clients, HandleLeft(c) PROVE PInv'
<1> DEFINE x == Incoming(c).from
<1>1. /\ Waiting(c) /\ Incoming(c).type = "peer-left"
      /\ mail' = Handled(c) /\ RemovePeers(c, {x})
      /\ UNCHANGED <<room, up, owner, sock, signalID, broken>>
  BY DEF HandleLeft
<1>2. sock[c] \in Ids /\ Incoming(c) \in Signal /\ Incoming(c) \in In(sock[c])
  BY <1>1, HandledBox, HandledWithin DEF IInv
<1>3. x \in Ids /\ x \notin up
  BY <1>1, <1>2 DEF Signal, PInv, MailIsDrawn, IInv, TypeOK
<1> HIDE DEF x
<1>4. \A d \in Clients, i \in Ids :
        peers'[d][i] = IF d = c /\ i \in {x} THEN NoPeer ELSE peers[d][i]
  <2>1. {x} \in SUBSET Ids /\ TypeOK
    BY <1>3 DEF IInv
  <2>. QED BY <1>1, <2>1, RemoveEffect, Zenon
<1>5. Moves(c, {}, "offer")
  BY <1>1, TakeMoves DEF IInv
<1>6. RoomIsDrawn' /\ MailIsDrawn' /\ Welcomed'
  BY <1>1, <1>5, KnowsItsId, MovesKeep
<1>7. PeersAreDrawn'
  BY <1>1, <1>4, NoPeerIsPeer DEF PInv, PeersAreDrawn
<1>8. ASSUME NEW i \in Ids, NEW j \in Ids, Live(i, j)' PROVE InStep(i, j)'
  <2>1. /\ Live(i, j) /\ InStep(i, j)
        /\ Told(i, j) => Told(i, j)' \/ (sock[c] = i /\ Tells(Incoming(c), j))
        /\ \A t \in {"offer", "answer"} : \A y, z \in {i, j} :
             /\ Flies(t, y, z)' => Flies(t, y, z) \/ (t = "offer" /\ y = sock[c] /\ z \in {})
             /\ Flies(t, y, z) => \/ Flies(t, y, z)'
                                  \/ z = sock[c] /\ Incoming(c).type = t /\ Incoming(c).from = y
    BY <1>1, <1>5, <1>8, MovesPair
  <2>2. owner[i] \in Clients /\ owner[j] \in Clients /\ i # x /\ j # x
    BY <2>1, <1>3, Owners DEF Live
  <2>3. End(i, j)' = End(i, j) /\ End(j, i)' = End(j, i)
    BY <2>2, <1>1, <1>4 DEF End
  <2>4. Told(i, j) => Told(i, j)'
    BY <2>1, <1>1 DEF Tells
  <2>5. /\ Flies("offer", i, j)' <=> Flies("offer", i, j)
        /\ Flies("answer", j, i)' <=> Flies("answer", j, i)
    BY <2>1, <1>1
  <2>. QED BY <2>1, <2>3, <2>4, <2>5, PairKept
<1>. QED BY <1>6, <1>7, <1>8 DEF PInv, PairsInStep

\* An offer comes from a greater id: its receiver has none of its own out, and answers.
LEMMA HandleOfferPairs == ASSUME IInv, PInv, NEW c \in Clients, HandleOffer(c) PROVE PInv'
<1> DEFINE x == Incoming(c).from
           p == [Ensured(peers[c][x]) EXCEPT !.state = "agreed"]
<1>1. /\ Waiting(c) /\ Incoming(c).type = "offer"
      /\ UNCHANGED <<room, owner, sock, signalID, broken>>
  BY DEF HandleOffer
<1>2. sock[c] \in Ids /\ Incoming(c) \in Signal /\ Incoming(c) \in In(sock[c])
  BY <1>1, HandledBox, HandledWithin DEF IInv
<1>3. /\ x \in Ids /\ x \in Nat /\ sock[c] \in Nat /\ x > sock[c] /\ owner[x] # None
      /\ signalID[c] = sock[c]
  BY <1>1, <1>2, KnowsItsId, IdsAssumption DEF Signal, PInv, MailIsDrawn
<1>4. peers[c][x].state # "offered"
  BY <1>3 DEF IInv, OffersDescend
<1>5. /\ peers' = [peers EXCEPT ![c][x] = p]
      /\ SendSignal(c, {x}, "answer", Handled(c))
  BY <1>4 DEF HandleOffer
<1>6. peers[c][x] \in Peer
  BY <1>3 DEF IInv, TypeOK
<1>7. p.state = "agreed"
  BY <1>6, EnsuredIsPeer
<1>8. Moves(c, {x}, "answer")
  BY <1>1, <1>5, SendMoves DEF IInv
<1> HIDE DEF x, p
<1>9. \A d \in Clients, i \in Ids :
        peers'[d][i].state = IF d = c /\ i = x THEN "agreed" ELSE peers[d][i].state
  BY <1>3, <1>5, <1>7 DEF IInv, TypeOK
<1>10. RoomIsDrawn' /\ MailIsDrawn' /\ Welcomed'
  BY <1>1, <1>3, <1>8, MovesKeep
<1>11. PeersAreDrawn'
  BY <1>1, <1>3, <1>9 DEF PInv, PeersAreDrawn
<1>12. ASSUME NEW i \in Ids, NEW j \in Ids, Live(i, j)' PROVE InStep(i, j)'
  <2>1. /\ Live(i, j) /\ InStep(i, j)
        /\ Told(i, j) => Told(i, j)' \/ (sock[c] = i /\ Tells(Incoming(c), j))
        /\ \A t \in {"offer", "answer"} : \A y, z \in {i, j} :
             /\ Flies(t, y, z)' => Flies(t, y, z) \/ (t = "answer" /\ y = sock[c] /\ z \in {x})
             /\ Flies(t, y, z) => \/ Flies(t, y, z)'
                                  \/ z = sock[c] /\ Incoming(c).type = t /\ Incoming(c).from = y
        /\ \A y, z \in {i, j} : y = sock[c] /\ z \in {x} => Flies("answer", y, z)'
    BY <1>1, <1>8, <1>12, MovesPair
  <2>2. /\ i \in Nat /\ j \in Nat /\ i > j
        /\ owner[i] \in Clients /\ owner[j] \in Clients
        /\ \A d \in Clients : (d = owner[i] <=> sock[d] = i) /\ (d = owner[j] <=> sock[d] = j)
    BY <2>1, Owners DEF Live
  <2>3. Told(i, j) => Told(i, j)'
    BY <2>1, <1>1 DEF Tells
  <2>4. End(i, j)' = End(i, j)
    BY <2>2, <1>1, <1>3, <1>9 DEF End
  <2>5. CASE sock[c] = j /\ x = i
    <3>1. End(j, i)' = "agreed"
      BY <2>2, <2>5, <1>1, <1>9 DEF End
    <3>2. Flies("offer", i, j)
      BY <2>5, <1>1, <1>2 DEF Flies, x
    <3>3. Flies("answer", j, i)'
      BY <2>1, <2>5
    <3>. QED BY <2>1, <2>3, <2>4, <3>1, <3>2, <3>3 DEF InStep
  <2>6. CASE ~ (sock[c] = j /\ x = i)
    <3>1. End(j, i)' = End(j, i)
      BY <2>2, <2>6, <1>1, <1>9 DEF End
    <3>2. Flies("answer", j, i)' <=> Flies("answer", j, i)
      BY <2>1, <2>6, <1>1
    <3>3. Flies("offer", i, j)' <=> Flies("offer", i, j)
      BY <2>1, <2>6 DEF x
    <3>. QED BY <2>1, <2>3, <2>4, <3>1, <3>2, <3>3, PairKept
  <2>. QED BY <2>5, <2>6
<1>. QED BY <1>10, <1>11, <1>12 DEF PInv, PairsInStep

\* The answer finds the offer still out, or already agreed on.
LEMMA HandleAnswerPairs == ASSUME IInv, PInv, NEW c \in Clients, HandleAnswer(c) PROVE PInv'
<1> DEFINE x == Incoming(c).from
<1>1. /\ Waiting(c) /\ Incoming(c).type = "answer" /\ mail' = Handled(c)
      /\ peers' = IF peers[c][x].state = "offered"
                  THEN [peers EXCEPT ![c][x].state = "agreed"] ELSE peers
      /\ UNCHANGED <<room, up, owner, sock, signalID, broken>>
  BY DEF HandleAnswer
<1>2. sock[c] \in Ids /\ Incoming(c) \in Signal /\ Incoming(c) \in In(sock[c])
  BY <1>1, HandledBox, HandledWithin DEF IInv
<1>3. x \in Ids /\ owner[x] # None /\ signalID[c] = sock[c]
  BY <1>1, <1>2, KnowsItsId DEF Signal, PInv, MailIsDrawn
<1>4. Moves(c, {}, "answer")
  BY <1>1, TakeMoves DEF IInv
<1> HIDE DEF x
<1>5. \A d \in Clients, i \in Ids :
        peers'[d][i].state = IF d = c /\ i = x /\ peers[c][x].state = "offered"
                             THEN "agreed" ELSE peers[d][i].state
  <2>1. peers[c][x] \in Peer
    BY <1>3 DEF IInv, TypeOK
  <2>2. CASE peers[c][x].state = "offered"
    <3>1. peers' = [peers EXCEPT ![c][x] = [peers[c][x] EXCEPT !.state = "agreed"]]
      BY <1>1, <2>2
    <3>2. [peers[c][x] EXCEPT !.state = "agreed"].state = "agreed"
      BY <2>1 DEF Peer
    <3>. QED BY <1>3, <2>2, <3>1, <3>2 DEF IInv, TypeOK
  <2>3. CASE peers[c][x].state # "offered"
    BY <1>1, <2>3
  <2>. QED BY <2>2, <2>3
<1>6. RoomIsDrawn' /\ MailIsDrawn' /\ Welcomed'
  BY <1>1, <1>3, <1>4, MovesKeep
<1>7. PeersAreDrawn'
  BY <1>1, <1>3, <1>5 DEF PInv, PeersAreDrawn
<1>8. ASSUME NEW i \in Ids, NEW j \in Ids, Live(i, j)' PROVE InStep(i, j)'
  <2>1. /\ Live(i, j) /\ InStep(i, j)
        /\ Told(i, j) => Told(i, j)' \/ (sock[c] = i /\ Tells(Incoming(c), j))
        /\ \A t \in {"offer", "answer"} : \A y, z \in {i, j} :
             /\ Flies(t, y, z)' => Flies(t, y, z) \/ (t = "answer" /\ y = sock[c] /\ z \in {})
             /\ Flies(t, y, z) => \/ Flies(t, y, z)'
                                  \/ z = sock[c] /\ Incoming(c).type = t /\ Incoming(c).from = y
    BY <1>1, <1>4, <1>8, MovesPair
  <2>2. /\ i \in Nat /\ j \in Nat /\ i > j
        /\ owner[i] \in Clients /\ owner[j] \in Clients
        /\ \A d \in Clients : (d = owner[i] <=> sock[d] = i) /\ (d = owner[j] <=> sock[d] = j)
    BY <2>1, Owners DEF Live
  <2>3. Told(i, j) => Told(i, j)'
    BY <2>1, <1>1 DEF Tells
  <2>4. Flies("offer", i, j)' <=> Flies("offer", i, j)
    BY <2>1, <1>1
  <2>5. End(j, i)' = End(j, i)
    <3>1. sock[c] = j => peers[c][i].state # "offered"
      BY <1>3, <2>2 DEF IInv, OffersDescend
    <3>. QED BY <2>2, <3>1, <1>1, <1>5 DEF End
  <2>6. CASE sock[c] = i /\ x = j
    <3>1. Flies("answer", j, i)
      BY <2>6, <1>1, <1>2 DEF Flies, x
    <3>2. End(j, i) = "agreed" /\ End(i, j) \in {"offered", "agreed"}
      BY <2>1, <3>1 DEF InStep
    <3>3. End(i, j)' = "agreed"
      BY <2>2, <2>6, <3>2, <1>1, <1>5 DEF End
    <3>. QED BY <2>5, <3>2, <3>3 DEF InStep
  <2>7. CASE ~ (sock[c] = i /\ x = j)
    <3>1. End(i, j)' = End(i, j)
      BY <2>2, <2>7, <1>1, <1>5 DEF End
    <3>2. Flies("answer", j, i)' <=> Flies("answer", j, i)
      BY <2>1, <2>7 DEF x
    <3>. QED BY <2>1, <2>3, <2>4, <2>5, <3>1, <3>2, PairKept
  <2>. QED BY <2>6, <2>7
<1>. QED BY <1>6, <1>7, <1>8 DEF PInv, PairsInStep

-----------------------------------------------------------------------------
(* Every action keeps the pairs in step: sessions.                         *)

\* A new session is told of whoever is there, and whoever is there of it.
LEMMA ConnectPairs == ASSUME IInv, PInv, NEW c \in Clients, Connect(c) PROVE PInv'
<1>1. PICK x \in Ids :
        /\ owner[x] = None
        /\ owner' = [owner EXCEPT ![x] = c]
        /\ sock' = [sock EXCEPT ![c] = x]
        /\ mail' = [Posted(mail, room, Note("peer-joined", x)) EXCEPT
                      ![x] = <<[type |-> "welcome", from |-> x, peers |-> room]>>]
        /\ room' = room \cup {x} /\ up' = up \cup {x}
  BY DEF Connect
<1>2. /\ sock[c] = None
      /\ UNCHANGED <<signalID, peers, broken>>
  BY DEF Connect
<1> DEFINE note == Note("peer-joined", x)
           box == Posted(mail, room, note)
           welcome == [type |-> "welcome", from |-> x, peers |-> room]
<1>3. /\ note \in Signal /\ note.type = "peer-joined" /\ note.from = x /\ note.peers = {}
      /\ welcome.type = "welcome" /\ welcome.from = x /\ welcome.peers = room
  BY NoteIsSignal DEF Note
<1>4. mail \in [Ids -> Seq(Signal)]
  BY DEF IInv, TypeOK
<1>5. mail' = [box EXCEPT ![x] = <<welcome>>]
  BY <1>1
<1>6. box \in [Ids -> Seq(Signal)]
  BY <1>3, <1>4, PostedBox
<1> HIDE DEF box, welcome, note
<1>7. /\ \A i \in Ids \ {x} : mail'[i] = box[i]
      /\ mail'[x] = <<welcome>>
  BY <1>5, <1>6
<1>8. \A i \in Ids \ {x} :
        /\ In(i)' = In(i) \cup (IF i \in room \cap up THEN {note} ELSE {})
        /\ Greeted(mail[i]) => Greeted(mail'[i])
  <2>1. ASSUME NEW i \in Ids \ {x}
        PROVE  /\ In(i)' = In(i) \cup (IF i \in room \cap up THEN {note} ELSE {})
               /\ Greeted(mail[i]) => Greeted(mail'[i])
    <3>1. /\ Within(box[i]) = Within(mail[i]) \cup (IF i \in room \cap up THEN {note} ELSE {})
          /\ Greeted(mail[i]) => Greeted(box[i])
      <4>1. i \in Ids /\ note \in Signal
        BY <1>3
      <4>2. /\ Within(Posted(mail, room, note)[i]) =
                 Within(mail[i]) \cup (IF i \in room \cap up THEN {note} ELSE {})
            /\ Greeted(mail[i]) => Greeted(Posted(mail, room, note)[i])
        BY <4>1, <1>4, PostedWithin, Zenon
      <4>. QED BY <4>2 DEF box
    <3>. QED BY <3>1, <1>7 DEF In
  <2>. QED BY <2>1
<1>9. In(x)' = {welcome} /\ Greeted(mail'[x])
  <2>1. Within(<<welcome>>) = {welcome} /\ Greeted(<<welcome>>)
    BY <1>3 DEF Within, Greeted
  <2>. QED BY <2>1, <1>7 DEF In
<1>10. /\ \A i \in Ids : i # x => owner'[i] = owner[i]
       /\ owner'[x] = c /\ c # None /\ x # None
       /\ \A d \in Clients : d # c => sock'[d] = sock[d]
       /\ sock'[c] = x
       /\ \A i \in Ids : owner[i] # None => i # x
  BY <1>1, ClientsAssumption, IdsAssumption DEF IInv, TypeOK
<1>11. x \notin room /\ room \subseteq Ids /\ up \subseteq room
  BY <1>1 DEF PInv, RoomIsDrawn, IInv, TypeOK
<1>12. RoomIsDrawn'
  <2>1. ASSUME NEW i \in room' PROVE owner'[i] # None
    BY <2>1, <1>1, <1>10, <1>11 DEF PInv, RoomIsDrawn
  <2>2. ASSUME NEW i \in up' PROVE sock'[owner'[i]] = i
    <3>1. CASE i = x
      BY <3>1, <1>10
    <3>2. CASE i # x
      <4>1. i \in up
        BY <2>2, <3>2, <1>1
      <4>2. owner[i] \in Clients /\ sock[owner[i]] = i /\ i # None
        BY <4>1, <1>11, Owners, IdsAssumption
      <4>. QED BY <3>2, <4>1, <4>2, <1>2, <1>10, <1>11
    <3>. QED BY <3>1, <3>2
  <2>. QED BY <2>1, <2>2 DEF RoomIsDrawn
<1>13. MailIsDrawn'
  <2>1. ASSUME NEW i \in Ids, NEW m \in In(i)'
        PROVE  /\ owner'[m.from] # None /\ \A j \in m.peers : owner'[j] # None
               /\ m.type = "peer-left" => m.from \notin room'
               /\ m.type = "offer" => m.from > i
    <3>1. CASE m \in In(i) /\ i # x
      <4>1. /\ owner[m.from] # None /\ \A j \in m.peers : owner[j] # None
            /\ m.type = "peer-left" => m.from \notin room
            /\ m.type = "offer" => m.from > i
        BY <3>1 DEF PInv, MailIsDrawn
      <4>2. m \in Signal
        <5>1. PICK k \in 1..Len(mail[i]) : m = mail[i][k]
          BY <3>1 DEF In, Within
        <5>2. mail[i] \in Seq(Signal)
          BY <1>4
        <5>. QED BY <5>1, <5>2, ElementOfSeq
      <4>3. m.from \in Ids /\ m.peers \subseteq Ids
        BY <4>2 DEF Signal
      <4>. QED BY <4>1, <4>3, <1>1, <1>10
    <3>2. CASE m = note
      BY <3>2, <1>3, <1>10
    <3>3. CASE m = welcome
      BY <3>3, <1>3, <1>10, <1>11 DEF PInv, RoomIsDrawn
    <3>. QED BY <2>1, <3>1, <3>2, <3>3, <1>8, <1>9
  <2>. QED BY <2>1 DEF MailIsDrawn
<1>14. PeersAreDrawn'
  BY <1>2, <1>10 DEF PInv, PeersAreDrawn
<1>15. Welcomed'
  <2>1. ASSUME NEW d \in Clients, sock'[d] # None
        PROVE  signalID'[d] = sock'[d] \/ Greeted(mail'[sock'[d]])
    <3>1. CASE d = c
      BY <3>1, <1>9, <1>10
    <3>2. CASE d # c
      <4>1. sock'[d] = sock[d] /\ sock[d] \in Ids /\ owner[sock[d]] = d /\ d # None
        BY <2>1, <3>2, <1>10, ClientsAssumption DEF IInv, TypeOK, OwnSession
      <4>2. sock[d] \in Ids \ {x}
        BY <4>1, <1>10
      <4>3. signalID[d] = sock[d] \/ Greeted(mail[sock[d]])
        BY <2>1, <4>1 DEF PInv, Welcomed
      <4>. QED BY <4>1, <4>2, <4>3, <1>2, <1>8
    <3>. QED BY <3>1, <3>2
  <2>. QED BY <2>1 DEF Welcomed
<1>16. \A i \in Ids : /\ \A t \in {"offer", "answer"} : ~ Flies(t, x, i)' /\ ~ Flies(t, i, x)'
  <2>1. ASSUME NEW i \in Ids, NEW t \in {"offer", "answer"}, NEW m \in In(i)', m.type = t
        PROVE  m.from # x /\ i # x
    BY <2>1, <1>3, <1>8, <1>9, <1>10 DEF PInv, MailIsDrawn
  <2>2. ASSUME NEW i \in Ids, NEW t \in {"offer", "answer"} PROVE ~ Flies(t, x, i)'
    BY <2>1 DEF Flies
  <2>3. ASSUME NEW i \in Ids, NEW t \in {"offer", "answer"} PROVE ~ Flies(t, i, x)'
    BY <2>1 DEF Flies
  <2>. QED BY <2>2, <2>3
<1>17. /\ \A d \in Clients : peers[d][x].state = "none"
       /\ \A i \in Ids : peers[c][i].state = "none"
  BY <1>1, <1>2, NoPeerIsPeer DEF PInv, PeersAreDrawn, IInv, OwnSession
<1>18. ASSUME NEW i \in Ids, NEW j \in Ids, Live(i, j)' PROVE InStep(i, j)'
  <2>1. i > j /\ {i, j} \notin broken /\ i # j
    BY <1>2, <1>18, IdsAssumption DEF Live
  <2>2. CASE i = x
    <3>1. j \in up /\ j # x /\ owner[j] \in Clients
      BY <2>1, <2>2, <1>1, <1>18, Owners DEF Live
    <3>2. Told(i, j)'
      BY <2>2, <3>1, <1>3, <1>9, <1>11 DEF Told, Tells
    <3>3. End(i, j)' = "none" /\ End(j, i)' = "none"
      BY <2>2, <3>1, <1>2, <1>10, <1>17 DEF End
    <3>. QED BY <2>2, <3>2, <3>3, <1>16 DEF InStep
  <2>3. CASE j = x
    <3>1. i \in up /\ i # x /\ owner[i] \in Clients
      BY <2>1, <2>3, <1>1, <1>18, Owners DEF Live
    <3>2. Told(i, j)'
      BY <2>3, <3>1, <1>3, <1>8, <1>11 DEF Told, Tells
    <3>3. End(i, j)' = "none" /\ End(j, i)' = "none"
      BY <2>3, <3>1, <1>2, <1>10, <1>17 DEF End
    <3>. QED BY <2>3, <3>2, <3>3, <1>16 DEF InStep
  <2>4. CASE i # x /\ j # x
    <3>1. Live(i, j)
      BY <2>1, <2>4, <1>1, <1>18 DEF Live
    <3>2. InStep(i, j)
      BY <3>1 DEF PInv, PairsInStep
    <3>3. End(i, j)' = End(i, j) /\ End(j, i)' = End(j, i)
      BY <2>4, <1>2, <1>10 DEF End
    <3>4. Told(i, j) => Told(i, j)'
      BY <2>4, <1>8 DEF Told, Tells
    <3>5. /\ Flies("offer", i, j)' <=> Flies("offer", i, j)
          /\ Flies("answer", j, i)' <=> Flies("answer", j, i)
      BY <2>4, <1>3, <1>8 DEF Flies
    <3>. QED BY <3>2, <3>3, <3>4, <3>5, PairKept
  <2>. QED BY <2>2, <2>3, <2>4
<1>. QED BY <1>12, <1>13, <1>14, <1>15, <1>18 DEF PInv, PairsInStep

\* The rendezvous tells of a departure after the socket was lost.
LEMMA LeavePairs == ASSUME IInv, PInv, NEW x \in Ids, Leave(x) PROVE PInv'
<1> DEFINE note == Note("peer-left", x)
<1>1. /\ x \in room /\ x \notin up /\ room' = room \ {x}
      /\ mail' = Posted(mail, up, note)
      /\ UNCHANGED <<up, owner, sock, signalID, peers, broken>>
  BY DEF Leave
<1>2. /\ note \in Signal /\ note.type = "peer-left" /\ note.from = x /\ note.peers = {}
      /\ owner[x] # None
  BY <1>1, NoteIsSignal DEF Note, PInv, RoomIsDrawn
<1> HIDE DEF note
<1>3. mail \in [Ids -> Seq(Signal)]
  BY DEF IInv, TypeOK
<1>4. \A i \in Ids :
        /\ In(i)' = In(i) \cup (IF i \in up THEN {note} ELSE {})
        /\ Greeted(mail[i]) => Greeted(mail'[i])
  <2>1. ASSUME NEW i \in Ids
        PROVE  /\ In(i)' = In(i) \cup (IF i \in up THEN {note} ELSE {})
               /\ Greeted(mail[i]) => Greeted(mail'[i])
    <3> DEFINE box == Posted(mail, up, note)
    <3>1. /\ Within(box[i]) = Within(mail[i]) \cup (IF i \in up \cap up THEN {note} ELSE {})
          /\ Greeted(mail[i]) => Greeted(box[i])
      BY <1>2, <1>3, PostedWithin
    <3>2. mail' = box
      BY <1>1
    <3> HIDE DEF box
    <3>. QED BY <3>1, <3>2 DEF In
  <2>. QED BY <2>1
<1>5. RoomIsDrawn' /\ PeersAreDrawn'
  BY <1>1 DEF PInv, RoomIsDrawn, PeersAreDrawn
<1>6. MailIsDrawn'
  BY <1>1, <1>2, <1>4 DEF PInv, MailIsDrawn
<1>7. Welcomed'
  BY <1>1, <1>4 DEF PInv, Welcomed, IInv, TypeOK
<1>8. ASSUME NEW i \in Ids, NEW j \in Ids, Live(i, j)' PROVE InStep(i, j)'
  <2>1. InStep(i, j)
    BY <1>1, <1>8 DEF Live, PInv, PairsInStep
  <2>2. End(i, j)' = End(i, j) /\ End(j, i)' = End(j, i)
    BY <1>1 DEF End
  <2>3. Told(i, j) => Told(i, j)'
    BY <1>4 DEF Told, Tells
  <2>4. /\ Flies("offer", i, j)' <=> Flies("offer", i, j)
        /\ Flies("answer", j, i)' <=> Flies("answer", j, i)
    BY <1>2, <1>4 DEF Flies
  <2>. QED BY <2>1, <2>2, <2>3, <2>4, PairKept
<1>. QED BY <1>5, <1>6, <1>7, <1>8 DEF PInv, PairsInStep

\* A session ends: its box and its connections go with it.
LEMMA SessionOver ==
  ASSUME IInv, PInv, NEW c \in Clients,
         up' \subseteq up, sock[c] \notin up',
         sock' = [sock EXCEPT ![c] = None],
         \A i \in Ids : i # sock[c] => mail'[i] = mail[i],
         \A i \in Ids : i = sock[c] => mail'[i] = <<>>,
         \A d \in Clients, i \in Ids : peers'[d][i] = IF d = c THEN NoPeer ELSE peers[d][i],
         \A d \in Clients : d # c => signalID'[d] = signalID[d],
         UNCHANGED <<room, owner, broken>>
  PROVE  PInv'
<1>1. \A d \in Clients : sock'[d] = IF d = c THEN None ELSE sock[d]
  BY DEF IInv, TypeOK
<1>2. /\ \A i \in Ids : i # sock[c] => In(i)' = In(i)
      /\ \A i \in Ids : i = sock[c] => In(i)' = {}
  <2>1. Within(<<>>) = {}
    BY DEF Within
  <2>. QED BY <2>1 DEF In
<1>3. ASSUME NEW i \in up'
      PROVE  /\ i \in up /\ i \in Ids /\ owner[i] \in Clients /\ owner[i] # c
             /\ sock[owner[i]] = i /\ i # sock[c]
  BY <1>3, Owners
<1>4. RoomIsDrawn'
  BY <1>1, <1>3 DEF PInv, RoomIsDrawn
<1>5. MailIsDrawn'
  <2>1. \A i \in Ids : In(i)' \subseteq In(i)
    BY <1>2
  <2>. QED BY <2>1 DEF PInv, MailIsDrawn
<1>6. PeersAreDrawn'
  BY NoPeerIsPeer DEF PInv, PeersAreDrawn
<1>7. Welcomed'
  <2>1. ASSUME NEW d \in Clients, sock'[d] # None
        PROVE  signalID'[d] = sock'[d] \/ Greeted(mail'[sock'[d]])
    <3>1. d # c /\ sock'[d] = sock[d] /\ sock[d] \in Ids /\ owner[sock[d]] = d
      BY <2>1, <1>1 DEF IInv, TypeOK, OwnSession
    <3>2. sock[d] # sock[c]
      BY <2>1, <3>1 DEF IInv, OwnSession
    <3>3. signalID[d] = sock[d] \/ Greeted(mail[sock[d]])
      BY <2>1, <3>1 DEF PInv, Welcomed
    <3>. QED BY <3>1, <3>2, <3>3
  <2>. QED BY <2>1 DEF Welcomed
<1>8. ASSUME NEW i \in Ids, NEW j \in Ids, Live(i, j)' PROVE InStep(i, j)'
  <2>1. InStep(i, j)
    BY <1>8 DEF Live, PInv, PairsInStep
  <2>2. /\ owner[i] \in Clients /\ owner[i] # c /\ i # sock[c]
        /\ owner[j] \in Clients /\ owner[j] # c /\ j # sock[c]
    BY <1>3, <1>8 DEF Live
  <2>3. End(i, j)' = End(i, j) /\ End(j, i)' = End(j, i)
    BY <2>2 DEF End
  <2>4. In(i)' = In(i) /\ In(j)' = In(j)
    BY <2>2, <1>2
  <2>5. /\ Told(i, j)' <=> Told(i, j)
        /\ Flies("offer", i, j)' <=> Flies("offer", i, j)
        /\ Flies("answer", j, i)' <=> Flies("answer", j, i)
    BY <2>4 DEF Told, Tells, Flies
  <2>. QED BY <2>1, <2>3, <2>5, PairKept
<1>. QED BY <1>4, <1>5, <1>6, <1>7, <1>8 DEF PInv, PairsInStep

LEMMA SessionEndsPairs == ASSUME IInv, PInv, NEW c \in Clients, SessionEnds(c) PROVE PInv'
<1>1. /\ sock[c] \notin up
      /\ sock' = [sock EXCEPT ![c] = None]
      /\ signalID' = [signalID EXCEPT ![c] = None]
      /\ mail' = [mail EXCEPT ![sock[c]] = <<>>]
      /\ RemovePeers(c, Ids)
      /\ UNCHANGED <<room, up, owner, broken>>
  BY DEF SessionEnds
<1>2. \A d \in Clients, i \in Ids :
        peers'[d][i] = IF d = c /\ i \in Ids THEN NoPeer ELSE peers[d][i]
  <2>1. Ids \in SUBSET Ids /\ TypeOK
    BY DEF IInv
  <2>. QED BY <1>1, <2>1, RemoveEffect, Zenon
<1>3. /\ \A i \in Ids : i # sock[c] => mail'[i] = mail[i]
      /\ \A i \in Ids : i = sock[c] => mail'[i] = <<>>
      /\ \A d \in Clients : d # c => signalID'[d] = signalID[d]
  BY <1>1 DEF IInv, TypeOK
<1>4. \A d \in Clients, i \in Ids : peers'[d][i] = IF d = c THEN NoPeer ELSE peers[d][i]
  BY <1>2
<1>. QED BY <1>1, <1>3, <1>4, SessionOver

LEMMA StopPairs == ASSUME IInv, PInv, NEW c \in Clients, Stop(c) PROVE PInv'
<1>1. /\ up' = up \ {sock[c]}
      /\ sock' = [sock EXCEPT ![c] = None]
      /\ signalID' = [signalID EXCEPT ![c] = None]
      /\ mail' = [i \in Ids |-> IF i = sock[c] THEN <<>> ELSE mail[i]]
      /\ peers' = [peers EXCEPT ![c] = [i \in Ids |-> NoPeer]]
      /\ UNCHANGED <<room, owner, broken>>
  BY DEF Stop
<1>2. /\ \A i \in Ids : i # sock[c] => mail'[i] = mail[i]
      /\ \A i \in Ids : i = sock[c] => mail'[i] = <<>>
      /\ \A d \in Clients : d # c => signalID'[d] = signalID[d]
      /\ \A d \in Clients, i \in Ids : peers'[d][i] = IF d = c THEN NoPeer ELSE peers[d][i]
  BY <1>1 DEF IInv, TypeOK
<1>. QED BY <1>1, <1>2, SessionOver

-----------------------------------------------------------------------------
(* Every action keeps the pairs in step: channels.                         *)

\* A step that sends no signal and changes no end of two sessions that work.
LEMMA EndsKept ==
  ASSUME IInv, PInv, UNCHANGED <<room, mail, owner, sock, signalID>>,
         up' \subseteq up, broken \subseteq broken',
         \A d \in Clients, i \in Ids : peers'[d][i].state # "none" => peers[d][i].state # "none",
         \A i, j \in Ids : Live(i, j) /\ Live(i, j)'
           => End(i, j)' = End(i, j) /\ End(j, i)' = End(j, i)
  PROVE  PInv'
<1>1. \A i \in Ids : In(i)' = In(i)
  BY DEF In, Within
<1>2. RoomIsDrawn'
  BY DEF PInv, RoomIsDrawn
<1>3. MailIsDrawn'
  BY <1>1 DEF PInv, MailIsDrawn
<1>4. PeersAreDrawn'
  BY DEF PInv, PeersAreDrawn
<1>5. Welcomed'
  BY DEF PInv, Welcomed
<1>6. ASSUME NEW i \in Ids, NEW j \in Ids, Live(i, j)' PROVE InStep(i, j)'
  <2>1. Live(i, j) /\ InStep(i, j)
    BY <1>6 DEF Live, PInv, PairsInStep
  <2>2. End(i, j)' = End(i, j) /\ End(j, i)' = End(j, i)
    BY <1>6, <2>1
  <2>3. /\ Told(i, j)' <=> Told(i, j)
        /\ Flies("offer", i, j)' <=> Flies("offer", i, j)
        /\ Flies("answer", j, i)' <=> Flies("answer", j, i)
    BY <1>1 DEF Told, Tells, Flies
  <2>. QED BY <2>1, <2>2, <2>3, PairKept
<1>. QED BY <1>2, <1>3, <1>4, <1>5, <1>6 DEF PInv, PairsInStep

LEMMA StatesKept ==
  ASSUME IInv, PInv, UNCHANGED <<room, mail, owner, sock, signalID, broken>>, up' \subseteq up,
         \A d \in Clients, i \in Ids : peers'[d][i].state = peers[d][i].state
  PROVE  PInv'
<1>1. ASSUME NEW i \in Ids, NEW j \in Ids, Live(i, j)
      PROVE  End(i, j)' = End(i, j) /\ End(j, i)' = End(j, i)
  <2>1. owner[i] \in Clients /\ owner[j] \in Clients
    BY <1>1, Owners DEF Live
  <2>. QED BY <2>1 DEF End
<1>. QED BY <1>1, EndsKept

\* Opening a channel and learning a name change no end's state.
LEMMA ChannelPairs ==
  ASSUME IInv, PInv, NEW c \in Clients, NEW i \in Ids,
         Open(c, i) \/ Hello(c, i) \/ HelloLate(c, i) \/ SetName(c)
  PROVE  PInv'
<1>1. UNCHANGED <<room, up, mail, owner, sock, signalID, broken>>
  BY DEF Open, Hello, HelloLate, SetName, rendezvous
<1>2. peers[c][i] \in Peer /\ peers[c] \in [Ids -> Peer]
  BY DEF IInv, TypeOK
<1>3. CASE UNCHANGED peers
  BY <1>1, <1>3, StatesKept
<1>4. ASSUME NEW p \in Peer, p.state = peers[c][i].state, peers' = [peers EXCEPT ![c][i] = p]
      PROVE  PInv'
  <2>1. \A d \in Clients, j \in Ids : peers'[d][j].state = peers[d][j].state
    BY <1>4 DEF IInv, TypeOK
  <2>. QED BY <1>1, <2>1, StatesKept
<1>5. CASE Open(c, i)
  <2>1. /\ [peers[c][i] EXCEPT !.open = TRUE] \in Peer
        /\ [peers[c][i] EXCEPT !.open = TRUE].state = peers[c][i].state
    BY <1>2 DEF Peer
  <2>2. peers' = [peers EXCEPT ![c][i] = [peers[c][i] EXCEPT !.open = TRUE]]
    BY <1>5 DEF Open
  <2>. QED BY <2>1, <2>2, <1>4
<1>6. CASE Hello(c, i)
  <2>1. /\ [peers[c][i] EXCEPT !.known = TRUE] \in Peer
        /\ [peers[c][i] EXCEPT !.known = TRUE].state = peers[c][i].state
    BY <1>2 DEF Peer
  <2>2. peers' = [peers EXCEPT ![c][i] = [peers[c][i] EXCEPT !.known = TRUE]]
    BY <1>6 DEF Hello
  <2>. QED BY <2>1, <2>2, <1>4
<1>. QED BY <1>3, <1>5, <1>6 DEF HelloLate, SetName

\* A connection whose other end is gone is none of two sessions that work.
LEMMA GoneElsewhere ==
  ASSUME IInv, PInv, NEW c \in Clients, NEW x \in Ids, PeerGone(c, x),
         NEW i \in Ids, NEW j \in Ids, Live(i, j)
  PROVE  ~ (owner[i] = c /\ j = x) /\ ~ (owner[j] = c /\ i = x)
<1>1. peers[c][x].state = "agreed" /\ Counterpart(c, x).state \in {"none", "new"}
  BY DEF PeerGone
<1>2. InStep(i, j)
  BY DEF PInv, PairsInStep
<1>3. /\ i # None /\ owner[i] \in Clients /\ owner[i] # None /\ sock[owner[i]] = i
      /\ j # None /\ owner[j] \in Clients /\ owner[j] # None /\ sock[owner[j]] = j
  BY Owners, IdsAssumption, ClientsAssumption DEF Live
<1>4. ASSUME owner[i] = c, j = x PROVE FALSE
  <2>1. Counterpart(c, x) = peers[owner[j]][i] /\ End(i, j) = "agreed"
    BY <1>1, <1>3, <1>4 DEF Counterpart, End
  <2>2. End(j, i) = "agreed"
    BY <2>1, <1>2 DEF InStep
  <2>. QED BY <2>1, <2>2, <1>1 DEF End
<1>5. ASSUME owner[j] = c, i = x PROVE FALSE
  <2>1. Counterpart(c, x) = peers[owner[i]][j] /\ End(j, i) = "agreed"
    BY <1>1, <1>3, <1>5 DEF Counterpart, End
  <2>2. End(i, j) \in {"offered", "agreed"}
    BY <2>1, <1>2 DEF InStep
  <2>. QED BY <2>1, <2>2, <1>1 DEF End
<1>. QED BY <1>4, <1>5

\* A connection both ends agreed on is lost only by failing, while both sessions work.
LEMMA PeerGonePairs == ASSUME IInv, PInv, NEW c \in Clients, NEW x \in Ids, PeerGone(c, x) PROVE PInv'
<1>1. /\ peers[c][x].state = "agreed"
      /\ Counterpart(c, x).state \in {"none", "new"}
      /\ RemovePeers(c, {x})
      /\ UNCHANGED <<room, up, mail, owner, sock, signalID, broken>>
  BY DEF PeerGone, rendezvous
<1>2. \A d \in Clients, i \in Ids :
        peers'[d][i] = IF d = c /\ i \in {x} THEN NoPeer ELSE peers[d][i]
  <2>1. {x} \in SUBSET Ids /\ TypeOK
    BY DEF IInv
  <2>. QED BY <1>1, <2>1, RemoveEffect, Zenon
<1>3. ASSUME NEW i \in Ids, NEW j \in Ids, Live(i, j)
      PROVE  End(i, j)' = End(i, j) /\ End(j, i)' = End(j, i)
  <2>1. owner[i] \in Clients /\ owner[j] \in Clients
    BY <1>3, Owners DEF Live
  <2>2. ~ (owner[i] = c /\ j = x) /\ ~ (owner[j] = c /\ i = x)
    BY <1>3, GoneElsewhere
  <2>. QED BY <2>1, <2>2, <1>1, <1>2 DEF End
<1>4. \A d \in Clients, i \in Ids : peers'[d][i].state # "none" => peers[d][i].state # "none"
  BY <1>2, NoPeerIsPeer
<1>. QED BY <1>1, <1>3, <1>4, EndsKept

LEMMA FailPairs ==
  ASSUME IInv, PInv, NEW c \in Clients, NEW x \in Ids, Fail(c, x) \/ CloseLate(c, x)
  PROVE  PInv'
<1>1. /\ broken' = broken \cup {{sock[c], x}}
      /\ RemovePeers(c, {x})
      /\ UNCHANGED <<room, up, mail, owner, sock, signalID>>
  BY DEF Fail, CloseLate, rendezvous
<1>2. \A d \in Clients, i \in Ids :
        peers'[d][i] = IF d = c /\ i \in {x} THEN NoPeer ELSE peers[d][i]
  <2>1. {x} \in SUBSET Ids /\ TypeOK
    BY DEF IInv
  <2>. QED BY <1>1, <2>1, RemoveEffect, Zenon
<1>3. ASSUME NEW i \in Ids, NEW j \in Ids, Live(i, j), Live(i, j)'
      PROVE  End(i, j)' = End(i, j) /\ End(j, i)' = End(j, i)
  <2>1. /\ owner[i] \in Clients /\ sock[owner[i]] = i
        /\ owner[j] \in Clients /\ sock[owner[j]] = j
    BY <1>3, Owners DEF Live
  <2>2. {sock[c], x} # {i, j}
    BY <1>1, <1>3 DEF Live
  <2>3. ~ (owner[i] = c /\ j = x) /\ ~ (owner[j] = c /\ i = x)
    BY <2>1, <2>2
  <2>. QED BY <2>1, <2>3, <1>1, <1>2 DEF End
<1>4. \A d \in Clients, i \in Ids : peers'[d][i].state # "none" => peers[d][i].state # "none"
  BY <1>2, NoPeerIsPeer
<1>. QED BY <1>1, <1>3, <1>4, EndsKept

-----------------------------------------------------------------------------
(* The theorem.                                                            *)

LEMMA InitPairs == Init => PInv
<1> SUFFICES ASSUME Init PROVE PInv
  OBVIOUS
<1>1. \A i \in Ids : In(i) = {}
  BY DEF Init, In, Within
<1>2. RoomIsDrawn /\ MailIsDrawn /\ PeersAreDrawn /\ Welcomed
  BY <1>1, NoPeerIsPeer DEF Init, RoomIsDrawn, MailIsDrawn, PeersAreDrawn, Welcomed
<1>3. PairsInStep
  BY DEF Init, PairsInStep, Live
<1>. QED BY <1>2, <1>3 DEF PInv

LEMMA NextPairs == IInv /\ PInv /\ [Next]_vars => PInv'
<1> SUFFICES ASSUME IInv, PInv, [Next]_vars PROVE PInv'
  OBVIOUS
<1>1. ASSUME NEW c \in Clients, Connect(c) \/ SessionEnds(c) \/ Stop(c) PROVE PInv'
  BY <1>1, ConnectPairs, SessionEndsPairs, StopPairs
<1>2. ASSUME NEW c \in Clients, SetName(c) PROVE PInv'
  <2>1. UNCHANGED <<room, up, mail, owner, sock, signalID, broken, peers>>
    BY <1>2 DEF SetName, rendezvous
  <2>. QED BY <2>1, StatesKept
<1>3. ASSUME NEW c \in Clients, HandleSignal(c) PROVE PInv'
  BY <1>3, HandleWelcomePairs, HandleJoinedPairs, HandleLeftPairs, HandleOfferPairs,
     HandleAnswerPairs DEF HandleSignal
<1>4. ASSUME NEW c \in Clients, NEW i \in Ids,
             Open(c, i) \/ Hello(c, i) \/ HelloLate(c, i) \/ PeerGone(c, i)
             \/ Fail(c, i) \/ CloseLate(c, i)
      PROVE  PInv'
  BY <1>4, ChannelPairs, PeerGonePairs, FailPairs
<1>5. ASSUME NEW i \in Ids, Drop(i) PROVE PInv'
  <2>1. up' \subseteq up /\ UNCHANGED <<room, mail, owner, sock, signalID, broken, peers>>
    BY <1>5 DEF Drop
  <2>. QED BY <2>1, StatesKept
<1>6. ASSUME NEW i \in Ids, Leave(i) PROVE PInv'
  BY <1>6, LeavePairs
<1>7. CASE UNCHANGED vars
  BY <1>7, StatesKept DEF vars, rendezvous
<1>. QED BY <1>1, <1>2, <1>3, <1>4, <1>5, <1>6, <1>7 DEF Next

\* Where each two sessions that work are in their negotiation.
THEOREM PairsInvariant == Spec => []PInv
<1>1. Init => PInv
  BY InitPairs
<1>2. IInv /\ PInv /\ [Next]_vars => PInv'
  BY NextPairs
<1>. QED BY <1>1, <1>2, MeshInvariant, PTL DEF Spec

\* Two engines that have handled all their signals have agreed on a connection, or had one
\* that failed (handleSignal, connectPeer): nobody waits for an offer or an answer that
\* never comes.
THEOREM NobodyWaits == Spec => []PairsAgree
<1>1. ASSUME IInv, PInv PROVE PairsAgree
  <2>1. SUFFICES ASSUME NEW c \in Clients, NEW d \in Clients, c # d, Settled(c), Settled(d),
                        {sock[c], sock[d]} \notin broken
                 PROVE  peers[c][sock[d]].state = "agreed"
    BY DEF PairsAgree
  <2> DEFINE i == sock[c]
             j == sock[d]
  <2>2. /\ i \in up /\ j \in up /\ i \in Ids /\ j \in Ids /\ i \in Nat /\ j \in Nat
        /\ owner[i] = c /\ owner[j] = d
    BY <1>1, <2>1, Owners DEF Settled
  <2>3. In(i) = {} /\ In(j) = {}
    BY <2>1 DEF Settled, In, Within
  <2>4. {i, j} \notin broken /\ {j, i} \notin broken
    <3>1. {i, j} = {j, i}
      OBVIOUS
    <3>. QED BY <3>1, <2>1
  <2>5. End(i, j) = peers[c][j].state
    BY <2>2 DEF End
  <2> HIDE DEF i, j
  <2>6. /\ ~ Told(i, j) /\ ~ Told(j, i)
        /\ \A t \in {"offer", "answer"} : ~ Flies(t, i, j) /\ ~ Flies(t, j, i)
    BY <2>3 DEF Told, Flies
  <2>7. CASE i > j
    <3>1. InStep(i, j)
      BY <1>1, <2>2, <2>4, <2>7 DEF PInv, PairsInStep, Live
    <3>. QED BY <3>1, <2>5, <2>6 DEF InStep, j
  <2>8. CASE j > i
    <3>1. InStep(j, i)
      BY <1>1, <2>2, <2>4, <2>8 DEF PInv, PairsInStep, Live
    <3>. QED BY <3>1, <2>5, <2>6 DEF InStep, j
  <2>. QED BY <2>1, <2>2, <2>7, <2>8
<1>. QED BY <1>1, MeshInvariant, PairsInvariant, PTL
-----------------------------------------------------------------------------
(***************************************************************************)
(* Names reach those who negotiated.  Of two sessions that work, the       *)
(* greater is told of the other once only, so that it never offers again   *)
(* on a connection it has; a channel is open only while both ends agree,   *)
(* and what was said over it is on its way or known.                       *)
(***************************************************************************)

\* The end that session i has of its connection to j.
Line(i, j) == peers[owner[i]][j]

\* s tells of j once at most.
Once(s, j) == \A k, l \in 1..Len(s) : Tells(s[k], j) /\ Tells(s[l], j) => k = l

TellsOnce(i, j) == Once(mail[i], j)

\* What i said over its channel to j is known there, or on its way.
Reaches(i, j) == Line(i, j).open => Line(j, i).known \/ <<j, i>> \in hello

Bond(i, j) ==
  /\ TellsOnce(i, j)
  /\ Line(i, j).state \in {"offered", "agreed"} => ~ Told(i, j)
  /\ Line(i, j).open \/ Line(j, i).open
       => Line(i, j).state = "agreed" /\ Line(j, i).state = "agreed"
  /\ Reaches(i, j) /\ Reaches(j, i)

\* No channel is open where there is no connection.
Blank == \A c \in Clients, i \in Ids : peers[c][i].open => peers[c][i].state # "none"

BInv == Blank /\ \A i, j \in Ids : Live(i, j) => Bond(i, j)

-----------------------------------------------------------------------------
(* What is told in a box.                                                  *)

LEMMA OnceAppend ==
  ASSUME NEW s \in Seq(Signal), NEW m \in Signal, NEW j, Once(s, j),
         ~ Tells(m, j) \/ \A n \in Within(s) : ~ Tells(n, j)
  PROVE  Once(Append(s, m), j)
<1> DEFINE t == Append(s, m)
<1>1. /\ Len(t) = Len(s) + 1 /\ Len(s) \in Nat
      /\ \A k \in 1..Len(s) : t[k] = s[k]
      /\ t[Len(s) + 1] = m
  BY AppendProperties, LenProperties
<1> HIDE DEF t
<1>2. SUFFICES ASSUME NEW k \in 1..Len(t), NEW l \in 1..Len(t), Tells(t[k], j), Tells(t[l], j)
               PROVE  k = l
  BY DEF Once, t
<1>3. CASE k \in 1..Len(s) /\ l \in 1..Len(s)
  <2>1. Tells(s[k], j) /\ Tells(s[l], j)
    BY <1>1, <1>2, <1>3
  <2>. QED BY <1>3, <2>1 DEF Once
<1>4. CASE k = Len(s) + 1 /\ l = Len(s) + 1
  BY <1>4
<1>5. CASE k \in 1..Len(s) /\ l = Len(s) + 1
  <2>1. s[k] \in Within(s) /\ Tells(s[k], j) /\ Tells(m, j)
    BY <1>1, <1>2, <1>5 DEF Within
  <2>. QED BY <2>1
<1>6. CASE l \in 1..Len(s) /\ k = Len(s) + 1
  <2>1. s[l] \in Within(s) /\ Tells(s[l], j) /\ Tells(m, j)
    BY <1>1, <1>2, <1>6 DEF Within
  <2>. QED BY <2>1
<1>. QED BY <1>1, <1>3, <1>4, <1>5, <1>6

LEMMA OnceTail ==
  ASSUME NEW s \in Seq(Signal), s # <<>>, NEW j, Once(s, j)
  PROVE  /\ Once(Tail(s), j)
         /\ Tells(Head(s), j) => \A n \in Within(Tail(s)) : ~ Tells(n, j)
<1> DEFINE t == Tail(s)
<1>1. /\ Len(s) \in Nat \ {0} /\ Len(t) = Len(s) - 1 /\ Head(s) = s[1]
      /\ \A k \in 1..(Len(s) - 1) : t[k] = s[k + 1]
  BY HeadTailProperties, EmptySeq, LenProperties
<1> HIDE DEF t
<1>2. \A k \in 1..Len(t) : t[k] = s[k + 1] /\ k + 1 \in 1..Len(s) /\ k + 1 # 1
  BY <1>1
<1>3. Once(t, j)
  <2> SUFFICES ASSUME NEW k \in 1..Len(t), NEW l \in 1..Len(t), Tells(t[k], j), Tells(t[l], j)
               PROVE  k = l
    BY DEF Once
  <2>1. Tells(s[k + 1], j) /\ Tells(s[l + 1], j)
    BY <1>2
  <2>2. k + 1 = l + 1
    BY <1>2, <2>1 DEF Once
  <2>. QED BY <2>2
<1>4. ASSUME Tells(Head(s), j), NEW n \in Within(t), Tells(n, j) PROVE FALSE
  <2>1. PICK k \in 1..Len(t) : n = t[k]
    BY DEF Within
  <2>2. Tells(s[1], j) /\ Tells(s[k + 1], j) /\ 1 \in 1..Len(s)
    BY <1>1, <1>2, <1>4, <2>1
  <2>3. 1 = k + 1
    BY <1>2, <2>2 DEF Once
  <2>. QED BY <1>2, <2>3
<1>. QED BY <1>3, <1>4 DEF t

LEMMA PostedOnce ==
  ASSUME NEW box \in [Ids -> Seq(Signal)], NEW to, NEW m \in Signal, NEW i \in Ids, NEW j,
         Once(box[i], j), ~ Tells(m, j) \/ \A n \in Within(box[i]) : ~ Tells(n, j)
  PROVE  Once(Posted(box, to, m)[i], j)
<1>1. box[i] \in Seq(Signal)
  OBVIOUS
<1>2. Posted(box, to, m)[i] \in {box[i], Append(box[i], m)}
  BY DEF Posted
<1>. QED BY <1>1, <1>2, OnceAppend

\* A handler tells nobody of anybody, and what it handles it is told no more.
LEMMA HandledOnce ==
  ASSUME TypeOK, NEW c \in Clients, Waiting(c), NEW to, NEW type \in {"offer", "answer"},
         SendSignal(c, to, type, Handled(c)) \/ mail' = Handled(c),
         NEW i \in Ids, NEW j \in Ids, TellsOnce(i, j)
  PROVE  /\ TellsOnce(i, j)'
         /\ Told(i, j)' => Told(i, j)
         /\ i = sock[c] /\ Tells(Incoming(c), j) => ~ Told(i, j)'
<1> DEFINE note == Note(type, sock[c])
           box == Handled(c)
<1>1. /\ sock[c] \in Ids /\ box \in [Ids -> Seq(Signal)]
      /\ mail[sock[c]] \in Seq(Signal) /\ mail[sock[c]] # <<>>
  BY HandledBox DEF TypeOK, Waiting
<1>2. /\ In(sock[c]) = {Incoming(c)} \cup Within(box[sock[c]])
      /\ \A x \in Ids \ {sock[c]} : box[x] = mail[x]
      /\ box[sock[c]] = Tail(mail[sock[c]]) /\ Incoming(c) = Head(mail[sock[c]])
  <2>1. box[sock[c]] = Tail(mail[sock[c]]) /\ Incoming(c) = Head(mail[sock[c]])
    BY <1>1 DEF Handled, Incoming, TypeOK
  <2>. QED BY <2>1, HandledWithin
<1>3. note \in Signal /\ ~ Tells(note, j)
  BY <1>1, NoteIsSignal DEF Tells
<1> HIDE DEF note, box
<1>4. /\ Once(box[i], j)
      /\ \A m \in Within(box[i]) : m \in In(i)
      /\ i = sock[c] /\ Tells(Incoming(c), j) => \A m \in Within(box[i]) : ~ Tells(m, j)
  <2>. USE DEF TellsOnce
  <2>1. CASE i = sock[c]
    BY <1>1, <1>2, <2>1, OnceTail
  <2>2. CASE i # sock[c]
    BY <1>2, <2>2 DEF In
  <2>. QED BY <2>1, <2>2
<1>5. Once(mail'[i], j) /\ \A m \in In(i)' : m \in Within(box[i]) \/ m = note
  <2>1. CASE mail' = box
    BY <1>4, <2>1 DEF In
  <2>2. ASSUME NEW routed, mail' = Posted(box, routed, note)
        PROVE  Once(mail'[i], j) /\ \A m \in In(i)' : m \in Within(box[i]) \/ m = note
    <3> DEFINE got == Posted(box, routed, note)
    <3>1. Once(got[i], j)
      BY <1>1, <1>3, <1>4, PostedOnce
    <3>2. Within(got[i]) = Within(box[i]) \cup (IF i \in routed \cap up THEN {note} ELSE {})
      <4>1. i \in Ids /\ note \in Signal /\ box \in [Ids -> Seq(Signal)]
        BY <1>1, <1>3
      <4>2. /\ Within(Posted(box, routed, note)[i]) =
                 Within(box[i]) \cup (IF i \in routed \cap up THEN {note} ELSE {})
            /\ Greeted(box[i]) => Greeted(Posted(box, routed, note)[i])
        BY <4>1, PostedWithin, Zenon
      <4>. QED BY <4>2
    <3> HIDE DEF got
    <3>3. mail' = got
      BY <2>2 DEF got
    <3>. QED BY <3>1, <3>2, <3>3 DEF In
  <2>3. CASE SendSignal(c, to, type, box)
    BY <2>1, <2>2, <2>3 DEF SendSignal, note
  <2>. QED BY <2>1, <2>3 DEF box
<1>6. TellsOnce(i, j)'
  BY <1>5 DEF TellsOnce, Once
<1>. QED BY <1>3, <1>4, <1>5, <1>6 DEF Told
-----------------------------------------------------------------------------
(* What the actions do to a bond: signals.                                 *)

LEMMA BondKept ==
  ASSUME NEW i \in Ids, NEW j \in Ids, Bond(i, j), TellsOnce(i, j)', Told(i, j)' => Told(i, j),
         Line(i, j)' = Line(i, j), Line(j, i)' = Line(j, i), hello \subseteq hello'
  PROVE  Bond(i, j)'
BY DEF Bond, Reaches

\* What connectPeer does to the ends of c.
LEMMA ConnectLines ==
  ASSUME TypeOK, NEW c \in Clients, NEW ours, NEW those \in SUBSET Ids, ConnectPeers(c, ours, those)
  PROVE  \A i \in Ids : /\ peers'[c][i].open = peers[c][i].open
                        /\ peers'[c][i].known = peers[c][i].known
                        /\ peers[c][i].state # "none" => peers'[c][i].state # "none"
<1> DEFINE others == IF ours = None THEN {} ELSE those \ {ours}
           offers == {i \in others : Initiates(ours, i)}
           Now(i) == IF i \in offers THEN [Ensured(peers[c][i]) EXCEPT !.state = "offered"]
                     ELSE IF i \in others THEN Ensured(peers[c][i]) ELSE peers[c][i]
<1>1. peers' = [peers EXCEPT ![c] = [i \in Ids |-> Now(i)]]
  BY DEF ConnectPeers
<1>2. ASSUME NEW p \in Peer
      PROVE  /\ Ensured(p).open = p.open /\ Ensured(p).known = p.known
             /\ p.state # "none" => Ensured(p).state = p.state
             /\ [Ensured(p) EXCEPT !.state = "offered"].open = p.open
             /\ [Ensured(p) EXCEPT !.state = "offered"].known = p.known
             /\ [Ensured(p) EXCEPT !.state = "offered"].state = "offered"
  <2>1. CASE p = NoPeer
    BY <2>1 DEF Ensured, NoPeer, Peer
  <2>2. CASE p # NoPeer
    BY <2>2 DEF Ensured, Peer
  <2>. QED BY <2>1, <2>2
<1>3. \A i \in Ids : peers[c][i] \in Peer
  BY DEF TypeOK
<1>4. \A i \in Ids : /\ Now(i).open = peers[c][i].open /\ Now(i).known = peers[c][i].known
                     /\ peers[c][i].state # "none" => Now(i).state # "none"
  BY <1>2, <1>3
<1> HIDE DEF Now
<1>5. \A i \in Ids : peers'[c][i] = Now(i)
  BY <1>1 DEF TypeOK
<1>. QED BY <1>4, <1>5

LEMMA ConnectPeersBonds ==
  ASSUME IInv, PInv, BInv, NEW c \in Clients, Waiting(c), NEW those \in SUBSET Ids,
         ConnectPeers(c, sock[c], those),
         \A i \in those : Tells(Incoming(c), i),
         UNCHANGED <<owner, sock, hello>>, broken \subseteq broken'
  PROVE  BInv'
<1>1. /\ up' \subseteq up
      /\ \A d \in Clients \ {c} : peers'[d] = peers[d]
      /\ \A i \in Ids :
           /\ i \in those /\ sock[c] > i => peers'[c][i].state = "offered"
           /\ i \notin those => peers'[c][i] = peers[c][i]
           /\ ~ (sock[c] > i)
                => (peers'[c][i].state = "agreed" <=> peers[c][i].state = "agreed")
  BY ConnectEnds DEF Moves
<1>2. \A i \in Ids : /\ peers'[c][i].open = peers[c][i].open
                     /\ peers'[c][i].known = peers[c][i].known
                     /\ peers[c][i].state # "none" => peers'[c][i].state # "none"
  BY ConnectLines DEF IInv
<1>3. PICK to : SendSignal(c, to, "offer", Handled(c))
  BY DEF ConnectPeers
<1>4. Blank'
  BY <1>1, <1>2 DEF BInv, Blank
<1>5. ASSUME NEW i \in Ids, NEW j \in Ids, Live(i, j)' PROVE Bond(i, j)'
  <2>1. Live(i, j) /\ Bond(i, j)
    BY <1>1, <1>5 DEF Live, BInv
  <2>2. /\ TellsOnce(i, j)' /\ (Told(i, j)' => Told(i, j))
        /\ i = sock[c] /\ Tells(Incoming(c), j) => ~ Told(i, j)'
    BY <1>3, <2>1, HandledOnce DEF IInv, Bond
  <2>3. /\ i \in Nat /\ j \in Nat /\ i > j
        /\ owner[i] \in Clients /\ owner[j] \in Clients
        /\ \A d \in Clients : (d = owner[i] <=> sock[d] = i) /\ (d = owner[j] <=> sock[d] = j)
    BY <2>1, Owners DEF Live
  <2>4. CASE sock[c] = i /\ j \in those
    <3>1. Told(i, j)
      <4>1. Incoming(c) \in In(i) /\ Tells(Incoming(c), j)
        BY <2>4, HandledWithin DEF IInv
      <4>. QED BY <4>1 DEF Told
    <3>2. ~ Line(i, j).open /\ ~ Line(j, i).open
      BY <2>1, <3>1 DEF Bond
    <3>3. ~ Line(i, j)'.open /\ Line(j, i)' = Line(j, i)
      BY <2>3, <2>4, <3>2, <1>1, <1>2 DEF Line
    <3>4. ~ Told(i, j)'
      BY <2>2, <2>4
    <3>. QED BY <2>2, <3>2, <3>3, <3>4 DEF Bond, Reaches
  <2>5. CASE sock[c] = j
    <3>1. Line(i, j)' = Line(i, j)
      BY <2>3, <2>5, <1>1 DEF Line
    <3>2. /\ Line(j, i)'.open = Line(j, i).open /\ Line(j, i)'.known = Line(j, i).known
          /\ Line(j, i)'.state = "agreed" <=> Line(j, i).state = "agreed"
      BY <2>3, <2>5, <1>1, <1>2 DEF Line
    <3>. QED BY <2>1, <2>2, <3>1, <3>2 DEF Bond, Reaches
  <2>6. CASE sock[c] # j /\ ~ (sock[c] = i /\ j \in those)
    <3>1. Line(i, j)' = Line(i, j) /\ Line(j, i)' = Line(j, i)
      BY <2>3, <2>6, <1>1 DEF Line
    <3>. QED BY <2>1, <2>2, <3>1, BondKept
  <2>. QED BY <2>3, <2>4, <2>5, <2>6
<1>. QED BY <1>4, <1>5 DEF BInv

LEMMA ConnectSomeBonds ==
  ASSUME IInv, PInv, BInv, NEW c \in Clients, Waiting(c), NEW those \in SUBSET Ids,
         ConnectSome(c, sock[c], those),
         \A i \in Ids : Tells(Incoming(c), i) <=> i \in those,
         UNCHANGED <<owner, sock, hello>>
  PROVE  BInv'
<1>1. PICK reached \in SUBSET those :
        /\ ConnectPeers(c, sock[c], reached)
        /\ broken' = broken \cup {{sock[c], i} : i \in those \ reached}
  BY DEF ConnectSome
<1>2. reached \in SUBSET Ids /\ \A i \in reached : Tells(Incoming(c), i)
  OBVIOUS
<1>3. broken \subseteq broken'
  BY <1>1
<1>. QED BY <1>1, <1>2, <1>3, ConnectPeersBonds

LEMMA HandleWelcomeBonds == ASSUME IInv, PInv, BInv, NEW c \in Clients, HandleWelcome(c) PROVE BInv'
<1>1. /\ Waiting(c) /\ Incoming(c).type = "welcome"
      /\ ConnectSome(c, Incoming(c).from, Incoming(c).peers)
      /\ UNCHANGED <<owner, sock, hello>>
  BY DEF HandleWelcome
<1>2. /\ sock[c] \in Ids /\ Incoming(c) \in Signal
      /\ Incoming(c) = mail[sock[c]][1] /\ 1 \in 1..Len(mail[sock[c]])
  BY <1>1, HandledBox DEF IInv
<1>3. Incoming(c).from = sock[c] /\ Incoming(c).peers \in SUBSET Ids
  BY <1>1, <1>2 DEF IInv, OwnWelcome, Signal
<1>4. \A i \in Ids : Tells(Incoming(c), i) <=> i \in Incoming(c).peers
  BY <1>1 DEF Tells
<1>. QED BY <1>1, <1>3, <1>4, ConnectSomeBonds

LEMMA HandleJoinedBonds == ASSUME IInv, PInv, BInv, NEW c \in Clients, HandleJoined(c) PROVE BInv'
<1>1. /\ Waiting(c) /\ Incoming(c).type = "peer-joined"
      /\ ConnectSome(c, signalID[c], {Incoming(c).from})
      /\ UNCHANGED <<owner, sock, hello>>
  BY DEF HandleJoined
<1>2. {Incoming(c).from} \in SUBSET Ids
  BY <1>1, HandledBox DEF IInv, Signal
<1>3. \A i \in Ids : Tells(Incoming(c), i) <=> i \in {Incoming(c).from}
  BY <1>1 DEF Tells
<1>4. signalID[c] = sock[c]
  BY <1>1, KnowsItsId
<1>. QED BY <1>1, <1>2, <1>3, <1>4, ConnectSomeBonds

\* A handler that tells nothing and changes at most the states of ends, towards "agreed".
LEMMA SignalBonds ==
  ASSUME IInv, PInv, BInv, NEW c \in Clients, Waiting(c), NEW to, NEW type \in {"offer", "answer"},
         SendSignal(c, to, type, Handled(c)) \/ mail' = Handled(c), up' \subseteq up,
         \A d \in Clients, i \in Ids :
           /\ peers'[d][i].open = peers[d][i].open /\ peers'[d][i].known = peers[d][i].known
           /\ \/ peers'[d][i].state = peers[d][i].state
              \/ /\ peers'[d][i].state = "agreed"
                 /\ i > sock[d] \/ peers[d][i].state = "offered",
         UNCHANGED <<owner, sock, hello, broken>>
  PROVE  BInv'
<1>1. Blank'
  BY DEF BInv, Blank
<1>2. ASSUME NEW i \in Ids, NEW j \in Ids, Live(i, j)' PROVE Bond(i, j)'
  <2>1. Live(i, j) /\ Bond(i, j)
    BY <1>2 DEF Live, BInv
  <2>2. TellsOnce(i, j)' /\ (Told(i, j)' => Told(i, j))
    BY <2>1, HandledOnce DEF IInv, Bond
  <2>3. /\ i \in Nat /\ j \in Nat /\ i > j /\ ~ (j > i)
        /\ owner[i] \in Clients /\ owner[j] \in Clients /\ sock[owner[i]] = i
    BY <2>1, Owners DEF Live
  <2>4. /\ Line(i, j)'.open = Line(i, j).open /\ Line(i, j)'.known = Line(i, j).known
        /\ Line(j, i)'.open = Line(j, i).open /\ Line(j, i)'.known = Line(j, i).known
        /\ Line(j, i).state = "agreed" => Line(j, i)'.state = "agreed"
        /\ Line(i, j).state = "agreed" => Line(i, j)'.state = "agreed"
        /\ Line(i, j)'.state \in {"offered", "agreed"} => Line(i, j).state \in {"offered", "agreed"}
    BY <2>3 DEF Line
  <2>. QED BY <2>1, <2>2, <2>4 DEF Bond, Reaches
<1>. QED BY <1>1, <1>2 DEF BInv

LEMMA HandleOfferBonds == ASSUME IInv, PInv, BInv, NEW c \in Clients, HandleOffer(c) PROVE BInv'
<1> DEFINE x == Incoming(c).from
           p == [Ensured(peers[c][x]) EXCEPT !.state = "agreed"]
<1>1. Waiting(c) /\ Incoming(c).type = "offer" /\ UNCHANGED <<owner, sock, hello, broken>>
  BY DEF HandleOffer
<1>2. sock[c] \in Ids /\ Incoming(c) \in Signal /\ Incoming(c) \in In(sock[c])
  BY <1>1, HandledBox, HandledWithin DEF IInv
<1>3. x \in Ids /\ x > sock[c]
  BY <1>1, <1>2 DEF Signal, PInv, MailIsDrawn
<1>4. peers[c][x].state # "offered"
  <2> HIDE DEF x
  <2>1. x \in Nat /\ sock[c] \in Nat
    BY <1>2, <1>3, IdsAssumption
  <2>2. signalID[c] = sock[c]
    BY <1>1, KnowsItsId
  <2>3. ~ (sock[c] > x)
    BY <1>3, <2>1
  <2>. QED BY <1>3, <2>2, <2>3 DEF IInv, OffersDescend
<1>5. /\ peers' = [peers EXCEPT ![c][x] = p]
      /\ SendSignal(c, {x}, "answer", Handled(c))
  BY <1>4 DEF HandleOffer
<1>6. /\ peers[c][x] \in Peer
      /\ \A q \in Peer : /\ [Ensured(q) EXCEPT !.state = "agreed"].open = q.open
                         /\ [Ensured(q) EXCEPT !.state = "agreed"].known = q.known
                         /\ [Ensured(q) EXCEPT !.state = "agreed"].state = "agreed"
  BY <1>3 DEF IInv, TypeOK, Ensured, NoPeer, Peer
<1>7. p.open = peers[c][x].open /\ p.known = peers[c][x].known /\ p.state = "agreed"
  BY <1>6
<1>8. up' \subseteq up
  BY <1>1, <1>5, SendMoves DEF IInv, Moves
<1> HIDE DEF x, p
<1>9. \A d \in Clients, i \in Ids : peers'[d][i] = IF d = c /\ i = x THEN p ELSE peers[d][i]
  BY <1>3, <1>5 DEF IInv, TypeOK
<1>. QED BY <1>1, <1>3, <1>5, <1>7, <1>8, <1>9, SignalBonds

LEMMA HandleAnswerBonds == ASSUME IInv, PInv, BInv, NEW c \in Clients, HandleAnswer(c) PROVE BInv'
<1> DEFINE x == Incoming(c).from
           p == [peers[c][x] EXCEPT !.state = "agreed"]
<1>1. /\ Waiting(c) /\ mail' = Handled(c)
      /\ peers' = IF peers[c][x].state = "offered" THEN [peers EXCEPT ![c][x] = p] ELSE peers
      /\ UNCHANGED <<up, owner, sock, hello, broken>>
  BY DEF HandleAnswer
<1>2. x \in Ids
  BY <1>1, HandledBox DEF IInv, Signal
<1>3. peers[c][x] \in Peer
  BY <1>2 DEF IInv, TypeOK
<1>4. p.open = peers[c][x].open /\ p.known = peers[c][x].known /\ p.state = "agreed"
  BY <1>3 DEF Peer
<1> HIDE DEF x, p
<1>5. \A d \in Clients, i \in Ids :
        peers'[d][i] = IF d = c /\ i = x /\ peers[c][x].state = "offered" THEN p ELSE peers[d][i]
  BY <1>1, <1>2 DEF IInv, TypeOK
<1>. QED BY <1>1, <1>4, <1>5, SignalBonds

\* A peer-left is about nobody whose socket works.
LEMMA HandleLeftBonds == ASSUME IInv, PInv, BInv, NEW c \in Clients, HandleLeft(c) PROVE BInv'
<1> DEFINE x == Incoming(c).from
<1>1. /\ Waiting(c) /\ Incoming(c).type = "peer-left"
      /\ mail' = Handled(c) /\ RemovePeers(c, {x})
      /\ UNCHANGED <<up, owner, sock, hello, broken>>
  BY DEF HandleLeft
<1>2. sock[c] \in Ids /\ Incoming(c) \in Signal /\ Incoming(c) \in In(sock[c])
  BY <1>1, HandledBox, HandledWithin DEF IInv
<1>3. x \in Ids /\ x \notin up
  BY <1>1, <1>2 DEF Signal, PInv, MailIsDrawn, IInv, TypeOK
<1> HIDE DEF x
<1>4. \A d \in Clients, i \in Ids :
        peers'[d][i] = IF d = c /\ i \in {x} THEN NoPeer ELSE peers[d][i]
  <2>1. {x} \in SUBSET Ids /\ TypeOK
    BY <1>3 DEF IInv
  <2>. QED BY <1>1, <2>1, RemoveEffect, Zenon
<1>5. Blank'
  BY <1>4 DEF BInv, Blank, NoPeer
<1>6. ASSUME NEW i \in Ids, NEW j \in Ids, Live(i, j)' PROVE Bond(i, j)'
  <2>1. Live(i, j) /\ Bond(i, j)
    BY <1>1, <1>6 DEF Live, BInv
  <2>2. TellsOnce(i, j)' /\ (Told(i, j)' => Told(i, j))
    <3>1. "offer" \in {"offer", "answer"} /\ TellsOnce(i, j) /\ TypeOK
      BY <2>1 DEF Bond, IInv
    <3>. QED BY <1>1, <3>1, HandledOnce
  <2>3. owner[i] \in Clients /\ owner[j] \in Clients /\ i # x /\ j # x
    BY <2>1, <1>3, Owners DEF Live
  <2>4. Line(i, j)' = Line(i, j) /\ Line(j, i)' = Line(j, i)
    BY <2>3, <1>1, <1>4 DEF Line
  <2>. QED BY <2>1, <2>2, <2>4, <1>1, BondKept
<1>. QED BY <1>5, <1>6 DEF BInv
-----------------------------------------------------------------------------
(* What the actions do to a bond: sessions and channels.                   *)

\* A new session is told of each of the others once, and they of it.
LEMMA ConnectBonds == ASSUME IInv, PInv, BInv, NEW c \in Clients, Connect(c) PROVE BInv'
<1>1. PICK x \in Ids :
        /\ owner[x] = None
        /\ owner' = [owner EXCEPT ![x] = c]
        /\ sock' = [sock EXCEPT ![c] = x]
        /\ mail' = [Posted(mail, room, Note("peer-joined", x)) EXCEPT
                      ![x] = <<[type |-> "welcome", from |-> x, peers |-> room]>>]
        /\ up' = up \cup {x}
  BY DEF Connect
<1>2. UNCHANGED <<peers, hello, broken>>
  BY DEF Connect
<1> DEFINE note == Note("peer-joined", x)
           box == Posted(mail, room, note)
           welcome == [type |-> "welcome", from |-> x, peers |-> room]
<1>3. /\ note \in Signal /\ note.type = "peer-joined" /\ note.from = x
      /\ \A j : Tells(note, j) => j = x
  BY NoteIsSignal DEF Note, Tells
<1>4. mail \in [Ids -> Seq(Signal)]
  BY DEF IInv, TypeOK
<1>5. mail' = [box EXCEPT ![x] = <<welcome>>]
  BY <1>1
<1>6. box \in [Ids -> Seq(Signal)]
  BY <1>3, <1>4, PostedBox
<1> HIDE DEF box, welcome, note
<1>7. /\ \A i \in Ids \ {x} : mail'[i] = box[i]
      /\ mail'[x] = <<welcome>>
  BY <1>5, <1>6
<1>8. \A i \in Ids : \A m \in In(i) : ~ Tells(m, x)
  <2>1. ASSUME NEW i \in Ids, NEW m \in In(i) PROVE m.from # x /\ x \notin m.peers
    BY <1>1 DEF PInv, MailIsDrawn
  <2>. QED BY <2>1 DEF Tells
<1>9. ASSUME NEW i \in Ids \ {x}, NEW j \in Ids, j # x => TellsOnce(i, j)
      PROVE  /\ TellsOnce(i, j)'
             /\ j # x => (Told(i, j)' => Told(i, j))
  <2>1. ~ Tells(note, j) \/ \A n \in Within(mail[i]) : ~ Tells(n, j)
    BY <1>3, <1>8 DEF In
  <2>2. Once(mail[i], j)
    <3>1. CASE j = x
      BY <1>8, <3>1 DEF Once, In, Within
    <3>2. CASE j # x
      BY <1>9, <3>2 DEF TellsOnce
    <3>. QED BY <3>1, <3>2
  <2>3. Once(box[i], j)
    BY <1>3, <1>4, <2>1, <2>2, PostedOnce DEF box
  <2>4. \A m \in Within(box[i]) : m \in In(i) \/ m = note
    <3>1. i \in Ids /\ note \in Signal
      BY <1>3
    <3>2. /\ Within(Posted(mail, room, note)[i]) =
               Within(mail[i]) \cup (IF i \in room \cap up THEN {note} ELSE {})
          /\ Greeted(mail[i]) => Greeted(Posted(mail, room, note)[i])
      BY <3>1, <1>4, PostedWithin, Zenon
    <3>. QED BY <3>2 DEF In, box
  <2>5. TellsOnce(i, j)'
    BY <1>7, <2>3 DEF TellsOnce, Once
  <2>6. ASSUME j # x, Told(i, j)' PROVE Told(i, j)
    <3>1. PICK m \in In(i)' : Tells(m, j)
      BY <2>6 DEF Told, Tells
    <3>2. m \in Within(box[i])
      BY <3>1, <1>7 DEF In
    <3>. QED BY <3>1, <3>2, <2>4, <2>6, <1>3 DEF Told
  <2>. QED BY <2>5, <2>6
<1>10. \A j : TellsOnce(x, j)'
  <2>1. Len(<<welcome>>) = 1
    OBVIOUS
  <2>2. Len(mail'[x]) = 1
    BY <1>7, <2>1
  <2>. QED BY <2>2 DEF TellsOnce, Once
<1>11. /\ \A i \in Ids : i # x => owner'[i] = owner[i]
       /\ owner'[x] = c
  BY <1>1 DEF IInv, TypeOK
<1>12. /\ \A d \in Clients : peers[d][x].state = "none" /\ ~ peers[d][x].open
       /\ \A i \in Ids : peers[c][i].state = "none" /\ ~ peers[c][i].open
  <2>1. /\ \A d \in Clients : peers[d][x].state = "none"
        /\ \A i \in Ids : peers[c][i].state = "none"
    BY <1>1, NoPeerIsPeer DEF Connect, PInv, PeersAreDrawn, IInv, OwnSession
  <2>. QED BY <2>1 DEF BInv, Blank
<1>13. ASSUME NEW i \in Ids, NEW j \in Ids, Live(i, j)' PROVE Bond(i, j)'
  <2>1. i > j /\ {i, j} \notin broken /\ i # j
    BY <1>2, <1>13, IdsAssumption DEF Live
  <2>2. CASE i = x \/ j = x
    <3>1. /\ Line(i, j)'.state = "none" /\ ~ Line(i, j)'.open
          /\ Line(j, i)'.state = "none" /\ ~ Line(j, i)'.open
      <4>1. ASSUME NEW k \in Ids, k \in up, k # x
            PROVE  owner'[k] \in Clients
        BY <4>1, <1>11, Owners
      <4>2. i \in up \/ i = x
        BY <1>1, <1>13 DEF Live
      <4>3. j \in up \/ j = x
        BY <1>1, <1>13 DEF Live
      <4>. QED BY <2>1, <2>2, <4>1, <4>2, <4>3, <1>2, <1>11, <1>12 DEF Line
    <3>2. TellsOnce(i, j)'
      <4>1. CASE i = x
        BY <4>1, <1>10
      <4>2. CASE i # x
        BY <2>2, <4>2, <1>9
      <4>. QED BY <4>1, <4>2
    <3>. QED BY <3>1, <3>2 DEF Bond, Reaches
  <2>3. CASE i # x /\ j # x
    <3>1. Live(i, j) /\ Bond(i, j)
      BY <2>1, <2>3, <1>1, <1>13 DEF Live, BInv
    <3>2. TellsOnce(i, j)
      BY <3>1 DEF Bond
    <3>3. TellsOnce(i, j)' /\ (Told(i, j)' => Told(i, j))
      BY <2>3, <3>2, <1>9
    <3>4. Line(i, j)' = Line(i, j) /\ Line(j, i)' = Line(j, i)
      BY <2>3, <1>2, <1>11 DEF Line
    <3>. QED BY <3>1, <3>3, <3>4, <1>2, BondKept
  <2>. QED BY <2>2, <2>3
<1>14. Blank'
  BY <1>2 DEF BInv, Blank
<1>. QED BY <1>13, <1>14 DEF BInv

LEMMA LeaveBonds == ASSUME IInv, PInv, BInv, NEW x \in Ids, Leave(x) PROVE BInv'
<1> DEFINE note == Note("peer-left", x)
<1>1. mail' = Posted(mail, up, note) /\ UNCHANGED <<up, owner, peers, hello, broken>>
  BY DEF Leave
<1>2. note \in Signal /\ \A j : ~ Tells(note, j)
  BY NoteIsSignal DEF Note, Tells
<1> HIDE DEF note
<1>3. mail \in [Ids -> Seq(Signal)]
  BY DEF IInv, TypeOK
<1>4. ASSUME NEW i \in Ids, NEW j \in Ids, Live(i, j)' PROVE Bond(i, j)'
  <2>1. Live(i, j) /\ Bond(i, j)
    BY <1>1, <1>4 DEF Live, BInv
  <2>2. Once(Posted(mail, up, note)[i], j)
    BY <2>1, <1>2, <1>3, PostedOnce DEF Bond, TellsOnce
  <2>3. TellsOnce(i, j)'
    BY <1>1, <2>2 DEF TellsOnce, Once
  <2>4. Told(i, j)' => Told(i, j)
    <3>1. /\ Within(Posted(mail, up, note)[i]) =
               Within(mail[i]) \cup (IF i \in up \cap up THEN {note} ELSE {})
          /\ Greeted(mail[i]) => Greeted(Posted(mail, up, note)[i])
      BY <1>2, <1>3, PostedWithin, Zenon
    <3>2. \A m \in In(i)' : m \in In(i) \/ m = note
      BY <3>1, <1>1 DEF In
    <3>. QED BY <3>2, <1>2 DEF Told, Tells
  <2>5. Line(i, j)' = Line(i, j) /\ Line(j, i)' = Line(j, i)
    BY <1>1 DEF Line
  <2>. QED BY <2>1, <2>3, <2>4, <2>5, <1>1, BondKept
<1>. QED BY <1>1, <1>4 DEF BInv, Blank

\* A step after which two sessions that still work have the ends, and at least the boxes
\* and the names, they had.
LEMMA LinesKept ==
  ASSUME IInv, PInv, BInv, UNCHANGED owner, up' \subseteq up, broken \subseteq broken',
         hello \subseteq hello',
         \A d \in Clients, i \in Ids : peers'[d][i] = peers[d][i] \/ peers'[d][i] = NoPeer,
         \A i, j \in Ids : Live(i, j) /\ Live(i, j)'
           => mail'[i] = mail[i] /\ Line(i, j)' = Line(i, j) /\ Line(j, i)' = Line(j, i)
  PROVE  BInv'
<1>1. ASSUME NEW i \in Ids, NEW j \in Ids, Live(i, j)' PROVE Bond(i, j)'
  <2>1. Live(i, j) /\ Bond(i, j)
    BY <1>1 DEF Live, BInv
  <2>2. /\ mail'[i] = mail[i] /\ Line(i, j)' = Line(i, j) /\ Line(j, i)' = Line(j, i)
    BY <1>1, <2>1
  <2>3. TellsOnce(i, j)'
    BY <2>1, <2>2 DEF Bond, TellsOnce, Once
  <2>4. In(i)' = In(i)
    BY <2>2 DEF In, Within
  <2>5. Told(i, j)' => Told(i, j)
    BY <2>4 DEF Told, Tells
  <2>. QED BY <2>1, <2>2, <2>3, <2>5, BondKept
<1>2. Blank'
  <2>1. ASSUME NEW d \in Clients, NEW i \in Ids, peers'[d][i].open PROVE peers'[d][i].state # "none"
    BY <2>1 DEF BInv, Blank, NoPeer
  <2>. QED BY <2>1 DEF Blank
<1>. QED BY <1>1, <1>2 DEF BInv

LEMMA SessionOverBonds ==
  ASSUME IInv, PInv, BInv, NEW c \in Clients, SessionEnds(c) \/ Stop(c)
  PROVE  BInv'
<1>1. /\ UNCHANGED <<owner, broken, hello>> /\ up' \subseteq up /\ sock[c] \notin up'
  BY DEF SessionEnds, Stop
<1>2. \A d \in Clients, i \in Ids : peers'[d][i] = IF d = c THEN NoPeer ELSE peers[d][i]
  <2>1. CASE SessionEnds(c)
    <3>1. Ids \in SUBSET Ids /\ TypeOK /\ RemovePeers(c, Ids)
      BY <2>1 DEF IInv, SessionEnds
    <3>2. \A d \in Clients, i \in Ids :
            peers'[d][i] = IF d = c /\ i \in Ids THEN NoPeer ELSE peers[d][i]
      BY <3>1, RemoveEffect, Zenon
    <3>. QED BY <3>2
  <2>2. CASE Stop(c)
    BY <2>2 DEF Stop, IInv, TypeOK
  <2>. QED BY <2>1, <2>2
<1>3. \A i \in Ids : i # sock[c] => mail'[i] = mail[i]
  BY DEF SessionEnds, Stop, IInv, TypeOK
<1>4. ASSUME NEW i \in Ids, NEW j \in Ids, Live(i, j), Live(i, j)'
      PROVE  mail'[i] = mail[i] /\ Line(i, j)' = Line(i, j) /\ Line(j, i)' = Line(j, i)
  <2>1. /\ owner[i] \in Clients /\ owner[i] # c /\ i # sock[c]
        /\ owner[j] \in Clients /\ owner[j] # c
    BY <1>1, <1>4, Owners DEF Live
  <2>. QED BY <2>1, <1>1, <1>2, <1>3 DEF Line
<1>. QED BY <1>1, <1>2, <1>4, LinesKept

\* The end a session has of its connection to another that works.
LEMMA LineOf ==
  ASSUME IInv, PInv, NEW c \in Clients, NEW x \in Ids, NEW i \in up, NEW j \in up,
         owner[i] = c, j = x
  PROVE  /\ peers[c][x] = Line(i, j) /\ sock[c] = i
         /\ Counterpart(c, x) = Line(j, i)
<1>1. /\ sock[c] = i /\ i # None
      /\ owner[j] \in Clients /\ owner[j] # None /\ sock[owner[j]] = j
  BY Owners, IdsAssumption, ClientsAssumption
<1>. QED BY <1>1 DEF Line, Counterpart

\* Opening a channel: both ends agree, and the name is on its way.
LEMMA OpenBonds == ASSUME IInv, PInv, BInv, NEW c \in Clients, NEW x \in Ids, Open(c, x) PROVE BInv'
<1> DEFINE p == [peers[c][x] EXCEPT !.open = TRUE]
<1>1. /\ peers[c][x].state = "agreed" /\ Counterpart(c, x).state = "agreed"
      /\ peers' = [peers EXCEPT ![c][x] = p]
      /\ hello' = hello \cup {<<x, sock[c]>>}
      /\ UNCHANGED <<room, up, mail, owner, sock, broken>>
  BY DEF Open, rendezvous
<1>2. p.open /\ p.known = peers[c][x].known /\ p.state = "agreed"
  BY <1>1 DEF IInv, TypeOK, Peer
<1> HIDE DEF p
<1>3. \A d \in Clients, i \in Ids : peers'[d][i] = IF d = c /\ i = x THEN p ELSE peers[d][i]
  BY <1>1 DEF IInv, TypeOK
<1>4. Blank'
  BY <1>2, <1>3 DEF BInv, Blank
<1>5. ASSUME NEW i \in Ids, NEW j \in Ids, Live(i, j)' PROVE Bond(i, j)'
  <2>1. Live(i, j) /\ Bond(i, j) /\ i \in up /\ j \in up
    BY <1>1, <1>5 DEF Live, BInv
  <2>2. /\ owner[i] \in Clients /\ owner[j] \in Clients
        /\ owner[i] = c /\ j = x => peers[c][x] = Line(i, j) /\ sock[c] = i /\ Counterpart(c, x) = Line(j, i)
        /\ owner[j] = c /\ i = x => peers[c][x] = Line(j, i) /\ sock[c] = j /\ Counterpart(c, x) = Line(i, j)
    BY <2>1, Owners, LineOf
  <2>3. In(i)' = In(i) /\ TellsOnce(i, j)'
    BY <1>1, <2>1 DEF In, Within, Bond, TellsOnce, Once
  <2>4. Told(i, j)' => Told(i, j)
    BY <2>3 DEF Told, Tells
  <2>5. CASE owner[i] = c /\ j = x
    <3>1. Line(i, j)' = p /\ (Line(j, i)' = Line(j, i) \/ Line(j, i)' = p)
      BY <2>2, <2>5, <1>1, <1>3 DEF Line
    <3>2. Line(j, i)'.known = Line(j, i).known /\ Line(j, i)'.state = "agreed"
      BY <2>2, <2>5, <1>1, <1>2, <1>3 DEF Line
    <3>3. Line(j, i)' = Line(j, i)
      <4>1. i # j
        BY <2>1, IdsAssumption DEF Live
      <4>. QED BY <2>2, <2>5, <4>1, <1>1, <1>3 DEF Line
    <3>4. <<j, i>> \in hello' /\ hello \subseteq hello'
      BY <2>2, <2>5, <1>1
    <3>. QED BY <2>1, <2>2, <2>3, <2>4, <2>5, <3>1, <3>2, <3>3, <3>4, <1>1, <1>2 DEF Bond, Reaches
  <2>6. CASE owner[j] = c /\ i = x
    <3>1. Line(j, i)' = p
      BY <2>2, <2>6, <1>1, <1>3 DEF Line
    <3>2. Line(i, j)' = Line(i, j)
      <4>1. i # j
        BY <2>1, IdsAssumption DEF Live
      <4>. QED BY <2>2, <2>6, <4>1, <1>1, <1>3 DEF Line
    <3>3. <<i, j>> \in hello' /\ hello \subseteq hello'
      BY <2>2, <2>6, <1>1
    <3>. QED BY <2>1, <2>2, <2>3, <2>4, <2>6, <3>1, <3>2, <3>3, <1>1, <1>2 DEF Bond, Reaches
  <2>7. CASE ~ (owner[i] = c /\ j = x) /\ ~ (owner[j] = c /\ i = x)
    <3>1. Line(i, j)' = Line(i, j) /\ Line(j, i)' = Line(j, i)
      BY <2>2, <2>7, <1>1, <1>3 DEF Line
    <3>. QED BY <2>1, <2>3, <2>4, <3>1, <1>1, BondKept
  <2>. QED BY <2>5, <2>6, <2>7
<1>. QED BY <1>4, <1>5 DEF BInv

\* A name arrives: its receiver knows it from then on.
LEMMA HelloBonds == ASSUME IInv, PInv, BInv, NEW c \in Clients, NEW x \in Ids, Hello(c, x) PROVE BInv'
<1> DEFINE p == [peers[c][x] EXCEPT !.known = TRUE]
<1>1. /\ hello' = hello \ {<<sock[c], x>>}
      /\ peers' = [peers EXCEPT ![c][x] = p]
      /\ UNCHANGED <<room, up, mail, owner, sock, broken>>
  BY DEF Hello, rendezvous
<1>2. p.open = peers[c][x].open /\ p.known /\ p.state = peers[c][x].state
  BY DEF IInv, TypeOK, Peer
<1> HIDE DEF p
<1>3. \A d \in Clients, i \in Ids : peers'[d][i] = IF d = c /\ i = x THEN p ELSE peers[d][i]
  BY <1>1 DEF IInv, TypeOK
<1>4. Blank'
  BY <1>2, <1>3 DEF BInv, Blank
<1>5. ASSUME NEW i \in up, NEW j \in up, <<i, j>> \in hello, <<i, j>> \notin hello'
      PROVE  Line(i, j)'.known
  <2>1. sock[c] = i /\ x = j
    BY <1>1, <1>5
  <2>2. owner[i] = c
    BY <2>1, Owners
  <2>3. j \in Ids
    BY Owners
  <2>. QED BY <2>1, <2>2, <2>3, <1>1, <1>2, <1>3 DEF Line
<1>6. ASSUME NEW i \in Ids, NEW j \in Ids, Live(i, j)' PROVE Bond(i, j)'
  <2>1. Live(i, j) /\ Bond(i, j) /\ i \in up /\ j \in up
    BY <1>1, <1>6 DEF Live, BInv
  <2>2. owner[i] \in Clients /\ owner[j] \in Clients
    BY <2>1, Owners
  <2>3. In(i)' = In(i) /\ TellsOnce(i, j)'
    BY <1>1, <2>1 DEF In, Within, Bond, TellsOnce, Once
  <2>4. Told(i, j)' => Told(i, j)
    BY <2>3 DEF Told, Tells
  <2>5. \A a, b \in {i, j} :
          /\ Line(a, b)'.open = Line(a, b).open /\ Line(a, b)'.state = Line(a, b).state
          /\ Line(a, b).known => Line(a, b)'.known
    BY <2>2, <1>1, <1>2, <1>3 DEF Line
  <2>6. /\ <<i, j>> \in hello => <<i, j>> \in hello' \/ Line(i, j)'.known
        /\ <<j, i>> \in hello => <<j, i>> \in hello' \/ Line(j, i)'.known
    BY <2>1, <1>5
  <2>. QED BY <2>1, <2>3, <2>4, <2>5, <2>6 DEF Bond, Reaches
<1>. QED BY <1>4, <1>6 DEF BInv

\* A name is lost only where the receiver has no connection to its sender any more.
LEMMA HelloLateBonds ==
  ASSUME IInv, PInv, BInv, NEW c \in Clients, NEW x \in Ids, HelloLate(c, x) PROVE BInv'
<1>1. PICK k \in Ids :
        /\ owner[k] = c
        /\ k = sock[c] => peers[c][x].state # "agreed"
        /\ hello' = hello \ {<<k, x>>}
  BY DEF HelloLate
<1>2. UNCHANGED <<room, up, mail, owner, sock, peers, broken>>
  BY DEF HelloLate, rendezvous
<1>3. ASSUME NEW i \in up, NEW j \in up, <<i, j>> \in hello, <<i, j>> \notin hello'
      PROVE  Line(i, j).state # "agreed"
  <2>1. k = i /\ x = j
    BY <1>1, <1>3
  <2>2. owner[i] = c /\ sock[c] = i
    BY <2>1, <1>1, Owners
  <2>3. peers[c][j].state # "agreed"
    BY <2>1, <2>2, <1>1
  <2>. QED BY <2>2, <2>3 DEF Line
<1>4. ASSUME NEW i \in Ids, NEW j \in Ids, Live(i, j)' PROVE Bond(i, j)'
  <2>1. Live(i, j) /\ Bond(i, j) /\ i \in up /\ j \in up
    BY <1>2, <1>4 DEF Live, BInv
  <2>2. In(i)' = In(i) /\ TellsOnce(i, j)'
    BY <1>2, <2>1 DEF In, Within, Bond, TellsOnce, Once
  <2>3. Told(i, j)' => Told(i, j)
    BY <2>2 DEF Told, Tells
  <2>4. Line(i, j)' = Line(i, j) /\ Line(j, i)' = Line(j, i)
    BY <1>2 DEF Line
  <2>5. Line(i, j).open \/ Line(j, i).open
          => /\ <<i, j>> \in hello => <<i, j>> \in hello'
             /\ <<j, i>> \in hello => <<j, i>> \in hello'
    BY <2>1, <1>3 DEF Bond
  <2>. QED BY <2>1, <2>2, <2>3, <2>4, <2>5 DEF Bond, Reaches
<1>. QED BY <1>2, <1>4 DEF BInv, Blank

LEMMA LossBonds ==
  ASSUME IInv, PInv, BInv, NEW c \in Clients, NEW x \in Ids,
         PeerGone(c, x) \/ Fail(c, x) \/ CloseLate(c, x)
  PROVE  BInv'
<1>1. /\ RemovePeers(c, {x}) /\ broken \subseteq broken'
      /\ UNCHANGED <<room, up, mail, owner, sock, hello>>
  BY DEF PeerGone, Fail, CloseLate, rendezvous
<1>2. \A d \in Clients, i \in Ids :
        peers'[d][i] = IF d = c /\ i \in {x} THEN NoPeer ELSE peers[d][i]
  <2>1. {x} \in SUBSET Ids /\ TypeOK
    BY DEF IInv
  <2>. QED BY <1>1, <2>1, RemoveEffect, Zenon
<1>3. ASSUME NEW i \in Ids, NEW j \in Ids, Live(i, j), Live(i, j)'
      PROVE  mail'[i] = mail[i] /\ Line(i, j)' = Line(i, j) /\ Line(j, i)' = Line(j, i)
  <2>1. owner[i] \in Clients /\ owner[j] \in Clients /\ sock[owner[i]] = i /\ sock[owner[j]] = j
    BY <1>3, Owners DEF Live
  <2>2. ~ (owner[i] = c /\ j = x) /\ ~ (owner[j] = c /\ i = x)
    <3>1. CASE PeerGone(c, x)
      BY <1>3, <3>1, GoneElsewhere
    <3>2. CASE Fail(c, x) \/ CloseLate(c, x)
      <4>1. {sock[c], x} \in broken'
        BY <3>2 DEF Fail, CloseLate
      <4>2. {sock[c], x} # {i, j}
        BY <4>1, <1>3 DEF Live
      <4>. QED BY <2>1, <4>2
    <3>. QED BY <3>1, <3>2
  <2>. QED BY <2>1, <2>2, <1>1, <1>2 DEF Line
<1>. QED BY <1>1, <1>2, <1>3, LinesKept

-----------------------------------------------------------------------------
(* The theorem.                                                            *)

LEMMA NextBonds == IInv /\ PInv /\ BInv /\ [Next]_vars => BInv'
<1> SUFFICES ASSUME IInv, PInv, BInv, [Next]_vars PROVE BInv'
  OBVIOUS
<1>1. ASSUME UNCHANGED <<owner, peers, mail, broken>>, up' \subseteq up, hello \subseteq hello' PROVE BInv'
  <2>1. \A i, j \in Ids : mail'[i] = mail[i] /\ Line(i, j)' = Line(i, j)
    BY <1>1 DEF Line
  <2>. QED BY <1>1, <2>1, LinesKept
<1>2. ASSUME NEW c \in Clients, Connect(c) \/ SessionEnds(c) \/ Stop(c) PROVE BInv'
  BY <1>2, ConnectBonds, SessionOverBonds
<1>3. ASSUME NEW c \in Clients, SetName(c) PROVE BInv'
  BY <1>1, <1>3 DEF SetName, rendezvous
<1>4. ASSUME NEW c \in Clients, HandleSignal(c) PROVE BInv'
  BY <1>4, HandleWelcomeBonds, HandleJoinedBonds, HandleLeftBonds, HandleOfferBonds,
     HandleAnswerBonds DEF HandleSignal
<1>5. ASSUME NEW c \in Clients, NEW i \in Ids,
             Open(c, i) \/ Hello(c, i) \/ HelloLate(c, i) \/ PeerGone(c, i)
             \/ Fail(c, i) \/ CloseLate(c, i)
      PROVE  BInv'
  BY <1>5, OpenBonds, HelloBonds, HelloLateBonds, LossBonds
<1>6. ASSUME NEW i \in Ids, Drop(i) PROVE BInv'
  BY <1>1, <1>6 DEF Drop
<1>7. ASSUME NEW i \in Ids, Leave(i) PROVE BInv'
  BY <1>7, LeaveBonds
<1>8. CASE UNCHANGED vars
  BY <1>1, <1>8 DEF vars, rendezvous
<1>. QED BY <1>2, <1>3, <1>4, <1>5, <1>6, <1>7, <1>8 DEF Next

\* A name said over a channel (wireChannel's OnOpen, SetName) is known at the other end or
\* on its way there, while both sessions last and their connection does not fail.
THEOREM NamesAreHeard == Spec => []NamesArrive
<1>1. Init => BInv
  BY DEF Init, BInv, Blank, NoPeer, Live
<1>2. IInv /\ PInv /\ BInv /\ [Next]_vars => BInv'
  BY NextBonds
<1>3. ASSUME IInv, PInv, BInv PROVE NamesArrive
  <2>1. SUFFICES ASSUME NEW c \in Clients, NEW d \in Clients, c # d, sock[c] \in up, sock[d] \in up,
                        {sock[c], sock[d]} \notin broken, peers[c][sock[d]].open
                 PROVE  peers[d][sock[c]].known \/ <<sock[d], sock[c]>> \in hello
    BY DEF NamesArrive
  <2> DEFINE i == sock[c]
             j == sock[d]
  <2>2. /\ i \in Ids /\ j \in Ids /\ i \in Nat /\ j \in Nat
        /\ owner[i] = c /\ owner[j] = d
    BY <1>3, <2>1, Owners
  <2>3. /\ {i, j} \notin broken /\ {j, i} \notin broken
        /\ Line(i, j).open /\ Line(j, i) = peers[d][i]
    <3>1. {i, j} = {j, i}
      OBVIOUS
    <3>. QED BY <3>1, <2>1, <2>2 DEF Line
  <2> HIDE DEF i, j
  <2>4. i # j /\ i \in up /\ j \in up
    BY <2>1, <2>2 DEF i, j
  <2>5. CASE i > j
    BY <1>3, <2>2, <2>3, <2>4, <2>5 DEF BInv, Bond, Reaches, Live, i, j
  <2>6. CASE j > i
    BY <1>3, <2>2, <2>3, <2>4, <2>6 DEF BInv, Bond, Reaches, Live, i, j
  <2>. QED BY <2>2, <2>4, <2>5, <2>6
<1>. QED BY <1>1, <1>2, <1>3, MeshInvariant, PairsInvariant, PTL DEF Spec
=============================================================================
