--------------------------------- MODULE Feed ---------------------------------
(***************************************************************************)
(* The feed that engines and browser tabs keep over the direct channels    *)
(* (src/internal/rtcmesh/client.go, src/internal/chat/hub.go,              *)
(* src/web/app.js): what a participant writes is put into its own feed and *)
(* sent over every open channel; whoever opens a channel sends its feed;   *)
(* nobody forwards what it received.                                       *)
(*                                                                         *)
(* How a pair gets its channel is module Mesh; here a pair of peer objects *)
(* appears at once and each end opens, and goes, by itself.  How a store   *)
(* persists is module MessageStore; here an append happens or fails.  A    *)
(* message stands for its id, its text and its author.                     *)
(***************************************************************************)
EXTENDS Naturals, Sequences, FiniteSets, Lists

CONSTANTS
  Engines, Tabs,   \* the participants, those of dudkad and those of web/app.js
  Texts, Files,    \* chat messages; file announces
  Author,          \* who writes each of them
  Stamp,           \* sentAt of a chat message, by the clock of its author
  MaxTail,         \* MaxTailMessages and MAX_HISTORY, 200 in the code
  Chunk,           \* messages in one packet of a tail, 10 in the code
  Reachable,       \* the pairs that ICE can connect: there is no TURN
  Unread,          \* a history that an opening channel has still to read
  Failing,         \* those whose disk or localStorage may refuse a write
  Faulty,          \* those whose sends may fail on a channel that stays open
  TooLong,         \* texts of more than MAX_TEXT UTF-16 units: an engine counts code points
  MaxUpsets        \* bound of the model: channels lost, restarts and reloads

Peers == Engines \cup Tabs
Messages == Texts \cup Files
Dirs == {d \in Peers \X Peers : d[1] # d[2]}

ASSUME PeersAssumption == Engines \cap Tabs = {} /\ IsFiniteSet(Peers)
ASSUME MessagesAssumption ==
  /\ Texts \cap Files = {} /\ IsFiniteSet(Messages)
  /\ Author \in [Messages -> Peers]
ASSUME StampAssumption == Stamp \in [Texts -> Nat]    \* two may well be equal
ASSUME ReachableAssumption == Reachable \subseteq {{d[1], d[2]} : d \in Dirs}
ASSUME BoundsAssumption ==
  /\ MaxTail \in Nat \ {0} /\ Chunk \in Nat \ {0} /\ MaxUpsets \in Nat
  /\ Failing \subseteq Peers /\ Faulty \subseteq Peers /\ TooLong \subseteq Texts
ASSUME UnreadAssumption == Unread \notin Seq(Seq(Texts))

VARIABLES
  msgs,        \* an engine's store, in the order of arrival
  messages,    \* a tab's state.messages, which it keeps sorted by sentAt
  messageIDs,  \* a tab's state.messageIDs
  saved,       \* the messages in a tab's localStorage
  ends,        \* <<p, q>>: p has a peer object for q
  open,        \* <<p, q>>: its channel is open (p.open)
  greeting,    \* what the OnOpen handler of an engine's end has still to send
  publishing,  \* messages an engine has stored and not handed to Broadcast yet
  pushes,      \* <<m, q>>: Broadcast has still to send m to q
  wire,        \* packets of a channel that are under way, oldest first
  streams,     \* <<f, e>>: file f is on its way to engine e on a channel of its own (a tab
               \* renders a file, and keeps nothing)
  sent,        \* history: the messages whose author sent them out
  reached,     \* history: what came to each participant's feed (and was not lost with a
               \* localStorage that could not be written)
  unsaved,     \* history: what came to a tab since it last saved
  owed,        \* history: what a channel has to bring: what its end showed when it opened
               \* and what its author wrote since
  withheld,    \* history: what was never put on an open channel, because a send on it
               \* failed or a save threw before it
  upsets       \* how much of MaxUpsets was used

feeds == <<msgs, messages, messageIDs, saved, reached, unsaved>>
channels == <<ends, open, greeting, wire, streams, owed, withheld>>
vars == <<feeds, channels, publishing, pushes, sent, upsets>>

\* The messages a participant shows.
Shown(p) == IF p \in Engines THEN Elements(msgs[p]) ELSE messages[p]

-----------------------------------------------------------------------------
\* What an engine's store makes of a message: the newest, unless it holds it.
Stored(s, m) ==
  IF m \in Elements(s) THEN s
  ELSE IF Len(s) < MaxTail THEN Append(s, m)
  ELSE Append(SubSeq(s, Len(s) - MaxTail + 2, Len(s)), m)

\* What is left of S when it is sorted by sentAt and cut to the last MAX_HISTORY.  There is
\* no tie-break: of equal stamps at the edge those that came last are left, and the model
\* leaves open which.
Windows(S) ==
  {W \in SUBSET S :
     /\ Cardinality(W) = IF Cardinality(S) < MaxTail THEN Cardinality(S) ELSE MaxTail
     /\ \A m \in W, n \in S \ W : Stamp[n] <= Stamp[m]}

\* A tab's messages in the order of sentAt, equal stamps in the order they came in.
Listings(S) ==
  {s \in [1..Cardinality(S) -> S] :
     /\ Elements(s) = S
     /\ \A i, j \in DOMAIN s : i < j => Stamp[s[i]] <= Stamp[s[j]]}

\* (A slip the properties must notice: a tail that carries the files as well.)
MutantSendable == Messages

\* s cut into packets; the files and the packets they leave empty are not sent.
Sendable == Texts
NotEmpty == Seq(Messages) \ {<<>>}
Cut(s, k) == SubSeq(s, (k - 1) * Chunk + 1, IF k * Chunk < Len(s) THEN k * Chunk ELSE Len(s))
Packets(s) ==
  Only([k \in 1..((Len(s) + Chunk - 1) \div Chunk) |-> Only(Cut(s, k), Sendable)], NotEmpty)

\* The messages of some packets.
Carried(packets) == UNION {Elements(x) : x \in Elements(packets)}

Linked(p, q) == {<<p, q>>, <<q, p>>} \subseteq ends

\* What p sends to each peer of to, one packet each; a channel whose other end is
\* gone swallows it.
Wired(p, to, packets) ==
  [d \in Dirs |-> IF d[1] = p /\ d[2] \in to /\ d \in open /\ Linked(p, d[2])
                  THEN wire[d] \o packets ELSE wire[d]]

\* Messages are noted, in a history, for the channels of p to the peers of to.
Noted(history, p, to, S) ==
  [d \in Dirs |-> IF d[1] = p /\ d[2] \in to /\ d \in open /\ Linked(p, d[2])
                  THEN history[d] \cup S ELSE history[d]]

\* sendPacket, sendPeerPacket: a packet goes out, or SendText fails (channel.send throws)
\* and nobody sends it again, though the channel stays.
Send(p, q, packet) ==
  \/ wire' = Wired(p, {q}, <<packet>>) /\ UNCHANGED withheld
  \/ /\ p \in Faulty
     /\ withheld' = Noted(withheld, p, {q}, Elements(packet))
     /\ UNCHANGED wire

\* File f goes to the peers whose channel to p is open, each on a channel of its own.
Streamed(p, f) ==
  streams \cup {<<f, d[2]>> : d \in {x \in open : x[1] = p /\ x[2] \in Engines /\ Linked(p, x[2])}}

-----------------------------------------------------------------------------
(***************************************************************************)
(* Slips the properties below must notice; none is part of the             *)
(* specification.                                                          *)
(***************************************************************************)
MutantBroadcast(e, m) ==     \* a neighbour whose tail is still under way is passed over
  /\ m \in publishing /\ Author[m] = e
  /\ publishing' = publishing \ {m}
  /\ sent' = sent \cup {m}
  /\ IF m \in Texts
     THEN /\ pushes' = pushes \cup {<<m, d[2]>> : d \in {x \in ends : x[1] = e /\ greeting[x] = <<>>}}
          /\ UNCHANGED streams
     ELSE /\ streams' = Streamed(e, m)
          /\ UNCHANGED pushes
  /\ UNCHANGED <<feeds, ends, open, greeting, wire, owed, withheld, upsets>>
MutantOpenTab(t, q) ==       \* a tab that greets engines only
  /\ <<t, q>> \in ends \ open /\ Linked(t, q)
  /\ open' = open \cup {<<t, q>>}
  /\ \E s \in Listings(messages[t]) :
       wire' = IF q \in Tabs THEN wire ELSE [wire EXCEPT ![<<t, q>>] = @ \o Packets(s)]
  /\ owed' = [owed EXCEPT ![<<t, q>>] = IF q \in Tabs THEN {} ELSE messages[t]]
  /\ withheld' = [withheld EXCEPT ![<<t, q>>] = {}]
  /\ UNCHANGED <<feeds, ends, greeting, streams, publishing, pushes, sent, upsets>>
MutantSaves(t) ==            \* saved before the message is in
  /\ saved' = [saved EXCEPT ![t] = messages[t]]
  /\ unsaved' = [unsaved EXCEPT ![t] = {}]

-----------------------------------------------------------------------------
Init ==
  /\ msgs = [e \in Engines |-> <<>>]
  /\ messages = [t \in Tabs |-> {}]
  /\ messageIDs = [t \in Tabs |-> {}]
  /\ saved = [t \in Tabs |-> {}]
  /\ ends = {} /\ open = {} /\ publishing = {} /\ pushes = {} /\ streams = {}
  /\ greeting = [d \in Dirs |-> <<>>]
  /\ wire = [d \in Dirs |-> <<>>]
  /\ sent = {}
  /\ reached = [p \in Peers |-> {}]
  /\ unsaved = [t \in Tabs |-> {}]
  /\ owed = [d \in Dirs |-> {}]
  /\ withheld = [d \in Dirs |-> {}]
  /\ upsets = 0

-----------------------------------------------------------------------------
\* The negotiation gives the two a peer object each.
Pair(p, q) ==
  /\ {p, q} \in Reachable /\ {<<p, q>>, <<q, p>>} \cap ends = {}
  /\ ends' = ends \cup {<<p, q>>, <<q, p>>}
  /\ UNCHANGED <<feeds, open, greeting, wire, streams, owed, withheld, publishing, pushes, sent,
                 upsets>>

\* An engine's OnOpen: the channel counts as open, and a broadcast may use it, before
\* the history is read.
OpenEngine(e, q) ==
  /\ <<e, q>> \in ends \ open /\ Linked(e, q)
  /\ open' = open \cup {<<e, q>>}
  /\ greeting' = [greeting EXCEPT ![<<e, q>>] = Unread]
  /\ UNCHANGED <<feeds, ends, wire, streams, owed, withheld, publishing, pushes, sent, upsets>>

ReadHistory(e, q) ==
  /\ greeting[<<e, q>>] = Unread
  /\ greeting' = [greeting EXCEPT ![<<e, q>>] = Packets(msgs[e])]
  /\ owed' = [owed EXCEPT ![<<e, q>>] = @ \cup (Shown(e) \cap Texts)]
  /\ UNCHANGED <<feeds, ends, open, wire, streams, withheld, publishing, pushes, sent, upsets>>

SendTail(e, q) ==
  /\ greeting[<<e, q>>] \notin {Unread, <<>>}
  /\ Send(e, q, Head(greeting[<<e, q>>]))
  /\ greeting' = [greeting EXCEPT ![<<e, q>>] = Tail(@)]
  /\ UNCHANGED <<feeds, ends, open, streams, owed, publishing, pushes, sent, upsets>>

\* A tab's "open" handler does all of it in one go; a send that throws ends it half way.
OpenTab(t, q) ==
  /\ <<t, q>> \in ends \ open /\ Linked(t, q)
  /\ open' = open \cup {<<t, q>>}
  /\ owed' = [owed EXCEPT ![<<t, q>>] = messages[t]]
  /\ \E s \in Listings(messages[t]) : \E k \in 0..Len(Packets(s)) :
       LET out == SubSeq(Packets(s), 1, k) IN
       /\ k = Len(Packets(s)) \/ t \in Faulty
       /\ wire' = [wire EXCEPT ![<<t, q>>] = @ \o out]
       /\ withheld' = [withheld EXCEPT ![<<t, q>>] = messages[t] \ Carried(out)]
  /\ UNCHANGED <<feeds, ends, greeting, streams, publishing, pushes, sent, upsets>>

\* removePeer: the peer object goes, whatever was under way on its connection is
\* lost, and what p had still to send on it is not sent.
Remove(p, q) ==
  /\ <<p, q>> \in ends
  /\ IF Linked(p, q) THEN upsets < MaxUpsets /\ upsets' = upsets + 1 ELSE UNCHANGED upsets
  /\ ends' = ends \ {<<p, q>>} /\ open' = open \ {<<p, q>>}
  /\ greeting' = [greeting EXCEPT ![<<p, q>>] = <<>>]
  /\ wire' = [wire EXCEPT ![<<p, q>>] = <<>>, ![<<q, p>>] = <<>>]
  /\ owed' = [owed EXCEPT ![<<p, q>>] = {}, ![<<q, p>>] = {}]
  /\ withheld' = [withheld EXCEPT ![<<p, q>>] = {}, ![<<q, p>>] = {}]
  /\ streams' = {s \in streams : <<Author[s[1]], s[2]>> \notin {<<p, q>>, <<q, p>>}}
  /\ pushes' = {s \in pushes : <<Author[s[1]], s[2]>> # <<p, q>>}
  /\ UNCHANGED <<feeds, publishing, sent>>

\* What a participant that stops leaves behind in the channels.
Gone(p) ==
  /\ ends' = {d \in ends : d[1] # p} /\ open' = {d \in open : d[1] # p}
  /\ greeting' = [d \in Dirs |-> IF d[1] = p THEN <<>> ELSE greeting[d]]
  /\ wire' = [d \in Dirs |-> IF p \in {d[1], d[2]} THEN <<>> ELSE wire[d]]
  /\ owed' = [d \in Dirs |-> IF p \in {d[1], d[2]} THEN {} ELSE owed[d]]
  /\ withheld' = [d \in Dirs |-> IF p \in {d[1], d[2]} THEN {} ELSE withheld[d]]
  /\ streams' = {s \in streams : p \notin {Author[s[1]], s[2]}}
  /\ publishing' = {m \in publishing : Author[m] # p}
  /\ pushes' = {s \in pushes : Author[s[1]] # p}

\* dudkad stops and starts again on the history it keeps.
Restart(e) ==
  /\ upsets < MaxUpsets /\ upsets' = upsets + 1
  /\ Gone(e)
  /\ UNCHANGED <<feeds, sent>>

\* A tab is reloaded: it shows, and knows, what localStorage holds.
Reload(t) ==
  /\ upsets < MaxUpsets /\ upsets' = upsets + 1
  /\ Gone(t)
  /\ messages' = [messages EXCEPT ![t] = saved[t]]
  /\ messageIDs' = [messageIDs EXCEPT ![t] = saved[t]]
  /\ reached' = [reached EXCEPT ![t] = @ \ unsaved[t]]
  /\ unsaved' = [unsaved EXCEPT ![t] = {}]
  /\ UNCHANGED <<msgs, saved, sent>>

-----------------------------------------------------------------------------
\* AppendPersistent of m at e; the message is lost when it cannot be written.
Ingested(e, m) ==
  \/ /\ msgs' = [msgs EXCEPT ![e] = Stored(@, m)]
     /\ reached' = [reached EXCEPT ![e] = @ \cup {m}]
     /\ UNCHANGED <<messages, messageIDs, saved, unsaved>>
  \/ /\ e \in Failing /\ m \notin Elements(msgs[e])
     /\ reached' = [reached EXCEPT ![e] = @ \cup {m}]
     /\ UNCHANGED <<msgs, messages, messageIDs, saved, unsaved>>

Written(m) == m \in UNION {reached[p] : p \in Peers}

\* What p owes when it has written m.
Owing(p, m) == Noted(owed, p, Peers, {m} \cap Texts)

\* Hub.publish first stores the message (a failure is told to the caller, and nothing
\* happens) ...
Publish(e, m) ==
  /\ Author[m] = e /\ ~ Written(m)
  /\ msgs' = [msgs EXCEPT ![e] = Stored(@, m)]
  /\ reached' = [reached EXCEPT ![e] = @ \cup {m}]
  /\ publishing' = publishing \cup {m}
  /\ owed' = Owing(e, m)
  /\ UNCHANGED <<messages, messageIDs, saved, unsaved, ends, open, greeting, wire, streams,
                 withheld, pushes, sent, upsets>>

\* ... and then hands it to Broadcast, which lists the peers there are.  A file goes to
\* those whose channel is open, each on a channel of its own.
Broadcast(e, m) ==
  /\ m \in publishing /\ Author[m] = e
  /\ publishing' = publishing \ {m}
  /\ sent' = sent \cup {m}
  /\ IF m \in Texts
     THEN /\ pushes' = pushes \cup {<<m, d[2]>> : d \in {x \in ends : x[1] = e}}
          /\ UNCHANGED streams
     ELSE /\ streams' = Streamed(e, m)
          /\ UNCHANGED pushes
  /\ UNCHANGED <<feeds, ends, open, greeting, wire, owed, withheld, upsets>>

\* One sendPacket of its loop, which goes on whatever comes of it: a channel that is not
\* open is passed over.
Push(m, q) ==
  /\ <<m, q>> \in pushes
  /\ pushes' = pushes \ {<<m, q>>}
  /\ Send(Author[m], q, <<m>>)
  /\ UNCHANGED <<feeds, ends, open, greeting, streams, owed, publishing, sent, upsets>>

\* An engine takes the packets of a channel one message at a time.  (ingest passes over what
\* is malformed; no participant of this code sends that.)
Ingest(e, q) ==
  /\ wire[<<q, e>>] # <<>>
  /\ LET packet == Head(wire[<<q, e>>]) IN
     /\ Ingested(e, Head(packet))
     /\ wire' = [wire EXCEPT ![<<q, e>>] =
                   IF Len(packet) = 1 THEN Tail(@) ELSE <<Tail(packet)>> \o Tail(@)]
  /\ UNCHANGED <<ends, open, greeting, streams, owed, withheld, publishing, pushes, sent, upsets>>

\* A file is complete: the engine keeps its bytes and puts it into the feed.  (It does
\* neither when the bytes cannot be kept.)
ReceiveFile(e, f) ==
  /\ <<f, e>> \in streams
  /\ streams' = streams \ {<<f, e>>}
  /\ Ingested(e, f)
  /\ UNCHANGED <<ends, open, greeting, wire, owed, withheld, publishing, pushes, sent, upsets>>

-----------------------------------------------------------------------------
\* acceptMessage for the messages of a packet: those whose id the tab does not know are
\* put in, the list is sorted and cut.  (It is after each of them; that comes to this.)
Accepted(t, packet) ==
  /\ \E W \in Windows(messages[t] \cup (packet \ messageIDs[t])) :
       messages' = [messages EXCEPT ![t] = W]
  /\ messageIDs' = [messageIDs EXCEPT ![t] = @ \cup packet]
  /\ reached' = [reached EXCEPT ![t] = @ \cup packet]
  /\ UNCHANGED msgs

\* saveHistory, or localStorage refuses.
Saves(t) ==
  /\ saved' = [saved EXCEPT ![t] = messages'[t]]
  /\ unsaved' = [unsaved EXCEPT ![t] = {}]
SaveFails(t, packet) ==
  /\ t \in Failing
  /\ unsaved' = [unsaved EXCEPT ![t] = @ \cup (packet \ messageIDs[t])]
  /\ UNCHANGED saved

\* sendDraft refuses a text that is too long, and gives a new one an id of its own.
Writes(t, m) == Author[m] = t /\ m \in Texts \ TooLong /\ ~ Written(m)

\* The message is shown, saved and sent over every open channel; a send that throws leaves
\* out the channels that come after it.
SendDraft(t, m) ==
  /\ Writes(t, m)
  /\ Accepted(t, {m}) /\ Saves(t)
  /\ sent' = sent \cup {m}
  /\ owed' = Owing(t, m)
  /\ \E to \in IF t \in Faulty THEN SUBSET Peers ELSE {Peers} :
       /\ wire' = Wired(t, to, <<<<m>>>>)
       /\ withheld' = Noted(withheld, t, Peers \ to, {m})
  /\ UNCHANGED <<ends, open, greeting, streams, publishing, pushes, upsets>>

\* saveHistory throws out of sendDraft: the tab has the message, and sends it to nobody.
SendDraftThrows(t, m) ==
  /\ Writes(t, m)
  /\ Accepted(t, {m}) /\ SaveFails(t, {m})
  /\ owed' = Owing(t, m)
  /\ withheld' = Noted(withheld, t, Peers, {m})
  /\ UNCHANGED <<ends, open, greeting, wire, streams, publishing, pushes, sent, upsets>>

\* sendFile: each open peer gets the file on a channel of its own.
SendFile(t, f) ==
  /\ Author[f] = t /\ f \in Files \ sent
  /\ sent' = sent \cup {f}
  /\ streams' = Streamed(t, f)
  /\ UNCHANGED <<feeds, ends, open, greeting, wire, owed, withheld, publishing, pushes, upsets>>

\* handlePeerPacket, for a "chat" or a "tail": what is too long is passed over
\* (validChatMessage).  (A "chat" that is known or too long is not even saved: the model
\* lets it be saved or not.)
Accept(t, q) ==
  /\ <<t, q>> \in open /\ wire[<<q, t>>] # <<>>
  /\ LET packet == Elements(Head(wire[<<q, t>>])) \ TooLong IN
     Accepted(t, packet) /\ (Saves(t) \/ SaveFails(t, packet))
  /\ wire' = [wire EXCEPT ![<<q, t>>] = Tail(@)]
  /\ UNCHANGED <<ends, open, greeting, streams, owed, withheld, publishing, pushes, sent, upsets>>

-----------------------------------------------------------------------------
Engine(e) ==
  \/ \E q \in Peers \ {e} : \/ OpenEngine(e, q) \/ ReadHistory(e, q) \/ SendTail(e, q)
                             \/ Ingest(e, q)
  \/ \E m \in Messages : Publish(e, m) \/ Broadcast(e, m) \/ ReceiveFile(e, m)
  \/ Restart(e)

Tab(t) ==
  \/ \E q \in Peers \ {t} : OpenTab(t, q) \/ Accept(t, q)
  \/ \E m \in Messages : SendDraft(t, m) \/ SendDraftThrows(t, m) \/ SendFile(t, m)
  \/ Reload(t)

Next ==
  \/ \E d \in Dirs : Pair(d[1], d[2]) \/ Remove(d[1], d[2])
  \/ \E q \in Peers, m \in Texts : Push(m, q)
  \/ \E e \in Engines : Engine(e)
  \/ \E t \in Tabs : Tab(t)

Spec == Init /\ [][Next]_vars

-----------------------------------------------------------------------------
(***************************************************************************)
(* Properties.                                                             *)
(***************************************************************************)

\* TYPE INVARIANT.  The variables keep their types: no channel carries a packet that is
\* empty or holds a file, and an end is open only while it exists.
TypeOK ==
  /\ msgs \in [Engines -> Seq(Messages)]
  /\ messages \in [Tabs -> SUBSET Texts]
  /\ messageIDs \in [Tabs -> SUBSET Texts]
  /\ saved \in [Tabs -> SUBSET Texts]
  /\ open \subseteq ends /\ ends \subseteq Dirs
  /\ greeting \in [Dirs -> Seq(Seq(Texts) \ {<<>>}) \cup {Unread}]
  /\ publishing \subseteq Messages
  /\ pushes \subseteq Texts \X Peers
  /\ wire \in [Dirs -> Seq(Seq(Texts) \ {<<>>})]
  /\ streams \subseteq Files \X Engines
  /\ sent \subseteq Messages
  /\ reached \in [Peers -> SUBSET Messages]
  /\ unsaved \in [Tabs -> SUBSET Texts]
  /\ owed \in [Dirs -> SUBSET Texts]
  /\ withheld \in [Dirs -> SUBSET Texts]
  /\ upsets \in 0..MaxUpsets

\* Nothing of p is under way to q any more.
Settled(p, q) ==
  /\ Linked(p, q) /\ <<p, q>> \in open
  /\ greeting[<<p, q>>] = <<>> /\ wire[<<p, q>>] = <<>>
  /\ \A m \in Messages : Author[m] = p => m \notin publishing /\ <<m, q>> \notin pushes

\* What the end of a channel may lack: what failed to be put on it while it was open, and,
\* if it is a tab, the texts that tabs do not take.
Excused(d) == withheld[d] \cup {m \in TooLong : d[2] \in Tabs}

\* A message written while a channel opens is not lost between the two ways it may take,
\* the tail that the opening sends and the broadcast of its author: once all has arrived,
\* the neighbour was given every chat message that was shown at this end when the channel
\* opened, and every one written there since.  Two kinds are excused: those that a failed
\* send, or a save that threw before it, kept from this channel since it opened (a channel
\* that opens anew owes them again, as far as the window still has them), and, at a tab,
\* the engines' texts that are too long for it.
Delivered ==
  \A p, q \in Peers :
    p # q /\ Settled(p, q) => owed[<<p, q>>] \ Excused(<<p, q>>) \subseteq reached[q]

\* What a tab shows is a newest window of what came to it, MAX_HISTORY messages none of
\* which is older than one left out, whatever the order, the duplicates, the refused saves
\* and the reloads in between.  (The window is the only one unless stamps are equal at its
\* edge.)
TabShowsNewest ==
  \A t \in Tabs : messages[t] \in Windows(reached[t] \cap Texts)

\* Whoever can be connected is, and nothing is under way.
Complete == \A d \in Dirs : {d[1], d[2]} \in Reachable => Settled(d[1], d[2])

\* Those of S that no window of S leaves out: fewer than MAX_HISTORY others are as new.
Sure(S) == {m \in S : Cardinality({n \in S \ {m} : Stamp[n] >= Stamp[m]}) < MaxTail}

\* In a quiet mesh all tabs show the newest messages of all tabs: one that a tab sent out
\* is on every screen until MAX_HISTORY others exist that are not older, whatever was lost,
\* reloaded or reconnected on the way, and whatever the engines did with it.  Excused is
\* the screen whose channel from the author stayed open after a send on it had failed.
TabsKeepNewest ==
  Complete /\ (\A t, u \in Tabs : t # u => {t, u} \in Reachable) =>
    \A m \in sent \cap Sure((UNION {reached[p] : p \in Peers}) \cap Texts) :
      Author[m] \in Tabs =>
        \A t \in Tabs : m \in messages[t] \/ (t # Author[m] /\ m \in withheld[<<Author[m], t>>])
=============================================================================
