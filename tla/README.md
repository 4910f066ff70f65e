# ДУДКА in TLA+

ДУДКА is a serverless chat for the people behind one public IP address. Tabs and
engines (`dudkad`) meet at a memory-only signaling rendezvous, build a WebRTC mesh, and
exchange messages and files over direct channels. This directory holds TLA+ models of
the parts of it whose correctness depends on interleaving, failure or ordering, the TLC
configurations that check them, and proofs checked by TLAPS.

Paths below are relative to the root of the repository. Every definition that models
code has an entry in `PROJECT.json` ("map") with the lines it was translated from.

## 1. Inventory

| Component | Source | State it keeps | Operations | Modelled |
|---|---|---|---|---|
| Signaling rendezvous | `src/internal/signaling/hub.go` | rooms, per-client send queue, `done`, socket | join, welcome, notify, route, leave, write, ping | `Signaling` |
| WebRTC mesh of the engines | `src/internal/rtcmesh/client.go` | socket, own id, peers by session id, list of neighbours | Start, Stop, Restart, SetName, reconnect, handleSignal, channels | `Mesh` |
| Direct channels | `src/internal/rtcmesh/client.go`, `file.go` | open ends, packets under way, files on channels of their own | tail at the opening, Broadcast, BroadcastFile, handlePacket | `Feed` |
| Chat hub | `src/internal/chat/hub.go` and others | name, channels, acknowledgements | publish, fanout, HandleChatLine, RegisterBacklog | `Feed`, `Lan` (partly) |
| Chat store | `src/internal/chat/store.go` | window, index of ids, history file, temporary file | NewPersistentStore, AppendPersistent | `MessageStore`, `DurableLog` |
| File transfer | `src/internal/chat/file_xfer.go`, `transfer.go`, `src/internal/files` | fetching, cancel functions, transfer book, inbox | StartFetch, Fetch, CancelFetch, copying | `FileTransfer` (partly) |
| Browser client | `src/web/app.js` | socket, peers, feed, localStorage, queue of signals | open, sendDraft, sendFile, acceptMessage, saveHistory; connect, restart, handleSignal | `Feed` (its feed; not its signaling) |
| LAN discovery | `src/internal/discovery`, `src/internal/peers` | peer table, refused versions | announce, register, prune, scan, start, stop | `Lan` (partly) |
| Tail keeper | `src/internal/chat/keeper.go`, `tail.go` | `syncing` | SelectTailKeeper, SyncTail, HandleTailRequest | `Lan` |
| Engine start-up and consent | `src/cmd/dudkad/main.go`, `src/internal/identity` | `peer_id`, `display_name`, `internet_consent` | start, checks on the nick, enableInternet | `Engine` |
| Loopback API | `src/internal/loopback/server.go` | nick, listener | POST /nick, /internet-consent | `Engine` (partly) |
| Terminal client | `src/cmd/dudka`, `src/internal/tui` | what the screen shows | ensureLocalEngine, ensureInternetConsent; polling | `Engine` (its start) |
| Desktop updater | `src/apps/dudka/lib/update/update_manager.dart` | snapshot, staged archive, helper script | check, download, verify, activate | no |
| STUN server | `src/internal/stunserver/server.go` | requests per address in a window | binding request | no: one goroutine, one map |
| Flutter application, MCP bridge | `src/apps/dudka`, `src/cmd/dudka-mcp` | what the screen shows | polling of the loopback API | no: rendering and polling |
| Thumbnails, packaging, site | `src/internal/files/thumb.go`, `src/scripts`, `src/deploy` | none | image decoding, builds | no |

How they interact: engine and tab hold one WebSocket each to the rendezvous. The
rendezvous keeps nothing but its open sockets, sends each newcomer the ids in the room
(`welcome`), tells the others (`peer-joined`, `peer-left`) and forwards offers, answers and
candidates between members of one room. With those, clients negotiate a peer connection
for every pair; names, messages, tails and files travel over its DataChannels. Inside
the engine a message received goes to the chat hub, which appends it to the store; the
application polls the feed over the loopback API, and asks the engine to fetch a file,
which lands in the inbox. Closing the engine (by the user or by the updater) may happen
at any moment; the history file is what survives.

What is hard in it: goroutines that take a lock for one access at a time and act on what
they read afterwards (rendezvous notices, the transfer book); sockets that die at any
moment, with ids that are never used again; two sides deciding independently who offers;
a file that is replaced in several steps, each of which may fail; queues with a limit; a message that reaches a neighbour by two
ways, or by none, while a channel opens; windows of the last messages that are cut again and again; a table of
neighbours that is looked at, and written later, by registers of processes that have ended meanwhile; two processes on one data directory.
`PROJECT.json` ("hazards") lists each at its line, with the properties that would catch
it going wrong, or with the reason why none does yet.

## 2. The modules

```
Signaling ......... the rendezvous            MCSignaling       SignalingProofs
Mesh .............. the engines around it     MCMesh            MeshProofs
Feed .............. what the channels carry   MCFeed            FeedProofs
DurableLog ........ what a store promises
MessageStore ...... the store                 MCMessageStore    MessageStoreProofs
FileTransfer ...... fetches and cancels       MCFileTransfer    FileTransferProofs
Lan ............... the LAN contour           MCLan             LanProofs
Engine ............ processes and their disk  MCEngine          EngineProofs
Lists ............. elements of a list, and the part of one that lies in a set
DataProofs ........ inductions over the naturals, and what follows of Lists
```

`Mesh` composes with `Signaling` by contract: it takes the rendezvous at what `Signaling`
shows of it (`KnownSenders`: a signal comes after the notice of its sender and before the
notice of its departure; `NoInvisiblePeers`, `NoGhostPeers`: the notices leave nobody out)
and replaces its goroutines and queues by one mailbox for each session. `Feed` takes a pair's channel at what `Mesh`
shows of it (`Meshed`, `NoGlare`: a pair that can be connected gets one connection; each end opens, and goes, by itself), and a store at what `DurableLog`
promises, with an append that may fail. `Lan` is `Feed`'s counterpart without a mesh. `MessageStore`
refines `DurableLog`.

Each module carries definitions whose names begin with `Mutant`. They are slips
that the properties have to notice, not part of any specification: with the
definition they stand in for replaced by them, TLC finds the property violated.

### Signaling

One `pc` for each connection follows `serveWebSocket`: `join` (snapshot of the room and
insertion in one step, under the lock), the welcome written past the queue, `notifyPeers`
(the ids resolved to clients under the lock, and each queue posted to after it is
released), the start of the writing goroutine, `readLoop` and `route`, and on the way out
`leave`, its notices, `close(done)` and the wait for the writer. `writer` is the writing
goroutine; it sends, fails, or quits when it sees `done`. A full queue swallows a notice
and ends the sender of a signal, as in the code; the history variable `missed`
collects what was swallowed, so that the properties can except it. The checks that reject
a signal (size, JSON, type, rate, unknown target) are one action, `ReadRejected`: they
all close the sender. `view` is what a client concludes from what it was sent; it is the
only part that is not code of the rendezvous.

### Mesh

A client's session has an id that the rendezvous draws; `Ids` is a set of numbers whose order
stands for the order of the bytes, because that is what `connectPeer` compares, and any unused
id may be drawn. `mail` holds what the rendezvous sent to a session and the
engine's read loop has not handled. Each `handleSignal` case is an action; `connectPeer`,
`ensurePeer` and `sendSignal` are operators the actions use. An end of a connection goes
through "new", "offered" and "agreed"; an offer that meets an outstanding offer is an error that changes
nothing (`SetRemoteDescription` fails). The loss of a socket (`Drop`, which is also what the
button behind `Restart` does) is followed by two things in any order: the rendezvous notices and announces
it (`Leave`), and `runSession` returns and `closePeers` ends every connection
(`SessionEnds`). A signal to an id that has left the room closes the sender's
socket, so one reconnection may bring down another session. `HelloLate` is a name handled while its
connection is being removed on another goroutine: `handlePacket` stores the
neighbour after `removePeer` has removed it. `CloseLate` is the `OnClose` of a channel that `closePeers` closed, coming after a new
connection of the same session exists: `removePeer` goes by session id and takes the new one away (`closing` says whose callbacks may still come).
`ConnectSome` is the loop over a welcome or a notice: an error of `connectPeer` ends it, and the sessions behind it are offered nothing. The pairs that
lose their connection in one of these ways are collected in `broken`, as those of a failed connection are, and excepted where
a property promises a connection, because the code makes no second attempt within a session.

Abstractions: a handler of a signal is one step (the read loop is one goroutine; what runs beside
it, the callbacks of pion, are the actions `Open`, `Hello`, `HelloLate`, `PeerGone`, `CloseLate` and `Fail`); candidates travel with descriptions; a
queue of the rendezvous never overflows.

### Feed

A pair is `Linked` while each has a peer object for the other (`ends`); each end opens by itself (`open`). An engine's `OnOpen` counts
the channel as open, then reads its history, then sends it in packets of ten (`greeting`: unread, or what is still to be sent), one
packet a step; a tab's `open` handler does all of it in one go. `Hub.publish` stores a message, then hands it to `Broadcast`
(`publishing`), which lists the peers there are and sends to one after the other (`pushes`), passing over a channel that is
not open yet. So a message written while a channel opens may come twice or, if it fell between the two ways, not at
all: that is what `Delivered` is about. Nobody forwards what it received. A file travels on a channel of its own and
is kept in an engine's feed, so it takes a place in the engine's window, though a tail carries texts only; a tab renders it and keeps nothing.

An engine's store is in the order of arrival (`Stored`), a tab's is sorted by `sentAt` and cut (`Windows`): the two cut to the same number of messages and
do not agree, and nothing says they should. A tab knows more ids than it shows (`messageIDs`) until it is reloaded. `saveHistory` throws
when `localStorage` refuses: out of `sendDraft` after the message is shown and before it is broadcast, which is
`SendDraftThrows`.

Two texts may be of one millisecond. `acceptMessage` sorts by `sentAt` alone and the sort is stable, so of texts with equal stamps at the edge of the
window those that came last stay, and two tabs may show different ones. `Windows` is therefore a set: all windows that
leave out nothing newer than what they keep. What a tab shows is one of them (`TabShowsNewest`), and what no window may leave out (`Sure`) is on every
screen (`TabsKeepNewest`).

A send may fail while its channel stays open: `SendText` returns an error that `sendPacket` turns into a `false` nobody looks at (a tail packet of ten texts of 4000 code
points may be larger than the largest message the channel takes), and `channel.send` throws in a tab, out of the `open` handler half way, or out of `sendDraft` before the
remaining channels. `Send`, `OpenTab` and `SendDraft` have both outcomes for the participants in `Faulty`. `owed` counts such a message all the same, as it counts the one of
`SendDraftThrows`, and `withheld` notes it: `Delivered` states these as its exception, channel by channel, instead of not owing them. A channel that opens anew owes
what its end shows and withholds nothing.

`TooLong` are the texts an engine may write (4000 code points) and a tab refuses to take (4000 UTF-16 units, `validChatMessage`); the instance has none, the proofs cover them.

Abstractions: `Pair` and `Remove` stand for what `Mesh` models; a packet of an engine is ingested one message at a time because each is written
to disk, a tab's in one step because a handler is never interrupted (the single steps of its sorting and cutting come to
one window of all); packets that are malformed are left out, because no participant of this code sends them.

### Lan

A node is a peer id; `inst` counts its starts (`instance_id`). A register is a record in `calls` that goes through the accesses of its two
sides: the server compares the versions, looks the client up in its table, remembers it (both accesses of `rememberPeer`, which takes the table's
lock twice), answers with its own instance and its backlog; the client does the same and reads the backlog. A register survives the end of the
process that answered it, so an answer may be recorded after a restart. `wakes` counts the `SyncTail` goroutines that
have not looked at `h.syncing` yet, `sync` is the one that holds it. `silent` stands for `LastSeen` older than `PeerTTL`. A node
that dials in vain (a firewall, a stopped process) has no effect, so such a call is never added.

A line that asks for it is acknowledged every time it is handled, a duplicate too, and each backlog brings the lines
of a neighbour again, so a chat with `want_ack` fills the windows with acknowledgements; the model has a bounded number of them
(`Acks`), and the properties speak of what came, not of what is still in the window.

### Engine

Several `dudkad` processes go through `main` on one data directory: identity, nick, the check of the nick, consent, the listener. `os.WriteFile`
is two steps, emptying and filling, because a kill or another process may come in between. POST /nick goes through its
accesses: the name shown, the check, the file, the mesh, the hub. `dudka` finds an engine or starts one, and asks
the user when there is no consent. `raced` and `crossed` are history variables that note the overlaps the code does nothing about,
so that the properties can except exactly those: two first starts at once, and nick changes that overlap each other, were refused,
failed, or met another process that wrote the nick. A nick typed at the prompt has no action of its own: a process that finds no nick on disk and is told one behaves as one that
was launched with it as `-name`, and `Flags` holds both.

### DurableLog and MessageStore

`DurableLog` is the promise: a log of the last `MaxTailMessages` messages, each recorded
whole or not at all, that stopping the engine does not shorten. `MessageStore` is
`AppendPersistent`, which holds the store's mutex throughout, in the steps a crash or a
failure can separate: the file beside the history is written, renamed over it, and only then does
memory follow. When `os.Rename` fails (on Windows, says the comment in the code) the old history is removed and the
rename tried again. `Load` is what a start makes of a file: the last `MaxTailMessages`
entries, then empty ids and duplicates dropped, in that order. `RenameCanFail` tells the two
worlds apart; `DurableLog` has both, so that the store implements it in either. (Go's `os.Rename` does replace an existing file on current Windows; it can
still fail there for a file that is open in another process. The code handles a failure of any
cause, and so does the model.) A power loss that loses a completed write is not modelled: the
code does not call `fsync`, and the model does not claim anything about it.

### FileTransfer

Each fetch of one file and each `CancelFetch` is a goroutine whose steps are single accesses to
`h.fetching` and `h.cancels` (under `Hub.mu`), to the transfer book (under its own mutex), and to the
inbox. Copying from a local blob (`MaterializeLocal`) and from a peer (`ReadChunks`) differ in what they remove when they fail, hence
`local`. `CancelFetch` waits at most two seconds for the fetch, so `Waited` may happen at any time. Percentages,
hashes and chunk boundaries are data no property looks at.

## 3. The runs

| Run | Instance | Shows |
|---|---|---|
| `signaling_safety` | 3 connections (interchangeable), a room for 2, queues of 2, 2 signals | `Membership`, `KnownSenders`, `NoGhostPeers`, `NoInvisiblePeers` |
| `signaling_rooms` | 2 connections at one address and 1 at another, queues of 1, 1 signal, fair | `RoomIsolation`, `Teardown`, `DepartureHeard` |
| `mesh` | 2 engines, 4 ids in any order, 1 upset, fair | `NoGlare`, `PairsAgree`, `NamesArrive`, `ListedAreConnected`, `Meshed` |
| `mesh_ready` | the same | violates `ReadyChannelSurvives` |
| `feed` | an engine and two tabs in a line, windows of 1, 2 texts and a file, equal stamps, every failing disk and failing send, 1 upset | `Delivered`, `TabShowsNewest`, `TabsKeepNewest` |
| `store_failures` | window of 3, 4 messages, 4 kinds of history, every failure and crash | `WindowIndexed`, `InsertedIsDurable`, `AllOrNothing`, `ImplementsLog` |
| `store_atomic` | a first start where `os.Rename` may fail | violates `AppendIsAtomic` |
| `transfer` | 2 fetches of one file, 2 cancels, every failure, fair | `OneFetch`, `NothingLeftBehind`, `NoStaleDownload`, `NoStalePartial`, `DoneHasFile`, `FetchEnds` |
| `transfer_comment` | 1 fetch, 1 cancel | violates `NoSuccessAfterCancel` |
| `lan` | 2 nodes, one behind a firewall, a restart that may be an upgrade, 2 lines and an acknowledgement, 1 upset, fair | `OneVersion`, `TablesSettle`, `BacklogArrives` |
| `lan_tail` | 2 nodes, 2 lines of the keeper, a backlog of 1, 1 silence, fair | violates `JoinerHasTail` |
| `engine` | 2 processes, a terminal client, 2 senders of POST /nick, 1 upset | `IdentityKept`, `NickRules`, `OneNick`, `ConsentFirst` |

Each passing run over a module also checks its `TypeOK` once.

Why the bounds are enough. Three connections with room for two: a refused join, a
departure that overlaps an arrival, and a third party that hears of both. Queues of two
and two signals: a notice behind a signal, and a full queue. In `mesh`, four ids let both engines
lose their session once (the second because it wrote to the first one's old id), with every
order between old and new ids; one upset is a lost socket, a failed connection, a `connectPeer` that
fails, a rename or a stop, at any moment, and the late callbacks of a closed connection come whenever they like. A window of three with four messages evicts, and lets an
evicted message come back; the histories are absent, too long, with a duplicate, and with an
empty id. Two fetches and two cancels give every overlap of a cancel with the fetch it meant and
with the next one. In `feed` the middle tab has both kinds of
neighbour, and what it shows never depends on its neighbours forwarding anything; a window of one is full after one message, so every second one evicts,
the file evicts a text, and the two texts, of one millisecond, evict each other at a tab in either order; packets of one message make a tail of a packet at most, which is where the interleaving is (`FeedProofs` covers any window and any packet). In `lan` the upset is a restart, a silence, a
broken call or a scan; a backlog of two in a window of two evicts as soon as the acknowledgement is stored; in `lan_tail` a backlog of one is shorter than the
window, as 32 is shorter than 200. In `engine` two processes and one upset let each start overlap the other at every step, with a kill
or a refused write at any of them; two ids are what two overlapping first starts generate.

`CHECK_DEADLOCK FALSE` stands where the system may stop for good: every
connection has been used and closed, every fetch and cancel has run, the ids of a
behaviour are drawn, every message of `feed` was written and has arrived, the ids an `engine` may generate are used up. The runs of the store and of `Lan` check deadlock.

Symmetry is used in `signaling_safety` and in `engine`, which have no temporal property: all connections have the same room, all
processes and all requests are alike.

Fairness. `Signaling`: every goroutine that is not blocked is scheduled, and a write
ends within `writeTimeout`; the writer's failures and the clients' actions are not
fair. `Mesh`: reconnect loop and read loop run; the rendezvous notices a dead socket (its
ping); agreed connections open their channels and deliver names; a connection whose other end is gone is noticed (ICE
and SCTP time out). Nothing makes an upset happen, and none is prevented.
`FileTransfer`: the goroutines run, and a copy ends, because a connection has a
deadline; no new fetch or cancel is owed. `Lan`: the announce and prune timers fire, goroutines run, a register that began
gets on, and a network that loses announces does not lose all of them (a step is owed only while it is enabled for
ever); starts, stops, messages and failures are owed nothing. `Feed` and `Engine` have safety properties only.

### What the runs found

* `mesh_ready`: `docs/adr/0002-one-webrtc-mesh.md` says a ready direct channel goes on working without
  signaling. `reconnectLoop` calls `closePeers` whenever a session ends, so losing the WebSocket closes every
  open channel of that engine.
* `store_atomic`: the comment on `NewPersistentStore` says appends are written back atomically. In the branch taken when
  `os.Rename` fails, the old history is removed before the second rename: stopping between them, or a second failure,
  leaves no history.
* `transfer_comment`: `CancelFetch` says that the UX never shows success after cancel. `fetchLocked` looks whether the
  entry is cancelled in one access and overwrites it in another; a cancel in between, which also found no registered
  cancel function, is lost and the download ends as done.

What was seen while modelling, and has no run of its own:

* Mesh. An engine compares session ids by bytes, a tab by `localeCompare`: for ids that differ in case both or neither may offer
  (`docs/specs/web.md:72-73` promises exactly one). The list of neighbours is kept by peer id but removed by session: a late removal of an old
  session hides a neighbour that is connected anew. `OnOpen` reads the name before it sends it (`client.go:423-426`) and `SetName` writes it before it
  broadcasts it (`:161-166`): a `SetName` in between sends the new name first and the old one after it, and the neighbour keeps the old one. The callback of a closed
  connection removes by session id (`client.go:393-398`, `:458`): coming late, it takes away the new connection of the same neighbour, and nobody offers again within the session. An
  error of `connectPeer` for one session of a welcome (`:265-268`) leaves those behind it without an offer.
* Tab (read, not modelled: `src/web/app.js:161-287`, `:797`). A socket that closes while a direct channel is open schedules no reconnection, and
  `removePeer` schedules none when that channel goes: only coming back online or to the foreground does. `scheduleReconnect` keeps the peers it had, so one whose
  offer was lost with the socket keeps `offerStarted` and is not offered to again under the next welcome. The queue of signals outlives `restartSignaling`: a welcome of the
  old socket handled while the new one is connecting puts the old id back and marks a peer as offered to before `sendSignal` throws.
* Feed. The engine orders by arrival and the tab by `sentAt` (`docs/specs/web.md:189-190` speaks of the tab). Two tabs of one browser share one
  `localStorage` and overwrite each other's history. `localeCompare` sorts time stamps with and without fractions of a second in an order that is not that of time, and
  texts with equal stamps at the edge of the window make what a tab shows depend on the order of arrival (`app.js:564`). An engine accepts 4000 code points, a tab 4000 UTF-16
  units: a longer text of an engine is on no tab (`app.js:576`). A packet that cannot be sent on an open channel is dropped (`client.go:709-711`), and nothing sends it again before the channel opens anew.
* Lan. Acknowledgements of duplicates (`hub.go:382`) are published like any message, and no receiver has a use for them. A fan-out and a tail request do not
  compare versions. What is noted of an incompatible neighbour is never cleared (`proto.go:61`). `Stop` returns before the goroutines of
  registers have ended (`node.go:334`).
* Engine. Two first starts that overlap leave one of them running under an id that is not the one on disk (`peer.go:30-45`). A `-name` that
  is refused has been saved already, so that the next start fails as well (`name.go:160`, `main.go:54`). A second `dudkad` writes the nick and starts its mesh
  before it finds the address taken (`main.go:145-149`). A refused nick is shown until the next change (`server.go:245`). A consent
  whose write failed half-way counts as given at the next start (`main.go:136`), though the user did agree.

## 4. The proofs

All are for every value of the constants that satisfies the assumptions of the modules (`RoomsAssumption`,
`BoundsAssumption`, `WindowAssumption`, ...), which TLC evaluates on the instances.

* `SignalingProofs`. `SlotsNeverLeak`: `Membership` is nearly inductive; it needs to know, for each stage of
  `serveWebSocket`, which of queue, writer, `done` and targets may be non-trivial there (`Stagewise`). `SendersAreKnown`: `KnownSenders` speaks of a
  client's queue, but what keeps it true is elsewhere. The strengthening says that a connection in the room has announced itself to
  everyone who will be posted signals from it, or holds them in its snapshot or targets (`Announced`), and that a
  departure is posted only by one that sends no more (`Departures`). `RoomsNeverMix`: snapshots, targets, queues and views
  hold connections of one address (`Apart`). `NobodyIsInvisible` follows from `Announced`: whoever has nothing more to read was told, or is still to be. `NobodyIsAGhost` needs the
  converse for departures: whoever is known to c, or will be from c's queue, is in the room, or has c among those it has to tell, or its notice is in
  the queue behind that of its arrival (`Parting`, `Ordered`). `DoneIsTheEnd`: `done` is closed for whoever started
  a writer and has announced its departure, and for nobody else, so `Finish` never waits for a writer that may not quit. `SignalingTypes` is type correctness.
* `MeshProofs`. `OneSideOffers` (`NoGlare`): an offer is out only to an id below the
  id in the client's last welcome (`OffersDescend`); that id is the id the client's socket is known under
  (`OwnSession`), because a welcome names its own session and appending to a mailbox creates no other
  (`OwnWelcome`). Two crossing offers would descend both ways. `NoStrayNeighbours` (`ListedAreConnected`): the removal of a connection removes
  what it named, and sessions never change owner (`NamesAreOwned`).
  `NobodyWaits` (`PairsAgree`) has an invariant of its own, `PairsInvariant`. For each two sessions that work, the greater id first, it says where they are: a notice
  of the other lies in the box of the greater, or its offer is out and lies in the box of the other, or the answer lies in its own, or both
  ends agreed (`InStep`). What makes that inductive is the rest of `InStep`: an offer under way has an end behind it that offered, an answer under
  way an end that agreed, and whoever agreed has an end facing it that offered. So no handler meets a signal it must refuse, and
  `PeerGone` (the other end is gone) cannot hit an end of two sessions that work. A failed connection, a late callback and a session that is not offered to put the
  pair among the `broken` ones, of which nothing more is said. A reconnection starts a new pair with a new id, which is why the
  invariant also has to say that only drawn ids are spoken of (`MailIsDrawn`, `PeersAreDrawn`) and that a session handles its welcome first (`Welcomed`).
  `NamesAreHeard` (`NamesArrive`) rests on it: a session is told of each other one once (`TellsOnce`), so whoever offered is not told again and never
  starts over on a connection it has; a channel that is open at either end was therefore agreed on at both (`Bond`), and a name that `HelloLate` loses
  was of a connection its receiver no longer had. It is the safety half of `Meshed`.
* `MessageStoreProofs`. The invariant relates the window in memory, the next window, the temporary file and
  the history at each step of an append. `NeverHalf` and `IndexMatchesWindow` follow. `InsertedSurvives` (`InsertedIsDurable`) has two parts: when an append is reported as inserted, a start would load exactly the window in
  memory; and what later steps may take from what a start would load is nothing, or the oldest message of a full window (`WindowLoses`), or, between the removal of
  the old history and the second rename, everything. The last is the case `store_atomic` exhibits: an inserted message is not safe from the next append whose rename fails. `StoreImplementsLog` shows that every step maps to a step of `DurableLog` or to a stutter,
  whether `os.Rename` replaces or not, and
  `AtomicWhereRenameReplaces` that the comment refuted above holds there. The lemma that loading a file that a
  window was written to returns the window (nothing to drop) needs an induction over positions, which
  `SetInduction` (of `DataProofs`) states for a set of naturals. `StartKeepsHistory`, a property of steps: whatever the file holds, with duplicates and
  empty ids, a start keeps of its last entries every message, at its first place (`LoadCondenses`).
* `DataProofs`, what the modules share. A set of naturals that has 0 and the successor of each of its members has them all (`SetInduction`), a
  set of naturals has a least one (`LeastNatural`), and a recursive function over an initial segment of the naturals exists (`Fold`); from these, that `Only` keeps
  the members of the set, all of them and nothing else (`OnlyFacts`). `Only` is a recursive function, so the backlog of `Lan` and the texts of `Feed`
  can be reasoned about, which a `SelectSeq` or a `RECURSIVE` operator would not allow.
* `FileTransferProofs`. `OneFetchAtATime`, `CancelDiscards`, `DownloadingMeansWork`, `PartialMeansWork` and
  `DoneIsThere`, for any number of fetches and cancels. The invariant follows the one running fetch: a context is registered only between
  registration and unwinding (`Exclusive`), a cancelled entry with files still in the inbox means that a fetch or a cancel is about to
  discard them (`Doomed`), and a fetch past its verification has its file unless a cancel crossed it (`Kept`).
* `FeedProofs`, for any engines, tabs, messages, windows and packets. The data first: a recursive function over an initial segment of the
  naturals exists (`Fold`), `Only` keeps what it says (both in `DataProofs`), and the packets of a feed hold its texts, only those, and are never empty (`PacketsFacts`). `TypeCorrect` needs them. `TabsCorrect` (`TabShowsNewest`):
  a tab knows the ids of what it shows and of what came to it since it was loaded (`TabInv`), and a window of a window and something new is a window of all (`WindowGrows`), which is why
  an eviction, a duplicate and a reload commute. Nothing is assumed of the stamps; where they are equal the invariant holds for whichever window the tab is left with.
  `DeliveredCorrect` (`Delivered`): on a channel that is open and linked, what is owed has reached
  the other end, is excused, or is still coming, on the wire, in the greeting, or in the hands of a `publish` that has not passed this neighbour (`FlowInv`). A failing send moves
  what it carried from what is coming to what is withheld, and a save that throws adds the message it kept back; nothing else is excused but what is too long.
  `TabsKeepCorrect` (`TabsKeepNewest`) adds to these two that a text stays among what its author saved and among what each of its channels owes unless `MaxTail` others there are
  not older (`KeepInv`): a text may be evicted anywhere on its way, by such texts only, and then these reach every screen in its place.
* `LanProofs`. `VersionCorrect` (`OneVersion`): a register that is past its comparison carries an instance of the
  same version as the process it will be recorded at, and the process's own calls end with it (`CallOK`). `LanTypes` needs it, because an
  answer may carry the instance of a process that has ended; that instances stay in their bound needs that each start after the first used up an upset (`InstOK`).
* `EngineProofs`. `ConsentCorrect`: a client that will post the consent has a user who agreed. `IdentityCorrect`: without overlapping first starts
  there is one creator of an id at most, while there is one the file holds no id, and every process past it has the file's. `NickRulesCorrect`: a request past its check has
  a nick of the right kind for the process it is addressed to, also when that process was restarted with the other flag. `OneNickCorrect`
  (`OneNick`) says, stage by stage, which of the four places a request has changed already (`Changed`): while nothing is `crossed` an engine has one request at
  most, the places before its stage have the new nick, and those after it the old one. A process that writes the nick while another one runs
  sets `crossed`, so the file is that of the only process past its start.

Every invariant that a passing run checks, and the refinement, is a theorem. Only model-checked: liveness (`Teardown`, `DepartureHeard`, `Meshed`, `FetchEnds`,
`TablesSettle`, `BacklogArrives`), which is out of the prover's reach because it rests on fairness.
What they rest on in each state is proved: `DoneIsTheEnd` for `Teardown`, `NobodyIsAGhost` for `DepartureHeard`, `NobodyWaits` and `NamesAreHeard` for `Meshed`, and
`OneFetchAtATime` (`h.fetching` is set only while a fetch runs) for `FetchEnds`.

## 5. Not modelled

See `PROJECT.json` ("components") for each part and its reason. Within modelled components: the Origin check and the
health and debug handlers of the rendezvous (no state); the buffering of ICE candidates in the mesh; the codec and the hash of files
that travel over channels (a stream completes or is lost); the list of channels and the filters of the hub;
serving chunks to other peers (no state) and a crash of the engine in the middle of a
download (the transfer book is not persisted); addresses, ports and interfaces of the LAN contour; how a host name becomes a nick.

## 6. Plan

1. Tab: the signaling of `src/web/app.js` as a client of `Mesh`: its queue of signals that outlives a socket, its reconnection, and
   `localeCompare`, with the contradiction of `docs/specs/web.md:72-73`.
2. Updater: staging, verification, activation and the helper, with a crash between any two steps; the staged
   archive that is named is the archive that was verified.
3. STUN window, unread counter: small modules and pure operators checked against reference definitions.
4. Proofs: that the channels `Feed` takes as given behave as `Bond` describes those of `Mesh`, and the invariants of the modules above.

## 7. Running

`tlc -config MCMesh.cfg MCMesh` checks one instance, `tlapm MeshProofs.tla` one module's proofs. The longest run is
`mesh` (0.8 million states and a liveness property, under three minutes on two workers); the largest is `signaling_safety` (2.7 million states).
