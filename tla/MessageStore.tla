----------------------------- MODULE MessageStore -----------------------------
(***************************************************************************)
(* The engine's message store (src/internal/chat/store.go): the last       *)
(* MaxTailMessages messages in memory, and a history file that follows     *)
(* every append before the memory does.  A message is its msg_id.          *)
(*                                                                         *)
(* AppendPersistent holds s.mu from its duplicate check to its commit, so  *)
(* appends do not overlap and no reader sees a step of one; the engine may *)
(* stop between any two of its steps, each of which may fail.              *)
(***************************************************************************)
EXTENDS Naturals, Sequences, FiniteSets, Lists

CONSTANTS
  Messages,         \* message ids
  NoId,             \* the empty msg_id, which a history file may hold
  Missing,          \* a file that does not exist
  Torn,             \* a file whose writing was interrupted
  MaxTailMessages,  \* 200 in the code
  Histories,        \* the history files an earlier build may have left
  RenameCanFail     \* os.Rename onto an existing file may fail (Windows)

Files == Seq(Messages \cup {NoId}) \cup {Missing}

ASSUME WindowAssumption == MaxTailMessages \in Nat \ {0}
ASSUME FileAssumption ==
  /\ NoId \notin Messages
  /\ {Missing, Torn} \cap Seq(Messages \cup {NoId}) = {} /\ Missing # Torn
  /\ Histories \subseteq Files
ASSUME RenameAssumption == RenameCanFail \in BOOLEAN

VARIABLES
  msgs,    \* s.msgs
  byID,    \* s.byID
  disk,    \* the file at historyPath
  tmp,     \* the file at historyPath.new
  pc,      \* where AppendPersistent is
  next,    \* its local next: the window being persisted
  result   \* what the last AppendPersistent returned

vars == <<msgs, byID, disk, tmp, pc, next, result>>

Steps == {"down", "ready", "writing", "renaming", "removing", "retrying", "committing"}

TypeOK ==
  /\ msgs \in Seq(Messages)
  /\ byID \subseteq Messages
  /\ disk \in Files
  /\ tmp \in Seq(Messages) \cup {Missing, Torn}
  /\ pc \in Steps
  /\ next \in Seq(Messages)
  /\ result \in {"none", "inserted", "failed"}

-----------------------------------------------------------------------------
\* The last MaxTailMessages elements of s.
Window(s) ==
  IF Len(s) <= MaxTailMessages
  THEN s
  ELSE SubSeq(s, Len(s) - MaxTailMessages + 1, Len(s))

\* The positions of s that NewPersistentStore's loop keeps: a msg_id, seen first.
Kept(s) == {i \in 1..Len(s) : s[i] # NoId /\ \A j \in 1..(i - 1) : s[j] # s[i]}

\* The k-th of a set of positions.
Nth(S, k) == CHOOSE i \in S : Cardinality({j \in S : j <= i}) = k

Distinct(s) == [k \in 1..Cardinality(Kept(s)) |-> s[Nth(Kept(s), k)]]

\* (A slip that a property below must notice: the file is taken as it is.)
MutantLoad(file) ==
  IF file = Missing THEN <<>> ELSE Window(file)

\* What NewPersistentStore makes of a history file.
Load(file) == IF file = Missing THEN <<>> ELSE Distinct(Window(file))

-----------------------------------------------------------------------------
(***************************************************************************)
(* Slips the properties below must notice; none is part of the             *)
(* specification.                                                          *)
(***************************************************************************)
MutantBegin(m) ==            \* memory first, disk later
  /\ pc = "ready" /\ m \notin byID
  /\ next' = Window(Append(msgs, m))
  /\ msgs' = Window(Append(msgs, m))
  /\ byID' = Elements(next')
  /\ pc' = "writing"
  /\ result' = "none"
  /\ UNCHANGED <<disk, tmp>>
MutantRetryFails ==          \* the second rename's error ignored
  /\ pc = "retrying"
  /\ tmp' = Missing /\ pc' = "committing"
  /\ UNCHANGED <<msgs, byID, disk, next, result>>
MutantCommit ==              \* ids only ever added
  /\ pc = "committing"
  /\ msgs' = next /\ byID' = byID \cup Elements(next)
  /\ pc' = "ready" /\ result' = "inserted"
  /\ UNCHANGED <<disk, tmp, next>>

-----------------------------------------------------------------------------
Init ==
  /\ msgs = <<>> /\ byID = {} /\ next = <<>>
  /\ disk \in Histories
  /\ tmp = Missing
  /\ pc = "down"
  /\ result = "none"

\* NewPersistentStore; the file at historyPath.new is not looked at.  (A history that
\* cannot be read keeps the engine down.)
Open ==
  /\ pc = "down"
  /\ msgs' = Load(disk) /\ byID' = Elements(msgs')
  /\ pc' = "ready"
  /\ UNCHANGED <<disk, tmp, next, result>>

\* AppendPersistent takes a message it does not hold (one that it holds changes
\* nothing) and computes the next window.
Begin(m) ==
  /\ pc = "ready" /\ m \notin byID
  /\ next' = Window(Append(msgs, m))
  /\ pc' = "writing"
  /\ result' = "none"
  /\ UNCHANGED <<msgs, byID, disk, tmp>>

\* os.WriteFile of the new history beside the old one.
WriteNew ==
  /\ pc = "writing"
  /\ tmp' = next /\ pc' = "renaming"
  /\ UNCHANGED <<msgs, byID, disk, next, result>>

\* The directory or the file cannot be written; what was written of it stays.
WriteNewFails ==
  /\ pc = "writing"
  /\ tmp' \in {tmp, Torn}
  /\ pc' = "ready" /\ result' = "failed"
  /\ UNCHANGED <<msgs, byID, disk, next>>

\* os.Rename, the first time or again, replaces the history in one step.
Replace ==
  /\ pc \in {"renaming", "retrying"}
  /\ disk' = tmp /\ tmp' = Missing
  /\ pc' = "committing"
  /\ UNCHANGED <<msgs, byID, next, result>>

\* "Windows does not replace an existing destination with Rename."
RenameFails ==
  /\ RenameCanFail
  /\ pc = "renaming"
  /\ pc' = "removing"
  /\ UNCHANGED <<msgs, byID, disk, tmp, next, result>>

\* The old history is removed (or was not there).
RemoveOld ==
  /\ pc = "removing"
  /\ disk' = Missing /\ pc' = "retrying"
  /\ UNCHANGED <<msgs, byID, tmp, next, result>>

\* It cannot be removed: the new one is, if it can, and the append fails.
RemoveOldFails ==
  /\ pc = "removing"
  /\ tmp' \in {Missing, tmp}
  /\ pc' = "ready" /\ result' = "failed"
  /\ UNCHANGED <<msgs, byID, disk, next>>

\* The second rename fails as well: historyPath names no file any more.
RetryFails ==
  /\ pc = "retrying"
  /\ tmp' \in {Missing, tmp}
  /\ pc' = "ready" /\ result' = "failed"
  /\ UNCHANGED <<msgs, byID, disk, next>>

\* The history is on disk: memory follows, the index rebuilt from the window.
Commit ==
  /\ pc = "committing"
  /\ msgs' = next /\ byID' = Elements(next)
  /\ pc' = "ready" /\ result' = "inserted"
  /\ UNCHANGED <<disk, tmp, next>>

\* The engine is stopped, updated or killed at any moment; a file being written may
\* be left torn.
Crash ==
  /\ pc # "down"
  /\ msgs' = <<>> /\ byID' = {} /\ next' = <<>>
  /\ tmp' \in {tmp} \cup (IF pc = "writing" THEN {Torn} ELSE {})
  /\ pc' = "down" /\ result' = "none"
  /\ UNCHANGED disk

Next ==
  \/ Open \/ (\E m \in Messages : Begin(m))
  \/ WriteNew \/ WriteNewFails \/ Replace \/ RenameFails
  \/ RemoveOld \/ RemoveOldFails \/ RetryFails \/ Commit
  \/ Crash

Spec == Init /\ [][Next]_vars

-----------------------------------------------------------------------------
(***************************************************************************)
(* Properties.                                                             *)
(***************************************************************************)

\* The index that refuses duplicates and the window it stands for never drift apart,
\* through evictions, failed appends and reloads: an id is in byID exactly while its
\* message is shown, no message is shown twice, and the window keeps its bound.
WindowIndexed ==
  /\ byID = Elements(msgs)
  /\ \A i, j \in 1..Len(msgs) : msgs[i] = msgs[j] => i = j
  /\ Len(msgs) <= MaxTailMessages

\* A message that AppendPersistent reported as inserted, and everything shown around it,
\* is in the feed of a restart that comes before the next append; and later appends,
\* failures and stops take it from there in two ways only: as the oldest of a full
\* window, and with the whole history, between an os.Rename that failed and the next one
\* (AppendIsAtomic).  An append that succeeds in the same run of the engine brings back
\* what was lost so.
InsertedIsDurable ==
  /\ [](result = "inserted" => Load(disk) = msgs)
  /\ [][\/ Elements(Load(disk)) \subseteq Elements(Load(disk'))
        \/ /\ Len(Load(disk)) = MaxTailMessages
           /\ \A i \in 2..MaxTailMessages : Load(disk)[i] \in Elements(Load(disk'))
        \/ pc = "removing" /\ disk' = Missing]_vars

\* A history file is never half of one append and half of another: whatever fails, a
\* restart shows the window of before the append, that of after it, or (once a rename
\* has failed and the old file is gone) nothing at all.
AllOrNothing ==
  pc # "down" => disk = Missing \/ Load(disk) \in {msgs, next}

\* "writes each later append back atomically" (the comment on NewPersistentStore): a
\* stop in the middle of an append leaves the window of before it or of after it.
AppendIsAtomic == pc # "down" => Load(disk) \in {msgs, next}

\* The store implements the durable log: the log is what a restart would load, the feed
\* what the engine shows, and only an os.Rename that fails may lose the log, as a whole.
Log == INSTANCE DurableLog WITH log <- Load(disk), feed <- msgs, MayLose <- RenameCanFail
ImplementsLog == Log!Spec
=============================================================================
