----------------------------- MODULE FileTransfer -----------------------------
(***************************************************************************)
(* Downloading one file into the inbox and cancelling the download         *)
(* (src/internal/chat/file_xfer.go, transfer.go and the copying of         *)
(* src/internal/files).  Every fetch, StartFetch's goroutine or a          *)
(* synchronous Fetch, and every CancelFetch runs on a goroutine of its     *)
(* own.  Hub.mu guards fetching and cancels, transferBook.mu the status;   *)
(* each is taken for one access at a time, so the goroutines interleave    *)
(* between any two accesses.  The inbox is a shared directory.             *)
(***************************************************************************)
EXTENDS Naturals, FiniteSets

CONSTANTS
  Fetches,    \* the fetches of a behaviour, each of which runs once
  Cancels,    \* the CancelFetch calls of a behaviour, each of which runs once
  NoFetch     \* no entry in h.cancels

ASSUME NoFetchAssumption == NoFetch \notin Fetches

VARIABLES
  at,        \* where each fetch is
  local,     \* it copies a local blob (else it reads from the source peer)
  stopped,   \* its context is cancelled
  call,      \* where each CancelFetch is
  handle,    \* the context it found in h.cancels
  fetching,  \* h.fetching: a fetch of the file is under way
  cancels,   \* h.cancels: whose context is registered
  status,    \* the file's entry in the transfer book
  partial,   \* the .partial file exists in the inbox
  dest,      \* the finished file exists in the inbox
  crossed    \* history: a CancelFetch was under way since the fetch reset the entry

book == <<fetching, cancels, status>>
inbox == <<partial, dest>>
canceller == <<call, handle>>
vars == <<at, local, stopped, canceller, book, inbox, crossed>>

FetchSteps == {"idle", "starting", "running", "registered", "resetting", "opening",
               "copying", "renamed", "copied", "reporting", "failed", "failing",
               "recording", "cancelling", "marking", "unwinding", "releasing", "ended"}
CallSteps == {"idle", "looked", "holding", "signalled", "waiting", "discarding",
              "again", "ended"}

TypeOK ==
  /\ at \in [Fetches -> FetchSteps]
  /\ local \in [Fetches -> BOOLEAN]
  /\ stopped \in [Fetches -> BOOLEAN]
  /\ call \in [Cancels -> CallSteps]
  /\ handle \in [Cancels -> Fetches \cup {NoFetch}]
  /\ fetching \in BOOLEAN
  /\ cancels \in Fetches \cup {NoFetch}
  /\ status \in {"none", "downloading", "done", "error", "cancelled"}
  /\ partial \in BOOLEAN /\ dest \in BOOLEAN
  /\ crossed \in BOOLEAN

Init ==
  /\ at = [f \in Fetches |-> "idle"]
  /\ local = [f \in Fetches |-> FALSE]
  /\ stopped = [f \in Fetches |-> FALSE]
  /\ call = [c \in Cancels |-> "idle"]
  /\ handle = [c \in Cancels |-> NoFetch]
  /\ fetching = FALSE /\ cancels = NoFetch
  /\ status = "none"
  /\ partial = FALSE /\ dest = FALSE
  /\ crossed = FALSE

Goto(f, from, to) == at[f] = from /\ at' = [at EXCEPT ![f] = to]
Advance(c, from, to) == call[c] = from /\ call' = [call EXCEPT ![c] = to]

\* Fetches and calls that have begun and not ended.
Running == {f \in Fetches : at[f] \notin {"idle", "ended"}}
Calling == {c \in Cancels : call[c] \notin {"idle", "ended"}}

-----------------------------------------------------------------------------
(***************************************************************************)
(* Slips the properties below must notice; none is part of the             *)
(* specification.                                                          *)
(***************************************************************************)
MutantClaim(f) ==           \* h.fetching not looked at
  /\ at[f] = "idle"
  /\ \E first \in {"starting", "running"} : at' = [at EXCEPT ![f] = first]
  /\ fetching' = TRUE
  /\ UNCHANGED <<local, stopped, canceller, cancels, status, inbox, crossed>>
MutantFailRecords(f) ==     \* the error is not recorded
  /\ Goto(f, "recording", "unwinding")
  /\ UNCHANGED <<local, stopped, canceller, book, inbox, crossed>>
MutantCopyFails(f) ==       \* the partial file kept
  /\ Goto(f, "copying", IF local[f] THEN "failing" ELSE "failed")
  /\ dest' = (dest /\ local[f])
  /\ UNCHANGED <<local, stopped, canceller, book, partial, crossed>>
MutantRelease(f) ==         \* h.fetching never cleared
  /\ Goto(f, "releasing", "ended")
  /\ UNCHANGED <<local, stopped, canceller, book, inbox, crossed>>
MutantRefused(f) ==         \* a refused report leaves the file in the inbox
  /\ Goto(f, "reporting", "unwinding")
  /\ status \in {"cancelled", "done"}
  /\ UNCHANGED <<local, stopped, canceller, book, inbox, crossed>>
MutantReset(f) ==           \* an entry that says done stays
  /\ Goto(f, "resetting", "opening")
  /\ status' = IF status = "done" THEN status ELSE "downloading"
  /\ crossed' = (Calling # {})
  /\ UNCHANGED <<local, stopped, canceller, fetching, cancels, inbox>>
MutantMark(f) ==            \* a status no client knows
  /\ Goto(f, "marking", "unwinding")
  /\ status' = "discarded"
  /\ UNCHANGED <<local, stopped, canceller, fetching, cancels, inbox, crossed>>

-----------------------------------------------------------------------------
(***************************************************************************)
(* A fetch.                                                                *)
(***************************************************************************)

\* StartFetch or Fetch finds no fetch of the file under way (otherwise the call only
\* reports the one there is); StartFetch goes by way of "starting".
Claim(f) ==
  /\ ~ fetching
  /\ at[f] = "idle"
  /\ \E first \in {"starting", "running"} : at' = [at EXCEPT ![f] = first]
  /\ fetching' = TRUE
  /\ UNCHANGED <<local, stopped, canceller, cancels, status, inbox, crossed>>

\* StartFetch puts the transfer into the book and starts the goroutine.
Start(f) ==
  /\ Goto(f, "starting", "running")
  /\ status' = "downloading"
  /\ crossed' = (Calling # {})
  /\ UNCHANGED <<local, stopped, canceller, fetching, cancels, inbox>>

\* fetchLocked registers the cancel function of its context.
Register(f) ==
  /\ Goto(f, "running", "registered")
  /\ cancels' = f
  /\ UNCHANGED <<local, stopped, canceller, fetching, status, inbox, crossed>>

\* It reads the book: a cancelled entry stays, ...
Look(f) ==
  /\ Goto(f, "registered", IF status = "cancelled" THEN "opening" ELSE "resetting")
  /\ UNCHANGED <<local, stopped, canceller, book, inbox, crossed>>

\* ... any other is put back to downloading.
Reset(f) ==
  /\ Goto(f, "resetting", "opening")
  /\ status' = "downloading"
  /\ crossed' = (Calling # {})
  /\ UNCHANGED <<local, stopped, canceller, fetching, cancels, inbox>>

\* No blob, no peer, no path, a blob that does not match its hash.
Unavailable(f) ==
  /\ Goto(f, "opening", "failing")
  /\ UNCHANGED <<local, stopped, canceller, book, inbox, crossed>>

\* Before a local blob is opened the context is looked at.
StoppedEarly(f) ==
  /\ stopped[f]
  /\ Goto(f, "opening", "marking")
  /\ UNCHANGED <<local, stopped, canceller, book, inbox, crossed>>

\* The .partial file is created, for a local blob or for the source peer's chunks.
Open(f) ==
  /\ Goto(f, "opening", "copying")
  /\ \E blob \in BOOLEAN : local' = [local EXCEPT ![f] = blob]
  /\ partial' = TRUE
  /\ UNCHANGED <<stopped, canceller, book, dest, crossed>>

\* A chunk is written; putActive reports it unless the transfer is over.
Progress(f) ==
  /\ at[f] \in {"copying", "renamed"}
  /\ status' = IF status \in {"cancelled", "done"} THEN status ELSE "downloading"
  /\ UNCHANGED <<at, local, stopped, canceller, fetching, cancels, inbox, crossed>>

\* The copy sees its context cancelled between two chunks.
Stop(f) ==
  /\ stopped[f]
  /\ Goto(f, "copying", "cancelling")
  /\ partial' = FALSE
  /\ dest' = (dest /\ local[f])
  /\ UNCHANGED <<local, stopped, canceller, book, crossed>>

\* Reading, writing or the peer fails; a download removes what it may have renamed.
CopyFails(f) ==
  /\ Goto(f, "copying", IF local[f] THEN "failing" ELSE "failed")
  /\ partial' = FALSE
  /\ dest' = (dest /\ local[f])
  /\ UNCHANGED <<local, stopped, canceller, book, crossed>>

\* The whole file takes its place in the inbox.
Rename(f) ==
  /\ partial
  /\ Goto(f, "copying", "renamed")
  /\ partial' = FALSE /\ dest' = TRUE
  /\ UNCHANGED <<local, stopped, canceller, book, crossed>>

\* Somebody removed the .partial file: os.Rename fails, and so does its retry.
RenameFails(f) ==
  /\ ~ partial
  /\ Goto(f, "copying", IF local[f] THEN "failing" ELSE "failed")
  /\ dest' = FALSE
  /\ UNCHANGED <<local, stopped, canceller, book, partial, crossed>>

\* The copy returned: the context is looked at once more.
Copied(f) ==
  /\ Goto(f, "renamed", IF stopped[f] THEN "cancelling" ELSE "copied")
  /\ UNCHANGED <<local, stopped, canceller, book, inbox, crossed>>

\* VerifyFile finds the announced hash.
Verify(f) ==
  /\ dest
  /\ Goto(f, "copied", "reporting")
  /\ UNCHANGED <<local, stopped, canceller, book, inbox, crossed>>

\* It does not, or does not find the file: what there is is removed.
VerifyFails(f) ==
  /\ Goto(f, "copied", IF local[f] THEN "failing" ELSE "failed")
  /\ dest' = FALSE
  /\ partial' = (partial /\ local[f])
  /\ UNCHANGED <<local, stopped, canceller, book, crossed>>

\* putActive(done) accepts the success.
Report(f) ==
  /\ Goto(f, "reporting", "unwinding")
  /\ status \notin {"cancelled", "done"}
  /\ status' = "done"
  /\ UNCHANGED <<local, stopped, canceller, fetching, cancels, inbox, crossed>>

\* putActive(done) is refused: the transfer was cancelled.
Refused(f) ==
  /\ status \in {"cancelled", "done"}
  /\ Goto(f, "reporting", "cancelling")
  /\ UNCHANGED <<local, stopped, canceller, book, inbox, crossed>>

\* A failed download looks whether it was cancelled.
Failed(f) ==
  /\ Goto(f, "failed", IF status = "cancelled" THEN "cancelling" ELSE "failing")
  /\ UNCHANGED <<local, stopped, canceller, book, inbox, crossed>>

\* failTransfer reads the book and leaves a cancelled entry alone; ...
FailLooks(f) ==
  /\ Goto(f, "failing", IF status = "cancelled" THEN "unwinding" ELSE "recording")
  /\ UNCHANGED <<local, stopped, canceller, book, inbox, crossed>>

\* ... any other becomes an error.
FailRecords(f) ==
  /\ Goto(f, "recording", "unwinding")
  /\ status' = "error"
  /\ UNCHANGED <<local, stopped, canceller, fetching, cancels, inbox, crossed>>

\* The caller of finishCancelled and finishCancelled itself remove both files.
Discard(f) ==
  /\ Goto(f, "cancelling", "marking")
  /\ partial' = FALSE /\ dest' = FALSE
  /\ UNCHANGED <<local, stopped, canceller, book, crossed>>

\* finishCancelled puts the cancelled entry.
Mark(f) ==
  /\ Goto(f, "marking", "unwinding")
  /\ status' = "cancelled"
  /\ UNCHANGED <<local, stopped, canceller, fetching, cancels, inbox, crossed>>

\* fetchLocked's deferred function: its context ends, its cancel function goes.
Unwind(f) ==
  /\ Goto(f, "unwinding", "releasing")
  /\ stopped' = [stopped EXCEPT ![f] = TRUE]
  /\ cancels' = NoFetch
  /\ UNCHANGED <<local, canceller, fetching, status, inbox, crossed>>

\* The caller's deferred function gives the file free.
Release(f) ==
  /\ Goto(f, "releasing", "ended")
  /\ fetching' = FALSE
  /\ UNCHANGED <<local, stopped, canceller, cancels, status, inbox, crossed>>

-----------------------------------------------------------------------------
(***************************************************************************)
(* A CancelFetch.                                                          *)
(***************************************************************************)

\* The transfer is known and under way, or failed.
CancelLooks(c) ==
  /\ status \in {"downloading", "error"}
  /\ Advance(c, "idle", "looked")
  /\ crossed' = TRUE
  /\ UNCHANGED <<at, local, stopped, handle, book, inbox>>

\* It is cancelled already: both files are removed; a finished one is left alone.
CancelAgain(c) ==
  /\ status = "cancelled"
  /\ Advance(c, "idle", "again")
  /\ crossed' = TRUE
  /\ UNCHANGED <<at, local, stopped, handle, book, inbox>>

\* The registered cancel function, if there is one.
TakeHandle(c) ==
  /\ Advance(c, "looked", "holding")
  /\ handle' = [handle EXCEPT ![c] = cancels]
  /\ UNCHANGED <<at, local, stopped, book, inbox, crossed>>

\* cancel() of that fetch's context.
Signal(c) ==
  /\ Advance(c, "holding", "signalled")
  /\ stopped' = [f \in Fetches |-> stopped[f] \/ f = handle[c]]
  /\ UNCHANGED <<at, local, handle, book, inbox, crossed>>

\* "Mark cancelled immediately so UX never shows success after cancel."
MarkCancelled(c) ==
  /\ Advance(c, "signalled", "waiting")
  /\ status' = "cancelled"
  /\ UNCHANGED <<at, local, stopped, handle, fetching, cancels, inbox, crossed>>

\* No fetch is seen under way, or two seconds have passed.
Waited(c) ==
  /\ Advance(c, "waiting", "discarding")
  /\ UNCHANGED <<at, local, stopped, handle, book, inbox, crossed>>

\* discardInbox; a file that is being written may resist.
DiscardInbox(c) ==
  /\ Advance(c, "discarding", "ended") \/ Advance(c, "again", "ended")
  /\ dest' = FALSE
  /\ partial' \in {FALSE, partial /\ \E f \in Fetches : at[f] = "copying"}
  /\ UNCHANGED <<at, local, stopped, handle, book, crossed>>

-----------------------------------------------------------------------------
FetchStep(f) ==
  \/ Start(f) \/ Register(f) \/ Look(f) \/ Reset(f)
  \/ Unavailable(f) \/ StoppedEarly(f) \/ Open(f)
  \/ Stop(f) \/ CopyFails(f) \/ Rename(f) \/ RenameFails(f) \/ Copied(f)
  \/ Verify(f) \/ VerifyFails(f) \/ Report(f) \/ Refused(f)
  \/ Failed(f) \/ FailLooks(f) \/ FailRecords(f) \/ Discard(f) \/ Mark(f)
  \/ Unwind(f) \/ Release(f)

CancelStep(c) ==
  TakeHandle(c) \/ Signal(c) \/ MarkCancelled(c) \/ Waited(c) \/ DiscardInbox(c)

Next ==
  \/ \E f \in Fetches : Claim(f) \/ FetchStep(f) \/ Progress(f)
  \/ \E c \in Cancels : CancelLooks(c) \/ CancelAgain(c) \/ CancelStep(c)

\* Goroutines run; a copy ends, the connection having a deadline of 30 seconds.
Fairness ==
  /\ \A f \in Fetches : WF_vars(FetchStep(f))
  /\ \A c \in Cancels : WF_vars(CancelStep(c))

Spec == Init /\ [][Next]_vars
FairSpec == Spec /\ Fairness

-----------------------------------------------------------------------------
(***************************************************************************)
(* Properties.                                                             *)
(***************************************************************************)

Quiet == Running = {} /\ Calling = {}

\* Two fetches never write the same .partial file, and the registered cancel function
\* is that of the fetch under way.
OneFetch ==
  /\ Cardinality(Running) <= 1
  /\ fetching = (Running # {})
  /\ cancels # NoFetch => cancels \in Running

\* Whichever way a download, its cancellation and a new download cross, a transfer that
\* ends up cancelled leaves neither a file nor part of one in the inbox.
NothingLeftBehind == Quiet /\ status = "cancelled" => ~ partial /\ ~ dest

\* No transfer is shown as under way that nobody works on: the book leaves
\* "downloading" with every fetch, successful, failed or cancelled.
NoStaleDownload == status = "downloading" => Running # {}

\* A part of a file never outlives the work on it.
NoStalePartial == partial => Running # {}

\* A transfer shown as done has its file, whatever earlier fetches and cancels of it
\* left behind, unless a CancelFetch was under way at the same time.
DoneHasFile == status = "done" /\ ~ crossed => dest

\* "UX never shows success after cancel" (the comment in CancelFetch): with one fetch,
\* once CancelFetch has marked it, the transfer is not done.
NoSuccessAfterCancel ==
  \A c \in Cancels : call[c] \in {"waiting", "discarding"} => status # "done"

\* A fetch gives its file free: a later fetch is not refused for ever.
FetchEnds == fetching ~> ~ fetching

=============================================================================
