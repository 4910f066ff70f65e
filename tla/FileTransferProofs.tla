-------------------------- MODULE FileTransferProofs --------------------------
(***************************************************************************)
(* Proofs about FileTransfer, for any number of fetches and cancels.       *)
(***************************************************************************)
EXTENDS FileTransfer, TLAPS, FiniteSetTheorems

\* A fetch that was claimed and has not released the file.
Busy(f) == at[f] \notin {"idle", "ended"}

\* The steps at which the entry may say that the fetch is working.
Working == {"running", "registered", "resetting", "opening", "copying", "renamed", "copied",
            "reporting", "failed", "failing", "recording", "cancelling", "marking"}

\* The steps between the registration of the cancel function and its removal.
Cancellable == (Working \ {"running"}) \cup {"unwinding"}

\* The steps at which no entry says done but that of an earlier fetch.
Outside == {"idle", "ended", "unwinding", "releasing", "starting", "running",
            "registered", "resetting"}

\* A CancelFetch that will still remove what is in the inbox.
WillDiscard == \E c \in Cancels : call[c] \in {"signalled", "waiting", "discarding", "again"}

-----------------------------------------------------------------------------
(* The inductive invariant, one concern at a time.                         *)

Exclusive ==
  /\ \A f, g \in Fetches : Busy(f) /\ Busy(g) => f = g
  /\ \A f \in Fetches : Busy(f) => fetching = TRUE
  /\ fetching = TRUE => \E f \in Fetches : Busy(f)
  /\ cancels # NoFetch => at[cancels] \in Cancellable

Shown ==
  /\ status = "downloading" => \E f \in Fetches : at[f] \in Working
  /\ partial = TRUE => \E f \in Fetches : at[f] = "copying"

\* A context is cancelled by a CancelFetch that goes on to remove what is there.
Doomed ==
  /\ \A f \in Fetches :
       /\ at[f] \in {"registered", "resetting", "opening"} /\ stopped[f] = TRUE /\ dest = TRUE
            => WillDiscard
       /\ at[f] \in {"idle", "starting", "running"} => stopped[f] = FALSE
       /\ at[f] = "marking" /\ dest = TRUE => WillDiscard
  /\ \A c \in Cancels : handle[c] # NoFetch => at[handle[c]] \notin {"idle", "starting", "running"}

Cleared ==
  status = "cancelled" /\ dest = TRUE =>
    \/ WillDiscard
    \/ \E f \in Fetches : at[f] \in {"renamed", "copied", "reporting", "cancelling"}

Kept ==
  /\ crossed = FALSE => \A c \in Cancels : call[c] \in {"idle", "ended"}
  /\ crossed = FALSE => \A f \in Fetches : at[f] \in {"reporting"} => dest = TRUE
  /\ status = "done" => \A f \in Fetches : at[f] \in Outside
  /\ status = "done" /\ crossed = FALSE => dest = TRUE

-----------------------------------------------------------------------------
(* Types.                                                                  *)

LEMMA TypeInit == Init => TypeOK
BY DEF Init, TypeOK, FetchSteps, CallSteps

LEMMA TypeStep == TypeOK /\ [Next]_vars => TypeOK'
<1>. SUFFICES ASSUME TypeOK, [Next]_vars PROVE TypeOK'
  OBVIOUS
<1>. USE DEF TypeOK, FetchSteps, CallSteps, Goto, Advance, book, inbox, canceller
<1>1. ASSUME NEW f \in Fetches, Claim(f) \/ Progress(f) PROVE TypeOK'
  BY <1>1 DEF Claim, Progress
<1>2. ASSUME NEW f \in Fetches, FetchStep(f) PROVE TypeOK'
  <2>1. CASE Start(f) \/ Register(f) \/ Look(f) \/ Reset(f)
    BY <2>1 DEF Start, Register, Look, Reset
  <2>2. CASE Unavailable(f) \/ StoppedEarly(f) \/ Open(f) \/ Stop(f)
    BY <2>2 DEF Unavailable, StoppedEarly, Open, Stop
  <2>3. CASE CopyFails(f) \/ Rename(f) \/ RenameFails(f) \/ Copied(f)
    BY <2>3 DEF CopyFails, Rename, RenameFails, Copied
  <2>4. CASE Verify(f) \/ VerifyFails(f) \/ Report(f) \/ Refused(f)
    BY <2>4 DEF Verify, VerifyFails, Report, Refused
  <2>5. CASE Failed(f) \/ FailLooks(f) \/ FailRecords(f) \/ Discard(f)
    BY <2>5 DEF Failed, FailLooks, FailRecords, Discard
  <2>6. CASE Mark(f) \/ Unwind(f) \/ Release(f)
    BY <2>6 DEF Mark, Unwind, Release
  <2>. QED BY <1>2, <2>1, <2>2, <2>3, <2>4, <2>5, <2>6 DEF FetchStep
<1>3. ASSUME NEW c \in Cancels, CancelLooks(c) \/ CancelAgain(c) \/ CancelStep(c)
      PROVE  TypeOK'
  BY <1>3 DEF CancelLooks, CancelAgain, CancelStep, TakeHandle, Signal, MarkCancelled,
              Waited, DiscardInbox
<1>4. CASE UNCHANGED vars
  BY <1>4 DEF vars
<1>. QED BY <1>1, <1>2, <1>3, <1>4 DEF Next

\* Every reachable state has the declared types.
THEOREM TransferTypes == Spec => []TypeOK
BY TypeInit, TypeStep, PTL DEF Spec

-----------------------------------------------------------------------------
(* Every step keeps each concern.                                          *)

IInv == TypeOK /\ Exclusive /\ Shown /\ Doomed /\ Cleared /\ Kept

LEMMA IInvInit == Init => IInv
BY TypeInit, NoFetchAssumption
   DEF Init, IInv, TypeOK, Exclusive, Busy, Shown, Doomed, Cleared, Kept, WillDiscard

LEMMA ExclusiveStep == TypeOK /\ Exclusive /\ [Next]_vars => Exclusive'
<1>. SUFFICES ASSUME TypeOK, Exclusive, [Next]_vars PROVE Exclusive'
  OBVIOUS
<1>. USE NoFetchAssumption
     DEF TypeOK, FetchSteps, Goto, Advance, book, inbox, canceller, Exclusive, Busy,
         Cancellable, Working
<1>1. ASSUME NEW f \in Fetches, Claim(f) \/ Progress(f) PROVE Exclusive'
  BY <1>1 DEF Claim, Progress
<1>2. ASSUME NEW f \in Fetches, FetchStep(f) PROVE Exclusive'
  <2>1. CASE Start(f) \/ Register(f) \/ Look(f) \/ Reset(f)
    BY <2>1 DEF Start, Register, Look, Reset
  <2>2. CASE Unavailable(f) \/ StoppedEarly(f) \/ Open(f) \/ Stop(f)
    BY <2>2 DEF Unavailable, StoppedEarly, Open, Stop
  <2>3. CASE CopyFails(f) \/ Rename(f) \/ RenameFails(f) \/ Copied(f)
    BY <2>3 DEF CopyFails, Rename, RenameFails, Copied
  <2>4. CASE Verify(f) \/ VerifyFails(f) \/ Report(f) \/ Refused(f)
    BY <2>4 DEF Verify, VerifyFails, Report, Refused
  <2>5. CASE Failed(f) \/ FailLooks(f) \/ FailRecords(f) \/ Discard(f)
    BY <2>5 DEF Failed, FailLooks, FailRecords, Discard
  <2>6. CASE Mark(f) \/ Unwind(f) \/ Release(f)
    BY <2>6 DEF Mark, Unwind, Release
  <2>. QED BY <1>2, <2>1, <2>2, <2>3, <2>4, <2>5, <2>6 DEF FetchStep
<1>3. ASSUME NEW c \in Cancels, CancelLooks(c) \/ CancelAgain(c) \/ CancelStep(c)
      PROVE  Exclusive'
  BY <1>3 DEF CancelLooks, CancelAgain, CancelStep, TakeHandle, Signal, MarkCancelled,
              Waited, DiscardInbox
<1>4. CASE UNCHANGED vars
  BY <1>4 DEF vars
<1>. QED BY <1>1, <1>2, <1>3, <1>4 DEF Next

LEMMA ShownStep == TypeOK /\ Exclusive /\ Shown /\ [Next]_vars => Shown'
<1>. SUFFICES ASSUME TypeOK, Exclusive, Shown, [Next]_vars PROVE Shown'
  OBVIOUS
<1>. USE DEF TypeOK, FetchSteps, Goto, Advance, book, inbox, canceller, Exclusive, Busy,
         Working, Shown
<1>1. ASSUME NEW f \in Fetches, Claim(f) \/ Progress(f) PROVE Shown'
  BY <1>1 DEF Claim, Progress
<1>2. ASSUME NEW f \in Fetches, FetchStep(f) PROVE Shown'
  <2>1. CASE Start(f) \/ Register(f) \/ Look(f) \/ Reset(f)
    BY <2>1 DEF Start, Register, Look, Reset
  <2>2. CASE Unavailable(f) \/ StoppedEarly(f) \/ Open(f) \/ Stop(f)
    BY <2>2 DEF Unavailable, StoppedEarly, Open, Stop
  <2>3. CASE CopyFails(f) \/ Rename(f) \/ RenameFails(f) \/ Copied(f)
    BY <2>3 DEF CopyFails, Rename, RenameFails, Copied
  <2>4. CASE Verify(f) \/ VerifyFails(f) \/ Report(f) \/ Refused(f)
    BY <2>4 DEF Verify, VerifyFails, Report, Refused
  <2>5. CASE Failed(f) \/ FailLooks(f) \/ FailRecords(f) \/ Discard(f)
    BY <2>5 DEF Failed, FailLooks, FailRecords, Discard
  <2>6. CASE Mark(f) \/ Unwind(f) \/ Release(f)
    BY <2>6 DEF Mark, Unwind, Release
  <2>. QED BY <1>2, <2>1, <2>2, <2>3, <2>4, <2>5, <2>6 DEF FetchStep
<1>3. ASSUME NEW c \in Cancels, CancelLooks(c) \/ CancelAgain(c) \/ CancelStep(c)
      PROVE  Shown'
  BY <1>3 DEF CancelLooks, CancelAgain, CancelStep, TakeHandle, Signal, MarkCancelled,
              Waited, DiscardInbox
<1>4. CASE UNCHANGED vars
  BY <1>4 DEF vars
<1>. QED BY <1>1, <1>2, <1>3, <1>4 DEF Next

LEMMA DoomedStep == TypeOK /\ Exclusive /\ Doomed /\ [Next]_vars => Doomed'
<1>. SUFFICES ASSUME TypeOK, Exclusive, Doomed, [Next]_vars PROVE Doomed'
  OBVIOUS
<1>. USE NoFetchAssumption
     DEF TypeOK, FetchSteps, CallSteps, Goto, Advance, book, inbox, canceller, Exclusive,
         Busy, Cancellable, Working, Doomed, WillDiscard
<1>1. ASSUME NEW f \in Fetches, Claim(f) \/ Progress(f) PROVE Doomed'
  BY <1>1 DEF Claim, Progress
<1>2. ASSUME NEW f \in Fetches, FetchStep(f) PROVE Doomed'
  <2>1. CASE Start(f) \/ Register(f)
    BY <2>1 DEF Start, Register
  <2>2. CASE Look(f) \/ Reset(f)
    BY <2>2 DEF Look, Reset
  <2>3. CASE Unavailable(f) \/ StoppedEarly(f)
    BY <2>3 DEF Unavailable, StoppedEarly
  <2>4. CASE Open(f) \/ Stop(f)
    BY <2>4 DEF Open, Stop
  <2>5. CASE CopyFails(f) \/ Rename(f)
    BY <2>5 DEF CopyFails, Rename
  <2>6. CASE RenameFails(f) \/ Copied(f)
    BY <2>6 DEF RenameFails, Copied
  <2>7. CASE Verify(f) \/ VerifyFails(f)
    BY <2>7 DEF Verify, VerifyFails
  <2>8. CASE Report(f) \/ Refused(f)
    BY <2>8 DEF Report, Refused
  <2>9. CASE Failed(f) \/ FailLooks(f) \/ FailRecords(f)
    BY <2>9 DEF Failed, FailLooks, FailRecords
  <2>10. CASE Discard(f) \/ Mark(f)
    BY <2>10 DEF Discard, Mark
  <2>11. CASE Unwind(f) \/ Release(f)
    BY <2>11 DEF Unwind, Release
  <2>. QED BY <1>2, <2>1, <2>2, <2>3, <2>4, <2>5, <2>6, <2>7, <2>8, <2>9, <2>10, <2>11
           DEF FetchStep
<1>3. ASSUME NEW c \in Cancels, CancelLooks(c) \/ CancelAgain(c) PROVE Doomed'
  BY <1>3 DEF CancelLooks, CancelAgain
<1>4. ASSUME NEW c \in Cancels, CancelStep(c) PROVE Doomed'
  <2>1. CASE TakeHandle(c)
    <3>1. /\ at' = at /\ stopped' = stopped /\ dest' = dest
          /\ handle' = [handle EXCEPT ![c] = cancels]
          /\ call[c] = "looked" /\ call' = [call EXCEPT ![c] = "holding"]
      BY <2>1 DEF TakeHandle
    <3>2. cancels # NoFetch => at[cancels] \notin {"idle", "starting", "running"}
      <4>1. cancels # NoFetch => at[cancels] \in Cancellable
        BY DEF Exclusive
      <4>2. \A x \in Cancellable : x \notin {"idle", "starting", "running"}
        BY DEF Cancellable, Working
      <4>. HIDE DEF Cancellable, Working, TypeOK, Exclusive
      <4>. QED BY ONLY <4>1, <4>2
    <3>3. \A d \in Cancels :
             handle'[d] # NoFetch => at'[handle'[d]] \notin {"idle", "starting", "running"}
      BY <3>1, <3>2
    <3>4. WillDiscard => WillDiscard'
      BY <3>1
    <3>5. \A f \in Fetches :
            /\ at'[f] \in {"registered", "resetting", "opening"} /\ stopped'[f] = TRUE /\ dest' = TRUE
                 => WillDiscard'
            /\ at'[f] \in {"idle", "starting", "running"} => stopped'[f] = FALSE
            /\ at'[f] = "marking" /\ dest' = TRUE => WillDiscard'
      <4>. HIDE DEF WillDiscard
      <4>. QED BY <3>1, <3>4
    <3>. QED BY <3>3, <3>5
  <2>2. CASE Signal(c)
    BY <2>2 DEF Signal
  <2>3. CASE MarkCancelled(c) \/ Waited(c)
    BY <2>3 DEF MarkCancelled, Waited
  <2>4. CASE DiscardInbox(c)
    BY <2>4 DEF DiscardInbox
  <2>. QED BY <1>4, <2>1, <2>2, <2>3, <2>4 DEF CancelStep
<1>5. CASE UNCHANGED vars
  BY <1>5 DEF vars
<1>. QED BY <1>1, <1>2, <1>3, <1>4, <1>5 DEF Next

LEMMA ClearedStep == TypeOK /\ Exclusive /\ Doomed /\ Cleared /\ [Next]_vars => Cleared'
<1>. SUFFICES ASSUME TypeOK, Exclusive, Doomed, Cleared, [Next]_vars PROVE Cleared'
  OBVIOUS
<1>. USE NoFetchAssumption
     DEF TypeOK, FetchSteps, CallSteps, Goto, Advance, book, inbox, canceller, Exclusive,
         Busy, Cancellable, Working, Doomed, Cleared, WillDiscard
<1>1. ASSUME NEW f \in Fetches, Claim(f) \/ Progress(f) PROVE Cleared'
  BY <1>1 DEF Claim, Progress
<1>2. ASSUME NEW f \in Fetches, FetchStep(f) PROVE Cleared'
  <2>1. CASE Start(f) \/ Register(f)
    BY <2>1 DEF Start, Register
  <2>2. CASE Look(f) \/ Reset(f)
    BY <2>2 DEF Look, Reset
  <2>3. CASE Unavailable(f) \/ StoppedEarly(f)
    BY <2>3 DEF Unavailable, StoppedEarly
  <2>4. CASE Open(f) \/ Stop(f)
    BY <2>4 DEF Open, Stop
  <2>5. CASE CopyFails(f) \/ Rename(f)
    BY <2>5 DEF CopyFails, Rename
  <2>6. CASE RenameFails(f) \/ Copied(f)
    BY <2>6 DEF RenameFails, Copied
  <2>7. CASE Verify(f) \/ VerifyFails(f)
    BY <2>7 DEF Verify, VerifyFails
  <2>8. CASE Report(f) \/ Refused(f)
    BY <2>8 DEF Report, Refused
  <2>9. CASE Failed(f) \/ FailLooks(f) \/ FailRecords(f)
    BY <2>9 DEF Failed, FailLooks, FailRecords
  <2>10. CASE Discard(f) \/ Mark(f)
    BY <2>10 DEF Discard, Mark
  <2>11. CASE Unwind(f) \/ Release(f)
    BY <2>11 DEF Unwind, Release
  <2>. QED BY <1>2, <2>1, <2>2, <2>3, <2>4, <2>5, <2>6, <2>7, <2>8, <2>9, <2>10, <2>11
           DEF FetchStep
<1>3. ASSUME NEW c \in Cancels, CancelLooks(c) \/ CancelAgain(c) PROVE Cleared'
  BY <1>3 DEF CancelLooks, CancelAgain
<1>4. ASSUME NEW c \in Cancels, CancelStep(c) PROVE Cleared'
  <2>1. CASE TakeHandle(c)
    BY <2>1 DEF TakeHandle
  <2>2. CASE Signal(c)
    BY <2>2 DEF Signal
  <2>3. CASE MarkCancelled(c) \/ Waited(c)
    BY <2>3 DEF MarkCancelled, Waited
  <2>4. CASE DiscardInbox(c)
    BY <2>4 DEF DiscardInbox
  <2>. QED BY <1>4, <2>1, <2>2, <2>3, <2>4 DEF CancelStep
<1>5. CASE UNCHANGED vars
  BY <1>5 DEF vars
<1>. QED BY <1>1, <1>2, <1>3, <1>4, <1>5 DEF Next

LEMMA KeptStep == TypeOK /\ Exclusive /\ Kept /\ [Next]_vars => Kept'
<1>. SUFFICES ASSUME TypeOK, Exclusive, Kept, [Next]_vars PROVE Kept'
  OBVIOUS
<1>. USE NoFetchAssumption
     DEF TypeOK, FetchSteps, CallSteps, Goto, Advance, book, inbox, canceller, Exclusive,
         Busy, Cancellable, Working, Kept, Outside, Calling
<1>1. ASSUME NEW f \in Fetches, Claim(f) \/ Progress(f) PROVE Kept'
  BY <1>1 DEF Claim, Progress
<1>2. ASSUME NEW f \in Fetches, FetchStep(f) PROVE Kept'
  <2>1. CASE Start(f) \/ Register(f)
    BY <2>1 DEF Start, Register
  <2>2. CASE Look(f) \/ Reset(f)
    BY <2>2 DEF Look, Reset
  <2>3. CASE Unavailable(f) \/ StoppedEarly(f)
    BY <2>3 DEF Unavailable, StoppedEarly
  <2>4. CASE Open(f) \/ Stop(f)
    BY <2>4 DEF Open, Stop
  <2>5. CASE CopyFails(f) \/ Rename(f)
    BY <2>5 DEF CopyFails, Rename
  <2>6. CASE RenameFails(f) \/ Copied(f)
    BY <2>6 DEF RenameFails, Copied
  <2>7. CASE Verify(f) \/ VerifyFails(f)
    BY <2>7 DEF Verify, VerifyFails
  <2>8. CASE Report(f) \/ Refused(f)
    BY <2>8 DEF Report, Refused
  <2>9. CASE Failed(f) \/ FailLooks(f) \/ FailRecords(f)
    BY <2>9 DEF Failed, FailLooks, FailRecords
  <2>10. CASE Discard(f) \/ Mark(f)
    BY <2>10 DEF Discard, Mark
  <2>11. CASE Unwind(f) \/ Release(f)
    BY <2>11 DEF Unwind, Release
  <2>. QED BY <1>2, <2>1, <2>2, <2>3, <2>4, <2>5, <2>6, <2>7, <2>8, <2>9, <2>10, <2>11
           DEF FetchStep
<1>3. ASSUME NEW c \in Cancels, CancelLooks(c) \/ CancelAgain(c) PROVE Kept'
  BY <1>3 DEF CancelLooks, CancelAgain
<1>4. ASSUME NEW c \in Cancels, CancelStep(c) PROVE Kept'
  <2>1. CASE TakeHandle(c)
    BY <2>1 DEF TakeHandle
  <2>2. CASE Signal(c)
    BY <2>2 DEF Signal
  <2>3. CASE MarkCancelled(c) \/ Waited(c)
    BY <2>3 DEF MarkCancelled, Waited
  <2>4. CASE DiscardInbox(c)
    BY <2>4 DEF DiscardInbox
  <2>. QED BY <1>4, <2>1, <2>2, <2>3, <2>4 DEF CancelStep
<1>5. CASE UNCHANGED vars
  BY <1>5 DEF vars
<1>. QED BY <1>1, <1>2, <1>3, <1>4, <1>5 DEF Next

LEMMA IInvStep == IInv /\ [Next]_vars => IInv'
BY TypeStep, ExclusiveStep, ShownStep, DoomedStep, ClearedStep, KeptStep DEF IInv

THEOREM TransferInvariant == Spec => []IInv
BY IInvInit, IInvStep, PTL DEF Spec

-----------------------------------------------------------------------------
(* What it implies.                                                        *)

\* A set of which any two elements are equal has at most one.
LEMMA AtMostOne ==
  ASSUME NEW S, \A x, y \in S : x = y
  PROVE  IsFiniteSet(S) /\ Cardinality(S) <= 1
<1>1. CASE S = {}
  BY <1>1, FS_EmptySet
<1>2. CASE S # {}
  <2>1. PICK x \in S : TRUE
    BY <1>2
  <2>2. S = {x}
    BY <2>1
  <2>3. IsFiniteSet({x}) /\ Cardinality({x}) = 1
    BY FS_Singleton
  <2>. QED BY <2>2, <2>3
<1>. QED BY <1>1, <1>2

\* file_xfer.go, StartFetch and Fetch: one fetch of the file at a time, and the
\* cancel function that is registered is its own.
THEOREM OneFetchAtATime == Spec => []OneFetch
<1>1. IInv => OneFetch
  <2>. SUFFICES ASSUME IInv PROVE OneFetch
    OBVIOUS
  <2>1. \A f : f \in Running <=> f \in Fetches /\ Busy(f)
    BY DEF Running, Busy
  <2>2. \A f, g \in Running : f = g
    BY <2>1 DEF IInv, Exclusive
  <2>3. Cardinality(Running) <= 1
    BY <2>2, AtMostOne
  <2>4. fetching = (Running # {})
    BY <2>1 DEF IInv, Exclusive, TypeOK
  <2>5. cancels # NoFetch => cancels \in Running
    BY DEF IInv, Exclusive, TypeOK, Running, Cancellable, Working
  <2>. QED BY <2>3, <2>4, <2>5 DEF OneFetch
<1>. QED BY <1>1, TransferInvariant, PTL

\* file_xfer.go, CancelFetch and finishCancelled: however they cross, a transfer that
\* ends up cancelled has left nothing in the inbox.
THEOREM CancelDiscards == Spec => []NothingLeftBehind
<1>1. IInv => NothingLeftBehind
  BY DEF IInv, TypeOK, Shown, Cleared, WillDiscard, NothingLeftBehind, Quiet, Running, Calling
<1>. QED BY <1>1, TransferInvariant, PTL

\* fetchLocked leaves "downloading" on every path, before h.fetching is cleared.
THEOREM DownloadingMeansWork == Spec => []NoStaleDownload
<1>1. IInv => NoStaleDownload
  BY DEF IInv, Shown, Working, NoStaleDownload, Running
<1>. QED BY <1>1, TransferInvariant, PTL

\* materialize.go and chunk.go: the .partial file is there while one fetch copies, never
\* longer.
THEOREM PartialMeansWork == Spec => []NoStalePartial
<1>1. IInv => NoStalePartial
  BY DEF IInv, TypeOK, Shown, NoStalePartial, Running
<1>. QED BY <1>1, TransferInvariant, PTL

\* A transfer that is done, and that no CancelFetch crossed, has its file.
THEOREM DoneIsThere == Spec => []DoneHasFile
<1>1. IInv => DoneHasFile
  BY DEF IInv, TypeOK, Kept, DoneHasFile
<1>. QED BY <1>1, TransferInvariant, PTL
=============================================================================
