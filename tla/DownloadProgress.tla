--------------------------- MODULE DownloadProgress ---------------------------
(***************************************************************************)
(* The progress a launch shows: batches (BatchPromise), the ticker that    *)
(* reports on each, the channel its snapshots travel through, and the      *)
(* caller that merges the snapshots of several concurrent batches into the *)
(* one `statuses.downloads` of an instance (concurrently-download.ts).     *)
(*                                                                         *)
(* Snapshots are cumulative and a channel keeps their order, but the       *)
(* response to the command takes another road: a snapshot may be delivered *)
(* after the caller has resumed from its await.  The two desktop backends  *)
(* differ in one thing, TickerAwaited: Go waits for the ticker to stop     *)
(* before it answers, Rust only asks it to.                                *)
(***************************************************************************)
EXTENDS BatchPromise, Sequences, FiniteSets

CONSTANTS
  TickerAwaited,  \* TRUE: service_download.go, FALSE: downloads.rs
  MaxTicks        \* bound: snapshots the ticker of one batch sends

ASSUME ProgressAssumption ==
  /\ TickerAwaited \in BOOLEAN /\ MaxTicks \in Nat
  /\ IsFiniteSet(Batches) /\ MaxEntries \in Nat

VARIABLES
  caller,    \* where each call of concurrentlyDownload is
  request,   \* the number of entries it sent
  ticker,    \* where the ticker of a batch is
  collected, \* the paths it has read but not sent
  ticks,     \* how often it has sent
  channel,   \* the snapshots on their way
  bridged,   \* whether the channel is one of the bridge to Wails, which is closed with the answer
  seen,      \* previousSuccess, previousFailed and previousPaths of a call
  total, successShown, failedShown,  \* statuses.downloads
  current                            \* statuses.downloads.current, as batch and entry

tickerVars   == <<ticker, collected, ticks>>
callVars     == <<caller, request, bridged>>
statusVars   == <<seen, total, successShown, failedShown, current>>
progressVars == <<callVars, tickerVars, channel, statusVars>>
vars         == <<promiseVars, progressVars>>

Snapshots == [paths: SUBSET (0..MaxEntries - 1), success: 0..MaxEntries, failed: 0..MaxEntries]

Init ==
  /\ PromiseInit
  /\ caller    = [b \in Batches |-> "idle"]
  /\ request   = [b \in Batches |-> None]
  /\ ticker    = [b \in Batches |-> "off"]
  /\ collected = [b \in Batches |-> {}]
  /\ ticks     = [b \in Batches |-> 0]
  /\ channel   = [b \in Batches |-> <<>>]
  /\ bridged \in BOOLEAN
  /\ seen      = [b \in Batches |-> [paths |-> {}, success |-> 0, failed |-> 0]]
  /\ total = 0 /\ successShown = 0 /\ failedShown = 0
  /\ current = {}

-----------------------------------------------------------------------------
(* The backend.                                                            *)

\* The workers go on until the command stops the ticker.
Ticking(b) == ticker[b] \in {"waiting", "collected"}

\* The command starts, and the ticker before the workers.
Open(b) ==
  /\ request[b] # None
  /\ Send(b, request[b])
  /\ ticker' = [ticker EXCEPT ![b] = "waiting"]
  /\ UNCHANGED <<callVars, collected, ticks, channel, statusVars>>

Decline(b) ==
  /\ request[b] # None
  /\ Refuse(b)
  /\ UNCHANGED progressVars

ShowFile(b)  == \E entry \in 0..(size[b] - 1) : Show(b, entry) /\ UNCHANGED progressVars
HideFile(b)  == \E entry \in inFlight[b] : Hide(b, entry) /\ UNCHANGED progressVars
SettleOne(b) == (SettleOk(b) \/ SettleBad(b)) /\ UNCHANGED progressVars

\* cancel_downloads: one cancellation reaches every batch under its id.
Cancel == \E reached \in SUBSET Batches : CancelAll(reached) /\ UNCHANGED progressVars

\* A tick: the files in flight are read under the lock...
Collect(b) ==
  /\ ticker[b] = "waiting" /\ ticks[b] < MaxTicks
  /\ ticker'    = [ticker EXCEPT ![b] = "collected"]
  /\ collected' = [collected EXCEPT ![b] = inFlight[b]]
  /\ UNCHANGED <<promiseVars, callVars, ticks, channel, statusVars>>

Snapshot(b, paths) == [paths |-> paths, success |-> success[b], failed |-> failed[b]]

\* ...and later sent with the counters of that later moment.
SendTick(b) ==
  /\ ticker[b] \in {"collected", "aborted"}
  /\ channel' = [channel EXCEPT ![b] = Append(@, Snapshot(b, collected[b]))]
  /\ ticker'  = [ticker EXCEPT ![b] = IF @ = "aborted" THEN "off" ELSE "waiting"]
  /\ ticks'   = [ticks EXCEPT ![b] = @ + 1]
  /\ UNCHANGED <<promiseVars, callVars, collected, statusVars>>

\* Mutant of StopTicker: the ticker is not waited for.
StopTickerEarly(b) ==
  /\ MayAnswer(b) /\ Ticking(b)
  /\ ticker' = [ticker EXCEPT ![b] = IF @ = "collected" THEN "aborted" ELSE "off"]
  /\ UNCHANGED <<promiseVars, callVars, collected, ticks, channel, statusVars>>

\* Mutant of StopTicker: the ticker is waited for until it has ticked.
StopTickerLate(b) ==
  /\ MayAnswer(b) /\ Ticking(b)
  /\ ticks[b] > 0 /\ ticker[b] # "collected"
  /\ ticker' = [ticker EXCEPT ![b] = "off"]
  /\ UNCHANGED <<promiseVars, callVars, collected, ticks, channel, statusVars>>

\* Every worker has returned and the ticker is told to stop.  A tick between its read and its
\* send is waited for by dlStartTicker's stop function; `ticker.abort()` only keeps the task
\* from running past its next await.
StopTicker(b) ==
  /\ MayAnswer(b) /\ Ticking(b)
  /\ TickerAwaited => ticker[b] # "collected"
  /\ ticker' = [ticker EXCEPT ![b] = IF @ = "collected" THEN "aborted" ELSE "off"]
  /\ UNCHANGED <<promiseVars, callVars, collected, ticks, channel, statusVars>>

\* The final snapshot shows no file and the counts of the report.
Finalize(b) ==
  /\ ~Ticking(b)
  /\ Answer(b)
  /\ channel' = [channel EXCEPT ![b] = Append(@, Snapshot(b, {}))]
  /\ UNCHANGED <<callVars, tickerVars, statusVars>>

-----------------------------------------------------------------------------
(* The caller.                                                             *)

\* The call announces its entries and sends the command.
Call(b, n) ==
  /\ caller[b] = "idle"
  /\ caller'  = [caller EXCEPT ![b] = "awaiting"]
  /\ request' = [request EXCEPT ![b] = n]
  /\ total'   = total + n
  /\ UNCHANGED <<promiseVars, bridged, tickerVars, channel, seen, successShown, failedShown, current>>

\* Mutant of Stale: every snapshot is applied.
NeverStale(b, counts) == FALSE

\* Whether applySnapshotData ignores the counts.
Stale(b, counts) == counts.success < seen[b].success \/ counts.failed < seen[b].failed

\* Mutant of ApplySnapshotData: the difference the wrong way round.
ApplyReversed(b, counts, paths) ==
  /\ seen' = [seen EXCEPT ![b] = [paths |-> paths, success |-> counts.success, failed |-> counts.failed]]
  /\ successShown' = successShown + seen[b].success - counts.success
  /\ failedShown'  = failedShown + seen[b].failed - counts.failed

\* applySnapshotData: what was added since the last snapshot is added to the totals.
ApplySnapshotData(b, counts, paths) ==
  IF Stale(b, counts)
    THEN /\ seen' = [seen EXCEPT ![b].paths = paths]
         /\ UNCHANGED <<successShown, failedShown>>
    ELSE /\ seen' = [seen EXCEPT ![b] =
              [paths |-> paths, success |-> counts.success, failed |-> counts.failed]]
         /\ successShown' = successShown + counts.success - seen[b].success
         /\ failedShown'  = failedShown + counts.failed - seen[b].failed

Tagged(b, paths) == {<<b, p>> : p \in paths}

\* onProgress.onmessage: paths this call showed before and no longer shows disappear.
OnMessage(b) ==
  /\ channel[b] # <<>>
  /\ LET snapshot == Head(channel[b])
     IN  /\ current' = (current \ Tagged(b, seen[b].paths)) \cup Tagged(b, snapshot.paths)
         /\ ApplySnapshotData(b, snapshot, snapshot.paths)
  /\ channel' = [channel EXCEPT ![b] = Tail(@)]
  /\ UNCHANGED <<promiseVars, callVars, tickerVars, total>>

\* withStream: the bridge to Wails forwards events to the channel until the command has answered.
\* What is still on its way then, the final snapshot too, is lost; the caller goes on afterwards.
CloseStream(b) ==
  /\ bridged /\ answer[b] # None /\ channel[b] # <<>>
  /\ channel' = [channel EXCEPT ![b] = <<>>]
  /\ UNCHANGED <<promiseVars, callVars, tickerVars, statusVars>>

\* Mutant of Unsettled: no correction.
NothingUnsettled(b) == 0

\* Entries a cancelled batch never settled leave the total.
Unsettled(b) ==
  IF answer[b].cancelled THEN request[b] - answer[b].success - answer[b].failed ELSE 0

\* The command has answered: the report is applied like a last snapshot without files.
Resume(b) ==
  /\ caller[b] = "awaiting" /\ answer[b] # None
  /\ bridged => channel[b] = <<>>
  /\ caller' = [caller EXCEPT ![b] = "returned"]
  /\ ApplySnapshotData(b, answer[b], {})
  /\ current' = current \ Tagged(b, seen[b].paths)
  /\ total'   = total - Unsettled(b)
  /\ UNCHANGED <<promiseVars, request, bridged, tickerVars, channel>>

\* The command has rejected and the call throws: the total keeps its entries.
Throw(b) ==
  /\ caller[b] = "awaiting" /\ status[b] = "refused"
  /\ caller' = [caller EXCEPT ![b] = "threw"]
  /\ UNCHANGED <<promiseVars, request, bridged, tickerVars, channel, statusVars>>

\* The client and the logging config, one file each, are caught and counted as failed.
ThrowCounted(b) ==
  /\ caller[b] = "awaiting" /\ status[b] = "refused" /\ request[b] = 1
  /\ caller' = [caller EXCEPT ![b] = "counted"]
  /\ failedShown' = failedShown + 1
  /\ UNCHANGED <<promiseVars, request, bridged, tickerVars, channel, seen, total, successShown, current>>

-----------------------------------------------------------------------------
CommandStep(b) == Open(b) \/ Decline(b) \/ SettleOne(b) \/ StopTicker(b) \/ Finalize(b)
CallerStep(b)  == OnMessage(b) \/ CloseStream(b) \/ Resume(b) \/ Throw(b) \/ ThrowCounted(b)

Next ==
  \/ \E b \in Batches, n \in 0..MaxEntries : Call(b, n)
  \/ \E b \in Batches :
       \/ CommandStep(b) \/ ShowFile(b) \/ HideFile(b)
       \/ Collect(b) \/ SendTick(b) \/ CallerStep(b)
  \/ Cancel

\* A request ends within the client's timeouts, so a batch keeps settling entries or stops;
\* the tasks are polled, and the event loop of the webview handles every message and answer.
\* Calls and cancellations are the user's.
Fairness ==
  \A b \in Batches :
    /\ WF_vars(CommandStep(b)) /\ WF_vars(HideFile(b))
    /\ WF_vars(SendTick(b)) /\ WF_vars(CallerStep(b))

Spec     == Init /\ [][Next]_vars
FairSpec == Spec /\ Fairness

-----------------------------------------------------------------------------
(* Properties.                                                             *)

TypeOK ==
  /\ bridged \in BOOLEAN
  /\ caller    \in [Batches -> {"idle", "awaiting", "returned", "threw", "counted"}]
  /\ request   \in [Batches -> (0..MaxEntries) \cup {None}]
  /\ ticker    \in [Batches -> {"off", "waiting", "collected", "aborted"}]
  /\ collected \in [Batches -> SUBSET (0..MaxEntries - 1)]
  /\ ticks     \in [Batches -> 0..MaxTicks]
  /\ \A b \in Batches : \A k \in DOMAIN channel[b] : channel[b][k] \in Snapshots
  /\ seen      \in [Batches -> Snapshots]
  /\ {total, successShown, failedShown} \subseteq Nat
  /\ current   \subseteq Batches \X (0..MaxEntries - 1)

\* Nothing more will reach the caller from this batch.
Over(b) == caller[b] = "returned" /\ channel[b] = <<>> /\ ticker[b] = "off"

\* Once a call is over, none of its files is shown as downloading any more.  "That function
\* waits for the goroutine to return so that no tick can land after the final snapshot and
\* revive a path the frontend has already dropped" (service_download.go:702-705); the "Final
\* snapshot" of downloads.rs:257 is meant to end the display in the same way.
NoGhostDownloads == \A b \in Batches : Over(b) => {file \in current : file[1] = b} = {}

\* The display is never ahead of the work: what is shown as settled is at most the total; and when
\* every call has come back it is exactly the total, whatever was cancelled and however late the
\* snapshots are (concurrently-download.ts:79-89, 125-138).
TotalsSettle ==
  /\ successShown + failedShown <= total
  /\ (\A b \in Batches : caller[b] \in {"idle", "returned", "counted"}) => successShown + failedShown = total

\* The counts never fall, although snapshots of several batches and reports interleave and a
\* snapshot may be older than the report (concurrently-download.ts:80-82).
CountsNeverFall ==
  [][successShown' >= successShown /\ failedShown' >= failedShown]_<<successShown, failedShown>>

\* Every call comes back to the code that awaits it.
CallsReturn ==
  \A b \in Batches : caller[b] = "awaiting" ~> caller[b] \in {"returned", "threw", "counted"}
=============================================================================
