------------------------------ MODULE Downloads ------------------------------
(***************************************************************************)
(* The download backend: batches of files fetched by a pool of workers,    *)
(* and the registry through which a batch is cancelled.                    *)
(*                                                                         *)
(* `concurrently_download` (src-tauri/src/downloads.rs) is one batch.  It  *)
(* registers under a cancel id, spawns its workers, waits for all of them, *)
(* deregisters and reports.  Batches of one id share one cancel flag: the  *)
(* flag object is created by the first of them and dies with the last, so  *)
(* here a flag is named by the batch that created it.  The Go and browser  *)
(* backends are the same machine; Go classifies fewer errors as failures.  *)
(*                                                                         *)
(* An entry is its index in the batch: paths are unique within a batch,    *)
(* because the caller removes duplicates (concurrently-download.ts:48).    *)
(***************************************************************************)
EXTENDS Integers, FiniteSets

CONSTANTS
  Ids,         \* cancel ids
  Batches,     \* invocations of concurrently_download
  Workers,     \* the worker tasks of one batch
  MaxEntries,  \* bound: the longest list of entries
  None         \* "no flag", "no claim", "no report"

\* What a command may resolve with.
Reports == [success: Nat, failed: Nat, cancelled: BOOLEAN, failures: SUBSET Nat]

\* `concurrency.max(1)`: there is always a worker.
ASSUME DownloadsAssumption ==
  /\ IsFiniteSet(Batches)
  /\ IsFiniteSet(Workers) /\ Workers # {}
  /\ MaxEntries \in Nat
  /\ None \notin Batches /\ None \notin Ids /\ None \notin Nat /\ None \notin Reports

VARIABLES
  registry,   \* CancelFlags: id -> flag and number of batches; flag None = no entry
  raised,     \* the flags that were set
  phase,      \* where each batch's command is
  idOf,       \* the id a batch registered under
  flagOf,     \* the flag a batch holds
  size,       \* the number of entries of a batch
  nextIndex,  \* the shared index workers claim from
  success,    \* counter of downloaded entries
  failed,     \* counter of failed entries
  progress,   \* the files a snapshot would show, per batch
  pc,         \* where each worker is
  claim,      \* the entry each worker works on
  failures,   \* the failures each worker has collected
  report      \* what the command resolved with

registryVars == <<registry, raised, idOf, flagOf>>
counterVars  == <<nextIndex, success, failed>>
workerVars   == <<pc, claim, failures>>
vars == <<registry, raised, phase, idOf, flagOf, size, nextIndex, success, failed,
          progress, pc, claim, failures, report>>

Phases == {"idle", "rejected", "running", "joined", "deregistered", "reported"}

\* Where a worker has a claimed entry it has not accounted for yet...
Busy    == {"requesting", "streaming", "ok", "failed", "cancelled", "countOk", "countFailed"}
\* ...and where its task has returned.
Exited  == {"stopped", "exhausted", "gaveUp"}
WorkerPcs == {"unborn", "check", "claim"} \cup Busy \cup Exited

\* Batches the registry counts.
Registered(b) == phase[b] \in {"running", "joined"}

FlagSet(b) == flagOf[b] \in raised

-----------------------------------------------------------------------------
Init ==
  /\ registry  = [i \in Ids |-> [flag |-> None, batches |-> 0]]
  /\ raised    = {}
  /\ phase     = [b \in Batches |-> "idle"]
  /\ idOf      = [b \in Batches |-> None]
  /\ flagOf    = [b \in Batches |-> None]
  /\ size      = [b \in Batches |-> 0]
  /\ nextIndex = [b \in Batches |-> 0]
  /\ success   = [b \in Batches |-> 0]
  /\ failed    = [b \in Batches |-> 0]
  /\ progress  = [b \in Batches |-> {}]
  /\ pc        = [b \in Batches |-> [w \in Workers |-> "unborn"]]
  /\ claim     = [b \in Batches |-> [w \in Workers |-> None]]
  /\ failures  = [b \in Batches |-> [w \in Workers |-> {}]]
  /\ report    = [b \in Batches |-> None]

-----------------------------------------------------------------------------
(* The command.                                                            *)

\* Mutant of RegisteredFlag: one flag for all ids.
RegisteredFlagOfAnyId(b, i) ==
  IF \A j \in Ids : registry[j].flag = None THEN b
  ELSE CHOOSE flag \in Batches : \E j \in Ids : registry[j].flag = flag

\* CancelFlags::register: the flag of the id, made by this batch if there is none.
RegisteredFlag(b, i) == IF registry[i].flag = None THEN b ELSE registry[i].flag

\* The command starts: the client is built, the batch registers, the workers are spawned.
Start(b, i, n) ==
  /\ phase[b] = "idle"
  /\ phase'    = [phase EXCEPT ![b] = "running"]
  /\ idOf'     = [idOf EXCEPT ![b] = i]
  /\ flagOf'   = [flagOf EXCEPT ![b] = RegisteredFlag(b, i)]
  /\ registry' = [registry EXCEPT ![i] = [flag    |-> RegisteredFlag(b, i),
                                          batches |-> registry[i].batches + 1]]
  /\ size'     = [size EXCEPT ![b] = n]
  /\ pc'       = [pc EXCEPT ![b] = [w \in Workers |-> "check"]]
  /\ UNCHANGED <<raised, counterVars, progress, claim, failures, report>>

\* Building the HTTP client fails before anything is registered: the command rejects.
Reject(b) ==
  /\ phase[b] = "idle"
  /\ phase' = [phase EXCEPT ![b] = "rejected"]
  /\ UNCHANGED <<registryVars, size, counterVars, progress, workerVars, report>>

\* cancel_downloads with an id some batch is registered under; otherwise it changes nothing.
Cancel(i) ==
  /\ registry[i].flag # None
  /\ raised' = raised \cup {registry[i].flag}
  /\ UNCHANGED <<registry, phase, idOf, flagOf, size, counterVars, progress, workerVars, report>>

\* Mutant of Join: the first worker to return ends the wait.
JoinFirst(b) ==
  /\ phase[b] = "running"
  /\ \E w \in Workers : pc[b][w] \in Exited
  /\ phase' = [phase EXCEPT ![b] = "joined"]
  /\ UNCHANGED <<registryVars, size, counterVars, progress, workerVars, report>>

\* Every worker has been awaited.
Join(b) ==
  /\ phase[b] = "running"
  /\ \A w \in Workers : pc[b][w] \in Exited
  /\ phase' = [phase EXCEPT ![b] = "joined"]
  /\ UNCHANGED <<registryVars, size, counterVars, progress, workerVars, report>>

\* Mutants of EntryWithout: the entry goes with the first batch, or stays after the last.
EntryGone(i)   == [flag |-> None, batches |-> 0]
EntryLeaked(i) == [registry[i] EXCEPT !.batches = @ - 1]

\* The registry entry of an id once one of its batches has left.
EntryWithout(i) ==
  IF registry[i].batches = 1
    THEN [flag |-> None, batches |-> 0]
    ELSE [registry[i] EXCEPT !.batches = @ - 1]

\* Mutant of Deregister: a batch may leave twice.
DeregisterAgain(b) ==
  /\ phase[b] \in {"joined", "deregistered"}
  /\ phase'    = [phase EXCEPT ![b] = "deregistered"]
  /\ registry' = [registry EXCEPT ![idOf[b]] = EntryWithout(idOf[b])]
  /\ UNCHANGED <<raised, idOf, flagOf, size, counterVars, progress, workerVars, report>>

Deregister(b) ==
  /\ phase[b] = "joined"
  /\ phase'    = [phase EXCEPT ![b] = "deregistered"]
  /\ registry' = [registry EXCEPT ![idOf[b]] = EntryWithout(idOf[b])]
  /\ UNCHANGED <<raised, idOf, flagOf, size, counterVars, progress, workerVars, report>>

\* What the command resolves with.  The flag is read here, after the batch deregistered.
ReportOf(b) ==
  [success   |-> success[b],
   failed    |-> failed[b],
   cancelled |-> FlagSet(b),
   failures  |-> UNION {failures[b][w] : w \in Workers}]

Report(b) ==
  /\ phase[b] = "deregistered"
  /\ phase'  = [phase EXCEPT ![b] = "reported"]
  /\ report' = [report EXCEPT ![b] = ReportOf(b)]
  /\ UNCHANGED <<registryVars, size, counterVars, progress, workerVars>>

-----------------------------------------------------------------------------
(* A worker.                                                               *)

GoTo(b, w, from, to) ==
  /\ pc[b][w] = from
  /\ pc' = [pc EXCEPT ![b][w] = to]

\* Top of the loop: the flag is read, and the claim is a later step.
CheckFlag(b, w) ==
  /\ GoTo(b, w, "check", IF FlagSet(b) THEN "stopped" ELSE "claim")
  /\ UNCHANGED <<registryVars, phase, size, counterVars, progress, claim, failures, report>>

\* Mutant of ClaimEntry: the index is read but not advanced with the same instruction.
ClaimStale(b, w) ==
  /\ nextIndex[b] < size[b]
  /\ GoTo(b, w, "claim", "requesting")
  /\ claim' = [claim EXCEPT ![b][w] = nextIndex[b]]
  /\ UNCHANGED <<registryVars, phase, size, counterVars, progress, failures, report>>

\* next_index.fetch_add(1) hands out an entry...
ClaimEntry(b, w) ==
  /\ nextIndex[b] < size[b]
  /\ GoTo(b, w, "claim", "requesting")
  /\ nextIndex' = [nextIndex EXCEPT ![b] = @ + 1]
  /\ claim'     = [claim EXCEPT ![b][w] = nextIndex[b]]
  /\ UNCHANGED <<registryVars, phase, size, success, failed, progress, failures, report>>

\* ...or runs past the end of the list.
FindNothing(b, w) ==
  /\ nextIndex[b] >= size[b]
  /\ GoTo(b, w, "claim", "exhausted")
  /\ nextIndex' = [nextIndex EXCEPT ![b] = @ + 1]
  /\ UNCHANGED <<registryVars, phase, size, success, failed, progress, claim, failures, report>>

\* The response headers have landed: the file becomes visible to the ticker.
Respond(b, w) ==
  /\ GoTo(b, w, "requesting", "streaming")
  /\ progress' = [progress EXCEPT ![b] = @ \cup {claim[b][w]}]
  /\ UNCHANGED <<registryVars, phase, size, counterVars, claim, failures, report>>

\* The request is refused, or the file cannot be written, flushed or renamed.
Fail(b, w) ==
  /\ \E from \in {"requesting", "streaming"} : GoTo(b, w, from, "failed")
  /\ UNCHANGED <<registryVars, phase, size, counterVars, progress, claim, failures, report>>

\* The whole body arrived and the file has its final name.
Finish(b, w) ==
  /\ GoTo(b, w, "streaming", "ok")
  /\ UNCHANGED <<registryVars, phase, size, counterVars, progress, claim, failures, report>>

\* The flag is found set when a chunk arrives.
Interrupt(b, w) ==
  /\ FlagSet(b)
  /\ GoTo(b, w, "streaming", "cancelled")
  /\ UNCHANGED <<registryVars, phase, size, counterVars, progress, claim, failures, report>>

\* Back in the worker, the path leaves the progress map whatever the outcome...
Outcomes == {"ok", "failed", "cancelled"}
AfterRemoval(outcome) ==
  CASE outcome = "ok"        -> "countOk"
    [] outcome = "failed"    -> "countFailed"
    [] outcome = "cancelled" -> "gaveUp"

\* Mutant of RemoveProgress: the path stays when the entry was cancelled.
RemoveUnlessCancelled(b, w) ==
  /\ \E outcome \in Outcomes : GoTo(b, w, outcome, AfterRemoval(outcome))
  /\ progress' = IF pc[b][w] = "cancelled" THEN progress
                 ELSE [progress EXCEPT ![b] = @ \ {claim[b][w]}]
  /\ UNCHANGED <<registryVars, phase, size, counterVars, claim, failures, report>>

RemoveProgress(b, w) ==
  /\ \E outcome \in Outcomes : GoTo(b, w, outcome, AfterRemoval(outcome))
  /\ progress' = [progress EXCEPT ![b] = @ \ {claim[b][w]}]
  /\ UNCHANGED <<registryVars, phase, size, counterVars, claim, failures, report>>

\* ...and only then is the outcome counted.  A cancelled entry is neither a success nor a
\* failure: its worker returns.
CountSuccess(b, w) ==
  /\ GoTo(b, w, "countOk", "check")
  /\ success' = [success EXCEPT ![b] = @ + 1]
  /\ claim'   = [claim EXCEPT ![b][w] = None]
  /\ UNCHANGED <<registryVars, phase, size, nextIndex, failed, progress, failures, report>>

CountFailure(b, w) ==
  /\ GoTo(b, w, "countFailed", "check")
  /\ failed'   = [failed EXCEPT ![b] = @ + 1]
  /\ failures' = [failures EXCEPT ![b][w] = @ \cup {claim[b][w]}]
  /\ claim'    = [claim EXCEPT ![b][w] = None]
  /\ UNCHANGED <<registryVars, phase, size, nextIndex, success, progress, report>>

-----------------------------------------------------------------------------
WorkerStep(b, w) ==
  \/ CheckFlag(b, w) \/ ClaimEntry(b, w) \/ FindNothing(b, w)
  \/ Respond(b, w) \/ Fail(b, w) \/ Finish(b, w) \/ Interrupt(b, w)
  \/ RemoveProgress(b, w) \/ CountSuccess(b, w) \/ CountFailure(b, w)

BatchStep(b) == Join(b) \/ Deregister(b) \/ Report(b)

Next ==
  \/ \E b \in Batches, i \in Ids, n \in 0..MaxEntries : Start(b, i, n)
  \/ \E b \in Batches : Reject(b)
  \/ \E i \in Ids : Cancel(i)
  \/ \E b \in Batches : BatchStep(b)
  \/ \E b \in Batches, w \in Workers : WorkerStep(b, w)

Spec == Init /\ [][Next]_vars

-----------------------------------------------------------------------------
(* Properties.                                                             *)

TypeOK ==
  /\ registry  \in [Ids -> [flag: Batches \cup {None}, batches: Nat]]
  /\ raised    \subseteq Batches
  /\ phase     \in [Batches -> Phases]
  /\ idOf      \in [Batches -> Ids \cup {None}]
  /\ flagOf    \in [Batches -> Batches \cup {None}]
  /\ size      \in [Batches -> Nat]
  /\ nextIndex \in [Batches -> Nat]
  /\ success   \in [Batches -> Nat]
  /\ failed    \in [Batches -> Nat]
  /\ progress  \in [Batches -> SUBSET Nat]
  /\ pc        \in [Batches -> [Workers -> WorkerPcs]]
  /\ claim     \in [Batches -> [Workers -> Nat \cup {None}]]
  /\ failures  \in [Batches -> [Workers -> SUBSET Nat]]
  /\ report    \in [Batches -> Reports \cup {None}]

\* No file is fetched twice: an entry in a worker's hands is in no other worker's hands, and
\* nobody holds, or has recorded as failed, an entry that has not been handed out yet
\* (downloads.rs:200, next_index.fetch_add).
ClaimedOnce ==
  \A b \in Batches : \A w \in Workers :
    /\ pc[b][w] \in Busy =>
         /\ claim[b][w] \in 0..(size[b] - 1)
         /\ claim[b][w] < nextIndex[b]
         /\ \A v \in Workers \ {w} :
              /\ pc[b][v] \in Busy => claim[b][v] # claim[b][w]
              /\ claim[b][w] \notin failures[b][v]

\* What a report says adds up: never more outcomes than entries, every failure listed once,
\* and, unless the batch was cancelled, every entry accounted for (downloads.rs:250-255;
\* concurrently-download.ts:133-138 relies on it to correct the total).
ReportAccounts ==
  \A b \in Batches : report[b] # None =>
    /\ report[b].success + report[b].failed <= size[b]
    /\ Cardinality(report[b].failures) = report[b].failed
    /\ ~report[b].cancelled => report[b].success + report[b].failed = size[b]

\* The registry is exactly the running batches: an id has an entry while one of its batches is
\* registered, counts them, and they all hold the flag of that entry, so that a cancellation
\* that answers `true` reaches every one of them (downloads.rs:73-97).
RegistryTracksBatches ==
  \A i \in Ids :
    LET running == {b \in Batches : Registered(b) /\ idOf[b] = i}
    IN  /\ registry[i].batches = Cardinality(running)
        /\ registry[i].flag = None <=> running = {}
        /\ \A b \in running : flagOf[b] = registry[i].flag

\* Two ids never share a flag: cancelling one instance's downloads leaves the others' alone.
FlagsAreSeparate ==
  \A b, c \in Batches :
    flagOf[b] # None /\ flagOf[b] = flagOf[c] => idOf[b] = idOf[c]

\* "Dropping the last batch of an id also drops its flag, so the next batch under the same id
\* starts uncancelled" (service_download.go:176-178).
FreshBatchUncancelled ==
  [][\A b \in Batches :
       /\ phase[b] = "idle" /\ phase'[b] = "running"
       /\ \A c \in Batches : Registered(c) => idOf[c] # idOf'[b]
       => flagOf'[b] \notin raised']_vars

\* The caller's view of a batch: one command, answered once and with nothing in flight, every
\* entry settled unless it was cancelled (the contract concurrently-download.ts:116-140 builds on).
StatusOf(b) ==
  CASE phase[b] = "idle"     -> "unsent"
    [] phase[b] = "rejected" -> "refused"
    [] phase[b] = "reported" -> "answered"
    [] OTHER                 -> "open"

AnswerOf(b) ==
  IF report[b] = None THEN None
  ELSE [success   |-> report[b].success,
        failed    |-> report[b].failed,
        cancelled |-> report[b].cancelled]

StatusSeen     == [b \in Batches |-> StatusOf(b)]
ReachedBatches == {b \in Batches : FlagSet(b)}
AnswersSeen    == [b \in Batches |-> AnswerOf(b)]

Promise == INSTANCE BatchPromise WITH
  status <- StatusSeen, inFlight <- progress, cancelled <- ReachedBatches, answer <- AnswersSeen

KeepsPromise == Promise!PromiseSpec
=============================================================================
