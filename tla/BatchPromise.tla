---------------------------- MODULE BatchPromise ----------------------------
(***************************************************************************)
(* What `concurrently_download` promises its caller, with no workers, no   *)
(* shared index and no registry: a batch of `total` entries settles them   *)
(* one by one, showing some of them as in flight meanwhile, and is         *)
(* answered once.  The answer is what settled and whether the batch was    *)
(* cancelled; only a cancelled batch may be answered with entries left     *)
(* over, and no batch is answered with a file in flight.  Downloads and     *)
(* ReplicaDownloads implement this, DownloadProgress builds on it.          *)
(***************************************************************************)
EXTENDS Integers

CONSTANTS
  Batches,     \* invocations of the command
  MaxEntries,  \* bound: the longest list of entries
  None         \* "not answered"

VARIABLES
  status,     \* "unsent", "refused", "open" or "answered"
  size,       \* number of entries
  success,    \* entries downloaded
  failed,     \* entries failed
  inFlight,   \* the files a snapshot would show
  cancelled,  \* the batches a cancellation has reached
  answer      \* what the caller got: success, failed, cancelled

promiseVars == <<status, size, success, failed, inFlight, cancelled, answer>>

Settled(b) == success[b] + failed[b]

PromiseInit ==
  /\ status    = [b \in Batches |-> "unsent"]
  /\ size      = [b \in Batches |-> 0]
  /\ success   = [b \in Batches |-> 0]
  /\ failed    = [b \in Batches |-> 0]
  /\ inFlight  = [b \in Batches |-> {}]
  /\ cancelled = {}
  /\ answer    = [b \in Batches |-> None]

\* A batch may be born cancelled: it can share the id of one that was.
Send(b, n) ==
  /\ status[b] = "unsent"
  /\ status' = [status EXCEPT ![b] = "open"]
  /\ size'   = [size EXCEPT ![b] = n]
  /\ cancelled' \in {cancelled, cancelled \cup {b}}
  /\ UNCHANGED <<success, failed, inFlight, answer>>

Refuse(b) ==
  /\ status[b] = "unsent"
  /\ status' = [status EXCEPT ![b] = "refused"]
  /\ UNCHANGED <<size, success, failed, inFlight, cancelled, answer>>

Unfinished(b) == status[b] = "open" /\ Settled(b) < size[b]

Show(b, entry) ==
  /\ Unfinished(b)
  /\ entry < size[b]
  /\ inFlight' = [inFlight EXCEPT ![b] = @ \cup {entry}]
  /\ UNCHANGED <<status, size, success, failed, cancelled, answer>>

Hide(b, entry) ==
  /\ status[b] = "open"
  /\ inFlight' = [inFlight EXCEPT ![b] = @ \ {entry}]
  /\ UNCHANGED <<status, size, success, failed, cancelled, answer>>

SettleOk(b) ==
  /\ Unfinished(b)
  /\ success' = [success EXCEPT ![b] = @ + 1]
  /\ UNCHANGED <<status, size, failed, inFlight, cancelled, answer>>

SettleBad(b) ==
  /\ Unfinished(b)
  /\ failed' = [failed EXCEPT ![b] = @ + 1]
  /\ UNCHANGED <<status, size, success, inFlight, cancelled, answer>>

\* A file that was shown and settles may leave the snapshot at once.
SettleShown(b, entry) ==
  /\ Unfinished(b) /\ entry \in inFlight[b]
  /\ inFlight' = [inFlight EXCEPT ![b] = @ \ {entry}]
  /\ \/ success' = [success EXCEPT ![b] = @ + 1] /\ UNCHANGED failed
     \/ failed' = [failed EXCEPT ![b] = @ + 1] /\ UNCHANGED success
  /\ UNCHANGED <<status, size, cancelled, answer>>

\* One cancellation reaches every batch it concerns at once.
CancelAll(reached) ==
  /\ cancelled' = cancelled \cup reached
  /\ UNCHANGED <<status, size, success, failed, inFlight, answer>>

MayAnswer(b) ==
  /\ status[b] = "open"
  /\ inFlight[b] = {}
  /\ b \in cancelled \/ Settled(b) = size[b]

Answer(b) ==
  /\ MayAnswer(b)
  /\ status' = [status EXCEPT ![b] = "answered"]
  /\ answer' = [answer EXCEPT ![b] =
                  [success |-> success[b], failed |-> failed[b], cancelled |-> b \in cancelled]]
  /\ UNCHANGED <<size, success, failed, inFlight, cancelled>>

PromiseNext ==
  \/ \E b \in Batches, n \in 0..MaxEntries : Send(b, n)
  \/ \E b \in Batches, entry \in 0..(MaxEntries - 1) : Show(b, entry) \/ Hide(b, entry) \/ SettleShown(b, entry)
  \/ \E b \in Batches : Refuse(b) \/ SettleOk(b) \/ SettleBad(b) \/ Answer(b)
  \/ \E reached \in SUBSET Batches : CancelAll(reached)

PromiseSpec == PromiseInit /\ [][PromiseNext]_promiseVars
=============================================================================
