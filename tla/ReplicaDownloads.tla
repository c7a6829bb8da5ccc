-------------------------- MODULE ReplicaDownloads --------------------------
(***************************************************************************)
(* concurrently_download of the preview in a browser (handle-downloads.ts):*)
(* batches of fetches, each with workers that share an index, cancelled    *)
(* together with the batches of the same id.  One thread: from one await   *)
(* to the next nothing else happens, so a worker that settles a file looks *)
(* at the flag and claims the next in the same step.                       *)
(*                                                                         *)
(* A flag is named by the batch that made it; a file by its index.         *)
(***************************************************************************)
EXTENDS Undefined, Integers, FiniteSets

CONSTANTS
  CancelIds,      \* the ids batches register under
  Invocations,    \* invocations of the command
  Concurrency,    \* the numbers of workers that are asked for
  MaxFiles        \* bound: the longest list of files

ASSUME ReplicaAssumption ==
  IsFiniteSet(Invocations) /\ None \notin Invocations /\ Concurrency \subseteq Nat /\ MaxFiles \in Nat

\* Math.max(concurrency, 1)
Lanes(asked) == 1..(IF asked > 1 THEN asked ELSE 1)
MostLanes == UNION {Lanes(k) : k \in Concurrency}

VARIABLES
  cancelFlags,   \* [id -> the flag and how many batches share it], None without one
  set,           \* the flags that are set
  batch,         \* [invocation -> where it is, its id, flag, numbers and answer]
  lane,          \* [invocation -> [worker -> where it is, with which file]]
  shown          \* [invocation -> files a snapshot shows]

replicaVars == <<cancelFlags, set, batch, lane, shown>>

Out == [at |-> "out", file |-> None]
Idling == [at |-> "idle", id |-> None, flag |-> None, files |-> 0, next |-> 0, success |-> 0, failed |-> 0, answer |-> None]

ReplicaInit ==
  /\ cancelFlags = [i \in CancelIds |-> [flag |-> None, batches |-> 0]]
  /\ set   = {}
  /\ batch = [b \in Invocations |-> Idling]
  /\ lane  = [b \in Invocations |-> [w \in MostLanes |-> Out]]
  /\ shown = [b \in Invocations |-> {}]

IsSet(b) == batch[b].flag \in set

\* cancelBrowserDownloads
cancelBrowserDownloads(i) ==
  /\ cancelFlags[i].flag # None
  /\ set' = set \cup {cancelFlags[i].flag}
  /\ UNCHANGED <<cancelFlags, batch, lane, shown>>

\* registerBatch, and the workers up to their first await: each has taken its first file.
Invoke(b, i, n, asked) ==
  LET flag == IF cancelFlags[i].flag = None THEN b ELSE cancelFlags[i].flag IN
  /\ batch[b].at = "idle"
  /\ cancelFlags' = [cancelFlags EXCEPT ![i] = [flag |-> flag, batches |-> @.batches + 1]]
  /\ batch' = [batch EXCEPT ![b] = [Idling EXCEPT !.at = "running", !.id = i, !.flag = flag, !.files = n,
                                      !.next = IF flag \in set THEN 0 ELSE Cardinality(Lanes(asked))]]
  /\ lane' = [lane EXCEPT ![b] = [w \in MostLanes |->
                IF w \in Lanes(asked) /\ flag \notin set /\ w <= n THEN [at |-> "fetch", file |-> w - 1] ELSE Out]]
  /\ UNCHANGED <<set, shown>>

At(b, w, where) == batch[b].at = "running" /\ lane[b][w].at = where
GoesOn(b, w, where) == lane' = [lane EXCEPT ![b][w].at = where]

\* The end of a file and the head of the loop.
Settles(b, w, ok) ==
  LET counted == IF ok THEN [batch[b] EXCEPT !.success = @ + 1] ELSE [batch[b] EXCEPT !.failed = @ + 1]
  IN /\ shown' = [shown EXCEPT ![b] = @ \ {lane[b][w].file}]
     /\ batch' = [batch EXCEPT ![b] = IF IsSet(b) THEN counted ELSE [counted EXCEPT !.next = @ + 1]]
     /\ lane'  = [lane EXCEPT ![b][w] =
                    IF IsSet(b) \/ batch[b].next >= batch[b].files THEN Out
                    ELSE [at |-> "fetch", file |-> batch[b].next]]

\* The check before each chunk.
NextChunk(b) == IF IsSet(b) THEN "abort" ELSE "read"

Respond(b, w) ==
  /\ At(b, w, "fetch")
  /\ \/ Settles(b, w, FALSE)
     \/ /\ shown' = [shown EXCEPT ![b] = @ \cup {lane[b][w].file}]
        /\ GoesOn(b, w, NextChunk(b))
        /\ UNCHANGED batch
     \/ shown' = [shown EXCEPT ![b] = @ \cup {lane[b][w].file}] /\ GoesOn(b, w, "write") /\ UNCHANGED batch
  /\ UNCHANGED <<cancelFlags, set>>

ReadChunk(b, w) ==
  /\ At(b, w, "read")
  /\ \/ Settles(b, w, FALSE)
     \/ GoesOn(b, w, "write") /\ UNCHANGED <<batch, shown>>
     \/ GoesOn(b, w, NextChunk(b)) /\ UNCHANGED <<batch, shown>>
  /\ UNCHANGED <<cancelFlags, set>>

\* A file that is read to its end is written, whatever the flag says by then.
WriteFile(b, w) ==
  /\ At(b, w, "write")
  /\ \E ok \in BOOLEAN : Settles(b, w, ok)
  /\ UNCHANGED <<cancelFlags, set>>

\* A reader that does not let itself be cancelled is a failure like others.
AbortFile(b, w) ==
  /\ At(b, w, "abort")
  /\ \/ Settles(b, w, FALSE)
     \/ /\ shown' = [shown EXCEPT ![b] = @ \ {lane[b][w].file}]
        /\ lane' = [lane EXCEPT ![b][w] = Out]
        /\ UNCHANGED batch
  /\ UNCHANGED <<cancelFlags, set>>

\* Mutant of AllOut: the command is answered with its first worker.
FirstOut(b) == \E w \in MostLanes : lane[b][w] = Out

AllOut(b) == \A w \in MostLanes : lane[b][w] = Out

\* The flag is read, deregisterBatch, the report.
Answered(b) ==
  /\ batch[b].at = "running" /\ AllOut(b)
  /\ batch' = [batch EXCEPT ![b].at = "answered",
                 ![b].answer = [success |-> batch[b].success, failed |-> batch[b].failed, cancelled |-> IsSet(b)]]
  /\ cancelFlags' = [cancelFlags EXCEPT ![batch[b].id] =
                       IF @.batches = 1 THEN [flag |-> None, batches |-> 0] ELSE [flag |-> @.flag, batches |-> @.batches - 1]]
  /\ UNCHANGED <<set, lane, shown>>

ReplicaNext ==
  \/ \E i \in CancelIds : cancelBrowserDownloads(i)
  \/ \E b \in Invocations, i \in CancelIds, n \in 0..MaxFiles, k \in Concurrency : Invoke(b, i, n, k)
  \/ \E b \in Invocations, w \in MostLanes : Respond(b, w) \/ ReadChunk(b, w) \/ WriteFile(b, w) \/ AbortFile(b, w)
  \/ \E b \in Invocations : Answered(b)

-----------------------------------------------------------------------------
(* Properties.                                                             *)

ReplicaTypeOK ==
  /\ \A i \in CancelIds : cancelFlags[i].batches = Cardinality({b \in Invocations : batch[b].at = "running" /\ batch[b].id = i})
  /\ \A b \in Invocations : batch[b].success + batch[b].failed <= batch[b].files /\ shown[b] \subseteq 0..(MaxFiles - 1)

\* What the caller sees of a batch, and of all of them.
StatusInBrowser(b) == CASE batch[b].at = "idle" -> "unsent" [] batch[b].at = "running" -> "open" [] OTHER -> "answered"

StatusShown  == [b \in Invocations |-> StatusInBrowser(b)]
FilesAsked   == [b \in Invocations |-> batch[b].files]
Successes    == [b \in Invocations |-> batch[b].success]
Failures     == [b \in Invocations |-> batch[b].failed]
SetBatches   == {b \in Invocations : IsSet(b)}
AnswersGiven == [b \in Invocations |-> batch[b].answer]

\* The caller of the preview is promised what the caller of the desktop is: one answer, with nothing in
\* flight, and with every file settled unless the batch was cancelled.
Promised == INSTANCE BatchPromise WITH
  Batches <- Invocations, MaxEntries <- MaxFiles,
  status <- StatusShown, size <- FilesAsked, success <- Successes, failed <- Failures,
  inFlight <- shown, cancelled <- SetBatches, answer <- AnswersGiven

ReplicaKeepsPromise == Promised!PromiseSpec
=============================================================================
