---------------------------- MODULE ArtifactStore ----------------------------
(***************************************************************************)
(* One artifact in the directories all instances share (libraries, assets, *)
(* clients), and the launches that need it.  A launch first looks whether  *)
(* the file is there, by its checksum or only by its name, and downloads   *)
(* it when it is not: into `<path>.part`, then renamed (download_one in    *)
(* downloads.rs).  Nothing keeps two launches from fetching the same path  *)
(* at once, and the partial file has one name, so they share it.           *)
(*                                                                         *)
(* Files are inodes: creating an existing name truncates the inode behind  *)
(* it, a rename moves whatever inode the name denotes, and an open handle  *)
(* outlives both.  Contents are the set of chunks in place.                *)
(***************************************************************************)
EXTENDS Undefined, Integers, FiniteSets

CONSTANTS
  Launches,   \* instances that need the artifact
  Checked,    \* those launched with `instance.checksum`
  Chunks,     \* how many chunks the artifact has
  MaxRounds   \* bound: how often one instance is launched

\* An inode is named by the download that created it.
Inodes == Launches \X (1..MaxRounds)

ASSUME StoreAssumption ==
  /\ Checked \subseteq Launches
  /\ Chunks \in Nat \ {0} /\ MaxRounds \in Nat
  /\ None \notin Inodes

VARIABLES
  pc,       \* where each launch is
  round,    \* how often each was launched
  handle,   \* the inode it writes
  written,  \* how many chunks it has written
  content,  \* the chunks in place in each inode
  part,     \* the inode named `<path>.part`
  final,    \* the inode named `<path>`
  shared    \* history: two downloads of the path have overlapped

vars == <<pc, round, handle, written, content, part, final, shared>>

Whole == 1..Chunks

Downloading(l) == pc[l] \in {"missing", "writing"}
Writing(l)     == pc[l] = "writing"

Init ==
  /\ pc      = [l \in Launches |-> "idle"]
  /\ round   = [l \in Launches |-> 0]
  /\ handle  = [l \in Launches |-> None]
  /\ written = [l \in Launches |-> 0]
  /\ content = [i \in Inodes |-> {}]
  /\ part = None /\ final = None
  /\ shared = FALSE

\* Mutant of Present: a checksum is not looked at.
PresentByName(l) == final # None

\* verify_file_paths with a checksum, get_missing_files without.
Present(l) ==
  /\ final # None
  /\ l \in Checked => content[final] = Whole

Verify(l) ==
  /\ pc[l] \in {"idle", "ready", "failed", "cancelled"}
  /\ round[l] < MaxRounds
  /\ round' = [round EXCEPT ![l] = @ + 1]
  /\ pc'    = [pc EXCEPT ![l] = IF Present(l) THEN "ready" ELSE "missing"]
  /\ UNCHANGED <<handle, written, content, part, final, shared>>

\* File::create: a new file, or the existing one cut to nothing.
Create(l) ==
  /\ pc[l] = "missing"
  /\ LET inode == IF part = None THEN <<l, round[l]>> ELSE part
     IN  /\ part'    = inode
         /\ handle'  = [handle EXCEPT ![l] = inode]
         /\ content' = [content EXCEPT ![inode] = {}]
  /\ written' = [written EXCEPT ![l] = 0]
  /\ pc'      = [pc EXCEPT ![l] = "writing"]
  /\ shared'  = (shared \/ \E m \in Launches \ {l} : Writing(m))
  /\ UNCHANGED <<round, final>>

\* Mutant of Write: more chunks than the artifact has.
WriteOn(l) ==
  /\ Writing(l) /\ written[l] <= Chunks
  /\ written' = [written EXCEPT ![l] = @ + 1]
  /\ content' = [content EXCEPT ![handle[l]] = @ \cup {written[l] + 1}]
  /\ UNCHANGED <<pc, round, handle, part, final, shared>>

\* The next chunk goes where this handle stands.
Write(l) ==
  /\ Writing(l) /\ written[l] < Chunks
  /\ written' = [written EXCEPT ![l] = @ + 1]
  /\ content' = [content EXCEPT ![handle[l]] = @ \cup {written[l] + 1}]
  /\ UNCHANGED <<pc, round, handle, part, final, shared>>

\* Mutant of Publish: a stream that ends early is taken for the whole.
PublishEarly(l) ==
  /\ Writing(l) /\ part # None
  /\ final' = part
  /\ part'  = None
  /\ pc'    = [pc EXCEPT ![l] = "ready"]
  /\ UNCHANGED <<round, handle, written, content, shared>>

\* The rename publishes whatever the partial name denotes by now...
Publish(l) ==
  /\ Writing(l) /\ written[l] = Chunks
  /\ part # None
  /\ final' = part
  /\ part'  = None
  /\ pc'    = [pc EXCEPT ![l] = "ready"]
  /\ UNCHANGED <<round, handle, written, content, shared>>

\* ...or fails: the name is gone, or the system refuses and the partial file stays.
PublishFails(l) ==
  /\ Writing(l) /\ written[l] = Chunks
  /\ pc' = [pc EXCEPT ![l] = "failed"]
  /\ UNCHANGED <<round, handle, written, content, part, final, shared>>

\* The request or the directory fails before there is a file.
RequestFails(l) ==
  /\ pc[l] = "missing"
  /\ pc' = [pc EXCEPT ![l] = "failed"]
  /\ UNCHANGED <<round, handle, written, content, part, final, shared>>

\* An error or a cancellation in mid-stream removes the partial file, whoever writes it.
Abandon(l, outcome) ==
  /\ Writing(l) /\ outcome \in {"failed", "cancelled"}
  /\ outcome = "cancelled" => written[l] < Chunks
  /\ part' = None
  /\ pc'   = [pc EXCEPT ![l] = outcome]
  /\ UNCHANGED <<round, handle, written, content, final, shared>>

Next ==
  \E l \in Launches :
    \/ Verify(l) \/ Create(l) \/ Write(l) \/ Publish(l) \/ PublishFails(l) \/ RequestFails(l)
    \/ \E outcome \in {"failed", "cancelled"} : Abandon(l, outcome)

Spec == Init /\ [][Next]_vars

-----------------------------------------------------------------------------
TypeOK ==
  /\ pc      \in [Launches -> {"idle", "missing", "writing", "ready", "failed", "cancelled"}]
  /\ round   \in [Launches -> 0..MaxRounds]
  /\ handle  \in [Launches -> Inodes \cup {None}]
  /\ written \in [Launches -> 0..Chunks]
  /\ content \in [Inodes -> SUBSET Whole]
  /\ {part, final} \subseteq Inodes \cup {None}
  /\ shared  \in BOOLEAN

PublishedWhole == final # None => content[final] = Whole

\* "A half-written artifact must never be visible under its final name: the launcher decides
\* what to fetch by looking at which files exist" (service_download.go:76-78).
NeverHalfWritten == PublishedWhole

\* What the partial file does guarantee: as long as no two downloads of a path overlap, the
\* final name only ever shows the whole artifact, through failures, cancellations, leftover
\* partial files and relaunches (downloads.rs:295-332).
WholeUnlessShared == ~shared => PublishedWhole

\* A half-written artifact is not for ever: when a launch with checksums has its artifact, and
\* nobody else is downloading it at that moment, the artifact is whole (downloads.rs:295-332,
\* verification by checksum in download-libraries.ts).
RepairedByChecksum ==
  [][\A l \in Checked :
       /\ pc[l] # "ready" /\ pc'[l] = "ready"
       /\ \A m \in Launches \ {l} : ~Downloading(m)
       => PublishedWhole']_vars
=============================================================================
