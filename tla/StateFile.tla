------------------------------ MODULE StateFile ------------------------------
(***************************************************************************)
(* A state the launcher keeps in memory and mirrors in a JSON file: the    *)
(* config (config.json) or the instances (instances.json).                 *)
(*                                                                         *)
(* A change starts a debounced sync.  A sync writes the whole state unless *)
(* it equals what was last written, and remembers what it wrote when the   *)
(* write has been answered (configs/sync.ts, instances/sync.ts).  Writes   *)
(* are commands: they truncate the file and then fill it, and nothing      *)
(* keeps two of them apart.  A page starts by reading the file, and        *)
(* replaces it when it is missing, corrupt or, for the config, not valid   *)
(* (launcher.rs, get-main.ts, read-instances.ts, handle-json-file.ts).     *)
(***************************************************************************)
EXTENDS Naturals, FiniteSets

CONSTANTS
  Values,       \* states of the application, as JSON that passes validation
  Default,      \* the state a first start begins with
  Slots,        \* bound: names for the writes in flight
  MaxChanges,   \* bound: changes of the state
  MaxRestarts,  \* bound: reloads, exits and crashes
  None          \* "nothing"

\* What the file may hold beside a value: nothing, JSON of another shape, or no JSON.
Empty   == "empty"
Invalid == "invalid"
Torn    == "torn"
Contents == Values \cup {Empty, Invalid, Torn}

ASSUME StateFileAssumption ==
  /\ Default \in Values
  /\ {Empty, Invalid, Torn, None} \cap Values = {}
  /\ None \notin {Empty, Invalid, Torn}
  /\ MaxChanges \in Nat /\ MaxRestarts \in Nat

VARIABLES
  regenerates,  \* TRUE: the config, which is validated as a whole; FALSE: the instances
  page,         \* "off", "reading", "deciding" or "up"
  found,        \* what get_initial_state has read
  memory,       \* globalStates or instanceStates
  lastWritten,  \* what the last answered write wrote
  timer,        \* the debounced sync is due
  writes,       \* the writes in flight
  file,         \* what the file holds
  backups,      \* contents kept as config_invalid_<time>.json
  changes, restarts,  \* counters of the bounds
  lost,         \* history: contents no JSON that an undisturbed start overwrote without a copy
  disturbed,    \* history: a write failed or was not alone, or the start left the file behind
  promised      \* history: the state a quiet page left, for the next one to find

pageVars    == <<page, found, memory, lastWritten, timer>>
boundVars   == <<changes, restarts>>
historyVars == <<lost, disturbed, promised>>
vars == <<regenerates, pageVars, writes, file, backups, boundVars, historyVars>>

\* A write that nobody awaits any more has no owner.
Free        == [phase |-> "free", value |-> None, owned |-> FALSE]
WriteRecord == [phase: {"free", "sent", "open", "written", "failed"},
                value: Values \cup {None}, owned: BOOLEAN]
Busy == {s \in Slots : writes[s].phase # "free"}
Open == {s \in Slots : writes[s].phase = "open"}

Init ==
  /\ regenerates \in BOOLEAN
  /\ page = "reading" /\ found = None
  /\ memory = None /\ lastWritten = None
  /\ timer = FALSE
  /\ writes = [s \in Slots |-> Free]
  /\ file = Empty /\ backups = {}
  /\ changes = 0 /\ restarts = 0
  /\ lost = {} /\ disturbed = FALSE /\ promised = None

-----------------------------------------------------------------------------
(* Syncing.                                                                *)

\* Mutant of Change: the watcher looks away while a write is in flight.
ChangeUnseen(v) ==
  /\ page = "up" /\ changes < MaxChanges
  /\ v # memory
  /\ memory'  = v
  /\ timer'   = (Busy = {})
  /\ changes' = changes + 1
  /\ UNCHANGED <<regenerates, page, found, lastWritten, writes, file, backups, restarts, historyVars>>

\* The watcher sees the change and (re)starts the debounced sync.  (globalStates.java is written by sync
\* but not watched, watch-config-sync.ts:33-49; nothing in the launcher changes it once it is read.)
Change(v) ==
  /\ page = "up" /\ changes < MaxChanges
  /\ v # memory
  /\ memory'  = v
  /\ timer'   = TRUE
  /\ changes' = changes + 1
  /\ UNCHANGED <<regenerates, page, found, lastWritten, writes, file, backups, restarts, historyVars>>

\* sync: nothing to do for what was last written, otherwise a write is sent.
Sync ==
  /\ page = "up"
  /\ IF memory = lastWritten
       THEN UNCHANGED writes
       ELSE \E s \in Slots \ Busy :
              writes' = [writes EXCEPT ![s] = [phase |-> "sent", value |-> memory, owned |-> TRUE]]
  /\ disturbed' = (disturbed \/ Busy # {})
  /\ UNCHANGED <<regenerates, page, found, memory, lastWritten, file, backups, boundVars, lost, promised>>

TimerFires == timer /\ timer' = FALSE /\ Sync

\* Selecting an instance and entering the safe mode sync the config at once.
SyncNow == regenerates /\ Sync /\ UNCHANGED timer

SetPhase(s, from, to) ==
  /\ writes[s].phase = from
  /\ writes' = [writes EXCEPT ![s].phase = to]

OpenFile(s) ==
  /\ SetPhase(s, "sent", "open")
  /\ file' = Empty
  /\ UNCHANGED <<regenerates, pageVars, backups, boundVars, historyVars>>

\* Mutant of FillFile: what is written is the state of that moment, not the one sent.
FillFileLate(s) ==
  /\ SetPhase(s, "open", "written")
  /\ file' = memory
  /\ UNCHANGED <<regenerates, pageVars, backups, boundVars, historyVars>>

\* A write into what another one has filled meanwhile may leave the longer one's tail behind.
FillFile(s) ==
  /\ SetPhase(s, "open", "written")
  /\ file' \in {writes[s].value} \cup (IF file = Empty THEN {} ELSE {Torn})
  /\ UNCHANGED <<regenerates, pageVars, backups, boundVars, historyVars>>

\* The file cannot be opened, or the disk is full.
WriteFails(s) ==
  /\ \/ SetPhase(s, "sent", "failed") /\ UNCHANGED file
     \/ SetPhase(s, "open", "failed") /\ file' \in {file, Torn}
  /\ disturbed' = TRUE
  /\ UNCHANGED <<regenerates, pageVars, backups, boundVars, lost, promised>>

\* Mutant of WriteAnswered: the state of that moment is taken for what was written.
WriteAnsweredLate(s) ==
  /\ writes[s].phase \in {"written", "failed"}
  /\ writes' = [writes EXCEPT ![s] = Free]
  /\ lastWritten' = IF writes[s].owned /\ writes[s].phase = "written" THEN memory ELSE lastWritten
  /\ UNCHANGED <<regenerates, page, found, memory, timer, file, backups, boundVars, historyVars>>

\* The answer: a failure is only logged.
WriteAnswered(s) ==
  /\ writes[s].phase \in {"written", "failed"}
  /\ writes' = [writes EXCEPT ![s] = Free]
  /\ lastWritten' = IF writes[s].owned /\ writes[s].phase = "written"
                      THEN writes[s].value ELSE lastWritten
  /\ UNCHANGED <<regenerates, page, found, memory, timer, file, backups, boundVars, historyVars>>

-----------------------------------------------------------------------------
(* Ends.                                                                   *)

\* What the next page will find, if this one leaves nothing unfinished.
Promise ==
  CASE page # "up" -> promised
    [] page = "up" /\ ~disturbed /\ Busy = {} /\ memory = lastWritten -> memory
    [] OTHER -> None

PageGone ==
  /\ restarts < MaxRestarts
  /\ restarts' = restarts + 1
  /\ promised' = Promise
  /\ found' = None /\ memory' = None /\ lastWritten' = None
  /\ timer' = FALSE
  /\ UNCHANGED <<regenerates, changes, backups, lost>>

\* A reload: the writes on their way go on.
Reload ==
  /\ page # "off"
  /\ PageGone
  /\ page'   = "reading"
  /\ writes' = [s \in Slots |-> [writes[s] EXCEPT !.owned = FALSE]]
  /\ UNCHANGED <<file, disturbed>>

\* The application is closed, killed or loses power, whatever it is doing.
Exit ==
  /\ page # "off"
  /\ PageGone
  /\ page'   = "off"
  /\ writes' = [s \in Slots |-> Free]
  /\ file'   \in {file} \cup (IF Open = {} THEN {} ELSE {Torn})
  /\ UNCHANGED disturbed

Start ==
  /\ page = "off"
  /\ page' = "reading"
  /\ UNCHANGED <<regenerates, found, memory, lastWritten, timer, writes, file, backups,
                 boundVars, historyVars>>

\* Another version or a text editor has been at the file.
EditByHand ==
  /\ page = "off"
  /\ file' \in {Invalid, Torn} \ {file}
  /\ promised' = None
  /\ UNCHANGED <<regenerates, pageVars, writes, backups, boundVars, lost, disturbed>>

-----------------------------------------------------------------------------
(* The start of a page.                                                    *)

\* load_json_file: an empty file counts as missing, and no JSON as corrupt.
ReadFile ==
  /\ page = "reading"
  /\ page'  = "deciding"
  /\ found' = file
  /\ UNCHANGED <<regenerates, memory, lastWritten, timer, writes, file, backups,
                 boundVars, historyVars>>

BootWith(v) ==
  /\ page' = "up" /\ found' = None
  /\ memory' = v /\ lastWritten' = v
  /\ disturbed' = (file' # v \/ Busy # {})
  /\ UNCHANGED <<regenerates, timer, boundVars, promised>>

\* Mutant of Reread: a corrupt config is left to handleJsonFile, too.
RereadCorrupt == found \in {Empty, Torn}

\* What a start works with: what get_initial_state read or, when that was nothing (and, for the
\* instances, also when it was no JSON), what handleJsonFile reads now.
Reread  == found = Empty \/ (found = Torn /\ ~regenerates)
Content == IF Reread THEN file ELSE found

BootLoaded ==
  /\ page = "deciding"
  /\ Content \in Values
  /\ UNCHANGED <<writes, file, backups, lost>>
  /\ BootWith(Content)

\* Instances that do not pass validation are left out, and stay in the file until the next sync.
BootDropped ==
  /\ page = "deciding"
  /\ ~regenerates /\ Content = Invalid
  /\ UNCHANGED <<writes, file, backups, lost>>
  /\ BootWith(Default)

\* handleJsonFile: the default replaces nothing at all, or what cannot be parsed.  The write may
\* fail, and the default is used all the same.
BootDefaulted ==
  /\ page = "deciding"
  /\ Reread /\ file \in {Empty, Torn}
  /\ file' \in {Default, file}
  /\ lost' = IF file = Torn /\ file' = Default /\ ~disturbed THEN lost \cup {Torn} ELSE lost
  /\ BootWith(Default)
  /\ UNCHANGED <<writes, backups>>

\* regenerateConfigFile: the file is renamed, under open handles too, and written anew...
BootRegenerated ==
  /\ page = "deciding"
  /\ regenerates
  /\ Content = Invalid \/ (Content = Torn /\ ~Reread)
  /\ backups' = backups \cup {file}
  /\ writes'  = [s \in Slots |-> IF s \in Open THEN [writes[s] EXCEPT !.phase = "written"] ELSE writes[s]]
  /\ file' \in {Default, Empty}
  /\ BootWith(Default)
  /\ UNCHANGED lost

\* ...or the rename fails, and getSafeConfigFile starts with the default.
BootUnbacked ==
  /\ page = "deciding"
  /\ regenerates
  /\ Content = Invalid \/ (Content = Torn /\ ~Reread)
  /\ UNCHANGED <<writes, file, backups, lost>>
  /\ BootWith(Default)

-----------------------------------------------------------------------------
WriteStep(s) == OpenFile(s) \/ FillFile(s) \/ WriteFails(s) \/ WriteAnswered(s)
Boot == ReadFile \/ BootLoaded \/ BootDropped \/ BootDefaulted \/ BootRegenerated \/ BootUnbacked

Next ==
  \/ \E v \in Values : Change(v)
  \/ TimerFires \/ SyncNow
  \/ \E s \in Slots : WriteStep(s)
  \/ Reload \/ Exit \/ Start \/ EditByHand
  \/ Boot

\* Timers fire, commands are executed and answered, a page that starts gets up.
Fairness ==
  /\ WF_vars(TimerFires) /\ WF_vars(Boot)
  /\ \A s \in Slots : WF_vars(WriteStep(s))

Spec     == Init /\ [][Next]_vars
FairSpec == Spec /\ Fairness

-----------------------------------------------------------------------------
(* Properties.                                                             *)

TypeOK ==
  /\ regenerates \in BOOLEAN /\ timer \in BOOLEAN /\ disturbed \in BOOLEAN
  /\ page  \in {"off", "reading", "deciding", "up"}
  /\ found \in Contents \cup {None}
  /\ {memory, lastWritten, promised} \subseteq Values \cup {None}
  /\ writes \in [Slots -> WriteRecord]
  /\ file  \in Contents
  /\ backups \subseteq Contents /\ lost \subseteq Contents
  /\ changes \in 0..MaxChanges /\ restarts \in 0..MaxRestarts

\* No change is forgotten: with no sync due and no write in flight the file holds the state,
\* as long as no write has failed or been overtaken (configs/sync.ts:68-91).
NothingForgotten ==
  page = "up" /\ ~disturbed /\ ~timer /\ Busy = {} => file = memory

\* What a page had finished writing is what the next page starts with, through any number of
\* reloads, exits and aborted starts (get-main.ts:54-86, read-instances.ts:17-59).
SyncedSurvives ==
  [][page # "up" /\ page' = "up" /\ promised # None => memory' = promised]_vars

\* A config that is no JSON is never overwritten by a start: it is renamed first.
ConfigIsBackedUp == regenerates => lost = {}

\* What the page has is in the file in the end, and what the file had is not thrown away.
NothingIsLost == NothingForgotten /\ ConfigIsBackedUp

\* "The file exists and is not empty, but has invalid JSON.  It will be backed up and a new file
\* with default contents will be created" (launcher.rs:23-24), of every parsed file.
CorruptIsBackedUp == lost = {}

\* A change reaches the file, unless a write fails or is not alone, or the page ends.
EventuallySaved ==
  \A v \in Values :
    page = "up" /\ memory = v ~> file = v \/ memory # v \/ disturbed
=============================================================================
