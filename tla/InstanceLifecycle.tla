-------------------------- MODULE InstanceLifecycle --------------------------
(***************************************************************************)
(* One instance from the Launch button to the end of its Minecraft         *)
(* process: the page (ContextProviders.vue, Launch.vue), the launch        *)
(* sequence it awaits (handle-launch.ts, spawn-minecraft.ts), the process  *)
(* registry of the backend (processes.rs), and the events and responses    *)
(* between them, which travel separately.                                  *)
(*                                                                         *)
(* `launchInstance` makes a fresh `statuses` object each time, so an       *)
(* attempt to launch is also the name of its object, of its process token  *)
(* and of its process.  `launches[instanceId]` is the attempt shown.  The  *)
(* creation of an instance from a modpack (CreateInstance.vue) is shown    *)
(* like a launch, and installs the modpack (install-mrpack.ts) as each     *)
(* launch of it does.                                                      *)
(*                                                                         *)
(* The batches of the instance share one cancel id, hence one flag, born   *)
(* with the first running batch and gone with the last (module Downloads). *)
(* A soft reload starts the page anew while the backend goes on.           *)
(***************************************************************************)
EXTENDS Naturals, FiniteSets

CONSTANTS
  MaxAttempts, \* bound: launches of the instance
  Stages,      \* downloads a launch awaits together: assets, client, logging, libraries
  Modpack,     \* the download of the files of the instance's modpack
  Catching,    \* those that log a failed download and go on: client and logging
  Unzipping,   \* those followed by the extraction of natives: libraries
  MaxReloads,  \* bound: reloads of the page
  None         \* "no attempt"

ASSUME LifecycleAssumption ==
  /\ Catching \subseteq Stages /\ Unzipping \subseteq Stages /\ Modpack \notin Stages
  /\ MaxAttempts \in Nat /\ MaxReloads \in Nat
  /\ None \notin Nat

\* Launches, in their order.
Attempts == 1..MaxAttempts

\* Each of them is a batch under the instance's cancel id.
Downloads == Stages \cup {Modpack}

VARIABLES
  modpack,    \* instance.modpackPath is set
  \* the page
  shown,      \* launches[instanceId]: the attempt whose statuses are shown
  launching,  \* statuses.launching of each attempt: 0, 1 or 2
  listed,     \* the downloads that count in the statuses.downloads.total shown
  child,      \* childProcesses[instanceId]
  handlers,   \* ProcessHandlers: the tokens with handlers
  launch,     \* where the code that awaits each attempt is
  stage,      \* where each download of an attempt is
  reloads,    \* how often the page was reloaded
  boot,       \* rehydrateLaunchedInstances
  \* the backend
  flag,       \* the cancel flag of the instance's downloads
  process,    \* the Minecraft process of each attempt
  registered, \* ProcessRegistry
  listing,    \* the answer of list_processes
  killing,    \* kill_process commands under way
  \* history
  reached,    \* attempts with a stage whose batch a cancellation reached
  killed,     \* attempts whose process was killed
  confirmed,  \* attempts whose cancellation the user confirmed
  released,   \* launches shown as launchable since their modpack is installed
  overlapped  \* a launch has begun while a released one went on

pageVars    == <<modpack, shown, launching, listed, child, handlers>>
backendVars == <<process, registered, killing>>
bootVars    == <<reloads, boot, listing>>
historyVars == <<reached, killed, confirmed, released, overlapped>>
vars == <<pageVars, launch, stage, flag, backendVars, bootVars, historyVars>>

LaunchStates  == {"unused", "creating", "created", "preparing", "installing", "asking",
                  "downloading", "ready", "spawning", "afterHooks", "ended"}
StageStates   == {"waiting", "verifying", "sent", "running", "unzipping", "done", "refused", "threw"}
ProcessStates == {"none", "requested", "refused", "alive", "exited", "reported"}

Running     == {x \in Attempts \X Downloads : stage[x[1]][x[2]] = "running"}
Alive       == {a \in Attempts : process[a] = "alive"}
Awaited(a)  == launch[a] \notin {"unused", "created", "ended"}

Init ==
  /\ modpack \in BOOLEAN
  /\ shown = None /\ child = None
  /\ launching = [a \in Attempts |-> 0]
  /\ listed    = {}
  /\ handlers  = {}
  /\ launch    = [a \in Attempts |-> "unused"]
  /\ stage     = [a \in Attempts |-> [s \in Downloads |-> "waiting"]]
  /\ reloads = 0 /\ boot = "done"
  /\ flag = FALSE
  /\ process = [a \in Attempts |-> "none"]
  /\ registered = {} /\ listing = {} /\ killing = {}
  /\ reached = {} /\ killed = {} /\ confirmed = {} /\ released = {} /\ overlapped = FALSE

-----------------------------------------------------------------------------
(* The launch sequence.                                                    *)

\* Mutants of Launchable: the other state counts as free, too.
LaunchableWhileLaunching == shown # None => launching[shown] # 2
LaunchableWhileLaunched  == shown # None => launching[shown] # 1

\* The Launch button and the launch options are there for an instance that is not launching.
Launchable == shown # None => launching[shown] = 0

Launch(a) ==
  /\ Launchable
  /\ launch[a] = "unused" /\ \A b \in 1..(a - 1) : launch[b] # "unused"
  /\ shown'     = a
  /\ listed'    = {}
  /\ launching' = [launching EXCEPT ![a] = 1]
  /\ launch'    = [launch EXCEPT ![a] = "preparing"]
  /\ overlapped' = (overlapped \/ \E b \in released : Awaited(b))
  /\ UNCHANGED <<modpack, child, handlers, stage, flag, backendVars, bootVars, reached, killed, confirmed, released>>

\* handleLaunch answers `failed` or throws: the instance can be launched again.
GiveUp(a) ==
  /\ launching' = [launching EXCEPT ![a] = 0]
  /\ launch'    = [launch EXCEPT ![a] = "ended"]

\* No account, no Java, no metadata; or the user does not want to go on with half a modpack.
PrepareFails(a) ==
  /\ launch[a] \in {"preparing", "asking"}
  /\ GiveUp(a)
  /\ UNCHANGED <<modpack, shown, listed, child, handlers, stage, flag, backendVars, bootVars, historyVars>>

\* A modpack is installed first, and the stages begin after it.
StartStages(a) ==
  /\ launch[a] = "preparing" /\ (modpack => stage[a][Modpack] = "done")
  /\ launch' = [launch EXCEPT ![a] = "downloading"]
  /\ stage'  = [stage EXCEPT ![a] = [s \in Downloads |-> IF s = Modpack THEN @[s] ELSE "verifying"]]
  /\ UNCHANGED <<pageVars, flag, backendVars, bootVars, historyVars>>

\* Mutant of StagesThrow: all stages have to throw.
StagesThrowTogether(a) ==
  /\ launch[a] = "downloading"
  /\ \A s \in Stages : stage[a][s] = "threw"
  /\ GiveUp(a)
  /\ UNCHANGED <<modpack, shown, listed, child, handlers, stage, flag, backendVars, bootVars, historyVars>>

\* Promise.all is settled by the first stage that throws, while the others go on...
StagesThrow(a) ==
  /\ launch[a] = "downloading"
  /\ \E s \in Stages : stage[a][s] = "threw"
  /\ GiveUp(a)
  /\ UNCHANGED <<modpack, shown, listed, child, handlers, stage, flag, backendVars, bootVars, historyVars>>

\* ...or when all have answered, and one `false` is enough to give up.
StagesAnswer(a) ==
  /\ launch[a] = "downloading"
  /\ \A s \in Stages : stage[a][s] \in {"done", "refused"}
  /\ IF \A s \in Stages : stage[a][s] = "done"
       THEN /\ launch' = [launch EXCEPT ![a] = "ready"]
            /\ UNCHANGED launching
       ELSE GiveUp(a)
  /\ UNCHANGED <<modpack, shown, listed, child, handlers, stage, flag, backendVars, bootVars, historyVars>>

\* The command line cannot be put together.
CommandFails(a) ==
  /\ launch[a] = "ready"
  /\ GiveUp(a)
  /\ UNCHANGED <<modpack, shown, listed, child, handlers, stage, flag, backendVars, bootVars, historyVars>>

\* spawnProcess: the handlers are in place before the command is sent.
Spawn(a) ==
  /\ launch[a] = "ready"
  /\ launch'   = [launch EXCEPT ![a] = "spawning"]
  /\ handlers' = handlers \cup {a}
  /\ process'  = [process EXCEPT ![a] = "requested"]
  /\ UNCHANGED <<modpack, shown, launching, listed, child, stage, flag, registered, killing,
                 bootVars, historyVars>>

SpawnRejected(a) ==
  /\ launch[a] = "spawning" /\ process[a] = "refused"
  /\ handlers' = handlers \ {a}
  /\ GiveUp(a)
  /\ UNCHANGED <<modpack, shown, listed, child, stage, flag, backendVars, bootVars, historyVars>>

\* The response has come; the after-hooks are awaited.
SpawnAnswered(a) ==
  /\ launch[a] = "spawning" /\ process[a] \in {"alive", "exited", "reported"}
  /\ launch' = [launch EXCEPT ![a] = "afterHooks"]
  /\ UNCHANGED <<pageVars, stage, flag, backendVars, bootVars, historyVars>>

\* Back in launchInstance, which looks at nothing that happened in the meantime.
Launched(a) ==
  /\ launch[a] = "afterHooks"
  /\ launch'    = [launch EXCEPT ![a] = "ended"]
  /\ launching' = [launching EXCEPT ![a] = 2]
  /\ child'     = a
  /\ UNCHANGED <<modpack, shown, listed, handlers, stage, flag, backendVars, bootVars, historyVars>>

-----------------------------------------------------------------------------
(* The files of the modpack.  Its installation makes the instance          *)
(* launchable when it is over, in the middle of a launch, too; a           *)
(* cancellation is a success without failures.                             *)

\* handleCreate: the instance is new.
Create(a) ==
  /\ modpack /\ a = 1 /\ \A b \in Attempts : launch[b] = "unused"
  /\ shown'     = a
  /\ listed'    = {}
  /\ launching' = [launching EXCEPT ![a] = 1]
  /\ launch'    = [launch EXCEPT ![a] = "creating"]
  /\ stage'     = [stage EXCEPT ![a][Modpack] = "verifying"]
  /\ UNCHANGED <<modpack, child, handlers, flag, backendVars, bootVars, historyVars>>

InstallModpack(a) ==
  /\ launch[a] = "preparing" /\ modpack /\ stage[a][Modpack] = "waiting"
  /\ launch' = [launch EXCEPT ![a] = "installing"]
  /\ stage'  = [stage EXCEPT ![a][Modpack] = "verifying"]
  /\ UNCHANGED <<pageVars, flag, backendVars, bootVars, historyVars>>

\* What awaits the installation goes on; `hasFailed` is all that a launch looks at.
AfterModpack(a, hasFailed) ==
  launch' = [launch EXCEPT ![a] = CASE @ = "creating" -> "created"
                                    [] @ = "installing" -> IF hasFailed THEN "asking" ELSE "preparing"
                                    [] OTHER -> @]

\* The archive cannot be read, its files cannot be verified, or the command rejects.
ModpackThrows(a) ==
  /\ stage[a][Modpack] \in {"verifying", "sent"}
  /\ stage' = [stage EXCEPT ![a][Modpack] = "done"]
  /\ AfterModpack(a, TRUE)
  /\ launching' = IF launch[a] = "creating" THEN [launching EXCEPT ![a] = 0] ELSE launching
  /\ UNCHANGED <<modpack, shown, listed, child, handlers, flag, backendVars, bootVars, historyVars>>

\* The report: some files may have failed, whether or not the batch was cancelled.
ModpackReports(a) ==
  /\ stage[a][Modpack] = "running"
  /\ stage' = [stage EXCEPT ![a][Modpack] = "done"]
  /\ \E hasFailed \in BOOLEAN : AfterModpack(a, hasFailed)
  /\ launching' = IF launch[a] = "creating" \/ (launch[a] = "installing" /\ ~flag)
                    THEN [launching EXCEPT ![a] = 0] ELSE launching
  /\ released'  = IF launch[a] = "installing" /\ ~flag THEN released \cup {a} ELSE released
  /\ listed'    \in {listed, IF flag /\ a = shown THEN listed \ {Modpack} ELSE listed}
  /\ UNCHANGED <<modpack, shown, child, handlers, flag, backendVars, bootVars, reached, killed, confirmed, overlapped>>

\* "Do you still want to continue launching?"
ContinueAnyway(a) ==
  /\ launch[a] = "asking"
  /\ launch' = [launch EXCEPT ![a] = "preparing"]
  /\ UNCHANGED <<pageVars, stage, flag, backendVars, bootVars, historyVars>>

-----------------------------------------------------------------------------
(* A download stage.  It goes on when its launch has given up.             *)

MoveStage(a, s, from, to) ==
  /\ stage[a][s] = from
  /\ stage' = [stage EXCEPT ![a][s] = to]

AfterFiles(s) == IF s \in Unzipping THEN "unzipping" ELSE "done"

\* Nothing to do, an extension's answer, missing metadata, or an error of the file system.
StageSkips(a, s) ==
  /\ \E to \in {AfterFiles(s), "refused", "threw"} : MoveStage(a, s, "verifying", to)
  /\ UNCHANGED <<pageVars, launch, flag, backendVars, bootVars, historyVars>>

\* concurrentlyDownload: the entries are counted, if there are any, and the command is sent.
StageSends(a, s) ==
  /\ MoveStage(a, s, "verifying", "sent")
  /\ listed' \in {listed, IF a = shown THEN listed \cup {s} ELSE listed}
  /\ UNCHANGED <<modpack, shown, launching, child, handlers, launch, flag, backendVars, bootVars, historyVars>>

\* The batch registers, with the flag of those that run under the same id.
BatchRegisters(a, s) ==
  /\ MoveStage(a, s, "sent", "running")
  /\ flag' = (flag /\ Running # {})
  /\ UNCHANGED <<pageVars, launch, backendVars, bootVars, historyVars>>

\* The command rejects before it registers.
BatchRejects(a, s) ==
  /\ MoveStage(a, s, "sent", IF s \in Catching THEN "done" ELSE "threw")
  /\ UNCHANGED <<pageVars, launch, flag, backendVars, bootVars, historyVars>>

\* Mutant of BatchReports: a cancelled batch is as good as any.
BatchReportsSuccess(a, s) ==
  /\ MoveStage(a, s, "running", AfterFiles(s))
  /\ UNCHANGED <<pageVars, launch, flag, backendVars, bootVars, historyVars>>

\* The report: a cancelled batch is a refusal, and what it left over leaves the total.
BatchReports(a, s) ==
  /\ MoveStage(a, s, "running", IF flag THEN "refused" ELSE AfterFiles(s))
  /\ IF flag
       THEN listed' \in {listed, IF a = shown THEN listed \ {s} ELSE listed}
       ELSE UNCHANGED listed
  /\ UNCHANGED <<modpack, shown, launching, child, handlers, launch, flag, backendVars, bootVars, historyVars>>

Unzip(a, s) ==
  /\ \E to \in {"done", "threw"} : MoveStage(a, s, "unzipping", to)
  /\ UNCHANGED <<pageVars, launch, flag, backendVars, bootVars, historyVars>>

-----------------------------------------------------------------------------
(* The Stop button: Launch.vue looks at the statuses when the user has     *)
(* answered the dialog, which may have been opened much earlier.           *)

IsDownloading == shown # None /\ launching[shown] = 1 /\ listed # {}

\* cancel_downloads raises the flag of the id if there is one; its answer is not looked at.
StopDownloads ==
  /\ IsDownloading
  /\ flag'      = (flag \/ Running # {})
  /\ reached'   = reached \cup {a \in Attempts : \E s \in Stages : stage[a][s] = "running"}
  /\ confirmed' = IF launch[shown] \in {"installing", "downloading"} THEN confirmed \cup {shown} ELSE confirmed
  /\ UNCHANGED <<pageVars, launch, stage, backendVars, bootVars, killed, released, overlapped>>

\* Mutant of StopProcess: there need not be a child.
StopNothing ==
  /\ shown # None /\ ~IsDownloading
  /\ killing' = killing \cup {child}
  /\ UNCHANGED <<pageVars, launch, stage, flag, process, registered, bootVars, historyVars>>

\* closeInstance, when there is a child to close.
StopProcess ==
  /\ shown # None /\ ~IsDownloading
  /\ child # None /\ child \notin killing
  /\ killing' = killing \cup {child}
  /\ UNCHANGED <<pageVars, launch, stage, flag, process, registered, bootVars, historyVars>>

-----------------------------------------------------------------------------
(* The backend's processes.                                                *)

SpawnProcess(a) ==
  /\ process[a] = "requested"
  /\ process'    = [process EXCEPT ![a] = "alive"]
  /\ registered' = registered \cup {a}
  /\ UNCHANGED <<pageVars, launch, stage, flag, killing, bootVars, historyVars>>

SpawnFails(a) ==
  /\ process[a] = "requested"
  /\ process' = [process EXCEPT ![a] = "refused"]
  /\ UNCHANGED <<pageVars, launch, stage, flag, registered, killing, bootVars, historyVars>>

\* kill_process forgets the process before it kills it, and rejects what it does not know.
KillProcess(a) ==
  /\ a \in killing
  /\ killing'    = killing \ {a}
  /\ registered' = registered \ {a}
  /\ killed'     = IF a \in registered THEN killed \cup {a} ELSE killed
  /\ UNCHANGED <<pageVars, launch, stage, flag, process, bootVars, reached, confirmed, released, overlapped>>

\* The process ends, by itself or killed.
Exit(a) ==
  /\ process[a] = "alive"
  /\ process' = [process EXCEPT ![a] = "exited"]
  /\ UNCHANGED <<pageVars, launch, stage, flag, registered, killing, bootVars, historyVars>>

\* Mutant of ReportExit: no event for a process the registry has forgotten.
ReportRegisteredExit(a) ==
  /\ process[a] = "exited" /\ a \in registered
  /\ process'    = [process EXCEPT ![a] = "reported"]
  /\ registered' = registered \ {a}
  /\ UNCHANGED <<pageVars, launch, stage, flag, killing, bootVars, historyVars>>

\* The reader has seen the end of both pipes: the entry goes, and then the event.
ReportExit(a) ==
  /\ process[a] = "exited"
  /\ a \in registered \/ a \in killed
  /\ process'    = [process EXCEPT ![a] = "reported"]
  /\ registered' = registered \ {a}
  /\ UNCHANGED <<pageVars, launch, stage, flag, killing, bootVars, historyVars>>

\* process-exited arrives at a page that has handlers for the token: onClose, for the statuses
\* shown.  A page without them ignores it.
OnExit(a) ==
  /\ process[a] = "reported" /\ a \in handlers
  /\ handlers'  = handlers \ {a}
  /\ child'     = None
  /\ launching' = IF shown = None THEN launching ELSE [launching EXCEPT ![shown] = 0]
  /\ UNCHANGED <<modpack, shown, listed, launch, stage, flag, backendVars, bootVars, historyVars>>

-----------------------------------------------------------------------------
(* A reload of the page, and the instances it finds running.               *)

\* The page's state is gone, and with it every await; commands already sent go on.
Reload ==
  /\ reloads < MaxReloads
  /\ reloads' = reloads + 1
  /\ boot' = "listing" /\ listing' = {}
  /\ shown' = None /\ child' = None /\ handlers' = {}
  /\ launching' = [a \in Attempts |-> 0]
  /\ listed'    = {}
  /\ launch'    = [a \in Attempts |-> IF Awaited(a) THEN "ended" ELSE launch[a]]
  /\ stage'     = [a \in Attempts |-> [s \in Downloads |->
                     IF stage[a][s] \in {"verifying", "unzipping"} THEN "refused" ELSE stage[a][s]]]
  /\ UNCHANGED <<modpack, flag, backendVars, historyVars>>

\* list_processes answers with a copy...
ListProcesses ==
  /\ boot = "listing"
  /\ boot' = "attaching"
  /\ listing' = registered
  /\ UNCHANGED <<pageVars, launch, stage, flag, backendVars, reloads, historyVars>>

\* ...which is attached later: each process listed is shown as launched, the last one stays.
Attach ==
  /\ boot = "attaching"
  /\ boot' = "done" /\ listing' = {}
  /\ handlers' = handlers \cup listing
  /\ IF listing = {}
       THEN UNCHANGED <<shown, launching, listed, child>>
       ELSE \E last \in listing :
              /\ shown' = last /\ child' = last /\ listed' = {}
              /\ launching' = [a \in Attempts |-> IF a \in listing THEN 2 ELSE launching[a]]
  /\ UNCHANGED <<modpack, launch, stage, flag, backendVars, reloads, historyVars>>

-----------------------------------------------------------------------------
StageStep(a, s) ==
  \/ StageSkips(a, s) \/ StageSends(a, s) \/ BatchRegisters(a, s)
  \/ BatchRejects(a, s) \/ BatchReports(a, s) \/ Unzip(a, s)

ModpackStep(a) ==
  \/ ModpackThrows(a) \/ StageSends(a, Modpack) \/ BatchRegisters(a, Modpack) \/ ModpackReports(a)

\* What a launch does by itself once its downloads have begun.
LaunchStep(a) ==
  \/ StagesThrow(a) \/ StagesAnswer(a)
  \/ CommandFails(a) \/ Spawn(a) \/ SpawnRejected(a) \/ SpawnAnswered(a) \/ Launched(a)

Next ==
  \/ \E a \in Attempts :
       \/ Launch(a) \/ PrepareFails(a) \/ StartStages(a) \/ LaunchStep(a)
       \/ Create(a) \/ InstallModpack(a) \/ ModpackStep(a) \/ ContinueAnyway(a)
       \/ SpawnProcess(a) \/ SpawnFails(a) \/ KillProcess(a)
       \/ Exit(a) \/ ReportExit(a) \/ OnExit(a)
  \/ \E a \in Attempts, s \in Stages : StageStep(a, s)
  \/ StopDownloads \/ StopProcess
  \/ Reload \/ ListProcesses \/ Attach

\* Commands are executed and answered, a download times out rather than hang, and a killed
\* process dies.  A process left alone may run for ever; the user owes nothing.
Fairness ==
  /\ \A a \in Attempts :
       /\ WF_vars(LaunchStep(a)) /\ WF_vars(ModpackStep(a)) /\ WF_vars(SpawnProcess(a) \/ SpawnFails(a))
       /\ WF_vars(KillProcess(a)) /\ WF_vars(a \in killed /\ Exit(a))
       /\ WF_vars(ReportExit(a)) /\ WF_vars(OnExit(a))
  /\ \A a \in Attempts, s \in Stages : WF_vars(StageStep(a, s))

Spec     == Init /\ [][Next]_vars
FairSpec == Spec /\ Fairness

-----------------------------------------------------------------------------
(* Properties.                                                             *)

TypeOK ==
  /\ {shown, child} \subseteq Attempts \cup {None}
  /\ launching \in [Attempts -> 0..2]
  /\ listed    \subseteq Downloads
  /\ launch    \in [Attempts -> LaunchStates]
  /\ stage     \in [Attempts -> [Downloads -> StageStates]]
  /\ reloads   \in 0..MaxReloads
  /\ boot      \in {"listing", "attaching", "done"}
  /\ {modpack, flag, overlapped} \subseteq BOOLEAN
  /\ process   \in [Attempts -> ProcessStates]
  /\ \A set \in {handlers, registered, listing, killing, reached, killed, confirmed, released} :
       set \subseteq Attempts

\* Until the page is reloaded no instance runs twice: not when a launch is given up while its
\* downloads go on, nor when a process ends before its launch has (Launch.vue:67-70).  The one way
\* there is another launch while one whose modpack has been installed goes on, which that
\* installation has made possible (install-mrpack.ts:138).
OneProcess == reloads = 0 /\ ~overlapped => Cardinality(Alive) <= 1

\* With the same two exceptions a launched process that runs is the one shown as launched, so
\* that the Stop button is there for it (Launch.vue:92-93): when a launch becomes launchable in its
\* middle and nobody launches again, the end of it still shows its process.
LaunchedIsShown ==
  reloads = 0 /\ ~overlapped => \A a \in Alive : launching[a] = 2 => shown = a

\* A cancellation that reaches the batch of one stage of a launch ends that launch, whatever its
\* other stages do and whatever else runs under the id (handle-launch.ts:204-213).  One that reaches
\* the batch of the modpack does not (handle-launch.ts:100-106).
CancelledNeverSpawns == \A a \in reached : process[a] = "none"

\* "Do you really want to cancel the Minecraft launch?" (Launch.vue:129): once the user has
\* confirmed while the launch was still downloading, Minecraft does not start.
ConfirmedNeverSpawns == \A a \in confirmed : process[a] = "none"

\* However its downloads end, and whatever is cancelled, a launch does not stay in them, nor does
\* the creation of an instance.
DownloadsEnd ==
  \A a \in Attempts :
    launch[a] \in {"creating", "installing", "downloading"} ~>
      launch[a] \notin {"creating", "installing", "downloading"}

\* A killed process does not stay on display as launched; a reload that lists it before it is
\* killed and attaches to it afterwards is the exception (processes.rs:199, ContextProviders.vue:236).
KilledIsClosed ==
  \A a \in Attempts :
    a \in killed ~> (reloads > 0 \/ ~(shown = a /\ launching[a] = 2))
=============================================================================
