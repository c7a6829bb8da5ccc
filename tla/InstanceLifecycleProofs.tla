------------------------ MODULE InstanceLifecycleProofs ------------------------
(***************************************************************************)
(* Proofs about module InstanceLifecycle, for any number of launches,      *)
(* download stages and reloads.                                            *)
(*                                                                         *)
(* Until the page is reloaded, the handlers of a process token bind the    *)
(* page to the backend: a process that may still exit has handlers, and    *)
(* only the attempt that is shown, and not free to launch, has any.  An    *)
(* attempt that its modpack has made launchable holds the button no more,  *)
(* and is still the one shown as long as nobody launches again.  That a    *)
(* cancellation is final needs a different chain: a batch of a stage it    *)
(* reaches keeps the flag, answers `cancelled`, and leaves a stage behind  *)
(* that is never done; and every process has all its stages done.          *)
(***************************************************************************)
EXTENDS InstanceLifecycle, TLAPS, FiniteSetTheorems

\* Where a launch, or the creation of the instance, is before it spawns a process.
BeforeSpawn == {"creating", "preparing", "installing", "asking", "downloading", "ready"}

\* An attempt that does not offer the button, or is released and goes on.
HoldsButton(a) == launching[a] # 0 \/ (a \in released /\ Awaited(a))

\* Between the button and the spawn a launch is the one shown, and holds the button.
LaunchHoldsButton ==
  \A a \in Attempts : launch[a] \in BeforeSpawn => shown = a /\ HoldsButton(a)

\* A token has handlers only for the attempt shown, which holds the button.
HandlersHoldButton ==
  \A a \in handlers : /\ shown = a /\ HoldsButton(a)
                      /\ launch[a] \in {"spawning", "afterHooks", "ended"}

\* A process that may still exit has handlers waiting for it.
ProcessIsHandled == \A a \in Attempts : process[a] \in {"requested", "alive", "exited"} => a \in handlers

\* The page and its process until the first reload, and until launches overlap.
PageHoldsProcess ==
  reloads = 0 =>
    boot = "done" /\ (~overlapped => LaunchHoldsButton /\ HandlersHoldButton /\ ProcessIsHandled)

\* A launch goes past its downloads only when every stage is done, and so does a process.
StagesDoneFirst ==
  \A a \in Attempts :
    /\ launch[a] \in {"ready", "spawning", "afterHooks"} \/ process[a] # "none" =>
         \A s \in Stages : stage[a][s] = "done"
    /\ launch[a] \in {"unused", "creating", "preparing", "installing", "asking"} =>
         \A s \in Stages : stage[a][s] = "waiting"

\* A cancelled attempt has a stage that will never be done.
ReachedIsLost ==
  \A a \in reached : \E s \in Stages :
    stage[a][s] \in {"refused", "threw"} \/ (stage[a][s] = "running" /\ flag)

IInv == TypeOK /\ PageHoldsProcess /\ StagesDoneFirst /\ ReachedIsLost

-----------------------------------------------------------------------------
\* The type invariant, set by set.
Types ==
  /\ shown \in Attempts \cup {None} /\ child \in Attempts \cup {None}
  /\ launching \in [Attempts -> {0, 1, 2}]
  /\ listed \subseteq Downloads
  /\ launch \in [Attempts -> LaunchStates]
  /\ stage \in [Attempts -> [Downloads -> StageStates]]
  /\ reloads \in 0..MaxReloads
  /\ boot \in {"listing", "attaching", "done"}
  /\ modpack \in BOOLEAN /\ flag \in BOOLEAN /\ overlapped \in BOOLEAN
  /\ process \in [Attempts -> ProcessStates]
  /\ handlers \subseteq Attempts /\ registered \subseteq Attempts
  /\ listing \subseteq Attempts /\ killing \subseteq Attempts
  /\ reached \subseteq Attempts /\ killed \subseteq Attempts /\ confirmed \subseteq Attempts
  /\ released \subseteq Attempts

\* The type invariant, set by set.
LEMMA TypeParts == (TypeOK <=> Types) /\ (TypeOK' <=> Types')
<1>1. 0..2 = {0, 1, 2}
  OBVIOUS
<1> QED BY <1>1 DEF TypeOK, Types

\* The initial states satisfy the invariant.
LEMMA InitInv == Init => IInv
<1> SUFFICES ASSUME Init PROVE IInv
  OBVIOUS
<1>1. Types
  <2>1. reloads \in 0..MaxReloads
    BY LifecycleAssumption DEF Init
  <2>2. stage \in [Attempts -> [Downloads -> StageStates]]
    BY DEF Init, StageStates
  <2> QED BY <2>1, <2>2 DEF Init, Types, LaunchStates, ProcessStates
<1>2. PageHoldsProcess
  BY DEF Init, PageHoldsProcess, LaunchHoldsButton, HandlersHoldButton, ProcessIsHandled, BeforeSpawn
<1>3. StagesDoneFirst /\ ReachedIsLost
  BY DEF Init, StagesDoneFirst, ReachedIsLost, Downloads
<1> QED BY <1>1, <1>2, <1>3, TypeParts DEF IInv

-----------------------------------------------------------------------------
\* Every step of a launch sequence keeps the types.
LEMMA LaunchTypes ==
  ASSUME Types, NEW a \in Attempts,
         Launch(a) \/ PrepareFails(a) \/ StartStages(a) \/ LaunchStep(a)
  PROVE  Types'
<1>1. CASE Launch(a)
  BY <1>1 DEF Types, Launch, LaunchStates, backendVars, bootVars
<1>2. CASE StartStages(a)
  BY <1>2 DEF Types, StartStages, LaunchStates, StageStates, pageVars, backendVars, bootVars, historyVars
<1>3. CASE PrepareFails(a) \/ StagesThrow(a) \/ StagesAnswer(a) \/ CommandFails(a)
  BY <1>3 DEF Types, PrepareFails, StagesThrow, StagesAnswer, CommandFails, GiveUp, LaunchStates,
              backendVars, bootVars, historyVars
<1>4. CASE Spawn(a) \/ SpawnRejected(a)
  BY <1>4 DEF Types, Spawn, SpawnRejected, GiveUp, LaunchStates, ProcessStates,
              backendVars, bootVars, historyVars
<1>5. CASE SpawnAnswered(a) \/ Launched(a)
  BY <1>5 DEF Types, SpawnAnswered, Launched, LaunchStates, pageVars, backendVars, bootVars, historyVars
<1> QED BY <1>1, <1>2, <1>3, <1>4, <1>5 DEF LaunchStep

\* Every step of the installation of the modpack keeps the types.
LEMMA ModpackTypes ==
  ASSUME Types, NEW a \in Attempts,
         Create(a) \/ InstallModpack(a) \/ ModpackStep(a) \/ ContinueAnyway(a)
  PROVE  Types'
<1>0. ASSUME NEW to \in StageStates, stage' = [stage EXCEPT ![a][Modpack] = to]
      PROVE  stage' \in [Attempts -> [Downloads -> StageStates]]
  BY <1>0 DEF Types
<1>1. CASE Create(a) \/ InstallModpack(a) \/ ContinueAnyway(a)
  <2>1. stage' \in [Attempts -> [Downloads -> StageStates]]
    BY <1>0, <1>1 DEF Types, Create, InstallModpack, ContinueAnyway, StageStates
  <2>2. /\ launch' \in [Attempts -> LaunchStates] /\ launching' \in [Attempts -> {0, 1, 2}]
        /\ shown' \in Attempts \cup {None} /\ listed' \subseteq Downloads
        /\ UNCHANGED <<modpack, child, handlers, flag, backendVars, bootVars, historyVars>>
    BY <1>1 DEF Types, Create, InstallModpack, ContinueAnyway, LaunchStates, pageVars
  <2> QED BY <2>1, <2>2 DEF Types, backendVars, bootVars, historyVars
<1>2. CASE ModpackThrows(a) \/ ModpackReports(a)
  <2>1. launch' \in [Attempts -> LaunchStates]
    BY <1>2 DEF Types, ModpackThrows, ModpackReports, AfterModpack, LaunchStates
  <2>3. stage' \in [Attempts -> [Downloads -> StageStates]]
    BY <1>0, <1>2 DEF ModpackThrows, ModpackReports, StageStates
  <2>2. /\ launching' \in [Attempts -> {0, 1, 2}]
        /\ listed' \subseteq Downloads /\ released' \subseteq Attempts
        /\ UNCHANGED <<modpack, shown, child, handlers, flag, backendVars, bootVars, reached, killed, confirmed, overlapped>>
    BY <1>2 DEF Types, ModpackThrows, ModpackReports, historyVars
  <2> QED BY <2>1, <2>2, <2>3 DEF Types, backendVars, bootVars
<1>3. CASE StageSends(a, Modpack) \/ BatchRegisters(a, Modpack)
  <2>1. stage' \in [Attempts -> [Downloads -> StageStates]]
    BY <1>0, <1>3 DEF StageSends, BatchRegisters, MoveStage, StageStates
  <2>2. /\ listed' \subseteq Downloads /\ flag' \in BOOLEAN
        /\ UNCHANGED <<modpack, shown, launching, child, handlers, launch, backendVars, bootVars, historyVars>>
    BY <1>3 DEF Types, Downloads, StageSends, BatchRegisters, pageVars
  <2> QED BY <2>1, <2>2 DEF Types, backendVars, bootVars, historyVars
<1> QED BY <1>1, <1>2, <1>3 DEF ModpackStep

\* Every step of a process keeps the types.
LEMMA ProcessTypes ==
  ASSUME Types, NEW a \in Attempts,
         SpawnProcess(a) \/ SpawnFails(a) \/ KillProcess(a) \/ Exit(a) \/ ReportExit(a) \/ OnExit(a)
  PROVE  Types'
<1>1. CASE SpawnProcess(a) \/ SpawnFails(a) \/ Exit(a) \/ ReportExit(a)
  BY <1>1 DEF Types, SpawnProcess, SpawnFails, Exit, ReportExit, ProcessStates,
              pageVars, bootVars, historyVars
<1>2. CASE KillProcess(a)
  BY <1>2 DEF Types, KillProcess, pageVars, bootVars
<1>3. CASE OnExit(a)
  BY <1>3 DEF Types, OnExit, backendVars, bootVars, historyVars
<1> QED BY <1>1, <1>2, <1>3

\* Every step of a download stage keeps the types.
LEMMA StageTypes ==
  ASSUME Types, NEW a \in Attempts, NEW s \in Stages, StageStep(a, s)
  PROVE  Types'
<1>1. stage' \in [Attempts -> [Downloads -> StageStates]]
  <2>1. PICK to \in StageStates : stage' = [stage EXCEPT ![a][s] = to]
    BY DEF StageStep, StageSkips, StageSends, BatchRegisters, BatchRejects, BatchReports, Unzip,
           MoveStage, AfterFiles, StageStates
  <2> QED BY <2>1 DEF Types
<1>2. listed' \subseteq Downloads /\ flag' \in BOOLEAN
  BY DEF Types, Downloads, StageStep, StageSkips, StageSends, BatchRegisters, BatchRejects, BatchReports, Unzip,
         pageVars
<1>3. UNCHANGED <<modpack, shown, launching, child, handlers, launch, backendVars, bootVars, historyVars>>
  BY DEF StageStep, StageSkips, StageSends, BatchRegisters, BatchRejects, BatchReports, Unzip, pageVars
<1> QED BY <1>1, <1>2, <1>3 DEF Types, backendVars, bootVars, historyVars

\* So do the Stop button, a reload and what follows it.
LEMMA PageTypes ==
  ASSUME Types, StopDownloads \/ StopProcess \/ Reload \/ ListProcesses \/ Attach
  PROVE  Types'
<1>1. CASE StopDownloads
  BY <1>1 DEF Types, StopDownloads, IsDownloading, pageVars, backendVars, bootVars
<1>2. CASE StopProcess
  BY <1>2 DEF Types, StopProcess, pageVars, bootVars, historyVars
<1>3. CASE Reload
  BY <1>3, LifecycleAssumption DEF Types, Reload, LaunchStates, StageStates, backendVars, historyVars
<1>4. CASE ListProcesses
  BY <1>4 DEF Types, ListProcesses, pageVars, backendVars, historyVars
<1>5. CASE Attach
  BY <1>5 DEF Types, Attach, backendVars, historyVars
<1> QED BY <1>1, <1>2, <1>3, <1>4, <1>5

\* Every step keeps the types.
LEMMA TypeStep == ASSUME TypeOK, [Next]_vars PROVE TypeOK'
<1>1. CASE UNCHANGED vars
  BY <1>1 DEF TypeOK, vars, pageVars, backendVars, bootVars, historyVars
<1>2. CASE Next
  BY <1>2, TypeParts, LaunchTypes, ModpackTypes, ProcessTypes, StageTypes, PageTypes DEF Next
<1> QED BY <1>1, <1>2

-----------------------------------------------------------------------------
\* A launch sequence keeps the page and its process together.
LEMMA LaunchHolds ==
  ASSUME IInv, NEW a \in Attempts,
         Launch(a) \/ PrepareFails(a) \/ StartStages(a) \/ LaunchStep(a)
  PROVE  PageHoldsProcess'
<1> USE DEF IInv
<1>1. reloads' = reloads /\ boot' = boot /\ released' = released /\ (overlapped = TRUE => overlapped' = TRUE)
  BY DEF Launch, PrepareFails, StartStages, LaunchStep, StagesThrow, StagesAnswer, CommandFails,
     Spawn, SpawnRejected, SpawnAnswered, Launched, bootVars, historyVars
<1> SUFFICES ASSUME reloads = 0, ~overlapped, ~overlapped'
             PROVE  LaunchHoldsButton' /\ HandlersHoldButton' /\ ProcessIsHandled'
  BY <1>1 DEF PageHoldsProcess, TypeOK
<1> USE DEF PageHoldsProcess, LaunchHoldsButton, HandlersHoldButton, ProcessIsHandled, BeforeSpawn, HoldsButton, Awaited
<1>2. CASE Launch(a)
  <2>1. /\ shown # None => launching[shown] = 0
        /\ \A b \in released : ~Awaited(b)
        /\ shown' = a /\ launching'[a] = 1 /\ launch[a] = "unused" /\ launch'[a] = "preparing"
        /\ \A b \in Attempts : b # a => launching'[b] = launching[b] /\ launch'[b] = launch[b]
        /\ UNCHANGED <<handlers, process>>
    BY <1>2 DEF Launch, Launchable, TypeOK, backendVars
  <2>2. handlers = {}
    BY <2>1, LifecycleAssumption DEF TypeOK, Attempts
  <2>3. \A b \in Attempts : launch[b] \notin BeforeSpawn
    BY <2>1, LifecycleAssumption DEF Attempts
  <2> QED BY <2>1, <2>2, <2>3
<1>3. CASE StartStages(a)
  BY <1>1, <1>3 DEF StartStages, TypeOK, pageVars, backendVars
<1>4. CASE PrepareFails(a) \/ StagesThrow(a) \/ StagesAnswer(a) \/ CommandFails(a)
  <2>1. /\ launch[a] \in {"preparing", "asking", "downloading", "ready"}
        /\ \/ launch'[a] = "ready" /\ launching' = launching
           \/ launch'[a] = "ended"
        /\ \A b \in Attempts : b # a => launching'[b] = launching[b] /\ launch'[b] = launch[b]
        /\ UNCHANGED <<shown, handlers, process>>
    BY <1>4 DEF PrepareFails, StagesThrow, StagesAnswer, CommandFails, GiveUp, TypeOK, backendVars
  <2> QED BY <1>1, <2>1
<1>5. CASE Spawn(a)
  <2>1. /\ launch[a] = "ready" /\ launch'[a] = "spawning" /\ handlers' = handlers \cup {a}
        /\ \A b \in Attempts : b # a => process'[b] = process[b] /\ launch'[b] = launch[b]
        /\ UNCHANGED <<shown, launching>>
    BY <1>5 DEF Spawn, TypeOK
  <2>2. handlers \subseteq Attempts
    BY DEF TypeOK
  <2>3. HandlersHoldButton'
    BY <1>1, <2>1, <2>2
  <2>4. LaunchHoldsButton' /\ ProcessIsHandled'
    BY <1>1, <2>1
  <2> QED BY <2>3, <2>4
<1>6. CASE SpawnRejected(a)
  <2>1. /\ launch'[a] = "ended" /\ handlers' = handlers \ {a} /\ process[a] = "refused"
        /\ \A b \in Attempts : b # a => launching'[b] = launching[b] /\ launch'[b] = launch[b]
        /\ UNCHANGED <<shown, process>>
    BY <1>6 DEF SpawnRejected, GiveUp, TypeOK, backendVars
  <2>2. handlers \subseteq Attempts
    BY DEF TypeOK
  <2>3. HandlersHoldButton'
    BY <1>1, <2>1, <2>2
  <2>4. LaunchHoldsButton' /\ ProcessIsHandled'
    BY <1>1, <2>1
  <2> QED BY <2>3, <2>4
<1>7. CASE SpawnAnswered(a) \/ Launched(a)
  <2>1. /\ launch'[a] \in {"afterHooks", "ended"}
        /\ launching'[a] = 2 \/ (launching'[a] = launching[a] /\ launch'[a] = "afterHooks" /\ launch[a] = "spawning")
        /\ \A b \in Attempts : b # a => launching'[b] = launching[b] /\ launch'[b] = launch[b]
        /\ UNCHANGED <<shown, handlers, process>>
    BY <1>7 DEF SpawnAnswered, Launched, TypeOK, pageVars, backendVars
  <2>2. handlers \subseteq Attempts
    BY DEF TypeOK
  <2>3. HandlersHoldButton'
    BY <1>1, <2>1, <2>2
  <2>4. LaunchHoldsButton' /\ ProcessIsHandled'
    BY <1>1, <2>1
  <2> QED BY <2>3, <2>4
<1> QED BY <1>2, <1>3, <1>4, <1>5, <1>6, <1>7 DEF LaunchStep

\* So does the installation of the modpack: an attempt it makes launchable goes on.
LEMMA ModpackHolds ==
  ASSUME IInv, NEW a \in Attempts,
         Create(a) \/ InstallModpack(a) \/ ModpackStep(a) \/ ContinueAnyway(a)
  PROVE  PageHoldsProcess'
<1> USE DEF IInv
<1>1. reloads' = reloads /\ boot' = boot /\ overlapped' = overlapped
  BY DEF Create, InstallModpack, ContinueAnyway, ModpackStep, ModpackThrows, ModpackReports, StageSends,
     BatchRegisters, bootVars, historyVars
<1> SUFFICES ASSUME reloads = 0, ~overlapped
             PROVE  LaunchHoldsButton' /\ HandlersHoldButton' /\ ProcessIsHandled'
  BY <1>1 DEF PageHoldsProcess
<1> USE DEF PageHoldsProcess, LaunchHoldsButton, HandlersHoldButton, ProcessIsHandled, BeforeSpawn, HoldsButton, Awaited
<1>2. CASE Create(a)
  <2>1. /\ \A b \in Attempts : launch[b] = "unused"
        /\ shown' = a /\ launching'[a] = 1 /\ \A b \in Attempts : b # a => launch'[b] = launch[b]
        /\ UNCHANGED <<handlers, process>>
    BY <1>2 DEF Create, TypeOK, backendVars
  <2>2. handlers = {}
    BY <2>1 DEF TypeOK
  <2> QED BY <2>1, <2>2
<1>3. CASE InstallModpack(a) \/ ContinueAnyway(a)
  <2>1. /\ launch[a] \in BeforeSpawn /\ launch'[a] \in BeforeSpawn
        /\ \A b \in Attempts : b # a => launch'[b] = launch[b]
        /\ UNCHANGED <<shown, launching, handlers, process, released>>
    BY <1>3 DEF InstallModpack, ContinueAnyway, TypeOK, pageVars, backendVars, historyVars
  <2> QED BY <2>1
<1>4. CASE ModpackThrows(a) \/ ModpackReports(a)
  <2>1. /\ \/ launch[a] = "creating" /\ launch'[a] = "created"
           \/ launch[a] = "installing" /\ launch'[a] \in {"asking", "preparing"}
                /\ (launching'[a] = launching[a] \/ a \in released')
           \/ launch[a] \notin {"creating", "installing"} /\ launch'[a] = launch[a] /\ launching'[a] = launching[a]
        /\ \A b \in Attempts : b # a => launch'[b] = launch[b] /\ launching'[b] = launching[b]
        /\ released \subseteq released'
        /\ UNCHANGED <<shown, handlers, process>>
    BY <1>4 DEF ModpackThrows, ModpackReports, AfterModpack, TypeOK, backendVars, historyVars
  <2>2. ASSUME NEW b \in Attempts, HoldsButton(b), launch'[b] # "created"
        PROVE  HoldsButton(b)'
    BY <2>1, <2>2
  <2>3. LaunchHoldsButton'
    BY <2>1, <2>2
  <2>4. HandlersHoldButton'
    <3>1. handlers \subseteq Attempts
      BY DEF TypeOK
    <3> QED BY <2>1, <2>2, <3>1
  <2> QED BY <2>1, <2>3, <2>4
<1>5. CASE StageSends(a, Modpack) \/ BatchRegisters(a, Modpack)
  <2>1. UNCHANGED <<shown, launching, handlers, launch, process, released>>
    BY <1>5 DEF StageSends, BatchRegisters, pageVars, backendVars, historyVars
  <2> QED BY <2>1
<1> QED BY <1>2, <1>3, <1>4, <1>5 DEF ModpackStep

\* So do the steps of a process: its exit frees the button of the attempt it belongs to.
LEMMA ProcessHolds ==
  ASSUME IInv, NEW a \in Attempts,
         SpawnProcess(a) \/ SpawnFails(a) \/ KillProcess(a) \/ Exit(a) \/ ReportExit(a) \/ OnExit(a)
  PROVE  PageHoldsProcess'
<1> USE DEF IInv
<1>1. reloads' = reloads /\ boot' = boot /\ UNCHANGED <<shown, launch, released, overlapped>>
  BY DEF SpawnProcess, SpawnFails, KillProcess, Exit, ReportExit, OnExit, pageVars, bootVars, historyVars
<1> SUFFICES ASSUME reloads = 0, ~overlapped
             PROVE  LaunchHoldsButton' /\ HandlersHoldButton' /\ ProcessIsHandled'
  BY <1>1 DEF PageHoldsProcess
<1> USE DEF PageHoldsProcess, LaunchHoldsButton, HandlersHoldButton, ProcessIsHandled, BeforeSpawn, HoldsButton, Awaited
<1>2. CASE SpawnProcess(a) \/ SpawnFails(a) \/ KillProcess(a) \/ Exit(a) \/ ReportExit(a)
  <2>1. /\ UNCHANGED <<launching, handlers>>
        /\ \A b \in Attempts : process'[b] \in {"requested", "alive", "exited"} =>
             process[b] \in {"requested", "alive", "exited"}
    BY <1>2 DEF SpawnProcess, SpawnFails, KillProcess, Exit, ReportExit, TypeOK, pageVars
  <2> QED BY <1>1, <2>1
<1>3. CASE OnExit(a)
  <2>1. /\ process[a] = "reported" /\ a \in handlers /\ handlers' = handlers \ {a}
        /\ process' = process
    BY <1>3 DEF OnExit, backendVars
  <2>2. handlers' = {}
    BY <2>1
  <2>3. \A b \in Attempts : launch[b] \notin BeforeSpawn
    BY <2>1
  <2> QED BY <1>1, <2>1, <2>2, <2>3
<1> QED BY <1>2, <1>3

\* The stages of a launch, the Stop button and the boot do not touch them; a reload ends it all.
LEMMA OthersHold ==
  ASSUME IInv,
         \/ \E a \in Attempts, s \in Stages : StageStep(a, s)
         \/ StopDownloads \/ StopProcess \/ Reload \/ ListProcesses \/ Attach
         \/ UNCHANGED vars
  PROVE  PageHoldsProcess'
<1> USE DEF IInv
<1>1. CASE \/ \E a \in Attempts, s \in Stages : StageStep(a, s)
           \/ StopDownloads \/ StopProcess \/ UNCHANGED vars
  <2>1. UNCHANGED <<shown, launching, handlers, launch, process, reloads, boot, released, overlapped>>
    BY <1>1 DEF historyVars, StageStep, StageSkips, StageSends, BatchRegisters, BatchRejects, BatchReports, Unzip,
                StopDownloads, StopProcess, vars, pageVars, backendVars, bootVars
  <2> QED BY <2>1 DEF PageHoldsProcess, LaunchHoldsButton, HandlersHoldButton, ProcessIsHandled, HoldsButton, Awaited
<1>2. CASE Reload
  BY <1>2, LifecycleAssumption DEF Reload, PageHoldsProcess, TypeOK
<1>3. CASE ListProcesses \/ Attach
  BY <1>3 DEF ListProcesses, Attach, PageHoldsProcess
<1> QED BY <1>1, <1>2, <1>3

-----------------------------------------------------------------------------
\* The installation of the modpack leaves the stages where they are.
LEMMA ModpackIsApart ==
  ASSUME TypeOK, NEW a \in Attempts, Create(a) \/ InstallModpack(a) \/ ModpackStep(a) \/ ContinueAnyway(a)
  PROVE  \A b \in Attempts, s \in Stages : stage'[b][s] = stage[b][s]
<1>1. \A s \in Stages : s # Modpack
  BY LifecycleAssumption
<1>2. \/ stage' = stage
      \/ \E to : stage' = [stage EXCEPT ![a][Modpack] = to]
  BY DEF Create, InstallModpack, ContinueAnyway, ModpackStep, ModpackThrows, ModpackReports,
         StageSends, BatchRegisters, MoveStage
<1>3. stage \in [Attempts -> [Downloads -> StageStates]]
  BY DEF TypeOK
<1> QED BY <1>1, <1>2, <1>3 DEF Downloads

\* A stage once done, refused or thrown stays so, and no process starts before all are done.
LEMMA StagesStep ==
  ASSUME IInv, [Next]_vars
  PROVE  StagesDoneFirst'
<1> USE DEF IInv
<1>1. ASSUME NEW a \in Attempts, Launch(a) \/ PrepareFails(a) \/ StartStages(a) \/ LaunchStep(a)
      PROVE  StagesDoneFirst'
  <2>1. CASE StartStages(a)
    <3>1. /\ launch[a] = "preparing" /\ launch'[a] = "downloading" /\ process' = process
          /\ \A b \in Attempts : b # a => launch'[b] = launch[b] /\ stage'[b] = stage[b]
      BY <2>1 DEF StartStages, TypeOK, backendVars
    <3>2. process[a] # "none" => Stages = {}
      BY <3>1 DEF StagesDoneFirst
    <3> QED BY <3>1, <3>2 DEF StagesDoneFirst
  <2>2. CASE ~StartStages(a)
    <3>1. /\ stage' = stage
          /\ \A b \in Attempts : b # a => launch'[b] = launch[b] /\ process'[b] = process[b]
          /\ launch'[a] \in {"unused", "creating", "preparing", "installing", "asking"} =>
               launch[a] \in {"unused", "creating", "preparing", "installing", "asking"}
          /\ launch'[a] \in {"ready", "spawning", "afterHooks"} \/ process'[a] # "none" =>
               \/ launch[a] \in {"ready", "spawning", "afterHooks"} \/ process[a] # "none"
               \/ \A s \in Stages : stage[a][s] = "done"
      BY <1>1, <2>2 DEF Launch, PrepareFails, LaunchStep, StagesThrow, StagesAnswer, CommandFails,
         Spawn, SpawnRejected, SpawnAnswered, Launched, GiveUp, TypeOK, backendVars
    <3> QED BY <3>1 DEF StagesDoneFirst
  <2> QED BY <2>1, <2>2
<1>6. ASSUME NEW a \in Attempts, Create(a) \/ InstallModpack(a) \/ ModpackStep(a) \/ ContinueAnyway(a)
      PROVE  StagesDoneFirst'
  <2>1. /\ launch[a] \in {"unused", "creating", "preparing", "installing", "asking"} \/ launch'[a] = launch[a]
        /\ launch'[a] \in {"created", "creating", "preparing", "installing", "asking"} \/ launch'[a] = launch[a]
        /\ \A b \in Attempts : b # a => launch'[b] = launch[b]
    BY <1>6 DEF Create, InstallModpack, ContinueAnyway, ModpackStep, ModpackThrows, ModpackReports, AfterModpack,
       StageSends, BatchRegisters, pageVars, TypeOK
  <2>2. process' = process
    BY <1>6 DEF Create, InstallModpack, ContinueAnyway, ModpackStep, ModpackThrows, ModpackReports,
       StageSends, BatchRegisters, backendVars
  <2> QED BY <1>6, <2>1, <2>2, ModpackIsApart DEF StagesDoneFirst
<1>2. ASSUME NEW a \in Attempts,
             SpawnProcess(a) \/ SpawnFails(a) \/ KillProcess(a) \/ Exit(a) \/ ReportExit(a) \/ OnExit(a)
      PROVE  StagesDoneFirst'
  <2>1. /\ UNCHANGED <<launch, stage>>
        /\ \A b \in Attempts : process'[b] # "none" => process[b] # "none"
    BY <1>2 DEF SpawnProcess, SpawnFails, KillProcess, Exit, ReportExit, OnExit, TypeOK, backendVars
  <2> QED BY <2>1 DEF StagesDoneFirst
<1>3. ASSUME NEW a \in Attempts, NEW s \in Stages, StageStep(a, s) PROVE StagesDoneFirst'
  <2>1. stage[a][s] \notin {"waiting", "done"} /\ UNCHANGED <<launch, process>>
    BY <1>3 DEF StageStep, StageSkips, StageSends, BatchRegisters, BatchRejects, BatchReports, Unzip,
                MoveStage, backendVars
  <2>2. \A b \in Attempts : b # a => stage'[b] = stage[b]
    BY <1>3 DEF StageStep, StageSkips, StageSends, BatchRegisters, BatchRejects, BatchReports, Unzip,
                MoveStage, TypeOK
  <2> QED BY <2>1, <2>2 DEF StagesDoneFirst
<1>4. CASE Reload
  <2>1. process' = process
    BY <1>4 DEF Reload, backendVars
  <2>2. ASSUME NEW a \in Attempts
        PROVE  /\ launch'[a] \in {"unused", "created", "ended"}
               /\ launch'[a] = "unused" => launch[a] = "unused"
               /\ \A s \in Stages : stage[a][s] \in {"waiting", "done"} => stage'[a][s] = stage[a][s]
    BY <1>4 DEF Reload, Awaited, Downloads
  <2> QED BY <2>1, <2>2 DEF StagesDoneFirst
<1>5. CASE StopDownloads \/ StopProcess \/ ListProcesses \/ Attach \/ UNCHANGED vars
  <2>1. UNCHANGED <<launch, stage, process>>
    BY <1>5 DEF StopDownloads, StopProcess, ListProcesses, Attach, vars, backendVars
  <2> QED BY <2>1 DEF StagesDoneFirst
<1> QED BY <1>1, <1>2, <1>3, <1>4, <1>5, <1>6 DEF Next

\* A cancellation is not undone: the flag stays while the batch runs, and the batch answers with it.
LEMMA ReachedStep ==
  ASSUME IInv, [Next]_vars
  PROVE  ReachedIsLost'
<1> USE DEF IInv
<1>1. ASSUME UNCHANGED <<reached, flag>>,
             \A a \in reached, s \in Stages :
               /\ stage[a][s] \in {"refused", "threw"} => stage'[a][s] \in {"refused", "threw"}
               /\ stage[a][s] = "running" /\ flag => stage'[a][s] \in {"running", "refused", "threw"}
      PROVE  ReachedIsLost'
  BY <1>1 DEF ReachedIsLost
<1>2. ASSUME NEW a \in Attempts, Launch(a) \/ PrepareFails(a) \/ StartStages(a) \/ LaunchStep(a)
      PROVE  ReachedIsLost'
  <2>1. UNCHANGED <<reached, flag>>
    BY <1>2 DEF Launch, PrepareFails, StartStages, LaunchStep, StagesThrow, StagesAnswer, CommandFails,
                Spawn, SpawnRejected, SpawnAnswered, Launched, historyVars
  <2>2. ASSUME NEW b \in Attempts, NEW s \in Stages, stage[b][s] # "waiting"
        PROVE  stage'[b][s] = stage[b][s]
    BY <1>2, <2>2 DEF Launch, PrepareFails, StartStages, LaunchStep, StagesThrow, StagesAnswer,
       CommandFails, Spawn, SpawnRejected, SpawnAnswered, Launched, TypeOK, StagesDoneFirst, Downloads
  <2> QED BY <1>1, <2>1, <2>2 DEF TypeOK
<1>8. ASSUME NEW a \in Attempts, Create(a) \/ InstallModpack(a) \/ ModpackStep(a) \/ ContinueAnyway(a)
      PROVE  ReachedIsLost'
  <2>1. reached' = reached
    BY <1>8 DEF Create, InstallModpack, ContinueAnyway, ModpackStep, ModpackThrows, ModpackReports, StageSends,
       BatchRegisters, historyVars
  <2>2. ASSUME NEW b \in Attempts, NEW s \in Stages, stage[b][s] = "running", flag PROVE flag'
    <3>1. <<b, s>> \in Running
      BY <2>2 DEF Running, Downloads
    <3> QED BY <1>8, <2>2, <3>1 DEF Create, InstallModpack, ContinueAnyway, ModpackStep, ModpackThrows, ModpackReports,
            StageSends, BatchRegisters
  <2>3. \A b \in Attempts, s \in Stages : stage'[b][s] = stage[b][s]
    BY <1>8, ModpackIsApart
  <2>4. reached \subseteq Attempts
    BY DEF TypeOK
  <2> QED BY <2>1, <2>2, <2>3, <2>4 DEF ReachedIsLost
<1>3. ASSUME NEW a \in Attempts,
             SpawnProcess(a) \/ SpawnFails(a) \/ KillProcess(a) \/ Exit(a) \/ ReportExit(a) \/ OnExit(a)
      PROVE  ReachedIsLost'
  <2>1. UNCHANGED <<reached, flag, stage>>
    BY <1>3 DEF SpawnProcess, SpawnFails, KillProcess, Exit, ReportExit, OnExit, historyVars
  <2> QED BY <1>1, <2>1
<1>4. ASSUME NEW a \in Attempts, NEW s \in Stages, StageStep(a, s) PROVE ReachedIsLost'
  <2>1. reached' = reached /\ stage[a][s] \notin {"refused", "threw"}
    BY <1>4 DEF StageStep, StageSkips, StageSends, BatchRegisters, BatchRejects, BatchReports, Unzip,
                MoveStage, historyVars
  <2>2. stage[a][s] = "running" /\ flag => stage'[a][s] = "refused"
    BY <1>4 DEF StageStep, StageSkips, StageSends, BatchRegisters, BatchRejects, BatchReports, Unzip,
                MoveStage, TypeOK, Downloads
  <2>3. \A b \in Attempts, t \in Stages : (b # a \/ t # s) => stage'[b][t] = stage[b][t]
    BY <1>4 DEF StageStep, StageSkips, StageSends, BatchRegisters, BatchRejects, BatchReports, Unzip,
                MoveStage, TypeOK, Downloads
  <2>4. ASSUME NEW b \in Attempts, NEW t \in Stages, stage[b][t] = "running", flag PROVE flag'
    <3>1. <<b, t>> \in Running
      BY <2>4 DEF Running, Downloads
    <3> QED BY <1>4, <2>4, <3>1 DEF StageStep, StageSkips, StageSends, BatchRegisters, BatchRejects,
            BatchReports, Unzip
  <2>5. ASSUME NEW b \in reached
        PROVE  \E t \in Stages : stage'[b][t] \in {"refused", "threw"} \/ (stage'[b][t] = "running" /\ flag')
    <3>1. b \in Attempts
      BY DEF TypeOK
    <3>2. PICK t \in Stages : stage[b][t] \in {"refused", "threw"} \/ (stage[b][t] = "running" /\ flag)
      BY DEF ReachedIsLost
    <3> QED BY <2>1, <2>2, <2>3, <2>4, <3>1, <3>2
  <2> QED BY <2>1, <2>5 DEF ReachedIsLost
<1>5. CASE StopDownloads
  <2>1. /\ reached' = reached \cup {a \in Attempts : \E s \in Stages : stage[a][s] = "running"} /\ stage' = stage
        /\ flag' = (flag \/ Running # {})
    BY <1>5 DEF StopDownloads
  <2>2. ASSUME NEW a \in Attempts, NEW s \in Stages, stage[a][s] = "running" PROVE flag'
    <3>1. <<a, s>> \in Running
      BY <2>2 DEF Running, Downloads
    <3> QED BY <2>1, <3>1
  <2>3. flag => flag'
    BY <2>1
  <2> QED BY <2>1, <2>2, <2>3 DEF ReachedIsLost
<1>6. CASE Reload
  <2>1. UNCHANGED <<reached, flag>>
    BY <1>6 DEF Reload, historyVars
  <2>2. \A a \in Attempts, s \in Stages :
          stage[a][s] \in {"refused", "threw", "running"} => stage'[a][s] = stage[a][s]
    BY <1>6 DEF Reload, Downloads
  <2> QED BY <1>1, <2>1, <2>2 DEF TypeOK
<1>7. CASE StopProcess \/ ListProcesses \/ Attach \/ UNCHANGED vars
  <2>1. UNCHANGED <<reached, flag, stage>>
    BY <1>7 DEF StopProcess, ListProcesses, Attach, vars, historyVars
  <2> QED BY <1>1, <2>1
<1> QED BY <1>2, <1>3, <1>4, <1>5, <1>6, <1>7, <1>8 DEF Next

-----------------------------------------------------------------------------
\* The invariant holds in every state a page and its backend reach.
THEOREM Invariance == Spec => []IInv
<1>1. Init => IInv
  BY InitInv
<1>2. IInv /\ [Next]_vars => IInv'
  <2> SUFFICES ASSUME IInv, [Next]_vars PROVE IInv'
    OBVIOUS
  <2>1. TypeOK'
    BY TypeStep DEF IInv
  <2>2. PageHoldsProcess'
    BY LaunchHolds, ModpackHolds, ProcessHolds, OthersHold DEF Next
  <2>3. StagesDoneFirst' /\ ReachedIsLost'
    BY StagesStep, ReachedStep
  <2> QED BY <2>1, <2>2, <2>3 DEF IInv
<1> QED BY <1>1, <1>2, PTL DEF Spec

\* The page's launches, its handlers and the processes of the backend have their types.
THEOREM TypeCorrectness == Spec => []TypeOK
BY Invariance, PTL DEF IInv

\* However often the instance is launched, given up, stopped or exits: before a reload no two of
\* its processes run at once, unless it was launched again while a launch went on that its modpack
\* had made launchable (install-mrpack.ts:138).
THEOREM NeverTwice == Spec => []OneProcess
<1>1. IInv => OneProcess
  <2> SUFFICES ASSUME IInv, reloads = 0, ~overlapped PROVE Cardinality(Alive) <= 1
    BY DEF OneProcess
  <2>1. Alive \subseteq {shown}
    BY DEF IInv, PageHoldsProcess, HandlersHoldButton, ProcessIsHandled, Alive
  <2>2. IsFiniteSet({shown}) /\ Cardinality({shown}) = 1
    BY FS_Singleton
  <2> QED BY <2>1, <2>2, FS_Subset
<1> QED BY <1>1, Invariance, PTL

\* Before a reload, and before such an overlap, a launched process that runs is the one the Stop
\* button is about.
THEOREM RunningIsShown == Spec => []LaunchedIsShown
<1>1. IInv => LaunchedIsShown
  BY DEF IInv, LaunchedIsShown, Alive, PageHoldsProcess, HandlersHoldButton, ProcessIsHandled
<1> QED BY <1>1, Invariance, PTL

\* A launch with a stage whose batch was cancelled never starts Minecraft, even across reloads and
\* overlaps.
THEOREM CancellationIsFinal == Spec => []CancelledNeverSpawns
<1>1. IInv => CancelledNeverSpawns
  BY DEF IInv, CancelledNeverSpawns, ReachedIsLost, StagesDoneFirst, TypeOK
<1> QED BY <1>1, Invariance, PTL
=============================================================================
