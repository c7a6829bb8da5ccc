--------------------------- MODULE LaunchPipeline ---------------------------
(***************************************************************************)
(* From an instance to the command that starts it (handle-launch.ts): the  *)
(* directories are made, the patch of the entry and the patches it         *)
(* requires are resolved, through cached files that are a week old at      *)
(* most, and all of them are merged.  Launches share directories, cached   *)
(* files and the jars of OptiFine.  The downloads between the merge and    *)
(* the command are InstanceLifecycle and ArtifactStore.                    *)
(***************************************************************************)
EXTENDS PatchMetadata, Selection

CONSTANTS
  Launches,        \* instances that are launched
  Entry,           \* [launch -> the patch it starts from]
  OptiFine,        \* the patch that is generated and not fetched
  Requires,        \* [uid -> the uids it requires, in order]
  Indexed,         \* uids whose version is neither selected nor required: their index is read
  Hooked,          \* uids an extension answers for, before or after
  Directories,     \* [validator -> the directories it makes]
  Installations,   \* pairs of the directories and the cached files that are there at the start
  Inputs,          \* pairs of a machine, <<platform, arch>>, and the contents of patches, [uid -> patch]
  MaxFaults        \* bound: crashes, and answers of the server or the disk that are no good

Uids == DOMAIN Requires
Files == {<<"patch", u>> : u \in Uids} \cup {<<"index", u>> : u \in Indexed}
Validators == {"patches", "assets", "hashes"}
AllDirectories == UNION {Directories[v] : v \in Validators}
Contents == {"missing", "stale", "corrupt", "good", "bad"}

\* No two validators make the same directory.
ASSUME PipelineAssumption ==
  /\ Entry \in [Launches -> Uids] /\ Requires \in [Uids -> Seq(Uids)] /\ MaxFaults \in Nat
  /\ \A v, w \in Validators : v # w => Directories[v] \cap Directories[w] = {}
  /\ AllDirectories \cap {"todo", "rejected"} = {}
  /\ \A there \in Installations : there[1] \subseteq AllDirectories /\ there[2] \in [Files -> Contents]

VARIABLES
  stage,      \* where each launch is
  made,       \* directories that exist
  missing,    \* those each validator of a launch found missing, or Todo
  groups,     \* groups of required uids still to resolve
  tasks,      \* the group that is being resolved
  resolved,   \* the patches so far, from parents to dependencies
  cache,      \* the cached files
  jar,        \* the OptiFine jar and its launchwrapper
  outcome,    \* what the command of a launch is made of
  faults,     \* how many of the faults that are bounded happened
  crowded     \* history: two launches prepared directories at one time

storeVars == <<cache, jar, faults>>
resolveVars == <<groups, tasks, resolved>>
pipelineVars == <<stage, made, missing, resolveVars, storeVars, outcome, crowded>>

Task(uid) == [uid |-> uid, of |-> "patch", at |-> "start", got |-> None]
Group(uids) == [i \in DOMAIN uids |-> Task(uids[i])]
\* Before a validator has looked.
Todo == {"todo"}
Unlooked == [v \in Validators |-> Todo]

PipelineInit ==
  /\ stage   = [l \in Launches |-> "idle"]
  /\ missing = [l \in Launches |-> Unlooked]
  /\ groups  = [l \in Launches |-> <<>>]
  /\ tasks   = [l \in Launches |-> <<>>]
  /\ resolved = [l \in Launches |-> <<>>]
  /\ \E there \in Installations : made = there[1] /\ cache = there[2]
  /\ jar     = [jar |-> FALSE, wrapper |-> "absent"]
  /\ outcome = [l \in Launches |-> None]
  /\ faults = 0
  /\ crowded = FALSE

-----------------------------------------------------------------------------
(* Starting: the information about the machine, the account, directories.  *)

\* extractPreLaunchInformation refuses a machine it does not know; so does a missing account.
Start(l) ==
  /\ stage[l] = "idle"
  /\ \E input \in Inputs, account \in BOOLEAN :
       stage' = [stage EXCEPT ![l] =
                   IF account /\ CompatibleMachine(input[1][1], input[1][2]) # None THEN "directories" ELSE "failed"]
  /\ crowded' = (crowded \/ ((\E k \in Launches \ {l} : stage[k] = "directories") /\ stage'[l] = "directories"))
  /\ UNCHANGED <<made, missing, resolveVars, storeVars, outcome>>

\* A validator looks what exists, each by itself.
Looks(l, v) ==
  /\ stage[l] \in {"directories", "thrown"} /\ missing[l][v] = Todo
  /\ missing' = [missing EXCEPT ![l][v] = Directories[v] \ made]
  /\ UNCHANGED <<stage, made, resolveVars, storeVars, outcome, crowded>>

ensurePatchDirectories(l) == Looks(l, "patches")

initializeAssetsDirectories(l) == Looks(l, "assets")

\* The directories inside are looked at when those for the assets are there.
initializeShortHashDirectories(l) == missing[l]["assets"] = {} /\ Looks(l, "hashes")

\* mkdir, which refuses what exists; the first refusal ends the launch, and not the other calls.
Make(l, v, d) ==
  /\ stage[l] \in {"directories", "thrown"} /\ missing[l][v] # Todo /\ d \in missing[l][v]
  /\ IF d \in made
     THEN stage' = [stage EXCEPT ![l] = "thrown"] /\ UNCHANGED made
     ELSE made' = made \cup {d} /\ UNCHANGED stage
  /\ missing' = [missing EXCEPT ![l][v] = (@ \ {d}) \cup (IF d \in made THEN {"rejected"} ELSE {})]
  /\ UNCHANGED <<resolveVars, storeVars, outcome, crowded>>

Prepared(l) ==
  /\ stage[l] = "directories" /\ \A v \in Validators : missing[l][v] = {}
  /\ stage'  = [stage EXCEPT ![l] = "entry"]
  /\ tasks'  = [tasks EXCEPT ![l] = Group(<<Entry[l]>>)]
  /\ UNCHANGED <<made, missing, groups, resolved, storeVars, outcome, crowded>>

-----------------------------------------------------------------------------
(* resolvePatch, for the i-th patch of the current group.                  *)

Resolving(l, i, at) ==
  /\ stage[l] \in {"entry", "requires"}
  /\ i \in DOMAIN tasks[l] /\ tasks[l][i].at = at

File(t) == <<t.of, t.uid>>
Becomes(l, i, t) == tasks' = [tasks EXCEPT ![l][i] = t]

\* A valid index leads to the patch; without one "false.json" is asked for, which nobody has.
IndexParsed(t, content) ==
  IF content = "good" THEN [t EXCEPT !.of = "patch", !.at = "open", !.got = None]
  ELSE [t EXCEPT !.at = "settled", !.got = "false"]

\* Mutant of PatchParsed: a patch that is not valid is asked for again.
PatchAgain(t, content) ==
  IF content = "good" THEN [t EXCEPT !.at = "settled", !.got = "patch"] ELSE [t EXCEPT !.at = "start", !.got = None]

\* A patch is validated, and an extension may answer for an invalid one.
PatchParsed(t, content) ==
  [t EXCEPT !.at = "settled",
            !.got = IF content = "good" \/ (content = "bad" /\ t.uid \in Hooked) THEN "patch" ELSE "false"]

Parsed(t, content) == IF t.of = "index" THEN IndexParsed(t, content) ELSE PatchParsed(t, content)

Untouched == <<stage, made, missing, groups, resolved, outcome, crowded>>

\* The before-hooks, then the version.
Begin(l, i) ==
  /\ Resolving(l, i, "start")
  /\ \E answered \in BOOLEAN :
       LET t == tasks[l][i] IN
       /\ answered => t.uid \in Hooked
       /\ Becomes(l, i, IF answered THEN [t EXCEPT !.at = "settled", !.got = "patch"]
                        ELSE [t EXCEPT !.at = "open", !.of = IF t.uid \in Indexed THEN "index" ELSE "patch"])
  /\ UNCHANGED <<Untouched, storeVars>>

\* handleJsonFile: what is missing, a week old or no JSON is fetched.
Open(l, i) ==
  /\ Resolving(l, i, "open")
  /\ LET t == tasks[l][i] content == cache[File(t)] IN
       Becomes(l, i, IF content \in {"good", "bad"} THEN Parsed(t, content) ELSE [t EXCEPT !.at = "fetch"])
  /\ UNCHANGED <<Untouched, storeVars>>

Fetched(t) == t.uid # OptiFine \/ t.of = "index"

Fails(bad) == /\ faults' = faults + (IF bad THEN 1 ELSE 0)
              /\ faults' <= MaxFaults

\* fetchMetadata: JSON of whatever shape is written as it comes; without an answer it is asked again.
Fetch(l, i) ==
  /\ Resolving(l, i, "fetch") /\ Fetched(tasks[l][i])
  /\ \E answer \in {"good", "bad", "none"} :
       /\ Fails(answer # "good")
       /\ Becomes(l, i, IF answer = "none" THEN [tasks[l][i] EXCEPT !.at = "again"]
                        ELSE [tasks[l][i] EXCEPT !.at = "write", !.got = answer])
  /\ UNCHANGED <<Untouched, cache, jar>>

\* A write that fails may have emptied the file; the content is then asked for once more.
Write(l, i) ==
  /\ Resolving(l, i, "write")
  /\ LET t == tasks[l][i] IN
       \/ cache' = [cache EXCEPT ![File(t)] = t.got] /\ Becomes(l, i, Parsed(t, t.got)) /\ Fails(FALSE)
       \/ /\ cache' \in {cache, [cache EXCEPT ![File(t)] = "corrupt"]}
          /\ Becomes(l, i, [t EXCEPT !.at = "again"]) /\ Fails(TRUE)
  /\ UNCHANGED <<Untouched, jar>>

\* The default after an error is not written.
Again(l, i) ==
  /\ Resolving(l, i, "again") /\ Fetched(tasks[l][i])
  /\ \E answer \in {"good", "bad", "none"} :
       Fails(answer # "good") /\ Becomes(l, i, Parsed(tasks[l][i], answer))
  /\ UNCHANGED <<Untouched, cache, jar>>

\* The end of a generation: a described patch is written the first time; without one it is tried again.
Generated(t, ok) ==
  IF t.at = "again" \/ t.got = "again" THEN Parsed(t, IF ok THEN "good" ELSE "none")
  ELSE IF ok THEN [t EXCEPT !.at = "write", !.got = "good"] ELSE [t EXCEPT !.at = "again", !.got = None]

\* inspectOptiFineJar: a launchwrapper that has to be taken out first.  A jar without one of its own is
\* like one whose launchwrapper is there.
Inspected(t) ==
  IF jar.wrapper # "absent" THEN Generated(t, TRUE)
  ELSE [t EXCEPT !.at = "extract", !.got = IF t.at = "again" THEN "again" ELSE None]

\* downloadOptiFineJar: a jar that exists is not fetched.
GetOptiFine(l, i, at) ==
  /\ Resolving(l, i, at) /\ ~Fetched(tasks[l][i])
  /\ \/ jar' = [jar EXCEPT !.jar = TRUE] /\ Becomes(l, i, Inspected(tasks[l][i])) /\ Fails(FALSE)
     \/ ~jar.jar /\ UNCHANGED jar /\ Becomes(l, i, Generated(tasks[l][i], FALSE)) /\ Fails(TRUE)
  /\ UNCHANGED <<Untouched, cache>>

\* extractLaunchWrapper writes in place: whoever looks for the file meanwhile finds it.
ExtractWrapper(l, i) ==
  /\ Resolving(l, i, "extract")
  /\ jar' = [jar EXCEPT !.wrapper = "half"]
  /\ Becomes(l, i, [tasks[l][i] EXCEPT !.at = "extracting"])
  /\ UNCHANGED <<Untouched, cache, faults>>

Extracted(l, i) ==
  /\ Resolving(l, i, "extracting")
  /\ \E ok \in BOOLEAN :
       /\ Fails(~ok)
       /\ jar' = IF ok THEN [jar EXCEPT !.wrapper = "whole"] ELSE jar
       /\ Becomes(l, i, Generated(tasks[l][i], ok))
  /\ UNCHANGED <<Untouched, cache>>

-----------------------------------------------------------------------------
(* Groups of patches, and the merge.                                       *)

Settled(l) == tasks[l] # <<>> /\ \A i \in DOMAIN tasks[l] : tasks[l][i].at = "settled"
Gotten(l)  == LET ok == Selected(tasks[l], {t \in ToSet(tasks[l]) : t.got = "patch"})
              IN [i \in DOMAIN ok |-> ok[i].uid]

\* Without the entry there is nothing to launch.
EntryResolved(l) ==
  /\ stage[l] = "entry" /\ Settled(l)
  /\ stage' = [stage EXCEPT ![l] = IF Gotten(l) = <<>> THEN "failed" ELSE "requires"]
  /\ resolved' = [resolved EXCEPT ![l] = Gotten(l)]
  /\ tasks' = [tasks EXCEPT ![l] = IF Gotten(l) = <<>> THEN <<>> ELSE Group(Requires[Entry[l]])]
  /\ UNCHANGED <<made, missing, groups, storeVars, outcome, crowded>>

\* resolveSubPatches: what could not be resolved is left out; a patch required twice is resolved twice.
Grouped(l) ==
  LET queue == groups[l] \o [i \in DOMAIN Gotten(l) |-> Requires[Gotten(l)[i]]]
  IN /\ resolved' = [resolved EXCEPT ![l] = @ \o Gotten(l)]
     /\ groups' = [groups EXCEPT ![l] = IF queue = <<>> THEN <<>> ELSE Tail(queue)]
     /\ tasks'  = [tasks EXCEPT ![l] = IF queue = <<>> THEN <<>> ELSE Group(Head(queue))]

GroupResolved(l) ==
  /\ stage[l] = "requires"
  /\ Settled(l) \/ (tasks[l] = <<>> /\ groups[l] # <<>>)
  /\ Grouped(l)
  /\ UNCHANGED <<stage, made, missing, storeVars, outcome, crowded>>

Instance == [height |-> 720, width |-> 1280, gameArguments |-> <<>>, jvmArguments |-> <<>>]
TheAccount == [token |-> "token", username |-> "name", uuid |-> "uuid", xuid |-> "xuid"]

\* The machine and the content of the patches matter here first, and are chosen here.
Merge(l) ==
  /\ stage[l] = "requires" /\ tasks[l] = <<>> /\ groups[l] = <<>>
  /\ \E input \in Inputs :
       LET machine == CompatibleMachine(input[1][1], input[1][2])
           patches == [i \in DOMAIN resolved[l] |-> input[2][resolved[l][i]]]
           throws  == \E i \in DOMAIN patches : Throws(machine, patches[i])
       IN /\ machine # None
          /\ stage' = [stage EXCEPT ![l] = IF throws THEN "thrown" ELSE "done"]
          /\ outcome' = [outcome EXCEPT ![l] = IF throws THEN None ELSE [machine |-> machine, patches |-> patches]]
  /\ UNCHANGED <<made, missing, resolveVars, storeVars, crowded>>

\* A crash in the middle of a launch; what was being written is cut short.
Restart ==
  /\ Fails(TRUE) /\ \E l \in Launches : stage[l] \in {"directories", "entry", "requires"}
  /\ stage' = [l \in Launches |-> "idle"]
  /\ missing' = [l \in Launches |-> Unlooked]
  /\ groups' = [l \in Launches |-> <<>>] /\ tasks' = [l \in Launches |-> <<>>]
  /\ resolved' = [l \in Launches |-> <<>>] /\ outcome' = [l \in Launches |-> None]
  /\ LET writing == {File(t) : t \in UNION {{u \in ToSet(tasks[l]) : u.at = "write"} : l \in Launches}}
     IN \E cut \in SUBSET writing : cache' = [f \in Files |-> IF f \in cut THEN "corrupt" ELSE cache[f]]
  /\ UNCHANGED <<made, jar, crowded>>

ResolveStep(l, i) ==
  \/ Begin(l, i) \/ Open(l, i) \/ Fetch(l, i) \/ Write(l, i) \/ Again(l, i)
  \/ GetOptiFine(l, i, "fetch") \/ GetOptiFine(l, i, "again") \/ ExtractWrapper(l, i) \/ Extracted(l, i)

LaunchStep(l) ==
  \/ ensurePatchDirectories(l) \/ initializeAssetsDirectories(l) \/ initializeShortHashDirectories(l)
  \/ \E v \in Validators, d \in AllDirectories : Make(l, v, d)
  \/ Prepared(l) \/ EntryResolved(l) \/ GroupResolved(l) \/ Merge(l)
  \/ \E i \in DOMAIN tasks[l] : ResolveStep(l, i)

PipelineNext == Restart \/ \E l \in Launches : Start(l) \/ LaunchStep(l)

\* Calls are answered, by the disk and by the network (which may refuse), and the page goes on.
PipelineFairness == \A l \in Launches : WF_pipelineVars(LaunchStep(l))
PipelineSpec == PipelineInit /\ [][PipelineNext]_pipelineVars /\ PipelineFairness

-----------------------------------------------------------------------------
(* Properties.                                                             *)

PipelineTypeOK ==
  /\ stage \in [Launches -> {"idle", "directories", "entry", "requires", "done", "failed", "thrown"}]
  /\ made \subseteq AllDirectories
  /\ cache \in [Files -> Contents]
  /\ jar \in [jar : BOOLEAN, wrapper : {"absent", "half", "whole"}]
  /\ faults \in 0..MaxFaults
  /\ \A l \in Launches : /\ ToSet(resolved[l]) \subseteq Uids
                         /\ \A i \in DOMAIN tasks[l] : tasks[l][i].uid \in Uids
                         /\ outcome[l] # None => stage[l] = "done"

\* A launch that goes on after the validators finds all the directories it writes to, also after a
\* crash half way through making them, and it fails over them only when another launch makes them too.
DirectoriesReady ==
  \A l \in Launches :
    /\ stage[l] \in {"entry", "requires", "done"} => made = AllDirectories
    /\ stage[l] = "thrown" /\ resolved[l] = <<>> => crowded

\* What a launch may see of its libraries, in the order in which they are merged.
Entries(o, isMaven) ==
  FlattenSeq([i \in DOMAIN o.patches |->
    LET patch == Reverse(o.patches)[i] IN
    IF isMaven THEN parseLibraries(o.machine, patch.mavenFiles, TRUE)
    ELSE parseLibraries(o.machine, patch.libraries \o patch.plusLibraries, FALSE)])

\* The class path holds, for every library some patch asks for on this machine, the file named last
\* and no other, each once, those of "+libraries" first; what only maven files name is not on it.  A native that is unpacked is
\* made for the machine, and every library made of classifiers that has one for it is unpacked.
\* A patch is merged after the patches it requires, and the token of the account is in the command
\* that is run and not in the one that is logged.
CommandIsMerged ==
  \A l \in Launches : outcome[l] # None =>
    LET o == outcome[l]
        finalized == finalizePatches(o.machine, o.patches)
        classPath == ClassPath(finalized)
        command == createCommand(o.machine, finalized, Instance, TheAccount)
        named == SelectSeq(Entries(o, FALSE), LAMBDA a : a.status = "library")
        last(id) == named[Max({i \in DOMAIN named : named[i].id = id})].path
        clients == {p.mainJar.path : p \in {q \in ToSet(o.patches) : parseMainJar(q) # None}}
        requires(i, j) == \E k \in DOMAIN o.patches[i].requires : o.patches[i].requires[k] = o.patches[j].uid
        fits(n) == LET u == unifyPlatformWithArch(n)
                   IN u.platform = o.machine.platform /\ u.arch \in {"any", o.machine.arch}
        unpacked(lib) == {a \in ToSet(Natives(finalized)) : a.id = <<lib.name, "natives">>}
    IN /\ IsInjective(classPath)
       /\ {last(a.id) : a \in ToSet(named)} = ToSet(classPath) \ clients
       /\ \A a \in ToSet(finalized.unique) : \A i, j \in DOMAIN classPath :
            (a.first /\ a.path = classPath[i] /\ i > j) => \E f \in ToSet(finalized.unique) : f.first /\ f.path = classPath[j]
       /\ clients # {} => clients \cap ToSet(classPath) # {}
       /\ \A i, j \in DOMAIN o.patches :
            requires(i, j) => \E k \in (i + 1)..Len(o.patches) : o.patches[k].uid = o.patches[j].uid
       /\ \A p \in ToSet(o.patches) : \A lib \in ToSet(p.libraries) :
            (lib.name # None /\ lib.classifiers # None /\ shouldIncludeLibrary(o.machine, lib)) =>
              /\ unpacked(lib) # {} <=> \E n \in ToSet(lib.classifiers) : fits(n)
              /\ \A a \in unpacked(lib) : fits(a.source)
       /\ \A i \in DOMAIN command.run :
            /\ "placeholder" \notin DOMAIN command.run[i]
            /\ command.logged[i] # command.run[i] => "placeholder" \in DOMAIN command.logged[i]
       /\ \A i \in DOMAIN finalized.minecraftArguments :
            LET argument == finalized.minecraftArguments[i]
                left == {j \in DOMAIN command.logged : "placeholder" \in DOMAIN command.logged[j]}
            IN "placeholder" \in DOMAIN argument => \E j \in left : command.logged[j] = argument

\* A launch that has begun comes to an end, as long as patches do not require each other in a circle.
LaunchesResolve ==
  \A l \in Launches : stage[l] = "directories" ~> stage[l] \in {"idle", "done", "failed", "thrown"}
=============================================================================
