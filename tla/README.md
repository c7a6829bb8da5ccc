# Kaede in TLA+

Models, model-checked properties and machine-checked proofs of
[Kaede](../src/docs/README.md), a Minecraft launcher: a Vue page in a web view, a
backend in Rust (Tauri, `src/src-tauri`) and a second one in Go (Wails,
`src/src-wails`). The page runs on one event loop and awaits commands of the backend,
which runs tasks in parallel; events and progress channels travel back beside the
responses. Almost everything that is hard about the launcher lies in these crossings.

Paths below are relative to the repository's root unless they start with a module.

## 1. The system

### Components, their state, their operations

| Component | Keeps | Operations | Correct when |
|---|---|---|---|
| Download backend (`src-tauri/src/downloads.rs`, `src-wails/service_download.go`) | cancel registry (id → flag, count); per batch: shared index, counters, files in flight | `concurrently_download`, `cancel_downloads` | each file fetched once, reports add up, a cancellation reaches every batch of its id and no other |
| Download progress (`lib/network/concurrently-download.ts`) | `statuses.downloads`: total, success, failed, current; per call: what was seen last | merge snapshots and reports of concurrent batches | counts never fall, settle on the total, no file shown after its end |
| Artifacts (`download_one`, `verify_file_paths`) | files shared by all instances | verify, download into `.part`, rename | a file under its final name is whole |
| Launches (`ContextProviders.vue`, `Launch.vue`, `handle-launch.ts`, `spawn-minecraft.ts`) | `launches`, `childProcesses` | create from a modpack, launch, stop, rehydrate | one process per instance, shown as what it is; a cancelled launch ends (both with the exceptions below) |
| Processes (`processes.rs`, `lib/processes`) | registry pid → entry; handlers by token | spawn, list, kill; exit event | every exit is reported once, after the last output |
| Config and instances (`configs/sync.ts`, `instances/sync.ts`, `handle-json-file.ts`, `get-main.ts`) | state, `lastWritten`, the file | debounced sync, start | what was synced survives; nothing unreadable is overwritten silently |
| Accounts (`lib/auth`, profile components) | the list, the selected index, `accounts.json` | sign in, add, remove, refresh, refresh at launch | no account lost, doubled or set back |
| Launch pipeline (`lib/launcher`) | directories, cached metadata, OptiFine's jar; per launch: patches resolved so far | make directories, resolve the entry and what it requires, merge, build the command | directories are there before they are written to; each library once, in the version of the patch nearest to the entry; a launch comes to an end |
| Sign-in (`lib/auth/scopes`, `Microsoft.vue`) | the local server, the listener, the timer, the chain of requests | begin, redirect, time out, reload | a sign-in is answered by its own redirect, cleans up, ends |
| Hooks and extensions (`lib/hooks`, `lib/extension-api`, `lib/extensions`, `ExtensionLoader.vue`) | arrays of hooks; enabled, trusted and executed extensions | subscribe, pass, load, toggle, unload | what is shown as enabled is what has hooks; hooks are called in order |
| Permissions (`lib/permissions`, `PermissionsHandler.vue`) | decisions by extension; one dialog | grant, ask, answer, send | answers go to who asked; what is sent is within what was allowed |
| Instance creation (`components/add-instance`, `lib/modrinth`, `lib/instances`) | the draft, version lists, imports under way | choose versions, import a modpack, create, reset | a modloader fits its game; an untouched modpack is created as imported |
| Settings (`components/settings`, `row-collections.ts`, `CustomInput.vue`, `Tabs.vue`) | settings, texts on display, debounce timers, the tab | type, pick, select, leave, scan for Java | once timers have fired, what was typed is stored |
| Search for modpacks (`ModrinthInstance.vue`, `Pagination.vue`, `modrinth/search.ts`) | text, filters, page; answers kept by query | search, filter, choose a page, leave, answers in any order | a page that is shown exists; nothing loads for ever |
| Start of the page (`main.ts`, `lib/initialization`, `watch-states.ts`) | initial state, the window, translations, developer tools | read, mount, show, finalize, change the locale | the window is shown; translations follow the locale |
| Servers of extensions (`lib/txiki`, `spawn-server.ts`, `states/servers.ts`) | files of code, processes, the list on the page | serve, exit, kill, reload | the list is what runs; code is run whole |
| Logs (`use-log-stream.ts`, `use-log-search.ts`, `lib/logging`, `logging.rs`) | the log, one stream, lines, matches | stream, cut, filter, search, draw | lines on display were written; no text lost or doubled by highlighting |
| Browser replica (`lib/__browser`) | a store of files by path, cancel registry, listeners, processes | the backend's commands, in the page | the promises of the backend |
| Wails bridge (`lib/__wails`) | the runtime, subscriptions, requests | listen, emit, call, send, drain | each event is heard once; a body comes once, then its end |
| Schemas, modals, themes, fonts, build | see `PROJECT.json` | | |

### How they interact

A launch (page) resolves the account, installs the instance's modpack if it has one, prepares
directories and metadata, and then awaits four downloads together with `Promise.all`. Each of them, and
the modpack's before them, verifies files through a command
and sends one `concurrently_download`; all carry the cancel id `<instance>-download`. The
snapshots of each batch come through a channel of its own and are merged into the one
`statuses.downloads` the page shows. The Stop button cancels by id, or kills the child. The
process's output and exit come as events keyed by a token; handlers are set before the
spawn command is sent. A reload of the page (soft reload, crash of the web view) loses the
page's state and handlers while the backend goes on; the new page lists the processes and
attaches to them.

### What is hard

* tasks of one batch over shared atomics, and batches of one id over one cancel flag;
* responses, events and snapshots that overtake each other;
* `Promise.all`, which is settled while other stages go on;
* state of the page read before an await and used after it (accounts, statuses);
* one object that several functions set: the installation of a modpack, which is shared by the creation
  of an instance and by its launches, ends the display of a launch in its middle;
* a reload or crash between two steps; writes that truncate first;
* two instances on one set of files.

`PROJECT.json` lists each of these under `hazards` with its line and the properties that
cover it, or the reason why none does; section 5 names more.

## 2. Modules

| Module | Models | Checked by |
|---|---|---|
| `BatchPromise` | abstract: what `concurrently_download` promises its caller | (through the next two) |
| `Downloads` | worker pool, registry, cancellation, report | `MCDownloads` |
| `DownloadProgress` | ticker, channel, merging on the page; extends `BatchPromise` | `MCDownloadProgress` |
| `ArtifactStore` | one shared file: verify, `.part`, rename | `MCHostParts`, `MCArtifactStore` |
| `InstanceLifecycle` | one instance: page, creation from a modpack, launch sequence, process registry, reload | `MCInstanceLifecycle` |
| `StateFile` | config or instances: sync, write, crash, start | `MCStateFile` |
| `Accounts` | the account list and its file | `MCAccounts` |
| `PatchMetadata` | pure: platforms, rules, parsing of libraries and natives, the merge, the command | through `LaunchPipeline` |
| `LaunchPipeline` | launches that share directories, cached files and OptiFine's jar; extends `PatchMetadata` | `MCPageParts` |
| `SignIn` | the authorization in the browser and the chain of requests after it | `MCPageParts` |
| `InstanceDraft` | the draft of an instance, version lists, imports, creation | `MCPageParts` |
| `SettingsRows` | rows of the settings, debounced fields, tabs, Java; arguments, memory and window of a new instance | `MCPageParts` |
| `PageStart` | `main.ts`, the window, translations, developer tools | `MCPageParts` |
| `ExtensionServers` | servers: file, process, list, reload | `MCPageParts` |
| `ModpackSearch` | the query of the search, its kept answers, pages | `MCPageParts` |
| `ReplicaStorage`, `ReplicaDownloads`, `ReplicaChannels` | the browser replica: files, downloads, events and processes | `MCHostParts` |
| `LogStream`, `LogView` | the stream of the log; filters, search and drawing | `MCHostParts` |
| `WailsBridge` | runtime, events, HTTP requests | `MCHostParts` |
| `HookChain`, `ExtensionHost` | hooks and passes; extensions that load, run and toggle, over the hooks | `MCHostParts` |
| `PermissionRequests` | permissions, their dialog, requests to the network | `MCHostParts` |
| `Undefined` | the value `None`, for `undefined` and `null` | |
| `Selection` | pure: `Selected`, the elements of a sequence that pass a test, in order (`filter`), without recursion | in the modules that filter lists |
| `PageParts`, `HostParts` | what the seven parts of the page promise together, and the nine parts around it | `MCPageParts`, `MCHostParts` |
| `DownloadsProofs` | theorems about `Downloads`, its reports and `BatchPromise` | TLAPS |
| `DownloadProgressProofs`, `InstanceLifecycleProofs`, `StateFileProofs`, `AccountsProofs` | theorems about the module each is named after | TLAPS |
| `PagePartsProofs` | theorems about the parts of `PageParts`, each on its own, and together | TLAPS |
| `HostPartsProofs` | the same of `HostParts` | TLAPS |
| `SequenceLemmas` | lemmas about sequences, selections and least numbers that these share | TLAPS |

`MCPageParts` and `MCHostParts` check the smaller modules in two runs: their parts share no
state, `focus` names the one that moves, and the others rest at one initial state. A property of
such a run is a conjunction of the properties of its parts, stated in `PageParts` and `HostParts`
unless only TLC checks it.

`Downloads` implements `BatchPromise` (property `KeepsPromise`); `DownloadProgress` builds on
the promise instead of the workers, which is what keeps two concurrent batches with tickers
and channels within reach. `InstanceLifecycle` uses the same contract once more, one step
coarser: a batch registers under the instance's flag, and reports. `ReplicaDownloads`, the preview's
downloads on one event loop, implements `BatchPromise` too (`ReplicaKeepsPromise`), so that the
callers of the desktop and of the preview may rely on the same.

### Correspondence

The `map` in `PROJECT.json` names the lines behind every definition. Some notes:

* **Downloads.** A flag object is named by the batch that created it, because nothing else
  ever does. The worker's loop is split where another task can see or change something:
  check of the flag, `fetch_add`, insertion into the progress map, end of the transfer,
  removal from the map, counter. An entry is its index (paths are unique,
  `concurrently-download.ts:48-56`). The modelled backend is the Rust one; in the Go one an
  error after a cancellation counts as cancelled. Panics of workers are left out.
* **DownloadProgress.** `TickerAwaited` is the one difference between the backends that
  matters here. A tick reads the files under the lock and the counters later, as the code
  does. Snapshots of a batch arrive in order; the response may overtake them.
* **ArtifactStore.** Names and inodes are apart: `File::create` on an existing `.part`
  truncates the inode another download writes, `rename` moves what the name denotes.
* **InstanceLifecycle.** An attempt to launch names its `statuses` object, its process and its
  token, since `launchInstance` makes a fresh object each time. Everything before the
  downloads (account, directories, patches) is the state `preparing`, which can fail, except the
  installation of the instance's modpack: it is a batch of its own under the same cancel id
  (`Modpack`), in a launch (`installing`, then `asking` if some of it failed) and at the creation
  of the instance (`creating`, `CreateInstance.vue`). What it does to a launch is modelled as it is:
  `installMrpack` sets `statuses.launching` to 0 when it is done (`install-mrpack.ts:138`),
  so the instance is offered for launching again while the launch goes on (`released`; `overlapped` once
  somebody does); and when it is cancelled it answers with a report of no failures, after which
  the launch goes on (`handle-launch.ts:100-106`). `OneProcess` and `LaunchedIsShown` are false after
  such a second launch and say so; `CancelledNeverSpawns` speaks of the batches of the four stages.
  `killing` stands for the kill commands under way. `listed` holds the downloads that count in
  `statuses.downloads.total`, which is what the Stop button looks at.
* **StateFile.** One module for both files; `regenerates` is TRUE for the config. A value is a
  state that passes validation; besides, the file may be empty, of the wrong shape (`Invalid`)
  or no JSON (`Torn`). Files are written by a library that truncates and then fills (external).
  `globalStates.java` is written with the config but not watched; nothing in the launcher changes it
  after the start, so every change in the model is one the watcher sees.
* **Accounts.** An account is a person and the number of its token, 0 for an offline account.
  `Without` is the `filter` by position.
  A launch whose token is fresh changes nothing and is left out.
* **LaunchPipeline, PatchMetadata.** A patch is fetched or read through `handleJsonFile`, whose
  outcomes are the states of its file: missing, a week old, no JSON, an object of the wrong shape,
  good. Requirements are resolved group by group, as `resolveSubPatches` pushes them. A library's
  name is a record, its file the coordinate; rules, classifiers and arguments are short lists.
* **SignIn.** One sign-in at a time on a page; servers, tabs and redirects of earlier ones live on.
  An OAuth answer is a code, an error or nothing, with the state of the page it came from.
* **HookChain, ExtensionHost, PermissionRequests.** A hook is named after its extension, the array is
  a sequence that changes under the index of the pass. Third-party code is what it may do: subscribe,
  answer, throw. URLs are an origin and a path of segments.
* **SettingsRows.** Rows are named as in `row-collections.ts`; `shown` is the text of a field,
  `timer` its debounce, `detached` the text of a field that left the page with its timer running.
  `splitArguments` and `joinArguments` work on sequences of characters. The memory of a new instance
  has no value of its own: its two fields read and write the JVM arguments, which have a field, too.
* **PageStart.** A translation is its language. Requests of the locale watcher are numbered. A file
  that cannot be read or written is English for that answer (`unread`, until the next one).
* **ExtensionServers.** A server is a call of `listen`, with the token of its process.
* **ModpackSearch.** The key of the query is the state of the tab; what is on display follows from it,
  from the kept answers and from the key shown last. Modrinth answers by the facets alone; how
  `vue-query` keeps, drops and repeats is external.
* **ReplicaStorage.** A path is a sequence of segments with slashes, since listings and existence go by
  prefixes; a value is a text or a file. Any request may fail: a write or deletion rejects
  (`StoreRejects`), a read answers an empty value (`mayRead`), a listing nothing. A rename of a file that could not
  be read writes an empty file to the new name and deletes the old one; that file is no longer owed.
* **LogStream, LogView.** In the stream, lines are numbered as they are written; in the view, a line is
  a sequence of characters, of two lines that differ in their tokens and matches. A search keeps the
  matches it found until the list or the text changes; `Changed` says that it is about to be repeated.
* **WailsBridge.** Emissions are numbered; `heard` counts each listener's calls. The service forgets a
  request when it could not be sent and when its body was read.

History variables record what properties speak of, and are read by no action: `shared`
(two downloads of a path overlapped), `reached`, `killed` and `confirmed` (what the user's
stops did), `released` and `overlapped` (launches made launchable in their middle, and a launch over
one of them), `lost`, `disturbed` and `promised` (what a start destroyed, what interfered with
writing, what the next start should find), `stored`, `overlapped` and `displaced` (the token
each account should have; a concurrent change; a refresh of an account other than the first).
In the newer modules they are
`crowded`, `asImported`, `orphans`, `disturbed`, `hijacked`, `muddled`, `unread`, `cut`, `overtaken`, `steady`,
`overlapped`, `crossed`, `journal`, `missed`, `owed`, `told` and `due`; each is explained where it is
declared.
The one exception is `killed` in the guard of `ReportExit` and in fairness, where it stands
for the system's having been asked to end the process.

## 3. Runs

| Run | Shows |
|---|---|
| `downloads` | types; every entry claimed once; reports add up; the registry is exactly the running batches; ids do not share flags; a new batch starts uncancelled; the pool implements `BatchPromise` |
| `download_progress` | with the awaited ticker: no ghost files, display never ahead of the work, totals settle and are never exceeded, counts never fall, calls return |
| `ghost_download` (violation) | with the aborted ticker a file stays on display |
| `host_parts` | artifacts are whole unless two downloads of one overlap, and repaired by a launch with checksums; the replica loses no file but one that a rename could not read, and its downloads keep the promise; every event is heard once, the log on display was written, of one stream, and the search finds the text wherever it is (`MessagesArrive`); highlighting keeps the text and the replica's commands agree on what is there (`ViewsAgree`); extensions, hooks and permissions are as shown, answered and allowed |
| `page_parts` | a launch has its directories and comes to an end; a sign-in is its own and ends; instances are as chosen; a quiet page shows what was set (`PageIsSettled`); what is stored is what was typed, and a command has each library once (`ValuesAsMeant`); the window is shown |
| `half_written` (violation) | two overlapping downloads publish half an artifact |
| `instance_lifecycle` | one process and a launched process is shown, until a reload or a launch over one that its modpack's installation released; a cancellation that reached the batch of a stage ends the launch; downloads end, a modpack's too; a killed process is closed |
| `ignored_cancel` (violation) | a confirmed cancellation between two batches is lost |
| `state_file` | nothing is lost (what is on the page is written or will be; a corrupt config is backed up), what was synced survives, changes are saved |
| `corrupt_overwritten` (violation) | a corrupt instances file is overwritten without a backup |
| `accounts` | no account lost, doubled, revived or set back, and the file follows, as long as changes do not overlap and launches refresh the first account |
| `displaced_account` (violation) | a launch that refreshes another account displaces the first |

Each violation is a `finding` in `PROJECT.json`, with the text it contradicts. Every property of
a passing run has a mutant: a change of one mapped definition, as a plausible bug would make
it, under which TLC finds the property violated.

### Bounds

| Bound | Value | Why it is enough |
|---|---|---|
| `Batches`, `Workers`, `Ids`, `MaxEntries` (Downloads) | 2, 2, 2, 2 | sharing and not sharing an id; two workers racing for the last entry |
| `Batches`, `MaxEntries`, `MaxTicks` (DownloadProgress) | 2, 1, 1 | two batches merged; one late snapshot each. One batch of one entry shows the ghost |
| `Launches`, `Chunks`, `MaxRounds` (ArtifactStore) | 2, 2, 2 | a writer in the middle of the file while the other creates; a relaunch after the damage; one launch with checksums, one without |
| `MaxAttempts`, `Stages`, `MaxReloads` (InstanceLifecycle) | 2, 2, 1 | an old launch whose stages go on beside a new one; the libraries (throw, then unpack) and the client (catches) stand for the four stages, which differ in nothing else. With a modpack (`Bounded` in `MCInstanceLifecycle`) the page is not reloaded and the client has nothing to download: the modpack's batch takes its place, reloads are checked without one. 536,336 states |
| `Values`, `Slots`, `MaxChanges`, `MaxRestarts` (StateFile) | 2, 2, 3, 2 | a change and back (A-B-A) during a write; two writes interleaved; a crash while repairing after a crash |
| `People`, `Launches`, `MaxTokens`, `MaxWrites` (Accounts) | 3, 2, 2, 2 | two accounts with tokens and one without; two launches with overlapping captures |
| `Launches`, `Requires`, `MaxFaults` (pipeline) | 2, three patches, 1 | a patch required at two depths; two launches that meet at each directory and file; one crash or bad answer; five pairs of machine and metadata, one of them unknown |
| `MaxSignIns`, `People` | 2, 2 | a late redirect of an earlier sign-in, by someone else |
| `Games`, `Published`, `Manifests`, `MaxInstances` | 2, 3 versions of 2 loaders, 2, 1 | a loader version for each game and one for any; two imports that cross |
| `MaxEdits`, `Rows` (settings) | 3, 13 | a text, a second field or a tab, and leaving; a row of every kind, two fields of one draft, the three that share the JVM arguments |
| `Locales`, `MaxChanges` (start) | 2, 1 | an answer of the old locale after that of the new |
| `Calls`, `Names`, `MaxReloads` (servers) | 2, 2, 1 | namesakes and others, a file written twice, a list that misses a start |
| `Terms`, `FilterValues`, `PageSize`, `MaxChoices` (search) | 2, 1 + 1, 2, 3 | three pages without filters, two or one with; a filter, a page and a filter before the first answer (no other result with 5 choices) |
| `Calls`, `AtOnce`, `AtFirst` (storage) | seven calls, two at a time, four files | names that are prefixes of others, renames that cross writes |
| `Invocations`, `MaxFiles` (replica downloads) | 2, 2 | two batches of one id |
| `MaxListeners`, `MaxProcesses` | 2, 2 | a handler that kills, listens or leaves while the other waits |
| `MaxLines`, `MaxCuts`, `MaxViewers`, `MaxShown` (logs) | 2, 1, 2, 2 | a cut that is seen and one that is not; a stream of an earlier viewer |
| `Listeners`, `MaxEmissions`, `HttpRequests` (Wails) | 2, 2, 1 | two calls of listen that cross |
| `Extensions`, `MaxMounts`, `MaxToggles`, `Requests` | 2, 2, 1, 3 | a sandboxed and a trusted one; two loads; two requests of one extension and one of another |

The theorems of section 4 hold for every value of these constants, of every module that keeps state.
The bounds remain for what is only model-checked.

`CHECK_DEADLOCK FALSE` everywhere: the bounds end every behaviour, and a launcher nobody
touches rests. That calls, launches and writes do not get stuck is stated by liveness
properties. Symmetry is used in `MCDownloads` and `MCAccounts`, whose checked properties are
safety properties.

### Fairness

* `DownloadProgress`: tasks are polled and requests end (connect and read timeouts of 30 s,
  `downloads.rs:124-127`), so a batch settles entries or stops; the event loop delivers each
  message and answer. Calls, cancellations and ticks are not fair.
* `InstanceLifecycle`: commands are executed and answered, stages and the installation of a modpack end for the same reason, a
  killed process dies. A process left alone may run for ever; the user owes nothing; the
  preparation may wait for a dialog for ever (`asking` is one).
* `StateFile`: timers fire, writes are answered, a page that starts gets up.
* `page_parts`: steps of a launch (commands answered, requests ended), the calls and the timer of a
  sign-in, the steps of `main.ts` and of the loader of extensions. The user and his browser are not
  fair: a sign-in whose tab is closed ends by its timer.
* Everything else is checked for safety only, without fairness.

## 4. Proofs

Eight modules hold the theorems; each is about the specification TLC checks, and none limits the
sets it runs over. Where a property of a run is stated, the run shows it for the bounds of
section 3 and the theorem for every value of the constants.

| Module | Theorem | States, always |
|---|---|---|
| `DownloadsProofs` | `TypeCorrectness` | `TypeOK` |
| | `EntriesClaimedOnce` | `ClaimedOnce` |
| | `RegistryExact` | `RegistryTracksBatches` |
| | `IdsIndependent` | `FlagsAreSeparate` |
| | `NewBatchUncancelled` | `FreshBatchUncancelled`, of every step |
| | `ReportsAddUp` | `ReportAccounts` |
| | `BackendKeepsPromise` | `KeepsPromise`: `Downloads` implements `BatchPromise` |
| `DownloadProgressProofs` | `TypeCorrectness` | `TypeOK` |
| | `TotalsAgree` | `TotalsSettle` |
| | `NoGhosts` | `NoGhostDownloads`, with the awaited ticker |
| | `CountsOnlyGrow` | `CountsNeverFall`, of every step |
| `InstanceLifecycleProofs` | `TypeCorrectness` | `TypeOK` |
| | `NeverTwice` | `OneProcess` |
| | `RunningIsShown` | `LaunchedIsShown` |
| | `CancellationIsFinal` | `CancelledNeverSpawns` |
| `StateFileProofs` | `TypeCorrectness` | `TypeOK` |
| | `StateIsKept` | `NothingIsLost` |
| | `FinishedSurvives` | `SyncedSurvives`, of every step |
| `AccountsProofs` | `TypeCorrectness` | `TypeOK` |
| | `AccountsAreSafe` | `AccountsAreKept` |
| `PagePartsProofs` | `PageTypeCorrectness` | `PagePartsTypeOK` |
| | `SignInsAreOwn` | `SignInIsOwn` |
| | `InstancesFitTogether` | `InstancesAsChosen` |
| | `PageSettles` | `PageIsSettled`, from the next five |
| | `LaunchesHaveDirectories` | `DirectoriesReady` |
| | `TabsFollowClicks` | `TabAsSelected`, `LocalesListedOnce` |
| | `PageFollowsConfig` | `TranslationsFollow`, `ToolsAsSwitched` |
| | `ServersAreListed` | `ServersAsRunning`, `ServedWhole` |
| | `SearchIsAsFiltered` | `SearchAsFiltered` |
| `HostPartsProofs` | `HostTypeCorrectness` | `HostPartsTypeOK` |
| | `NamedIsWhole` | `WholeUnlessShared` |
| | `ChecksumRepairs` | `RepairedByChecksum`, of every step |
| | `FilesAreKept` | `NothingLost` |
| | `PreviewKeepsPromise` | `ReplicaKeepsPromise`: `ReplicaDownloads` implements `BatchPromise` |
| | `ToldOnce` | `MessagesArrive`, from the next four |
| | `ExitsAreToldOnce` | `ExitIsToldOnce` |
| | `BridgeDelivers` | `WailsDelivers` |
| | `ShownIsWritten` | `ShownWasWritten`, `OneStream` |
| | `MatchesAreCurrent` | `SearchIsCurrent` |
| | `ViewsAreOne` | `ViewsAgree`, from the next two |
| | `HighlightingIsWhole` | `SegmentsTile` |
| | `AnswersAreOne` | `AnswersAgree` |
| | `ExtensionsAreSettled` | `ExtensionsSettle`, from the next two |
| | `ShownExtensionsRun` | `ExtensionsAsShown` |
| | `SentIsAllowed` | `AnsweredAsAsked`, `SentAsAllowed` |

Each module and each part has, besides, a theorem (`Invariance`, `AccountingInvariance`,
`SignInInvariance`, `StorageInvariance` and so on) that its inductive invariant always holds; the rest
follow from it. The parts of the page and those around it have no `Spec` of their own, since
`MCPageParts` and `MCHostParts` compose them: their theorems are about `SignInSafety`, `StorageSafety`
and the like, the initial states of a part with its next-state relation, every step of which either
run allows. Fairness is no part of them, as no safety property needs any.

### Assumptions

| Assumption | Says | Why the code justifies it |
|---|---|---|
| `DownloadsAssumption` | finitely many batches and workers, at least one worker | `concurrency` is at least 1 (`downloads.rs:122`); a process that runs has started finitely many tasks |
| `ProgressAssumption` | finitely many calls | the same on the page |
| `LifecycleAssumption`, `StoreAssumption` | the special stages and launches are among all; a file has at least one chunk | they are kinds of these |
| `StateFileAssumption` | the default is a state; no state is empty, invalid or torn | a state passes validation, the others do not |
| `AccountsAssumption` | offline people are people | |
| `SignInAssumption`, `HooksAssumption`, `LogStreamAssumption`, `WailsAssumption`, `EditsAssumption` | the bounds are numbers | |
| `DraftAssumption` | the default game exists; a modpack that declares a game and a loader declares a version of the loader for that game | the latter nothing in the code looks at: `resolve-patch-versions.ts` takes what the manifest has. It is a condition on the modpacks |
| `PipelineAssumption` | no two validators look for one directory; an installation is made of known directories and files | each `ensure-*` makes those of its own kind |
| `RowsAssumption`, `FoundAssumption` | a row's default is a row; memory rows come with the field of arguments; the languages found are a list without repetition | `row-collections.ts`, `ChangeMemoryAllocation.vue`; they are names in one directory |
| `LocalesAssumption` | English is a locale; a locale is no state of a file | it is the fallback the page is built with |
| `ServersAssumption`, `ReplicaAssumption` | finitely many calls and batches; concurrency is a number | a page that runs has made finitely many |
| `SearchAssumption` | a page holds at least one modpack, the hits of a query are a number | Modrinth's answer has `total_hits` |
| `ArchivesAssumption` | an archive is a finite list; an entry is a directory if its name ends in a separator | `parse-zip.ts` |
| `PathsAssumption` | what is stored at the start and what calls name are paths, none of which ends in a separator | the launcher joins names to its directories (`placeholder-invoke.ts:454`), none of which is empty or ends so. It is a condition on extensions, which may name any path: `mods/` would be listed (`list-directory-entries.ts:38`) and be missing all the same (`placeholder-invoke.ts:330`) |
| `LogViewAssumption` | lines and needles are finite texts; no needle is empty; parts have a width | an empty text is not searched for (`use-log-search.ts`); no part is narrower than its title (`use-log-resizer.ts`) |
| `HostAssumption` | the order in which extensions are read lists each once | they are names in one directory |
| `PermissionsAssumption` | a request wants a list of permissions; paths are lists of segments, and an internet permission that is allowed has one | `URL` parses them so; the path of an origin is "/" |

The remaining conjuncts keep `None`, which stands for `undefined`, apart from values, and the bounds
natural numbers. TLC evaluates every assumption in the runs.

### Arguments

* **Downloads.** None of the properties is inductive alone. `TypeOK` needs the registry to be exact,
  or deregistering could count below zero. `ClaimedOnce` needs the failures to have been handed
  out (`FailuresHandedOut`). `FlagsAreSeparate` and `FreshBatchUncancelled` need that a flag in
  use was created by a batch that has started (`FlagsAreBorn`), so that the batch which starts
  now cannot meet its own flag somewhere. There is one lemma per part (`TypeStep`,
  `QuietClaims`/`WorkerClaims`, `StartRegistry`/`DeregisterRegistry`/`SameRegistry`,
  `StartFlags`/`CancelFlags`/`SameFlags`), over two frame lemmas that say what the steps of a
  worker and of a batch leave alone.
* **Reports and the promise.** A report adds up because of a balance (`Balanced`): the entries handed
  out are the successes, the failures and those that some worker holds or gave up. A worker gives
  up only under a set flag, and is otherwise done only at the end of the list
  (`StoppedForAReason`), so that a report which does not say `cancelled` is complete. That no failure
  is listed twice takes `ClaimedOnce`. On the same invariant every step of the pool maps to a step
  of the promise or to a stutter: settling an entry, setting a flag (for all batches of
  an id at once), sampling progress (what is sampled is held: `ShownIsHeld`), answering.
* **Display.** The totals are kept by adding differences. They are shown to be sums over the calls
  (`TotalsAreSums`), where a sum over a finite set is the number of its tokens, so that facts about
  cardinalities replace an induction. What a call has seen is never ahead of its batch, and a call
  that returned has seen all of it. Ghosts are excluded because with an awaited ticker the
  last snapshot is the final one, which names no file (`LastIsFinal`); a ticker that is aborted may
  send after it, which the run `ghost_download` shows.
* **Artifacts.** What is published is spoiled only by truncating its inode, which needs a name for
  it, and the partial name denotes another (`PartIsNotFinal`). What the partial name denotes is
  whole, or its one writer has filled it as far as it has written (`PartIsFilled`, `OneWriter`).
* **Launches.** Until the first reload, and until there is a launch over one that its modpack's installation has
  released, the handlers of a token bind the page to its process: a process that may still exit has
  handlers, and only the attempt that is shown has any (`PageHoldsProcess`). Its button is taken, unless it
  was released; then nobody has launched since, as that would have set `overlapped`. A cancellation is final by another chain: a reached stage runs under the
  flag, then is refused or throws, never is done (`ReachedIsLost`), and a process has all its
  stages done (`StagesDoneFirst`).
* **State files.** Undisturbed, one write at most is in flight (`OneWrite`), and the file, `lastWritten`,
  the timer and the memory say together what is still to be written (`PageIsSynced`). What a page
  left finished is followed through the end of the application, the reading and the decision of
  the next start (`PromiseIsInFile`).
* **Accounts.** While nothing overlaps, a launch has captured the list as it is
  (`CapturedIsCurrent`) and leaves it behind with a new first account (`UpdatedIsFirst`), and the
  newest write carries the one or the other (`NewestIsList`). The lists need lemmas: removing by
  position (`RemoveOne`), replacing the first (`ReplaceFirst`), distinctness as a cardinality
  (`UniqueIsCounted`). `Without`, the `filter` of the code, is defined without recursion (the k-th of
  those kept), so that the provers can compute with it; `MCAccounts` has TLC compare it with
  `SelectSeq`.
* **Sign-in.** Redirects and codes name the page they come from (`RedirectsAreOwn`, `CodeIsOwn`), and a
  page not opened yet cannot have sent any (`UnopenedIsFresh`).
* **Drafts.** A list of versions is only shown for the game it was fetched for (`ListedFits`); the draft,
  what was imported and every instance fit (`InstancesFit`); and an untouched modpack has what
  its manifest declares (`UntouchedIsDeclared`).
* **Directories.** What a launch has looked for is made or on its list (`Looked`), and directories are
  never removed, so that a launch past this stage has them all. Crowded launches make the
  same ones; the conjuncts about the error this gives (`LaunchIsAlone`) are for the others.
* **Settings, start, search.** A tab that is not open though it was clicked last is still loading
  (`TabIsComing`). The newest request for translations is for the locale of the config
  (`LastIsCurrent`), and older answers are dropped. A page of the search is one that its key has,
  unless the key was changed under it (`PageIsThere`).
* **Servers.** Each call is followed from its handlers to the list. Unless something was overtaken, the
  answer to a reload has exactly what ran before (`AnswerIsRight`) and the list what was started
  before or has returned, without those whose exit was told (`ListIsRight`). Code is run whole since
  a file that is not is being written, or was cut (`BegunIsKnown`).
* **The preview's files.** What is owed is at a place that no rename is about to delete, unless the rename
  carries it, or could not read it and ends with its deletion what was owed (`OwedAreSafe`). The attempt to prove the first form of `NothingLost` failed, and showed
  why: of two renames that cross, the second moves what the first is about to delete, and what is
  written to a file between a rename's reading and deleting it goes with the old one. The model now says
  who owes what in these cases, and the theorem needs no bound on calls, keys or archives.
* **The preview's downloads.** The argument of the worker pool, on one event loop: what settled, what is
  in flight and what waits make up the batch (`LanesHold`, `BatchBalances`), an entry of the registry
  counts the running batches of its id (`FlagsAreCounted`), and on these each step maps to a step
  of `BatchPromise` or to a stutter.
* **Events.** An emission calls handlers in the order of their ids: whom it has told is behind it, whom
  it owes the event is not yet passed or was told (`SaidOnce`, `DueAreTold`). On the Wails bridge
  the runtime has one subscription per event with listeners, however calls of listen cross
  (`SubscribedOnce`), so that each emission counts once (`HearsOnce`).
* **Logs.** What a viewer shows is a piece of the journal, and with the messages on their way it leads to
  the piece at the stream's offset (`LeadsTo`, a sequence of places that grows by one with each message).
  A stream that runs is the registered one (`RegisteredInv`), so that two never do.
* **Search in the log.** That the matches are all the places of the text and nothing else takes an
  induction over the places of a line, for a regular expression jumps behind each match, and one over the lines.
  Both are done by the least counterexample (`LeastNatural`, from the order of the natural numbers),
  as a theorem with an operator for a parameter cannot be cited.
* **Highlighting.** The segments drawn over a token lead from its beginning to the cursor (`Tiles`,
  `DrawnWell`), and a match that begins behind the cursor leads them on (`OverlayIsDrawn`); one that was
  found in a longer or another line is cut where the token is (`MarksAreInToken`). Tokens follow one
  another (`TokensAreInLine`), so the line is drawn whole. The code's three loops are functions over
  numbers: that these have the values their definitions say is `RecursionUpTo`, and what the values
  have in common `InductionUpTo`.
* **Answers.** Everything stored has a name that does not end in a separator (`FilesAreNamed`), which calls
  keep because destinations and the targets of archives end as paths and entries do (`DestinationIsPath`,
  `TargetIsPath`). Then a key under a path is the path, a separator and a rest that is not empty
  (`KeyIsBehind`), and what is before a separator in the rest leads on to the key (`NameLeadsOn`): the
  prefixes that the commands compare agree with the names that are listed (`EntriesAreRight`).
* **Extensions.** Unless a load and a switch overlapped, one thing is under way at a time (`Alone`), and a
  load, an unload or a switch is as far as its queue says (`LoadAsFar`, `LoopAsFar`, `ToggleAsFar`); all
  other extensions are as shown (`Settled`). A pass over hooks calls those that were there, in order,
  unless the array changed under it (`SteadyPass`).
* **Permissions.** What was decided is not asked again (`DialogInv`), so that the answers a request has are
  those recorded (`DecidedInv`); what is sent is within the path that was allowed segment by segment
  (`SentWithin`), so that a sibling that begins alike is out.

### Only model-checked

* Liveness (`CallsReturn`, `DownloadsEnd`, `EventuallySaved`, `KilledIsClosed`, `LaunchesResolve`, `SignInsEnd` and the
  others): fairness and `ENABLED` are beyond the prover.
* What is computed by folding over data: the merge of patches and the command (`CommandIsMerged`, over
  `PatchMetadata`), texts and arguments (`StoredAsTyped`, over `SettingsRows`). These make up
  `ValuesAsMeant`. What they claim is about the result of a recursion for every input, with
  texts that are split and joined again; TLC takes the inputs of section 3, chosen for the cases
  in which these go apart.
* That the properties of the violation runs fail: TLC's counterexamples.

## 5. Hazards beside those of `PROJECT.json`

`PROJECT.json` lists the hazards that bear most on the system. These are real, too; where a
property covers one, it is named.

* `src/lib/network/concurrently-download.ts:84`: Several batches add their cumulative counts to one statuses object (`TotalsSettle`).
* `src/lib/network/concurrently-download.ts:135`: A cancelled batch takes its unsettled entries out of the total: off by the failed ones, or below what is shown (`TotalsSettle`).
* `src/components/general/misc/ContextProviders.vue:170`: The exit event may arrive before the response to spawn_process or during the after-hooks; the page then shows the dead process as launched, with a child that cannot be killed.
* `src/lib/processes/core.ts:48`: A process that exits between list_processes and the attachment of its handlers: its exit event is ignored, and it is shown as launched.
* `src/components/general/misc/ContextProviders.vue:243`: Rehydration writes launches[id] when the list answers, over a launch the user has started meanwhile.
* `src/lib/launcher/scopes/spawn-minecraft.ts:69`: A reload while spawn_process is under way: the process starts, is listed only if it registered in time, and is otherwise an orphan.
* `src-tauri/src/processes.rs:158`: A failed wait is reported as process-error only: the entry stays in the registry and the instance stays launched.
* `src-tauri/src/processes.rs:167`: The registry is keyed by pid, and the reader removes by pid: a reused pid after a kill removes another process's entry.
* `src/lib/configs/sync.ts:86`: A failed write is logged and not retried before the next change (`EventuallySaved`).
* `src/lib/watchers/watch-config-sync.ts:30`: A change within the 300 ms before the end is lost: the debounced sync is not flushed on exit.
* `src/lib/instances/read-instances.ts:46`: Instances that do not validate are left out of the state and erased from the file by the next sync.
* `src/lib/file-manager/handle-json-file.ts:87`: A stale cached file is refetched before it is read: offline, a cache that is valid otherwise is not used (`LaunchesResolve`).
* `src/lib/globals/declare-action-registry.ts:64`: A row's refresh returns after its account was removed or signed in anew (`AccountsAreKept`).
* `src/lib/globals/declare-action-registry.ts:103`: The selected index is not adjusted when an account before it is removed or one is added: another account is selected.
* `src/lib/auth/scopes/resolve-launch-account.ts:52`: Two instances launched together refresh the same token; the second refresh token may be refused.
* `src/lib/initialization/recreate-web-view.ts:31`: `pending` is never reset: after one error the web view cannot be recreated.
* `src/lib/processes/spawn-server.ts:49`: A server that exits before the response is added to the list after its exit handler has filtered it (`PageIsSettled`).
* `src/lib/instances/create.ts:87`: The id of an instance has three random digits and the hash of its name: two instances of one name may get one id, and the second replaces the first.
* `src/components/home/instance/Launch.vue:195`: Play time is credited from the last tick of the interval, which ran before the launch, too.
* `src/components/general/misc/ContextProviders.vue:77`: A log sink of an old launch must not write into the list of a new one.
* `src/lib/launcher/scopes/optifine/extract-launchwrapper.ts:76`: A launchwrapper that was half written is taken for whole by every later launch.
* `src/lib/launcher/scopes/patches/resolve-sub-patches.ts:50`: A required patch that cannot be resolved is left out, and the launch goes on without it.
* `src/lib/launcher/scopes/patches/resolve-patch.ts:104`: Any object the server answers is cached for a week, and is only then found not to be a patch: every launch of that week fails.
* `src/lib/__browser/scopes/placeholder-invoke.ts:210`: What exists, what has information and what is listed are computed in three ways over one store of paths; names that are a prefix of others must not be confused (`ViewsAgree`).
* `src/lib/__browser/scopes/handle-downloads.ts:162`: A file whose transfer ends after the cancellation is written and counted all the same (`ReplicaKeepsPromise`).
* `src/lib/__browser/scopes/handle-events.ts:87`: Handlers kill, listen and stop listening while the others of the same event wait for their turn (`MessagesArrive`).
* `src/lib/__browser/scopes/handle-http-requests.ts:94`: A request whose fetch fails stays registered.
* `src/lib/__wails/scopes/wails-invoke.ts:121`: The stream of snapshots is closed with the answer: what is still on its way is dropped, the last snapshot included (`TotalsSettle`, `NoGhostDownloads`).
* `src/lib/__wails/scopes/load-wails-runtime.ts:91`: One failed import of the runtime is kept as the answer for ever (`MessagesArrive`).
* `src/lib/__wails/scopes/route-http.ts:67`: A request is cancelled while its body is read: the answer must not be taken for the body of another (`MessagesArrive`).
* `src/composables/use-log-stream.ts:81`: Closing and opening the viewer sends stop and stream, which may be handled in the other order: the stop ends the new stream (`MessagesArrive`).
* `src-tauri/src/logging.rs:111`: The log is cut and grows beyond the offset between two ticks: the cut is not seen (`MessagesArrive`).
* `src/composables/use-log-search.ts:52`: The literal search finds matches that overlap, and the renderer cuts tokens at them: text could come twice (`ViewsAgree`).
* `src/composables/use-log-search.ts:103`: Every new line sends the search back to its first match.
* `src/lib/auth/scopes/authorize-interactively.ts:133`: A reload of the page in the middle of a sign-in leaves the local server running (`SignInIsOwn`).
* `src/lib/hooks/catch-sync-response-hooks.ts:41`: An error of a synchronous hook is thrown into the launcher's own code (`ExtensionsSettle`).
* `src/lib/extension-api/index.ts:73`: A callback that subscribes twice overwrites its handle of the first watcher, which can never be stopped.
* `src/components/general/extensions/ExtensionLoader.vue:24`: Trusted hashes are fetched and not awaited: a trusted extension that is looked at before the answer does not run (`ExtensionsSettle`).
* `src/lib/extensions/run-in-unrestricted.ts:53`: Code that throws after it subscribed leaves its hooks in the array.
* `src/lib/extensions/sandbox/run-in-sandbox.ts:52`: A static permission that cannot be granted aborts the load of all extensions, and the window, which the loader was to show, stays hidden (`WindowIsShown`).
* `src/lib/permissions/request-permissions.ts:68`: A permission that is allowed and has no handler fails the request and leaves its dialog open (`ExtensionsSettle`).
* `src/lib/permissions/atomic/internet.ts:54`: The scope of a permission is a path: a sibling that begins alike must not be taken for a folder below it (`ExtensionsSettle`).
* `src/lib/modrinth/apply-manifest.ts:66`: Imports of modpacks end in any order and replace the draft, while the user creates from it (`InstancesAsChosen`).
* `src/components/add-instance/modrinth/ModpackVersionSelector.vue:165`: Closing the selector does not stop its download: the draft is replaced later (`InstancesAsChosen`).
* `src/components/add-instance/sections/ChangeMemoryAllocation.vue:55`: The unit of a memory argument is cut off: -Xmx4G reads as 4, and is written back as -Xmx4m when the other field changes.
* `src/components/add-instance/modrinth/VersionScroller.vue:145`: A click on a row before the versions are there toggles `undefined`.
* `src/components/general/base/CustomInput.vue:86`: A field that loses the focus within the 300 ms of its timer shows what is stored, and stores that (`ValuesAsMeant`).
* `src/components/add-instance/sections/ChangeCustomOptions.vue:86`: Storing one field of the draft renders the other again, over what is being typed there (`ValuesAsMeant`).
* `src/constants/row-collections.ts:958`: A field of a number that is emptied stores 0 (`ValuesAsMeant`).
* `src/components/general/layout/Tabs.vue:56`: A tab whose component loads slowly opens after another was clicked (`PageIsSettled`).
* `src/lib/launcher/fetching/detect-java-installations.ts:27`: A failed detection leaves the status at "failed", and is not tried again before a reload.
* `src/lib/watchers/watch-states.ts:64`: The developer tools are switched off while their load is awaited: they appear and cannot be unloaded (`PageIsSettled`).
* `src/lib/file-manager/handle-json-file.ts:107`: A translation file that cannot be parsed is overwritten with English (`PageIsSettled`).
* `src/lib/launcher/fetching/fetch-java-major.ts:68`: "1.8.0" gives 1 here and 8 in the backend.
* `src/states/servers.ts:54`: The list of servers is replaced by the answer of list_processes: what started meanwhile is dropped (`PageIsSettled`).
* `src/lib/processes/spawn-server.ts:44`: Servers are removed from the list by name: the end of one removes its namesakes (`PageIsSettled`).
* `src/lib/txiki/get-free-port.ts:20`: Ports are counted from 42069 again after a reload, while servers of the earlier page hold them.
* `src/lib/txiki/socket.ts:75`: A message before the socket is open throws, and a closed socket is not opened again.
* `src/components/add-instance/sections/ChangeMemoryAllocation.vue:83`: One bound of the memory is written together with what the other is read as: the unit is cut off and becomes megabytes (2g is 2m after an edit of the other bound), and a bound of 0 is dropped (`ValuesAsMeant`).

Several properties hold only outside such a case, which a history variable marks and the comment
of the property names: two fields rendered over each other, servers of one name, a switch that
meets a load, requests for permissions that cross. There the models contain the failure, and the
exclusion is the statement about the code.

## 6. Not modelled

* The `process-error` event, output batching, stdin, `run_process`.
* The manifest of a modpack beyond the versions it declares, the extraction of its overrides (an outcome of
  `ModpackThrows`), the pages that describe one, and the list of game versions beside the search.
* Fields of instances beyond versions and modloaders, play time, the log lists of launches, fonts,
  backgrounds, themes, dialogs other than those named above.
* The contents of OAuth answers, hashes, archives, JSON schemas: each is an outcome.
* Watchers of state and translations that extensions add; permissions other than the internet's
  beyond their being granted; third-party code beyond what it may do to the launcher's state.
* Which service of the Wails backend answers which command, and the services, which keep no state
  apart from the OAuth listener (external in `SignIn`) and the requests of `HTTPService` (`WailsBridge`).
* Arguments in quotes: `splitArguments` never leaves quotes, so that a field which shows
  `"b c" a` reads `b c`. `SettingsRows` has the code's behaviour, and `StoredAsTyped` leaves out
  texts that are not read back as shown.

## 7. Plan

1. (done) downloads, progress, artifacts, launches and processes, state files, accounts; the
   inductive invariant of the download backend.
2. (done) the launch pipeline, sign-in, creation of instances, settings, search, start, servers, logs, hooks,
   extensions, permissions, the browser replica and the Wails bridge.
3. (done) proofs: reports, the promise and the display of downloads; artifacts, launches, state files,
   accounts, and every safety property of the parts of the page and of those around it, except what
   folds over data (section 4).
4. Prove: that the merge keeps one library per artifact; that what is typed is what is stored (`StoredAsTyped`).
5. Extend: an exit before the response to the spawn, as a property of its own in
   `InstanceLifecycle`; the Go classification of errors in `Downloads` as a constant; the socket to a
   server.
