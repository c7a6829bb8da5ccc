--------------------------- MODULE ExtensionServers ---------------------------
(***************************************************************************)
(* Servers of extensions.  The page writes the code of a server to a file  *)
(* of the code's hash, has it run by spawn_process, and lists the process; *)
(* an event tells of its end.  After a reload the page asks for the        *)
(* processes that run and lists them again.                                *)
(***************************************************************************)
EXTENDS Undefined, Selection, SequencesExt

CONSTANTS
  Calls,        \* calls of listen, each with the token of its process
  Names,        \* of servers: `txiki-port', or as a caller has it, each with one code
  MaxReloads    \* bound: reloads of the page

ASSUME ServersAssumption ==
  MaxReloads \in Nat /\ IsFiniteSet(Calls) /\ None \notin Calls \cup {"begun", "whole"}

VARIABLES
  name,        \* [Calls -> the name of the server, or None]
  call,        \* where a call is: "none", "missing", "writing", "spawning", "spawned", "refused",
               \* "over"; "abandoned": its page is gone while the file is written
  files,       \* tjs-<name>-<hash>.tjs: "missing", "begun" or "whole"
  spawning,    \* the calls whose process the backend is about to start
  processes,   \* the processes that run, with what is in their files
  registry,    \* ProcessRegistry: those that list_processes tells of
  exits,       \* process-exited events on their way to the page
  ProcessHandlers,
  serverProcesses,
  hydration,   \* "listening", "listing", "listed" or "done"
  answer,      \* list_processes, on its way to the page
  reloads,
  cut, overtaken \* history: names whose file was served half-written or whose write failed; an event,
               \* an answer or a list met another which it should not have met

serverVars == <<name, call, files, spawning, processes, registry, exits, ProcessHandlers,
                serverProcesses, hydration, answer, reloads, cut, overtaken>>

ServersInit ==
  /\ name = [c \in Calls |-> None] /\ call = [c \in Calls |-> "none"]
  /\ files = [n \in Names |-> "missing"]
  /\ spawning = {} /\ processes = [c \in Calls |-> None] /\ registry = {} /\ exits = {}
  /\ ProcessHandlers = {} /\ serverProcesses = <<>>
  /\ hydration = "listening" /\ answer = {} /\ reloads = 0
  /\ cut = {} /\ overtaken = FALSE

Running == {c \in Calls : processes[c] # None}
Listed == ToSet(serverProcesses)
Writing == {name[c] : c \in {s \in Calls : call[s] \in {"writing", "abandoned"}}}

pageVars == <<ProcessHandlers, serverProcesses, hydration, answer, reloads>>
processVars == <<spawning, processes, registry, exits>>

-----------------------------------------------------------------------------
(* listen and serveCode: a file that exists is taken for the whole code.   *)

(* spawnProcess: the handlers are there before the command is called.      *)
Spawn(c) ==
  /\ call' = [call EXCEPT ![c] = "spawning"]
  /\ ProcessHandlers' = ProcessHandlers \cup {c}
  /\ spawning' = spawning \cup {c}

serveCode(c, n) ==
  /\ call[c] = "none"
  /\ name' = [name EXCEPT ![c] = n]
  /\ IF files[n] # "missing"
     THEN Spawn(c)
     ELSE call' = [call EXCEPT ![c] = "missing"] /\ UNCHANGED <<ProcessHandlers, spawning>>
  /\ UNCHANGED <<files, processes, registry, exits, serverProcesses, hydration, answer, reloads, cut, overtaken>>

(* writeTextFile, whatever another call has made of the file since.        *)
writeTextFile(c) ==
  /\ call[c] = "missing"
  /\ call' = [call EXCEPT ![c] = "writing"]
  /\ files' = [files EXCEPT ![name[c]] = "begun"]
  /\ UNCHANGED <<name, processVars, pageVars, cut, overtaken>>

(* It ends: undefined is answered if it fails.  The backend ends a write   *)
(* whose page is gone.                                                     *)
WriteEnds(c, fails) ==
  /\ call[c] \in {"writing", "abandoned"}
  /\ files' = IF fails THEN files ELSE [files EXCEPT ![name[c]] = "whole"]
  /\ cut' = IF fails THEN cut \cup {name[c]} ELSE cut
  /\ IF fails \/ call[c] = "abandoned"
     THEN call' = [call EXCEPT ![c] = "over"] /\ UNCHANGED <<ProcessHandlers, spawning>>
     ELSE Spawn(c)
  /\ UNCHANGED <<name, processes, registry, exits, serverProcesses, hydration, answer, reloads, overtaken>>

-----------------------------------------------------------------------------
(* The backend: spawn_process, kill_process, and the reader of a process.  *)

spawn_process(c, fails) ==
  /\ c \in spawning /\ spawning' = spawning \ {c}
  /\ IF fails
     THEN /\ call' = IF call[c] = "spawning" THEN [call EXCEPT ![c] = "refused"] ELSE call
          /\ UNCHANGED <<processes, registry, cut>>
     ELSE /\ call' = IF call[c] = "spawning" THEN [call EXCEPT ![c] = "spawned"] ELSE call
          /\ processes' = [processes EXCEPT ![c] = files[name[c]]]
          /\ registry' = registry \cup {c}
          /\ cut' = IF name[c] \in Writing THEN cut \cup {name[c]} ELSE cut
  /\ overtaken' = (overtaken \/ (hydration # "listening" /\ call[c] = "over"))
  /\ UNCHANGED <<name, files, exits, pageVars>>

(* The event reaches the page that listens, if there is one.               *)
Terminated(c) ==
  /\ c \in Running
  /\ processes' = [processes EXCEPT ![c] = None]
  /\ registry' = registry \ {c}
  /\ exits' = IF hydration = "listening" THEN exits ELSE exits \cup {c}
  /\ overtaken' = (overtaken \/ (hydration = "listening" /\ c \in ProcessHandlers))
  /\ UNCHANGED <<name, call, files, spawning, pageVars, cut>>

(* The button of the playground.                                           *)
kill_process(c) ==
  /\ c \in Listed \cap registry
  /\ registry' = registry \ {c}
  /\ UNCHANGED <<name, call, files, spawning, processes, exits, pageVars, cut, overtaken>>

-----------------------------------------------------------------------------
(* The answer of spawn_process, in serveFile and spawnServer.              *)

(* The server is listed, whether it still runs or not.                     *)
spawnServer(c) ==
  /\ call[c] = "spawned"
  /\ call' = [call EXCEPT ![c] = "over"]
  /\ serverProcesses' = Append(serverProcesses, c)
  /\ overtaken' = (overtaken \/ hydration # "done")
  /\ UNCHANGED <<name, files, processVars, ProcessHandlers, hydration, answer, reloads, cut>>

(* The error passes through serveFile, whose promise is not awaited there. *)
spawnServerFails(c) ==
  /\ call[c] = "refused"
  /\ call' = [call EXCEPT ![c] = "over"]
  /\ ProcessHandlers' = ProcessHandlers \ {c}
  /\ UNCHANGED <<name, files, processVars, serverProcesses, hydration, answer, reloads, cut, overtaken>>

-----------------------------------------------------------------------------
(* onExit: what is listed by the name of the server goes.                  *)
OnExit(c) == Selected(serverProcesses, {s \in Calls : name[s] # name[c]})

Namesakes(c) == {s \in Listed \ {c} : name[s] = name[c]}

(* The event: without handlers it is lost.                                 *)
ProcessExited(c) ==
  /\ c \in exits /\ exits' = exits \ {c}
  /\ ProcessHandlers' = ProcessHandlers \ {c}
  /\ serverProcesses' = IF c \in ProcessHandlers THEN OnExit(c) ELSE serverProcesses
  /\ overtaken' = (overtaken \/ Namesakes(c) # {} \/ call[c] = "spawned" \/ hydration \in {"listing", "listed"})
  /\ UNCHANGED <<name, call, files, spawning, processes, registry, hydration, answer, reloads, cut>>

-----------------------------------------------------------------------------
(* declareServerProcesses, when the listeners are attached.                *)
watchProcesses ==
  /\ hydration = "listening" /\ hydration' = "listing"
  /\ UNCHANGED <<name, call, files, processVars, ProcessHandlers, serverProcesses, answer, reloads, cut, overtaken>>

list_processes ==
  /\ hydration = "listing" /\ hydration' = "listed"
  /\ answer' = registry
  /\ overtaken' = (overtaken \/ \E c \in Calls : c \in spawning \/ call[c] = "spawned" \/ c \in Running \ registry)
  /\ UNCHANGED <<name, call, files, processVars, ProcessHandlers, serverProcesses, reloads, cut>>

\* Mutant of Attached: the handlers of the answer are put in the place of the others.
AttachedAlone == answer

(* rehydrateProcesses attaches handlers to what the answer has.            *)
Attached == ProcessHandlers \cup answer

(* The list is put in the place of what had been listed before.            *)
declareServerProcesses ==
  /\ hydration = "listed" /\ hydration' = "done"
  /\ ProcessHandlers' = Attached
  /\ serverProcesses' = SetToSeq(answer)
  /\ answer' = {}
  /\ overtaken' = (overtaken \/ \E c \in Calls : call[c] = "spawned")
  /\ UNCHANGED <<name, call, files, processVars, reloads, cut>>

(* The page is gone with all it had; what the backend does goes on.        *)
Reload ==
  /\ reloads < MaxReloads /\ reloads' = reloads + 1
  /\ hydration # "listening"
  /\ hydration' = "listening" /\ answer' = {}
  /\ call' = [c \in Calls |-> IF call[c] \in {"writing", "abandoned"} THEN "abandoned" ELSE IF call[c] = "none" THEN "none" ELSE "over"]
  /\ ProcessHandlers' = {} /\ serverProcesses' = <<>> /\ exits' = {}
  /\ overtaken' = FALSE
  /\ UNCHANGED <<name, files, spawning, processes, registry, cut>>

ServersNext ==
  \/ \E c \in Calls :
       \/ writeTextFile(c) \/ Terminated(c) \/ kill_process(c) \/ spawnServer(c) \/ spawnServerFails(c) \/ ProcessExited(c)
       \/ \E n \in Names : serveCode(c, n)
       \/ \E fails \in BOOLEAN : WriteEnds(c, fails) \/ spawn_process(c, fails)
  \/ watchProcesses \/ list_processes \/ declareServerProcesses \/ Reload

-----------------------------------------------------------------------------
ServersTypeOK ==
  /\ \A c \in Calls : call[c] \in {"none", "missing", "writing", "abandoned", "spawning", "spawned", "refused", "over"}
  /\ \A c \in Calls : processes[c] \in {None, "begun", "whole"}
  /\ \A n \in Names : files[n] \in {"missing", "begun", "whole"}
  /\ cut \subseteq Names /\ registry \subseteq Running /\ exits \cap Running = {}
  /\ hydration \in {"listening", "listing", "listed", "done"} /\ answer \subseteq Calls

NothingUnderWay ==
  /\ \A c \in Calls : call[c] \in {"none", "over"}
  /\ spawning = {} /\ exits = {} /\ hydration = "done" /\ Running = registry

(* When everything has been answered, the servers that are listed are      *)
(* those that run, once each, and only those have handlers: over starts    *)
(* that fail, kills and reloads; as long as the end of a server did not    *)
(* overtake the answer that it runs, no two had one name, and nothing      *)
(* started or ended while the list was fetched (states/servers.ts).        *)
ServersAsRunning ==
  NothingUnderWay /\ ~overtaken =>
    /\ Listed = Running /\ IsInjective(serverProcesses)
    /\ ProcessHandlers = Running

(* A server runs the whole of its code, unless a write of it has failed,   *)
(* or it was started while another call wrote the file (serve-code.ts).    *)
ServedWhole == \A c \in Running : processes[c] = "whole" \/ name[c] \in cut
=============================================================================
