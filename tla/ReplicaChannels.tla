-------------------------- MODULE ReplicaChannels --------------------------
(***************************************************************************)
(* Events and processes of the preview in a browser.                       *)
(* Emitting is a loop over a live Map in the thread of the page: a handler *)
(* may add and remove listeners and kill processes, and so emit, before    *)
(* the loop goes on.  `emitting` is the stack of such loops; what the page *)
(* does while it is not empty, a handler does.                             *)
(***************************************************************************)
EXTENDS Undefined, Naturals, Sequences, FiniteSets, SequencesExt

CONSTANTS
  MaxListeners,   \* bound: listeners that are added
  MaxProcesses    \* bound: processes that are spawned

Events == {"process-output", "process-exited"}
Pids == 1..MaxProcesses

VARIABLES
  listeners,   \* [event id -> the event it is for], in the order of the ids
  nextId,      \* the next event id
  processes,   \* the pids that run
  nextPid,     \* the next pid
  timers,      \* pids whose output is to come
  emitting,    \* loops over the listeners, the innermost last
  due,         \* history: [pid -> listeners its exit is owed to]
  told         \* history: every call of a handler

eventVars == <<listeners, nextId, emitting, told>>
processVars == <<processes, nextPid, timers>>
channelVars == <<eventVars, processVars, due>>

ChannelsInit ==
  /\ listeners = <<>> /\ nextId = 1
  /\ processes = {} /\ nextPid = 1 /\ timers = {}
  /\ emitting = <<>> /\ told = <<>>
  /\ due = [p \in Pids |-> {}]

-----------------------------------------------------------------------------
(* Listeners.                                                              *)

addBrowserEventListener(event) ==
  /\ nextId <= MaxListeners
  /\ listeners' = [id \in DOMAIN listeners \cup {nextId} |-> IF id = nextId THEN event ELSE listeners[id]]
  /\ nextId' = nextId + 1
  /\ UNCHANGED <<emitting, told, processVars, due>>

removeBrowserEventListener(id) ==
  /\ id \in DOMAIN listeners
  /\ listeners' = [i \in DOMAIN listeners \ {id} |-> listeners[i]]
  /\ due' = [p \in Pids |-> due[p] \ {id}]
  /\ UNCHANGED <<nextId, emitting, told, processVars>>

Emission(event, pid) == [event |-> event, pid |-> pid, at |-> 0]

\* emitBrowserEvent, one turn of the loop: the next listener of the Map as it is now.
Emit ==
  /\ emitting # <<>>
  /\ LET loop == Last(emitting)
         left == {id \in DOMAIN listeners : id > loop.at /\ listeners[id] = loop.event}
         next == CHOOSE id \in left : \A i \in left : id <= i
     IN IF left = {} THEN emitting' = Front(emitting) /\ UNCHANGED told
        ELSE /\ emitting' = [emitting EXCEPT ![Len(emitting)].at = next]
             /\ told' = Append(told, [id |-> next, event |-> loop.event, pid |-> loop.pid])
  /\ UNCHANGED <<listeners, nextId, processVars, due>>

-----------------------------------------------------------------------------
(* Processes, which only pretend to run.                                   *)

spawnPlaceholderProcess ==
  /\ nextPid \in Pids
  /\ processes' = processes \cup {nextPid}
  /\ timers' = timers \cup {nextPid}
  /\ nextPid' = nextPid + 1
  /\ UNCHANGED <<eventVars, due>>

\* Not while a handler runs: a timer is a task of its own.
PretendOutput(p) ==
  /\ p \in timers /\ emitting = <<>>
  /\ timers' = timers \ {p}
  /\ emitting' = IF p \in processes THEN <<Emission("process-output", p)>> ELSE <<>>
  /\ UNCHANGED <<listeners, nextId, told, processes, nextPid, due>>

\* The process is gone before anybody is told.
Killed(p) == processes \ {p}

killPlaceholderProcess(p) ==
  /\ p \in processes
  /\ processes' = Killed(p)
  /\ emitting' = Append(emitting, Emission("process-exited", p))
  /\ due' = [due EXCEPT ![p] = {id \in DOMAIN listeners : listeners[id] = "process-exited"}]
  /\ Len(emitting) < 4  \* bound on nested loops, never reached while a process exits once
  /\ UNCHANGED <<listeners, nextId, told, nextPid, timers>>

ChannelsNext ==
  \/ \E e \in Events : addBrowserEventListener(e)
  \/ \E id \in 1..MaxListeners : removeBrowserEventListener(id)
  \/ Emit \/ spawnPlaceholderProcess
  \/ \E p \in Pids : PretendOutput(p) \/ killPlaceholderProcess(p)

-----------------------------------------------------------------------------
(* Properties.                                                             *)

ChannelsTypeOK ==
  /\ DOMAIN listeners \subseteq 1..(nextId - 1)
  /\ processes \cup timers \subseteq 1..(nextPid - 1)
  /\ \A i \in DOMAIN emitting : emitting[i].event \in Events

\* A process exits once, for every listener that was there when it was killed and that was not taken
\* away before its turn, also when handlers kill, listen and stop listening while others wait for
\* their turn.  What has not been told its output yet when it is killed has none.
ExitIsToldOnce ==
  /\ IsInjective(told)
  /\ \A p \in Pids : ~(\E i \in DOMAIN emitting : emitting[i].pid = p /\ emitting[i].event = "process-exited") =>
       \A id \in due[p] : [id |-> id, event |-> "process-exited", pid |-> p] \in ToSet(told)
  /\ \A p \in timers : \A i \in DOMAIN told : told[i].pid = p => told[i].event = "process-exited"
=============================================================================
