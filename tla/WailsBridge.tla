---------------------------- MODULE WailsBridge -----------------------------
(***************************************************************************)
(* The Tauri API on top of the Wails runtime: the runtime is imported once *)
(* and the outcome kept, also a failure; calls go to Go services and       *)
(* reject with a string; a listener subscribes the page to the backend's   *)
(* event, once per event and for ever; an HTTP request is registered,      *)
(* sent, and its body read in frames, of which the Go service knows one.   *)
(* (The channel of a call, closed with its answer, is in DownloadProgress.)*)
(***************************************************************************)
EXTENDS Undefined, Naturals, Sequences

CONSTANTS BackendEvents,   \* names of events
          Listeners,       \* the calls of listen
          MaxEmissions,    \* bound: events the backend emits
          HttpRequests         \* HTTP requests

ASSUME WailsAssumption == MaxEmissions \in Nat

VARIABLES runtime,        \* runtimeRequest: not requested, awaited, or its outcome
          listen,         \* each call of listen: its event, where it is, and when it was subscribed
          wailsListeners, \* the calls whose listener is in the map
          subscriptions,  \* how many handlers of the page the runtime has for each event
          isSubscribed,   \* the events in the page's map of subscriptions
          emitted,        \* the backend's events so far
          heard,          \* heard[l][n]: how often listener l was called for the n-th
          http,           \* each request: where it is, the frames its reader got
          registry,       \* htpRequests of the Go service
          drainedBodies   \* the requests whose body has been read

eventBridgeVars == <<listen, wailsListeners, subscriptions, isSubscribed, emitted, heard>>
httpVars == <<http, registry, drainedBodies>>
wailsVars == <<runtime, eventBridgeVars, httpVars>>

NoListen == [event |-> None, at |-> "idle", since |-> 0]
NoHttp == [at |-> "idle", frames |-> <<>>]

WailsInit ==
  /\ runtime = "unknown"
  /\ listen = [l \in Listeners |-> NoListen] /\ wailsListeners = {}
  /\ subscriptions = [e \in BackendEvents |-> 0] /\ isSubscribed = {}
  /\ emitted = <<>> /\ heard = [l \in Listeners |-> [n \in 1..MaxEmissions |-> 0]]
  /\ http = [r \in HttpRequests |-> NoHttp] /\ registry = {} /\ drainedBodies = {}

(* loadWailsRuntime: the first caller starts the import.                   *)
Requested == runtime' = IF runtime = "unknown" THEN "loading" ELSE runtime

RuntimeLoads ==
  /\ runtime = "loading"
  /\ runtime' \in {"present", "absent"}
  /\ UNCHANGED <<eventBridgeVars, httpVars>>

-----------------------------------------------------------------------------
(* Events.                                                                 *)

(* addWailsEventListener: the listener is in the map before the page       *)
(* awaits the runtime, unless the event has its subscription.              *)
addWailsEventListener(l, event) ==
  /\ listen[l].at = "idle"
  /\ wailsListeners' = wailsListeners \cup {l}
  /\ listen' = [listen EXCEPT ![l] = [event |-> event, since |-> Len(emitted),
                                      at |-> IF event \in isSubscribed THEN "listening" ELSE "awaiting"]]
  /\ IF event \in isSubscribed THEN UNCHANGED runtime ELSE Requested
  /\ UNCHANGED <<subscriptions, isSubscribed, emitted, heard, httpVars>>

\* Mutant of StillUnsubscribed: no second look after the await.
SubscribesAlways(event) == TRUE

(* The second look, after the await: another call may have subscribed.     *)
StillUnsubscribed(event) == event \notin isSubscribed

subscribeToBackend(l) ==
  /\ listen[l].at = "awaiting" /\ runtime \in {"present", "absent"}
  /\ LET event == listen[l].event IN
     IF runtime = "present" /\ StillUnsubscribed(event)
     THEN /\ isSubscribed' = isSubscribed \cup {event}
          /\ subscriptions' = [subscriptions EXCEPT ![event] = @ + 1]
     ELSE UNCHANGED <<isSubscribed, subscriptions>>
  /\ listen' = [listen EXCEPT ![l].at = "listening", ![l].since = Len(emitted)]
  /\ UNCHANGED <<runtime, wailsListeners, emitted, heard, httpVars>>

removeWailsEventListener(l) ==
  /\ listen[l].at = "listening"
  /\ listen' = [listen EXCEPT ![l].at = "removed"]
  /\ wailsListeners' = wailsListeners \ {l}
  /\ UNCHANGED <<runtime, subscriptions, isSubscribed, emitted, heard, httpVars>>

(* The runtime calls every handler it has for the event, each of which     *)
(* goes through the listeners (emitWailsEvent).                            *)
BackendEmits(event) ==
  /\ Len(emitted) < MaxEmissions
  /\ emitted' = Append(emitted, event)
  /\ heard' = [l \in Listeners |->
                 IF l \in wailsListeners /\ listen[l].event = event
                 THEN [heard[l] EXCEPT ![Len(emitted) + 1] = @ + subscriptions[event]]
                 ELSE heard[l]]
  /\ UNCHANGED <<runtime, listen, wailsListeners, subscriptions, isSubscribed, httpVars>>

-----------------------------------------------------------------------------
(* HTTP requests.                                                          *)

HttpGoes(r, at) == http' = [http EXCEPT ![r].at = at]

(* callService, for one of the steps of a request.                         *)
Call(r, from, to) ==
  /\ http[r].at = from
  /\ HttpGoes(r, to) /\ Requested
  /\ UNCHANGED <<eventBridgeVars, registry, drainedBodies>>

(* Without a runtime every call rejects; the service rejects, too, and     *)
(* forgets the request when it could not be sent or its body not be read.  *)
CallRejects(r) ==
  /\ http[r].at \in {"registering", "sending", "reading"} /\ runtime \in {"present", "absent"}
  /\ HttpGoes(r, "failed")
  /\ registry' = IF runtime = "present" THEN registry \ {r} ELSE registry
  /\ UNCHANGED <<runtime, eventBridgeVars, drainedBodies>>

RequestRegistered(r) ==
  /\ http[r].at = "registering" /\ runtime = "present"
  /\ HttpGoes(r, "registered") /\ registry' = registry \cup {r}
  /\ UNCHANGED <<runtime, eventBridgeVars, drainedBodies>>

Sent(r) ==
  /\ http[r].at = "sending" /\ runtime = "present" /\ r \in registry
  /\ HttpGoes(r, "sent")
  /\ UNCHANGED <<runtime, eventBridgeVars, registry, drainedBodies>>

(* FetchReadBody: the service reads the whole body and forgets the request.*)
FetchReadBody(r) ==
  /\ http[r].at = "reading" /\ runtime = "present" /\ r \in registry
  /\ HttpGoes(r, "answered") /\ registry' = registry \ {r}
  /\ UNCHANGED <<runtime, eventBridgeVars, drainedBodies>>

(* readRequestBody: the whole body is one frame, empty or not.             *)
BodyRead(r) ==
  /\ http[r].at = "answered"
  /\ http' = [http EXCEPT ![r] = [at |-> "sent", frames |-> Append(@.frames, "body")]]
  /\ drainedBodies' = drainedBodies \cup {r}
  /\ UNCHANGED <<runtime, eventBridgeVars, registry>>

(* The read after it is the end, without a call.                           *)
endOfBody(r) ==
  /\ http[r].at = "sent" /\ r \in drainedBodies
  /\ http' = [http EXCEPT ![r] = [at |-> "ended", frames |-> Append(@.frames, "end")]]
  /\ drainedBodies' = drainedBodies \ {r}
  /\ UNCHANGED <<runtime, eventBridgeVars, registry>>

ReadBody(r) == r \notin drainedBodies /\ Call(r, "sent", "reading")

(* cancelRequest, whatever is under way: the entry is dropped, and the     *)
(* read or the send that waits fails in the service.                       *)
cancelRequest(r) ==
  /\ http[r].at \in {"registered", "sending", "sent", "reading", "answered"}
  /\ drainedBodies' = drainedBodies \ {r} /\ registry' = registry \ {r}
  /\ IF http[r].at \in {"sending", "reading", "answered"} THEN UNCHANGED http ELSE HttpGoes(r, "failed")
  /\ UNCHANGED <<runtime, eventBridgeVars>>

HttpStep(r) ==
  \/ Call(r, "idle", "registering") \/ Call(r, "registered", "sending") \/ ReadBody(r)
  \/ CallRejects(r) \/ RequestRegistered(r) \/ Sent(r) \/ FetchReadBody(r) \/ BodyRead(r) \/ endOfBody(r) \/ cancelRequest(r)

WailsNext ==
  \/ RuntimeLoads
  \/ \E l \in Listeners : subscribeToBackend(l) \/ removeWailsEventListener(l) \/ \E e \in BackendEvents : addWailsEventListener(l, e)
  \/ \E e \in BackendEvents : BackendEmits(e)
  \/ \E r \in HttpRequests : HttpStep(r)

-----------------------------------------------------------------------------
WailsTypeOK ==
  /\ runtime \in {"unknown", "loading", "present", "absent"}
  /\ wailsListeners \subseteq Listeners /\ isSubscribed \subseteq BackendEvents
  /\ \A l \in Listeners : listen[l].event \in BackendEvents \cup {None} /\ listen[l].since \in 0..MaxEmissions
  /\ registry \subseteq HttpRequests /\ drainedBodies \subseteq HttpRequests

(* With a runtime, what the backend emits after listen has returned and    *)
(* before unlisten reaches the listener once, however the calls of listen  *)
(* for one event overlap (handle-events.ts); a reader of a response gets   *)
(* its body in one frame and then the end (route-http.ts), and a request   *)
(* that ended or failed after it was registered and sent is not drained.   *)
WailsDelivers ==
  /\ \A l \in Listeners : listen[l].at = "listening" /\ runtime = "present" =>
       \A n \in listen[l].since + 1..Len(emitted) : emitted[n] = listen[l].event => heard[l][n] = 1
  /\ \A l \in Listeners, n \in 1..Len(emitted) : heard[l][n] <= 1
  /\ \A r \in HttpRequests : http[r].frames \in {<<>>, <<"body">>, <<"body", "end">>} /\ (r \in drainedBodies => http[r].at = "sent")
=============================================================================
