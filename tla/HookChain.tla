----------------------------- MODULE HookChain ------------------------------
(***************************************************************************)
(* The hooks of one scope and timing (GlobalObject.hooks[scope][timing]),  *)
(* an array that extensions change at any time with subscribe and          *)
(* unsubscribe, and the two ways the launcher goes through it: for a       *)
(* response, which the first hook that answers "stop" provides, or for     *)
(* nothing.  Hooks are awaited one after the other while the array may     *)
(* change under the iterator.  A hook is named after its extension.        *)
(***************************************************************************)
EXTENDS Undefined, Naturals, SequencesExt

CONSTANTS Extensions,     \* the extensions that may be installed
          MaxDispatches   \* bound: passes through the hooks

ASSUME HooksAssumption == MaxDispatches \in Nat

Ways == {"async-response", "async-void", "sync-response"}

VARIABLES hooks,      \* the array of hooks
          dispatch,   \* the pass under way: way, entries consumed, hooks that ran, and what the callers sees
          dispatches, \* how many passes have begun
          steady      \* the hooks at the start of the pass if the array has not changed since, else None

dispatchVars == <<dispatch, dispatches>>
hookVars == <<hooks, dispatchVars, steady>>

Response(kind, by) == [kind |-> kind, by |-> by]
NoDispatch == [at |-> "idle", way |-> None, index |-> 0, ran |-> <<>>, response |-> Response(None, None)]

HooksInit ==
  /\ hooks = <<>> /\ dispatch = NoDispatch /\ dispatches = 0 /\ steady = None

(* subscribe: to the end of the array, or to its start when asked for.     *)
Subscribed(list, e, position) == IF position = "start" THEN <<e>> \o list ELSE Append(list, e)

(* unsubscribe: the first occurrence.                                      *)
Unsubscribed(list, e) == IF e \in ToSet(list) THEN RemoveFirst(list, e) ELSE list

(* The array changes under the iterator of a pass.                         *)
Changes(list) ==
  /\ hooks' = list
  /\ steady' = IF list = hooks THEN steady ELSE None

-----------------------------------------------------------------------------
(* A scope without the timing, or without hooks, is "continue" at once; it *)
(* is the pass with an empty array.                                        *)
catchHooks(way) ==
  /\ dispatch.at \in {"idle", "done"} /\ dispatches < MaxDispatches
  /\ dispatches' = dispatches + 1
  /\ dispatch' = [NoDispatch EXCEPT !.at = "next", !.way = way]
  /\ steady' = [list |-> hooks]
  /\ UNCHANGED hooks

(* The iterator looks at the array as it is now.                           *)
EndOfHooks ==
  /\ dispatch.at = "next" /\ dispatch.index >= Len(hooks)
  /\ dispatch' = [dispatch EXCEPT !.at = "done", !.response = Response("continue", None)]
  /\ UNCHANGED <<hooks, dispatches, steady>>

CallHook ==
  /\ dispatch.at = "next" /\ dispatch.index < Len(hooks)
  /\ dispatch' = [dispatch EXCEPT !.at = "awaited", !.index = @ + 1, !.ran = Append(@, hooks[dispatch.index + 1])]
  /\ UNCHANGED <<hooks, dispatches, steady>>

Ends(response) == dispatch' = [dispatch EXCEPT !.at = "done", !.response = response]

(* An error ends the pass only where hooks are called without a catch.     *)
UncaughtAlways(way) == TRUE

Uncaught(way) == way = "sync-response"

(* handleHookResponse: anything but "stop" goes on to the next hook.       *)
HookReturns(answer) ==
  /\ dispatch.at = "awaited"
  /\ CASE answer = "stop" /\ dispatch.way # "async-void" -> Ends(Response("response", Last(dispatch.ran)))
       [] answer = "throw" /\ Uncaught(dispatch.way) -> Ends(Response("thrown", None))
       [] OTHER -> dispatch' = [dispatch EXCEPT !.at = "next"]
  /\ UNCHANGED <<hooks, dispatches, steady>>

(* Passes that do not await their hooks are not interrupted.               *)
MayInterrupt == dispatch.way # "sync-response" \/ dispatch.at \in {"idle", "done"}

DispatchNext ==
  \/ \E way \in Ways : catchHooks(way)
  \/ EndOfHooks \/ CallHook
  \/ \E answer \in {"continue", "stop", "throw"} : HookReturns(answer)

HooksTypeOK ==
  /\ ToSet(hooks) \subseteq Extensions
  /\ dispatch.at \in {"idle", "next", "awaited", "done"} /\ dispatch.way \in Ways \cup {None}
  /\ ToSet(dispatch.ran) \subseteq Extensions /\ dispatches \in 0..MaxDispatches

(* As long as the array stays as it is, a pass calls the hooks once each,  *)
(* in their order, and only an answer of "stop", or an error where hooks   *)
(* are called synchronously, keeps it from the last one.  (When it         *)
(* changes, hooks are skipped or called twice.)                            *)
HooksInOrder ==
  steady # None =>
    /\ IsPrefix(dispatch.ran, steady.list)
    /\ dispatch.at = "done" /\ dispatch.ran # steady.list =>
         \/ dispatch.response = Response("response", Last(dispatch.ran))
         \/ dispatch.response.kind = "thrown" /\ dispatch.way = "sync-response"
=============================================================================
