--------------------------- MODULE ExtensionHost ----------------------------
(***************************************************************************)
(* The loading of extensions: ExtensionLoader, mounted while the feature   *)
(* is enabled, executes the enabled ones, one after the other; unmounting  *)
(* it disables them; the settings page toggles each of them.  All three    *)
(* await the code of the extensions, so that they can overlap.  An         *)
(* extension subscribes one hook when it is executed, removes it in its    *)
(* "disable" handler and subscribes it again in "dirty-enable".            *)
(***************************************************************************)
EXTENDS HookChain, Selection

CONSTANTS Sandboxed,      \* the extensions that ask for the sandbox, the others are unrestricted
          TrustedFirst,   \* the unrestricted ones whose hash comes with the launcher
          TrustedLater,   \* and those whose hash is fetched
          Order,          \* the order in which extensions are read
          MaxMounts,      \* bound: mounts and unmounts of the loader
          MaxToggles      \* bound: toggles

(* Every extension is read once.                                           *)
ASSUME HostAssumption ==
  /\ Order \in Seq(Extensions) /\ IsInjective(Order) /\ ToSet(Order) = Extensions
  /\ MaxMounts \in Nat /\ MaxToggles \in Nat

VARIABLES feature,         \* globalStates.extensions.enabled
          allowUntrusted,  \* globalStates.extensions.allowUnrestrictedUntrusted
          trusted,         \* trustedExtensionHashes
          enabled,         \* globalStates.extensions.list: unlisted (None), or enabled or not
          executed,        \* extensionStates.executed
          loops,           \* the runs of onMounted and onUnmounted
          toggle,          \* what a click on an extension's row is doing
          toggles,         \* clicks so far
          overlapped       \* two of these ran at the same time, or one met a failure

hostVars == <<feature, allowUntrusted, trusted, enabled, executed, loops, toggle, toggles, overlapped>>
extensionVars == <<hostVars, hookVars>>

NoToggle == [at |-> "idle", was |-> FALSE]
Loop(at, queue) == [at |-> at, queue |-> queue]

HostInit ==
  /\ HooksInit
  /\ feature = FALSE /\ allowUntrusted = FALSE /\ trusted = TrustedFirst
  /\ enabled \in [Extensions -> {None, TRUE}]
  /\ executed = <<>> /\ loops = <<>>
  /\ toggle = [e \in Extensions |-> NoToggle] /\ toggles = 0 /\ overlapped = FALSE

Busy == (\E k \in DOMAIN loops : loops[k].at # "done") \/ \E e \in Extensions : toggle[e].at \notin {"idle", "asking"}
IsEnabled(e) == enabled[e] = TRUE
ToldOverlap(isTrouble) == overlapped' = (overlapped \/ isTrouble)
Step(k, loop) == loops' = [loops EXCEPT ![k] = loop]

-----------------------------------------------------------------------------
(* ExtensionLoader.                                                        *)

(* updateTrustedHashes is not awaited; the first answer is kept.           *)
updateTrustedHashes ==
  /\ loops # <<>> /\ trusted = TrustedFirst
  /\ trusted' = TrustedLater
  /\ UNCHANGED <<feature, allowUntrusted, enabled, executed, loops, toggle, toggles, overlapped, hookVars>>

(* The feature is switched on: the loader mounts and reads the extensions. *)
MountLoader ==
  /\ ~feature /\ Len(loops) < MaxMounts
  /\ feature' = TRUE
  /\ loops' = Append(loops, Loop("reading", <<>>))
  /\ ToldOverlap(Busy)
  /\ UNCHANGED <<allowUntrusted, trusted, enabled, executed, toggle, toggles, hookVars>>

MayExecute(e) == e \in Sandboxed \/ e \in trusted \/ allowUntrusted

(* Extensions never seen before are listed as disabled; the unrestricted   *)
(* ones come first.                                                        *)
readExtensions(k) ==
  /\ loops[k].at = "reading"
  /\ enabled' = [e \in Extensions |-> IsEnabled(e)]
  /\ LET chosen == {e \in Extensions : IsEnabled(e) /\ MayExecute(e)}
     IN  Step(k, Loop("next", Selected(Order, chosen \ Sandboxed) \o Selected(Order, chosen \cap Sandboxed)))
  /\ UNCHANGED <<feature, allowUntrusted, trusted, executed, toggle, toggles, overlapped, hookVars>>

(* An error of the command (a string) ends the load.                       *)
ReadFails(k) ==
  /\ loops[k].at = "reading"
  /\ Step(k, Loop("done", <<>>))
  /\ ToldOverlap(TRUE)
  /\ UNCHANGED <<feature, allowUntrusted, trusted, enabled, executed, toggle, toggles, hookVars>>

WasExecuted(e) == e \in ToSet(executed)

(* dirtyLifecycle: an extension that was executed before has its handler   *)
(* called, whose error is only logged; the hook is subscribed or removed   *)
(* before the error, or not at all.                                        *)
dirtyLifecycle(e, enable, fails) ==
  /\ WasExecuted(e)
  /\ \/ Changes(IF enable THEN Subscribed(hooks, e, "end") ELSE Unsubscribed(hooks, e))
     \/ fails /\ UNCHANGED <<hooks, steady>>
  /\ UNCHANGED dispatchVars

(* runInUnrestricted, runInSandbox: the code subscribes its hook, at the   *)
(* start of the array if it likes.                                         *)
RunCode(e, fails) ==
  /\ ~WasExecuted(e)
  /\ \/ \E position \in {"start", "end"} : Changes(Subscribed(hooks, e, position))
     \/ fails /\ UNCHANGED <<hooks, steady>>
  /\ UNCHANGED dispatchVars

(* The next extension of a load: its handler or its code is called.        *)
Execute(k) ==
  /\ loops[k].at = "next" /\ loops[k].queue # <<>>
  /\ LET e == Head(loops[k].queue) IN
     \E fails \in BOOLEAN :
       /\ \/ dirtyLifecycle(e, TRUE, fails) /\ Step(k, [loops[k] EXCEPT !.at = "handler"])
          \/ RunCode(e, fails) /\ Step(k, [loops[k] EXCEPT !.at = IF fails THEN "failing" ELSE "running"])
       /\ ToldOverlap(fails)
  /\ UNCHANGED <<feature, allowUntrusted, trusted, enabled, executed, toggle, toggles>>

(* grantStaticPermissions is called outside of the try block of            *)
(* runInSandbox: a permission it cannot grant ends the whole load.         *)
GrantFails(k) ==
  /\ loops[k].at = "next" /\ loops[k].queue # <<>>
  /\ Head(loops[k].queue) \in Sandboxed /\ ~WasExecuted(Head(loops[k].queue))
  /\ Step(k, Loop("done", <<>>))
  /\ ToldOverlap(TRUE)
  /\ UNCHANGED <<feature, allowUntrusted, trusted, enabled, executed, toggle, toggles, hookVars>>

(* The call has ended: an execution is recorded, one that failed disables  *)
(* the extension in the list.                                              *)
Executed(k) ==
  /\ loops[k].at \in {"handler", "running", "failing"}
  /\ LET e == Head(loops[k].queue) IN
     /\ executed' = IF loops[k].at = "running" THEN Append(executed, e) ELSE executed
     /\ enabled' = IF loops[k].at = "failing" THEN [enabled EXCEPT ![e] = FALSE] ELSE enabled
  /\ Step(k, Loop("next", Tail(loops[k].queue)))
  /\ UNCHANGED <<feature, allowUntrusted, trusted, toggle, toggles, overlapped, hookVars>>

showWebviewWindow(k) ==
  /\ loops[k].at = "next" /\ loops[k].queue = <<>>
  /\ Step(k, Loop("done", <<>>))
  /\ UNCHANGED <<feature, allowUntrusted, trusted, enabled, executed, toggle, toggles, overlapped, hookVars>>

(* The feature is switched off: the loader unmounts.                       *)
UnmountLoader ==
  /\ feature /\ Len(loops) < MaxMounts
  /\ feature' = FALSE
  /\ loops' = Append(loops, Loop("disabling", executed))
  /\ ToldOverlap(Busy)
  /\ UNCHANGED <<allowUntrusted, trusted, enabled, executed, toggle, toggles, hookVars>>

(* An extension that is listed as disabled is left alone.                  *)
Disable(k) ==
  /\ loops[k].at = "disabling" /\ loops[k].queue # <<>>
  /\ LET e == Head(loops[k].queue) IN
     \E fails \in BOOLEAN :
       /\ IF IsEnabled(e) THEN dirtyLifecycle(e, FALSE, fails) ELSE ~fails /\ UNCHANGED hookVars
       /\ ToldOverlap(fails)
  /\ Step(k, [loops[k] EXCEPT !.queue = Tail(@)])
  /\ UNCHANGED <<feature, allowUntrusted, trusted, enabled, executed, toggle, toggles>>

Disabled(k) ==
  /\ loops[k].at = "disabling" /\ loops[k].queue = <<>>
  /\ Step(k, Loop("done", <<>>))
  /\ UNCHANGED <<feature, allowUntrusted, trusted, enabled, executed, toggle, toggles, overlapped, hookVars>>

-----------------------------------------------------------------------------
(* The rows of the settings page.                                          *)

LoopGoes(e, at, was) == toggle' = [toggle EXCEPT ![e] = [at |-> at, was |-> was]]

(* A click: a community extension that is disabled is asked about first.   *)
(* The row of an unrestricted one is disabled unless these are allowed.    *)
Click(e) ==
  /\ enabled[e] # None /\ toggle[e].at = "idle" /\ toggles < MaxToggles
  /\ e \in Sandboxed \cup trusted \/ allowUntrusted \/ IsEnabled(e)
  /\ toggles' = toggles + 1
  /\ LoopGoes(e, IF e \in trusted \/ IsEnabled(e) THEN "generic" ELSE "asking", FALSE)
  /\ ToldOverlap(toggle'[e].at = "generic" /\ Busy)
  /\ UNCHANGED <<feature, allowUntrusted, trusted, enabled, executed, loops, hookVars>>

ConfirmAnswered(e, confirmed) ==
  /\ toggle[e].at = "asking"
  /\ LoopGoes(e, IF confirmed THEN "generic" ELSE "idle", FALSE)
  /\ ToldOverlap(confirmed /\ Busy)
  /\ UNCHANGED <<feature, allowUntrusted, trusted, enabled, executed, loops, toggles, hookVars>>

Flipped(e) == [enabled EXCEPT ![e] = ~@]

(* While the feature is off, the entry is toggled freely; an entry that is *)
(* enabled without having been executed is disabled.                       *)
generic(e) ==
  /\ toggle[e].at = "generic"
  /\ \/ /\ ~feature \/ (IsEnabled(e) /\ ~WasExecuted(e))
        /\ enabled' = Flipped(e) /\ LoopGoes(e, "idle", FALSE)
        /\ UNCHANGED <<hookVars, overlapped>>
     \/ /\ feature
        /\ \E fails \in BOOLEAN :
             /\ \/ dirtyLifecycle(e, ~IsEnabled(e), fails) /\ LoopGoes(e, "handler", IsEnabled(e))
                \/ ~IsEnabled(e) /\ RunCode(e, fails) /\ LoopGoes(e, IF fails THEN "failing" ELSE "running", FALSE)
             /\ ToldOverlap(fails)
        /\ UNCHANGED enabled
  /\ UNCHANGED <<feature, allowUntrusted, trusted, executed, loops, toggles>>

(* The entry is set from what it was before the handler was awaited;       *)
(* afterDisable is called and not awaited.                                 *)
GenericDone(e) ==
  /\ toggle[e].at \in {"handler", "running", "failing"}
  /\ executed' = IF toggle[e].at = "running" THEN Append(executed, e) ELSE executed
  /\ enabled' = IF toggle[e].at = "failing" THEN enabled ELSE [enabled EXCEPT ![e] = ~toggle[e].was]
  /\ LoopGoes(e, "idle", FALSE)
  /\ UNCHANGED <<feature, allowUntrusted, trusted, loops, toggles, overlapped, hookVars>>

toggleAllowUntrusted ==
  /\ toggles < MaxToggles
  /\ toggles' = toggles + 1 /\ allowUntrusted' = ~allowUntrusted
  /\ UNCHANGED <<feature, trusted, enabled, executed, loops, toggle, overlapped, hookVars>>

LoopStep(k) ==
  readExtensions(k) \/ ReadFails(k) \/ Execute(k) \/ GrantFails(k) \/ Executed(k) \/ showWebviewWindow(k) \/ Disable(k) \/ Disabled(k)

ExtensionStep ==
  \/ updateTrustedHashes \/ MountLoader \/ UnmountLoader \/ toggleAllowUntrusted
  \/ \E k \in DOMAIN loops : LoopStep(k)
  \/ \E e \in Extensions : Click(e) \/ (\E confirmed \in BOOLEAN : ConfirmAnswered(e, confirmed)) \/ generic(e) \/ GenericDone(e)

HostNext ==
  \/ MayInterrupt /\ ExtensionStep
  \/ DispatchNext /\ UNCHANGED hostVars

-----------------------------------------------------------------------------
ExtensionsTypeOK ==
  /\ HooksTypeOK
  /\ {enabled[e] : e \in Extensions} \subseteq {None, TRUE, FALSE} /\ ToSet(executed) \subseteq Extensions
  /\ trusted \in {TrustedFirst, TrustedLater} /\ Len(loops) <= MaxMounts /\ toggles \in 0..MaxToggles
  /\ \A e \in Extensions : toggle[e].at \in {"idle", "asking", "generic", "handler", "running", "failing"}

(* What the settings page shows is what runs, when loads, unloads and      *)
(* toggles did not overlap and no extension failed: the code of an         *)
(* extension is executed once, its hook is there once while it is enabled  *)
(* and the feature is on, and not at all otherwise; an extension that was  *)
(* executed and may run has it (ExtensionLoader.vue, extensionHandler).    *)
ShownIsRun ==
  ~overlapped /\ ~Busy =>
    /\ IsInjective(executed) /\ IsInjective(hooks)
    /\ \A e \in ToSet(hooks) : feature /\ IsEnabled(e) /\ e \in ToSet(executed)
    /\ \A e \in ToSet(executed) \cap Sandboxed : feature /\ IsEnabled(e) => e \in ToSet(hooks)

(* The hooks are those of the extensions that run, and passes through them *)
(* call them in order.                                                     *)
ExtensionsAsShown == ShownIsRun /\ HooksInOrder
=============================================================================
