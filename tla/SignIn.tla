------------------------------- MODULE SignIn -------------------------------
(***************************************************************************)
(* Signing in with Microsoft: the profile page starts at most one sign-in  *)
(* at a time.  It opens a server on a local port, listens for the URL the  *)
(* browser is redirected to, opens the sign-in page in the browser, waits  *)
(* for the redirect or for its own timer, stops the server, and exchanges  *)
(* the code for tokens along a chain of requests.  The browser, the server *)
(* and the events it emits outlive the page that started them, so that a   *)
(* redirect can reach a later sign-in than its own.  (The list of accounts *)
(* and its file are in module Accounts.)                                   *)
(***************************************************************************)
EXTENDS Undefined, Naturals, Sequences

CONSTANTS People,      \* who may sign in, in the browser
          MaxSignIns   \* bound: sign-ins started

ASSUME SignInAssumption == MaxSignIns \in Nat

SignIns == 1..MaxSignIns
Chain == <<"exchanging-code", "xbox-live", "xsts", "minecraft-token", "profile", "finalizing">>

VARIABLES profilePage,  \* globalStates.pages.profile: pending, step, error
          begun,        \* the number of sign-ins started; the last one's number is its port and its state, too
          flow,         \* the sign-in under way: where it is, the URL (or timeout) it received, its code, what failed
          servers,      \* the ports on which a server waits for a redirect
          listening,    \* onUrl has a listener
          tabs,         \* the sign-ins whose page is open in the browser
          urls,         \* the events emitted and not yet delivered to the page
          orphans,      \* the sign-ins whose page was reloaded
          chosen,       \* who signed in, in the browser, for each sign-in
          signedIn      \* the account each sign-in returned

backendVars == <<servers, tabs, urls, orphans, chosen>>
signInVars == <<profilePage, begun, flow, listening, signedIn, backendVars>>

NoFlow == [at |-> "idle", received |-> None, code |-> None, failed |-> FALSE]
ProfilePage(pending, step, error) == [pending |-> pending, step |-> step, error |-> error]

SignInInit ==
  /\ profilePage = ProfilePage(FALSE, None, FALSE)
  /\ begun = 0 /\ flow = NoFlow /\ listening = FALSE
  /\ servers = {} /\ tabs = {} /\ urls = <<>> /\ orphans = {}
  /\ chosen = [s \in SignIns |-> None] /\ signedIn = [s \in SignIns |-> None]

-----------------------------------------------------------------------------
(* The steps of the page.                                                  *)

handleSignIn ==
  /\ ~profilePage.pending /\ begun < MaxSignIns
  /\ begun' = begun + 1
  /\ profilePage' = ProfilePage(TRUE, "authorizing", FALSE)
  /\ flow' = [NoFlow EXCEPT !.at = "start"]
  /\ UNCHANGED <<listening, signedIn, backendVars>>

(* The end of handleSignIn: a failure is shown, a success returns the      *)
(* account.                                                                *)
Finish(failed) ==
  /\ profilePage' = ProfilePage(FALSE, None, failed)
  /\ flow' = NoFlow
  /\ signedIn' = IF failed THEN signedIn ELSE [signedIn EXCEPT ![begun] = flow.code]

(* The server could not be started: nothing has to be undone.              *)
StartFails ==
  /\ flow.at = "start"
  /\ Finish(TRUE)
  /\ UNCHANGED <<begun, listening, backendVars>>

StartServer ==
  /\ flow.at = "start"
  /\ servers' = servers \cup {begun}
  /\ flow' = [flow EXCEPT !.at = "listen"]
  /\ UNCHANGED <<profilePage, begun, listening, signedIn, tabs, urls, orphans, chosen>>

(* Leaving the try block: the timer is cleared and the listener removed.   *)
LeaveTry(code, failed) ==
  /\ flow' = [flow EXCEPT !.at = "cancel", !.code = code, !.failed = failed]
  /\ listening' = FALSE
  /\ UNCHANGED <<profilePage, begun, signedIn, servers, urls, orphans, chosen>>

onUrl ==
  /\ flow.at = "listen"
  /\ listening' = TRUE
  /\ flow' = [flow EXCEPT !.at = "open"]
  /\ UNCHANGED <<profilePage, begun, signedIn, backendVars>>

openUrl ==
  /\ flow.at = "open"
  /\ tabs' = tabs \cup {begun}
  /\ flow' = [flow EXCEPT !.at = "wait"]
  /\ UNCHANGED <<profilePage, begun, listening, signedIn, servers, urls, orphans, chosen>>

CallFails == flow.at \in {"listen", "open"} /\ LeaveTry(None, TRUE) /\ UNCHANGED tabs

\* Mutant of TimerIsSet: the timer is cleared before the wait.
TimerWhileOpening == flow.at \in {"listen", "open"}

TimerIsSet == flow.at \in {"listen", "open", "wait"}

(* The promise is settled once: by the timer or by the first URL.          *)
Timeout ==
  /\ TimerIsSet /\ flow.received = None
  /\ flow' = [flow EXCEPT !.received = [state |-> 0, answer |-> "timeout", person |-> None]]
  /\ UNCHANGED <<profilePage, begun, listening, signedIn, backendVars>>

\* Mutant of StateMatches: the state of the URL is not looked at.
AnyState(url) == TRUE

StateMatches(url) == url.state = begun

CheckRedirect ==
  /\ flow.at = "wait" /\ flow.received # None
  /\ LET ok == flow.received.answer = "code" /\ StateMatches(flow.received)
     IN  LeaveTry(IF ok THEN flow.received.person ELSE None, ~ok)
  /\ UNCHANGED tabs

NextStep(at) == IF at = "cancel" THEN Head(Chain) ELSE Chain[1 + CHOOSE i \in DOMAIN Chain : Chain[i] = at]

Proceeds ==
  /\ flow' = [flow EXCEPT !.at = NextStep(flow.at)]
  /\ profilePage' = [profilePage EXCEPT !.step = NextStep(flow.at)]
  /\ UNCHANGED signedIn

(* cancel is awaited, and its failure ignored: the server may be gone.     *)
CancelServer ==
  /\ flow.at = "cancel"
  /\ servers' = servers \ {begun}
  /\ IF flow.failed THEN Finish(TRUE) ELSE Proceeds
  /\ UNCHANGED <<begun, listening, tabs, urls, orphans, chosen>>

(* The answer to a request of the chain.  One that is not OK, or lacks a   *)
(* token or an id, throws and so ends the sign-in; only the texture of the *)
(* skin may be missing.                                                    *)
Answer(step) ==
  /\ flow.at = step
  /\ Proceeds \/ Finish(TRUE)
  /\ UNCHANGED <<begun, listening, backendVars>>

requestMicrosoftTokens   == Answer("exchanging-code")
authenticateWithXboxLive == Answer("xbox-live")
authorizeWithXsts        == Answer("xsts")
fetchMinecraftToken      == Answer("minecraft-token")
fetchMinecraftProfile    == Answer("profile")
fetchSkinAsBase64 ==
  /\ flow.at = "finalizing"
  /\ Finish(FALSE)
  /\ UNCHANGED <<begun, listening, backendVars>>

RequestAnswered ==
  \/ requestMicrosoftTokens \/ authenticateWithXboxLive \/ authorizeWithXsts
  \/ fetchMinecraftToken \/ fetchMinecraftProfile \/ fetchSkinAsBase64

-----------------------------------------------------------------------------
(* The browser, the server and the events.                                 *)

(* The user ends the sign-in in the browser, which follows the redirect if *)
(* the server still answers.  The server of the Tauri plugin ends with the *)
(* first redirect, the one of Wails stays until it is cancelled.           *)
Redirect(s, person, answer) ==
  /\ s \in tabs
  /\ tabs' = tabs \ {s}
  /\ IF s \in servers
     THEN /\ urls' = Append(urls, [state |-> s, answer |-> answer, person |-> person])
          /\ chosen' = [chosen EXCEPT ![s] = person]
          /\ servers' \in {servers, servers \ {s}}
     ELSE UNCHANGED <<urls, chosen, servers>>
  /\ UNCHANGED <<profilePage, begun, flow, listening, signedIn, orphans>>

CloseTab(s) ==
  /\ s \in tabs
  /\ tabs' = tabs \ {s}
  /\ UNCHANGED <<profilePage, begun, flow, listening, signedIn, servers, urls, orphans, chosen>>

DeliverUrl ==
  /\ urls # <<>>
  /\ urls' = Tail(urls)
  /\ flow' = IF listening /\ flow.received = None THEN [flow EXCEPT !.received = Head(urls)] ELSE flow
  /\ UNCHANGED <<profilePage, begun, listening, signedIn, servers, tabs, orphans, chosen>>

(* A reload of the page: its promises, timers and listeners are gone.      *)
ReloadProfile ==
  /\ flow # NoFlow
  /\ flow' = NoFlow /\ listening' = FALSE
  /\ profilePage' = ProfilePage(FALSE, None, FALSE)
  /\ orphans' = orphans \cup {begun}
  /\ UNCHANGED <<begun, signedIn, servers, tabs, urls, chosen>>

CallAnswered == StartFails \/ StartServer \/ onUrl \/ openUrl \/ CallFails \/ CheckRedirect \/ CancelServer \/ RequestAnswered

SignInNext ==
  \/ handleSignIn \/ CallAnswered \/ Timeout \/ DeliverUrl \/ ReloadProfile
  \/ \E s \in tabs : CloseTab(s) \/ \E p \in People, answer \in {"code", "denied", "nothing"} : Redirect(s, p, answer)

(* Calls and requests are answered, and timers go off.  Nothing is assumed *)
(* of the user.                                                            *)
SignInFairness == WF_signInVars(CallAnswered) /\ WF_signInVars(Timeout)

-----------------------------------------------------------------------------
SignInTypeOK ==
  /\ profilePage.pending \in BOOLEAN /\ profilePage.error \in BOOLEAN
  /\ profilePage.step \in {None, "authorizing"} \cup {Chain[i] : i \in DOMAIN Chain}
  /\ begun \in 0..MaxSignIns /\ listening \in BOOLEAN
  /\ servers \subseteq SignIns /\ tabs \subseteq SignIns /\ orphans \subseteq SignIns
  /\ {chosen[s] : s \in SignIns} \cup {signedIn[s] : s \in SignIns} \subseteq People \cup {None}

(* A sign-in returns the account of the one who signed in on the page it   *)
(* opened, whatever redirects of earlier sign-ins arrive late; its server  *)
(* and its listener do not outlive it, unless the page is reloaded in the  *)
(* middle; and the page is pending exactly while one is under way          *)
(* (authorizeInteractively, its finally block; handleSignIn).              *)
SignInIsOwn ==
  /\ \A s \in SignIns : signedIn[s] \in {None, chosen[s]}
  /\ servers \subseteq orphans \cup (IF flow.at \in {"listen", "open", "wait", "cancel"} THEN {begun} ELSE {})
  /\ listening => flow.at \in {"open", "wait"}
  /\ profilePage.pending <=> flow # NoFlow

(* Every sign-in ends, also when the user closes the browser: the page is  *)
(* not left pending (the timer of authorizeInteractively).                 *)
SignInsEnd == profilePage.pending ~> ~profilePage.pending
=============================================================================
