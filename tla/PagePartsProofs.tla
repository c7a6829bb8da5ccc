-------------------------- MODULE PagePartsProofs --------------------------
(***************************************************************************)
(* Proofs about the parts of the page, which share no state (module        *)
(* PageParts): signing in, putting an instance together, launching, the    *)
(* settings, the start of the page, the servers of extensions and the      *)
(* search for modpacks; for any people, versions, patches, directories,    *)
(* locales, servers, filters and modpacks, and any number of steps.        *)
(***************************************************************************)
EXTENDS PageParts, SequenceLemmas

-----------------------------------------------------------------------------
(* Signing in.  A redirect names the one who signed in on the page it      *)
(* comes from; that page is closed then, and no other sign-in opens it.    *)

Requested == {"exchanging-code", "xbox-live", "xsts", "minecraft-token", "profile", "finalizing"}
Opening   == {"start", "listen", "open"}
Serving   == {"listen", "open", "wait", "cancel"}
Someone   == People \cup {None}
Urls      == [state : 0..MaxSignIns, answer : {"code", "denied", "nothing", "timeout"}, person : Someone]

SignInTypes ==
  /\ profilePage \in [pending : BOOLEAN, step : {None, "authorizing"} \cup Requested, error : BOOLEAN]
  /\ begun \in 0..MaxSignIns /\ listening \in BOOLEAN
  /\ flow \in [at : {"idle"} \cup Opening \cup Serving \cup Requested, received : Urls \cup {None},
               code : Someone, failed : BOOLEAN]
  /\ servers \subseteq SignIns /\ tabs \subseteq SignIns /\ orphans \subseteq SignIns
  /\ urls \in Seq(Urls)
  /\ chosen \in [SignIns -> Someone] /\ signedIn \in [SignIns -> Someone]

\* The page is pending while a sign-in is under way, which has a number.
FlowIsPending ==
  /\ flow.at = "idle" => flow = NoFlow
  /\ flow.at # "idle" => begun \in SignIns
  /\ profilePage.pending <=> flow # NoFlow

\* The server and the listener of a sign-in do not outlive it.
NothingIsLeft ==
  /\ servers \subseteq orphans \cup (IF flow.at \in Serving THEN {begun} ELSE {})
  /\ listening => flow.at \in {"open", "wait"}

\* What is known of a sign-in whose page has not been opened.
Unopened(s) == s > begun \/ (s = begun /\ flow.at \in Opening)
UnopenedIsFresh ==
  \A s \in SignIns : Unopened(s) =>
    /\ s \notin tabs /\ signedIn[s] = None
    /\ \A k \in DOMAIN urls : urls[k].state # s
    /\ flow.received # None => flow.received.state # s

\* A redirect is from a page that is closed, and names who signed in there.
Own(url) == url.state \in SignIns => url.state \notin tabs /\ url.person = chosen[url.state]
RedirectsAreOwn ==
  /\ \A k \in DOMAIN urls : Own(urls[k])
  /\ flow.received # None => Own(flow.received)

CodeIsOwn ==
  /\ flow.at \in {"idle", "wait"} \cup Opening => flow.code = None
  /\ flow.code # None => begun \notin tabs /\ flow.code = chosen[begun]

AccountsAreOwn == \A s \in SignIns : signedIn[s] # None => s \notin tabs /\ signedIn[s] = chosen[s]

SignInInv ==
  /\ SignInTypes
  /\ FlowIsPending
  /\ NothingIsLeft
  /\ UnopenedIsFresh
  /\ RedirectsAreOwn
  /\ CodeIsOwn
  /\ AccountsAreOwn

\* The steps of the page and of the backend, without assumptions on fairness.
SignInSafety == SignInInit /\ [][SignInNext]_signInVars

\* At the start nobody signs in.
LEMMA SignInStarts == SignInInit => SignInInv
<1> SUFFICES ASSUME SignInInit PROVE SignInInv
  OBVIOUS
<1> USE SignInAssumption DEF SignInInit
<1>1. SignInTypes
  <2>1. urls \in Seq(Urls)
    BY EmptySeq
  <2>2. flow \in [at : {"idle"} \cup Opening \cup Serving \cup Requested, received : Urls \cup {None},
                  code : Someone, failed : BOOLEAN]
    BY DEF NoFlow, Someone
  <2>3. chosen \in [SignIns -> Someone] /\ signedIn \in [SignIns -> Someone]
    BY DEF Someone
  <2>4. profilePage \in [pending : BOOLEAN, step : {None, "authorizing"} \cup Requested, error : BOOLEAN]
    BY DEF ProfilePage
  <2>5. begun \in 0..MaxSignIns
    OBVIOUS
  <2>6. servers \subseteq SignIns /\ tabs \subseteq SignIns /\ orphans \subseteq SignIns /\ listening \in BOOLEAN
    OBVIOUS
  <2> QED BY <2>1, <2>2, <2>3, <2>4, <2>5, <2>6 DEF SignInTypes
<1>2. FlowIsPending
  BY DEF FlowIsPending, NoFlow, ProfilePage
<1>3. NothingIsLeft /\ UnopenedIsFresh /\ RedirectsAreOwn /\ CodeIsOwn /\ AccountsAreOwn
  BY DEF NothingIsLeft, UnopenedIsFresh, RedirectsAreOwn, CodeIsOwn, AccountsAreOwn, NoFlow
<1> QED BY <1>1, <1>2, <1>3 DEF SignInInv

\* The requests of the chain follow one another.
LEMMA ChainProceeds ==
  ASSUME NEW at \in {"cancel"} \cup Requested, at # "finalizing"
  PROVE  NextStep(at) \in Requested
<1>1. DOMAIN Chain = 1..6
  BY DEF Chain
<1>2. CASE at = "cancel"
  BY <1>2 DEF NextStep, Chain, Requested
<1>3. CASE at # "cancel"
  <2>1. PICK n \in 1..5 : Chain[n] = at
    BY <1>3 DEF Chain, Requested
  <2> DEFINE i == CHOOSE i \in DOMAIN Chain : Chain[i] = at
  <2>2. i \in 1..6 /\ Chain[i] = at
    BY <1>1, <2>1
  <2>3. NextStep(at) = Chain[1 + i]
    BY <1>3 DEF NextStep
  <2> HIDE DEF i
  <2>4. i # 6
    <3>1. Chain[6] = "finalizing"
      BY DEF Chain
    <3> QED BY <2>2, <3>1
  <2>5. 1 + i \in 2..6
    BY <2>2, <2>4
  <2>6. \A m \in 2..6 : Chain[m] \in Requested
    BY DEF Chain, Requested
  <2> QED BY <2>3, <2>5, <2>6
<1> QED BY <1>2, <1>3

\* A sign-in ends, with an account if it came to the end of the chain.
LEMMA SignInEnds ==
  ASSUME SignInInv, NEW fails \in BOOLEAN, Finish(fails),
         flow.at \in {"start", "cancel"} \cup Requested, fails \/ flow.at = "finalizing",
         servers' \subseteq servers, flow.at = "cancel" => servers' = servers \ {begun},
         UNCHANGED <<begun, listening, tabs, urls, orphans, chosen>>
  PROVE  SignInInv'
<1> USE DEF SignInInv
<1>1. /\ profilePage' = ProfilePage(FALSE, None, fails) /\ flow' = NoFlow
      /\ signedIn' = IF fails THEN signedIn ELSE [signedIn EXCEPT ![begun] = flow.code]
  BY DEF Finish
<1>2. flow'.at = "idle" /\ flow'.received = None /\ flow'.code = None /\ begun \in SignIns
  <2>1. flow.at # "idle"
    BY DEF Requested
  <2> QED BY <1>1, <2>1 DEF NoFlow, FlowIsPending
<1>3. /\ signedIn' \in [SignIns -> Someone]
      /\ \A s \in SignIns : signedIn'[s] = signedIn[s] \/ (s = begun /\ signedIn'[s] = flow.code /\ ~fails)
  <2>1. flow.code \in Someone
    BY DEF SignInTypes
  <2> QED BY <1>1, <1>2, <2>1 DEF SignInTypes
<1>4. SignInTypes'
  <2>1. flow' \in [at : {"idle"} \cup Opening \cup Serving \cup Requested, received : Urls \cup {None},
                   code : Someone, failed : BOOLEAN]
    BY <1>1 DEF NoFlow, Someone
  <2>2. profilePage' \in [pending : BOOLEAN, step : {None, "authorizing"} \cup Requested, error : BOOLEAN]
    BY <1>1 DEF ProfilePage
  <2> QED BY <1>3, <2>1, <2>2 DEF SignInTypes
<1>5. FlowIsPending'
  BY <1>1, <1>2 DEF FlowIsPending, ProfilePage
<1>6. NothingIsLeft'
  BY <1>2 DEF NothingIsLeft, Serving, Requested
<1>7. UnopenedIsFresh'
  <2> SUFFICES ASSUME NEW s \in SignIns, Unopened(s)' PROVE s \notin tabs /\ signedIn'[s] = None /\ \A k \in DOMAIN urls : urls[k].state # s
    BY <1>2 DEF UnopenedIsFresh
  <2>1. s > begun /\ s # begun
    BY <1>2 DEF Unopened, Opening, SignInTypes, SignIns
  <2>2. Unopened(s)
    BY <2>1 DEF Unopened
  <2>3. signedIn'[s] = signedIn[s]
    BY <1>3, <2>1
  <2> QED BY <2>2, <2>3 DEF UnopenedIsFresh
<1>8. RedirectsAreOwn' /\ CodeIsOwn'
  BY <1>2 DEF RedirectsAreOwn, CodeIsOwn, Own
<1>9. AccountsAreOwn'
  BY <1>3 DEF AccountsAreOwn, CodeIsOwn
<1> QED BY <1>4, <1>5, <1>6, <1>7, <1>8, <1>9

\* A sign-in goes on to its next request.
LEMMA SignInProceeds ==
  ASSUME SignInInv, Proceeds, flow.at \in {"cancel"} \cup Requested, flow.at # "finalizing",
         servers' \subseteq servers, flow.at = "cancel" => servers' = servers \ {begun},
         UNCHANGED <<begun, listening, tabs, urls, orphans, chosen>>
  PROVE  SignInInv'
<1> USE DEF SignInInv
<1> DEFINE next == NextStep(flow.at)
<1>1. /\ next \in Requested /\ flow' = [flow EXCEPT !.at = next] /\ profilePage' = [profilePage EXCEPT !.step = next]
      /\ signedIn' = signedIn
  BY ChainProceeds DEF Proceeds
<1> HIDE DEF next
<1>2. /\ flow'.at = next /\ flow'.received = flow.received /\ flow'.code = flow.code /\ flow'.failed = flow.failed
      /\ profilePage'.pending = profilePage.pending
  BY <1>1 DEF SignInTypes
<1>3. SignInTypes'
  BY <1>1 DEF SignInTypes
<1>4. FlowIsPending'
  <2>1. flow'.at # "idle" /\ flow.at # "idle" /\ flow # NoFlow /\ flow' # NoFlow
    BY <1>1, <1>2 DEF Requested, NoFlow
  <2> QED BY <1>2, <2>1 DEF FlowIsPending
<1>5. NothingIsLeft'
  BY <1>1, <1>2 DEF NothingIsLeft, Serving, Requested
<1>6. flow'.at \notin Opening /\ flow'.at \notin {"idle", "wait"}
  BY <1>1, <1>2 DEF Opening, Requested
<1>7. UnopenedIsFresh'
  BY <1>1, <1>2, <1>6 DEF UnopenedIsFresh, Unopened
<1>8. RedirectsAreOwn' /\ CodeIsOwn' /\ AccountsAreOwn'
  BY <1>1, <1>2, <1>6 DEF RedirectsAreOwn, CodeIsOwn, AccountsAreOwn, Own
<1> QED BY <1>3, <1>4, <1>5, <1>7, <1>8

\* A sign-in begins, under a number that no other had.
LEMMA SignInBegins ==
  ASSUME SignInInv, handleSignIn
  PROVE  SignInInv'
<1> USE SignInAssumption DEF SignInInv
<1>1. /\ ~profilePage.pending /\ begun < MaxSignIns /\ begun' = begun + 1
      /\ profilePage' = ProfilePage(TRUE, "authorizing", FALSE) /\ flow' = [NoFlow EXCEPT !.at = "start"]
      /\ UNCHANGED <<listening, signedIn, backendVars>>
  BY DEF handleSignIn
<1> USE DEF backendVars
<1>2. flow'.at = "start" /\ flow'.received = None /\ flow'.code = None /\ flow' # NoFlow
  BY <1>1 DEF NoFlow
<1>3. begun \in 0..MaxSignIns /\ begun' \in SignIns /\ begun' > begun
  BY <1>1 DEF SignInTypes, SignIns
<1>4. flow = NoFlow /\ flow.at = "idle"
  BY <1>1 DEF FlowIsPending, NoFlow
<1>5. SignInTypes'
  <2>1. flow' \in [at : {"idle"} \cup Opening \cup Serving \cup Requested, received : Urls \cup {None},
                   code : Someone, failed : BOOLEAN]
    BY <1>1 DEF NoFlow, Someone, Opening
  <2>2. profilePage' \in [pending : BOOLEAN, step : {None, "authorizing"} \cup Requested, error : BOOLEAN]
    BY <1>1 DEF ProfilePage
  <2>3. begun' \in 0..MaxSignIns
    BY <1>3 DEF SignIns
  <2> QED BY <1>1, <2>1, <2>2, <2>3 DEF SignInTypes
<1>6. FlowIsPending'
  BY <1>1, <1>2, <1>3 DEF FlowIsPending, ProfilePage
<1>7. NothingIsLeft'
  BY <1>1, <1>4 DEF NothingIsLeft, Serving
<1>8. UnopenedIsFresh'
  <2> SUFFICES ASSUME NEW s \in SignIns, Unopened(s)'
               PROVE  s \notin tabs /\ signedIn[s] = None /\ \A k \in DOMAIN urls : urls[k].state # s
    BY <1>1, <1>2 DEF UnopenedIsFresh
  <2>1. s > begun
    BY <1>1, <1>3 DEF Unopened, SignIns
  <2>2. Unopened(s)
    BY <2>1 DEF Unopened
  <2> QED BY <2>2 DEF UnopenedIsFresh
<1>9. RedirectsAreOwn' /\ CodeIsOwn' /\ AccountsAreOwn'
  BY <1>1, <1>2 DEF RedirectsAreOwn, CodeIsOwn, AccountsAreOwn, Own
<1> QED BY <1>5, <1>6, <1>7, <1>8, <1>9

\* The server is started, the listener set, and the page opened in the browser.
LEMMA SignInOpens ==
  ASSUME SignInInv, StartServer \/ onUrl \/ openUrl
  PROVE  SignInInv'
<1> USE DEF SignInInv
<1>1. flow \in [at : {"idle"} \cup Opening \cup Serving \cup Requested, received : Urls \cup {None},
                code : Someone, failed : BOOLEAN]
  BY DEF SignInTypes
<1>2. /\ flow.at \in Opening /\ flow'.at \in {"listen", "open", "wait"}
      /\ flow' = [flow EXCEPT !.at = flow'.at]
      /\ servers' \in {servers, servers \cup {begun}} /\ tabs' \in {tabs, tabs \cup {begun}}
      /\ tabs' # tabs => flow'.at = "wait"
      /\ listening' \in BOOLEAN /\ (listening' => flow'.at \in {"open", "wait"})
      /\ UNCHANGED <<profilePage, begun, signedIn, urls, orphans, chosen>>
  <2>1. CASE StartServer
    BY <1>1, <2>1 DEF StartServer, Opening, NothingIsLeft, SignInTypes
  <2>2. CASE onUrl
    BY <1>1, <2>2 DEF onUrl, Opening, backendVars
  <2>3. CASE openUrl
    BY <1>1, <2>3 DEF openUrl, Opening, SignInTypes
  <2> QED BY <2>1, <2>2, <2>3
<1>3. begun \in SignIns /\ flow # NoFlow /\ flow' # NoFlow /\ flow.code = None
  <2>1. flow.at # "idle" /\ flow'.at # "idle"
    BY <1>2 DEF Opening
  <2> QED BY <1>2, <2>1 DEF FlowIsPending, NoFlow, CodeIsOwn
<1>4. flow'.received = flow.received /\ flow'.code = None /\ flow'.failed = flow.failed
  BY <1>1, <1>2, <1>3
<1>5. SignInTypes'
  <2>1. flow' \in [at : {"idle"} \cup Opening \cup Serving \cup Requested, received : Urls \cup {None},
                   code : Someone, failed : BOOLEAN]
    BY <1>1, <1>2 DEF Serving
  <2> QED BY <1>2, <1>3, <2>1 DEF SignInTypes
<1>6. FlowIsPending'
  BY <1>2, <1>3 DEF FlowIsPending
<1>7. NothingIsLeft'
  BY <1>2 DEF NothingIsLeft, Opening, Serving
<1>8. UnopenedIsFresh'
  <2> SUFFICES ASSUME NEW s \in SignIns, Unopened(s)'
               PROVE  /\ s \notin tabs' /\ signedIn[s] = None
                      /\ \A k \in DOMAIN urls : urls[k].state # s
                      /\ flow.received # None => flow.received.state # s
    BY <1>2, <1>4 DEF UnopenedIsFresh
  <2>1. Unopened(s)
    BY <1>2 DEF Unopened
  <2>2. s = begun => tabs' = tabs
    BY <1>2, <1>3 DEF Unopened, Opening, SignIns
  <2> QED BY <1>2, <2>1, <2>2 DEF UnopenedIsFresh
<1>9. Unopened(begun)
  BY <1>2 DEF Unopened
<1>10. RedirectsAreOwn'
  <2>1. \A k \in DOMAIN urls : urls[k] \in Urls
    BY DEF SignInTypes
  <2>2. ASSUME NEW k \in DOMAIN urls PROVE Own(urls[k])'
    <3>1. urls[k] \in Urls /\ Own(urls[k]) /\ urls[k].state # begun
      BY <1>3, <1>9, <2>1 DEF RedirectsAreOwn, UnopenedIsFresh
    <3> QED BY <1>2, <3>1 DEF Own
  <2>3. ASSUME flow.received # None PROVE Own(flow.received)'
    <3>1. flow.received \in Urls /\ Own(flow.received) /\ flow.received.state # begun
      BY <1>1, <1>3, <1>9, <2>3 DEF RedirectsAreOwn, UnopenedIsFresh
    <3> QED BY <1>2, <1>4, <3>1 DEF Own
  <2> QED BY <1>2, <1>4, <2>2, <2>3 DEF RedirectsAreOwn
<1>11. CodeIsOwn' /\ AccountsAreOwn'
  BY <1>2, <1>3, <1>4, <1>9 DEF CodeIsOwn, AccountsAreOwn, UnopenedIsFresh
<1> QED BY <1>5, <1>6, <1>7, <1>8, <1>10, <1>11

\* The wait for the redirect is over, with the person it names if it is the sign-in's own.
LEMMA SignInIsLeft ==
  ASSUME SignInInv, CallFails \/ CheckRedirect
  PROVE  SignInInv'
<1> USE DEF SignInInv
<1>1. flow \in [at : {"idle"} \cup Opening \cup Serving \cup Requested, received : Urls \cup {None},
                code : Someone, failed : BOOLEAN]
  BY DEF SignInTypes
<1>2. begun \in SignIns /\ flow # NoFlow /\ flow.at \in {"listen", "open", "wait"}
  <2>1. flow.at \in {"listen", "open", "wait"}
    BY DEF CallFails, CheckRedirect
  <2> QED BY <2>1 DEF FlowIsPending, NoFlow
<1>3. PICK code \in Someone, fails \in BOOLEAN :
        LeaveTry(code, fails) /\ (code # None => begun \notin tabs /\ code = chosen[begun])
  <2>1. CASE CallFails
    BY <2>1 DEF CallFails, Someone
  <2>2. CASE CheckRedirect
    <3> DEFINE ok == flow.received.answer = "code" /\ StateMatches(flow.received)
    <3>1. LeaveTry(IF ok THEN flow.received.person ELSE None, ~ok) /\ flow.received # None
      BY <2>2 DEF CheckRedirect
    <3>2. flow.received \in Urls /\ flow.received.person \in Someone
      BY <1>1, <3>1 DEF Urls
    <3>3. ok => begun \notin tabs /\ flow.received.person = chosen[begun]
      BY <1>2, <3>1 DEF RedirectsAreOwn, Own, StateMatches
    <3> HIDE DEF ok
    <3>4. None \in Someone
      BY DEF Someone
    <3>5. CASE ok
      BY <3>1, <3>2, <3>3, <3>5
    <3>6. CASE ~ok
      BY <3>1, <3>4, <3>6
    <3> QED BY <3>5, <3>6
  <2> QED BY <2>1, <2>2
<1>4. /\ flow' = [flow EXCEPT !.at = "cancel", !.code = code, !.failed = fails] /\ listening' = FALSE
      /\ UNCHANGED <<profilePage, begun, signedIn, servers, urls, orphans, chosen, tabs>>
  BY <1>3 DEF LeaveTry, CallFails, CheckRedirect
<1>5. flow'.at = "cancel" /\ flow'.code = code /\ flow'.received = flow.received /\ flow' # NoFlow
  <2>1. flow'.at = "cancel" /\ flow'.code = code /\ flow'.received = flow.received
    BY <1>1, <1>4
  <2> QED BY <2>1 DEF NoFlow
<1>6. SignInTypes'
  <2>1. flow' \in [at : {"idle"} \cup Opening \cup Serving \cup Requested, received : Urls \cup {None},
                   code : Someone, failed : BOOLEAN]
    BY <1>1, <1>3, <1>4 DEF Serving
  <2> QED BY <1>4, <2>1 DEF SignInTypes
<1>7. FlowIsPending'
  BY <1>2, <1>4, <1>5 DEF FlowIsPending
<1>8. NothingIsLeft'
  BY <1>2, <1>4, <1>5 DEF NothingIsLeft, Serving
<1>9. UnopenedIsFresh'
  BY <1>4, <1>5 DEF UnopenedIsFresh, Unopened, Opening
<1>10. RedirectsAreOwn' /\ AccountsAreOwn'
  BY <1>4, <1>5 DEF RedirectsAreOwn, AccountsAreOwn, Own
<1>11. CodeIsOwn'
  BY <1>3, <1>4, <1>5 DEF CodeIsOwn, Opening
<1> QED BY <1>6, <1>7, <1>8, <1>9, <1>10, <1>11

\* What the sign-in waits for has come: a redirect, or its own timer.
LEMMA SignInReceives ==
  ASSUME SignInInv, Timeout \/ DeliverUrl
  PROVE  SignInInv'
<1> USE DEF SignInInv
<1>1. flow \in [at : {"idle"} \cup Opening \cup Serving \cup Requested, received : Urls \cup {None},
                code : Someone, failed : BOOLEAN]
  BY DEF SignInTypes
<1>2. /\ urls' \in Seq(Urls) /\ \A k \in DOMAIN urls' : \E m \in DOMAIN urls : urls'[k] = urls[m]
      /\ UNCHANGED <<profilePage, begun, listening, signedIn, servers, tabs, orphans, chosen>>
  <2>1. CASE Timeout
    BY <2>1 DEF Timeout, backendVars, SignInTypes
  <2>2. CASE DeliverUrl
    <3>1. urls # <<>> /\ urls' = Tail(urls) /\ urls \in Seq(Urls)
      BY <2>2 DEF DeliverUrl, SignInTypes
    <3>2. urls' \in Seq(Urls) /\ \A k \in DOMAIN urls' : k + 1 \in DOMAIN urls /\ urls'[k] = urls[k + 1]
      BY <3>1
    <3> QED BY <2>2, <3>2 DEF DeliverUrl
  <2> QED BY <2>1, <2>2
<1>3. \/ flow' = flow
      \/ \E url \in Urls :
           /\ flow' = [flow EXCEPT !.received = url] /\ flow.at \in Serving \cup Opening
           /\ (url.state = 0 \/ \E m \in DOMAIN urls : url = urls[m])
  <2>1. CASE Timeout
    <3> DEFINE url == [state |-> 0, answer |-> "timeout", person |-> None]
    <3>1. url \in Urls /\ url.state = 0
      BY SignInAssumption DEF Urls, Someone
    <3>2. flow' = [flow EXCEPT !.received = url] /\ flow.at \in Serving \cup Opening
      BY <2>1 DEF Timeout, TimerIsSet, Serving
    <3> HIDE DEF url
    <3> QED BY <3>1, <3>2
  <2>2. CASE DeliverUrl
    <3>1. urls # <<>> /\ urls \in Seq(Urls)
      BY <2>2 DEF DeliverUrl, SignInTypes
    <3>2. 1 \in DOMAIN urls /\ Head(urls) = urls[1] /\ urls[1] \in Urls
      BY <3>1, EmptySeq
    <3>3. listening => flow.at \in Serving \cup Opening
      BY DEF NothingIsLeft, Serving
    <3>4. flow' = IF listening /\ flow.received = None THEN [flow EXCEPT !.received = urls[1]] ELSE flow
      BY <2>2, <3>2 DEF DeliverUrl
    <3> QED BY <3>2, <3>3, <3>4
  <2> QED BY <2>1, <2>2
<1>4. /\ flow' \in [at : {"idle"} \cup Opening \cup Serving \cup Requested, received : Urls \cup {None},
                    code : Someone, failed : BOOLEAN]
      /\ flow'.at = flow.at /\ flow'.code = flow.code /\ (flow'.at = "idle" => flow' = flow)
      /\ flow'.received # flow.received =>
           flow'.received \in Urls
             /\ (flow'.received.state = 0 \/ \E m \in DOMAIN urls : flow'.received = urls[m])
  <2>1. CASE flow' = flow
    BY <1>1, <2>1
  <2>2. ASSUME NEW url \in Urls, flow' = [flow EXCEPT !.received = url], flow.at \in Serving \cup Opening,
               url.state = 0 \/ \E m \in DOMAIN urls : url = urls[m]
        PROVE  <1>4!:
    <3>1. /\ flow'.received = url /\ flow'.at = flow.at /\ flow'.code = flow.code /\ flow.at # "idle"
          /\ flow' \in [at : {"idle"} \cup Opening \cup Serving \cup Requested, received : Urls \cup {None},
                        code : Someone, failed : BOOLEAN]
      BY <1>1, <2>2 DEF Serving, Opening
    <3> QED BY <2>2, <3>1
  <2> QED BY <1>3, <2>1, <2>2
<1>5. SignInTypes'
  BY <1>2, <1>4 DEF SignInTypes
<1>6. FlowIsPending'
  <2>1. flow' # NoFlow <=> flow # NoFlow
    BY <1>4 DEF FlowIsPending, NoFlow
  <2> QED BY <1>2, <1>4, <2>1 DEF FlowIsPending
<1>7. NothingIsLeft' /\ CodeIsOwn' /\ AccountsAreOwn'
  BY <1>2, <1>4 DEF NothingIsLeft, CodeIsOwn, AccountsAreOwn
<1>8. UnopenedIsFresh'
  <2> SUFFICES ASSUME NEW s \in SignIns, Unopened(s)
               PROVE  /\ s \notin tabs /\ signedIn[s] = None
                      /\ \A k \in DOMAIN urls' : urls'[k].state # s
                      /\ flow'.received # None => flow'.received.state # s
    BY <1>2, <1>4 DEF UnopenedIsFresh, Unopened
  <2>1. /\ s \notin tabs /\ signedIn[s] = None /\ \A k \in DOMAIN urls : urls[k].state # s
        /\ flow.received # None => flow.received.state # s
    BY DEF UnopenedIsFresh
  <2>2. s # 0
    BY SignInAssumption DEF SignIns
  <2> QED BY <1>2, <1>4, <2>1, <2>2
<1>9. RedirectsAreOwn'
  <2>1. 0 \notin SignIns
    BY SignInAssumption DEF SignIns
  <2>2. \A k \in DOMAIN urls' : Own(urls'[k])
    BY <1>2 DEF RedirectsAreOwn
  <2>3. flow'.received # None => Own(flow'.received)
    BY <1>4, <2>1 DEF RedirectsAreOwn, Own
  <2> QED BY <1>2, <2>2, <2>3 DEF RedirectsAreOwn, Own
<1> QED BY <1>5, <1>6, <1>7, <1>8, <1>9

\* A page in the browser is closed, with or without a redirect.
LEMMA BrowserEnds ==
  ASSUME SignInInv, NEW s \in tabs, NEW person \in Someone, NEW reply \in {"code", "denied", "nothing"},
         CloseTab(s) \/ Redirect(s, person, reply)
  PROVE  SignInInv'
<1> USE DEF SignInInv
<1> DEFINE url == [state |-> s, answer |-> reply, person |-> person]
<1>1. s \in SignIns /\ tabs' = tabs \ {s} /\ servers' \subseteq servers
      /\ UNCHANGED <<profilePage, begun, flow, listening, signedIn, orphans>>
  BY DEF CloseTab, Redirect, SignInTypes
<1>2. url \in Urls /\ url.state = s /\ url.person = person
  BY <1>1, SignInAssumption DEF Urls, Someone, SignIns
<1>3. ~Unopened(s)
  BY <1>1 DEF UnopenedIsFresh
<1> HIDE DEF url
<1>4. \/ urls' = urls /\ chosen' = chosen
      \/ urls' = Append(urls, url) /\ chosen' = [chosen EXCEPT ![s] = person]
  BY DEF CloseTab, Redirect, url
<1>5. /\ urls' \in Seq(Urls)
      /\ \A k \in DOMAIN urls' : (k \in DOMAIN urls /\ urls'[k] = urls[k])
                                   \/ (urls'[k] = url /\ chosen' = [chosen EXCEPT ![s] = person])
  <2>1. urls \in Seq(Urls)
    BY DEF SignInTypes
  <2>2. CASE urls' = urls
    BY <2>1, <2>2
  <2>3. CASE urls' = Append(urls, url) /\ chosen' = [chosen EXCEPT ![s] = person]
    <3>1. /\ urls' \in Seq(Urls) /\ DOMAIN urls = 1..Len(urls) /\ DOMAIN urls' = 1..(Len(urls) + 1) /\ Len(urls) \in Nat
          /\ urls'[Len(urls) + 1] = url /\ \A k \in 1..Len(urls) : urls'[k] = urls[k]
      BY <1>2, <2>1, <2>3
    <3>2. \A k \in 1..(Len(urls) + 1) : k \in 1..Len(urls) \/ k = Len(urls) + 1
      BY <3>1
    <3> QED BY <2>3, <3>1, <3>2
  <2> QED BY <1>4, <2>2, <2>3
<1>6. chosen' \in [SignIns -> Someone] /\ \A t \in SignIns : t # s => chosen'[t] = chosen[t]
  BY <1>1, <1>4 DEF SignInTypes, Someone
<1>7. SignInTypes'
  BY <1>1, <1>5, <1>6 DEF SignInTypes
<1>8. FlowIsPending' /\ NothingIsLeft'
  BY <1>1 DEF FlowIsPending, NothingIsLeft
<1>9. UnopenedIsFresh'
  <2> SUFFICES ASSUME NEW t \in SignIns, Unopened(t)
               PROVE  /\ t \notin tabs' /\ signedIn[t] = None
                      /\ \A k \in DOMAIN urls' : urls'[k].state # t
                      /\ flow.received # None => flow.received.state # t
    BY <1>1 DEF UnopenedIsFresh, Unopened
  <2> QED BY <1>1, <1>2, <1>3, <1>5 DEF UnopenedIsFresh
<1>10. RedirectsAreOwn'
  <2>1. ASSUME NEW k \in DOMAIN urls' PROVE Own(urls[k])'
    <3>1. CASE k \in DOMAIN urls /\ urls'[k] = urls[k]
      BY <1>1, <1>6, <3>1 DEF RedirectsAreOwn, Own
    <3>2. CASE urls'[k] = url /\ chosen' = [chosen EXCEPT ![s] = person]
      <4>1. chosen'[s] = person
        BY <1>1, <3>2 DEF SignInTypes
      <4> QED BY <1>1, <1>2, <3>2, <4>1 DEF Own
    <3> QED BY <1>5, <3>1, <3>2
  <2>2. flow.received # None => Own(flow.received)'
    BY <1>1, <1>6 DEF RedirectsAreOwn, Own
  <2> QED BY <1>1, <2>1, <2>2 DEF RedirectsAreOwn
<1>11. CodeIsOwn'
  <2>1. flow.code # None => begun \in SignIns
    BY DEF FlowIsPending, CodeIsOwn
  <2> QED BY <1>1, <1>6, <2>1 DEF CodeIsOwn
<1>12. AccountsAreOwn'
  BY <1>1, <1>6 DEF AccountsAreOwn
<1> QED BY <1>7, <1>8, <1>9, <1>10, <1>11, <1>12

\* The page is reloaded in the middle of a sign-in.
LEMMA ProfileReloads ==
  ASSUME SignInInv, ReloadProfile
  PROVE  SignInInv'
<1> USE DEF SignInInv
<1>1. /\ flow # NoFlow /\ flow' = NoFlow /\ listening' = FALSE
      /\ profilePage' = ProfilePage(FALSE, None, FALSE)
      /\ orphans' = orphans \cup {begun}
      /\ UNCHANGED <<begun, signedIn, servers, tabs, urls, chosen>>
  BY DEF ReloadProfile
<1>2. flow'.at = "idle" /\ flow'.received = None /\ flow'.code = None /\ begun \in SignIns
  BY <1>1 DEF NoFlow, FlowIsPending
<1>3. SignInTypes'
  <2>1. flow' \in [at : {"idle"} \cup Opening \cup Serving \cup Requested, received : Urls \cup {None},
                   code : Someone, failed : BOOLEAN]
    BY <1>1 DEF NoFlow, Someone
  <2>2. profilePage' \in [pending : BOOLEAN, step : {None, "authorizing"} \cup Requested, error : BOOLEAN]
    BY <1>1 DEF ProfilePage
  <2> QED BY <1>1, <1>2, <2>1, <2>2 DEF SignInTypes
<1>4. FlowIsPending' /\ NothingIsLeft'
  BY <1>1, <1>2 DEF FlowIsPending, NothingIsLeft, ProfilePage
<1>5. UnopenedIsFresh'
  BY <1>1, <1>2 DEF UnopenedIsFresh, Unopened, Opening
<1>6. RedirectsAreOwn' /\ CodeIsOwn' /\ AccountsAreOwn'
  BY <1>1, <1>2 DEF RedirectsAreOwn, CodeIsOwn, AccountsAreOwn, Own
<1> QED BY <1>3, <1>4, <1>5, <1>6

\* An answer to a call ends the sign-in, or lets it go on.
LEMMA CallsAreAnswered ==
  ASSUME SignInInv, CallAnswered
  PROVE  SignInInv'
<1>1. CASE StartFails
  <2>1. Finish(TRUE) /\ flow.at = "start" /\ UNCHANGED <<begun, listening, servers, tabs, urls, orphans, chosen>>
    BY <1>1 DEF StartFails, backendVars
  <2> QED BY <2>1, SignInEnds
<1>2. CASE CancelServer
  <2>1. /\ flow.at = "cancel" /\ servers' = servers \ {begun} /\ (Finish(TRUE) \/ Proceeds)
        /\ UNCHANGED <<begun, listening, tabs, urls, orphans, chosen>>
    BY <1>2 DEF CancelServer
  <2> QED BY <2>1, SignInEnds, SignInProceeds
<1>3. ASSUME NEW step \in Requested \ {"finalizing"}, Answer(step) PROVE SignInInv'
  <2>1. /\ flow.at = step /\ (Finish(TRUE) \/ Proceeds)
        /\ UNCHANGED <<begun, listening, servers, tabs, urls, orphans, chosen>>
    BY <1>3 DEF Answer, backendVars
  <2>2. flow.at \in Requested /\ flow.at # "finalizing" /\ flow.at # "cancel"
    BY <2>1 DEF Requested
  <2> QED BY <2>1, <2>2, SignInEnds, SignInProceeds
<1>4. CASE fetchSkinAsBase64
  <2>1. /\ flow.at = "finalizing" /\ Finish(FALSE)
        /\ UNCHANGED <<begun, listening, servers, tabs, urls, orphans, chosen>>
    BY <1>4 DEF fetchSkinAsBase64, backendVars
  <2>2. flow.at \in Requested
    BY <2>1 DEF Requested
  <2> QED BY <2>1, <2>2, SignInEnds
<1>5. CASE RequestAnswered
  BY <1>3, <1>4, <1>5 DEF RequestAnswered, requestMicrosoftTokens, authenticateWithXboxLive, authorizeWithXsts,
       fetchMinecraftToken, fetchMinecraftProfile, Requested
<1>6. CASE StartServer \/ onUrl \/ openUrl
  BY <1>6, SignInOpens
<1>7. CASE CallFails \/ CheckRedirect
  BY <1>7, SignInIsLeft
<1> QED BY <1>1, <1>2, <1>5, <1>6, <1>7 DEF CallAnswered

\* Every step of signing in preserves the invariant.
LEMMA SignInStep == SignInInv /\ [SignInNext]_signInVars => SignInInv'
<1> SUFFICES ASSUME SignInInv, [SignInNext]_signInVars PROVE SignInInv'
  OBVIOUS
<1>1. CASE handleSignIn
  BY <1>1, SignInBegins
<1>2. CASE CallAnswered
  BY <1>2, CallsAreAnswered
<1>3. CASE Timeout \/ DeliverUrl
  BY <1>3, SignInReceives
<1>4. CASE ReloadProfile
  BY <1>4, ProfileReloads
<1>5. ASSUME NEW s \in tabs, CloseTab(s) PROVE SignInInv'
  <2>1. None \in Someone /\ "nothing" \in {"code", "denied", "nothing"}
    BY DEF Someone
  <2> QED BY <1>5, <2>1, BrowserEnds
<1>6. ASSUME NEW s \in tabs, NEW p \in People, NEW reply \in {"code", "denied", "nothing"}, Redirect(s, p, reply)
      PROVE  SignInInv'
  <2>1. p \in Someone
    BY DEF Someone
  <2> QED BY <1>6, <2>1, BrowserEnds
<1>7. CASE UNCHANGED signInVars
  BY <1>7 DEF signInVars, backendVars, SignInInv, SignInTypes, FlowIsPending, NothingIsLeft, UnopenedIsFresh, Unopened,
       RedirectsAreOwn, Own, CodeIsOwn, AccountsAreOwn
<1> QED BY <1>1, <1>2, <1>3, <1>4, <1>5, <1>6, <1>7 DEF SignInNext

\* The invariant holds in every reachable state, for any people and any number of sign-ins.
THEOREM SignInInvariance == SignInSafety => []SignInInv
<1> QED BY SignInStarts, SignInStep, PTL DEF SignInSafety

\* A sign-in returns the account of the one who signed in on the page it opened, whatever
\* redirects of earlier sign-ins arrive late; its server and its listener do not outlive it,
\* unless the page is reloaded in the middle (authorize-interactively.ts, Microsoft.vue).
THEOREM SignInsAreOwn == SignInSafety => []SignInIsOwn
<1>1. SignInInv => SignInIsOwn
  <2> SUFFICES ASSUME SignInInv PROVE SignInIsOwn
    OBVIOUS
  <2>1. \A s \in SignIns : signedIn[s] \in {None, chosen[s]}
    BY DEF SignInInv, AccountsAreOwn
  <2> QED BY <2>1 DEF SignInInv, NothingIsLeft, FlowIsPending, Serving, SignInIsOwn
<1> QED BY <1>1, SignInInvariance, PTL

\* The page, the sign-in under way, the servers, tabs and accounts keep their types.
THEOREM SignInTypeCorrectness == SignInSafety => []SignInTypeOK
<1>1. SignInInv => SignInTypeOK
  <2> SUFFICES ASSUME SignInInv PROVE SignInTypeOK
    OBVIOUS
  <2>1. {chosen[s] : s \in SignIns} \cup {signedIn[s] : s \in SignIns} \subseteq Someone
    BY DEF SignInInv, SignInTypes
  <2>2. Requested = {Chain[i] : i \in DOMAIN Chain}
    <3>1. DOMAIN Chain = {1, 2, 3, 4, 5, 6}
      BY DEF Chain
    <3> QED BY <3>1 DEF Chain, Requested
  <2> QED BY <2>1, <2>2 DEF SignInInv, SignInTypes, SignInTypeOK, Someone
<1> QED BY <1>1, SignInInvariance, PTL

-----------------------------------------------------------------------------
(* Putting an instance together.  A list of versions is used only for what *)
(* it was fetched for, and the draft holds together by itself.             *)

\* A version of the game, and of modloaders that run with it.
IsVersions(versions) ==
  /\ Minecraft \in DOMAIN versions /\ versions[Minecraft] \in Games
  /\ \A uid \in DOMAIN versions \ {Minecraft} : versions[uid].needs \in {None, versions[Minecraft]}

DraftTypes ==
  /\ place \in {"clean", "modrinth", "library"} /\ patch \in {Minecraft} \cup DOMAIN Published
  /\ importing \in [DOMAIN Manifests -> {"idle", "fetch", "peek"}]
  /\ instances \in Seq(ToSet(instances)) /\ installing \subseteq DOMAIN instances
  /\ imported # None => imported.path \in DOMAIN Manifests

\* The list of versions that is shown was published for its key.
ListedFits ==
  /\ listed.key[1] = Minecraft => listed.versions \subseteq Games
  /\ listed.key[1] \in DOMAIN Published => listed.versions \subseteq fetchAllVersions(listed.key[1], listed.key[2])

InstancesFit == \A i \in DOMAIN instances : IsVersions(instances[i].versions)

\* As long as nobody touches it, the draft is what the modpack declared.
UntouchedIsDeclared ==
  untouched # None =>
    /\ untouched \in DOMAIN Manifests
    /\ Manifests[untouched] # None /\ Manifests[untouched].game # None /\ Manifests[untouched].loader # None
    /\ draft # None /\ draft = resolvePatchVersions(Manifests[untouched])
    /\ patch = Manifests[untouched].loader

DraftInv ==
  /\ DraftTypes
  /\ ListedFits
  /\ IsVersions(Current)
  /\ InstancesFit
  /\ UntouchedIsDeclared
  /\ ModpackAsImported

DraftSafety == DraftInit /\ [][DraftNext]_draftVars

\* A version next to those that are there: another one keeps its own, the game too.
LEMMA WithVersionFits ==
  ASSUME NEW versions, IsVersions(versions), NEW uid, uid # Minecraft, NEW version,
         version.needs \in {None, versions[Minecraft]}
  PROVE  IsVersions(WithVersion(versions, uid, version))
<1> DEFINE new == WithVersion(versions, uid, version)
<1>1. /\ DOMAIN new = DOMAIN versions \cup {uid} /\ new[uid] = version
      /\ \A u \in DOMAIN versions : u # uid => new[u] = versions[u]
  BY DEF WithVersion
<1> HIDE DEF new
<1>2. new[Minecraft] = versions[Minecraft] /\ Minecraft \in DOMAIN new
  BY <1>1 DEF IsVersions
<1>3. \A u \in DOMAIN new \ {Minecraft} : new[u].needs \in {None, new[Minecraft]}
  BY <1>1, <1>2 DEF IsVersions
<1>4. IsVersions(new)
  BY <1>2, <1>3 DEF IsVersions
<1> QED BY <1>4 DEF new

\* The game alone.
LEMMA OnlyGameFits ==
  ASSUME NEW game \in Games
  PROVE  IsVersions(OnlyGame(game)) /\ OnlyGame(game)[Minecraft] = game
BY DEF IsVersions, OnlyGame

\* What a modpack declares holds together, and has the game and the loader.
LEMMA DeclaredFits ==
  ASSUME NEW a \in DOMAIN Manifests, Manifests[a] # None, resolvePatchVersions(Manifests[a]) # None
  PROVE  /\ Manifests[a].game # None /\ IsVersions(resolvePatchVersions(Manifests[a]))
         /\ DOMAIN resolvePatchVersions(Manifests[a]) \subseteq {Minecraft, Manifests[a].loader}
<1> DEFINE manifest == Manifests[a]
<1>1. manifest.game \in Games /\ manifest.game # None
  BY DraftAssumption DEF resolvePatchVersions
<1>2. IsVersions(OnlyGame(manifest.game)) /\ OnlyGame(manifest.game)[Minecraft] = manifest.game
      /\ DOMAIN OnlyGame(manifest.game) = {Minecraft}
  BY <1>1, OnlyGameFits DEF OnlyGame
<1>3. CASE manifest.loader = None
  BY <1>1, <1>2, <1>3 DEF resolvePatchVersions
<1>4. CASE manifest.loader # None
  <2>1. manifest.loader # Minecraft /\ manifest.version.needs \in {None, manifest.game}
    BY <1>1, <1>4, DraftAssumption
  <2>2. resolvePatchVersions(manifest) = WithVersion(OnlyGame(manifest.game), manifest.loader, manifest.version)
    BY <1>1, <1>4 DEF resolvePatchVersions
  <2>3. DOMAIN WithVersion(OnlyGame(manifest.game), manifest.loader, manifest.version) = {Minecraft, manifest.loader}
    BY <1>2 DEF WithVersion
  <2> HIDE DEF manifest
  <2>4. IsVersions(WithVersion(OnlyGame(manifest.game), manifest.loader, manifest.version))
    BY <1>2, <2>1, WithVersionFits
  <2> QED BY <1>1, <2>2, <2>3, <2>4 DEF manifest
<1> QED BY <1>3, <1>4

\* The page begins without a draft, and so with the game alone.
LEMMA DraftStarts == DraftInit => DraftInv
<1> SUFFICES ASSUME DraftInit PROVE DraftInv
  OBVIOUS
<1> USE DraftAssumption DEF DraftInit
<1>1. IsVersions(Current)
  BY OnlyGameFits DEF Current, NoDraft
<1>2. instances \in Seq(ToSet(instances)) /\ DOMAIN instances = {}
  BY EmptySeq DEF ToSet
<1>3. DraftTypes
  BY <1>2 DEF DraftTypes
<1>4. ListedFits /\ InstancesFit /\ UntouchedIsDeclared /\ ModpackAsImported
  BY <1>2 DEF ListedFits, NoList, InstancesFit, UntouchedIsDeclared, ModpackAsImported
<1> QED BY <1>1, <1>3, <1>4 DEF DraftInv

\* Steps that leave the draft and the instances alone: the user goes elsewhere, an import
\* begins, goes on or fails, an installation ends.
LEMMA QuietDraftSteps ==
  ASSUME DraftInv,
         \/ \E new \in {"clean", "modrinth", "library"} : Navigate(new)
         \/ \E a \in DOMAIN Manifests : handleImport(a) \/ Downloaded(a) \/ ImportFails(a)
         \/ \E i \in installing : installMrpack(i)
         \/ UNCHANGED draftVars
  PROVE  DraftInv'
<1> USE DEF DraftInv
<1>1. /\ place' \in {"clean", "modrinth", "library"} /\ installing' \subseteq installing
      /\ importing' \in [DOMAIN Manifests -> {"idle", "fetch", "peek"}]
      /\ UNCHANGED <<draft, patch, imported, listed, instances, untouched>>
  <2>1. ASSUME NEW new \in {"clean", "modrinth", "library"}, Navigate(new) PROVE <1>1!:
    BY <2>1 DEF Navigate, createdVars, DraftTypes
  <2>2. ASSUME NEW a \in DOMAIN Manifests, handleImport(a) \/ Downloaded(a) \/ ImportFails(a) PROVE <1>1!:
    BY <2>2 DEF handleImport, Downloaded, ImportFails, ImportAt, createdVars, DraftTypes
  <2>3. ASSUME NEW i \in installing, installMrpack(i) PROVE <1>1!:
    BY <2>3 DEF installMrpack, DraftTypes
  <2>4. CASE UNCHANGED draftVars
    BY <2>4 DEF draftVars, createdVars, DraftTypes
  <2> QED BY <2>1, <2>2, <2>3, <2>4
<1>2. DraftTypes'
  BY <1>1 DEF DraftTypes
<1>3. ListedFits'
  BY <1>1 DEF ListedFits, fetchAllVersions
<1>4. IsVersions(Current)'
  BY <1>1 DEF Current, IsVersions
<1>5. InstancesFit' /\ ModpackAsImported' /\ UntouchedIsDeclared'
  BY <1>1 DEF InstancesFit, IsVersions, ModpackAsImported, UntouchedIsDeclared, resolvePatchVersions
<1> QED BY <1>2, <1>3, <1>4, <1>5

\* Versions are fetched and chosen, also a patch; the page is reset.
LEMMA DraftChanges ==
  ASSUME DraftInv,
         \/ resetPageStates
         \/ \E uid \in {Minecraft} \cup DOMAIN Published :
              handlePatch(uid) \/ FetchVersions(uid) \/ \E v \in listed.versions : selectVersion(uid, v)
  PROVE  DraftInv'
<1> USE DEF DraftInv
<1>1. /\ UNCHANGED <<place, importing, instances, installing>>
      /\ patch' \in {Minecraft} \cup DOMAIN Published /\ (imported' = imported \/ imported' = None)
      /\ untouched' # None => UNCHANGED <<draft, patch, untouched>>
  BY DEF resetPageStates, handlePatch, FetchVersions, selectVersion, createdVars, DraftTypes
<1>2. DraftTypes'
  BY <1>1 DEF DraftTypes
<1>3. InstancesFit' /\ ModpackAsImported' /\ UntouchedIsDeclared'
  BY <1>1 DEF InstancesFit, IsVersions, ModpackAsImported, UntouchedIsDeclared, resolvePatchVersions
<1>4. ListedFits' /\ IsVersions(Current)'
  <2>1. CASE resetPageStates
    <3>1. listed' = listed /\ draft' = NoDraft
      BY <2>1 DEF resetPageStates
    <3>2. ListedFits'
      BY <3>1 DEF ListedFits, fetchAllVersions
    <3>3. Current' = OnlyGame(DefaultGame)
      BY <3>1 DEF Current, NoDraft
    <3> QED BY <3>2, <3>3, OnlyGameFits, DraftAssumption DEF IsVersions
  <2>2. ASSUME NEW uid \in {Minecraft} \cup DOMAIN Published, handlePatch(uid) PROVE <1>4!:
    BY <2>2 DEF handlePatch, ListedFits, fetchAllVersions, Current, IsVersions
  <2>3. ASSUME NEW uid \in {Minecraft} \cup DOMAIN Published, FetchVersions(uid) PROVE <1>4!:
    <3>1. /\ draft' = draft
          /\ listed' = [key |-> queryKey(uid), versions |-> fetchAllVersions(uid, Current[Minecraft])]
      BY <2>3 DEF FetchVersions
    <3>2. /\ listed'.versions = fetchAllVersions(uid, Current[Minecraft])
          /\ listed'.key[1] = uid /\ (uid # Minecraft => listed'.key[2] = Current[Minecraft])
      BY <3>1 DEF queryKey
    <3>3. ListedFits'
      BY <3>2, DraftAssumption DEF ListedFits, fetchAllVersions
    <3> QED BY <3>1, <3>3 DEF Current, IsVersions
  <2>4. ASSUME NEW uid \in {Minecraft} \cup DOMAIN Published, NEW v \in listed.versions, selectVersion(uid, v)
        PROVE  <1>4!:
    <3>1. listed.key = queryKey(uid) /\ draft' = handledPatchVersions(uid, v) /\ listed' = listed
      BY <2>4 DEF selectVersion
    <3>2. ListedFits'
      BY <3>1 DEF ListedFits, fetchAllVersions
    <3>3. IsVersions(handledPatchVersions(uid, v))
      <4>1. CASE uid = Minecraft
        <5>1. v \in Games
          BY <3>1, <4>1 DEF ListedFits, queryKey
        <5> QED BY <4>1, <5>1, OnlyGameFits DEF handledPatchVersions
      <4>2. CASE uid # Minecraft
        <5>1. listed.key[1] = uid /\ listed.key[2] = Current[Minecraft] /\ uid \in DOMAIN Published
          BY <3>1, <4>2 DEF queryKey
        <5>2. v.needs \in {None, Current[Minecraft]}
          BY <4>2, <5>1 DEF ListedFits, fetchAllVersions
        <5>3. IsVersions(WithVersion(Current, uid, v))
          BY <4>2, <5>2, WithVersionFits
        <5> QED BY <4>2, <5>3 DEF handledPatchVersions
      <4> QED BY <4>1, <4>2
    <3>4. IsVersions(OnlyGame(DefaultGame))
      BY OnlyGameFits, DraftAssumption
    <3>5. Current' \in {OnlyGame(DefaultGame), handledPatchVersions(uid, v)}
      BY <3>1 DEF Current, NoDraft
    <3>6. \A versions \in {OnlyGame(DefaultGame), handledPatchVersions(uid, v)} : IsVersions(versions)
      BY <3>3, <3>4
    <3> QED BY <3>2, <3>5, <3>6 DEF IsVersions
  <2> QED BY <2>1, <2>2, <2>3, <2>4
<1> QED BY <1>2, <1>3, <1>4

\* A modpack's manifest has been read, and replaces the draft.
LEMMA ModpackReplaces ==
  ASSUME DraftInv, NEW a \in DOMAIN Manifests, peekMrpack(a)
  PROVE  DraftInv'
<1> USE DEF DraftInv
<1> DEFINE manifest == Manifests[a]
           versions == IF manifest = None THEN None ELSE resolvePatchVersions(manifest)
           itsLoader == IF versions = None THEN None ELSE manifest.loader
<1>1. /\ imported' = [path |-> a, loader |-> IF itsLoader = None THEN Minecraft ELSE itsLoader]
      /\ draft' = IF manifest = None THEN draft ELSE IF versions = None THEN Current ELSE versions
      /\ patch' = IF itsLoader = None THEN patch ELSE itsLoader
      /\ untouched' = IF itsLoader = None THEN None ELSE a
      /\ importing' = [importing EXCEPT ![a] = "idle"]
      /\ place' \in {place, "clean"}
      /\ UNCHANGED <<listed, instances, installing>>
  BY DEF peekMrpack, applyManifest, ImportAt, createdVars
<1>2. versions # None => manifest # None /\ manifest.game # None /\ IsVersions(versions)
  BY DeclaredFits
<1>3. itsLoader # None => versions # None /\ itsLoader = manifest.loader /\ itsLoader \in DOMAIN Published
  BY <1>2, DraftAssumption
<1>4. UntouchedIsDeclared'
  <2>1. CASE itsLoader = None
    BY <1>1, <2>1 DEF UntouchedIsDeclared
  <2>2. CASE itsLoader # None
    <3>1. /\ untouched' = a /\ draft' = resolvePatchVersions(Manifests[a]) /\ draft' # None
          /\ patch' = Manifests[a].loader /\ Manifests[a].loader # None
      BY <1>1, <1>2, <1>3, <2>2
    <3>2. Manifests[a] # None /\ Manifests[a].game # None
      BY <1>2, <1>3, <2>2
    <3>3. resolvePatchVersions(Manifests[untouched])' = resolvePatchVersions(Manifests[a])
      BY <3>1 DEF resolvePatchVersions
    <3> QED BY <3>1, <3>2, <3>3 DEF UntouchedIsDeclared
  <2> QED BY <2>1, <2>2
<1>5. IsVersions(Current)'
  <2>1. Current' \in {Current, versions} /\ (Current' # Current => versions # None)
    BY <1>1 DEF Current
  <2>2. IsVersions(Current')
    BY <1>2, <2>1
  <2> QED BY <2>2 DEF IsVersions
<1>6. DraftTypes'
  <2>1. patch' \in {Minecraft} \cup DOMAIN Published
    BY <1>1, <1>3 DEF DraftTypes
  <2>2. imported'.path = a
    BY <1>1
  <2> QED BY <1>1, <2>1, <2>2 DEF DraftTypes
<1> HIDE DEF itsLoader, versions
<1>7. ListedFits'
  BY <1>1 DEF ListedFits, fetchAllVersions
<1>8. InstancesFit' /\ ModpackAsImported'
  BY <1>1 DEF InstancesFit, IsVersions, ModpackAsImported, resolvePatchVersions
<1> QED BY <1>4, <1>5, <1>6, <1>7, <1>8

\* An instance is created of the draft.
LEMMA InstanceIsCreated ==
  ASSUME DraftInv, handleCreate
  PROVE  DraftInv'
<1> USE DEF DraftInv
<1> DEFINE new == [versions |-> toAdd(Current), entry |-> patch,
                   modpack |-> IF imported = None THEN None ELSE imported.path,
                   asImported |-> imported # None /\ untouched = imported.path]
<1>1. /\ instances' = Append(instances, new)
      /\ installing' = installing \cup IF imported = None THEN {} ELSE {Len(instances')}
      /\ draft' = None /\ imported' = None /\ untouched' = None /\ place' = "library"
      /\ UNCHANGED <<patch, listed, importing>>
  BY DEF handleCreate
<1>2. /\ new.versions = toAdd(Current) /\ new.entry = patch
      /\ new.asImported => imported # None /\ untouched = imported.path /\ new.modpack = untouched
  OBVIOUS
<1> HIDE DEF new
<1>3. /\ instances' \in Seq(ToSet(instances')) /\ Len(instances) \in Nat /\ DOMAIN instances = 1..Len(instances)
      /\ Len(instances') = Len(instances) + 1 /\ DOMAIN instances' = 1..(Len(instances) + 1)
      /\ instances'[Len(instances) + 1] = new /\ \A i \in 1..Len(instances) : instances'[i] = instances[i]
  BY <1>1, AppendedStay DEF DraftTypes
<1>4. \A i \in DOMAIN instances' : (i \in DOMAIN instances /\ instances'[i] = instances[i]) \/ instances'[i] = new
  <2>1. \A i \in 1..(Len(instances) + 1) : i \in 1..Len(instances) \/ i = Len(instances) + 1
    BY <1>3
  <2> QED BY <1>3, <2>1
<1>5. DraftTypes'
  <2>1. installing' \subseteq DOMAIN instances'
    BY <1>1, <1>3 DEF DraftTypes
  <2> QED BY <1>1, <1>3, <2>1 DEF DraftTypes
<1>6. ListedFits' /\ UntouchedIsDeclared'
  BY <1>1 DEF ListedFits, fetchAllVersions, UntouchedIsDeclared
<1>7. IsVersions(Current)'
  <2>1. Current' = OnlyGame(DefaultGame)
    BY <1>1 DEF Current, NoDraft
  <2> QED BY <2>1, OnlyGameFits, DraftAssumption DEF IsVersions
<1>8. InstancesFit'
  <2>1. IsVersions(toAdd(Current))
    <3> DEFINE mappings == [version |-> Current[Minecraft], needs |-> Current[Minecraft]]
    <3>1. mappings.needs \in {None, Current[Minecraft]} /\ Intermediary # Minecraft
      BY DEF Intermediary, Minecraft
    <3>2. toAdd(Current) = Current \/ toAdd(Current) = WithVersion(Current, Intermediary, mappings)
      BY DEF toAdd
    <3> HIDE DEF mappings
    <3>3. IsVersions(WithVersion(Current, Intermediary, mappings))
      BY <3>1, WithVersionFits
    <3> QED BY <3>2, <3>3
  <2>2. \A i \in DOMAIN instances' : IsVersions(instances'[i].versions)
    BY <1>2, <1>4, <2>1 DEF InstancesFit
  <2> QED BY <2>2 DEF InstancesFit, IsVersions
<1>9. ModpackAsImported'
  <2> DEFINE AsImported(instance) ==
               instance.asImported =>
                 /\ instance.entry = Manifests[instance.modpack].loader
                 /\ \A uid \in DOMAIN resolvePatchVersions(Manifests[instance.modpack]) :
                      instance.versions[uid] = resolvePatchVersions(Manifests[instance.modpack])[uid]
  <2>1. \A i \in DOMAIN instances : AsImported(instances[i])
    BY DEF ModpackAsImported
  <2>2. AsImported(new)
    <3> SUFFICES ASSUME new.asImported PROVE AsImported(new)
      OBVIOUS
    <3> DEFINE manifest == Manifests[untouched]
    <3>1. new.modpack = untouched /\ untouched \in DOMAIN Manifests /\ untouched # None
      <4>1. imported # None /\ untouched = imported.path /\ new.modpack = untouched
        BY <1>2
      <4> QED BY <4>1, DraftAssumption DEF DraftTypes
    <3>2. /\ manifest # None /\ manifest.loader # None /\ draft # None /\ draft = resolvePatchVersions(manifest)
          /\ patch = manifest.loader
      BY <3>1 DEF UntouchedIsDeclared
    <3>3. Current = resolvePatchVersions(manifest) /\ DOMAIN Current \subseteq {Minecraft, patch}
      BY <3>1, <3>2, DeclaredFits DEF Current
    <3>4. \A uid \in DOMAIN Current : toAdd(Current)[uid] = Current[uid]
      <4>1. CASE patch = Fabric
        <5>1. Intermediary \notin DOMAIN Current
          BY <3>3, <4>1 DEF Intermediary, Fabric, Minecraft
        <5> QED BY <4>1, <5>1 DEF toAdd, WithVersion
      <4>2. CASE patch # Fabric
        BY <4>2 DEF toAdd
      <4> QED BY <4>1, <4>2
    <3> QED BY <1>2, <3>1, <3>2, <3>3, <3>4
  <2>3. \A i \in DOMAIN instances' : AsImported(instances'[i])
    BY <1>4, <2>1, <2>2
  <2> QED BY <2>3 DEF ModpackAsImported, resolvePatchVersions
<1> QED BY <1>5, <1>6, <1>7, <1>8, <1>9

\* Every step of putting an instance together preserves the invariant.
LEMMA DraftStep == DraftInv /\ [DraftNext]_draftVars => DraftInv'
<1> SUFFICES ASSUME DraftInv, [DraftNext]_draftVars PROVE DraftInv'
  OBVIOUS
<1>1. CASE handleCreate
  BY <1>1, InstanceIsCreated
<1>2. CASE \E a \in DOMAIN Manifests : peekMrpack(a)
  BY <1>2, ModpackReplaces
<1>3. CASE \/ resetPageStates
           \/ \E uid \in {Minecraft} \cup DOMAIN Published :
                handlePatch(uid) \/ FetchVersions(uid) \/ \E v \in listed.versions : selectVersion(uid, v)
  BY <1>3, DraftChanges
<1>4. CASE \/ \E new \in {"clean", "modrinth", "library"} : Navigate(new)
           \/ \E a \in DOMAIN Manifests : handleImport(a) \/ Downloaded(a) \/ ImportFails(a)
           \/ \E i \in installing : installMrpack(i)
           \/ UNCHANGED draftVars
  BY <1>4, QuietDraftSteps
<1> QED BY <1>1, <1>2, <1>3, <1>4 DEF DraftNext

\* The invariant holds in every reachable state, for any versions and modpacks that fit together.
THEOREM DraftInvariance == DraftSafety => []DraftInv
<1> QED BY DraftStarts, DraftStep, PTL DEF DraftSafety

\* Every version of a modloader, in the draft and in what was created, was published for the
\* version of the game next to it; an instance made of a modpack whose versions nobody touched
\* starts with the modpack's loader and has its versions, whatever was imported at the same time
\* (ChangeInstanceVersionDropdown.vue, apply-manifest.ts, create.ts).
THEOREM InstancesFitTogether == DraftSafety => []InstancesAsChosen
<1>1. DraftInv => InstancesAsChosen
  <2> SUFFICES ASSUME DraftInv PROVE InstancesAsChosen
    OBVIOUS
  <2>1. \A versions \in {Current} \cup {instances[i].versions : i \in DOMAIN instances} : IsVersions(versions)
    BY DEF DraftInv, InstancesFit
  <2> QED BY <2>1 DEF IsVersions, LoaderFitsGame, DraftInv, InstancesAsChosen
<1> QED BY <1>1, DraftInvariance, PTL

\* The page's place, the draft's game, the imports and the installations keep their types.
THEOREM DraftTypeCorrectness == DraftSafety => []DraftTypeOK
<1>1. DraftInv => DraftTypeOK
  BY DEF DraftInv, DraftTypes, InstancesFit, IsVersions, DraftTypeOK
<1> QED BY <1>1, DraftInvariance, PTL


-----------------------------------------------------------------------------
(* The launch pipeline (module LaunchPipeline), up to the merge.  What a   *)
(* validator has not found missing is there, and what it has is not, as    *)
(* long as no two launches prepare directories at one time.                *)

TaskStates == {"start", "open", "fetch", "write", "again", "extract", "extracting", "settled"}
Answers == {"good", "bad", "none", "patch", "false", "again"}
Tasks ==
  {t \in [uid : Uids, of : {"patch", "index"}, at : TaskStates, got : Answers \cup {None}] :
     t.at = "write" => t.got \in {"good", "bad"}}
Stages == {"idle", "directories", "entry", "requires", "done", "failed", "thrown"}

PipelineTypes ==
  /\ stage \in [Launches -> Stages] /\ made \subseteq AllDirectories
  /\ missing \in [Launches -> [Validators -> SUBSET (AllDirectories \cup {"todo", "rejected"})]]
  /\ groups \in [Launches -> Seq(Seq(Uids))] /\ tasks \in [Launches -> Seq(Tasks)]
  /\ resolved \in [Launches -> Seq(Uids)]
  /\ cache \in [Files -> Contents] /\ jar \in [jar : BOOLEAN, wrapper : {"absent", "half", "whole"}]
  /\ faults \in 0..MaxFaults /\ DOMAIN outcome = Launches /\ crowded \in BOOLEAN

\* What a validator of a launch has looked for: it is made, or to be made.
Looked(l, v) ==
  missing[l][v] # Todo => /\ missing[l][v] \subseteq Directories[v] \cup {"rejected"}
                          /\ Directories[v] \subseteq made \cup missing[l][v]
AtRest(l) == \A v \in Validators : missing[l][v] \in {Todo, {}}
AllMade(l) == \A v \in Validators : missing[l][v] = {}

LaunchIsKnown(l) ==
  /\ \A v \in Validators : Looked(l, v)
  /\ stage[l] \notin {"directories", "thrown"} => AtRest(l)
  /\ stage[l] \in {"entry", "requires", "done"} => AllMade(l)
  /\ stage[l] \in {"requires", "done"} => resolved[l] # <<>>
  /\ outcome[l] # None => stage[l] = "done"

\* A launch that is alone in this finds nothing made that it has to make.
LaunchIsAlone(l) ==
  /\ \A v \in Validators : missing[l][v] \cap made = {}
  /\ stage[l] = "thrown" => AllMade(l) /\ resolved[l] # <<>>
  /\ stage[l] = "directories" => \A k \in Launches \ {l} : stage[k] # "directories"

PipelineInv ==
  PipelineTypes /\ \A l \in Launches : LaunchIsKnown(l) /\ (~crowded => LaunchIsAlone(l))

PipelineSafety == PipelineInit /\ [][PipelineNext]_pipelineVars

-----------------------------------------------------------------------------
(* The patches of a launch.                                                *)

\* A task keeps its patch, whatever becomes of it.
LEMMA TaskStays ==
  ASSUME NEW t \in Tasks
  PROVE  /\ t.uid \in Uids
         /\ \A at \in TaskStates \ {"write"} : \A got \in Answers \cup {None} : [t EXCEPT !.at = at, !.got = got] \in Tasks
         /\ \A at \in TaskStates \ {"write"} : [t EXCEPT !.at = at] \in Tasks
         /\ \A got \in {"good", "bad"} : [t EXCEPT !.at = "write", !.got = got] \in Tasks
         /\ \A of \in {"patch", "index"} : [t EXCEPT !.at = "open", !.of = of] \in Tasks
         /\ [t EXCEPT !.of = "patch", !.at = "open", !.got = None] \in Tasks
<1> USE DEF Tasks
<1>1. t.uid \in Uids
  OBVIOUS
<1>2. ASSUME NEW at \in TaskStates \ {"write"}, NEW got \in Answers \cup {None} PROVE [t EXCEPT !.at = at, !.got = got] \in Tasks
  OBVIOUS
<1>3. ASSUME NEW at \in TaskStates \ {"write"} PROVE [t EXCEPT !.at = at] \in Tasks
  OBVIOUS
<1>4. ASSUME NEW got \in {"good", "bad"} PROVE [t EXCEPT !.at = "write", !.got = got] \in Tasks
  BY DEF TaskStates, Answers
<1>5. ASSUME NEW of \in {"patch", "index"} PROVE [t EXCEPT !.at = "open", !.of = of] \in Tasks
  BY DEF TaskStates
<1>6. [t EXCEPT !.of = "patch", !.at = "open", !.got = None] \in Tasks
  BY DEF TaskStates, Answers
<1> QED BY <1>1, <1>2, <1>3, <1>4, <1>5, <1>6

\* What was read settles a task, or leads from the index to the patch.
LEMMA ParsedIsTask ==
  ASSUME NEW t \in Tasks, NEW content
  PROVE  Parsed(t, content) \in Tasks
<1>1. {"start", "open", "fetch", "again", "extract", "extracting", "settled"} \subseteq TaskStates \ {"write"} /\ {"patch", "false"} \subseteq Answers
  BY DEF TaskStates, Answers
<1>2. IndexParsed(t, content) \in Tasks
  BY <1>1, TaskStays DEF IndexParsed
<1>3. PatchParsed(t, content) \in Tasks
  <2>1. [t EXCEPT !.at = "settled", !.got = "patch"] \in Tasks /\ [t EXCEPT !.at = "settled", !.got = "false"] \in Tasks
    BY <1>1, TaskStays
  <2>2. CASE content = "good" \/ (content = "bad" /\ t.uid \in Hooked)
    <3>1. PatchParsed(t, content) = [t EXCEPT !.at = "settled", !.got = "patch"]
      BY <2>2 DEF PatchParsed
    <3> QED BY <2>1, <3>1
  <2>3. CASE ~(content = "good" \/ (content = "bad" /\ t.uid \in Hooked))
    <3>1. PatchParsed(t, content) = [t EXCEPT !.at = "settled", !.got = "false"]
      BY <2>3 DEF PatchParsed
    <3> QED BY <2>1, <3>1
  <2> QED BY <2>2, <2>3
<1> QED BY <1>2, <1>3 DEF Parsed

\* The generation of OptiFine's patch goes on, or ends.
LEMMA GeneratedIsTask ==
  ASSUME NEW t \in Tasks
  PROVE  (\A ok \in BOOLEAN : Generated(t, ok) \in Tasks) /\ Inspected(t) \in Tasks
<1>1. {"again", "extract"} \subseteq TaskStates \ {"write"} /\ "again" \in Answers
  BY DEF TaskStates, Answers
<1>2. ASSUME NEW ok \in BOOLEAN PROVE Generated(t, ok) \in Tasks
  BY <1>1, TaskStays, ParsedIsTask DEF Generated
<1>3. [t EXCEPT !.at = "extract", !.got = "again"] \in Tasks /\ [t EXCEPT !.at = "extract", !.got = None] \in Tasks
  BY <1>1, TaskStays
<1>4. Inspected(t) \in Tasks
  BY <1>2, <1>3 DEF Inspected
<1> QED BY <1>2, <1>4

\* A task is replaced in the group of its launch.
LEMMA TaskBecomes ==
  ASSUME PipelineTypes, NEW l \in Launches, NEW i \in DOMAIN tasks[l], NEW t \in Tasks, Becomes(l, i, t)
  PROVE  tasks' \in [Launches -> Seq(Tasks)]
<1>1. tasks \in [Launches -> Seq(Tasks)] /\ tasks[l] \in Seq(Tasks)
  BY DEF PipelineTypes
<1>2. PICK list : list = [tasks[l] EXCEPT ![i] = t]
  OBVIOUS
<1>3. list \in Seq(Tasks)
  BY <1>1, <1>2, ReplacesOne
<1>4. tasks' = [tasks EXCEPT ![l] = list]
  BY <1>2 DEF Becomes
<1> QED BY <1>1, <1>3, <1>4

\* A group of patches begins.
LEMMA GroupIsTasks ==
  ASSUME NEW uids \in Seq(Uids)
  PROVE  Group(uids) \in Seq(Tasks)
<1>1. Len(uids) \in Nat /\ DOMAIN uids = 1..Len(uids)
  OBVIOUS
<1>2. \A i \in 1..Len(uids) : uids[i] \in Uids /\ Task(uids[i]) \in Tasks
  BY DEF Task, Tasks, TaskStates, Answers
<1>3. Group(uids) = [i \in 1..Len(uids) |-> Task(uids[i])]
  BY <1>1 DEF Group
<1> QED BY <1>1, <1>2, <1>3

\* What a group has brought are patches.
LEMMA GottenAreUids ==
  ASSUME PipelineTypes, NEW l \in Launches
  PROVE  Gotten(l) \in Seq(Uids)
<1> DEFINE ok == Selected(tasks[l], {t \in ToSet(tasks[l]) : t.got = "patch"})
<1>1. tasks[l] \in Seq(Tasks)
  BY DEF PipelineTypes
<1>2. ok \in Seq(Tasks)
  BY <1>1, SelectedAre
<1>3. Gotten(l) = [i \in DOMAIN ok |-> ok[i].uid]
  BY DEF Gotten
<1> HIDE DEF ok
<1>4. Len(ok) \in Nat /\ DOMAIN ok = 1..Len(ok) /\ \A i \in 1..Len(ok) : ok[i] \in Tasks
  BY <1>2
<1>5. \A i \in 1..Len(ok) : ok[i].uid \in Uids
  BY <1>4 DEF Tasks
<1> QED BY <1>3, <1>4, <1>5

-----------------------------------------------------------------------------
\* What is known of launches stays known when their tasks go on.
LEMMA LaunchesStay ==
  ASSUME PipelineInv, PipelineTypes', UNCHANGED <<stage, made, missing, resolved, outcome, crowded>>
  PROVE  PipelineInv'
<1>1. \A l \in Launches : LaunchIsKnown(l)' = LaunchIsKnown(l) /\ LaunchIsAlone(l)' = LaunchIsAlone(l)
  BY DEF LaunchIsKnown, LaunchIsAlone, Looked, AtRest, AllMade
<1> QED BY <1>1 DEF PipelineInv

\* At first no launch has begun.
LEMMA PipelineStarts == PipelineInit => PipelineInv
<1> SUFFICES ASSUME PipelineInit PROVE PipelineInv
  OBVIOUS
<1> USE DEF PipelineInit
<1>1. made \subseteq AllDirectories /\ cache \in [Files -> Contents]
  BY PipelineAssumption
<1>2. PipelineTypes
  <2>1. Unlooked \in [Validators -> SUBSET (AllDirectories \cup {"todo", "rejected"})]
    BY DEF Unlooked, Todo
  <2>2. <<>> \in Seq(Seq(Uids)) /\ <<>> \in Seq(Tasks) /\ <<>> \in Seq(Uids)
    BY EmptySeq
  <2>3. stage \in [Launches -> Stages] /\ 0 \in 0..MaxFaults
    BY PipelineAssumption DEF Stages
  <2>4. /\ groups \in [Launches -> Seq(Seq(Uids))] /\ tasks \in [Launches -> Seq(Tasks)] /\ resolved \in [Launches -> Seq(Uids)]
        /\ DOMAIN outcome = Launches
    BY <2>2
  <2> QED BY <1>1, <2>1, <2>3, <2>4 DEF PipelineTypes
<1>3. \A l \in Launches : LaunchIsKnown(l) /\ LaunchIsAlone(l)
  <2> TAKE l \in Launches
  <2>1. stage[l] = "idle" /\ outcome[l] = None /\ \A v \in Validators : missing[l][v] = Todo
    BY DEF Unlooked
  <2>2. Todo \cap made = {}
    BY <1>1, PipelineAssumption DEF Todo
  <2> QED BY <2>1, <2>2 DEF LaunchIsKnown, LaunchIsAlone, Looked, AtRest
<1> QED BY <1>2, <1>3 DEF PipelineInv

\* A patch is resolved, by one step of it.
LEMMA ResolveSteps ==
  ASSUME PipelineInv, NEW l \in Launches, NEW i \in DOMAIN tasks[l], ResolveStep(l, i)
  PROVE  PipelineInv'
<1>1. PipelineTypes
  BY DEF PipelineInv
<1>2. UNCHANGED <<stage, made, missing, groups, resolved, outcome, crowded>>
  BY DEF ResolveStep, Begin, Open, Fetch, Write, Again, GetOptiFine, ExtractWrapper, Extracted, Untouched
<1>3. PICK t \in Tasks : t = tasks[l][i]
  <2>1. tasks[l] \in Seq(Tasks)
    BY <1>1 DEF PipelineTypes
  <2>2. tasks[l][i] \in Tasks
    BY <2>1
  <2> QED BY <2>2
<1>4. /\ cache \in [Files -> Contents] /\ jar \in [jar : BOOLEAN, wrapper : {"absent", "half", "whole"}]
      /\ faults \in 0..MaxFaults /\ MaxFaults \in Nat
  BY <1>1, PipelineAssumption DEF PipelineTypes
<1>5. ASSUME NEW bad \in BOOLEAN, Fails(bad) PROVE faults' \in 0..MaxFaults
  BY <1>4, <1>5 DEF Fails
<1> DEFINE typed == /\ \E u \in Tasks : Becomes(l, i, u)
                    /\ cache' \in [Files -> Contents] /\ jar' \in [jar : BOOLEAN, wrapper : {"absent", "half", "whole"}]
                    /\ faults' \in 0..MaxFaults
<1>6. {"start", "open", "fetch", "again", "extract", "extracting", "settled"} \subseteq TaskStates \ {"write"}
      /\ {"patch", "false"} \subseteq Answers
  BY DEF TaskStates, Answers
<1>7. typed
  <2>1. CASE Begin(l, i)
    <3>1. UNCHANGED <<cache, jar, faults>>
      BY <2>1 DEF Begin, storeVars
    <3>2. PICK quick \in BOOLEAN :
            Becomes(l, i, IF quick THEN [t EXCEPT !.at = "settled", !.got = "patch"]
                          ELSE [t EXCEPT !.at = "open", !.of = IF t.uid \in Indexed THEN "index" ELSE "patch"])
      BY <1>3, <2>1 DEF Begin
    <3>3. [t EXCEPT !.at = "settled", !.got = "patch"] \in Tasks
      BY <1>6, TaskStays
    <3>4. PICK of \in {"patch", "index"} : of = IF t.uid \in Indexed THEN "index" ELSE "patch"
      OBVIOUS
    <3>5. [t EXCEPT !.at = "open", !.of = of] \in Tasks
      BY TaskStays
    <3> QED BY <1>4, <3>1, <3>2, <3>3, <3>4, <3>5
  <2>2. CASE Open(l, i)
    <3>1. UNCHANGED <<cache, jar, faults>>
      BY <2>2 DEF Open, storeVars
    <3>2. PICK content : content = cache[File(t)]
      OBVIOUS
    <3>3. Becomes(l, i, IF content \in {"good", "bad"} THEN Parsed(t, content) ELSE [t EXCEPT !.at = "fetch"])
      BY <1>3, <2>2, <3>2 DEF Open
    <3>4. Parsed(t, content) \in Tasks /\ [t EXCEPT !.at = "fetch"] \in Tasks
      BY <1>6, ParsedIsTask, TaskStays
    <3> QED BY <1>4, <3>1, <3>3, <3>4
  <2>3. CASE Fetch(l, i)
    <3>1. UNCHANGED <<cache, jar>>
      BY <2>3 DEF Fetch
    <3>2. PICK reply \in {"good", "bad", "none"} :
            /\ Fails(reply # "good")
            /\ Becomes(l, i, IF reply = "none" THEN [t EXCEPT !.at = "again"] ELSE [t EXCEPT !.at = "write", !.got = reply])
      BY <1>3, <2>3 DEF Fetch
    <3>3. [t EXCEPT !.at = "again"] \in Tasks /\ (reply # "none" => [t EXCEPT !.at = "write", !.got = reply] \in Tasks)
      BY <1>6, TaskStays
    <3> QED BY <1>4, <1>5, <3>1, <3>2, <3>3
  <2>4. CASE Write(l, i)
    <3>1. t.at = "write" /\ jar' = jar
      BY <1>3, <2>4 DEF Write, Resolving
    <3>2. t.got \in {"good", "bad"}
      BY <3>1 DEF Tasks
    <3>3. Parsed(t, t.got) \in Tasks /\ [t EXCEPT !.at = "again"] \in Tasks
      BY <1>6, ParsedIsTask, TaskStays
    <3>4. \/ cache' = [cache EXCEPT ![File(t)] = t.got] /\ Becomes(l, i, Parsed(t, t.got)) /\ Fails(FALSE)
          \/ /\ cache' \in {cache, [cache EXCEPT ![File(t)] = "corrupt"]}
             /\ Becomes(l, i, [t EXCEPT !.at = "again"]) /\ Fails(TRUE)
      BY <1>3, <2>4 DEF Write
    <3>5. cache' \in [Files -> Contents]
      BY <1>4, <3>2, <3>4 DEF Contents
    <3>6. faults' \in 0..MaxFaults
      BY <1>5, <3>4
    <3> QED BY <1>4, <3>1, <3>3, <3>4, <3>5, <3>6
  <2>5. CASE Again(l, i)
    <3>1. UNCHANGED <<cache, jar>>
      BY <2>5 DEF Again
    <3>2. PICK reply \in {"good", "bad", "none"} : Fails(reply # "good") /\ Becomes(l, i, Parsed(t, reply))
      BY <1>3, <2>5 DEF Again
    <3>3. Parsed(t, reply) \in Tasks
      BY ParsedIsTask
    <3> QED BY <1>4, <1>5, <3>1, <3>2, <3>3
  <2>6. CASE GetOptiFine(l, i, "fetch") \/ GetOptiFine(l, i, "again")
    <3>1. /\ cache' = cache
          /\ \/ jar' = [jar EXCEPT !.jar = TRUE] /\ Becomes(l, i, Inspected(t)) /\ Fails(FALSE)
             \/ jar' = jar /\ Becomes(l, i, Generated(t, FALSE)) /\ Fails(TRUE)
      BY <1>3, <2>6 DEF GetOptiFine
    <3>2. Inspected(t) \in Tasks /\ Generated(t, FALSE) \in Tasks
      BY GeneratedIsTask
    <3>3. faults' \in 0..MaxFaults
      BY <1>5, <3>1
    <3> QED BY <1>4, <3>1, <3>2, <3>3
  <2>7. CASE ExtractWrapper(l, i)
    <3>1. UNCHANGED <<cache, faults>> /\ jar' = [jar EXCEPT !.wrapper = "half"] /\ Becomes(l, i, [t EXCEPT !.at = "extracting"])
      BY <1>3, <2>7 DEF ExtractWrapper
    <3>2. [t EXCEPT !.at = "extracting"] \in Tasks
      BY <1>6, TaskStays
    <3> QED BY <1>4, <3>1, <3>2
  <2>8. CASE Extracted(l, i)
    <3>1. PICK ok \in BOOLEAN :
            Fails(~ok) /\ jar' = (IF ok THEN [jar EXCEPT !.wrapper = "whole"] ELSE jar) /\ Becomes(l, i, Generated(t, ok))
      BY <1>3, <2>8 DEF Extracted
    <3>2. cache' = cache /\ Generated(t, ok) \in Tasks
      BY <2>8, GeneratedIsTask DEF Extracted
    <3> QED BY <1>4, <1>5, <3>1, <3>2
  <2> QED BY <2>1, <2>2, <2>3, <2>4, <2>5, <2>6, <2>7, <2>8 DEF ResolveStep
<1>8. tasks' \in [Launches -> Seq(Tasks)]
  BY <1>1, <1>7, TaskBecomes
<1>9. PipelineTypes'
  BY <1>1, <1>2, <1>7, <1>8 DEF PipelineTypes
<1> QED BY <1>2, <1>9, LaunchesStay

\* A launch begins, or is refused.
LEMMA LaunchStarts ==
  ASSUME PipelineInv, NEW l \in Launches, Start(l)
  PROVE  PipelineInv'
<1>1. PipelineTypes /\ \A k \in Launches : LaunchIsKnown(k) /\ (~crowded => LaunchIsAlone(k))
  BY DEF PipelineInv
<1>2. /\ stage[l] = "idle"
      /\ \E s \in {"directories", "failed"} : stage' = [stage EXCEPT ![l] = s]
      /\ crowded' = (crowded \/ ((\E k \in Launches \ {l} : stage[k] = "directories") /\ stage'[l] = "directories"))
      /\ UNCHANGED <<made, missing, groups, tasks, resolved, cache, jar, faults, outcome>>
  BY DEF Start, resolveVars, storeVars
<1>3. PICK s \in {"directories", "failed"} : stage' = [stage EXCEPT ![l] = s]
  BY <1>2
<1>4. stage' \in [Launches -> Stages] /\ stage'[l] = s /\ \A k \in Launches : k # l => stage'[k] = stage[k]
  BY <1>1, <1>3 DEF PipelineTypes, Stages
<1>5. PipelineTypes'
  BY <1>1, <1>2, <1>4 DEF PipelineTypes
<1>6. ASSUME NEW k \in Launches PROVE LaunchIsKnown(k)'
  BY <1>1, <1>2, <1>4 DEF LaunchIsKnown, Looked, AtRest, AllMade
<1>7. ASSUME NEW k \in Launches, ~crowded' PROVE LaunchIsAlone(k)'
  <2>1. ~crowded /\ (s = "directories" => \A j \in Launches \ {l} : stage[j] # "directories")
    BY <1>2, <1>4, <1>7
  <2>2. LaunchIsAlone(k)
    BY <1>1, <2>1
  <2> QED BY <1>2, <1>4, <2>1, <2>2 DEF LaunchIsAlone, AllMade
<1> QED BY <1>5, <1>6, <1>7 DEF PipelineInv

\* What a validator found missing changes in one place.
LEMMA OneIsMissing ==
  ASSUME PipelineTypes, NEW l \in Launches, NEW v \in Validators, NEW m \in SUBSET (AllDirectories \cup {"todo", "rejected"}),
         missing' = [missing EXCEPT ![l][v] = m]
  PROVE  /\ missing' \in [Launches -> [Validators -> SUBSET (AllDirectories \cup {"todo", "rejected"})]]
         /\ missing'[l][v] = m
         /\ \A k \in Launches, w \in Validators : k # l \/ w # v => missing'[k][w] = missing[k][w]
<1> DEFINE Found == SUBSET (AllDirectories \cup {"todo", "rejected"})
<1>1. missing \in [Launches -> [Validators -> Found]] /\ m \in Found
  BY DEF PipelineTypes
<1>2. PICK of : of = [missing[l] EXCEPT ![v] = m]
  OBVIOUS
<1>3. missing' = [missing EXCEPT ![l] = of]
  BY <1>2
<1> HIDE DEF Found
<1>4. missing[l] \in [Validators -> Found]
  BY <1>1
<1>5. of \in [Validators -> Found] /\ of[v] = m /\ \A w \in Validators : w # v => of[w] = missing[l][w]
  BY <1>1, <1>2, <1>4
<1>6. missing' \in [Launches -> [Validators -> Found]] /\ missing'[l] = of /\ \A k \in Launches : k # l => missing'[k] = missing[k]
  BY <1>1, <1>3, <1>5
<1> QED BY <1>5, <1>6 DEF Found

\* A validator looks for its directories.
LEMMA ValidatorLooks ==
  ASSUME PipelineInv, NEW l \in Launches, NEW v \in Validators, Looks(l, v)
  PROVE  PipelineInv'
<1>1. PipelineTypes /\ \A k \in Launches : LaunchIsKnown(k) /\ (~crowded => LaunchIsAlone(k))
  BY DEF PipelineInv
<1>2. /\ stage[l] \in {"directories", "thrown"} /\ missing[l][v] = Todo
      /\ missing' = [missing EXCEPT ![l][v] = Directories[v] \ made]
      /\ UNCHANGED <<stage, made, groups, tasks, resolved, cache, jar, faults, outcome, crowded>>
  BY DEF Looks, resolveVars, storeVars
<1>3. Directories[v] \subseteq AllDirectories /\ Todo # {}
  BY DEF AllDirectories, Todo
<1>4. /\ missing' \in [Launches -> [Validators -> SUBSET (AllDirectories \cup {"todo", "rejected"})]]
      /\ missing'[l][v] = Directories[v] \ made
      /\ \A k \in Launches, w \in Validators : k # l \/ w # v => missing'[k][w] = missing[k][w]
  <2>1. PICK m \in SUBSET (AllDirectories \cup {"todo", "rejected"}) : m = Directories[v] \ made
    BY <1>3
  <2>2. missing' = [missing EXCEPT ![l][v] = m]
    BY <1>2, <2>1
  <2>3. /\ missing' \in [Launches -> [Validators -> SUBSET (AllDirectories \cup {"todo", "rejected"})]]
        /\ missing'[l][v] = m
        /\ \A k \in Launches, w \in Validators : k # l \/ w # v => missing'[k][w] = missing[k][w]
    BY <1>1, <2>2, OneIsMissing
  <2> QED BY <2>1, <2>3
<1>5. PipelineTypes'
  BY <1>1, <1>2, <1>4 DEF PipelineTypes
<1>6. ASSUME NEW k \in Launches PROVE LaunchIsKnown(k)'
  <2>1. LaunchIsKnown(k)
    BY <1>1
  <2>2. ASSUME NEW w \in Validators PROVE Looked(k, w)'
    <3>1. CASE k = l /\ w = v
      BY <1>2, <1>4, <3>1 DEF Looked
    <3>2. CASE k # l \/ w # v
      <4>1. missing'[k][w] = missing[k][w] /\ made' = made
        BY <1>2, <1>4, <3>2
      <4> QED BY <2>1, <4>1 DEF LaunchIsKnown, Looked
    <3> QED BY <3>1, <3>2
  <2>3. CASE k = l
    BY <1>2, <2>1, <2>2, <2>3 DEF LaunchIsKnown
  <2>4. CASE k # l
    <3>1. \A w \in Validators : missing'[k][w] = missing[k][w]
      BY <1>4, <2>4
    <3> QED BY <1>2, <2>1, <2>2, <3>1 DEF LaunchIsKnown, AtRest, AllMade
  <2> QED BY <2>3, <2>4
<1>7. ASSUME NEW k \in Launches, ~crowded' PROVE LaunchIsAlone(k)'
  <2>1. LaunchIsAlone(k) /\ LaunchIsAlone(l)
    BY <1>1, <1>2, <1>7
  <2>2. stage[l] # "thrown"
    BY <1>2, <1>3, <2>1 DEF LaunchIsAlone, AllMade
  <2>3. \A w \in Validators : missing'[k][w] \cap made' = {}
    BY <1>2, <1>4, <2>1 DEF LaunchIsAlone
  <2>4. k # l => \A w \in Validators : missing'[k][w] = missing[k][w]
    BY <1>4
  <2> QED BY <1>2, <2>1, <2>2, <2>3, <2>4 DEF LaunchIsAlone, AllMade
<1> QED BY <1>5, <1>6, <1>7 DEF PipelineInv

\* A directory is made, or mkdir refuses it.
LEMMA DirectoryIsMade ==
  ASSUME PipelineInv, NEW l \in Launches, NEW v \in Validators, NEW d \in AllDirectories, Make(l, v, d)
  PROVE  PipelineInv'
<1>1. PipelineTypes /\ \A k \in Launches : LaunchIsKnown(k) /\ (~crowded => LaunchIsAlone(k))
  BY DEF PipelineInv
<1>2. /\ stage[l] \in {"directories", "thrown"} /\ missing[l][v] # Todo /\ d \in missing[l][v]
      /\ \/ d \in made /\ stage' = [stage EXCEPT ![l] = "thrown"] /\ made' = made
         \/ d \notin made /\ made' = made \cup {d} /\ stage' = stage
      /\ missing' = [missing EXCEPT ![l][v] = (missing[l][v] \ {d}) \cup (IF d \in made THEN {"rejected"} ELSE {})]
      /\ UNCHANGED <<groups, tasks, resolved, cache, jar, faults, outcome, crowded>>
  BY DEF Make, resolveVars, storeVars
<1> DEFINE m == (missing[l][v] \ {d}) \cup (IF d \in made THEN {"rejected"} ELSE {})
<1>3. missing[l][v] \in SUBSET (AllDirectories \cup {"todo", "rejected"})
  BY <1>1 DEF PipelineTypes
<1>4. /\ missing' \in [Launches -> [Validators -> SUBSET (AllDirectories \cup {"todo", "rejected"})]]
      /\ missing'[l][v] = m
      /\ \A k \in Launches, w \in Validators : k # l \/ w # v => missing'[k][w] = missing[k][w]
  <2>1. m \in SUBSET (AllDirectories \cup {"todo", "rejected"})
    BY <1>3
  <2>2. missing' = [missing EXCEPT ![l][v] = m]
    BY <1>2
  <2> HIDE DEF m
  <2> QED BY <1>1, <2>1, <2>2, OneIsMissing
<1>5. /\ made \subseteq made' /\ made' \subseteq AllDirectories /\ made' \subseteq made \cup {d}
      /\ stage' \in [Launches -> Stages] /\ stage'[l] \in {"directories", "thrown"}
      /\ \A k \in Launches : k # l => stage'[k] = stage[k]
  BY <1>1, <1>2 DEF PipelineTypes, Stages
<1>6. PipelineTypes'
  BY <1>1, <1>2, <1>4, <1>5 DEF PipelineTypes
<1>7. /\ missing[l][v] \subseteq Directories[v] \cup {"rejected"} /\ Directories[v] \subseteq made \cup missing[l][v]
      /\ d \notin {"todo", "rejected"} /\ d \in Directories[v] /\ d \notin Todo
  BY <1>1, <1>2, PipelineAssumption DEF LaunchIsKnown, Looked, Todo
<1>8. ASSUME NEW k \in Launches PROVE LaunchIsKnown(k)'
  <2>1. LaunchIsKnown(k)
    BY <1>1
  <2>2. ASSUME NEW w \in Validators PROVE Looked(k, w)'
    <3>1. CASE k = l /\ w = v
      <4>1. m \subseteq Directories[v] \cup {"rejected"} /\ Directories[v] \subseteq made' \cup m
        BY <1>2, <1>7
      <4> QED BY <1>4, <3>1, <4>1 DEF Looked
    <3>2. CASE k # l \/ w # v
      <4>1. missing'[k][w] = missing[k][w]
        BY <1>4, <3>2
      <4> QED BY <1>5, <2>1, <4>1 DEF LaunchIsKnown, Looked
    <3> QED BY <3>1, <3>2
  <2>3. CASE k = l
    <3>1. stage'[k] \in {"directories", "thrown"} /\ outcome' = outcome /\ stage[k] # "done"
      BY <1>2, <1>5, <2>3
    <3> QED BY <2>1, <2>2, <3>1 DEF LaunchIsKnown
  <2>4. CASE k # l
    <3>1. \A w \in Validators : missing'[k][w] = missing[k][w]
      BY <1>4, <2>4
    <3>2. stage'[k] = stage[k] /\ resolved' = resolved /\ outcome' = outcome
      BY <1>2, <1>5, <2>4
    <3> QED BY <2>1, <2>2, <3>1, <3>2 DEF LaunchIsKnown, AtRest, AllMade
  <2> QED BY <2>3, <2>4
<1>9. ASSUME NEW k \in Launches, ~crowded' PROVE LaunchIsAlone(k)'
  <2>1. LaunchIsAlone(k) /\ LaunchIsAlone(l) /\ LaunchIsKnown(k)
    BY <1>1, <1>2, <1>9
  <2>2. d \notin made /\ stage[l] = "directories" /\ stage' = stage /\ made' = made \cup {d}
    BY <1>2, <2>1 DEF LaunchIsAlone, AllMade
  <2>3. ASSUME NEW w \in Validators PROVE missing'[k][w] \cap made' = {}
    <3>1. CASE k = l /\ w = v
      <4>1. m = missing[l][v] \ {d}
        BY <2>2
      <4> QED BY <1>4, <2>1, <2>2, <3>1, <4>1 DEF LaunchIsAlone
    <3>2. CASE k = l /\ w # v
      <4>1. d \notin Directories[w] \cup {"rejected"} \cup Todo
        BY <1>7, <3>2, PipelineAssumption
      <4>2. d \notin missing[k][w]
        BY <2>1, <4>1 DEF LaunchIsKnown, Looked
      <4> QED BY <1>4, <2>1, <2>2, <3>2, <4>2 DEF LaunchIsAlone
    <3>3. CASE k # l
      <4>1. stage[k] # "directories"
        BY <2>1, <2>2, <3>3 DEF LaunchIsAlone
      <4>2. missing[k][w] \in {Todo, {}}
        BY <2>1, <4>1 DEF LaunchIsAlone, LaunchIsKnown, AtRest, AllMade
      <4>3. d \notin missing[k][w]
        BY <1>7, <4>2
      <4> QED BY <1>4, <2>1, <2>2, <3>3, <4>3 DEF LaunchIsAlone
    <3> QED BY <3>1, <3>2, <3>3
  <2>4. k # l => \A w \in Validators : missing'[k][w] = missing[k][w]
    BY <1>4
  <2> QED BY <1>2, <2>1, <2>2, <2>3, <2>4 DEF LaunchIsAlone, AllMade
<1> QED BY <1>6, <1>8, <1>9 DEF PipelineInv

\* A launch goes on, with its directories and groups of patches.
LEMMA LaunchGoesOn ==
  ASSUME PipelineInv, NEW l \in Launches, NEW s \in {"entry", "requires", "done", "failed", "thrown"},
         PipelineTypes', stage' = [stage EXCEPT ![l] = s], UNCHANGED <<made, missing, crowded>>, AllMade(l),
         \A k \in Launches \ {l} : resolved'[k] = resolved[k] /\ outcome'[k] = outcome[k],
         s \in {"requires", "done", "thrown"} => resolved'[l] # <<>>, outcome'[l] # None => s = "done"
  PROVE  PipelineInv'
<1>1. PipelineTypes /\ \A k \in Launches : LaunchIsKnown(k) /\ (~crowded => LaunchIsAlone(k))
  BY DEF PipelineInv
<1>2. stage'[l] = s /\ \A k \in Launches : k # l => stage'[k] = stage[k]
  BY <1>1 DEF PipelineTypes
<1>3. \A k \in Launches, v \in Validators : missing'[k][v] = missing[k][v] /\ Looked(k, v)' = Looked(k, v)
  BY DEF Looked
<1>4. \A k \in Launches : AtRest(k)' = AtRest(k) /\ AllMade(k)' = AllMade(k) /\ (AllMade(k) => AtRest(k))
  BY DEF AtRest, AllMade
<1>5. ASSUME NEW k \in Launches PROVE LaunchIsKnown(k)'
  <2>1. LaunchIsKnown(k)
    BY <1>1
  <2>2. CASE k = l
    BY <1>2, <1>3, <1>4, <2>1, <2>2 DEF LaunchIsKnown
  <2>3. CASE k # l
    BY <1>2, <1>3, <1>4, <2>1, <2>3 DEF LaunchIsKnown
  <2> QED BY <2>2, <2>3
<1>6. ASSUME NEW k \in Launches, ~crowded' PROVE LaunchIsAlone(k)'
  <2>1. LaunchIsAlone(k)
    BY <1>1, <1>6
  <2>2. CASE k = l
    BY <1>2, <1>3, <1>4, <2>1, <2>2 DEF LaunchIsAlone
  <2>3. CASE k # l
    BY <1>2, <1>3, <1>4, <2>1, <2>3 DEF LaunchIsAlone
  <2> QED BY <2>2, <2>3
<1> QED BY <1>5, <1>6 DEF PipelineInv

\* The directories are there, and the entry is resolved next.
LEMMA DirectoriesArePrepared ==
  ASSUME PipelineInv, NEW l \in Launches, Prepared(l)
  PROVE  PipelineInv'
<1>1. PipelineTypes
  BY DEF PipelineInv
<1>2. /\ stage[l] = "directories" /\ AllMade(l) /\ stage' = [stage EXCEPT ![l] = "entry"]
      /\ tasks' = [tasks EXCEPT ![l] = Group(<<Entry[l]>>)]
      /\ UNCHANGED <<made, missing, groups, resolved, cache, jar, faults, outcome, crowded>>
  BY DEF Prepared, AllMade, storeVars
<1>3. Group(<<Entry[l]>>) \in Seq(Tasks)
  <2>1. Entry[l] \in Uids
    BY PipelineAssumption
  <2>2. <<Entry[l]>> \in Seq(Uids)
    BY <2>1
  <2> QED BY <2>2, GroupIsTasks
<1>4. PipelineTypes'
  BY <1>1, <1>2, <1>3 DEF PipelineTypes, Stages
<1>5. outcome[l] = None
  BY <1>2 DEF PipelineInv, LaunchIsKnown
<1> QED BY <1>2, <1>4, <1>5, LaunchGoesOn

\* The entry is resolved, or there is nothing to launch.
LEMMA EntryIsResolved ==
  ASSUME PipelineInv, NEW l \in Launches, EntryResolved(l)
  PROVE  PipelineInv'
<1>1. PipelineTypes
  BY DEF PipelineInv
<1>2. PICK gotten : gotten = Gotten(l)
  OBVIOUS
<1>3. PICK s \in {"failed", "requires"} : s = IF gotten = <<>> THEN "failed" ELSE "requires"
  OBVIOUS
<1>4. PICK group : group = IF gotten = <<>> THEN <<>> ELSE Group(Requires[Entry[l]])
  OBVIOUS
<1>5. /\ stage[l] = "entry" /\ stage' = [stage EXCEPT ![l] = s]
      /\ resolved' = [resolved EXCEPT ![l] = gotten] /\ tasks' = [tasks EXCEPT ![l] = group]
      /\ UNCHANGED <<made, missing, groups, cache, jar, faults, outcome, crowded>>
  BY <1>2, <1>3, <1>4 DEF EntryResolved, storeVars
<1>6. gotten \in Seq(Uids)
  BY <1>1, <1>2, GottenAreUids
<1>7. group \in Seq(Tasks)
  <2>1. Requires[Entry[l]] \in Seq(Uids)
    BY PipelineAssumption
  <2> QED BY <1>4, <2>1, GroupIsTasks, EmptySeq
<1>8. PipelineTypes'
  BY <1>1, <1>3, <1>5, <1>6, <1>7 DEF PipelineTypes, Stages
<1>9. AllMade(l) /\ outcome[l] = None
  BY <1>5 DEF PipelineInv, LaunchIsKnown
<1>10. resolved'[l] = gotten /\ \A k \in Launches \ {l} : resolved'[k] = resolved[k] /\ outcome'[k] = outcome[k]
  BY <1>1, <1>5 DEF PipelineTypes
<1> QED BY <1>3, <1>5, <1>8, <1>9, <1>10, LaunchGoesOn

\* A group of required patches is resolved, and the next one begins.
LEMMA GroupIsResolved ==
  ASSUME PipelineInv, NEW l \in Launches, GroupResolved(l)
  PROVE  PipelineInv'
<1>1. PipelineTypes
  BY DEF PipelineInv
<1>2. stage[l] = "requires" /\ UNCHANGED <<stage, made, missing, cache, jar, faults, outcome, crowded>> /\ Grouped(l)
  BY DEF GroupResolved, storeVars
<1>3. PICK gotten : gotten = Gotten(l)
  OBVIOUS
<1>4. PICK queue : queue = groups[l] \o [i \in DOMAIN gotten |-> Requires[gotten[i]]]
  OBVIOUS
<1>5. gotten \in Seq(Uids) /\ groups[l] \in Seq(Seq(Uids)) /\ resolved[l] \in Seq(Uids)
  BY <1>1, <1>3, GottenAreUids DEF PipelineTypes
<1>6. queue \in Seq(Seq(Uids))
  <2>1. Len(gotten) \in Nat /\ DOMAIN gotten = 1..Len(gotten) /\ \A i \in 1..Len(gotten) : Requires[gotten[i]] \in Seq(Uids)
    BY <1>5, PipelineAssumption
  <2>2. [i \in DOMAIN gotten |-> Requires[gotten[i]]] \in Seq(Seq(Uids))
    BY <2>1
  <2> QED BY <1>4, <1>5, <2>2, ConcatProperties
<1>7. PICK rest : rest = IF queue = <<>> THEN <<>> ELSE Tail(queue)
  OBVIOUS
<1>8. PICK group : group = IF queue = <<>> THEN <<>> ELSE Group(Head(queue))
  OBVIOUS
<1>9. /\ resolved' = [resolved EXCEPT ![l] = resolved[l] \o gotten]
      /\ groups' = [groups EXCEPT ![l] = rest] /\ tasks' = [tasks EXCEPT ![l] = group]
  BY <1>2, <1>3, <1>4, <1>7, <1>8 DEF Grouped
<1>10. rest \in Seq(Seq(Uids)) /\ group \in Seq(Tasks)
  <2>1. CASE queue = <<>>
    BY <1>7, <1>8, <2>1, EmptySeq
  <2>2. CASE queue # <<>>
    <3>1. Head(queue) \in Seq(Uids) /\ Tail(queue) \in Seq(Seq(Uids))
      BY <1>6, <2>2, HeadAndTail
    <3> QED BY <1>7, <1>8, <2>2, <3>1, GroupIsTasks
  <2> QED BY <2>1, <2>2
<1>11. /\ resolved[l] \o gotten \in Seq(Uids)
       /\ resolved[l] # <<>> => resolved[l] \o gotten # <<>>
  <2>1. resolved[l] \o gotten \in Seq(Uids) /\ Len(resolved[l] \o gotten) = Len(resolved[l]) + Len(gotten)
    BY <1>5
  <2>2. Len(resolved[l]) \in Nat /\ Len(gotten) \in Nat /\ (resolved[l] # <<>> => Len(resolved[l]) # 0) /\ Len(<<>>) = 0
    BY <1>5
  <2> QED BY <2>1, <2>2
<1>12. PipelineTypes'
  BY <1>1, <1>2, <1>9, <1>10, <1>11 DEF PipelineTypes
<1>13. AllMade(l) /\ outcome[l] = None /\ resolved[l] # <<>>
  BY <1>2 DEF PipelineInv, LaunchIsKnown
<1>14. /\ stage' = [stage EXCEPT ![l] = "requires"] /\ resolved'[l] = resolved[l] \o gotten
       /\ \A k \in Launches \ {l} : resolved'[k] = resolved[k] /\ outcome'[k] = outcome[k]
  BY <1>1, <1>2, <1>9 DEF PipelineTypes
<1> QED BY <1>2, <1>11, <1>12, <1>13, <1>14, LaunchGoesOn

\* The patches are merged.
LEMMA PatchesAreMerged ==
  ASSUME PipelineInv, NEW l \in Launches, Merge(l)
  PROVE  PipelineInv'
<1>1. PipelineTypes
  BY DEF PipelineInv
<1>2. /\ stage[l] = "requires" /\ UNCHANGED <<made, missing, groups, tasks, resolved, cache, jar, faults, crowded>>
      /\ \E s \in {"thrown", "done"} :
           /\ stage' = [stage EXCEPT ![l] = s]
           /\ \E o : outcome' = [outcome EXCEPT ![l] = o] /\ (o # None => s = "done")
  BY DEF Merge, resolveVars, storeVars
<1>3. PICK s \in {"thrown", "done"} :
        /\ stage' = [stage EXCEPT ![l] = s]
        /\ \E o : outcome' = [outcome EXCEPT ![l] = o] /\ (o # None => s = "done")
  BY <1>2
<1>4. PICK o : outcome' = [outcome EXCEPT ![l] = o] /\ (o # None => s = "done")
  BY <1>3
<1>5. DOMAIN outcome' = Launches /\ outcome'[l] = o /\ \A k \in Launches \ {l} : outcome'[k] = outcome[k]
  BY <1>1, <1>4 DEF PipelineTypes
<1>6. PipelineTypes'
  BY <1>1, <1>2, <1>3, <1>5 DEF PipelineTypes, Stages
<1>7. AllMade(l) /\ resolved[l] # <<>>
  BY <1>2 DEF PipelineInv, LaunchIsKnown
<1> QED BY <1>2, <1>3, <1>4, <1>5, <1>6, <1>7, LaunchGoesOn

\* The launcher crashes, and starts again.
LEMMA LauncherRestarts ==
  ASSUME PipelineInv, Restart
  PROVE  PipelineInv'
<1>1. PipelineTypes
  BY DEF PipelineInv
<1>2. /\ stage' = [l \in Launches |-> "idle"] /\ missing' = [l \in Launches |-> Unlooked]
      /\ groups' = [l \in Launches |-> <<>>] /\ tasks' = [l \in Launches |-> <<>>]
      /\ resolved' = [l \in Launches |-> <<>>] /\ outcome' = [l \in Launches |-> None]
      /\ UNCHANGED <<made, jar, crowded>> /\ Fails(TRUE)
      /\ \E torn : cache' = [f \in Files |-> IF f \in torn THEN "corrupt" ELSE cache[f]]
  BY DEF Restart
<1>3. PICK torn : cache' = [f \in Files |-> IF f \in torn THEN "corrupt" ELSE cache[f]]
  BY <1>2
<1>4. cache' \in [Files -> Contents] /\ faults' \in 0..MaxFaults
  BY <1>1, <1>2, <1>3, PipelineAssumption DEF PipelineTypes, Contents, Fails
<1>5. PipelineTypes'
  <2>1. Unlooked \in [Validators -> SUBSET (AllDirectories \cup {"todo", "rejected"})]
    BY DEF Unlooked, Todo
  <2>2. <<>> \in Seq(Seq(Uids)) /\ <<>> \in Seq(Tasks) /\ <<>> \in Seq(Uids)
    BY EmptySeq
  <2>3. stage' \in [Launches -> Stages]
    BY <1>2 DEF Stages
  <2>4. /\ groups' \in [Launches -> Seq(Seq(Uids))] /\ tasks' \in [Launches -> Seq(Tasks)] /\ resolved' \in [Launches -> Seq(Uids)]
        /\ DOMAIN outcome' = Launches /\ missing' \in [Launches -> [Validators -> SUBSET (AllDirectories \cup {"todo", "rejected"})]]
    BY <1>2, <2>1, <2>2
  <2> QED BY <1>1, <1>2, <1>4, <2>3, <2>4 DEF PipelineTypes
<1>6. \A l \in Launches : LaunchIsKnown(l)' /\ LaunchIsAlone(l)'
  <2> TAKE l \in Launches
  <2>1. stage'[l] = "idle" /\ outcome'[l] = None /\ \A v \in Validators : missing'[l][v] = Todo
    BY <1>2 DEF Unlooked
  <2>2. Todo \cap made' = {}
    BY <1>1, <1>2, PipelineAssumption DEF Todo, PipelineTypes
  <2> QED BY <2>1, <2>2 DEF LaunchIsKnown, LaunchIsAlone, Looked, AtRest
<1> QED BY <1>5, <1>6 DEF PipelineInv

\* Every step of the pipeline.
LEMMA PipelineSteps == PipelineInv /\ [PipelineNext]_pipelineVars => PipelineInv'
<1> SUFFICES ASSUME PipelineInv, [PipelineNext]_pipelineVars PROVE PipelineInv'
  OBVIOUS
<1>1. CASE Restart
  BY <1>1, LauncherRestarts
<1>2. ASSUME NEW l \in Launches, Start(l) PROVE PipelineInv'
  BY <1>2, LaunchStarts
<1>3. ASSUME NEW l \in Launches, ensurePatchDirectories(l) \/ initializeAssetsDirectories(l) \/ initializeShortHashDirectories(l)
      PROVE PipelineInv'
  <2>1. \E v \in Validators : Looks(l, v)
    BY <1>3 DEF ensurePatchDirectories, initializeAssetsDirectories, initializeShortHashDirectories, Validators
  <2> QED BY <2>1, ValidatorLooks
<1>4. ASSUME NEW l \in Launches, \E v \in Validators, d \in AllDirectories : Make(l, v, d) PROVE PipelineInv'
  BY <1>4, DirectoryIsMade
<1>5. ASSUME NEW l \in Launches, Prepared(l) \/ EntryResolved(l) \/ GroupResolved(l) \/ Merge(l) PROVE PipelineInv'
  BY <1>5, DirectoriesArePrepared, EntryIsResolved, GroupIsResolved, PatchesAreMerged
<1>6. ASSUME NEW l \in Launches, \E i \in DOMAIN tasks[l] : ResolveStep(l, i) PROVE PipelineInv'
  BY <1>6, ResolveSteps
<1>7. CASE UNCHANGED pipelineVars
  <2>1. UNCHANGED <<stage, made, missing, groups, tasks, resolved, cache, jar, faults, outcome, crowded>>
    BY <1>7 DEF pipelineVars, resolveVars, storeVars
  <2>2. PipelineTypes'
    BY <2>1 DEF PipelineInv, PipelineTypes
  <2> QED BY <2>1, <2>2, LaunchesStay
<1> QED BY <1>1, <1>2, <1>3, <1>4, <1>5, <1>6, <1>7 DEF PipelineNext, LaunchStep

(* The inductive invariant of the pipeline.                                *)
THEOREM PipelineInvariance == PipelineSafety => []PipelineInv
<1>1. PipelineInv /\ [PipelineNext]_pipelineVars => PipelineInv'
  BY PipelineSteps
<1> QED BY <1>1, PipelineStarts, PTL DEF PipelineSafety

(* A launch that goes on after the validators has all its directories, and *)
(* it fails over them only when another launch made them at that time: for *)
(* any launches, patches, directories, faults and restarts                 *)
(* (ensure-patch-directories.ts, initialize-assets-directories.ts).        *)
THEOREM LaunchesHaveDirectories == PipelineSafety => []DirectoriesReady
<1>1. PipelineInv => DirectoriesReady
  <2> SUFFICES ASSUME PipelineInv, NEW l \in Launches
               PROVE  /\ stage[l] \in {"entry", "requires", "done"} => made = AllDirectories
                      /\ stage[l] = "thrown" /\ resolved[l] = <<>> => crowded
    BY DEF DirectoriesReady
  <2>1. PipelineTypes /\ LaunchIsKnown(l) /\ (~crowded => LaunchIsAlone(l))
    BY DEF PipelineInv
  <2>2. ASSUME stage[l] \in {"entry", "requires", "done"} PROVE made = AllDirectories
    <3>1. \A v \in Validators : Directories[v] \subseteq made
      <4>1. {} # Todo
        BY DEF Todo
      <4> QED BY <2>1, <2>2, <4>1 DEF LaunchIsKnown, AllMade, Looked
    <3>2. AllDirectories \subseteq made
      BY <3>1 DEF AllDirectories
    <3> QED BY <2>1, <3>2 DEF PipelineTypes
  <2>3. stage[l] = "thrown" /\ resolved[l] = <<>> => crowded
    BY <2>1 DEF LaunchIsAlone
  <2> QED BY <2>2, <2>3
<1> QED BY <1>1, PipelineInvariance, PTL

(* The variables of the pipeline have their types.                         *)
THEOREM PipelineTypeCorrectness == PipelineSafety => []PipelineTypeOK
<1>1. PipelineInv => PipelineTypeOK
  <2> SUFFICES ASSUME PipelineInv PROVE PipelineTypeOK
    OBVIOUS
  <2>1. PipelineTypes /\ \A l \in Launches : outcome[l] # None => stage[l] = "done"
    BY DEF PipelineInv, LaunchIsKnown
  <2>2. ASSUME NEW l \in Launches PROVE ToSet(resolved[l]) \subseteq Uids /\ \A i \in DOMAIN tasks[l] : tasks[l][i].uid \in Uids
    <3>1. resolved[l] \in Seq(Uids) /\ tasks[l] \in Seq(Tasks)
      BY <2>1 DEF PipelineTypes
    <3>2. (\A i \in DOMAIN resolved[l] : resolved[l][i] \in Uids) /\ \A i \in DOMAIN tasks[l] : tasks[l][i] \in Tasks
      BY <3>1
    <3> QED BY <3>2 DEF ToSet, Tasks
  <2> QED BY <2>1, <2>2 DEF PipelineTypeOK, PipelineTypes, Stages
<1> QED BY <1>1, PipelineInvariance, PTL


-----------------------------------------------------------------------------
(* Tabs and languages of the settings (module SettingsRows).  A tab that   *)
(* is not open although it was clicked last is "java", and its answer      *)
(* opens it; what is added to the languages is not among them.             *)

TabIsComing == disabled # None /\ ~hijacked => tab = disabled \/ (disabled = "java" /\ awaited = "here")
LocalesAreOnce == ReadLocales \in Seq(ToSet(LocalesFound) \cup {DefaultLocale}) /\ LocalesListedOnce

TabsInv == TabIsComing /\ LocalesAreOnce

JavaStates == [status : {"idle", "scanning", "loaded", "failed"}, installations : {{}} \cup Detected]

\* What is kept has a value for each row; of a toggle, whether it is on.
IsSettings(values) ==
  /\ values = [row \in Rows |-> values[row]]
  /\ \A row \in Rows \ DraftRows : Row(row).kind = "toggle" => values[row] \in BOOLEAN

SettingsTypes == SettingsTypeOK /\ IsSettings(settings) /\ java \in JavaStates

SettingsInv == TabsInv /\ SettingsTypes

SettingsSafety == SettingsInit /\ [][SettingsNext]_settingsVars

-----------------------------------------------------------------------------
\* A tab is clicked, or its answer comes.
LEMMA TabSteps ==
  ASSUME TabsInv,
         \/ \E section \in SettingsSections : handleModeSelect(section)
         \/ \E reply \in Detected \cup {None} : detectJavaInstallations(reply)
         \/ \E new \in {"settings", "add-instance"} : OpenPage(new)
  PROVE  TabsInv'
<1>1. TabIsComing /\ LocalesAreOnce
  BY DEF TabsInv
<1>2. ReadLocales' = ReadLocales
  BY DEF handleModeSelect, detectJavaInstallations, OpenPage
<1>3. LocalesAreOnce'
  BY <1>1, <1>2 DEF LocalesAreOnce, LocalesListedOnce
<1>4. TabIsComing'
  <2>1. ASSUME NEW section \in SettingsSections, handleModeSelect(section) PROVE TabIsComing'
    BY <2>1 DEF handleModeSelect, TabIsComing
  <2>2. ASSUME NEW reply \in Detected \cup {None}, detectJavaInstallations(reply) PROVE TabIsComing'
    BY <1>1, <2>2 DEF detectJavaInstallations, StillSelected, TabIsComing
  <2>3. ASSUME NEW new \in {"settings", "add-instance"}, OpenPage(new) PROVE TabIsComing'
    BY <2>3 DEF OpenPage, TabIsComing
  <2> QED BY <2>1, <2>2, <2>3
<1> QED BY <1>3, <1>4 DEF TabsInv

\* The languages come.
LEMMA LocalesCome ==
  ASSUME TabsInv, NEW known \in BOOLEAN, GetLocales(known)
  PROVE  TabsInv' /\ ToSet(ReadLocales) \subseteq ToSet(ReadLocales')
<1> DEFINE Codes == ToSet(LocalesFound) \cup {DefaultLocale}
           unknown == ToSet(LocalesFound) \ ToSet(ReadLocales)
<1>1. /\ TabIsComing /\ ReadLocales \in Seq(Codes) /\ IsInjective(ReadLocales)
      /\ UNCHANGED <<tab, disabled, awaited, hijacked>>
      /\ ReadLocales' = IF known THEN ReadLocales \o Selected(LocalesFound, unknown) ELSE ReadLocales
  BY DEF TabsInv, LocalesAreOnce, LocalesListedOnce, GetLocales, tabVars, Unlisted
<1>2. TabIsComing'
  BY <1>1 DEF TabIsComing
<1>3. LocalesFound \in Seq(Codes)
  <2>1. LocalesFound \in Seq(ToSet(LocalesFound))
    BY FoundAssumption
  <2>2. Len(LocalesFound) \in Nat /\ DOMAIN LocalesFound = 1..Len(LocalesFound) /\ LocalesFound = [i \in 1..Len(LocalesFound) |-> LocalesFound[i]]
    BY <2>1
  <2>3. \A i \in 1..Len(LocalesFound) : LocalesFound[i] \in Codes
    BY <2>2 DEF ToSet
  <2> HIDE DEF Codes
  <2> QED BY <2>2, <2>3
<1>4. LocalesAreOnce' /\ ToSet(ReadLocales) \subseteq ToSet(ReadLocales')
  <2> DEFINE added == Selected(LocalesFound, unknown)
  <2>1. /\ added \in Seq(Codes) /\ IsInjective(added) /\ ToSet(added) = ToSet(LocalesFound) \cap unknown
    <3> HIDE DEF unknown, Codes
    <3> QED BY <1>3, FoundAssumption, SelectedAre
  <2>2. ToSet(ReadLocales) \cap ToSet(added) = {}
    BY <2>1
  <2> HIDE DEF added
  <2>3. /\ ReadLocales \o added \in Seq(Codes) /\ IsInjective(ReadLocales \o added)
        /\ ToSet(ReadLocales \o added) = ToSet(ReadLocales) \cup ToSet(added)
    <3> HIDE DEF Codes
    <3> QED BY <1>1, <2>1, <2>2, Follow
  <2> QED BY <1>1, <2>3 DEF LocalesAreOnce, LocalesListedOnce, added
<1> QED BY <1>2, <1>4 DEF TabsInv

\* Nothing else changes tabs or languages.
LEMMA FieldSteps ==
  ASSUME TabsInv,
         \/ \E row \in Fields :
              \/ \E text \in Texts[Row(row).holds] : Type(row, text)
              \/ handleWrapperClick(row) \/ handleInput(row) \/ handleDetachedInput(row)
              \/ handleFilePickerClick(row) \/ \E file \in PickedFiles \cup {None} : onPick(row, file)
         \/ \E row \in Rows \ Fields : handleRowClick(row) \/ handleHexInput(row) \/ handleSelect(row) \/ ChooseJava(row)
         \/ unFocus \/ UNCHANGED settingsVars
  PROVE  TabsInv'
<1>1. UNCHANGED <<tabVars, ReadLocales>>
  <2>1. ASSUME NEW row \in Fields, NEW text \in Texts[Row(row).holds], Type(row, text) PROVE UNCHANGED <<tabVars, ReadLocales>>
    BY <2>1 DEF Type, foundVars
  <2>2. ASSUME NEW row \in Fields, handleWrapperClick(row) \/ handleInput(row) \/ handleDetachedInput(row) \/ handleFilePickerClick(row)
        PROVE UNCHANGED <<tabVars, ReadLocales>>
    BY <2>2 DEF handleWrapperClick, handleInput, handleDetachedInput, handleFilePickerClick, foundVars
  <2>3. ASSUME NEW row \in Fields, NEW file \in PickedFiles \cup {None}, onPick(row, file) PROVE UNCHANGED <<tabVars, ReadLocales>>
    BY <2>3 DEF onPick, foundVars
  <2>4. ASSUME NEW row \in Rows \ Fields, handleRowClick(row) \/ handleHexInput(row) \/ handleSelect(row) \/ ChooseJava(row)
        PROVE UNCHANGED <<tabVars, ReadLocales>>
    BY <2>4 DEF handleRowClick, handleHexInput, handleSelect, ChooseJava, Put, foundVars
  <2>5. CASE unFocus
    BY <2>5 DEF unFocus, foundVars
  <2>6. CASE UNCHANGED settingsVars
    BY <2>6 DEF settingsVars, foundVars
  <2> QED BY <2>1, <2>2, <2>3, <2>4, <2>5, <2>6
<1> QED BY <1>1 DEF TabsInv, TabIsComing, LocalesAreOnce, LocalesListedOnce, tabVars

\* What a field stores leaves the toggles as they are.
LEMMA StoredAreSettings ==
  ASSUME IsSettings(settings), NEW row \in Fields, NEW text
  PROVE  IsSettings(With(row, text))
<1>1. DOMAIN DefaultOf \subseteq DraftRows /\ "draftJvmArguments" \in DraftRows
  BY DEF DefaultOf, DraftRows, customSettings, ResolutionRows
<1>2. Row(row).kind = "input" /\ row \in Rows
  BY DEF Fields
<1>3. PICK complete :
        complete = [k \in Rows |-> IF row \in DraftRows /\ k \in DOMAIN DefaultOf THEN Kept(k, settings) ELSE settings[k]]
  OBVIOUS
<1>4. \A k \in Rows \ DraftRows : complete[k] = settings[k]
  BY <1>1, <1>3
<1>5. PICK allocated : allocated = handleMemoryAllocation(row, text, complete["draftJvmArguments"])
  OBVIOUS
<1>6. PICK understood : understood = Understood(row, text)
  OBVIOUS
<1>7. \/ With(row, text) = settings
      \/ With(row, text) = [complete EXCEPT !["draftJvmArguments"] = allocated]
      \/ With(row, text) = [complete EXCEPT ![row] = understood]
  BY <1>3, <1>5, <1>6 DEF With
<1>8. \A k \in Rows \ DraftRows : Row(k).kind = "toggle" => With(row, text)[k] = settings[k]
  BY <1>1, <1>2, <1>3, <1>4, <1>7
<1>9. With(row, text) = [k \in Rows |-> With(row, text)[k]]
  BY <1>3, <1>7 DEF IsSettings
<1> QED BY <1>8, <1>9 DEF IsSettings

\* The user types, or moves between fields.
LEMMA FieldTypes ==
  ASSUME SettingsTypes,
         \/ \E row \in Fields :
              \/ \E text \in Texts[Row(row).holds] : Type(row, text)
              \/ handleWrapperClick(row) \/ handleFilePickerClick(row)
         \/ UNCHANGED settingsVars
  PROVE  SettingsTypes'
<1> USE DEF SettingsTypes, SettingsTypeOK, OnPage
<1>1. ASSUME NEW row \in Fields, NEW text, Type(row, text) PROVE SettingsTypes'
  <2>1. row # None
    BY RowsAssumption DEF Fields
  <2> QED BY <1>1, <2>1 DEF Type, tabVars, foundVars, IsSettings
<1>2. ASSUME NEW row \in Fields, handleWrapperClick(row) \/ handleFilePickerClick(row) PROVE SettingsTypes'
  BY <1>2 DEF handleWrapperClick, handleFilePickerClick, tabVars, foundVars, historyVars, IsSettings
<1>3. CASE UNCHANGED settingsVars
  BY <1>3 DEF settingsVars, tabVars, fieldVars, foundVars, historyVars, IsSettings
<1> QED BY <1>1, <1>2, <1>3

\* A field stores what it shows, or what was picked for it.
LEMMA StoreTypes ==
  ASSUME SettingsTypes,
         unFocus \/ \E row \in Fields : handleInput(row) \/ handleDetachedInput(row) \/ \E file \in PickedFiles \cup {None} : onPick(row, file)
  PROVE  SettingsTypes'
<1> USE DEF SettingsTypes, SettingsTypeOK, OnPage
<1>1. CASE unFocus
  <2>1. active \in Fields /\ (settings' = settings \/ settings' = With(active, shown[active]))
    BY <1>1 DEF unFocus, Store
  <2>2. IsSettings(settings')
    BY <2>1, StoredAreSettings
  <2>3. active' = None /\ disturbed' \subseteq disturbed \cup timer /\ UNCHANGED <<timer, picking, tabVars, foundVars>>
    BY <1>1 DEF unFocus
  <2> QED BY <2>2, <2>3 DEF tabVars, foundVars, IsSettings
<1>2. ASSUME NEW row \in Fields, handleInput(row) \/ handleDetachedInput(row) PROVE SettingsTypes'
  <2>1. settings' = With(row, shown[row]) \/ settings' = With(row, detached[row])
    BY <1>2 DEF handleInput, handleDetachedInput, Store
  <2>2. IsSettings(settings')
    BY <2>1, StoredAreSettings
  <2>3. /\ disturbed' \subseteq disturbed \cup timer /\ timer' \subseteq timer
        /\ UNCHANGED <<active, picking, tabVars, foundVars>>
    BY <1>2 DEF handleInput, handleDetachedInput
  <2> QED BY <2>2, <2>3 DEF tabVars, foundVars, IsSettings
<1>3. ASSUME NEW row \in Fields, NEW file, onPick(row, file) PROVE SettingsTypes'
  <2>1. settings' = settings \/ settings' = With(row, file)
    BY <1>3 DEF onPick, Store
  <2>2. IsSettings(settings')
    BY <2>1, StoredAreSettings
  <2>3. /\ disturbed' \subseteq disturbed \cup {row} /\ picking' \subseteq picking
        /\ UNCHANGED <<active, timer, tabVars, foundVars>>
    BY <1>3 DEF onPick, historyVars
  <2> QED BY <2>2, <2>3 DEF tabVars, foundVars, IsSettings
<1> QED BY <1>1, <1>2, <1>3

\* Another row is put.
LEMMA PutTypes ==
  ASSUME SettingsTypes, NEW row \in Rows \ Fields,
         handleRowClick(row) \/ handleHexInput(row) \/ handleSelect(row) \/ ChooseJava(row)
  PROVE  SettingsTypes'
<1> USE DEF SettingsTypes, SettingsTypeOK, OnPage
<1>1. PICK value : /\ settings' = [settings EXCEPT ![row] = value] /\ UNCHANGED <<fieldVars, tabVars, foundVars, disturbed>>
                   /\ Row(row).kind = "toggle" => value = ~settings[row]
  BY DEF handleRowClick, handleHexInput, handleSelect, ChooseJava, Put
<1>2. IsSettings(settings')
  <2>1. \A k \in Rows \ DraftRows : Row(k).kind = "toggle" => settings'[k] \in BOOLEAN
    BY <1>1 DEF IsSettings
  <2> QED BY <1>1, <2>1 DEF IsSettings
<1> QED BY <1>1, <1>2 DEF tabVars, fieldVars, foundVars, IsSettings

\* A tab or a page is opened, or an answer comes.
LEMMA TabTypes ==
  ASSUME SettingsTypes, TabsInv,
         \/ \E section \in SettingsSections : handleModeSelect(section)
         \/ \E reply \in Detected \cup {None} : detectJavaInstallations(reply)
         \/ \E new \in {"settings", "add-instance"} : OpenPage(new)
         \/ \E known \in BOOLEAN : GetLocales(known)
  PROVE  SettingsTypes'
<1> USE DEF SettingsTypes, SettingsTypeOK, OnPage
<1>1. ASSUME NEW section \in SettingsSections, handleModeSelect(section) PROVE SettingsTypes'
  <2>1. /\ UNCHANGED <<settings, page, ReadLocales, disturbed>> /\ disabled' = section
        /\ \/ awaited' = "here" /\ java' = [java EXCEPT !.status = "scanning"] /\ UNCHANGED <<tab, fieldVars>>
           \/ tab' = section /\ Leave(settings) /\ UNCHANGED <<awaited, java>>
    BY <1>1 DEF handleModeSelect
  <2>2. java' \in JavaStates
    BY <2>1 DEF JavaStates
  <2>3. CASE UNCHANGED <<tab, fieldVars>>
    BY <2>1, <2>2, <2>3 DEF fieldVars, IsSettings, JavaStates
  <2>4. CASE Leave(settings)
    <3>1. active' = None /\ timer' = {} /\ picking' = picking
      BY <2>4 DEF Leave
    <3> QED BY <2>1, <2>2, <3>1 DEF IsSettings, JavaStates
  <2> QED BY <2>1, <2>3, <2>4
<1>2. ASSUME NEW reply \in Detected \cup {None}, detectJavaInstallations(reply) PROVE SettingsTypes'
  <2>1. /\ UNCHANGED <<settings, page, disabled, ReadLocales, disturbed>> /\ awaited' = None
        /\ \/ tab' = "java" /\ Leave(settings)
           \/ page # "settings" /\ tab' = "java" /\ UNCHANGED fieldVars
           \/ UNCHANGED <<tab, fieldVars>>
    BY <1>2 DEF detectJavaInstallations, historyVars
  <2>2. java' \in JavaStates
    BY <1>2 DEF detectJavaInstallations, JavaStates
  <2>3. tab' \in SettingsSections
    BY <2>1 DEF SettingsSections
  <2>4. CASE Leave(settings)
    <3>1. active' = None /\ timer' = {} /\ picking' = picking
      BY <2>4 DEF Leave
    <3> QED BY <2>1, <2>2, <2>3, <3>1 DEF IsSettings, JavaStates
  <2>5. CASE UNCHANGED fieldVars /\ (page # "settings" \/ tab' = tab)
    BY <2>1, <2>2, <2>3, <2>5 DEF fieldVars, IsSettings, JavaStates
  <2> QED BY <2>1, <2>4, <2>5
<1>3. ASSUME NEW new \in {"settings", "add-instance"}, OpenPage(new) PROVE SettingsTypes'
  <2>1. /\ UNCHANGED <<settings, tab, ReadLocales, disturbed>> /\ page' = new /\ disabled' = None
        /\ awaited' \in {None, "here", "left"} /\ (java' = java \/ java' = [java EXCEPT !.status = "scanning"])
    BY <1>3 DEF OpenPage
  <2>2. active' = None /\ timer' = {} /\ picking' = picking
    BY <1>3 DEF OpenPage, Leave
  <2>3. java' \in JavaStates
    BY <2>1 DEF JavaStates
  <2> QED BY <2>1, <2>2, <2>3 DEF IsSettings, JavaStates
<1>4. ASSUME NEW known \in BOOLEAN, GetLocales(known) PROVE SettingsTypes'
  <2>1. UNCHANGED <<settings, tabVars, fieldVars, java, disturbed>>
    BY <1>4 DEF GetLocales, historyVars
  <2>2. DefaultLocale \in ToSet(ReadLocales')
    BY <1>4, LocalesCome
  <2> QED BY <2>1, <2>2 DEF tabVars, fieldVars, IsSettings
<1> QED BY <1>1, <1>2, <1>3, <1>4

\* At first the tab "minecraft" is open, with what is the default.
LEMMA SettingsStart == SettingsInit => SettingsInv
<1> SUFFICES ASSUME SettingsInit PROVE SettingsInv
  OBVIOUS
<1>1. TabsInv
  <2>1. disabled = None /\ ReadLocales = <<DefaultLocale>>
    BY DEF SettingsInit
  <2>2. ReadLocales \in Seq(ToSet(LocalesFound) \cup {DefaultLocale})
    BY <2>1
  <2>3. IsInjective(ReadLocales)
    BY <2>1 DEF IsInjective
  <2> QED BY <2>1, <2>2, <2>3 DEF TabsInv, TabIsComing, LocalesAreOnce, LocalesListedOnce
<1>2. IsSettings(settings)
  <2>1. ASSUME NEW row \in Rows \ DraftRows, Row(row).kind = "toggle" PROVE settings[row] = FALSE
    BY <2>1 DEF SettingsInit, DefaultSetting
  <2> QED BY <2>1 DEF SettingsInit, IsSettings
<1>3. DefaultLocale \in ToSet(ReadLocales)
  BY DEF SettingsInit, ToSet
<1>4. java \in JavaStates
  BY DEF SettingsInit, JavaStates
<1>5. SettingsTypeOK
  BY <1>2, <1>3, <1>4 DEF SettingsInit, SettingsTypeOK, IsSettings, SettingsSections
<1> QED BY <1>1, <1>2, <1>4, <1>5 DEF SettingsInv, SettingsTypes

(* The inductive invariant of the settings: tabs, languages and types.     *)
THEOREM SettingsInvariance == SettingsSafety => []SettingsInv
<1>1. SettingsInv /\ [SettingsNext]_settingsVars => SettingsInv'
  <2> SUFFICES ASSUME SettingsInv, [SettingsNext]_settingsVars PROVE SettingsInv'
    OBVIOUS
  <2>1. TabsInv'
    BY TabSteps, LocalesCome, FieldSteps DEF SettingsNext, SettingsInv
  <2>2. SettingsTypes'
    BY FieldTypes, StoreTypes, PutTypes, TabTypes DEF SettingsNext, SettingsInv
  <2> QED BY <2>1, <2>2 DEF SettingsInv
<1> QED BY <1>1, SettingsStart, PTL DEF SettingsSafety

(* The settings have a value for each row, and a focus, timers and dialogs *)
(* only for fields that there are.                                         *)
THEOREM SettingsTypeCorrectness == SettingsSafety => []SettingsTypeOK
<1>1. SettingsInv => SettingsTypeOK
  BY DEF SettingsInv, SettingsTypes
<1> QED BY <1>1, SettingsInvariance, PTL

(* The open tab is the one clicked last, whenever the installations of     *)
(* Java arrive, and a language is listed once: for any rows, texts,        *)
(* languages and edits (Tabs.vue, UserInterfaceSettings.vue).              *)
THEOREM TabsFollowClicks == SettingsSafety => [](TabAsSelected /\ LocalesListedOnce)
<1>1. None # "here"
  BY EditsAssumption
<1>2. SettingsInv => TabAsSelected /\ LocalesListedOnce
  BY <1>1 DEF SettingsInv, TabsInv, TabIsComing, TabAsSelected, LocalesAreOnce
<1> QED BY <1>2, SettingsInvariance, PTL


-----------------------------------------------------------------------------
(* The start of the page (module PageStart).  The request that was made    *)
(* last is for the locale of the config, so that its answer is in the      *)
(* language of that; and the tools are loaded at most once at a time.      *)

Boots == [locale : Locales, extensions : BOOLEAN, after : BOOLEAN, eruda : BOOLEAN]
LocaleContents == Locales \cup {"missing", "corrupt", "scalar"}
Fetches == [number : Nat, locale : Locales]
Tools == [loading : Nat, shown : BOOLEAN, unload : BOOLEAN]

Unmountable == {"starting", "reading", "failed", "over"}
MountedStates == {"showing", "finalizing", "finished", "unfinished"}

StartTypes ==
  /\ startup \in Unmountable \cup MountedStates
  /\ window \in {"hidden", "shown", "lost"} /\ recreation \in {"no", "yes", "ever"}
  /\ boot \in Boots /\ localeFiles \in [Locales -> LocaleContents] /\ parsed \in LocaleContents \cup {None}
  /\ fetching \in Seq(Fetches) /\ issued \in Nat /\ applied \in Nat
  /\ eruda \in Tools /\ muddled \in BOOLEAN
  /\ startup = "finished" => javaMajor \in JavaMajors \cup {FamousAndOldJavaMajorVersion}

NoTools == [loading |-> 0, shown |-> FALSE, unload |-> FALSE]

\* Before the page is mounted nothing is asked for.
MountedFirst ==
  /\ startup \in Unmountable => issued = 0 /\ fetching = <<>> /\ applied = 0 /\ eruda = NoTools
  /\ startup \in MountedStates => issued > 0 /\ translations \in Locales

LastIsCurrent ==
  /\ applied <= issued
  /\ \A i \in DOMAIN fetching :
       fetching[i].number \in 1..issued /\ (fetching[i].number = issued => fetching[i].locale = boot.locale)
  /\ TranslationsFollow

ToolsAreKnown ==
  issued > 0 /\ ~muddled =>
    /\ eruda.loading > 0 => eruda.loading = 1 /\ boot.eruda
    /\ eruda.loading = 0 => eruda.shown = boot.eruda
    /\ eruda.shown => eruda.unload

StartInv == StartTypes /\ MountedFirst /\ LastIsCurrent /\ ToolsAreKnown

StartSafety == StartInit /\ [][StartNext]_startVars

-----------------------------------------------------------------------------
\* Reading translations gives a language, and repairing a file changes none when it could be read.
LEMMA TranslationsAreRead ==
  ASSUME StartTypes, NEW file \in LocaleContents \cup {None}, NEW l \in Locales, getTranslations(file, l)
  PROVE  /\ translations' \in Locales /\ localeFiles' \in [Locales -> LocaleContents]
         /\ file = None /\ ~unread' => translations' = Language(l) /\ \A k \in Locales : Language(k)' = Language(k)
<1>1. localeFiles \in [Locales -> LocaleContents]
  BY DEF StartTypes
<1>2. \A k \in Locales : Language(k) \in Locales
  BY LocalesAssumption DEF Language
<1>3. CASE file \in Locales \cup {"scalar"}
  <2>1. translations' \in Locales /\ localeFiles' = localeFiles
    BY <1>3, LocalesAssumption DEF getTranslations
  <2>2. file # None
    BY <1>3, LocalesAssumption
  <2> QED BY <1>1, <2>1, <2>2 DEF Language
<1>4. CASE file \notin Locales \cup {"scalar"}
  <2> SUFFICES ASSUME unread' = FALSE, translations' = Language(l), localeFiles' = Repaired(l)
               PROVE  /\ translations' \in Locales /\ localeFiles' \in [Locales -> LocaleContents]
                      /\ translations' = Language(l) /\ \A k \in Locales : Language(k)' = Language(k)
    <3>1. English \in Locales /\ English \in LocaleContents
      BY LocalesAssumption DEF LocaleContents
    <3>2. [localeFiles EXCEPT ![l] = English] \in [Locales -> LocaleContents]
      BY <1>1, <3>1
    <3> QED BY <1>1, <1>4, <3>1, <3>2 DEF getTranslations
  <2>1. translations' = Language(l) /\ localeFiles' = Repaired(l)
    OBVIOUS
  <2>2. /\ localeFiles' \in [Locales -> LocaleContents]
        /\ \A k \in Locales : localeFiles'[k] = localeFiles[k]
                              \/ (localeFiles[k] \notin Locales /\ localeFiles'[k] = English)
    BY <1>1, <2>1, LocalesAssumption DEF Repaired, LocaleContents
  <2>3. \A k \in Locales : Language(k)' = Language(k)
    BY <2>2, LocalesAssumption DEF Language
  <2> QED BY <1>2, <2>1, <2>2, <2>3
<1> QED BY <1>3, <1>4

\* What TranslationsFollow speaks of, after a step that keeps every language.
LEMMA LanguagesStay ==
  ASSUME StartInv, UNCHANGED <<boot, issued, applied, fetching, translations, unread>>, \A l \in Locales : Language(l)' = Language(l)
  PROVE  LastIsCurrent'
<1>1. boot.locale \in Locales
  BY DEF StartInv, StartTypes, Boots
<1> QED BY <1>1 DEF StartInv, LastIsCurrent, TranslationsFollow

\* A request, which is for the locale that the config has from now on.
LEMMA RequestIsMade ==
  ASSUME StartTypes, NEW l \in Locales, Request(l)
  PROVE  /\ issued' = issued + 1 /\ fetching' \in Seq(Fetches)
         /\ \A i \in DOMAIN fetching' :
              \/ i \in DOMAIN fetching /\ fetching'[i] = fetching[i]
              \/ fetching'[i].number = issued + 1 /\ fetching'[i].locale = l
<1> DEFINE f == [number |-> issued + 1, locale |-> l]
<1>1. issued \in Nat /\ fetching \in Seq(Fetches) /\ f \in Fetches /\ f.number = issued + 1 /\ f.locale = l
  BY DEF StartTypes, Fetches
<1>2. issued' = issued + 1 /\ fetching' = Append(fetching, f)
  BY DEF Request
<1> HIDE DEF f
<1> QED BY <1>1, <1>2, AppendsOne

-----------------------------------------------------------------------------
\* At first nothing has been asked for.
LEMMA StartsUnmounted == StartInit => StartInv
<1> SUFFICES ASSUME StartInit PROVE StartInv
  OBVIOUS
<1> USE DEF StartInit, Starting
<1>1. StartTypes
  <2>1. localeFiles \in [Locales -> LocaleContents]
    BY DEF LocaleContents
  <2> QED BY <2>1, EmptySeq DEF StartTypes, Unmountable, Boots, Tools
<1>2. MountedFirst
  BY DEF MountedFirst, Unmountable, MountedStates, NoTools
<1>3. LastIsCurrent /\ ToolsAreKnown
  BY DEF LastIsCurrent, TranslationsFollow, ToolsAreKnown
<1> QED BY <1>1, <1>2, <1>3 DEF StartInv

\* main.ts reads the state, fails, or shows the window and finishes.
LEMMA MainGoesOn ==
  ASSUME StartInv,
         \/ RunFails \/ \E ok \in BOOLEAN : start(ok) \/ finish(ok) \/ ShowError(ok) \/ showWindow(ok)
         \/ LoadAborts \/ \E major \in JavaMajors \cup {None} : finalize_initialization(major)
  PROVE  StartInv'
<1>1. StartTypes /\ MountedFirst /\ LastIsCurrent /\ ToolsAreKnown
  BY DEF StartInv
<1> DEFINE goesOn ==
        /\ UNCHANGED <<boot, localeFiles, translations, fetching, issued, applied, unread, eruda, recreation, muddled>>
        /\ window' \in {"hidden", "shown", "lost"}
        /\ parsed' \in LocaleContents \cup {None}
        /\ \/ startup \in Unmountable /\ startup' \in Unmountable
           \/ startup \in MountedStates /\ startup' \in MountedStates
           \/ startup' = startup
        /\ startup' = "finished" => javaMajor' \in JavaMajors \cup {FamousAndOldJavaMajorVersion}
<1>2. goesOn
  <2>1. localeFiles[boot.locale] \in LocaleContents
    BY <1>1 DEF StartTypes, Boots
  <2>2. window \in {"hidden", "shown", "lost"} /\ parsed \in LocaleContents \cup {None}
    BY <1>1 DEF StartTypes
  <2>3. CASE RunFails
    BY <2>2, <2>3 DEF RunFails, localeVars, changeVars, Unmountable
  <2>4. ASSUME NEW ok \in BOOLEAN, start(ok) PROVE goesOn
    BY <2>1, <2>2, <2>4 DEF start, localeVars, changeVars, Unmountable
  <2>5. ASSUME NEW ok \in BOOLEAN, finish(ok) PROVE goesOn
    BY <2>2, <2>5 DEF finish, Show, localeVars, changeVars, MountedStates
  <2>6. ASSUME NEW ok \in BOOLEAN, ShowError(ok) PROVE goesOn
    BY <2>2, <2>6 DEF ShowError, Show, localeVars, changeVars, Unmountable
  <2>7. ASSUME NEW ok \in BOOLEAN, showWindow(ok) PROVE goesOn
    BY <1>1, <2>2, <2>7 DEF showWindow, Show, localeVars, changeVars, StartTypes
  <2>8. CASE LoadAborts
    BY <1>1, <2>2, <2>8 DEF LoadAborts, localeVars, changeVars, StartTypes
  <2>9. ASSUME NEW major \in JavaMajors \cup {None}, finalize_initialization(major) PROVE goesOn
    BY <2>2, <2>9 DEF finalize_initialization, localeVars, changeVars, MountedStates
  <2> QED BY <2>3, <2>4, <2>5, <2>6, <2>7, <2>8, <2>9
<1>3. StartTypes'
  BY <1>1, <1>2 DEF StartTypes, Unmountable, MountedStates
<1>4. MountedFirst'
  BY <1>1, <1>2 DEF MountedFirst, Unmountable, MountedStates
<1>5. LastIsCurrent'
  BY <1>2, LanguagesStay DEF Language
<1>6. ToolsAreKnown'
  BY <1>1, <1>2 DEF ToolsAreKnown
<1> QED BY <1>3, <1>4, <1>5, <1>6 DEF StartInv

\* The page is mounted, and asks for the first time.
LEMMA PageIsMounted ==
  ASSUME StartInv, run
  PROVE  StartInv'
<1>1. StartTypes /\ MountedFirst /\ LastIsCurrent /\ ToolsAreKnown
  BY DEF StartInv
<1>2. /\ startup = "reading" /\ startup' = "showing" /\ getTranslations(parsed, English) /\ Request(boot.locale)
      /\ eruda' = [eruda EXCEPT !.loading = IF boot.eruda THEN 1 ELSE 0]
      /\ UNCHANGED <<window, boot, parsed, applied, javaMajor, recreation, muddled>>
  BY DEF run, changeVars
<1>3. boot.locale \in Locales /\ boot.eruda \in BOOLEAN /\ parsed \in LocaleContents \cup {None} /\ eruda = NoTools
      /\ issued = 0 /\ applied = 0 /\ fetching = <<>>
  BY <1>1, <1>2 DEF StartTypes, Boots, MountedFirst, Unmountable
<1>4. translations' \in Locales /\ localeFiles' \in [Locales -> LocaleContents]
  BY <1>1, <1>2, <1>3, TranslationsAreRead, LocalesAssumption
<1>5. /\ issued' = 1 /\ fetching' \in Seq(Fetches)
      /\ \A i \in DOMAIN fetching' : fetching'[i].number = 1 /\ fetching'[i].locale = boot.locale
  BY <1>1, <1>2, <1>3, RequestIsMade
<1>6. eruda' = [loading |-> IF boot.eruda THEN 1 ELSE 0, shown |-> FALSE, unload |-> FALSE]
  BY <1>2, <1>3 DEF NoTools
<1>7. StartTypes'
  BY <1>1, <1>2, <1>3, <1>4, <1>5, <1>6 DEF StartTypes, MountedStates, Tools
<1>8. MountedFirst'
  BY <1>2, <1>4, <1>5 DEF MountedFirst, Unmountable
<1>9. LastIsCurrent'
  BY <1>2, <1>3, <1>5 DEF LastIsCurrent, TranslationsFollow
<1>10. ToolsAreKnown'
  <2>1. CASE boot.eruda
    <3>1. eruda' = [loading |-> 1, shown |-> FALSE, unload |-> FALSE]
      BY <1>6, <2>1
    <3> QED BY <1>2, <2>1, <3>1 DEF ToolsAreKnown
  <2>2. CASE ~boot.eruda
    <3>1. boot.eruda = FALSE
      BY <1>3, <2>2
    <3>2. eruda' = [loading |-> 0, shown |-> FALSE, unload |-> FALSE]
      BY <1>6, <2>2
    <3>3. eruda'.shown = FALSE /\ eruda'.loading = 0 /\ boot' = boot
      BY <1>2, <3>2
    <3>4. eruda'.shown = boot'.eruda /\ (eruda'.shown => eruda'.unload)
      BY <3>1, <3>3, Zenon
    <3> QED BY <3>3, <3>4 DEF ToolsAreKnown
  <2> QED BY <2>1, <2>2
<1> QED BY <1>7, <1>8, <1>9, <1>10 DEF StartInv

\* An answer comes, whichever.
LEMMA AnswerIsPut ==
  ASSUME StartInv, NEW i \in DOMAIN fetching, Translated(i)
  PROVE  StartInv'
<1>1. StartTypes /\ MountedFirst /\ LastIsCurrent /\ ToolsAreKnown
  BY DEF StartInv
<1>2. /\ getTranslations(None, fetching[i].locale) /\ applied' = fetching[i].number /\ fetching' = RemoveAt(fetching, i)
      /\ UNCHANGED <<startup, window, boot, parsed, issued, javaMajor, eruda, recreation, muddled>>
  BY DEF Translated, changeVars
<1>3. /\ fetching \in Seq(Fetches) /\ fetching[i] \in Fetches /\ issued \in Nat /\ boot.locale \in Locales
      /\ fetching[i].locale \in Locales /\ fetching[i].number \in Nat
  <2>1. fetching \in Seq(Fetches)
    BY <1>1 DEF StartTypes
  <2>2. fetching[i] \in Fetches
    BY <2>1
  <2> QED BY <1>1, <2>1, <2>2 DEF StartTypes, Boots, Fetches
<1>4. /\ translations' \in Locales /\ localeFiles' \in [Locales -> LocaleContents]
      /\ ~unread' => translations' = Language(fetching[i].locale) /\ \A k \in Locales : Language(k)' = Language(k)
  BY <1>1, <1>2, <1>3, TranslationsAreRead
<1>5. fetching' \in Seq(Fetches) /\ ToSet(fetching') \subseteq ToSet(fetching)
  BY <1>2, <1>3, PlaceIsRemoved
<1>6. \A k \in DOMAIN fetching' : \E j \in DOMAIN fetching : fetching'[k] = fetching[j]
  BY <1>5 DEF ToSet
<1>7. StartTypes'
  BY <1>1, <1>2, <1>3, <1>4, <1>5 DEF StartTypes
<1>8. MountedFirst'
  BY <1>1, <1>2, <1>4 DEF MountedFirst
<1>9. LastIsCurrent'
  <2>1. applied' <= issued' /\ (applied' = issued' => fetching[i].locale = boot'.locale)
    BY <1>1, <1>2, <1>3 DEF LastIsCurrent
  <2>2. TranslationsFollow'
    BY <1>2, <1>3, <1>4, <2>1 DEF TranslationsFollow
  <2> QED BY <1>1, <1>2, <1>6, <2>1, <2>2 DEF LastIsCurrent
<1>10. ToolsAreKnown'
  BY <1>1, <1>2 DEF ToolsAreKnown
<1> QED BY <1>7, <1>8, <1>9, <1>10 DEF StartInv

\* The user selects another locale.
LEMMA LocaleIsChanged ==
  ASSUME StartInv, NEW l \in Locales, ChangeLocale(l)
  PROVE  StartInv'
<1>1. StartTypes /\ MountedFirst /\ LastIsCurrent /\ ToolsAreKnown
  BY DEF StartInv
<1>2. /\ issued > 0 /\ boot' = [boot EXCEPT !.locale = l] /\ Request(l)
      /\ UNCHANGED <<startup, window, localeFiles, translations, applied, unread, parsed, javaMajor, eruda, recreation, muddled>>
  BY DEF ChangeLocale, Changed
<1>3. boot' \in Boots /\ boot'.locale = l /\ boot'.eruda = boot.eruda
  BY <1>1, <1>2 DEF StartTypes, Boots
<1>4. /\ issued' = issued + 1 /\ fetching' \in Seq(Fetches) /\ issued \in Nat /\ applied \in Nat
      /\ \A i \in DOMAIN fetching' :
           \/ i \in DOMAIN fetching /\ fetching'[i] = fetching[i]
           \/ fetching'[i].number = issued + 1 /\ fetching'[i].locale = l
  BY <1>1, <1>2, RequestIsMade DEF StartTypes
<1>5. StartTypes'
  BY <1>1, <1>2, <1>3, <1>4 DEF StartTypes
<1>6. MountedFirst'
  BY <1>1, <1>2, <1>4 DEF MountedFirst, StartTypes
<1>7. LastIsCurrent'
  BY <1>1, <1>2, <1>3, <1>4 DEF LastIsCurrent, TranslationsFollow
<1>8. ToolsAreKnown'
  BY <1>1, <1>2, <1>3 DEF ToolsAreKnown
<1> QED BY <1>5, <1>6, <1>7, <1>8 DEF StartInv

\* The tools are switched, or loaded.
LEMMA ToolsAreSwitched ==
  ASSUME StartInv, toggleEruda \/ \E loaded \in BOOLEAN : loadEruda(loaded)
  PROVE  StartInv'
<1>1. StartTypes /\ MountedFirst /\ LastIsCurrent /\ ToolsAreKnown
  BY DEF StartInv
<1>2. /\ UNCHANGED <<startup, window, localeFiles, translations, fetching, issued, applied, unread, parsed, javaMajor, recreation>>
      /\ boot \in Boots /\ eruda \in Tools /\ eruda.loading \in Nat
  BY <1>1 DEF toggleEruda, loadEruda, localeVars, StartTypes, Tools
<1>3. CASE toggleEruda
  <2>1. /\ boot' = [boot EXCEPT !.eruda = ~@] /\ issued > 0
        /\ eruda' = IF boot.eruda THEN [eruda EXCEPT !.shown = @ /\ ~eruda.unload] ELSE [eruda EXCEPT !.loading = @ + 1]
        /\ muddled' = (muddled \/ eruda.loading > 0)
    BY <1>3 DEF toggleEruda, Changed
  <2>2. boot' \in Boots /\ boot'.locale = boot.locale /\ boot'.eruda = ~boot.eruda
    BY <1>2, <2>1 DEF Boots
  <2>3. /\ eruda' \in Tools /\ eruda'.unload = eruda.unload
        /\ boot.eruda => eruda'.loading = eruda.loading /\ (eruda.unload => eruda'.shown = FALSE)
                         /\ (~eruda.shown => eruda'.shown = FALSE)
        /\ ~boot.eruda => eruda'.loading = eruda.loading + 1 /\ eruda'.shown = eruda.shown
    <3>1. CASE boot.eruda
      <4>1. PICK b \in BOOLEAN : b <=> eruda.shown /\ ~eruda.unload
        OBVIOUS
      <4>2. b = (eruda.shown /\ ~eruda.unload)
        BY <4>1
      <4>3. eruda' = [eruda EXCEPT !.shown = b]
        BY <2>1, <3>1, <4>2
      <4>4. eruda' \in Tools /\ eruda'.unload = eruda.unload /\ eruda'.loading = eruda.loading /\ eruda'.shown = b
        BY <1>2, <4>3 DEF Tools
      <4>5. eruda.unload \/ ~eruda.shown => b = FALSE
        BY <4>1
      <4> QED BY <3>1, <4>4, <4>5
    <3>2. CASE ~boot.eruda
      <4>1. eruda' = [eruda EXCEPT !.loading = @ + 1]
        BY <2>1, <3>2
      <4> QED BY <1>2, <3>2, <4>1 DEF Tools
    <3> QED BY <3>1, <3>2
  <2>4. StartTypes'
    BY <1>1, <1>2, <2>1, <2>2, <2>3 DEF StartTypes
  <2>5. MountedFirst'
    BY <1>1, <1>2, <2>1 DEF MountedFirst
  <2>6. LastIsCurrent'
    BY <1>1, <1>2, <2>2 DEF LastIsCurrent, TranslationsFollow, Language
  <2>7. ToolsAreKnown'
    <3> SUFFICES ASSUME ~muddled' PROVE ToolsAreKnown'
      BY DEF ToolsAreKnown
    <3>1. ~muddled /\ ~(eruda.loading > 0) /\ boot.eruda \in BOOLEAN
      <4>1. ~(muddled \/ eruda.loading > 0)
        BY <2>1, Zenon
      <4> QED BY <1>2, <4>1 DEF Boots
    <3>2. eruda.loading = 0 /\ eruda.shown = boot.eruda /\ (eruda.shown => eruda.unload)
      <4>1. eruda.loading = 0
        BY <1>2, <3>1
      <4> QED BY <1>1, <2>1, <3>1, <4>1 DEF ToolsAreKnown
    <3>3. CASE boot.eruda
      <4>1. boot'.eruda = FALSE /\ eruda'.loading = 0 /\ eruda'.shown = FALSE
        BY <2>2, <2>3, <3>1, <3>2, <3>3
      <4>2. eruda'.shown = boot'.eruda /\ (eruda'.shown => eruda'.unload)
        BY <4>1, Zenon
      <4> QED BY <4>1, <4>2 DEF ToolsAreKnown
    <3>4. CASE ~boot.eruda
      <4>1. eruda'.loading = 1
        BY <2>3, <3>2, <3>4
      <4>2. boot'.eruda
        BY <2>2, <3>4, Zenon
      <4>3. ~eruda.shown
        BY <3>2, <3>4, Zenon
      <4>4. eruda'.shown = eruda.shown
        BY <2>3, <3>4
      <4>5. ~eruda'.shown
        BY <4>3, <4>4, Zenon
      <4> QED BY <4>1, <4>2, <4>5 DEF ToolsAreKnown
    <3> QED BY <3>3, <3>4
  <2> QED BY <2>4, <2>5, <2>6, <2>7 DEF StartInv
<1>4. ASSUME NEW loaded \in BOOLEAN, loadEruda(loaded) PROVE StartInv'
  <2>1. /\ eruda.loading > 0 /\ boot' = boot /\ muddled' = (muddled \/ ~loaded)
        /\ eruda' = IF loaded THEN [loading |-> eruda.loading - 1, shown |-> TRUE, unload |-> TRUE]
                              ELSE [eruda EXCEPT !.loading = @ - 1]
    BY <1>4 DEF loadEruda
  <2>2. eruda' \in Tools /\ (loaded => eruda'.loading = eruda.loading - 1 /\ eruda'.shown = TRUE /\ eruda'.unload = TRUE)
    BY <1>2, <2>1 DEF Tools
  <2>3. startup \in MountedStates
    BY <1>1, <2>1 DEF MountedFirst, NoTools, StartTypes
  <2>4. StartTypes'
    BY <1>1, <1>2, <2>1, <2>2 DEF StartTypes
  <2>5. MountedFirst'
    BY <1>1, <1>2, <2>3 DEF MountedFirst, Unmountable, MountedStates
  <2>6. LastIsCurrent'
    BY <1>2, <2>1, LanguagesStay DEF Language
  <2>7. ToolsAreKnown'
    <3> SUFFICES ASSUME issued' > 0, ~muddled' PROVE ToolsAreKnown'
      BY DEF ToolsAreKnown
    <3>1. loaded /\ eruda.loading = 1 /\ boot.eruda
      BY <1>1, <1>2, <2>1 DEF ToolsAreKnown
    <3>2. eruda'.loading = 0 /\ eruda'.shown = TRUE /\ eruda'.unload = TRUE /\ boot' = boot
      BY <2>1, <2>2, <3>1
    <3>3. boot'.eruda = TRUE
      BY <1>2, <3>1, <3>2 DEF Boots
    <3>4. eruda'.shown = boot'.eruda /\ (eruda'.shown => eruda'.unload)
      BY <3>2, <3>3, Zenon
    <3> QED BY <3>2, <3>4 DEF ToolsAreKnown
  <2> QED BY <2>4, <2>5, <2>6, <2>7 DEF StartInv
<1> QED BY <1>3, <1>4

\* The window is made anew.
LEMMA WindowIsRecreated ==
  ASSUME StartInv, recreateWebView \/ Created \/ CreationFails
  PROVE  StartInv'
<1>1. StartTypes /\ MountedFirst /\ LastIsCurrent /\ ToolsAreKnown
  BY DEF StartInv
<1>2. CASE recreateWebView \/ CreationFails
  <2>1. /\ UNCHANGED <<startup, window, boot, localeFiles, translations, fetching, issued, applied, unread, parsed, javaMajor, eruda, muddled>>
        /\ recreation' \in {"no", "yes", "ever"}
    BY <1>2 DEF recreateWebView, CreationFails, localeVars, changeVars
  <2>2. LastIsCurrent'
    BY <2>1, LanguagesStay DEF Language
  <2> QED BY <1>1, <2>1, <2>2 DEF StartInv, StartTypes, MountedFirst, ToolsAreKnown
<1>3. CASE Created
  <2>1. /\ recreation' = "no" /\ startup' = "starting" /\ window' = "hidden" /\ parsed' = None /\ fetching' = <<>>
        /\ issued' = 0 /\ applied' = 0 /\ eruda' = NoTools /\ muddled' = FALSE /\ UNCHANGED <<boot, localeFiles>>
    BY <1>3 DEF Created, NoTools
  <2>2. StartTypes'
    BY <1>1, <2>1, EmptySeq DEF StartTypes, Unmountable, NoTools, Tools
  <2>3. MountedFirst'
    BY <2>1 DEF MountedFirst, MountedStates
  <2>4. LastIsCurrent' /\ ToolsAreKnown'
    BY <2>1 DEF LastIsCurrent, TranslationsFollow, ToolsAreKnown
  <2> QED BY <2>2, <2>3, <2>4 DEF StartInv
<1> QED BY <1>2, <1>3

\* Every step of the start.
LEMMA StartSteps == StartInv /\ [StartNext]_startVars => StartInv'
<1> SUFFICES ASSUME StartInv, [StartNext]_startVars PROVE StartInv'
  OBVIOUS
<1>1. CASE run
  BY <1>1, PageIsMounted
<1>2. CASE \/ RunFails \/ \E ok \in BOOLEAN : start(ok) \/ finish(ok) \/ ShowError(ok) \/ showWindow(ok)
           \/ LoadAborts \/ \E major \in JavaMajors \cup {None} : finalize_initialization(major)
  BY <1>2, MainGoesOn
<1>3. ASSUME NEW i \in DOMAIN fetching, Translated(i) PROVE StartInv'
  BY <1>3, AnswerIsPut
<1>4. ASSUME NEW l \in Locales, ChangeLocale(l) PROVE StartInv'
  BY <1>4, LocaleIsChanged
<1>5. CASE toggleEruda \/ \E loaded \in BOOLEAN : loadEruda(loaded)
  BY <1>5, ToolsAreSwitched
<1>6. CASE recreateWebView \/ Created \/ CreationFails
  BY <1>6, WindowIsRecreated
<1>7. CASE UNCHANGED startVars
  <2>1. UNCHANGED <<startup, window, boot, localeFiles, translations, fetching, issued, applied, unread, parsed, javaMajor, eruda,
                    recreation, muddled>>
    BY <1>7 DEF startVars, localeVars, changeVars
  <2>2. LastIsCurrent'
    BY <2>1, LanguagesStay DEF Language
  <2> QED BY <2>1, <2>2 DEF StartInv, StartTypes, MountedFirst, ToolsAreKnown
<1> QED BY <1>1, <1>2, <1>3, <1>4, <1>5, <1>6, <1>7 DEF StartNext, MainStep, LoaderStep

(* The inductive invariant of the start.                                   *)
THEOREM StartInvariance == StartSafety => []StartInv
<1>1. StartInv /\ [StartNext]_startVars => StartInv'
  BY StartSteps
<1> QED BY <1>1, StartsUnmounted, PTL DEF StartSafety

(* The page is in the language of the locale as soon as the last answer is *)
(* that for it, if its file could be read, and the tools are there if they *)
(* are switched on: for any locales, files and changes                     *)
(* (get-translations.ts, watch-states.ts).                                 *)
THEOREM PageFollowsConfig == StartSafety => [](TranslationsFollow /\ ToolsAsSwitched /\ StartTypeOK)
<1>1. StartInv => TranslationsFollow /\ ToolsAsSwitched /\ StartTypeOK
  <2> SUFFICES ASSUME StartInv PROVE TranslationsFollow /\ ToolsAsSwitched /\ StartTypeOK
    OBVIOUS
  <2>1. StartTypes /\ MountedFirst /\ LastIsCurrent /\ ToolsAreKnown
    BY DEF StartInv
  <2>2. ToolsAsSwitched
    BY <2>1 DEF ToolsAsSwitched, MountedFirst, MountedStates, ToolsAreKnown
  <2>3. StartTypeOK
    <3>1. \A i \in DOMAIN fetching : fetching[i].number <= issued
      BY <2>1 DEF LastIsCurrent, StartTypes
    <3> QED BY <2>1, <3>1 DEF StartTypeOK, StartTypes, MountedFirst, LastIsCurrent, Unmountable, MountedStates, LocaleContents
  <2> QED BY <2>1, <2>2, <2>3 DEF LastIsCurrent
<1> QED BY <1>1, StartInvariance, PTL


-----------------------------------------------------------------------------
(* Servers of extensions (module ExtensionServers).  As long as nothing    *)
(* overtook anything, each call is followed from its handlers to the list: *)
(* what the page has started it has handlers for, what had been started    *)
(* before comes with the answer, and what has ended is told.               *)

ServerCallStates == {"none", "missing", "writing", "abandoned", "spawning", "spawned", "refused", "over"}

ServerTypes ==
  /\ name \in [Calls -> Names \cup {None}] /\ call \in [Calls -> ServerCallStates]
  /\ files \in [Names -> {"missing", "begun", "whole"}] /\ processes \in [Calls -> {None, "begun", "whole"}]
  /\ spawning \subseteq Calls /\ registry \subseteq Running /\ exits \subseteq Calls \ Running
  /\ ProcessHandlers \subseteq Calls /\ serverProcesses \in Seq(Calls)
  /\ hydration \in {"listening", "listing", "listed", "done"} /\ answer \subseteq Calls
  /\ cut \subseteq Names /\ overtaken \in BOOLEAN

\* A file that is not whole is being written, or its write has failed.
CodeIsNamed == \A c \in Calls : call[c] # "none" => name[c] \in Names
CodeIsWritten == \A c \in spawning : files[name[c]] # "missing" /\ call[c] # "none"
BegunIsKnown == \A n \in Names : files[n] = "begun" => n \in cut \cup Writing
CodeIsThere == CodeIsNamed /\ CodeIsWritten /\ BegunIsKnown /\ ServedWhole

\* A process is started once, for a call that waits for it or whose page is gone.
StartedOnce ==
  /\ \A c \in Calls :
       /\ c \in spawning => c \notin Running \cup exits /\ call[c] \in {"spawning", "over"}
       /\ call[c] = "spawning" => c \in spawning
       /\ c \in Running \cup exits => call[c] \in {"spawned", "over"}
  /\ hydration = "listening" => exits = {}

\* The calls of this page that handlers wait for, and what was started for the page before.
Awaited(c) == call[c] \in {"spawning", "spawned", "refused"}
OfBefore(c) == call[c] = "over" /\ c \in Running
ToldOf(c) == c \in Running \cup exits

NothingUnlisted == serverProcesses = <<>> /\ \A c \in Calls : c \in ProcessHandlers <=> Awaited(c)
AnswerIsRight ==
  \A c \in Calls : (c \in answer => call[c] = "over" /\ ToldOf(c)) /\ (OfBefore(c) => c \in answer)
ListIsRight ==
  /\ IsInjective(serverProcesses)
  /\ \A c \in Calls : /\ c \in Listed => call[c] = "over" /\ ToldOf(c)
                      /\ OfBefore(c) => c \in Listed
                      /\ c \in ProcessHandlers <=> Awaited(c) \/ c \in Listed

ServersSteady ==
  ~overtaken =>
    /\ \A c \in Calls : call[c] = "spawned" => ToldOf(c)
    /\ hydration # "done" => NothingUnlisted
    /\ hydration \in {"listed", "done"} => \A c \in spawning : call[c] = "spawning"
    /\ hydration = "listed" => AnswerIsRight
    /\ hydration = "done" => ListIsRight

ServersInv == ServerTypes /\ CodeIsThere /\ StartedOnce /\ ServersSteady

ServersSafety == ServersInit /\ [][ServersNext]_serverVars

-----------------------------------------------------------------------------
\* At first nothing has been started.
LEMMA ServersStart == ServersInit => ServersInv
<1> SUFFICES ASSUME ServersInit PROVE ServersInv
  OBVIOUS
<1> USE DEF ServersInit
<1>1. Running = {} /\ Writing = {}
  BY DEF Running, Writing
<1>2. ServerTypes
  BY <1>1, EmptySeq DEF ServerTypes, ServerCallStates
<1>3. CodeIsThere
  BY <1>1 DEF CodeIsThere, CodeIsNamed, CodeIsWritten, BegunIsKnown, ServedWhole
<1>4. StartedOnce
  BY <1>1 DEF StartedOnce
<1>5. ServersSteady
  BY <1>1 DEF ServersSteady, NothingUnlisted, Awaited, ToldOf
<1> QED BY <1>2, <1>3, <1>4, <1>5 DEF ServersInv

\* A server is served, from a file that is there or is missing.
LEMMA ServeSteps ==
  ASSUME ServersInv, NEW c \in Calls, NEW n \in Names, serveCode(c, n)
  PROVE  ServersInv'
<1>1. ServerTypes /\ CodeIsThere /\ StartedOnce /\ ServersSteady
  BY DEF ServersInv
<1>2. /\ call[c] = "none" /\ name' = [name EXCEPT ![c] = n]
      /\ UNCHANGED <<files, processes, registry, exits, serverProcesses, hydration, answer, reloads, cut, overtaken>>
      /\ \/ /\ files[n] # "missing" /\ call' = [call EXCEPT ![c] = "spawning"]
            /\ ProcessHandlers' = ProcessHandlers \cup {c} /\ spawning' = spawning \cup {c}
         \/ call' = [call EXCEPT ![c] = "missing"] /\ UNCHANGED <<ProcessHandlers, spawning>>
  BY DEF serveCode, Spawn
<1>3. Running' = Running /\ Running \subseteq Calls /\ Listed' = Listed
  BY <1>2 DEF Running, Listed
<1>4. /\ name'[c] = n
      /\ \/ call'[c] = "spawning" /\ files[n] # "missing" /\ c \in spawning'
         \/ call'[c] = "missing" /\ spawning' = spawning
      /\ \A s \in Calls : s # c => name'[s] = name[s] /\ call'[s] = call[s]
  BY <1>1, <1>2 DEF ServerTypes
<1>5. ServerTypes'
  BY <1>1, <1>2, <1>3 DEF ServerTypes, ServerCallStates
<1>6. Writing' = Writing
  BY <1>2, <1>4 DEF Writing
<1>7. CodeIsThere'
  <2>1. c \notin Running
    BY <1>1, <1>2 DEF StartedOnce
  <2>2. CodeIsNamed'
    BY <1>1, <1>4 DEF CodeIsThere, CodeIsNamed
  <2>3. CodeIsWritten'
    BY <1>1, <1>2, <1>4 DEF CodeIsThere, CodeIsWritten, ServerTypes
  <2>4. BegunIsKnown'
    BY <1>1, <1>2, <1>6 DEF CodeIsThere, BegunIsKnown
  <2>5. ServedWhole'
    BY <1>1, <1>2, <1>3, <1>4, <2>1 DEF CodeIsThere, ServedWhole
  <2> QED BY <2>2, <2>3, <2>4, <2>5 DEF CodeIsThere
<1>8. StartedOnce'
  BY <1>1, <1>2, <1>3, <1>4 DEF StartedOnce
<1>9. ServersSteady'
  BY <1>1, <1>2, <1>3, <1>4 DEF ServersSteady, NothingUnlisted, AnswerIsRight, ListIsRight, Awaited, OfBefore, ToldOf, ServerTypes
<1> QED BY <1>5, <1>7, <1>8, <1>9 DEF ServersInv

\* Its code is written.
LEMMA WriteSteps ==
  ASSUME ServersInv, NEW c \in Calls, writeTextFile(c) \/ \E fails \in BOOLEAN : WriteEnds(c, fails)
  PROVE  ServersInv'
<1>1. ServerTypes /\ CodeIsThere /\ StartedOnce /\ ServersSteady
  BY DEF ServersInv
<1>2. CASE writeTextFile(c)
  <2>1. /\ call[c] = "missing" /\ call' = [call EXCEPT ![c] = "writing"] /\ files' = [files EXCEPT ![name[c]] = "begun"]
        /\ UNCHANGED <<name, spawning, processes, registry, exits, ProcessHandlers, serverProcesses, hydration, answer, cut, overtaken>>
    BY <1>2 DEF writeTextFile, processVars, pageVars
  <2>2. Running' = Running /\ Running \subseteq Calls /\ Listed' = Listed
    BY <2>1 DEF Running, Listed
  <2>3. call'[c] = "writing" /\ \A s \in Calls : s # c => call'[s] = call[s]
    BY <1>1, <2>1 DEF ServerTypes
  <2>4. name[c] \in Names /\ files'[name[c]] = "begun" /\ \A n \in Names : n # name[c] => files'[n] = files[n]
    BY <1>1, <2>1 DEF ServerTypes, CodeIsThere, CodeIsNamed
  <2>5. ServerTypes'
    BY <1>1, <2>1, <2>2 DEF ServerTypes, ServerCallStates
  <2>6. name[c] \in Writing' /\ Writing \subseteq Writing'
    BY <2>1, <2>3 DEF Writing
  <2>7. CodeIsThere'
    BY <1>1, <2>1, <2>2, <2>3, <2>4, <2>6 DEF CodeIsThere, CodeIsNamed, CodeIsWritten, BegunIsKnown, ServedWhole, StartedOnce
  <2>8. StartedOnce'
    BY <1>1, <2>1, <2>2, <2>3 DEF StartedOnce
  <2>9. ServersSteady'
    BY <1>1, <2>1, <2>2, <2>3 DEF ServersSteady, NothingUnlisted, AnswerIsRight, ListIsRight, Awaited, OfBefore, ToldOf, ServerTypes
  <2> QED BY <2>5, <2>7, <2>8, <2>9 DEF ServersInv
<1>3. ASSUME NEW fails \in BOOLEAN, WriteEnds(c, fails) PROVE ServersInv'
  <2>1. /\ call[c] \in {"writing", "abandoned"}
        /\ files' = IF fails THEN files ELSE [files EXCEPT ![name[c]] = "whole"]
        /\ cut' = IF fails THEN cut \cup {name[c]} ELSE cut
        /\ \/ call' = [call EXCEPT ![c] = "over"] /\ UNCHANGED <<ProcessHandlers, spawning>>
           \/ /\ ~fails /\ call[c] = "writing" /\ call' = [call EXCEPT ![c] = "spawning"]
              /\ ProcessHandlers' = ProcessHandlers \cup {c} /\ spawning' = spawning \cup {c}
        /\ UNCHANGED <<name, processes, registry, exits, serverProcesses, hydration, answer, overtaken>>
    BY <1>3 DEF WriteEnds, Spawn
  <2>2. Running' = Running /\ Running \subseteq Calls /\ Listed' = Listed
    BY <2>1 DEF Running, Listed
  <2>3. /\ \A s \in Calls : s # c => call'[s] = call[s]
        /\ \/ call'[c] = "over" /\ UNCHANGED <<ProcessHandlers, spawning>>
           \/ ~fails /\ call'[c] = "spawning" /\ ProcessHandlers' = ProcessHandlers \cup {c} /\ spawning' = spawning \cup {c}
    BY <1>1, <2>1 DEF ServerTypes
  <2>4. /\ name[c] \in Names /\ \A n \in Names : n # name[c] => files'[n] = files[n]
        /\ (fails => files' = files /\ name[c] \in cut') /\ (~fails => files'[name[c]] = "whole")
    BY <1>1, <2>1 DEF ServerTypes, CodeIsThere, CodeIsNamed
  <2>5. ServerTypes'
    BY <1>1, <2>1, <2>2, <2>4 DEF ServerTypes, ServerCallStates
  <2>6. \A n \in Writing : n = name[c] \/ n \in Writing'
    BY <2>1, <2>3 DEF Writing
  <2>7. CodeIsThere'
    <3>1. CodeIsNamed'
      BY <1>1, <2>1, <2>3, <2>4 DEF CodeIsThere, CodeIsNamed
    <3>2. CodeIsWritten'
      BY <1>1, <2>1, <2>3, <2>4 DEF CodeIsThere, CodeIsNamed, CodeIsWritten, ServerTypes
    <3>3. BegunIsKnown'
      BY <1>1, <2>1, <2>4, <2>6 DEF CodeIsThere, BegunIsKnown
    <3>4. ServedWhole'
      BY <1>1, <2>1, <2>2 DEF CodeIsThere, ServedWhole
    <3> QED BY <3>1, <3>2, <3>3, <3>4 DEF CodeIsThere
  <2>8. StartedOnce'
    <3>1. c \notin Running \cup exits /\ c \notin spawning
      BY <1>1, <2>1 DEF StartedOnce
    <3> QED BY <1>1, <2>1, <2>2, <2>3, <3>1 DEF StartedOnce
  <2>9. ServersSteady'
    BY <1>1, <2>1, <2>2, <2>3 DEF ServersSteady, StartedOnce, NothingUnlisted, AnswerIsRight, ListIsRight, Awaited, OfBefore, ToldOf, ServerTypes
  <2> QED BY <2>5, <2>7, <2>8, <2>9 DEF ServersInv
<1> QED BY <1>2, <1>3

\* The backend starts a process, or refuses to.
LEMMA SpawnSteps ==
  ASSUME ServersInv, NEW c \in Calls, NEW fails \in BOOLEAN, spawn_process(c, fails)
  PROVE  ServersInv'
<1>1. ServerTypes /\ CodeIsThere /\ StartedOnce /\ ServersSteady
  BY DEF ServersInv
<1>2. /\ c \in spawning /\ spawning' = spawning \ {c}
      /\ overtaken' = (overtaken \/ (hydration # "listening" /\ call[c] = "over"))
      /\ UNCHANGED <<name, files, exits, ProcessHandlers, serverProcesses, hydration, answer>>
      /\ \/ /\ fails /\ call' = IF call[c] = "spawning" THEN [call EXCEPT ![c] = "refused"] ELSE call
            /\ UNCHANGED <<processes, registry, cut>>
         \/ /\ ~fails /\ call' = IF call[c] = "spawning" THEN [call EXCEPT ![c] = "spawned"] ELSE call
            /\ processes' = [processes EXCEPT ![c] = files[name[c]]] /\ registry' = registry \cup {c}
            /\ cut' = IF name[c] \in Writing THEN cut \cup {name[c]} ELSE cut
  BY DEF spawn_process, pageVars
<1>3. /\ call[c] \in {"spawning", "over"} /\ processes[c] = None /\ c \notin exits /\ name[c] \in Names
      /\ files[name[c]] \in {"begun", "whole"}
  BY <1>1, <1>2 DEF ServerTypes, StartedOnce, CodeIsThere, CodeIsNamed, CodeIsWritten, Running
<1>4. /\ \A s \in Calls : s # c => call'[s] = call[s] /\ processes'[s] = processes[s]
      /\ call[c] = "over" => call'[c] = "over"
      /\ call[c] = "spawning" => call'[c] = IF fails THEN "refused" ELSE "spawned"
      /\ processes'[c] = IF fails THEN None ELSE files[name[c]]
  BY <1>1, <1>2, <1>3 DEF ServerTypes
<1>5. Listed' = Listed /\ Running \subseteq Calls /\ Running' = IF fails THEN Running ELSE Running \cup {c}
  BY <1>2, <1>3, <1>4, ServersAssumption DEF Listed, Running
<1>6. ServerTypes'
  BY <1>1, <1>2, <1>3, <1>4, <1>5 DEF ServerTypes, ServerCallStates
<1>7. Writing' = Writing
  BY <1>2, <1>3, <1>4 DEF Writing
<1>8. CodeIsThere'
  <2>1. cut \subseteq cut' /\ (files[name[c]] = "begun" /\ ~fails => name[c] \in cut')
    BY <1>1, <1>2, <1>3 DEF CodeIsThere, BegunIsKnown
  <2>2. CodeIsNamed'
    BY <1>1, <1>2, <1>3, <1>4 DEF CodeIsThere, CodeIsNamed
  <2>3. CodeIsWritten'
    BY <1>1, <1>2, <1>4, <1>3 DEF CodeIsThere, CodeIsWritten, ServerTypes
  <2>4. BegunIsKnown'
    BY <1>1, <1>2, <1>7, <2>1 DEF CodeIsThere, BegunIsKnown
  <2>5. ServedWhole'
    BY <1>1, <1>2, <1>3, <1>4, <1>5, <2>1 DEF CodeIsThere, ServedWhole
  <2> QED BY <2>2, <2>3, <2>4, <2>5 DEF CodeIsThere
<1>9. StartedOnce'
  BY <1>1, <1>2, <1>3, <1>4, <1>5 DEF StartedOnce, ServerTypes
<1>10. ServersSteady'
  BY <1>1, <1>2, <1>3, <1>4, <1>5 DEF ServersSteady, NothingUnlisted, AnswerIsRight, ListIsRight, Awaited, OfBefore, ToldOf, ServerTypes
<1> QED BY <1>6, <1>8, <1>9, <1>10 DEF ServersInv

\* A process ends, or is killed by the page.
LEMMA ProcessEnds ==
  ASSUME ServersInv, NEW c \in Calls, Terminated(c) \/ kill_process(c)
  PROVE  ServersInv'
<1>1. ServerTypes /\ CodeIsThere /\ StartedOnce /\ ServersSteady
  BY DEF ServersInv
<1>2. CASE Terminated(c)
  <2>1. /\ c \in Running /\ processes' = [processes EXCEPT ![c] = None] /\ registry' = registry \ {c}
        /\ exits' = IF hydration = "listening" THEN exits ELSE exits \cup {c}
        /\ overtaken' = (overtaken \/ (hydration = "listening" /\ c \in ProcessHandlers))
        /\ UNCHANGED <<name, call, files, spawning, ProcessHandlers, serverProcesses, hydration, answer, cut>>
    BY <1>2 DEF Terminated, pageVars
  <2>2. processes'[c] = None /\ \A s \in Calls : s # c => processes'[s] = processes[s]
    BY <1>1, <2>1 DEF ServerTypes
  <2>3. Listed' = Listed /\ Running \subseteq Calls /\ Running' = Running \ {c} /\ Writing' = Writing
    BY <2>1, <2>2 DEF Listed, Running, Writing
  <2>4. ServerTypes'
    BY <1>1, <2>1, <2>2, <2>3 DEF ServerTypes
  <2>5. CodeIsThere'
    BY <1>1, <2>1, <2>2, <2>3 DEF CodeIsThere, CodeIsNamed, CodeIsWritten, BegunIsKnown, ServedWhole
  <2>6. StartedOnce'
    BY <1>1, <2>1, <2>3 DEF StartedOnce
  <2>7. ServersSteady'
    BY <1>1, <2>1, <2>3 DEF ServersSteady, StartedOnce, NothingUnlisted, AnswerIsRight, ListIsRight, Awaited, OfBefore, ToldOf, ServerTypes
  <2> QED BY <2>4, <2>5, <2>6, <2>7 DEF ServersInv
<1>3. CASE kill_process(c)
  <2>1. /\ registry' = registry \ {c}
        /\ UNCHANGED <<name, call, files, spawning, processes, exits, ProcessHandlers, serverProcesses, hydration, answer,
                       cut, overtaken>>
    BY <1>3 DEF kill_process, pageVars
  <2>2. Listed' = Listed /\ Running' = Running /\ Writing' = Writing
    BY <2>1 DEF Listed, Running, Writing
  <2>3. ServerTypes'
    BY <1>1, <2>1, <2>2 DEF ServerTypes
  <2>4. CodeIsThere'
    BY <1>1, <2>1, <2>2 DEF CodeIsThere, CodeIsNamed, CodeIsWritten, BegunIsKnown, ServedWhole
  <2>5. StartedOnce'
    BY <1>1, <2>1, <2>2 DEF StartedOnce
  <2>6. ServersSteady'
    BY <1>1, <2>1, <2>2 DEF ServersSteady, NothingUnlisted, AnswerIsRight, ListIsRight, Awaited, OfBefore, ToldOf
  <2> QED BY <2>3, <2>4, <2>5, <2>6 DEF ServersInv
<1> QED BY <1>2, <1>3

\* spawn_process has answered: the server is listed, or its handlers go.
LEMMA SpawnAnswered ==
  ASSUME ServersInv, NEW c \in Calls, spawnServer(c) \/ spawnServerFails(c)
  PROVE  ServersInv'
<1>1. ServerTypes /\ CodeIsThere /\ StartedOnce /\ ServersSteady
  BY DEF ServersInv
<1>2. /\ call[c] \in {"spawned", "refused"} /\ call' = [call EXCEPT ![c] = "over"]
      /\ UNCHANGED <<name, files, spawning, processes, registry, exits, hydration, answer, cut>>
  BY DEF spawnServer, spawnServerFails, processVars
<1>3. call'[c] = "over" /\ \A s \in Calls : s # c => call'[s] = call[s]
  BY <1>1, <1>2 DEF ServerTypes
<1>4. Running' = Running /\ Running \subseteq Calls
  BY <1>2 DEF Running
<1>5. Writing' = Writing
  BY <1>2, <1>3 DEF Writing
<1>6. serverProcesses \in Seq(Calls)
  BY <1>1 DEF ServerTypes
<1>7. \/ /\ call[c] = "spawned" /\ serverProcesses' = Append(serverProcesses, c)
         /\ overtaken' = (overtaken \/ hydration # "done") /\ UNCHANGED ProcessHandlers
      \/ /\ call[c] = "refused" /\ ProcessHandlers' = ProcessHandlers \ {c} /\ UNCHANGED <<serverProcesses, overtaken>>
  BY DEF spawnServer, spawnServerFails
<1>8. /\ Append(serverProcesses, c) \in Seq(Calls) /\ ToSet(Append(serverProcesses, c)) = Listed \cup {c}
      /\ IsInjective(serverProcesses) /\ c \notin Listed => IsInjective(Append(serverProcesses, c))
  BY <1>6, AppendAdds DEF Listed
<1>9. ServerTypes'
  BY <1>1, <1>2, <1>4, <1>6, <1>7, <1>8 DEF ServerTypes, ServerCallStates
<1>10. CodeIsThere'
  BY <1>1, <1>2, <1>3, <1>4, <1>5 DEF CodeIsThere, CodeIsNamed, CodeIsWritten, BegunIsKnown, ServedWhole
<1>11. StartedOnce'
  BY <1>1, <1>2, <1>3, <1>4 DEF StartedOnce
<1>12. ServersSteady'
  <2>1. CASE call[c] = "refused"
    <3>1. Listed' = Listed /\ UNCHANGED <<serverProcesses, overtaken>> /\ ProcessHandlers' = ProcessHandlers \ {c}
      BY <1>7, <2>1 DEF Listed
    <3>2. c \notin Running \cup exits
      BY <1>1, <2>1 DEF StartedOnce
    <3> QED BY <1>1, <1>2, <1>3, <1>4, <2>1, <3>1, <3>2
            DEF ServersSteady, NothingUnlisted, AnswerIsRight, ListIsRight, Awaited, OfBefore, ToldOf
  <2>2. CASE call[c] = "spawned"
    <3> SUFFICES ASSUME ~overtaken' PROVE ServersSteady'
      BY DEF ServersSteady
    <3>1. hydration = "done" /\ ~overtaken /\ UNCHANGED ProcessHandlers /\ serverProcesses' = Append(serverProcesses, c)
      BY <1>7, <2>2
    <3>2. ListIsRight /\ ToldOf(c) /\ \A s \in spawning : call[s] = "spawning"
      BY <1>1, <2>2, <3>1 DEF ServersSteady
    <3>3. c \notin Listed
      BY <2>2, <3>2 DEF ListIsRight
    <3>4. Listed' = Listed \cup {c} /\ IsInjective(serverProcesses')
      BY <1>8, <3>1, <3>2, <3>3 DEF Listed, ListIsRight
    <3>5. ListIsRight'
      BY <1>2, <1>3, <1>4, <2>2, <3>1, <3>2, <3>4 DEF ListIsRight, Awaited, OfBefore, ToldOf
    <3> QED BY <1>1, <1>2, <1>3, <1>4, <3>1, <3>5, <2>2, <3>2 DEF ServersSteady, ToldOf, ServerTypes
  <2> QED BY <1>2, <2>1, <2>2
<1> QED BY <1>9, <1>10, <1>11, <1>12 DEF ServersInv

\* The page is told of an end: what is listed by that name goes.
LEMMA ExitIsHandled ==
  ASSUME ServersInv, NEW c \in Calls, ProcessExited(c)
  PROVE  ServersInv'
<1>1. ServerTypes /\ CodeIsThere /\ StartedOnce /\ ServersSteady
  BY DEF ServersInv
<1>2. /\ c \in exits /\ exits' = exits \ {c} /\ ProcessHandlers' = ProcessHandlers \ {c}
      /\ serverProcesses' = IF c \in ProcessHandlers THEN OnExit(c) ELSE serverProcesses
      /\ overtaken' = (overtaken \/ Namesakes(c) # {} \/ call[c] = "spawned" \/ hydration \in {"listing", "listed"})
      /\ UNCHANGED <<name, call, files, spawning, processes, registry, hydration, answer, cut>>
  BY DEF ProcessExited
<1>3. Running' = Running /\ Running \subseteq Calls /\ Writing' = Writing
  BY <1>2 DEF Running, Writing
<1> DEFINE others == {s \in Calls : name[s] # name[c]}
<1>4. /\ OnExit(c) \in Seq(Calls) /\ ToSet(OnExit(c)) = Listed \cap others
      /\ IsInjective(serverProcesses) => IsInjective(OnExit(c))
  <2>1. serverProcesses \in Seq(Calls) /\ OnExit(c) = Selected(serverProcesses, others)
    BY <1>1 DEF ServerTypes, OnExit
  <2> HIDE DEF others
  <2> QED BY <2>1, SelectedAre DEF Listed
<1>5. ServerTypes'
  BY <1>1, <1>2, <1>3, <1>4 DEF ServerTypes
<1>6. CodeIsThere'
  BY <1>1, <1>2, <1>3 DEF CodeIsThere, CodeIsNamed, CodeIsWritten, BegunIsKnown, ServedWhole
<1>7. StartedOnce'
  BY <1>1, <1>2, <1>3 DEF StartedOnce
<1>8. ServersSteady'
  <2> SUFFICES ASSUME ~overtaken' PROVE ServersSteady'
    BY DEF ServersSteady
  <2>1. ~overtaken /\ call[c] # "spawned" /\ \A s \in Listed : s # c => name[s] # name[c]
    BY <1>2 DEF Namesakes
  <2>2. hydration = "done"
    BY <1>1, <1>2, <2>1 DEF StartedOnce, ServerTypes
  <2>3. ListIsRight /\ (\A s \in spawning : call[s] = "spawning") /\ \A s \in Calls : call[s] = "spawned" => ToldOf(s)
    BY <1>1, <2>1, <2>2 DEF ServersSteady
  <2>4. call[c] = "over" /\ c \notin Running
    BY <1>1, <1>2, <2>1 DEF StartedOnce, ServerTypes
  <2>5. c \in ProcessHandlers <=> c \in Listed
    BY <2>3, <2>4 DEF ListIsRight, Awaited
  <2>6. Listed \subseteq Calls
    <3>1. serverProcesses \in Seq(Calls)
      BY <1>1 DEF ServerTypes
    <3>2. \A i \in DOMAIN serverProcesses : serverProcesses[i] \in Calls
      BY <3>1
    <3> QED BY <3>2 DEF Listed, ToSet
  <2>7. Listed' = Listed \ {c} /\ IsInjective(serverProcesses')
    <3>1. Listed \cap others = Listed \ {c}
      BY <2>1, <2>6
    <3> HIDE DEF others
    <3>2. CASE c \in ProcessHandlers
      BY <1>2, <1>4, <2>3, <3>1, <3>2 DEF Listed, ListIsRight
    <3>3. CASE c \notin ProcessHandlers
      BY <1>2, <2>3, <2>5, <3>3 DEF Listed, ListIsRight
    <3> QED BY <3>2, <3>3
  <2>8. ListIsRight'
    BY <1>2, <1>3, <2>3, <2>4, <2>7 DEF ListIsRight, Awaited, OfBefore, ToldOf
  <2>9. \A s \in Calls : call[s] = "spawned" => ToldOf(s)'
    BY <1>2, <1>3, <2>1, <2>3 DEF ToldOf
  <2> QED BY <1>2, <2>2, <2>3, <2>8, <2>9 DEF ServersSteady
<1> QED BY <1>5, <1>6, <1>7, <1>8 DEF ServersInv

\* A page that has listeners asks for the processes, and gets them.
LEMMA ListingSteps ==
  ASSUME ServersInv, watchProcesses \/ list_processes
  PROVE  ServersInv'
<1>1. ServerTypes /\ CodeIsThere /\ StartedOnce /\ ServersSteady
  BY DEF ServersInv
<1>2. /\ UNCHANGED <<name, call, files, spawning, processes, registry, exits, ProcessHandlers, serverProcesses, cut>>
      /\ \/ hydration = "listening" /\ hydration' = "listing" /\ UNCHANGED <<answer, overtaken>>
         \/ /\ hydration = "listing" /\ hydration' = "listed" /\ answer' = registry
            /\ overtaken' = (overtaken \/ \E c \in Calls : c \in spawning \/ call[c] = "spawned" \/ c \in Running \ registry)
  BY DEF watchProcesses, list_processes, processVars
<1>3. Running' = Running /\ Writing' = Writing /\ Listed' = Listed /\ Running \subseteq Calls
  BY <1>2 DEF Running, Writing, Listed
<1>4. ServerTypes'
  BY <1>1, <1>2, <1>3 DEF ServerTypes
<1>5. CodeIsThere'
  BY <1>1, <1>2, <1>3 DEF CodeIsThere, CodeIsNamed, CodeIsWritten, BegunIsKnown, ServedWhole
<1>6. StartedOnce'
  BY <1>1, <1>2, <1>3 DEF StartedOnce
<1>7. ServersSteady'
  BY <1>1, <1>2, <1>3 DEF ServersSteady, StartedOnce, NothingUnlisted, AnswerIsRight, Awaited, OfBefore, ToldOf, ServerTypes
<1> QED BY <1>4, <1>5, <1>6, <1>7 DEF ServersInv

\* The answer is put in the place of the list.
LEMMA ListIsPut ==
  ASSUME ServersInv, declareServerProcesses
  PROVE  ServersInv'
<1>1. ServerTypes /\ CodeIsThere /\ StartedOnce /\ ServersSteady
  BY DEF ServersInv
<1>2. /\ hydration = "listed" /\ hydration' = "done" /\ ProcessHandlers' = ProcessHandlers \cup answer
      /\ serverProcesses' = SetToSeq(answer) /\ answer' = {}
      /\ overtaken' = (overtaken \/ \E c \in Calls : call[c] = "spawned")
      /\ UNCHANGED <<name, call, files, spawning, processes, registry, exits, cut>>
  BY DEF declareServerProcesses, Attached, processVars
<1>3. Running' = Running /\ Running \subseteq Calls /\ Writing' = Writing
  BY <1>2 DEF Running, Writing
<1>4. SetToSeq(answer) \in Seq(answer) /\ ToSet(SetToSeq(answer)) = answer /\ IsInjective(SetToSeq(answer))
  <2>1. answer \in SUBSET Calls
    BY <1>1 DEF ServerTypes
  <2>2. IsFiniteSet(answer)
    BY <2>1, ServersAssumption, FS_Subset
  <2> QED BY <2>2, ListOfSet
<1>5. serverProcesses' \in Seq(Calls) /\ Listed' = answer /\ IsInjective(serverProcesses')
  <2>1. answer \subseteq Calls
    BY <1>1 DEF ServerTypes
  <2> QED BY <1>2, <1>4, <2>1 DEF Listed
<1>6. ServerTypes'
  BY <1>1, <1>2, <1>3, <1>5 DEF ServerTypes
<1>7. CodeIsThere'
  BY <1>1, <1>2, <1>3 DEF CodeIsThere, CodeIsNamed, CodeIsWritten, BegunIsKnown, ServedWhole
<1>8. StartedOnce'
  BY <1>1, <1>2, <1>3 DEF StartedOnce
<1>9. ServersSteady'
  BY <1>1, <1>2, <1>3, <1>5 DEF ServersSteady, NothingUnlisted, AnswerIsRight, ListIsRight, Awaited, OfBefore, ToldOf
<1> QED BY <1>6, <1>7, <1>8, <1>9 DEF ServersInv

\* The page is reloaded: what was under way is of the page before.
LEMMA ServersReload ==
  ASSUME ServersInv, Reload
  PROVE  ServersInv'
<1>1. ServerTypes /\ CodeIsThere /\ StartedOnce /\ ServersSteady
  BY DEF ServersInv
<1>2. /\ hydration' = "listening" /\ answer' = {} /\ ProcessHandlers' = {} /\ serverProcesses' = <<>> /\ exits' = {}
      /\ call' = [c \in Calls |-> IF call[c] \in {"writing", "abandoned"} THEN "abandoned"
                                  ELSE IF call[c] = "none" THEN "none" ELSE "over"]
      /\ overtaken' = FALSE /\ UNCHANGED <<name, files, spawning, processes, registry, cut>>
  BY DEF Reload
<1>3. \A c \in Calls : call'[c] = IF call[c] \in {"writing", "abandoned"} THEN "abandoned"
                                  ELSE IF call[c] = "none" THEN "none" ELSE "over"
  BY <1>2
<1>4. Running' = Running /\ Running \subseteq Calls /\ Writing' = Writing
  BY <1>2, <1>3 DEF Running, Writing
<1>5. ServerTypes'
  <2>1. call' \in [Calls -> ServerCallStates]
    BY <1>2 DEF ServerCallStates
  <2> QED BY <1>1, <1>2, <1>4, <2>1, EmptySeq DEF ServerTypes
<1>6. CodeIsThere'
  <2>1. CodeIsNamed'
    BY <1>1, <1>2, <1>3 DEF CodeIsThere, CodeIsNamed
  <2>2. CodeIsWritten'
    BY <1>1, <1>2, <1>3 DEF CodeIsThere, CodeIsWritten, ServerTypes
  <2>3. BegunIsKnown' /\ ServedWhole'
    BY <1>1, <1>2, <1>4 DEF CodeIsThere, BegunIsKnown, ServedWhole
  <2> QED BY <2>1, <2>2, <2>3 DEF CodeIsThere
<1>7. StartedOnce'
  BY <1>1, <1>2, <1>3, <1>4 DEF StartedOnce
<1>8. ServersSteady'
  BY <1>1, <1>2, <1>3, <1>4 DEF ServersSteady, NothingUnlisted, Awaited, ToldOf
<1> QED BY <1>5, <1>6, <1>7, <1>8 DEF ServersInv

\* Every step of the servers.
LEMMA ServerSteps == ServersInv /\ [ServersNext]_serverVars => ServersInv'
<1> SUFFICES ASSUME ServersInv, [ServersNext]_serverVars PROVE ServersInv'
  OBVIOUS
<1>1. ASSUME NEW c \in Calls, NEW n \in Names, serveCode(c, n) PROVE ServersInv'
  BY <1>1, ServeSteps
<1>2. ASSUME NEW c \in Calls, writeTextFile(c) \/ \E fails \in BOOLEAN : WriteEnds(c, fails) PROVE ServersInv'
  BY <1>2, WriteSteps
<1>3. ASSUME NEW c \in Calls, NEW fails \in BOOLEAN, spawn_process(c, fails) PROVE ServersInv'
  BY <1>3, SpawnSteps
<1>4. ASSUME NEW c \in Calls, Terminated(c) \/ kill_process(c) PROVE ServersInv'
  BY <1>4, ProcessEnds
<1>5. ASSUME NEW c \in Calls, spawnServer(c) \/ spawnServerFails(c) PROVE ServersInv'
  BY <1>5, SpawnAnswered
<1>6. ASSUME NEW c \in Calls, ProcessExited(c) PROVE ServersInv'
  BY <1>6, ExitIsHandled
<1>7. CASE watchProcesses \/ list_processes
  BY <1>7, ListingSteps
<1>8. CASE declareServerProcesses
  BY <1>8, ListIsPut
<1>9. CASE Reload
  BY <1>9, ServersReload
<1>10. CASE UNCHANGED serverVars
  <2>1. UNCHANGED <<name, call, files, spawning, processes, registry, exits, ProcessHandlers, serverProcesses, hydration,
                    answer, cut, overtaken>>
    BY <1>10 DEF serverVars
  <2>2. Running' = Running /\ Writing' = Writing /\ Listed' = Listed
    BY <2>1 DEF Running, Writing, Listed
  <2> QED BY <2>1, <2>2 DEF ServersInv, ServerTypes, CodeIsThere, CodeIsNamed, CodeIsWritten, BegunIsKnown, ServedWhole, StartedOnce, ServersSteady, NothingUnlisted,
                            AnswerIsRight, ListIsRight, Awaited, OfBefore, ToldOf
<1> QED BY <1>1, <1>2, <1>3, <1>4, <1>5, <1>6, <1>7, <1>8, <1>9, <1>10 DEF ServersNext

(* The inductive invariant of the servers.                                 *)
THEOREM ServersInvariance == ServersSafety => []ServersInv
<1>1. ServersInv /\ [ServersNext]_serverVars => ServersInv'
  BY ServerSteps
<1> QED BY <1>1, ServersStart, PTL DEF ServersSafety

(* When all is answered the list has the servers that run, each once, and  *)
(* they have handlers; a server runs the whole of its code, unless a write *)
(* failed or went on.  For any calls, names and reloads (states/servers.ts,*)
(* serve-code.ts).                                                         *)
THEOREM ServersAreListed == ServersSafety => [](ServersAsRunning /\ ServedWhole /\ ServersTypeOK)
<1>1. ServersInv => ServersAsRunning /\ ServedWhole /\ ServersTypeOK
  <2> SUFFICES ASSUME ServersInv PROVE ServersAsRunning /\ ServedWhole /\ ServersTypeOK
    OBVIOUS
  <2>1. ServerTypes /\ CodeIsThere /\ StartedOnce /\ ServersSteady
    BY DEF ServersInv
  <2>2. ServersAsRunning
    <3> SUFFICES ASSUME NothingUnderWay, ~overtaken PROVE ServersAsRunning
      BY DEF ServersAsRunning
    <3>1. ListIsRight /\ exits = {} /\ \A c \in Calls : call[c] \in {"none", "over"}
      BY <2>1 DEF NothingUnderWay, ServersSteady
    <3>2. Listed \subseteq Calls /\ Running \subseteq Calls /\ ProcessHandlers \subseteq Calls
      <4>1. serverProcesses \in Seq(Calls)
        BY <2>1 DEF ServerTypes
      <4>2. \A i \in DOMAIN serverProcesses : serverProcesses[i] \in Calls
        BY <4>1
      <4> QED BY <2>1, <4>2 DEF Listed, ToSet, Running, ServerTypes
    <3>3. \A c \in Running : call[c] = "over"
      BY <2>1, <3>1, <3>2 DEF StartedOnce
    <3>4. \A c \in Calls : (c \in Listed <=> c \in Running) /\ (c \in ProcessHandlers <=> c \in Listed)
      BY <3>1, <3>3 DEF ListIsRight, Awaited, OfBefore, ToldOf
    <3>5. Listed = Running /\ ProcessHandlers = Running
      BY <3>2, <3>4
    <3> QED BY <3>1, <3>5 DEF ServersAsRunning, ListIsRight
  <2>3. ServersTypeOK
    BY <2>1 DEF ServersTypeOK, ServerTypes, ServerCallStates
  <2> QED BY <2>1, <2>2, <2>3 DEF CodeIsThere
<1> QED BY <1>1, ServersInvariance, PTL


-----------------------------------------------------------------------------
(* The search for modpacks (module ModpackSearch).  A page is one of those *)
(* that its key has, unless it was chosen from another key's; so that it   *)
(* has modpacks if there are any.                                          *)

Keys ==
  [text : Terms \cup {""}, gameVersions : Seq(FilterValues.gameVersions), loaders : Seq(FilterValues.loaders),
   page : Nat \ {0}]

SearchTypes ==
  /\ mounted \in BOOLEAN /\ key \in Keys /\ leaped \in BOOLEAN /\ choices \in 0..MaxChoices
  /\ answered \cap asked = {} /\ answered \cap failed = {} /\ asked \cap failed = {}

PageIsThere == ~leaped => key.page = 1 \/ key.page <= PagesOf(key)

SearchInv == SearchTypes /\ PageIsThere /\ NothingIsStuck

SearchSafety == SearchInit /\ [][SearchNext]_searchVars

-----------------------------------------------------------------------------
\* The greater and the smaller of two numbers.
LEMMA OfTwo ==
  ASSUME NEW a \in Int, NEW b \in Int
  PROVE  Max({a, b}) = (IF a >= b THEN a ELSE b) /\ Min({a, b}) = (IF a <= b THEN a ELSE b)
<1>1. PICK m : m = IF a >= b THEN a ELSE b
  OBVIOUS
<1>2. m \in {a, b} /\ (\A x \in {a, b} : m >= x) /\ \A y \in {a, b} : (\A x \in {a, b} : y >= x) => y = m
  BY <1>1
<1>3. Max({a, b}) = m
  BY <1>2 DEF Max
<1>4. PICK n : n = IF a <= b THEN a ELSE b
  OBVIOUS
<1>5. n \in {a, b} /\ (\A x \in {a, b} : n <= x) /\ \A y \in {a, b} : (\A x \in {a, b} : y <= x) => y = n
  BY <1>4
<1>6. Min({a, b}) = n
  BY <1>5 DEF Min
<1> QED BY <1>1, <1>3, <1>4, <1>6

\* Before the last page there is less than there is.
LEMMA PagesAreFull ==
  ASSUME NEW total \in Nat \ {0}, NEW size \in Nat \ {0}, NEW p \in Nat \ {0},
         p = 1 \/ p <= (total + size - 1) \div size
  PROVE  (p - 1) * size < total
<1> DEFINE q == (total + size - 1) \div size
<1>1. q \in Int /\ q * size <= total + size - 1
  OBVIOUS
<1>2. CASE p = 1
  BY <1>2
<1>3. CASE p <= q
  <2> HIDE DEF q
  <2>1. (p - 1) * size <= (q - 1) * size
    BY <1>1, <1>3
  <2>2. (q - 1) * size = q * size - size
    BY <1>1
  <2>3. q * size \in Int /\ (p - 1) * size \in Int /\ (q - 1) * size \in Int
    BY <1>1
  <2> QED BY <1>1, <2>1, <2>2, <2>3
<1> QED BY <1>2, <1>3

\* The values of a sequence.
LEMMA ValuesAre ==
  ASSUME NEW S, NEW s \in Seq(S)
  PROVE  ToSet(s) \subseteq S
<1>1. \A i \in DOMAIN s : s[i] \in S
  OBVIOUS
<1> QED BY <1>1 DEF ToSet

\* A key without filters, and one with others.
LEMMA KeysAnew ==
  /\ NoFilters \in Keys /\ NoFilters.page = 1
  /\ \A k \in Keys :
       /\ \A text \in Terms : \E n \in Keys : n = [k EXCEPT !.text = text, !.page = 1] /\ n.page = 1
       /\ \A versions \in Seq(FilterValues.gameVersions) :
            \E n \in Keys : n = [k EXCEPT !.page = 1, !.gameVersions = versions] /\ n.page = 1
       /\ \A loaders \in Seq(FilterValues.loaders) :
            \E n \in Keys : n = [k EXCEPT !.page = 1, !.loaders = loaders] /\ n.page = 1
<1>1. PICK one : one = 1 /\ one \in Nat \ {0}
  OBVIOUS
<1>2. PICK none : none = <<>> /\ none \in Seq(FilterValues.gameVersions) /\ none \in Seq(FilterValues.loaders)
  BY EmptySeq
<1>3. NoFilters = [text |-> "", gameVersions |-> none, loaders |-> none, page |-> one]
  BY <1>1, <1>2 DEF NoFilters
<1>4. NoFilters \in Keys /\ NoFilters.page = 1
  BY <1>1, <1>2, <1>3 DEF Keys
<1>5. ASSUME NEW k \in Keys
      PROVE  /\ \A text \in Terms : \E n \in Keys : n = [k EXCEPT !.text = text, !.page = 1] /\ n.page = 1
             /\ \A versions \in Seq(FilterValues.gameVersions) :
                  \E n \in Keys : n = [k EXCEPT !.page = 1, !.gameVersions = versions] /\ n.page = 1
             /\ \A loaders \in Seq(FilterValues.loaders) :
                  \E n \in Keys : n = [k EXCEPT !.page = 1, !.loaders = loaders] /\ n.page = 1
  <2>1. ASSUME NEW text \in Terms
        PROVE  \E n \in Keys : n = [k EXCEPT !.text = text, !.page = 1] /\ n.page = 1
    <3>1. PICK n : n = [k EXCEPT !.text = text, !.page = one]
      OBVIOUS
    <3>2. n \in Keys /\ n.page = one
      BY <1>1, <3>1 DEF Keys
    <3> QED BY <1>1, <3>1, <3>2
  <2>2. ASSUME NEW versions \in Seq(FilterValues.gameVersions)
        PROVE  \E n \in Keys : n = [k EXCEPT !.page = 1, !.gameVersions = versions] /\ n.page = 1
    <3>1. PICK n : n = [k EXCEPT !.page = one, !.gameVersions = versions]
      OBVIOUS
    <3>2. n \in Keys /\ n.page = one
      BY <1>1, <3>1 DEF Keys
    <3> QED BY <1>1, <3>1, <3>2
  <2>3. ASSUME NEW loaders \in Seq(FilterValues.loaders)
        PROVE  \E n \in Keys : n = [k EXCEPT !.page = 1, !.loaders = loaders] /\ n.page = 1
    <3>1. PICK n : n = [k EXCEPT !.page = one, !.loaders = loaders]
      OBVIOUS
    <3>2. n \in Keys /\ n.page = one
      BY <1>1, <3>1 DEF Keys
    <3> QED BY <1>1, <3>1, <3>2
  <2> QED BY <2>1, <2>2, <2>3
<1> QED BY <1>4, <1>5

\* There are so many modpacks of a key, and as many whatever its page is.
LEMMA HitsAreCounted ==
  ASSUME NEW k \in Keys
  PROVE  /\ total_hits(k) \in Nat /\ PagesOf(k) \in Int
         /\ \A p \in Nat \ {0} : /\ [k EXCEPT !.page = p] \in Keys /\ [k EXCEPT !.page = p].page = p
                                 /\ PagesOf([k EXCEPT !.page = p]) = PagesOf(k)
<1>1. k.gameVersions \in Seq(FilterValues.gameVersions) /\ k.loaders \in Seq(FilterValues.loaders) /\ k.text \in Terms \cup {""}
  BY DEF Keys
<1>2. ToSet(k.gameVersions) \subseteq FilterValues.gameVersions /\ ToSet(k.loaders) \subseteq FilterValues.loaders
  BY <1>1, ValuesAre
<1>3. total_hits(k) = TotalHits([text |-> k.text, gameVersions |-> ToSet(k.gameVersions), loaders |-> ToSet(k.loaders)])
  BY DEF total_hits, buildFacets
<1>4. total_hits(k) \in Nat
  <2>1. [text |-> k.text, gameVersions |-> ToSet(k.gameVersions), loaders |-> ToSet(k.loaders)] \in Queries
    BY <1>1, <1>2 DEF Queries
  <2> QED BY <1>3, <2>1, SearchAssumption
<1>5. PagesOf(k) \in Int
  BY <1>4, SearchAssumption DEF PagesOf
<1>6. ASSUME NEW p \in Nat \ {0}
      PROVE  /\ [k EXCEPT !.page = p] \in Keys /\ [k EXCEPT !.page = p].page = p
             /\ PagesOf([k EXCEPT !.page = p]) = PagesOf(k)
  <2> DEFINE other == [k EXCEPT !.page = p]
  <2>1. other \in Keys /\ other.page = p /\ other.text = k.text /\ other.gameVersions = k.gameVersions /\ other.loaders = k.loaders
    BY DEF Keys
  <2> HIDE DEF other
  <2>2. total_hits(other) = TotalHits([text |-> other.text, gameVersions |-> ToSet(other.gameVersions), loaders |-> ToSet(other.loaders)])
    BY DEF total_hits, buildFacets
  <2>3. total_hits(other) = total_hits(k)
    BY <1>3, <2>1, <2>2
  <2>4. PagesOf(other) = PagesOf(k)
    BY <2>3 DEF PagesOf
  <2> QED BY <2>1, <2>4 DEF other
<1> QED BY <1>4, <1>5, <1>6

\* A filter has one value more or less.
LEMMA ToggledAre ==
  ASSUME NEW S, NEW list \in Seq(S), NEW value \in S
  PROVE  toggleInside(list, value) \in Seq(S)
<1>1. PICK others : others = ToSet(list) \ {value}
  OBVIOUS
<1>2. Selected(list, others) \in Seq(S)
  BY SelectedAre
<1> QED BY <1>1, <1>2 DEF toggleInside

\* A key is asked for, unless its answer is kept.
LEMMA KeyIsAsked ==
  ASSUME SearchInv, NEW k \in Keys, Ask(k), UNCHANGED <<mounted, answered>>, choices' \in 0..MaxChoices,
         leaped' \in BOOLEAN, ~leaped' => k.page = 1 \/ k.page <= PagesOf(k)
  PROVE  SearchInv'
<1>1. /\ key' = k
      /\ \/ k \in answered /\ asked' = asked /\ failed' = failed
         \/ k \notin answered /\ asked' = asked \cup {k} /\ failed' = failed \ {k}
  BY DEF Ask
<1>2. SearchTypes'
  BY <1>1 DEF SearchInv, SearchTypes
<1>3. PageIsThere'
  BY <1>1 DEF PageIsThere, PagesOf, total_hits, buildFacets
<1>4. NothingIsStuck'
  BY <1>1 DEF NothingIsStuck
<1> QED BY <1>2, <1>3, <1>4 DEF SearchInv

-----------------------------------------------------------------------------
\* At first the tab asks for modpacks without filters.
LEMMA SearchStarts == SearchInit => SearchInv
<1> SUFFICES ASSUME SearchInit PROVE SearchInv
  OBVIOUS
<1>1. key \in Keys /\ key.page = 1
  BY KeysAnew DEF SearchInit
<1>2. choices = 0 /\ 0 \in 0..MaxChoices
  BY SearchAssumption DEF SearchInit
<1> QED BY <1>1, <1>2 DEF SearchInit, SearchInv, SearchTypes, PageIsThere, NothingIsStuck

\* The user types, or picks a filter.
LEMMA FiltersChange ==
  ASSUME SearchInv,
         \/ \E text \in Terms : handleSearch(text)
         \/ \E version \in FilterValues.gameVersions : handleGameVersion(version)
         \/ \E modloader \in FilterValues.loaders : handleLoader(modloader)
  PROVE  SearchInv'
<1>1. key \in Keys /\ choices \in 0..MaxChoices
  BY DEF SearchInv, SearchTypes
<1> DEFINE asks == \E k \in Keys : k.page = 1 /\ Ask(k)
<1>2. asks
  <2>1. ASSUME NEW text \in Terms, handleSearch(text) PROVE asks
    <3>1. \E n \in Keys : n = [key EXCEPT !.text = text, !.page = 1] /\ n.page = 1
      <4>1. PICK k \in Keys : k = key
        BY <1>1
      <4>2. \E n \in Keys : n = [k EXCEPT !.text = text, !.page = 1] /\ n.page = 1
        BY KeysAnew
      <4> QED BY <4>1, <4>2
    <3> QED BY <2>1, <3>1 DEF handleSearch
  <2>2. ASSUME NEW version \in FilterValues.gameVersions, handleGameVersion(version) PROVE asks
    <3>1. PICK list : list = toggleInside(key.gameVersions, version)
      OBVIOUS
    <3>2. list \in Seq(FilterValues.gameVersions)
      BY <1>1, <3>1, ToggledAre DEF Keys
    <3>3. \E n \in Keys : n = [key EXCEPT !.page = 1, !.gameVersions = list] /\ n.page = 1
      <4>1. PICK k \in Keys : k = key
        BY <1>1
      <4>2. \E n \in Keys : n = [k EXCEPT !.page = 1, !.gameVersions = list] /\ n.page = 1
        BY <3>2, KeysAnew
      <4> QED BY <4>1, <4>2
    <3> QED BY <2>2, <3>1, <3>3 DEF handleGameVersion, Toggle
  <2>3. ASSUME NEW modloader \in FilterValues.loaders, handleLoader(modloader) PROVE asks
    <3>1. PICK list : list = toggleInside(key.loaders, modloader)
      OBVIOUS
    <3>2. list \in Seq(FilterValues.loaders)
      BY <1>1, <3>1, ToggledAre DEF Keys
    <3>3. \E n \in Keys : n = [key EXCEPT !.page = 1, !.loaders = list] /\ n.page = 1
      <4>1. PICK k \in Keys : k = key
        BY <1>1
      <4>2. \E n \in Keys : n = [k EXCEPT !.page = 1, !.loaders = list] /\ n.page = 1
        BY <3>2, KeysAnew
      <4> QED BY <4>1, <4>2
    <3> QED BY <2>3, <3>1, <3>3 DEF handleLoader, Toggle
  <2> QED BY <2>1, <2>2, <2>3
<1>3. leaped' = FALSE /\ UNCHANGED <<mounted, answered>> /\ choices < MaxChoices /\ choices' = choices + 1
  BY DEF handleSearch, handleGameVersion, handleLoader, Toggle, Chosen
<1>5. choices' \in 0..MaxChoices
  BY <1>1, <1>3, SearchAssumption
<1>4. PICK k \in Keys : k.page = 1 /\ Ask(k)
  BY <1>2
<1> QED BY <1>3, <1>4, <1>5, KeyIsAsked

\* Another page is chosen, or the search is tried again.
LEMMA PageChanges ==
  ASSUME SearchInv, Refetch \/ \E selected \in 1..totalPages : handlePage(selected)
  PROVE  SearchInv'
<1>1. key \in Keys /\ choices \in 0..MaxChoices /\ PageIsThere /\ leaped \in BOOLEAN
  BY DEF SearchInv, SearchTypes
<1>2. CASE Refetch
  <2>1. Ask(key) /\ UNCHANGED <<mounted, answered, leaped>> /\ choices' \in 0..MaxChoices
    BY <1>1, <1>2, SearchAssumption DEF Refetch
  <2> QED BY <1>1, <2>1, KeyIsAsked DEF PageIsThere
<1>3. ASSUME NEW selected \in 1..totalPages, handlePage(selected) PROVE SearchInv'
  <2>1. /\ data # None /\ Ask([key EXCEPT !.page = selected]) /\ leaped' = (data # [key EXCEPT !.page = data.page])
        /\ UNCHANGED <<mounted, answered>> /\ choices' \in 0..MaxChoices /\ selected \in Nat \ {0}
    BY <1>1, <1>3, SearchAssumption DEF handlePage, Chosen
  <2>2. PICK k : k = [key EXCEPT !.page = selected]
    OBVIOUS
  <2>3. k \in Keys /\ k.page = selected /\ PagesOf(k) = PagesOf(key) /\ PagesOf(key) \in Int
    BY <1>1, <2>1, <2>2, HitsAreCounted
  <2>4. data = [key EXCEPT !.page = data.page] => selected <= PagesOf(key)
    <3> SUFFICES ASSUME data = [key EXCEPT !.page = data.page] PROVE selected <= PagesOf(key)
      OBVIOUS
    <3>1. data.text = key.text /\ data.gameVersions = key.gameVersions /\ data.loaders = key.loaders
      <4>1. PICK d, p : d = data /\ p = data.page /\ d = [key EXCEPT !.page = p]
        BY Zenon
      <4>2. d.text = key.text /\ d.gameVersions = key.gameVersions /\ d.loaders = key.loaders
        BY <1>1, <4>1 DEF Keys
      <4> QED BY <4>1, <4>2
    <3>2. PagesOf(data) = PagesOf(key)
      BY <3>1 DEF PagesOf, total_hits, buildFacets
    <3> QED BY <1>3, <2>1, <2>3, <3>2 DEF totalPages
  <2>5. ~leaped' => k.page <= PagesOf(k)
    BY <2>1, <2>3, <2>4
  <2>6. Ask(k) /\ leaped' \in BOOLEAN
    BY <2>1, <2>2
  <2> QED BY <2>1, <2>3, <2>5, <2>6, KeyIsAsked
<1> QED BY <1>2, <1>3

\* The page is there as long as its key is.
LEMMA PageStays == PageIsThere /\ UNCHANGED <<key, leaped>> => PageIsThere'
BY DEF PageIsThere, PagesOf, total_hits, buildFacets

\* Every step of the search.
LEMMA SearchSteps == SearchInv /\ [SearchNext]_searchVars => SearchInv'
<1> SUFFICES ASSUME SearchInv, [SearchNext]_searchVars PROVE SearchInv'
  OBVIOUS
<1>1. SearchTypes /\ PageIsThere /\ NothingIsStuck
  BY DEF SearchInv
<1>2. CASE \/ \E text \in Terms : handleSearch(text)
           \/ \E version \in FilterValues.gameVersions : handleGameVersion(version)
           \/ \E modloader \in FilterValues.loaders : handleLoader(modloader)
  BY <1>2, FiltersChange
<1>3. CASE Refetch \/ \E selected \in 1..totalPages : handlePage(selected)
  BY <1>3, PageChanges
<1>4. ASSUME NEW k \in asked, Answered(k) \/ SearchFails(k) PROVE SearchInv'
  <2>1. PageIsThere'
    BY <1>1, <1>4, PageStays DEF Answered, SearchFails
  <2> QED BY <1>1, <1>4, <2>1 DEF Answered, SearchFails, SearchInv, SearchTypes, NothingIsStuck
<1>5. ASSUME NEW k \in answered \cup failed, Collect(k) PROVE SearchInv'
  <2>1. PageIsThere'
    BY <1>1, <1>5, PageStays DEF Collect
  <2> QED BY <1>1, <1>5, <2>1 DEF Collect, SearchInv, SearchTypes, NothingIsStuck
<1>6. CASE LeaveSearch
  <2>1. PageIsThere'
    BY <1>1, <1>6, PageStays DEF LeaveSearch
  <2>2. choices < MaxChoices /\ choices' = choices + 1 /\ choices \in 0..MaxChoices
    BY <1>1, <1>6 DEF LeaveSearch, Chosen, SearchTypes
  <2>3. choices' \in 0..MaxChoices
    BY <2>2, SearchAssumption
  <2> QED BY <1>1, <1>6, <2>1, <2>3 DEF LeaveSearch, SearchInv, SearchTypes, NothingIsStuck
<1>7. CASE OpenSearch
  <2>1. NoFilters \in Keys /\ NoFilters.page = 1
    BY KeysAnew
  <2>2. /\ mounted' = TRUE /\ key' = NoFilters /\ leaped' = FALSE /\ choices' = choices /\ answered' = answered
        /\ asked' = asked \cup ({NoFilters} \ answered) /\ failed' = failed \ {NoFilters}
    BY <1>7 DEF OpenSearch
  <2> QED BY <1>1, <2>1, <2>2 DEF SearchInv, SearchTypes, PageIsThere, NothingIsStuck
<1>8. CASE UNCHANGED searchVars
  <2>1. PageIsThere'
    BY <1>1, <1>8, PageStays DEF searchVars
  <2> QED BY <1>1, <1>8, <2>1 DEF searchVars, SearchInv, SearchTypes, NothingIsStuck
<1> QED BY <1>2, <1>3, <1>4, <1>5, <1>6, <1>7, <1>8 DEF SearchNext

(* The inductive invariant of the search.                                  *)
THEOREM SearchInvariance == SearchSafety => []SearchInv
<1>1. SearchInv /\ [SearchNext]_searchVars => SearchInv'
  BY SearchSteps
<1> QED BY <1>1, SearchStarts, PTL DEF SearchSafety

(* That there is no modpack is told only of filters without one, and what  *)
(* is on display is of its filters or its answer is to come: for any       *)
(* texts, filters, sizes of a page and modpacks (ModrinthInstance.vue).    *)
THEOREM SearchIsAsFiltered == SearchSafety => [](SearchAsFiltered /\ SearchTypeOK)
<1>1. SearchInv => SearchAsFiltered /\ SearchTypeOK
  <2> SUFFICES ASSUME SearchInv PROVE SearchAsFiltered /\ SearchTypeOK
    OBVIOUS
  <2>1. SearchTypes /\ PageIsThere /\ NothingIsStuck
    BY DEF SearchInv
  <2>2. SearchTypeOK
    BY <2>1 DEF SearchTypeOK, SearchTypes, Keys
  <2>3. EmptyMeansNone
    <3> SUFFICES ASSUME ~leaped, hits(key) = 0, total_hits(key) # 0 PROVE FALSE
      BY DEF EmptyMeansNone
    <3>1. key \in Keys /\ key.page \in Nat \ {0} /\ (key.page = 1 \/ key.page <= PagesOf(key))
      BY <2>1 DEF SearchTypes, Keys, PageIsThere
    <3>2. PICK total \in Nat \ {0} : total = total_hits(key)
      BY <3>1, HitsAreCounted
    <3>3. (key.page - 1) * PageSize < total
      <4>1. key.page = 1 \/ key.page <= (total + PageSize - 1) \div PageSize
        BY <3>1, <3>2 DEF PagesOf
      <4> QED BY <3>1, <4>1, SearchAssumption, PagesAreFull
    <3>4. PICK rest \in Int : rest = total - (key.page - 1) * PageSize
      BY <3>1, SearchAssumption
    <3>5. rest > 0
      <4>1. (key.page - 1) * PageSize \in Int
        BY <3>1, SearchAssumption
      <4> QED BY <3>3, <3>4, <4>1
    <3>6. PICK least \in Int : least = Min({PageSize, rest}) /\ least > 0
      <4>1. PICK size : size = PageSize /\ size \in Int /\ size > 0
        BY SearchAssumption
      <4>2. PICK m : m = IF size <= rest THEN size ELSE rest
        OBVIOUS
      <4>3. m \in Int /\ m > 0
        BY <3>5, <4>1, <4>2
      <4>4. Min({size, rest}) = m
        BY <4>1, <4>2, OfTwo
      <4> QED BY <4>1, <4>3, <4>4
    <3>7. hits(key) = Max({0, least})
      BY <3>2, <3>4, <3>6 DEF hits
    <3>8. Max({0, least}) = least
      BY <3>6, OfTwo
    <3> QED BY <3>6, <3>7, <3>8
  <2> QED BY <2>1, <2>2, <2>3 DEF SearchAsFiltered
<1> QED BY <1>1, SearchInvariance, PTL

-----------------------------------------------------------------------------
(* What is proved of the parts, together.                                  *)

(* What the page shows when its parts are quiet is what was chosen, and    *)
(* launches write nothing to a directory that is not there: however the    *)
(* parts take their steps.                                                 *)
THEOREM PageSettles ==
  PipelineSafety /\ SettingsSafety /\ StartSafety /\ ServersSafety /\ SearchSafety => []PageIsSettled
<1>1. (TabAsSelected /\ LocalesListedOnce) /\ (TranslationsFollow /\ ToolsAsSwitched /\ StartTypeOK)
        /\ (ServersAsRunning /\ ServedWhole /\ ServersTypeOK) /\ (SearchAsFiltered /\ SearchTypeOK) /\ DirectoriesReady
      => PageIsSettled
  BY DEF PageIsSettled
<1> QED BY <1>1, TabsFollowClicks, PageFollowsConfig, ServersAreListed, SearchIsAsFiltered, LaunchesHaveDirectories, PTL

(* Every part keeps its types.                                             *)
THEOREM PageTypeCorrectness ==
  /\ PipelineSafety /\ SignInSafety /\ DraftSafety /\ SettingsSafety /\ StartSafety /\ ServersSafety /\ SearchSafety
  => []PagePartsTypeOK
<1>1. /\ PipelineTypeOK /\ SignInTypeOK /\ DraftTypeOK /\ SettingsTypeOK
      /\ (TranslationsFollow /\ ToolsAsSwitched /\ StartTypeOK)
      /\ (ServersAsRunning /\ ServedWhole /\ ServersTypeOK) /\ (SearchAsFiltered /\ SearchTypeOK)
      => PagePartsTypeOK
  BY DEF PagePartsTypeOK
<1> QED BY <1>1, PipelineTypeCorrectness, SignInTypeCorrectness, DraftTypeCorrectness, SettingsTypeCorrectness,
           PageFollowsConfig, ServersAreListed, SearchIsAsFiltered, PTL
=============================================================================
