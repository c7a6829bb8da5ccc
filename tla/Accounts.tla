------------------------------ MODULE Accounts ------------------------------
(***************************************************************************)
(* The list of accounts: kept by the page, mirrored in accounts.json, and  *)
(* changed by sign-ins, by the actions of an account's row and by launches *)
(* that refresh the token of the selected account on their way             *)
(* (resolve-launch-account.ts).  Each of these awaits something between    *)
(* reading the list and replacing it; most of them read it again.          *)
(*                                                                         *)
(* An account is a person and the number of its token.                     *)
(***************************************************************************)
EXTENDS Naturals, Sequences, FiniteSets, SequencesExt

CONSTANTS
  People,      \* profiles, by uuid
  Offline,     \* those without a token to refresh
  Launches,    \* instances that are launched
  MaxTokens,   \* bound: tokens issued
  MaxWrites,   \* bound: writes in flight
  None         \* "nothing"

ASSUME AccountsAssumption ==
  /\ Offline \subseteq People
  /\ MaxTokens \in Nat /\ MaxWrites \in Nat
  /\ None \notin Nat

VARIABLES
  accounts,    \* the list
  selected,    \* globalStates.selected.account
  file,        \* accounts.json
  writes,      \* writeAccounts calls in flight, in the order they were made
  tokens,      \* how many tokens were issued
  pc,          \* where each launch is
  captured,    \* the list a launch has read
  index,       \* the position of the account it launches with
  updated,     \* the list it will leave behind
  signingIn,   \* the profile page waits for a sign-in
  refreshing,  \* the rows that wait for a refresh
  stored,      \* history: the token each person's account should have, or none
  overlapped,  \* history: the list changed under a launch, writes overlapped, or one failed
  displaced    \* history: a launch refreshed an account that is not the first

listVars   == <<accounts, selected>>
diskVars   == <<file, writes>>
launchVars == <<pc, captured, index, updated>>
rowVars    == <<signingIn, refreshing>>
vars == <<listVars, diskVars, tokens, launchVars, rowVars, stored, overlapped, displaced>>

Busy == {l \in Launches : pc[l] # "idle"}

\* A change of the list by someone else than the launches `mine`.
Overlap(mine) == overlapped' = (overlapped \/ Busy \ mine # {})

\* The launches `those` are over, and what they read is gone.
Over(those) ==
  /\ pc'       = [l \in Launches |-> IF l \in those THEN "idle" ELSE pc[l]]
  /\ captured' = [l \in Launches |-> IF l \in those THEN <<>> ELSE captured[l]]
  /\ index'    = [l \in Launches |-> IF l \in those THEN 1 ELSE index[l]]
  /\ updated'  = [l \in Launches |-> IF l \in those THEN <<>> ELSE updated[l]]

Account(who, token) == [who |-> who, token |-> token]

\* filter: what is not that person's, in its order.  (SelectSeq is the same, but recursive.)
Without(list, who) ==
  LET kept == {i \in DOMAIN list : list[i].who # who}
      Rank(i) == Cardinality({j \in kept : j <= i})
  IN  [k \in 1..Cardinality(kept) |-> list[CHOOSE i \in kept : Rank(i) = k]]

\* Mutant of First: the old entry stays.
FirstToo(account, list) == <<account>> \o list

First(account, list) == <<account>> \o Without(list, account.who)

\* The list when `launch` has refreshed its account: the new one comes first, whichever it was.
Refreshed(list, account) == <<account>> \o Tail(list)

Init ==
  /\ accounts = <<>> /\ selected = 1
  /\ file = <<>> /\ writes = <<>>
  /\ tokens = 0
  /\ pc       = [l \in Launches |-> "idle"]
  /\ captured = [l \in Launches |-> <<>>]
  /\ index    = [l \in Launches |-> 1]
  /\ updated  = [l \in Launches |-> <<>>]
  /\ signingIn = FALSE /\ refreshing = {}
  /\ stored = [p \in People |-> None]
  /\ overlapped = FALSE /\ displaced = FALSE

-----------------------------------------------------------------------------
(* Writing.                                                                *)

WriteAccounts(list, by) ==
  /\ Len(writes) < MaxWrites
  /\ writes' = Append(writes, [list |-> list, by |-> by])
  /\ UNCHANGED file

\* Commands do not wait for each other: any of them may land first.  A failure is only logged.
WriteLands(k) ==
  /\ file'   = writes[k].list
  /\ writes' = RemoveAt(writes, k)
  /\ overlapped' = (overlapped \/ Len(writes) > 1)
  /\ UNCHANGED <<listVars, tokens, launchVars, rowVars, stored, displaced>>

WriteFails(k) ==
  /\ writes' = RemoveAt(writes, k)
  /\ overlapped' = TRUE
  /\ UNCHANGED <<listVars, file, tokens, launchVars, rowVars, stored, displaced>>

-----------------------------------------------------------------------------
(* The profile page.                                                       *)

Select(i) ==
  /\ i \in DOMAIN accounts /\ i # selected
  /\ selected' = i
  /\ UNCHANGED <<accounts, diskVars, tokens, launchVars, rowVars, stored, overlapped, displaced>>

NewToken == tokens < MaxTokens /\ tokens' = tokens + 1

\* handleSignIn: one at a time, from the browser to the answer of the write.
StartSignIn ==
  /\ ~signingIn /\ \A k \in DOMAIN writes : writes[k].by # "signIn"
  /\ tokens < MaxTokens
  /\ signingIn' = TRUE
  /\ UNCHANGED <<listVars, diskVars, tokens, launchVars, refreshing, stored, overlapped, displaced>>

SignInFails ==
  /\ signingIn
  /\ signingIn' = FALSE
  /\ UNCHANGED <<listVars, diskVars, tokens, launchVars, refreshing, stored, overlapped, displaced>>

\* A sign-in updates an account that is there already.
SignedIn(p) ==
  /\ signingIn /\ p \notin Offline
  /\ NewToken
  /\ accounts' = First(Account(p, tokens'), accounts)
  /\ stored'   = [stored EXCEPT ![p] = tokens']
  /\ WriteAccounts(accounts', "signIn")
  /\ signingIn' = FALSE
  /\ Overlap({})
  /\ UNCHANGED <<selected, launchVars, refreshing, displaced>>

\* createOfflineAccount: its only wait, for the hash, comes before it reads the list.
AddOffline(p) ==
  /\ p \in Offline
  /\ accounts' = First(Account(p, 0), accounts)
  /\ stored'   = [stored EXCEPT ![p] = 0]
  /\ WriteAccounts(accounts', "offline")
  /\ Overlap({})
  /\ UNCHANGED <<selected, tokens, launchVars, rowVars, displaced>>

Listed(list) == {list[i].who : i \in DOMAIN list}

\* Mutant of RemoveAccount: the selection follows.
RemoveAndSelect(p) ==
  /\ p \in Listed(accounts)
  /\ accounts' = Without(accounts, p)
  /\ selected' = selected - 1
  /\ stored'   = [stored EXCEPT ![p] = None]
  /\ WriteAccounts(accounts', "remove")
  /\ Overlap({})
  /\ UNCHANGED <<tokens, launchVars, rowVars, displaced>>

\* AccountsRemove, once the user has confirmed.
RemoveAccount(p) ==
  /\ p \in Listed(accounts)
  /\ accounts' = Without(accounts, p)
  /\ stored'   = [stored EXCEPT ![p] = None]
  /\ WriteAccounts(accounts', "remove")
  /\ Overlap({})
  /\ UNCHANGED <<selected, tokens, launchVars, rowVars, displaced>>

\* AccountsRefresh.
StartRefresh(p) ==
  /\ p \in Listed(accounts) \ Offline /\ p \notin refreshing
  /\ tokens < MaxTokens
  /\ refreshing' = refreshing \cup {p}
  /\ UNCHANGED <<listVars, diskVars, tokens, launchVars, signingIn, stored, overlapped, displaced>>

RefreshFails(p) ==
  /\ p \in refreshing
  /\ refreshing' = refreshing \ {p}
  /\ UNCHANGED <<listVars, diskVars, tokens, launchVars, signingIn, stored, overlapped, displaced>>

\* The list of that moment is mapped: an account removed meanwhile does not come back.
RowRefreshed(p) ==
  /\ p \in refreshing
  /\ refreshing' = refreshing \ {p}
  /\ NewToken
  /\ accounts' = [i \in DOMAIN accounts |->
                    IF accounts[i].who = p THEN Account(p, tokens') ELSE accounts[i]]
  /\ stored'   = [stored EXCEPT ![p] = IF p \in Listed(accounts) THEN tokens' ELSE @]
  /\ WriteAccounts(accounts', "refresh")
  /\ Overlap({})
  /\ UNCHANGED <<selected, launchVars, signingIn, displaced>>

-----------------------------------------------------------------------------
(* Launches.                                                               *)

\* resolveLaunchAccount with a token that is due: the list is captured.  (An account without a
\* token, or with one that is fresh, changes nothing.)
StartLaunch(l) ==
  /\ pc[l] = "idle"
  /\ selected \in DOMAIN accounts /\ accounts[selected].who \notin Offline
  /\ tokens < MaxTokens
  /\ pc'       = [pc EXCEPT ![l] = "refreshing"]
  /\ captured' = [captured EXCEPT ![l] = accounts]
  /\ index'    = [index EXCEPT ![l] = selected]
  /\ UNCHANGED <<listVars, diskVars, tokens, updated, rowVars, stored, overlapped, displaced>>

\* The refresh fails and the user does not want to launch.
LaunchAborted(l) ==
  /\ pc[l] = "refreshing"
  /\ Over({l})
  /\ UNCHANGED <<listVars, diskVars, tokens, rowVars, stored, overlapped, displaced>>

\* The refresh fails and the user launches all the same: the captured list is put back.
LaunchContinued(l) ==
  /\ pc[l] = "refreshing"
  /\ Over({l})
  /\ accounts'   = captured[l]
  /\ Overlap({l})
  /\ UNCHANGED <<selected, diskVars, tokens, rowVars, stored, displaced>>

\* The refreshed account is written with the list that was captured...
LaunchRefreshed(l) ==
  /\ pc[l] = "refreshing"
  /\ pc' = [pc EXCEPT ![l] = "writing"]
  /\ NewToken
  /\ updated' = [updated EXCEPT ![l] =
                   Refreshed(captured[l], Account(captured[l][index[l]].who, tokens'))]
  /\ WriteAccounts(updated'[l], l)
  /\ displaced' = (displaced \/ index[l] # 1)
  /\ UNCHANGED <<listVars, captured, index, rowVars, stored, overlapped>>

\* ...and becomes the page's list when the write has been answered.
LaunchResolved(l) ==
  /\ pc[l] = "writing"
  /\ \A k \in DOMAIN writes : writes[k].by # l
  /\ Over({l})
  /\ accounts'   = updated[l]
  /\ stored'     = [stored EXCEPT ![updated[l][1].who] = updated[l][1].token]
  /\ Overlap({l})
  /\ UNCHANGED <<selected, diskVars, tokens, rowVars, displaced>>

-----------------------------------------------------------------------------
\* A reload: the list is read from the file, whatever was going on; nobody awaits the writes.
Reload ==
  /\ accounts' = file
  /\ writes' = [k \in DOMAIN writes |-> [writes[k] EXCEPT !.by = None]]
  /\ overlapped' = (overlapped \/ writes # <<>> \/ \E l \in Launches : pc[l] = "writing")
  /\ Over(Launches)
  /\ signingIn' = FALSE /\ refreshing' = {}
  /\ UNCHANGED <<selected, file, tokens, stored, displaced>>

Next ==
  \/ \E k \in DOMAIN writes : WriteLands(k) \/ WriteFails(k)
  \/ \E i \in DOMAIN accounts : Select(i)
  \/ StartSignIn \/ SignInFails
  \/ \E p \in People :
       \/ SignedIn(p) \/ AddOffline(p) \/ RemoveAccount(p)
       \/ StartRefresh(p) \/ RefreshFails(p) \/ RowRefreshed(p)
  \/ \E l \in Launches :
       \/ StartLaunch(l) \/ LaunchAborted(l) \/ LaunchContinued(l)
       \/ LaunchRefreshed(l) \/ LaunchResolved(l)
  \/ Reload

Spec == Init /\ [][Next]_vars

-----------------------------------------------------------------------------
(* Properties.                                                             *)

Tokens   == 0..MaxTokens
IsList(list) == \A i \in DOMAIN list : list[i] \in [who: People, token: Tokens]

TypeOK ==
  /\ IsList(accounts) /\ IsList(file)
  /\ selected \in Nat \ {0}
  /\ \A k \in DOMAIN writes : IsList(writes[k].list)
  /\ tokens \in Tokens
  /\ pc \in [Launches -> {"idle", "refreshing", "writing"}]
  /\ \A l \in Launches : IsList(captured[l]) /\ IsList(updated[l])
  /\ signingIn \in BOOLEAN /\ refreshing \subseteq People
  /\ stored \in [People -> Tokens \cup {None}]

\* The list holds every account once, with the token it got last, and no removed one.
Complete ==
  /\ Len(accounts) = Cardinality(Listed(accounts))
  /\ ToSet(accounts) = {Account(p, stored[p]) : p \in {q \in People : stored[q] # None}}

\* No account is lost, doubled, revived or set back to an older token, as long as changes of the
\* list do not overlap and launches refresh the first account (Microsoft.vue:55-61,
\* declare-action-registry.ts:64-68).
AccountsKept == ~overlapped /\ ~displaced => Complete

\* With nothing under way the file is the list, under the same conditions (write-accounts.ts:60-64).
FileFollows ==
  ~overlapped /\ writes = <<>> /\ (\A l \in Launches : pc[l] # "writing") => file = accounts

\* What was signed in or removed stays so, in the list and in the file.
AccountsAreKept == AccountsKept /\ FileFollows

\* A launch does a "Silent token refresh before the launch" (docs/AUTHENTICATION.md:23): it
\* replaces the token of the account it launches with, and leaves the list as it is otherwise.
RefreshKeepsAccounts == ~overlapped => Complete
=============================================================================
