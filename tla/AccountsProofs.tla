--------------------------- MODULE AccountsProofs ---------------------------
(***************************************************************************)
(* Proofs about module Accounts, for any people, launches, tokens and      *)
(* writes in flight.                                                       *)
(*                                                                         *)
(* While nothing overlaps, a launch has read the list as it is, what it    *)
(* will leave behind is the list with a new first account, and the newest  *)
(* write, or the file when none is in flight, is the list as it is or as a *)
(* launch will leave it.                                                   *)
(***************************************************************************)
EXTENDS Accounts, FiniteSetTheorems, SequenceTheorems, TLAPS

Entries == [who : People, token : Tokens]
Writes  == [list : Seq(Entries), by : {"signIn", "offline", "remove", "refresh", None} \cup Launches]

\* Everybody is listed once.
Unique(list) == \A i, j \in DOMAIN list : list[i].who = list[j].who => i = j

\* The accounts that were signed in and not removed, with their last token.
Stored == {Account(p, stored[p]) : p \in {q \in People : stored[q] # None}}

Types ==
  /\ accounts \in Seq(Entries) /\ file \in Seq(Entries) /\ writes \in Seq(Writes)
  /\ selected \in Nat \ {0}
  /\ tokens \in Tokens
  /\ pc \in [Launches -> {"idle", "refreshing", "writing"}]
  /\ captured \in [Launches -> Seq(Entries)] /\ updated \in [Launches -> Seq(Entries)]
  /\ index \in [Launches -> Nat \ {0}]
  /\ signingIn \in BOOLEAN /\ refreshing \subseteq People
  /\ stored \in [People -> Tokens \cup {None}]
  /\ overlapped \in BOOLEAN /\ displaced \in BOOLEAN

\* A launch has an account to refresh, and what it leaves behind begins with it.
LaunchHasAccount ==
  \A l \in Launches :
    /\ pc[l] = "refreshing" => index[l] \in DOMAIN captured[l]
    /\ pc[l] = "writing" => updated[l] # <<>>

\* What a launch has read is the list as it is.
CapturedIsCurrent == ~overlapped => \A l \in Launches : pc[l] = "refreshing" => captured[l] = accounts

\* What a launch leaves behind is the list with a new token of the first account.
UpdatedIsFirst ==
  ~overlapped /\ ~displaced =>
    \A l \in Launches : pc[l] = "writing" =>
      /\ accounts # <<>> /\ updated[l][1].who = accounts[1].who
      /\ updated[l] = Refreshed(accounts, updated[l][1])

\* What the file will be when nothing more is written.
Newest == IF writes = <<>> THEN file ELSE writes[Len(writes)].list

\* It is the list as it is, or as a launch will leave it.
NewestIsList ==
  ~overlapped =>
    \/ (\A l \in Launches : pc[l] # "writing") /\ Newest = accounts
    \/ \E l \in Launches : pc[l] = "writing" /\ Newest = updated[l]

\* The list is who was signed in, each once.
ListIsStored == ~overlapped /\ ~displaced => Unique(accounts) /\ ToSet(accounts) = Stored

IInv ==
  /\ Types
  /\ LaunchHasAccount
  /\ CapturedIsCurrent
  /\ UpdatedIsFirst
  /\ NewestIsList
  /\ ListIsStored

-----------------------------------------------------------------------------
(* Lists.                                                                  *)

\* Numbers counted from below: of n of them one is the k-th, for each k from 1 to n.
LEMMA RankIsBijection ==
  ASSUME NEW kept, NEW n \in Nat, kept \subseteq 1..n
  PROVE  LET Rank(i) == Cardinality({j \in kept : j <= i})
         IN  /\ Cardinality(kept) \in Nat
             /\ \A i \in kept : Rank(i) \in 1..Cardinality(kept)
             /\ \A i, j \in kept : Rank(i) = Rank(j) => i = j
             /\ \A k \in 1..Cardinality(kept) : \E i \in kept : Rank(i) = k
<1> DEFINE Below(i) == {j \in kept : j <= i}
           Rank(i) == Cardinality(Below(i))
           size == Cardinality(kept)
<1>1. IsFiniteSet(kept) /\ size \in Nat
  <2>1. IsFiniteSet(1..n)
    BY FS_Interval
  <2>2. IsFiniteSet(kept)
    BY <2>1, FS_Subset
  <2> QED BY <2>2, FS_CardinalityType
<1>2. ASSUME NEW i \in kept
      PROVE  IsFiniteSet(Below(i)) /\ Rank(i) \in 1..size
  <2>1. Below(i) \in SUBSET kept /\ i \in Below(i)
    OBVIOUS
  <2>2. IsFiniteSet(Below(i)) /\ Rank(i) <= size
    BY <1>1, <2>1, FS_Subset
  <2>3. Rank(i) \in Nat /\ Rank(i) # 0
    BY <2>1, <2>2, FS_CardinalityType, FS_EmptySet
  <2> QED BY <1>1, <2>2, <2>3
<1>3. ASSUME NEW i \in kept, NEW j \in kept, Rank(i) = Rank(j), i < j PROVE FALSE
  <2>0. i \in Int /\ j \in Int /\ i < j /\ kept \subseteq Int
    BY <1>3
  <2>1. Below(i) \in SUBSET Below(j) /\ j \in Below(j) /\ j \notin Below(i)
    <3>1. \A x \in kept : x <= i => x <= j
      BY <2>0
    <3>2. j <= j /\ ~(j <= i)
      BY <2>0
    <3> QED BY <3>1, <3>2
  <2>2. Below(i) = Below(j)
    BY <1>2, <1>3, <2>1, FS_Subset
  <2> QED BY <2>1, <2>2
<1>4. ASSUME NEW i \in kept, NEW j \in kept, Rank(i) = Rank(j) PROVE i = j
  <2>1. i \in Int /\ j \in Int
    OBVIOUS
  <2> QED BY <1>3, <1>4, <2>1
<1>5. ASSUME NEW k \in 1..size PROVE \E i \in kept : Rank(i) = k
  <2> DEFINE f == [i \in kept |-> Rank(i)]
  <2>1. f \in [kept -> 1..size]
    BY <1>2
  <2>2. f \in Injection(kept, 1..size)
    BY <1>4, <2>1 DEF Injection, IsInjective
  <2>3. IsFiniteSet(1..size) /\ Cardinality(1..size) = size
    BY <1>1, FS_Interval
  <2>4. f \in Surjection(kept, 1..size)
    BY <2>2, <2>3, FS_Injection
  <2>5. PICK i \in kept : f[i] = k
    BY <2>4 DEF Surjection
  <2> QED BY <2>5
<1> QED BY <1>1, <1>2, <1>4, <1>5

\* Without leaves out one person, and nobody else.
LEMMA WithoutLeavesOut ==
  ASSUME NEW list \in Seq(Entries), NEW who
  PROVE  /\ Without(list, who) \in Seq(Entries)
         /\ ToSet(Without(list, who)) = {a \in ToSet(list) : a.who # who}
         /\ Unique(list) => Unique(Without(list, who))
<1> DEFINE kept == {i \in DOMAIN list : list[i].who # who}
           Rank(i) == Cardinality({j \in kept : j <= i})
           At(k) == CHOOSE i \in kept : Rank(i) = k
           size == Cardinality(kept)
           left == [k \in 1..size |-> list[At(k)]]
<1>1. DOMAIN list = 1..Len(list) /\ Len(list) \in Nat /\ \A i \in DOMAIN list : list[i] \in Entries
  OBVIOUS
<1>2. /\ size \in Nat /\ \A i \in kept : Rank(i) \in 1..size
      /\ \A i, j \in kept : Rank(i) = Rank(j) => i = j
      /\ \A k \in 1..size : \E i \in kept : Rank(i) = k
  <2>1. kept \subseteq 1..Len(list)
    BY <1>1
  <2> HIDE DEF kept
  <2> QED BY <1>1, <2>1, RankIsBijection
<1>3. Without(list, who) = left
  BY DEF Without
<1>4. \A k \in 1..size : At(k) \in kept /\ Rank(At(k)) = k
  <2> HIDE DEF kept, Rank
  <2> QED BY <1>2
<1>5. \A i \in kept : At(Rank(i)) = i
  <2> HIDE DEF kept, Rank, At
  <2> QED BY <1>2, <1>4
<1> HIDE DEF Rank, At, size
<1>6. left \in Seq(Entries) /\ DOMAIN left = 1..size
  BY <1>1, <1>2, <1>4
<1>7. ToSet(left) = {a \in ToSet(list) : a.who # who}
  <2>1. ASSUME NEW k \in 1..size PROVE left[k] \in ToSet(list) /\ left[k].who # who
    BY <1>4 DEF ToSet
  <2>2. ASSUME NEW i \in DOMAIN list, list[i].who # who PROVE \E k \in 1..size : left[k] = list[i]
    <3>1. i \in kept
      BY <2>2
    <3>2. Rank(i) \in 1..size /\ left[Rank(i)] = list[i]
      BY <1>2, <1>5, <3>1
    <3> QED BY <3>2
  <2> QED BY <1>6, <2>1, <2>2 DEF ToSet
<1>8. ASSUME Unique(list) PROVE Unique(left)
  <2> SUFFICES ASSUME NEW k \in 1..size, NEW m \in 1..size, left[k].who = left[m].who PROVE k = m
    BY <1>6 DEF Unique
  <2>1. At(k) \in kept /\ At(m) \in kept /\ list[At(k)].who = list[At(m)].who
    BY <1>4
  <2>2. At(k) = At(m)
    BY <1>8, <2>1 DEF Unique
  <2> QED BY <1>4, <2>2
<1> HIDE DEF left
<1> QED BY <1>3, <1>6, <1>7, <1>8

\* First puts an account first, and leaves out what there was of that person.
LEMMA FirstIsFirst ==
  ASSUME NEW list \in Seq(Entries), NEW account \in Entries
  PROVE  /\ First(account, list) \in Seq(Entries)
         /\ ToSet(First(account, list)) = {account} \cup {a \in ToSet(list) : a.who # account.who}
         /\ Unique(list) => Unique(First(account, list))
<1> DEFINE rest == Without(list, account.who)
           new == <<account>> \o rest
<1>1. /\ rest \in Seq(Entries) /\ ToSet(rest) = {a \in ToSet(list) : a.who # account.who}
      /\ Unique(list) => Unique(rest)
  BY WithoutLeavesOut
<1>2. First(account, list) = new
  BY DEF First
<1> HIDE DEF rest
<1>3. /\ new \in Seq(Entries) /\ Len(rest) \in Nat /\ DOMAIN rest = 1..Len(rest)
      /\ DOMAIN new = 1..(Len(rest) + 1) /\ new[1] = account
      /\ \A i \in 1..Len(rest) : new[i + 1] = rest[i]
  BY <1>1
<1>4. \A i \in 2..(Len(rest) + 1) : i - 1 \in 1..Len(rest) /\ new[i] = rest[i - 1]
  BY <1>3
<1> HIDE DEF new
<1>5. ToSet(new) = {account} \cup ToSet(rest)
  <2>1. ASSUME NEW i \in DOMAIN new PROVE new[i] \in {account} \cup ToSet(rest)
    <3>1. CASE i = 1
      BY <1>3, <3>1
    <3>2. CASE i # 1
      <4>1. i - 1 \in DOMAIN rest /\ new[i] = rest[i - 1]
        BY <1>3, <1>4, <3>2
      <4> QED BY <4>1 DEF ToSet
    <3> QED BY <3>1, <3>2
  <2>2. ASSUME NEW i \in DOMAIN rest PROVE rest[i] \in ToSet(new)
    <3>1. i + 1 \in DOMAIN new /\ new[i + 1] = rest[i]
      BY <1>3
    <3> QED BY <3>1 DEF ToSet
  <2>3. account \in ToSet(new)
    <3>1. 1 \in DOMAIN new
      BY <1>3
    <3> QED BY <1>3, <3>1 DEF ToSet
  <2> QED BY <2>1, <2>2, <2>3 DEF ToSet
<1>6. ASSUME Unique(list) PROVE Unique(new)
  <2> SUFFICES ASSUME NEW i \in DOMAIN new, NEW j \in DOMAIN new, new[i].who = new[j].who, i < j PROVE FALSE
    BY <1>3 DEF Unique
  <2>1. j - 1 \in DOMAIN rest /\ new[j] = rest[j - 1]
    BY <1>3, <1>4
  <2>2. CASE i = 1
    <3>1. rest[j - 1].who # account.who
      BY <1>1, <2>1 DEF ToSet
    <3> QED BY <1>3, <2>1, <2>2, <3>1
  <2>3. CASE i # 1
    <3>1. i - 1 \in DOMAIN rest /\ new[i] = rest[i - 1]
      BY <1>3, <1>4, <2>3
    <3>2. i - 1 = j - 1
      BY <1>1, <1>6, <2>1, <3>1 DEF Unique
    <3> QED BY <1>3, <3>2
  <2> QED BY <2>2, <2>3
<1> QED BY <1>1, <1>2, <1>3, <1>5, <1>6

\* What is left of the writes when one is over, and that nothing is left of one.
LEMMA RemoveOne ==
  ASSUME NEW S, NEW s \in Seq(S), NEW k \in DOMAIN s
  PROVE  RemoveAt(s, k) \in Seq(S) /\ (Len(s) <= 1 => RemoveAt(s, k) = <<>> /\ k = Len(s))
<1>1. Len(s) \in Nat /\ k \in 1..Len(s) /\ k - 1 \in Nat
  OBVIOUS
<1>2. SubSeq(s, 1, k - 1) \in Seq(S) /\ SubSeq(s, k + 1, Len(s)) \in Seq(S)
  BY <1>1
<1>3. Len(s) <= 1 => SubSeq(s, 1, k - 1) = <<>> /\ SubSeq(s, k + 1, Len(s)) = <<>> /\ k = Len(s)
  BY <1>1
<1>4. <<>> \o <<>> = <<>>
  OBVIOUS
<1> QED BY <1>2, <1>3, <1>4 DEF RemoveAt

\* A list whose first account is replaced by one of the same person.
LEMMA ReplaceFirst ==
  ASSUME NEW list \in Seq(Entries), list # <<>>, NEW account \in Entries
  PROVE  /\ Refreshed(list, account) \in Seq(Entries) /\ Refreshed(list, account) # <<>>
         /\ Refreshed(list, account)[1] = account
         /\ account.who = list[1].who /\ Unique(list) =>
              /\ Unique(Refreshed(list, account))
              /\ ToSet(Refreshed(list, account)) = {account} \cup {a \in ToSet(list) : a.who # account.who}
<1> DEFINE new == <<account>> \o Tail(list)
<1>1. Len(list) \in Nat /\ Len(list) >= 1 /\ DOMAIN list = 1..Len(list)
  BY EmptySeq
<1>2. Tail(list) \in Seq(Entries) /\ Len(Tail(list)) = Len(list) - 1 /\ \A i \in 1..(Len(list) - 1) : Tail(list)[i] = list[i + 1]
  BY <1>1
<1>3. new \in Seq(Entries) /\ Len(new) = Len(list) /\ DOMAIN new = 1..Len(list) /\ new[1] = account
  BY <1>1, <1>2
<1>4. ASSUME NEW i \in 2..Len(list) PROVE new[i] = list[i]
  <2>1. i - 1 \in 1..(Len(list) - 1) /\ (i - 1) + 1 = i
    BY <1>1
  <2>2. new[i] = Tail(list)[i - 1]
    BY <1>1, <1>2, <2>1
  <2> QED BY <1>2, <2>1, <2>2
<1>5. Refreshed(list, account) = new
  BY DEF Refreshed
<1> HIDE DEF new
<1>6. new # <<>>
  BY <1>1, <1>3, EmptySeq
<1>7. ASSUME account.who = list[1].who, Unique(list)
      PROVE  Unique(new) /\ ToSet(new) = {account} \cup {a \in ToSet(list) : a.who # account.who}
  <2>1. \A i \in DOMAIN list : i = 1 \/ (i \in 2..Len(list) /\ new[i] = list[i])
    BY <1>1, <1>4
  <2>2. \A i \in DOMAIN list : new[i].who = list[i].who
    BY <1>3, <1>7, <2>1
  <2>3. Unique(new)
    BY <1>1, <1>3, <1>7, <2>2 DEF Unique
  <2>4. 1 \in DOMAIN list /\ DOMAIN new = DOMAIN list
    BY <1>1, <1>3
  <2>5. \A i \in DOMAIN list : i # 1 => list[i].who # account.who
    BY <1>7, <2>4 DEF Unique
  <2>6. ToSet(new) = {account} \cup {a \in ToSet(list) : a.who # account.who}
    <3>1. \A i \in DOMAIN new : new[i] \in {account} \cup {a \in ToSet(list) : a.who # account.who}
      BY <1>3, <2>1, <2>4, <2>5 DEF ToSet
    <3>2. account \in ToSet(new)
      BY <1>3, <2>4 DEF ToSet
    <3>3. \A i \in DOMAIN list : list[i].who # account.who => list[i] \in ToSet(new)
      BY <1>7, <2>1, <2>4 DEF ToSet
    <3> QED BY <3>1, <3>2, <3>3 DEF ToSet
  <2> QED BY <2>3, <2>6
<1> QED BY <1>3, <1>5, <1>6, <1>7

\* A list of as many accounts as people has each of them once.
LEMMA UniqueIsCounted ==
  ASSUME NEW list \in Seq(Entries), Unique(list)
  PROVE  Len(list) = Cardinality(Listed(list))
<1> DEFINE f == [i \in 1..Len(list) |-> list[i].who]
<1>1. Len(list) \in Nat /\ DOMAIN list = 1..Len(list)
  OBVIOUS
<1>2. f \in Surjection(1..Len(list), Listed(list)) /\ f \in Injection(1..Len(list), Listed(list))
  BY <1>1 DEF Surjection, Injection, IsInjective, Listed, Unique
<1>3. IsFiniteSet(1..Len(list)) /\ Cardinality(1..Len(list)) = Len(list)
  BY <1>1, FS_Interval
<1> QED BY <1>2, <1>3, FS_Surjection

-----------------------------------------------------------------------------
\* The initial states satisfy the invariant.
LEMMA InitInv == Init => IInv
<1> SUFFICES ASSUME Init PROVE IInv
  OBVIOUS
<1> USE AccountsAssumption DEF Init
<1>1. Types
  <2>1. /\ accounts \in Seq(Entries) /\ file \in Seq(Entries) /\ writes \in Seq(Writes) /\ selected \in Nat \ {0}
    BY EmptySeq
  <2>2. pc \in [Launches -> {"idle", "refreshing", "writing"}]
    OBVIOUS
  <2>3. captured \in [Launches -> Seq(Entries)] /\ updated \in [Launches -> Seq(Entries)]
    BY EmptySeq
  <2>4. 1 \in Nat \ {0}
    OBVIOUS
  <2>5. index \in [Launches -> Nat \ {0}]
    BY <2>4
  <2>6. tokens \in Tokens
    BY DEF Tokens
  <2>7. stored \in [People -> Tokens \cup {None}]
    OBVIOUS
  <2>8. signingIn \in BOOLEAN /\ refreshing \subseteq People /\ overlapped \in BOOLEAN /\ displaced \in BOOLEAN
    OBVIOUS
  <2> QED BY <2>1, <2>2, <2>3, <2>5, <2>6, <2>7, <2>8 DEF Types
<1>2. LaunchHasAccount /\ CapturedIsCurrent /\ UpdatedIsFirst /\ NewestIsList
  BY DEF LaunchHasAccount, CapturedIsCurrent, UpdatedIsFirst, NewestIsList, Newest
<1>3. ListIsStored
  BY DEF ListIsStored, Unique, ToSet, Stored
<1> QED BY <1>1, <1>2, <1>3 DEF IInv

\* An account that gets a token is stored with it, one that loses it is not stored.
LEMMA StoredChanges ==
  ASSUME Types, NEW p \in People, NEW t \in Tokens \cup {None}, stored' = [stored EXCEPT ![p] = t]
  PROVE  /\ stored' \in [People -> Tokens \cup {None}]
         /\ t \in Tokens => Stored' = {Account(p, t)} \cup {a \in Stored : a.who # p}
         /\ t = None => Stored' = {a \in Stored : a.who # p}
<1>1. None \notin Tokens
  BY AccountsAssumption DEF Tokens
<1>2. stored' \in [People -> Tokens \cup {None}] /\ stored'[p] = t /\ \A q \in People : q # p => stored'[q] = stored[q]
  BY DEF Types
<1>3. t \in Tokens => Stored' = {Account(p, t)} \cup {a \in Stored : a.who # p}
  BY <1>1, <1>2 DEF Stored, Account
<1>4. t = None => Stored' = {a \in Stored : a.who # p}
  BY <1>2 DEF Stored, Account
<1> QED BY <1>2, <1>3, <1>4

\* Under a change of the list that is written at once nothing overlaps only when no launch is busy.
LEMMA ListChanges ==
  ASSUME IInv, accounts' \in Seq(Entries), NEW by \in {"signIn", "offline", "remove", "refresh"},
         WriteAccounts(accounts', by), Overlap({}), UNCHANGED <<launchVars, displaced>>
  PROVE  /\ writes' \in Seq(Writes) /\ file' = file /\ overlapped' \in BOOLEAN /\ (~overlapped' => ~overlapped)
         /\ LaunchHasAccount' /\ CapturedIsCurrent' /\ UpdatedIsFirst' /\ NewestIsList'
<1> USE DEF IInv, launchVars
<1>0. Types
  OBVIOUS
<1>1. /\ writes' = Append(writes, [list |-> accounts', by |-> by]) /\ file' = file
      /\ overlapped' = (overlapped \/ Busy # {})
  BY DEF WriteAccounts, Overlap
<1>2. [list |-> accounts', by |-> by] \in Writes
  BY DEF Writes
<1>3. writes' \in Seq(Writes) /\ writes' # <<>> /\ writes'[Len(writes')].list = accounts'
  <2> DEFINE w == [list |-> accounts', by |-> by]
  <2>1. w \in Writes /\ w.list = accounts' /\ writes' = Append(writes, w) /\ writes \in Seq(Writes)
    BY <1>0, <1>1, <1>2 DEF Types
  <2> HIDE DEF w
  <2>2. writes' \in Seq(Writes) /\ Len(writes') = Len(writes) + 1 /\ writes'[Len(writes')] = w
    BY <2>1
  <2>3. writes' # <<>>
    BY <2>1
  <2> QED BY <2>1, <2>2, <2>3
<1>4. ~overlapped' => \A l \in Launches : pc'[l] = "idle"
  BY <1>1 DEF Busy
<1>5. LaunchHasAccount'
  BY DEF LaunchHasAccount
<1>6. CapturedIsCurrent' /\ UpdatedIsFirst'
  BY <1>4 DEF CapturedIsCurrent, UpdatedIsFirst
<1>7. NewestIsList'
  BY <1>3, <1>4 DEF NewestIsList, Newest
<1> QED BY <1>0, <1>1, <1>3, <1>5, <1>6, <1>7 DEF Types

\* Signing in and refreshing give an account a token, an account without one is added, one is removed.
LEMMA RowSteps ==
  ASSUME IInv, NEW p \in People, SignedIn(p) \/ AddOffline(p) \/ RemoveAccount(p) \/ RowRefreshed(p)
  PROVE  IInv'
<1> USE DEF IInv
<1>0. /\ Types /\ accounts \in Seq(Entries) /\ tokens \in Nat /\ MaxTokens \in Nat /\ 0 \in Tokens /\ None \notin Tokens
      /\ NewToken => tokens' \in Tokens
  BY AccountsAssumption DEF Types, Tokens, NewToken
<1>1. ASSUME NEW t \in Tokens PROVE Account(p, t) \in Entries /\ Account(p, t).who = p
  BY DEF Account, Entries
<1>2. ASSUME NEW t \in Tokens, accounts' = First(Account(p, t), accounts), stored' = [stored EXCEPT ![p] = t],
             ~overlapped' => ~overlapped, displaced' = displaced
      PROVE  accounts' \in Seq(Entries) /\ stored' \in [People -> Tokens \cup {None}] /\ ListIsStored'
  <2>1. /\ accounts' \in Seq(Entries)
        /\ ToSet(accounts') = {Account(p, t)} \cup {a \in ToSet(accounts) : a.who # p}
        /\ Unique(accounts) => Unique(accounts')
    <3> DEFINE account == Account(p, t)
    <3>1. account \in Entries /\ account.who = p /\ accounts' = First(account, accounts)
      BY <1>1, <1>2
    <3> HIDE DEF account
    <3>2. /\ accounts' \in Seq(Entries)
          /\ ToSet(accounts') = {account} \cup {a \in ToSet(accounts) : a.who # account.who}
          /\ Unique(accounts) => Unique(accounts')
      BY <1>0, <3>1, FirstIsFirst
    <3> QED BY <3>1, <3>2 DEF account
  <2>2. /\ stored' \in [People -> Tokens \cup {None}]
        /\ Stored' = {Account(p, t)} \cup {a \in Stored : a.who # p}
    BY <1>0, <1>2, StoredChanges
  <2>3. ~overlapped' /\ ~displaced' => Unique(accounts') /\ ToSet(accounts') = Stored'
    BY <1>2, <2>1, <2>2 DEF ListIsStored
  <2> QED BY <2>1, <2>2, <2>3 DEF ListIsStored, Unique, ToSet
<1>3. CASE SignedIn(p)
  <2>1. /\ tokens' \in Tokens /\ accounts' = First(Account(p, tokens'), accounts)
        /\ stored' = [stored EXCEPT ![p] = tokens'] /\ WriteAccounts(accounts', "signIn") /\ Overlap({})
        /\ signingIn' = FALSE /\ UNCHANGED <<selected, launchVars, refreshing, displaced>>
    BY <1>0, <1>3 DEF SignedIn
  <2>2. accounts' \in Seq(Entries)
    BY <1>0, <1>1, <2>1, FirstIsFirst
  <2>3. /\ writes' \in Seq(Writes) /\ file' = file /\ overlapped' \in BOOLEAN /\ (~overlapped' => ~overlapped)
        /\ LaunchHasAccount' /\ CapturedIsCurrent' /\ UpdatedIsFirst' /\ NewestIsList'
    BY <2>1, <2>2, ListChanges
  <2>4. ListIsStored' /\ stored' \in [People -> Tokens \cup {None}]
    BY <1>2, <2>1, <2>3
  <2>5. Types'
    BY <1>0, <2>1, <2>2, <2>3, <2>4 DEF Types, launchVars
  <2> QED BY <2>3, <2>4, <2>5
<1>4. CASE AddOffline(p)
  <2>1. /\ accounts' = First(Account(p, 0), accounts)
        /\ stored' = [stored EXCEPT ![p] = 0] /\ WriteAccounts(accounts', "offline") /\ Overlap({})
        /\ UNCHANGED <<selected, tokens, launchVars, rowVars, displaced>>
    BY <1>4 DEF AddOffline
  <2>2. accounts' \in Seq(Entries)
    BY <1>0, <1>1, <2>1, FirstIsFirst
  <2>3. /\ writes' \in Seq(Writes) /\ file' = file /\ overlapped' \in BOOLEAN /\ (~overlapped' => ~overlapped)
        /\ LaunchHasAccount' /\ CapturedIsCurrent' /\ UpdatedIsFirst' /\ NewestIsList'
    BY <2>1, <2>2, ListChanges
  <2>4. ListIsStored' /\ stored' \in [People -> Tokens \cup {None}]
    BY <1>0, <1>2, <2>1, <2>3
  <2>5. Types'
    BY <1>0, <2>1, <2>2, <2>3, <2>4 DEF Types, launchVars, rowVars
  <2> QED BY <2>3, <2>4, <2>5
<1>5. CASE RemoveAccount(p)
  <2>1. /\ accounts' = Without(accounts, p)
        /\ stored' = [stored EXCEPT ![p] = None] /\ WriteAccounts(accounts', "remove") /\ Overlap({})
        /\ UNCHANGED <<selected, tokens, launchVars, rowVars, displaced>>
    BY <1>5 DEF RemoveAccount
  <2>2. /\ accounts' \in Seq(Entries) /\ ToSet(accounts') = {a \in ToSet(accounts) : a.who # p}
        /\ Unique(accounts) => Unique(accounts')
    BY <1>0, <2>1, WithoutLeavesOut
  <2>3. /\ writes' \in Seq(Writes) /\ file' = file /\ overlapped' \in BOOLEAN /\ (~overlapped' => ~overlapped)
        /\ LaunchHasAccount' /\ CapturedIsCurrent' /\ UpdatedIsFirst' /\ NewestIsList'
    BY <2>1, <2>2, ListChanges
  <2>4. Stored' = {a \in Stored : a.who # p} /\ stored' \in [People -> Tokens \cup {None}]
    BY <1>0, <2>1, StoredChanges
  <2>5. ~overlapped' /\ ~displaced' => Unique(accounts') /\ ToSet(accounts') = Stored'
    BY <2>1, <2>2, <2>3, <2>4 DEF ListIsStored
  <2>6. ListIsStored'
    BY <2>5 DEF ListIsStored, Unique, ToSet
  <2>7. Types'
    BY <1>0, <2>1, <2>2, <2>3, <2>4 DEF Types, launchVars, rowVars
  <2> QED BY <2>3, <2>6, <2>7
<1>6. CASE RowRefreshed(p)
  <2>1. /\ tokens' \in Tokens /\ refreshing' = refreshing \ {p}
        /\ accounts' = [i \in DOMAIN accounts |-> IF accounts[i].who = p THEN Account(p, tokens') ELSE accounts[i]]
        /\ stored' = [stored EXCEPT ![p] = IF p \in Listed(accounts) THEN tokens' ELSE @]
        /\ WriteAccounts(accounts', "refresh") /\ Overlap({})
        /\ UNCHANGED <<selected, launchVars, signingIn, displaced>>
    BY <1>0, <1>6 DEF RowRefreshed
  <2>2. DOMAIN accounts = 1..Len(accounts) /\ Len(accounts) \in Nat /\ \A i \in DOMAIN accounts : accounts[i] \in Entries
    BY <1>0
  <2>3. accounts' \in Seq(Entries) /\ DOMAIN accounts' = DOMAIN accounts
    BY <1>1, <2>1, <2>2
  <2>4. /\ writes' \in Seq(Writes) /\ file' = file /\ overlapped' \in BOOLEAN /\ (~overlapped' => ~overlapped)
        /\ LaunchHasAccount' /\ CapturedIsCurrent' /\ UpdatedIsFirst' /\ NewestIsList'
    BY <2>1, <2>3, ListChanges
  <2>5. Unique(accounts) => Unique(accounts')
    BY <1>1, <2>1, <2>3 DEF Unique
  <2>6. CASE p \in Listed(accounts)
    <3>1. stored' = [stored EXCEPT ![p] = tokens']
      BY <2>1, <2>6
    <3>2. Stored' = {Account(p, tokens')} \cup {a \in Stored : a.who # p} /\ stored' \in [People -> Tokens \cup {None}]
      BY <1>0, <2>1, <3>1, StoredChanges
    <3>3. ToSet(accounts') = {Account(p, tokens')} \cup {a \in ToSet(accounts) : a.who # p}
      BY <2>1, <2>3, <2>6 DEF ToSet, Listed
    <3>4. ~overlapped' /\ ~displaced' => Unique(accounts') /\ ToSet(accounts') = Stored'
      BY <2>1, <2>4, <2>5, <3>2, <3>3 DEF ListIsStored
    <3>5. ListIsStored'
      BY <3>4 DEF ListIsStored, Unique, ToSet
    <3> QED BY <1>0, <2>1, <2>3, <2>4, <3>2, <3>5 DEF Types, launchVars
  <2>7. CASE p \notin Listed(accounts)
    <3>1. stored' = stored
      BY <1>0, <2>1, <2>7 DEF Types
    <3>2. accounts' = accounts
      <4>1. \A i \in DOMAIN accounts : accounts[i].who # p
        BY <2>7 DEF Listed
      <4>2. accounts' = [i \in DOMAIN accounts |-> accounts[i]]
        BY <2>1, <4>1
      <4>3. Len(accounts') = Len(accounts) /\ \A i \in 1..Len(accounts) : accounts'[i] = accounts[i]
        BY <2>2, <2>3, <4>2
      <4> QED BY <1>0, <2>3, <4>3
    <3>3. ListIsStored'
      BY <2>1, <2>4, <3>1, <3>2 DEF ListIsStored, Stored
    <3> QED BY <1>0, <2>1, <2>3, <2>4, <3>1, <3>3 DEF Types, launchVars
  <2> QED BY <2>6, <2>7
<1> QED BY <1>3, <1>4, <1>5, <1>6

\* What is over is idle and keeps nothing.
LEMMA OverIsIdle ==
  ASSUME Types, LaunchHasAccount, NEW those, Over(those)
  PROVE  /\ pc' \in [Launches -> {"idle", "refreshing", "writing"}] /\ index' \in [Launches -> Nat \ {0}]
         /\ captured' \in [Launches -> Seq(Entries)] /\ updated' \in [Launches -> Seq(Entries)]
         /\ \A l \in Launches : l \in those => pc'[l] = "idle"
         /\ \A l \in Launches : l \notin those =>
              pc'[l] = pc[l] /\ captured'[l] = captured[l] /\ updated'[l] = updated[l] /\ index'[l] = index[l]
         /\ LaunchHasAccount'
<1>1. <<>> \in Seq(Entries) /\ 1 \in Nat \ {0}
  BY EmptySeq
<1>2. /\ pc' \in [Launches -> {"idle", "refreshing", "writing"}] /\ index' \in [Launches -> Nat \ {0}]
      /\ captured' \in [Launches -> Seq(Entries)] /\ updated' \in [Launches -> Seq(Entries)]
  BY <1>1 DEF Over, Types
<1>3. /\ \A l \in Launches : l \in those => pc'[l] = "idle"
      /\ \A l \in Launches : l \notin those =>
           pc'[l] = pc[l] /\ captured'[l] = captured[l] /\ updated'[l] = updated[l] /\ index'[l] = index[l]
  BY DEF Over
<1>4. LaunchHasAccount'
  BY <1>3 DEF LaunchHasAccount
<1> QED BY <1>2, <1>3, <1>4

\* A launch reads the list.
LEMMA LaunchStarts ==
  ASSUME IInv, NEW l \in Launches, StartLaunch(l)
  PROVE  IInv'
<1> USE DEF IInv
<1>1. /\ pc[l] = "idle" /\ pc' = [pc EXCEPT ![l] = "refreshing"] /\ captured' = [captured EXCEPT ![l] = accounts]
      /\ index' = [index EXCEPT ![l] = selected] /\ selected \in DOMAIN accounts
      /\ UNCHANGED <<listVars, diskVars, tokens, updated, rowVars, stored, overlapped, displaced>>
  BY DEF StartLaunch
<1> USE DEF listVars, diskVars, rowVars
<1>2. Types'
  <2>1. pc' \in [Launches -> {"idle", "refreshing", "writing"}] /\ index' \in [Launches -> Nat \ {0}]
    BY <1>1 DEF Types
  <2>2. captured' \in [Launches -> Seq(Entries)]
    BY <1>1 DEF Types
  <2> QED BY <1>1, <2>1, <2>2 DEF Types
<1>3. /\ pc'[l] = "refreshing" /\ captured'[l] = accounts /\ index'[l] = selected
      /\ \A m \in Launches : m # l => pc'[m] = pc[m] /\ captured'[m] = captured[m] /\ index'[m] = index[m]
  BY <1>1 DEF Types
<1>4. LaunchHasAccount'
  BY <1>1, <1>3 DEF LaunchHasAccount
<1>5. CapturedIsCurrent' /\ UpdatedIsFirst' /\ NewestIsList'
  BY <1>1, <1>3 DEF CapturedIsCurrent, UpdatedIsFirst, NewestIsList, Newest
<1>6. ListIsStored'
  BY <1>1 DEF ListIsStored, Stored
<1> QED BY <1>2, <1>4, <1>5, <1>6

\* A launch whose refresh failed is given up, or puts back the list that it has read.
LEMMA LaunchGivesUp ==
  ASSUME IInv, NEW l \in Launches, LaunchAborted(l) \/ LaunchContinued(l)
  PROVE  IInv'
<1> USE DEF IInv
<1>1. /\ pc[l] = "refreshing" /\ Over({l}) /\ accounts' \in {accounts, captured[l]}
      /\ overlapped' \in BOOLEAN /\ (~overlapped' => ~overlapped)
      /\ accounts' # accounts => overlapped'  \/ accounts' = captured[l]
      /\ UNCHANGED <<selected, diskVars, tokens, rowVars, stored, displaced>>
  BY DEF LaunchAborted, LaunchContinued, Overlap, listVars, Types
<1> USE DEF diskVars, rowVars
<1>2. /\ pc' \in [Launches -> {"idle", "refreshing", "writing"}] /\ index' \in [Launches -> Nat \ {0}]
      /\ captured' \in [Launches -> Seq(Entries)] /\ updated' \in [Launches -> Seq(Entries)]
      /\ pc'[l] = "idle"
      /\ \A m \in Launches : m # l =>
           pc'[m] = pc[m] /\ captured'[m] = captured[m] /\ updated'[m] = updated[m] /\ index'[m] = index[m]
      /\ LaunchHasAccount'
  BY <1>1, OverIsIdle
<1>3. ~overlapped' => accounts' = accounts
  BY <1>1 DEF CapturedIsCurrent
<1>4. Types'
  BY <1>1, <1>2 DEF Types
<1>5. CapturedIsCurrent' /\ UpdatedIsFirst'
  BY <1>1, <1>2, <1>3 DEF CapturedIsCurrent, UpdatedIsFirst
<1>6. NewestIsList'
  BY <1>1, <1>2, <1>3 DEF NewestIsList, Newest
<1>7. ListIsStored'
  BY <1>1, <1>3 DEF ListIsStored, Stored
<1> QED BY <1>2, <1>4, <1>5, <1>6, <1>7

\* A launch writes the list that it will leave behind.
LEMMA LaunchWrites ==
  ASSUME IInv, NEW l \in Launches, LaunchRefreshed(l)
  PROVE  IInv'
<1> USE DEF IInv
<1> DEFINE account == Account(captured[l][index[l]].who, tokens')
           new == Refreshed(captured[l], account)
<1>1. /\ pc[l] = "refreshing" /\ pc' = [pc EXCEPT ![l] = "writing"] /\ NewToken
      /\ updated' = [updated EXCEPT ![l] = new] /\ WriteAccounts(updated'[l], l)
      /\ displaced' = (displaced \/ index[l] # 1)
      /\ UNCHANGED <<listVars, captured, index, rowVars, stored, overlapped>>
  BY DEF LaunchRefreshed
<1> USE DEF listVars, rowVars
<1>2. captured[l] \in Seq(Entries) /\ index[l] \in DOMAIN captured[l] /\ captured[l] # <<>> /\ tokens' \in Tokens
  <2>1. captured[l] \in Seq(Entries) /\ index[l] \in DOMAIN captured[l]
    BY <1>1 DEF Types, LaunchHasAccount
  <2>2. captured[l] # <<>>
    BY <2>1, EmptySeq
  <2> QED BY <1>1, <2>1, <2>2, AccountsAssumption DEF NewToken, Types, Tokens
<1>3. account \in Entries /\ account.who = captured[l][index[l]].who
  <2>1. captured[l][index[l]] \in Entries
    BY <1>2
  <2> QED BY <1>2, <2>1 DEF Entries, Account
<1> HIDE DEF account
<1>4. new \in Seq(Entries) /\ new # <<>> /\ new[1] = account
  BY <1>2, <1>3, ReplaceFirst
<1>5. updated'[l] = new /\ pc'[l] = "writing" /\ \A m \in Launches : m # l => updated'[m] = updated[m] /\ pc'[m] = pc[m]
  BY <1>1 DEF Types
<1> DEFINE w == [list |-> new, by |-> l]
<1>6. /\ w \in Writes /\ w.list = new /\ writes' = Append(writes, w) /\ file' = file
  BY <1>1, <1>4, <1>5 DEF WriteAccounts, Writes
<1>7. writes' \in Seq(Writes) /\ writes' # <<>> /\ writes'[Len(writes')].list = new
  <2> HIDE DEF w
  <2>1. writes \in Seq(Writes)
    BY DEF Types
  <2>2. writes' \in Seq(Writes) /\ writes' # <<>> /\ writes'[Len(writes')] = w
    BY <1>6, <2>1
  <2> QED BY <1>6, <2>2
<1>8. Types'
  <2>1. pc' \in [Launches -> {"idle", "refreshing", "writing"}] /\ updated' \in [Launches -> Seq(Entries)]
    BY <1>1, <1>4 DEF Types
  <2> QED BY <1>1, <1>2, <1>6, <1>7, <2>1 DEF Types
<1>9. LaunchHasAccount' /\ CapturedIsCurrent'
  BY <1>1, <1>4, <1>5 DEF LaunchHasAccount, CapturedIsCurrent
<1>10. UpdatedIsFirst'
  <2> SUFFICES ASSUME ~overlapped, ~displaced', NEW m \in Launches, pc'[m] = "writing"
               PROVE  accounts # <<>> /\ updated'[m][1].who = accounts[1].who /\ updated'[m] = Refreshed(accounts, updated'[m][1])
    BY <1>1 DEF UpdatedIsFirst
  <2>1. CASE m # l
    BY <1>1, <1>5, <2>1 DEF UpdatedIsFirst
  <2>2. CASE m = l
    <3>1. captured[l] = accounts /\ index[l] = 1
      BY <1>1 DEF CapturedIsCurrent
    <3> QED BY <1>2, <1>3, <1>4, <1>5, <2>2, <3>1
  <2> QED BY <2>1, <2>2
<1>11. NewestIsList'
  BY <1>5, <1>7 DEF NewestIsList, Newest
<1>12. ListIsStored'
  BY <1>1 DEF ListIsStored, Stored
<1> QED BY <1>8, <1>9, <1>10, <1>11, <1>12

\* A launch leaves behind what it has written.
LEMMA LaunchEnds ==
  ASSUME IInv, NEW l \in Launches, LaunchResolved(l)
  PROVE  IInv'
<1> USE DEF IInv
<1>1. /\ pc[l] = "writing" /\ Over({l}) /\ accounts' = updated[l]
      /\ stored' = [stored EXCEPT ![updated[l][1].who] = updated[l][1].token]
      /\ overlapped' = (overlapped \/ Busy \ {l} # {})
      /\ UNCHANGED <<selected, diskVars, tokens, rowVars, displaced>>
  BY DEF LaunchResolved, Overlap
<1> USE DEF diskVars, rowVars
<1> DEFINE account == updated[l][1]
<1>2. updated[l] \in Seq(Entries) /\ updated[l] # <<>> /\ account \in Entries
  <2>1. updated[l] \in Seq(Entries) /\ updated[l] # <<>>
    BY <1>1 DEF Types, LaunchHasAccount
  <2>2. 1 \in 1..Len(updated[l])
    BY <2>1, EmptySeq
  <2> QED BY <2>1, <2>2
<1>3. account.who \in People /\ account.token \in Tokens /\ account = Account(account.who, account.token)
  BY <1>2 DEF Entries, Account
<1>4. /\ pc' \in [Launches -> {"idle", "refreshing", "writing"}] /\ index' \in [Launches -> Nat \ {0}]
      /\ captured' \in [Launches -> Seq(Entries)] /\ updated' \in [Launches -> Seq(Entries)]
      /\ pc'[l] = "idle" /\ \A m \in Launches : m # l => pc'[m] = pc[m]
      /\ LaunchHasAccount'
  BY <1>1, OverIsIdle
<1>5. ~overlapped' => ~overlapped /\ \A m \in Launches : pc'[m] = "idle" /\ (pc[m] = "writing" => m = l)
  BY <1>1, <1>4 DEF Busy
<1> HIDE DEF account
<1>6. /\ stored' \in [People -> Tokens \cup {None}]
      /\ Stored' = {account} \cup {a \in Stored : a.who # account.who}
  <2>1. stored' = [stored EXCEPT ![account.who] = account.token]
    BY <1>1 DEF account
  <2> QED BY <1>3, <2>1, StoredChanges
<1>7. Types'
  BY <1>1, <1>2, <1>4, <1>6 DEF Types
<1>8. CapturedIsCurrent' /\ UpdatedIsFirst'
  BY <1>5 DEF CapturedIsCurrent, UpdatedIsFirst
<1>9. NewestIsList'
  BY <1>1, <1>5 DEF NewestIsList, Newest
<1>10. ListIsStored'
  <2>1. ASSUME ~overlapped', ~displaced' PROVE Unique(accounts') /\ ToSet(accounts') = Stored'
    <3>1. /\ accounts # <<>> /\ account.who = accounts[1].who /\ accounts' = Refreshed(accounts, account)
          /\ Unique(accounts) /\ ToSet(accounts) = Stored /\ accounts \in Seq(Entries)
      BY <1>1, <1>5, <2>1 DEF UpdatedIsFirst, ListIsStored, account, Types
    <3>2. Unique(accounts') /\ ToSet(accounts') = {account} \cup {a \in ToSet(accounts) : a.who # account.who}
      BY <1>2, <3>1, ReplaceFirst
    <3> QED BY <1>6, <3>1, <3>2
  <2> QED BY <2>1 DEF ListIsStored, Unique, ToSet
<1> QED BY <1>4, <1>7, <1>8, <1>9, <1>10

\* A write lands or fails.
LEMMA WriteEnds ==
  ASSUME IInv, NEW k \in DOMAIN writes, WriteLands(k) \/ WriteFails(k)
  PROVE  IInv'
<1> USE DEF IInv
<1>1. /\ writes' = RemoveAt(writes, k)
      /\ \/ file' = writes[k].list /\ overlapped' = (overlapped \/ Len(writes) > 1)
         \/ file' = file /\ overlapped' = TRUE
      /\ UNCHANGED <<listVars, tokens, launchVars, rowVars, stored, displaced>>
  BY DEF WriteLands, WriteFails
<1> USE DEF listVars, launchVars, rowVars
<1>2. writes \in Seq(Writes) /\ Len(writes) \in Nat /\ writes[k] \in Writes /\ overlapped \in BOOLEAN
  BY DEF Types
<1>3. writes' \in Seq(Writes) /\ (Len(writes) <= 1 => writes' = <<>> /\ k = Len(writes))
  BY <1>1, <1>2, RemoveOne
<1>4. file' \in Seq(Entries) /\ overlapped' \in BOOLEAN
  BY <1>1, <1>2 DEF Types, Writes
<1>5. ~overlapped' => ~overlapped /\ writes' = <<>> /\ file' = Newest
  <2>1. ASSUME ~overlapped' PROVE ~overlapped /\ Len(writes) <= 1 /\ file' = writes[k].list
    <3>1. file' = writes[k].list /\ overlapped' = (overlapped \/ Len(writes) > 1)
      BY <1>1, <2>1
    <3>2. ~overlapped /\ ~(Len(writes) > 1)
      BY <2>1, <3>1
    <3> QED BY <1>2, <3>1, <3>2
  <2>2. writes # <<>>
    BY <1>2
  <2> QED BY <1>3, <2>1, <2>2 DEF Newest
<1>6. Types'
  BY <1>1, <1>3, <1>4 DEF Types
<1>7. LaunchHasAccount' /\ CapturedIsCurrent' /\ UpdatedIsFirst'
  BY <1>1, <1>5 DEF LaunchHasAccount, CapturedIsCurrent, UpdatedIsFirst
<1>8. NewestIsList'
  <2>1. ~overlapped' => Newest' = Newest
    BY <1>5 DEF Newest
  <2> QED BY <1>1, <1>5, <2>1 DEF NewestIsList
<1>9. ListIsStored'
  BY <1>1, <1>5 DEF ListIsStored, Stored
<1> QED BY <1>6, <1>7, <1>8, <1>9

\* A selection, the start of a sign-in or of a row's refresh, or its failure, touch no list.
LEMMA QuietSteps ==
  ASSUME IInv,
         \/ \E i \in DOMAIN accounts : Select(i)
         \/ StartSignIn \/ SignInFails
         \/ \E p \in People : StartRefresh(p) \/ RefreshFails(p)
         \/ UNCHANGED vars
  PROVE  IInv'
<1> USE DEF IInv
<1>1. /\ selected' \in Nat \ {0} /\ signingIn' \in BOOLEAN /\ refreshing' \subseteq People
      /\ UNCHANGED <<accounts, diskVars, tokens, launchVars, stored, overlapped, displaced>>
  <2>1. ASSUME NEW i \in DOMAIN accounts, Select(i) PROVE <1>1!:
    <3>1. i \in Nat \ {0}
      BY DEF Types
    <3> QED BY <2>1, <3>1 DEF Select, rowVars, Types
  <2>2. CASE StartSignIn \/ SignInFails
    BY <2>2 DEF StartSignIn, SignInFails, listVars, Types
  <2>3. ASSUME NEW p \in People, StartRefresh(p) \/ RefreshFails(p) PROVE <1>1!:
    BY <2>3 DEF StartRefresh, RefreshFails, listVars, Types
  <2>4. CASE UNCHANGED vars
    BY <2>4 DEF vars, listVars, rowVars, Types
  <2> QED BY <2>1, <2>2, <2>3, <2>4
<1> USE DEF diskVars, launchVars
<1>2. Types'
  BY <1>1 DEF Types
<1>3. LaunchHasAccount' /\ CapturedIsCurrent' /\ UpdatedIsFirst'
  BY <1>1 DEF LaunchHasAccount, CapturedIsCurrent, UpdatedIsFirst
<1>4. NewestIsList'
  BY <1>1 DEF NewestIsList, Newest
<1>5. ListIsStored'
  BY <1>1 DEF ListIsStored, Stored
<1> QED BY <1>2, <1>3, <1>4, <1>5

\* A reload reads the file, and nobody awaits the writes any more.
LEMMA ReloadReads ==
  ASSUME IInv, Reload
  PROVE  IInv'
<1> USE DEF IInv
<1>1. /\ accounts' = file /\ writes' = [k \in DOMAIN writes |-> [writes[k] EXCEPT !.by = None]]
      /\ overlapped' = (overlapped \/ writes # <<>> \/ \E l \in Launches : pc[l] = "writing")
      /\ Over(Launches) /\ signingIn' = FALSE /\ refreshing' = {}
      /\ UNCHANGED <<selected, file, tokens, stored, displaced>>
  BY DEF Reload
<1>2. /\ pc' \in [Launches -> {"idle", "refreshing", "writing"}] /\ index' \in [Launches -> Nat \ {0}]
      /\ captured' \in [Launches -> Seq(Entries)] /\ updated' \in [Launches -> Seq(Entries)]
      /\ \A l \in Launches : pc'[l] = "idle"
      /\ LaunchHasAccount'
  BY <1>1, OverIsIdle
<1>3. writes' \in Seq(Writes)
  <2>1. DOMAIN writes = 1..Len(writes) /\ Len(writes) \in Nat /\ \A k \in DOMAIN writes : writes[k] \in Writes
    BY DEF Types
  <2>2. \A k \in DOMAIN writes : [writes[k] EXCEPT !.by = None] \in Writes
    BY <2>1 DEF Writes
  <2> QED BY <1>1, <2>1, <2>2
<1>4. ASSUME ~overlapped' PROVE ~overlapped /\ writes = <<>> /\ writes' = <<>> /\ accounts' = accounts
  <2>1. ~overlapped /\ writes = <<>> /\ \A l \in Launches : pc[l] # "writing"
    BY <1>1, <1>4
  <2>2. file = accounts
    BY <2>1 DEF NewestIsList, Newest
  <2>3. DOMAIN writes' = {} /\ writes' = <<>>
    BY <1>1, <1>3, <2>1, EmptySeq
  <2> QED BY <1>1, <2>1, <2>2, <2>3
<1>5. Types'
  BY <1>1, <1>2, <1>3 DEF Types
<1>6. CapturedIsCurrent' /\ UpdatedIsFirst'
  BY <1>2 DEF CapturedIsCurrent, UpdatedIsFirst
<1>7. NewestIsList'
  BY <1>1, <1>2, <1>4 DEF NewestIsList, Newest
<1>8. ListIsStored'
  BY <1>1, <1>4 DEF ListIsStored, Stored
<1> QED BY <1>2, <1>5, <1>6, <1>7, <1>8

-----------------------------------------------------------------------------
\* Every step preserves the invariant.
LEMMA StepInv == IInv /\ [Next]_vars => IInv'
<1> SUFFICES ASSUME IInv, [Next]_vars PROVE IInv'
  OBVIOUS
<1>1. CASE \E k \in DOMAIN writes : WriteLands(k) \/ WriteFails(k)
  BY <1>1, WriteEnds
<1>2. CASE (\E i \in DOMAIN accounts : Select(i)) \/ StartSignIn \/ SignInFails
  BY <1>2, QuietSteps
<1>3. ASSUME NEW p \in People, SignedIn(p) \/ AddOffline(p) \/ RemoveAccount(p) \/ RowRefreshed(p)
      PROVE  IInv'
  BY <1>3, RowSteps DEF IInv
<1>4. ASSUME NEW p \in People, StartRefresh(p) \/ RefreshFails(p) PROVE IInv'
  BY <1>4, QuietSteps
<1>5. ASSUME NEW l \in Launches,
             StartLaunch(l) \/ LaunchAborted(l) \/ LaunchContinued(l) \/ LaunchRefreshed(l) \/ LaunchResolved(l)
      PROVE  IInv'
  BY <1>5, LaunchStarts, LaunchGivesUp, LaunchWrites, LaunchEnds
<1>6. CASE Reload
  BY <1>6, ReloadReads
<1>7. CASE UNCHANGED vars
  BY <1>7, QuietSteps
<1> QED BY <1>1, <1>2, <1>3, <1>4, <1>5, <1>6, <1>7 DEF Next

\* The invariant holds in every reachable state, for any people, launches and bounds.
THEOREM Invariance == Spec => []IInv
<1> QED BY InitInv, StepInv, PTL DEF Spec

\* Accounts, tokens and launches keep their types: what the page and accounts.json hold is
\* always a list of accounts, whoever replaced it last.
THEOREM TypeCorrectness == Spec => []TypeOK
<1>1. ASSUME NEW list \in Seq(Entries) PROVE IsList(list)
  <2>1. \A i \in DOMAIN list : list[i] \in Entries
    OBVIOUS
  <2> QED BY <2>1 DEF IsList, Entries
<1>2. Types => TypeOK
  <2> SUFFICES ASSUME Types PROVE TypeOK
    OBVIOUS
  <2>1. \A k \in DOMAIN writes : writes[k].list \in Seq(Entries)
    <3>1. \A k \in DOMAIN writes : writes[k] \in Writes
      BY DEF Types
    <3> QED BY <3>1 DEF Writes
  <2> QED BY <1>1, <2>1 DEF Types, TypeOK
<1>3. IInv => TypeOK
  BY <1>2 DEF IInv
<1> QED BY <1>3, Invariance, PTL

\* No account is lost, doubled, revived or set back to an older token while changes of the list
\* do not overlap and launches refresh the first account, and with nothing under way the file is
\* the list (resolve-launch-account.ts, Microsoft.vue, write-accounts.ts).
THEOREM AccountsAreSafe == Spec => []AccountsAreKept
<1>1. IInv => AccountsKept
  <2> SUFFICES ASSUME IInv, ~overlapped, ~displaced PROVE Complete
    BY DEF AccountsKept
  <2>1. accounts \in Seq(Entries) /\ Unique(accounts) /\ ToSet(accounts) = Stored
    BY DEF IInv, Types, ListIsStored
  <2> QED BY <2>1, UniqueIsCounted DEF Complete, Stored
<1>2. IInv => FileFollows
  BY DEF IInv, NewestIsList, Newest, FileFollows
<1>3. IInv => AccountsAreKept
  BY <1>1, <1>2 DEF AccountsAreKept
<1> QED BY <1>3, Invariance, PTL
=============================================================================
