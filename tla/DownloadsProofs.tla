--------------------------- MODULE DownloadsProofs ---------------------------
(***************************************************************************)
(* Proofs about module Downloads, for any number of ids, batches, workers  *)
(* and entries.                                                            *)
(*                                                                         *)
(* The type invariant is not inductive by itself: that the registry counts *)
(* down to natural numbers needs RegistryTracksBatches, and that what is   *)
(* shown and what is recorded as failed are entries needs ClaimedOnce.     *)
(* The three are proved together, with two more facts: a recorded failure  *)
(* was handed out, and a flag in use was created by a batch that started.  *)
(***************************************************************************)
EXTENDS Downloads, TLAPS, FiniteSetTheorems

\* What a worker has recorded as failed was handed out before.
FailuresHandedOut ==
  \A b \in Batches, w \in Workers : \A e \in failures[b][w] : e < nextIndex[b]

\* A flag that is held, or was set, belongs to a batch that has started.
FlagsAreBorn ==
  /\ \A b \in Batches : flagOf[b] # None => phase[flagOf[b]] # "idle"
  /\ \A f \in raised : phase[f] # "idle"

IInv ==
  /\ TypeOK
  /\ ClaimedOnce
  /\ FailuresHandedOut
  /\ RegistryTracksBatches
  /\ FlagsAreSeparate
  /\ FlagsAreBorn

-----------------------------------------------------------------------------
\* The batches the registry counts for an id.
RunningOf(i) == {b \in Batches : Registered(b) /\ idOf[b] = i}

\* They are finitely many, before and after a step.
LEMMA RunningFinite ==
  \A i \in Ids : IsFiniteSet(RunningOf(i)) /\ IsFiniteSet(RunningOf(i))'
<1>1. \A S \in SUBSET Batches : IsFiniteSet(S)
  BY DownloadsAssumption, FS_Subset
<1> QED BY <1>1 DEF RunningOf

\* A worker touches neither the registry nor the command of its batch.
LEMMA WorkerFrame ==
  ASSUME NEW b \in Batches, NEW w \in Workers, WorkerStep(b, w)
  PROVE  UNCHANGED <<registry, raised, phase, idOf, flagOf, size, report>>
BY DEF WorkerStep, CheckFlag, ClaimEntry, FindNothing, Respond, Fail, Finish, Interrupt,
       RemoveProgress, CountSuccess, CountFailure, registryVars, counterVars

\* The steps of a batch's command touch no worker and no counter.
LEMMA BatchFrame ==
  ASSUME NEW b \in Batches, BatchStep(b)
  PROVE  UNCHANGED <<raised, idOf, flagOf, size, nextIndex, success, failed, progress,
                     pc, claim, failures>>
BY DEF BatchStep, Join, Deregister, Report, registryVars, counterVars, workerVars

-----------------------------------------------------------------------------
\* The initial states satisfy the invariant.
LEMMA InitInv == Init => IInv
<1> SUFFICES ASSUME Init PROVE IInv
  OBVIOUS
<1>1. TypeOK
  BY DownloadsAssumption DEF Init, TypeOK, Phases, WorkerPcs
<1>2. ClaimedOnce /\ FailuresHandedOut
  BY DEF Init, ClaimedOnce, FailuresHandedOut, Busy
<1>3. RegistryTracksBatches
  <2> SUFFICES ASSUME NEW i \in Ids
               PROVE  /\ registry[i].batches = Cardinality(RunningOf(i))
                      /\ registry[i].flag = None <=> RunningOf(i) = {}
                      /\ \A b \in RunningOf(i) : flagOf[b] = registry[i].flag
    BY DEF RegistryTracksBatches, RunningOf
  <2>1. RunningOf(i) = {}
    BY DEF Init, RunningOf, Registered
  <2> QED BY <2>1, FS_EmptySet DEF Init
<1>4. FlagsAreSeparate /\ FlagsAreBorn
  BY DEF Init, FlagsAreSeparate, FlagsAreBorn
<1> QED BY <1>1, <1>2, <1>3, <1>4 DEF IInv

-----------------------------------------------------------------------------
\* An entry in a worker's hands is a number.
LEMMA BusyClaims ==
  ASSUME TypeOK, ClaimedOnce, NEW b \in Batches, NEW w \in Workers, pc[b][w] \in Busy
  PROVE  claim[b][w] \in Nat
BY DEF TypeOK, ClaimedOnce

\* A registered batch counts in the entry of its id.
LEMMA RegisteredCounts ==
  ASSUME TypeOK, RegistryTracksBatches, NEW b \in Batches, Registered(b), idOf[b] \in Ids
  PROVE  /\ registry[idOf[b]].batches \in Nat \ {0}
         /\ registry[idOf[b]].flag = flagOf[b]
         /\ registry[idOf[b]].flag \in Batches
<1> DEFINE S == RunningOf(idOf[b])
<1>1. b \in S
  BY DEF RunningOf
<1>2. Cardinality(S) # 0
  BY <1>1, RunningFinite, FS_EmptySet
<1>3. /\ registry[idOf[b]].batches = Cardinality(S)
      /\ registry[idOf[b]].flag # None
      /\ registry[idOf[b]].flag = flagOf[b]
  BY <1>1 DEF RegistryTracksBatches, RunningOf
<1> QED BY <1>2, <1>3 DEF TypeOK

\* Every step keeps the types.
LEMMA TypeStep == ASSUME IInv, [Next]_vars PROVE TypeOK'
<1> USE DEF IInv
<1>1. ASSUME NEW b \in Batches, NEW i \in Ids, NEW n \in 0..MaxEntries, Start(b, i, n)
      PROVE  TypeOK'
  <2>1. RegisteredFlag(b, i) \in Batches
    BY <1>1 DEF TypeOK, RegisteredFlag
  <2>2. registry' \in [Ids -> [flag: Batches \cup {None}, batches: Nat]]
    BY <1>1, <2>1 DEF TypeOK, Start
  <2>3. n \in Nat
    BY DownloadsAssumption
  <2> QED BY <1>1, <2>1, <2>2, <2>3 DEF TypeOK, Start, counterVars, Phases, WorkerPcs
<1>2. ASSUME NEW b \in Batches, Reject(b) PROVE TypeOK'
  BY <1>2 DEF TypeOK, Reject, registryVars, counterVars, workerVars, Phases
<1>3. ASSUME NEW i \in Ids, Cancel(i) PROVE TypeOK'
  BY <1>3 DEF TypeOK, Cancel, counterVars, workerVars
<1>4. ASSUME NEW b \in Batches, Join(b) PROVE TypeOK'
  BY <1>4 DEF TypeOK, Join, registryVars, counterVars, workerVars, Phases
<1>5. ASSUME NEW b \in Batches, Deregister(b) PROVE TypeOK'
  <2>1. registry' \in [Ids -> [flag: Batches \cup {None}, batches: Nat]]
    <3>1. CASE idOf[b] \in Ids
      <4>1. Registered(b)
        BY <1>5 DEF Deregister, Registered
      <4>2. EntryWithout(idOf[b]) \in [flag: Batches \cup {None}, batches: Nat]
        <5> DEFINE entry == registry[idOf[b]]
        <5>1. entry \in [flag: Batches \cup {None}, batches: Nat] /\ entry.batches # 0
          BY <3>1, <4>1, RegisteredCounts DEF TypeOK
        <5>2. [flag |-> None, batches |-> 0] \in [flag: Batches \cup {None}, batches: Nat]
          OBVIOUS
        <5>3. entry.batches - 1 \in Nat
          BY <5>1
        <5>4. [entry EXCEPT !.batches = @ - 1] \in [flag: Batches \cup {None}, batches: Nat]
          BY <5>1, <5>3
        <5> QED BY <5>2, <5>4 DEF EntryWithout
      <4> QED BY <1>5, <4>2 DEF TypeOK, Deregister
    <3>2. CASE idOf[b] \notin Ids
      BY <1>5, <3>2 DEF TypeOK, Deregister
    <3> QED BY <3>1, <3>2
  <2> QED BY <1>5, <2>1 DEF TypeOK, Deregister, counterVars, workerVars, Phases
<1>6. ASSUME NEW b \in Batches, Report(b) PROVE TypeOK'
  <2>1. ReportOf(b) \in Reports
    BY DEF TypeOK, ReportOf, Reports, FlagSet
  <2> QED BY <1>6, <2>1 DEF TypeOK, Report, registryVars, counterVars, workerVars, Phases
<1>7. ASSUME NEW b \in Batches, NEW w \in Workers, WorkerStep(b, w) PROVE TypeOK'
  <2>1. /\ registry' \in [Ids -> [flag: Batches \cup {None}, batches: Nat]]
        /\ raised' \subseteq Batches
        /\ phase' \in [Batches -> Phases]
        /\ idOf' \in [Batches -> Ids \cup {None}]
        /\ flagOf' \in [Batches -> Batches \cup {None}]
        /\ size' \in [Batches -> Nat]
        /\ report' \in [Batches -> Reports \cup {None}]
    BY <1>7, WorkerFrame DEF TypeOK
  <2>2. pc' \in [Batches -> [Workers -> WorkerPcs]]
    <3>1. \A from, to : to \in WorkerPcs /\ GoTo(b, w, from, to) =>
            pc' \in [Batches -> [Workers -> WorkerPcs]]
      BY DEF TypeOK, GoTo
    <3> QED BY <1>7, <3>1
            DEF WorkerStep, CheckFlag, ClaimEntry, FindNothing, Respond, Fail, Finish, Interrupt,
                RemoveProgress, CountSuccess, CountFailure, WorkerPcs, Busy, Exited,
                AfterRemoval, Outcomes
  <2>3. /\ nextIndex' \in [Batches -> Nat]
        /\ success' \in [Batches -> Nat]
        /\ failed' \in [Batches -> Nat]
    <3>1. CASE ClaimEntry(b, w)
      BY <3>1 DEF ClaimEntry, TypeOK
    <3>2. CASE FindNothing(b, w)
      BY <3>2 DEF FindNothing, TypeOK
    <3>3. CASE CountSuccess(b, w)
      BY <3>3 DEF CountSuccess, TypeOK
    <3>4. CASE CountFailure(b, w)
      BY <3>4 DEF CountFailure, TypeOK
    <3>5. CASE UNCHANGED counterVars
      BY <3>5 DEF TypeOK, counterVars
    <3> QED BY <1>7, <3>1, <3>2, <3>3, <3>4, <3>5
            DEF WorkerStep, CheckFlag, Respond, Fail, Finish, Interrupt, RemoveProgress
  <2>4. claim' \in [Batches -> [Workers -> Nat \cup {None}]]
    <3>1. CASE ClaimEntry(b, w)
      BY <3>1 DEF ClaimEntry, TypeOK
    <3>2. CASE CountSuccess(b, w)
      BY <3>2 DEF CountSuccess, TypeOK
    <3>3. CASE CountFailure(b, w)
      BY <3>3 DEF CountFailure, TypeOK
    <3>4. CASE UNCHANGED claim
      BY <3>4 DEF TypeOK
    <3> QED BY <1>7, <3>1, <3>2, <3>3, <3>4
            DEF WorkerStep, CheckFlag, FindNothing, Respond, Fail, Finish, Interrupt, RemoveProgress
  <2>5. progress' \in [Batches -> SUBSET Nat]
    <3>1. CASE Respond(b, w)
      <4>1. claim[b][w] \in Nat
        BY <3>1, BusyClaims DEF Respond, GoTo, Busy
      <4> QED BY <3>1, <4>1 DEF Respond, TypeOK
    <3>2. CASE RemoveProgress(b, w)
      BY <3>2 DEF RemoveProgress, TypeOK
    <3>3. CASE UNCHANGED progress
      BY <3>3 DEF TypeOK
    <3> QED BY <1>7, <3>1, <3>2, <3>3
            DEF WorkerStep, CheckFlag, ClaimEntry, FindNothing, Fail, Finish, Interrupt,
                CountSuccess, CountFailure
  <2>6. failures' \in [Batches -> [Workers -> SUBSET Nat]]
    <3>1. CASE CountFailure(b, w)
      <4>1. claim[b][w] \in Nat
        BY <3>1, BusyClaims DEF CountFailure, GoTo, Busy
      <4> QED BY <3>1, <4>1 DEF CountFailure, TypeOK
    <3>2. CASE UNCHANGED failures
      BY <3>2 DEF TypeOK
    <3> QED BY <1>7, <3>1, <3>2
            DEF WorkerStep, CheckFlag, ClaimEntry, FindNothing, Respond, Fail, Finish, Interrupt,
                RemoveProgress, CountSuccess
  <2> QED BY <2>1, <2>2, <2>3, <2>4, <2>5, <2>6 DEF TypeOK
<1>8. CASE UNCHANGED vars
  BY <1>8 DEF TypeOK, vars
<1> QED BY <1>1, <1>2, <1>3, <1>4, <1>5, <1>6, <1>7, <1>8 DEF Next, BatchStep

-----------------------------------------------------------------------------
\* A step that puts no new entry into a worker's hands and records no failure is harmless.
LEMMA QuietClaims ==
  ASSUME TypeOK, TypeOK', ClaimedOnce, FailuresHandedOut,
         failures' = failures,
         \A c \in Batches : nextIndex'[c] >= nextIndex[c],
         \A c \in Batches, v \in Workers :
           pc'[c][v] \in Busy =>
             pc[c][v] \in Busy /\ claim'[c][v] = claim[c][v] /\ size'[c] = size[c]
  PROVE  ClaimedOnce' /\ FailuresHandedOut'
<1>1. ClaimedOnce'
  <2> SUFFICES ASSUME NEW c \in Batches, NEW v \in Workers, pc'[c][v] \in Busy
               PROVE  /\ claim'[c][v] \in 0..(size'[c] - 1)
                      /\ claim'[c][v] < nextIndex'[c]
                      /\ \A u \in Workers \ {v} :
                           /\ pc'[c][u] \in Busy => claim'[c][u] # claim'[c][v]
                           /\ claim'[c][v] \notin failures'[c][u]
    BY DEF ClaimedOnce
  <2>1. /\ pc[c][v] \in Busy /\ claim'[c][v] = claim[c][v] /\ size'[c] = size[c]
        /\ claim[c][v] \in 0..(size[c] - 1) /\ claim[c][v] < nextIndex[c]
        /\ claim[c][v] \in Int
    BY DEF ClaimedOnce
  <2>2. claim[c][v] < nextIndex'[c]
    BY <2>1 DEF TypeOK
  <2>3. \A u \in Workers \ {v} :
          /\ pc'[c][u] \in Busy => claim'[c][u] # claim'[c][v]
          /\ claim'[c][v] \notin failures'[c][u]
    BY <2>1 DEF ClaimedOnce
  <2> QED BY <2>1, <2>2, <2>3
<1>2. FailuresHandedOut'
  BY DEF FailuresHandedOut, TypeOK
<1> QED BY <1>1, <1>2

\* A worker's step keeps the claims apart.
LEMMA WorkerClaims ==
  ASSUME IInv, TypeOK', NEW b \in Batches, NEW w \in Workers, WorkerStep(b, w)
  PROVE  ClaimedOnce' /\ FailuresHandedOut'
<1> USE DEF IInv
<1>1. CASE ClaimEntry(b, w)
  <2>1. /\ \A c \in Batches, v \in Workers :
             pc'[c][v] = IF c = b /\ v = w THEN "requesting" ELSE pc[c][v]
        /\ \A c \in Batches, v \in Workers :
             claim'[c][v] = IF c = b /\ v = w THEN nextIndex[b] ELSE claim[c][v]
        /\ \A c \in Batches : nextIndex'[c] = IF c = b THEN nextIndex[b] + 1 ELSE nextIndex[c]
        /\ nextIndex[b] < size[b]
        /\ failures' = failures /\ size' = size
    BY <1>1 DEF ClaimEntry, GoTo, TypeOK
  <2>2. FailuresHandedOut'
    <3> SUFFICES ASSUME NEW c \in Batches, NEW v \in Workers, NEW e \in failures[c][v]
                 PROVE  e < nextIndex'[c]
      BY <2>1 DEF FailuresHandedOut
    <3>1. e \in Nat /\ nextIndex[c] \in Nat /\ nextIndex'[c] \in Nat /\ e < nextIndex[c]
      BY DEF FailuresHandedOut, TypeOK
    <3>2. nextIndex'[c] >= nextIndex[c]
      BY <2>1, <3>1
    <3> QED BY <3>1, <3>2
  <2>3. ASSUME NEW c \in Batches, NEW v \in Workers, pc'[c][v] \in Busy
        PROVE  /\ claim'[c][v] \in 0..(size'[c] - 1)
               /\ claim'[c][v] < nextIndex'[c]
    <3>1. nextIndex[c] \in Nat /\ size[c] \in Nat
      BY DEF TypeOK
    <3>2. CASE c = b /\ v = w
      <4>1. /\ claim'[c][v] = nextIndex[c] /\ nextIndex'[c] = nextIndex[c] + 1
            /\ size'[c] = size[c] /\ nextIndex[c] < size[c]
        BY <2>1, <3>2
      <4> QED BY <3>1, <4>1
    <3>3. CASE ~(c = b /\ v = w)
      <4>1. claim'[c][v] = claim[c][v] /\ pc[c][v] \in Busy /\ size'[c] = size[c]
        BY <2>1, <2>3, <3>3
      <4>2. claim[c][v] \in 0..(size[c] - 1) /\ claim[c][v] < nextIndex[c]
        BY <4>1 DEF ClaimedOnce
      <4>3. nextIndex'[c] \in {nextIndex[c], nextIndex[c] + 1}
        BY <2>1
      <4> QED BY <3>1, <4>1, <4>2, <4>3
    <3> QED BY <3>2, <3>3
  <2>4. ASSUME NEW c \in Batches, NEW v \in Workers, NEW u \in Workers \ {v},
               pc'[c][v] \in Busy
        PROVE  /\ pc'[c][u] \in Busy => claim'[c][u] # claim'[c][v]
               /\ claim'[c][v] \notin failures'[c][u]
    <3>1. CASE c = b /\ v = w
      BY <2>1, <2>4, <3>1 DEF ClaimedOnce, FailuresHandedOut, TypeOK
    <3>2. CASE c = b /\ u = w
      BY <2>1, <2>4, <3>2 DEF ClaimedOnce, TypeOK
    <3>3. CASE ~(c = b /\ v = w) /\ ~(c = b /\ u = w)
      BY <2>1, <2>4, <3>3 DEF ClaimedOnce, TypeOK
    <3> QED BY <3>1, <3>2, <3>3
  <2> QED BY <2>2, <2>3, <2>4 DEF ClaimedOnce
<1>2. CASE CountFailure(b, w)
  <2>1. \A c \in Batches, v \in Workers :
          pc'[c][v] = IF c = b /\ v = w THEN "check" ELSE pc[c][v]
    BY <1>2 DEF CountFailure, GoTo, TypeOK
  <2>2. \A c \in Batches, v \in Workers : (c # b \/ v # w) => claim'[c][v] = claim[c][v]
    BY <1>2 DEF CountFailure, TypeOK
  <2>3. \A c \in Batches, v \in Workers :
          failures'[c][v] \subseteq
            failures[c][v] \cup (IF c = b /\ v = w THEN {claim[b][w]} ELSE {})
    BY <1>2 DEF CountFailure, TypeOK
  <2>4. nextIndex' = nextIndex /\ size' = size /\ pc[b][w] \in Busy
    BY <1>2 DEF CountFailure, GoTo, Busy
  <2>5. claim[b][w] < nextIndex[b]
    BY <2>4 DEF ClaimedOnce
  <2>6. FailuresHandedOut'
    BY <2>3, <2>4, <2>5 DEF FailuresHandedOut
  <2>7. ASSUME NEW c \in Batches, NEW v \in Workers, pc'[c][v] \in Busy
        PROVE  (c # b \/ v # w) /\ pc[c][v] \in Busy /\ claim'[c][v] = claim[c][v]
    BY <2>1, <2>2, <2>7 DEF Busy
  <2>8. ASSUME NEW c \in Batches, NEW v \in Workers, pc'[c][v] \in Busy
        PROVE  /\ claim'[c][v] \in 0..(size'[c] - 1)
               /\ claim'[c][v] < nextIndex'[c]
    BY <2>4, <2>7, <2>8 DEF ClaimedOnce
  <2>9. ASSUME NEW c \in Batches, NEW v \in Workers, NEW u \in Workers \ {v},
               pc'[c][v] \in Busy
        PROVE  /\ pc'[c][u] \in Busy => claim'[c][u] # claim'[c][v]
               /\ claim'[c][v] \notin failures'[c][u]
    <3>1. /\ pc[c][u] \in Busy => claim[c][u] # claim[c][v]
          /\ claim[c][v] \notin failures[c][u]
      BY <2>7, <2>9 DEF ClaimedOnce
    <3>2. c = b /\ u = w => claim[c][v] # claim[b][w]
      BY <2>4, <3>1
    <3> QED BY <2>3, <2>7, <2>9, <3>1, <3>2
  <2> QED BY <2>6, <2>8, <2>9 DEF ClaimedOnce
<1>3. CASE CountSuccess(b, w)
  <2>1. \A c \in Batches, v \in Workers : pc'[c][v] \in Busy =>
          pc[c][v] \in Busy /\ claim'[c][v] = claim[c][v]
    BY <1>3 DEF CountSuccess, GoTo, TypeOK, Busy
  <2> QED BY <1>3, <2>1, QuietClaims DEF CountSuccess, TypeOK
<1>4. CASE FindNothing(b, w)
  <2>1. \A c \in Batches, v \in Workers : pc'[c][v] \in Busy => pc[c][v] \in Busy
    BY <1>4 DEF FindNothing, GoTo, TypeOK, Busy
  <2>2. \A c \in Batches : nextIndex'[c] >= nextIndex[c]
    BY <1>4 DEF FindNothing, TypeOK
  <2> QED BY <1>4, <2>1, <2>2, QuietClaims DEF FindNothing
<1>5. CASE \/ CheckFlag(b, w) \/ Respond(b, w) \/ Fail(b, w) \/ Finish(b, w)
           \/ Interrupt(b, w) \/ RemoveProgress(b, w)
  <2>1. ASSUME NEW from, NEW to, GoTo(b, w, from, to), to \in Busy => from \in Busy
        PROVE  \A c \in Batches, v \in Workers : pc'[c][v] \in Busy => pc[c][v] \in Busy
    BY <2>1 DEF GoTo, TypeOK
  <2>2. \A c \in Batches, v \in Workers : pc'[c][v] \in Busy => pc[c][v] \in Busy
    BY <1>5, <2>1 DEF CheckFlag, Respond, Fail, Finish, Interrupt, RemoveProgress, Busy,
                      AfterRemoval, Outcomes
  <2>3. UNCHANGED <<failures, nextIndex, claim, size>>
    BY <1>5 DEF CheckFlag, Respond, Fail, Finish, Interrupt, RemoveProgress, counterVars
  <2> QED BY <2>2, <2>3, QuietClaims DEF TypeOK
<1> QED BY <1>1, <1>2, <1>3, <1>4, <1>5 DEF WorkerStep

-----------------------------------------------------------------------------
\* RegistryTracksBatches, said with the sets of the running batches.
LEMMA RegistryOf ==
  RegistryTracksBatches <=>
    \A i \in Ids : /\ registry[i].batches = Cardinality(RunningOf(i))
                   /\ registry[i].flag = None <=> RunningOf(i) = {}
                   /\ \A b \in RunningOf(i) : flagOf[b] = registry[i].flag
BY DEF RegistryTracksBatches, RunningOf

\* Registering adds a batch to those of its id and nowhere else.
LEMMA StartRegistry ==
  ASSUME IInv, TypeOK', NEW b \in Batches, NEW i \in Ids, NEW n \in 0..MaxEntries, Start(b, i, n)
  PROVE  RegistryTracksBatches'
<1> USE DEF IInv
<1> SUFFICES ASSUME NEW j \in Ids
             PROVE  /\ registry'[j].batches = Cardinality(RunningOf(j)')
                    /\ registry'[j].flag = None <=> RunningOf(j)' = {}
                    /\ \A c \in RunningOf(j)' : flagOf'[c] = registry'[j].flag
  BY RegistryOf DEF RegistryTracksBatches, RunningOf
<1>1. /\ \A c \in Batches : c # b => phase'[c] = phase[c] /\ idOf'[c] = idOf[c] /\ flagOf'[c] = flagOf[c]
      /\ phase[b] = "idle" /\ phase'[b] = "running"
      /\ idOf'[b] = i /\ flagOf'[b] = RegisteredFlag(b, i)
  BY DEF Start, TypeOK
<1>2. /\ registry[j].batches = Cardinality(RunningOf(j))
      /\ registry[j].flag = None <=> RunningOf(j) = {}
      /\ \A c \in RunningOf(j) : flagOf[c] = registry[j].flag
  BY RegistryOf
<1>3. b \notin RunningOf(j)
  BY <1>1 DEF RunningOf, Registered
<1>4. CASE j = i
  <2>1. RunningOf(j)' = RunningOf(j) \cup {b}
    BY <1>1, <1>4 DEF RunningOf, Registered
  <2>2. registry'[j] = [flag |-> RegisteredFlag(b, i), batches |-> registry[j].batches + 1]
    BY <1>4 DEF Start, TypeOK
  <2>3. Cardinality(RunningOf(j)') = Cardinality(RunningOf(j)) + 1
    BY <1>3, <2>1, RunningFinite, FS_AddElement
  <2>4. RegisteredFlag(b, i) # None
    BY DownloadsAssumption DEF RegisteredFlag
  <2>5. \A c \in RunningOf(j) : c # b /\ c \in Batches /\ flagOf[c] = RegisteredFlag(b, i)
    BY <1>2, <1>3, <1>4 DEF RegisteredFlag, RunningOf
  <2>6. \A c \in RunningOf(j)' : flagOf'[c] = registry'[j].flag
    BY <1>1, <2>1, <2>2, <2>5
  <2> QED BY <1>2, <2>1, <2>2, <2>3, <2>4, <2>6
<1>5. CASE j # i
  <2>1. RunningOf(j)' = RunningOf(j)
    BY <1>1, <1>3, <1>5 DEF RunningOf, Registered
  <2>2. registry'[j] = registry[j]
    BY <1>5 DEF Start, TypeOK
  <2>3. \A c \in RunningOf(j) : flagOf'[c] = flagOf[c]
    BY <1>1, <1>3 DEF RunningOf
  <2> QED BY <1>2, <2>1, <2>2, <2>3
<1> QED BY <1>4, <1>5

\* Deregistering takes a batch from those of its id, and the last takes the entry along.
LEMMA DeregisterRegistry ==
  ASSUME IInv, TypeOK', NEW b \in Batches, Deregister(b)
  PROVE  RegistryTracksBatches'
<1> USE DEF IInv
<1> SUFFICES ASSUME NEW j \in Ids
             PROVE  /\ registry'[j].batches = Cardinality(RunningOf(j)')
                    /\ registry'[j].flag = None <=> RunningOf(j)' = {}
                    /\ \A c \in RunningOf(j)' : flagOf'[c] = registry'[j].flag
  BY RegistryOf DEF RegistryTracksBatches, RunningOf
<1>1. /\ \A c \in Batches : c # b => phase'[c] = phase[c]
      /\ phase[b] = "joined" /\ phase'[b] = "deregistered"
      /\ idOf' = idOf /\ flagOf' = flagOf
  BY DEF Deregister, TypeOK
<1>2. /\ registry[j].batches = Cardinality(RunningOf(j))
      /\ registry[j].flag = None <=> RunningOf(j) = {}
      /\ \A c \in RunningOf(j) : flagOf[c] = registry[j].flag
  BY RegistryOf
<1>3. RunningOf(j)' = RunningOf(j) \ {b}
  BY <1>1 DEF RunningOf, Registered
<1>4. CASE j = idOf[b]
  <2>1. b \in RunningOf(j)
    BY <1>1, <1>4 DEF RunningOf, Registered
  <2>2. registry'[j] = EntryWithout(j)
    BY <1>4 DEF Deregister, TypeOK
  <2>3. Cardinality(RunningOf(j)') = Cardinality(RunningOf(j)) - 1
    BY <1>3, <2>1, RunningFinite, FS_RemoveElement
  <2>4. CASE registry[j].batches = 1
    <3>1. registry'[j].flag = None /\ registry'[j].batches = 0
      BY <2>2, <2>4 DEF EntryWithout
    <3>2. RunningOf(j)' = {}
      BY <1>2, <2>3, <2>4, RunningFinite, FS_EmptySet
    <3> QED BY <3>1, <3>2, FS_EmptySet
  <2>5. CASE registry[j].batches # 1
    <3>1. registry'[j].flag = registry[j].flag /\ registry'[j].batches = registry[j].batches - 1
      BY <2>2, <2>5 DEF EntryWithout, TypeOK
    <3>2. Cardinality(RunningOf(j)) \in Nat
      BY RunningFinite, FS_CardinalityType
    <3>3. Cardinality(RunningOf(j)') # 0
      BY <1>2, <2>3, <2>5, <3>2
    <3>4. RunningOf(j)' # {} /\ RunningOf(j) # {}
      BY <2>1, <3>3, FS_EmptySet
    <3> QED BY <1>1, <1>2, <1>3, <2>3, <3>1, <3>4
  <2> QED BY <2>4, <2>5
<1>5. CASE j # idOf[b]
  <2>1. RunningOf(j)' = RunningOf(j)
    BY <1>3, <1>5 DEF RunningOf
  <2>2. registry'[j] = registry[j]
    BY <1>5 DEF Deregister, TypeOK
  <2> QED BY <1>1, <1>2, <2>1, <2>2
<1> QED BY <1>4, <1>5

\* What the registry says and what it counts stay the same in every other step.
LEMMA SameRegistry ==
  ASSUME RegistryTracksBatches, UNCHANGED <<registry, idOf, flagOf>>,
         \A b \in Batches : Registered(b)' <=> Registered(b)
  PROVE  RegistryTracksBatches'
<1>1. \A i \in Ids : RunningOf(i)' = RunningOf(i)
  BY DEF RunningOf
<1> QED BY <1>1 DEF RegistryTracksBatches, RunningOf

\* A new batch takes the flag of a running batch of its id, or its own name, which nobody has.
LEMMA StartFlags ==
  ASSUME IInv, TypeOK', NEW b \in Batches, NEW i \in Ids, NEW n \in 0..MaxEntries, Start(b, i, n)
  PROVE  FlagsAreSeparate' /\ FlagsAreBorn'
<1> USE DEF IInv
<1>1. /\ \A c \in Batches : c # b => phase'[c] = phase[c] /\ idOf'[c] = idOf[c] /\ flagOf'[c] = flagOf[c]
      /\ phase[b] = "idle" /\ phase'[b] = "running"
      /\ idOf'[b] = i /\ flagOf'[b] = RegisteredFlag(b, i)
      /\ raised' = raised
  BY DEF Start, TypeOK
<1>2. \A c \in Batches : phase[c] # "idle" => phase'[c] # "idle"
  BY <1>1
<1>3. CASE registry[i].flag = None
  <2>1. flagOf'[b] = b
    BY <1>1, <1>3 DEF RegisteredFlag
  <2>2. \A c \in Batches : c # b => flagOf[c] # b
    BY <1>1, DownloadsAssumption DEF FlagsAreBorn
  <2>3. FlagsAreSeparate'
    BY <1>1, <2>1, <2>2 DEF FlagsAreSeparate
  <2>4. FlagsAreBorn'
    BY <1>1, <1>2, <2>1 DEF FlagsAreBorn, TypeOK
  <2> QED BY <2>3, <2>4
<1>4. CASE registry[i].flag # None
  <2>1. PICK c \in RunningOf(i) : TRUE
    BY <1>4, RegistryOf
  <2>2. /\ c \in Batches /\ c # b /\ idOf[c] = i
        /\ flagOf[c] = registry[i].flag /\ flagOf[c] # None
    BY <1>1, <1>4, <2>1, RegistryOf DEF RunningOf, Registered
  <2>3. flagOf'[b] = flagOf[c]
    BY <1>1, <1>4, <2>2 DEF RegisteredFlag
  <2>4. FlagsAreSeparate'
    BY <1>1, <2>2, <2>3 DEF FlagsAreSeparate
  <2>5. flagOf[c] \in Batches /\ phase[flagOf[c]] # "idle"
    BY <2>2 DEF FlagsAreBorn, TypeOK
  <2>6. FlagsAreBorn'
    BY <1>1, <1>2, <2>3, <2>5 DEF FlagsAreBorn, TypeOK
  <2> QED BY <2>4, <2>6
<1> QED BY <1>3, <1>4

\* A cancellation sets a flag some running batch holds.
LEMMA CancelFlags ==
  ASSUME IInv, NEW i \in Ids, Cancel(i)
  PROVE  FlagsAreSeparate' /\ FlagsAreBorn'
<1> USE DEF IInv
<1>1. registry[i].flag # None /\ raised' = raised \cup {registry[i].flag}
      /\ UNCHANGED <<phase, idOf, flagOf>>
  BY DEF Cancel
<1>2. PICK c \in RunningOf(i) : TRUE
  BY <1>1, RegistryOf
<1>3. c \in Batches /\ flagOf[c] = registry[i].flag
  BY <1>2, RegistryOf DEF RunningOf
<1>4. phase[registry[i].flag] # "idle"
  BY <1>1, <1>3 DEF FlagsAreBorn
<1> QED BY <1>1, <1>4 DEF FlagsAreSeparate, FlagsAreBorn

\* The flags stay as they are, and no batch goes back to where it started.
LEMMA SameFlags ==
  ASSUME TypeOK, FlagsAreSeparate, FlagsAreBorn, UNCHANGED <<idOf, flagOf, raised>>,
         \A b \in Batches : phase[b] # "idle" => phase'[b] # "idle"
  PROVE  FlagsAreSeparate' /\ FlagsAreBorn'
BY DEF TypeOK, FlagsAreSeparate, FlagsAreBorn

-----------------------------------------------------------------------------
\* Every step keeps the invariant.
LEMMA StepInv == IInv /\ [Next]_vars => IInv'
<1> SUFFICES ASSUME IInv, [Next]_vars PROVE IInv'
  OBVIOUS
<1>0. TypeOK'
  BY TypeStep
<1>1. ASSUME NEW b \in Batches, NEW i \in Ids, NEW n \in 0..MaxEntries, Start(b, i, n)
      PROVE  IInv'
  <2>1. RegistryTracksBatches'
    BY <1>0, <1>1, StartRegistry
  <2>2. FlagsAreSeparate' /\ FlagsAreBorn'
    BY <1>0, <1>1, StartFlags
  <2>3. ClaimedOnce' /\ FailuresHandedOut'
    <3>1. UNCHANGED <<failures, nextIndex, claim>>
      BY <1>1 DEF Start, counterVars
    <3>2. \A c \in Batches, v \in Workers : pc'[c][v] \in Busy =>
            c # b /\ pc[c][v] \in Busy /\ size'[c] = size[c]
      BY <1>1 DEF Start, IInv, TypeOK, Busy
    <3> QED BY <1>0, <3>1, <3>2, QuietClaims DEF IInv, TypeOK
  <2> QED BY <1>0, <2>1, <2>2, <2>3 DEF IInv
<1>2. ASSUME NEW b \in Batches, Reject(b) PROVE IInv'
  <2>1. /\ UNCHANGED <<registry, raised, idOf, flagOf, size, nextIndex, pc, claim, failures>>
        /\ phase[b] = "idle" /\ phase'[b] = "rejected"
        /\ \A c \in Batches : c # b => phase'[c] = phase[c]
    BY <1>2 DEF Reject, registryVars, counterVars, workerVars, IInv, TypeOK
  <2>2. RegistryTracksBatches'
    BY <2>1, SameRegistry DEF IInv, Registered
  <2>3. FlagsAreSeparate' /\ FlagsAreBorn'
    BY <2>1, SameFlags DEF IInv
  <2>4. ClaimedOnce' /\ FailuresHandedOut'
    BY <1>0, <2>1, QuietClaims DEF IInv, TypeOK
  <2> QED BY <1>0, <2>2, <2>3, <2>4 DEF IInv
<1>3. ASSUME NEW i \in Ids, Cancel(i) PROVE IInv'
  <2>1. UNCHANGED <<registry, phase, idOf, flagOf, size, nextIndex, pc, claim, failures>>
    BY <1>3 DEF Cancel, counterVars, workerVars
  <2>2. RegistryTracksBatches'
    BY <2>1, SameRegistry DEF IInv, Registered
  <2>3. FlagsAreSeparate' /\ FlagsAreBorn'
    BY <1>3, CancelFlags
  <2>4. ClaimedOnce' /\ FailuresHandedOut'
    BY <1>0, <2>1, QuietClaims DEF IInv, TypeOK
  <2> QED BY <1>0, <2>2, <2>3, <2>4 DEF IInv
<1>4. ASSUME NEW b \in Batches, BatchStep(b) PROVE IInv'
  <2>1. UNCHANGED <<raised, idOf, flagOf, size, nextIndex, pc, claim, failures>>
    BY <1>4, BatchFrame
  <2>2. /\ phase[b] # "idle" /\ phase'[b] # "idle"
        /\ \A c \in Batches : c # b => phase'[c] = phase[c]
    BY <1>4 DEF BatchStep, Join, Deregister, Report, IInv, TypeOK
  <2>3. RegistryTracksBatches'
    <3>1. CASE Deregister(b)
      BY <1>0, <3>1, DeregisterRegistry
    <3>2. CASE Join(b) \/ Report(b)
      <4>1. registry' = registry /\ (Registered(b)' <=> Registered(b))
        BY <3>2 DEF Join, Report, registryVars, Registered, IInv, TypeOK
      <4> QED BY <2>1, <2>2, <4>1, SameRegistry DEF IInv, Registered
    <3> QED BY <1>4, <3>1, <3>2 DEF BatchStep
  <2>4. FlagsAreSeparate' /\ FlagsAreBorn'
    BY <2>1, <2>2, SameFlags DEF IInv
  <2>5. ClaimedOnce' /\ FailuresHandedOut'
    BY <1>0, <2>1, QuietClaims DEF IInv, TypeOK
  <2> QED BY <1>0, <2>3, <2>4, <2>5 DEF IInv
<1>5. ASSUME NEW b \in Batches, NEW w \in Workers, WorkerStep(b, w) PROVE IInv'
  <2>1. UNCHANGED <<registry, raised, phase, idOf, flagOf>>
    BY <1>5, WorkerFrame
  <2>2. RegistryTracksBatches'
    BY <2>1, SameRegistry DEF IInv, Registered
  <2>3. FlagsAreSeparate' /\ FlagsAreBorn'
    BY <2>1, SameFlags DEF IInv
  <2>4. ClaimedOnce' /\ FailuresHandedOut'
    BY <1>0, <1>5, WorkerClaims
  <2> QED BY <1>0, <2>2, <2>3, <2>4 DEF IInv
<1>6. CASE UNCHANGED vars
  <2>1. RegistryTracksBatches'
    BY <1>6, SameRegistry DEF vars, IInv, Registered
  <2>2. FlagsAreSeparate' /\ FlagsAreBorn'
    BY <1>6, SameFlags DEF vars, IInv
  <2>3. ClaimedOnce' /\ FailuresHandedOut'
    BY <1>0, <1>6, QuietClaims DEF vars, IInv, TypeOK
  <2> QED BY <1>0, <2>1, <2>2, <2>3 DEF IInv
<1> QED BY <1>1, <1>2, <1>3, <1>4, <1>5, <1>6 DEF Next

\* The invariant holds throughout.
THEOREM Invariance == Spec => []IInv
<1>1. Init => IInv
  BY InitInv
<1>2. IInv /\ [Next]_vars => IInv'
  BY StepInv
<1> QED BY <1>1, <1>2, PTL DEF Spec

\* The registry, the counters and the reports of the download backend have their types: in
\* particular the number of batches of an id never falls below zero.
THEOREM TypeCorrectness == Spec => []TypeOK
BY Invariance, PTL DEF IInv

\* No entry of a batch is ever in the hands of two workers, or handed out again after it failed.
THEOREM EntriesClaimedOnce == Spec => []ClaimedOnce
BY Invariance, PTL DEF IInv

\* The registry is exactly the running batches, and a cancellation reaches all of an id's.
THEOREM RegistryExact == Spec => []RegistryTracksBatches
BY Invariance, PTL DEF IInv

\* Cancelling under one id never sets the flag of another's batch.
THEOREM IdsIndependent == Spec => []FlagsAreSeparate
BY Invariance, PTL DEF IInv

\* A batch that starts when no batch of its id runs starts uncancelled, whatever was cancelled before.
THEOREM NewBatchUncancelled == Spec => FreshBatchUncancelled
<1> DEFINE Fresh ==
      \A b \in Batches :
        /\ phase[b] = "idle" /\ phase'[b] = "running"
        /\ \A c \in Batches : Registered(c) => idOf[c] # idOf'[b]
        => flagOf'[b] \notin raised'
<1>1. IInv /\ [Next]_vars => Fresh
  <2> SUFFICES ASSUME IInv, [Next]_vars, NEW b \in Batches,
                      phase[b] = "idle", phase'[b] = "running",
                      \A c \in Batches : Registered(c) => idOf[c] # idOf'[b]
               PROVE  flagOf'[b] \notin raised'
    OBVIOUS
  <2>1. PICK i \in Ids, n \in 0..MaxEntries : Start(b, i, n)
    <3>1. ASSUME NEW c \in Batches, NEW i \in Ids, NEW n \in 0..MaxEntries, Start(c, i, n)
          PROVE  c = b
      BY <3>1 DEF Start, IInv, TypeOK
    <3>2. ASSUME NEW c \in Batches, Reject(c) PROVE FALSE
      BY <3>2 DEF Reject, IInv, TypeOK
    <3>3. ASSUME NEW i \in Ids, Cancel(i) PROVE FALSE
      BY <3>3 DEF Cancel
    <3>4. ASSUME NEW c \in Batches, BatchStep(c) PROVE FALSE
      BY <3>4 DEF BatchStep, Join, Deregister, Report, IInv, TypeOK
    <3>5. ASSUME NEW c \in Batches, NEW w \in Workers, WorkerStep(c, w) PROVE FALSE
      BY <3>5, WorkerFrame
    <3>6. CASE UNCHANGED vars
      BY <3>6 DEF vars
    <3> QED BY <3>1, <3>2, <3>3, <3>4, <3>5, <3>6 DEF Next
  <2>2. idOf'[b] = i /\ flagOf'[b] = RegisteredFlag(b, i) /\ raised' = raised
    BY <2>1 DEF Start, IInv, TypeOK
  <2>3. registry[i].flag = None
    BY <2>2, RegistryOf DEF IInv, RunningOf
  <2>4. flagOf'[b] = b
    BY <2>2, <2>3 DEF RegisteredFlag
  <2>5. b \notin raised
    BY DEF IInv, FlagsAreBorn
  <2> QED BY <2>2, <2>4, <2>5
<1>2. Spec => [][Fresh]_vars
  BY <1>1, Invariance, PTL DEF Spec
<1> QED BY <1>2 DEF FreshBatchUncancelled

-----------------------------------------------------------------------------
(* Downloads accounts for every entry of a batch, and implements           *)
(* BatchPromise.  A report adds up because of a balance that every step of *)
(* every worker keeps: the entries handed out are the successes, the       *)
(* failures, and the entries that some worker holds or gave up.  A worker  *)
(* gives up only when the flag of its batch is set, and a worker that is   *)
(* done without it has seen the end of the list.                           *)

\* The workers with an entry that is neither a success nor a failure (yet).
Holders(b) == {w \in Workers : pc[b][w] \in Busy \cup {"gaveUp"}}

\* How many entries the index has handed out: it runs past the end of the list.
HandedOut(b) == IF nextIndex[b] < size[b] THEN nextIndex[b] ELSE size[b]

AllFailures(b) == UNION {failures[b][w] : w \in Workers}

\* Every entry handed out succeeded, failed, or is held by one worker.
Balanced(b) == success[b] + failed[b] + Cardinality(Holders(b)) = HandedOut(b)

\* The failures listed are those counted, and an entry in a worker's hands is not among them.
FailuresCounted(b) ==
  /\ IsFiniteSet(AllFailures(b))
  /\ Cardinality(AllFailures(b)) = failed[b]
  /\ \A w \in Workers : pc[b][w] \in Busy => claim[b][w] \notin AllFailures(b)

\* A worker stops early only under a set flag, and otherwise at the end of the list.
StoppedForAReason(b) ==
  \A w \in Workers :
    /\ pc[b][w] \in {"stopped", "cancelled", "gaveUp"} => FlagSet(b)
    /\ pc[b][w] = "exhausted" => nextIndex[b] >= size[b]

\* A batch that has not started has nothing; one whose command went on has no worker left.
PhaseOfWorkers(b) ==
  /\ phase[b] \in {"idle", "rejected"} =>
       /\ flagOf[b] = None /\ size[b] = 0 /\ nextIndex[b] = 0
       /\ \A w \in Workers : pc[b][w] = "unborn"
  /\ phase[b] = "running" => \A w \in Workers : pc[b][w] # "unborn"
  /\ phase[b] \in {"joined", "deregistered", "reported"} => \A w \in Workers : pc[b][w] \in Exited

\* A report is what its batch counted, whatever happens afterwards.
ReportIsTrue(b) ==
  /\ report[b] # None <=> phase[b] = "reported"
  /\ report[b] # None =>
       /\ report[b].success = success[b] /\ report[b].failed = failed[b]
       /\ report[b].failures = AllFailures(b)
       /\ ~report[b].cancelled => success[b] + failed[b] = size[b]

\* What a snapshot shows is in the hands of a worker whose response has arrived.
Shown == {"streaming", "ok", "failed", "cancelled"}
ShownIsHeld(b) ==
  /\ size[b] <= MaxEntries
  /\ \A e \in progress[b] : \E w \in Workers : pc[b][w] \in Shown /\ claim[b][w] = e

Accounting(b) ==
  /\ Balanced(b) /\ FailuresCounted(b) /\ StoppedForAReason(b)
  /\ PhaseOfWorkers(b) /\ ReportIsTrue(b) /\ ShownIsHeld(b)

AInv == IInv /\ \A b \in Batches : Accounting(b)

-----------------------------------------------------------------------------
\* The holders of a batch are finitely many, before and after a step.
LEMMA HoldersFinite ==
  \A b \in Batches : /\ IsFiniteSet(Holders(b)) /\ IsFiniteSet(Holders(b))'
                     /\ Cardinality(Holders(b)) \in Nat
<1>1. \A S \in SUBSET Workers : IsFiniteSet(S)
  BY DownloadsAssumption, FS_Subset
<1> QED BY <1>1, FS_CardinalityType DEF Holders

\* A batch no variable of which changes keeps its accounts, also when its flag is set meanwhile.
LEMMA SameBatch ==
  ASSUME NEW b \in Batches, Accounting(b), FlagSet(b) => FlagSet(b)',
         phase'[b] = phase[b], flagOf'[b] = flagOf[b], size'[b] = size[b],
         nextIndex'[b] = nextIndex[b], success'[b] = success[b], failed'[b] = failed[b],
         progress'[b] = progress[b], pc'[b] = pc[b], claim'[b] = claim[b],
         failures'[b] = failures[b], report'[b] = report[b]
  PROVE  Accounting(b)'
<1>1. Holders(b)' = Holders(b) /\ AllFailures(b)' = AllFailures(b) /\ HandedOut(b)' = HandedOut(b)
  BY DEF Holders, AllFailures, HandedOut
<1> QED BY <1>1 DEF Accounting, Balanced, FailuresCounted, StoppedForAReason, PhaseOfWorkers,
                    ReportIsTrue, ShownIsHeld

\* A worker moves itself only.
LEMMA WorkerMoves ==
  ASSUME TypeOK, NEW b \in Batches, NEW w \in Workers, NEW from, NEW to, GoTo(b, w, from, to)
  PROVE  /\ pc[b][w] = from /\ pc'[b][w] = to
         /\ \A v \in Workers : v # w => pc'[b][v] = pc[b][v]
         /\ \A c \in Batches : c # b => pc'[c] = pc[c]
BY DEF GoTo, TypeOK

\* A worker's step leaves the other batches as they are.
LEMMA WorkerOthers ==
  ASSUME TypeOK, NEW b \in Batches, NEW w \in Workers, WorkerStep(b, w), NEW c \in Batches \ {b}
  PROVE  /\ nextIndex'[c] = nextIndex[c] /\ success'[c] = success[c] /\ failed'[c] = failed[c]
         /\ progress'[c] = progress[c] /\ pc'[c] = pc[c] /\ claim'[c] = claim[c]
         /\ failures'[c] = failures[c]
<1>1. pc'[c] = pc[c]
  BY WorkerMoves DEF WorkerStep, CheckFlag, ClaimEntry, FindNothing, Respond, Fail, Finish,
     Interrupt, RemoveProgress, CountSuccess, CountFailure
<1>2. /\ nextIndex'[c] = nextIndex[c] /\ success'[c] = success[c] /\ failed'[c] = failed[c]
      /\ progress'[c] = progress[c]
  BY DEF WorkerStep, CheckFlag, ClaimEntry, FindNothing, Respond, Fail, Finish,
     Interrupt, RemoveProgress, CountSuccess, CountFailure, counterVars, TypeOK
<1>3. claim'[c] = claim[c] /\ failures'[c] = failures[c]
  BY DEF WorkerStep, CheckFlag, ClaimEntry, FindNothing, Respond, Fail, Finish,
     Interrupt, RemoveProgress, CountSuccess, CountFailure, TypeOK
<1> QED BY <1>1, <1>2, <1>3

-----------------------------------------------------------------------------
\* Initially nothing is handed out, counted or shown.
LEMMA InitAccounting == ASSUME Init, NEW b \in Batches PROVE Accounting(b)
<1>1. Holders(b) = {} /\ AllFailures(b) = {} /\ HandedOut(b) = 0
  BY DEF Init, Holders, AllFailures, HandedOut, Busy
<1>2. Balanced(b) /\ FailuresCounted(b)
  BY <1>1, FS_EmptySet DEF Init, Balanced, FailuresCounted, Busy
<1>3. StoppedForAReason(b) /\ PhaseOfWorkers(b) /\ ReportIsTrue(b) /\ ShownIsHeld(b)
  BY DownloadsAssumption DEF Init, StoppedForAReason, PhaseOfWorkers, ReportIsTrue, ShownIsHeld
<1> QED BY <1>2, <1>3 DEF Accounting

-----------------------------------------------------------------------------
\* A worker that changes neither who holds what nor what is counted keeps the balance.
LEMMA SameHolders ==
  ASSUME NEW b \in Batches, Balanced(b), FailuresCounted(b), Holders(b)' = Holders(b),
         HandedOut(b)' = HandedOut(b),
         \A w \in Workers : pc'[b][w] \in Busy => pc[b][w] \in Busy /\ claim'[b][w] = claim[b][w],
         success'[b] = success[b], failed'[b] = failed[b], failures'[b] = failures[b]
  PROVE  Balanced(b)' /\ FailuresCounted(b)'
<1>1. AllFailures(b)' = AllFailures(b)
  BY DEF AllFailures
<1> QED BY <1>1 DEF Balanced, FailuresCounted

\* An index that hands out one more entry has one more holder.
LEMMA ClaimBalance ==
  ASSUME AInv, NEW b \in Batches, NEW w \in Workers, ClaimEntry(b, w)
  PROVE  Balanced(b)' /\ FailuresCounted(b)'
<1> USE DEF AInv, IInv
<1>1. /\ pc[b][w] = "claim" /\ pc'[b][w] = "requesting"
      /\ \A v \in Workers : v # w => pc'[b][v] = pc[b][v]
  BY WorkerMoves DEF ClaimEntry
<1>2. /\ nextIndex[b] < size[b] /\ nextIndex'[b] = nextIndex[b] + 1 /\ size'[b] = size[b]
      /\ success'[b] = success[b] /\ failed'[b] = failed[b] /\ failures' = failures
      /\ claim'[b][w] = nextIndex[b] /\ \A v \in Workers : v # w => claim'[b][v] = claim[b][v]
  BY DEF ClaimEntry, TypeOK
<1>3. Holders(b)' = Holders(b) \cup {w} /\ w \notin Holders(b)
  BY <1>1 DEF Holders, Busy
<1>4. Cardinality(Holders(b)') = Cardinality(Holders(b)) + 1
  BY <1>3, HoldersFinite, FS_AddElement
<1>5. /\ nextIndex[b] \in Nat /\ size[b] \in Nat /\ success[b] \in Nat /\ failed[b] \in Nat
      /\ Cardinality(Holders(b)) \in Nat
  BY HoldersFinite DEF TypeOK
<1>6. HandedOut(b)' = HandedOut(b) + 1
  BY <1>2, <1>5 DEF HandedOut
<1>7. Balanced(b)'
  BY <1>2, <1>4, <1>5, <1>6 DEF Accounting, Balanced
<1>8. AllFailures(b)' = AllFailures(b)
  BY <1>2 DEF AllFailures
<1>9. nextIndex[b] \notin AllFailures(b)
  BY <1>5 DEF FailuresHandedOut, AllFailures
<1>10. ASSUME NEW v \in Workers, pc'[b][v] \in Busy PROVE claim'[b][v] \notin AllFailures(b)
  <2>1. CASE v = w
    BY <1>2, <1>9, <2>1
  <2>2. CASE v # w
    BY <1>1, <1>2, <1>10, <2>2 DEF Accounting, FailuresCounted
  <2> QED BY <2>1, <2>2
<1> QED BY <1>2, <1>7, <1>8, <1>10 DEF Accounting, FailuresCounted

\* Counting an outcome takes the entry from its holder.
LEMMA CountBalance ==
  ASSUME AInv, NEW b \in Batches, NEW w \in Workers, CountSuccess(b, w) \/ CountFailure(b, w)
  PROVE  Balanced(b)' /\ FailuresCounted(b)'
<1> USE DEF AInv, IInv
<1>1. /\ pc[b][w] \in {"countOk", "countFailed"} /\ pc'[b][w] = "check"
      /\ \A v \in Workers : v # w => pc'[b][v] = pc[b][v]
  BY WorkerMoves DEF CountSuccess, CountFailure
<1>2. Holders(b)' = Holders(b) \ {w} /\ w \in Holders(b)
  BY <1>1 DEF Holders, Busy
<1>3. Cardinality(Holders(b)') = Cardinality(Holders(b)) - 1
  BY <1>2, HoldersFinite, FS_RemoveElement
<1>4. nextIndex' = nextIndex /\ size' = size /\ HandedOut(b)' = HandedOut(b)
  BY DEF CountSuccess, CountFailure, HandedOut
<1>5. /\ nextIndex[b] \in Nat /\ size[b] \in Nat /\ success[b] \in Nat /\ failed[b] \in Nat
      /\ Cardinality(Holders(b)) \in Nat
  BY HoldersFinite DEF TypeOK
<1>6. success'[b] + failed'[b] = success[b] + failed[b] + 1
  BY <1>5 DEF CountSuccess, CountFailure, TypeOK
<1>7. success'[b] \in Nat /\ failed'[b] \in Nat
  BY <1>5 DEF CountSuccess, CountFailure, TypeOK
<1>8. Balanced(b)'
  BY <1>3, <1>4, <1>5, <1>6, <1>7 DEF Accounting, Balanced
<1>9. \A v \in Workers : pc'[b][v] \in Busy => v # w /\ pc[b][v] \in Busy /\ claim'[b][v] = claim[b][v]
  <2>1. \A v \in Workers : v # w => claim'[b][v] = claim[b][v]
    BY DEF CountSuccess, CountFailure, TypeOK
  <2> QED BY <1>1, <2>1 DEF Busy
<1>10. CASE CountSuccess(b, w)
  <2>1. failures' = failures /\ failed' = failed /\ AllFailures(b)' = AllFailures(b)
    BY <1>10 DEF CountSuccess, AllFailures
  <2> QED BY <1>8, <1>9, <2>1 DEF Accounting, FailuresCounted
<1>11. CASE CountFailure(b, w)
  <2>1. \A v \in Workers : failures'[b][v] = IF v = w THEN failures[b][w] \cup {claim[b][w]}
                                                    ELSE failures[b][v]
    BY <1>11 DEF CountFailure, TypeOK
  <2>2. AllFailures(b)' = AllFailures(b) \cup {claim[b][w]}
    BY <2>1 DEF AllFailures
  <2>3. claim[b][w] \notin AllFailures(b)
    BY <1>1 DEF Accounting, FailuresCounted, Busy
  <2>4. /\ IsFiniteSet(AllFailures(b)')
        /\ Cardinality(AllFailures(b)') = Cardinality(AllFailures(b)) + 1
    <3>1. IsFiniteSet(AllFailures(b))
      BY DEF Accounting, FailuresCounted
    <3> QED BY <2>2, <2>3, <3>1, FS_AddElement
  <2>5. failed'[b] = failed[b] + 1
    BY <1>11 DEF CountFailure, TypeOK
  <2>6. ASSUME NEW v \in Workers, pc'[b][v] \in Busy PROVE claim'[b][v] \notin AllFailures(b)'
    <3>1. v # w /\ pc[b][v] \in Busy /\ claim'[b][v] = claim[b][v]
      BY <1>9, <2>6
    <3>2. claim[b][v] \notin AllFailures(b)
      BY <3>1 DEF Accounting, FailuresCounted
    <3>3. claim[b][v] # claim[b][w]
      BY <1>1, <3>1 DEF ClaimedOnce, Busy
    <3> QED BY <2>2, <3>1, <3>2, <3>3
  <2> QED BY <1>8, <2>4, <2>5, <2>6 DEF Accounting, FailuresCounted
<1> QED BY <1>10, <1>11

\* Every step of a worker keeps the balance of its batch.
LEMMA WorkerBalance ==
  ASSUME AInv, NEW b \in Batches, NEW w \in Workers, WorkerStep(b, w)
  PROVE  Balanced(b)' /\ FailuresCounted(b)'
<1> USE DEF AInv, IInv
<1>1. CASE ClaimEntry(b, w)
  BY <1>1, ClaimBalance
<1>2. CASE CountSuccess(b, w) \/ CountFailure(b, w)
  BY <1>2, CountBalance
<1>3. CASE FindNothing(b, w)
  <2>1. /\ pc[b][w] = "claim" /\ pc'[b][w] = "exhausted"
        /\ \A v \in Workers : v # w => pc'[b][v] = pc[b][v]
    BY <1>3, WorkerMoves DEF FindNothing
  <2>2. HandedOut(b)' = HandedOut(b)
    BY <1>3 DEF FindNothing, HandedOut, TypeOK
  <2>3. Holders(b)' = Holders(b)
    BY <2>1 DEF Holders, Busy
  <2>4. UNCHANGED <<success, failed, failures, claim>>
    BY <1>3 DEF FindNothing
  <2> QED BY <2>1, <2>2, <2>3, <2>4, SameHolders DEF Accounting, Busy
<1>4. CASE \/ CheckFlag(b, w) \/ Respond(b, w) \/ Fail(b, w) \/ Finish(b, w) \/ Interrupt(b, w)
           \/ RemoveProgress(b, w)
  <2>1. UNCHANGED <<nextIndex, size, success, failed, failures, claim>>
    BY <1>4 DEF CheckFlag, Respond, Fail, Finish, Interrupt, RemoveProgress, counterVars
  <2>2. /\ pc'[b][w] \in Busy \cup {"gaveUp"} <=> pc[b][w] \in Busy \cup {"gaveUp"}
        /\ pc'[b][w] \in Busy => pc[b][w] \in Busy
        /\ \A v \in Workers : v # w => pc'[b][v] = pc[b][v]
    BY <1>4, WorkerMoves DEF CheckFlag, Respond, Fail, Finish, Interrupt, RemoveProgress, Busy,
                             Outcomes, AfterRemoval
  <2>3. Holders(b)' = Holders(b)
    BY <2>2 DEF Holders
  <2> QED BY <2>1, <2>2, <2>3, SameHolders DEF Accounting, HandedOut
<1> QED BY <1>1, <1>2, <1>3, <1>4 DEF WorkerStep

-----------------------------------------------------------------------------
\* A worker that takes a step is one of a running batch, and is not done after a step that counts.
LEMMA WorkerRuns ==
  ASSUME AInv, NEW b \in Batches, NEW w \in Workers, WorkerStep(b, w)
  PROVE  /\ phase[b] = "running" /\ report[b] = None /\ pc'[b][w] # "unborn"
         /\ \A v \in Workers : v # w => pc'[b][v] = pc[b][v]
<1>1. /\ pc[b][w] \notin Exited \cup {"unborn"} /\ pc'[b][w] # "unborn"
      /\ \A v \in Workers : v # w => pc'[b][v] = pc[b][v]
  BY WorkerMoves DEF AInv, IInv, WorkerStep, CheckFlag, ClaimEntry, FindNothing, Respond, Fail,
     Finish, Interrupt, RemoveProgress, CountSuccess, CountFailure, Exited, Outcomes, AfterRemoval
<1>2. phase[b] \in Phases
  BY DEF AInv, IInv, TypeOK
<1>3. phase[b] = "running"
  BY <1>1, <1>2 DEF AInv, Accounting, PhaseOfWorkers, Phases
<1> QED BY <1>1, <1>3 DEF AInv, Accounting, ReportIsTrue

\* A worker stops under the flag or at the end, and the index never goes back.
LEMMA WorkerReasons ==
  ASSUME AInv, NEW b \in Batches, NEW w \in Workers, WorkerStep(b, w)
  PROVE  StoppedForAReason(b)'
<1> USE DEF AInv, IInv
<1>1. /\ FlagSet(b)' <=> FlagSet(b)
      /\ size'[b] = size[b] /\ \A v \in Workers : v # w => pc'[b][v] = pc[b][v]
  BY WorkerFrame, WorkerRuns DEF FlagSet
<1>2. size[b] \in Nat /\ nextIndex[b] \in Nat /\ nextIndex'[b] \in {nextIndex[b], nextIndex[b] + 1}
  BY DEF TypeOK, WorkerStep, CheckFlag, ClaimEntry, FindNothing, Respond, Fail, Finish, Interrupt,
         RemoveProgress, CountSuccess, CountFailure, counterVars
<1>3. /\ pc'[b][w] \in {"stopped", "cancelled", "gaveUp"} => FlagSet(b)
      /\ pc'[b][w] = "exhausted" => nextIndex[b] >= size[b]
  <2>1. \A v \in Workers : pc[b][v] = "cancelled" => FlagSet(b)
    BY DEF Accounting, StoppedForAReason
  <2> QED BY <2>1, WorkerMoves DEF WorkerStep, CheckFlag, ClaimEntry, FindNothing, Respond, Fail,
          Finish, Interrupt, RemoveProgress, CountSuccess, CountFailure, Outcomes, AfterRemoval
<1> QED BY <1>1, <1>2, <1>3 DEF Accounting, StoppedForAReason

\* What is shown is held: a worker shows its entry and hides it before it lets go of it.
LEMMA WorkerShows ==
  ASSUME AInv, NEW b \in Batches, NEW w \in Workers, WorkerStep(b, w)
  PROVE  ShownIsHeld(b)'
<1> USE DEF AInv, IInv
<1>1. size'[b] = size[b] /\ \A v \in Workers : v # w => pc'[b][v] = pc[b][v]
  BY WorkerFrame, WorkerRuns
<1>2. \A v \in Workers : v # w => claim'[b][v] = claim[b][v]
  BY DEF TypeOK, WorkerStep, CheckFlag, ClaimEntry, FindNothing, Respond, Fail, Finish, Interrupt,
         RemoveProgress, CountSuccess, CountFailure
<1>3. ASSUME NEW e \in progress'[b]
      PROVE  \E v \in Workers : pc'[b][v] \in Shown /\ claim'[b][v] = e
  <2>1. CASE Respond(b, w)
    <3>1. /\ progress'[b] = progress[b] \cup {claim[b][w]} /\ claim' = claim
          /\ pc[b][w] = "requesting" /\ pc'[b][w] = "streaming"
      BY <2>1, WorkerMoves DEF Respond, TypeOK
    <3>2. CASE e = claim[b][w]
      BY <3>1, <3>2 DEF Shown
    <3>3. CASE e \in progress[b]
      BY <1>1, <3>1, <3>3 DEF Accounting, ShownIsHeld, Shown
    <3> QED BY <3>1, <3>2, <3>3
  <2>2. CASE RemoveProgress(b, w)
    <3>1. progress'[b] = progress[b] \ {claim[b][w]} /\ claim' = claim
      BY <2>2 DEF RemoveProgress, TypeOK
    <3>2. PICK v \in Workers : pc[b][v] \in Shown /\ claim[b][v] = e
      BY <3>1 DEF Accounting, ShownIsHeld
    <3> QED BY <1>1, <3>1, <3>2
  <2>3. CASE ~Respond(b, w) /\ ~RemoveProgress(b, w)
    <3>1. progress' = progress
      BY <2>3 DEF WorkerStep, CheckFlag, ClaimEntry, FindNothing, Fail, Finish, Interrupt,
                  CountSuccess, CountFailure
    <3>2. PICK v \in Workers : pc[b][v] \in Shown /\ claim[b][v] = e
      BY <3>1 DEF Accounting, ShownIsHeld
    <3>3. pc[b][w] \in Shown => pc'[b][w] \in Shown /\ claim'[b][w] = claim[b][w]
      BY <2>3, WorkerMoves DEF WorkerStep, CheckFlag, ClaimEntry, FindNothing, Fail, Finish,
         Interrupt, CountSuccess, CountFailure, Shown
    <3> QED BY <1>1, <1>2, <3>2, <3>3
  <2> QED BY <2>1, <2>2, <2>3
<1> QED BY <1>1, <1>3 DEF Accounting, ShownIsHeld

-----------------------------------------------------------------------------
\* The command starts with an empty account.
LEMMA StartAccounting ==
  ASSUME AInv, NEW b \in Batches, NEW i \in Ids, NEW n \in 0..MaxEntries, Start(b, i, n)
  PROVE  Accounting(b)'
<1> USE DEF AInv, IInv
<1>1. /\ phase[b] = "idle" /\ phase'[b] = "running" /\ size'[b] = n
      /\ \A w \in Workers : pc'[b][w] = "check"
      /\ UNCHANGED <<nextIndex, success, failed, progress, claim, failures, report>>
  BY DEF Start, TypeOK, counterVars
<1>2. /\ report[b] = None /\ size[b] = 0 /\ nextIndex[b] = 0
      /\ \A w \in Workers : pc[b][w] = "unborn"
  BY <1>1 DEF Accounting, PhaseOfWorkers, ReportIsTrue
<1>3. n \in Nat /\ n <= MaxEntries
  BY DownloadsAssumption
<1>4. Holders(b) = {} /\ Holders(b)' = {} /\ HandedOut(b) = 0 /\ HandedOut(b)' = 0
  BY <1>1, <1>2, <1>3 DEF Holders, HandedOut, Busy
<1>5. Balanced(b)' /\ FailuresCounted(b)'
  BY <1>1, <1>2, <1>4, SameHolders DEF Accounting, Busy
<1>6. ShownIsHeld(b)'
  BY <1>1, <1>2, <1>3 DEF Accounting, ShownIsHeld, Shown
<1>7. StoppedForAReason(b)' /\ PhaseOfWorkers(b)' /\ ReportIsTrue(b)'
  BY <1>1, <1>2 DEF StoppedForAReason, PhaseOfWorkers, ReportIsTrue
<1> QED BY <1>5, <1>6, <1>7 DEF Accounting

\* A batch whose workers have all returned uncancelled has settled all its entries.
LEMMA DoneIsSettled ==
  ASSUME AInv, NEW b \in Batches, \A w \in Workers : pc[b][w] \in Exited, ~FlagSet(b)
  PROVE  success[b] + failed[b] = size[b]
<1> USE DEF AInv, IInv
<1>1. \A w \in Workers : pc[b][w] = "exhausted"
  BY DEF Accounting, StoppedForAReason, Exited
<1>2. nextIndex[b] >= size[b]
  BY <1>1, DownloadsAssumption DEF Accounting, StoppedForAReason
<1>3. Holders(b) = {}
  BY <1>1 DEF Holders, Busy
<1>4. Cardinality(Holders(b)) = 0 /\ success[b] \in Nat /\ failed[b] \in Nat
  BY <1>3, FS_EmptySet DEF TypeOK
<1>5. HandedOut(b) = size[b]
  BY <1>2 DEF HandedOut, TypeOK
<1> QED BY <1>4, <1>5 DEF Accounting, Balanced

\* Waiting, deregistering and reporting change no count.
LEMMA BatchAccounting ==
  ASSUME AInv, NEW b \in Batches, BatchStep(b)
  PROVE  Accounting(b)'
<1> USE DEF AInv, IInv
<1>1. UNCHANGED <<raised, idOf, flagOf, size, nextIndex, success, failed, progress, pc, claim, failures>>
  BY BatchFrame
<1>2. /\ Holders(b)' = Holders(b) /\ AllFailures(b)' = AllFailures(b)
      /\ HandedOut(b)' = HandedOut(b) /\ (FlagSet(b)' <=> FlagSet(b))
  BY <1>1 DEF Holders, AllFailures, HandedOut, FlagSet
<1>3. Balanced(b)' /\ FailuresCounted(b)' /\ StoppedForAReason(b)' /\ ShownIsHeld(b)'
  BY <1>1, <1>2 DEF Accounting, Balanced, FailuresCounted, StoppedForAReason, ShownIsHeld
<1>4. \A w \in Workers : pc[b][w] \in Exited
  BY DEF BatchStep, Join, Deregister, Report, Accounting, PhaseOfWorkers
<1>5. PhaseOfWorkers(b)'
  BY <1>1, <1>4 DEF BatchStep, Join, Deregister, Report, PhaseOfWorkers, TypeOK
<1>6. ReportIsTrue(b)'
  <2>1. CASE Join(b) \/ Deregister(b)
    <3>1. report' = report /\ phase[b] # "reported" /\ phase'[b] # "reported"
      BY <2>1 DEF Join, Deregister, TypeOK
    <3> QED BY <1>1, <1>2, <3>1 DEF Accounting, ReportIsTrue
  <2>2. CASE Report(b)
    <3>1. phase'[b] = "reported" /\ report'[b] = ReportOf(b)
      BY <2>2 DEF Report, TypeOK
    <3>2. ReportOf(b) \in Reports
      BY DEF TypeOK, ReportOf, Reports, FlagSet
    <3>3. ReportOf(b) # None
      BY <3>2, DownloadsAssumption
    <3>4. ~FlagSet(b) => success[b] + failed[b] = size[b]
      BY <1>4, DoneIsSettled
    <3>5. /\ report'[b].success = success[b] /\ report'[b].failed = failed[b]
          /\ report'[b].cancelled = FlagSet(b) /\ report'[b].failures = AllFailures(b)
      BY <3>1 DEF ReportOf, AllFailures
    <3> QED BY <1>1, <1>2, <3>1, <3>3, <3>4, <3>5 DEF ReportIsTrue
  <2> QED BY <2>1, <2>2 DEF BatchStep
<1> QED BY <1>3, <1>5, <1>6 DEF Accounting

\* Every step keeps the accounts.
LEMMA StepAccounting == AInv /\ [Next]_vars => AInv'
<1> SUFFICES ASSUME AInv, [Next]_vars PROVE \A b \in Batches : Accounting(b)'
  BY StepInv DEF AInv
<1> USE DEF AInv, IInv
<1>1. ASSUME NEW b \in Batches, NEW i \in Ids, NEW n \in 0..MaxEntries, Start(b, i, n),
             NEW c \in Batches
      PROVE  Accounting(c)'
  <2>1. CASE c = b
    BY <1>1, <2>1, StartAccounting
  <2>2. CASE c # b
    <3>1. /\ phase'[c] = phase[c] /\ flagOf'[c] = flagOf[c] /\ size'[c] = size[c] /\ pc'[c] = pc[c]
          /\ UNCHANGED <<raised, nextIndex, success, failed, progress, claim, failures, report>>
      BY <1>1, <2>2 DEF Start, counterVars, TypeOK
    <3> QED BY <3>1, SameBatch DEF FlagSet
  <2> QED BY <2>1, <2>2
<1>2. ASSUME NEW b \in Batches, Reject(b), NEW c \in Batches PROVE Accounting(c)'
  <2>1. /\ UNCHANGED <<raised, flagOf, size, nextIndex, success, failed, progress, pc, claim,
                       failures, report>>
        /\ c # b => phase'[c] = phase[c]
        /\ phase[b] = "idle" /\ phase'[b] = "rejected"
    BY <1>2 DEF Reject, registryVars, counterVars, workerVars, TypeOK
  <2>2. CASE c = b
    <3>1. Holders(b)' = Holders(b) /\ AllFailures(b)' = AllFailures(b) /\ HandedOut(b)' = HandedOut(b)
      BY <2>1 DEF Holders, AllFailures, HandedOut
    <3> QED BY <2>1, <2>2, <3>1 DEF Accounting, Balanced, FailuresCounted, StoppedForAReason,
            PhaseOfWorkers, ReportIsTrue, ShownIsHeld, FlagSet
  <2>3. CASE c # b
    BY <2>1, <2>3, SameBatch DEF FlagSet
  <2> QED BY <2>2, <2>3
<1>3. ASSUME NEW i \in Ids, Cancel(i), NEW c \in Batches PROVE Accounting(c)'
  <2>1. /\ UNCHANGED <<phase, flagOf, size, nextIndex, success, failed, progress, pc, claim,
                       failures, report>>
        /\ raised \subseteq raised'
    BY <1>3 DEF Cancel, counterVars, workerVars
  <2> QED BY <2>1, SameBatch DEF FlagSet
<1>4. ASSUME NEW b \in Batches, BatchStep(b), NEW c \in Batches PROVE Accounting(c)'
  <2>1. CASE c = b
    BY <1>4, <2>1, BatchAccounting
  <2>2. CASE c # b
    <3>1. /\ UNCHANGED <<raised, flagOf, size, nextIndex, success, failed, progress, pc, claim, failures>>
          /\ phase'[c] = phase[c] /\ report'[c] = report[c]
      BY <1>4, <2>2, BatchFrame DEF BatchStep, Join, Deregister, Report, TypeOK
    <3> QED BY <3>1, SameBatch DEF FlagSet
  <2> QED BY <2>1, <2>2
<1>5. ASSUME NEW b \in Batches, NEW w \in Workers, WorkerStep(b, w), NEW c \in Batches
      PROVE  Accounting(c)'
  <2>1. UNCHANGED <<raised, phase, flagOf, size, report>>
    BY <1>5, WorkerFrame
  <2>2. CASE c = b
    <3>1. Balanced(b)' /\ FailuresCounted(b)' /\ StoppedForAReason(b)' /\ ShownIsHeld(b)'
      BY <1>5, WorkerBalance, WorkerReasons, WorkerShows
    <3>2. phase[b] = "running" /\ report[b] = None /\ \A v \in Workers : pc'[b][v] # "unborn"
      BY <1>5, WorkerRuns DEF Accounting, PhaseOfWorkers
    <3> QED BY <2>1, <2>2, <3>1, <3>2 DEF Accounting, PhaseOfWorkers, ReportIsTrue
  <2>3. CASE c # b
    BY <1>5, <2>1, <2>3, WorkerOthers, SameBatch DEF FlagSet
  <2> QED BY <2>2, <2>3
<1>6. ASSUME UNCHANGED vars, NEW c \in Batches PROVE Accounting(c)'
  BY <1>6, SameBatch DEF vars, FlagSet
<1> QED BY <1>1, <1>2, <1>3, <1>4, <1>5, <1>6 DEF Next

\* The accounts of every batch balance in every state the backend reaches.
THEOREM AccountingInvariance == Spec => []AInv
<1>1. Init => AInv
  BY InitInv, InitAccounting DEF AInv
<1>2. AInv /\ [Next]_vars => AInv'
  BY StepAccounting
<1> QED BY <1>1, <1>2, PTL DEF Spec

\* What a report says adds up, and stays true: never more outcomes than entries, every failure
\* listed once, and every entry accounted for unless the batch was cancelled.
THEOREM ReportsAddUp == Spec => []ReportAccounts
<1>1. AInv => ReportAccounts
  <2> SUFFICES ASSUME AInv, NEW b \in Batches, report[b] # None
               PROVE  /\ report[b].success + report[b].failed <= size[b]
                      /\ Cardinality(report[b].failures) = report[b].failed
                      /\ ~report[b].cancelled => report[b].success + report[b].failed = size[b]
    BY DEF ReportAccounts
  <2>1. /\ Cardinality(Holders(b)) \in Nat /\ success[b] \in Nat /\ failed[b] \in Nat
        /\ size[b] \in Nat /\ nextIndex[b] \in Nat
    BY HoldersFinite DEF AInv, IInv, TypeOK
  <2>2. success[b] + failed[b] <= size[b]
    BY <2>1 DEF AInv, Accounting, Balanced, HandedOut
  <2> QED BY <2>2 DEF AInv, Accounting, FailuresCounted, ReportIsTrue
<1> QED BY <1>1, AccountingInvariance, PTL

-----------------------------------------------------------------------------
(* The refinement of BatchPromise.                                         *)
promised == <<StatusSeen, size, success, failed, progress, ReachedBatches, AnswersSeen>>

\* A worker that holds an entry leaves its batch open and unfinished.
LEMMA HolderUnfinished ==
  ASSUME AInv, NEW b \in Batches, NEW w \in Workers, pc[b][w] \in Busy, phase[b] = "running"
  PROVE  Promise!Unfinished(b)
<1>1. w \in Holders(b)
  BY DEF Holders
<1>2. Cardinality(Holders(b)) \in Nat \ {0}
  BY <1>1, HoldersFinite, FS_EmptySet
<1>3. /\ success[b] \in Nat /\ failed[b] \in Nat /\ size[b] \in Nat /\ nextIndex[b] \in Nat
      /\ success[b] + failed[b] + Cardinality(Holders(b)) = HandedOut(b)
  BY DEF AInv, IInv, TypeOK, Accounting, Balanced
<1>4. HandedOut(b) <= size[b]
  BY <1>3 DEF HandedOut
<1>5. success[b] + failed[b] < size[b]
  BY <1>2, <1>3, <1>4
<1>6. StatusSeen[b] = "open"
  BY DEF StatusSeen, StatusOf
<1> QED BY <1>5, <1>6 DEF Promise!Unfinished, Promise!Settled

\* An entry in a worker's hands is one the promise knows.
LEMMA HeldEntry ==
  ASSUME AInv, NEW b \in Batches, NEW w \in Workers, pc[b][w] \in Busy
  PROVE  claim[b][w] \in 0..(MaxEntries - 1) /\ claim[b][w] < size[b]
<1>1. claim[b][w] \in 0..(size[b] - 1) /\ size[b] \in Nat /\ size[b] <= MaxEntries
  BY DEF AInv, IInv, TypeOK, ClaimedOnce, Accounting, ShownIsHeld
<1> QED BY <1>1, DownloadsAssumption

\* While neither the phases nor the flags change, neither do the caller's view of them.
LEMMA SameView ==
  /\ phase' = phase => StatusSeen' = StatusSeen
  /\ UNCHANGED <<flagOf, raised>> => ReachedBatches' = ReachedBatches
  /\ report' = report => AnswersSeen' = AnswersSeen
BY DEF StatusSeen, StatusOf, ReachedBatches, FlagSet, AnswersSeen, AnswerOf

\* Starting sends the batch, which is born cancelled when it joins a flag that was set.
LEMMA StartSends ==
  ASSUME AInv, NEW b \in Batches, NEW i \in Ids, NEW n \in 0..MaxEntries, Start(b, i, n)
  PROVE  Promise!Send(b, n)
<1> USE DEF AInv, IInv
<1>1. /\ phase[b] = "idle" /\ phase' = [phase EXCEPT ![b] = "running"]
      /\ size' = [size EXCEPT ![b] = n] /\ phase \in [Batches -> Phases]
      /\ UNCHANGED <<success, failed, progress, report, raised>>
      /\ \A c \in Batches : c # b => flagOf'[c] = flagOf[c]
  BY DEF Start, counterVars, TypeOK
<1>2. StatusSeen[b] = "unsent" /\ StatusSeen' = [StatusSeen EXCEPT ![b] = "open"]
  BY <1>1 DEF StatusSeen, StatusOf
<1>3. flagOf[b] = None /\ raised \subseteq Batches
  BY <1>1 DEF Accounting, PhaseOfWorkers, TypeOK
<1>4. b \notin ReachedBatches
  BY <1>3, DownloadsAssumption DEF ReachedBatches, FlagSet
<1>5. ReachedBatches' \in {ReachedBatches, ReachedBatches \cup {b}}
  BY <1>1, <1>4 DEF ReachedBatches, FlagSet
<1> QED BY <1>1, <1>2, <1>5, SameView DEF Promise!Send

\* A command that rejects was refused.
LEMMA RejectRefuses ==
  ASSUME AInv, NEW b \in Batches, Reject(b)
  PROVE  Promise!Refuse(b)
<1>1. /\ phase[b] = "idle" /\ phase' = [phase EXCEPT ![b] = "rejected"]
      /\ phase \in [Batches -> Phases]
      /\ UNCHANGED <<size, success, failed, progress, report, raised, flagOf>>
  BY DEF Reject, registryVars, counterVars, AInv, IInv, TypeOK
<1>2. StatusSeen[b] = "unsent" /\ StatusSeen' = [StatusSeen EXCEPT ![b] = "refused"]
  BY <1>1 DEF StatusSeen, StatusOf
<1> QED BY <1>1, <1>2, SameView DEF Promise!Refuse

\* Setting a flag reaches the batches that hold it.
LEMMA CancelReaches ==
  ASSUME NEW i \in Ids, Cancel(i)
  PROVE  \E reached \in SUBSET Batches : Promise!CancelAll(reached)
<1> DEFINE reached == {b \in Batches : flagOf[b] = registry[i].flag}
<1>1. /\ UNCHANGED <<phase, size, success, failed, progress, report, flagOf>>
      /\ raised' = raised \cup {registry[i].flag}
  BY DEF Cancel, counterVars
<1>2. ReachedBatches' = ReachedBatches \cup reached
  BY <1>1 DEF ReachedBatches, FlagSet
<1>3. Promise!CancelAll(reached)
  BY <1>1, <1>2, SameView DEF Promise!CancelAll
<1> QED BY <1>3

\* Waiting and deregistering are out of the caller's sight.
LEMMA JoinStutters ==
  ASSUME AInv, NEW b \in Batches, Join(b) \/ Deregister(b)
  PROVE  UNCHANGED promised
<1>1. /\ UNCHANGED <<size, success, failed, progress, report, raised, flagOf>>
      /\ phase \in [Batches -> Phases]
      /\ \E p, q \in {"running", "joined", "deregistered"} :
            phase[b] = p /\ phase' = [phase EXCEPT ![b] = q]
  BY DEF Join, Deregister, registryVars, counterVars, AInv, IInv, TypeOK
<1>2. StatusSeen' = StatusSeen
  BY <1>1 DEF StatusSeen, StatusOf
<1> QED BY <1>1, <1>2, SameView DEF promised

\* A report answers: nothing is shown any more, and unless it was cancelled all is settled.
LEMMA ReportAnswers ==
  ASSUME AInv, NEW b \in Batches, Report(b)
  PROVE  Promise!Answer(b)
<1> USE DEF AInv, IInv
<1>1. /\ phase[b] = "deregistered" /\ phase' = [phase EXCEPT ![b] = "reported"]
      /\ report' = [report EXCEPT ![b] = ReportOf(b)]
      /\ phase \in [Batches -> Phases] /\ report \in [Batches -> Reports \cup {None}]
      /\ UNCHANGED <<size, success, failed, progress, raised, flagOf>>
  BY DEF Report, registryVars, counterVars, TypeOK
<1>2. StatusSeen[b] = "open" /\ StatusSeen' = [StatusSeen EXCEPT ![b] = "answered"]
  BY <1>1 DEF StatusSeen, StatusOf
<1>3. \A w \in Workers : pc[b][w] \in Exited
  BY <1>1 DEF Accounting, PhaseOfWorkers
<1>4. progress[b] = {}
  BY <1>3 DEF Accounting, ShownIsHeld, Shown, Exited
<1>5. b \in ReachedBatches <=> FlagSet(b)
  BY DEF ReachedBatches
<1>6. FlagSet(b) \/ success[b] + failed[b] = size[b]
  BY <1>3, DoneIsSettled
<1>7. Promise!MayAnswer(b)
  BY <1>2, <1>4, <1>5, <1>6 DEF Promise!MayAnswer, Promise!Settled
<1>8. ReportOf(b) # None
  <2>1. ReportOf(b) \in Reports
    BY DEF TypeOK, ReportOf, Reports, FlagSet
  <2> QED BY <2>1, DownloadsAssumption
<1>9. AnswersSeen' = [AnswersSeen EXCEPT ![b] =
        [success |-> success[b], failed |-> failed[b], cancelled |-> b \in ReachedBatches]]
  <2>1. AnswerOf(b)' = [success |-> success[b], failed |-> failed[b], cancelled |-> b \in ReachedBatches]
    <3>1. report'[b] = ReportOf(b)
      BY <1>1
    <3>2. /\ ReportOf(b).success = success[b] /\ ReportOf(b).failed = failed[b]
          /\ ReportOf(b).cancelled = FlagSet(b)
      BY DEF ReportOf
    <3>3. FlagSet(b) = (b \in ReachedBatches)
      BY DEF ReachedBatches, FlagSet
    <3> QED BY <1>8, <3>1, <3>2, <3>3 DEF AnswerOf
  <2>2. \A c \in Batches : c # b => AnswerOf(c)' = AnswerOf(c)
    BY <1>1 DEF AnswerOf
  <2> QED BY <2>1, <2>2 DEF AnswersSeen
<1> QED BY <1>1, <1>2, <1>7, <1>9, SameView DEF Promise!Answer

\* A worker shows, hides and settles entries of a batch that is open, one at a time.
LEMMA WorkerKeepsPromise ==
  ASSUME AInv, NEW b \in Batches, NEW w \in Workers, WorkerStep(b, w)
  PROVE  Promise!PromiseNext \/ UNCHANGED promised
<1> USE DEF AInv, IInv
<1>1. UNCHANGED <<StatusSeen, ReachedBatches, AnswersSeen, size>> /\ phase[b] = "running"
  BY WorkerFrame, SameView, WorkerRuns
<1>2. StatusSeen[b] = "open"
  BY <1>1 DEF StatusSeen, StatusOf
<1>3. CASE Respond(b, w)
  <2>1. /\ pc[b][w] \in Busy /\ UNCHANGED <<success, failed>>
        /\ progress' = [progress EXCEPT ![b] = @ \cup {claim[b][w]}]
    BY <1>3 DEF Respond, GoTo, counterVars, Busy
  <2>2. Promise!Unfinished(b) /\ claim[b][w] \in 0..(MaxEntries - 1) /\ claim[b][w] < size[b]
    BY <1>1, <2>1, HolderUnfinished, HeldEntry
  <2>3. Promise!Show(b, claim[b][w])
    BY <1>1, <2>1, <2>2 DEF Promise!Show
  <2> QED BY <2>2, <2>3 DEF Promise!PromiseNext
<1>4. CASE RemoveProgress(b, w)
  <2>1. /\ pc[b][w] \in Busy /\ UNCHANGED <<success, failed>>
        /\ progress' = [progress EXCEPT ![b] = @ \ {claim[b][w]}]
    BY <1>4 DEF RemoveProgress, GoTo, counterVars, Outcomes, Busy
  <2>2. claim[b][w] \in 0..(MaxEntries - 1)
    BY <2>1, HeldEntry
  <2>3. Promise!Hide(b, claim[b][w])
    BY <1>1, <1>2, <2>1 DEF Promise!Hide
  <2> QED BY <2>2, <2>3 DEF Promise!PromiseNext
<1>5. CASE CountSuccess(b, w)
  <2>1. pc[b][w] \in Busy /\ UNCHANGED <<progress, failed>> /\ success' = [success EXCEPT ![b] = @ + 1]
    BY <1>5 DEF CountSuccess, GoTo, Busy
  <2>2. Promise!SettleOk(b)
    BY <1>1, <2>1, HolderUnfinished DEF Promise!SettleOk
  <2> QED BY <2>2 DEF Promise!PromiseNext
<1>6. CASE CountFailure(b, w)
  <2>1. pc[b][w] \in Busy /\ UNCHANGED <<progress, success>> /\ failed' = [failed EXCEPT ![b] = @ + 1]
    BY <1>6 DEF CountFailure, GoTo, Busy
  <2>2. Promise!SettleBad(b)
    BY <1>1, <2>1, HolderUnfinished DEF Promise!SettleBad
  <2> QED BY <2>2 DEF Promise!PromiseNext
<1>7. CASE \/ CheckFlag(b, w) \/ ClaimEntry(b, w) \/ FindNothing(b, w)
           \/ Fail(b, w) \/ Finish(b, w) \/ Interrupt(b, w)
  <2>1. UNCHANGED <<success, failed, progress>>
    BY <1>7 DEF CheckFlag, ClaimEntry, FindNothing, Fail, Finish, Interrupt, counterVars
  <2> QED BY <1>1, <2>1 DEF promised
<1> QED BY <1>3, <1>4, <1>5, <1>6, <1>7 DEF WorkerStep

\* The backend is what its caller may rely on: seen from outside, with the workers, the shared
\* index and the registry hidden, every behaviour is one of BatchPromise.
THEOREM BackendKeepsPromise == Spec => KeepsPromise
<1>1. Init => Promise!PromiseInit
  BY DownloadsAssumption DEF Init, Promise!PromiseInit, StatusSeen, StatusOf, ReachedBatches, FlagSet,
     AnswersSeen, AnswerOf
<1>2. AInv /\ [Next]_vars => [Promise!PromiseNext]_(Promise!promiseVars)
  <2> SUFFICES ASSUME AInv, [Next]_vars PROVE Promise!PromiseNext \/ UNCHANGED promised
    BY DEF promised, Promise!promiseVars
  <2>1. ASSUME NEW b \in Batches, NEW i \in Ids, NEW n \in 0..MaxEntries, Start(b, i, n)
        PROVE  Promise!PromiseNext
    BY <2>1, StartSends DEF Promise!PromiseNext
  <2>2. ASSUME NEW b \in Batches, Reject(b) PROVE Promise!PromiseNext
    BY <2>2, RejectRefuses DEF Promise!PromiseNext
  <2>3. ASSUME NEW i \in Ids, Cancel(i) PROVE Promise!PromiseNext
    BY <2>3, CancelReaches DEF Promise!PromiseNext
  <2>4. ASSUME NEW b \in Batches, BatchStep(b) PROVE Promise!PromiseNext \/ UNCHANGED promised
    BY <2>4, JoinStutters, ReportAnswers DEF BatchStep, Promise!PromiseNext
  <2>5. ASSUME NEW b \in Batches, NEW w \in Workers, WorkerStep(b, w)
        PROVE  Promise!PromiseNext \/ UNCHANGED promised
    BY <2>5, WorkerKeepsPromise
  <2>6. CASE UNCHANGED vars
    BY <2>6, SameView DEF vars, promised
  <2> QED BY <2>1, <2>2, <2>3, <2>4, <2>5, <2>6 DEF Next
<1> QED BY <1>1, <1>2, AccountingInvariance, PTL DEF Spec, KeepsPromise, Promise!PromiseSpec
=============================================================================
