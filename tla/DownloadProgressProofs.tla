----------------------- MODULE DownloadProgressProofs -----------------------
(***************************************************************************)
(* Proofs about module DownloadProgress, for any number of concurrent      *)
(* calls, entries and ticks, and for both backends.                        *)
(*                                                                         *)
(* The totals on the screen are sums over the calls that nobody keeps: a   *)
(* step adds to them what it changes of one call.  Each is shown to be the *)
(* sum of a function of the calls (Shown, Expected), and what is said of   *)
(* the totals follows from what holds of each call: the counts of a        *)
(* snapshot, and those a call has seen, are never ahead of the batch, and  *)
(* a call that has returned has seen them all.  A sum over a finite set is *)
(* the number of its tokens, one for each unit of each call: the prover    *)
(* knows cardinalities, and no induction is needed.                        *)
(***************************************************************************)
EXTENDS DownloadProgress, FiniteSetTheorems, SequenceTheorems, TLAPS

Counts == 0..MaxEntries

\* One token for each unit f counts, and the sum of f.
Tokens(f) == {t \in Batches \X (1..MaxEntries) : t[2] <= f[t[1]]}
Sum(f)    == Cardinality(Tokens(f))

\* What a call shows as settled, and what it has added to the total.
Shown == [b \in Batches |-> seen[b].success + seen[b].failed + IF caller[b] = "counted" THEN 1 ELSE 0]
Expected ==
  [b \in Batches |-> IF caller[b] = "idle" THEN 0
                     ELSE IF caller[b] = "returned" THEN Settled(b)
                     ELSE request[b]]

\* A batch is the one the call asked for, and exists only when it was asked for.
BatchOfCall(b) ==
  /\ caller[b] = "idle" => request[b] = None /\ status[b] = "unsent"
  /\ caller[b] # "idle" => request[b] \in Counts
  /\ status[b] \in {"open", "answered"} => size[b] = request[b]
  /\ status[b] \in {"unsent", "refused"} => success[b] = 0 /\ failed[b] = 0 /\ channel[b] = <<>>
  /\ Settled(b) <= size[b]

\* The answer is the account of the batch, complete unless it says that it was cancelled.
AnswerIsAccount(b) ==
  /\ status[b] # "answered" => answer[b] = None
  /\ status[b] = "answered" =>
       /\ answer[b] \in [success : Counts, failed : Counts, cancelled : BOOLEAN]
       /\ answer[b].success = success[b] /\ answer[b].failed = failed[b]
       /\ ~answer[b].cancelled => Settled(b) = size[b]

\* Nothing on its way, and nothing the call has seen, is ahead of the batch.
NothingAhead(b) ==
  /\ \A k \in 1..Len(channel[b]) : channel[b][k].success <= success[b] /\ channel[b][k].failed <= failed[b]
  /\ seen[b].success <= success[b] /\ seen[b].failed <= failed[b]

\* A call that returned has seen all; one that failed has seen nothing.
CallIsOver(b) ==
  /\ caller[b] = "returned" =>
       status[b] = "answered" /\ seen[b].success = success[b] /\ seen[b].failed = failed[b]
  /\ caller[b] \in {"threw", "counted"} => status[b] = "refused"
  /\ caller[b] = "counted" => request[b] = 1

\* A tick that has begun is one of those allowed.
TickIsAllowed(b) == ticker[b] \in {"collected", "aborted"} => ticks[b] < MaxTicks

\* A batch that has not begun, and one whose ticker was awaited and that has answered, do not tick.
TickerIsOff(b) ==
  /\ status[b] \in {"unsent", "refused"} => ticker[b] = "off"
  /\ TickerAwaited => ticker[b] # "aborted" /\ (status[b] = "answered" => ticker[b] = "off")

\* The files of a call that are shown are those of the snapshot it has seen last.
ShownAreSeen(b) == {file \in current : file[1] = b} = Tagged(b, seen[b].paths)

\* With a ticker that is awaited the last snapshot is the final one, which shows no file; a call
\* across the bridge returns to a channel that stays empty.
LastIsFinal(b) ==
  TickerAwaited =>
    /\ status[b] = "answered" /\ channel[b] # <<>> => channel[b][Len(channel[b])].paths = {}
    /\ caller[b] = "returned" /\ channel[b] = <<>> => seen[b].paths = {}
    /\ caller[b] = "returned" /\ bridged => channel[b] = <<>>

CallInv(b) ==
  /\ BatchOfCall(b)
  /\ AnswerIsAccount(b)
  /\ NothingAhead(b)
  /\ CallIsOver(b)
  /\ TickIsAllowed(b)
  /\ TickerIsOff(b)
  /\ ShownAreSeen(b)
  /\ LastIsFinal(b)

CallsInv == \A b \in Batches : CallInv(b)

\* The totals are the sums of what the calls have shown and asked for.
TotalsAreSums == successShown + failedShown = Sum(Shown) /\ total = Sum(Expected)

\* The types of what DownloadProgress has, and of the batches it builds on.
Types ==
  /\ status \in [Batches -> {"unsent", "refused", "open", "answered"}]
  /\ size \in [Batches -> Counts]
  /\ success \in [Batches -> Nat] /\ failed \in [Batches -> Nat]
  /\ inFlight \in [Batches -> SUBSET (0..MaxEntries - 1)]
  /\ bridged \in BOOLEAN
  /\ caller \in [Batches -> {"idle", "awaiting", "returned", "threw", "counted"}]
  /\ request \in [Batches -> Counts \cup {None}]
  /\ ticker \in [Batches -> {"off", "waiting", "collected", "aborted"}]
  /\ collected \in [Batches -> SUBSET (0..MaxEntries - 1)]
  /\ ticks \in [Batches -> 0..MaxTicks]
  /\ channel \in [Batches -> Seq(Snapshots)]
  /\ seen \in [Batches -> Snapshots]
  /\ total \in Nat /\ successShown \in Nat /\ failedShown \in Nat
  /\ current \subseteq Batches \X (0..MaxEntries - 1)
  /\ answer \in [Batches -> [success : Counts, failed : Counts, cancelled : BOOLEAN] \cup {None}]

IInv ==
  /\ Types
  /\ CallsInv
  /\ TotalsAreSums

-----------------------------------------------------------------------------
(* Sums.                                                                   *)

\* The tokens of a function are finitely many.
LEMMA TokensFinite == ASSUME NEW f PROVE IsFiniteSet(Tokens(f)) /\ Sum(f) \in Nat
<1>1. IsFiniteSet(1..MaxEntries)
  BY FS_Interval, ProgressAssumption
<1>2. IsFiniteSet(Batches \X (1..MaxEntries))
  BY <1>1, FS_Product, ProgressAssumption
<1>3. IsFiniteSet(Tokens(f))
  BY <1>2, FS_Subset DEF Tokens
<1> QED BY <1>3, FS_CardinalityType DEF Sum

\* A sum changes by what changes in one place.
LEMMA SumOfUpdate ==
  ASSUME NEW f \in [Batches -> Counts], NEW g \in [Batches -> Counts], NEW b \in Batches,
         \A c \in Batches : c # b => g[c] = f[c]
  PROVE  Sum(g) = Sum(f) + g[b] - f[b]
<1> DEFINE Own(h) == {b} \X (1..h[b])
           Rest(h) == {t \in Tokens(h) : t[1] # b}
<1>1. ASSUME NEW h \in [Batches -> Counts]
      PROVE  Sum(h) = Cardinality(Rest(h)) + h[b] /\ Cardinality(Rest(h)) \in Nat
  <2>1. h[b] \in Nat /\ h[b] <= MaxEntries
    BY ProgressAssumption DEF Counts
  <2>2. Tokens(h) = Rest(h) \cup Own(h) /\ Rest(h) \cap Own(h) = {}
    BY <2>1, ProgressAssumption DEF Tokens
  <2>3. IsFiniteSet(1..h[b]) /\ Cardinality(1..h[b]) = h[b]
    BY <2>1, FS_Interval
  <2>4. IsFiniteSet({b}) /\ Cardinality({b}) = 1
    BY FS_Singleton
  <2>5. IsFiniteSet(Own(h)) /\ Cardinality(Own(h)) = h[b]
    BY <2>1, <2>3, <2>4, FS_Product
  <2>6. IsFiniteSet(Rest(h))
    BY TokensFinite, FS_Subset
  <2>7. Cardinality(Rest(h)) \in Nat
    BY <2>6, FS_CardinalityType
  <2>8. Cardinality(Rest(h) \cup Own(h)) = Cardinality(Rest(h)) + Cardinality(Own(h)) - Cardinality({})
    BY <2>2, <2>5, <2>6, FS_Union
  <2>9. Sum(h) = Cardinality(Rest(h) \cup Own(h)) /\ Cardinality({}) = 0
    BY <2>2, FS_EmptySet DEF Sum
  <2> HIDE DEF Own, Rest
  <2> QED BY <2>1, <2>5, <2>7, <2>8, <2>9
<1>2. Rest(f) = Rest(g)
  BY DEF Tokens
<1>3. f[b] \in Nat /\ g[b] \in Nat
  BY ProgressAssumption DEF Counts
<1>4. Sum(f) = Cardinality(Rest(f)) + f[b] /\ Sum(g) = Cardinality(Rest(g)) + g[b] /\ Cardinality(Rest(f)) \in Nat
  BY <1>1
<1> HIDE DEF Rest
<1> QED BY <1>2, <1>3, <1>4

\* No part is larger than the sum.
LEMMA PartOfSum ==
  ASSUME NEW f \in [Batches -> Counts], NEW b \in Batches
  PROVE  f[b] <= Sum(f)
<1> DEFINE g == [f EXCEPT ![b] = 0]
<1>1. g \in [Batches -> Counts] /\ g[b] = 0 /\ \A c \in Batches : c # b => g[c] = f[c]
  BY ProgressAssumption DEF Counts
<1>2. f[b] \in Nat /\ Sum(f) \in Nat /\ Sum(g) \in Nat
  BY TokensFinite DEF Counts
<1> HIDE DEF g
<1>3. Sum(g) = Sum(f) + g[b] - f[b]
  BY <1>1, SumOfUpdate
<1> QED BY <1>1, <1>2, <1>3

\* A function that is nowhere larger has no larger sum.
LEMMA SumIsMonotone ==
  ASSUME NEW f \in [Batches -> Counts], NEW g \in [Batches -> Counts],
         \A b \in Batches : f[b] <= g[b]
  PROVE  Sum(f) <= Sum(g)
<1>1. Tokens(f) \subseteq Tokens(g)
  <2> SUFFICES ASSUME NEW b \in Batches, NEW n \in 1..MaxEntries, n <= f[b] PROVE n <= g[b]
    BY DEF Tokens
  <2> QED BY ProgressAssumption DEF Counts
<1> QED BY <1>1, TokensFinite, FS_Subset DEF Sum

\* The sum of nothing is nothing.
LEMMA SumOfNothing ==
  ASSUME NEW f \in [Batches -> Counts], \A b \in Batches : f[b] = 0
  PROVE  Sum(f) = 0
<1>1. Tokens(f) = {}
  BY ProgressAssumption DEF Tokens
<1> QED BY <1>1, FS_EmptySet DEF Sum

-----------------------------------------------------------------------------
\* What a call shows is at most what it asked for, and no less when it is over.
PartsAgree ==
  /\ Shown \in [Batches -> Counts] /\ Expected \in [Batches -> Counts]
  /\ \A b \in Batches : Shown[b] <= Expected[b]
  /\ \A b \in Batches : caller[b] \in {"idle", "returned", "counted"} => Shown[b] = Expected[b]

\* That follows from what holds of each call.
LEMMA ShownIsExpected == Types /\ CallsInv => PartsAgree
<1> SUFFICES ASSUME Types, CallsInv PROVE PartsAgree
  OBVIOUS
<1> SUFFICES ASSUME NEW b \in Batches
             PROVE  /\ Shown[b] \in Counts /\ Expected[b] \in Counts
                    /\ Shown[b] <= Expected[b]
                    /\ caller[b] \in {"idle", "returned", "counted"} => Shown[b] = Expected[b]
  BY DEF Shown, Expected, PartsAgree
<1>1. /\ seen[b].success \in Nat /\ seen[b].failed \in Nat /\ success[b] \in Nat /\ failed[b] \in Nat
      /\ size[b] \in Nat /\ size[b] <= MaxEntries /\ MaxEntries \in Nat
      /\ status[b] \in {"unsent", "refused", "open", "answered"}
      /\ caller[b] \in {"idle", "awaiting", "returned", "threw", "counted"}
  BY ProgressAssumption DEF Types, Counts, Snapshots
<1>2. BatchOfCall(b) /\ NothingAhead(b) /\ CallIsOver(b)
  BY DEF CallsInv, CallInv
<1>3. /\ Shown[b] = seen[b].success + seen[b].failed + IF caller[b] = "counted" THEN 1 ELSE 0
      /\ Expected[b] = IF caller[b] = "idle" THEN 0 ELSE IF caller[b] = "returned" THEN success[b] + failed[b] ELSE request[b]
  BY DEF Shown, Expected, Settled
<1>4. success[b] + failed[b] <= size[b] /\ seen[b].success <= success[b] /\ seen[b].failed <= failed[b]
  BY <1>2 DEF BatchOfCall, NothingAhead, Settled
<1>5. CASE caller[b] = "idle"
  BY <1>1, <1>2, <1>3, <1>4, <1>5 DEF BatchOfCall, Counts
<1>6. CASE caller[b] = "returned"
  BY <1>1, <1>2, <1>3, <1>4, <1>6 DEF CallIsOver, Counts
<1>7. CASE caller[b] = "counted"
  <2>1. request[b] = 1 /\ 1 <= MaxEntries /\ success[b] = 0 /\ failed[b] = 0
    BY <1>1, <1>2, <1>7 DEF CallIsOver, BatchOfCall, Counts
  <2>2. seen[b].success = 0 /\ seen[b].failed = 0
    BY <1>1, <1>4, <2>1
  <2>3. Shown[b] = 1 /\ Expected[b] = 1
    BY <1>3, <1>7, <2>1, <2>2
  <2> QED BY <1>1, <2>1, <2>3 DEF Counts
<1>8. CASE caller[b] \in {"awaiting", "threw"}
  <2>1. request[b] \in Nat /\ request[b] <= MaxEntries
    BY <1>1, <1>2, <1>8 DEF BatchOfCall, Counts
  <2>2. success[b] + failed[b] <= request[b]
    BY <1>1, <1>2, <1>4, <2>1 DEF BatchOfCall
  <2> QED BY <1>1, <1>3, <1>4, <1>8, <2>1, <2>2 DEF Counts
<1> QED BY <1>1, <1>5, <1>6, <1>7, <1>8

\* The same of the next state.
LEMMA ShownIsExpectedNext == Types' /\ CallsInv' => PartsAgree'
  BY ShownIsExpected, PTL

\* The initial states satisfy the invariant.
LEMMA InitInv == Init => IInv
<1> SUFFICES ASSUME Init PROVE IInv
  OBVIOUS
<1> USE ProgressAssumption DEF Init, PromiseInit
<1>1. Types
  <2>1. [paths |-> {}, success |-> 0, failed |-> 0] \in Snapshots /\ <<>> \in Seq(Snapshots)
    BY DEF Snapshots
  <2> QED BY <2>1 DEF Types, Counts
<1>2. ASSUME NEW b \in Batches PROVE CallInv(b)
  BY DEF CallInv, BatchOfCall, AnswerIsAccount, NothingAhead, CallIsOver, TickIsAllowed, TickerIsOff,
         ShownAreSeen, LastIsFinal, Settled, Tagged
<1>3. Shown \in [Batches -> Counts] /\ \A b \in Batches : Shown[b] = 0
  BY DEF Shown, Counts
<1>4. Expected \in [Batches -> Counts] /\ \A b \in Batches : Expected[b] = 0
  BY DEF Expected, Counts
<1>5. TotalsAreSums
  BY <1>3, <1>4, SumOfNothing DEF TotalsAreSums
<1> QED BY <1>1, <1>2, <1>5 DEF IInv, CallsInv

-----------------------------------------------------------------------------
(* Steps. Each is of one call, but for the cancellation, which is of none. *)

StepOf(b) ==
  \/ \E n \in Counts : Call(b, n)
  \/ CommandStep(b) \/ ShowFile(b) \/ HideFile(b)
  \/ Collect(b) \/ SendTick(b) \/ CallerStep(b)

FilesOf(b) == {file \in current : file[1] = b}

\* Nothing of a call changes, but perhaps its cancellation.
SameCall(b) ==
  /\ status'[b] = status[b] /\ size'[b] = size[b] /\ success'[b] = success[b] /\ failed'[b] = failed[b]
  /\ answer'[b] = answer[b] /\ caller'[b] = caller[b] /\ request'[b] = request[b]
  /\ ticker'[b] = ticker[b] /\ ticks'[b] = ticks[b] /\ channel'[b] = channel[b] /\ seen'[b] = seen[b]
  /\ FilesOf(b)' = FilesOf(b) /\ bridged' = bridged

\* What a step of the caller may do to what is shown of a call, counts being what it is told.
Applied(b, paths) ==
  /\ seen' \in [Batches -> Snapshots]
  /\ \A c \in Batches : c # b => seen'[c] = seen[c]
  /\ seen'[b].paths = paths
  /\ seen[b].success <= seen'[b].success /\ seen'[b].success <= success[b]
  /\ seen[b].failed <= seen'[b].failed /\ seen'[b].failed <= failed[b]
  /\ successShown' = successShown + seen'[b].success - seen[b].success
  /\ failedShown' = failedShown + seen'[b].failed - seen[b].failed
  /\ successShown' \in Nat /\ successShown' >= successShown
  /\ failedShown' \in Nat /\ failedShown' >= failedShown

\* A call that is told counts not ahead of the batch sees no less than before, and shows the difference.
LEMMA ApplyAdds ==
  ASSUME Types, NEW b \in Batches, NothingAhead(b), NEW counts, NEW paths \in SUBSET (0..MaxEntries - 1),
         counts.success \in Counts, counts.failed \in Counts,
         counts.success <= success[b], counts.failed <= failed[b],
         ApplySnapshotData(b, counts, paths)
  PROVE  /\ Applied(b, paths)
         /\ counts.success = success[b] /\ counts.failed = failed[b] =>
              seen'[b].success = success[b] /\ seen'[b].failed = failed[b]
<1>1. /\ seen \in [Batches -> Snapshots] /\ success[b] \in Nat /\ failed[b] \in Nat
      /\ successShown \in Nat /\ failedShown \in Nat
      /\ seen[b] \in Snapshots /\ seen[b].success \in Nat /\ seen[b].failed \in Nat
      /\ seen[b].success <= success[b] /\ seen[b].failed <= failed[b]
      /\ counts.success \in Nat /\ counts.failed \in Nat
  BY ProgressAssumption DEF Types, NothingAhead, Snapshots, Counts
<1>2. CASE Stale(b, counts)
  <2>1. seen' = [seen EXCEPT ![b].paths = paths] /\ successShown' = successShown /\ failedShown' = failedShown
    BY <1>2 DEF ApplySnapshotData
  <2>2. /\ seen'[b].paths = paths /\ seen'[b].success = seen[b].success /\ seen'[b].failed = seen[b].failed
        /\ \A c \in Batches : c # b => seen'[c] = seen[c]
        /\ seen' \in [Batches -> Snapshots]
    BY <1>1, <2>1 DEF Snapshots
  <2>3. ~(counts.success = success[b] /\ counts.failed = failed[b])
    BY <1>1, <1>2 DEF Stale
  <2> QED BY <1>1, <2>1, <2>2, <2>3 DEF Applied
<1>3. CASE ~Stale(b, counts)
  <2>1. /\ seen' = [seen EXCEPT ![b] = [paths |-> paths, success |-> counts.success, failed |-> counts.failed]]
        /\ successShown' = successShown + counts.success - seen[b].success
        /\ failedShown' = failedShown + counts.failed - seen[b].failed
    BY <1>3 DEF ApplySnapshotData
  <2>2. /\ seen'[b].paths = paths /\ seen'[b].success = counts.success /\ seen'[b].failed = counts.failed
        /\ \A c \in Batches : c # b => seen'[c] = seen[c]
        /\ seen' \in [Batches -> Snapshots]
    BY <1>1, <2>1 DEF Snapshots, Counts
  <2>3. counts.success >= seen[b].success /\ counts.failed >= seen[b].failed
    BY <1>1, <1>3 DEF Stale
  <2> QED BY <1>1, <2>1, <2>2, <2>3 DEF Applied
<1> QED BY <1>2, <1>3

\* A message tells a call no more than the batch has done; the answer tells it all.
LEMMA CallerApplies ==
  ASSUME IInv, NEW b \in Batches
  PROVE  /\ OnMessage(b) =>
              Applied(b, channel[b][1].paths) /\ channel[b][1].paths \in SUBSET (0..MaxEntries - 1)
         /\ Resume(b) =>
              /\ Applied(b, {}) /\ status[b] = "answered"
              /\ seen'[b].success = success[b] /\ seen'[b].failed = failed[b]
              /\ total' = total - (request[b] - Settled(b))
<1>1. Types /\ BatchOfCall(b) /\ AnswerIsAccount(b) /\ NothingAhead(b)
  BY DEF IInv, CallsInv, CallInv
<1>2. ASSUME OnMessage(b)
      PROVE  Applied(b, channel[b][1].paths) /\ channel[b][1].paths \in SUBSET (0..MaxEntries - 1)
  <2>1. channel[b] \in Seq(Snapshots) /\ channel[b] # <<>>
    BY <1>1, <1>2 DEF Types, OnMessage
  <2>2. 1 \in 1..Len(channel[b]) /\ Head(channel[b]) = channel[b][1] /\ channel[b][1] \in Snapshots
    BY <2>1
  <2>3. channel[b][1].success <= success[b] /\ channel[b][1].failed <= failed[b]
    BY <1>1, <2>2 DEF NothingAhead
  <2>4. /\ channel[b][1].paths \in SUBSET (0..MaxEntries - 1)
        /\ channel[b][1].success \in Counts /\ channel[b][1].failed \in Counts
    BY <2>2 DEF Snapshots, Counts
  <2>5. ApplySnapshotData(b, channel[b][1], channel[b][1].paths)
    BY <1>2, <2>2 DEF OnMessage
  <2> QED BY <1>1, <2>3, <2>4, <2>5, ApplyAdds
<1>3. ASSUME Resume(b)
      PROVE  /\ Applied(b, {}) /\ status[b] = "answered"
             /\ seen'[b].success = success[b] /\ seen'[b].failed = failed[b]
             /\ total' = total - (request[b] - Settled(b))
  <2>1. status[b] = "answered"
    BY <1>1, <1>3 DEF Resume, AnswerIsAccount
  <2>2. /\ answer[b].success = success[b] /\ answer[b].failed = failed[b]
        /\ answer[b].success \in Counts /\ answer[b].failed \in Counts
        /\ success[b] \in Nat /\ failed[b] \in Nat
    BY <1>1, <2>1 DEF AnswerIsAccount, Types
  <2>3. answer[b].success <= success[b] /\ answer[b].failed <= failed[b] /\ {} \in SUBSET (0..MaxEntries - 1)
    BY <2>2
  <2>4. ApplySnapshotData(b, answer[b], {}) /\ caller[b] = "awaiting" /\ total' = total - Unsettled(b)
    BY <1>3 DEF Resume
  <2>5. request[b] \in Nat /\ request[b] = size[b]
    BY <1>1, <2>1, <2>4, ProgressAssumption DEF BatchOfCall, Counts
  <2>6. Unsettled(b) = request[b] - Settled(b)
    <3>1. CASE answer[b].cancelled
      BY <2>2, <2>5, <3>1 DEF Unsettled, Settled
    <3>2. CASE ~answer[b].cancelled
      <4>1. Settled(b) = size[b]
        BY <1>1, <2>1, <3>2 DEF AnswerIsAccount
      <4> QED BY <2>5, <3>2, <4>1 DEF Unsettled
    <3> QED BY <3>1, <3>2
  <2>7. /\ Applied(b, {})
        /\ seen'[b].success = success[b] /\ seen'[b].failed = failed[b]
    BY <1>1, <2>2, <2>3, <2>4, ApplyAdds
  <2> QED BY <2>1, <2>4, <2>6, <2>7
<1> QED BY <1>2, <1>3

\* The steps of a call.
LEMMA StepCases ==
  ASSUME NEW b \in Batches, StepOf(b)
  PROVE  \/ \E n \in Counts : Call(b, n)
         \/ Open(b) \/ Decline(b) \/ ShowFile(b) \/ HideFile(b) \/ SettleOne(b) \/ Collect(b)
         \/ SendTick(b) \/ StopTicker(b) \/ Finalize(b)
         \/ OnMessage(b) \/ CloseStream(b) \/ Resume(b) \/ Throw(b) \/ ThrowCounted(b)
  BY DEF StepOf, CommandStep, CallerStep

\* Files of one call are replaced, those of the others stay.
LEMMA FilesReplaced ==
  ASSUME NEW b \in Batches, NEW old, NEW paths, ShownAreSeen(b), old = seen[b].paths,
         current' = (current \ Tagged(b, old)) \cup Tagged(b, paths)
  PROVE  /\ \A c \in Batches : c # b => FilesOf(c)' = FilesOf(c)
         /\ FilesOf(b)' = Tagged(b, paths)
  BY DEF FilesOf, Tagged, ShownAreSeen

\* A step of one call leaves the others as they are.
LEMMA OthersStay ==
  ASSUME IInv, NEW b \in Batches, StepOf(b), NEW c \in Batches, c # b
  PROVE  SameCall(c)
<1>0. Types /\ ShownAreSeen(b)
  BY DEF IInv, CallsInv, CallInv
<1> USE DEF SameCall, FilesOf, promiseVars, progressVars, tickerVars, callVars, statusVars
<1>1. ASSUME NEW n \in Counts, Call(b, n) PROVE SameCall(c)
  BY <1>0, <1>1 DEF Call, Types
<1>2. CASE Open(b) \/ Decline(b)
  BY <1>0, <1>2 DEF Open, Decline, Send, Refuse, Types
<1>3. CASE ShowFile(b) \/ HideFile(b) \/ SettleOne(b)
  BY <1>0, <1>3 DEF ShowFile, HideFile, SettleOne, Show, Hide, SettleOk, SettleBad, Types
<1>4. CASE Collect(b) \/ SendTick(b) \/ StopTicker(b)
  BY <1>0, <1>4 DEF Collect, SendTick, StopTicker, Types
<1>5. CASE Finalize(b)
  BY <1>0, <1>5 DEF Finalize, Answer, Types
<1>6. CASE OnMessage(b)
  <2>1. current' = (current \ Tagged(b, seen[b].paths)) \cup Tagged(b, Head(channel[b]).paths)
    BY <1>6 DEF OnMessage
  <2>2. FilesOf(c)' = FilesOf(c)
    BY <1>0, <2>1, FilesReplaced
  <2>3. seen'[c] = seen[c]
    BY <1>6, CallerApplies DEF Applied
  <2> QED BY <1>0, <1>6, <2>2, <2>3 DEF OnMessage, Types
<1>7. CASE Resume(b)
  <2>1. current' = (current \ Tagged(b, seen[b].paths)) \cup Tagged(b, {})
    BY <1>7 DEF Resume, Tagged
  <2>2. FilesOf(c)' = FilesOf(c)
    BY <1>0, <2>1, FilesReplaced
  <2>3. seen'[c] = seen[c]
    BY <1>7, CallerApplies DEF Applied
  <2> QED BY <1>0, <1>7, <2>2, <2>3 DEF Resume, Types
<1>8. CASE CloseStream(b) \/ Throw(b) \/ ThrowCounted(b)
  BY <1>0, <1>8 DEF CloseStream, Throw, ThrowCounted, Types
<1> QED BY <1>1, <1>2, <1>3, <1>4, <1>5, <1>6, <1>7, <1>8, StepCases

\* A call of which nothing changes keeps its invariant.
LEMMA SameCallKeeps ==
  ASSUME NEW b \in Batches, CallInv(b), SameCall(b)
  PROVE  CallInv(b)'
<1> USE DEF SameCall, CallInv
<1>1. BatchOfCall(b)' /\ AnswerIsAccount(b)'
  BY DEF BatchOfCall, AnswerIsAccount, Settled
<1>2. NothingAhead(b)' /\ CallIsOver(b)'
  BY DEF NothingAhead, CallIsOver
<1>3. TickIsAllowed(b)' /\ TickerIsOff(b)' /\ LastIsFinal(b)'
  BY DEF TickIsAllowed, TickerIsOff, LastIsFinal
<1>4. ShownAreSeen(b)'
  BY DEF ShownAreSeen, FilesOf, Tagged
<1> QED BY <1>1, <1>2, <1>3, <1>4

-----------------------------------------------------------------------------
\* Every step of a call keeps the types, but for what a call shows and asks for.
LEMMA BackendTypes ==
  ASSUME IInv, NEW b \in Batches,
         \/ Open(b) \/ Decline(b) \/ ShowFile(b) \/ HideFile(b) \/ SettleOne(b) \/ Collect(b)
         \/ SendTick(b) \/ StopTicker(b) \/ Finalize(b)
  PROVE  Types'
<1>0. Types /\ TickIsAllowed(b) /\ BatchOfCall(b) /\ MaxEntries \in Nat /\ MaxTicks \in Nat
  BY ProgressAssumption DEF IInv, CallsInv, CallInv
<1> USE DEF promiseVars, progressVars, tickerVars, callVars, statusVars
<1>1. success[b] \in Nat /\ failed[b] \in Nat /\ success[b] + failed[b] <= size[b] /\ size[b] \in Counts
  BY <1>0 DEF BatchOfCall, Settled, Types
<1>2. success[b] \in Counts /\ failed[b] \in Counts
  BY <1>0, <1>1 DEF Counts
<1>3. ASSUME NEW paths \in SUBSET (0..MaxEntries - 1) PROVE Snapshot(b, paths) \in Snapshots
  BY <1>2 DEF Snapshot, Snapshots, Counts
<1>4. CASE Open(b)
  <2>1. request[b] \in Counts
    BY <1>0, <1>4 DEF Open, BatchOfCall, Types
  <2> QED BY <1>0, <1>4, <2>1 DEF Types, Open, Send
<1>5. CASE Decline(b)
  BY <1>0, <1>5 DEF Types, Decline, Refuse
<1>6. CASE ShowFile(b)
  <2>1. PICK entry \in 0..(size[b] - 1) : Show(b, entry)
    BY <1>6 DEF ShowFile
  <2>2. entry \in 0..MaxEntries - 1
    BY <1>0, <1>1 DEF Counts
  <2>3. /\ inFlight' = [inFlight EXCEPT ![b] = @ \cup {entry}] /\ UNCHANGED progressVars
        /\ UNCHANGED <<status, size, success, failed, cancelled, answer>>
    BY <1>6, <2>1 DEF ShowFile, Show
  <2>4. inFlight' \in [Batches -> SUBSET (0..MaxEntries - 1)]
    BY <1>0, <2>2, <2>3 DEF Types
  <2> QED BY <1>0, <2>3, <2>4 DEF Types
<1>7. CASE HideFile(b)
  <2>1. PICK entry : Hide(b, entry)
    BY <1>7 DEF HideFile
  <2>2. /\ inFlight' = [inFlight EXCEPT ![b] = @ \ {entry}] /\ UNCHANGED progressVars
        /\ UNCHANGED <<status, size, success, failed, cancelled, answer>>
    BY <1>7, <2>1 DEF HideFile, Hide
  <2>3. inFlight' \in [Batches -> SUBSET (0..MaxEntries - 1)]
    BY <1>0, <2>2 DEF Types
  <2> QED BY <1>0, <2>2, <2>3 DEF Types
<1>8. CASE SettleOne(b)
  <2>1. CASE SettleOk(b)
    <3>1. /\ success' = [success EXCEPT ![b] = success[b] + 1] /\ UNCHANGED progressVars
          /\ UNCHANGED <<status, size, failed, inFlight, cancelled, answer>>
      BY <1>8, <2>1 DEF SettleOne, SettleOk
    <3>2. success' \in [Batches -> Nat]
      BY <1>0, <1>1, <3>1 DEF Types
    <3> QED BY <1>0, <3>1, <3>2 DEF Types
  <2>2. CASE SettleBad(b)
    <3>1. /\ failed' = [failed EXCEPT ![b] = failed[b] + 1] /\ UNCHANGED progressVars
          /\ UNCHANGED <<status, size, success, inFlight, cancelled, answer>>
      BY <1>8, <2>2 DEF SettleOne, SettleBad
    <3>2. failed' \in [Batches -> Nat]
      BY <1>0, <1>1, <3>1 DEF Types
    <3> QED BY <1>0, <3>1, <3>2 DEF Types
  <2> QED BY <1>8, <2>1, <2>2 DEF SettleOne
<1>9. CASE Collect(b)
  BY <1>0, <1>9 DEF Types, Collect
<1>10. CASE SendTick(b)
  <2>1. Snapshot(b, collected[b]) \in Snapshots
    BY <1>0, <1>3 DEF Types
  <2>2. ticks[b] + 1 \in 0..MaxTicks
    BY <1>0, <1>10 DEF Types, SendTick, TickIsAllowed
  <2>3. channel' \in [Batches -> Seq(Snapshots)]
    BY <1>0, <1>10, <2>1 DEF Types, SendTick
  <2> QED BY <1>0, <1>10, <2>2, <2>3 DEF Types, SendTick
<1>11. CASE StopTicker(b)
  BY <1>0, <1>11 DEF Types, StopTicker
<1>12. CASE Finalize(b)
  <2>1. Snapshot(b, {}) \in Snapshots
    BY <1>3
  <2>2. channel' \in [Batches -> Seq(Snapshots)]
    BY <1>0, <1>12, <2>1 DEF Types, Finalize
  <2>3. answer' \in [Batches -> [success : Counts, failed : Counts, cancelled : BOOLEAN] \cup {None}]
    BY <1>0, <1>2, <1>12 DEF Types, Finalize, Answer
  <2> QED BY <1>0, <1>12, <2>2, <2>3 DEF Types, Finalize, Answer
<1> QED BY <1>4, <1>5, <1>6, <1>7, <1>8, <1>9, <1>10, <1>11, <1>12

\* The caller's steps keep the types; of the total they leave what they do not take.
LEMMA CallerTypes ==
  ASSUME IInv, NEW b \in Batches,
         \/ \E n \in Counts : Call(b, n)
         \/ OnMessage(b) \/ CloseStream(b) \/ Resume(b) \/ Throw(b) \/ ThrowCounted(b),
         total' \in Nat
  PROVE  Types'
<1>0. Types /\ MaxEntries \in Nat
  BY ProgressAssumption DEF IInv
<1> USE DEF promiseVars, progressVars, tickerVars, callVars, statusVars
<1>1. ASSUME NEW n \in Counts, Call(b, n) PROVE Types'
  BY <1>0, <1>1 DEF Types, Call
<1>2. CASE OnMessage(b)
  <2>1. Applied(b, channel[b][1].paths) /\ channel[b][1].paths \in SUBSET (0..MaxEntries - 1)
    BY <1>2, CallerApplies
  <2>2. channel[b] \in Seq(Snapshots) /\ channel[b] # <<>>
    BY <1>0, <1>2 DEF Types, OnMessage
  <2>3. Head(channel[b]) = channel[b][1] /\ Tail(channel[b]) \in Seq(Snapshots)
    BY <2>2
  <2>4. channel' \in [Batches -> Seq(Snapshots)]
    BY <1>0, <1>2, <2>3 DEF Types, OnMessage
  <2>5. current' \subseteq Batches \X (0..MaxEntries - 1)
    BY <1>0, <1>2, <2>1, <2>3 DEF Types, OnMessage, Tagged
  <2> QED BY <1>0, <1>2, <2>1, <2>4, <2>5 DEF Types, OnMessage, Applied
<1>3. CASE Resume(b)
  <2>1. Applied(b, {})
    BY <1>3, CallerApplies
  <2> QED BY <1>0, <1>3, <2>1 DEF Types, Resume, Applied
<1>4. CASE CloseStream(b)
  BY <1>0, <1>4 DEF Types, CloseStream
<1>5. CASE Throw(b) \/ ThrowCounted(b)
  <2>1. /\ caller' \in [Batches -> {"idle", "awaiting", "returned", "threw", "counted"}]
        /\ failedShown' \in Nat
    <3>1. CASE Throw(b)
      BY <1>0, <3>1 DEF Types, Throw
    <3>2. CASE ThrowCounted(b)
      BY <1>0, <3>2 DEF Types, ThrowCounted
    <3> QED BY <1>5, <3>1, <3>2
  <2>2. UNCHANGED <<promiseVars, request, bridged, tickerVars, channel, seen, successShown, current>>
    BY <1>5 DEF Throw, ThrowCounted
  <2> QED BY <1>0, <2>1, <2>2 DEF Types
<1> QED BY <1>1, <1>2, <1>3, <1>4, <1>5

-----------------------------------------------------------------------------
\* A step of the backend that leaves the channel as it is keeps the invariant of its call.
LEMMA QuietSteps ==
  ASSUME IInv, NEW b \in Batches,
         \/ Open(b) \/ Decline(b) \/ ShowFile(b) \/ HideFile(b) \/ SettleOne(b) \/ Collect(b) \/ StopTicker(b)
  PROVE  CallInv(b)'
<1>0. Types /\ CallInv(b)
  BY DEF IInv, CallsInv
<1> USE DEF promiseVars, progressVars, tickerVars, callVars, statusVars
<1>1. UNCHANGED <<caller, request, bridged, channel, seen, current, answer>>
  BY DEF Open, Decline, ShowFile, HideFile, SettleOne, Collect, StopTicker,
         Send, Refuse, Show, Hide, SettleOk, SettleBad
<1>2. ShownAreSeen(b)'
  BY <1>0, <1>1 DEF CallInv, ShownAreSeen, Tagged
<1>3. CASE Open(b)
  <2>1. /\ status[b] = "unsent" /\ status'[b] = "open" /\ size'[b] = request[b] /\ request[b] # None
        /\ ticker'[b] = "waiting" /\ UNCHANGED <<success, failed, ticks>>
    BY <1>0, <1>3 DEF Open, Send, Types
  <2>2. caller[b] # "idle" /\ request[b] \in Counts /\ success[b] = 0 /\ failed[b] = 0
    BY <1>0, <2>1 DEF CallInv, BatchOfCall
  <2>3. BatchOfCall(b)'
    BY <1>1, <2>1, <2>2 DEF BatchOfCall, Settled, Counts
  <2>4. AnswerIsAccount(b)' /\ NothingAhead(b)'
    BY <1>0, <1>1, <2>1 DEF CallInv, AnswerIsAccount, NothingAhead
  <2>5. CallIsOver(b)' /\ TickIsAllowed(b)' /\ TickerIsOff(b)' /\ LastIsFinal(b)'
    BY <1>0, <1>1, <2>1 DEF CallInv, CallIsOver, TickIsAllowed, TickerIsOff, LastIsFinal
  <2> QED BY <1>2, <2>3, <2>4, <2>5 DEF CallInv
<1>4. CASE Decline(b)
  <2>1. /\ status[b] = "unsent" /\ status'[b] = "refused" /\ request[b] # None
        /\ UNCHANGED <<size, success, failed, ticker, ticks>>
    BY <1>0, <1>4 DEF Decline, Refuse, Types
  <2>2. BatchOfCall(b)'
    BY <1>0, <1>1, <2>1 DEF CallInv, BatchOfCall, Settled
  <2>3. AnswerIsAccount(b)' /\ NothingAhead(b)'
    BY <1>0, <1>1, <2>1 DEF CallInv, AnswerIsAccount, NothingAhead
  <2>4. CallIsOver(b)' /\ TickIsAllowed(b)' /\ TickerIsOff(b)' /\ LastIsFinal(b)'
    BY <1>0, <1>1, <2>1 DEF CallInv, CallIsOver, TickIsAllowed, TickerIsOff, LastIsFinal
  <2> QED BY <1>2, <2>2, <2>3, <2>4 DEF CallInv
<1>5. CASE SettleOne(b)
  <2>1. /\ status[b] = "open" /\ Settled(b) < size[b] /\ UNCHANGED <<status, size, ticker, ticks>>
        /\ \/ success'[b] = success[b] + 1 /\ failed'[b] = failed[b]
           \/ success'[b] = success[b] /\ failed'[b] = failed[b] + 1
    BY <1>0, <1>5 DEF SettleOne, SettleOk, SettleBad, Unfinished, Types
  <2>2. success[b] \in Nat /\ failed[b] \in Nat /\ size[b] \in Int /\ channel[b] \in Seq(Snapshots) /\ seen[b] \in Snapshots
    BY <1>0 DEF Types, Counts
  <2>3. BatchOfCall(b)'
    BY <1>0, <1>1, <2>1, <2>2 DEF CallInv, BatchOfCall, Settled
  <2>4. AnswerIsAccount(b)' /\ CallIsOver(b)'
    BY <1>0, <1>1, <2>1 DEF CallInv, AnswerIsAccount, CallIsOver
  <2>5. ASSUME NEW n \in Nat, NEW m \in Nat, n <= success[b], m <= failed[b]
        PROVE  n <= success'[b] /\ m <= failed'[b]
    BY <2>1, <2>2, <2>5
  <2>6. ASSUME NEW k \in 1..Len(channel[b]) PROVE channel[b][k].success \in Nat /\ channel[b][k].failed \in Nat
    <3>1. channel[b][k] \in Snapshots
      BY <2>2
    <3> QED BY <3>1, ProgressAssumption DEF Snapshots
  <2>7. seen[b].success \in Nat /\ seen[b].failed \in Nat
    BY <2>2, ProgressAssumption DEF Snapshots
  <2>8. NothingAhead(b)'
    BY <1>0, <1>1, <2>5, <2>6, <2>7 DEF CallInv, NothingAhead
  <2>9. TickIsAllowed(b)' /\ TickerIsOff(b)' /\ LastIsFinal(b)'
    BY <1>0, <1>1, <2>1 DEF CallInv, TickIsAllowed, TickerIsOff, LastIsFinal
  <2> QED BY <1>2, <2>3, <2>4, <2>8, <2>9 DEF CallInv
<1>6. CASE ShowFile(b) \/ HideFile(b)
  <2>1. UNCHANGED <<status, size, success, failed, ticker, ticks>>
    BY <1>6 DEF ShowFile, HideFile, Show, Hide
  <2>2. SameCall(b)
    BY <1>1, <2>1 DEF SameCall, FilesOf
  <2> QED BY <1>0, <2>2, SameCallKeeps
<1>7. CASE Collect(b) \/ StopTicker(b)
  <2>1. /\ UNCHANGED <<status, size, success, failed, ticks>> /\ ticker[b] \in {"waiting", "collected"}
        /\ ticker'[b] \in {"collected", "aborted", "off"}
        /\ ticker'[b] = "collected" => ticks[b] < MaxTicks
        /\ ticker'[b] = "aborted" => ticker[b] = "collected" /\ ~TickerAwaited
    BY <1>0, <1>7 DEF Collect, StopTicker, Ticking, Types
  <2>2. BatchOfCall(b)' /\ AnswerIsAccount(b)' /\ NothingAhead(b)' /\ CallIsOver(b)'
    BY <1>0, <1>1, <2>1 DEF CallInv, BatchOfCall, AnswerIsAccount, NothingAhead, CallIsOver, Settled
  <2>3. TickIsAllowed(b)' /\ TickerIsOff(b)' /\ LastIsFinal(b)'
    BY <1>0, <1>1, <2>1 DEF CallInv, TickIsAllowed, TickerIsOff, LastIsFinal
  <2> QED BY <1>2, <2>2, <2>3 DEF CallInv
<1> QED BY <1>3, <1>4, <1>5, <1>6, <1>7

\* A tick that is sent, and the final snapshot, carry the counts of the batch.
LEMMA SendingSteps ==
  ASSUME IInv, NEW b \in Batches, SendTick(b) \/ Finalize(b)
  PROVE  CallInv(b)'
<1>0. Types /\ CallInv(b)
  BY DEF IInv, CallsInv
<1> USE DEF promiseVars, progressVars, tickerVars, callVars, statusVars
<1>1. UNCHANGED <<caller, request, bridged, seen, current, success, failed, size>>
  BY DEF SendTick, Finalize, Answer
<1>2. ShownAreSeen(b)'
  BY <1>0, <1>1 DEF CallInv, ShownAreSeen, Tagged
<1>3. /\ channel[b] \in Seq(Snapshots) /\ success[b] \in Nat /\ failed[b] \in Nat
      /\ success[b] <= success[b] /\ failed[b] <= failed[b]
  BY <1>0 DEF Types
<1>4. PICK paths : channel'[b] = Append(channel[b], Snapshot(b, paths)) /\ (Finalize(b) => paths = {})
  <2>1. CASE Finalize(b)
    BY <1>0, <2>1 DEF Finalize, Types
  <2>2. CASE SendTick(b) /\ ~Finalize(b)
    BY <1>0, <2>2 DEF SendTick, Types
  <2> QED BY <2>1, <2>2
<1>5. \A k \in 1..Len(channel'[b]) :
        channel'[b][k].success <= success[b] /\ channel'[b][k].failed <= failed[b]
  <2>1. \A k \in 1..Len(channel'[b]) :
          (k \in 1..Len(channel[b]) /\ channel'[b][k] = channel[b][k]) \/ channel'[b][k] = Snapshot(b, paths)
    BY <1>3, <1>4
  <2> QED BY <1>0, <1>3, <2>1 DEF CallInv, NothingAhead, Snapshot
<1>6. NothingAhead(b)'
  BY <1>0, <1>1, <1>5 DEF CallInv, NothingAhead
<1>7. channel'[b] # <<>> /\ channel'[b][Len(channel'[b])] = Snapshot(b, paths)
  BY <1>3, <1>4
<1>8. CASE SendTick(b)
  <2>1. /\ UNCHANGED <<status, answer>> /\ ticker[b] \in {"collected", "aborted"}
        /\ ticker'[b] = IF ticker[b] = "aborted" THEN "off" ELSE "waiting"
    BY <1>0, <1>8 DEF SendTick, Types
  <2>2. status[b] \in {"open", "answered"}
    BY <1>0, <2>1 DEF CallInv, TickerIsOff, Types
  <2>3. BatchOfCall(b)' /\ AnswerIsAccount(b)' /\ CallIsOver(b)'
    BY <1>0, <1>1, <2>1, <2>2 DEF CallInv, BatchOfCall, AnswerIsAccount, CallIsOver, Settled
  <2>4. TickerAwaited => status[b] # "answered"
    BY <1>0, <2>1 DEF CallInv, TickerIsOff
  <2>5. TickIsAllowed(b)' /\ TickerIsOff(b)' /\ LastIsFinal(b)'
    BY <1>0, <1>1, <2>1, <2>2, <2>4 DEF CallInv, TickIsAllowed, TickerIsOff, LastIsFinal, CallIsOver
  <2> QED BY <1>2, <1>6, <2>3, <2>5 DEF CallInv
<1>9. CASE Finalize(b)
  <2>1. /\ status[b] = "open" /\ status'[b] = "answered" /\ UNCHANGED <<ticker, ticks>>
        /\ ticker[b] \in {"off", "aborted"} /\ (b \in cancelled \/ Settled(b) = size[b])
        /\ answer'[b] = [success |-> success[b], failed |-> failed[b], cancelled |-> b \in cancelled]
    BY <1>0, <1>9 DEF Finalize, Answer, MayAnswer, Ticking, Types
  <2>2. BatchOfCall(b)'
    BY <1>0, <1>1, <2>1 DEF CallInv, BatchOfCall, Settled
  <2>3. success[b] \in Counts /\ failed[b] \in Counts
    <3>1. success[b] + failed[b] <= size[b] /\ size[b] \in Counts
      BY <1>0 DEF CallInv, BatchOfCall, Settled, Types
    <3> QED BY <1>3, <3>1, ProgressAssumption DEF Counts
  <2>4. AnswerIsAccount(b)'
    <3>1. answer'[b] \in [success : Counts, failed : Counts, cancelled : BOOLEAN]
      BY <2>1, <2>3
    <3>2. answer'[b].success = success'[b] /\ answer'[b].failed = failed'[b]
      BY <1>1, <2>1
    <3>3. answer'[b].cancelled = (b \in cancelled)
      BY <2>1
    <3>4. ~answer'[b].cancelled => Settled(b) = size[b]
      BY <2>1, <3>3
    <3>5. Settled(b)' = Settled(b) /\ size'[b] = size[b]
      BY <1>1 DEF Settled
    <3> QED BY <2>1, <3>1, <3>2, <3>4, <3>5 DEF AnswerIsAccount
  <2>5. CallIsOver(b)'
    BY <1>0, <1>1, <2>1 DEF CallInv, CallIsOver
  <2>6. TickIsAllowed(b)' /\ TickerIsOff(b)'
    BY <1>0, <2>1 DEF CallInv, TickIsAllowed, TickerIsOff
  <2>7. LastIsFinal(b)'
    BY <1>0, <1>1, <1>4, <1>7, <1>9, <2>1 DEF LastIsFinal, CallInv, CallIsOver, Snapshot
  <2> QED BY <1>2, <1>6, <2>2, <2>4, <2>5, <2>6, <2>7 DEF CallInv
<1> QED BY <1>8, <1>9

\* The tail of a sequence ends as the sequence does.
LEMMA TailIsShorter ==
  ASSUME NEW S, NEW q \in Seq(S), q # <<>>
  PROVE  /\ Len(q) \in Nat /\ Len(q) > 0 /\ Len(Tail(q)) = Len(q) - 1
         /\ \A k \in 1..Len(Tail(q)) : k + 1 \in 1..Len(q) /\ Tail(q)[k] = q[k + 1]
         /\ Tail(q) = <<>> => Len(q) = 1
         /\ Tail(q) # <<>> => Tail(q)[Len(Tail(q))] = q[Len(q)]
<1>1. Len(q) \in Nat /\ Len(q) > 0 /\ Len(Tail(q)) = Len(q) - 1 /\ Tail(q) \in Seq(S)
  BY EmptySeq
<1>2. ASSUME NEW k \in 1..Len(Tail(q)) PROVE k + 1 \in 1..Len(q) /\ Tail(q)[k] = q[k + 1]
  BY <1>1
<1>3. ASSUME Tail(q) = <<>> PROVE Len(q) = 1
  <2>1. Len(Tail(q)) = 0
    BY <1>3, EmptySeq
  <2> DEFINE length == Len(Tail(q))
  <2>2. length = Len(q) - 1 /\ length = 0 /\ Len(q) \in Nat
    BY <1>1, <2>1
  <2> HIDE DEF length
  <2> QED BY <2>2
<1>4. ASSUME Tail(q) # <<>> PROVE Tail(q)[Len(Tail(q))] = q[Len(q)]
  <2>1. Len(Tail(q)) \in 1..Len(Tail(q))
    BY <1>1, <1>4, EmptySeq
  <2> QED BY <1>1, <1>2, <2>1
<1> QED BY <1>1, <1>2, <1>3, <1>4

\* A message shows its files instead of those before it, and the last one shows none.
LEMMA MessageStep ==
  ASSUME IInv, NEW b \in Batches, OnMessage(b)
  PROVE  CallInv(b)'
<1>0. Types /\ CallInv(b)
  BY DEF IInv, CallsInv
<1>1. /\ UNCHANGED <<caller, request, bridged, ticker, ticks, status, size, success, failed, answer>>
      /\ channel[b] # <<>> /\ channel'[b] = Tail(channel[b]) /\ channel[b] \in Seq(Snapshots)
      /\ current' = (current \ Tagged(b, seen[b].paths)) \cup Tagged(b, channel[b][1].paths)
  BY <1>0 DEF OnMessage, Types, promiseVars, callVars, tickerVars
<1>2. Applied(b, channel[b][1].paths)
  BY CallerApplies
<1>3. /\ Len(channel[b]) \in Nat /\ Len(channel[b]) > 0 /\ Len(channel'[b]) = Len(channel[b]) - 1
      /\ \A k \in 1..Len(channel'[b]) : k + 1 \in 1..Len(channel[b]) /\ channel'[b][k] = channel[b][k + 1]
      /\ channel'[b] = <<>> => Len(channel[b]) = 1
      /\ channel'[b] # <<>> => channel'[b][Len(channel'[b])] = channel[b][Len(channel[b])]
  BY <1>1, TailIsShorter
<1>4. BatchOfCall(b)'
  <2>1. status[b] \notin {"unsent", "refused"}
    BY <1>0, <1>1 DEF CallInv, BatchOfCall
  <2> QED BY <1>0, <1>1, <2>1 DEF CallInv, BatchOfCall, Settled
<1>5. AnswerIsAccount(b)' /\ TickIsAllowed(b)' /\ TickerIsOff(b)'
  BY <1>0, <1>1 DEF CallInv, AnswerIsAccount, TickIsAllowed, TickerIsOff, Settled
<1>6. NothingAhead(b)'
  BY <1>0, <1>1, <1>2, <1>3 DEF CallInv, NothingAhead, Applied
<1>7. CallIsOver(b)'
  <2>1. /\ seen[b].success \in Nat /\ seen[b].failed \in Nat /\ seen'[b].success \in Nat /\ seen'[b].failed \in Nat
        /\ success[b] \in Nat /\ failed[b] \in Nat
    BY <1>0, <1>2, ProgressAssumption DEF Types, Snapshots, Applied
  <2>2. seen[b].success = success[b] /\ seen[b].failed = failed[b] =>
          seen'[b].success = success[b] /\ seen'[b].failed = failed[b]
    BY <1>2, <2>1 DEF Applied
  <2> QED BY <1>0, <1>1, <2>2 DEF CallInv, CallIsOver
<1>8. ShownAreSeen(b)'
  <2>1. FilesOf(b)' = Tagged(b, channel[b][1].paths)
    BY <1>0, <1>1, FilesReplaced DEF CallInv
  <2>2. seen'[b].paths = channel[b][1].paths
    BY <1>2 DEF Applied
  <2> QED BY <2>1, <2>2 DEF ShownAreSeen, FilesOf, Tagged
<1>9. LastIsFinal(b)'
  <2>1. caller[b] = "returned" => status[b] = "answered"
    BY <1>0 DEF CallInv, CallIsOver
  <2>2. seen'[b].paths = channel[b][1].paths
    BY <1>2 DEF Applied
  <2> QED BY <1>0, <1>1, <1>3, <2>1, <2>2 DEF CallInv, LastIsFinal
<1> QED BY <1>4, <1>5, <1>6, <1>7, <1>8, <1>9 DEF CallInv

\* The other steps of a caller keep the invariant of its call.
LEMMA CallerSteps ==
  ASSUME IInv, NEW b \in Batches,
         \/ \E n \in Counts : Call(b, n)
         \/ CloseStream(b) \/ Resume(b) \/ Throw(b) \/ ThrowCounted(b)
  PROVE  CallInv(b)'
<1>0. Types /\ CallInv(b)
  BY DEF IInv, CallsInv
<1>1. UNCHANGED <<bridged, ticker, ticks, status, size, success, failed, answer>>
  BY DEF Call, CloseStream, Resume, Throw, ThrowCounted, promiseVars, callVars, tickerVars
<1>2. AnswerIsAccount(b)' /\ TickIsAllowed(b)' /\ TickerIsOff(b)'
  BY <1>0, <1>1 DEF CallInv, AnswerIsAccount, TickIsAllowed, TickerIsOff, Settled
<1>3. ASSUME NEW n \in Counts, Call(b, n) PROVE CallInv(b)'
  <2>1. /\ caller[b] = "idle" /\ caller'[b] = "awaiting" /\ request'[b] = n
        /\ UNCHANGED <<channel, seen, current>>
    BY <1>0, <1>3 DEF Call, Types
  <2>2. status[b] = "unsent"
    BY <1>0, <2>1 DEF CallInv, BatchOfCall
  <2>3. BatchOfCall(b)' /\ NothingAhead(b)' /\ CallIsOver(b)'
    BY <1>0, <1>1, <2>1, <2>2 DEF CallInv, BatchOfCall, NothingAhead, CallIsOver, Settled
  <2>4. ShownAreSeen(b)' /\ LastIsFinal(b)'
    BY <1>0, <1>1, <2>1, <2>2 DEF CallInv, ShownAreSeen, LastIsFinal, Tagged
  <2> QED BY <1>2, <2>3, <2>4 DEF CallInv
<1>4. CASE CloseStream(b)
  <2>1. /\ bridged /\ answer[b] # None /\ channel[b] # <<>> /\ channel'[b] = <<>>
        /\ UNCHANGED <<caller, request, seen, current>>
    BY <1>0, <1>4 DEF CloseStream, callVars, statusVars, Types
  <2>2. BatchOfCall(b)' /\ NothingAhead(b)' /\ CallIsOver(b)'
    BY <1>0, <1>1, <2>1 DEF CallInv, BatchOfCall, NothingAhead, CallIsOver, Settled
  <2>3. ShownAreSeen(b)' /\ LastIsFinal(b)'
    BY <1>0, <1>1, <2>1 DEF CallInv, ShownAreSeen, LastIsFinal, Tagged
  <2> QED BY <1>2, <2>2, <2>3 DEF CallInv
<1>5. CASE Resume(b)
  <2>1. /\ caller[b] = "awaiting" /\ caller'[b] = "returned" /\ UNCHANGED <<request, channel>>
        /\ bridged => channel[b] = <<>>
        /\ current' = (current \ Tagged(b, seen[b].paths)) \cup Tagged(b, {})
    BY <1>0, <1>5 DEF Resume, Types, Tagged
  <2>2. /\ Applied(b, {}) /\ status[b] = "answered"
        /\ seen'[b].success = success[b] /\ seen'[b].failed = failed[b] /\ seen'[b].paths = {}
    BY <1>5, CallerApplies DEF Applied
  <2>3. BatchOfCall(b)' /\ NothingAhead(b)' /\ CallIsOver(b)'
    BY <1>0, <1>1, <2>1, <2>2 DEF CallInv, BatchOfCall, NothingAhead, CallIsOver, Settled, Applied
  <2>4. FilesOf(b)' = Tagged(b, {})
    BY <1>0, <2>1, FilesReplaced DEF CallInv
  <2>5. ShownAreSeen(b)'
    BY <2>2, <2>4 DEF ShownAreSeen, FilesOf, Tagged
  <2>6. LastIsFinal(b)'
    BY <1>0, <1>1, <2>1, <2>2 DEF CallInv, LastIsFinal
  <2> QED BY <1>2, <2>3, <2>5, <2>6 DEF CallInv
<1>6. CASE Throw(b) \/ ThrowCounted(b)
  <2>1. /\ caller[b] = "awaiting" /\ status[b] = "refused" /\ UNCHANGED <<request, channel, seen, current>>
        /\ caller'[b] \in {"threw", "counted"} /\ (caller'[b] = "counted" => request[b] = 1)
    BY <1>0, <1>6 DEF Throw, ThrowCounted, Types, statusVars
  <2>2. BatchOfCall(b)' /\ NothingAhead(b)' /\ CallIsOver(b)'
    BY <1>0, <1>1, <2>1 DEF CallInv, BatchOfCall, NothingAhead, CallIsOver, Settled
  <2>3. ShownAreSeen(b)' /\ LastIsFinal(b)'
    BY <1>0, <1>1, <2>1 DEF CallInv, ShownAreSeen, LastIsFinal, Tagged
  <2> QED BY <1>2, <2>2, <2>3 DEF CallInv
<1> QED BY <1>3, <1>4, <1>5, <1>6

-----------------------------------------------------------------------------
\* A call's step adds to the totals what it changes of its own part.
LEMMA TotalsStep ==
  ASSUME IInv, NEW b \in Batches, StepOf(b), CallInv(b)'
  PROVE  /\ total' = total + Expected'[b] - Expected[b]
         /\ successShown' + failedShown' = successShown + failedShown + Shown'[b] - Shown[b]
<1>0. Types /\ CallInv(b)
  BY DEF IInv, CallsInv
<1> USE DEF promiseVars, progressVars, tickerVars, callVars, statusVars
<1>1. /\ total \in Nat /\ successShown \in Nat /\ failedShown \in Nat
      /\ seen[b].success \in Nat /\ seen[b].failed \in Nat /\ success[b] \in Nat /\ failed[b] \in Nat
  BY <1>0, ProgressAssumption DEF Types, Snapshots
<1>2. /\ Shown[b] = seen[b].success + seen[b].failed + IF caller[b] = "counted" THEN 1 ELSE 0
      /\ Shown'[b] = seen'[b].success + seen'[b].failed + IF caller'[b] = "counted" THEN 1 ELSE 0
      /\ Expected[b] = IF caller[b] = "idle" THEN 0 ELSE IF caller[b] = "returned" THEN Settled(b) ELSE request[b]
      /\ Expected'[b] = IF caller'[b] = "idle" THEN 0 ELSE IF caller'[b] = "returned" THEN Settled(b)' ELSE request'[b]
  BY DEF Shown, Expected
<1>3. ASSUME UNCHANGED <<caller, request, seen, total, successShown, failedShown>>,
             caller[b] = "returned" => Settled(b)' = Settled(b)
      PROVE  /\ total' = total + Expected'[b] - Expected[b]
             /\ successShown' + failedShown' = successShown + failedShown + Shown'[b] - Shown[b]
  <2>1. Shown'[b] = Shown[b] /\ Expected'[b] = Expected[b]
    BY <1>2, <1>3
  <2>2. Shown[b] \in Nat /\ Expected[b] \in Nat
    BY ShownIsExpected, ProgressAssumption DEF IInv, PartsAgree, Counts
  <2> QED BY <1>1, <1>3, <2>1, <2>2
<1>4. CASE \/ Open(b) \/ Decline(b) \/ ShowFile(b) \/ HideFile(b) \/ SettleOne(b) \/ Collect(b)
           \/ SendTick(b) \/ StopTicker(b) \/ Finalize(b) \/ CloseStream(b)
  <2>1. UNCHANGED <<caller, request, seen, total, successShown, failedShown>>
    BY <1>4 DEF Open, Decline, ShowFile, HideFile, SettleOne, Collect, SendTick, StopTicker, Finalize, CloseStream
  <2>2. UNCHANGED <<success, failed>> \/ status[b] = "open"
    BY <1>4 DEF Open, Decline, ShowFile, HideFile, SettleOne, Collect, SendTick, StopTicker, Finalize, CloseStream,
                Send, Refuse, Show, Hide, SettleOk, SettleBad, Unfinished, Answer
  <2>3. caller[b] = "returned" => Settled(b)' = Settled(b)
    BY <1>0, <2>2 DEF CallInv, CallIsOver, Settled
  <2> QED BY <1>3, <2>1, <2>3
<1>5. ASSUME NEW n \in Counts, Call(b, n)
      PROVE  /\ total' = total + Expected'[b] - Expected[b]
             /\ successShown' + failedShown' = successShown + failedShown + Shown'[b] - Shown[b]
  <2>1. /\ caller[b] = "idle" /\ caller'[b] = "awaiting" /\ request'[b] = n /\ total' = total + n
        /\ UNCHANGED <<seen, successShown, failedShown>> /\ n \in Nat
    BY <1>0, <1>5, ProgressAssumption DEF Call, Types, Counts
  <2> QED BY <1>1, <1>2, <2>1
<1>6. CASE OnMessage(b)
  <2>1. /\ UNCHANGED <<caller, request, success, failed, total>>
    BY <1>6 DEF OnMessage
  <2>2. /\ seen' \in [Batches -> Snapshots]
        /\ successShown' = successShown + seen'[b].success - seen[b].success
        /\ failedShown' = failedShown + seen'[b].failed - seen[b].failed
    BY <1>6, CallerApplies DEF Applied
  <2>3. seen'[b].success \in Nat /\ seen'[b].failed \in Nat
    BY <2>2, ProgressAssumption DEF Snapshots
  <2>4. Expected'[b] = Expected[b] /\ Expected[b] \in Nat
    BY <2>1, ShownIsExpected, ProgressAssumption DEF IInv, PartsAgree, Expected, Settled, Counts
  <2> QED BY <1>1, <1>2, <2>1, <2>2, <2>3, <2>4
<1>7. CASE Resume(b)
  <2>1. /\ caller[b] = "awaiting" /\ caller'[b] = "returned" /\ UNCHANGED <<success, failed>>
    BY <1>0, <1>7 DEF Resume, Types
  <2>2. /\ seen' \in [Batches -> Snapshots]
        /\ successShown' = successShown + seen'[b].success - seen[b].success
        /\ failedShown' = failedShown + seen'[b].failed - seen[b].failed
        /\ total' = total - (request[b] - Settled(b))
    BY <1>7, CallerApplies DEF Applied
  <2>3. /\ seen'[b].success \in Nat /\ seen'[b].failed \in Nat /\ Settled(b) \in Nat /\ Settled(b)' = Settled(b)
        /\ request[b] \in Nat
    <3>1. seen'[b].success \in Nat /\ seen'[b].failed \in Nat
      BY <2>2, ProgressAssumption DEF Snapshots
    <3>2. Settled(b) \in Nat /\ Settled(b)' = Settled(b)
      BY <1>1, <2>1 DEF Settled
    <3>3. request[b] \in Nat
      BY <1>0, <2>1, ProgressAssumption DEF CallInv, BatchOfCall, Counts
    <3> QED BY <3>1, <3>2, <3>3
  <2> QED BY <1>1, <1>2, <2>1, <2>2, <2>3
<1>8. CASE Throw(b) \/ ThrowCounted(b)
  <2>1. /\ caller[b] = "awaiting" /\ UNCHANGED <<request, seen, total, successShown>>
        /\ \/ caller'[b] = "threw" /\ failedShown' = failedShown
           \/ caller'[b] = "counted" /\ failedShown' = failedShown + 1
    <3>1. CASE Throw(b)
      BY <1>0, <3>1 DEF Throw, Types
    <3>2. CASE ThrowCounted(b)
      BY <1>0, <3>2 DEF ThrowCounted, Types
    <3> QED BY <1>8, <3>1, <3>2
  <2>2. request[b] \in Nat
    BY <1>0, <2>1, ProgressAssumption DEF CallInv, BatchOfCall, Counts
  <2> QED BY <1>1, <1>2, <2>1, <2>2
<1> QED BY <1>4, <1>5, <1>6, <1>7, <1>8, StepCases

-----------------------------------------------------------------------------
\* What a call takes back from the total it had added to it.
LEMMA ResumeTotal ==
  ASSUME IInv, NEW b \in Batches, Resume(b)
  PROVE  total' \in Nat
<1>1. total' = total - (request[b] - Settled(b)) /\ caller[b] = "awaiting"
  BY CallerApplies DEF Resume
<1>2. Expected \in [Batches -> Counts] /\ Expected[b] = request[b]
  BY <1>1, ShownIsExpected DEF IInv, PartsAgree, Expected
<1>3. request[b] \in Nat /\ request[b] <= total
  BY <1>2, PartOfSum, ProgressAssumption DEF IInv, TotalsAreSums, Counts
<1>4. Settled(b) \in Nat /\ total \in Nat
  BY DEF IInv, Types, Settled
<1> QED BY <1>1, <1>3, <1>4

\* Every step keeps the invariant.
LEMMA StepInv == IInv /\ [Next]_vars => IInv'
<1> SUFFICES ASSUME IInv, [Next]_vars PROVE IInv'
  OBVIOUS
<1>0. Types /\ \A c \in Batches : CallInv(c)
  BY DEF IInv, CallsInv
<1>1. ASSUME NEW b \in Batches, StepOf(b) PROVE IInv'
  <2>1. \A c \in Batches : c # b => SameCall(c)
    BY <1>1, OthersStay
  <2>2. CallInv(b)'
    BY <1>1, StepCases, QuietSteps, SendingSteps, MessageStep, CallerSteps
  <2>3. \A c \in Batches : CallInv(c)'
    BY <1>0, <2>1, <2>2, SameCallKeeps
  <2>4. /\ total' = total + Expected'[b] - Expected[b]
        /\ successShown' + failedShown' = successShown + failedShown + Shown'[b] - Shown[b]
    BY <1>1, <2>2, TotalsStep
  <2>5. Types'
    <3>1. CASE \/ \E n \in Counts : Call(b, n)
               \/ OnMessage(b) \/ CloseStream(b) \/ Resume(b) \/ Throw(b) \/ ThrowCounted(b)
      <4>1. total' \in Nat
        <5>1. ASSUME NEW n \in Counts, Call(b, n) PROVE total' \in Nat
          BY <1>0, <5>1, ProgressAssumption DEF Call, Types, Counts
        <5>2. CASE Resume(b)
          BY <5>2, ResumeTotal
        <5>3. CASE OnMessage(b) \/ CloseStream(b) \/ Throw(b) \/ ThrowCounted(b)
          BY <1>0, <5>3 DEF OnMessage, CloseStream, Throw, ThrowCounted, statusVars, Types
        <5> QED BY <3>1, <5>1, <5>2, <5>3
      <4> QED BY <3>1, <4>1, CallerTypes
    <3>2. CASE \/ Open(b) \/ Decline(b) \/ ShowFile(b) \/ HideFile(b) \/ SettleOne(b) \/ Collect(b)
               \/ SendTick(b) \/ StopTicker(b) \/ Finalize(b)
      BY <3>2, BackendTypes
    <3> QED BY <1>1, <3>1, <3>2, StepCases
  <2>6. TotalsAreSums'
    <3>1. Shown \in [Batches -> Counts] /\ Expected \in [Batches -> Counts]
      BY ShownIsExpected DEF IInv, PartsAgree
    <3>2. Shown' \in [Batches -> Counts] /\ Expected' \in [Batches -> Counts]
      BY <2>3, <2>5, ShownIsExpectedNext DEF CallsInv, PartsAgree
    <3>3. \A c \in Batches : c # b => Shown'[c] = Shown[c] /\ Expected'[c] = Expected[c]
      BY <2>1 DEF Shown, Expected, SameCall, Settled
    <3>4. /\ Sum(Shown') = Sum(Shown) + Shown'[b] - Shown[b]
          /\ Sum(Expected') = Sum(Expected) + Expected'[b] - Expected[b]
      BY <3>1, <3>2, <3>3, SumOfUpdate
    <3>5. successShown + failedShown = Sum(Shown) /\ total = Sum(Expected)
      BY DEF IInv, TotalsAreSums
    <3> QED BY <2>4, <3>4, <3>5 DEF TotalsAreSums, Sum, Tokens
  <2> QED BY <2>3, <2>5, <2>6 DEF IInv, CallsInv
<1>2. CASE Cancel \/ UNCHANGED vars
  <2>1. UNCHANGED <<status, size, success, failed, inFlight, answer, progressVars>>
    BY <1>2 DEF Cancel, CancelAll, vars, promiseVars
  <2> USE <2>1 DEF progressVars, callVars, tickerVars, statusVars
  <2>2. \A b \in Batches : SameCall(b)
    BY DEF SameCall, FilesOf
  <2>3. \A b \in Batches : CallInv(b)'
    BY <1>0, <2>2, SameCallKeeps
  <2>4. Types'
    BY <1>0 DEF Types
  <2>5. TotalsAreSums'
    BY DEF IInv, TotalsAreSums, Shown, Expected, Settled, Sum, Tokens
  <2> QED BY <2>3, <2>4, <2>5 DEF IInv, CallsInv
<1> QED BY <1>1, <1>2 DEF Next, StepOf, Counts

\* The invariant holds in every state the calls and their batches reach.
THEOREM Invariance == Spec => []IInv
<1>1. Init => IInv
  BY InitInv
<1>2. IInv /\ [Next]_vars => IInv'
  BY StepInv
<1> QED BY <1>1, <1>2, PTL DEF Spec

\* The progress of every call and the totals have their types; no total ever falls below zero.
THEOREM TypeCorrectness == Spec => []TypeOK
<1>1. IInv => TypeOK
  <2> SUFFICES ASSUME IInv PROVE TypeOK
    OBVIOUS
  <2>1. ASSUME NEW b \in Batches, NEW k \in DOMAIN channel[b] PROVE channel[b][k] \in Snapshots
    <3>1. channel[b] \in Seq(Snapshots)
      BY DEF IInv, Types
    <3> QED BY <2>1, <3>1
  <2> QED BY <2>1 DEF IInv, Types, TypeOK, Counts
<1> QED BY <1>1, Invariance, PTL

\* What is shown as settled is at most the total, and exactly the total when every call is over,
\* for any calls, cancellations and lateness of the snapshots.
THEOREM TotalsAgree == Spec => []TotalsSettle
<1>1. IInv => TotalsSettle
  <2> SUFFICES ASSUME IInv PROVE TotalsSettle
    OBVIOUS
  <2>1. PartsAgree /\ successShown + failedShown = Sum(Shown) /\ total = Sum(Expected)
    BY ShownIsExpected DEF IInv, TotalsAreSums
  <2>2. Sum(Shown) <= Sum(Expected)
    BY <2>1, SumIsMonotone DEF PartsAgree
  <2>3. ASSUME \A b \in Batches : caller[b] \in {"idle", "returned", "counted"}
        PROVE  successShown + failedShown = total
    <3>1. \A b \in Batches : Expected[b] <= Shown[b]
      BY <2>1, <2>3, ProgressAssumption DEF PartsAgree, Counts
    <3>2. Sum(Expected) <= Sum(Shown)
      BY <2>1, <3>1, SumIsMonotone DEF PartsAgree
    <3>3. Sum(Expected) \in Nat /\ Sum(Shown) \in Nat
      BY TokensFinite
    <3> QED BY <2>1, <2>2, <3>2, <3>3
  <2> QED BY <2>1, <2>2, <2>3 DEF TotalsSettle
<1> QED BY <1>1, Invariance, PTL

\* When the ticker is awaited, as in Go, a call that is over shows no file.  (The Rust backend, which
\* does not wait, violates it: run ghost_download.)
THEOREM NoGhosts == TickerAwaited => (Spec => []NoGhostDownloads)
<1> SUFFICES ASSUME TickerAwaited PROVE Spec => []NoGhostDownloads
  OBVIOUS
<1>1. IInv => NoGhostDownloads
  <2> SUFFICES ASSUME IInv, NEW b \in Batches, Over(b) PROVE {file \in current : file[1] = b} = {}
    BY DEF NoGhostDownloads
  <2>1. ShownAreSeen(b) /\ LastIsFinal(b)
    BY DEF IInv, CallsInv, CallInv
  <2>2. seen[b].paths = {}
    BY <2>1 DEF LastIsFinal, Over
  <2> QED BY <2>1, <2>2 DEF ShownAreSeen, Tagged
<1> QED BY <1>1, Invariance, PTL

\* No count that is shown ever falls, however the snapshots of the calls interleave with the answers.
THEOREM CountsOnlyGrow == Spec => CountsNeverFall
<1>1. IInv /\ [Next]_vars => [successShown' >= successShown /\ failedShown' >= failedShown]_<<successShown, failedShown>>
  <2> SUFFICES ASSUME IInv, [Next]_vars, successShown' # successShown \/ failedShown' # failedShown
               PROVE  successShown' >= successShown /\ failedShown' >= failedShown
    OBVIOUS
  <2> USE DEF promiseVars, progressVars, tickerVars, callVars, statusVars
  <2>1. ~Cancel /\ ~UNCHANGED vars
    BY DEF Cancel, CancelAll, vars
  <2>2. PICK b \in Batches : StepOf(b)
    BY <2>1 DEF Next, StepOf, Counts
  <2>3. OnMessage(b) \/ Resume(b) \/ ThrowCounted(b)
    <3>1. ~(\E n \in Counts : Call(b, n)) /\ ~CloseStream(b) /\ ~Throw(b)
      BY DEF Call, CloseStream, Throw
    <3>2. /\ ~Open(b) /\ ~Decline(b) /\ ~ShowFile(b) /\ ~HideFile(b) /\ ~SettleOne(b) /\ ~Collect(b)
          /\ ~SendTick(b) /\ ~StopTicker(b) /\ ~Finalize(b)
      BY DEF Open, Decline, ShowFile, HideFile, SettleOne, Collect, SendTick, StopTicker, Finalize
    <3> QED BY <2>2, <3>1, <3>2, StepCases
  <2>4. CASE OnMessage(b) \/ Resume(b)
    BY <2>4, CallerApplies DEF Applied
  <2>5. CASE ThrowCounted(b)
    BY <2>5 DEF ThrowCounted, IInv, Types
  <2> QED BY <2>3, <2>4, <2>5
<1> QED BY <1>1, Invariance, PTL DEF Spec, CountsNeverFall
=============================================================================
