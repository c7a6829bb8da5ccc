--------------------------- MODULE HostPartsProofs ---------------------------
(***************************************************************************)
(* Proofs about the parts that the page is surrounded with: the artifact   *)
(* store, files, downloads and events of the preview in a browser, the     *)
(* bridge to the Go backend, the stream of the log and the search in it,   *)
(* hooks and extensions, and the permissions of those in the sandbox.      *)
(***************************************************************************)
EXTENDS HostParts, SequenceLemmas

-----------------------------------------------------------------------------
(* The artifact store, for any number of launches, chunks and relaunches.  *)
(* What the partial file denotes is whole or is being written by someone   *)
(* who has filled it so far: whoever cuts it to nothing is that someone    *)
(* from then on, and whoever gives up removes the name.  That holds        *)
(* however many downloads share the name, so the last of them publishes    *)
(* the whole.  What was published is spoiled only by cutting its inode,    *)
(* which needs a name for it: the partial name denotes another.            *)

\* A launch that was started has a round, and one that writes has a file.
LaunchHasFile ==
  \A l \in Launches : (pc[l] # "idle" => round[l] >= 1) /\ (Writing(l) => handle[l] \in Inodes)

\* A download creates one inode in a round.
NamesAreFresh ==
  \A l \in Launches, r \in 1..MaxRounds :
    <<l, r>> \in {part, final} => r <= round[l] /\ (pc[l] = "missing" => r < round[l])

\* What is being written is not what is published.
PartIsNotFinal == part # None => part # final

\* What the partial name denotes is whole, or someone is filling it from the start.
PartIsFilled ==
  part # None =>
    \/ content[part] = Whole
    \/ \E l \in Launches : Writing(l) /\ handle[l] = part /\ 1..written[l] \subseteq content[part]

\* Downloads that do not overlap have one writer at most.
OneWriter == ~shared => \A l, m \in Launches : Writing(l) /\ Writing(m) => l = m

IInv ==
  /\ TypeOK
  /\ LaunchHasFile
  /\ NamesAreFresh
  /\ PartIsNotFinal
  /\ PartIsFilled
  /\ OneWriter
  /\ WholeUnlessShared

-----------------------------------------------------------------------------
\* The initial states satisfy the invariant.
LEMMA InitInv == Init => IInv
<1> SUFFICES ASSUME Init PROVE IInv
  OBVIOUS
<1> USE StoreAssumption DEF Init
<1>1. TypeOK
  <2>1. /\ pc \in [Launches -> {"idle", "missing", "writing", "ready", "failed", "cancelled"}]
        /\ round \in [Launches -> 0..MaxRounds] /\ written \in [Launches -> 0..Chunks]
    OBVIOUS
  <2>2. /\ handle \in [Launches -> Inodes \cup {None}] /\ content \in [Inodes -> SUBSET Whole]
        /\ {part, final} \subseteq Inodes \cup {None} /\ shared \in BOOLEAN
    OBVIOUS
  <2> QED BY <2>1, <2>2 DEF TypeOK
<1>2. LaunchHasFile /\ NamesAreFresh
  BY DEF LaunchHasFile, NamesAreFresh, Writing, Inodes
<1>3. PartIsNotFinal /\ PartIsFilled /\ OneWriter /\ WholeUnlessShared
  BY DEF PartIsNotFinal, PartIsFilled, OneWriter, Writing, WholeUnlessShared, PublishedWhole
<1> QED BY <1>1, <1>2, <1>3 DEF IInv

\* Looking for the artifact starts a round, in which no file has been created.
LEMMA VerifyStep ==
  ASSUME IInv, NEW l \in Launches, Verify(l)
  PROVE  IInv'
<1> USE DEF IInv
<1>0. /\ pc[l] \in {"idle", "ready", "failed", "cancelled"} /\ pc'[l] \in {"ready", "missing"}
      /\ round[l] \in Nat /\ round'[l] = round[l] + 1 /\ round[l] < MaxRounds /\ MaxRounds \in Nat
      /\ \A m \in Launches : m # l => pc'[m] = pc[m] /\ round'[m] = round[m]
      /\ UNCHANGED <<handle, written, content, part, final, shared>>
  BY StoreAssumption DEF Verify, TypeOK
<1>1. TypeOK'
  <2>1. round' \in [Launches -> 0..MaxRounds]
    BY <1>0 DEF Verify, TypeOK
  <2>2. pc' \in [Launches -> {"idle", "missing", "writing", "ready", "failed", "cancelled"}]
    BY DEF Verify, TypeOK
  <2> QED BY <1>0, <2>1, <2>2 DEF TypeOK
<1>2. \A m \in Launches : Writing(m)' <=> Writing(m)
  BY <1>0 DEF Writing
<1>3. LaunchHasFile'
  BY <1>0, <1>2 DEF LaunchHasFile
<1>4. NamesAreFresh'
  BY <1>0 DEF NamesAreFresh
<1>5. PartIsFilled' /\ PartIsNotFinal' /\ OneWriter' /\ WholeUnlessShared'
  BY <1>0, <1>2 DEF PartIsFilled, PartIsNotFinal, OneWriter, WholeUnlessShared, PublishedWhole
<1> QED BY <1>1, <1>3, <1>4, <1>5

\* Creating the partial file cuts what it denotes, which is not what is published.
LEMMA CreateStep ==
  ASSUME IInv, NEW l \in Launches, Create(l)
  PROVE  IInv'
<1> USE DEF IInv
<1> DEFINE inode == IF part = None THEN <<l, round[l]>> ELSE part
<1>0. /\ pc[l] = "missing" /\ part' = inode
      /\ handle' = [handle EXCEPT ![l] = inode] /\ content' = [content EXCEPT ![inode] = {}]
      /\ written' = [written EXCEPT ![l] = 0] /\ pc' = [pc EXCEPT ![l] = "writing"]
      /\ shared' = (shared \/ \E m \in Launches \ {l} : Writing(m))
      /\ UNCHANGED <<round, final>>
  BY DEF Create
<1>1. round[l] \in 1..MaxRounds /\ <<l, round[l]>> \in Inodes
  BY <1>0, StoreAssumption DEF LaunchHasFile, TypeOK, Inodes
<1>2. inode \in Inodes /\ inode # None
  BY <1>1, StoreAssumption DEF TypeOK
<1>3. inode # final
  <2>1. CASE part = None
    <3>1. <<l, round[l]>> # final
      BY <1>0, <1>1 DEF NamesAreFresh
    <3> QED BY <2>1, <3>1
  <2>2. CASE part # None
    BY <2>2 DEF PartIsNotFinal
  <2> QED BY <2>1, <2>2
<1> HIDE DEF inode
<1>4. TypeOK'
  BY <1>0, <1>2, StoreAssumption DEF TypeOK
<1>5. /\ Writing(l)' /\ handle'[l] = inode /\ written'[l] = 0 /\ content'[inode] = {}
      /\ \A m \in Launches : m # l => (Writing(m)' <=> Writing(m)) /\ handle'[m] = handle[m] /\ pc'[m] = pc[m]
      /\ ~Writing(l)
  BY <1>0, <1>2 DEF Writing, TypeOK
<1>6. LaunchHasFile'
  BY <1>0, <1>1, <1>2, <1>5 DEF LaunchHasFile, Writing, TypeOK
<1>7. NamesAreFresh'
  <2> SUFFICES ASSUME NEW m \in Launches, NEW r \in 1..MaxRounds, <<m, r>> \in {inode, final}
               PROVE  r <= round[m] /\ (pc'[m] = "missing" => r < round[m])
    BY <1>0 DEF NamesAreFresh
  <2>1. CASE <<m, r>> \in {part, final}
    BY <1>0, <1>5, <2>1 DEF NamesAreFresh, TypeOK
  <2>2. CASE <<m, r>> = <<l, round[l]>>
    <3>1. m = l /\ r = round[l] /\ pc'[l] = "writing"
      BY <1>0, <2>2 DEF TypeOK
    <3> QED BY <1>1, <3>1
  <2> QED BY <2>1, <2>2 DEF inode
<1>8. PartIsNotFinal'
  BY <1>0, <1>3 DEF PartIsNotFinal
<1>9. PartIsFilled'
  BY <1>0, <1>5 DEF PartIsFilled
<1>10. OneWriter'
  BY <1>0, <1>5 DEF OneWriter
<1>11. WholeUnlessShared'
  <2>1. final # None => content'[final] = content[final]
    BY <1>0, <1>2, <1>3 DEF TypeOK
  <2> QED BY <1>0, <2>1 DEF WholeUnlessShared, PublishedWhole
<1> QED BY <1>4, <1>6, <1>7, <1>8, <1>9, <1>10, <1>11

\* A chunk only adds to what is there.
LEMMA WriteStep ==
  ASSUME IInv, NEW l \in Launches, Write(l)
  PROVE  IInv'
<1> USE DEF IInv
<1>0. /\ Writing(l) /\ written[l] \in Nat /\ written[l] < Chunks /\ written'[l] = written[l] + 1
      /\ \A m \in Launches : m # l => written'[m] = written[m]
      /\ handle[l] \in Inodes
      /\ content' = [content EXCEPT ![handle[l]] = @ \cup {written[l] + 1}]
      /\ UNCHANGED <<pc, round, handle, part, final, shared>>
  BY DEF Write, TypeOK, LaunchHasFile
<1>1. written[l] + 1 \in Whole
  BY <1>0, StoreAssumption DEF Whole
<1>2. \A i \in Inodes : content[i] \subseteq content'[i] /\ content'[i] \subseteq Whole
  BY <1>0, <1>1 DEF TypeOK
<1>3. TypeOK'
  <2>1. content' \in [Inodes -> SUBSET Whole]
    BY <1>0, <1>1 DEF TypeOK
  <2>2. written' \in [Launches -> 0..Chunks]
    BY <1>0, StoreAssumption DEF Write, TypeOK
  <2> QED BY <1>0, <2>1, <2>2 DEF TypeOK
<1>4. LaunchHasFile' /\ NamesAreFresh' /\ PartIsNotFinal' /\ OneWriter'
  BY <1>0 DEF LaunchHasFile, NamesAreFresh, PartIsNotFinal, OneWriter, Writing
<1>5. WholeUnlessShared'
  BY <1>0, <1>2 DEF WholeUnlessShared, PublishedWhole, TypeOK
<1>6. PartIsFilled'
  <2> SUFFICES ASSUME part # None
               PROVE  \/ content'[part] = Whole
                      \/ \E m \in Launches : Writing(m)' /\ handle'[m] = part /\ 1..written'[m] \subseteq content'[part]
    BY <1>0 DEF PartIsFilled
  <2>1. part \in Inodes
    BY DEF TypeOK
  <2>2. CASE content[part] = Whole
    BY <1>2, <2>1, <2>2
  <2>3. ASSUME NEW m \in Launches, Writing(m), handle[m] = part, 1..written[m] \subseteq content[part]
        PROVE  Writing(m)' /\ handle'[m] = part /\ 1..written'[m] \subseteq content'[part]
    <3>1. CASE m = l
      <4>1. content'[part] = content[part] \cup {written[l] + 1}
        BY <1>0, <2>1, <2>3, <3>1 DEF TypeOK
      <4>2. 1..(written[l] + 1) \subseteq (1..written[l]) \cup {written[l] + 1}
        BY <1>0
      <4> QED BY <1>0, <2>3, <3>1, <4>1, <4>2 DEF Writing
    <3>2. CASE m # l
      BY <1>0, <1>2, <2>1, <2>3, <3>2 DEF Writing
    <3> QED BY <3>1, <3>2
  <2> QED BY <2>2, <2>3 DEF PartIsFilled
<1> QED BY <1>3, <1>4, <1>5, <1>6

\* A launch that has written all there is, and whom nobody else disturbs, has a whole partial file.
LEMMA PublishesWhole ==
  ASSUME IInv, NEW l \in Launches, Writing(l), written[l] = Chunks, part # None,
         \A m \in Launches : Writing(m) => m = l
  PROVE  content[part] = Whole
<1>1. content[part] \subseteq Whole
  BY DEF IInv, TypeOK
<1> QED BY <1>1 DEF IInv, PartIsFilled, Whole

\* Publishing moves the partial file, which is whole unless somebody else is at it.
LEMMA PublishStep ==
  ASSUME IInv, NEW l \in Launches, Publish(l)
  PROVE  IInv'
<1> USE DEF IInv
<1>0. /\ Writing(l) /\ written[l] = Chunks /\ part # None /\ final' = part /\ part' = None
      /\ pc' = [pc EXCEPT ![l] = "ready"]
      /\ UNCHANGED <<round, handle, written, content, shared>>
  BY DEF Publish
<1>1. TypeOK'
  BY <1>0 DEF TypeOK
<1>2. /\ pc'[l] = "ready" /\ \A m \in Launches : m # l => pc'[m] = pc[m]
      /\ pc[l] = "writing" /\ \A m \in Launches : Writing(m)' => Writing(m)
  BY <1>0 DEF TypeOK, Writing
<1>3. LaunchHasFile' /\ OneWriter'
  BY <1>0, <1>2 DEF LaunchHasFile, OneWriter
<1>4. NamesAreFresh'
  <2>1. \A m \in Launches, r \in 1..MaxRounds : <<m, r>> # None
    BY StoreAssumption DEF Inodes
  <2> QED BY <1>0, <1>2, <2>1 DEF NamesAreFresh
<1>5. PartIsNotFinal' /\ PartIsFilled'
  BY <1>0 DEF PartIsNotFinal, PartIsFilled
<1>6. WholeUnlessShared'
  <2>1. ~shared => content[part] = Whole
    BY <1>0, PublishesWhole DEF OneWriter
  <2> QED BY <1>0, <2>1 DEF WholeUnlessShared, PublishedWhole
<1> QED BY <1>1, <1>3, <1>4, <1>5, <1>6

\* Whoever gives up removes the partial name, or leaves it with the whole file.
LEMMA GiveUpStep ==
  ASSUME IInv, NEW l \in Launches,
         PublishFails(l) \/ RequestFails(l) \/ \E outcome \in {"failed", "cancelled"} : Abandon(l, outcome)
  PROVE  IInv'
<1> USE DEF IInv
<1>0. /\ pc[l] # "idle" /\ pc'[l] \in {"failed", "cancelled"} /\ \A m \in Launches : m # l => pc'[m] = pc[m]
      /\ pc' \in [Launches -> {"idle", "missing", "writing", "ready", "failed", "cancelled"}]
      /\ UNCHANGED <<round, handle, written, content, final, shared>> /\ part' \in {part, None}
      /\ \A m \in Launches : Writing(m)' => Writing(m)
      /\ \A m \in Launches : m # l => (Writing(m)' <=> Writing(m))
  BY DEF PublishFails, RequestFails, Abandon, TypeOK, Writing
<1>1. TypeOK'
  BY <1>0 DEF TypeOK
<1>2. LaunchHasFile' /\ OneWriter'
  BY <1>0 DEF LaunchHasFile, OneWriter
<1>3. NamesAreFresh'
  <2>1. \A m \in Launches, r \in 1..MaxRounds : <<m, r>> # None
    BY StoreAssumption DEF Inodes
  <2> QED BY <1>0, <2>1 DEF NamesAreFresh
<1>4. PartIsNotFinal' /\ WholeUnlessShared'
  BY <1>0 DEF PartIsNotFinal, WholeUnlessShared, PublishedWhole
<1>5. PartIsFilled'
  <2>1. CASE \E outcome \in {"failed", "cancelled"} : Abandon(l, outcome)
    BY <2>1 DEF Abandon, PartIsFilled
  <2>2. CASE RequestFails(l)
    <3>1. ~Writing(l) /\ part' = part
      BY <2>2 DEF RequestFails, Writing
    <3> QED BY <1>0, <3>1 DEF PartIsFilled
  <2>3. CASE PublishFails(l)
    <3>1. written[l] = Chunks /\ part' = part
      BY <2>3 DEF PublishFails
    <3>2. part # None => content[part] \subseteq Whole
      BY DEF TypeOK
    <3> QED BY <1>0, <3>1, <3>2 DEF PartIsFilled, Whole
  <2> QED BY <2>1, <2>2, <2>3
<1> QED BY <1>1, <1>2, <1>3, <1>4, <1>5

\* Every step keeps the invariant.
LEMMA StepInv == IInv /\ [Next]_vars => IInv'
<1> SUFFICES ASSUME IInv, [Next]_vars PROVE IInv'
  OBVIOUS
<1>1. CASE UNCHANGED vars
  BY <1>1 DEF vars, IInv, TypeOK, LaunchHasFile, NamesAreFresh, PartIsNotFinal, PartIsFilled, OneWriter, Writing,
              WholeUnlessShared, PublishedWhole
<1>2. CASE Next
  BY <1>2, VerifyStep, CreateStep, WriteStep, PublishStep, GiveUpStep DEF Next
<1> QED BY <1>1, <1>2

\* The invariant holds in every state the launches and their files reach.
THEOREM Invariance == Spec => []IInv
<1> QED BY InitInv, StepInv, PTL DEF Spec

\* The launches and the files have their types: nobody writes more than there is.
THEOREM TypeCorrectness == Spec => []TypeOK
<1>1. IInv => TypeOK
  BY DEF IInv
<1> QED BY <1>1, Invariance, PTL

\* As long as no two downloads of the artifact overlap the final name shows it whole or not at all,
\* through failures, cancellations, leftover partial files and relaunches.
THEOREM NamedIsWhole == Spec => []WholeUnlessShared
<1>1. IInv => WholeUnlessShared
  BY DEF IInv
<1> QED BY <1>1, Invariance, PTL

\* A launch with checksums that has its artifact, with nobody else downloading it, has a whole one,
\* whatever happened to it before.
THEOREM ChecksumRepairs == Spec => RepairedByChecksum
<1>1. IInv /\ [Next]_vars =>
        [\A l \in Checked :
           /\ pc[l] # "ready" /\ pc'[l] = "ready"
           /\ \A m \in Launches \ {l} : ~Downloading(m)
           => PublishedWhole']_vars
  <2> SUFFICES ASSUME IInv, Next, NEW l \in Checked, pc[l] # "ready", pc'[l] = "ready",
                      \A m \in Launches \ {l} : ~Downloading(m)
               PROVE  PublishedWhole'
    OBVIOUS
  <2>1. l \in Launches /\ pc \in [Launches -> {"idle", "missing", "writing", "ready", "failed", "cancelled"}]
    BY StoreAssumption DEF IInv, TypeOK
  <2>2. PICK m \in Launches : \/ Verify(m) \/ Create(m) \/ Write(m) \/ Publish(m) \/ PublishFails(m) \/ RequestFails(m)
                              \/ \E outcome \in {"failed", "cancelled"} : Abandon(m, outcome)
    BY DEF Next
  <2>3. Verify(l) \/ Publish(l)
    <3>1. m = l
      BY <2>1, <2>2 DEF Verify, Create, Write, Publish, PublishFails, RequestFails, Abandon
    <3>2. ~Create(l) /\ ~Write(l) /\ ~PublishFails(l) /\ ~RequestFails(l)
      BY <2>1 DEF Create, Write, PublishFails, RequestFails
    <3>3. ASSUME NEW outcome \in {"failed", "cancelled"} PROVE ~Abandon(l, outcome)
      BY <2>1, <3>3 DEF Abandon
    <3> QED BY <2>2, <3>1, <3>2, <3>3
  <2>4. CASE Verify(l)
    <3>1. Present(l)
      BY <2>1, <2>4 DEF Verify
    <3> QED BY <2>4, <3>1 DEF Verify, Present, PublishedWhole
  <2>5. CASE Publish(l)
    <3>1. Writing(l) /\ written[l] = Chunks /\ part # None /\ final' = part /\ content' = content
      BY <2>5 DEF Publish
    <3>2. \A k \in Launches : Writing(k) => k = l
      BY DEF Downloading, Writing
    <3>3. content[part] = Whole
      BY <2>1, <3>1, <3>2, PublishesWhole
    <3> QED BY <3>1, <3>3 DEF PublishedWhole
  <2> QED BY <2>3, <2>4, <2>5
<1> QED BY <1>1, Invariance, PTL DEF Spec, RepairedByChecksum

-----------------------------------------------------------------------------
(* The files of the preview (module ReplicaStorage).  What is owed is at a *)
(* place that no rename is about to delete, but one that could not read    *)
(* it: one that is still to write carries what is there.                   *)

CallPlaces == {"never", "idle", "preview", "next", "write", "delete", "open", "entries", "done"}
ZipEntries == UNION {ToSet(Archives[v]) : v \in DOMAIN Archives}

IsCall(r) ==
  /\ DOMAIN r = {"at", "keys", "key", "got", "entries", "archives", "written", "ok"}
  /\ r.at \in CallPlaces
  /\ r.at = "write" => r.got \in Values
  /\ r.entries \in Seq(ZipEntries)

StorageTypes ==
  /\ \A key \in DOMAIN stored : stored[key] \in Values
  /\ call = [c \in Calls |-> call[c]] /\ \A c \in Calls : IsCall(call[c])
  /\ previews \subseteq {c.path : c \in Calls}

MovesFrom(c, key) == c.op = "rename" /\ call[c].at \in {"write", "delete"} /\ call[c].key = key
Carries(c, key) == call[c].got = Empty \/ (call[c].at = "write" /\ call[c].got = stored[key])
Safe(key) == \A c \in Calls : MovesFrom(c, key) => Carries(c, key)
OwedAreSafe == \A value \in owed : \E key \in DOMAIN stored : stored[key] = value /\ Safe(key)

StorageInv == StorageTypes /\ OwedAreSafe

StorageSafety == StorageInit /\ [][StorageNext]_storageVars

-----------------------------------------------------------------------------
\* The values there are.
LEMMA ValuesAreKnown ==
  /\ Empty \in Values /\ \A c \in Calls : c.value \in Values
  /\ \A key \in DOMAIN AtFirst : AtFirst[key] \in Values
  /\ \A e \in ZipEntries : e.value \in Values
BY DEF Values, ZipEntries

\* What is read is a value.
LEMMA ValueIsRead ==
  ASSUME StorageTypes, NEW key, NEW got \in mayRead(key)
  PROVE  got \in Values
BY ValuesAreKnown DEF StorageTypes, readStoragePath, mayRead

\* One call goes on, and the others stay where they are.
LEMMA OneGoesOn ==
  ASSUME StorageTypes, NEW c \in Calls, NEW r, IsCall(r), Goes(c, r)
  PROVE  /\ call' = [x \in Calls |-> call'[x]] /\ (\A x \in Calls : IsCall(call'[x]))
         /\ call'[c] = r /\ \A x \in Calls : x # c => call'[x] = call[x]
<1>1. /\ call' = [x \in Calls |-> call'[x]] /\ call'[c] = r /\ \A x \in Calls : x # c => call'[x] = call[x]
  BY DEF StorageTypes, Goes
<1>2. \A x \in Calls : IsCall(call'[x])
  <2> SUFFICES ASSUME NEW x \in Calls PROVE IsCall(call'[x])
    OBVIOUS
  <2>1. CASE x = c
    BY <1>1, <2>1
  <2>2. CASE x # c
    <3>1. IsCall(call[x]) /\ call'[x] = call[x]
      BY <1>1, <2>2 DEF StorageTypes
    <3> QED BY <3>1
  <2> QED BY <2>1, <2>2
<1> QED BY <1>1, <1>2

MoversStay == \A c \in Calls : c.op = "rename" /\ call'[c].at \in {"write", "delete"} => call'[c] = call[c]

\* Who moves a file did so before.
LEMMA MoversAreTheSame ==
  ASSUME MoversStay, NEW c \in Calls, NEW key, MovesFrom(c, key)'
  PROVE  MovesFrom(c, key) /\ call'[c] = call[c]
BY DEF MoversStay, MovesFrom

\* A place stays safe.
LEMMA SafeStays ==
  ASSUME MoversStay, NEW key, Safe(key), stored'[key] = stored[key]
  PROVE  Safe(key)'
<1> SUFFICES ASSUME NEW c \in Calls, MovesFrom(c, key)' PROVE Carries(c, key)'
  BY DEF Safe
<1>1. MovesFrom(c, key) /\ call'[c] = call[c]
  BY MoversAreTheSame
<1>2. Carries(c, key)
  BY <1>1 DEF Safe
<1> QED BY <1>1, <1>2 DEF Carries

\* What is put is kept there, unless the file is being moved; and all else where it was.
LEMMA PutKeeps ==
  ASSUME StorageTypes, OwedAreSafe, MoversStay, NEW key, NEW value, Put(key, value)
  PROVE  OwedAreSafe'
<1> SUFFICES ASSUME NEW v \in owed' PROVE \E k \in DOMAIN stored' : stored'[k] = v /\ Safe(k)'
  BY DEF OwedAreSafe
<1>1. /\ DOMAIN stored' = DOMAIN stored \cup {key} /\ stored'[key] = value
      /\ \A k \in DOMAIN stored : k # key => stored'[k] = stored[k]
  BY DEF Put
<1>2. CASE v = value /\ ~Moving(key)
  <2>1. Safe(key)'
    <3> SUFFICES ASSUME NEW c \in Calls, MovesFrom(c, key)' PROVE FALSE
      BY DEF Safe
    <3>1. MovesFrom(c, key)
      BY MoversAreTheSame
    <3> QED BY <1>2, <3>1 DEF Moving, MovesFrom
  <2> QED BY <1>1, <1>2, <2>1
<1>3. CASE ~(v = value /\ ~Moving(key))
  <2>1. v \in owed /\ v \notin Overwritten(key)
    BY <1>3 DEF Put
  <2>2. PICK k \in DOMAIN stored : stored[k] = v /\ Safe(k)
    BY <2>1 DEF OwedAreSafe
  <2>3. k # key
    BY <2>1, <2>2 DEF Overwritten
  <2>4. k \in DOMAIN stored' /\ stored'[k] = stored[k]
    BY <1>1, <2>2, <2>3
  <2> QED BY <2>2, <2>4, SafeStays
<1> QED BY <1>2, <1>3

\* What is put is a value.
LEMMA PutTypes ==
  ASSUME StorageTypes, NEW key, NEW value \in Values, Put(key, value)
  PROVE  \A k \in DOMAIN stored' : stored'[k] \in Values
BY DEF Put, StorageTypes

\* What is dropped is gone, and all else where it was.
LEMMA DropKeeps ==
  ASSUME StorageTypes, OwedAreSafe, MoversStay, NEW key, NEW loses, Drop(key, loses), loses = TRUE \/ ~Safe(key)
  PROVE  /\ OwedAreSafe'
         /\ \A k \in DOMAIN stored' : stored'[k] \in Values
<1>1. stored' = [k \in DOMAIN stored \ {key} |-> stored[k]]
  BY DEF Drop, Restrict
<1>2. \A k \in DOMAIN stored' : stored'[k] \in Values
  BY <1>1 DEF StorageTypes
<1>3. ASSUME NEW v \in owed' PROVE \E k \in DOMAIN stored' : stored'[k] = v /\ Safe(k)'
  <2>1. v \in owed /\ (loses = TRUE => v \notin Overwritten(key))
    BY DEF Drop
  <2>2. PICK k \in DOMAIN stored : stored[k] = v /\ Safe(k)
    BY <2>1 DEF OwedAreSafe
  <2>3. k # key
    BY <2>1, <2>2 DEF Overwritten
  <2>4. k \in DOMAIN stored' /\ stored'[k] = stored[k]
    BY <1>1, <2>2, <2>3
  <2> QED BY <2>2, <2>4, SafeStays
<1>4. OwedAreSafe'
  BY <1>3 DEF OwedAreSafe
<1> QED BY <1>1, <1>2, <1>4

\* Nothing that is owed moves when nothing is stored.
LEMMA StoredStays ==
  ASSUME StorageTypes, OwedAreSafe, MoversStay, UNCHANGED <<stored, owed>>
  PROVE  OwedAreSafe' /\ \A k \in DOMAIN stored' : stored'[k] \in Values
<1>1. ASSUME NEW v \in owed' PROVE \E k \in DOMAIN stored' : stored'[k] = v /\ Safe(k)'
  <2>1. PICK k \in DOMAIN stored : stored[k] = v /\ Safe(k)
    BY DEF OwedAreSafe
  <2> QED BY <2>1, SafeStays
<1>2. OwedAreSafe'
  BY <1>1 DEF OwedAreSafe
<1> QED BY <1>2 DEF StorageTypes

-----------------------------------------------------------------------------
\* The files that are there at the start are owed.
LEMMA StorageStarts == StorageInit => StorageInv
<1> SUFFICES ASSUME StorageInit PROVE StorageInv
  OBVIOUS
<1>1. Idle.at = "idle" /\ IsCall(Idle) /\ IsCall([Idle EXCEPT !.at = "never"]) /\ [Idle EXCEPT !.at = "never"].at = "never"
  <2>1. PICK none : none = <<>> /\ none \in Seq(ZipEntries)
    BY EmptySeq
  <2> QED BY <2>1 DEF Idle, IsCall, CallPlaces
<1>2. PICK chosen : call = [c \in Calls |-> IF c \in chosen THEN Idle ELSE [Idle EXCEPT !.at = "never"]]
  BY DEF StorageInit
<1>3. call = [c \in Calls |-> call[c]] /\ \A c \in Calls : call[c] = Idle \/ call[c] = [Idle EXCEPT !.at = "never"]
  BY <1>2
<1>4. \A c \in Calls : IsCall(call[c]) /\ call[c].at \in {"idle", "never"}
  BY <1>1, <1>3
<1>5. stored = AtFirst /\ owed \subseteq {AtFirst[p] : p \in DOMAIN AtFirst} /\ previews = {}
  BY DEF StorageInit
<1>6. StorageTypes
  BY <1>3, <1>4, <1>5, ValuesAreKnown, ArchivesAssumption DEF StorageTypes
<1>7. OwedAreSafe
  BY <1>4, <1>5 DEF OwedAreSafe, Safe, MovesFrom
<1> QED BY <1>6, <1>7 DEF StorageInv

\* A file is written, and an image shown from memory.
LEMMA WriteSteps ==
  ASSUME StorageInv, NEW c \in Calls, writeToStoragePath(c) \/ importPickedFile(c)
  PROVE  StorageInv'
<1>1. StorageTypes /\ OwedAreSafe
  BY DEF StorageInv
<1>2. PICK r : r = call[c] /\ IsCall(r)
  BY <1>1 DEF StorageTypes
<1>3. PICK n : Goes(c, n) /\ IsCall(n) /\ n.at \notin {"write", "delete"}
  <2>1. PICK done, toShow : done = [r EXCEPT !.at = "done", !.ok = TRUE] /\ toShow = [r EXCEPT !.at = "preview"]
    OBVIOUS
  <2>2. IsCall(done) /\ done.at = "done" /\ IsCall(toShow) /\ toShow.at = "preview"
    BY <1>2, <2>1 DEF IsCall, CallPlaces
  <2>3. Goes(c, done) \/ Goes(c, toShow)
    BY <1>2, <2>1 DEF writeToStoragePath, importPickedFile, Done
  <2> QED BY <2>2, <2>3
<1>4. /\ call' = [x \in Calls |-> call'[x]] /\ (\A x \in Calls : IsCall(call'[x]))
      /\ call'[c] = n /\ \A x \in Calls : x # c => call'[x] = call[x]
  BY <1>1, <1>3, OneGoesOn
<1>5. MoversStay
  BY <1>3, <1>4 DEF MoversStay
<1>6. CASE writeToStoragePath(c)
  <2>1. Put(c.path, c.value) /\ previews' = previews /\ c.value \in Values
    BY <1>6, ValuesAreKnown DEF writeToStoragePath
  <2>2. OwedAreSafe' /\ \A k \in DOMAIN stored' : stored'[k] \in Values
    BY <1>1, <1>5, <2>1, PutKeeps, PutTypes
  <2> QED BY <1>1, <1>4, <2>1, <2>2 DEF StorageInv, StorageTypes
<1>7. CASE importPickedFile(c)
  <2>1. previews' = previews \cup {c.path} /\ UNCHANGED <<stored, owed>>
    BY <1>7 DEF importPickedFile
  <2>2. OwedAreSafe' /\ \A k \in DOMAIN stored' : stored'[k] \in Values
    BY <1>1, <1>5, <2>1, StoredStays
  <2> QED BY <1>1, <1>4, <2>1, <2>2 DEF StorageInv, StorageTypes
<1> QED BY <1>6, <1>7

\* A call goes on without anything being stored.
LEMMA QuietSteps ==
  ASSUME StorageInv, NEW c \in Calls, NEW n, Goes(c, n), IsCall(n), n.at \notin {"write", "delete"}, UNCHANGED <<stored, previews, owed>>
  PROVE  StorageInv'
<1>1. StorageTypes /\ OwedAreSafe
  BY DEF StorageInv
<1>2. /\ call' = [x \in Calls |-> call'[x]] /\ (\A x \in Calls : IsCall(call'[x]))
      /\ call'[c] = n /\ \A x \in Calls : x # c => call'[x] = call[x]
  BY <1>1, OneGoesOn
<1>3. MoversStay
  BY <1>2 DEF MoversStay
<1>4. OwedAreSafe' /\ \A k \in DOMAIN stored' : stored'[k] \in Values
  BY <1>1, <1>3, StoredStays
<1> QED BY <1>1, <1>2, <1>4 DEF StorageInv, StorageTypes

\* The files under a path are removed.
LEMMA RemoveSteps ==
  ASSUME StorageInv, NEW c \in Calls, List(c) \/ DeleteKey(c)
  PROVE  StorageInv'
<1>1. StorageTypes /\ OwedAreSafe
  BY DEF StorageInv
<1>2. PICK r : r = call[c] /\ IsCall(r)
  BY <1>1 DEF StorageTypes
<1>3. CASE List(c)
  <2>1. PICK keys \in {KeysAt(c.path), {}} :
          Goes(c, IF keys = {} THEN Done(c, c.op = "remove") ELSE [call[c] EXCEPT !.at = "next", !.keys = keys])
    BY <1>3, Zenon DEF List
  <2>2. PICK done, next : done = Done(c, c.op = "remove") /\ next = [r EXCEPT !.at = "next", !.keys = keys]
    OBVIOUS
  <2>3. Goes(c, done) \/ Goes(c, next)
    BY <1>2, <2>1, <2>2
  <2>4. IsCall(done) /\ done.at = "done" /\ IsCall(next) /\ next.at = "next"
    BY <1>2, <2>2 DEF IsCall, CallPlaces, Done
  <2>5. UNCHANGED <<stored, previews, owed>>
    BY <1>3 DEF List
  <2> QED BY <2>3, <2>4, <2>5, QuietSteps
<1>4. CASE DeleteKey(c)
  <2>1. PICK key \in call[c].keys :
          Drop(key, TRUE) /\ (Goes(c, [r EXCEPT !.at = "done", !.ok = TRUE]) \/ Goes(c, [r EXCEPT !.keys = r.keys \ {key}]))
    BY <1>2, <1>4 DEF DeleteKey, Done
  <2>2. PICK done, next : done = [r EXCEPT !.at = "done", !.ok = TRUE] /\ next = [r EXCEPT !.keys = r.keys \ {key}]
    OBVIOUS
  <2>3. c.op = "remove" /\ r.at = "next" /\ previews' = previews
    BY <1>2, <1>4 DEF DeleteKey
  <2>4. IsCall(done) /\ done.at = "done" /\ IsCall(next) /\ next.at = "next"
    BY <1>2, <2>2, <2>3 DEF IsCall, CallPlaces
  <2>5. PICK n : Goes(c, n) /\ IsCall(n) /\ n.at \notin {"write", "delete"}
    BY <2>1, <2>2, <2>4
  <2>6. /\ call' = [x \in Calls |-> call'[x]] /\ (\A x \in Calls : IsCall(call'[x]))
        /\ call'[c] = n /\ \A x \in Calls : x # c => call'[x] = call[x]
    BY <1>1, <2>5, OneGoesOn
  <2>7. MoversStay
    BY <2>5, <2>6 DEF MoversStay
  <2>8. OwedAreSafe' /\ \A k \in DOMAIN stored' : stored'[k] \in Values
    BY <1>1, <2>1, <2>7, DropKeeps
  <2> QED BY <1>1, <2>3, <2>6, <2>8 DEF StorageInv, StorageTypes
<1> QED BY <1>3, <1>4

\* A rename reads a file: it carries what is there, or nothing.
LEMMA MoveIsRead ==
  ASSUME StorageInv, NEW c \in Calls, ReadMoved(c)
  PROVE  StorageInv'
<1>1. StorageTypes /\ OwedAreSafe
  BY DEF StorageInv
<1>2. PICK r : r = call[c] /\ IsCall(r)
  BY <1>1 DEF StorageTypes
<1>3. PICK key, got : got \in mayRead(key) /\ Goes(c, [r EXCEPT !.at = "write", !.key = key, !.got = got, !.keys = r.keys \ {key}])
  <2>1. MoveOrder("next") = "write"
    BY DEF MoveOrder
  <2>2. PICK key \in call[c].keys : \E got \in mayRead(key) :
          Goes(c, [call[c] EXCEPT !.at = MoveOrder("next"), !.key = key, !.got = got, !.keys = @ \ {key}])
    BY Zenon DEF ReadMoved
  <2>3. PICK got \in mayRead(key) :
          Goes(c, [call[c] EXCEPT !.at = MoveOrder("next"), !.key = key, !.got = got, !.keys = @ \ {key}])
    BY <2>2, Zenon
  <2>4. Goes(c, [r EXCEPT !.at = "write", !.key = key, !.got = got, !.keys = r.keys \ {key}])
    BY <1>2, <2>1, <2>3
  <2> QED BY <2>3, <2>4, Zenon
<1>4. PICK n : n = [r EXCEPT !.at = "write", !.key = key, !.got = got, !.keys = r.keys \ {key}]
  OBVIOUS
<1>5. got \in Values
  BY <1>1, <1>3, ValueIsRead
<1>6. IsCall(n) /\ n.at = "write" /\ n.key = key /\ n.got = got
  BY <1>2, <1>4, <1>5 DEF IsCall, CallPlaces
<1>7. Goes(c, n) /\ UNCHANGED <<stored, previews, owed>>
  BY <1>3, <1>4 DEF ReadMoved
<1>8. /\ call' = [x \in Calls |-> call'[x]] /\ (\A x \in Calls : IsCall(call'[x]))
      /\ call'[c] = n /\ \A x \in Calls : x # c => call'[x] = call[x]
  BY <1>1, <1>6, <1>7, OneGoesOn
<1>9. ASSUME NEW k \in DOMAIN stored, Safe(k) PROVE Safe(k)'
  <2> SUFFICES ASSUME NEW x \in Calls, MovesFrom(x, k)' PROVE Carries(x, k)'
    BY DEF Safe
  <2>1. CASE x = c
    <3>1. k = key
      BY <1>6, <1>8, <2>1 DEF MovesFrom
    <3>2. got = Empty \/ got = stored[k]
      BY <1>3, <3>1 DEF mayRead, readStoragePath
    <3> QED BY <1>6, <1>7, <1>8, <2>1, <3>2 DEF Carries
  <2>2. CASE x # c
    <3>1. MovesFrom(x, k) /\ call'[x] = call[x]
      BY <1>8, <2>2 DEF MovesFrom
    <3>2. Carries(x, k)
      BY <1>9, <3>1 DEF Safe
    <3> QED BY <1>7, <3>1, <3>2 DEF Carries
  <2> QED BY <2>1, <2>2
<1>10. OwedAreSafe'
  BY <1>1, <1>7, <1>9 DEF OwedAreSafe
<1> QED BY <1>1, <1>7, <1>8, <1>10 DEF StorageInv, StorageTypes

\* A rename writes what it carries.
LEMMA MoveIsWritten ==
  ASSUME StorageInv, NEW c \in Calls, WriteMoved(c)
  PROVE  StorageInv'
<1>1. StorageTypes /\ OwedAreSafe
  BY DEF StorageInv
<1>2. PICK r : r = call[c] /\ IsCall(r)
  BY <1>1 DEF StorageTypes
<1>3. c.op = "rename" /\ r.at = "write" /\ r.got \in Values
  BY <1>2 DEF WriteMoved, IsCall
<1>4. PICK n : n = [r EXCEPT !.at = "delete", !.keys = r.keys]
  OBVIOUS
<1>5. IsCall(n) /\ n.at = "delete" /\ n.key = r.key /\ n.got = r.got
  BY <1>2, <1>3, <1>4 DEF IsCall, CallPlaces
<1>6. PICK to : to = Destination(c)
  OBVIOUS
<1>7. Goes(c, n) /\ Put(to, r.got) /\ previews' = previews
  <2>1. MoveOrder(r.at) = "delete"
    BY <1>3 DEF MoveOrder
  <2> QED BY <1>2, <1>4, <1>6, <2>1 DEF WriteMoved, Moved
<1>8. /\ call' = [x \in Calls |-> call'[x]] /\ (\A x \in Calls : IsCall(call'[x]))
      /\ call'[c] = n /\ \A x \in Calls : x # c => call'[x] = call[x]
  BY <1>1, <1>5, <1>7, OneGoesOn
<1>9. /\ DOMAIN stored' = DOMAIN stored \cup {to} /\ stored'[to] = r.got
      /\ \A k \in DOMAIN stored : k # to => stored'[k] = stored[k]
  BY <1>7 DEF Put
<1>10. ASSUME NEW x \in Calls, NEW k, MovesFrom(x, k)'
       PROVE  MovesFrom(x, k) /\ (x = c => k = r.key) /\ (x # c => call'[x] = call[x])
  BY <1>2, <1>3, <1>5, <1>8, <1>10 DEF MovesFrom
<1>11. ASSUME NEW v \in owed' PROVE \E k \in DOMAIN stored' : stored'[k] = v /\ Safe(k)'
  <2>1. CASE v = r.got /\ ~Moving(to)
    <3>1. Safe(to)'
      <4> SUFFICES ASSUME NEW x \in Calls, MovesFrom(x, to)' PROVE FALSE
        BY DEF Safe
      <4>1. MovesFrom(x, to)
        BY <1>10
      <4> QED BY <2>1, <4>1 DEF Moving, MovesFrom
    <3> QED BY <1>9, <2>1, <3>1
  <2>2. CASE ~(v = r.got /\ ~Moving(to))
    <3>1. v \in owed /\ v \notin Overwritten(to) /\ v # r.got
      BY <1>7, <2>2 DEF Put
    <3>2. PICK k \in DOMAIN stored : stored[k] = v /\ Safe(k)
      BY <1>1, <3>1 DEF OwedAreSafe
    <3>3. k # to /\ stored'[k] = stored[k]
      BY <1>9, <3>1, <3>2 DEF Overwritten
    <3>4. Safe(k)'
      <4> SUFFICES ASSUME NEW x \in Calls, MovesFrom(x, k)' PROVE Carries(x, k)'
        BY DEF Safe
      <4>1. MovesFrom(x, k) /\ (x = c => k = r.key) /\ (x # c => call'[x] = call[x])
        BY <1>10
      <4>2. Carries(x, k)
        BY <3>2, <4>1 DEF Safe
      <4>3. CASE x = c
        <5>1. r.got = Empty
          BY <1>2, <3>1, <3>2, <4>2, <4>3 DEF Carries
        <5> QED BY <1>5, <1>8, <4>3, <5>1 DEF Carries
      <4>4. CASE x # c
        BY <3>3, <4>1, <4>2, <4>4 DEF Carries
      <4> QED BY <4>3, <4>4
    <3> QED BY <1>9, <3>2, <3>3, <3>4
  <2> QED BY <2>1, <2>2
<1>12. \A k \in DOMAIN stored' : stored'[k] \in Values
  BY <1>1, <1>3, <1>7, PutTypes
<1> QED BY <1>1, <1>7, <1>8, <1>11, <1>12 DEF StorageInv, StorageTypes, OwedAreSafe

\* A rename deletes what it has moved.
LEMMA MoveIsDeleted ==
  ASSUME StorageInv, NEW c \in Calls, DeleteMoved(c)
  PROVE  StorageInv'
<1>1. StorageTypes /\ OwedAreSafe
  BY DEF StorageInv
<1>2. PICK r : r = call[c] /\ IsCall(r)
  BY <1>1 DEF StorageTypes
<1>3. c.op = "rename" /\ r.at = "delete" /\ Drop(r.key, r.got = Empty) /\ previews' = previews
  BY <1>2 DEF DeleteMoved
<1>4. PICK done, next : done = [r EXCEPT !.at = "done", !.ok = TRUE] /\ next = [r EXCEPT !.at = "next", !.keys = r.keys]
  OBVIOUS
<1>5. IsCall(done) /\ done.at = "done" /\ IsCall(next) /\ next.at = "next"
  BY <1>2, <1>4 DEF IsCall, CallPlaces
<1>6. Goes(c, done) \/ Goes(c, next)
  <2>1. MoveOrder(r.at) = "next"
    BY <1>3 DEF MoveOrder
  <2> QED BY <1>2, <1>4, <2>1 DEF DeleteMoved, Moved, Done
<1>7. PICK n : Goes(c, n) /\ IsCall(n) /\ n.at \notin {"write", "delete"}
  BY <1>5, <1>6
<1>8. /\ call' = [x \in Calls |-> call'[x]] /\ (\A x \in Calls : IsCall(call'[x]))
      /\ call'[c] = n /\ \A x \in Calls : x # c => call'[x] = call[x]
  BY <1>1, <1>7, OneGoesOn
<1>9. MoversStay
  BY <1>7, <1>8 DEF MoversStay
<1>10. (r.got = Empty) = TRUE \/ ~Safe(r.key)
  BY <1>2, <1>3 DEF Safe, MovesFrom, Carries
<1>11. OwedAreSafe' /\ \A k \in DOMAIN stored' : stored'[k] \in Values
  BY <1>1, <1>3, <1>9, <1>10, DropKeeps
<1> QED BY <1>1, <1>3, <1>8, <1>11 DEF StorageInv, StorageTypes

\* What a call becomes when an archive fails, or is finished.
LEMMA FailedIsCall ==
  ASSUME NEW c \in Calls, IsCall(call[c])
  PROVE  IsCall(Failed(c)) /\ Failed(c).at \in {"done", "open"} /\ \A ok : IsCall(Done(c, ok)) /\ Done(c, ok).at = "done"
<1>1. PICK r : r = call[c] /\ IsCall(r)
  OBVIOUS
<1>2. ASSUME NEW ok PROVE IsCall(Done(c, ok)) /\ Done(c, ok).at = "done"
  <2>1. PICK done : done = [r EXCEPT !.at = "done", !.ok = ok]
    OBVIOUS
  <2>2. IsCall(done) /\ done.at = "done"
    BY <1>1, <2>1 DEF IsCall, CallPlaces
  <2> QED BY <1>1, <2>1, <2>2 DEF Done
<1>3. PICK none, tail : none = <<>> /\ none \in Seq(ZipEntries) /\ tail = Tail(r.archives)
  BY EmptySeq
<1>4. PICK open : open = [r EXCEPT !.at = "open", !.ok = FALSE, !.archives = tail, !.entries = none]
  OBVIOUS
<1>5. IsCall(open) /\ open.at = "open"
  BY <1>1, <1>3, <1>4 DEF IsCall, CallPlaces
<1>6. Failed(c) = Done(c, FALSE) \/ Failed(c) = open
  BY <1>1, <1>3, <1>4 DEF Failed
<1> QED BY <1>2, <1>5, <1>6

\* A request of a call is rejected.
LEMMA RejectedSteps ==
  ASSUME StorageInv, NEW c \in Calls, StoreRejects(c)
  PROVE  StorageInv'
<1>1. IsCall(call[c])
  BY DEF StorageInv, StorageTypes
<1>2. IsCall(Failed(c)) /\ Failed(c).at \in {"done", "open"}
  BY <1>1, FailedIsCall
<1>3. Goes(c, Failed(c)) /\ UNCHANGED <<stored, previews, owed>>
  BY DEF StoreRejects
<1> QED BY <1>2, <1>3, QuietSteps

\* An archive is begun, opened, or done.
LEMMA ArchiveSteps ==
  ASSUME StorageInv, NEW c \in Calls, BeginArchive(c) \/ OpenArchive(c) \/ ArchiveDone(c)
  PROVE  StorageInv'
<1>1. StorageTypes /\ IsCall(call[c])
  BY DEF StorageInv, StorageTypes
<1>2. PICK r : r = call[c] /\ IsCall(r)
  BY <1>1
<1>3. IsCall(Failed(c)) /\ Failed(c).at \in {"done", "open"} /\ \A ok : IsCall(Done(c, ok)) /\ Done(c, ok).at = "done"
  BY <1>1, FailedIsCall
<1>4. UNCHANGED <<stored, previews, owed>>
  BY Zenon DEF BeginArchive, OpenArchive, ArchiveDone
<1>5. PICK n : Goes(c, n) /\ IsCall(n) /\ n.at \in {"done", "open", "entries"}
  <2>1. CASE BeginArchive(c)
    <3>1. PICK open : open = [r EXCEPT !.at = "open", !.archives = c.archives]
      OBVIOUS
    <3>2. IsCall(open) /\ open.at = "open"
      BY <1>2, <3>1 DEF IsCall, CallPlaces
    <3>3. Goes(c, Done(c, TRUE)) \/ Goes(c, open)
      BY <1>2, <2>1, <3>1 DEF BeginArchive
    <3> QED BY <1>3, <3>2, <3>3
  <2>2. CASE OpenArchive(c)
    <3> DEFINE there(value) == {e \in ToSet(Archives[value]) : Target(c, e) # None}
               opened(value) == [call[c] EXCEPT !.at = "entries", !.entries = Selected(Archives[value], there(value))]
    <3>1. PICK value \in mayRead(Head(call[c].archives)) :
            Goes(c, IF value \notin DOMAIN Archives THEN Failed(c)
                    ELSE IF c.op = "mrpack" /\ ~HasManifest(value) THEN Failed(c) ELSE opened(value))
      BY <2>2, Zenon DEF OpenArchive
    <3>2. PICK entries, open :
            entries = Selected(Archives[value], there(value)) /\ open = [r EXCEPT !.at = "entries", !.entries = entries]
      BY Zenon
    <3>3. Goes(c, Failed(c)) \/ (value \in DOMAIN Archives /\ Goes(c, open))
      BY <1>2, <3>1, <3>2
    <3>4. ASSUME value \in DOMAIN Archives PROVE entries \in Seq(ZipEntries)
      <4>1. ToSet(Archives[value]) \subseteq ZipEntries
        BY <3>4 DEF ZipEntries
      <4>2. Archives[value] \in Seq(ToSet(Archives[value]))
        BY <3>4, ArchivesAssumption
      <4>3. Archives[value] \in Seq(ZipEntries)
        BY <4>1, <4>2
      <4> QED BY <3>2, <4>3, SelectedAre
    <3>5. value \in DOMAIN Archives => IsCall(open) /\ open.at = "entries"
      BY <1>2, <3>2, <3>4 DEF IsCall, CallPlaces
    <3> QED BY <1>3, <3>3, <3>5
  <2>3. CASE ArchiveDone(c)
    <3>1. PICK tail : tail = Tail(r.archives)
      OBVIOUS
    <3>2. PICK open : open = [r EXCEPT !.at = "open", !.archives = tail]
      OBVIOUS
    <3>3. IsCall(open) /\ open.at = "open"
      BY <1>2, <3>2 DEF IsCall, CallPlaces
    <3>4. Goes(c, Done(c, r.ok)) \/ Goes(c, open)
      BY <1>2, <2>3, <3>1, <3>2 DEF ArchiveDone
    <3> QED BY <1>3, <3>3, <3>4
  <2> QED BY <2>1, <2>2, <2>3
<1> QED BY <1>4, <1>5, QuietSteps

\* An entry of an archive is written where it belongs.
LEMMA EntryIsWritten ==
  ASSUME StorageInv, NEW c \in Calls, ExtractEntry(c)
  PROVE  StorageInv'
<1>1. StorageTypes /\ OwedAreSafe
  BY DEF StorageInv
<1>2. PICK r : r = call[c] /\ IsCall(r)
  BY <1>1 DEF StorageTypes
<1>3. r.at = "entries" /\ r.entries \in Seq(ZipEntries) /\ r.entries # <<>> /\ previews' = previews
  BY <1>2 DEF ExtractEntry, IsCall
<1>4. PICK entry, left : entry = Head(r.entries) /\ left = Tail(r.entries) /\ entry \in ZipEntries /\ left \in Seq(ZipEntries)
  BY <1>3, HeadAndTail
<1>5. CASE entry.isCorrupt
  <2>1. Goes(c, Failed(c)) /\ UNCHANGED <<stored, owed>>
    BY <1>2, <1>4, <1>5 DEF ExtractEntry
  <2>2. IsCall(Failed(c)) /\ Failed(c).at \in {"done", "open"}
    BY <1>2, FailedIsCall
  <2> QED BY <1>3, <2>1, <2>2, QuietSteps
<1>6. CASE ~entry.isCorrupt
  <2>1. PICK to, paths : to = Target(c, entry) /\ paths = r.written \cup {to}
    OBVIOUS
  <2>2. PICK n : n = [r EXCEPT !.entries = left, !.written = paths]
    OBVIOUS
  <2>3. IsCall(n) /\ n.at = "entries"
    BY <1>2, <1>3, <1>4, <2>2 DEF IsCall
  <2>4. Put(to, entry.value) /\ Goes(c, n)
    BY <1>2, <1>4, <1>6, <2>1, <2>2 DEF ExtractEntry
  <2>5. entry.value \in Values
    BY <1>4, ValuesAreKnown
  <2>6. /\ call' = [x \in Calls |-> call'[x]] /\ (\A x \in Calls : IsCall(call'[x]))
        /\ call'[c] = n /\ \A x \in Calls : x # c => call'[x] = call[x]
    BY <1>1, <2>3, <2>4, OneGoesOn
  <2>7. MoversStay
    BY <2>3, <2>6 DEF MoversStay
  <2>8. OwedAreSafe' /\ \A k \in DOMAIN stored' : stored'[k] \in Values
    BY <1>1, <2>4, <2>5, <2>7, PutKeeps, PutTypes
  <2> QED BY <1>1, <1>3, <2>6, <2>8 DEF StorageInv, StorageTypes
<1> QED BY <1>5, <1>6

\* The page is loaded anew: every call that has begun ends.
LEMMA StorageReloads ==
  ASSUME StorageInv, ReloadStorage
  PROVE  StorageInv'
<1>1. StorageTypes /\ OwedAreSafe /\ UNCHANGED <<stored, owed>> /\ previews' = {}
  BY DEF StorageInv, ReloadStorage
<1>2. call' = [c \in Calls |-> call'[c]]
      /\ \A c \in Calls : \/ call'[c] = call[c] /\ call[c].at \in {"never", "idle"}
                          \/ call'[c] = Done(c, FALSE)
  BY DEF ReloadStorage
<1>3. \A c \in Calls : IsCall(call[c]) /\ IsCall(Done(c, FALSE)) /\ Done(c, FALSE).at = "done"
  BY <1>1, FailedIsCall DEF StorageTypes
<1>4. \A c \in Calls : IsCall(call'[c]) /\ call'[c].at \in {"never", "idle", "done"}
  BY <1>2, <1>3
<1>5. MoversStay
  BY <1>4 DEF MoversStay
<1>6. OwedAreSafe' /\ \A k \in DOMAIN stored' : stored'[k] \in Values
  BY <1>1, <1>5, StoredStays
<1> QED BY <1>1, <1>2, <1>4, <1>6 DEF StorageInv, StorageTypes

\* Every step of every call keeps what is owed safe.
LEMMA StorageSteps ==
  ASSUME StorageInv, [StorageNext]_storageVars
  PROVE  StorageInv'
<1>1. CASE ReloadStorage
  BY <1>1, StorageReloads
<1>2. ASSUME NEW c \in Calls, CallStep(c) PROVE StorageInv'
  <2>1. CASE writeToStoragePath(c) \/ importPickedFile(c)
    BY <2>1, WriteSteps
  <2>2. CASE List(c) \/ DeleteKey(c)
    BY <2>2, RemoveSteps
  <2>3. CASE ReadMoved(c)
    BY <2>3, MoveIsRead
  <2>4. CASE WriteMoved(c)
    BY <2>4, MoveIsWritten
  <2>5. CASE DeleteMoved(c)
    BY <2>5, MoveIsDeleted
  <2>6. CASE BeginArchive(c) \/ OpenArchive(c) \/ ArchiveDone(c)
    BY <2>6, ArchiveSteps
  <2>7. CASE ExtractEntry(c)
    BY <2>7, EntryIsWritten
  <2>8. CASE StoreRejects(c)
    BY <2>8, RejectedSteps
  <2> QED BY <1>2, <2>1, <2>2, <2>3, <2>4, <2>5, <2>6, <2>7, <2>8 DEF CallStep
<1>3. CASE UNCHANGED storageVars
  <2>1. stored' = stored /\ call' = call /\ previews' = previews /\ owed' = owed
    BY <1>3 DEF storageVars
  <2> QED BY <2>1 DEF StorageInv, StorageTypes, OwedAreSafe, Safe, MovesFrom, Carries
<1> QED BY <1>1, <1>2, <1>3 DEF StorageNext

\* What is owed is at a place that no rename is about to delete, but one that could not read it
\* (such a deletion ends the debt), in every state: the reason why FilesAreKept holds.
THEOREM StorageInvariance == StorageSafety => []StorageInv
BY StorageStarts, StorageSteps, PTL DEF StorageSafety

\* No stored value is lost but by those who remove it or write over it, and by a rename that could not
\* read the file (read-storage-path.ts:37-39): not in the middle of a rename, not when the page is loaded
\* anew there or a request of it is rejected, however many calls there are.
THEOREM FilesAreKept == StorageSafety => []NothingLost
<1>1. StorageInv => NothingLost
  BY DEF StorageInv, OwedAreSafe, NothingLost, Range
<1> QED BY <1>1, StorageInvariance, PTL

\* The types of the stored files and of the calls.
THEOREM StorageTypeCorrectness == StorageSafety => []StorageTypeOK
<1>1. StorageInv => StorageTypeOK
  BY DEF StorageInv, StorageTypes, IsCall, CallPlaces, StorageTypeOK
<1> QED BY <1>1, StorageInvariance, PTL

-----------------------------------------------------------------------------
(* Paths.  What is stored, and what the calls hold, are names that do not  *)
(* end in a separator: an entry that does is a directory, and is left out. *)

\* A text after another, where the second ends in a name.
LEMMA EndsInName ==
  ASSUME NEW s \in Seq(STRING), NEW t \in Paths, t = <<>> => s \in Paths
  PROVE  s \o t \in Paths
<1>1. t \in Seq(STRING) /\ (t # <<>> => Last(t) # Slash)
  BY DEF Paths
<1>2. CASE t = <<>>
  <2>1. s \o t = s
    BY <1>2
  <2> QED BY <1>2, <2>1
<1>3. CASE t # <<>>
  <2>1. /\ Len(s) \in Nat /\ Len(t) \in Nat \ {0} /\ s \o t \in Seq(STRING) /\ Len(s \o t) = Len(s) + Len(t)
        /\ (s \o t)[Len(s) + Len(t)] = t[Len(t)]
    BY <1>1, <1>3
  <2>2. Last(s \o t) = Last(t)
    BY <2>1 DEF Last
  <2> QED BY <1>1, <1>3, <2>1, <2>2 DEF Paths
<1> QED BY <1>2, <1>3

\* The path of nothing.
LEMMA NothingIsPath == <<>> \in Paths
BY EmptySeq DEF Paths

\* What is left of a path is one.
LEMMA RestIsPath ==
  ASSUME NEW path \in Paths, NEW n \in Nat
  PROVE  SubSeq(path, n + 1, Len(path)) \in Paths
<1> DEFINE rest == SubSeq(path, n + 1, Len(path))
<1>1. path \in Seq(STRING) /\ (path # <<>> => Last(path) # Slash) /\ Len(path) \in Nat
  BY DEF Paths
<1>2. CASE n >= Len(path)
  <2>1. Len(path) < n + 1 /\ Len(path) \in Int /\ n + 1 \in Int
    BY <1>1, <1>2
  <2>2. rest = <<>>
    BY <2>1, SubSeqEmpty
  <2> QED BY <2>2, NothingIsPath
<1>3. CASE n < Len(path)
  <2>1. /\ rest \in Seq(STRING) /\ Len(rest) = Len(path) - n
        /\ \A i \in 1..Len(path) - n : rest[i] = path[n + i]
    BY <1>1, <1>3
  <2> HIDE DEF rest
  <2>2. Len(path) - n \in 1..Len(path) - n /\ path # <<>> /\ n + (Len(path) - n) = Len(path)
    BY <1>1, <1>3
  <2>3. Last(rest) = Last(path)
    BY <2>1, <2>2 DEF Last
  <2>4. rest \in Paths
    BY <1>1, <2>1, <2>2, <2>3 DEF Paths
  <2> QED BY <2>4 DEF rest
<1> QED BY <1>1, <1>2, <1>3

\* A file in a folder that is moved is one in the folder it is moved to.
LEMMA DestinationIsPath ==
  ASSUME NEW c \in Calls, call[c].key \in Paths
  PROVE  Destination(c) \in Paths
<1>1. c.to \in Paths /\ c.to \in Seq(STRING) /\ c.path \in Seq(STRING)
  BY PathsAssumption DEF Paths
<1>2. Len(c.path) \in Nat
  BY <1>1
<1>3. SubSeq(call[c].key, Len(c.path) + 1, Len(call[c].key)) \in Paths
  BY <1>2, RestIsPath
<1> QED BY <1>1, <1>3, EndsInName DEF Destination

\* A file in an archive goes into the folder.
LEMMA TargetIsPath ==
  ASSUME NEW c \in Calls, c.op \in {"unzip", "mrpack"}, NEW entry \in ZipEntries, Target(c, entry) # None
  PROVE  Target(c, entry) \in Paths
<1> DEFINE prefixes == {p \in c.prefixes : IsPrefix(p, entry.name)}
           prefix == CHOOSE p \in prefixes : TRUE
           rest == SubSeq(entry.name, Len(prefix) + 1, Len(entry.name))
           relative == IF c.op = "unzip" THEN entry.name ELSE rest
           folder == Append(c.to, Slash)
           isLeft == \/ entry.isDirectory \/ ~isSafeZipEntryName(entry.name)
                     \/ c.op = "unzip" /\ prefixes # {}
                     \/ c.op = "mrpack" /\ (prefixes = {} \/ relative = <<>>)
<1>1. Target(c, entry) = IF isLeft THEN None ELSE folder \o relative
  BY DEF Target
<1>2. ~isLeft /\ Target(c, entry) = folder \o relative
  <2> HIDE DEF isLeft, folder, relative
  <2> QED BY <1>1
<1>3. entry.name \in Paths /\ entry.name # <<>>
  <2>1. entry.isDirectory <=> entry.name \notin Paths
    BY ArchivesAssumption DEF ZipEntries
  <2>2. ~entry.isDirectory /\ isSafeZipEntryName(entry.name)
    BY <1>2
  <2> QED BY <2>1, <2>2 DEF isSafeZipEntryName
<1>4. folder \in Seq(STRING)
  <2>1. c.to \in Seq(STRING)
    BY PathsAssumption DEF Paths
  <2>2. Slash \in STRING
    BY PathsAssumption
  <2> QED BY <2>1, <2>2
<1> HIDE DEF folder
<1>5. CASE c.op = "unzip"
  BY <1>2, <1>3, <1>4, <1>5, EndsInName
<1>6. CASE c.op # "unzip"
  <2>1. relative = rest
    BY <1>6
  <2>2. prefixes # {} /\ rest # <<>>
    BY <1>2, <1>6, <2>1
  <2>3. prefix \in c.prefixes /\ Len(prefix) \in Nat
    <3>1. prefix \in prefixes
      BY <2>2
    <3>2. prefix \in c.prefixes /\ c.prefixes \subseteq Seq(STRING)
      BY <3>1, PathsAssumption
    <3> HIDE DEF prefix
    <3> QED BY <3>2
  <2> HIDE DEF prefix
  <2>4. rest \in Paths
    BY <1>3, <2>3, RestIsPath
  <2> QED BY <1>2, <1>4, <2>1, <2>2, <2>4, EndsInName
<1> QED BY <1>5, <1>6

\* Every file has the name of one, and will have it wherever a call is about to put it.
IsNamed(c, r) ==
  /\ r.keys \subseteq Paths /\ (r.at = "write" => r.key \in Paths)
  /\ r.at \in {"open", "entries"} => c.op \in {"unzip", "mrpack"}
  /\ \A e \in ToSet(r.entries) : Target(c, e) # None
FilesAreNamed == DOMAIN stored \subseteq Paths /\ \A c \in Calls : IsNamed(c, call[c])

\* One call goes on, and what is stored has a name.
LEMMA OneIsNamed ==
  ASSUME StorageTypes, FilesAreNamed, NEW c \in Calls, NEW r, Goes(c, r), IsNamed(c, r), DOMAIN stored' \subseteq Paths
  PROVE  FilesAreNamed'
<1>1. call'[c] = r /\ \A x \in Calls : x # c => call'[x] = call[x]
  BY DEF StorageTypes, Goes
<1>2. ASSUME NEW x \in Calls PROVE IsNamed(x, call'[x])
  <2>1. CASE x = c
    BY <1>1, <2>1
  <2>2. CASE x # c
    <3>1. IsNamed(x, call[x]) /\ call'[x] = call[x]
      BY <1>1, <2>2 DEF FilesAreNamed
    <3> QED BY <3>1
  <2> QED BY <2>1, <2>2
<1> QED BY <1>2 DEF FilesAreNamed, IsNamed, Target

\* What is put under a name, and what is left.
LEMMA PutIsNamed ==
  ASSUME FilesAreNamed, NEW key \in Paths, NEW value, Put(key, value)
  PROVE  DOMAIN stored' \subseteq Paths
BY DEF FilesAreNamed, Put

\* When a key is dropped, names are left.
LEMMA DropIsNamed ==
  ASSUME FilesAreNamed, NEW key, NEW loses, Drop(key, loses)
  PROVE  DOMAIN stored' \subseteq Paths
BY DEF FilesAreNamed, Drop, Restrict

\* A call that ends, or goes to another place, has what it had.
LEMMA DoneIsNamed ==
  ASSUME StorageTypes, FilesAreNamed, NEW c \in Calls, NEW ok
  PROVE  IsNamed(c, Done(c, ok))
<1>1. PICK r : r = call[c] /\ IsCall(r) /\ IsNamed(c, r)
  BY DEF StorageTypes, FilesAreNamed
<1>2. PICK done : done = [r EXCEPT !.at = "done", !.ok = ok]
  OBVIOUS
<1>3. done.at = "done" /\ done.keys = r.keys /\ done.entries = r.entries
  BY <1>1, <1>2 DEF IsCall
<1>4. IsNamed(c, done)
  BY <1>1, <1>3 DEF IsNamed
<1> QED BY <1>1, <1>2, <1>4 DEF Done

\* What is stored at the start has names, and the calls hold nothing.
LEMMA StorageIsNamed == StorageInit => FilesAreNamed
<1> SUFFICES ASSUME StorageInit PROVE FilesAreNamed
  OBVIOUS
<1>1. PICK none : none = <<>> /\ ToSet(none) = {}
  BY DEF ToSet
<1>2. PICK never : never = [Idle EXCEPT !.at = "never"]
  OBVIOUS
<1>3. /\ Idle.at = "idle" /\ Idle.keys = {} /\ Idle.entries = none
      /\ never.at = "never" /\ never.keys = {} /\ never.entries = none
  BY <1>1, <1>2 DEF Idle
<1>4. \A c \in Calls : IsNamed(c, Idle) /\ IsNamed(c, never)
  BY <1>1, <1>3 DEF IsNamed
<1>5. \A c \in Calls : call[c] = Idle \/ call[c] = never
  BY <1>2 DEF StorageInit
<1>6. DOMAIN stored \subseteq Paths
  BY PathsAssumption DEF StorageInit
<1>7. \A c \in Calls : IsNamed(c, call[c])
  BY <1>4, <1>5
<1> QED BY <1>6, <1>7 DEF FilesAreNamed

\* Files are written, removed and moved under names.
LEMMA FilesStayNamed ==
  ASSUME StorageTypes, FilesAreNamed, NEW c \in Calls,
         \/ writeToStoragePath(c) \/ importPickedFile(c) \/ List(c) \/ DeleteKey(c)
         \/ ReadMoved(c) \/ WriteMoved(c) \/ DeleteMoved(c)
  PROVE  FilesAreNamed'
<1>1. PICK r : r = call[c] /\ IsCall(r) /\ IsNamed(c, r)
  BY DEF StorageTypes, FilesAreNamed
<1>2. /\ r.keys \subseteq Paths /\ (r.at = "write" => r.key \in Paths)
      /\ \A e \in ToSet(r.entries) : Target(c, e) # None
      /\ DOMAIN r = {"at", "keys", "key", "got", "entries", "archives", "written", "ok"}
  BY <1>1 DEF IsNamed, IsCall
<1>3. \A ok : IsNamed(c, Done(c, ok))
  BY DoneIsNamed
<1>4. ASSUME NEW at, at \notin {"open", "entries", "write"}, NEW keys, keys \subseteq Paths
      PROVE  IsNamed(c, [r EXCEPT !.at = at, !.keys = keys])
  BY <1>2, <1>4 DEF IsNamed
<1>5. DOMAIN stored \subseteq Paths
  BY DEF FilesAreNamed
<1>6. CASE writeToStoragePath(c)
  <2>1. PICK n : Goes(c, n) /\ (n = Done(c, TRUE) \/ n = [r EXCEPT !.at = "preview", !.keys = r.keys])
    BY <1>1, <1>2, <1>6 DEF writeToStoragePath
  <2>2. IsNamed(c, n)
    <3>1. IsNamed(c, [r EXCEPT !.at = "preview", !.keys = r.keys])
      BY <1>2, <1>4
    <3> QED BY <1>3, <2>1, <3>1
  <2>3. DOMAIN stored' \subseteq Paths
    BY <1>6, PutIsNamed, PathsAssumption DEF writeToStoragePath
  <2> QED BY <2>1, <2>2, <2>3, OneIsNamed
<1>7. CASE importPickedFile(c)
  BY <1>3, <1>5, <1>7, OneIsNamed DEF importPickedFile
<1>8. CASE List(c)
  <2>1. PICK keys \in {KeysAt(c.path), {}} :
          Goes(c, IF keys = {} THEN Done(c, c.op = "remove") ELSE [call[c] EXCEPT !.at = "next", !.keys = keys])
    BY <1>8, Zenon DEF List
  <2>2. PICK n : Goes(c, n) /\ IsNamed(c, n)
    <3>1. keys \subseteq Paths
      BY <1>5, <2>1 DEF KeysAt, listStores
    <3>2. IsNamed(c, [r EXCEPT !.at = "next", !.keys = keys])
      BY <1>4, <3>1
    <3> QED BY <1>1, <1>3, <2>1, <3>2
  <2>3. stored' = stored
    BY <1>8 DEF List
  <2> QED BY <1>5, <2>2, <2>3, OneIsNamed
<1>9. CASE DeleteKey(c)
  <2>1. PICK key \in r.keys : Drop(key, TRUE) /\ Goes(c, IF r.keys = {key} THEN Done(c, TRUE) ELSE [r EXCEPT !.keys = r.keys \ {key}])
    BY <1>1, <1>9 DEF DeleteKey
  <2>2. PICK n : Goes(c, n) /\ (n = Done(c, TRUE) \/ n = [r EXCEPT !.keys = r.keys \ {key}])
    BY <2>1
  <2>3. r.at = "next"
    BY <1>1, <1>9 DEF DeleteKey
  <2>4. [r EXCEPT !.keys = r.keys \ {key}] = [r EXCEPT !.at = "next", !.keys = r.keys \ {key}]
    BY <1>2, <2>3
  <2>5. IsNamed(c, n)
    <3>1. IsNamed(c, [r EXCEPT !.at = "next", !.keys = r.keys \ {key}])
      BY <1>2, <1>4
    <3> QED BY <1>3, <2>2, <2>4, <3>1
  <2> QED BY <2>1, <2>2, <2>5, DropIsNamed, OneIsNamed
<1>10. CASE ReadMoved(c)
  <2>1. PICK key \in r.keys, got \in Values : Goes(c, [r EXCEPT !.at = "write", !.key = key, !.got = got, !.keys = r.keys \ {key}])
    <3>1. PICK key \in call[c].keys : \E got \in mayRead(key) :
            Goes(c, [call[c] EXCEPT !.at = MoveOrder("next"), !.key = key, !.got = got, !.keys = @ \ {key}])
      BY <1>10, Zenon DEF ReadMoved
    <3>2. PICK got \in mayRead(key) :
            Goes(c, [call[c] EXCEPT !.at = MoveOrder("next"), !.key = key, !.got = got, !.keys = @ \ {key}])
      BY <3>1, Zenon
    <3>3. MoveOrder("next") = "write" /\ key \in r.keys /\ got \in Values
      BY <1>1, <3>1, <3>2, ValueIsRead DEF MoveOrder
    <3>4. Goes(c, [r EXCEPT !.at = "write", !.key = key, !.got = got, !.keys = r.keys \ {key}])
      BY <1>1, <3>2, <3>3
    <3> QED BY <3>3, <3>4, Zenon
  <2>2. PICK n : Goes(c, n) /\ n = [r EXCEPT !.at = "write", !.key = key, !.got = got, !.keys = r.keys \ {key}]
    BY <2>1
  <2>3. n.at = "write" /\ n.key = key /\ n.keys = r.keys \ {key} /\ n.entries = r.entries
    BY <1>2, <2>2
  <2>4. IsNamed(c, n)
    BY <1>2, <2>1, <2>3 DEF IsNamed
  <2>5. stored' = stored
    BY <1>10, Zenon DEF ReadMoved
  <2> QED BY <1>5, <2>2, <2>4, <2>5, OneIsNamed
<1>11. CASE WriteMoved(c)
  <2>1. r.at = "write" /\ Put(Destination(c), r.got) /\ MoveOrder(r.at) = "delete"
    BY <1>1, <1>11 DEF WriteMoved, MoveOrder
  <2>2. Goes(c, [r EXCEPT !.at = "delete", !.keys = r.keys])
    BY <1>1, <1>11, <2>1 DEF WriteMoved, Moved
  <2>3. DOMAIN stored' \subseteq Paths
    BY <1>1, <1>2, <2>1, DestinationIsPath, PutIsNamed
  <2>4. IsNamed(c, [r EXCEPT !.at = "delete", !.keys = r.keys])
    BY <1>2, <1>4
  <2> QED BY <2>2, <2>3, <2>4, OneIsNamed
<1>12. CASE DeleteMoved(c)
  <2>1. r.at = "delete" /\ Drop(r.key, r.got = Empty) /\ MoveOrder(r.at) = "next"
    BY <1>1, <1>12 DEF DeleteMoved, MoveOrder
  <2>2. PICK n : Goes(c, n) /\ (n = Done(c, TRUE) \/ n = [r EXCEPT !.at = "next", !.keys = r.keys])
    BY <1>1, <1>12, <2>1 DEF DeleteMoved, Moved
  <2>3. IsNamed(c, n)
    <3>1. IsNamed(c, [r EXCEPT !.at = "next", !.keys = r.keys])
      BY <1>2, <1>4
    <3> QED BY <1>3, <2>2, <3>1
  <2> QED BY <2>1, <2>2, <2>3, DropIsNamed, OneIsNamed
<1> QED BY <1>6, <1>7, <1>8, <1>9, <1>10, <1>11, <1>12

\* A call that fails is done, or opens the next archive.
LEMMA FailedIsNamed ==
  ASSUME StorageTypes, FilesAreNamed, NEW c \in Calls
  PROVE  IsNamed(c, Failed(c))
<1>1. PICK r : r = call[c] /\ IsCall(r) /\ IsNamed(c, r)
  BY DEF StorageTypes, FilesAreNamed
<1>2. IsNamed(c, Done(c, FALSE))
  BY DoneIsNamed
<1>3. PICK none : none = <<>> /\ ToSet(none) = {}
  BY DEF ToSet
<1>4. PICK n : n = [r EXCEPT !.at = "open", !.ok = FALSE, !.archives = Tail(r.archives), !.entries = none]
  OBVIOUS
<1>5. n.keys = r.keys /\ n.at = "open" /\ n.entries = none
  BY <1>1, <1>4 DEF IsCall
<1>6. c.op = "unzip" => IsNamed(c, n)
  BY <1>1, <1>3, <1>5 DEF IsNamed
<1>7. Failed(c) = Done(c, FALSE) \/ (c.op = "unzip" /\ Failed(c) = n)
  BY <1>1, <1>3, <1>4 DEF Failed
<1> QED BY <1>2, <1>6, <1>7

\* A request of a call is rejected.
LEMMA RejectedIsNamed ==
  ASSUME StorageTypes, FilesAreNamed, NEW c \in Calls, StoreRejects(c)
  PROVE  FilesAreNamed'
<1>1. Goes(c, Failed(c)) /\ stored' = stored
  BY DEF StoreRejects
<1>2. DOMAIN stored \subseteq Paths
  BY DEF FilesAreNamed
<1> QED BY <1>1, <1>2, FailedIsNamed, OneIsNamed

\* Archives are opened, and their entries go where a name is.
LEMMA EntriesAreNamed ==
  ASSUME StorageTypes, FilesAreNamed, NEW c \in Calls,
         BeginArchive(c) \/ OpenArchive(c) \/ ExtractEntry(c) \/ ArchiveDone(c)
  PROVE  FilesAreNamed'
<1>1. PICK r : r = call[c] /\ IsCall(r) /\ IsNamed(c, r)
  BY DEF StorageTypes, FilesAreNamed
<1>2. /\ r.keys \subseteq Paths
      /\ (\A e \in ToSet(r.entries) : Target(c, e) # None) /\ r.entries \in Seq(ZipEntries)
      /\ DOMAIN r = {"at", "keys", "key", "got", "entries", "archives", "written", "ok"}
  BY <1>1 DEF IsNamed, IsCall
<1>3. c.op \in {"unzip", "mrpack"}
  <2>1. \/ c.op \in {"unzip", "mrpack"} \/ call[c].at \in {"open", "entries"}
    BY Zenon DEF BeginArchive, OpenArchive, ExtractEntry, ArchiveDone
  <2> QED BY <1>1, <2>1 DEF IsNamed
<1>4. \A ok : IsNamed(c, Done(c, ok))
  BY DoneIsNamed
<1>5. ASSUME NEW n, n.keys = r.keys, n.at \in {"open", "entries"}, \A e \in ToSet(n.entries) : Target(c, e) # None
      PROVE  IsNamed(c, n)
  BY <1>2, <1>3, <1>5 DEF IsNamed
<1>7. IsNamed(c, Failed(c))
  BY FailedIsNamed
<1>8. DOMAIN stored \subseteq Paths
  BY DEF FilesAreNamed
<1>9. CASE BeginArchive(c)
  <2>1. PICK n : n = [r EXCEPT !.at = "open", !.archives = c.archives]
    OBVIOUS
  <2>2. n.keys = r.keys /\ n.at = "open" /\ n.entries = r.entries
    BY <1>2, <2>1
  <2>3. IsNamed(c, n)
    BY <1>2, <1>5, <2>2
  <2>4. stored' = stored /\ (Goes(c, Done(c, TRUE)) \/ Goes(c, n))
    BY <1>1, <1>9, <2>1 DEF BeginArchive
  <2> QED BY <1>4, <1>8, <2>3, <2>4, OneIsNamed
<1>10. CASE OpenArchive(c)
  <2> DEFINE there(value) == {e \in ToSet(Archives[value]) : Target(c, e) # None}
             opened(value) == [call[c] EXCEPT !.at = "entries", !.entries = Selected(Archives[value], there(value))]
  <2>1. PICK value \in mayRead(Head(call[c].archives)) :
          Goes(c, IF value \notin DOMAIN Archives THEN Failed(c)
                  ELSE IF c.op = "mrpack" /\ ~HasManifest(value) THEN Failed(c) ELSE opened(value))
    BY <1>10, Zenon DEF OpenArchive
  <2>2. PICK entries, n :
          entries = Selected(Archives[value], there(value)) /\ n = [r EXCEPT !.at = "entries", !.entries = entries]
    BY Zenon
  <2>3. stored' = stored /\ (Goes(c, Failed(c)) \/ (value \in DOMAIN Archives /\ Goes(c, n)))
    <3>1. stored' = stored
      BY <1>10, Zenon DEF OpenArchive
    <3> QED BY <1>1, <2>1, <2>2, <3>1
  <2>4. n.keys = r.keys /\ n.at = "entries" /\ n.entries = entries
    BY <1>2, <2>2
  <2>5. ASSUME value \in DOMAIN Archives PROVE IsNamed(c, n)
    <3>1. Archives[value] \in Seq(ToSet(Archives[value]))
      BY <2>5, ArchivesAssumption
    <3>2. ToSet(entries) \subseteq there(value)
      <4>1. ToSet(Selected(Archives[value], there(value))) = ToSet(Archives[value]) \cap there(value)
        BY <3>1, SelectedAre
      <4> QED BY <2>2, <4>1
    <3>3. \A e \in ToSet(n.entries) : Target(c, e) # None
      BY <2>4, <3>2
    <3> QED BY <1>5, <2>4, <3>3
  <2> QED BY <1>7, <1>8, <2>3, <2>5, OneIsNamed
<1>11. CASE ArchiveDone(c)
  <2>1. PICK n : n = [r EXCEPT !.at = "open", !.archives = Tail(r.archives)]
    OBVIOUS
  <2>2. n.keys = r.keys /\ n.at = "open" /\ n.entries = r.entries
    BY <1>2, <2>1
  <2>3. IsNamed(c, n)
    BY <1>2, <1>5, <2>2
  <2>4. stored' = stored /\ (Goes(c, Done(c, r.ok)) \/ Goes(c, n))
    BY <1>1, <1>11, <2>1 DEF ArchiveDone
  <2> QED BY <1>4, <1>8, <2>3, <2>4, OneIsNamed
<1>12. CASE ExtractEntry(c)
  <2>1. r.at = "entries" /\ r.entries # <<>>
    BY <1>1, <1>12 DEF ExtractEntry
  <2>2. PICK entry, left : entry = Head(r.entries) /\ left = Tail(r.entries) /\ entry \in ToSet(r.entries) /\ ToSet(left) \subseteq ToSet(r.entries)
    BY <1>2, <2>1, HeadAndTail
  <2>3. CASE entry.isCorrupt
    BY <1>1, <1>7, <1>8, <1>12, <2>2, <2>3, OneIsNamed DEF ExtractEntry
  <2>4. CASE ~entry.isCorrupt
    <3>1. PICK n : n = [r EXCEPT !.entries = left, !.written = r.written \cup {Target(c, entry)}]
      OBVIOUS
    <3>2. n.keys = r.keys /\ n.at = "entries" /\ n.entries = left
      BY <1>2, <2>1, <3>1
    <3>3. IsNamed(c, n)
      BY <1>2, <1>5, <2>2, <3>2
    <3>4. Put(Target(c, entry), entry.value) /\ Goes(c, n)
      BY <1>1, <1>12, <2>2, <2>4, <3>1 DEF ExtractEntry
    <3>5. entry \in ZipEntries /\ Target(c, entry) # None
      BY <1>2, <2>2 DEF ToSet
    <3>6. DOMAIN stored' \subseteq Paths
      BY <1>3, <3>4, <3>5, TargetIsPath, PutIsNamed
    <3> QED BY <3>3, <3>4, <3>6, OneIsNamed
  <2> QED BY <2>3, <2>4
<1> QED BY <1>9, <1>10, <1>11, <1>12

\* The page is loaded anew.
LEMMA ReloadKeepsNames ==
  ASSUME StorageTypes, FilesAreNamed, ReloadStorage
  PROVE  FilesAreNamed'
<1>1. stored' = stored /\ \A c \in Calls : call'[c] = call[c] \/ call'[c] = Done(c, FALSE)
  BY DEF ReloadStorage
<1>2. \A c \in Calls : IsNamed(c, call[c]) /\ IsNamed(c, Done(c, FALSE))
  BY DoneIsNamed DEF FilesAreNamed
<1>3. \A c \in Calls : IsNamed(c, call'[c])
  BY <1>1, <1>2
<1> QED BY <1>1, <1>3 DEF FilesAreNamed, IsNamed, Target

\* Every step of every call keeps names.
LEMMA NamesStay ==
  ASSUME StorageInv, FilesAreNamed, [StorageNext]_storageVars
  PROVE  FilesAreNamed'
<1>1. StorageTypes
  BY DEF StorageInv
<1>2. ASSUME NEW c \in Calls, CallStep(c) PROVE FilesAreNamed'
  BY <1>1, <1>2, FilesStayNamed, EntriesAreNamed, RejectedIsNamed DEF CallStep
<1>3. CASE UNCHANGED storageVars
  <2>1. stored' = stored /\ call' = call
    BY <1>3 DEF storageVars
  <2> QED BY <2>1 DEF FilesAreNamed, IsNamed, Target
<1> QED BY <1>1, <1>2, <1>3, ReloadKeepsNames DEF StorageNext

-----------------------------------------------------------------------------
\* Where a separator is first, or 0.
LEMMA FirstSlash ==
  ASSUME NEW s, Len(s) \in Nat
  PROVE  LET u == SelectInSeq(s, LAMBDA token : token = Slash)
         IN  \/ u = 0 /\ \A i \in 1..Len(s) : s[i] # Slash
             \/ u \in 1..Len(s) /\ s[u] = Slash
<1> DEFINE places == {i \in 1..Len(s) : s[i] = Slash}
<1>1. SelectInSeq(s, LAMBDA token : token = Slash) = IF places # {} THEN Min(places) ELSE 0
  BY DEF SelectInSeq
<1>2. CASE places = {}
  BY <1>1, <1>2
<1>3. CASE places # {}
  <2>1. places \subseteq Nat
    OBVIOUS
  <2>2. Min(places) \in places
    <3> HIDE DEF places
    <3>1. \E m \in places : \A i \in places : m <= i
      BY <1>3, <2>1, LeastNatural
    <3> QED BY <3>1 DEF Min
  <2> QED BY <1>1, <1>3, <2>2
<1> QED BY <1>2, <1>3

\* A key is under a path if it goes on with a separator.
LEMMA UnderIsBehind ==
  ASSUME NEW path \in Seq(STRING), NEW key \in Seq(STRING)
  PROVE  Under(path, key) <=> Len(path) < Len(key) /\ IsPrefix(path, key) /\ key[Len(path) + 1] = Slash
<1>1. Slash \in STRING
  BY PathsAssumption
<1> HIDE DEF Slash
<1> QED BY <1>1, AppendIsPrefix DEF Under

\* What getStoredFileInfo answers.
LEMMA InfoIsRight ==
  ASSUME DOMAIN stored \subseteq Seq(STRING), NEW path \in Seq(STRING)
  PROVE  LET info == getStoredFileInfo(path)
             holds == \E key \in DOMAIN stored : Under(path, key)
         IN  /\ path \in DOMAIN stored => info # None /\ info.isFile
             /\ path \notin DOMAIN stored /\ holds => info # None
             /\ path \notin DOMAIN stored /\ ~holds => info = None
             /\ path \in listStores(path) <=> path \in DOMAIN stored
             /\ \A key \in DOMAIN stored : Under(path, key) => key \in listStores(path)
<1> DEFINE isFile == path \in listStores(path)
           isDirectory == ~isFile /\ \E key \in listStores(path) : Under(path, key)
           info == [isFile |-> isFile, mtime |-> isFile /\ readStoragePath(path) \notin Texts]
<1>1. getStoredFileInfo(path) = IF ~isFile /\ ~isDirectory THEN None ELSE info
  BY DEF getStoredFileInfo
<1>2. isFile <=> path \in DOMAIN stored
  <2>1. IsPrefix(path, path)
    BY DEF IsPrefix
  <2> QED BY <2>1 DEF listStores
<1>3. \A key \in DOMAIN stored : Under(path, key) => key \in listStores(path)
  <2> SUFFICES ASSUME NEW key \in DOMAIN stored, Under(path, key) PROVE IsPrefix(path, key)
    BY DEF listStores
  <2> QED BY UnderIsBehind
<1>4. isDirectory <=> ~isFile /\ \E key \in DOMAIN stored : Under(path, key)
  BY <1>3 DEF listStores
<1>5. info # None /\ info.isFile = isFile
  <2>1. info \in [isFile : BOOLEAN, mtime : BOOLEAN]
    OBVIOUS
  <2> QED BY <2>1, PathsAssumption
<1> HIDE DEF isFile, isDirectory, info
<1> QED BY <1>1, <1>2, <1>3, <1>4, <1>5 DEF isFile

Behind(path, key) == SubSeq(key, Len(Append(path, Slash)) + 1, Len(key))
In(path, name) == Append(path, Slash) \o name

\* A key under a path is the path, a separator, and what is behind it.
LEMMA KeyIsBehind ==
  ASSUME NEW path \in Seq(STRING), NEW key \in Seq(STRING), Under(path, key)
  PROVE  /\ Behind(path, key) \in Seq(STRING) /\ DOMAIN Behind(path, key) = 1..Len(Behind(path, key))
         /\ Len(Behind(path, key)) \in Nat /\ Len(Behind(path, key)) = Len(key) - Len(Append(path, Slash))
         /\ In(path, Behind(path, key)) = key
         /\ key \in Paths => Behind(path, key) # <<>>
<1>1. Slash \in STRING
  BY PathsAssumption
<1> HIDE DEF Slash
<1>2. Append(path, Slash) \in Seq(STRING) /\ Len(Append(path, Slash)) = Len(path) + 1
  BY <1>1, AppendProperties
<1>3. PICK folder : folder = Append(path, Slash)
  OBVIOUS
<1>4. IsPrefix(folder, key) /\ folder \in Seq(STRING)
  BY <1>2, <1>3 DEF Under
<1>5. PICK rest : rest = SubSeq(key, Len(folder) + 1, Len(key))
  OBVIOUS
<1>6. rest \in Seq(STRING) /\ Len(rest) = Len(key) - Len(folder) /\ folder \o rest = key
  BY <1>4, <1>5, PrefixAndRest
<1>7. DOMAIN rest = 1..Len(rest) /\ Len(rest) \in Nat
  BY <1>6
<1>8. ASSUME key \in Paths PROVE rest # <<>>
  <2>1. Len(path) < Len(key) /\ key[Len(path) + 1] = Slash
    BY UnderIsBehind
  <2>2. Len(path) \in Nat /\ Len(key) \in Nat
    OBVIOUS
  <2>3. key # <<>>
    BY <2>1, <2>2
  <2>4. key[Len(key)] # Slash
    BY <1>8, <2>3 DEF Paths, Last
  <2>5. Len(key) # Len(path) + 1
    BY <2>1, <2>4
  <2>6. Len(rest) # 0
    BY <1>2, <1>3, <1>6, <2>2, <2>5
  <2> QED BY <2>6
<1>9. Behind(path, key) = rest /\ In(path, rest) = folder \o rest
  BY <1>3, <1>5 DEF Behind, In
<1> QED BY <1>3, <1>6, <1>7, <1>8, <1>9

\* The name that is behind a path leads to the key.
LEMMA NameLeadsOn ==
  ASSUME NEW path \in Seq(STRING), NEW key \in Seq(STRING), Under(path, key),
         NEW u \in 1..Len(Behind(path, key)), Behind(path, key)[u] = Slash
  PROVE  LET there == In(path, SubSeq(Behind(path, key), 1, u - 1)) IN there \in Seq(STRING) /\ Under(there, key)
<1>1. Slash \in STRING /\ Len(Behind(path, key)) = Len(key) - Len(Append(path, Slash))
  BY PathsAssumption, KeyIsBehind
<1> HIDE DEF Slash
<1>2. PICK folder : folder = Append(path, Slash)
  OBVIOUS
<1>3. IsPrefix(folder, key) /\ folder \in Seq(STRING)
  BY <1>1, <1>2, AppendProperties DEF Under
<1>4. PICK rest : rest = SubSeq(key, Len(folder) + 1, Len(key))
  OBVIOUS
<1>5. Behind(path, key) = rest
  BY <1>2, <1>4 DEF Behind
<1>6. PICK there : there = folder \o SubSeq(rest, 1, u - 1)
  OBVIOUS
<1>7. there \in Seq(STRING) /\ IsPrefix(Append(there, rest[u]), key)
  <2>1. u \in 1..(Len(key) - Len(folder))
    BY <1>1, <1>2
  <2> QED BY <1>3, <1>4, <1>6, <2>1, PrefixUpTo
<1>8. Under(there, key)
  BY <1>5, <1>7 DEF Under
<1>9. In(path, SubSeq(Behind(path, key), 1, u - 1)) = there
  BY <1>2, <1>5, <1>6 DEF In
<1> QED BY <1>7, <1>8, <1>9

\* What listDirectoryEntries answers: for each key under a path one entry, and no other.
LEMMA EntriesAreRight ==
  ASSUME DOMAIN stored \subseteq Paths, NEW path \in Paths
  PROVE  LET entries == listDirectoryEntries(path)
         IN  /\ \A key \in DOMAIN stored : Under(path, key) => entries # {}
             /\ \A e \in entries :
                  /\ In(path, e.name) \in Seq(STRING)
                  /\ \E key \in DOMAIN stored :
                       Under(path, key) /\ (In(path, e.name) = key \/ (e.isDirectory /\ Under(In(path, e.name), key)))
             /\ \A key \in DOMAIN stored :
                  Under(path, key) /\ Slash \notin ToSet(Behind(path, key)) => \E e \in entries : key = In(path, e.name)
<1> DEFINE upToSlash(key) == SelectInSeq(Behind(path, key), LAMBDA token : token = Slash)
           name(key) == <<IF upToSlash(key) = 0 THEN Behind(path, key) ELSE SubSeq(Behind(path, key), 1, upToSlash(key) - 1), upToSlash(key) # 0>>
           listed == {key \in listStores(Append(path, Slash)) : Behind(path, key) # <<>>}
           names == {name(key) : key \in listed}
           entry(n) == [name |-> n[1], isDirectory |-> <<n[1], TRUE>> \in names]
           entries == {entry(n) : n \in names}
<1>1. listDirectoryEntries(path) = entries
  <2>1. (IF path # <<>> /\ Last(path) = Slash THEN path ELSE Append(path, Slash)) = Append(path, Slash)
    BY DEF Paths
  <2> QED BY <2>1 DEF listDirectoryEntries, Behind
<1>2. path \in Seq(STRING) /\ \A key \in DOMAIN stored : key \in Seq(STRING)
  BY DEF Paths
<1>3. \A key : key \in listed <=> key \in DOMAIN stored /\ Under(path, key)
  <2>1. \A key \in DOMAIN stored : Under(path, key) => Behind(path, key) # <<>>
    BY <1>2, KeyIsBehind
  <2> QED BY <2>1 DEF listStores, Under
<1>4. ASSUME NEW key \in listed
      PROVE  \/ upToSlash(key) = 0 /\ Slash \notin ToSet(Behind(path, key))
             \/ upToSlash(key) \in 1..Len(Behind(path, key)) /\ Behind(path, key)[upToSlash(key)] = Slash
  <2>1. Len(Behind(path, key)) \in Nat /\ DOMAIN Behind(path, key) = 1..Len(Behind(path, key))
    BY <1>2, <1>3, KeyIsBehind
  <2> QED BY <2>1, FirstSlash DEF ToSet
<1> HIDE DEF upToSlash, listed
<1>5. ASSUME NEW key \in DOMAIN stored, Under(path, key)
      PROVE  name(key) \in names /\ entry(name(key)) \in entries
  BY <1>3, <1>5
<1>6. ASSUME NEW e \in entries
      PROVE  /\ In(path, e.name) \in Seq(STRING)
             /\ \E key \in DOMAIN stored :
                  Under(path, key) /\ (In(path, e.name) = key \/ (e.isDirectory /\ Under(In(path, e.name), key)))
  <2>1. PICK key \in listed : e = entry(name(key)) /\ name(key) \in names
    OBVIOUS
  <2>2. key \in DOMAIN stored /\ Under(path, key) /\ key \in Seq(STRING)
    BY <1>2, <1>3
  <2>3. CASE upToSlash(key) = 0
    <3>1. e.name = Behind(path, key)
      BY <2>1, <2>3
    <3>2. In(path, e.name) = key
      BY <1>2, <2>2, <3>1, KeyIsBehind
    <3> QED BY <2>2, <3>2
  <2>4. CASE upToSlash(key) # 0
    <3>1. name(key) = <<SubSeq(Behind(path, key), 1, upToSlash(key) - 1), TRUE>>
      BY <2>4
    <3>2. e.name = SubSeq(Behind(path, key), 1, upToSlash(key) - 1) /\ e.isDirectory
      <4>1. PICK n : n = name(key)
        OBVIOUS
      <4>2. n[1] = SubSeq(Behind(path, key), 1, upToSlash(key) - 1) /\ <<n[1], TRUE>> = n /\ n \in names
        BY <2>1, <3>1, <4>1
      <4>3. e.name = n[1] /\ e.isDirectory = (<<n[1], TRUE>> \in names)
        BY <2>1, <4>1
      <4> QED BY <4>2, <4>3
    <3>3. upToSlash(key) \in 1..Len(Behind(path, key)) /\ Behind(path, key)[upToSlash(key)] = Slash
      BY <1>4, <2>4
    <3>4. In(path, e.name) \in Seq(STRING) /\ Under(In(path, e.name), key)
      BY <1>2, <2>2, <3>2, <3>3, NameLeadsOn
    <3> QED BY <2>2, <3>2, <3>4
  <2> QED BY <2>3, <2>4
<1>7. ASSUME NEW key \in DOMAIN stored, Under(path, key), Slash \notin ToSet(Behind(path, key))
      PROVE  \E e \in entries : key = In(path, e.name)
  <2>1. key \in listed
    BY <1>3, <1>7
  <2>2. upToSlash(key) = 0
    <3>1. DOMAIN Behind(path, key) = 1..Len(Behind(path, key))
      BY <1>2, <1>7, KeyIsBehind
    <3> QED BY <1>4, <1>7, <2>1, <3>1 DEF ToSet
  <2>3. entry(name(key)).name = Behind(path, key)
    BY <2>2
  <2>4. In(path, Behind(path, key)) = key
    BY <1>2, <1>7, KeyIsBehind
  <2> QED BY <1>5, <1>7, <2>3, <2>4
<1> HIDE DEF entries
<1>8. \A key \in DOMAIN stored : Under(path, key) => entries # {}
  BY <1>5
<1> QED BY <1>1, <1>6, <1>7, <1>8

-----------------------------------------------------------------------------
\* The commands agree, whatever is stored.
LEMMA AnswersAreAgreed ==
  ASSUME FilesAreNamed
  PROVE  AnswersAgree
<1> SUFFICES ASSUME NEW path \in DOMAIN stored \cup {c.path : c \in Calls} \cup {c.to : c \in Calls}
             PROVE  LET missing == path \in get_missing_files({path})
                        info == getStoredFileInfo(path)
                        entries == listDirectoryEntries(path)
                        found == readStoredExtensions(path)
                    IN /\ missing <=> info = None
                       /\ ~missing => exists(path)
                       /\ entries # {} => ~missing
                       /\ ~missing => info.isFile \/ entries # {}
                       /\ \A e \in entries :
                            LET there == getStoredFileInfo(In(path, e.name)) IN there # None /\ (e.isDirectory \/ there.isFile)
                       /\ path \notin verify_file_paths([p \in {path} |-> "ignore"]) => ~missing /\ info.isFile
                       /\ \A key \in found.extensions \cup found.failures :
                            getStoredFileInfo(key).isFile /\ \E e \in entries : key = In(path, e.name)
  BY Zenon DEF AnswersAgree, In
<1>1. DOMAIN stored \subseteq Paths /\ path \in Paths
  BY PathsAssumption DEF FilesAreNamed
<1>2. DOMAIN stored \subseteq Seq(STRING) /\ path \in Seq(STRING)
  BY <1>1 DEF Paths
<1> DEFINE missing == path \in get_missing_files({path})
           info == getStoredFileInfo(path)
           entries == listDirectoryEntries(path)
           found == readStoredExtensions(path)
           holds == \E key \in DOMAIN stored : Under(path, key)
<1>3. missing <=> path \notin DOMAIN stored /\ ~holds
  BY DEF get_missing_files
<1>4. /\ path \in DOMAIN stored => info # None /\ info.isFile
      /\ path \notin DOMAIN stored /\ holds => info # None
      /\ path \notin DOMAIN stored /\ ~holds => info = None
      /\ path \in listStores(path) <=> path \in DOMAIN stored
      /\ \A key \in DOMAIN stored : Under(path, key) => key \in listStores(path)
  BY <1>2, InfoIsRight
<1>5. /\ \A key \in DOMAIN stored : Under(path, key) => entries # {}
      /\ \A e \in entries :
           /\ In(path, e.name) \in Seq(STRING)
           /\ \E key \in DOMAIN stored :
                Under(path, key) /\ (In(path, e.name) = key \/ (e.isDirectory /\ Under(In(path, e.name), key)))
      /\ \A key \in DOMAIN stored :
           Under(path, key) /\ Slash \notin ToSet(Behind(path, key)) => \E e \in entries : key = In(path, e.name)
  BY <1>1, EntriesAreRight
<1> HIDE DEF missing, info, entries
<1>6. (missing <=> info = None) /\ (~missing => exists(path)) /\ (entries # {} => ~missing)
      /\ (~missing => info.isFile \/ entries # {})
  <2>1. entries # {} => holds
    BY <1>5
  <2>2. ~missing => exists(path)
    BY <1>3, <1>4 DEF exists
  <2> QED BY <1>3, <1>4, <1>5, <2>1, <2>2
<1>7. ASSUME NEW e \in entries
      PROVE  getStoredFileInfo(In(path, e.name)) # None /\ (e.isDirectory \/ getStoredFileInfo(In(path, e.name)).isFile)
  <2>1. PICK there : there = In(path, e.name)
    OBVIOUS
  <2>2. PICK key \in DOMAIN stored : there = key \/ (e.isDirectory /\ Under(there, key))
    BY <1>5, <2>1
  <2>3. there \in Seq(STRING)
    BY <1>5, <2>1
  <2>4. /\ there \in DOMAIN stored => getStoredFileInfo(there) # None /\ getStoredFileInfo(there).isFile
        /\ there \notin DOMAIN stored /\ (\E k \in DOMAIN stored : Under(there, k)) => getStoredFileInfo(there) # None
    BY <1>2, <2>3, InfoIsRight
  <2> QED BY <2>1, <2>2, <2>4
<1>8. path \notin verify_file_paths([p \in {path} |-> "ignore"]) => ~missing /\ info.isFile
  <2>1. path \notin verify_file_paths([p \in {path} |-> "ignore"]) => HasBytes(path)
    BY DEF verify_file_paths
  <2>2. HasBytes(path) => path \in DOMAIN stored
    BY DEF HasBytes, readStoragePath
  <2> QED BY <1>3, <1>4, <2>1, <2>2
<1>9. ASSUME NEW key \in found.extensions \cup found.failures
      PROVE  getStoredFileInfo(key).isFile /\ \E e \in entries : key = In(path, e.name)
  <2>1. /\ key \in listStores(Append(path, Slash))
        /\ Slash \notin ToSet(SubSeq(key, Len(path) + 2, Len(key)))
    BY DEF readStoredExtensions
  <2>2. key \in DOMAIN stored /\ Under(path, key) /\ key \in Seq(STRING)
    BY <1>2, <2>1 DEF listStores, Under
  <2>3. getStoredFileInfo(key).isFile
    BY <1>2, <2>2, InfoIsRight
  <2>4. Len(Append(path, Slash)) + 1 = Len(path) + 2
    <3>1. Len(Append(path, Slash)) = Len(path) + 1 /\ Len(path) \in Nat
      BY <1>2, PathsAssumption, AppendProperties
    <3> QED BY <3>1
  <2>5. Slash \notin ToSet(Behind(path, key))
    BY <2>1, <2>4 DEF Behind
  <2> QED BY <1>5, <2>2, <2>3, <2>5
<1> QED BY <1>6, <1>7, <1>8, <1>9 DEF missing, info, entries

\* The commands that the preview answers in a browser agree on what is there, however many calls change
\* the files and wherever the page is loaded anew (lib/__browser/scopes).
THEOREM AnswersAreOne == StorageSafety => []AnswersAgree
<1>1. StorageInit => StorageInv /\ FilesAreNamed
  BY StorageStarts, StorageIsNamed
<1>2. StorageInv /\ FilesAreNamed /\ [StorageNext]_storageVars => (StorageInv /\ FilesAreNamed)'
  BY StorageSteps, NamesStay
<1>3. StorageInv /\ FilesAreNamed => AnswersAgree
  BY AnswersAreAgreed
<1> QED BY <1>1, <1>2, <1>3, PTL DEF StorageSafety

-----------------------------------------------------------------------------
(* Downloads (module ReplicaDownloads).  A batch balances: what settled    *)
(* and what its workers hold is what the index has handed out.  Workers    *)
(* hold different files, so that what is shown is held by one of them.     *)

LaneStates == [at : {"out", "fetch", "read", "write", "abort"}, file : Nat \cup {None}]

FlagStates == [flag : Invocations \cup {None}, batches : Nat]
BatchStates ==
  [at : {"idle", "running", "answered"}, id : CancelIds \cup {None}, flag : Invocations \cup {None},
   files : 0..MaxFiles, next : Nat, success : Nat, failed : Nat,
   answer : [success : Nat, failed : Nat, cancelled : BOOLEAN] \cup {None}]

ReplicaTypes ==
  /\ cancelFlags \in [CancelIds -> FlagStates]
  /\ set \subseteq Invocations
  /\ batch \in [Invocations -> BatchStates]
  /\ lane \in [Invocations -> [MostLanes -> LaneStates]]
  /\ shown \in [Invocations -> SUBSET Nat]

\* The workers with a file, and the files they have.
Works(b) == {w \in MostLanes : lane[b][w].at # "out"}
Held(b) == {lane[b][w].file : w \in Works(b)}

\* Files are in one pair of hands each, those shown by a worker that was answered.
LanesHold(b) ==
  /\ batch[b].at = "idle" => batch[b] = Idling
  /\ batch[b].at # "running" => Works(b) = {}
  /\ \A w \in Works(b) :
       /\ lane[b][w].file \in 0..(batch[b].files - 1)
       /\ ~IsSet(b) => lane[b][w].file < batch[b].next
       /\ lane[b][w].at = "abort" => IsSet(b)
       /\ \A v \in Works(b) : lane[b][v].file = lane[b][w].file => v = w
  /\ \A e \in shown[b] : \E w \in Works(b) : lane[b][w].at # "fetch" /\ lane[b][w].file = e

\* While the flag is not set, workers leave at the end of the list only.
BatchBalances(b) ==
  /\ batch[b].success + batch[b].failed + Cardinality(Held(b)) <= batch[b].files
  /\ batch[b].at = "running" /\ ~IsSet(b) =>
       /\ batch[b].next < batch[b].files =>
            batch[b].success + batch[b].failed + Cardinality(Held(b)) = batch[b].next /\ Works(b) # {}
       /\ batch[b].next >= batch[b].files =>
            batch[b].success + batch[b].failed + Cardinality(Held(b)) = batch[b].files

RunningWith(i) == {b \in Invocations : batch[b].at = "running" /\ batch[b].id = i}

FlagsAreCounted ==
  /\ \A i \in CancelIds : cancelFlags[i].batches = Cardinality(RunningWith(i))
  /\ \A b \in Invocations : batch[b].at = "running" => batch[b].id \in CancelIds

ReplicaInv ==
  /\ ReplicaTypes
  /\ FlagsAreCounted
  /\ \A b \in Invocations : LanesHold(b) /\ BatchBalances(b)

ReplicaSafety == ReplicaInit /\ [][ReplicaNext]_replicaVars

\* At the start there is no batch.
LEMMA ReplicaStarts == ReplicaInit => ReplicaInv
<1> SUFFICES ASSUME ReplicaInit PROVE ReplicaInv
  OBVIOUS
<1> USE ReplicaAssumption DEF ReplicaInit
<1>1. ReplicaTypes
  BY DEF ReplicaTypes, LaneStates, FlagStates, BatchStates, Idling, Out
<1>2. FlagsAreCounted
  <2>1. \A i \in CancelIds : RunningWith(i) = {}
    BY DEF RunningWith, Idling
  <2> QED BY <2>1, FS_EmptySet DEF FlagsAreCounted, Idling
<1>3. ASSUME NEW b \in Invocations PROVE LanesHold(b) /\ BatchBalances(b)
  <2>1. Works(b) = {} /\ Held(b) = {}
    BY DEF Works, Held, Out
  <2> QED BY <2>1, FS_EmptySet DEF LanesHold, BatchBalances, Idling
<1> QED BY <1>1, <1>2, <1>3 DEF ReplicaInv

\* A batch that no step changes keeps its balance, also when its flag is set.
LEMMA SameInBrowser ==
  ASSUME NEW b \in Invocations, LanesHold(b), BatchBalances(b), batch'[b] = batch[b], lane'[b] = lane[b],
         shown'[b] = shown[b], set \subseteq set'
  PROVE  LanesHold(b)' /\ BatchBalances(b)'
<1>1. Works(b)' = Works(b) /\ Held(b)' = Held(b)
  BY DEF Works, Held
<1>2. IsSet(b) => IsSet(b)'
  BY DEF IsSet
<1> QED BY <1>1, <1>2 DEF LanesHold, BatchBalances

\* What is held is finite, and files of the batch.
LEMMA HeldFinite ==
  ASSUME ReplicaTypes, NEW b \in Invocations, LanesHold(b)
  PROVE  IsFiniteSet(Held(b)) /\ Cardinality(Held(b)) \in Nat /\ Held(b) \subseteq 0..(batch[b].files - 1)
<1>1. Held(b) \subseteq 0..(batch[b].files - 1)
  BY DEF Held, LanesHold
<1>2. batch[b].files \in Nat
  BY DEF ReplicaTypes, BatchStates
<1>3. IsFiniteSet(0..(batch[b].files - 1))
  BY <1>2, FS_Interval
<1> QED BY <1>1, <1>3, FS_Subset, FS_CardinalityType

\* While no batch begins or ends, the flags count what they did.
LEMMA SameCounts ==
  ASSUME FlagsAreCounted, cancelFlags' = cancelFlags,
         \A b \in Invocations : batch'[b].at = batch[b].at /\ batch'[b].id = batch[b].id
  PROVE  FlagsAreCounted'
<1>1. \A i \in CancelIds : RunningWith(i)' = RunningWith(i)
  BY DEF RunningWith
<1> QED BY <1>1 DEF FlagsAreCounted

\* The place of one worker changes.
LEMMA FileGoesOn ==
  ASSUME NEW f \in [Invocations -> [MostLanes -> LaneStates]], NEW b \in Invocations, NEW w \in MostLanes,
         NEW where \in {"out", "fetch", "read", "write", "abort"}
  PROVE  [f EXCEPT ![b][w].at = where] \in [Invocations -> [MostLanes -> LaneStates]]
<1>1. f[b] \in [MostLanes -> LaneStates] /\ f[b][w] \in LaneStates
  OBVIOUS
<1>2. [f[b][w] EXCEPT !.at = where] \in LaneStates
  BY <1>1 DEF LaneStates
<1>3. [f[b] EXCEPT ![w] = [f[b][w] EXCEPT !.at = where]] \in [MostLanes -> LaneStates]
  BY <1>1, <1>2
<1> QED BY <1>1, <1>2, <1>3

\* A worker that goes on with its file holds what it held.
LEMMA WorkerGoesOn ==
  ASSUME ReplicaInv, NEW b \in Invocations, NEW w \in MostLanes, NEW where \in {"read", "write", "abort"},
         w \in Works(b), GoesOn(b, w, where), where = "abort" => IsSet(b),
         UNCHANGED <<cancelFlags, set, batch>>, shown' = shown \/ shown' = [shown EXCEPT ![b] = @ \cup {lane[b][w].file}]
  PROVE  ReplicaInv'
<1> USE DEF ReplicaInv
<1>1. /\ \A c \in Invocations, v \in MostLanes : lane'[c][v].file = lane[c][v].file
      /\ \A c \in Invocations, v \in MostLanes : <<c, v>> # <<b, w>> => lane'[c][v] = lane[c][v]
      /\ lane'[b][w].at = where
      /\ \A c \in Invocations : c # b => lane'[c] = lane[c] /\ shown'[c] = shown[c]
  BY DEF GoesOn, ReplicaTypes
<1>2. Works(b)' = Works(b)
  BY <1>1 DEF Works
<1>3. Held(b)' = Held(b)
  BY <1>1, <1>2 DEF Held, Works
<1>4. IsSet(b)' <=> IsSet(b)
  BY DEF IsSet
<1>5. BatchBalances(b)'
  BY <1>2, <1>3, <1>4 DEF BatchBalances
<1>6. \A e \in shown'[b] : e \in shown[b] \/ e = lane[b][w].file
  BY DEF ReplicaTypes
<1>7. \A v \in Works(b) : v \in MostLanes
  BY DEF Works
<1>8. LanesHold(b)'
  <2>1. \A e \in shown'[b] : \E v \in Works(b)' : lane'[b][v].at # "fetch" /\ lane'[b][v].file = e
    <3> SUFFICES ASSUME NEW e \in shown'[b] PROVE \E v \in Works(b)' : lane'[b][v].at # "fetch" /\ lane'[b][v].file = e
      OBVIOUS
    <3>1. CASE e = lane[b][w].file
      BY <3>1, <1>1, <1>2
    <3>2. CASE e \in shown[b] /\ e # lane[b][w].file
      <4>1. PICK v \in Works(b) : lane[b][v].at # "fetch" /\ lane[b][v].file = e
        BY <3>2 DEF LanesHold
      <4> QED BY <4>1, <3>2, <1>1, <1>2, <1>7
    <3> QED BY <3>1, <3>2, <1>6
  <2>2. \A v \in Works(b)' : lane'[b][v].at = "abort" => IsSet(b)
    BY <1>1, <1>2, <1>7 DEF LanesHold
  <2>3. \A v \in Works(b)' : lane'[b][v].file = lane[b][v].file
    BY <1>1, <1>2, <1>7
  <2> QED BY <1>2, <1>4, <2>1, <2>2, <2>3 DEF LanesHold
<1>9. \A c \in Invocations : c # b => LanesHold(c)' /\ BatchBalances(c)'
  BY <1>1, SameInBrowser
<1>10. ReplicaTypes'
  <2>1. lane[b][w].file \in Nat
    <3>1. batch[b].files \in Nat
      BY DEF ReplicaTypes, BatchStates
    <3> QED BY <3>1 DEF LanesHold
  <2>2. shown' \in [Invocations -> SUBSET Nat]
    BY <2>1 DEF ReplicaTypes
  <2>3. lane' \in [Invocations -> [MostLanes -> LaneStates]]
    BY FileGoesOn DEF ReplicaTypes, GoesOn
  <2> QED BY <2>2, <2>3 DEF ReplicaTypes
<1> QED BY <1>5, <1>8, <1>9, <1>10, SameCounts

\* The files left when one is settled or given up.
LEMMA FileLeaves ==
  ASSUME ReplicaInv, NEW b \in Invocations, NEW w \in Works(b)
  PROVE  /\ {lane[b][v].file : v \in Works(b) \ {w}} = Held(b) \ {lane[b][w].file}
         /\ IsFiniteSet(Held(b) \ {lane[b][w].file}) /\ Cardinality(Held(b)) \in Nat \ {0}
         /\ Cardinality(Held(b) \ {lane[b][w].file}) = Cardinality(Held(b)) - 1
<1>1. LanesHold(b)
  BY DEF ReplicaInv
<1>2. {lane[b][v].file : v \in Works(b) \ {w}} = Held(b) \ {lane[b][w].file}
  BY <1>1 DEF Held, LanesHold
<1>3. lane[b][w].file \in Held(b)
  BY DEF Held
<1>4. IsFiniteSet(Held(b)) /\ Cardinality(Held(b)) \in Nat
  BY <1>1, HeldFinite DEF ReplicaInv
<1>5. /\ IsFiniteSet(Held(b) \ {lane[b][w].file})
      /\ Cardinality(Held(b) \ {lane[b][w].file}) = Cardinality(Held(b)) - 1
  BY <1>3, <1>4, FS_RemoveElement
<1>6. Cardinality(Held(b)) # 0
  BY <1>3, <1>4, FS_EmptySet
<1> QED BY <1>2, <1>4, <1>5, <1>6

\* A worker that leaves, with the flag set or at the end of the list, keeps the balance if it
\* settled its file; with the flag set also if it gave it up.
LEMMA WorkerLeaves ==
  ASSUME ReplicaInv, NEW b \in Invocations, NEW w \in Works(b),
         lane' = [lane EXCEPT ![b][w] = Out], UNCHANGED <<cancelFlags, set>>,
         shown' = [shown EXCEPT ![b] = @ \ {lane[b][w].file}],
         batch'[b].at = "running", batch[b].at = "running", batch'[b].flag = batch[b].flag,
         batch'[b].files = batch[b].files, batch'[b].next \in Nat, batch'[b].next >= batch[b].next,
         batch'[b].success \in Nat, batch'[b].failed \in Nat,
         \/ /\ IsSet(b) \/ batch[b].next >= batch[b].files
            /\ batch'[b].success + batch'[b].failed = batch[b].success + batch[b].failed + 1
         \/ IsSet(b) /\ batch'[b].success + batch'[b].failed = batch[b].success + batch[b].failed
  PROVE  LanesHold(b)' /\ BatchBalances(b)'
<1> USE DEF ReplicaInv
<1>1. \A v \in MostLanes : lane'[b][v] = IF v = w THEN Out ELSE lane[b][v]
  BY DEF ReplicaTypes, Works
<1>2. Works(b)' = Works(b) \ {w}
  BY <1>1 DEF Works, Out
<1>3. \A v \in Works(b)' : lane'[b][v] = lane[b][v]
  BY <1>1, <1>2 DEF Works
<1>4. Held(b)' = {lane[b][v].file : v \in Works(b) \ {w}}
  <2>1. Held(b)' = {lane'[b][v].file : v \in Works(b) \ {w}}
    BY <1>2 DEF Held
  <2> QED BY <1>2, <1>3, <2>1
<1>5. Cardinality(Held(b)') = Cardinality(Held(b)) - 1 /\ Cardinality(Held(b)) \in Nat
  BY <1>4, FileLeaves
<1>6. IsSet(b)' <=> IsSet(b)
  BY DEF IsSet
<1>7. shown'[b] = shown[b] \ {lane[b][w].file}
  BY DEF ReplicaTypes
<1>8. LanesHold(b)'
  <2>1. \A e \in shown'[b] : \E v \in Works(b)' : lane'[b][v].at # "fetch" /\ lane'[b][v].file = e
    BY <1>2, <1>3, <1>7 DEF LanesHold
  <2> QED BY <1>2, <1>3, <1>6, <2>1 DEF LanesHold, ReplicaTypes, BatchStates
<1>9. BatchBalances(b)'
  <2>1. batch[b].success \in Nat /\ batch[b].failed \in Nat /\ batch[b].files \in Nat /\ batch[b].next \in Nat
    BY DEF ReplicaTypes, BatchStates
  <2>2. BatchBalances(b)
    OBVIOUS
  <2>3. /\ \/ batch'[b].success + batch'[b].failed + Cardinality(Held(b)')
                 = batch[b].success + batch[b].failed + Cardinality(Held(b))
           \/ /\ IsSet(b)
              /\ batch'[b].success + batch'[b].failed + Cardinality(Held(b)')
                 = batch[b].success + batch[b].failed + Cardinality(Held(b)) - 1
    BY <2>1, <1>5
  <2>4. batch'[b].success + batch'[b].failed + Cardinality(Held(b)') <= batch'[b].files
    BY <2>1, <2>2, <2>3, <1>5 DEF BatchBalances
  <2>5. CASE IsSet(b)
    BY <2>4, <2>5, <1>6 DEF BatchBalances
  <2>6. CASE ~IsSet(b)
    BY <2>1, <2>2, <2>3, <2>4, <2>6, <1>5 DEF BatchBalances
  <2> QED BY <2>5, <2>6
<1> QED BY <1>8, <1>9

\* A worker that settles a file and takes the next has one in the place of the other.
LEMMA WorkerTakesNext ==
  ASSUME ReplicaInv, NEW b \in Invocations, NEW w \in Works(b),
         lane' = [lane EXCEPT ![b][w] = [at |-> "fetch", file |-> batch[b].next]], UNCHANGED <<cancelFlags, set>>,
         shown' = [shown EXCEPT ![b] = @ \ {lane[b][w].file}],
         ~IsSet(b), batch[b].next < batch[b].files,
         batch'[b].at = "running", batch[b].at = "running", batch'[b].flag = batch[b].flag,
         batch'[b].files = batch[b].files, batch'[b].next = batch[b].next + 1,
         batch'[b].success \in Nat, batch'[b].failed \in Nat,
         batch'[b].success + batch'[b].failed = batch[b].success + batch[b].failed + 1
  PROVE  LanesHold(b)' /\ BatchBalances(b)'
<1> USE DEF ReplicaInv
<1> DEFINE next == batch[b].next
<1>1. \A v \in MostLanes : lane'[b][v] = IF v = w THEN [at |-> "fetch", file |-> next] ELSE lane[b][v]
  BY DEF ReplicaTypes, Works
<1>2. Works(b)' = Works(b)
  BY <1>1 DEF Works
<1>3. \A v \in Works(b) : lane'[b][v] = IF v = w THEN [at |-> "fetch", file |-> next] ELSE lane[b][v]
  BY <1>1 DEF Works
<1>4. IsSet(b)' <=> IsSet(b)
  BY DEF IsSet
<1>5. next \in Nat /\ batch[b].files \in Nat /\ batch[b].success \in Nat /\ batch[b].failed \in Nat
  BY DEF ReplicaTypes, BatchStates
<1>6. LanesHold(b) /\ BatchBalances(b)
  OBVIOUS
<1>7. \A v \in Works(b) : lane[b][v].file \in 0..(batch[b].files - 1) /\ lane[b][v].file < next
  BY <1>6 DEF LanesHold
<1>8. Held(b)' = (Held(b) \ {lane[b][w].file}) \cup {next}
  <2>1. Held(b)' = {lane'[b][v].file : v \in Works(b)}
    BY <1>2 DEF Held
  <2>2. Held(b)' = {lane[b][v].file : v \in Works(b) \ {w}} \cup {next}
    BY <1>3, <2>1
  <2> QED BY <2>2, FileLeaves
<1>9. next \notin Held(b)
  BY <1>5, <1>7 DEF Held
<1>10. Cardinality(Held(b)') = Cardinality(Held(b)) /\ Cardinality(Held(b)) \in Nat
  <2>1. Cardinality(Held(b)') = Cardinality(Held(b) \ {lane[b][w].file}) + 1
    BY <1>8, <1>9, FileLeaves, FS_AddElement
  <2>2. /\ Cardinality(Held(b)) \in Nat
        /\ Cardinality(Held(b) \ {lane[b][w].file}) = Cardinality(Held(b)) - 1
    BY FileLeaves
  <2> QED BY <2>1, <2>2
<1>11. shown'[b] = shown[b] \ {lane[b][w].file}
  BY DEF ReplicaTypes
<1>12. LanesHold(b)'
  <2>1. \A e \in shown'[b] : \E v \in Works(b)' : lane'[b][v].at # "fetch" /\ lane'[b][v].file = e
    BY <1>2, <1>3, <1>6, <1>11 DEF LanesHold
  <2>2. \A v \in Works(b) : /\ lane'[b][v].file \in 0..(batch'[b].files - 1)
                            /\ lane'[b][v].file < batch'[b].next
                            /\ lane'[b][v].at # "abort"
    BY <1>3, <1>5, <1>6, <1>7 DEF LanesHold
  <2>3. \A v, u \in Works(b) : lane'[b][u].file = lane'[b][v].file => u = v
    BY <1>3, <1>5, <1>6, <1>7 DEF LanesHold
  <2> QED BY <1>2, <2>1, <2>2, <2>3 DEF LanesHold
<1>13. BatchBalances(b)'
  <2>1. /\ batch'[b].success + batch'[b].failed + Cardinality(Held(b)')
             = batch[b].success + batch[b].failed + Cardinality(Held(b)) + 1
    BY <1>5, <1>10
  <2>2. batch[b].success + batch[b].failed + Cardinality(Held(b)) = next
    BY <1>5, <1>6 DEF BatchBalances
  <2>3. batch'[b].success + batch'[b].failed + Cardinality(Held(b)') = batch'[b].next
    BY <2>1, <2>2
  <2>4. batch'[b].next \in Nat /\ batch'[b].next <= batch'[b].files /\ Works(b)' # {}
    BY <1>2, <1>5
  <2> QED BY <1>5, <2>3, <2>4 DEF BatchBalances
<1> QED BY <1>12, <1>13

\* What settling a file does to the numbers of its batch.
LEMMA SettlingCounts ==
  ASSUME ReplicaInv, NEW b \in Invocations, NEW w \in MostLanes, NEW ok \in BOOLEAN, Settles(b, w, ok)
  PROVE  /\ \A c \in Invocations : c # b => batch'[c] = batch[c]
         /\ batch' \in [Invocations -> BatchStates]
         /\ batch'[b].at = batch[b].at /\ batch'[b].id = batch[b].id /\ batch'[b].flag = batch[b].flag
         /\ batch'[b].files = batch[b].files /\ batch'[b].answer = batch[b].answer
         /\ batch'[b].next = IF IsSet(b) THEN batch[b].next ELSE batch[b].next + 1
         /\ batch'[b].success = (IF ok THEN batch[b].success + 1 ELSE batch[b].success)
         /\ batch'[b].failed = (IF ok THEN batch[b].failed ELSE batch[b].failed + 1)
<1> DEFINE counted == IF ok THEN [batch[b] EXCEPT !.success = @ + 1] ELSE [batch[b] EXCEPT !.failed = @ + 1]
<1> DEFINE after == IF IsSet(b) THEN counted ELSE [counted EXCEPT !.next = @ + 1]
<1>1. batch \in [Invocations -> BatchStates] /\ batch[b] \in BatchStates
  BY DEF ReplicaInv, ReplicaTypes
<1>2. counted \in BatchStates
  BY <1>1 DEF BatchStates
<1>3. after \in BatchStates
  BY <1>2 DEF BatchStates
<1>4. batch' = [batch EXCEPT ![b] = after]
  BY DEF Settles
<1>5. batch'[b] = after
  BY <1>1, <1>4
<1>6. batch' \in [Invocations -> BatchStates] /\ \A c \in Invocations : c # b => batch'[c] = batch[c]
  <2> HIDE DEF after
  <2> QED BY <1>1, <1>3, <1>4
<1>7. /\ after.at = batch[b].at /\ after.id = batch[b].id /\ after.flag = batch[b].flag
      /\ after.files = batch[b].files /\ after.answer = batch[b].answer
      /\ after.next = IF IsSet(b) THEN batch[b].next ELSE batch[b].next + 1
      /\ after.success = (IF ok THEN batch[b].success + 1 ELSE batch[b].success)
      /\ after.failed = (IF ok THEN batch[b].failed ELSE batch[b].failed + 1)
  BY <1>1 DEF BatchStates
<1> HIDE DEF after
<1> QED BY <1>5, <1>6, <1>7

\* A file that is settled.
LEMMA FileSettles ==
  ASSUME ReplicaInv, NEW b \in Invocations, NEW w \in Works(b), NEW ok \in BOOLEAN, Settles(b, w, ok),
         batch[b].at = "running", UNCHANGED <<cancelFlags, set>>
  PROVE  ReplicaInv'
<1>1. w \in MostLanes
  BY DEF Works
<1> DEFINE leaves == IsSet(b) \/ batch[b].next >= batch[b].files
<1>2. /\ lane' = [lane EXCEPT ![b][w] = IF leaves THEN Out ELSE [at |-> "fetch", file |-> batch[b].next]]
      /\ shown' = [shown EXCEPT ![b] = @ \ {lane[b][w].file}]
  BY DEF Settles
<1> HIDE DEF leaves
<1>3. /\ batch[b].success \in Nat /\ batch[b].failed \in Nat /\ batch[b].next \in Nat /\ batch[b].files \in Nat
      /\ batch'[b].success \in Nat /\ batch'[b].failed \in Nat
      /\ batch'[b].success + batch'[b].failed = batch[b].success + batch[b].failed + 1
      /\ batch'[b].at = "running" /\ batch'[b].flag = batch[b].flag /\ batch'[b].files = batch[b].files
      /\ batch'[b].next = IF IsSet(b) THEN batch[b].next ELSE batch[b].next + 1
  <2>1. batch[b].success \in Nat /\ batch[b].failed \in Nat /\ batch[b].next \in Nat /\ batch[b].files \in Nat
    BY DEF ReplicaInv, ReplicaTypes, BatchStates
  <2> QED BY <1>1, <2>1, SettlingCounts
<1>4. LanesHold(b)' /\ BatchBalances(b)'
  <2>1. CASE leaves
    <3>1. lane' = [lane EXCEPT ![b][w] = Out]
      BY <1>2, <2>1
    <3>2. batch'[b].next \in Nat /\ batch'[b].next >= batch[b].next
      BY <1>3
    <3>3. IsSet(b) \/ batch[b].next >= batch[b].files
      BY <2>1 DEF leaves
    <3> QED BY <1>2, <1>3, <3>1, <3>2, <3>3, WorkerLeaves
  <2>2. CASE ~leaves
    <3>1. lane' = [lane EXCEPT ![b][w] = [at |-> "fetch", file |-> batch[b].next]]
      BY <1>2, <2>2
    <3>2. ~IsSet(b) /\ batch[b].next < batch[b].files
      BY <1>3, <2>2 DEF leaves
    <3>3. batch'[b].next = batch[b].next + 1
      BY <1>3, <3>2
    <3> QED BY <1>2, <1>3, <3>1, <3>2, <3>3, WorkerTakesNext
  <2> QED BY <2>1, <2>2
<1>5. ASSUME NEW c \in Invocations, c # b PROVE LanesHold(c)' /\ BatchBalances(c)'
  <2>1. batch'[c] = batch[c] /\ lane'[c] = lane[c] /\ shown'[c] = shown[c]
    BY <1>1, <1>2, <1>5, SettlingCounts DEF ReplicaInv, ReplicaTypes
  <2> QED BY <2>1, SameInBrowser DEF ReplicaInv
<1>6. FlagsAreCounted'
  <2>1. \A c \in Invocations : batch'[c].at = batch[c].at /\ batch'[c].id = batch[c].id
    BY <1>1, SettlingCounts
  <2> QED BY <2>1, SameCounts DEF ReplicaInv
<1>7. ReplicaTypes'
  <2>1. shown' \in [Invocations -> SUBSET Nat]
    BY <1>2 DEF ReplicaInv, ReplicaTypes
  <2>2. lane' \in [Invocations -> [MostLanes -> LaneStates]]
    <3> DEFINE goes == IF leaves THEN Out ELSE [at |-> "fetch", file |-> batch[b].next]
    <3>1. goes \in LaneStates
      BY <1>3 DEF Out, LaneStates
    <3> HIDE DEF goes
    <3> QED BY <1>1, <1>2, <3>1 DEF ReplicaInv, ReplicaTypes, goes
  <2> QED BY <1>1, <2>1, <2>2, SettlingCounts DEF ReplicaInv, ReplicaTypes
<1> QED BY <1>4, <1>5, <1>6, <1>7 DEF ReplicaInv

\* A file is given up when the flag is set.
LEMMA FileIsGivenUp ==
  ASSUME ReplicaInv, NEW b \in Invocations, NEW w \in Works(b), lane[b][w].at = "abort", batch[b].at = "running",
         shown' = [shown EXCEPT ![b] = @ \ {lane[b][w].file}], lane' = [lane EXCEPT ![b][w] = Out],
         UNCHANGED <<cancelFlags, set, batch>>
  PROVE  ReplicaInv'
<1>1. w \in MostLanes /\ IsSet(b)
  BY DEF Works, LanesHold, ReplicaInv
<1>2. batch[b].success \in Nat /\ batch[b].failed \in Nat /\ batch[b].next \in Nat
  BY DEF ReplicaInv, ReplicaTypes, BatchStates
<1>3. LanesHold(b)' /\ BatchBalances(b)'
  <2>1. /\ batch'[b].at = "running" /\ batch'[b].flag = batch[b].flag /\ batch'[b].files = batch[b].files
        /\ batch'[b].next \in Nat /\ batch'[b].next >= batch[b].next
        /\ batch'[b].success \in Nat /\ batch'[b].failed \in Nat
        /\ batch'[b].success + batch'[b].failed = batch[b].success + batch[b].failed
    BY <1>2
  <2> QED BY <1>1, <2>1, WorkerLeaves
<1>4. ASSUME NEW c \in Invocations, c # b PROVE LanesHold(c)' /\ BatchBalances(c)'
  <2>1. lane'[c] = lane[c] /\ shown'[c] = shown[c]
    BY <1>4 DEF ReplicaInv, ReplicaTypes
  <2> QED BY <2>1, SameInBrowser DEF ReplicaInv
<1>5. ReplicaTypes'
  <2>1. shown' \in [Invocations -> SUBSET Nat]
    BY DEF ReplicaInv, ReplicaTypes
  <2>2. lane' \in [Invocations -> [MostLanes -> LaneStates]]
    <3>1. Out \in LaneStates
      BY DEF Out, LaneStates
    <3> QED BY <1>1, <3>1 DEF ReplicaInv, ReplicaTypes
  <2> QED BY <2>1, <2>2 DEF ReplicaInv, ReplicaTypes
<1> QED BY <1>3, <1>4, <1>5, SameCounts DEF ReplicaInv

\* A worker's step, whatever becomes of its file.
LEMMA WorkerInBrowser ==
  ASSUME ReplicaInv, NEW b \in Invocations, NEW w \in MostLanes,
         Respond(b, w) \/ ReadChunk(b, w) \/ WriteFile(b, w) \/ AbortFile(b, w)
  PROVE  ReplicaInv'
<1>1. w \in Works(b) /\ batch[b].at = "running" /\ UNCHANGED <<cancelFlags, set>>
  BY DEF Respond, ReadChunk, WriteFile, AbortFile, At, Works
<1>2. ASSUME NEW ok \in BOOLEAN, Settles(b, w, ok) PROVE ReplicaInv'
  BY <1>1, <1>2, FileSettles
<1>3. ASSUME NEW where \in {"read", "write", "abort"}, GoesOn(b, w, where), where = "abort" => IsSet(b), batch' = batch,
             shown' = shown \/ shown' = [shown EXCEPT ![b] = @ \cup {lane[b][w].file}]
      PROVE  ReplicaInv'
  BY <1>1, <1>3, WorkerGoesOn
<1>4. NextChunk(b) \in {"read", "write", "abort"} /\ (NextChunk(b) = "abort" => IsSet(b))
  BY DEF NextChunk
<1>5. CASE Respond(b, w)
  BY <1>2, <1>3, <1>4, <1>5 DEF Respond
<1>6. CASE ReadChunk(b, w)
  BY <1>2, <1>3, <1>4, <1>6 DEF ReadChunk
<1>7. CASE WriteFile(b, w)
  BY <1>2, <1>7 DEF WriteFile
<1>8. CASE AbortFile(b, w)
  BY <1>1, <1>2, <1>8, FileIsGivenUp DEF AbortFile, At
<1> QED BY <1>5, <1>6, <1>7, <1>8

\* Setting a flag changes no batch.
LEMMA FlagIsSet ==
  ASSUME ReplicaInv, NEW i \in CancelIds, cancelBrowserDownloads(i)
  PROVE  ReplicaInv'
<1>1. UNCHANGED <<cancelFlags, batch, lane, shown>> /\ set \subseteq set' /\ set' \subseteq Invocations
  BY DEF cancelBrowserDownloads, ReplicaInv, ReplicaTypes, BatchStates, FlagStates
<1>2. \A b \in Invocations : LanesHold(b)' /\ BatchBalances(b)'
  BY <1>1, SameInBrowser DEF ReplicaInv
<1>3. ReplicaTypes' /\ FlagsAreCounted'
  BY <1>1, SameCounts DEF ReplicaInv, ReplicaTypes
<1> QED BY <1>2, <1>3 DEF ReplicaInv

\* The batches under an id are finitely many.
LEMMA RunningWithFinite ==
  \A i : IsFiniteSet(RunningWith(i)) /\ Cardinality(RunningWith(i)) \in Nat
<1>1. \A i : RunningWith(i) \subseteq Invocations
  BY DEF RunningWith
<1> QED BY <1>1, ReplicaAssumption, FS_Subset, FS_CardinalityType

\* The answer of a batch takes it from its id.
LEMMA BatchIsAnswered ==
  ASSUME ReplicaInv, NEW b \in Invocations, Answered(b)
  PROVE  ReplicaInv'
<1>1. batch[b].at = "running" /\ AllOut(b) /\ UNCHANGED <<set, lane, shown>>
  BY DEF Answered
<1>2. ReplicaTypes /\ FlagsAreCounted /\ \A c \in Invocations : LanesHold(c) /\ BatchBalances(c)
  BY DEF ReplicaInv
<1>3. PICK i \in CancelIds : batch[b].id = i
  BY <1>1, <1>2 DEF FlagsAreCounted
<1> DEFINE given == [success |-> batch[b].success, failed |-> batch[b].failed, cancelled |-> IsSet(b)]
           ended == [batch[b] EXCEPT !.at = "answered", !.answer = given]
           left == IF cancelFlags[batch[b].id].batches = 1 THEN [flag |-> None, batches |-> 0]
                   ELSE [flag |-> cancelFlags[batch[b].id].flag, batches |-> cancelFlags[batch[b].id].batches - 1]
<1>4. given \in [success : Nat, failed : Nat, cancelled : BOOLEAN]
  BY <1>2 DEF ReplicaTypes, BatchStates, IsSet
<1>5. /\ batch' = [batch EXCEPT ![b] = ended] /\ ended \in BatchStates
      /\ cancelFlags' = [cancelFlags EXCEPT ![i] = left]
  <2>1. batch' = [batch EXCEPT ![b].at = "answered", ![b].answer = given]
    BY DEF Answered
  <2>2. batch \in [Invocations -> BatchStates] /\ batch[b] \in BatchStates
    BY <1>2 DEF ReplicaTypes
  <2>3. cancelFlags' = [cancelFlags EXCEPT ![batch[b].id] = left]
    BY DEF Answered
  <2> HIDE DEF given, left
  <2>4. cancelFlags' = [cancelFlags EXCEPT ![i] = left]
    BY <1>3, <2>3
  <2>5. ended \in BatchStates
    BY <1>4, <2>2 DEF BatchStates
  <2>6. batch' = [batch EXCEPT ![b] = ended]
    BY <2>1, <2>2
  <2> QED BY <2>4, <2>5, <2>6
<1>14. /\ batch'[b].at = "answered" /\ batch'[b].id = i /\ batch'[b].flag = batch[b].flag
      /\ batch'[b].files = batch[b].files /\ batch'[b].next = batch[b].next
      /\ batch'[b].success = batch[b].success /\ batch'[b].failed = batch[b].failed
      /\ \A c \in Invocations : c # b => batch'[c] = batch[c]
  BY <1>2, <1>3, <1>5 DEF ReplicaTypes, BatchStates
<1>6. LanesHold(b)' /\ BatchBalances(b)'
  <2>1. Works(b)' = Works(b) /\ Held(b)' = Held(b) /\ Works(b) = {}
    BY <1>1 DEF Works, Held, AllOut, Out
  <2>2. shown'[b] = shown[b] /\ lane'[b] = lane[b]
    BY <1>1
  <2> QED BY <1>2, <1>14, <2>1, <2>2 DEF LanesHold, BatchBalances
<1>7. \A c \in Invocations : c # b => LanesHold(c)' /\ BatchBalances(c)'
  BY <1>1, <1>2, <1>14, SameInBrowser
<1>8. /\ RunningWith(i)' = RunningWith(i) \ {b} /\ b \in RunningWith(i)
      /\ \A j \in CancelIds : j # i => RunningWith(j)' = RunningWith(j)
  BY <1>1, <1>3, <1>14 DEF RunningWith
<1>9. /\ Cardinality(RunningWith(i)') = Cardinality(RunningWith(i)) - 1
      /\ Cardinality(RunningWith(i)) \in Nat \ {0}
  <2>1. Cardinality(RunningWith(i)) # 0
    BY <1>8, RunningWithFinite, FS_EmptySet
  <2> QED BY <2>1, <1>8, RunningWithFinite, FS_RemoveElement
<1>10. cancelFlags[i].batches = Cardinality(RunningWith(i)) /\ cancelFlags[i] \in FlagStates
  BY <1>2, <1>3 DEF FlagsAreCounted, ReplicaTypes
<1>11. /\ cancelFlags'[i].batches = cancelFlags[i].batches - 1
       /\ cancelFlags' \in [CancelIds -> FlagStates]
       /\ \A j \in CancelIds : j # i => cancelFlags'[j] = cancelFlags[j]
  <2>1. left \in FlagStates /\ left.batches = cancelFlags[i].batches - 1
    BY <1>3, <1>9, <1>10 DEF FlagStates
  <2> HIDE DEF left
  <2> QED BY <1>2, <1>3, <1>5, <2>1 DEF ReplicaTypes
<1>12. FlagsAreCounted'
  <2>1. \A j \in CancelIds : cancelFlags'[j].batches = Cardinality(RunningWith(j)')
    <3> SUFFICES ASSUME NEW j \in CancelIds PROVE cancelFlags'[j].batches = Cardinality(RunningWith(j)')
      OBVIOUS
    <3>1. CASE j = i
      BY <3>1, <1>9, <1>10, <1>11
    <3>2. CASE j # i
      BY <3>2, <1>2, <1>8, <1>11 DEF FlagsAreCounted
    <3> QED BY <3>1, <3>2
  <2>2. \A c \in Invocations : batch'[c].at = "running" => batch'[c].id \in CancelIds
    BY <1>2, <1>3, <1>14 DEF FlagsAreCounted
  <2> QED BY <2>1, <2>2 DEF FlagsAreCounted
<1>13. ReplicaTypes'
  <2> HIDE DEF ended
  <2>1. batch' \in [Invocations -> BatchStates]
    BY <1>2, <1>5 DEF ReplicaTypes
  <2> QED BY <1>1, <1>2, <1>11, <2>1 DEF ReplicaTypes
<1> QED BY <1>6, <1>7, <1>12, <1>13 DEF ReplicaInv

\* The workers of a batch are as many as it asked for, and at least one.
LEMMA LanesCounted ==
  ASSUME NEW asked \in Nat
  PROVE  \E k \in Nat \ {0} : Lanes(asked) = 1..k /\ Cardinality(Lanes(asked)) = k
<1> DEFINE k == IF asked > 1 THEN asked ELSE 1
<1>1. k \in Nat \ {0} /\ Lanes(asked) = 1..k
  BY DEF Lanes
<1>2. Cardinality(1..k) = k
  <2> HIDE DEF k
  <2> QED BY <1>1, FS_Interval
<1> QED BY <1>1, <1>2

\* At its start a batch has handed the first files to its workers, or nothing if its flag was set before.
LEMMA BatchBegins ==
  ASSUME ReplicaInv, NEW b \in Invocations, NEW i \in CancelIds, NEW n \in 0..MaxFiles, NEW asked \in Concurrency,
         Invoke(b, i, n, asked)
  PROVE  ReplicaInv'
<1>1. ReplicaTypes /\ FlagsAreCounted /\ \A c \in Invocations : LanesHold(c) /\ BatchBalances(c)
  BY DEF ReplicaInv
<1>2. PICK k \in Nat \ {0} : Lanes(asked) = 1..k /\ Cardinality(Lanes(asked)) = k
  BY ReplicaAssumption, LanesCounted
<1>3. PICK flag \in Invocations : flag = IF cancelFlags[i].flag = None THEN b ELSE cancelFlags[i].flag
  BY <1>1 DEF ReplicaTypes, FlagStates
<1>4. PICK next \in Nat : next = IF flag \in set THEN 0 ELSE k
  OBVIOUS
<1>5. 1..k \subseteq MostLanes
  BY <1>2 DEF MostLanes
<1> DEFINE began == [Idling EXCEPT !.at = "running", !.id = i, !.flag = flag, !.files = n, !.next = next]
           counted == [flag |-> flag, batches |-> cancelFlags[i].batches + 1]
<1>6. /\ batch[b].at = "idle" /\ UNCHANGED <<set, shown>>
      /\ cancelFlags' = [cancelFlags EXCEPT ![i] = counted]
      /\ batch' = [batch EXCEPT ![b] = began]
      /\ lane' = [lane EXCEPT ![b] = [w \in MostLanes |->
                    IF w \in 1..k /\ flag \notin set /\ w <= n THEN [at |-> "fetch", file |-> w - 1] ELSE Out]]
  BY <1>2, <1>3, <1>4 DEF Invoke
<1>7. n \in Nat /\ n <= MaxFiles
  BY ReplicaAssumption
<1>8. /\ began.at = "running" /\ began.id = i /\ began.flag = flag /\ began.files = n /\ began.next = next
      /\ began.success = 0 /\ began.failed = 0 /\ began \in BatchStates
  BY <1>7 DEF Idling, BatchStates
<1>9. /\ batch' \in [Invocations -> BatchStates]
      /\ batch'[b].at = "running" /\ batch'[b].id = i /\ batch'[b].flag = flag /\ batch'[b].files = n
      /\ batch'[b].next = next /\ batch'[b].success = 0 /\ batch'[b].failed = 0
      /\ \A c \in Invocations : c # b => batch'[c] = batch[c]
  <2> HIDE DEF began
  <2> QED BY <1>1, <1>6, <1>8 DEF ReplicaTypes
<1>10. /\ \A w \in MostLanes : lane'[b][w] = IF w \in 1..k /\ flag \notin set /\ w <= n
                                              THEN [at |-> "fetch", file |-> w - 1] ELSE Out
       /\ \A c \in Invocations : c # b => lane'[c] = lane[c]
  BY <1>1, <1>6 DEF ReplicaTypes
<1>11. Works(b)' = {w \in 1..k : flag \notin set /\ w <= n}
  <2>1. \A w \in MostLanes : lane'[b][w].at # "out" <=> w \in 1..k /\ flag \notin set /\ w <= n
    <3> SUFFICES ASSUME NEW w \in MostLanes PROVE lane'[b][w].at # "out" <=> w \in 1..k /\ flag \notin set /\ w <= n
      OBVIOUS
    <3>1. CASE w \in 1..k /\ flag \notin set /\ w <= n
      <4>1. lane'[b][w] = [at |-> "fetch", file |-> w - 1]
        BY <1>10, <3>1, Zenon
      <4>2. lane'[b][w].at = "fetch"
        BY <4>1
      <4> QED BY <3>1, <4>2, Zenon
    <3>2. CASE ~(w \in 1..k /\ flag \notin set /\ w <= n)
      <4>1. lane'[b][w] = Out
        BY <1>10, <3>2, Zenon
      <4>2. lane'[b][w].at = "out"
        BY <4>1 DEF Out
      <4> QED BY <3>2, <4>2, Zenon
    <3> QED BY <3>1, <3>2
  <2>2. Works(b)' = {w \in MostLanes : lane'[b][w].at # "out"}
    BY DEF Works
  <2> QED BY <1>5, <2>1, <2>2, Zenon
<1>12. IsSet(b)' <=> flag \in set
  BY <1>6, <1>9 DEF IsSet
<1>13. shown'[b] = {}
  <2>1. Works(b) = {}
    BY <1>1, <1>6 DEF LanesHold
  <2> QED BY <1>1, <1>6, <2>1 DEF LanesHold, ReplicaTypes
<1>14. \A w \in Works(b)' : lane'[b][w].at = "fetch" /\ lane'[b][w].file = w - 1
  <2>1. \A w \in Works(b)' : lane'[b][w] = [at |-> "fetch", file |-> w - 1]
    BY <1>5, <1>10, <1>11, Zenon
  <2>2. \A w : [at |-> "fetch", file |-> w - 1].at = "fetch" /\ [at |-> "fetch", file |-> w - 1].file = w - 1
    OBVIOUS
  <2> QED BY <2>1, <2>2, Zenon
<1>15. LanesHold(b)'
  <2>1. \A w \in Works(b)' : /\ w \in Nat \ {0} /\ w <= n /\ w <= k
                             /\ lane'[b][w].file = w - 1 /\ lane'[b][w].at = "fetch" /\ flag \notin set
    <3>1. \A w \in 1..k : w \in Nat \ {0} /\ w <= k
      OBVIOUS
    <3> QED BY <1>11, <1>14, <3>1
  <2>2. \A w \in Works(b)' : lane'[b][w].file \in 0..(n - 1) /\ lane'[b][w].file < next
    BY <1>4, <1>7, <2>1
  <2>3. \A v, w \in Works(b)' : lane'[b][v].file = lane'[b][w].file => v = w
    BY <2>1
  <2> QED BY <1>9, <1>12, <1>13, <2>1, <2>2, <2>3 DEF LanesHold
<1>16. BatchBalances(b)'
  <2>1. CASE flag \in set
    <3>1. Held(b)' = {}
      BY <1>11, <2>1 DEF Held
    <3> QED BY <1>7, <1>9, <1>12, <2>1, <3>1, FS_EmptySet DEF BatchBalances
  <2>2. CASE flag \notin set
    <3>1. PICK m \in Nat : m = IF k < n THEN k ELSE n
      BY <1>7
    <3>2. Works(b)' = 1..m
      BY <1>7, <1>11, <2>2, <3>1
    <3>3. Held(b)' = {w - 1 : w \in 1..m}
      <4>1. Held(b)' = {lane'[b][w].file : w \in Works(b)'}
        BY DEF Held
      <4>2. \A w \in Works(b)' : lane'[b][w].file = w - 1
        BY <1>14
      <4>3. {lane'[b][w].file : w \in Works(b)'} = {w - 1 : w \in Works(b)'}
        BY <4>2, Zenon
      <4> QED BY <3>2, <4>1, <4>3
    <3>4. {w - 1 : w \in 1..m} = 0..(m - 1)
      <4>1. \A e \in 0..(m - 1) : e + 1 \in 1..m /\ e = (e + 1) - 1
        BY <3>1
      <4>2. \A w \in 1..m : w - 1 \in 0..(m - 1)
        BY <3>1
      <4> QED BY <4>1, <4>2
    <3>5. Cardinality(Held(b)') = m
      <4>1. Cardinality(0..(m - 1)) = m
        BY <3>1, FS_Interval
      <4> QED BY <3>3, <3>4, <4>1
    <3>6. m <= n /\ (next < n => m = next /\ 1 \in 1..m) /\ (next >= n => m = n)
      BY <1>4, <1>7, <2>2, <3>1
    <3>7. 0 + 0 + m = m
      BY <3>1
    <3> QED BY <1>9, <3>2, <3>5, <3>6, <3>7 DEF BatchBalances
  <2> QED BY <2>1, <2>2
<1>17. \A c \in Invocations : c # b => LanesHold(c)' /\ BatchBalances(c)'
  BY <1>1, <1>6, <1>9, <1>10, SameInBrowser
<1>18. /\ RunningWith(i)' = RunningWith(i) \cup {b} /\ b \notin RunningWith(i)
       /\ \A j \in CancelIds : j # i => RunningWith(j)' = RunningWith(j)
  BY <1>6, <1>9 DEF RunningWith
<1>19. Cardinality(RunningWith(i)') = Cardinality(RunningWith(i)) + 1
  BY <1>18, RunningWithFinite, FS_AddElement
<1>20. /\ cancelFlags[i].batches = Cardinality(RunningWith(i)) /\ Cardinality(RunningWith(i)) \in Nat
  BY <1>1, RunningWithFinite DEF FlagsAreCounted
<1>21. /\ cancelFlags'[i].batches = cancelFlags[i].batches + 1
       /\ cancelFlags' \in [CancelIds -> FlagStates]
       /\ \A j \in CancelIds : j # i => cancelFlags'[j] = cancelFlags[j]
  <2>1. counted \in FlagStates /\ counted.batches = cancelFlags[i].batches + 1
    BY <1>20 DEF FlagStates
  <2> HIDE DEF counted
  <2> QED BY <1>1, <1>6, <2>1 DEF ReplicaTypes
<1>22. FlagsAreCounted'
  <2>1. \A j \in CancelIds : cancelFlags'[j].batches = Cardinality(RunningWith(j)')
    <3> SUFFICES ASSUME NEW j \in CancelIds PROVE cancelFlags'[j].batches = Cardinality(RunningWith(j)')
      OBVIOUS
    <3>1. CASE j = i
      BY <3>1, <1>19, <1>20, <1>21
    <3>2. CASE j # i
      BY <3>2, <1>1, <1>18, <1>21 DEF FlagsAreCounted
    <3> QED BY <3>1, <3>2
  <2>2. \A c \in Invocations : batch'[c].at = "running" => batch'[c].id \in CancelIds
    BY <1>1, <1>9 DEF FlagsAreCounted
  <2> QED BY <2>1, <2>2 DEF FlagsAreCounted
<1>23. ReplicaTypes'
  <2>1. lane' \in [Invocations -> [MostLanes -> LaneStates]]
    <3>1. [w \in MostLanes |-> IF w \in 1..k /\ flag \notin set /\ w <= n THEN [at |-> "fetch", file |-> w - 1] ELSE Out]
            \in [MostLanes -> LaneStates]
      BY DEF Out, LaneStates
    <3> QED BY <1>1, <1>6, <3>1 DEF ReplicaTypes
  <2> QED BY <1>1, <1>6, <1>9, <1>21, <2>1 DEF ReplicaTypes
<1> QED BY <1>15, <1>16, <1>17, <1>22, <1>23 DEF ReplicaInv

\* Every step keeps the invariant.
LEMMA ReplicaStep == ReplicaInv /\ [ReplicaNext]_replicaVars => ReplicaInv'
<1> SUFFICES ASSUME ReplicaInv, [ReplicaNext]_replicaVars PROVE ReplicaInv'
  OBVIOUS
<1>1. ASSUME NEW i \in CancelIds, cancelBrowserDownloads(i) PROVE ReplicaInv'
  BY <1>1, FlagIsSet
<1>2. ASSUME NEW b \in Invocations, NEW i \in CancelIds, NEW n \in 0..MaxFiles, NEW k \in Concurrency, Invoke(b, i, n, k)
      PROVE  ReplicaInv'
  BY <1>2, BatchBegins
<1>3. ASSUME NEW b \in Invocations, NEW w \in MostLanes,
             Respond(b, w) \/ ReadChunk(b, w) \/ WriteFile(b, w) \/ AbortFile(b, w)
      PROVE  ReplicaInv'
  BY <1>3, WorkerInBrowser
<1>4. ASSUME NEW b \in Invocations, Answered(b) PROVE ReplicaInv'
  BY <1>4, BatchIsAnswered
<1>5. CASE UNCHANGED replicaVars
  <2>1. \A b \in Invocations : LanesHold(b)' /\ BatchBalances(b)'
    BY <1>5, SameInBrowser DEF ReplicaInv, replicaVars
  <2> QED BY <1>5, <2>1, SameCounts DEF ReplicaInv, ReplicaTypes, replicaVars
<1> QED BY <1>1, <1>2, <1>3, <1>4, <1>5 DEF ReplicaNext

\* Every behaviour of the preview keeps the invariant.
THEOREM ReplicaInvariance == ReplicaSafety => []ReplicaInv
BY ReplicaStarts, ReplicaStep, PTL DEF ReplicaSafety

\* No flag outlives its batches, no batch settles more than it was given, and nothing is shown that it was not.
THEOREM FlagsMatchBatches == ReplicaSafety => []ReplicaTypeOK
<1>1. ReplicaInv => ReplicaTypeOK
  <2> SUFFICES ASSUME ReplicaInv PROVE ReplicaTypeOK
    OBVIOUS
  <2>1. ASSUME NEW b \in Invocations
        PROVE  batch[b].success + batch[b].failed <= batch[b].files /\ shown[b] \subseteq 0..(MaxFiles - 1)
    <3>1. LanesHold(b) /\ BatchBalances(b)
      BY DEF ReplicaInv
    <3>2. /\ batch[b].success \in Nat /\ batch[b].failed \in Nat /\ batch[b].files \in Nat
          /\ batch[b].files <= MaxFiles
      BY ReplicaAssumption DEF ReplicaInv, ReplicaTypes, BatchStates
    <3>3. Cardinality(Held(b)) \in Nat
      BY <3>1, HeldFinite DEF ReplicaInv
    <3>4. batch[b].success + batch[b].failed <= batch[b].files
      BY <3>1, <3>2, <3>3 DEF BatchBalances
    <3>5. shown[b] \subseteq 0..(batch[b].files - 1)
      BY <3>1 DEF LanesHold
    <3>6. 0..(batch[b].files - 1) \subseteq 0..(MaxFiles - 1)
      BY <3>2, ReplicaAssumption
    <3> QED BY <3>4, <3>5, <3>6
  <2>2. \A i \in CancelIds : cancelFlags[i].batches = Cardinality(RunningWith(i))
    BY DEF ReplicaInv, FlagsAreCounted
  <2> QED BY <2>1, <2>2 DEF ReplicaTypeOK, RunningWith
<1> QED BY <1>1, ReplicaInvariance, PTL

-----------------------------------------------------------------------------
(* The refinement of BatchPromise.                                         *)
seenInBrowser == <<StatusShown, FilesAsked, Successes, Failures, shown, SetBatches, AnswersGiven>>

\* What no batch changes, its caller sees unchanged.
LEMMA SameInView ==
  /\ (\A c \in Invocations : batch'[c].at = batch[c].at) => StatusShown' = StatusShown
  /\ (\A c \in Invocations : batch'[c].files = batch[c].files) => FilesAsked' = FilesAsked
  /\ (\A c \in Invocations : batch'[c].success = batch[c].success) => Successes' = Successes
  /\ (\A c \in Invocations : batch'[c].failed = batch[c].failed) => Failures' = Failures
  /\ (\A c \in Invocations : batch'[c].answer = batch[c].answer) => AnswersGiven' = AnswersGiven
  /\ (\A c \in Invocations : batch'[c].flag = batch[c].flag) /\ set' = set => SetBatches' = SetBatches
BY DEF StatusShown, StatusInBrowser, FilesAsked, Successes, Failures, AnswersGiven, SetBatches, IsSet

\* A worker with a file has a batch that is not finished, and the file is one of the batch.
LEMMA HeldIsUnfinished ==
  ASSUME ReplicaInv, NEW b \in Invocations, NEW w \in Works(b), batch[b].at = "running"
  PROVE  /\ Promised!Unfinished(b) /\ StatusShown[b] = "open"
         /\ lane[b][w].file \in 0..(MaxFiles - 1) /\ lane[b][w].file < FilesAsked[b]
<1>1. LanesHold(b) /\ BatchBalances(b)
  BY DEF ReplicaInv
<1>2. /\ batch[b].success \in Nat /\ batch[b].failed \in Nat /\ batch[b].files \in Nat
      /\ batch[b].files <= MaxFiles
  BY ReplicaAssumption DEF ReplicaInv, ReplicaTypes, BatchStates
<1>3. Cardinality(Held(b)) \in Nat \ {0}
  BY FileLeaves
<1>4. batch[b].success + batch[b].failed < batch[b].files
  BY <1>1, <1>2, <1>3 DEF BatchBalances
<1>5. lane[b][w].file \in 0..(batch[b].files - 1)
  BY <1>1 DEF LanesHold
<1>6. lane[b][w].file \in 0..(MaxFiles - 1) /\ lane[b][w].file < batch[b].files
  BY <1>2, <1>5, ReplicaAssumption
<1>7. StatusShown[b] = "open"
  BY DEF StatusShown, StatusInBrowser
<1>8. FilesAsked[b] = batch[b].files /\ Successes[b] = batch[b].success /\ Failures[b] = batch[b].failed
  BY DEF FilesAsked, Successes, Failures
<1> QED BY <1>4, <1>6, <1>7, <1>8 DEF Promised!Unfinished, Promised!Settled

\* A file that settles is counted, and leaves the snapshot if it was in it.
LEMMA SettlingIsPromised ==
  ASSUME ReplicaInv, NEW b \in Invocations, NEW w \in Works(b), NEW ok \in BOOLEAN, Settles(b, w, ok),
         batch[b].at = "running", UNCHANGED <<cancelFlags, set>>
  PROVE  Promised!PromiseNext
<1>1. w \in MostLanes
  BY DEF Works
<1> DEFINE file == lane[b][w].file
<1>2. Promised!Unfinished(b) /\ file \in 0..(MaxFiles - 1)
  BY HeldIsUnfinished
<1>3. UNCHANGED <<StatusShown, FilesAsked, AnswersGiven, SetBatches>>
  <2>1. \A c \in Invocations : /\ batch'[c].at = batch[c].at /\ batch'[c].files = batch[c].files
                               /\ batch'[c].answer = batch[c].answer /\ batch'[c].flag = batch[c].flag
    BY <1>1, SettlingCounts
  <2> QED BY <2>1, SameInView
<1>4. \/ Successes' = [Successes EXCEPT ![b] = @ + 1] /\ Failures' = Failures
      \/ Failures' = [Failures EXCEPT ![b] = @ + 1] /\ Successes' = Successes
  <2>1. /\ \A c \in Invocations : c # b => batch'[c] = batch[c]
        /\ batch'[b].success = (IF ok THEN batch[b].success + 1 ELSE batch[b].success)
        /\ batch'[b].failed = (IF ok THEN batch[b].failed ELSE batch[b].failed + 1)
    BY <1>1, SettlingCounts
  <2>2. CASE ok
    <3>1. Successes' = [Successes EXCEPT ![b] = @ + 1]
      BY <2>1, <2>2 DEF Successes
    <3>2. \A c \in Invocations : batch'[c].failed = batch[c].failed
      BY <2>1, <2>2
    <3> QED BY <3>1, <3>2, SameInView
  <2>3. CASE ~ok
    <3>1. Failures' = [Failures EXCEPT ![b] = @ + 1]
      BY <2>1, <2>3 DEF Failures
    <3>2. \A c \in Invocations : batch'[c].success = batch[c].success
      BY <2>1, <2>3
    <3> QED BY <3>1, <3>2, SameInView
  <2> QED BY <2>2, <2>3
<1>5. shown' = [shown EXCEPT ![b] = @ \ {file}]
  BY DEF Settles
<1> HIDE DEF file
<1>6. CASE file \in shown[b]
  <2>1. Promised!SettleShown(b, file)
    BY <1>2, <1>3, <1>4, <1>5, <1>6 DEF Promised!SettleShown
  <2> QED BY <1>2, <2>1 DEF Promised!PromiseNext
<1>7. CASE file \notin shown[b]
  <2>1. shown' = shown
    <3>1. shown \in [Invocations -> SUBSET Nat] /\ shown[b] \ {file} = shown[b]
      BY <1>7 DEF ReplicaInv, ReplicaTypes
    <3> QED BY <1>5, <3>1
  <2>2. Promised!SettleOk(b) \/ Promised!SettleBad(b)
    BY <1>2, <1>3, <1>4, <2>1 DEF Promised!SettleOk, Promised!SettleBad
  <2> QED BY <2>2 DEF Promised!PromiseNext
<1> QED BY <1>6, <1>7

\* A worker shows its file, settles it, or takes it from sight.
LEMMA WorkerIsPromised ==
  ASSUME ReplicaInv, NEW b \in Invocations, NEW w \in MostLanes,
         Respond(b, w) \/ ReadChunk(b, w) \/ WriteFile(b, w) \/ AbortFile(b, w)
  PROVE  Promised!PromiseNext \/ UNCHANGED seenInBrowser
<1>1. w \in Works(b) /\ batch[b].at = "running" /\ UNCHANGED <<cancelFlags, set>>
  BY DEF Respond, ReadChunk, WriteFile, AbortFile, At, Works
<1>2. ASSUME NEW ok \in BOOLEAN, Settles(b, w, ok) PROVE Promised!PromiseNext
  BY <1>1, <1>2, SettlingIsPromised
<1>3. batch' = batch => UNCHANGED <<StatusShown, FilesAsked, Successes, Failures, AnswersGiven, SetBatches>>
  BY <1>1, SameInView
<1>4. /\ Promised!Unfinished(b) /\ StatusShown[b] = "open"
      /\ lane[b][w].file \in 0..(MaxFiles - 1) /\ lane[b][w].file < FilesAsked[b]
  BY <1>1, HeldIsUnfinished
<1>5. ASSUME batch' = batch, shown' = [shown EXCEPT ![b] = @ \cup {lane[b][w].file}] PROVE Promised!PromiseNext
  <2>1. Promised!Show(b, lane[b][w].file)
    BY <1>3, <1>4, <1>5 DEF Promised!Show
  <2> QED BY <1>4, <2>1 DEF Promised!PromiseNext
<1>6. ASSUME batch' = batch, shown' = [shown EXCEPT ![b] = @ \ {lane[b][w].file}] PROVE Promised!PromiseNext
  <2>1. Promised!Hide(b, lane[b][w].file)
    BY <1>3, <1>4, <1>6 DEF Promised!Hide
  <2> QED BY <1>4, <2>1 DEF Promised!PromiseNext
<1>7. ASSUME batch' = batch, shown' = shown PROVE UNCHANGED seenInBrowser
  BY <1>3, <1>7 DEF seenInBrowser
<1>8. CASE Respond(b, w)
  BY <1>2, <1>5, <1>8 DEF Respond
<1>9. CASE ReadChunk(b, w)
  BY <1>2, <1>7, <1>9 DEF ReadChunk
<1>10. CASE WriteFile(b, w)
  BY <1>2, <1>10 DEF WriteFile
<1>11. CASE AbortFile(b, w)
  BY <1>2, <1>6, <1>11 DEF AbortFile
<1> QED BY <1>8, <1>9, <1>10, <1>11

\* Setting a flag reaches the batches that have it.
LEMMA FlagReaches ==
  ASSUME ReplicaInv, NEW i \in CancelIds, cancelBrowserDownloads(i)
  PROVE  Promised!PromiseNext
<1> DEFINE reached == {b \in Invocations : batch[b].flag = cancelFlags[i].flag}
<1>1. set' = set \cup {cancelFlags[i].flag} /\ UNCHANGED <<batch, shown>>
  BY DEF cancelBrowserDownloads
<1>2. SetBatches' = SetBatches \cup reached
  BY <1>1 DEF SetBatches, IsSet
<1>3. UNCHANGED <<StatusShown, FilesAsked, Successes, Failures, AnswersGiven>>
  BY <1>1, SameInView
<1>4. Promised!CancelAll(reached)
  BY <1>1, <1>2, <1>3 DEF Promised!CancelAll
<1> QED BY <1>4 DEF Promised!PromiseNext

\* A batch that begins was sent, and is born cancelled with a flag that was set.
LEMMA BeginningSends ==
  ASSUME ReplicaInv, NEW b \in Invocations, NEW i \in CancelIds, NEW n \in 0..MaxFiles, NEW asked \in Concurrency,
         Invoke(b, i, n, asked)
  PROVE  Promised!Send(b, n)
<1>1. /\ batch \in [Invocations -> BatchStates] /\ set \subseteq Invocations
      /\ batch[b] = Idling /\ UNCHANGED <<set, shown>>
  BY DEF Invoke, ReplicaInv, ReplicaTypes, LanesHold
<1> DEFINE flag == IF cancelFlags[i].flag = None THEN b ELSE cancelFlags[i].flag
           next == IF flag \in set THEN 0 ELSE Cardinality(Lanes(asked))
           began == [Idling EXCEPT !.at = "running", !.id = i, !.flag = flag, !.files = n, !.next = next]
<1>2. batch' = [batch EXCEPT ![b] = began]
  BY DEF Invoke
<1>3. /\ began.at = "running" /\ began.files = n
      /\ began.success = batch[b].success /\ began.failed = batch[b].failed /\ began.answer = batch[b].answer
  BY <1>1 DEF Idling
<1> HIDE DEF began
<1>4. /\ \A c \in Invocations : c # b => batch'[c] = batch[c]
      /\ batch'[b] = began
  BY <1>1, <1>2
<1>5. StatusShown[b] = "unsent" /\ StatusShown' = [StatusShown EXCEPT ![b] = "open"]
  <2>1. batch[b].at = "idle" /\ batch'[b].at = "running"
    BY <1>1, <1>3, <1>4 DEF Idling
  <2>2. \A c \in Invocations : c # b => batch'[c].at = batch[c].at
    BY <1>4
  <2> QED BY <2>1, <2>2 DEF StatusShown, StatusInBrowser
<1>6. FilesAsked' = [FilesAsked EXCEPT ![b] = n]
  BY <1>3, <1>4 DEF FilesAsked
<1>7. UNCHANGED <<Successes, Failures, AnswersGiven>>
  BY <1>3, <1>4 DEF Successes, Failures, AnswersGiven
<1>8. SetBatches' \in {SetBatches, SetBatches \cup {b}}
  <2>1. \A c \in Invocations : c # b => (IsSet(c)' <=> IsSet(c))
    BY <1>1, <1>4 DEF IsSet
  <2>2. ~IsSet(b)
    BY <1>1, ReplicaAssumption DEF IsSet, Idling
  <2>3. SetBatches' = {c \in Invocations : IsSet(c)'}
    BY DEF SetBatches
  <2> QED BY <2>1, <2>2, <2>3 DEF SetBatches
<1> QED BY <1>1, <1>5, <1>6, <1>7, <1>8 DEF Promised!Send

\* An answer finds nothing shown, and every file settled unless the flag is set.
LEMMA AnswerIsPromised ==
  ASSUME ReplicaInv, NEW b \in Invocations, Answered(b)
  PROVE  Promised!Answer(b)
<1>1. /\ batch \in [Invocations -> BatchStates] /\ batch[b] \in BatchStates
      /\ batch[b].at = "running" /\ AllOut(b) /\ UNCHANGED <<set, lane, shown>>
      /\ LanesHold(b) /\ BatchBalances(b)
  BY DEF Answered, ReplicaInv, ReplicaTypes
<1> DEFINE given == [success |-> batch[b].success, failed |-> batch[b].failed, cancelled |-> IsSet(b)]
           ended == [batch[b] EXCEPT !.at = "answered", !.answer = given]
<1>2. batch' = [batch EXCEPT ![b] = ended]
  <2>1. batch' = [batch EXCEPT ![b].at = "answered", ![b].answer = given]
    BY DEF Answered
  <2> HIDE DEF given
  <2> QED BY <1>1, <2>1
<1>3. /\ ended.at = "answered" /\ ended.answer = given /\ ended.files = batch[b].files
      /\ ended.success = batch[b].success /\ ended.failed = batch[b].failed /\ ended.flag = batch[b].flag
  <2> HIDE DEF given
  <2> QED BY <1>1 DEF BatchStates
<1> HIDE DEF ended, given
<1>4. batch'[b] = ended /\ \A c \in Invocations : c # b => batch'[c] = batch[c]
  BY <1>1, <1>2
<1>5. StatusShown[b] = "open" /\ StatusShown' = [StatusShown EXCEPT ![b] = "answered"]
  BY <1>1, <1>3, <1>4 DEF StatusShown, StatusInBrowser
<1>6. UNCHANGED <<FilesAsked, Successes, Failures, SetBatches>>
  BY <1>1, <1>3, <1>4, SameInView
<1>7. AnswersGiven' = [AnswersGiven EXCEPT ![b] = given]
  BY <1>3, <1>4 DEF AnswersGiven
<1>8. Works(b) = {} /\ Held(b) = {} /\ Cardinality({}) = 0
  BY <1>1, FS_EmptySet DEF Works, Held, AllOut, Out
<1>9. shown[b] = {}
  BY <1>1, <1>8 DEF LanesHold
<1>10. IsSet(b) \/ batch[b].success + batch[b].failed = batch[b].files
  <2>1. /\ batch[b].success \in Nat /\ batch[b].failed \in Nat /\ batch[b].files \in Nat /\ batch[b].next \in Nat
    BY <1>1 DEF BatchStates
  <2> QED BY <2>1, <1>1, <1>8 DEF BatchBalances
<1>11. /\ FilesAsked[b] = batch[b].files /\ Successes[b] = batch[b].success /\ Failures[b] = batch[b].failed
       /\ b \in SetBatches <=> IsSet(b)
  BY DEF FilesAsked, Successes, Failures, SetBatches
<1>12. Promised!MayAnswer(b)
  BY <1>5, <1>9, <1>10, <1>11 DEF Promised!MayAnswer, Promised!Settled
<1>13. given = [success |-> Successes[b], failed |-> Failures[b], cancelled |-> b \in SetBatches]
  <2>1. IsSet(b) = (b \in SetBatches)
    BY <1>11 DEF IsSet
  <2> QED BY <1>11, <2>1 DEF given
<1> QED BY <1>1, <1>5, <1>6, <1>7, <1>12, <1>13 DEF Promised!Answer

\* The preview is to its caller what the desktop is: with the workers, the index and the flags hidden,
\* every behaviour is one of BatchPromise.
THEOREM PreviewKeepsPromise == ReplicaSafety => ReplicaKeepsPromise
<1>1. ReplicaInit => Promised!PromiseInit
  BY ReplicaAssumption DEF ReplicaInit, Idling, Promised!PromiseInit, StatusShown, StatusInBrowser, FilesAsked, Successes,
     Failures, SetBatches, IsSet, AnswersGiven
<1>2. ReplicaInv /\ [ReplicaNext]_replicaVars => [Promised!PromiseNext]_(Promised!promiseVars)
  <2> SUFFICES ASSUME ReplicaInv, [ReplicaNext]_replicaVars PROVE Promised!PromiseNext \/ UNCHANGED seenInBrowser
    BY DEF seenInBrowser, Promised!promiseVars
  <2>1. ASSUME NEW i \in CancelIds, cancelBrowserDownloads(i) PROVE Promised!PromiseNext
    BY <2>1, FlagReaches
  <2>2. ASSUME NEW b \in Invocations, NEW i \in CancelIds, NEW n \in 0..MaxFiles, NEW k \in Concurrency, Invoke(b, i, n, k)
        PROVE  Promised!PromiseNext
    BY <2>2, BeginningSends DEF Promised!PromiseNext
  <2>3. ASSUME NEW b \in Invocations, NEW w \in MostLanes,
               Respond(b, w) \/ ReadChunk(b, w) \/ WriteFile(b, w) \/ AbortFile(b, w)
        PROVE  Promised!PromiseNext \/ UNCHANGED seenInBrowser
    BY <2>3, WorkerIsPromised
  <2>4. ASSUME NEW b \in Invocations, Answered(b) PROVE Promised!PromiseNext
    BY <2>4, AnswerIsPromised DEF Promised!PromiseNext
  <2>5. CASE UNCHANGED replicaVars
    BY <2>5, SameInView DEF replicaVars, seenInBrowser
  <2> QED BY <2>1, <2>2, <2>3, <2>4, <2>5 DEF ReplicaNext
<1> QED BY <1>1, <1>2, ReplicaInvariance, PTL DEF ReplicaSafety, ReplicaKeepsPromise, Promised!PromiseSpec

-----------------------------------------------------------------------------
(* Events (module ReplicaChannels).  Emissions of one event about one      *)
(* process happen once, and a loop has called the listeners it has passed, *)
(* so that those it is still to call are not called before.                *)

Emissions == [event : Events, pid : Pids, at : Nat]
HandlerCalls == [id : Nat, event : Events, pid : Pids]

ChannelTypes ==
  /\ nextId \in Nat \ {0} /\ nextPid \in Nat \ {0}
  /\ DOMAIN listeners \subseteq 1..(nextId - 1)
  /\ processes \subseteq 1..(nextPid - 1) /\ timers \subseteq 1..(nextPid - 1)
  /\ emitting \in Seq(Emissions) /\ told \in Seq(HandlerCalls)
  /\ due \in [Pids -> SUBSET Nat]

IsAbout(x, event, p) == x.event = event /\ x.pid = p

\* Nobody has been told of the event, and nobody is about to be.
Unsaid(event, p) ==
  /\ \A i \in DOMAIN emitting : ~IsAbout(emitting[i], event, p)
  /\ \A k \in DOMAIN told : ~IsAbout(told[k], event, p)

SaidOnce ==
  /\ \A i \in DOMAIN emitting : emitting[i].pid < nextPid
  /\ \A k \in DOMAIN told : told[k].pid < nextPid
  /\ \A i, j \in DOMAIN emitting : IsAbout(emitting[j], emitting[i].event, emitting[i].pid) => i = j
  /\ \A i \in DOMAIN emitting, k \in DOMAIN told :
       IsAbout(told[k], emitting[i].event, emitting[i].pid) => told[k].id <= emitting[i].at
  /\ \A p \in processes : Unsaid("process-exited", p)
  /\ \A p \in timers : Unsaid("process-output", p)
  /\ \A k, l \in DOMAIN told : told[k] = told[l] => k = l

IsTold(id, p) == \E k \in DOMAIN told : told[k].id = id /\ IsAbout(told[k], "process-exited", p)

DueAreTold ==
  /\ \A p \in Pids : \A id \in due[p] : id \in DOMAIN listeners /\ listeners[id] = "process-exited"
  /\ \A p \in Pids : (\A i \in DOMAIN emitting : ~IsAbout(emitting[i], "process-exited", p)) =>
       \A id \in due[p] : IsTold(id, p)
  /\ \A p \in Pids : \A i \in DOMAIN emitting : IsAbout(emitting[i], "process-exited", p) =>
       \A id \in due[p] : id <= emitting[i].at => IsTold(id, p)

ChannelInv == ChannelTypes /\ SaidOnce /\ DueAreTold

ChannelsSafety == ChannelsInit /\ [][ChannelsNext]_channelVars

\* At the start nothing runs and nobody listens.
LEMMA ChannelsStart == ChannelsInit => ChannelInv
<1> SUFFICES ASSUME ChannelsInit PROVE ChannelInv
  OBVIOUS
<1>1. /\ DOMAIN listeners = {} /\ DOMAIN emitting = {} /\ DOMAIN told = {}
      /\ emitting = <<>> /\ told = <<>>
  BY DEF ChannelsInit
<1> QED BY <1>1 DEF ChannelsInit, ChannelInv, ChannelTypes, SaidOnce, DueAreTold, Unsaid, IsAbout, IsTold

\* While nobody is told and no loop begins, what is due stays owed to listeners that stay.
LEMMA ListenersChange ==
  ASSUME ChannelInv, UNCHANGED <<emitting, told, processVars>>,
         due' \in [Pids -> SUBSET Nat],
         \A p \in Pids : \A id \in due'[p] : /\ id \in due[p]
                                             /\ id \in DOMAIN listeners' /\ listeners'[id] = listeners[id],
         nextId' \in Nat \ {0}, DOMAIN listeners' \subseteq 1..(nextId' - 1)
  PROVE  ChannelInv'
<1>1. ChannelTypes'
  BY DEF ChannelInv, ChannelTypes, processVars
<1>2. SaidOnce'
  BY DEF ChannelInv, SaidOnce, Unsaid, processVars
<1>4. DueAreTold'
  BY DEF ChannelInv, DueAreTold, IsTold, processVars
<1> QED BY <1>1, <1>2, <1>4 DEF ChannelInv

\* A listener that is added has the next id; one that is removed is owed nothing any more.
LEMMA ListenerComesOrGoes ==
  ASSUME ChannelInv,
         (\E e \in Events : addBrowserEventListener(e)) \/ (\E id \in 1..MaxListeners : removeBrowserEventListener(id))
  PROVE  ChannelInv'
<1>1. ASSUME NEW e \in Events, addBrowserEventListener(e) PROVE ChannelInv'
  <2>1. /\ listeners' = [id \in DOMAIN listeners \cup {nextId} |-> IF id = nextId THEN e ELSE listeners[id]]
        /\ nextId' = nextId + 1 /\ UNCHANGED <<emitting, told, processVars, due>>
    BY <1>1 DEF addBrowserEventListener
  <2>2. nextId \in Nat \ {0} /\ DOMAIN listeners \subseteq 1..(nextId - 1) /\ due \in [Pids -> SUBSET Nat]
    BY DEF ChannelInv, ChannelTypes
  <2>3. nextId' \in Nat \ {0} /\ DOMAIN listeners' \subseteq 1..(nextId' - 1)
    BY <2>1, <2>2
  <2>4. \A p \in Pids : \A id \in due'[p] : /\ id \in due[p]
                                            /\ id \in DOMAIN listeners' /\ listeners'[id] = listeners[id]
    <3>1. nextId \notin DOMAIN listeners
      BY <2>2
    <3>2. \A p \in Pids : \A id \in due[p] : id \in DOMAIN listeners
      BY DEF ChannelInv, DueAreTold
    <3> QED BY <2>1, <3>1, <3>2, Zenon
  <2> QED BY <2>1, <2>2, <2>3, <2>4, ListenersChange
<1>2. ASSUME NEW id \in 1..MaxListeners, removeBrowserEventListener(id) PROVE ChannelInv'
  <2>1. /\ listeners' = [i \in DOMAIN listeners \ {id} |-> listeners[i]]
        /\ due' = [p \in Pids |-> due[p] \ {id}] /\ UNCHANGED <<nextId, emitting, told, processVars>>
    BY <1>2 DEF removeBrowserEventListener
  <2>2. /\ nextId \in Nat \ {0} /\ DOMAIN listeners \subseteq 1..(nextId - 1) /\ due \in [Pids -> SUBSET Nat]
        /\ \A p \in Pids : \A i \in due[p] : i \in DOMAIN listeners
    BY DEF ChannelInv, ChannelTypes, DueAreTold
  <2>3. DOMAIN listeners' \subseteq 1..(nextId' - 1) /\ nextId' \in Nat \ {0}
    BY <2>1, <2>2
  <2>4. /\ due' \in [Pids -> SUBSET Nat]
        /\ \A p \in Pids : \A i \in due'[p] : /\ i \in due[p]
                                              /\ i \in DOMAIN listeners' /\ listeners'[i] = listeners[i]
    BY <2>1, <2>2
  <2> QED BY <2>1, <2>3, <2>4, ListenersChange
<1> QED BY <1>1, <1>2

\* A loop that has passed every listener has told whoever the exit is owed to.
LEMMA LoopEnds ==
  ASSUME ChannelInv, emitting # <<>>, emitting' = Front(emitting),
         {id \in DOMAIN listeners : id > Last(emitting).at /\ listeners[id] = Last(emitting).event} = {},
         UNCHANGED <<told, listeners, nextId, processVars, due>>
  PROVE  ChannelInv'
<1> DEFINE n == Len(emitting)
           loop == emitting[n]
<1>1. emitting \in Seq(Emissions) /\ ChannelTypes /\ SaidOnce /\ DueAreTold
  BY DEF ChannelInv, ChannelTypes
<1>2. /\ emitting' \in Seq(Emissions) /\ DOMAIN emitting' = DOMAIN emitting \ {n}
      /\ n \in DOMAIN emitting /\ Last(emitting) = loop /\ loop \in Emissions
      /\ \A i \in DOMAIN emitting' : emitting'[i] = emitting[i]
  <2>1. emitting # <<>> /\ emitting' = Front(emitting)
    OBVIOUS
  <2>2. /\ Front(emitting) \in Seq(Emissions) /\ DOMAIN Front(emitting) = DOMAIN emitting \ {n}
        /\ n \in DOMAIN emitting /\ Last(emitting) = loop /\ loop \in Emissions
        /\ \A i \in DOMAIN Front(emitting) : Front(emitting)[i] = emitting[i]
    BY <1>1, <2>1, DropsLast
  <2> HIDE DEF n, loop
  <2> QED BY <2>1, <2>2
<1>3. \A i \in DOMAIN emitting' : i \in DOMAIN emitting /\ i # n /\ emitting'[i] = emitting[i]
  BY <1>2
<1>4. \A id \in DOMAIN listeners : listeners[id] = loop.event => ~(id > loop.at)
  BY <1>2
<1> HIDE DEF n, loop
<1>5. ChannelTypes'
  BY <1>1, <1>2 DEF ChannelTypes, processVars
<1>6. SaidOnce'
  BY <1>1, <1>3 DEF SaidOnce, Unsaid, processVars
<1>7. \A id, p : IsTold(id, p)' <=> IsTold(id, p)
  BY DEF IsTold
<1>8. ASSUME NEW p \in Pids, \A i \in DOMAIN emitting' : ~IsAbout(emitting'[i], "process-exited", p)
      PROVE  \A id \in due[p] : IsTold(id, p)
  <2>1. CASE IsAbout(loop, "process-exited", p)
    <3> SUFFICES ASSUME NEW id \in due[p] PROVE IsTold(id, p)
      OBVIOUS
    <3>1. loop.event = "process-exited" /\ loop.pid = p
      BY <2>1 DEF IsAbout
    <3>2. id \in Nat /\ loop.at \in Nat
      BY <1>1, <1>2 DEF ChannelTypes, Emissions
    <3>3. id <= loop.at
      <4>1. id \in DOMAIN listeners /\ listeners[id] = "process-exited"
        BY <1>1 DEF DueAreTold
      <4>2. ~(id > loop.at)
        BY <1>4, <3>1, <4>1
      <4> QED BY <3>2, <4>2
    <3> QED BY <1>1, <1>2, <3>1, <3>3 DEF DueAreTold, IsAbout, loop
  <2>2. CASE ~IsAbout(loop, "process-exited", p)
    <3>1. \A i \in DOMAIN emitting : ~IsAbout(emitting[i], "process-exited", p)
      BY <1>2, <1>8, <2>2 DEF loop
    <3> QED BY <1>1, <3>1 DEF DueAreTold
  <2> QED BY <2>1, <2>2
<1>9. DueAreTold'
  <2>1. \A p \in Pids : \A id \in due'[p] : id \in DOMAIN listeners' /\ listeners'[id] = "process-exited"
    BY <1>1 DEF DueAreTold
  <2>2. \A p \in Pids : (\A i \in DOMAIN emitting' : ~IsAbout(emitting'[i], "process-exited", p)) =>
          \A id \in due'[p] : IsTold(id, p)'
    BY <1>7, <1>8
  <2>3. \A p \in Pids : \A i \in DOMAIN emitting' : IsAbout(emitting'[i], "process-exited", p) =>
          \A id \in due'[p] : id <= emitting'[i].at => IsTold(id, p)'
    BY <1>1, <1>3, <1>7 DEF DueAreTold
  <2> QED BY <2>1, <2>2, <2>3 DEF DueAreTold
<1> QED BY <1>5, <1>6, <1>9 DEF ChannelInv

\* The next listener is called for the first time, and it is the only one that had its turn now.
LEMMA ListenerIsCalled ==
  ASSUME ChannelInv, emitting # <<>>, NEW left,
         left = {id \in DOMAIN listeners : id > Last(emitting).at /\ listeners[id] = Last(emitting).event},
         NEW next \in left, \A id \in left : next <= id,
         emitting' = [emitting EXCEPT ![Len(emitting)].at = next],
         told' = Append(told, [id |-> next, event |-> Last(emitting).event, pid |-> Last(emitting).pid]),
         UNCHANGED <<listeners, nextId, processVars, due>>
  PROVE  ChannelInv'
<1>1. /\ emitting \in Seq(Emissions) /\ told \in Seq(HandlerCalls) /\ ChannelTypes /\ SaidOnce /\ DueAreTold
  BY DEF ChannelInv, ChannelTypes
<1>2. PICK n : n = Len(emitting)
  OBVIOUS
<1>3. PICK loop \in Emissions : loop = emitting[n] /\ loop = Last(emitting) /\ n \in DOMAIN emitting
  BY <1>1, <1>2, DropsLast
<1>4. next \in Nat /\ loop.at \in Nat /\ next > loop.at /\ next \in DOMAIN listeners /\ listeners[next] = loop.event
  <2>1. DOMAIN listeners \subseteq Nat
    BY <1>1 DEF ChannelTypes
  <2> QED BY <2>1, <1>3 DEF Emissions
<1>5. loop.event \in Events /\ loop.pid \in Pids
  BY DEF Emissions
<1> DEFINE turned == [loop EXCEPT !.at = next]
           said == [id |-> next, event |-> loop.event, pid |-> loop.pid]
<1>6. /\ turned \in Emissions /\ turned.at = next /\ turned.event = loop.event /\ turned.pid = loop.pid
      /\ said \in HandlerCalls /\ said.id = next /\ said.event = loop.event /\ said.pid = loop.pid
  BY <1>4, <1>5 DEF Emissions, HandlerCalls
<1>7. emitting' = [emitting EXCEPT ![n] = turned] /\ told' = Append(told, said)
  BY <1>2, <1>3
<1> HIDE DEF turned, said
<1>8. /\ emitting' \in Seq(Emissions) /\ DOMAIN emitting' = DOMAIN emitting /\ emitting'[n] = turned
      /\ \A i \in DOMAIN emitting : i # n => emitting'[i] = emitting[i]
  <2> DEFINE new == [emitting EXCEPT ![n] = turned]
  <2>1. /\ new \in Seq(Emissions) /\ DOMAIN new = DOMAIN emitting /\ new[n] = turned
        /\ \A i \in DOMAIN emitting : i # n => new[i] = emitting[i]
    BY <1>1, <1>3, <1>6, ReplacesOne
  <2>2. emitting' = new
    BY <1>7
  <2> HIDE DEF new
  <2> QED BY <2>1, <2>2
<1>9. PICK last : /\ told' \in Seq(HandlerCalls) /\ last \in DOMAIN told' /\ last \notin DOMAIN told /\ told'[last] = said
                  /\ \A k \in DOMAIN told : k \in DOMAIN told' /\ told'[k] = told[k]
                  /\ \A k \in DOMAIN told' : k \in DOMAIN told \/ k = last
  <2>1. /\ Append(told, said) \in Seq(HandlerCalls) /\ Len(told) \in Nat /\ DOMAIN told = 1..Len(told)
        /\ DOMAIN Append(told, said) = 1..(Len(told) + 1) /\ Len(told) + 1 \notin DOMAIN told
        /\ Append(told, said)[Len(told) + 1] = said
        /\ \A k \in DOMAIN told : k \in DOMAIN Append(told, said) /\ Append(told, said)[k] = told[k]
        /\ \A k \in DOMAIN Append(told, said) : k \in DOMAIN told \/ k = Len(told) + 1
    BY <1>1, <1>6, AppendsOne
  <2>2. Len(told) + 1 \in DOMAIN Append(told, said)
    BY <2>1
  <2> QED BY <1>7, <2>1, <2>2, Zenon
<1>10. ChannelTypes'
  BY <1>1, <1>8, <1>9 DEF ChannelTypes, processVars
<1>11. \A k \in DOMAIN told : IsAbout(told[k], loop.event, loop.pid) => told[k].id <= loop.at /\ told[k].id \in Nat
  <2>1. \A k \in DOMAIN told : told[k] \in HandlerCalls
    BY <1>1
  <2>2. \A k \in DOMAIN told : told[k].id \in Nat
    BY <2>1 DEF HandlerCalls
  <2> QED BY <1>1, <1>3, <2>2 DEF SaidOnce
<1>12. \A k \in DOMAIN told : told[k] # said
  <2> SUFFICES ASSUME NEW k \in DOMAIN told, told[k] = said PROVE FALSE
    OBVIOUS
  <2>1. IsAbout(told[k], loop.event, loop.pid) /\ told[k].id = next
    BY <1>6 DEF IsAbout
  <2>2. next <= loop.at
    BY <1>11, <2>1
  <2> QED BY <1>4, <2>2
<1>13. \A event, p : Unsaid(event, p) => Unsaid(event, p)'
  <2> SUFFICES ASSUME NEW event, NEW p, Unsaid(event, p) PROVE Unsaid(event, p)'
    OBVIOUS
  <2>1. ~IsAbout(loop, event, p)
    BY <1>3 DEF Unsaid
  <2>2. ~IsAbout(said, event, p) /\ ~IsAbout(turned, event, p)
    BY <2>1, <1>6 DEF IsAbout
  <2>3. \A i \in DOMAIN emitting' : ~IsAbout(emitting'[i], event, p)
    BY <1>8, <2>2 DEF Unsaid
  <2>4. \A k \in DOMAIN told' : ~IsAbout(told'[k], event, p)
    BY <1>9, <2>2 DEF Unsaid
  <2> QED BY <2>3, <2>4 DEF Unsaid
<1>14. SaidOnce'
  <2>1. /\ \A i \in DOMAIN emitting' : emitting'[i].pid < nextPid'
        /\ \A k \in DOMAIN told' : told'[k].pid < nextPid'
    <3>1. loop.pid < nextPid /\ nextPid' = nextPid
      BY <1>1, <1>3 DEF SaidOnce, processVars
    <3> QED BY <3>1, <1>1, <1>3, <1>6, <1>8, <1>9 DEF SaidOnce
  <2>2. \A i \in DOMAIN emitting : emitting'[i].event = emitting[i].event /\ emitting'[i].pid = emitting[i].pid
    BY <1>3, <1>6, <1>8
  <2>3. \A i, j \in DOMAIN emitting' : IsAbout(emitting'[j], emitting'[i].event, emitting'[i].pid) => i = j
    BY <1>1, <1>8, <2>2 DEF SaidOnce, IsAbout
  <2>4. \A i \in DOMAIN emitting', k \in DOMAIN told' :
          IsAbout(told'[k], emitting'[i].event, emitting'[i].pid) => told'[k].id <= emitting'[i].at
    <3> SUFFICES ASSUME NEW i \in DOMAIN emitting', NEW k \in DOMAIN told',
                        IsAbout(told'[k], emitting'[i].event, emitting'[i].pid)
                 PROVE  told'[k].id <= emitting'[i].at
      OBVIOUS
    <3>1. CASE i = n /\ k = last
      BY <3>1, <1>4, <1>6, <1>8, <1>9
    <3>2. CASE i = n /\ k # last
      <4>1. k \in DOMAIN told /\ IsAbout(told[k], loop.event, loop.pid) /\ told'[k] = told[k]
        BY <3>2, <1>3, <1>9, <2>2
      <4>2. told[k].id <= loop.at /\ told[k].id \in Nat
        BY <4>1, <1>11
      <4>3. emitting'[i].at = next
        BY <3>2, <1>6, <1>8
      <4> QED BY <4>1, <4>2, <4>3, <1>4
    <3>3. CASE i # n /\ k = last
      <4>1. IsAbout(emitting[i], emitting[n].event, emitting[n].pid)
        BY <3>3, <1>3, <1>6, <1>8, <1>9 DEF IsAbout
      <4> QED BY <4>1, <3>3, <1>1, <1>3, <1>8 DEF SaidOnce
    <3>4. CASE i # n /\ k # last
      BY <3>4, <1>1, <1>8, <1>9 DEF SaidOnce
    <3> QED BY <3>1, <3>2, <3>3, <3>4
  <2>5. /\ \A p \in processes' : Unsaid("process-exited", p)'
        /\ \A p \in timers' : Unsaid("process-output", p)'
    BY <1>1, <1>13 DEF SaidOnce, processVars
  <2>6. \A k, l \in DOMAIN told' : told'[k] = told'[l] => k = l
    BY <1>1, <1>9, <1>12 DEF SaidOnce
  <2> QED BY <2>1, <2>3, <2>4, <2>5, <2>6 DEF SaidOnce
<1>15. \A id, p : IsTold(id, p) => IsTold(id, p)'
  BY <1>9 DEF IsTold
<1>16. DueAreTold'
  <2>1. \A p \in Pids : \A id \in due'[p] : id \in DOMAIN listeners' /\ listeners'[id] = "process-exited"
    BY <1>1 DEF DueAreTold
  <2>2. \A p \in Pids : (\A i \in DOMAIN emitting' : ~IsAbout(emitting'[i], "process-exited", p)) =>
          \A id \in due'[p] : IsTold(id, p)'
    <3> SUFFICES ASSUME NEW p \in Pids, \A i \in DOMAIN emitting' : ~IsAbout(emitting'[i], "process-exited", p)
                 PROVE  \A id \in due'[p] : IsTold(id, p)'
      OBVIOUS
    <3>1. \A i \in DOMAIN emitting : ~IsAbout(emitting[i], "process-exited", p)
      BY <1>3, <1>6, <1>8 DEF IsAbout
    <3> QED BY <3>1, <1>1, <1>15 DEF DueAreTold
  <2>3. \A p \in Pids : \A i \in DOMAIN emitting' : IsAbout(emitting'[i], "process-exited", p) =>
          \A id \in due'[p] : id <= emitting'[i].at => IsTold(id, p)'
    <3> SUFFICES ASSUME NEW p \in Pids, NEW i \in DOMAIN emitting', IsAbout(emitting'[i], "process-exited", p),
                        NEW id \in due[p], id <= emitting'[i].at
                 PROVE  IsTold(id, p)'
      OBVIOUS
    <3>1. CASE i # n
      BY <3>1, <1>1, <1>8, <1>15 DEF DueAreTold
    <3>2. CASE i = n
      <4>1. IsAbout(loop, "process-exited", p) /\ id <= next
        BY <3>2, <1>6, <1>8 DEF IsAbout
      <4>2. id \in DOMAIN listeners /\ listeners[id] = loop.event /\ id \in Nat
        BY <4>1, <1>1 DEF DueAreTold, ChannelTypes, IsAbout
      <4>3. CASE id <= loop.at
        <5>1. IsTold(id, p)
          BY <1>1, <1>3, <4>1, <4>3 DEF DueAreTold
        <5> QED BY <5>1, <1>15
      <4>4. CASE ~(id <= loop.at)
        <5>1. id \in left
          BY <1>3, <1>4, <4>2, <4>4
        <5>2. id = next
          BY <5>1, <1>4, <4>1, <4>2
        <5>3. told'[last].id = id /\ IsAbout(told'[last], "process-exited", p)
          BY <5>2, <1>6, <1>9, <4>1 DEF IsAbout
        <5> QED BY <5>3, <1>9 DEF IsTold
      <4> QED BY <4>3, <4>4
    <3> QED BY <3>1, <3>2
  <2> QED BY <2>1, <2>2, <2>3 DEF DueAreTold
<1> QED BY <1>10, <1>14, <1>16 DEF ChannelInv

\* A turn of the innermost loop.
LEMMA LoopTurns ==
  ASSUME ChannelInv, Emit
  PROVE  ChannelInv'
<1>1. emitting # <<>> /\ UNCHANGED <<listeners, nextId, processVars, due>>
  BY DEF Emit
<1>2. PICK left : left = {id \in DOMAIN listeners : id > Last(emitting).at /\ listeners[id] = Last(emitting).event}
  OBVIOUS
<1>3. CASE left = {}
  <2>1. emitting' = Front(emitting) /\ UNCHANGED told
    BY <1>2, <1>3 DEF Emit
  <2> QED BY <1>1, <1>2, <1>3, <2>1, LoopEnds
<1>4. CASE left # {}
  <2>1. left \subseteq Nat
    BY <1>2 DEF ChannelInv, ChannelTypes
  <2>2. \E m \in left : \A i \in left : m <= i
    BY <1>4, <2>1, LeastNatural
  <2>3. PICK next : /\ next = CHOOSE id \in left : \A i \in left : id <= i
                    /\ next \in left /\ \A i \in left : next <= i
    BY <2>2
  <2>4. /\ emitting' = [emitting EXCEPT ![Len(emitting)].at = next]
        /\ told' = Append(told, [id |-> next, event |-> Last(emitting).event, pid |-> Last(emitting).pid])
    BY <1>2, <1>4, <2>3 DEF Emit
  <2> QED BY <1>1, <1>2, <2>3, <2>4, ListenerIsCalled
<1> QED BY <1>3, <1>4

\* The first emission of an event about a process begins before all of its listeners.
LEMMA EmissionBegins ==
  ASSUME ChannelInv, NEW event \in Events, NEW p \in Pids, p < nextPid, Unsaid(event, p),
         emitting' = Append(emitting, Emission(event, p)), UNCHANGED <<listeners, nextId, told, nextPid>>,
         processes' \subseteq processes, timers' \subseteq timers,
         event = "process-exited" => p \notin processes', event = "process-output" => p \notin timers',
         due' \in [Pids -> SUBSET Nat], \A q \in Pids : q # p \/ event # "process-exited" => due'[q] = due[q],
         \A id \in due'[p] : id \in DOMAIN listeners /\ listeners[id] = "process-exited"
  PROVE  ChannelInv'
<1>1. emitting \in Seq(Emissions) /\ told \in Seq(HandlerCalls) /\ ChannelTypes /\ SaidOnce /\ DueAreTold
  BY DEF ChannelInv, ChannelTypes
<1>2. PICK loop \in Emissions : loop = Emission(event, p) /\ IsAbout(loop, event, p) /\ loop.at = 0
  BY DEF Emission, Emissions, IsAbout
<1>3. PICK n : /\ emitting' \in Seq(Emissions) /\ n \in DOMAIN emitting' /\ n \notin DOMAIN emitting /\ emitting'[n] = loop
               /\ \A i \in DOMAIN emitting : i \in DOMAIN emitting' /\ emitting'[i] = emitting[i]
               /\ \A i \in DOMAIN emitting' : i \in DOMAIN emitting \/ i = n
  <2>1. /\ Append(emitting, loop) \in Seq(Emissions) /\ Len(emitting) \in Nat /\ DOMAIN emitting = 1..Len(emitting)
        /\ DOMAIN Append(emitting, loop) = 1..(Len(emitting) + 1) /\ Len(emitting) + 1 \notin DOMAIN emitting
        /\ Append(emitting, loop)[Len(emitting) + 1] = loop
        /\ \A k \in DOMAIN emitting : k \in DOMAIN Append(emitting, loop) /\ Append(emitting, loop)[k] = emitting[k]
        /\ \A k \in DOMAIN Append(emitting, loop) : k \in DOMAIN emitting \/ k = Len(emitting) + 1
    BY <1>1, AppendsOne
  <2>2. Len(emitting) + 1 \in DOMAIN Append(emitting, loop) /\ emitting' = Append(emitting, loop)
    BY <1>2, <2>1
  <2> QED BY <2>1, <2>2, Zenon
<1>4. ChannelTypes'
  BY <1>1, <1>3 DEF ChannelTypes
<1>5. SaidOnce'
  <2>1. /\ \A i \in DOMAIN emitting' : emitting'[i].pid < nextPid'
        /\ \A k \in DOMAIN told' : told'[k].pid < nextPid'
    BY <1>1, <1>2, <1>3 DEF SaidOnce, IsAbout
  <2>2. \A i \in DOMAIN emitting : ~IsAbout(emitting[i], event, p) /\ ~IsAbout(loop, emitting[i].event, emitting[i].pid)
    BY <1>2 DEF Unsaid, IsAbout
  <2>3. \A i, j \in DOMAIN emitting' : IsAbout(emitting'[j], emitting'[i].event, emitting'[i].pid) => i = j
    <3>1. \A i \in DOMAIN emitting : ~IsAbout(emitting[i], loop.event, loop.pid)
      BY <1>2, <2>2 DEF IsAbout
    <3> QED BY <3>1, <1>1, <1>3, <2>2 DEF SaidOnce
  <2>4. \A i \in DOMAIN emitting', k \in DOMAIN told' :
          IsAbout(told'[k], emitting'[i].event, emitting'[i].pid) => told'[k].id <= emitting'[i].at
    <3>1. \A k \in DOMAIN told : ~IsAbout(told[k], loop.event, loop.pid)
      BY <1>2 DEF Unsaid, IsAbout
    <3> QED BY <3>1, <1>1, <1>3 DEF SaidOnce
  <2>5. \A q \in processes' : Unsaid("process-exited", q)'
    <3> SUFFICES ASSUME NEW q \in processes' PROVE Unsaid("process-exited", q)'
      OBVIOUS
    <3>1. Unsaid("process-exited", q) /\ ~IsAbout(loop, "process-exited", q)
      BY <1>1, <1>2 DEF SaidOnce, IsAbout
    <3> QED BY <3>1, <1>3 DEF Unsaid
  <2>6. \A q \in timers' : Unsaid("process-output", q)'
    <3> SUFFICES ASSUME NEW q \in timers' PROVE Unsaid("process-output", q)'
      OBVIOUS
    <3>1. Unsaid("process-output", q) /\ ~IsAbout(loop, "process-output", q)
      BY <1>1, <1>2 DEF SaidOnce, IsAbout
    <3> QED BY <3>1, <1>3 DEF Unsaid
  <2>7. \A k, l \in DOMAIN told' : told'[k] = told'[l] => k = l
    BY <1>1 DEF SaidOnce
  <2> QED BY <2>1, <2>3, <2>4, <2>5, <2>6, <2>7 DEF SaidOnce
<1>6. \A id, q : IsTold(id, q)' <=> IsTold(id, q)
  BY DEF IsTold
<1>7. DueAreTold'
  <2>1. \A q \in Pids : \A id \in due'[q] : id \in DOMAIN listeners' /\ listeners'[id] = "process-exited"
    BY <1>1 DEF DueAreTold
  <2>2. ASSUME NEW q \in Pids PROVE IsAbout(loop, "process-exited", q) \/ due'[q] = due[q]
    BY <1>2 DEF IsAbout
  <2>3. \A q \in Pids : (\A i \in DOMAIN emitting' : ~IsAbout(emitting'[i], "process-exited", q)) =>
          \A id \in due'[q] : IsTold(id, q)'
    <3> SUFFICES ASSUME NEW q \in Pids, \A i \in DOMAIN emitting' : ~IsAbout(emitting'[i], "process-exited", q)
                 PROVE  \A id \in due'[q] : IsTold(id, q)'
      OBVIOUS
    <3>1. due'[q] = due[q] /\ \A i \in DOMAIN emitting : ~IsAbout(emitting[i], "process-exited", q)
      BY <1>3, <2>2
    <3> QED BY <3>1, <1>1, <1>6 DEF DueAreTold
  <2>4. \A q \in Pids : \A i \in DOMAIN emitting' : IsAbout(emitting'[i], "process-exited", q) =>
          \A id \in due'[q] : id <= emitting'[i].at => IsTold(id, q)'
    <3> SUFFICES ASSUME NEW q \in Pids, NEW i \in DOMAIN emitting', IsAbout(emitting'[i], "process-exited", q),
                        NEW id \in due'[q], id <= emitting'[i].at
                 PROVE  IsTold(id, q)'
      OBVIOUS
    <3>1. CASE i = n
      <4>1. id \in Nat /\ id <= 0
        BY <3>1, <1>2, <1>3, <1>4 DEF ChannelTypes
      <4>2. id \in DOMAIN listeners
        BY <2>1
      <4>3. id \in 1..(nextId - 1)
        BY <1>1, <4>2 DEF ChannelTypes
      <4> QED BY <4>1, <4>3
    <3>2. CASE i # n
      <4>1. i \in DOMAIN emitting /\ emitting'[i] = emitting[i]
        BY <3>2, <1>3
      <4>2. ~IsAbout(loop, "process-exited", q)
        BY <4>1, <1>2 DEF Unsaid, IsAbout
      <4>3. due'[q] = due[q]
        BY <2>2, <4>2
      <4> QED BY <4>1, <4>3, <1>1, <1>6 DEF DueAreTold
    <3> QED BY <3>1, <3>2
  <2> QED BY <2>1, <2>3, <2>4 DEF DueAreTold
<1> QED BY <1>4, <1>5, <1>7 DEF ChannelInv

\* Processes: a new pid was never heard of, output is told once, and so is the exit.
LEMMA ProcessSteps ==
  ASSUME ChannelInv, spawnPlaceholderProcess \/ \E p \in Pids : PretendOutput(p) \/ killPlaceholderProcess(p)
  PROVE  ChannelInv'
<1>1. /\ emitting \in Seq(Emissions) /\ told \in Seq(HandlerCalls) /\ ChannelTypes /\ SaidOnce /\ DueAreTold
      /\ nextPid \in Nat \ {0} /\ processes \subseteq 1..(nextPid - 1) /\ timers \subseteq 1..(nextPid - 1)
  BY DEF ChannelInv, ChannelTypes
<1>2. \A p \in processes \cup timers : p < nextPid /\ p \in Nat
  BY <1>1
<1>3. CASE spawnPlaceholderProcess
  <2>1. /\ nextPid \in Pids /\ processes' = processes \cup {nextPid} /\ timers' = timers \cup {nextPid}
        /\ nextPid' = nextPid + 1 /\ UNCHANGED <<listeners, nextId, emitting, told, due>>
    BY <1>3 DEF spawnPlaceholderProcess, eventVars
  <2>2. ChannelTypes'
    <3>1. /\ nextPid' \in Nat \ {0} /\ processes' \subseteq 1..(nextPid' - 1) /\ timers' \subseteq 1..(nextPid' - 1)
      BY <1>1, <2>1
    <3> QED BY <3>1, <1>1, <2>1 DEF ChannelTypes
  <2>3. SaidOnce'
    <3>1. /\ \A i \in DOMAIN emitting : emitting[i].pid < nextPid /\ emitting[i].pid \in Nat
          /\ \A k \in DOMAIN told : told[k].pid < nextPid /\ told[k].pid \in Nat
      <4>1. /\ \A i \in DOMAIN emitting : emitting[i].pid \in Pids
            /\ \A k \in DOMAIN told : told[k].pid \in Pids
        <5>1. \A i \in DOMAIN emitting : emitting[i] \in Emissions
          BY <1>1
        <5>2. \A k \in DOMAIN told : told[k] \in HandlerCalls
          BY <1>1
        <5> QED BY <5>1, <5>2 DEF Emissions, HandlerCalls
      <4>2. Pids \subseteq Nat
        BY DEF Pids
      <4> QED BY <4>1, <4>2, <1>1 DEF SaidOnce
    <3>2. /\ \A i \in DOMAIN emitting : emitting[i].pid < nextPid + 1
          /\ \A k \in DOMAIN told : told[k].pid < nextPid + 1
      BY <3>1, <1>1
    <3>3. \A event : Unsaid(event, nextPid)
      BY <3>1, <1>1 DEF Unsaid, IsAbout
    <3>4. \A event, p : Unsaid(event, p)' <=> Unsaid(event, p)
      BY <2>1 DEF Unsaid
    <3> QED BY <1>1, <2>1, <3>2, <3>3, <3>4 DEF SaidOnce
  <2>4. DueAreTold'
    <3>1. \A id, p : IsTold(id, p)' <=> IsTold(id, p)
      BY <2>1 DEF IsTold
    <3> QED BY <1>1, <2>1, <3>1 DEF DueAreTold
  <2> QED BY <2>2, <2>3, <2>4 DEF ChannelInv
<1>4. ASSUME NEW p \in Pids, PretendOutput(p) PROVE ChannelInv'
  <2>1. /\ p \in timers /\ emitting = <<>> /\ timers' = timers \ {p}
        /\ emitting' = IF p \in processes THEN <<Emission("process-output", p)>> ELSE <<>>
        /\ UNCHANGED <<listeners, nextId, told, processes, nextPid, due>>
    BY <1>4 DEF PretendOutput
  <2>2. CASE p \in processes
    <3>1. emitting' = Append(emitting, Emission("process-output", p))
      BY <2>1, <2>2
    <3>2. Unsaid("process-output", p) /\ p < nextPid /\ "process-output" \in Events
      BY <1>1, <1>2, <2>1 DEF SaidOnce, Events
    <3>3. /\ due' \in [Pids -> SUBSET Nat] /\ \A q \in Pids : due'[q] = due[q]
          /\ \A id \in due'[p] : id \in DOMAIN listeners /\ listeners[id] = "process-exited"
      BY <1>1, <2>1 DEF ChannelTypes, DueAreTold
    <3>4. "process-output" # "process-exited" /\ p \notin timers' /\ processes' \subseteq processes /\ timers' \subseteq timers
      BY <2>1
    <3> QED BY <2>1, <3>1, <3>2, <3>3, <3>4, EmissionBegins
  <2>3. CASE p \notin processes
    <3>1. emitting' = emitting
      BY <2>1, <2>3
    <3>2. ChannelTypes'
      BY <1>1, <2>1, <3>1 DEF ChannelTypes
    <3>3. SaidOnce'
      <4>1. \A event, q : Unsaid(event, q)' <=> Unsaid(event, q)
        BY <2>1, <3>1 DEF Unsaid
      <4> QED BY <1>1, <2>1, <3>1, <4>1 DEF SaidOnce
    <3>4. DueAreTold'
      <4>1. \A id, q : IsTold(id, q)' <=> IsTold(id, q)
        BY <2>1 DEF IsTold
      <4> QED BY <1>1, <2>1, <3>1, <4>1 DEF DueAreTold
    <3> QED BY <3>2, <3>3, <3>4 DEF ChannelInv
  <2> QED BY <2>2, <2>3
<1>5. ASSUME NEW p \in Pids, killPlaceholderProcess(p) PROVE ChannelInv'
  <2>1. /\ p \in processes /\ processes' = processes \ {p}
        /\ emitting' = Append(emitting, Emission("process-exited", p))
        /\ due' = [due EXCEPT ![p] = {id \in DOMAIN listeners : listeners[id] = "process-exited"}]
        /\ UNCHANGED <<listeners, nextId, told, nextPid, timers>>
    BY <1>5 DEF killPlaceholderProcess, Killed
  <2>2. Unsaid("process-exited", p) /\ p < nextPid /\ "process-exited" \in Events
    BY <1>1, <1>2, <2>1 DEF SaidOnce, Events
  <2>3. /\ due' \in [Pids -> SUBSET Nat] /\ \A q \in Pids : q # p => due'[q] = due[q]
        /\ \A id \in due'[p] : id \in DOMAIN listeners /\ listeners[id] = "process-exited"
    <3>1. DOMAIN listeners \subseteq Nat
      BY <1>1 DEF ChannelTypes
    <3> QED BY <3>1, <1>1, <2>1 DEF ChannelTypes
  <2>4. "process-output" # "process-exited" /\ p \notin processes' /\ processes' \subseteq processes /\ timers' \subseteq timers
    BY <2>1
  <2> QED BY <2>1, <2>2, <2>3, <2>4, EmissionBegins
<1> QED BY <1>3, <1>4, <1>5

\* Every behaviour of the events keeps the invariant.
THEOREM ChannelInvariance == ChannelsSafety => []ChannelInv
<1>1. ChannelInv /\ [ChannelsNext]_channelVars => ChannelInv'
  <2> SUFFICES ASSUME ChannelInv, [ChannelsNext]_channelVars PROVE ChannelInv'
    OBVIOUS
  <2>1. CASE ChannelsNext
    BY <2>1, ListenerComesOrGoes, LoopTurns, ProcessSteps DEF ChannelsNext
  <2>2. CASE UNCHANGED channelVars
    <3>1. UNCHANGED <<listeners, nextId, emitting, told, processVars, due>>
      BY <2>2 DEF channelVars, eventVars
    <3>2. /\ due' \in [Pids -> SUBSET Nat] /\ nextId' \in Nat \ {0} /\ DOMAIN listeners' \subseteq 1..(nextId' - 1)
      BY <3>1 DEF ChannelInv, ChannelTypes
    <3>3. \A p \in Pids : \A id \in due'[p] : id \in due[p] /\ id \in DOMAIN listeners' /\ listeners'[id] = listeners[id]
      BY <3>1 DEF ChannelInv, DueAreTold
    <3> QED BY <3>1, <3>2, <3>3, ListenersChange
  <2> QED BY <2>1, <2>2
<1> QED BY <1>1, ChannelsStart, PTL DEF ChannelsSafety

\* An exit reaches every listener it is owed to, once, and what is killed before its output has none.
THEOREM ExitsAreToldOnce == ChannelsSafety => [](ExitIsToldOnce /\ ChannelsTypeOK)
<1>1. ChannelInv => ExitIsToldOnce
  <2> SUFFICES ASSUME ChannelInv PROVE ExitIsToldOnce
    OBVIOUS
  <2>1. told \in Seq(HandlerCalls) /\ emitting \in Seq(Emissions) /\ SaidOnce /\ DueAreTold
    BY DEF ChannelInv, ChannelTypes
  <2>2. \A k \in DOMAIN told : told[k] \in HandlerCalls
    BY <2>1
  <2>3. \A id, p : IsTold(id, p) => [id |-> id, event |-> "process-exited", pid |-> p] \in ToSet(told)
    BY <2>2 DEF IsTold, IsAbout, ToSet, HandlerCalls
  <2>4. ASSUME NEW p \in Pids, ~\E i \in DOMAIN emitting : emitting[i].pid = p /\ emitting[i].event = "process-exited",
               NEW id \in due[p]
        PROVE  [id |-> id, event |-> "process-exited", pid |-> p] \in ToSet(told)
    <3>1. \A i \in DOMAIN emitting : ~IsAbout(emitting[i], "process-exited", p)
      BY <2>4 DEF IsAbout
    <3>2. IsTold(id, p)
      BY <2>1, <3>1 DEF DueAreTold
    <3> QED BY <2>3, <3>2
  <2>5. ASSUME NEW p \in timers, NEW i \in DOMAIN told, told[i].pid = p PROVE told[i].event = "process-exited"
    <3>1. told[i].event \in Events
      BY <2>2 DEF HandlerCalls
    <3>2. told[i].event # "process-output"
      BY <2>1, <2>5 DEF SaidOnce, Unsaid, IsAbout
    <3> QED BY <3>1, <3>2 DEF Events
  <2>6. IsInjective(told)
    BY <2>1 DEF SaidOnce, IsInjective
  <2> QED BY <2>4, <2>5, <2>6 DEF ExitIsToldOnce
<1>2. ChannelInv => ChannelsTypeOK
  <2> SUFFICES ASSUME ChannelInv PROVE ChannelsTypeOK
    OBVIOUS
  <2>1. \A i \in DOMAIN emitting : emitting[i] \in Emissions
    BY DEF ChannelInv, ChannelTypes
  <2>2. \A i \in DOMAIN emitting : emitting[i].event \in Events
    BY <2>1 DEF Emissions
  <2> QED BY <2>2 DEF ChannelInv, ChannelTypes, ChannelsTypeOK
<1> QED BY <1>1, <1>2, ChannelInvariance, PTL

-----------------------------------------------------------------------------
(* Events over the bridge to the Go backend (module WailsBridge).  The     *)
(* page has one handler for every event that it is subscribed to, and      *)
(* whoever listens is subscribed by the time that listen returns.          *)

ListenStates == [event : BackendEvents \cup {None}, at : {"idle", "awaiting", "listening", "removed"}, since : Nat]

BridgeTypes ==
  /\ runtime \in {"unknown", "loading", "present", "absent"}
  /\ listen \in [Listeners -> ListenStates]
  /\ wailsListeners \subseteq Listeners /\ isSubscribed \subseteq BackendEvents
  /\ emitted \in Seq(BackendEvents) /\ Len(emitted) <= MaxEmissions
  /\ heard \in [Listeners -> [1..MaxEmissions -> Nat]]

\* One handler for an event, and none without the runtime.
SubscribedOnce ==
  /\ subscriptions = [e \in BackendEvents |-> IF e \in isSubscribed THEN 1 ELSE 0]
  /\ isSubscribed # {} => runtime = "present"

\* Where a call of listen stands: in the map until unlisten, and subscribed when it has returned.
ListensAs(l) ==
  /\ l \in wailsListeners <=> listen[l].at \in {"awaiting", "listening"}
  /\ listen[l].at # "idle" => listen[l].event \in BackendEvents
  /\ listen[l].at = "listening" => runtime \in {"present", "absent"}
  /\ listen[l].at = "listening" /\ runtime = "present" => listen[l].event \in isSubscribed

\* It was called once at most for every event, and once for each of its own since it listens.
HearsOnce(l) ==
  /\ listen[l].since <= Len(emitted)
  /\ \A n \in 1..MaxEmissions : heard[l][n] <= 1 /\ (n > Len(emitted) => heard[l][n] = 0)
  /\ listen[l].at = "listening" /\ runtime = "present" =>
       \A n \in listen[l].since + 1..Len(emitted) : emitted[n] = listen[l].event => heard[l][n] = 1

BridgeInv ==
  /\ BridgeTypes
  /\ SubscribedOnce
  /\ \A l \in Listeners : ListensAs(l) /\ HearsOnce(l)

\* Bodies: what is drained has been read and not ended; a request that goes on has read nothing.
HttpStates ==
  [at : {"idle", "registering", "registered", "sending", "sent", "reading", "answered", "ended", "failed"},
   frames : {<<>>, <<"body">>, <<"body", "end">>}]

BodyInv ==
  /\ http \in [HttpRequests -> HttpStates]
  /\ registry \subseteq HttpRequests /\ drainedBodies \subseteq HttpRequests
  /\ \A r \in HttpRequests :
       /\ r \in drainedBodies => http[r] = [at |-> "sent", frames |-> <<"body">>]
       /\ r \notin drainedBodies /\ http[r].at \notin {"failed", "ended"} => http[r].frames = <<>>

WailsInv == BridgeInv /\ BodyInv

\* At the beginning nobody listens and nothing is read.
LEMMA WailsStarts == WailsInit => WailsInv
<1> SUFFICES ASSUME WailsInit PROVE WailsInv
  OBVIOUS
<1>1. BridgeInv
  <2>1. NoListen \in ListenStates
    BY DEF NoListen, ListenStates
  <2>2. emitted = <<>> /\ emitted \in Seq(BackendEvents) /\ Len(emitted) = 0
    BY EmptySeq DEF WailsInit
  <2>3. BridgeTypes
    BY <2>1, <2>2, WailsAssumption DEF WailsInit, BridgeTypes
  <2>4. SubscribedOnce
    BY DEF WailsInit, SubscribedOnce
  <2>5. ASSUME NEW l \in Listeners PROVE ListensAs(l) /\ HearsOnce(l)
    BY <2>2 DEF WailsInit, ListensAs, HearsOnce, NoListen
  <2> QED BY <2>3, <2>4, <2>5 DEF BridgeInv
<1>2. BodyInv
  BY DEF WailsInit, BodyInv, HttpStates, NoHttp
<1> QED BY <1>1, <1>2 DEF WailsInv

\* Nothing changes for a call of listen when the runtime is not lost and subscriptions stay.
LEMMA ListenerStays ==
  ASSUME NEW l \in Listeners, ListensAs(l), HearsOnce(l), listen'[l] = listen[l],
         l \in wailsListeners' <=> l \in wailsListeners, isSubscribed \subseteq isSubscribed',
         runtime \in {"present", "absent"} => runtime' = runtime, UNCHANGED <<emitted, heard>>
  PROVE  ListensAs(l)' /\ HearsOnce(l)'
<1>1. ListensAs(l)'
  BY DEF ListensAs
<1>2. HearsOnce(l)'
  BY DEF HearsOnce, ListensAs
<1> QED BY <1>1, <1>2

\* listen, the end of its wait, and unlisten.
LEMMA ListenerSteps ==
  ASSUME BridgeInv, NEW l \in Listeners,
         subscribeToBackend(l) \/ removeWailsEventListener(l) \/ \E e \in BackendEvents : addWailsEventListener(l, e)
  PROVE  BridgeInv'
<1>1. BridgeTypes /\ SubscribedOnce /\ \A k \in Listeners : ListensAs(k) /\ HearsOnce(k)
  BY DEF BridgeInv
<1>2. /\ runtime \in {"unknown", "loading", "present", "absent"} /\ listen \in [Listeners -> ListenStates]
      /\ listen[l] \in ListenStates /\ wailsListeners \subseteq Listeners /\ isSubscribed \subseteq BackendEvents
      /\ emitted \in Seq(BackendEvents) /\ Len(emitted) \in Nat
  BY <1>1, WailsAssumption DEF BridgeTypes
<1>3. UNCHANGED <<emitted, heard>>
  BY DEF subscribeToBackend, removeWailsEventListener, addWailsEventListener
<1>4. CASE subscribeToBackend(l)
  <2>1. /\ listen[l].at = "awaiting" /\ runtime \in {"present", "absent"} /\ UNCHANGED <<runtime, wailsListeners>>
        /\ listen' = [listen EXCEPT ![l].at = "listening", ![l].since = Len(emitted)]
    BY <1>4 DEF subscribeToBackend
  <2>2. listen[l].event \in BackendEvents
    BY <2>1, <1>1 DEF ListensAs
  <2>3. /\ listen' \in [Listeners -> ListenStates] /\ listen'[l].event = listen[l].event
        /\ listen'[l].at = "listening" /\ listen'[l].since = Len(emitted)
        /\ \A k \in Listeners : k # l => listen'[k] = listen[k]
    BY <2>1, <1>2 DEF ListenStates
  <2>4. /\ isSubscribed' = IF runtime = "present" THEN isSubscribed \cup {listen[l].event} ELSE isSubscribed
        /\ SubscribedOnce'
    <3>1. CASE runtime = "present" /\ listen[l].event \notin isSubscribed
      <4>1. /\ isSubscribed' = isSubscribed \cup {listen[l].event}
            /\ subscriptions' = [subscriptions EXCEPT ![listen[l].event] = @ + 1]
        BY <1>4, <3>1 DEF subscribeToBackend, StillUnsubscribed
      <4>2. subscriptions' = [e \in BackendEvents |-> IF e \in isSubscribed' THEN 1 ELSE 0]
        <5>1. subscriptions = [e \in BackendEvents |-> IF e \in isSubscribed THEN 1 ELSE 0]
          BY <1>1 DEF SubscribedOnce
        <5>2. subscriptions[listen[l].event] + 1 = 1
          BY <5>1, <3>1, <2>2
        <5>3. subscriptions' = [subscriptions EXCEPT ![listen[l].event] = 1]
          BY <4>1, <5>2
        <5>4. \A e \in BackendEvents : e \in isSubscribed' <=> e \in isSubscribed \/ e = listen[l].event
          BY <4>1, <2>2
        <5> QED BY <5>1, <5>3, <5>4, <2>2, Zenon
      <4> QED BY <4>1, <4>2, <3>1, <2>1 DEF SubscribedOnce
    <3>2. CASE ~(runtime = "present" /\ listen[l].event \notin isSubscribed)
      <4>1. UNCHANGED <<isSubscribed, subscriptions>>
        BY <1>4, <3>2 DEF subscribeToBackend, StillUnsubscribed
      <4> QED BY <4>1, <3>2, <2>1, <1>1 DEF SubscribedOnce
    <3> QED BY <3>1, <3>2
  <2>5. BridgeTypes'
    BY <2>1, <2>2, <2>3, <2>4, <1>1, <1>2, <1>3 DEF BridgeTypes
  <2>6. ASSUME NEW k \in Listeners, k # l PROVE ListensAs(k)' /\ HearsOnce(k)'
    BY <2>1, <2>3, <2>4, <2>6, <1>1, <1>3, ListenerStays
  <2>7. ListensAs(l)' /\ HearsOnce(l)'
    <3>1. ListensAs(l)'
      BY <2>1, <2>2, <2>3, <2>4, <1>1 DEF ListensAs
    <3>2. HearsOnce(l)'
      BY <2>3, <1>1, <1>2, <1>3 DEF HearsOnce
    <3> QED BY <3>1, <3>2
  <2> QED BY <2>4, <2>5, <2>6, <2>7 DEF BridgeInv
<1>5. CASE removeWailsEventListener(l)
  <2>1. /\ listen[l].at = "listening" /\ UNCHANGED <<runtime, subscriptions, isSubscribed>>
        /\ wailsListeners' = wailsListeners \ {l} /\ listen' = [listen EXCEPT ![l].at = "removed"]
    BY <1>5 DEF removeWailsEventListener
  <2>2. /\ listen' \in [Listeners -> ListenStates] /\ listen'[l].event = listen[l].event
        /\ listen'[l].at = "removed" /\ listen'[l].since = listen[l].since
        /\ \A k \in Listeners : k # l => listen'[k] = listen[k]
    BY <2>1, <1>2 DEF ListenStates
  <2>3. BridgeTypes' /\ SubscribedOnce'
    BY <2>1, <2>2, <1>1, <1>3 DEF BridgeTypes, SubscribedOnce
  <2>4. ASSUME NEW k \in Listeners, k # l PROVE ListensAs(k)' /\ HearsOnce(k)'
    BY <2>1, <2>2, <2>4, <1>1, <1>3, ListenerStays
  <2>5. ListensAs(l)'
    BY <2>1, <2>2, <1>1 DEF ListensAs
  <2>6. HearsOnce(l)'
    BY <2>2, <1>1, <1>3 DEF HearsOnce
  <2> QED BY <2>3, <2>4, <2>5, <2>6 DEF BridgeInv
<1>6. ASSUME NEW e \in BackendEvents, addWailsEventListener(l, e) PROVE BridgeInv'
  <2> DEFINE new == [event |-> e, since |-> Len(emitted), at |-> IF e \in isSubscribed THEN "listening" ELSE "awaiting"]
  <2>1. /\ listen[l].at = "idle" /\ UNCHANGED <<subscriptions, isSubscribed>>
        /\ wailsListeners' = wailsListeners \cup {l} /\ listen' = [listen EXCEPT ![l] = new]
    BY <1>6 DEF addWailsEventListener
  <2>2. /\ new \in ListenStates /\ new.event = e /\ new.since = Len(emitted)
        /\ new.at = (IF e \in isSubscribed THEN "listening" ELSE "awaiting")
    BY <1>2 DEF ListenStates
  <2>3. /\ runtime' \in {"unknown", "loading", "present", "absent"}
        /\ runtime # "unknown" => runtime' = runtime
    BY <1>6, <1>2 DEF addWailsEventListener, Requested
  <2> HIDE DEF new
  <2>4. /\ listen' \in [Listeners -> ListenStates] /\ listen'[l] = new
        /\ \A k \in Listeners : k # l => listen'[k] = listen[k]
    BY <2>1, <2>2, <1>2
  <2>5. isSubscribed # {} => runtime = "present" /\ runtime' = "present"
    BY <2>3, <1>1 DEF SubscribedOnce
  <2>6. BridgeTypes' /\ SubscribedOnce'
    BY <2>1, <2>3, <2>4, <2>5, <1>1, <1>2, <1>3 DEF BridgeTypes, SubscribedOnce
  <2>7. ASSUME NEW k \in Listeners, k # l PROVE ListensAs(k)' /\ HearsOnce(k)'
    BY <2>1, <2>3, <2>4, <2>7, <1>1, <1>3, ListenerStays
  <2>8. ListensAs(l)'
    BY <2>1, <2>2, <2>4, <2>5 DEF ListensAs
  <2>9. HearsOnce(l)'
    BY <2>2, <2>4, <1>1, <1>2, <1>3 DEF HearsOnce
  <2> QED BY <2>6, <2>7, <2>8, <2>9 DEF BridgeInv
<1> QED BY <1>4, <1>5, <1>6

\* An event reaches those in the map by as many handlers as the page has for it: one or none.
LEMMA EventIsEmitted ==
  ASSUME BridgeInv, NEW event \in BackendEvents, BackendEmits(event)
  PROVE  BridgeInv'
<1>1. BridgeTypes /\ SubscribedOnce /\ \A l \in Listeners : ListensAs(l) /\ HearsOnce(l)
  BY DEF BridgeInv
<1>2. /\ emitted \in Seq(BackendEvents) /\ Len(emitted) \in Nat /\ Len(emitted) < MaxEmissions /\ MaxEmissions \in Nat
      /\ emitted' = Append(emitted, event)
      /\ UNCHANGED <<runtime, listen, wailsListeners, subscriptions, isSubscribed>>
  BY <1>1, WailsAssumption DEF BridgeTypes, BackendEmits
<1>3. /\ Append(emitted, event) \in Seq(BackendEvents) /\ Len(Append(emitted, event)) = Len(emitted) + 1
      /\ Append(emitted, event)[Len(emitted) + 1] = event
      /\ \A n \in 1..Len(emitted) : Append(emitted, event)[n] = emitted[n]
  BY <1>2
<1>4. /\ emitted' \in Seq(BackendEvents) /\ Len(emitted') = Len(emitted) + 1 /\ emitted'[Len(emitted) + 1] = event
      /\ \A n \in 1..Len(emitted) : emitted'[n] = emitted[n]
  BY <1>2, <1>3, Zenon
<1>5. subscriptions[event] = IF event \in isSubscribed THEN 1 ELSE 0
  BY <1>1 DEF SubscribedOnce
<1>6. PICK count : count = subscriptions[event] /\ count \in {0, 1} /\ (event \in isSubscribed => count = 1)
  BY <1>5
<1>7. heard' = [l \in Listeners |->
                  IF l \in wailsListeners /\ listen[l].event = event
                  THEN [heard[l] EXCEPT ![Len(emitted) + 1] = @ + count] ELSE heard[l]]
  BY <1>6 DEF BackendEmits
<1>8. ASSUME NEW l \in Listeners
      PROVE  /\ heard'[l] \in [1..MaxEmissions -> Nat]
             /\ \A n \in 1..MaxEmissions : n # Len(emitted) + 1 => heard'[l][n] = heard[l][n]
             /\ heard'[l][Len(emitted) + 1] \in {0, 1}
             /\ l \in wailsListeners /\ listen[l].event = event => heard'[l][Len(emitted) + 1] = count
  <2>1. heard[l] \in [1..MaxEmissions -> Nat] /\ Len(emitted) + 1 \in 1..MaxEmissions
    BY <1>1, <1>2 DEF BridgeTypes
  <2>2. heard[l][Len(emitted) + 1] = 0
    BY <1>1, <1>2, <2>1 DEF HearsOnce
  <2>3. CASE l \in wailsListeners /\ listen[l].event = event
    <3>1. heard'[l] = [heard[l] EXCEPT ![Len(emitted) + 1] = heard[l][Len(emitted) + 1] + count]
      BY <1>7, <2>3
    <3>2. heard[l][Len(emitted) + 1] + count = count /\ count \in Nat
      BY <2>2, <1>6
    <3>3. heard'[l] = [heard[l] EXCEPT ![Len(emitted) + 1] = count]
      BY <3>1, <3>2
    <3> QED BY <3>2, <3>3, <2>1, <1>6
  <2>4. CASE ~(l \in wailsListeners /\ listen[l].event = event)
    <3>1. heard'[l] = heard[l]
      BY <1>7, <2>4
    <3> QED BY <3>1, <2>1, <2>2, <2>4
  <2> QED BY <2>3, <2>4
<1>9. BridgeTypes'
  <2>1. heard' \in [Listeners -> [1..MaxEmissions -> Nat]]
    BY <1>7, <1>8
  <2> QED BY <2>1, <1>1, <1>2, <1>4 DEF BridgeTypes
<1>10. SubscribedOnce'
  BY <1>1, <1>2 DEF SubscribedOnce
<1>11. ASSUME NEW l \in Listeners PROVE ListensAs(l)'
  BY <1>1, <1>2 DEF ListensAs
<1>12. ASSUME NEW l \in Listeners PROVE HearsOnce(l)'
  <2>1. listen[l] \in ListenStates
    BY <1>1 DEF BridgeTypes
  <2>2. listen[l].since \in Nat
    BY <2>1 DEF ListenStates
  <2>3. listen'[l].since <= Len(emitted')
    BY <2>2, <1>1, <1>2, <1>4 DEF HearsOnce
  <2>4. \A n \in 1..MaxEmissions : heard'[l][n] <= 1 /\ (n > Len(emitted') => heard'[l][n] = 0)
    BY <1>1, <1>2, <1>4, <1>8 DEF HearsOnce
  <2>5. ASSUME listen[l].at = "listening", runtime = "present", NEW n \in listen[l].since + 1..Len(emitted'),
               emitted'[n] = listen[l].event
        PROVE  heard'[l][n] = 1
    <3>1. CASE n = Len(emitted) + 1
      <4>1. listen[l].event = event /\ event \in isSubscribed /\ l \in wailsListeners
        BY <2>5, <3>1, <1>1, <1>4 DEF ListensAs
      <4> QED BY <4>1, <3>1, <1>6, <1>8
    <3>2. CASE n # Len(emitted) + 1
      <4>1. n \in listen[l].since + 1..Len(emitted) /\ n \in 1..Len(emitted) /\ n \in 1..MaxEmissions
        BY <2>2, <2>5, <3>2, <1>2, <1>4
      <4>2. emitted[n] = listen[l].event
        BY <4>1, <2>5, <1>4
      <4>3. heard[l][n] = 1
        BY <4>1, <4>2, <2>5, <1>1 DEF HearsOnce
      <4> QED BY <4>1, <4>3, <3>2, <1>8
    <3> QED BY <3>1, <3>2
  <2> QED BY <2>3, <2>4, <2>5, <1>2 DEF HearsOnce
<1> QED BY <1>9, <1>10, <1>11, <1>12 DEF BridgeInv

\* What is no event leaves the listeners alone, whether or not the runtime has been asked for.
LEMMA BridgeStays ==
  ASSUME BridgeInv, UNCHANGED eventBridgeVars, runtime' \in {"unknown", "loading", "present", "absent"},
         runtime \in {"present", "absent"} => runtime' = runtime
  PROVE  BridgeInv'
<1>1. UNCHANGED <<listen, wailsListeners, subscriptions, isSubscribed, emitted, heard>>
  BY DEF eventBridgeVars
<1>2. BridgeTypes' /\ SubscribedOnce'
  BY <1>1 DEF BridgeInv, BridgeTypes, SubscribedOnce
<1>3. ASSUME NEW l \in Listeners PROVE ListensAs(l)' /\ HearsOnce(l)'
  BY <1>1, ListenerStays DEF BridgeInv
<1> QED BY <1>2, <1>3 DEF BridgeInv

\* A request that goes on keeps what it has read, and one that fails does, too.
LEMMA RequestGoes ==
  ASSUME BodyInv, NEW r \in HttpRequests, NEW at \in {"registering", "registered", "sending", "sent", "reading", "answered", "failed"},
         HttpGoes(r, at), r \notin drainedBodies', drainedBodies' \subseteq drainedBodies,
         drainedBodies \subseteq drainedBodies' \cup {r}, registry' \subseteq HttpRequests,
         r \in drainedBodies => at = "failed", http[r].at \notin {"failed", "ended"}
  PROVE  BodyInv'
<1>1. http[r] \in HttpStates /\ http' = [http EXCEPT ![r].at = at]
  BY DEF BodyInv, HttpGoes
<1>2. /\ http'[r] = [at |-> at, frames |-> http[r].frames] /\ http'[r] \in HttpStates
      /\ \A k \in HttpRequests : k # r => http'[k] = http[k]
  BY <1>1 DEF BodyInv, HttpStates
<1>3. http' \in [HttpRequests -> HttpStates]
  BY <1>1, <1>2 DEF BodyInv
<1>4. at # "failed" => http[r].frames = <<>>
  BY DEF BodyInv
<1>5. http'[r].at = at /\ http'[r].frames = http[r].frames
  BY <1>2
<1>6. ASSUME NEW k \in HttpRequests
      PROVE  /\ k \in drainedBodies' => http'[k] = [at |-> "sent", frames |-> <<"body">>]
             /\ k \notin drainedBodies' /\ http'[k].at \notin {"failed", "ended"} => http'[k].frames = <<>>
  BY <1>2, <1>4, <1>5 DEF BodyInv
<1> QED BY <1>3, <1>6 DEF BodyInv

\* A body that is read, and its end.
LEMMA FrameIsRead ==
  ASSUME BodyInv, NEW r \in HttpRequests, BodyRead(r) \/ endOfBody(r)
  PROVE  BodyInv'
<1>1. /\ http \in [HttpRequests -> HttpStates] /\ registry \subseteq HttpRequests /\ drainedBodies \subseteq HttpRequests
      /\ r \in drainedBodies => http[r] = [at |-> "sent", frames |-> <<"body">>]
      /\ r \notin drainedBodies /\ http[r].at \notin {"failed", "ended"} => http[r].frames = <<>>
  BY DEF BodyInv
<1>2. CASE BodyRead(r)
  <2>1. http[r].at = "answered" /\ drainedBodies' = drainedBodies \cup {r} /\ UNCHANGED registry
        /\ http' = [http EXCEPT ![r] = [at |-> "sent", frames |-> Append(http[r].frames, "body")]]
    BY <1>2 DEF BodyRead
  <2>2. http[r].frames = <<>>
    BY <1>1, <2>1
  <2>3. Append(http[r].frames, "body") = <<"body">>
    BY <2>2
  <2>4. http' = [http EXCEPT ![r] = [at |-> "sent", frames |-> <<"body">>]]
    BY <2>1, <2>3
  <2>5. [at |-> "sent", frames |-> <<"body">>] \in HttpStates
    BY DEF HttpStates
  <2> QED BY <1>1, <2>1, <2>4, <2>5 DEF BodyInv
<1>3. CASE endOfBody(r)
  <2>1. r \in drainedBodies /\ drainedBodies' = drainedBodies \ {r} /\ UNCHANGED registry
        /\ http' = [http EXCEPT ![r] = [at |-> "ended", frames |-> Append(http[r].frames, "end")]]
    BY <1>3 DEF endOfBody
  <2>2. http[r].frames = <<"body">>
    <3>1. http[r] = [at |-> "sent", frames |-> <<"body">>]
      BY <1>1, <2>1
    <3> QED BY <3>1
  <2>3. Append(http[r].frames, "end") = <<"body", "end">>
    <3>1. Append(<<"body">>, "end") = <<"body", "end">>
      BY SecondIsAppended
    <3> QED BY <2>2, <3>1, Zenon
  <2>4. http' = [http EXCEPT ![r] = [at |-> "ended", frames |-> <<"body", "end">>]]
    BY <2>1, <2>3
  <2>5. [at |-> "ended", frames |-> <<"body", "end">>] \in HttpStates
    BY DEF HttpStates
  <2>6. [at |-> "ended", frames |-> <<"body", "end">>].at = "ended"
    OBVIOUS
  <2>7. /\ http' \in [HttpRequests -> HttpStates] /\ http'[r].at = "ended" /\ r \notin drainedBodies'
        /\ \A k \in HttpRequests : k # r => http'[k] = http[k] /\ (k \in drainedBodies' <=> k \in drainedBodies)
    BY <1>1, <2>1, <2>4, <2>5, <2>6, Zenon
  <2> QED BY <2>1, <2>7 DEF BodyInv
<1> QED BY <1>2, <1>3

\* Every step of a request.
LEMMA HttpKeeps ==
  ASSUME WailsInv, NEW r \in HttpRequests, HttpStep(r)
  PROVE  WailsInv'
<1>1. /\ http \in [HttpRequests -> HttpStates] /\ http[r] \in HttpStates
      /\ registry \subseteq HttpRequests /\ drainedBodies \subseteq HttpRequests
      /\ r \in drainedBodies => http[r] = [at |-> "sent", frames |-> <<"body">>]
      /\ BodyInv /\ BridgeInv /\ runtime \in {"unknown", "loading", "present", "absent"}
  BY DEF WailsInv, BodyInv, BridgeInv, BridgeTypes
<1>2. UNCHANGED eventBridgeVars
  BY DEF HttpStep, Call, ReadBody, CallRejects, RequestRegistered, Sent, FetchReadBody, BodyRead, endOfBody, cancelRequest
<1>3. runtime' = runtime \/ Requested
  BY DEF HttpStep, Call, ReadBody, CallRejects, RequestRegistered, Sent, FetchReadBody, BodyRead, endOfBody, cancelRequest
<1>4. /\ runtime' \in {"unknown", "loading", "present", "absent"}
      /\ runtime \in {"present", "absent"} => runtime' = runtime
  BY <1>1, <1>3 DEF Requested
<1>5. BridgeInv'
  BY <1>1, <1>2, <1>4, BridgeStays
<1>6. http[r].at # "sent" => r \notin drainedBodies
  BY <1>1
<1> SUFFICES BodyInv'
  BY <1>5 DEF WailsInv
<1>7. CASE Call(r, "idle", "registering") \/ Call(r, "registered", "sending") \/ ReadBody(r)
  <2>1. r \notin drainedBodies /\ UNCHANGED <<registry, drainedBodies>> /\ http[r].at \in {"idle", "registered", "sent"}
    BY <1>6, <1>7 DEF Call, ReadBody
  <2>2. HttpGoes(r, "registering") \/ HttpGoes(r, "sending") \/ HttpGoes(r, "reading")
    BY <1>7 DEF Call, ReadBody
  <2> QED BY <1>1, <2>1, <2>2, RequestGoes
<1>8. CASE CallRejects(r) \/ RequestRegistered(r) \/ Sent(r) \/ FetchReadBody(r)
  <2>1. /\ r \notin drainedBodies /\ UNCHANGED drainedBodies /\ http[r].at \in {"registering", "sending", "reading"}
        /\ registry' \subseteq HttpRequests
    BY <1>1, <1>6, <1>8 DEF CallRejects, RequestRegistered, Sent, FetchReadBody
  <2>2. HttpGoes(r, "failed") \/ HttpGoes(r, "registered") \/ HttpGoes(r, "sent") \/ HttpGoes(r, "answered")
    BY <1>8 DEF CallRejects, RequestRegistered, Sent, FetchReadBody
  <2> QED BY <1>1, <2>1, <2>2, RequestGoes
<1>9. CASE BodyRead(r) \/ endOfBody(r)
  BY <1>1, <1>9, FrameIsRead
<1>10. CASE cancelRequest(r)
  <2>1. /\ http[r].at \in {"registered", "sending", "sent", "reading", "answered"}
        /\ drainedBodies' = drainedBodies \ {r} /\ registry' = registry \ {r}
    BY <1>10 DEF cancelRequest
  <2>2. CASE http[r].at \in {"sending", "reading", "answered"}
    <3>1. UNCHANGED <<http, drainedBodies>>
      BY <1>6, <1>10, <2>1, <2>2 DEF cancelRequest
    <3> QED BY <1>1, <2>1, <3>1 DEF BodyInv
  <2>3. CASE http[r].at \notin {"sending", "reading", "answered"}
    <3>1. HttpGoes(r, "failed") /\ registry' \subseteq HttpRequests
      BY <1>1, <1>10, <2>1, <2>3 DEF cancelRequest
    <3> QED BY <1>1, <2>1, <3>1, RequestGoes
  <2> QED BY <2>2, <2>3
<1> QED BY <1>7, <1>8, <1>9, <1>10 DEF HttpStep

WailsSafety == WailsInit /\ [][WailsNext]_wailsVars

\* Every behaviour of the bridge keeps the invariant.
THEOREM WailsInvariance == WailsSafety => []WailsInv
<1>1. WailsInv /\ [WailsNext]_wailsVars => WailsInv'
  <2> SUFFICES ASSUME WailsInv, [WailsNext]_wailsVars PROVE WailsInv'
    OBVIOUS
  <2>1. BridgeInv /\ BodyInv /\ runtime \in {"unknown", "loading", "present", "absent"}
    BY DEF WailsInv, BridgeInv, BridgeTypes
  <2>2. CASE RuntimeLoads
    <3>1. /\ runtime = "loading" /\ runtime' \in {"unknown", "loading", "present", "absent"}
          /\ UNCHANGED eventBridgeVars /\ UNCHANGED <<http, registry, drainedBodies>>
      BY <2>2 DEF RuntimeLoads, httpVars
    <3>2. BodyInv'
      BY <2>1, <3>1 DEF BodyInv
    <3> QED BY <2>1, <3>1, <3>2, BridgeStays DEF WailsInv
  <2>3. ASSUME NEW l \in Listeners,
               subscribeToBackend(l) \/ removeWailsEventListener(l) \/ \E e \in BackendEvents : addWailsEventListener(l, e)
        PROVE  WailsInv'
    <3>1. BodyInv'
      BY <2>1, <2>3 DEF BodyInv, subscribeToBackend, removeWailsEventListener, addWailsEventListener, httpVars
    <3> QED BY <2>1, <2>3, <3>1, ListenerSteps DEF WailsInv
  <2>4. ASSUME NEW e \in BackendEvents, BackendEmits(e) PROVE WailsInv'
    <3>1. BodyInv'
      BY <2>1, <2>4 DEF BodyInv, BackendEmits, httpVars
    <3> QED BY <2>1, <2>4, <3>1, EventIsEmitted DEF WailsInv
  <2>5. ASSUME NEW r \in HttpRequests, HttpStep(r) PROVE WailsInv'
    BY <2>5, HttpKeeps
  <2>6. CASE UNCHANGED wailsVars
    <3>1. UNCHANGED eventBridgeVars /\ UNCHANGED <<runtime, http, registry, drainedBodies>>
      BY <2>6 DEF wailsVars, httpVars
    <3>2. BodyInv'
      BY <2>1, <3>1 DEF BodyInv
    <3> QED BY <2>1, <3>1, <3>2, BridgeStays DEF WailsInv
  <2> QED BY <2>2, <2>3, <2>4, <2>5, <2>6 DEF WailsNext
<1> QED BY <1>1, WailsStarts, PTL DEF WailsSafety

\* What the backend emits reaches whoever listens, once, and a body is one frame and its end.
THEOREM BridgeDelivers == WailsSafety => [](WailsDelivers /\ WailsTypeOK)
<1>1. WailsInv => WailsDelivers
  <2> SUFFICES ASSUME WailsInv PROVE WailsDelivers
    OBVIOUS
  <2>1. \A l \in Listeners : HearsOnce(l)
    BY DEF WailsInv, BridgeInv
  <2>2. \A n \in 1..Len(emitted) : n \in 1..MaxEmissions
    BY WailsAssumption DEF WailsInv, BridgeInv, BridgeTypes
  <2>3. \A r \in HttpRequests : http[r] \in HttpStates /\ (r \in drainedBodies => http[r] = [at |-> "sent", frames |-> <<"body">>])
    BY DEF WailsInv, BodyInv
  <2>4. \A r \in HttpRequests : http[r].frames \in {<<>>, <<"body">>, <<"body", "end">>} /\ (r \in drainedBodies => http[r].at = "sent")
    BY <2>3 DEF HttpStates
  <2> QED BY <2>1, <2>2, <2>4 DEF HearsOnce, WailsDelivers
<1>2. WailsInv => WailsTypeOK
  <2> SUFFICES ASSUME WailsInv PROVE WailsTypeOK
    OBVIOUS
  <2>1. ASSUME NEW l \in Listeners PROVE listen[l].event \in BackendEvents \cup {None} /\ listen[l].since \in 0..MaxEmissions
    <3>1. listen[l] \in ListenStates /\ listen[l].since <= Len(emitted) /\ Len(emitted) <= MaxEmissions /\ Len(emitted) \in Nat
      BY DEF WailsInv, BridgeInv, BridgeTypes, HearsOnce
    <3>2. listen[l].event \in BackendEvents \cup {None} /\ listen[l].since \in Nat
      BY <3>1 DEF ListenStates
    <3> QED BY <3>1, <3>2, WailsAssumption
  <2> QED BY <2>1 DEF WailsInv, BridgeInv, BridgeTypes, BodyInv, WailsTypeOK
<1> QED BY <1>1, <1>2, WailsInvariance, PTL

-----------------------------------------------------------------------------
(* The stream of the log (module LogStream).  What a viewer shows is some  *)
(* place in the journal: so many lines since one of the cuts.  Each        *)
(* message on its way leads from one such place to another, and the last   *)
(* leads to where the stream is.  That breaks only when the stream takes   *)
(* its offset for one in a log that is another by then.                    *)

LogLine == Nat \X Nat
LogEvents == [type : {"snapshot", "lines", "truncated"}, lines : Seq(LogLine)]
StreamStates ==
  [at : {"none", "called", "begun", "tailing", "reading", "ended"}, offset : Nat, length : Nat, stopped : BOOLEAN, cut : Nat]
ViewerStates == [open : BOOLEAN, lines : Seq(LogLine), channel : Seq(LogEvents)]

LogTypes ==
  /\ journal \in Seq(Seq(LogLine)) /\ journal # <<>> /\ logFile = journal[Len(journal)]
  /\ stream \in [Viewers -> StreamStates] /\ viewer \in [Viewers -> ViewerStates]
  /\ current \in Viewers \cup {0} /\ missed \subseteq Viewers

LogPlaces == [cut : Nat, count : Nat]
LinesAt(p) == SubSeq(journal[p.cut], 1, p.count)
InJournal(p) == p.cut \in DOMAIN journal /\ p.count \in 0..Len(journal[p.cut])
StreamAt(v) == [cut |-> stream[v].cut, count |-> stream[v].offset]

\* The places a viewer shows when it has received the messages to it, one after another.
LeadsTo(v, t) ==
  /\ t \in Seq(LogPlaces) /\ Len(t) = Len(viewer[v].channel) + 1
  /\ \A k \in DOMAIN t : InJournal(t[k])
  /\ LinesAt(t[1]) = viewer[v].lines
  /\ \A k \in DOMAIN viewer[v].channel : LinesAt(t[k + 1]) = Received(LinesAt(t[k]), viewer[v].channel[k])
  /\ LinesAt(t[Len(t)]) = LinesAt(StreamAt(v))

FollowsLog(v) == InJournal(StreamAt(v)) /\ \E t : LeadsTo(v, t)
FollowInv == \A v \in Viewers \ missed : FollowsLog(v)

\* Nothing has been sent to a viewer whose stream has not read the log.
QuietInv ==
  \A v \in Viewers :
    /\ stream[v].at \in {"none", "called"} => ~stream[v].stopped /\ v # current
    /\ stream[v].at \in {"none", "called", "begun"} => viewer[v].channel = <<>> /\ viewer[v].lines = <<>>

\* A stream that runs is the one that is registered.
RunsOn(v) == stream[v].at \in {"begun", "tailing", "reading"} /\ ~stream[v].stopped
RegisteredInv == \A v \in Viewers : (RunsOn(v) => v = current) /\ (stream[v].stopped => v # current)

\* Viewers are opened one after another, and each asks for a stop once.
OpenedInv ==
  \E m \in 0..MaxViewers :
    /\ \A v \in Viewers : (stream[v].at # "none" <=> v <= m) /\ (viewer[v].open => v = m)
    /\ stops \in Nat /\ stops <= m /\ ((\E v \in Viewers : viewer[v].open) => stops < m)

LogStreamInv == LogTypes /\ FollowInv /\ QuietInv /\ RegisteredInv /\ OpenedInv

LogStreamSafety == LogStreamInit /\ [][LogStreamNext]_logStreamVars

-----------------------------------------------------------------------------
\* What was in the journal stays where it was.
JournalGrows ==
  \A p \in LogPlaces : InJournal(p) => InJournal(p)' /\ LinesAt(p)' = LinesAt(p)

\* A viewer goes on following the log when neither it nor its stream moves.
LEMMA FollowingStays ==
  ASSUME LogTypes, JournalGrows, NEW v \in Viewers, FollowsLog(v), StreamAt(v)' = StreamAt(v), viewer'[v] = viewer[v]
  PROVE  FollowsLog(v)'
<1>1. StreamAt(v) \in LogPlaces
  BY DEF StreamAt, LogPlaces, LogTypes, StreamStates
<1>2. InJournal(StreamAt(v))' /\ LinesAt(StreamAt(v))' = LinesAt(StreamAt(v))
  <2>1. InJournal(StreamAt(v))
    BY DEF FollowsLog
  <2> QED BY <1>1, <2>1 DEF JournalGrows, InJournal, LinesAt
<1>3. PICK t : LeadsTo(v, t)
  BY DEF FollowsLog
<1>4. \A k \in DOMAIN t : InJournal(t[k])' /\ LinesAt(t[k])' = LinesAt(t[k])
  BY <1>3 DEF LeadsTo, JournalGrows
<1>5. DOMAIN t = 1..Len(t) /\ DOMAIN viewer[v].channel = 1..Len(viewer[v].channel) /\ Len(viewer[v].channel) \in Nat
  BY <1>3 DEF LeadsTo, LogTypes, ViewerStates
<1>6. LeadsTo(v, t)'
  BY <1>2, <1>3, <1>4, <1>5 DEF LeadsTo
<1> QED BY <1>2, <1>6 DEF FollowsLog

\* A viewer goes on when its stream moves between places that look alike.
LEMMA StreamMoves ==
  ASSUME LogTypes, NEW v \in Viewers, FollowsLog(v), UNCHANGED journal, viewer'[v] = viewer[v],
         InJournal(StreamAt(v))', LinesAt(StreamAt(v))' = LinesAt(StreamAt(v))
  PROVE  FollowsLog(v)'
<1>1. PICK t : LeadsTo(v, t)
  BY DEF FollowsLog
<1>2. LeadsTo(v, t)'
  BY <1>1 DEF LeadsTo, InJournal, LinesAt
<1> QED BY <1>2 DEF FollowsLog

\* What the stream sends leads to where it is then.
LEMMA StreamSends ==
  ASSUME LogTypes, NEW v \in Viewers, FollowsLog(v), UNCHANGED journal, NEW e \in LogEvents,
         viewer'[v].lines = viewer[v].lines, viewer'[v].channel = Append(viewer[v].channel, e),
         StreamAt(v)' \in LogPlaces, InJournal(StreamAt(v))',
         LinesAt(StreamAt(v))' = Received(LinesAt(StreamAt(v)), e)
  PROVE  FollowsLog(v)'
<1>1. PICK t : LeadsTo(v, t)
  BY DEF FollowsLog
<1>2. PICK p \in LogPlaces : p = StreamAt(v)'
  OBVIOUS
<1>3. InJournal(p) /\ LinesAt(p) = LinesAt(StreamAt(v))'
  BY <1>2 DEF InJournal, LinesAt
<1>4. PICK channel : channel = viewer[v].channel
  OBVIOUS
<1>5. channel \in Seq(LogEvents) /\ t \in Seq(LogPlaces) /\ Len(t) = Len(channel) + 1 /\ Len(channel) \in Nat
      /\ DOMAIN t = 1..Len(t) /\ DOMAIN channel = 1..Len(channel)
  BY <1>1, <1>4 DEF LeadsTo, LogTypes, ViewerStates
<1>6. PICK u : u = Append(t, p)
  OBVIOUS
<1>7. /\ u \in Seq(LogPlaces) /\ Len(u) = Len(t) + 1 /\ DOMAIN u = 1..(Len(t) + 1)
      /\ \A k \in 1..Len(t) : u[k] = t[k]
      /\ u[Len(t) + 1] = p
  BY <1>5, <1>6
<1>8. /\ Len(Append(channel, e)) = Len(channel) + 1
      /\ DOMAIN Append(channel, e) = 1..(Len(channel) + 1)
      /\ \A k \in 1..Len(channel) : Append(channel, e)[k] = channel[k]
      /\ Append(channel, e)[Len(channel) + 1] = e
  BY <1>5
<1>9. \A q : (LinesAt(q)' = LinesAt(q)) /\ (InJournal(q)' <=> InJournal(q))
  BY DEF LinesAt, InJournal
<1>10. LeadsTo(v, u)'
  <2>1. (u \in Seq(LogPlaces) /\ Len(u) = Len(viewer'[v].channel) + 1)
    BY <1>4, <1>5, <1>7, <1>8
  <2>2. \A k \in DOMAIN u : InJournal(u[k])'
    <3>1. \A k \in DOMAIN t : InJournal(t[k])
      BY <1>1 DEF LeadsTo
    <3>2. \A k \in DOMAIN u : InJournal(u[k])
      BY <1>3, <1>5, <1>7, <3>1
    <3> QED BY <1>9, <3>2
  <2>3. LinesAt(u[1])' = viewer'[v].lines
    <3>1. u[1] = t[1] /\ LinesAt(t[1]) = viewer[v].lines
      BY <1>1, <1>5, <1>7 DEF LeadsTo
    <3> QED BY <1>9, <3>1
  <2>4. \A k \in DOMAIN viewer'[v].channel : LinesAt(u[k + 1])' = Received(LinesAt(u[k])', viewer'[v].channel[k])
    <3>1. ASSUME NEW k \in 1..(Len(channel) + 1)
          PROVE  LinesAt(u[k + 1]) = Received(LinesAt(u[k]), viewer'[v].channel[k])
      <4>1. CASE k = Len(channel) + 1
        <5>1. u[k + 1] = p /\ u[k] = t[Len(t)] /\ viewer'[v].channel[k] = e
          BY <1>4, <1>5, <1>7, <1>8, <4>1
        <5>2. LinesAt(t[Len(t)]) = LinesAt(StreamAt(v))
          BY <1>1 DEF LeadsTo
        <5> QED BY <1>3, <5>1, <5>2
      <4>2. CASE k # Len(channel) + 1
        <5>1. k \in DOMAIN channel /\ k \in 1..Len(t) /\ k + 1 \in 1..Len(t)
          BY <1>5, <4>2
        <5>2. u[k + 1] = t[k + 1] /\ u[k] = t[k] /\ viewer'[v].channel[k] = channel[k]
          BY <1>4, <1>5, <1>7, <1>8, <5>1
        <5>3. LinesAt(t[k + 1]) = Received(LinesAt(t[k]), channel[k])
          BY <1>1, <1>4, <5>1 DEF LeadsTo
        <5> QED BY <5>2, <5>3
      <4> QED BY <4>1, <4>2
    <3>2. DOMAIN viewer'[v].channel = 1..(Len(channel) + 1)
      BY <1>4, <1>8
    <3> QED BY <1>9, <3>1, <3>2
  <2>5. LinesAt(u[Len(u)])' = LinesAt(StreamAt(v))'
    <3>1. u[Len(u)] = p
      BY <1>5, <1>7
    <3> QED BY <1>3, <1>9, <3>1
  <2> QED BY <2>1, <2>2, <2>3, <2>4, <2>5 DEF LeadsTo
<1> QED BY <1>10 DEF FollowsLog

\* A viewer that receives a message is at the next place.
LEMMA ViewerReceives ==
  ASSUME LogTypes, NEW v \in Viewers, OnLogEvent(v), FollowsLog(v)
  PROVE  FollowsLog(v)'
<1>1. PICK t : LeadsTo(v, t)
  BY DEF FollowsLog
<1>2. PICK channel : channel = viewer[v].channel
  OBVIOUS
<1>3. /\ channel # <<>> /\ UNCHANGED <<journal, stream>> /\ viewer[v] \in ViewerStates /\ channel \in Seq(LogEvents)
      /\ viewer'[v].channel = Tail(channel) /\ viewer'[v].lines = Received(viewer[v].lines, Head(channel))
  BY <1>2 DEF OnLogEvent, logVars, streamVars, LogTypes, ViewerStates
<1>4. /\ t \in Seq(LogPlaces) /\ Len(t) = Len(channel) + 1 /\ Len(channel) \in Nat \ {0}
      /\ DOMAIN t = 1..Len(t) /\ DOMAIN channel = 1..Len(channel) /\ Head(channel) = channel[1]
  BY <1>1, <1>2, <1>3 DEF LeadsTo
<1>5. PICK u : u = Tail(t)
  OBVIOUS
<1>6. /\ u \in Seq(LogPlaces) /\ Len(u) = Len(channel) /\ DOMAIN u = 1..Len(channel)
      /\ \A k \in 1..Len(channel) : u[k] = t[k + 1]
  BY <1>4, <1>5
<1>7. /\ Len(Tail(channel)) = Len(channel) - 1 /\ DOMAIN Tail(channel) = 1..(Len(channel) - 1)
      /\ \A k \in 1..(Len(channel) - 1) : Tail(channel)[k] = channel[k + 1]
  BY <1>3, <1>4
<1>8. \A q : (LinesAt(q)' = LinesAt(q)) /\ (InJournal(q)' <=> InJournal(q))
  BY <1>3 DEF LinesAt, InJournal
<1>9. StreamAt(v)' = StreamAt(v)
  BY <1>3 DEF StreamAt
<1>10. /\ \A k \in DOMAIN t : InJournal(t[k])
       /\ LinesAt(t[1]) = viewer[v].lines
       /\ \A k \in DOMAIN channel : LinesAt(t[k + 1]) = Received(LinesAt(t[k]), channel[k])
       /\ LinesAt(t[Len(t)]) = LinesAt(StreamAt(v))
  BY <1>1, <1>2 DEF LeadsTo
<1>11. LeadsTo(v, u)'
  <2>1. u \in Seq(LogPlaces) /\ Len(u) = Len(viewer'[v].channel) + 1
    BY <1>3, <1>4, <1>6, <1>7
  <2>2. \A k \in DOMAIN u : InJournal(u[k])'
    <3>1. \A k \in DOMAIN u : InJournal(u[k])
      BY <1>4, <1>6, <1>10
    <3> QED BY <1>8, <3>1
  <2>3. LinesAt(u[1])' = viewer'[v].lines
    <3>1. u[1] = t[2] /\ LinesAt(t[2]) = Received(viewer[v].lines, Head(channel))
      BY <1>4, <1>6, <1>10
    <3> QED BY <1>3, <1>8, <3>1
  <2>4. \A k \in DOMAIN viewer'[v].channel : LinesAt(u[k + 1])' = Received(LinesAt(u[k])', viewer'[v].channel[k])
    <3>1. ASSUME NEW k \in 1..(Len(channel) - 1)
          PROVE  LinesAt(u[k + 1]) = Received(LinesAt(u[k]), viewer'[v].channel[k])
      <4>1. k + 1 \in DOMAIN channel /\ k + 1 \in 1..Len(channel) /\ k \in 1..Len(channel)
        BY <1>4
      <4>2. u[k + 1] = t[(k + 1) + 1] /\ u[k] = t[k + 1]
        BY <1>6, <4>1
      <4>3. viewer'[v].channel[k] = channel[k + 1]
        BY <1>3, <1>7
      <4> QED BY <1>10, <4>1, <4>2, <4>3
    <3>2. DOMAIN viewer'[v].channel = 1..(Len(channel) - 1)
      BY <1>3, <1>7
    <3> QED BY <1>8, <3>1, <3>2
  <2>5. LinesAt(u[Len(u)])' = LinesAt(StreamAt(v))'
    <3>1. u[Len(u)] = t[Len(t)]
      BY <1>4, <1>6
    <3> QED BY <1>8, <1>9, <1>10, <3>1
  <2> QED BY <2>1, <2>2, <2>3, <2>4, <2>5 DEF LeadsTo
<1>12. InJournal(StreamAt(v))'
  BY <1>8, <1>9 DEF FollowsLog
<1> QED BY <1>11, <1>12 DEF FollowsLog

-----------------------------------------------------------------------------
\* The logger writes, or the log is cut: the streams are as they were, and the journal goes on.
LEMMA JournalGoesOn ==
  ASSUME LogTypes, WriteHalf \/ WriteLog \/ CutLog
  PROVE  LogTypes' /\ JournalGrows
<1>0. UNCHANGED <<stream, current, missed, viewer>>
  BY DEF WriteHalf, WriteLog, CutLog, streamVars
<1>1. PICK last : last = Len(journal)
  OBVIOUS
<1>2. /\ last \in Nat \ {0} /\ last \in DOMAIN journal /\ DOMAIN journal = 1..last
      /\ logFile = journal[last] /\ logFile \in Seq(LogLine) /\ journal \in Seq(Seq(LogLine))
  BY <1>1 DEF LogTypes
<1>3. CASE WriteHalf
  <2>1. UNCHANGED <<journal, logFile>>
    BY <1>3 DEF WriteHalf
  <2> QED BY <1>0, <2>1 DEF LogTypes, JournalGrows, InJournal, LinesAt
<1>4. CASE WriteLog
  <2>1. PICK line : line = NextLine
    OBVIOUS
  <2>2. line \in LogLine
    BY <1>1, <1>2, <2>1 DEF NextLine, LogLine
  <2>3. logFile' = Append(logFile, line) /\ journal' = [journal EXCEPT ![last] = Append(logFile, line)]
    BY <1>1, <1>2, <1>4, <2>1 DEF WriteLog
  <2>4. Append(logFile, line) \in Seq(LogLine) /\ Len(Append(logFile, line)) = Len(logFile) + 1 /\ Len(logFile) \in Nat
    BY <1>2, <2>2
  <2>5. /\ journal' \in Seq(Seq(LogLine)) /\ Len(journal') = last /\ DOMAIN journal' = DOMAIN journal
        /\ journal'[last] = logFile' /\ \A c \in DOMAIN journal : c # last => journal'[c] = journal[c]
    BY <1>1, <1>2, <2>3, <2>4, ExceptSeq
  <2>6. ASSUME NEW p \in LogPlaces, InJournal(p) PROVE InJournal(p)' /\ LinesAt(p)' = LinesAt(p)
    <3>1. CASE p.cut = last
      <4>1. p.count \in 0..Len(logFile) /\ LinesAt(p) = SubSeq(logFile, 1, p.count)
        BY <1>2, <2>6, <3>1 DEF InJournal, LinesAt
      <4>2. SubSeq(Append(logFile, line), 1, p.count) = SubSeq(logFile, 1, p.count)
        BY <1>2, <2>2, <4>1, SubSeqOfAppend
      <4>3. LinesAt(p)' = SubSeq(Append(logFile, line), 1, p.count)
        BY <2>3, <2>5, <3>1 DEF LinesAt
      <4>4. InJournal(p)'
        BY <1>2, <2>3, <2>4, <2>5, <3>1, <4>1 DEF InJournal
      <4> QED BY <4>1, <4>2, <4>3, <4>4
    <3>2. CASE p.cut # last
      BY <2>5, <2>6, <3>2 DEF InJournal, LinesAt
    <3> QED BY <3>1, <3>2
  <2>7. journal' # <<>>
    BY <1>2, <2>5
  <2> QED BY <1>0, <2>5, <2>6, <2>7 DEF LogTypes, JournalGrows
<1>5. CASE CutLog
  <2>1. logFile' = <<>> /\ journal' = Append(journal, <<>>) /\ <<>> \in Seq(LogLine)
    BY <1>5 DEF CutLog
  <2>2. /\ journal' \in Seq(Seq(LogLine)) /\ Len(journal') = last + 1 /\ DOMAIN journal' = 1..(last + 1)
        /\ journal'[last + 1] = <<>> /\ \A c \in DOMAIN journal : journal'[c] = journal[c]
    BY <1>1, <1>2, <2>1
  <2>3. ASSUME NEW p \in LogPlaces, InJournal(p) PROVE InJournal(p)' /\ LinesAt(p)' = LinesAt(p)
    <3>1. p.cut \in DOMAIN journal /\ p.cut \in DOMAIN journal' /\ journal'[p.cut] = journal[p.cut]
      BY <1>2, <2>2, <2>3 DEF InJournal
    <3> QED BY <2>3, <3>1 DEF InJournal, LinesAt
  <2>4. journal' # <<>> /\ logFile' = journal'[Len(journal')]
    BY <1>2, <2>1, <2>2
  <2> QED BY <1>0, <2>2, <2>3, <2>4 DEF LogTypes, JournalGrows
<1> QED BY <1>3, <1>4, <1>5

\* What the logger does.
LEMMA LoggerSteps ==
  ASSUME LogStreamInv, WriteHalf \/ WriteLog \/ CutLog
  PROVE  LogStreamInv'
<1>1. LogTypes /\ FollowInv /\ QuietInv /\ RegisteredInv /\ OpenedInv
  BY DEF LogStreamInv
<1>2. LogTypes' /\ JournalGrows
  BY <1>1, JournalGoesOn
<1>3. UNCHANGED <<stream, current, stops, missed, viewer>>
  BY DEF WriteHalf, WriteLog, CutLog, streamVars
<1>4. ASSUME NEW v \in Viewers \ missed PROVE FollowsLog(v)'
  <2>1. FollowsLog(v) /\ StreamAt(v)' = StreamAt(v) /\ viewer'[v] = viewer[v]
    BY <1>1, <1>3 DEF FollowInv, StreamAt
  <2> QED BY <1>1, <1>2, <2>1, FollowingStays
<1>5. QuietInv' /\ RegisteredInv' /\ OpenedInv'
  BY <1>1, <1>3 DEF QuietInv, RegisteredInv, RunsOn, OpenedInv
<1> QED BY <1>2, <1>3, <1>4, <1>5 DEF LogStreamInv, FollowInv

\* One viewer and its stream move, and the others follow the log as before.
LEMMA OthersFollow ==
  ASSUME LogStreamInv, UNCHANGED journal, NEW v \in Viewers, missed \subseteq missed',
         \A w \in Viewers \ {v} : StreamAt(w)' = StreamAt(w) /\ viewer'[w] = viewer[w],
         v \notin missed' => FollowsLog(v)'
  PROVE  FollowInv'
<1>1. LogTypes /\ FollowInv
  BY DEF LogStreamInv
<1>2. JournalGrows
  BY DEF JournalGrows, InJournal, LinesAt
<1>3. ASSUME NEW w \in Viewers \ missed', w # v PROVE FollowsLog(w)'
  <2>1. FollowsLog(w)
    BY <1>1, <1>3 DEF FollowInv
  <2> QED BY <1>1, <1>2, <1>3, <2>1, FollowingStays
<1> QED BY <1>3 DEF FollowInv

\* The place of a whole log, and of its beginning.
LEMMA EndOfLog ==
  ASSUME LogTypes
  PROVE  /\ Len(journal) \in Nat \ {0} /\ Len(journal) \in DOMAIN journal /\ logFile \in Seq(LogLine) /\ Len(logFile) \in Nat
         /\ logFile = journal[Len(journal)]
         /\ \A n \in 0..Len(logFile) :
              /\ [cut |-> Len(journal), count |-> n] \in LogPlaces /\ InJournal([cut |-> Len(journal), count |-> n])
              /\ LinesAt([cut |-> Len(journal), count |-> n]) = SubSeq(logFile, 1, n)
         /\ SubSeq(logFile, 1, 0) = <<>> /\ SubSeq(logFile, 1, Len(logFile)) = logFile
<1>1. /\ Len(journal) \in Nat \ {0} /\ Len(journal) \in DOMAIN journal /\ logFile \in Seq(LogLine) /\ Len(logFile) \in Nat
      /\ logFile = journal[Len(journal)]
  BY DEF LogTypes
<1>2. SubSeq(logFile, 1, 0) = <<>> /\ SubSeq(logFile, 1, Len(logFile)) = logFile
  BY <1>1, SubSeqFull, SubSeqEmpty
<1>3. \A n \in 0..Len(logFile) :
        /\ [cut |-> Len(journal), count |-> n] \in LogPlaces /\ InJournal([cut |-> Len(journal), count |-> n])
        /\ LinesAt([cut |-> Len(journal), count |-> n]) = SubSeq(logFile, 1, n)
  BY <1>1 DEF LogPlaces, InJournal, LinesAt
<1> QED BY <1>1, <1>2, <1>3

\* A stream is registered: it runs, and the one before is stopped.
LEMMA RegisteredIsOne ==
  ASSUME LogTypes, QuietInv, RegisteredInv, NEW v \in Viewers, stream[v].at = "called",
         NEW at \in {"begun", "tailing"}, NEW offset \in Nat, StreamRegistered(v, at, offset)
  PROVE  /\ stream' \in [Viewers -> StreamStates] /\ current' = v /\ RegisteredInv'
         /\ stream'[v].at = at /\ StreamAt(v)' = [cut |-> Len(journal), count |-> offset]
         /\ \A w \in Viewers \ {v} : StreamAt(w)' = StreamAt(w) /\ stream'[w].at = stream[w].at
         /\ \A w \in Viewers : stream[w].at \in {"none", "called"} /\ w # v => ~stream'[w].stopped
<1>1. PICK cut : cut = Len(journal)
  OBVIOUS
<1>2. cut \in Nat /\ stream[v] \in StreamStates /\ ~stream[v].stopped
  BY <1>1 DEF LogTypes, QuietInv
<1>3. current' = v /\ DOMAIN stream' = Viewers
  BY DEF StreamRegistered
<1>4. PICK new : new = [stream[v] EXCEPT !.at = at, !.offset = offset, !.cut = cut]
  OBVIOUS
<1>5. new \in StreamStates /\ new.at = at /\ new.offset = offset /\ new.cut = cut /\ ~new.stopped
  BY <1>2, <1>4 DEF StreamStates
<1>6. stream'[v] = new
  BY <1>1, <1>4 DEF StreamRegistered
<1>7. ASSUME NEW w \in Viewers, w # v
      PROVE  /\ stream'[w] \in StreamStates /\ stream'[w].at = stream[w].at
             /\ stream'[w].offset = stream[w].offset /\ stream'[w].cut = stream[w].cut
             /\ stream'[w].stopped = (stream[w].stopped \/ w = current)
  <2>1. stream'[w] = IF w = current THEN [stream[w] EXCEPT !.stopped = TRUE] ELSE stream[w]
    BY <1>7 DEF StreamRegistered
  <2>2. stream[w] \in StreamStates
    BY DEF LogTypes
  <2>3. CASE w = current
    BY <2>1, <2>2, <2>3 DEF StreamStates
  <2>4. CASE w # current
    <3>1. stream'[w] = stream[w] /\ stream[w].stopped \in BOOLEAN
      BY <2>1, <2>2, <2>4 DEF StreamStates
    <3> QED BY <2>2, <2>4, <3>1
  <2> QED BY <2>3, <2>4
<1>8. stream' \in [Viewers -> StreamStates]
  <2>1. \A w \in Viewers : stream'[w] \in StreamStates
    BY <1>5, <1>6, <1>7
  <2>2. stream' = [w \in Viewers |-> stream'[w]]
    BY <1>3 DEF StreamRegistered
  <2> QED BY <2>1, <2>2
<1>9. RegisteredInv'
  BY <1>3, <1>5, <1>6, <1>7 DEF RegisteredInv, RunsOn
<1>10. StreamAt(v)' = [cut |-> Len(journal), count |-> offset]
  BY <1>1, <1>5, <1>6 DEF StreamAt
<1>11. \A w \in Viewers \ {v} : StreamAt(w)' = StreamAt(w) /\ stream'[w].at = stream[w].at
  BY <1>7 DEF StreamAt
<1>12. ASSUME NEW w \in Viewers, stream[w].at \in {"none", "called"}, w # v PROVE ~stream'[w].stopped
  <2>1. ~stream[w].stopped /\ w # current
    BY <1>12 DEF QuietInv
  <2> QED BY <1>7, <1>12, <2>1
<1> QED BY <1>3, <1>5, <1>6, <1>8, <1>9, <1>10, <1>11, <1>12

\* A viewer that was sent nothing shows nothing, and so does the place of its stream.
LEMMA QuietShowsNothing ==
  ASSUME LogTypes, NEW v \in Viewers, FollowsLog(v), viewer[v].channel = <<>>, viewer[v].lines = <<>>
  PROVE  LinesAt(StreamAt(v)) = <<>>
<1>1. PICK t : LeadsTo(v, t)
  BY DEF FollowsLog
<1>2. Len(t) = 1
  BY <1>1 DEF LeadsTo
<1> QED BY <1>1, <1>2 DEF LeadsTo

\* Of what is opened, and of the calls that ask for a stop, nothing changes.
LEMMA OpenedStays ==
  ASSUME OpenedInv, stops' = stops,
         \A w \in Viewers : (stream'[w].at # "none" <=> stream[w].at # "none") /\ viewer'[w].open = viewer[w].open
  PROVE  OpenedInv'
BY DEF OpenedInv

\* Messages are added to a channel.
LEMMA MessageIsSent ==
  ASSUME LogTypes, NEW v \in Viewers, NEW type \in {"snapshot", "lines", "truncated"}, NEW lines \in Seq(LogLine),
         Sends(v, type, lines)
  PROVE  \E e \in LogEvents :
           /\ e.type = type /\ e.lines = lines
           /\ viewer' \in [Viewers -> ViewerStates]
           /\ viewer'[v].lines = viewer[v].lines /\ viewer'[v].channel = Append(viewer[v].channel, e)
           /\ \A w \in Viewers : viewer'[w].open = viewer[w].open /\ (w # v => viewer'[w] = viewer[w])
<1>1. PICK e : e = [type |-> type, lines |-> lines]
  OBVIOUS
<1>2. e \in LogEvents /\ e.type = type /\ e.lines = lines
  BY <1>1 DEF LogEvents
<1>3. viewer[v] \in ViewerStates /\ viewer \in [Viewers -> ViewerStates]
  BY DEF LogTypes
<1>4. PICK channel : channel = Append(viewer[v].channel, e)
  OBVIOUS
<1>5. channel \in Seq(LogEvents)
  BY <1>2, <1>3, <1>4 DEF ViewerStates
<1>6. viewer' = [viewer EXCEPT ![v].channel = channel]
  BY <1>1, <1>4 DEF Sends
<1>7. PICK new : new = [viewer[v] EXCEPT !.channel = channel]
  OBVIOUS
<1>8. new \in ViewerStates /\ new.lines = viewer[v].lines /\ new.open = viewer[v].open /\ new.channel = channel
  BY <1>3, <1>5, <1>7 DEF ViewerStates
<1>9. viewer' = [viewer EXCEPT ![v] = new]
  BY <1>6, <1>7
<1> QED BY <1>2, <1>3, <1>4, <1>8, <1>9

\* A stream begins, without anything read yet.
LEMMA StreamBegins ==
  ASSUME LogStreamInv, NEW v \in Viewers, BeginStream(v)
  PROVE  LogStreamInv'
<1>1. LogTypes /\ FollowInv /\ QuietInv /\ RegisteredInv /\ OpenedInv
  BY DEF LogStreamInv
<1>2. /\ stream[v].at = "called" /\ StreamRegistered(v, "begun", 0) /\ UNCHANGED <<journal, logFile, stops, viewer, missed>>
  BY DEF BeginStream, logVars
<1>3. /\ stream' \in [Viewers -> StreamStates] /\ current' = v /\ RegisteredInv'
      /\ stream'[v].at = "begun" /\ StreamAt(v)' = [cut |-> Len(journal), count |-> 0]
      /\ \A w \in Viewers \ {v} : StreamAt(w)' = StreamAt(w) /\ stream'[w].at = stream[w].at
      /\ \A w \in Viewers : stream[w].at \in {"none", "called"} /\ w # v => ~stream'[w].stopped
  BY <1>1, <1>2, RegisteredIsOne
<1>4. LogTypes'
  BY <1>1, <1>2, <1>3 DEF LogTypes
<1>5. viewer[v].channel = <<>> /\ viewer[v].lines = <<>>
  BY <1>1, <1>2 DEF QuietInv
<1>6. PICK p : p = [cut |-> Len(journal), count |-> 0]
  OBVIOUS
<1>7. InJournal(p) /\ LinesAt(p) = <<>>
  BY <1>1, <1>6, EndOfLog
<1>8. \A q : (LinesAt(q)' = LinesAt(q)) /\ (InJournal(q)' <=> InJournal(q))
  BY <1>2 DEF LinesAt, InJournal
<1>9. InJournal(StreamAt(v))' /\ LinesAt(StreamAt(v))' = <<>>
  <2>1. StreamAt(v)' = p
    BY <1>3, <1>6
  <2> QED BY <1>2, <1>7, <2>1 DEF InJournal, LinesAt
<1>10. v \notin missed' => FollowsLog(v)'
  <2> SUFFICES ASSUME v \notin missed PROVE FollowsLog(v)'
    BY <1>2
  <2>1. FollowsLog(v)
    BY <1>1 DEF FollowInv
  <2>2. LinesAt(StreamAt(v)) = <<>>
    BY <1>1, <1>5, <2>1, QuietShowsNothing
  <2> QED BY <1>1, <1>2, <1>9, <2>1, <2>2, StreamMoves
<1>11. FollowInv'
  BY <1>2, <1>3, <1>10, OthersFollow
<1>12. QuietInv'
  BY <1>1, <1>2, <1>3, <1>5 DEF QuietInv
<1>13. OpenedInv'
  BY <1>1, <1>2, <1>3, OpenedStays
<1> QED BY <1>3, <1>4, <1>11, <1>12, <1>13 DEF LogStreamInv

\* A message and a new place for the stream of one viewer, whose stream runs on or ends.
LEMMA StreamGoesOn ==
  ASSUME LogStreamInv, NEW v \in Viewers, UNCHANGED <<journal, logFile, current, stops>>,
         missed \subseteq missed', missed' \subseteq Viewers,
         NEW new \in StreamStates, stream' = [stream EXCEPT ![v] = new],
         stream[v].at \in {"begun", "tailing", "reading"}, new.at \in {"tailing", "reading", "ended"},
         new.stopped = stream[v].stopped,
         NEW type \in {"snapshot", "lines", "truncated"}, NEW lines \in Seq(LogLine), Sends(v, type, lines),
         v \notin missed' =>
           /\ InJournal([cut |-> new.cut, count |-> new.offset])
           /\ LinesAt([cut |-> new.cut, count |-> new.offset])
                = Received(LinesAt(StreamAt(v)), [type |-> type, lines |-> lines])
  PROVE  LogStreamInv'
<1>1. LogTypes /\ FollowInv /\ QuietInv /\ RegisteredInv /\ OpenedInv
  BY DEF LogStreamInv
<1>2. PICK e \in LogEvents :
        /\ e.type = type /\ e.lines = lines
        /\ viewer' \in [Viewers -> ViewerStates]
        /\ viewer'[v].lines = viewer[v].lines /\ viewer'[v].channel = Append(viewer[v].channel, e)
        /\ \A w \in Viewers : viewer'[w].open = viewer[w].open /\ (w # v => viewer'[w] = viewer[w])
  BY <1>1, MessageIsSent
<1>3. stream \in [Viewers -> StreamStates] /\ stream' \in [Viewers -> StreamStates] /\ stream'[v] = new
      /\ \A w \in Viewers \ {v} : stream'[w] = stream[w]
  BY <1>1 DEF LogTypes
<1>4. LogTypes'
  BY <1>1, <1>2, <1>3 DEF LogTypes
<1>5. PICK p : p = [cut |-> new.cut, count |-> new.offset]
  OBVIOUS
<1>6. StreamAt(v)' = p /\ p \in LogPlaces
  BY <1>3, <1>5 DEF StreamAt, StreamStates, LogPlaces
<1>7. e = [type |-> type, lines |-> lines]
  BY <1>2 DEF LogEvents
<1>8. v \notin missed' => FollowsLog(v)'
  <2> SUFFICES ASSUME v \notin missed' PROVE FollowsLog(v)'
    OBVIOUS
  <2>1. FollowsLog(v)
    BY <1>1 DEF FollowInv
  <2>2. InJournal(p) /\ LinesAt(p) = Received(LinesAt(StreamAt(v)), e)
    BY <1>5, <1>7
  <2>3. InJournal(StreamAt(v))' /\ LinesAt(StreamAt(v))' = LinesAt(p)
    BY <1>6, <2>2 DEF InJournal, LinesAt
  <2> QED BY <1>1, <1>2, <1>6, <2>1, <2>2, <2>3, StreamSends
<1>9. \A w \in Viewers \ {v} : StreamAt(w)' = StreamAt(w) /\ viewer'[w] = viewer[w]
  BY <1>2, <1>3 DEF StreamAt
<1>10. FollowInv'
  BY <1>8, <1>9, OthersFollow
<1>11. QuietInv'
  BY <1>1, <1>2, <1>3 DEF QuietInv
<1>12. RegisteredInv'
  BY <1>1, <1>3 DEF RegisteredInv, RunsOn
<1>13. OpenedInv'
  BY <1>1, <1>2, <1>3, OpenedStays
<1> QED BY <1>4, <1>10, <1>11, <1>12, <1>13 DEF LogStreamInv

\* The same without a message: the stream stays where it is.
LEMMA StreamWaits ==
  ASSUME LogStreamInv, NEW v \in Viewers, UNCHANGED <<journal, logFile, current, stops, viewer>>,
         missed \subseteq missed', missed' \subseteq Viewers,
         NEW new \in StreamStates, stream' = [stream EXCEPT ![v] = new],
         stream[v].at \in {"begun", "tailing", "reading"}, new.at \in {"tailing", "reading", "ended"},
         new.stopped = stream[v].stopped, new.cut = stream[v].cut, new.offset = stream[v].offset
  PROVE  LogStreamInv'
<1>1. LogTypes /\ FollowInv /\ QuietInv /\ RegisteredInv /\ OpenedInv
  BY DEF LogStreamInv
<1>2. stream \in [Viewers -> StreamStates] /\ stream' \in [Viewers -> StreamStates] /\ stream'[v] = new
      /\ \A w \in Viewers \ {v} : stream'[w] = stream[w]
  BY <1>1 DEF LogTypes
<1>3. LogTypes'
  BY <1>1, <1>2 DEF LogTypes
<1>4. \A w \in Viewers : StreamAt(w)' = StreamAt(w)
  BY <1>2 DEF StreamAt
<1>5. JournalGrows
  BY DEF JournalGrows, InJournal, LinesAt
<1>6. v \notin missed' => FollowsLog(v)'
  BY <1>1, <1>4, <1>5, FollowingStays DEF FollowInv
<1>7. FollowInv'
  BY <1>4, <1>6, OthersFollow
<1>8. QuietInv' /\ RegisteredInv'
  BY <1>1, <1>2 DEF QuietInv, RegisteredInv, RunsOn
<1>9. OpenedInv'
  BY <1>1, <1>2, OpenedStays
<1> QED BY <1>3, <1>7, <1>8, <1>9 DEF LogStreamInv

\* The snapshot is the log as it is.
LEMMA SnapshotShows ==
  ASSUME LogStreamInv, NEW v \in Viewers, Snapshot(v)
  PROVE  LogStreamInv'
<1>1. LogTypes
  BY DEF LogStreamInv
<1>2. /\ stream[v].at = "begun" /\ Sends(v, "snapshot", logFile) /\ UNCHANGED <<journal, logFile, current, stops, missed>>
  BY DEF Snapshot, logVars
<1>3. PICK cut, length : cut = Len(journal) /\ length = Len(logFile)
  OBVIOUS
<1>4. cut \in Nat /\ length \in Nat /\ logFile \in Seq(LogLine) /\ length \in 0..Len(logFile)
  BY <1>1, <1>3, EndOfLog
<1>5. PICK new : new = [stream[v] EXCEPT !.at = "tailing", !.offset = length, !.cut = cut]
  OBVIOUS
<1>6. stream[v] \in StreamStates
  BY <1>1 DEF LogTypes
<1>7. new \in StreamStates /\ new.at = "tailing" /\ new.offset = length /\ new.cut = cut /\ new.stopped = stream[v].stopped
  BY <1>4, <1>5, <1>6 DEF StreamStates
<1>8. stream' = [stream EXCEPT ![v] = new]
  BY <1>3, <1>5 DEF Snapshot
<1>9. InJournal([cut |-> new.cut, count |-> new.offset]) /\ LinesAt([cut |-> new.cut, count |-> new.offset]) = logFile
  BY <1>1, <1>3, <1>4, <1>7, EndOfLog
<1>10. logFile = Received(LinesAt(StreamAt(v)), [type |-> "snapshot", lines |-> logFile])
  BY DEF Received
<1>11. missed' = missed /\ missed \subseteq Viewers
  BY <1>1, <1>2 DEF LogTypes
<1> QED BY <1>2, <1>4, <1>7, <1>8, <1>9, <1>10, <1>11, StreamGoesOn

\* A stream in the preview is registered and has its snapshot at once.
LEMMA StreamInBrowser ==
  ASSUME LogStreamInv, NEW v \in Viewers, streamBrowserLogs(v)
  PROVE  LogStreamInv'
<1>1. LogTypes /\ FollowInv /\ QuietInv /\ RegisteredInv /\ OpenedInv
  BY DEF LogStreamInv
<1>2. PICK length : length = Len(logFile)
  OBVIOUS
<1>3. /\ stream[v].at = "called" /\ StreamRegistered(v, "tailing", length) /\ Sends(v, "snapshot", logFile)
      /\ UNCHANGED <<journal, logFile, stops, missed>>
  BY <1>2 DEF streamBrowserLogs, logVars
<1>4. length \in Nat /\ logFile \in Seq(LogLine) /\ length \in 0..Len(logFile)
  BY <1>1, <1>2, EndOfLog
<1>5. /\ stream' \in [Viewers -> StreamStates] /\ current' = v /\ RegisteredInv'
      /\ stream'[v].at = "tailing" /\ StreamAt(v)' = [cut |-> Len(journal), count |-> length]
      /\ \A w \in Viewers \ {v} : StreamAt(w)' = StreamAt(w) /\ stream'[w].at = stream[w].at
      /\ \A w \in Viewers : stream[w].at \in {"none", "called"} /\ w # v => ~stream'[w].stopped
  BY <1>1, <1>3, <1>4, RegisteredIsOne
<1>6. PICK e \in LogEvents :
        /\ e.type = "snapshot" /\ e.lines = logFile
        /\ viewer' \in [Viewers -> ViewerStates]
        /\ viewer'[v].lines = viewer[v].lines /\ viewer'[v].channel = Append(viewer[v].channel, e)
        /\ \A w \in Viewers : viewer'[w].open = viewer[w].open /\ (w # v => viewer'[w] = viewer[w])
  BY <1>1, <1>3, <1>4, MessageIsSent
<1>7. LogTypes'
  BY <1>1, <1>3, <1>5, <1>6 DEF LogTypes
<1>8. PICK p : p = [cut |-> Len(journal), count |-> length]
  OBVIOUS
<1>9. p \in LogPlaces /\ InJournal(p) /\ LinesAt(p) = logFile
  BY <1>1, <1>2, <1>4, <1>8, EndOfLog
<1>10. StreamAt(v)' = p
  BY <1>5, <1>8
<1>11. InJournal(StreamAt(v))' /\ LinesAt(StreamAt(v))' = logFile
  BY <1>3, <1>9, <1>10 DEF InJournal, LinesAt
<1>12. Received(LinesAt(StreamAt(v)), e) = logFile
  BY <1>6 DEF Received
<1>13. v \notin missed' => FollowsLog(v)'
  BY <1>1, <1>3, <1>6, <1>9, <1>10, <1>11, <1>12, StreamSends DEF FollowInv
<1>14. FollowInv'
  BY <1>3, <1>5, <1>6, <1>13, OthersFollow
<1>15. QuietInv'
  BY <1>1, <1>3, <1>5, <1>6 DEF QuietInv
<1>16. OpenedInv'
  BY <1>1, <1>3, <1>5, <1>6, OpenedStays
<1> QED BY <1>5, <1>7, <1>14, <1>15, <1>16 DEF LogStreamInv

\* What is read from a log that is the same, or from the beginning of another, goes on where the stream was.
LEMMA ReadGoesOn ==
  ASSUME LogTypes, NEW v \in Viewers, InJournal(StreamAt(v)), Len(logFile) >= stream[v].offset,
         v \notin Unnoticed(v)
  PROVE  /\ InJournal([cut |-> Follows(v), count |-> Len(logFile)])
         /\ LinesAt([cut |-> Follows(v), count |-> Len(logFile)]) = logFile
         /\ LinesAt(StreamAt(v)) \o Unread(v) = logFile
<1>1. /\ Len(journal) \in Nat \ {0} /\ Len(journal) \in DOMAIN journal /\ logFile \in Seq(LogLine) /\ Len(logFile) \in Nat
      /\ logFile = journal[Len(journal)] /\ SubSeq(logFile, 1, 0) = <<>> /\ SubSeq(logFile, 1, Len(logFile)) = logFile
  BY EndOfLog
<1>2. stream[v].offset \in 0..Len(logFile) /\ stream[v].offset \in Nat
  BY <1>1 DEF LogTypes, StreamStates
<1>3. SubSeq(logFile, 1, stream[v].offset) \o Unread(v) = logFile
  <2>1. PICK offset \in 0..Len(logFile) : offset = stream[v].offset
    BY <1>2
  <2>2. logFile \in Seq(LogLine)
    BY <1>1
  <2>3. SubSeq(logFile, 1, offset) \o SubSeq(logFile, offset + 1, Len(logFile)) = logFile
    BY <2>2, SubSeqBegins
  <2> QED BY <2>1, <2>3 DEF Unread
<1>4. Follows(v) = Len(journal)
  BY <1>2 DEF Unnoticed, Follows
<1>5. /\ InJournal([cut |-> Len(journal), count |-> Len(logFile)])
      /\ LinesAt([cut |-> Len(journal), count |-> Len(logFile)]) = logFile
  BY <1>1, EndOfLog
<1>6. LinesAt(StreamAt(v)) = SubSeq(logFile, 1, stream[v].offset)
  <2>1. CASE stream[v].offset = 0
    <3>1. StreamAt(v).count = 0 /\ StreamAt(v).cut \in DOMAIN journal
      BY <2>1 DEF StreamAt, InJournal
    <3>2. SubSeq(journal[StreamAt(v).cut], 1, 0) = <<>>
      BY SubSeqEmpty
    <3> QED BY <1>1, <2>1, <3>1, <3>2 DEF LinesAt
  <2>2. CASE stream[v].offset # 0
    <3>1. stream[v].cut = Len(journal)
      BY <1>2, <2>2 DEF Unnoticed
    <3> QED BY <1>1, <3>1 DEF LinesAt, StreamAt
  <2> QED BY <2>1, <2>2
<1> QED BY <1>3, <1>4, <1>5, <1>6

\* A log that is too short is read from its beginning.
LEMMA TruncationShows ==
  ASSUME LogStreamInv, NEW v \in Viewers, UNCHANGED <<journal, logFile, current, stops>>,
         missed \subseteq missed', missed' \subseteq Viewers, stream[v].at = "tailing",
         stream' = [stream EXCEPT ![v] = [@ EXCEPT !.offset = 0, !.cut = Len(journal)]],
         Sends(v, "truncated", <<>>)
  PROVE  LogStreamInv'
<1>1. LogTypes
  BY DEF LogStreamInv
<1>2. PICK cut : cut = Len(journal)
  OBVIOUS
<1>3. cut \in Nat /\ InJournal([cut |-> cut, count |-> 0]) /\ LinesAt([cut |-> cut, count |-> 0]) = <<>> /\ <<>> \in Seq(LogLine)
  BY <1>1, <1>2, EndOfLog
<1>4. PICK new : new = [stream[v] EXCEPT !.offset = 0, !.cut = cut]
  OBVIOUS
<1>5. stream[v] \in StreamStates
  BY <1>1 DEF LogTypes
<1>6. new \in StreamStates /\ new.at = "tailing" /\ new.offset = 0 /\ new.cut = cut /\ new.stopped = stream[v].stopped
  BY <1>3, <1>4, <1>5 DEF StreamStates
<1>7. stream' = [stream EXCEPT ![v] = new]
  BY <1>2, <1>4
<1>8. <<>> = Received(LinesAt(StreamAt(v)), [type |-> "truncated", lines |-> <<>>])
  BY DEF Received
<1> QED BY <1>3, <1>6, <1>7, <1>8, StreamGoesOn

\* New lines are sent, and the stream is behind them.
LEMMA LinesShow ==
  ASSUME LogStreamInv, NEW v \in Viewers, UNCHANGED <<journal, logFile, current, stops>>, missed' = Unnoticed(v),
         stream[v].at \in {"tailing", "reading"}, Len(logFile) >= stream[v].offset,
         NEW new \in StreamStates, stream' = [stream EXCEPT ![v] = new], new.at = "tailing",
         new.stopped = stream[v].stopped, new.offset = Len(logFile), new.cut = Follows(v),
         Sends(v, "lines", Unread(v))
  PROVE  LogStreamInv'
<1>1. LogTypes /\ FollowInv
  BY DEF LogStreamInv
<1>2. missed \subseteq missed' /\ missed' \subseteq Viewers
  BY <1>1 DEF Unnoticed, LogTypes
<1>3. Unread(v) \in Seq(LogLine)
  <2>1. logFile \in Seq(LogLine) /\ stream[v].offset \in 0..Len(logFile)
    BY <1>1, EndOfLog DEF LogTypes, StreamStates
  <2> QED BY <2>1, SubSeqBegins DEF Unread
<1>4. ASSUME v \notin missed'
      PROVE  /\ InJournal([cut |-> new.cut, count |-> new.offset])
             /\ LinesAt([cut |-> new.cut, count |-> new.offset])
                  = Received(LinesAt(StreamAt(v)), [type |-> "lines", lines |-> Unread(v)])
  <2>1. InJournal(StreamAt(v))
    BY <1>1, <1>2, <1>4 DEF FollowInv, FollowsLog
  <2>2. /\ InJournal([cut |-> Follows(v), count |-> Len(logFile)])
        /\ LinesAt([cut |-> Follows(v), count |-> Len(logFile)]) = logFile
        /\ LinesAt(StreamAt(v)) \o Unread(v) = logFile
    BY <1>1, <1>4, <2>1, ReadGoesOn
  <2>3. Received(LinesAt(StreamAt(v)), [type |-> "lines", lines |-> Unread(v)]) = LinesAt(StreamAt(v)) \o Unread(v)
    BY DEF Received
  <2> QED BY <2>2, <2>3
<1> QED BY <1>2, <1>3, <1>4, StreamGoesOn

\* A tick on the desktop.
LEMMA TickSteps ==
  ASSUME LogStreamInv, NEW v \in Viewers, Tick(v)
  PROVE  LogStreamInv'
<1>1. LogTypes
  BY DEF LogStreamInv
<1>2. /\ stream[v].at = "tailing" /\ missed' = Unnoticed(v) /\ UNCHANGED <<journal, logFile, current, stops>>
  BY DEF Tick, logVars
<1>3. missed \subseteq missed' /\ missed' \subseteq Viewers
  BY <1>1, <1>2 DEF Unnoticed, LogTypes
<1>4. stream[v] \in StreamStates /\ Len(logFile) \in Nat
  BY <1>1, EndOfLog DEF LogTypes
<1>5. CASE stream[v].stopped
  <2>1. PICK new : new = [stream[v] EXCEPT !.at = "ended"]
    OBVIOUS
  <2>2. /\ new \in StreamStates /\ new.at = "ended" /\ new.stopped = stream[v].stopped
        /\ new.cut = stream[v].cut /\ new.offset = stream[v].offset
    BY <1>4, <2>1 DEF StreamStates
  <2>3. stream' = [stream EXCEPT ![v] = new] /\ UNCHANGED viewer
    BY <1>5, <2>1 DEF Tick
  <2> QED BY <1>2, <1>3, <2>2, <2>3, StreamWaits
<1>6. CASE ~stream[v].stopped /\ Len(logFile) < stream[v].offset
  <2>1. stream' = [stream EXCEPT ![v] = [@ EXCEPT !.offset = 0, !.cut = Len(journal)]] /\ Sends(v, "truncated", <<>>)
    BY <1>6 DEF Tick
  <2> QED BY <1>2, <1>3, <2>1, TruncationShows
<1>7. CASE ~stream[v].stopped /\ ~(Len(logFile) < stream[v].offset)
  <2>1. UNCHANGED viewer
    BY <1>7 DEF Tick
  <2>2. CASE Len(logFile) = stream[v].offset /\ ~partial
    <3>1. stream' = [stream EXCEPT ![v] = stream[v]]
      BY <1>7, <2>2 DEF Tick
    <3> QED BY <1>2, <1>3, <1>4, <2>1, <3>1, StreamWaits
  <2>3. CASE ~(Len(logFile) = stream[v].offset /\ ~partial)
    <3>1. PICK length : length = Len(logFile)
      OBVIOUS
    <3>2. PICK new : new = [stream[v] EXCEPT !.at = "reading", !.length = length]
      OBVIOUS
    <3>3. /\ new \in StreamStates /\ new.at = "reading" /\ new.stopped = stream[v].stopped
          /\ new.cut = stream[v].cut /\ new.offset = stream[v].offset
      BY <1>4, <3>1, <3>2 DEF StreamStates
    <3>4. stream' = [stream EXCEPT ![v] = new]
      BY <1>7, <2>3, <3>1, <3>2 DEF Tick
    <3> QED BY <1>2, <1>3, <2>1, <3>3, <3>4, StreamWaits
  <2> QED BY <2>2, <2>3
<1> QED BY <1>5, <1>6, <1>7

\* Whatever has become of the log, lines are read behind the offset only when there are any.
LEMMA UnreadIsBehind ==
  ASSUME LogTypes, NEW v \in Viewers, Unread(v) # <<>>
  PROVE  Len(logFile) >= stream[v].offset
<1>1. Len(logFile) \in Nat /\ stream[v].offset \in Nat
  BY EndOfLog DEF LogTypes, StreamStates
<1>2. ASSUME Len(logFile) < stream[v].offset PROVE FALSE
  <2>1. stream[v].offset + 1 \in Int /\ Len(logFile) \in Int /\ Len(logFile) < stream[v].offset + 1
    BY <1>1, <1>2
  <2> QED BY <2>1, SubSeqEmpty DEF Unread
<1> QED BY <1>1, <1>2

\* A read of the log.
LEMMA ReadSteps ==
  ASSUME LogStreamInv, NEW v \in Viewers, ReadTail(v)
  PROVE  LogStreamInv'
<1>1. LogTypes
  BY DEF LogStreamInv
<1>2. /\ stream[v].at = "reading" /\ missed' = Unnoticed(v) /\ UNCHANGED <<journal, logFile, current, stops>>
  BY DEF ReadTail, logVars
<1>3. missed \subseteq missed' /\ missed' \subseteq Viewers
  BY <1>1, <1>2 DEF Unnoticed, LogTypes
<1>4. stream[v] \in StreamStates /\ Len(logFile) \in Nat /\ Len(journal) \in Nat
  BY <1>1, EndOfLog DEF LogTypes
<1>5. CASE Unread(v) = <<>>
  <2>1. PICK new : new = [stream[v] EXCEPT !.at = "tailing", !.length = 0]
    OBVIOUS
  <2>2. /\ new \in StreamStates /\ new.at = "tailing" /\ new.stopped = stream[v].stopped
        /\ new.cut = stream[v].cut /\ new.offset = stream[v].offset
    BY <1>4, <2>1 DEF StreamStates
  <2>3. stream' = [stream EXCEPT ![v] = new] /\ UNCHANGED viewer
    BY <1>5, <2>1 DEF ReadTail
  <2> QED BY <1>2, <1>3, <2>2, <2>3, StreamWaits
<1>6. CASE Unread(v) # <<>>
  <2>1. PICK offset, cut : offset = NextOffset(v) /\ cut = Follows(v)
    OBVIOUS
  <2>2. offset = Len(logFile) /\ offset \in Nat /\ cut \in Nat
    BY <1>4, <2>1 DEF NextOffset, Follows, StreamStates
  <2>3. PICK new : new = [stream[v] EXCEPT !.at = "tailing", !.length = 0, !.offset = offset, !.cut = cut]
    OBVIOUS
  <2>4. /\ new \in StreamStates /\ new.at = "tailing" /\ new.stopped = stream[v].stopped
        /\ new.cut = Follows(v) /\ new.offset = Len(logFile)
    BY <1>4, <2>1, <2>2, <2>3 DEF StreamStates
  <2>5. stream' = [stream EXCEPT ![v] = new] /\ Sends(v, "lines", Unread(v))
    BY <1>6, <2>1, <2>3 DEF ReadTail
  <2>6. Len(logFile) >= stream[v].offset
    BY <1>1, <1>6, UnreadIsBehind
  <2> QED BY <1>2, <2>4, <2>5, <2>6, LinesShow
<1> QED BY <1>5, <1>6

\* A tick in the preview.
LEMMA BrowserTickSteps ==
  ASSUME LogStreamInv, NEW v \in Viewers, TickInBrowser(v)
  PROVE  LogStreamInv'
<1>1. LogTypes
  BY DEF LogStreamInv
<1>2. /\ stream[v].at = "tailing" /\ missed' = Unnoticed(v) /\ UNCHANGED <<journal, logFile, current, stops>>
  BY DEF TickInBrowser, logVars
<1>3. missed \subseteq missed' /\ missed' \subseteq Viewers
  BY <1>1, <1>2 DEF Unnoticed, LogTypes
<1>4. stream[v] \in StreamStates /\ Len(logFile) \in Nat /\ Len(journal) \in Nat /\ stream[v].offset \in Nat
  BY <1>1, EndOfLog DEF LogTypes, StreamStates
<1>5. CASE Len(logFile) < stream[v].offset
  <2>1. PICK cut : cut = Len(journal)
    OBVIOUS
  <2>2. stream' = [stream EXCEPT ![v].offset = 0, ![v].cut = cut] /\ Sends(v, "truncated", <<>>)
    BY <1>5, <2>1 DEF TickInBrowser
  <2>3. stream' = [stream EXCEPT ![v] = [@ EXCEPT !.offset = 0, !.cut = cut]]
    BY <1>1, <2>2 DEF LogTypes
  <2> QED BY <1>2, <1>3, <2>1, <2>2, <2>3, TruncationShows
<1>6. CASE ~(Len(logFile) < stream[v].offset)
  <2>1. PICK offset, cut : offset = Len(logFile) /\ cut = Follows(v)
    OBVIOUS
  <2>2. offset \in Nat /\ cut \in Nat
    BY <1>4, <2>1 DEF Follows, StreamStates
  <2>3. PICK new : new = [stream[v] EXCEPT !.offset = offset, !.cut = cut]
    OBVIOUS
  <2>4. /\ new \in StreamStates /\ new.at = "tailing" /\ new.stopped = stream[v].stopped
        /\ new.cut = Follows(v) /\ new.offset = Len(logFile)
    BY <1>2, <1>4, <2>1, <2>2, <2>3 DEF StreamStates
  <2>5. stream' = [stream EXCEPT ![v].offset = offset, ![v].cut = cut] /\ Sends(v, "lines", Unread(v))
    BY <1>6, <2>1 DEF TickInBrowser
  <2>6. stream' = [stream EXCEPT ![v] = new]
    BY <1>1, <2>3, <2>5 DEF LogTypes
  <2>7. Len(logFile) >= stream[v].offset
    BY <1>4, <1>6
  <2> QED BY <1>2, <2>4, <2>5, <2>6, <2>7, LinesShow
<1> QED BY <1>5, <1>6

\* A stop is handled.
LEMMA StopSteps ==
  ASSUME LogStreamInv, stop_log_stream
  PROVE  LogStreamInv'
<1>1. LogTypes /\ FollowInv /\ QuietInv /\ RegisteredInv /\ OpenedInv
  BY DEF LogStreamInv
<1>2. /\ stops > 0 /\ stops' = stops - 1 /\ current' = 0 /\ UNCHANGED <<journal, logFile, viewer, missed>>
  BY DEF stop_log_stream, logVars
<1>3. ASSUME NEW w \in Viewers
      PROVE  /\ stream'[w] \in StreamStates /\ stream'[w].at = stream[w].at /\ StreamAt(w)' = StreamAt(w)
             /\ stream'[w].stopped = (stream[w].stopped \/ w = current)
  <2>1. stream'[w] = IF w = current THEN [stream[w] EXCEPT !.stopped = TRUE] ELSE stream[w]
    BY DEF stop_log_stream
  <2>2. stream[w] \in StreamStates
    BY <1>1 DEF LogTypes
  <2>3. CASE w = current
    BY <2>1, <2>2, <2>3 DEF StreamStates, StreamAt
  <2>4. CASE w # current
    <3>1. stream'[w] = stream[w] /\ stream[w].stopped \in BOOLEAN
      BY <2>1, <2>2, <2>4 DEF StreamStates
    <3> QED BY <2>2, <2>4, <3>1 DEF StreamAt
  <2> QED BY <2>3, <2>4
<1>4. stream' \in [Viewers -> StreamStates]
  <2>1. stream' = [w \in Viewers |-> stream'[w]]
    BY DEF stop_log_stream
  <2> QED BY <1>3, <2>1
<1>5. LogTypes'
  BY <1>1, <1>2, <1>4 DEF LogTypes
<1>6. JournalGrows
  BY <1>2 DEF JournalGrows, InJournal, LinesAt
<1>7. ASSUME NEW w \in Viewers \ missed PROVE FollowsLog(w)'
  <2>1. FollowsLog(w) /\ StreamAt(w)' = StreamAt(w) /\ viewer'[w] = viewer[w]
    BY <1>1, <1>2, <1>3 DEF FollowInv
  <2> QED BY <1>1, <1>6, <2>1, FollowingStays
<1>8. FollowInv'
  BY <1>2, <1>7 DEF FollowInv
<1>9. QuietInv'
  <2>1. 0 \notin Viewers
    BY DEF Viewers
  <2> QED BY <1>1, <1>2, <1>3, <2>1 DEF QuietInv
<1>10. RegisteredInv'
  <2>1. 0 \notin Viewers
    BY DEF Viewers
  <2> QED BY <1>1, <1>2, <1>3, <2>1 DEF RegisteredInv, RunsOn
<1>11. OpenedInv'
  <2>1. PICK m \in 0..MaxViewers :
          /\ \A w \in Viewers : (stream[w].at # "none" <=> w <= m) /\ (viewer[w].open => w = m)
          /\ stops \in Nat /\ stops <= m /\ ((\E w \in Viewers : viewer[w].open) => stops < m)
    BY <1>1 DEF OpenedInv
  <2>2. \A w \in Viewers : (stream'[w].at # "none" <=> w <= m) /\ (viewer'[w].open => w = m)
    BY <1>2, <1>3, <2>1
  <2>3. stops' \in Nat /\ stops' <= m /\ stops' < m
    BY <1>2, <2>1
  <2> QED BY <2>2, <2>3 DEF OpenedInv
<1> QED BY <1>5, <1>8, <1>9, <1>10, <1>11 DEF LogStreamInv

\* The viewer is opened, after all that were there before have been closed.
LEMMA MountSteps ==
  ASSUME LogStreamInv, NEW v \in Viewers, MountViewer(v)
  PROVE  LogStreamInv'
<1>1. LogTypes /\ FollowInv /\ QuietInv /\ RegisteredInv /\ OpenedInv
  BY DEF LogStreamInv
<1>2. /\ stream[v].at = "none" /\ UNCHANGED <<journal, logFile, current, stops, missed>>
      /\ \A k \in 1..(v - 1) : stream[k].at # "none" /\ ~viewer[k].open
  BY DEF MountViewer, logVars
<1>3. stream[v] \in StreamStates /\ viewer[v] \in ViewerStates
  BY <1>1 DEF LogTypes
<1>4. PICK called : called = [stream[v] EXCEPT !.at = "called"]
  OBVIOUS
<1>5. PICK opened : opened = [viewer[v] EXCEPT !.open = TRUE]
  OBVIOUS
<1>6. /\ called \in StreamStates /\ called.at = "called" /\ called.stopped = stream[v].stopped
      /\ called.offset = stream[v].offset /\ called.cut = stream[v].cut
  BY <1>3, <1>4 DEF StreamStates
<1>7. opened \in ViewerStates /\ opened.open /\ opened.lines = viewer[v].lines /\ opened.channel = viewer[v].channel
  BY <1>3, <1>5 DEF ViewerStates
<1>8. stream' = [stream EXCEPT ![v] = called] /\ viewer' = [viewer EXCEPT ![v] = opened]
  BY <1>4, <1>5 DEF MountViewer
<1>9. /\ stream \in [Viewers -> StreamStates] /\ stream' \in [Viewers -> StreamStates] /\ stream'[v] = called
      /\ \A w \in Viewers \ {v} : stream'[w] = stream[w]
      /\ viewer \in [Viewers -> ViewerStates] /\ viewer' \in [Viewers -> ViewerStates] /\ viewer'[v] = opened
      /\ \A w \in Viewers \ {v} : viewer'[w] = viewer[w]
  BY <1>1, <1>6, <1>7, <1>8 DEF LogTypes
<1>10. LogTypes'
  BY <1>1, <1>2, <1>9 DEF LogTypes
<1>11. \A w \in Viewers : StreamAt(w)' = StreamAt(w)
  BY <1>6, <1>9 DEF StreamAt
<1>12. v \notin missed' => FollowsLog(v)'
  <2> SUFFICES ASSUME v \notin missed PROVE FollowsLog(v)'
    BY <1>2
  <2>1. PICK t : LeadsTo(v, t)
    BY <1>1 DEF FollowInv, FollowsLog
  <2>2. LeadsTo(v, t)'
    BY <1>2, <1>7, <1>9, <1>11, <2>1 DEF LeadsTo, InJournal, LinesAt
  <2>3. InJournal(StreamAt(v))
    BY <1>1 DEF FollowInv, FollowsLog
  <2>4. InJournal(StreamAt(v))'
    BY <1>2, <1>11, <2>3 DEF InJournal
  <2> QED BY <2>2, <2>4 DEF FollowsLog
<1>13. FollowInv'
  BY <1>2, <1>9, <1>11, <1>12, OthersFollow
<1>14. QuietInv' /\ RegisteredInv'
  BY <1>1, <1>2, <1>6, <1>7, <1>9 DEF QuietInv, RegisteredInv, RunsOn
<1>15. OpenedInv'
  <2>1. PICK m \in 0..MaxViewers :
          /\ \A w \in Viewers : (stream[w].at # "none" <=> w <= m) /\ (viewer[w].open => w = m)
          /\ stops \in Nat /\ stops <= m /\ ((\E w \in Viewers : viewer[w].open) => stops < m)
    BY <1>1 DEF OpenedInv
  <2>2. v \in 1..MaxViewers /\ MaxViewers \in Nat
    BY LogStreamAssumption DEF Viewers
  <2>3. v = m + 1
    <3>1. v > m
      BY <1>2, <2>1, <2>2
    <3>2. CASE v - 1 \in 1..(v - 1)
      <4>1. v - 1 \in Viewers /\ stream[v - 1].at # "none"
        BY <1>2, <2>2, <3>2 DEF Viewers
      <4>2. v - 1 <= m
        BY <2>1, <4>1
      <4> QED BY <2>1, <2>2, <3>1, <4>2
    <3>3. CASE v - 1 \notin 1..(v - 1)
      BY <2>1, <2>2, <3>1, <3>3
    <3> QED BY <3>2, <3>3
  <2>4. m + 1 \in 0..MaxViewers
    BY <2>1, <2>2, <2>3
  <2>5. ASSUME NEW w \in Viewers
        PROVE  (stream'[w].at # "none" <=> w <= m + 1) /\ (viewer'[w].open => w = m + 1)
    <3>1. CASE w = v
      BY <1>6, <1>9, <2>1, <2>3, <3>1
    <3>2. CASE w # v
      <4>1. stream'[w] = stream[w] /\ viewer'[w] = viewer[w]
        BY <1>9, <3>2
      <4>2. w \in Nat /\ m \in Nat /\ (w <= m + 1 <=> w <= m)
        BY <2>1, <2>2, <2>3, <3>2 DEF Viewers
      <4>3. ~viewer[w].open
        <5>1. viewer[w].open => w \in 1..(v - 1)
          BY <2>1, <2>2, <2>3 DEF Viewers
        <5> QED BY <1>2, <5>1
      <4> QED BY <2>1, <4>1, <4>2, <4>3
    <3> QED BY <3>1, <3>2
  <2>6. stops' \in Nat /\ stops' <= m + 1 /\ stops' < m + 1
    BY <1>2, <2>1
  <2> QED BY <2>4, <2>5, <2>6 DEF OpenedInv
<1> QED BY <1>10, <1>13, <1>14, <1>15 DEF LogStreamInv

\* A message is received, or the viewer is closed.
LEMMA ViewerSteps ==
  ASSUME LogStreamInv, NEW v \in Viewers, OnLogEvent(v) \/ UnmountViewer(v)
  PROVE  LogStreamInv'
<1>1. LogTypes /\ FollowInv /\ QuietInv /\ RegisteredInv /\ OpenedInv
  BY DEF LogStreamInv
<1>2. UNCHANGED <<journal, logFile, stream, current, missed>>
  BY DEF OnLogEvent, UnmountViewer, logVars, streamVars
<1>3. viewer[v] \in ViewerStates /\ viewer \in [Viewers -> ViewerStates]
  BY <1>1 DEF LogTypes
<1>4. \A w \in Viewers : StreamAt(w)' = StreamAt(w)
  BY <1>2 DEF StreamAt
<1>5. CASE OnLogEvent(v)
  <2>1. viewer[v].channel # <<>> /\ viewer[v].channel \in Seq(LogEvents) /\ viewer[v].lines \in Seq(LogLine) /\ stops' = stops
    BY <1>3, <1>5 DEF OnLogEvent, ViewerStates, streamVars
  <2>2. PICK e, rest : e = Head(viewer[v].channel) /\ rest = Tail(viewer[v].channel)
    OBVIOUS
  <2>3. e \in LogEvents /\ rest \in Seq(LogEvents)
    BY <2>1, <2>2
  <2>4. PICK lines : lines = Received(viewer[v].lines, e)
    OBVIOUS
  <2>5. lines \in Seq(LogLine)
    <3>1. e.type \in {"snapshot", "lines", "truncated"} /\ e.lines \in Seq(LogLine)
      BY <2>3 DEF LogEvents
    <3>2. CASE e.type = "snapshot"
      BY <2>4, <3>1, <3>2 DEF Received
    <3>3. CASE e.type = "lines"
      BY <2>1, <2>4, <3>1, <3>3 DEF Received
    <3>4. CASE e.type = "truncated"
      <4>1. lines = <<>>
        BY <2>4, <3>4 DEF Received
      <4> QED BY <4>1
    <3> QED BY <3>1, <3>2, <3>3, <3>4
  <2>6. PICK new : new = [viewer[v] EXCEPT !.channel = rest, !.lines = lines]
    OBVIOUS
  <2>7. new \in ViewerStates /\ new.open = viewer[v].open
    BY <1>3, <2>3, <2>5, <2>6 DEF ViewerStates
  <2>8. viewer' = [viewer EXCEPT ![v] = new]
    <3>1. viewer' = [viewer EXCEPT ![v].channel = rest, ![v].lines = lines]
      BY <1>5, <2>2, <2>4 DEF OnLogEvent
    <3> QED BY <1>3, <2>6, <3>1
  <2>9. /\ viewer' \in [Viewers -> ViewerStates] /\ viewer'[v] = new /\ \A w \in Viewers \ {v} : viewer'[w] = viewer[w]
    BY <1>3, <2>7, <2>8
  <2>10. LogTypes'
    BY <1>1, <1>2, <2>9 DEF LogTypes
  <2>11. v \notin missed' => FollowsLog(v)'
    BY <1>1, <1>2, <1>5, ViewerReceives DEF FollowInv
  <2>12. FollowInv'
    BY <1>2, <1>4, <2>9, <2>11, OthersFollow
  <2>13. QuietInv' /\ RegisteredInv'
    BY <1>1, <1>2, <2>1, <2>9 DEF QuietInv, RegisteredInv, RunsOn
  <2>14. OpenedInv'
    BY <1>1, <1>2, <2>1, <2>7, <2>9, OpenedStays
  <2> QED BY <2>10, <2>12, <2>13, <2>14 DEF LogStreamInv
<1>6. CASE UnmountViewer(v)
  <2>1. PICK new : new = [viewer[v] EXCEPT !.open = FALSE]
    OBVIOUS
  <2>2. new \in ViewerStates /\ ~new.open /\ new.lines = viewer[v].lines /\ new.channel = viewer[v].channel
    BY <1>3, <2>1 DEF ViewerStates
  <2>3. viewer[v].open /\ viewer' = [viewer EXCEPT ![v] = new] /\ stops' = stops + 1
    BY <1>6, <2>1 DEF UnmountViewer
  <2>4. /\ viewer' \in [Viewers -> ViewerStates] /\ viewer'[v] = new /\ \A w \in Viewers \ {v} : viewer'[w] = viewer[w]
    BY <1>3, <2>2, <2>3
  <2>5. LogTypes'
    BY <1>1, <1>2, <2>4 DEF LogTypes
  <2>6. v \notin missed' => FollowsLog(v)'
    <3> SUFFICES ASSUME v \notin missed PROVE FollowsLog(v)'
      BY <1>2
    <3>1. PICK t : LeadsTo(v, t)
      BY <1>1 DEF FollowInv, FollowsLog
    <3>2. LeadsTo(v, t)'
      BY <1>2, <1>4, <2>2, <2>4, <3>1 DEF LeadsTo, InJournal, LinesAt
    <3>3. InJournal(StreamAt(v))
      BY <1>1 DEF FollowInv, FollowsLog
    <3>4. InJournal(StreamAt(v))'
      BY <1>2, <1>4, <3>3 DEF InJournal
    <3> QED BY <3>2, <3>4 DEF FollowsLog
  <2>7. FollowInv'
    BY <1>2, <1>4, <2>4, <2>6, OthersFollow
  <2>8. QuietInv' /\ RegisteredInv'
    BY <1>1, <1>2, <2>2, <2>4 DEF QuietInv, RegisteredInv, RunsOn
  <2>9. OpenedInv'
    <3>1. PICK m \in 0..MaxViewers :
            /\ \A w \in Viewers : (stream[w].at # "none" <=> w <= m) /\ (viewer[w].open => w = m)
            /\ stops \in Nat /\ stops <= m /\ ((\E w \in Viewers : viewer[w].open) => stops < m)
      BY <1>1 DEF OpenedInv
    <3>2. \A w \in Viewers : (stream'[w].at # "none" <=> w <= m) /\ ~viewer'[w].open
      BY <1>2, <2>2, <2>3, <2>4, <3>1
    <3>3. stops' \in Nat /\ stops' <= m
      BY <2>3, <3>1
    <3> QED BY <3>2, <3>3 DEF OpenedInv
  <2> QED BY <2>5, <2>7, <2>8, <2>9 DEF LogStreamInv
<1> QED BY <1>5, <1>6

-----------------------------------------------------------------------------
\* At the start nothing has been written or opened.
LEMMA LogStreamStarts == LogStreamInit => LogStreamInv
<1> SUFFICES ASSUME LogStreamInit PROVE LogStreamInv
  OBVIOUS
<1>1. journal = <<<<>>>> /\ journal \in Seq(Seq(LogLine)) /\ Len(journal) = 1 /\ journal[1] = <<>> /\ logFile = <<>>
  BY DEF LogStreamInit
<1>2. PICK none : none = [at |-> "none", offset |-> 0, length |-> 0, stopped |-> FALSE, cut |-> 1]
  OBVIOUS
<1>3. none \in StreamStates /\ none.at = "none" /\ ~none.stopped /\ none.offset = 0 /\ none.cut = 1
  BY <1>2 DEF StreamStates
<1>4. PICK closed : closed = [open |-> FALSE, lines |-> <<>>, channel |-> <<>>]
  OBVIOUS
<1>5. closed \in ViewerStates /\ ~closed.open /\ closed.lines = <<>> /\ closed.channel = <<>>
  BY <1>4 DEF ViewerStates
<1>6. stream = [v \in Viewers |-> none] /\ viewer = [v \in Viewers |-> closed] /\ current = 0 /\ stops = 0 /\ missed = {}
  BY <1>2, <1>4 DEF LogStreamInit
<1>7. LogTypes
  BY <1>1, <1>3, <1>5, <1>6 DEF LogTypes
<1>8. ASSUME NEW v \in Viewers PROVE FollowsLog(v)
  <2>1. PICK p : p = StreamAt(v)
    OBVIOUS
  <2>2. p \in LogPlaces /\ p.cut = 1 /\ p.count = 0
    BY <1>3, <1>6, <2>1 DEF StreamAt, LogPlaces
  <2>3. InJournal(p) /\ LinesAt(p) = <<>>
    BY <1>1, <2>2, SubSeqEmpty DEF InJournal, LinesAt
  <2>4. PICK t : t = <<p>>
    OBVIOUS
  <2>5. t \in Seq(LogPlaces) /\ Len(t) = 1 /\ DOMAIN t = {1} /\ t[1] = p
    BY <2>2, <2>4
  <2>6. viewer[v].lines = <<>> /\ viewer[v].channel = <<>> /\ Len(viewer[v].channel) = 0 /\ DOMAIN viewer[v].channel = {}
    BY <1>5, <1>6
  <2>7. LeadsTo(v, t)
    BY <2>1, <2>3, <2>5, <2>6 DEF LeadsTo
  <2> QED BY <2>1, <2>3, <2>7 DEF FollowsLog
<1>9. FollowInv
  BY <1>8 DEF FollowInv
<1>10. QuietInv /\ RegisteredInv
  <2>1. 0 \notin Viewers
    BY DEF Viewers
  <2> QED BY <1>3, <1>5, <1>6, <2>1 DEF QuietInv, RegisteredInv, RunsOn
<1>11. OpenedInv
  <2>1. 0 \in 0..MaxViewers /\ \A v \in Viewers : ~(v <= 0)
    BY LogStreamAssumption DEF Viewers
  <2> QED BY <1>3, <1>5, <1>6, <2>1 DEF OpenedInv
<1> QED BY <1>7, <1>9, <1>10, <1>11 DEF LogStreamInv

\* Every step keeps the invariant.
LEMMA LogStreamSteps == LogStreamInv /\ [LogStreamNext]_logStreamVars => LogStreamInv'
<1> SUFFICES ASSUME LogStreamInv, [LogStreamNext]_logStreamVars PROVE LogStreamInv'
  OBVIOUS
<1>1. CASE WriteHalf \/ WriteLog \/ CutLog
  BY <1>1, LoggerSteps
<1>2. CASE stop_log_stream
  BY <1>2, StopSteps
<1>3. ASSUME NEW v \in Viewers, StreamStep(v) \/ MountViewer(v) \/ UnmountViewer(v) PROVE LogStreamInv'
  BY <1>3, StreamBegins, SnapshotShows, StreamInBrowser, TickSteps, ReadSteps, BrowserTickSteps, MountSteps, ViewerSteps
    DEF StreamStep
<1>4. CASE UNCHANGED logStreamVars
  <2>1. UNCHANGED <<journal, logFile, stream, viewer, current, stops, missed>>
    BY <1>4 DEF logStreamVars, logVars, streamVars
  <2>2. LogTypes' /\ QuietInv' /\ RegisteredInv' /\ OpenedInv'
    BY <2>1 DEF LogStreamInv, LogTypes, QuietInv, RegisteredInv, RunsOn, OpenedInv
  <2>3. FollowInv'
    BY <2>1 DEF LogStreamInv, FollowInv, FollowsLog, LeadsTo, InJournal, LinesAt, StreamAt
  <2> QED BY <2>2, <2>3 DEF LogStreamInv
<1> QED BY <1>1, <1>2, <1>3, <1>4 DEF LogStreamNext

\* What the invariant says of what is shown.
LEMMA LogStreamHolds == LogStreamInv => ShownWasWritten /\ OneStream /\ LogStreamTypeOK
<1> SUFFICES ASSUME LogStreamInv PROVE ShownWasWritten /\ OneStream /\ LogStreamTypeOK
  OBVIOUS
<1>1. LogTypes /\ FollowInv /\ QuietInv /\ RegisteredInv /\ OpenedInv
  BY DEF LogStreamInv
<1>2. ShownWasWritten
  <2>1. ASSUME NEW v \in Viewers \ missed PROVE \E cut \in DOMAIN journal : IsPrefix(viewer[v].lines, journal[cut])
    <3>1. PICK t : LeadsTo(v, t)
      BY <1>1 DEF FollowInv, FollowsLog
    <3>2. PICK p : p = t[1]
      OBVIOUS
    <3>3. 1 \in DOMAIN t
      <4>1. viewer[v].channel \in Seq(LogEvents)
        BY <1>1 DEF LogTypes, ViewerStates
      <4>2. Len(t) \in Nat \ {0} /\ DOMAIN t = 1..Len(t)
        BY <3>1, <4>1 DEF LeadsTo
      <4> QED BY <4>2
    <3>4. InJournal(p) /\ LinesAt(p) = viewer[v].lines
      BY <3>1, <3>2, <3>3 DEF LeadsTo
    <3>5. PICK s : s = journal[p.cut]
      OBVIOUS
    <3>6. p.cut \in DOMAIN journal /\ s \in Seq(LogLine) /\ p.count \in 0..Len(s) /\ viewer[v].lines = SubSeq(s, 1, p.count)
      BY <1>1, <3>4, <3>5 DEF InJournal, LinesAt, LogTypes
    <3>7. SubSeq(s, 1, p.count) \in Seq(LogLine) /\ Len(SubSeq(s, 1, p.count)) = p.count
      BY <3>6, SubSeqBegins
    <3>8. Len(s) \in Nat /\ p.count <= Len(s)
      BY <3>6
    <3>9. SubSeq(viewer[v].lines, 1, Len(viewer[v].lines)) = viewer[v].lines
      BY <3>6, <3>7, SubSeqFull
    <3>10. IsPrefix(viewer[v].lines, s)
      BY <3>6, <3>7, <3>8, <3>9 DEF IsPrefix
    <3> QED BY <3>5, <3>6, <3>10
  <2> QED BY <2>1 DEF ShownWasWritten
<1>3. OneStream
  <2> DEFINE running == {v \in Viewers : stream[v].at \in {"begun", "tailing", "reading"} /\ ~stream[v].stopped}
  <2>1. running \subseteq {current}
    BY <1>1 DEF RegisteredInv, RunsOn
  <2>2. IsFiniteSet({current}) /\ Cardinality({current}) = 1
    BY FS_Singleton
  <2>3. IsFiniteSet(running) /\ Cardinality(running) <= 1
    BY <2>1, <2>2, FS_Subset
  <2> QED BY <1>1, <2>3 DEF OneStream, RegisteredInv
<1>4. LogStreamTypeOK
  <2>1. PICK m \in 0..MaxViewers : stops \in Nat /\ stops <= m
    BY <1>1 DEF OpenedInv
  <2>2. stops \in 0..MaxViewers
    BY <2>1, LogStreamAssumption
  <2>3. \A v \in Viewers : stream[v].at \in {"none", "called", "begun", "tailing", "reading", "ended"}
    BY <1>1 DEF LogTypes, StreamStates
  <2>4. logFile = Last(journal)
    BY <1>1 DEF LogTypes, Last
  <2> QED BY <1>1, <2>2, <2>3, <2>4 DEF LogStreamTypeOK, LogTypes
<1> QED BY <1>2, <1>3, <1>4

(* The inductive invariant of the stream of the log: what a viewer shows,  *)
(* and will show with each message to it, is how the log began after one   *)
(* of its cuts; only the registered stream runs.                           *)
THEOREM LogStreamInvariance == LogStreamSafety => []LogStreamInv
<1>1. LogStreamInv /\ [LogStreamNext]_logStreamVars => LogStreamInv'
  BY LogStreamSteps
<1> QED BY <1>1, LogStreamStarts, PTL DEF LogStreamSafety

(* The viewer shows what was written and one stream runs, for any lines,   *)
(* cuts and viewers (use-log-stream.ts, logging.rs).                       *)
THEOREM ShownIsWritten == LogStreamSafety => [](ShownWasWritten /\ OneStream /\ LogStreamTypeOK)
<1>1. LogStreamInv => ShownWasWritten /\ OneStream /\ LogStreamTypeOK
  BY LogStreamHolds
<1> QED BY <1>1, LogStreamInvariance, PTL

-----------------------------------------------------------------------------
(* How a line is drawn.                                                    *)

Kinds == {"time", "level", "target", "message"}
MarkStates == {"none", "current", "found"}
DrawnSegments == [kind : Kinds, from : Int, to : Int, state : MarkStates]
RawSpans == {raw \in [from : Int, to : Int] : raw.from <= raw.to \/ raw.to < 0}
DrawnTokens == [kind : Kinds, raw : RawSpans, start : Nat, length : Nat]

\* Segments that follow one another from one place to another.
Tiles(s, from, to) ==
  /\ s \in Seq(DrawnSegments) /\ from \in Int /\ to \in Int
  /\ \A i \in DOMAIN s : s[i].from < s[i].to /\ s[i].from = IF i = 1 THEN from ELSE s[i - 1].to
  /\ to = IF s = <<>> THEN from ELSE s[Len(s)].to

\* No segments lead nowhere.
LEMMA NothingTiles ==
  ASSUME NEW from \in Int
  PROVE  Tiles(<<>>, from, from)
<1>1. PICK s : s = <<>> /\ s \in Seq(DrawnSegments) /\ Len(s) = 0
  BY EmptySeq
<1>2. DOMAIN s = {}
  BY <1>1
<1>3. Tiles(s, from, from)
  BY <1>1, <1>2 DEF Tiles
<1> QED BY <1>1, <1>3

\* One segment leads from its beginning to its end.
LEMMA OneTiles ==
  ASSUME NEW token \in DrawnTokens, NEW from \in Int, NEW to \in Int, from < to, NEW state \in MarkStates
  PROVE  Tiles(<<Segment(token, from, to, state)>>, from, to)
<1>1. Segment(token, from, to, state) \in DrawnSegments
  BY DEF Segment, DrawnTokens, DrawnSegments
<1>2. Segment(token, from, to, state).from = from /\ Segment(token, from, to, state).to = to
  BY DEF Segment
<1> DEFINE x == Segment(token, from, to, state)
           s == <<x>>
<1>3. s \in Seq(DrawnSegments) /\ Len(s) = 1 /\ DOMAIN s = {1} /\ s # <<>> /\ s[1] = x
  <2>1. x \in DrawnSegments
    BY <1>1
  <2> HIDE DEF x, DrawnSegments
  <2> QED BY <2>1
<1> HIDE DEF s
<1>4. Tiles(s, from, to)
  BY <1>2, <1>3 DEF Tiles
<1> QED BY <1>4 DEF s

\* Segments that lead on from others are drawn after them.
LEMMA BothTile ==
  ASSUME NEW s, NEW t, NEW from, NEW to, NEW until, Tiles(s, from, to), Tiles(t, to, until)
  PROVE  Tiles(s \o t, from, until)
<1> DEFINE all == s \o t
<1>1. s \in Seq(DrawnSegments) /\ t \in Seq(DrawnSegments) /\ from \in Int /\ until \in Int
  BY DEF Tiles
<1>2. /\ Len(s) \in Nat /\ Len(t) \in Nat /\ all \in Seq(DrawnSegments) /\ Len(all) = Len(s) + Len(t)
      /\ DOMAIN s = 1..Len(s) /\ DOMAIN t = 1..Len(t) /\ DOMAIN all = 1..Len(s) + Len(t)
      /\ \A i \in 1..Len(s) : all[i] = s[i]
      /\ \A i \in 1..Len(t) : all[Len(s) + i] = t[i]
      /\ (s = <<>> <=> Len(s) = 0) /\ (t = <<>> <=> Len(t) = 0) /\ (all = <<>> <=> Len(all) = 0)
  BY <1>1, ConcatProperties, EmptySeq
<1> HIDE DEF all
<1>6. /\ to \in Int /\ to = IF Len(s) = 0 THEN from ELSE s[Len(s)].to
      /\ \A i \in 1..Len(s) : s[i].from < s[i].to /\ s[i].from = IF i = 1 THEN from ELSE s[i - 1].to
  BY <1>2 DEF Tiles
<1>7. /\ until = IF Len(t) = 0 THEN to ELSE t[Len(t)].to
      /\ \A i \in 1..Len(t) : t[i].from < t[i].to /\ t[i].from = IF i = 1 THEN to ELSE t[i - 1].to
  BY <1>2 DEF Tiles
<1>3. ASSUME NEW i \in 1..Len(s) + Len(t)
      PROVE  all[i].from < all[i].to /\ all[i].from = IF i = 1 THEN from ELSE all[i - 1].to
  <2>1. CASE i \in 1..Len(s)
    <3>1. i = 1 \/ i - 1 \in 1..Len(s)
      BY <1>2, <2>1
    <3> QED BY <1>2, <1>6, <2>1, <3>1
  <2>2. CASE i \notin 1..Len(s)
    <3>1. i - Len(s) \in 1..Len(t) /\ all[i] = t[i - Len(s)]
      <4>1. i - Len(s) \in 1..Len(t) /\ i = Len(s) + (i - Len(s))
        BY <1>2, <2>2
      <4> QED BY <1>2, <4>1
    <3>2. CASE i - Len(s) = 1
      <4>1. all[i].from < all[i].to /\ all[i].from = to
        BY <1>7, <3>1, <3>2
      <4>2. CASE Len(s) = 0
        BY <1>2, <1>6, <3>2, <4>1, <4>2
      <4>3. CASE Len(s) # 0
        <5>1. i # 1 /\ i - 1 = Len(s) /\ all[i - 1] = s[Len(s)]
          BY <1>2, <3>2, <4>3
        <5> QED BY <1>6, <4>1, <4>3, <5>1
      <4> QED BY <4>2, <4>3
    <3>3. CASE i - Len(s) # 1
      <4>1. i # 1 /\ all[i - 1] = t[(i - Len(s)) - 1]
        <5>1. (i - Len(s)) - 1 \in 1..Len(t) /\ i - 1 = Len(s) + ((i - Len(s)) - 1) /\ i # 1
          BY <1>2, <3>1, <3>3
        <5> QED BY <1>2, <5>1
      <4> QED BY <1>7, <3>1, <3>3, <4>1
    <3> QED BY <3>2, <3>3
  <2> QED BY <2>1, <2>2
<1>4. until = IF all = <<>> THEN from ELSE all[Len(all)].to
  <2>1. CASE Len(t) = 0
    <3>1. until = to /\ Len(all) = Len(s)
      BY <1>2, <1>7, <2>1
    <3>2. Len(s) # 0 => all[Len(all)] = s[Len(s)]
      BY <1>2, <3>1
    <3> QED BY <1>2, <1>6, <3>1, <3>2
  <2>2. CASE Len(t) # 0
    <3>1. all[Len(all)] = t[Len(t)] /\ all # <<>>
      BY <1>2, <2>2
    <3> QED BY <1>7, <2>2, <3>1
  <2> QED BY <2>1, <2>2
<1>5. Tiles(all, from, until)
  BY <1>1, <1>2, <1>3, <1>4 DEF Tiles
<1> QED BY <1>5 DEF all

SearchMatches == {m \in [line : Nat, from : Nat, to : Int, globalIndex : Int] : m.from < m.to}

\* Which matches are drawn in a token, and where one begins and ends.
Meets(token, match) == match.to > token.raw.from /\ match.from < token.raw.to
MarkFrom(token, match) == RenderedAt(token, Greatest(match.from, token.raw.from))
MarkTo(token, match) == RenderedAt(token, Least(match.to, token.raw.to))
InToken(token) == token.start..token.start + token.length

\* What a match marks of a token is in the token, also where the token is cut.
LEMMA MarksAreInToken ==
  ASSUME NEW token \in DrawnTokens, NEW match \in SearchMatches, Meets(token, match)
  PROVE  /\ MarkFrom(token, match) \in InToken(token) /\ MarkTo(token, match) \in InToken(token)
         /\ MarkFrom(token, match) <= MarkTo(token, match)
<1>1. /\ token.raw.from \in Int /\ token.raw.to \in Int /\ token.start \in Nat /\ token.length \in Nat
      /\ token.raw.from <= token.raw.to \/ token.raw.to < 0
      /\ match.from \in Nat /\ match.to \in Int /\ match.from < match.to
  BY DEF DrawnTokens, RawSpans, SearchMatches
<1>2. match.to > token.raw.from /\ match.from < token.raw.to /\ token.raw.from <= token.raw.to
  BY <1>1 DEF Meets
<1>3. /\ Greatest(match.from, token.raw.from) \in Int /\ Least(match.to, token.raw.to) \in Int
      /\ token.raw.from <= Greatest(match.from, token.raw.from)
      /\ Greatest(match.from, token.raw.from) <= Least(match.to, token.raw.to)
  BY <1>1, <1>2 DEF Greatest, Least
<1> QED BY <1>1, <1>3 DEF MarkFrom, MarkTo, InToken, RenderedAt, Least

\* A match that begins after another has ended is drawn after it.
LEMMA MarksFollow ==
  ASSUME NEW token \in DrawnTokens, NEW before \in SearchMatches, NEW match \in SearchMatches, before.to <= match.from
  PROVE  MarkTo(token, before) <= MarkFrom(token, match)
<1>1. /\ token.raw.from \in Int /\ token.raw.to \in Int /\ token.start \in Nat /\ token.length \in Nat
      /\ match.from \in Int /\ before.to \in Int
  BY DEF DrawnTokens, RawSpans, SearchMatches
<1> QED BY <1>1 DEF MarkFrom, MarkTo, RenderedAt, Greatest, Least

\* What is drawn of a token.
Drawn == [segments : Seq(DrawnSegments), cursor : Int]
DrawnWell(token, drawn) ==
  drawn \in Drawn /\ Tiles(drawn.segments, token.start, drawn.cursor) /\ drawn.cursor \in InToken(token)

\* One match that begins behind the cursor is drawn over a token: the segments lead to the new cursor.
LEMMA OverlayIsDrawn ==
  ASSUME NEW token \in DrawnTokens, NEW drawn \in Drawn, NEW match \in SearchMatches, NEW isCurrent \in BOOLEAN
  PROVE  /\ Overlay(token, drawn, match, isCurrent) \in Drawn
         /\ ~Meets(token, match) => Overlay(token, drawn, match, isCurrent) = drawn
         /\ Meets(token, match) => Overlay(token, drawn, match, isCurrent).cursor = MarkTo(token, match)
         /\ Meets(token, match) /\ DrawnWell(token, drawn) /\ drawn.cursor <= MarkFrom(token, match) =>
              DrawnWell(token, Overlay(token, drawn, match, isCurrent))
<1> DEFINE start == MarkFrom(token, match)
           end == MarkTo(token, match)
           gap == IF start > drawn.cursor THEN <<Segment(token, drawn.cursor, start, "none")>> ELSE <<>>
           mark == IF end > start THEN <<Segment(token, start, end, IF isCurrent THEN "current" ELSE "found")>> ELSE <<>>
           next == [segments |-> drawn.segments \o gap \o mark, cursor |-> end]
<1>1. /\ token.raw.from \in Int /\ token.raw.to \in Int /\ token.start \in Nat /\ token.length \in Nat
      /\ match.from \in Int /\ match.to \in Int
  BY DEF DrawnTokens, RawSpans, SearchMatches
<1>2. start \in Int /\ end \in Int /\ drawn.cursor \in Int /\ drawn.segments \in Seq(DrawnSegments)
  <2>1. Greatest(match.from, token.raw.from) \in Int /\ Least(match.to, token.raw.to) \in Int
    BY <1>1 DEF Greatest, Least
  <2>2. \A raw \in Int : RenderedAt(token, raw) \in Int
    BY <1>1 DEF RenderedAt, Least
  <2> QED BY <2>1, <2>2 DEF MarkFrom, MarkTo, Drawn
<1>3. Overlay(token, drawn, match, isCurrent) = IF ~Meets(token, match) THEN drawn ELSE next
  <2>1. ~Meets(token, match) <=> match.to <= token.raw.from \/ match.from >= token.raw.to
    BY <1>1 DEF Meets
  <2> QED BY <2>1 DEF Overlay, MarkFrom, MarkTo
<1> HIDE DEF start, end
<1>4. gap \in Seq(DrawnSegments) /\ (drawn.cursor <= start => Tiles(gap, drawn.cursor, start))
  <2>1. CASE start > drawn.cursor
    <3>1. gap = <<Segment(token, drawn.cursor, start, "none")>> /\ drawn.cursor < start
      BY <1>2, <2>1
    <3> HIDE DEF gap
    <3>3. Tiles(<<Segment(token, drawn.cursor, start, "none")>>, drawn.cursor, start)
      <4>1. "none" \in MarkStates
        BY DEF MarkStates
      <4> QED BY <1>2, <3>1, <4>1, OneTiles
    <3>2. Tiles(gap, drawn.cursor, start)
      BY <3>1, <3>3
    <3> QED BY <3>2 DEF Tiles
  <2>2. CASE ~(start > drawn.cursor)
    <3>1. Tiles(gap, drawn.cursor, drawn.cursor)
      BY <1>2, <2>2, NothingTiles
    <3>2. gap \in Seq(DrawnSegments)
      BY <3>1 DEF Tiles
    <3>3. drawn.cursor <= start => start = drawn.cursor
      BY <1>2, <2>2
    <3> HIDE DEF gap
    <3> QED BY <3>1, <3>2, <3>3
  <2> QED BY <2>1, <2>2
<1>5. mark \in Seq(DrawnSegments) /\ (start <= end => Tiles(mark, start, end))
  <2>1. CASE end > start
    <3>0. PICK state : state = IF isCurrent THEN "current" ELSE "found"
      OBVIOUS
    <3>1. state \in MarkStates /\ mark = <<Segment(token, start, end, state)>>
      BY <2>1, <3>0 DEF MarkStates
    <3>2. start < end
      BY <1>2, <2>1
    <3> HIDE DEF mark
    <3>3. Tiles(mark, start, end)
      BY <1>2, <3>1, <3>2, OneTiles
    <3> QED BY <3>3 DEF Tiles
  <2>2. CASE ~(end > start)
    <3>1. Tiles(mark, start, start)
      BY <1>2, <2>2, NothingTiles
    <3>2. mark \in Seq(DrawnSegments)
      BY <3>1 DEF Tiles
    <3>3. start <= end => start = end
      BY <1>2, <2>2
    <3> HIDE DEF mark
    <3> QED BY <3>1, <3>2, <3>3
  <2> QED BY <2>1, <2>2
<1> HIDE DEF gap, mark
<1>6. next \in Drawn
  <2>1. drawn.segments \o gap \o mark \in Seq(DrawnSegments)
    BY <1>2, <1>4, <1>5
  <2> QED BY <1>2, <2>1 DEF Drawn
<1>7. ASSUME Meets(token, match), DrawnWell(token, drawn), drawn.cursor <= start
      PROVE  DrawnWell(token, next)
  <2>1. start <= end /\ end \in InToken(token)
    BY <1>7, MarksAreInToken DEF start, end
  <2>2. Tiles(drawn.segments \o gap, token.start, start)
    BY <1>4, <1>7, BothTile DEF DrawnWell
  <2>3. Tiles(drawn.segments \o gap \o mark, token.start, end)
    BY <1>5, <2>1, <2>2, BothTile
  <2> QED BY <1>6, <2>1, <2>3 DEF DrawnWell
<1> QED BY <1>3, <1>6, <1>7 DEF start, end

\* Matches that come one after another are drawn over the whole token, and nowhere else.
LEMMA TokenIsDrawn ==
  ASSUME NEW token \in DrawnTokens, NEW matches \in Seq(SearchMatches), NEW index,
         \A i, j \in DOMAIN matches : i < j => matches[i].to <= matches[j].from
  PROVE  Tiles(overlayToken(token, matches, index), token.start, token.start + token.length)
<1> DEFINE N == Len(matches)
           nothing == [segments |-> <<>>, cursor |-> token.start]
           Next1(drawn, k) == Overlay(token, drawn, matches[k], matches[k].globalIndex = index)
           IsDone(f) == f = [k \in 0..N |-> IF k = 0 THEN nothing ELSE Next1(f[k - 1], k)]
           done == CHOOSE f : IsDone(f)
           end == token.start + token.length
           rest(drawn) == IF drawn.cursor < end THEN <<Segment(token, drawn.cursor, end, "none")>> ELSE <<>>
           IsAhead(drawn, k) == \A j \in DOMAIN matches : j > k /\ Meets(token, matches[j]) => drawn.cursor <= MarkFrom(token, matches[j])
           Fine == {k \in 0..N : DrawnWell(token, done[k]) /\ IsAhead(done[k], k)}
<1>1. N \in Nat /\ DOMAIN matches = 1..N /\ \A k \in 1..N : matches[k] \in SearchMatches
  OBVIOUS
<1>2. token.start \in Nat /\ token.length \in Nat
  BY DEF DrawnTokens
<1>3. overlayToken(token, matches, index) = done[N].segments \o rest(done[N])
  BY DEF overlayToken
<1>4. nothing \in Drawn /\ DrawnWell(token, nothing)
  <2>1. Tiles(<<>>, token.start, token.start) /\ token.start \in InToken(token)
    BY <1>2, NothingTiles DEF InToken
  <2>2. <<>> \in Seq(DrawnSegments)
    BY <2>1 DEF Tiles
  <2> QED BY <1>2, <2>1, <2>2 DEF Drawn, DrawnWell
<1>5. ASSUME NEW drawn \in Drawn, NEW k \in 1..N
      PROVE  Next1(drawn, k) \in Drawn
  BY <1>1, OverlayIsDrawn
<1> HIDE DEF nothing, Next1
<1>6. \A k \in 0..N : done[k] = IF k = 0 THEN nothing ELSE Next1(done[k - 1], k)
  <2> DEFINE Further == [k \in 1..N |-> [drawn \in Drawn |-> Next1(drawn, k)]]
  <2>1. \A k \in 1..N, drawn \in Drawn : Further[k][drawn] = Next1(drawn, k) /\ Further[k][drawn] \in Drawn
    BY <1>5
  <2> HIDE DEF Further
  <2>2. PICK f \in [0..N -> Drawn] : f[0] = nothing /\ \A k \in 1..N : f[k] = Further[k][f[k - 1]]
    <3>1. N \in Nat /\ nothing \in Drawn /\ StepsWithin(Further, N, Drawn)
      BY <1>1, <1>4, <2>1 DEF StepsWithin
    <3>2. \E f : Iterates(f, N, Drawn, nothing, Further)
      <4> HIDE DEF N
      <4> QED BY <3>1, RecursionUpTo
    <3> QED BY <3>2 DEF Iterates
  <2>3. ASSUME NEW k \in 1..N PROVE f[k] = Next1(f[k - 1], k)
    <3>1. k - 1 \in 0..N /\ f[k - 1] \in Drawn
      BY <1>1, <2>2
    <3> QED BY <2>1, <2>2, <3>1
  <2>4. IsDone(f)
    BY <2>2, <2>3
  <2>5. IsDone(done)
    <3>1. \E g : IsDone(g)
      BY <2>4
    <3> HIDE DEF IsDone
    <3> QED BY <3>1
  <2> HIDE DEF done
  <2> QED BY <2>5
<1> HIDE DEF done
<1>7. 0 \in Fine
  <2>1. done[0] = nothing /\ 0 \in 0..N
    BY <1>1, <1>6
  <2>2. ASSUME NEW j \in DOMAIN matches, Meets(token, matches[j]) PROVE nothing.cursor <= MarkFrom(token, matches[j])
    <3>1. MarkFrom(token, matches[j]) \in InToken(token) /\ nothing.cursor = token.start
      BY <1>1, <2>2, MarksAreInToken DEF nothing
    <3> QED BY <1>2, <3>1 DEF InToken
  <2> QED BY <1>4, <2>1, <2>2
<1>8. ASSUME NEW k \in 1..N, k - 1 \in Fine PROVE k \in Fine
  <2>1. /\ DrawnWell(token, done[k - 1]) /\ IsAhead(done[k - 1], k - 1) /\ done[k - 1] \in Drawn
        /\ done[k] = Next1(done[k - 1], k) /\ matches[k] \in SearchMatches /\ k \in DOMAIN matches
        /\ k > k - 1 /\ k \in Int
    BY <1>1, <1>6, <1>8 DEF DrawnWell
  <2>2. CASE ~Meets(token, matches[k])
    <3>1. done[k] = done[k - 1]
      BY <2>1, <2>2, OverlayIsDrawn DEF Next1
    <3>2. \A j \in DOMAIN matches : j > k => j > k - 1
      BY <1>1
    <3> QED BY <2>1, <3>1, <3>2
  <2>3. CASE Meets(token, matches[k])
    <3>1. done[k - 1].cursor <= MarkFrom(token, matches[k])
      BY <2>1, <2>3
    <3>2. DrawnWell(token, done[k]) /\ done[k].cursor = MarkTo(token, matches[k])
      <4>1. PICK next : next = Overlay(token, done[k - 1], matches[k], matches[k].globalIndex = index)
        OBVIOUS
      <4>2. DrawnWell(token, next) /\ next.cursor = MarkTo(token, matches[k])
        <5>1. (matches[k].globalIndex = index) \in BOOLEAN
          OBVIOUS
        <5> QED BY <2>1, <2>3, <3>1, <4>1, <5>1, OverlayIsDrawn
      <4>3. done[k] = next
        BY <2>1, <4>1 DEF Next1
      <4> QED BY <4>2, <4>3
    <3>3. ASSUME NEW j \in DOMAIN matches, j > k PROVE MarkTo(token, matches[k]) <= MarkFrom(token, matches[j])
      BY <1>1, <2>1, <3>3, MarksFollow
    <3> QED BY <3>2, <3>3
  <2> QED BY <2>2, <2>3
<1>9. N \in Fine
  <2> HIDE DEF Fine
  <2>1. \A k \in 0..N : k \in Fine
    BY <1>1, <1>7, <1>8, InductionUpTo
  <2> QED BY <1>1, <2>1
<1>10. DrawnWell(token, done[N])
  BY <1>9
<1>11. Tiles(rest(done[N]), done[N].cursor, end)
  <2>1. done[N].cursor \in Int /\ end \in Int /\ done[N].cursor <= end
    BY <1>2, <1>10 DEF DrawnWell, InToken
  <2>2. CASE done[N].cursor < end
    <3>1. Tiles(<<Segment(token, done[N].cursor, end, "none")>>, done[N].cursor, end)
      <4>1. "none" \in MarkStates
        BY DEF MarkStates
      <4> HIDE DEF end
      <4> QED BY <2>1, <2>2, <4>1, OneTiles
    <3> QED BY <2>2, <3>1
  <2>3. CASE ~(done[N].cursor < end)
    <3>1. done[N].cursor = end /\ Tiles(<<>>, done[N].cursor, done[N].cursor)
      BY <2>1, <2>3, NothingTiles
    <3> QED BY <2>3, <3>1
  <2> QED BY <2>2, <2>3
<1> QED BY <1>3, <1>10, <1>11, BothTile DEF DrawnWell

\* Tokens that come one after another.
AreInLine(tokens) ==
  /\ tokens \in Seq(DrawnTokens)
  /\ \A i \in DOMAIN tokens : tokens[i].start = IF i = 1 THEN 0 ELSE tokens[i - 1].start + tokens[i - 1].length

\* Tokens that come one after another are drawn one after another.
LEMMA LineIsDrawn ==
  ASSUME NEW tokens, AreInLine(tokens), NEW matches \in Seq(SearchMatches), NEW index,
         \A i, j \in DOMAIN matches : i < j => matches[i].to <= matches[j].from
  PROVE  Tiles(overlaySearch(tokens, matches, index), 0, RenderCursor(tokens))
<1> DEFINE N == Len(tokens)
           piece(i) == overlayToken(tokens[i], matches, index)
           IsDrawn(f) == f = [i \in 0..N |-> IF i = 0 THEN <<>> ELSE f[i - 1] \o piece(i)]
           drawn == CHOOSE f : IsDrawn(f)
           upTo(i) == IF i = 0 THEN 0 ELSE tokens[i].start + tokens[i].length
           Fine == {i \in 0..N : Tiles(drawn[i], 0, upTo(i))}
           Pieces == Seq(DrawnSegments)
<1>1. /\ N \in Nat /\ DOMAIN tokens = 1..N /\ \A i \in 1..N : tokens[i] \in DrawnTokens
      /\ \A i \in 1..N : tokens[i].start = IF i = 1 THEN 0 ELSE tokens[i - 1].start + tokens[i - 1].length
  <2>1. tokens \in Seq(DrawnTokens)
    BY DEF AreInLine
  <2>2. N \in Nat /\ DOMAIN tokens = 1..N /\ \A i \in 1..N : tokens[i] \in DrawnTokens
    BY <2>1
  <2> QED BY <2>2 DEF AreInLine
<1>2. overlaySearch(tokens, matches, index) = drawn[N]
  BY DEF overlaySearch
<1>3. ASSUME NEW i \in 1..N
      PROVE  Tiles(piece(i), tokens[i].start, tokens[i].start + tokens[i].length) /\ piece(i) \in Pieces
  <2>1. Tiles(piece(i), tokens[i].start, tokens[i].start + tokens[i].length)
    BY <1>1, TokenIsDrawn
  <2> QED BY <2>1 DEF Tiles
<1>4. Tiles(<<>>, 0, 0) /\ <<>> \in Pieces
  <2>1. Tiles(<<>>, 0, 0)
    BY NothingTiles
  <2> QED BY <2>1 DEF Tiles
<1> HIDE DEF piece
<1>5. \A i \in 0..N : drawn[i] = IF i = 0 THEN <<>> ELSE drawn[i - 1] \o piece(i)
  <2> DEFINE Further == [i \in 1..N |-> [before \in Pieces |-> before \o piece(i)]]
  <2>1. \A i \in 1..N : \A before \in Pieces : Further[i][before] = before \o piece(i) /\ Further[i][before] \in Pieces
    <3>1. ASSUME NEW i \in 1..N, NEW before \in Pieces PROVE before \o piece(i) \in Pieces
      BY <1>3
    <3> QED BY <3>1
  <2> HIDE DEF Further, Pieces
  <2>2. PICK f \in [0..N -> Pieces] : f[0] = <<>> /\ \A i \in 1..N : f[i] = Further[i][f[i - 1]]
    <3>1. N \in Nat /\ <<>> \in Pieces /\ StepsWithin(Further, N, Pieces)
      BY <1>1, <1>4, <2>1 DEF StepsWithin
    <3>2. \E f : Iterates(f, N, Pieces, <<>>, Further)
      <4> HIDE DEF N
      <4> QED BY <3>1, RecursionUpTo
    <3> QED BY <3>2 DEF Iterates
  <2>3. ASSUME NEW i \in 1..N PROVE f[i] = f[i - 1] \o piece(i)
    <3>1. i - 1 \in 0..N /\ f[i - 1] \in Pieces
      BY <1>1, <2>2
    <3> QED BY <2>1, <2>2, <3>1
  <2>4. IsDrawn(f)
    <3>1. f = [i \in 0..N |-> f[i]] /\ \A i \in 0..N : i = 0 \/ i \in 1..N
      BY <1>1, <2>2
    <3>2. \A i \in 0..N : f[i] = IF i = 0 THEN <<>> ELSE f[i - 1] \o piece(i)
      BY <2>2, <2>3, <3>1
    <3> QED BY <3>1, <3>2
  <2>5. IsDrawn(drawn)
    <3>1. \E g : IsDrawn(g)
      BY <2>4
    <3> HIDE DEF IsDrawn
    <3> QED BY <3>1
  <2> HIDE DEF drawn
  <2> QED BY <2>5
<1> HIDE DEF drawn, Pieces
<1>6. 0 \in Fine
  BY <1>1, <1>4, <1>5
<1>7. ASSUME NEW i \in 1..N, i - 1 \in Fine PROVE i \in Fine
  <2>1. upTo(i - 1) = tokens[i].start /\ upTo(i) = tokens[i].start + tokens[i].length
    BY <1>1
  <2>2. Tiles(drawn[i - 1], 0, tokens[i].start) /\ drawn[i] = drawn[i - 1] \o piece(i)
    <3>1. Tiles(drawn[i - 1], 0, upTo(i - 1)) /\ i \in 0..N /\ i # 0
      BY <1>1, <1>7
    <3> QED BY <1>5, <2>1, <3>1
  <2>3. Tiles(drawn[i], 0, upTo(i))
    BY <1>3, <2>1, <2>2, BothTile
  <2> QED BY <2>3
<1>8. N \in Fine
  <2> HIDE DEF Fine
  <2>1. \A i \in 0..N : i \in Fine
    BY <1>1, <1>6, <1>7, InductionUpTo
  <2> QED BY <1>1, <2>1
<1>9. upTo(N) = RenderCursor(tokens)
  <2>1. tokens = <<>> <=> N = 0
    BY DEF AreInLine
  <2> QED BY <2>1 DEF RenderCursor, Last
<1> QED BY <1>2, <1>8, <1>9

\* A token more.
LEMMA OneMoreInLine ==
  ASSUME NEW tokens, AreInLine(tokens), NEW token \in DrawnTokens, token.start = RenderCursor(tokens)
  PROVE  AreInLine(Append(tokens, token))
<1> DEFINE all == Append(tokens, token)
           N == Len(tokens)
<1>1. tokens \in Seq(DrawnTokens) /\ N \in Nat /\ DOMAIN tokens = 1..N /\ (tokens = <<>> <=> N = 0)
  BY DEF AreInLine
<1>2. /\ all \in Seq(DrawnTokens) /\ DOMAIN all = 1..N + 1 /\ all[N + 1] = token
      /\ \A i \in 1..N : all[i] = tokens[i]
  BY <1>1
<1> HIDE DEF all
<1>3. ASSUME NEW i \in 1..N + 1 PROVE all[i].start = IF i = 1 THEN 0 ELSE all[i - 1].start + all[i - 1].length
  <2>1. CASE i \in 1..N
    <3>1. i = 1 \/ i - 1 \in 1..N
      BY <1>1, <2>1
    <3> QED BY <1>1, <1>2, <2>1, <3>1 DEF AreInLine
  <2>2. CASE i = N + 1
    <3>1. N = 0 => token.start = 0
      BY <1>1 DEF RenderCursor
    <3>2. N # 0 => token.start = tokens[N].start + tokens[N].length
      BY <1>1 DEF RenderCursor, Last
    <3>3. N # 0 => N \in 1..N /\ i - 1 = N /\ i # 1
      BY <1>1, <2>2
    <3> QED BY <1>1, <1>2, <2>2, <3>1, <3>2, <3>3
  <2> QED BY <1>1, <2>1, <2>2
<1>4. AreInLine(all)
  BY <1>2, <1>3 DEF AreInLine
<1> QED BY <1>4 DEF all

\* Where the tokens of a line end.
LEMMA RenderCursorIsNumber ==
  ASSUME NEW tokens \in Seq(DrawnTokens)
  PROVE  RenderCursor(tokens) \in Nat
<1>1. tokens # <<>> => tokens[Len(tokens)] \in DrawnTokens
  OBVIOUS
<1> QED BY <1>1 DEF RenderCursor, Last, DrawnTokens

-----------------------------------------------------------------------------
(* The parts of a line.                                                    *)

\* indexOf is -1, or a place from there on.
LEMMA IndexIsThere ==
  ASSUME NEW line, Len(line) \in Nat, NEW from \in Nat
  PROVE  IndexOf(line, from) = -1 \/ IndexOf(line, from) \in from..(Len(line) - 1)
<1> DEFINE places == {i \in from..(Len(line) - 1) : line[i + 1] = Separator}
<1>1. places \subseteq Nat /\ places \subseteq from..(Len(line) - 1)
  OBVIOUS
<1>2. IndexOf(line, from) = IF places = {} THEN -1 ELSE CHOOSE i \in places : \A j \in places : i <= j
  BY DEF IndexOf
<1> HIDE DEF places
<1>3. places # {} => \E i \in places : \A j \in places : i <= j
  BY <1>1, LeastNatural
<1> QED BY <1>1, <1>2, <1>3

\* A structured line has four parts that lie in it, but for a target without an end.
LEMMA PartsAreInLine ==
  ASSUME NEW line, Len(line) \in Nat, parseLine(line).kind = "structured"
  PROVE  /\ parseLine(line).message \in Nat
         /\ \A n \in 1..4 : parseLine(line).offsets[n] \in RawSpans
<1> DEFINE timeEnd == IndexOf(line, 0)
           levelEnd == IndexOf(line, timeEnd + 1)
           targetEnd == IndexOf(line, levelEnd + 1)
           parts == <<timeEnd, levelEnd - timeEnd - 1, (IF targetEnd = -1 THEN Len(line) ELSE targetEnd) - levelEnd - 1>>
           plain == line = <<>> \/ timeEnd <= 0 \/ levelEnd = -1 \/ line[1] # "1" \/ \E i \in 1..3 : parts[i] <= 0
           offsets == <<Span(0, timeEnd), Span(timeEnd + 1, levelEnd), Span(levelEnd + 1, targetEnd), Span(targetEnd + 1, Len(line))>>
           message == IF targetEnd = -1 THEN 0 ELSE Len(line) - targetEnd - 1
           structured == [kind |-> "structured", offsets |-> offsets, message |-> message]
<1>1. parseLine(line) = IF plain THEN [kind |-> "plain", full |-> Span(0, Len(line))] ELSE structured
  BY DEF parseLine
<1>2. ~plain /\ parseLine(line) = structured
  <2> HIDE DEF plain, structured
  <2>1. [kind |-> "plain", full |-> Span(0, Len(line))].kind # "structured"
    OBVIOUS
  <2> QED BY <1>1, <2>1
<1>3. timeEnd = -1 \/ timeEnd \in 0..(Len(line) - 1)
  BY IndexIsThere
<1> HIDE DEF timeEnd
<1>4. ~(timeEnd <= 0) /\ levelEnd # -1
  BY <1>2
<1>5. timeEnd \in Nat /\ timeEnd + 1 \in Nat
  BY <1>3, <1>4
<1>6. levelEnd \in (timeEnd + 1)..(Len(line) - 1)
  <2>1. levelEnd = -1 \/ levelEnd \in (timeEnd + 1)..(Len(line) - 1)
    BY <1>5, IndexIsThere
  <2> QED BY <1>4, <2>1
<1>7. ~(levelEnd - timeEnd - 1 <= 0)
  BY <1>2
<1> HIDE DEF levelEnd
<1>8. targetEnd = -1 \/ targetEnd \in (levelEnd + 1)..(Len(line) - 1)
  BY <1>5, <1>6, IndexIsThere
<1> HIDE DEF targetEnd
<1>9. message \in Nat
  BY <1>5, <1>6, <1>8
<1>10. \A from, to \in Int : from <= to \/ to < 0 => Span(from, to) \in RawSpans
  BY DEF Span, RawSpans
<1>11. /\ Span(0, timeEnd) \in RawSpans /\ Span(timeEnd + 1, levelEnd) \in RawSpans
       /\ Span(levelEnd + 1, targetEnd) \in RawSpans /\ Span(targetEnd + 1, Len(line)) \in RawSpans
  BY <1>5, <1>6, <1>8, <1>10
<1>12. \A n \in 1..4 : offsets[n] \in RawSpans
  BY <1>11
<1> HIDE DEF offsets, message
<1> QED BY <1>2, <1>9, <1>12

\* The tokens of a line come one after another.
LEMMA TokensAreInLine ==
  ASSUME NEW line, Len(line) \in Nat, partsSize \in Sizes
  PROVE  AreInLine(tokenize(line))
<1> DEFINE parsed == parseLine(line)
           length(n) == IF n = 4 THEN parsed.message ELSE partsSize[n]
           token(n, tokens) == Token(Parts[n], parsed.offsets[n], RenderCursor(tokens), length(n))
           isShown(n) == Parts[n] \in partsShown /\ length(n) > 0
           Next1(tokens, n) == IF isShown(n) THEN Append(tokens, token(n, tokens)) ELSE tokens
           IsPushed(f) == f = [n \in 0..4 |-> IF n = 0 THEN <<>> ELSE IF isShown(n) THEN Append(f[n - 1], token(n, f[n - 1])) ELSE f[n - 1]]
           pushed == CHOOSE f : IsPushed(f)
           Lists == Seq(DrawnTokens)
           Fine == {n \in 0..4 : AreInLine(pushed[n])}
<1>1. AreInLine(<<>>)
  <2>1. PICK s : s = <<>> /\ s \in Lists /\ Len(s) = 0
    BY EmptySeq
  <2>2. AreInLine(s)
    BY <2>1 DEF AreInLine
  <2> QED BY <2>1, <2>2
<1>2. CASE parsed.kind = "structured"
  <2>1. tokenize(line) = pushed[4]
    BY <1>2 DEF tokenize
  <2>2. ASSUME NEW n \in 1..4 PROVE length(n) \in Nat /\ Parts[n] \in Kinds /\ parsed.offsets[n] \in RawSpans
    <3>1. parsed.message \in Nat /\ parsed.offsets[n] \in RawSpans
      BY <1>2, PartsAreInLine
    <3>2. partsSize \in [1..3 -> Nat \ {0}] /\ (n = 4 \/ n \in 1..3)
      BY LogViewAssumption
    <3>3. Parts[n] \in Kinds
      BY DEF Parts, Kinds
    <3> HIDE DEF parsed
    <3> QED BY <3>1, <3>2, <3>3
  <2> HIDE DEF parsed
  <2>3. ASSUME NEW n \in 1..4, NEW tokens \in Lists
        PROVE  token(n, tokens) \in DrawnTokens /\ token(n, tokens).start = RenderCursor(tokens) /\ Next1(tokens, n) \in Lists
    <3>1. RenderCursor(tokens) \in Nat
      BY RenderCursorIsNumber
    <3>2. token(n, tokens) \in DrawnTokens /\ token(n, tokens).start = RenderCursor(tokens)
      BY <2>2, <3>1 DEF Token, DrawnTokens
    <3> HIDE DEF token, isShown
    <3> QED BY <3>2
  <2> HIDE DEF isShown, token
  <2>4. \A n \in 0..4 : pushed[n] = IF n = 0 THEN <<>> ELSE Next1(pushed[n - 1], n)
    <3> DEFINE Further == [n \in 1..4 |-> [tokens \in Lists |-> Next1(tokens, n)]]
    <3>1. \A n \in 1..4 : \A tokens \in Lists : Further[n][tokens] = Next1(tokens, n) /\ Further[n][tokens] \in Lists
      <4> HIDE DEF Next1, Lists
      <4> QED BY <2>3
    <3>2. <<>> \in Lists
      BY EmptySeq
    <3> HIDE DEF Further, Lists
    <3>3. PICK f \in [0..4 -> Lists] : f[0] = <<>> /\ \A n \in 1..4 : f[n] = Further[n][f[n - 1]]
      <4>1. 4 \in Nat /\ StepsWithin(Further, 4, Lists)
        BY <3>1 DEF StepsWithin
      <4>2. \E f : Iterates(f, 4, Lists, <<>>, Further)
        BY <3>2, <4>1, RecursionUpTo
      <4> QED BY <4>2 DEF Iterates
    <3>4. ASSUME NEW n \in 1..4 PROVE f[n] = Next1(f[n - 1], n)
      <4>1. n - 1 \in 0..4 /\ f[n - 1] \in Lists
        BY <3>3
      <4> HIDE DEF Next1
      <4> QED BY <3>1, <3>3, <4>1
    <3>5. IsPushed(f)
      <4>1. f = [n \in 0..4 |-> f[n]] /\ \A n \in 0..4 : n = 0 \/ n \in 1..4
        BY <3>3
      <4>2. \A n \in 0..4 : f[n] = IF n = 0 THEN <<>> ELSE IF isShown(n) THEN Append(f[n - 1], token(n, f[n - 1])) ELSE f[n - 1]
        <5>1. \A n \in 1..4 : f[n] = IF isShown(n) THEN Append(f[n - 1], token(n, f[n - 1])) ELSE f[n - 1]
          BY <3>4
        <5>2. f[0] = <<>> /\ \A n \in 1..4 : n # 0
          BY <3>3
        <5> QED BY <4>1, <5>1, <5>2
      <4> QED BY <4>1, <4>2
    <3>6. IsPushed(pushed)
      <4>1. \E g : IsPushed(g)
        BY <3>5
      <4> HIDE DEF IsPushed
      <4> QED BY <4>1
    <3> HIDE DEF pushed
    <3> QED BY <3>6
  <2> HIDE DEF pushed, Next1
  <2>5. 0 \in Fine
    BY <1>1, <2>4
  <2>6. ASSUME NEW n \in 1..4, n - 1 \in Fine PROVE n \in Fine
    <3>1. AreInLine(pushed[n - 1]) /\ pushed[n - 1] \in Lists /\ pushed[n] = Next1(pushed[n - 1], n)
      BY <2>4, <2>6 DEF AreInLine
    <3>2. AreInLine(Append(pushed[n - 1], token(n, pushed[n - 1])))
      BY <2>3, <3>1, OneMoreInLine
    <3> QED BY <3>1, <3>2 DEF Next1
  <2>7. \A n \in 0..4 : n \in Fine
    <3> HIDE DEF Fine
    <3> QED BY <2>5, <2>6, InductionUpTo
  <2>8. AreInLine(pushed[4])
    BY <2>7
  <2> QED BY <2>1, <2>8
<1>3. CASE parsed.kind # "structured"
  <2>1. CASE "message" \notin partsShown
    <3>1. tokenize(line) = <<>>
      BY <1>3, <2>1 DEF tokenize
    <3> QED BY <1>1, <3>1
  <2>2. CASE "message" \in partsShown
    <3> DEFINE whole == Token("message", parsed.full, 0, Len(line))
    <3>1. tokenize(line) = <<whole>>
      BY <1>3, <2>2 DEF tokenize
    <3>2. parsed.full = Span(0, Len(line))
      BY <1>3 DEF parseLine
    <3>3. whole \in DrawnTokens /\ whole.start = 0
      BY <3>2 DEF Token, Span, DrawnTokens, RawSpans, Kinds
    <3> HIDE DEF whole
    <3>4. AreInLine(Append(<<>>, whole))
      <4>1. RenderCursor(<<>>) = 0
        BY DEF RenderCursor
      <4> QED BY <1>1, <3>3, <4>1, OneMoreInLine
    <3> QED BY <3>1, <3>4
  <2> QED BY <2>1, <2>2
<1> QED BY <1>2, <1>3

-----------------------------------------------------------------------------
(* The search in a log (module LogView): the matches are those of the list *)
(* that is shown, unless the search is to be done again.                   *)

\* One of the matches reaches over a place.
Covers(matches, at, length) == \E p \in ToSet(matches) : p <= at /\ at < p + length

\* The matches that are found in a line are places where the text is, and reach over those that are left out.
LEMMA MatchesAreRight ==
  ASSUME NEW line \in LogLines, NEW needle \in Needles
  PROVE  /\ MatchesIn(line, needle) \in Seq({at \in Nat : Occurs(line, needle[1], at)})
         /\ \A at \in 0..(Len(line) - 1) :
              Occurs(line, needle[1], at) => Covers(MatchesIn(line, needle), at, Len(needle[1]))
<1> DEFINE N == Len(line)
           L == Len(needle[1])
           Places(n) == {at \in 0..(n - 1) : Occurs(line, needle[1], at)}
           IsRight(s, n) == s \in Seq(Places(n)) /\ \A at \in Places(n) : Covers(s, at, L)
           Next1(before, n) ==
             IF Occurs(line, needle[1], n - 1) /\ ~(needle[2] /\ before # <<>> /\ n <= Last(before) + L)
             THEN Append(before, n - 1) ELSE before
           IsFound(f, n) == f = [i \in 0..n |-> IF i = 0 THEN <<>> ELSE Next1(f[i - 1], i)]
           Without == {n \in 0..N : ~\E f : IsFound(f, n)}
           found == CHOOSE f : IsFound(f, N)
           Wrong == {n \in 0..N : ~IsRight(found[n], n)}
<1>1. N \in Nat /\ L \in Nat /\ L >= 1
  BY LogViewAssumption
<1>2. MatchesIn(line, needle) = found[N]
  BY DEF MatchesIn
<1>3. ASSUME NEW n \in Nat \ {0}, NEW before, IsRight(before, n - 1) PROVE IsRight(Next1(before, n), n)
  <2>1. Places(n - 1) \subseteq Places(n) /\ \A at \in Places(n) : at \in Int /\ (at \in Places(n - 1) \/ at = n - 1)
    OBVIOUS
  <2>2. before \in Seq(Places(n - 1)) /\ before \in Seq(Places(n)) /\ \A at \in Places(n - 1) : Covers(before, at, L)
    <3> HIDE DEF Places
    <3> QED BY <1>3, <2>1
  <2>3. n - 1 \in Places(n) <=> Occurs(line, needle[1], n - 1)
    OBVIOUS
  <2>4. \A at \in Places(n - 1) : at <= n - 1
    OBVIOUS
  <2> HIDE DEF Places
  <2>5. CASE Occurs(line, needle[1], n - 1) /\ ~(needle[2] /\ before # <<>> /\ n <= Last(before) + L)
    <3>1. Next1(before, n) = Append(before, n - 1)
      BY <2>5
    <3>2. Append(before, n - 1) \in Seq(Places(n)) /\ ToSet(Append(before, n - 1)) = ToSet(before) \cup {n - 1}
      BY <2>2, <2>3, <2>5, AppendAdds
    <3>3. Covers(Append(before, n - 1), n - 1, L)
      <4>1. n - 1 <= n - 1 /\ n - 1 < n - 1 + L
        BY <1>1
      <4> HIDE DEF Next1, L
      <4> QED BY <3>2, <4>1 DEF Covers
    <3>4. \A at \in Places(n - 1) : Covers(Append(before, n - 1), at, L)
      BY <2>2, <3>2 DEF Covers
    <3> HIDE DEF Next1
    <3> QED BY <2>1, <3>1, <3>2, <3>3, <3>4
  <2>6. CASE ~(Occurs(line, needle[1], n - 1) /\ ~(needle[2] /\ before # <<>> /\ n <= Last(before) + L))
    <3>1. Next1(before, n) = before
      BY <2>6
    <3>2. ASSUME n - 1 \in Places(n) PROVE Covers(before, n - 1, L)
      <4>1. before # <<>> /\ n <= Last(before) + L
        BY <2>3, <2>6, <3>2
      <4>2. Len(before) \in DOMAIN before /\ Last(before) = before[Len(before)] /\ before[Len(before)] \in Places(n - 1)
        BY <2>2, <4>1, DropsLast
      <4>3. Last(before) \in ToSet(before) /\ Last(before) \in Places(n - 1) /\ Last(before) \in Int
        BY <2>1, <4>2 DEF ToSet
      <4>4. Last(before) <= n - 1 /\ n - 1 < Last(before) + L
        BY <1>1, <2>4, <4>1, <4>3
      <4> QED BY <4>3, <4>4 DEF Covers
    <3> HIDE DEF Next1
    <3> QED BY <2>1, <2>2, <3>1, <3>2
  <2> QED BY <2>5, <2>6
<1>9. IsRight(<<>>, 0)
  <2>1. Places(0) = {}
    OBVIOUS
  <2> HIDE DEF Places
  <2> QED BY <2>1, EmptySeq
<1> HIDE DEF Next1, IsRight
<1>4. \E f : IsFound(f, N)
  <2> SUFFICES ASSUME Without # {} PROVE FALSE
    BY <1>1
  <2>1. PICK m \in Without : \A k \in Without : m <= k
    <3>1. Without \subseteq Nat
      OBVIOUS
    <3> HIDE DEF Without
    <3> QED BY <3>1, LeastNatural
  <2>2. m \in 0..N /\ ~\E f : IsFound(f, m)
    OBVIOUS
  <2>3. CASE m = 0
    <3>1. IsFound([i \in 0..0 |-> <<>>], 0)
      OBVIOUS
    <3> QED BY <2>2, <2>3, <3>1
  <2>4. CASE m # 0
    <3>1. m - 1 \in 0..N /\ m - 1 \notin Without
      <4>1. m - 1 \in 0..N /\ ~(m <= m - 1)
        BY <1>1, <2>2, <2>4
      <4> HIDE DEF Without
      <4> QED BY <2>1, <4>1
    <3>2. PICK f : IsFound(f, m - 1)
      BY <3>1
    <3> DEFINE g == [i \in 0..m |-> IF i = m THEN Next1(f[m - 1], m) ELSE f[i]]
    <3>3. IsFound(g, m)
      <4>1. \A i \in 0..(m - 1) : f[i] = IF i = 0 THEN <<>> ELSE Next1(f[i - 1], i)
        BY <3>2
      <4>2. ASSUME NEW i \in 0..m PROVE g[i] = IF i = 0 THEN <<>> ELSE Next1(g[i - 1], i)
        BY <2>2, <2>4, <4>1
      <4> QED BY <4>2
    <3> QED BY <2>2, <3>3
  <2> QED BY <2>3, <2>4
<1>5. IsFound(found, N)
  BY <1>4
<1> HIDE DEF found
<1>6. \A i \in 0..N : found[i] = IF i = 0 THEN <<>> ELSE Next1(found[i - 1], i)
  BY <1>5
<1>7. IsRight(found[N], N)
  <2> SUFFICES ASSUME Wrong # {} PROVE FALSE
    BY <1>1
  <2>1. PICK m \in Wrong : \A k \in Wrong : m <= k
    <3>1. Wrong \subseteq Nat
      OBVIOUS
    <3> HIDE DEF Wrong
    <3> QED BY <3>1, LeastNatural
  <2>2. m \in 0..N /\ ~IsRight(found[m], m)
    OBVIOUS
  <2>3. m # 0
    BY <1>1, <1>6, <1>9, <2>2
  <2>4. m - 1 \in 0..N /\ m - 1 \notin Wrong /\ m \in Nat \ {0}
    <3>1. m \in Nat \ {0} /\ m - 1 \in 0..N /\ ~(m <= m - 1)
      BY <1>1, <2>2, <2>3
    <3> HIDE DEF Wrong
    <3> QED BY <2>1, <3>1
  <2>5. IsRight(found[m - 1], m - 1) /\ found[m] = Next1(found[m - 1], m)
    BY <1>6, <2>2, <2>3, <2>4
  <2> QED BY <1>3, <2>2, <2>4, <2>5
<1>8. found[N] \in Seq({at \in Nat : Occurs(line, needle[1], at)})
  <2>1. Places(N) \subseteq {at \in Nat : Occurs(line, needle[1], at)}
    BY <1>1
  <2> QED BY <1>7, <2>1 DEF IsRight
<1> QED BY <1>2, <1>7, <1>8 DEF IsRight

\* Where a text is in a list of lines.
MatchesOf(list, needle) ==
  {m \in [line : Nat, from : Nat, to : Int] :
     m.from < m.to /\ m.line + 1 \in DOMAIN list /\ Occurs(list[m.line + 1], needle[1], m.from)}

\* What is found in a list is in it, where it is found.
LEMMA FoundAreThere ==
  ASSUME NEW list \in Seq(LogLines), NEW needle \in Needles
  PROVE  /\ FoundIn(list, needle) \in Seq(MatchesOf(list, needle))
         /\ \A i \in DOMAIN list : \A at \in 0..(Len(list[i]) - 1) :
              Occurs(list[i], needle[1], at) =>
                \E m \in ToSet(FoundIn(list, needle)) : m.line = i - 1 /\ m.from <= at /\ at < m.to
<1> DEFINE PlacesIn(i) == MatchesIn(list[i], needle)
           InLine(i) == [k \in DOMAIN PlacesIn(i) |-> [line |-> i - 1, from |-> PlacesIn(i)[k], to |-> PlacesIn(i)[k] + Len(needle[1])]]
           lists == [i \in DOMAIN list |-> InLine(i)]
<1>1. Len(list) \in Nat /\ DOMAIN list = 1..Len(list) /\ \A i \in DOMAIN list : list[i] \in LogLines
  OBVIOUS
<1>2. Len(needle[1]) \in Nat \ {0}
  BY LogViewAssumption
<1>3. ASSUME NEW i \in DOMAIN list PROVE InLine(i) \in Seq(MatchesOf(list, needle))
  <2>1. PICK at, P : at = PlacesIn(i) /\ P = {p \in Nat : Occurs(list[i], needle[1], p)} /\ at \in Seq(P)
    BY <1>1, MatchesAreRight
  <2>2. Len(at) \in Nat /\ DOMAIN at = 1..Len(at) /\ \A k \in DOMAIN at : at[k] \in Nat /\ Occurs(list[i], needle[1], at[k])
    BY <2>1
  <2>3. i - 1 \in Nat /\ (i - 1) + 1 = i
    BY <1>1
  <2>4. ASSUME NEW k \in DOMAIN at
        PROVE  [line |-> i - 1, from |-> at[k], to |-> at[k] + Len(needle[1])] \in MatchesOf(list, needle)
    BY <1>2, <2>2, <2>3 DEF MatchesOf
  <2>5. InLine(i) = [k \in 1..Len(at) |-> [line |-> i - 1, from |-> at[k], to |-> at[k] + Len(needle[1])]]
    BY <2>1, <2>2
  <2> DEFINE there == [k \in 1..Len(at) |-> [line |-> i - 1, from |-> at[k], to |-> at[k] + Len(needle[1])]]
  <2>6. there \in Seq(MatchesOf(list, needle))
    <3> HIDE DEF MatchesOf
    <3> QED BY <2>2, <2>4
  <2> QED BY <2>5, <2>6
<1>4. lists \in Seq(Seq(MatchesOf(list, needle)))
  <2> HIDE DEF InLine
  <2> QED BY <1>1, <1>3
<1>5. FoundIn(list, needle) = FlattenSeq(lists)
  BY DEF FoundIn
<1>6. ASSUME NEW i \in DOMAIN list, NEW at \in 0..(Len(list[i]) - 1), Occurs(list[i], needle[1], at)
      PROVE  \E m \in ToSet(lists[i]) : m.line = i - 1 /\ m.from <= at /\ at < m.to
  <2>1. Covers(PlacesIn(i), at, Len(needle[1]))
    BY <1>1, <1>6, MatchesAreRight
  <2>2. PICK k \in DOMAIN PlacesIn(i) : PlacesIn(i)[k] <= at /\ at < PlacesIn(i)[k] + Len(needle[1])
    <3> HIDE DEF PlacesIn
    <3> QED BY <2>1 DEF Covers, ToSet
  <2>3. PICK m : m = [line |-> i - 1, from |-> PlacesIn(i)[k], to |-> PlacesIn(i)[k] + Len(needle[1])]
    OBVIOUS
  <2>4. m \in ToSet(InLine(i)) /\ lists[i] = InLine(i)
    <3>1. k \in DOMAIN InLine(i) /\ InLine(i)[k] = m
      BY <2>2, <2>3
    <3> HIDE DEF InLine
    <3> QED BY <3>1 DEF ToSet
  <2> QED BY <2>2, <2>3, <2>4
<1>7. DOMAIN lists = DOMAIN list
  OBVIOUS
<1> HIDE DEF lists
<1>8. FoundIn(list, needle) \in Seq(MatchesOf(list, needle)) /\ \A i \in DOMAIN lists : ToSet(lists[i]) \subseteq ToSet(FoundIn(list, needle))
  BY <1>4, <1>5, FlatSequence
<1> QED BY <1>6, <1>7, <1>8

LogViewTypes ==
  /\ logs \in Seq(LogLines) /\ searching \in Needles \cup {None} /\ pending \in BOOLEAN
  /\ DOMAIN search = {"active", "index", "matches"}
  /\ search.matches \in Seq(SearchMatches)
  /\ search.index \in 0..Greatest(0, Len(search.matches) - 1)
  /\ partsShown \subseteq ToSet(Parts) /\ partsSize \in Sizes /\ position \in Nat

LogViewInv == LogViewTypes /\ SearchIsCurrent

LogViewSafety == LogViewInit /\ [][LogViewNext]_logViewVars

\* No matches are matches, and the first of them is current.
LEMMA NoSearchIsTyped ==
  /\ DOMAIN NoSearch = {"active", "index", "matches"} /\ NoSearch.matches = <<>>
  /\ NoSearch.matches \in Seq(SearchMatches)
  /\ NoSearch.index \in 0..Greatest(0, Len(NoSearch.matches) - 1)
<1>1. PICK none : none = <<>> /\ none \in Seq(SearchMatches) /\ Len(none) = 0
  BY EmptySeq
<1>2. NoSearch = [active |-> FALSE, index |-> 0, matches |-> none]
  BY <1>1 DEF NoSearch
<1> QED BY <1>1, <1>2 DEF Greatest

\* What is filtered are lines of the log.
LEMMA FilteredAreLines ==
  ASSUME LogViewTypes
  PROVE  Filtered \in Seq(LogLines)
BY SelectedAre DEF LogViewTypes, Filtered

\* At the start nothing is searched for.
LEMMA LogViewStarts == LogViewInit => LogViewInv
<1> SUFFICES ASSUME LogViewInit PROVE LogViewInv
  OBVIOUS
<1>1. logs \in Seq(LogLines)
  BY EmptySeq DEF LogViewInit
<1>2. LogViewTypes
  BY <1>1, NoSearchIsTyped DEF LogViewInit, LogViewTypes
<1>3. SearchIsCurrent
  BY NoSearchIsTyped DEF LogViewInit, SearchIsCurrent
<1> QED BY <1>2, <1>3 DEF LogViewInv

\* The search begins anew: what it finds is what is there.
LEMMA SearchBegins ==
  ASSUME LogViewInv, Search
  PROVE  LogViewInv'
<1>1. LogViewTypes /\ Filtered \in Seq(LogLines)
  BY FilteredAreLines DEF LogViewInv
<1>2. /\ pending' = FALSE /\ Filtered' = Filtered
      /\ logs' = logs /\ searching' = searching /\ UNCHANGED <<partsShown, partsSize, position>>
  BY DEF Search, Filtered
<1>3. CASE searching = None
  <2>1. search' = NoSearch
    BY <1>3 DEF Search
  <2> QED BY <1>1, <1>2, <1>3, <2>1, NoSearchIsTyped DEF LogViewInv, LogViewTypes, SearchIsCurrent
<1>4. CASE searching # None
  <2>1. searching \in Needles
    BY <1>1, <1>4 DEF LogViewTypes
  <2>2. PICK list, found : list = Filtered /\ list \in Seq(LogLines) /\ found = FoundIn(list, searching)
    BY <1>1
  <2>3. /\ found \in Seq(MatchesOf(list, searching))
        /\ \A i \in DOMAIN list : \A at \in 0..(Len(list[i]) - 1) :
             Occurs(list[i], searching[1], at) =>
               \E m \in ToSet(found) : m.line = i - 1 /\ m.from <= at /\ at < m.to
    BY <2>1, <2>2, FoundAreThere
  <2>4. PICK matches : matches = [k \in DOMAIN found |-> [line |-> found[k].line, from |-> found[k].from,
                                                          to |-> found[k].to, globalIndex |-> k - 1]]
    OBVIOUS
  <2>5. PICK anew : anew = [active |-> TRUE, index |-> 0, matches |-> matches]
    OBVIOUS
  <2>6. search' = anew
    BY <1>4, <2>2, <2>4, <2>5 DEF Search
  <2>7. /\ DOMAIN found = 1..Len(found) /\ Len(found) \in Nat
        /\ \A k \in DOMAIN found : found[k] \in MatchesOf(list, searching)
    BY <2>3
  <2>8. \A k \in DOMAIN found : /\ found[k].line \in Nat /\ found[k].from \in Nat /\ found[k].to \in Int
                                /\ found[k].from < found[k].to
                                /\ found[k].line + 1 \in DOMAIN list /\ Occurs(list[found[k].line + 1], searching[1], found[k].from)
    BY <2>7 DEF MatchesOf
  <2>9. /\ DOMAIN matches = DOMAIN found
        /\ \A k \in DOMAIN found : /\ matches[k] \in SearchMatches
                                   /\ matches[k].line = found[k].line /\ matches[k].from = found[k].from /\ matches[k].to = found[k].to
    BY <2>4, <2>7, <2>8 DEF SearchMatches
  <2>10. matches \in Seq(SearchMatches) /\ Len(matches) = Len(found)
    BY <2>4, <2>7, <2>9
  <2>11. LogViewTypes'
    <3>1. DOMAIN anew = {"active", "index", "matches"} /\ anew.matches = matches /\ anew.index = 0
      BY <2>5
    <3>2. 0 \in 0..Greatest(0, Len(matches) - 1)
      BY <2>7, <2>10 DEF Greatest
    <3> QED BY <1>1, <1>2, <2>6, <2>10, <3>1, <3>2 DEF LogViewTypes
  <2>12. search'.matches = matches
    BY <2>5, <2>6
  <2>13. ASSUME NEW k \in DOMAIN matches
         PROVE  matches[k].line + 1 \in DOMAIN list /\ Occurs(list[matches[k].line + 1], searching[1], matches[k].from)
    BY <2>8, <2>9
  <2>14. ASSUME NEW i \in DOMAIN list, NEW at \in 0..(Len(list[i]) - 1), Occurs(list[i], searching[1], at)
         PROVE  \E k \in DOMAIN matches : matches[k].line = i - 1 /\ matches[k].from <= at /\ at < matches[k].to
    <3>1. PICK m \in ToSet(found) : m.line = i - 1 /\ m.from <= at /\ at < m.to
      BY <2>3, <2>14
    <3>2. PICK k \in DOMAIN found : found[k] = m
      BY <3>1 DEF ToSet
    <3> QED BY <2>9, <3>1, <3>2
  <2>15. SearchIsCurrent'
    BY <1>2, <1>4, <2>2, <2>12, <2>13, <2>14 DEF SearchIsCurrent
  <2> QED BY <2>11, <2>15 DEF LogViewInv
<1> QED BY <1>3, <1>4

\* Another match becomes the current one.
LEMMA SearchGoesOn ==
  ASSUME LogViewInv, NEW step \in {-1, 1}, goTo(step)
  PROVE  LogViewInv'
<1>1. LogViewTypes /\ SearchIsCurrent
  BY DEF LogViewInv
<1>2. PICK n : n = Len(search.matches) /\ n \in Nat \ {0}
  BY <1>1 DEF LogViewTypes, goTo
<1>3. PICK index : index = (search.index + step + n) % n
  OBVIOUS
<1>4. search.index \in Int /\ index \in 0..(n - 1)
  <2>1. search.index \in Int
    BY <1>1, <1>2 DEF LogViewTypes, Greatest
  <2>2. PICK x : x = search.index + step + n /\ x \in Int
    BY <1>2, <2>1
  <2>3. x % n \in 0..(n - 1)
    BY <1>2, <2>2
  <2> QED BY <1>3, <2>1, <2>2, <2>3
<1>5. PICK s : s = [search EXCEPT !.index = index]
  OBVIOUS
<1>6. /\ search' = s /\ pending' = pending /\ Filtered' = Filtered
      /\ logs' = logs /\ searching' = searching /\ UNCHANGED <<partsShown, partsSize, position>>
  BY <1>2, <1>3, <1>5 DEF goTo, Filtered
<1>7. DOMAIN s = {"active", "index", "matches"} /\ s.matches = search.matches /\ s.index = index
  BY <1>1, <1>5 DEF LogViewTypes
<1>8. index \in 0..Greatest(0, Len(search.matches) - 1)
  BY <1>2, <1>4 DEF Greatest
<1>9. LogViewTypes'
  BY <1>1, <1>6, <1>7, <1>8 DEF LogViewTypes
<1>10. SearchIsCurrent'
  BY <1>1, <1>6, <1>7 DEF SearchIsCurrent
<1> QED BY <1>9, <1>10 DEF LogViewInv

\* What is shown or looked for changes: the search is to be done again.
LEMMA SearchIsRepeated ==
  ASSUME LogViewInv, \/ ResetSearch \/ LogChanges \/ (\E needle \in Needles : SearchFor(needle))
                     \/ (\E line \in LogLines : LogGrows(line)) \/ (\E filter \in DOMAIN Filters : Filter(filter))
  PROVE  LogViewInv'
<1>1. LogViewTypes
  BY DEF LogViewInv
<1>2. pending' = TRUE /\ UNCHANGED <<partsShown, partsSize, position>> /\ (search' = search \/ search' = NoSearch)
  BY <1>1 DEF LogViewTypes, ResetSearch, LogChanges, SearchFor, LogGrows, Filter, Changed
<1>3. logs' \in Seq(LogLines) /\ searching' \in Needles \cup {None}
  <2>1. logs \in Seq(LogLines) /\ searching \in Needles \cup {None}
    BY <1>1 DEF LogViewTypes
  <2>2. CASE \E line \in LogLines : LogGrows(line)
    BY <2>1, <2>2 DEF LogGrows
  <2>3. CASE LogChanges
    <3>1. PICK line \in LogLines : logs' = <<line>>
      BY <2>3 DEF LogChanges
    <3>2. searching' = searching
      BY <2>3 DEF LogChanges
    <3> QED BY <2>1, <3>1, <3>2
  <2>4. CASE ResetSearch \/ (\E needle \in Needles : SearchFor(needle)) \/ (\E filter \in DOMAIN Filters : Filter(filter))
    BY <2>1, <2>4 DEF ResetSearch, SearchFor, Filter
  <2> QED BY <2>2, <2>3, <2>4
<1>4. LogViewTypes'
  <2>1. CASE search' = search
    BY <1>1, <1>2, <1>3, <2>1 DEF LogViewTypes
  <2>2. CASE search' = NoSearch
    BY <1>1, <1>2, <1>3, <2>2, NoSearchIsTyped DEF LogViewTypes
  <2> QED BY <1>2, <2>1, <2>2
<1>5. SearchIsCurrent'
  BY <1>2 DEF SearchIsCurrent
<1> QED BY <1>4, <1>5 DEF LogViewInv

\* Every step of the viewer.
LEMMA LogViewSteps ==
  ASSUME LogViewInv, [LogViewNext]_logViewVars
  PROVE  LogViewInv'
<1>1. ASSUME UNCHANGED <<logs, filtering, searching, search, pending>>,
             partsShown' \subseteq ToSet(Parts), partsSize' \in Sizes, position' \in Nat
      PROVE  LogViewInv'
  BY <1>1 DEF LogViewInv, LogViewTypes, SearchIsCurrent, Filtered
<1>2. CASE Search
  BY <1>2, SearchBegins
<1>3. CASE \E step \in {-1, 1} : goTo(step)
  BY <1>3, SearchGoesOn
<1>4. CASE \/ ResetSearch \/ LogChanges \/ (\E needle \in Needles : SearchFor(needle))
           \/ (\E line \in LogLines : LogGrows(line)) \/ (\E filter \in DOMAIN Filters : Filter(filter))
  BY <1>4, SearchIsRepeated
<1>5. CASE resizeSection \/ updateView \/ (\E section \in ToSet(Parts) : toggleSection(section)) \/ UNCHANGED logViewVars
  <2>1. /\ partsShown \subseteq ToSet(Parts) /\ partsSize \in Sizes /\ position \in Nat
        /\ Filtered \in Seq(LogLines)
    BY FilteredAreLines DEF LogViewInv, LogViewTypes
  <2>2. UNCHANGED <<logs, filtering, searching, search, pending>>
    BY <1>5 DEF resizeSection, updateView, toggleSection, logViewVars
  <2>3. partsShown' \subseteq ToSet(Parts)
    BY <1>5, <2>1 DEF resizeSection, updateView, toggleSection, logViewVars
  <2>4. partsSize' \in Sizes
    BY <1>5, <2>1 DEF resizeSection, updateView, toggleSection, logViewVars
  <2>5. position' \in Nat
    <3>1. updateView => position' \in 0..Len(Filtered)
      BY DEF updateView
    <3>2. updateView => position' \in Nat
      BY <3>1
    <3>3. ~updateView => position' = position
      BY <1>5 DEF resizeSection, toggleSection, logViewVars
    <3> QED BY <2>1, <3>2, <3>3
  <2> QED BY <1>1, <2>2, <2>3, <2>4, <2>5
<1> QED BY <1>2, <1>3, <1>4, <1>5 DEF LogViewNext

\* The types of the viewer, and the matches that it shows.
THEOREM LogViewInvariance == LogViewSafety => []LogViewInv
BY LogViewStarts, LogViewSteps, PTL DEF LogViewSafety

\* Of the text that is searched for the viewer shows every place and no other, whenever the search is
\* not about to be repeated.
THEOREM MatchesAreCurrent == LogViewSafety => []SearchIsCurrent
<1>1. LogViewInv => SearchIsCurrent
  BY DEF LogViewInv
<1> QED BY <1>1, LogViewInvariance, PTL

\* The types of the log, its search and its parts.
THEOREM LogViewTypeCorrectness == LogViewSafety => []LogViewTypeOK
<1>1. LogViewInv => LogViewTypeOK
  BY DEF LogViewInv, LogViewTypes, LogViewTypeOK
<1> QED BY <1>1, LogViewInvariance, PTL

\* The segments of each line follow one another and make up its tokens.
LEMMA SegmentsAreTiles ==
  ASSUME LogViewTypes
  PROVE  SegmentsTile
<1> SUFFICES ASSUME NEW e \in DOMAIN Segments, position + e < Len(Filtered), ~MatchesOverlap(position + e)
             PROVE  /\ \A i \in DOMAIN tokenize(Filtered[position + e + 1]) :
                         tokenize(Filtered[position + e + 1])[i].start =
                           IF i = 1 THEN 0 ELSE tokenize(Filtered[position + e + 1])[i - 1].start
                                                + tokenize(Filtered[position + e + 1])[i - 1].length
                    /\ \A i \in DOMAIN Segments[e] :
                         /\ Segments[e][i].from < Segments[e][i].to
                         /\ Segments[e][i].from = (IF i = 1 THEN 0 ELSE Segments[e][i - 1].to)
                    /\ (IF Segments[e] = <<>> THEN 0 ELSE Last(Segments[e]).to)
                         = RenderCursor(tokenize(Filtered[position + e + 1]))
  BY DEF SegmentsTile
<1>1. e \in Nat /\ position \in Nat /\ partsSize \in Sizes /\ search.matches \in Seq(SearchMatches)
  BY DEF Segments, LogViewTypes
<1>2. PICK line : line = Filtered[position + e + 1] /\ line \in LogLines
  <2>1. Filtered \in Seq(LogLines)
    BY FilteredAreLines
  <2>2. position + e + 1 \in 1..Len(Filtered)
    BY <1>1, <2>1
  <2> QED BY <2>1, <2>2
<1>3. Len(line) \in Nat
  BY <1>2, LogViewAssumption
<1>4. PICK tokens : tokens = tokenize(line) /\ AreInLine(tokens)
  BY <1>1, <1>3, TokensAreInLine
<1> DEFINE here == {m \in ToSet(search.matches) : m.line = position + e}
           matches == Selected(search.matches, here)
           s == overlaySearch(tokens, matches, search.index)
<1>5. matches \in Seq(SearchMatches) /\ \A k \in DOMAIN matches : matches[k].line = position + e
  <2>1. matches \in Seq(SearchMatches) /\ ToSet(matches) = ToSet(search.matches) \cap here
    BY <1>1, SelectedAre
  <2>2. \A k \in DOMAIN matches : matches[k] \in here
    <3> HIDE DEF matches, here
    <3> QED BY <2>1 DEF ToSet
  <2> QED BY <2>1, <2>2
<1>6. ASSUME NEW k \in DOMAIN matches, NEW m \in DOMAIN matches, k < m
      PROVE  matches[k].to <= matches[m].from
  <2>1. PICK i, j \in DOMAIN search.matches : i < j /\ search.matches[i] = matches[k] /\ search.matches[j] = matches[m]
    <3> HIDE DEF here
    <3> QED BY <1>1, <1>6, SelectedInOrder
  <2>2. ~(search.matches[j].from < search.matches[i].to)
    BY <1>5, <2>1 DEF MatchesOverlap
  <2>3. search.matches[i] \in SearchMatches /\ search.matches[j] \in SearchMatches
    BY <1>1, <2>1
  <2> QED BY <2>1, <2>2, <2>3 DEF SearchMatches
<1>7. Segments[e] = s
  <2>1. ~(position + e >= Len(Filtered))
    <3>1. Len(Filtered) \in Nat
      BY FilteredAreLines
    <3> QED BY <1>1, <3>1
  <2> HIDE DEF matches
  <2> QED BY <1>2, <1>4, <2>1 DEF Segments, matches
<1> HIDE DEF matches
<1>8. Tiles(s, 0, RenderCursor(tokens))
  BY <1>4, <1>5, <1>6, LineIsDrawn
<1> HIDE DEF s
<1>9. \A i \in DOMAIN tokens : tokens[i].start = IF i = 1 THEN 0 ELSE tokens[i - 1].start + tokens[i - 1].length
  BY <1>4 DEF AreInLine
<1>10. /\ \A i \in DOMAIN s : s[i].from < s[i].to /\ s[i].from = IF i = 1 THEN 0 ELSE s[i - 1].to
       /\ RenderCursor(tokens) = IF s = <<>> THEN 0 ELSE Last(s).to
  BY <1>8 DEF Tiles, Last
<1> QED BY <1>2, <1>4, <1>7, <1>9, <1>10

(* Highlighting loses no text and doubles none: the segments of a line     *)
(* follow one another and make up its tokens, for any lines, widths and    *)
(* matches that do not overlap, those of an earlier list included          *)
(* (renderer.ts).                                                          *)
THEOREM HighlightingIsWhole == LogViewSafety => []SegmentsTile
<1>1. LogViewInv => SegmentsTile
  BY SegmentsAreTiles DEF LogViewInv
<1> QED BY <1>1, LogViewInvariance, PTL

(* What the preview shows and what it answers is of one piece: the parts   *)
(* of each line that is drawn are the line, and the commands on the files  *)
(* in a browser agree on what is there.                                    *)
THEOREM ViewsAreOne == LogViewSafety /\ StorageSafety => []ViewsAgree
BY HighlightingIsWhole, AnswersAreOne, PTL DEF ViewsAgree

(* What is emitted and what is logged reaches whoever listens: each event  *)
(* once, in the preview as over the bridge, the lines that were written,   *)
(* from one stream, and in them all places of the text that is searched.   *)
THEOREM ToldOnce == ChannelsSafety /\ WailsSafety /\ LogStreamSafety /\ LogViewSafety => []MessagesArrive
<1>1. ExitIsToldOnce /\ WailsDelivers /\ ShownWasWritten /\ OneStream /\ SearchIsCurrent => MessagesArrive
  BY DEF MessagesArrive
<1> QED BY <1>1, ExitsAreToldOnce, BridgeDelivers, ShownIsWritten, MatchesAreCurrent, PTL

-----------------------------------------------------------------------------
(* Lists of hooks and extensions (modules HookChain, ExtensionHost).       *)

\* subscribe adds a hook, and doubles none unless it is there.
LEMMA SubscribedAre ==
  ASSUME NEW list \in Seq(Extensions), NEW e \in Extensions, NEW where
  PROVE  /\ Subscribed(list, e, where) \in Seq(Extensions)
         /\ ToSet(Subscribed(list, e, where)) = ToSet(list) \cup {e}
         /\ IsInjective(list) /\ e \notin ToSet(list) => IsInjective(Subscribed(list, e, where))
<1> DEFINE one == <<e>>
<1>1. one \in Seq(Extensions) /\ DOMAIN one = {1} /\ one[1] = e
  OBVIOUS
<1>2. Append(list, e) = list \o one
  BY AppendIsConcat
<1> HIDE DEF one
<1>3. ToSet(one) = {e} /\ IsInjective(one)
  BY <1>1 DEF ToSet, IsInjective
<1>4. /\ list \o one \in Seq(Extensions) /\ ToSet(list \o one) = ToSet(list) \cup {e}
      /\ IsInjective(list) /\ e \notin ToSet(list) => IsInjective(list \o one)
  BY <1>1, <1>3, Follow
<1>5. /\ one \o list \in Seq(Extensions) /\ ToSet(one \o list) = ToSet(list) \cup {e}
      /\ IsInjective(list) /\ e \notin ToSet(list) => IsInjective(one \o list)
  BY <1>1, <1>3, Follow
<1>6. Subscribed(list, e, where) \in {list \o one, one \o list}
  BY <1>2 DEF Subscribed, one
<1> QED BY <1>4, <1>5, <1>6

\* unsubscribe takes a hook away that is there once.
LEMMA UnsubscribedAre ==
  ASSUME NEW list \in Seq(Extensions), NEW e \in Extensions
  PROVE  /\ Unsubscribed(list, e) \in Seq(Extensions)
         /\ ToSet(Unsubscribed(list, e)) \subseteq ToSet(list)
         /\ IsInjective(list) => IsInjective(Unsubscribed(list, e)) /\ ToSet(Unsubscribed(list, e)) = ToSet(list) \ {e}
<1>1. CASE e \in ToSet(list)
  <2>1. PICK k \in DOMAIN list : list[k] = e /\ RemoveFirst(list, e) = RemoveAt(list, k)
    BY <1>1, FirstIsRemoved
  <2>2. Unsubscribed(list, e) = RemoveAt(list, k)
    BY <1>1, <2>1 DEF Unsubscribed
  <2>3. /\ RemoveAt(list, k) \in Seq(Extensions) /\ ToSet(RemoveAt(list, k)) \subseteq ToSet(list)
        /\ IsInjective(list) => IsInjective(RemoveAt(list, k)) /\ ToSet(RemoveAt(list, k)) = ToSet(list) \ {list[k]}
    BY PlaceIsRemoved
  <2> QED BY <2>1, <2>2, <2>3
<1>2. CASE e \notin ToSet(list)
  <2>1. Unsubscribed(list, e) = list
    BY <1>2 DEF Unsubscribed
  <2> QED BY <1>2, <2>1
<1> QED BY <1>1, <1>2

-----------------------------------------------------------------------------
(* Passes through the hooks (module HookChain): while the array is the one *)
(* it was at the start, what ran is the beginning of it.                   *)

DispatchStates ==
  [at : {"idle", "next", "awaited", "done"}, way : Ways \cup {None}, index : Nat, ran : Seq(Extensions),
   response : [kind : {"continue", "response", "thrown", None}, by : Extensions \cup {None}]]

HookTypes ==
  /\ hooks \in Seq(Extensions) /\ dispatch \in DispatchStates /\ dispatches \in 0..MaxDispatches
  /\ dispatch.at = "awaited" => dispatch.ran # <<>>

SteadyPass ==
  steady # None =>
    /\ steady.list = hooks
    /\ Begins(dispatch.ran, hooks)
    /\ dispatch.at \in {"next", "awaited"} => Len(dispatch.ran) = dispatch.index
    /\ dispatch.at = "done" /\ dispatch.ran # hooks =>
         \/ dispatch.response = Response("response", Last(dispatch.ran))
         \/ dispatch.response.kind = "thrown" /\ dispatch.way = "sync-response"

HookInv == HookTypes /\ SteadyPass

\* The array changes, or stays what it was.
LEMMA HooksChange ==
  ASSUME HookInv, NEW list \in Seq(Extensions), Changes(list), UNCHANGED dispatchVars
  PROVE  HookInv'
<1>1. UNCHANGED <<dispatch, dispatches>> /\ hooks' = list /\ steady' = IF list = hooks THEN steady ELSE None
  BY DEF dispatchVars, Changes
<1>2. HookTypes'
  BY <1>1 DEF HookInv, HookTypes
<1>3. SteadyPass'
  BY <1>1 DEF HookInv, SteadyPass
<1> QED BY <1>2, <1>3 DEF HookInv

\* Nothing changes.
LEMMA HooksStay ==
  ASSUME HookInv, UNCHANGED hookVars
  PROVE  HookInv'
BY DEF HookInv, HookTypes, SteadyPass, hookVars, dispatchVars

\* A step of a pass.
LEMMA PassGoesOn ==
  ASSUME HookInv, DispatchNext
  PROVE  HookInv'
<1>1. /\ hooks \in Seq(Extensions) /\ dispatch \in DispatchStates /\ dispatches \in 0..MaxDispatches /\ SteadyPass
      /\ dispatch.at = "awaited" => dispatch.ran # <<>>
  BY DEF HookInv, HookTypes
<1>2. /\ dispatch.way \in Ways \cup {None} /\ dispatch.index \in Nat /\ dispatch.ran \in Seq(Extensions)
      /\ dispatch.response \in [kind : {"continue", "response", "thrown", None}, by : Extensions \cup {None}]
      /\ Len(dispatch.ran) \in Nat /\ Len(hooks) \in Nat
  BY <1>1 DEF DispatchStates
<1>3. ASSUME NEW way \in Ways, catchHooks(way) PROVE HookInv'
  <2>1. /\ dispatches' \in 0..MaxDispatches /\ hooks' = hooks /\ steady' = [list |-> hooks]
        /\ dispatch' = [NoDispatch EXCEPT !.at = "next", !.way = way]
    BY <1>1, <1>3, HooksAssumption DEF catchHooks
  <2>2. /\ dispatch'.at = "next" /\ dispatch'.index = 0 /\ dispatch'.ran = <<>> /\ dispatch' \in DispatchStates
    <3>1. NoDispatch \in DispatchStates
      BY EmptySeq DEF NoDispatch, DispatchStates, Response
    <3> QED BY <2>1, <3>1 DEF NoDispatch, DispatchStates
  <2>3. Len(dispatch'.ran) = 0 /\ steady'.list = hooks'
    BY <2>1, <2>2
  <2> QED BY <1>1, <1>2, <2>1, <2>2, <2>3 DEF HookInv, HookTypes, SteadyPass, Begins
<1>4. CASE EndOfHooks
  <2>1. /\ dispatch.at = "next" /\ dispatch.index >= Len(hooks) /\ UNCHANGED <<hooks, dispatches, steady>>
        /\ dispatch' = [dispatch EXCEPT !.at = "done", !.response = Response("continue", None)]
    BY <1>4 DEF EndOfHooks
  <2>2. dispatch' \in DispatchStates /\ dispatch'.at = "done" /\ dispatch'.ran = dispatch.ran
    BY <1>1, <2>1 DEF DispatchStates, Response
  <2>3. ASSUME steady # None PROVE dispatch.ran = hooks
    <3>1. Len(dispatch.ran) = Len(hooks) /\ \A i \in 1..Len(dispatch.ran) : dispatch.ran[i] = hooks[i]
      BY <1>1, <1>2, <2>1, <2>3 DEF SteadyPass, Begins
    <3> QED BY <1>1, <1>2, <3>1, SeqEqual
  <2> QED BY <1>1, <2>1, <2>2, <2>3 DEF HookInv, HookTypes, SteadyPass
<1>5. CASE CallHook
  <2> DEFINE next == dispatch.index + 1
             all == Append(dispatch.ran, hooks[dispatch.index + 1])
  <2>1. /\ dispatch.at = "next" /\ dispatch.index < Len(hooks) /\ UNCHANGED <<hooks, dispatches, steady>>
        /\ dispatch' = [dispatch EXCEPT !.at = "awaited", !.index = next, !.ran = all]
    BY <1>5 DEF CallHook
  <2>2. next \in 1..Len(hooks) /\ hooks[next] \in Extensions /\ next = dispatch.index + 1
    BY <1>1, <1>2, <2>1
  <2>3. /\ all \in Seq(Extensions) /\ Len(all) = Len(dispatch.ran) + 1 /\ all # <<>>
        /\ all[Len(dispatch.ran) + 1] = hooks[next] /\ \A i \in 1..Len(dispatch.ran) : all[i] = dispatch.ran[i]
    BY <1>2, <2>2, AppendProperties
  <2> HIDE DEF next, all
  <2>6. next \in Nat
    BY <1>2, <2>2
  <2>4. /\ dispatch' \in DispatchStates /\ dispatch'.at = "awaited" /\ dispatch'.ran = all /\ dispatch'.index = next
    BY <1>1, <2>1, <2>3, <2>6 DEF DispatchStates
  <2>5. ASSUME steady # None PROVE Begins(all, hooks) /\ Len(all) = next
    <3>1. Len(dispatch.ran) + 1 = next /\ \A i \in 1..Len(dispatch.ran) : dispatch.ran[i] = hooks[i]
      BY <1>1, <2>1, <2>2, <2>5 DEF SteadyPass, Begins
    <3>2. \A i \in 1..Len(all) : i = next \/ i \in 1..Len(dispatch.ran)
      BY <1>2, <2>3, <3>1
    <3>3. \A i \in 1..Len(all) : all[i] = hooks[i]
      BY <2>3, <3>1, <3>2
    <3> QED BY <2>2, <2>3, <3>1, <3>3 DEF Begins
  <2> QED BY <1>1, <2>1, <2>3, <2>4, <2>5 DEF HookInv, HookTypes, SteadyPass
<1>6. ASSUME NEW answer, HookReturns(answer) PROVE HookInv'
  <2>1. dispatch.at = "awaited" /\ UNCHANGED <<hooks, dispatches, steady>>
    BY <1>6 DEF HookReturns
  <2>2. Last(dispatch.ran) \in Extensions
    <3>1. dispatch.ran # <<>> /\ dispatch.ran \in Seq(Extensions)
      BY <1>1, <1>2, <2>1
    <3> QED BY <3>1 DEF Last
  <2>3. CASE answer = "stop" /\ dispatch.way # "async-void"
    <3>1. dispatch' = [dispatch EXCEPT !.at = "done", !.response = Response("response", Last(dispatch.ran))]
      BY <1>6, <2>3 DEF HookReturns, Ends
    <3>2. /\ dispatch' \in DispatchStates /\ dispatch'.at = "done" /\ dispatch'.ran = dispatch.ran
          /\ dispatch'.response = Response("response", Last(dispatch.ran))
      BY <1>1, <2>2, <3>1 DEF DispatchStates, Response
    <3> QED BY <1>1, <2>1, <3>2 DEF HookInv, HookTypes, SteadyPass
  <2>4. CASE answer = "throw" /\ Uncaught(dispatch.way)
    <3>1. dispatch' = [dispatch EXCEPT !.at = "done", !.response = Response("thrown", None)] /\ dispatch.way = "sync-response"
      BY <1>6, <2>4 DEF HookReturns, Ends, Uncaught
    <3>2. /\ dispatch' \in DispatchStates /\ dispatch'.at = "done" /\ dispatch'.ran = dispatch.ran
          /\ dispatch'.response.kind = "thrown" /\ dispatch'.way = dispatch.way
      BY <1>1, <3>1 DEF DispatchStates, Response
    <3> QED BY <1>1, <2>1, <3>1, <3>2 DEF HookInv, HookTypes, SteadyPass
  <2>5. CASE ~(answer = "stop" /\ dispatch.way # "async-void") /\ ~(answer = "throw" /\ Uncaught(dispatch.way))
    <3>1. dispatch' = [dispatch EXCEPT !.at = "next"]
      BY <1>6, <2>5 DEF HookReturns
    <3>2. /\ dispatch' \in DispatchStates /\ dispatch'.at = "next" /\ dispatch'.ran = dispatch.ran
          /\ dispatch'.index = dispatch.index
      BY <1>1, <3>1 DEF DispatchStates
    <3> QED BY <1>1, <2>1, <3>2 DEF HookInv, HookTypes, SteadyPass
  <2> QED BY <2>3, <2>4, <2>5
<1> QED BY <1>3, <1>4, <1>5, <1>6 DEF DispatchNext

\* A pass leaves the array alone.
LEMMA PassKeepsHooks == DispatchNext => UNCHANGED hooks
BY DEF DispatchNext, catchHooks, EndOfHooks, CallHook, HookReturns

-----------------------------------------------------------------------------
(* The loading of extensions (module ExtensionHost).  As long as loads,    *)
(* unloads and toggles do not overlap, what is under way has one extension *)
(* in its hands, and the others are as the settings page shows them.       *)

LoopStates ==
  {loop \in [at : {"reading", "next", "handler", "running", "failing", "disabling", "done"}, queue : Seq(Extensions)] :
     loop.at \in {"handler", "running", "failing"} => loop.queue # <<>>}
ToggleStates == [at : {"idle", "asking", "generic", "handler", "running", "failing"}, was : BOOLEAN]

HostTypes ==
  /\ trusted \in {TrustedFirst, TrustedLater}
  /\ enabled \in [Extensions -> {None, TRUE, FALSE}] /\ executed \in Seq(Extensions)
  /\ loops \in Seq(LoopStates) /\ Len(loops) <= MaxMounts
  /\ toggle \in [Extensions -> ToggleStates] /\ toggles \in 0..MaxToggles
  /\ \A e \in Extensions : toggle[e].at # "idle" => enabled[e] \in BOOLEAN

UnderWay(k) == loops[k].at # "done"
Toggles(e) == toggle[e].at \notin {"idle", "asking"}

\* One thing at a time.
Alone ==
  /\ \A j, k \in DOMAIN loops : UnderWay(j) /\ UnderWay(k) => j = k
  /\ \A d, e \in Extensions : Toggles(d) /\ Toggles(e) => d = e
  /\ \A k \in DOMAIN loops, e \in Extensions : ~(UnderWay(k) /\ Toggles(e))

Hooked(e) == e \in ToSet(hooks)

\* An extension is as it is shown.
Settled(e) ==
  /\ Hooked(e) => feature /\ IsEnabled(e) /\ WasExecuted(e)
  /\ WasExecuted(e) /\ e \in Sandboxed /\ feature /\ IsEnabled(e) => Hooked(e)

\* Those a load has before it.
Waiting(k) == IF loops[k].at = "next" THEN ToSet(loops[k].queue) ELSE ToSet(Tail(loops[k].queue))

LoadAsFar(k) ==
  /\ loops[k].at \in {"next", "handler", "running"}
  /\ feature /\ IsInjective(loops[k].queue)
  /\ \A e \in ToSet(loops[k].queue) : IsEnabled(e)
  /\ \A e \in Waiting(k) : ~Hooked(e)
  /\ \A e \in Extensions \ ToSet(loops[k].queue) : Settled(e)
  /\ loops[k].at # "next" =>
       /\ loops[k].queue # <<>> /\ Hooked(Head(loops[k].queue))
       /\ WasExecuted(Head(loops[k].queue)) <=> loops[k].at = "handler"

LoopAsFar(k) ==
  \/ loops[k].at = "reading" /\ feature /\ \A e \in Extensions : ~Hooked(e)
  \/ LoadAsFar(k)
  \/ /\ loops[k].at = "disabling" /\ ~feature
     /\ \A e \in Extensions : Hooked(e) => e \in ToSet(loops[k].queue) /\ IsEnabled(e)

ToggleAsFar(e) ==
  /\ \A x \in Extensions \ {e} : Settled(x)
  /\ \/ toggle[e].at = "generic" /\ Settled(e)
     \/ toggle[e].at = "handler" /\ feature /\ WasExecuted(e) /\ (Hooked(e) <=> ~toggle[e].was)
     \/ toggle[e].at = "running" /\ feature /\ ~WasExecuted(e) /\ Hooked(e) /\ ~toggle[e].was

Calm ==
  /\ IsInjective(executed) /\ IsInjective(hooks) /\ Alone
  /\ ~Busy => \A e \in Extensions : Settled(e)
  /\ \A k \in DOMAIN loops : UnderWay(k) => LoopAsFar(k)
  /\ \A e \in Extensions : Toggles(e) => ToggleAsFar(e)

HostInv == HookInv /\ HostTypes /\ (~overlapped => Calm)

HostSafety == HostInit /\ [][HostNext]_extensionVars

\* A load or an unload goes on, or ends.
LEMMA LoopGoesOn ==
  ASSUME HostTypes, Calm, NEW k \in DOMAIN loops, UnderWay(k), NEW loop \in LoopStates, Step(k, loop), UNCHANGED toggle,
         IsInjective(executed'), IsInjective(hooks'),
         loop.at = "done" => \A e \in Extensions : Settled(e)',
         loop.at # "done" => LoopAsFar(k)'
  PROVE  Calm'
<1>1. /\ loops' \in Seq(LoopStates) /\ DOMAIN loops' = DOMAIN loops /\ loops'[k] = loop
      /\ \A j \in DOMAIN loops : j # k => loops'[j] = loops[j]
  BY DEF HostTypes, Step
<1>2. \A j \in DOMAIN loops : j # k => ~UnderWay(j)
  BY DEF Calm, Alone
<1>3. \A e \in Extensions : ~Toggles(e)
  BY DEF Calm, Alone
<1>4. \A j \in DOMAIN loops' : UnderWay(j)' => j = k
  BY <1>1, <1>2 DEF UnderWay
<1>5. \A e \in Extensions : ~Toggles(e)'
  BY <1>3 DEF Toggles
<1>6. Alone'
  BY <1>4, <1>5 DEF Alone
<1>7. UnderWay(k)' => loop.at # "done"
  BY <1>1 DEF UnderWay
<1>8. ~Busy' => loop.at = "done"
  BY <1>1 DEF Busy
<1>9. \A j \in DOMAIN loops' : UnderWay(j)' => LoopAsFar(j)'
  BY <1>4, <1>7
<1> QED BY <1>5, <1>6, <1>8, <1>9 DEF Calm

\* A toggle goes on, or ends.
LEMMA ToggleGoesOn ==
  ASSUME HostTypes, Calm, NEW e \in Extensions, Toggles(e), NEW at, NEW was, LoopGoes(e, at, was), UNCHANGED loops,
         IsInjective(executed'), IsInjective(hooks'),
         at = "idle" => \A x \in Extensions : Settled(x)',
         at # "idle" => ToggleAsFar(e)'
  PROVE  Calm'
<1>1. /\ toggle'[e] = [at |-> at, was |-> was] /\ \A x \in Extensions : x # e => toggle'[x] = toggle[x]
  BY DEF HostTypes, LoopGoes
<1>2. \A x \in Extensions : x # e => ~Toggles(x)
  BY DEF Calm, Alone
<1>3. \A j \in DOMAIN loops : ~UnderWay(j)
  BY DEF Calm, Alone
<1>4. \A x \in Extensions : Toggles(x)' => x = e
  BY <1>1, <1>2 DEF Toggles
<1>5. \A j \in DOMAIN loops' : ~UnderWay(j)'
  BY <1>3 DEF UnderWay
<1>6. Alone'
  BY <1>4, <1>5 DEF Alone
<1>7. toggle'[e].at = at
  BY <1>1
<1>8. Toggles(e)' => at # "idle"
  BY <1>7 DEF Toggles
<1>9. CASE at = "idle"
  BY <1>4, <1>5, <1>6, <1>8, <1>9 DEF Calm
<1>10. CASE at # "idle"
  <2>1. Busy' \/ at = "asking"
    BY <1>7, <1>10 DEF Busy
  <2>2. at # "asking"
    BY <1>7, <1>10 DEF ToggleAsFar
  <2> QED BY <1>4, <1>5, <1>6, <1>10, <2>1, <2>2 DEF Calm
<1> QED BY <1>9, <1>10

\* What no extension has a part in.
LEMMA CalmStays ==
  ASSUME Calm, UNCHANGED <<feature, enabled, executed, loops, toggle, hooks>>
  PROVE  Calm'
BY DEF Calm, Alone, UnderWay, Toggles, Busy, Settled, LoopAsFar, LoadAsFar, Waiting, ToggleAsFar, Hooked, WasExecuted, IsEnabled

\* A click that begins a toggle, or only asks.
LEMMA ClickGoesOn ==
  ASSUME HostTypes, ~overlapped => Calm, NEW e \in Extensions, NEW at \in {"idle", "asking", "generic"},
         ~Toggles(e), LoopGoes(e, at, FALSE), at = "generic" => ToldOverlap(Busy), at # "generic" => ToldOverlap(FALSE),
         UNCHANGED <<feature, enabled, executed, loops, hooks>>, ~overlapped'
  PROVE  Calm'
<1>1. ~overlapped /\ Calm
  BY DEF ToldOverlap
<1>2. /\ toggle'[e] = [at |-> at, was |-> FALSE] /\ \A x \in Extensions : x # e => toggle'[x] = toggle[x]
  BY DEF HostTypes, LoopGoes
<1>3. toggle'[e].at = at
  BY <1>2
<1>4. \A x \in Extensions : x # e => (Toggles(x)' <=> Toggles(x))
  BY <1>2 DEF Toggles
<1>5. \A x \in Extensions : Settled(x)' <=> Settled(x)
  BY DEF Settled, Hooked, IsEnabled, WasExecuted
<1>6. \A k \in DOMAIN loops : (UnderWay(k)' <=> UnderWay(k)) /\ (LoopAsFar(k)' <=> LoopAsFar(k))
  BY DEF UnderWay, LoopAsFar, LoadAsFar, Waiting, Settled, Hooked, IsEnabled, WasExecuted
<1>7. CASE at = "generic"
  <2>1. ~Busy
    BY <1>7 DEF ToldOverlap
  <2>2. (\A x \in Extensions : ~Toggles(x) /\ Settled(x)) /\ \A k \in DOMAIN loops : ~UnderWay(k)
    BY <1>1, <2>1 DEF Calm, Busy, Toggles, UnderWay
  <2>3. ToggleAsFar(e)'
    BY <1>3, <1>5, <1>7, <2>2 DEF ToggleAsFar
  <2>4. Busy'
    BY <1>3, <1>7 DEF Busy
  <2>5. Alone'
    BY <1>4, <1>6, <2>2 DEF Alone
  <2> QED BY <1>1, <1>4, <1>6, <2>2, <2>3, <2>4, <2>5 DEF Calm
<1>8. CASE at # "generic"
  <2>1. ~Toggles(e)'
    BY <1>3, <1>8 DEF Toggles
  <2>2. \A x \in Extensions : Toggles(x)' <=> Toggles(x)
    BY <1>4, <2>1
  <2>3. Busy' <=> Busy
    BY <1>6, <2>2 DEF Busy, UnderWay, Toggles
  <2>4. Alone'
    BY <1>1, <1>6, <2>2 DEF Calm, Alone
  <2>5. ASSUME NEW x \in Extensions, Toggles(x)' PROVE ToggleAsFar(x)'
    <3>1. Toggles(x) /\ toggle'[x] = toggle[x] /\ ToggleAsFar(x)
      BY <1>1, <1>2, <2>1, <2>2, <2>5 DEF Calm
    <3> QED BY <1>5, <3>1 DEF ToggleAsFar, Hooked, WasExecuted
  <2> QED BY <1>1, <1>5, <1>6, <2>2, <2>3, <2>4, <2>5 DEF Calm
<1> QED BY <1>7, <1>8

\* The loader mounts or unmounts.
LEMMA LoopBegins ==
  ASSUME HostTypes, ~overlapped => Calm, NEW loop \in LoopStates, loops' = Append(loops, loop), loop.at # "done",
         ToldOverlap(Busy), UNCHANGED <<executed, hooks, toggle>>, ~overlapped',
         NEW last, last = Len(loops) + 1, ~Busy /\ loops'[last] = loop => LoopAsFar(last)'
  PROVE  Calm'
<1>1. Calm /\ ~Busy
  BY DEF ToldOverlap
<1>2. (\A x \in Extensions : ~Toggles(x) /\ Settled(x)) /\ \A k \in DOMAIN loops : ~UnderWay(k)
  BY <1>1 DEF Calm, Busy, Toggles, UnderWay
<1>3. /\ DOMAIN loops' = DOMAIN loops \cup {last} /\ loops'[last] = loop
      /\ \A k \in DOMAIN loops : loops'[k] = loops[k]
  BY AppendsOne DEF HostTypes
<1>4. \A k \in DOMAIN loops' : UnderWay(k)' => k = last
  BY <1>2, <1>3 DEF UnderWay
<1>5. \A x \in Extensions : ~Toggles(x)'
  BY <1>2 DEF Toggles
<1>6. Alone'
  BY <1>4, <1>5 DEF Alone
<1>7. Busy'
  BY <1>3 DEF Busy
<1>8. LoopAsFar(last)'
  BY <1>1, <1>3
<1>9. \A k \in DOMAIN loops' : UnderWay(k)' => LoopAsFar(k)'
  BY <1>4, <1>8
<1> QED BY <1>1, <1>5, <1>6, <1>7, <1>9 DEF Calm

\* A handler is called: what it subscribes or removes.
LEMMA HandlerCalled ==
  ASSUME HookInv, NEW e \in Extensions, NEW enable, NEW fails, dirtyLifecycle(e, enable, fails)
  PROVE  /\ HookInv' /\ WasExecuted(e)
         /\ ~fails /\ IsInjective(hooks) /\ enable /\ ~Hooked(e) =>
              IsInjective(hooks') /\ \A x : Hooked(x)' <=> Hooked(x) \/ x = e
         /\ ~fails /\ IsInjective(hooks) /\ ~enable =>
              IsInjective(hooks') /\ \A x : Hooked(x)' <=> Hooked(x) /\ x # e
<1> DEFINE list == IF enable THEN Subscribed(hooks, e, "end") ELSE Unsubscribed(hooks, e)
<1>1. hooks \in Seq(Extensions)
  BY DEF HookInv, HookTypes
<1>2. /\ list \in Seq(Extensions)
      /\ IsInjective(hooks) /\ enable /\ e \notin ToSet(hooks) => IsInjective(list) /\ ToSet(list) = ToSet(hooks) \cup {e}
      /\ IsInjective(hooks) /\ ~enable => IsInjective(list) /\ ToSet(list) = ToSet(hooks) \ {e}
  BY <1>1, SubscribedAre, UnsubscribedAre
<1>3. /\ WasExecuted(e) /\ UNCHANGED dispatchVars
      /\ Changes(list) \/ (fails /\ UNCHANGED <<hooks, steady>>)
  BY DEF dirtyLifecycle
<1> HIDE DEF list
<1>4. CASE Changes(list)
  <2>1. hooks' = list /\ HookInv'
    BY <1>2, <1>3, <1>4, HooksChange DEF Changes
  <2> QED BY <1>2, <1>3, <2>1 DEF Hooked
<1>5. CASE fails /\ UNCHANGED <<hooks, steady>>
  <2>1. HookInv'
    BY <1>3, <1>5, HooksStay DEF hookVars
  <2> QED BY <1>3, <1>5, <2>1
<1> QED BY <1>3, <1>4, <1>5

\* The code of an extension runs: what it subscribes.
LEMMA CodeRun ==
  ASSUME HookInv, NEW e \in Extensions, NEW fails, RunCode(e, fails)
  PROVE  /\ HookInv' /\ ~WasExecuted(e)
         /\ ~fails /\ IsInjective(hooks) /\ ~Hooked(e) =>
              IsInjective(hooks') /\ \A x : Hooked(x)' <=> Hooked(x) \/ x = e
<1>1. hooks \in Seq(Extensions)
  BY DEF HookInv, HookTypes
<1>2. /\ ~WasExecuted(e) /\ UNCHANGED dispatchVars
      /\ (\E where \in {"start", "end"} : Changes(Subscribed(hooks, e, where))) \/ (fails /\ UNCHANGED <<hooks, steady>>)
  BY DEF RunCode
<1>3. ASSUME NEW where, Changes(Subscribed(hooks, e, where))
      PROVE  /\ HookInv'
             /\ IsInjective(hooks) /\ ~Hooked(e) => IsInjective(hooks') /\ \A x : Hooked(x)' <=> Hooked(x) \/ x = e
  <2> DEFINE list == Subscribed(hooks, e, where)
  <2>1. /\ list \in Seq(Extensions) /\ ToSet(list) = ToSet(hooks) \cup {e}
        /\ IsInjective(hooks) /\ e \notin ToSet(hooks) => IsInjective(list)
    BY <1>1, SubscribedAre
  <2>2. Changes(list)
    BY <1>3
  <2> HIDE DEF list
  <2>3. hooks' = list /\ HookInv'
    BY <1>2, <2>1, <2>2, HooksChange DEF Changes
  <2> QED BY <2>1, <2>3 DEF Hooked
<1>4. CASE fails /\ UNCHANGED <<hooks, steady>>
  <2>1. HookInv'
    BY <1>2, <1>4, HooksStay DEF hookVars
  <2> QED BY <1>2, <1>4, <2>1
<1> QED BY <1>2, <1>3, <1>4

\* An execution is recorded.
LEMMA ExecutionRecorded ==
  ASSUME executed \in Seq(Extensions), NEW e \in Extensions, executed' = Append(executed, e)
  PROVE  /\ executed' \in Seq(Extensions) /\ \A x : WasExecuted(x)' <=> WasExecuted(x) \/ x = e
         /\ IsInjective(executed) /\ ~WasExecuted(e) => IsInjective(executed')
<1> DEFINE list == Subscribed(executed, e, "end")
<1>1. /\ list \in Seq(Extensions) /\ ToSet(list) = ToSet(executed) \cup {e}
      /\ IsInjective(executed) /\ e \notin ToSet(executed) => IsInjective(list)
  BY SubscribedAre
<1>2. executed' = list
  BY DEF Subscribed
<1> HIDE DEF list
<1> QED BY <1>1, <1>2 DEF WasExecuted

\* The types of what a loop and a toggle hold.
LEMMA HostFacts ==
  ASSUME HostTypes
  PROVE  /\ \A k \in DOMAIN loops : loops[k] \in LoopStates /\ loops[k].queue \in Seq(Extensions)
         /\ \A e \in Extensions : toggle[e] \in ToggleStates /\ toggle[e].was \in BOOLEAN
<1>1. \A k \in DOMAIN loops : loops[k] \in LoopStates
  BY DEF HostTypes
<1>2. \A e \in Extensions : toggle[e] \in ToggleStates
  BY DEF HostTypes
<1> QED BY <1>1, <1>2 DEF LoopStates, ToggleStates

\* What a loop leaves alone when only the loop itself is replaced.
LEMMA LoopTypes ==
  ASSUME HostTypes, NEW k \in DOMAIN loops, NEW loop \in LoopStates, Step(k, loop),
         UNCHANGED <<trusted, toggle, toggles>>, executed' \in Seq(Extensions),
         enabled' \in [Extensions -> {None, TRUE, FALSE}],
         \A e \in Extensions : enabled[e] \in BOOLEAN => enabled'[e] \in BOOLEAN
  PROVE  HostTypes'
<1>1. loops' \in Seq(LoopStates) /\ Len(loops') = Len(loops)
  BY DEF HostTypes, Step
<1> QED BY <1>1 DEF HostTypes

\* Loads and unloads of the loader begin (MountLoader, UnmountLoader).
LEMMA LoaderSteps ==
  ASSUME HostInv, MountLoader \/ UnmountLoader
  PROVE  HostInv'
<1>1. /\ HookInv /\ HostTypes /\ (~overlapped => Calm) /\ executed \in Seq(Extensions) /\ loops \in Seq(LoopStates)
      /\ UNCHANGED <<trusted, enabled, executed, toggle, toggles, hookVars>> /\ ToldOverlap(Busy)
      /\ Len(loops) < MaxMounts
  BY DEF HostInv, HostTypes, MountLoader, UnmountLoader
<1>2. HookInv' /\ UNCHANGED hooks
  BY <1>1, HooksStay DEF hookVars
<1>6. PICK last : last = Len(loops) + 1
  OBVIOUS
<1>3. ASSUME NEW loop \in LoopStates, loops' = Append(loops, loop) PROVE HostTypes'
  <2>1. loops' \in Seq(LoopStates) /\ Len(loops') <= MaxMounts
    BY <1>1, <1>3, HostAssumption
  <2> QED BY <1>1, <2>1 DEF HostTypes
<1>4. CASE MountLoader
  <2> DEFINE loop == Loop("reading", <<>>)
  <2>1. /\ ~feature /\ feature' = TRUE /\ loops' = Append(loops, loop)
        /\ loop \in LoopStates /\ loop.at = "reading"
    BY <1>4, EmptySeq DEF MountLoader, Loop, LoopStates
  <2> HIDE DEF loop
  <2>2. ASSUME ~overlapped', ~Busy, loops'[last] = loop PROVE LoopAsFar(last)'
    <3>1. \A e \in Extensions : Settled(e)
      BY <1>1, <2>2 DEF Calm, ToldOverlap
    <3>2. \A e \in Extensions : ~Hooked(e)'
      BY <1>2, <2>1, <3>1 DEF Settled, Hooked
    <3>3. loops'[last].at = "reading"
      BY <2>1, <2>2
    <3> QED BY <2>1, <3>2, <3>3 DEF LoopAsFar
  <2>3. loop.at # "done"
    BY <2>1
  <2>4. ~overlapped' => Calm'
    <3>1. ~overlapped' /\ ~Busy /\ loops'[last] = loop => LoopAsFar(last)'
      BY <2>2
    <3>2. UNCHANGED <<executed, hooks, toggle>>
      BY <1>1, <1>2
    <3> QED BY <1>1, <1>6, <2>1, <2>3, <3>1, <3>2, LoopBegins
  <2> QED BY <1>2, <1>3, <2>1, <2>4 DEF HostInv
<1>5. CASE UnmountLoader
  <2> DEFINE loop == Loop("disabling", executed)
  <2>1. /\ feature /\ feature' = FALSE /\ loops' = Append(loops, loop)
        /\ loop \in LoopStates /\ loop.at = "disabling" /\ loop.queue = executed
    BY <1>1, <1>5 DEF UnmountLoader, Loop, LoopStates
  <2> HIDE DEF loop
  <2>2. ASSUME ~overlapped', ~Busy, loops'[last] = loop PROVE LoopAsFar(last)'
    <3>1. \A e \in Extensions : Settled(e)
      BY <1>1, <2>2 DEF Calm, ToldOverlap
    <3>2. \A e \in Extensions : Hooked(e)' => e \in ToSet(executed) /\ IsEnabled(e)'
      BY <1>1, <1>2, <2>1, <3>1 DEF Settled, Hooked, WasExecuted, IsEnabled
    <3>3. loops'[last].at = "disabling" /\ loops'[last].queue = executed
      BY <2>1, <2>2
    <3> QED BY <2>1, <3>2, <3>3 DEF LoopAsFar
  <2>3. loop.at # "done"
    BY <2>1
  <2>4. ~overlapped' => Calm'
    <3>1. ~overlapped' /\ ~Busy /\ loops'[last] = loop => LoopAsFar(last)'
      BY <2>2
    <3>2. UNCHANGED <<executed, hooks, toggle>>
      BY <1>1, <1>2
    <3> QED BY <1>1, <1>6, <2>1, <2>3, <3>1, <3>2, LoopBegins
  <2> QED BY <1>2, <1>3, <2>1, <2>4 DEF HostInv
<1> QED BY <1>4, <1>5

\* An error ends a load, or its last step does.
LEMMA LoadEnds ==
  ASSUME HostInv, NEW k \in DOMAIN loops, ReadFails(k) \/ GrantFails(k) \/ showWebviewWindow(k) \/ Disabled(k)
  PROVE  HostInv'
<1> DEFINE loop == Loop("done", <<>>)
<1>1. loop \in LoopStates /\ loop.at = "done"
  BY EmptySeq DEF Loop, LoopStates
<1>2. Step(k, loop) /\ UNCHANGED <<feature, trusted, enabled, executed, toggle, toggles, hookVars>>
  BY DEF ReadFails, GrantFails, showWebviewWindow, Disabled
<1> HIDE DEF loop
<1>3. HookInv /\ HostTypes /\ (~overlapped => Calm)
  BY DEF HostInv
<1>4. HookInv' /\ UNCHANGED <<hooks, feature, enabled, executed, toggle>>
  BY <1>2, <1>3, HooksStay DEF hookVars
<1>5. HostTypes'
  <2>1. executed' \in Seq(Extensions) /\ enabled' \in [Extensions -> {None, TRUE, FALSE}]
    BY <1>2, <1>3 DEF HostTypes
  <2> QED BY <1>1, <1>2, <1>3, <2>1, LoopTypes
<1>6. ASSUME ~overlapped' PROVE Calm'
  <2>1. /\ ~overlapped
        /\ showWebviewWindow(k) \/ Disabled(k)
    <3>1. ReadFails(k) \/ GrantFails(k) => overlapped'
      BY DEF ReadFails, GrantFails, ToldOverlap
    <3>2. showWebviewWindow(k) \/ Disabled(k) => overlapped' = overlapped
      BY DEF showWebviewWindow, Disabled
    <3> QED BY <1>6, <3>1, <3>2
  <2>2. /\ loops[k].queue = <<>>
        /\ \/ showWebviewWindow(k) /\ loops[k].at = "next"
           \/ Disabled(k) /\ loops[k].at = "disabling"
    BY <2>1 DEF showWebviewWindow, Disabled
  <2>3. Calm /\ UnderWay(k) /\ LoopAsFar(k)
    BY <1>3, <2>1, <2>2 DEF Calm, UnderWay
  <2>4. ToSet(loops[k].queue) = {}
    BY <2>2 DEF ToSet
  <2>5. \A e \in Extensions : Settled(e)
    BY <2>2, <2>3, <2>4 DEF LoopAsFar, LoadAsFar, Settled
  <2>6. \A e \in Extensions : Settled(e)'
    BY <1>4, <2>5 DEF Settled, Hooked, IsEnabled, WasExecuted
  <2>7. IsInjective(executed') /\ IsInjective(hooks')
    BY <1>4, <2>3 DEF Calm
  <2> QED BY <1>1, <1>2, <1>3, <2>3, <2>6, <2>7, LoopGoesOn
<1> QED BY <1>4, <1>5, <1>6 DEF HostInv

\* The extensions are read: those that may run are loaded, once each.
LEMMA ExtensionsRead ==
  ASSUME HostInv, NEW k \in DOMAIN loops, readExtensions(k)
  PROVE  HostInv'
<1> DEFINE chosen == {e \in Extensions : IsEnabled(e) /\ MayExecute(e)}
           free == Selected(Order, chosen \ Sandboxed)
           boxed == Selected(Order, chosen \cap Sandboxed)
           queue == free \o boxed
           loop == Loop("next", queue)
<1>1. /\ loops[k].at = "reading" /\ enabled' = [e \in Extensions |-> IsEnabled(e)] /\ Step(k, loop)
      /\ UNCHANGED <<feature, allowUntrusted, trusted, executed, toggle, toggles, overlapped, hookVars>>
  BY DEF readExtensions
<1>2. HookInv /\ HostTypes /\ (~overlapped => Calm)
  BY DEF HostInv
<1>3. HookInv' /\ UNCHANGED hooks
  BY <1>1, <1>2, HooksStay DEF hookVars
<1>4. queue \in Seq(Extensions) /\ IsInjective(queue) /\ ToSet(queue) = chosen
  <2>1. /\ free \in Seq(Extensions) /\ ToSet(free) = chosen \ Sandboxed /\ IsInjective(free)
        /\ boxed \in Seq(Extensions) /\ ToSet(boxed) = chosen \cap Sandboxed /\ IsInjective(boxed)
    <3> HIDE DEF chosen
    <3>1. \A T : /\ Selected(Order, T) \in Seq(Extensions) /\ ToSet(Selected(Order, T)) = Extensions \cap T
                 /\ IsInjective(Selected(Order, T))
      BY HostAssumption, SelectedAre
    <3>2. chosen \subseteq Extensions
      BY DEF chosen
    <3> QED BY <3>1, <3>2
  <2> HIDE DEF chosen, free, boxed
  <2>2. ToSet(free) \cap ToSet(boxed) = {} /\ ToSet(free) \cup ToSet(boxed) = chosen
    BY <2>1
  <2> QED BY <2>1, <2>2, Follow
<1> HIDE DEF queue
<1>5. loop \in LoopStates /\ loop.at = "next" /\ loop.queue = queue
  BY <1>4 DEF Loop, LoopStates
<1>6. \A e \in Extensions : IsEnabled(e)' <=> IsEnabled(e)
  BY <1>1 DEF IsEnabled
<1> HIDE DEF loop
<1>7. HostTypes'
  <2>1. executed' \in Seq(Extensions) /\ UNCHANGED <<trusted, toggle, toggles>>
    BY <1>1, <1>2 DEF HostTypes
  <2>2. \A e \in Extensions : enabled'[e] \in BOOLEAN /\ enabled'[e] = IsEnabled(e)
    BY <1>1 DEF IsEnabled
  <2>3. enabled' \in [Extensions -> {None, TRUE, FALSE}]
    <3>1. \A e \in Extensions : IsEnabled(e) \in {None, TRUE, FALSE}
      BY DEF IsEnabled
    <3> QED BY <1>1, <3>1
  <2> QED BY <1>1, <1>2, <1>5, <2>1, <2>2, <2>3, LoopTypes
<1>8. ASSUME ~overlapped' PROVE Calm'
  <2>1. ~overlapped /\ Calm /\ UnderWay(k) /\ LoopAsFar(k)
    BY <1>1, <1>2, <1>8 DEF Calm, UnderWay
  <2>2. feature /\ \A e \in Extensions : ~Hooked(e)
    BY <1>1, <2>1 DEF LoopAsFar, LoadAsFar
  <2>3. loops'[k] = loop
    BY <1>1, <1>2 DEF HostTypes, Step
  <2>4. loops'[k].at = "next" /\ loops'[k].queue = queue
    BY <1>5, <2>3
  <2>5. \A e \in Extensions : ~Hooked(e)' /\ (WasExecuted(e)' <=> WasExecuted(e))
    BY <1>1, <1>3, <2>2 DEF Hooked, WasExecuted
  <2>6. \A e \in Extensions \ ToSet(queue) : Settled(e)'
    BY <1>4, <1>6, <2>5 DEF Settled, MayExecute
  <2>7. (Waiting(k) = ToSet(loops[k].queue))'
    BY <2>4 DEF Waiting
  <2>8. LoadAsFar(k)'
    BY <1>1, <1>4, <1>6, <2>2, <2>4, <2>5, <2>6, <2>7 DEF LoadAsFar
  <2>9. IsInjective(executed') /\ IsInjective(hooks') /\ UNCHANGED toggle
    BY <1>1, <1>3, <2>1 DEF Calm
  <2> QED BY <1>1, <1>2, <1>5, <2>1, <2>8, <2>9, LoopGoesOn DEF LoopAsFar
<1> QED BY <1>3, <1>7, <1>8 DEF HostInv

\* The next extension of a load is executed.
LEMMA LoadExecutes ==
  ASSUME HostInv, NEW k \in DOMAIN loops, Execute(k)
  PROVE  HostInv'
<1> DEFINE e == Head(loops[k].queue)
<1>1. HookInv /\ HostTypes /\ (~overlapped => Calm) /\ loops[k] \in LoopStates /\ loops[k].queue \in Seq(Extensions)
  BY HostFacts DEF HostInv
<1>2. PICK fails \in BOOLEAN :
        /\ \/ dirtyLifecycle(e, TRUE, fails) /\ Step(k, [loops[k] EXCEPT !.at = "handler"])
           \/ RunCode(e, fails) /\ Step(k, [loops[k] EXCEPT !.at = IF fails THEN "failing" ELSE "running"])
        /\ ToldOverlap(fails)
  BY DEF Execute
<1>3. /\ loops[k].at = "next" /\ loops[k].queue # <<>>
      /\ UNCHANGED <<feature, trusted, enabled, executed, toggle, toggles>>
  BY DEF Execute
<1>4. /\ e \in Extensions /\ Tail(loops[k].queue) \in Seq(Extensions)
      /\ ToSet(loops[k].queue) = ToSet(Tail(loops[k].queue)) \cup {e}
      /\ IsInjective(loops[k].queue) => e \notin ToSet(Tail(loops[k].queue))
  BY <1>1, <1>3, HeadAndTail
<1>5. PICK e1 \in Extensions : e1 = e
  BY <1>4
<1> HIDE DEF e
<1>6. PICK at \in {"handler", "running", "failing"} :
        /\ Step(k, [loops[k] EXCEPT !.at = at])
        /\ at = "handler" => dirtyLifecycle(e1, TRUE, fails)
        /\ at # "handler" => RunCode(e1, fails)
        /\ at = "failing" => fails
  <2>1. CASE dirtyLifecycle(e, TRUE, fails) /\ Step(k, [loops[k] EXCEPT !.at = "handler"])
    BY <1>5, <2>1
  <2>2. CASE RunCode(e, fails) /\ Step(k, [loops[k] EXCEPT !.at = IF fails THEN "failing" ELSE "running"])
    <3>1. CASE fails
      BY <1>5, <2>2, <3>1
    <3>2. CASE ~fails
      BY <1>5, <2>2, <3>2
    <3> QED BY <3>1, <3>2
  <2> QED BY <1>2, <2>1, <2>2
<1> DEFINE loop == [loops[k] EXCEPT !.at = at]
<1>7. loop \in LoopStates /\ loop.at = at /\ loop.queue = loops[k].queue
  BY <1>1, <1>3 DEF LoopStates
<1>8. Step(k, loop)
  BY <1>6
<1> HIDE DEF loop
<1>9. HookInv' /\ (WasExecuted(e1) <=> at = "handler")
  BY <1>1, <1>6, HandlerCalled, CodeRun
<1>10. HostTypes'
  <2>1. executed' \in Seq(Extensions) /\ enabled' \in [Extensions -> {None, TRUE, FALSE}]
    BY <1>1, <1>3 DEF HostTypes
  <2> QED BY <1>1, <1>3, <1>7, <1>8, <2>1, LoopTypes
<1>11. ASSUME ~overlapped' PROVE Calm'
  <2>1. ~overlapped /\ ~fails /\ at # "failing"
    BY <1>2, <1>6, <1>11 DEF ToldOverlap
  <2>2. Calm /\ UnderWay(k) /\ LoadAsFar(k)
    BY <1>1, <1>3, <2>1 DEF Calm, UnderWay, LoopAsFar
  <2>3. /\ feature /\ IsInjective(loops[k].queue) /\ (\A x \in ToSet(loops[k].queue) : IsEnabled(x) /\ ~Hooked(x))
        /\ \A x \in Extensions \ ToSet(loops[k].queue) : Settled(x)
    BY <1>3, <2>2 DEF LoadAsFar, Waiting
  <2>4. ~Hooked(e1) /\ IsInjective(hooks)
    BY <1>4, <1>5, <2>2, <2>3 DEF Calm
  <2>5. IsInjective(hooks') /\ \A x : Hooked(x)' <=> Hooked(x) \/ x = e1
    BY <1>1, <1>6, <2>1, <2>4, HandlerCalled, CodeRun
  <2>6. /\ loops'[k].at = at /\ loops'[k].queue = loops[k].queue
    BY <1>1, <1>7, <1>8 DEF HostTypes, Step
  <2>7. \A x : (IsEnabled(x)' <=> IsEnabled(x)) /\ (WasExecuted(x)' <=> WasExecuted(x))
    BY <1>3 DEF IsEnabled, WasExecuted
  <2>8. Waiting(k)' = ToSet(Tail(loops[k].queue))
    BY <2>1, <2>6 DEF Waiting
  <2>9. \A x \in Waiting(k)' : ~Hooked(x)'
    BY <1>4, <1>5, <2>3, <2>5, <2>8
  <2>10. \A x \in Extensions \ ToSet(loops[k].queue) : Settled(x)'
    BY <1>3, <1>4, <1>5, <2>3, <2>5, <2>7 DEF Settled
  <2>11. Head(loops'[k].queue) = e1
    BY <1>5, <2>6 DEF e
  <2>12. LoadAsFar(k)'
    <3>1. loops'[k].at \in {"next", "handler", "running"}
      BY <2>1, <2>6
    <3>2. Hooked(e1)' /\ (WasExecuted(e1)' <=> loops'[k].at = "handler")
      BY <1>9, <2>5, <2>6, <2>7
    <3> QED BY <1>3, <2>3, <2>6, <2>7, <2>9, <2>10, <2>11, <3>1, <3>2 DEF LoadAsFar
  <2>13. IsInjective(executed') /\ UNCHANGED toggle
    BY <1>3, <2>2 DEF Calm
  <2> QED BY <1>1, <1>7, <1>8, <2>2, <2>5, <2>12, <2>13, LoopGoesOn DEF LoopAsFar
<1> QED BY <1>9, <1>10, <1>11 DEF HostInv

\* An execution has ended: it is recorded, or disables the extension.
LEMMA LoadGoesOn ==
  ASSUME HostInv, NEW k \in DOMAIN loops, Executed(k)
  PROVE  HostInv'
<1> DEFINE e == Head(loops[k].queue)
           loop == Loop("next", Tail(loops[k].queue))
<1>1. HookInv /\ HostTypes /\ (~overlapped => Calm) /\ loops[k] \in LoopStates /\ loops[k].queue \in Seq(Extensions)
  BY HostFacts DEF HostInv
<1>2. /\ loops[k].at \in {"handler", "running", "failing"} /\ Step(k, loop)
      /\ executed' = IF loops[k].at = "running" THEN Append(executed, e) ELSE executed
      /\ enabled' = IF loops[k].at = "failing" THEN [enabled EXCEPT ![e] = FALSE] ELSE enabled
      /\ UNCHANGED <<feature, trusted, toggle, toggles, overlapped, hookVars>>
  BY DEF Executed
<1>3. HookInv' /\ UNCHANGED hooks
  BY <1>1, <1>2, HooksStay DEF hookVars
<1>4. /\ e \in Extensions /\ loops[k].queue # <<>> /\ Tail(loops[k].queue) \in Seq(Extensions)
      /\ ToSet(loops[k].queue) = ToSet(Tail(loops[k].queue)) \cup {e}
      /\ IsInjective(loops[k].queue) => IsInjective(Tail(loops[k].queue)) /\ e \notin ToSet(Tail(loops[k].queue))
  <2>1. loops[k].queue # <<>>
    BY <1>1, <1>2 DEF LoopStates
  <2> QED BY <1>1, <2>1, HeadAndTail
<1>5. PICK e1 \in Extensions : e1 = e
  BY <1>4
<1>6. loop \in LoopStates /\ loop.at = "next" /\ loop.queue = Tail(loops[k].queue)
  BY <1>4 DEF Loop, LoopStates
<1>7. Step(k, loop)
  BY <1>2
<1>8. executed' \in Seq(Extensions) /\ (loops[k].at # "running" => executed' = executed)
  <2>1. CASE loops[k].at = "running"
    <3>1. executed' = Append(executed, e1) /\ executed \in Seq(Extensions)
      BY <1>1, <1>2, <1>5, <2>1 DEF HostTypes
    <3> QED BY <2>1, <3>1, ExecutionRecorded
  <2>2. CASE loops[k].at # "running"
    BY <1>1, <1>2, <2>2 DEF HostTypes
  <2> QED BY <2>1, <2>2
<1>9. HostTypes'
  <2>1. enabled' \in [Extensions -> {None, TRUE, FALSE}] /\ \A x \in Extensions : enabled[x] \in BOOLEAN => enabled'[x] \in BOOLEAN
    <3>1. CASE loops[k].at = "failing"
      BY <1>1, <1>2, <3>1 DEF HostTypes
    <3>2. CASE loops[k].at # "failing"
      BY <1>1, <1>2, <3>2 DEF HostTypes
    <3> QED BY <3>1, <3>2
  <2>2. UNCHANGED <<trusted, toggle, toggles>>
    BY <1>2
  <2> HIDE DEF loop
  <2> QED BY <1>1, <1>6, <1>7, <1>8, <2>1, <2>2, LoopTypes
<1>10. ASSUME ~overlapped' PROVE Calm'
  <2>1. Calm /\ UnderWay(k) /\ LoadAsFar(k) /\ loops[k].at # "failing"
    BY <1>1, <1>2, <1>10 DEF Calm, UnderWay, LoopAsFar, LoadAsFar
  <2>2. /\ feature /\ IsInjective(loops[k].queue) /\ (\A x \in ToSet(loops[k].queue) : IsEnabled(x))
        /\ (\A x \in ToSet(Tail(loops[k].queue)) : ~Hooked(x)) /\ Hooked(e1)
        /\ (\A x \in Extensions \ ToSet(loops[k].queue) : Settled(x)) /\ (WasExecuted(e1) <=> loops[k].at = "handler")
    BY <1>2, <1>5, <2>1 DEF LoadAsFar, Waiting
  <2>3. \A x : (IsEnabled(x)' <=> IsEnabled(x)) /\ (Hooked(x)' <=> Hooked(x))
    BY <1>2, <1>3, <2>1 DEF IsEnabled, Hooked
  <2>4. IsInjective(executed') /\ \A x : WasExecuted(x)' <=> WasExecuted(x) \/ x = e1
    <3>1. CASE loops[k].at = "running"
      <4>1. executed' = Append(executed, e1) /\ executed \in Seq(Extensions)
        BY <1>1, <1>2, <1>5, <3>1 DEF HostTypes
      <4>2. IsInjective(executed) /\ ~WasExecuted(e1)
        BY <2>1, <2>2, <3>1 DEF Calm
      <4> QED BY <4>1, <4>2, ExecutionRecorded
    <3>2. CASE loops[k].at # "running"
      <4>1. executed' = executed /\ WasExecuted(e1)
        BY <1>2, <1>8, <2>1, <2>2, <3>2
      <4> QED BY <2>1, <4>1 DEF Calm, WasExecuted
    <3> QED BY <3>1, <3>2
  <2>5. loops'[k].at = "next" /\ loops'[k].queue = Tail(loops[k].queue)
    <3>1. loops'[k] = loop
      BY <1>1, <1>2 DEF HostTypes, Step
    <3> HIDE DEF loop
    <3> QED BY <1>6, <3>1
  <2>6. Waiting(k)' = ToSet(Tail(loops[k].queue))
    BY <2>5 DEF Waiting
  <2>7. ASSUME NEW x \in Extensions \ ToSet(Tail(loops[k].queue)) PROVE Settled(x)'
    <3>1. CASE x = e1
      <4>1. IsEnabled(x)' /\ Hooked(x)' /\ WasExecuted(x)' /\ feature'
        BY <1>2, <1>4, <1>5, <2>2, <2>3, <2>4, <3>1
      <4> QED BY <4>1 DEF Settled
    <3>2. CASE x # e1
      <4>1. Settled(x) /\ (WasExecuted(x)' <=> WasExecuted(x)) /\ feature' = feature
        BY <1>2, <1>4, <1>5, <2>2, <2>4, <2>7, <3>2
      <4> QED BY <2>3, <4>1 DEF Settled
    <3> QED BY <3>1, <3>2
  <2>8. LoadAsFar(k)'
    <3>1. \A x \in ToSet(Tail(loops[k].queue)) : IsEnabled(x)' /\ ~Hooked(x)'
      BY <1>4, <2>2, <2>3
    <3> QED BY <1>2, <1>4, <2>2, <2>5, <2>6, <2>7, <3>1 DEF LoadAsFar
  <2>9. IsInjective(hooks') /\ UNCHANGED toggle
    BY <1>2, <1>3, <2>1 DEF Calm
  <2> HIDE DEF loop
  <2> QED BY <1>1, <1>6, <1>7, <2>1, <2>4, <2>8, <2>9, LoopGoesOn DEF LoopAsFar
<1> QED BY <1>3, <1>9, <1>10 DEF HostInv

\* The next extension of an unload is disabled.
LEMMA LoadDisables ==
  ASSUME HostInv, NEW k \in DOMAIN loops, Disable(k)
  PROVE  HostInv'
<1> DEFINE e == Head(loops[k].queue)
           loop == [loops[k] EXCEPT !.queue = Tail(loops[k].queue)]
<1>1. HookInv /\ HostTypes /\ (~overlapped => Calm) /\ loops[k] \in LoopStates /\ loops[k].queue \in Seq(Extensions)
  BY HostFacts DEF HostInv
<1>2. /\ loops[k].at = "disabling" /\ loops[k].queue # <<>> /\ Step(k, loop)
      /\ UNCHANGED <<feature, trusted, enabled, executed, toggle, toggles>>
  BY DEF Disable
<1>3. PICK fails \in BOOLEAN :
        /\ IF IsEnabled(e) THEN dirtyLifecycle(e, FALSE, fails) ELSE ~fails /\ UNCHANGED hookVars
        /\ ToldOverlap(fails)
  BY DEF Disable
<1>4. /\ e \in Extensions /\ Tail(loops[k].queue) \in Seq(Extensions)
      /\ ToSet(loops[k].queue) = ToSet(Tail(loops[k].queue)) \cup {e}
  BY <1>1, <1>2, HeadAndTail
<1>5. loop \in LoopStates /\ loop.at = "disabling" /\ loop.queue = Tail(loops[k].queue)
  BY <1>1, <1>2, <1>4 DEF LoopStates
<1> HIDE DEF e, loop
<1>6. HookInv'
  <2>1. CASE IsEnabled(e)
    BY <1>1, <1>3, <1>4, <2>1, HandlerCalled
  <2>2. CASE ~IsEnabled(e)
    BY <1>1, <1>3, <2>2, HooksStay
  <2> QED BY <2>1, <2>2
<1>7. HostTypes'
  <2>1. executed' \in Seq(Extensions) /\ enabled' \in [Extensions -> {None, TRUE, FALSE}]
    BY <1>1, <1>2 DEF HostTypes
  <2> QED BY <1>1, <1>2, <1>5, <2>1, LoopTypes
<1>8. ASSUME ~overlapped' PROVE Calm'
  <2>1. ~overlapped /\ ~fails
    BY <1>3, <1>8 DEF ToldOverlap
  <2>2. Calm /\ UnderWay(k) /\ LoopAsFar(k)
    BY <1>1, <1>2, <2>1 DEF Calm, UnderWay
  <2>3. ~feature /\ \A x \in Extensions : Hooked(x) => x \in ToSet(loops[k].queue) /\ IsEnabled(x)
    BY <1>2, <2>2 DEF LoopAsFar, LoadAsFar
  <2>4. IsInjective(hooks') /\ \A x \in Extensions : Hooked(x)' => Hooked(x) /\ x # e
    <3>1. CASE IsEnabled(e)
      BY <1>1, <1>3, <1>4, <2>1, <2>2, <3>1, HandlerCalled DEF Calm
    <3>2. CASE ~IsEnabled(e)
      <4>1. hooks' = hooks /\ ~Hooked(e)
        BY <1>3, <1>4, <2>3, <3>2 DEF hookVars
      <4> QED BY <2>2, <4>1 DEF Calm, Hooked
    <3> QED BY <3>1, <3>2
  <2>5. loops'[k].at = "disabling" /\ loops'[k].queue = Tail(loops[k].queue)
    BY <1>1, <1>2, <1>5 DEF HostTypes, Step
  <2>6. \A x \in Extensions : Hooked(x)' => x \in ToSet(Tail(loops[k].queue)) /\ IsEnabled(x)'
    BY <1>2, <1>4, <2>3, <2>4 DEF IsEnabled
  <2>7. LoopAsFar(k)'
    BY <1>2, <2>3, <2>5, <2>6 DEF LoopAsFar
  <2>8. IsInjective(executed') /\ UNCHANGED toggle
    BY <1>2, <2>2 DEF Calm
  <2> QED BY <1>1, <1>2, <1>5, <2>2, <2>4, <2>7, <2>8, LoopGoesOn
<1> QED BY <1>6, <1>7, <1>8 DEF HostInv

\* What a toggle leaves alone.
LEMMA ToggleTypes ==
  ASSUME HostTypes, NEW e \in Extensions, NEW at \in {"idle", "asking", "generic", "handler", "running", "failing"},
         NEW was \in BOOLEAN, LoopGoes(e, at, was), UNCHANGED <<trusted, loops>>, toggles' \in 0..MaxToggles,
         executed' \in Seq(Extensions), enabled' \in [Extensions -> {None, TRUE, FALSE}],
         \A x \in Extensions : enabled[x] \in BOOLEAN => enabled'[x] \in BOOLEAN,
         at # "idle" => enabled[e] \in BOOLEAN
  PROVE  HostTypes'
<1> DEFINE click == [at |-> at, was |-> was]
<1>1. click \in ToggleStates /\ click.at = at
  BY DEF ToggleStates
<1>2. toggle' = [toggle EXCEPT ![e] = click]
  BY DEF LoopGoes
<1> HIDE DEF click
<1>3. toggle' \in [Extensions -> ToggleStates]
  BY <1>1, <1>2 DEF HostTypes
<1>4. ASSUME NEW x \in Extensions, toggle'[x].at # "idle" PROVE enabled'[x] \in BOOLEAN
  <2>1. CASE x = e
    <3>1. toggle'[e] = click
      BY <1>2 DEF HostTypes
    <3>2. at # "idle"
      BY <1>1, <1>4, <2>1, <3>1
    <3> QED BY <2>1, <3>2
  <2>2. CASE x # e
    BY <1>2, <1>4, <2>2 DEF HostTypes
  <2> QED BY <2>1, <2>2
<1> QED BY <1>3, <1>4 DEF HostTypes

\* A click, and the answer to what it asks.
LEMMA ClickSteps ==
  ASSUME HostInv, NEW e \in Extensions, Click(e) \/ \E confirmed \in BOOLEAN : ConfirmAnswered(e, confirmed)
  PROVE  HostInv'
<1>1. HookInv /\ HostTypes /\ (~overlapped => Calm)
  BY DEF HostInv
<1>2. PICK at \in {"idle", "asking", "generic"} :
        /\ LoopGoes(e, at, FALSE)
        /\ at = "generic" => ToldOverlap(Busy)
        /\ at # "generic" => ToldOverlap(FALSE)
  <2>1. CASE Click(e)
    <3> DEFINE at == IF e \in trusted \/ IsEnabled(e) THEN "generic" ELSE "asking"
    <3>1. LoopGoes(e, at, FALSE) /\ ToldOverlap(toggle'[e].at = "generic" /\ Busy) /\ at \in {"asking", "generic"}
      BY <2>1 DEF Click
    <3> HIDE DEF at
    <3>2. toggle'[e].at = at
      BY <1>1, <3>1 DEF LoopGoes, HostTypes
    <3>3. CASE at = "generic"
      BY <3>1, <3>2, <3>3 DEF ToldOverlap
    <3>4. CASE at = "asking"
      BY <3>1, <3>2, <3>4 DEF ToldOverlap
    <3> QED BY <3>1, <3>3, <3>4
  <2>2. ASSUME NEW confirmed \in BOOLEAN, ConfirmAnswered(e, confirmed)
        PROVE  \E at \in {"idle", "asking", "generic"} :
                 LoopGoes(e, at, FALSE) /\ (at = "generic" => ToldOverlap(Busy)) /\ (at # "generic" => ToldOverlap(FALSE))
    <3>1. CASE confirmed
      <4>1. LoopGoes(e, "generic", FALSE) /\ ToldOverlap(Busy)
        BY <2>2, <3>1 DEF ConfirmAnswered, ToldOverlap
      <4> QED BY <4>1
    <3>2. CASE ~confirmed
      <4>1. LoopGoes(e, "idle", FALSE) /\ ToldOverlap(FALSE)
        BY <2>2, <3>2 DEF ConfirmAnswered, ToldOverlap
      <4> QED BY <4>1
    <3> QED BY <3>1, <3>2
  <2> QED BY <2>1, <2>2
<1>3. /\ UNCHANGED <<feature, trusted, enabled, executed, loops, hookVars>> /\ toggles' \in 0..MaxToggles
      /\ toggle[e].at \in {"idle", "asking"} /\ enabled[e] \in BOOLEAN
  <2>1. CASE Click(e)
    <3>1. enabled[e] \in {None, TRUE, FALSE} /\ enabled[e] # None
      BY <1>1, <2>1 DEF Click, HostTypes
    <3>2. toggles' \in 0..MaxToggles
      BY <1>1, <2>1, HostAssumption DEF Click, HostTypes
    <3> QED BY <2>1, <3>1, <3>2 DEF Click
  <2>2. CASE \E confirmed \in BOOLEAN : ConfirmAnswered(e, confirmed)
    BY <1>1, <2>2 DEF ConfirmAnswered, HostTypes
  <2> QED BY <2>1, <2>2
<1>4. HookInv' /\ UNCHANGED hooks
  BY <1>1, <1>3, HooksStay DEF hookVars
<1>5. HostTypes'
  <2>1. executed' \in Seq(Extensions) /\ enabled' \in [Extensions -> {None, TRUE, FALSE}]
    BY <1>1, <1>3 DEF HostTypes
  <2> QED BY <1>1, <1>2, <1>3, <2>1, ToggleTypes
<1>6. ASSUME ~overlapped' PROVE Calm'
  <2>1. ~Toggles(e)
    BY <1>3 DEF Toggles
  <2>2. UNCHANGED <<feature, enabled, executed, loops, hooks>>
    BY <1>3, <1>4
  <2> QED BY <1>1, <1>2, <1>6, <2>1, <2>2, ClickGoesOn
<1> QED BY <1>4, <1>5, <1>6 DEF HostInv

\* The entry of an extension is flipped.
LEMMA EntryFlips ==
  ASSUME HostTypes, NEW e \in Extensions, enabled[e] \in BOOLEAN, enabled' = Flipped(e)
  PROVE  /\ enabled' \in [Extensions -> {None, TRUE, FALSE}] /\ enabled'[e] \in BOOLEAN
         /\ IsEnabled(e)' <=> ~IsEnabled(e)
         /\ \A x \in Extensions : x # e => enabled'[x] = enabled[x]
<1>1. enabled \in [Extensions -> {None, TRUE, FALSE}]
  BY DEF HostTypes
<1>2. PICK value \in BOOLEAN : value = ~enabled[e]
  BY Zenon
<1>3. enabled' = [enabled EXCEPT ![e] = value]
  BY <1>2 DEF Flipped
<1>4. (value = TRUE) <=> ~(enabled[e] = TRUE)
  <2>1. CASE enabled[e] = TRUE
    BY <1>2, <2>1
  <2>2. CASE enabled[e] = FALSE
    BY <1>2, <2>2
  <2> QED BY <2>1, <2>2
<1> QED BY <1>1, <1>3, <1>4 DEF IsEnabled

\* A toggle flips an entry, or calls the extension.
LEMMA ToggleSteps ==
  ASSUME HostInv, NEW e \in Extensions, generic(e)
  PROVE  HostInv'
<1>1. HookInv /\ HostTypes /\ (~overlapped => Calm)
  BY DEF HostInv
<1>2. /\ toggle[e].at = "generic" /\ UNCHANGED <<feature, trusted, executed, loops, toggles>>
      /\ executed' \in Seq(Extensions) /\ toggles' \in 0..MaxToggles /\ enabled[e] \in BOOLEAN
      /\ enabled \in [Extensions -> {None, TRUE, FALSE}]
  BY <1>1 DEF generic, HostTypes
<1>3. ASSUME ~overlapped PROVE Calm /\ Toggles(e) /\ (\A x \in Extensions : Settled(x)) /\ IsInjective(hooks) /\ IsInjective(executed')
  <2>1. Calm /\ Toggles(e)
    BY <1>1, <1>2, <1>3 DEF Toggles
  <2>2. ToggleAsFar(e)
    BY <2>1 DEF Calm
  <2> QED BY <1>2, <2>1, <2>2 DEF Calm, ToggleAsFar
<1>4. CASE /\ ~feature \/ (IsEnabled(e) /\ ~WasExecuted(e))
           /\ enabled' = Flipped(e) /\ LoopGoes(e, "idle", FALSE)
           /\ UNCHANGED <<hookVars, overlapped>>
  <2>1. HookInv' /\ UNCHANGED hooks
    BY <1>1, <1>4, HooksStay DEF hookVars
  <2>2. /\ enabled' \in [Extensions -> {None, TRUE, FALSE}] /\ enabled'[e] \in BOOLEAN /\ (IsEnabled(e)' <=> ~IsEnabled(e))
        /\ \A x \in Extensions : x # e => enabled'[x] = enabled[x]
    BY <1>1, <1>2, <1>4, EntryFlips
  <2>3. HostTypes'
    <3>1. \A x \in Extensions : enabled[x] \in BOOLEAN => enabled'[x] \in BOOLEAN
      BY <2>2
    <3> QED BY <1>1, <1>2, <1>4, <2>2, <3>1, ToggleTypes
  <2>4. ASSUME ~overlapped' PROVE Calm'
    <3>1. Calm /\ Toggles(e) /\ (\A x \in Extensions : Settled(x)) /\ IsInjective(hooks') /\ IsInjective(executed')
      BY <1>3, <1>4, <2>1, <2>4
    <3>2. ASSUME NEW x \in Extensions PROVE Settled(x)'
      <4>1. /\ Settled(x) /\ (Hooked(x)' <=> Hooked(x)) /\ (WasExecuted(x)' <=> WasExecuted(x)) /\ feature' = feature
            /\ x # e => (IsEnabled(x)' <=> IsEnabled(x))
        BY <1>2, <2>1, <2>2, <3>1 DEF Hooked, WasExecuted, IsEnabled
      <4> QED BY <1>4, <2>2, <4>1 DEF Settled
    <3> QED BY <1>1, <1>2, <1>4, <3>1, <3>2, ToggleGoesOn
  <2> QED BY <2>1, <2>3, <2>4 DEF HostInv
<1>5. ASSUME feature, UNCHANGED enabled, NEW fails \in BOOLEAN, ToldOverlap(fails),
             dirtyLifecycle(e, ~IsEnabled(e), fails), LoopGoes(e, "handler", IsEnabled(e))
      PROVE  HostInv'
  <2>1. PICK was \in BOOLEAN : was <=> IsEnabled(e)
    BY DEF IsEnabled
  <2>2. was = IsEnabled(e)
    BY <2>1 DEF IsEnabled
  <2>3. dirtyLifecycle(e, ~was, fails) /\ LoopGoes(e, "handler", was)
    BY <1>5, <2>2
  <2>4. HookInv' /\ WasExecuted(e)
    BY <1>1, <2>3, HandlerCalled
  <2>5. HostTypes'
    <3>1. enabled' \in [Extensions -> {None, TRUE, FALSE}] /\ \A x \in Extensions : enabled[x] \in BOOLEAN => enabled'[x] \in BOOLEAN
      BY <1>2, <1>5
    <3> QED BY <1>1, <1>2, <2>3, <3>1, ToggleTypes
  <2>6. ASSUME ~overlapped' PROVE Calm'
    <3>1. ~overlapped /\ ~fails
      BY <1>5, <2>6 DEF ToldOverlap
    <3>2. Calm /\ Toggles(e) /\ (\A x \in Extensions : Settled(x)) /\ IsInjective(hooks) /\ IsInjective(executed')
      BY <1>3, <3>1
    <3>3. Hooked(e) => was
      BY <2>1, <3>2 DEF Settled
    <3>4. /\ IsInjective(hooks') /\ (Hooked(e)' <=> ~was)
          /\ \A x \in Extensions : x # e => (Hooked(x)' <=> Hooked(x))
      BY <1>1, <2>3, <3>1, <3>2, <3>3, HandlerCalled
    <3>5. /\ feature' /\ WasExecuted(e)'
          /\ \A x \in Extensions : (IsEnabled(x)' <=> IsEnabled(x)) /\ (WasExecuted(x)' <=> WasExecuted(x))
      BY <1>2, <1>5, <2>4 DEF IsEnabled, WasExecuted
    <3>6. \A x \in Extensions \ {e} : Settled(x)'
      BY <1>2, <3>2, <3>4, <3>5 DEF Settled
    <3>7. toggle'[e].at = "handler" /\ toggle'[e].was = was
      BY <1>1, <2>3 DEF LoopGoes, HostTypes
    <3>8. ToggleAsFar(e)'
      BY <3>4, <3>5, <3>6, <3>7 DEF ToggleAsFar
    <3> QED BY <1>1, <1>2, <2>3, <3>2, <3>4, <3>8, ToggleGoesOn
  <2> QED BY <2>4, <2>5, <2>6 DEF HostInv
<1>6. ASSUME feature, UNCHANGED enabled, NEW fails \in BOOLEAN, ToldOverlap(fails), ~IsEnabled(e),
             RunCode(e, fails), LoopGoes(e, IF fails THEN "failing" ELSE "running", FALSE)
      PROVE  HostInv'
  <2>1. PICK at \in {"running", "failing"} : LoopGoes(e, at, FALSE) /\ (at = "failing" <=> fails)
    <3>1. CASE fails
      BY <1>6, <3>1
    <3>2. CASE ~fails
      BY <1>6, <3>2
    <3> QED BY <3>1, <3>2
  <2>2. HookInv' /\ ~WasExecuted(e)
    BY <1>1, <1>6, CodeRun
  <2>3. HostTypes'
    <3>1. enabled' \in [Extensions -> {None, TRUE, FALSE}] /\ \A x \in Extensions : enabled[x] \in BOOLEAN => enabled'[x] \in BOOLEAN
      BY <1>2, <1>6
    <3> QED BY <1>1, <1>2, <2>1, <3>1, ToggleTypes
  <2>4. ASSUME ~overlapped' PROVE Calm'
    <3>1. ~overlapped /\ ~fails /\ at = "running"
      BY <1>6, <2>1, <2>4 DEF ToldOverlap
    <3>2. Calm /\ Toggles(e) /\ (\A x \in Extensions : Settled(x)) /\ IsInjective(hooks) /\ IsInjective(executed')
      BY <1>3, <3>1
    <3>3. ~Hooked(e)
      BY <2>2, <3>2 DEF Settled
    <3>4. /\ IsInjective(hooks') /\ Hooked(e)'
          /\ \A x \in Extensions : x # e => (Hooked(x)' <=> Hooked(x))
      BY <1>1, <1>6, <3>1, <3>2, <3>3, CodeRun
    <3>5. /\ feature' /\ ~WasExecuted(e)'
          /\ \A x \in Extensions : (IsEnabled(x)' <=> IsEnabled(x)) /\ (WasExecuted(x)' <=> WasExecuted(x))
      BY <1>2, <1>6, <2>2 DEF IsEnabled, WasExecuted
    <3>6. \A x \in Extensions \ {e} : Settled(x)'
      BY <1>2, <3>2, <3>4, <3>5 DEF Settled
    <3>7. toggle'[e].at = "running" /\ toggle'[e].was = FALSE
      BY <1>1, <2>1, <3>1 DEF LoopGoes, HostTypes
    <3>8. ToggleAsFar(e)'
      BY <3>4, <3>5, <3>6, <3>7 DEF ToggleAsFar
    <3> QED BY <1>1, <1>2, <2>1, <3>1, <3>2, <3>4, <3>8, ToggleGoesOn
  <2> QED BY <2>2, <2>3, <2>4 DEF HostInv
<1> QED BY <1>4, <1>5, <1>6 DEF generic

\* A toggle has ended.
LEMMA ToggleEnds ==
  ASSUME HostInv, NEW e \in Extensions, GenericDone(e)
  PROVE  HostInv'
<1>1. HookInv /\ HostTypes /\ (~overlapped => Calm) /\ toggle[e].was \in BOOLEAN
  BY HostFacts DEF HostInv
<1>2. PICK was \in BOOLEAN : was = toggle[e].was
  BY <1>1
<1>3. PICK entry \in BOOLEAN : entry = ~was
  OBVIOUS
<1>4. (entry = TRUE) <=> ~was
  <2>1. CASE was = TRUE
    BY <1>3, <2>1
  <2>2. CASE was = FALSE
    BY <1>3, <2>2
  <2> QED BY <2>1, <2>2
<1>5. /\ toggle[e].at \in {"handler", "running", "failing"} /\ LoopGoes(e, "idle", FALSE)
      /\ executed' = IF toggle[e].at = "running" THEN Append(executed, e) ELSE executed
      /\ enabled' = IF toggle[e].at = "failing" THEN enabled ELSE [enabled EXCEPT ![e] = entry]
      /\ UNCHANGED <<feature, trusted, loops, toggles, overlapped, hookVars>>
  BY <1>2, <1>3 DEF GenericDone
<1>6. HookInv' /\ UNCHANGED hooks
  BY <1>1, <1>5, HooksStay DEF hookVars
<1>7. /\ executed' \in Seq(Extensions)
      /\ toggle[e].at = "running" => \A x : WasExecuted(x)' <=> WasExecuted(x) \/ x = e
      /\ toggle[e].at = "running" /\ IsInjective(executed) /\ ~WasExecuted(e) => IsInjective(executed')
      /\ toggle[e].at # "running" => executed' = executed
  <2>1. CASE toggle[e].at = "running"
    <3>1. executed' = Append(executed, e) /\ executed \in Seq(Extensions)
      BY <1>1, <1>5, <2>1 DEF HostTypes
    <3> QED BY <2>1, <3>1, ExecutionRecorded
  <2>2. CASE toggle[e].at # "running"
    BY <1>1, <1>5, <2>2 DEF HostTypes
  <2> QED BY <2>1, <2>2
<1>8. HostTypes'
  <2>1. enabled' \in [Extensions -> {None, TRUE, FALSE}] /\ \A x \in Extensions : enabled[x] \in BOOLEAN => enabled'[x] \in BOOLEAN
    <3>1. CASE toggle[e].at = "failing"
      BY <1>1, <1>5, <3>1 DEF HostTypes
    <3>2. CASE toggle[e].at # "failing"
      BY <1>1, <1>5, <3>2 DEF HostTypes
    <3> QED BY <3>1, <3>2
  <2>2. toggles' \in 0..MaxToggles
    BY <1>1, <1>5 DEF HostTypes
  <2> QED BY <1>1, <1>5, <1>7, <2>1, <2>2, ToggleTypes
<1>9. ASSUME ~overlapped' PROVE Calm'
  <2>1. Calm /\ Toggles(e)
    BY <1>1, <1>5, <1>9 DEF Toggles
  <2>2. ToggleAsFar(e)
    BY <2>1 DEF Calm
  <2>3. /\ toggle[e].at # "failing" /\ feature /\ (\A x \in Extensions \ {e} : Settled(x))
        /\ toggle[e].at = "handler" => WasExecuted(e) /\ (Hooked(e) <=> ~was)
        /\ toggle[e].at = "running" => ~WasExecuted(e) /\ Hooked(e) /\ ~was
    BY <1>2, <1>5, <2>2 DEF ToggleAsFar
  <2>4. /\ IsEnabled(e)' <=> ~was
        /\ \A x \in Extensions : x # e => (IsEnabled(x)' <=> IsEnabled(x))
    BY <1>1, <1>4, <1>5, <2>3 DEF IsEnabled, HostTypes
  <2>5. /\ IsInjective(executed') /\ WasExecuted(e)'
        /\ \A x \in Extensions : x # e => (WasExecuted(x)' <=> WasExecuted(x))
    <3>1. CASE toggle[e].at = "running"
      BY <1>7, <2>1, <2>3, <3>1 DEF Calm
    <3>2. CASE toggle[e].at = "handler"
      <4>1. executed' = executed /\ WasExecuted(e)
        BY <1>7, <2>3, <3>2
      <4> QED BY <2>1, <4>1 DEF Calm, WasExecuted
    <3> QED BY <1>5, <2>3, <3>1, <3>2
  <2>6. IsInjective(hooks') /\ feature' /\ \A x : Hooked(x)' <=> Hooked(x)
    BY <1>5, <1>6, <2>1, <2>3 DEF Calm, Hooked
  <2>7. Hooked(e)' <=> IsEnabled(e)'
    BY <1>5, <2>3, <2>4, <2>6
  <2>8. ASSUME NEW x \in Extensions PROVE Settled(x)'
    <3>1. CASE x = e
      BY <2>5, <2>6, <2>7, <3>1 DEF Settled
    <3>2. CASE x # e
      BY <2>3, <2>4, <2>5, <2>6, <3>2 DEF Settled
    <3> QED BY <3>1, <3>2
  <2> QED BY <1>1, <1>5, <2>1, <2>5, <2>6, <2>8, ToggleGoesOn
<1> QED BY <1>6, <1>8, <1>9 DEF HostInv

\* What no extension has a part in: hashes that arrive, a setting.
LEMMA SettingSteps ==
  ASSUME HostInv, updateTrustedHashes \/ toggleAllowUntrusted
  PROVE  HostInv'
<1>1. HookInv /\ HostTypes /\ (~overlapped => Calm)
  BY DEF HostInv
<1>2. UNCHANGED <<feature, enabled, executed, loops, toggle, overlapped, hookVars>>
  BY DEF updateTrustedHashes, toggleAllowUntrusted
<1>3. HookInv' /\ UNCHANGED hooks
  BY <1>1, <1>2, HooksStay DEF hookVars
<1>4. trusted' \in {TrustedFirst, TrustedLater} /\ toggles' \in 0..MaxToggles
  BY <1>1, HostAssumption DEF HostTypes, updateTrustedHashes, toggleAllowUntrusted
<1>5. HostTypes'
  BY <1>1, <1>2, <1>4 DEF HostTypes
<1>6. ~overlapped' => Calm'
  BY <1>1, <1>2, <1>3, CalmStays
<1> QED BY <1>3, <1>5, <1>6 DEF HostInv

\* At first nothing is loaded and nothing has hooks.
LEMMA HostStarts == HostInit => HostInv
<1> SUFFICES ASSUME HostInit PROVE HostInv
  OBVIOUS
<1>1. /\ hooks = <<>> /\ dispatch = NoDispatch /\ dispatches = 0 /\ steady = None
      /\ feature = FALSE /\ trusted = TrustedFirst /\ enabled \in [Extensions -> {None, TRUE}]
      /\ executed = <<>> /\ loops = <<>> /\ toggle = [e \in Extensions |-> NoToggle] /\ toggles = 0
  BY DEF HostInit, HooksInit
<1>2. NoToggle \in ToggleStates /\ NoToggle.at = "idle"
  BY DEF NoToggle, ToggleStates
<1>3. NoDispatch \in DispatchStates /\ NoDispatch.at = "idle"
  BY EmptySeq DEF NoDispatch, DispatchStates, Response
<1>4. HookInv
  BY <1>1, <1>3, EmptySeq, HooksAssumption DEF HookInv, HookTypes, SteadyPass
<1>5. HostTypes
  <2>1. loops \in Seq(LoopStates) /\ Len(loops) = 0 /\ executed \in Seq(Extensions)
    BY <1>1, EmptySeq
  <2>2. toggle \in [Extensions -> ToggleStates] /\ \A e \in Extensions : toggle[e].at = "idle"
    BY <1>1, <1>2
  <2>3. Len(loops) <= MaxMounts /\ toggles \in 0..MaxToggles
    BY <1>1, <2>1, HostAssumption
  <2>4. enabled \in [Extensions -> {None, TRUE, FALSE}]
    BY <1>1
  <2> QED BY <1>1, <2>1, <2>2, <2>3, <2>4 DEF HostTypes
<1>6. \A e \in Extensions : ~Toggles(e) /\ ~Hooked(e) /\ ~WasExecuted(e)
  BY <1>1, <1>2 DEF Toggles, Hooked, WasExecuted, ToSet
<1>7. DOMAIN loops = {} /\ DOMAIN hooks = {} /\ DOMAIN executed = {}
  BY <1>1
<1>8. Calm
  BY <1>6, <1>7 DEF Calm, Alone, Settled, IsInjective
<1> QED BY <1>4, <1>5, <1>8 DEF HostInv

\* Every step of the host.
LEMMA HostSteps == HostInv /\ [HostNext]_extensionVars => HostInv'
<1> SUFFICES ASSUME HostInv, [HostNext]_extensionVars PROVE HostInv'
  OBVIOUS
<1>1. ASSUME NEW k \in DOMAIN loops, LoopStep(k) PROVE HostInv'
  BY <1>1, ExtensionsRead, LoadEnds, LoadExecutes, LoadGoesOn, LoadDisables DEF LoopStep
<1>2. ASSUME NEW e \in Extensions, Click(e) \/ (\E confirmed \in BOOLEAN : ConfirmAnswered(e, confirmed)) \/ generic(e) \/ GenericDone(e)
      PROVE  HostInv'
  BY <1>2, ClickSteps, ToggleSteps, ToggleEnds
<1>3. ASSUME ExtensionStep PROVE HostInv'
  BY <1>1, <1>2, <1>3, LoaderSteps, SettingSteps DEF ExtensionStep
<1>4. ASSUME DispatchNext, UNCHANGED hostVars PROVE HostInv'
  <2>1. HookInv' /\ UNCHANGED hooks
    BY <1>4, PassGoesOn, PassKeepsHooks DEF HostInv
  <2>2. UNCHANGED <<feature, trusted, enabled, executed, loops, toggle, toggles, overlapped>>
    BY <1>4 DEF hostVars
  <2>3. HostTypes'
    BY <2>2 DEF HostInv, HostTypes
  <2>4. ~overlapped' => Calm'
    BY <2>1, <2>2, CalmStays DEF HostInv
  <2> QED BY <2>1, <2>3, <2>4 DEF HostInv
<1>5. ASSUME UNCHANGED extensionVars PROVE HostInv'
  <2>1. UNCHANGED <<feature, trusted, enabled, executed, loops, toggle, toggles, overlapped, hookVars>>
    BY <1>5 DEF extensionVars, hostVars
  <2>2. HookInv' /\ UNCHANGED hooks
    BY <2>1, HooksStay DEF hookVars, HostInv
  <2>3. HostTypes'
    BY <2>1 DEF HostInv, HostTypes
  <2>4. ~overlapped' => Calm'
    BY <2>1, <2>2, CalmStays DEF HostInv
  <2> QED BY <2>2, <2>3, <2>4 DEF HostInv
<1> QED BY <1>3, <1>4, <1>5 DEF HostNext

\* What the invariant says of the settings page and of the hooks.
LEMMA HostShows == HostInv => ExtensionsTypeOK /\ ExtensionsAsShown
<1> SUFFICES ASSUME HostInv PROVE ExtensionsTypeOK /\ ExtensionsAsShown
  OBVIOUS
<1>1. HookInv /\ HostTypes /\ (~overlapped => Calm)
  BY DEF HostInv
<1>2. /\ hooks \in Seq(Extensions) /\ dispatch \in DispatchStates /\ dispatches \in 0..MaxDispatches /\ SteadyPass
  BY <1>1 DEF HookInv, HookTypes
<1>3. /\ dispatch.at \in {"idle", "next", "awaited", "done"} /\ dispatch.way \in Ways \cup {None}
      /\ dispatch.ran \in Seq(Extensions)
  BY <1>2 DEF DispatchStates
<1>4. \A s \in Seq(Extensions) : ToSet(s) \subseteq Extensions
  BY DEF ToSet
<1>5. ExtensionsTypeOK
  <2>1. HooksTypeOK
    BY <1>2, <1>3, <1>4 DEF HooksTypeOK
  <2>2. \A e \in Extensions : toggle[e].at \in {"idle", "asking", "generic", "handler", "running", "failing"}
    BY <1>1, HostFacts DEF ToggleStates
  <2>3. {enabled[e] : e \in Extensions} \subseteq {None, TRUE, FALSE} /\ executed \in Seq(Extensions)
    BY <1>1 DEF HostTypes
  <2> QED BY <1>1, <1>4, <2>1, <2>2, <2>3 DEF ExtensionsTypeOK, HostTypes
<1>6. ShownIsRun
  <2> SUFFICES ASSUME ~overlapped, ~Busy PROVE ShownIsRun
    BY DEF ShownIsRun
  <2>1. IsInjective(executed) /\ IsInjective(hooks) /\ \A e \in Extensions : Settled(e)
    BY <1>1 DEF Calm
  <2>2. ToSet(hooks) \subseteq Extensions /\ ToSet(executed) \subseteq Extensions
    BY <1>1, <1>2, <1>4 DEF HostTypes
  <2> QED BY <2>1, <2>2 DEF ShownIsRun, Settled, Hooked, WasExecuted
<1>7. HooksInOrder
  <2> SUFFICES ASSUME steady # None PROVE HooksInOrder
    BY DEF HooksInOrder
  <2>1. steady.list = hooks /\ IsPrefix(dispatch.ran, hooks)
    BY <1>2, <1>3, BeginsIsPrefix DEF SteadyPass
  <2> QED BY <1>2, <2>1 DEF HooksInOrder, SteadyPass
<1> QED BY <1>5, <1>6, <1>7 DEF ExtensionsAsShown

(* The inductive invariant of the extension host.                          *)
THEOREM HostInvariance == HostSafety => []HostInv
<1>1. HostInit => HostInv
  BY HostStarts
<1>2. HostInv /\ [HostNext]_extensionVars => HostInv'
  BY HostSteps
<1> QED BY <1>1, <1>2, PTL DEF HostSafety

(* What the settings page shows of the extensions is what runs, unless     *)
(* loads, unloads and toggles overlapped or one failed; and passes through *)
(* the hooks call them once each and in order (ExtensionLoader.vue,        *)
(* extensionHandler, catchHooks).                                          *)
THEOREM ShownExtensionsRun == HostSafety => [](ExtensionsAsShown /\ ExtensionsTypeOK)
<1>1. HostInv => ExtensionsAsShown /\ ExtensionsTypeOK
  BY HostShows
<1> QED BY <1>1, HostInvariance, PTL

-----------------------------------------------------------------------------
(* Requests for permissions (module PermissionRequests).  What was decided *)
(* is not asked again, so that no answer changes under those who have it.  *)

RequestStates == [at : {"idle", "static", "waiting", "done", "failed"}, answers : Seq(BOOLEAN)]

PermissionTypes ==
  /\ permissions \in [TheExtensions -> [AllPermissions -> {None, TRUE, FALSE}]]
  /\ request \in [Requests -> RequestStates] /\ dialog \in Requests \cup {None}

\* A request that has all its answers, or has been given what it wants.
Decided(r) ==
  \/ request[r].at = "done"
  \/ request[r].at = "static" /\ \A i \in DOMAIN Wanted[r] : handlePermission(Wanted[r][i]) # "error"

\* The first answers are those recorded.
AnsweredTo(r, n) ==
  n <= Len(request[r].answers) /\ \A i \in 1..n : request[r].answers[i] = Recorded(r, Wanted[r][i]) /\ Recorded(r, Wanted[r][i]) # None

DecidedInv ==
  \A r \in Requests : Decided(r) =>
    IF request[r].at = "done" THEN AnsweredTo(r, Len(Wanted[r]))
    ELSE \A i \in DOMAIN Wanted[r] : Recorded(r, Wanted[r][i]) = TRUE

\* The question that is shown was decided for nobody.
DialogInv ==
  dialog # None =>
    /\ request[dialog].at \in {"waiting", "failed"} /\ Len(request[dialog].answers) < Len(Wanted[dialog])
    /\ \A r \in Requests : Decided(r) /\ Requester[r] = Requester[dialog] => Question(dialog) \notin ToSet(Wanted[r])
    /\ Waits(dialog) => AnsweredTo(dialog, Len(request[dialog].answers)) /\ Recorded(dialog, Question(dialog)) = None

\* Uncrossed, a request that waits has the dialog.
WaitInv == ~crossed => \A r \in Requests : Waits(r) => dialog = r

\* What was sent is within its permission.
SentWithin ==
  LET scope == sent.for[3].path
  IN /\ sent.for[1] = "internet" /\ sent.for[2] = IF sent.method = "GET" THEN "http-get" ELSE "http-post"
     /\ sent.url.origin = sent.for[3].origin
     /\ \A i \in DOMAIN scope :
          \/ i \in DOMAIN sent.url.path /\ sent.url.path[i] = scope[i]
          \/ i = Len(scope) /\ scope[i] = ""

SentInv ==
  sent # None =>
    /\ SentWithin
    /\ \E r \in Requests : \E i \in DOMAIN Wanted[r] :
         /\ Decided(r) /\ sent.who = Requester[r] /\ sent.for = Wanted[r][i]
         /\ Recorded(r, Wanted[r][i]) = TRUE

PermissionInv == PermissionTypes /\ DecidedInv /\ DialogInv /\ WaitInv /\ SentInv

PermissionsSafety == PermissionsInit /\ [][PermissionsNext]_permissionVars

\* Answers that are known already follow those that were given.
LEMMA KnownFollow ==
  ASSUME NEW r \in Requests, NEW answers \in Seq(BOOLEAN), NEW recorded \in [AllPermissions -> {None, TRUE, FALSE}],
         NEW to \in Nat, Len(answers) <= to, to <= Len(Wanted[r]),
         \A i \in (Len(answers) + 1)..to : recorded[Wanted[r][i]] # None
  PROVE  LET new == answers \o [i \in 1..(to - Len(answers)) |-> recorded[Wanted[r][i + Len(answers)]]]
         IN  /\ new \in Seq(BOOLEAN) /\ Len(new) = to
             /\ \A i \in 1..Len(answers) : new[i] = answers[i]
             /\ \A i \in (Len(answers) + 1)..to : new[i] = recorded[Wanted[r][i]]
<1> DEFINE size == to - Len(answers)
           known == [i \in 1..size |-> recorded[Wanted[r][i + Len(answers)]]]
           new == answers \o known
<1>1. Len(answers) \in Nat /\ size \in Nat /\ Len(answers) + size = to
  OBVIOUS
<1>2. ASSUME NEW i \in 1..size
      PROVE  i + Len(answers) \in (Len(answers) + 1)..to /\ recorded[Wanted[r][i + Len(answers)]] \in BOOLEAN
  <2>1. i + Len(answers) \in (Len(answers) + 1)..to /\ i + Len(answers) \in 1..Len(Wanted[r])
    BY <1>1
  <2>2. Wanted[r] \in Seq(AllPermissions)
    BY PermissionsAssumption
  <2>3. Wanted[r][i + Len(answers)] \in AllPermissions
    BY <2>1, <2>2
  <2>4. recorded[Wanted[r][i + Len(answers)]] \in {None, TRUE, FALSE}
    BY <2>3
  <2>5. recorded[Wanted[r][i + Len(answers)]] # None
    BY <2>1
  <2> QED BY <2>1, <2>4, <2>5
<1>3. known \in Seq(BOOLEAN) /\ Len(known) = size /\ \A i \in 1..size : known[i] = recorded[Wanted[r][i + Len(answers)]]
  BY <1>1, <1>2
<1> HIDE DEF known
<1>4. /\ new \in Seq(BOOLEAN) /\ Len(new) = Len(answers) + size
      /\ \A i \in 1..(Len(answers) + size) : new[i] = IF i <= Len(answers) THEN answers[i] ELSE known[i - Len(answers)]
  BY <1>1, <1>3
<1>5. ASSUME NEW i \in (Len(answers) + 1)..to PROVE new[i] = recorded[Wanted[r][i]]
  <2>1. i \in 1..(Len(answers) + size) /\ ~(i <= Len(answers)) /\ i - Len(answers) \in 1..size /\ (i - Len(answers)) + Len(answers) = i
    BY <1>1
  <2>2. new[i] = known[i - Len(answers)]
    BY <1>4, <2>1
  <2>3. known[i - Len(answers)] = recorded[Wanted[r][(i - Len(answers)) + Len(answers)]]
    BY <1>3, <2>1
  <2> QED BY <2>1, <2>2, <2>3
<1>6. \A i \in 1..Len(answers) : new[i] = answers[i]
  BY <1>1, <1>4
<1> QED BY <1>1, <1>4, <1>5, <1>6 DEF known

\* The answers a request has when it goes on: those it had, and those recorded.
Extends(new, answers, r, recorded) ==
  /\ Len(answers) <= Len(new) /\ Len(new) <= Len(Wanted[r])
  /\ \A i \in 1..Len(answers) : new[i] = answers[i]
  /\ \A i \in (Len(answers) + 1)..Len(new) : new[i] = recorded[Wanted[r][i]] /\ recorded[Wanted[r][i]] # None

\* A request goes on to a failure, to the next question, or to its end.
LEMMA Continues ==
  ASSUME NEW r \in Requests, NEW answers \in Seq(BOOLEAN), Len(answers) <= Len(Wanted[r]),
         NEW recorded \in [AllPermissions -> {None, TRUE, FALSE}], Continue(r, answers, recorded)
  PROVE  \/ request' = [request EXCEPT ![r].at = "failed"] /\ UNCHANGED <<dialog, crossed>>
         \/ \E new \in Seq(BOOLEAN) :
              /\ Extends(new, answers, r, recorded) /\ Len(new) < Len(Wanted[r]) /\ recorded[Wanted[r][Len(new) + 1]] = None
              /\ request' = [request EXCEPT ![r] = [at |-> "waiting", answers |-> new]] /\ dialog' = r
              /\ crossed' = (crossed \/ (dialog # None /\ dialog # r))
         \/ \E new \in Seq(BOOLEAN) :
              /\ Extends(new, answers, r, recorded) /\ Len(new) = Len(Wanted[r])
              /\ request' = [request EXCEPT ![r] = [at |-> "done", answers |-> new]] /\ dialog' = None
              /\ crossed' = (crossed \/ (dialog # None /\ dialog # r))
<1> DEFINE undecided == {i \in DOMAIN Wanted[r] : i > Len(answers) /\ recorded[Wanted[r][i]] = None}
           stop == {i \in DOMAIN Wanted[r] :
                      i > Len(answers) /\ recorded[Wanted[r][i]] = TRUE /\ handlePermission(Wanted[r][i]) = "error"}
           first(s) == CHOOSE i \in s : \A j \in s : i <= j
           known(to) == answers \o [i \in 1..(to - Len(answers)) |-> recorded[Wanted[r][i + Len(answers)]]]
           next == first(undecided)
<1>1. Wanted[r] \in Seq(AllPermissions) /\ DOMAIN Wanted[r] = 1..Len(Wanted[r]) /\ Len(Wanted[r]) \in Nat /\ Len(answers) \in Nat
  BY PermissionsAssumption
<1>2. CASE stop # {} /\ \A i \in undecided : first(stop) < i
  BY <1>2 DEF Continue
<1>3. CASE ~(stop # {} /\ \A i \in undecided : first(stop) < i) /\ undecided # {}
  <2>1. undecided \subseteq Nat /\ undecided \subseteq 1..Len(Wanted[r])
    BY <1>1
  <2>2. next \in undecided /\ \A j \in undecided : next <= j
    <3> HIDE DEF undecided
    <3> QED BY <1>3, <2>1, LeastNatural
  <2>3. request' = [request EXCEPT ![r] = [at |-> "waiting", answers |-> known(next - 1)]] /\ dialog' = r
        /\ crossed' = (crossed \/ (dialog # None /\ dialog # r))
    BY <1>3 DEF Continue
  <2>4. next \in 1..Len(Wanted[r]) /\ next > Len(answers) /\ recorded[Wanted[r][next]] = None
    BY <1>1, <2>2
  <2>5. \A i \in (Len(answers) + 1)..(next - 1) : recorded[Wanted[r][i]] # None
    <3> SUFFICES ASSUME NEW i \in (Len(answers) + 1)..(next - 1), recorded[Wanted[r][i]] = None PROVE FALSE
      OBVIOUS
    <3>1. next \in Nat /\ i \in Nat /\ i < next /\ i \in 1..Len(Wanted[r]) /\ i > Len(answers)
      BY <1>1, <2>4
    <3>2. i \in undecided
      BY <1>1, <3>1
    <3> HIDE DEF undecided, next
    <3>3. next <= i
      BY <2>2, <3>2
    <3> QED BY <3>1, <3>3
  <2> HIDE DEF next
  <2>6. /\ next - 1 \in Nat /\ Len(answers) <= next - 1 /\ next - 1 <= Len(Wanted[r]) /\ next - 1 < Len(Wanted[r])
        /\ (next - 1) + 1 = next
    BY <1>1, <2>4
  <2> DEFINE new == known(next - 1)
  <2>7. /\ new \in Seq(BOOLEAN) /\ Len(new) = next - 1
        /\ \A i \in 1..Len(answers) : new[i] = answers[i]
        /\ \A i \in (Len(answers) + 1)..(next - 1) : new[i] = recorded[Wanted[r][i]]
    BY <2>5, <2>6, KnownFollow
  <2>8. request' = [request EXCEPT ![r] = [at |-> "waiting", answers |-> new]]
    BY <2>3
  <2> HIDE DEF new
  <2>9. Extends(new, answers, r, recorded)
    BY <2>5, <2>6, <2>7 DEF Extends
  <2>10. Len(new) < Len(Wanted[r]) /\ recorded[Wanted[r][Len(new) + 1]] = None
    BY <2>4, <2>6, <2>7
  <2> QED BY <2>3, <2>7, <2>8, <2>9, <2>10
<1>4. CASE ~(stop # {} /\ \A i \in undecided : first(stop) < i) /\ undecided = {}
  <2> DEFINE new == known(Len(Wanted[r]))
  <2>1. request' = [request EXCEPT ![r] = [at |-> "done", answers |-> new]] /\ dialog' = None
        /\ crossed' = (crossed \/ (dialog # None /\ dialog # r))
    BY <1>4 DEF Continue
  <2>2. \A i \in (Len(answers) + 1)..Len(Wanted[r]) : recorded[Wanted[r][i]] # None
    <3> SUFFICES ASSUME NEW i \in (Len(answers) + 1)..Len(Wanted[r]), recorded[Wanted[r][i]] = None PROVE FALSE
      OBVIOUS
    <3>1. i \in undecided
      BY <1>1
    <3> QED BY <1>4, <3>1
  <2>3. /\ new \in Seq(BOOLEAN) /\ Len(new) = Len(Wanted[r])
        /\ \A i \in 1..Len(answers) : new[i] = answers[i]
        /\ \A i \in (Len(answers) + 1)..Len(Wanted[r]) : new[i] = recorded[Wanted[r][i]]
    <3>1. Len(Wanted[r]) <= Len(Wanted[r])
      BY <1>1
    <3> QED BY <1>1, <2>2, <3>1, KnownFollow
  <2> HIDE DEF new
  <2>4. Extends(new, answers, r, recorded)
    BY <1>1, <2>2, <2>3 DEF Extends
  <2> QED BY <2>1, <2>3, <2>4
<1> QED BY <1>2, <1>3, <1>4

\* Requests that are decided stay as they are.
DecidedStay ==
  \A r \in Requests : Decided(r) =>
    /\ request'[r] = request[r]
    /\ \A i \in DOMAIN Wanted[r] : Recorded(r, Wanted[r][i])' = Recorded(r, Wanted[r][i])

\* What was sent stays within what was allowed.
LEMMA SentStays ==
  ASSUME SentInv, DecidedStay, UNCHANGED sent
  PROVE  SentInv'
<1> SUFFICES ASSUME sent # None PROVE SentInv'
  BY DEF SentInv
<1>1. SentWithin'
  BY DEF SentInv, SentWithin
<1>2. PICK r \in Requests : \E k \in DOMAIN Wanted[r] :
        Decided(r) /\ sent.who = Requester[r] /\ sent.for = Wanted[r][k] /\ Recorded(r, Wanted[r][k]) = TRUE
  BY DEF SentInv
<1>5. PICK i \in DOMAIN Wanted[r] :
        Decided(r) /\ sent.who = Requester[r] /\ sent.for = Wanted[r][i] /\ Recorded(r, Wanted[r][i]) = TRUE
  BY <1>2
<1>3. request'[r] = request[r] /\ Recorded(r, Wanted[r][i])' = TRUE
  BY <1>5 DEF DecidedStay
<1>4. Decided(r)'
  BY <1>5, <1>3 DEF Decided
<1> QED BY <1>1, <1>5, <1>3, <1>4 DEF SentInv

\* A request goes on, with what is recorded now.
LEMMA RequestGoesOn ==
  ASSUME PermissionInv, permissions' \in [TheExtensions -> [AllPermissions -> {None, TRUE, FALSE}]],
         NEW r \in Requests, NEW answers \in Seq(BOOLEAN), Len(answers) <= Len(Wanted[r]),
         \A i \in 1..Len(answers) :
           answers[i] = Recorded(r, Wanted[r][i])' /\ Recorded(r, Wanted[r][i])' # None,
         Continue(r, answers, permissions'[Requester[r]]), UNCHANGED sent,
         \/ request[r].at = "idle" /\ UNCHANGED permissions
         \/ request[r].at = "waiting" /\ dialog = r,
         \A q \in Requests : Decided(q) => \A i \in DOMAIN Wanted[q] : Recorded(q, Wanted[q][i])' = Recorded(q, Wanted[q][i])
  PROVE  PermissionInv'
<1> DEFINE recorded == permissions'[Requester[r]]
<1>1. /\ PermissionTypes /\ DecidedInv /\ DialogInv /\ WaitInv /\ SentInv
      /\ request \in [Requests -> RequestStates] /\ dialog \in Requests \cup {None}
  BY DEF PermissionInv, PermissionTypes
<1>2. recorded \in [AllPermissions -> {None, TRUE, FALSE}] /\ \A p : Recorded(r, p)' = recorded[p]
  BY DEF TheExtensions, Recorded
<1>3. request[r] \in RequestStates /\ request[r].at \in {"idle", "waiting"} /\ ~Decided(r)
  BY <1>1 DEF Decided
<1>4. Len(answers) \in Nat /\ Len(Wanted[r]) \in Nat /\ DOMAIN Wanted[r] = 1..Len(Wanted[r])
  BY PermissionsAssumption
<1> HIDE DEF recorded
<1>5. Continue(r, answers, recorded)
  BY DEF recorded
<1>6. ASSUME NEW state \in RequestStates, request' = [request EXCEPT ![r] = state]
      PROVE  /\ request' \in [Requests -> RequestStates] /\ request'[r] = state
             /\ \A q \in Requests : q # r => request'[q] = request[q]
             /\ DecidedStay /\ SentInv'
             /\ \A q \in Requests : q # r => (Decided(q)' <=> Decided(q))
  <2>1. request' \in [Requests -> RequestStates] /\ request'[r] = state /\ \A q \in Requests : q # r => request'[q] = request[q]
    BY <1>1, <1>6
  <2>2. DecidedStay
    BY <1>3, <2>1 DEF DecidedStay
  <2>3. \A q \in Requests : q # r => (Decided(q)' <=> Decided(q))
    BY <2>1 DEF Decided
  <2> QED BY <1>1, <2>1, <2>2, <2>3, SentStays
<1>7. ASSUME NEW q \in Requests, request'[q] = request[q], Decided(q)
      PROVE  /\ IF request'[q].at = "done" THEN AnsweredTo(q, Len(Wanted[q]))'
                ELSE \A i \in DOMAIN Wanted[q] : Recorded(q, Wanted[q][i])' = TRUE
             /\ \A i \in DOMAIN Wanted[q] : Recorded(q, Wanted[q][i])' # None
  <2>1. DOMAIN Wanted[q] = 1..Len(Wanted[q])
    BY PermissionsAssumption
  <2>2. \A i \in DOMAIN Wanted[q] : Recorded(q, Wanted[q][i])' = Recorded(q, Wanted[q][i])
    BY <1>7
  <2>3. TRUE # None
    BY PermissionsAssumption
  <2>4. CASE request[q].at = "done"
    <3>1. AnsweredTo(q, Len(Wanted[q]))
      BY <1>1, <1>7, <2>4 DEF DecidedInv
    <3> QED BY <1>7, <2>1, <2>2, <2>4, <3>1 DEF AnsweredTo
  <2>5. CASE request[q].at # "done"
    <3>1. \A i \in DOMAIN Wanted[q] : Recorded(q, Wanted[q][i]) = TRUE
      BY <1>1, <1>7, <2>5 DEF DecidedInv
    <3> QED BY <1>7, <2>2, <2>3, <2>5, <3>1
  <2> QED BY <2>4, <2>5
<1>8. ASSUME NEW new \in Seq(BOOLEAN), Extends(new, answers, r, recorded)
      PROVE  /\ Len(new) \in Nat /\ \A i \in 1..Len(new) : new[i] = Recorded(r, Wanted[r][i])' /\ Recorded(r, Wanted[r][i])' # None
  <2>1. Len(new) \in Nat /\ \A i \in 1..Len(new) : i \in 1..Len(answers) \/ i \in (Len(answers) + 1)..Len(new)
    BY <1>4
  <2> QED BY <1>2, <1>8, <2>1 DEF Extends
<1>9. CASE request' = [request EXCEPT ![r].at = "failed"] /\ UNCHANGED <<dialog, crossed>>
  <2>1. PICK state \in RequestStates : /\ request' = [request EXCEPT ![r] = state] /\ state.at = "failed"
                                       /\ state.answers = request[r].answers
    <3>1. [request[r] EXCEPT !.at = "failed"] \in RequestStates
      BY <1>3 DEF RequestStates
    <3> QED BY <1>1, <1>3, <1>9, <3>1 DEF RequestStates
  <2>2. /\ request' \in [Requests -> RequestStates] /\ request'[r] = state
        /\ \A q \in Requests : q # r => request'[q] = request[q]
        /\ SentInv' /\ \A q \in Requests : q # r => (Decided(q)' <=> Decided(q))
    BY <1>6, <2>1
  <2>3. ~Decided(r)' /\ ~Waits(r)'
    BY <2>1, <2>2 DEF Decided, Waits
  <2>4. DecidedInv'
    BY <1>7, <2>2, <2>3 DEF DecidedInv
  <2>5. DialogInv'
    <3> SUFFICES ASSUME dialog # None PROVE DialogInv'
      BY <1>9 DEF DialogInv
    <3>1. /\ dialog \in Requests /\ dialog' = dialog
          /\ request[dialog].at \in {"waiting", "failed"} /\ Len(request[dialog].answers) < Len(Wanted[dialog])
          /\ \A q \in Requests : Decided(q) /\ Requester[q] = Requester[dialog] => Question(dialog) \notin ToSet(Wanted[q])
          /\ Waits(dialog) => AnsweredTo(dialog, Len(request[dialog].answers)) /\ Recorded(dialog, Question(dialog)) = None
      BY <1>1, <1>9 DEF DialogInv
    <3>2. request'[dialog].answers = request[dialog].answers /\ Question(dialog)' = Question(dialog)
      BY <1>9, <2>1, <2>2, <3>1 DEF Question
    <3>3. \A q \in Requests : Decided(q)' => Decided(q)
      BY <2>2, <2>3
    <3>4. request'[dialog].at \in {"waiting", "failed"}
      BY <2>1, <2>2, <3>1
    <3>5. ASSUME Waits(dialog)' PROVE (AnsweredTo(dialog, Len(request[dialog].answers)) /\ Recorded(dialog, Question(dialog)) = None)'
      <4>1. dialog # r /\ request'[dialog] = request[dialog] /\ UNCHANGED permissions
        BY <2>2, <2>3, <3>1, <3>5
      <4>2. Waits(dialog)
        BY <3>1, <3>5, <4>1 DEF Waits
      <4> QED BY <3>1, <3>2, <4>1, <4>2 DEF AnsweredTo, Recorded
    <3> QED BY <3>1, <3>2, <3>3, <3>4, <3>5 DEF DialogInv
  <2>6. WaitInv'
    BY <1>1, <1>9, <2>2, <2>3 DEF WaitInv, Waits
  <2> QED BY <1>1, <1>9, <2>2, <2>4, <2>5, <2>6 DEF PermissionInv, PermissionTypes
<1>10. ASSUME NEW new \in Seq(BOOLEAN), Extends(new, answers, r, recorded),
              Len(new) < Len(Wanted[r]), recorded[Wanted[r][Len(new) + 1]] = None,
              request' = [request EXCEPT ![r] = [at |-> "waiting", answers |-> new]], dialog' = r,
              crossed' = (crossed \/ (dialog # None /\ dialog # r))
       PROVE  PermissionInv'
  <2>1. PICK state \in RequestStates : state = [at |-> "waiting", answers |-> new]
    BY DEF RequestStates
  <2>2. state.at = "waiting" /\ state.answers = new
    BY <2>1
  <2>3. request' = [request EXCEPT ![r] = state]
    BY <1>10, <2>1
  <2>4. /\ request' \in [Requests -> RequestStates] /\ request'[r] = state
        /\ \A q \in Requests : q # r => request'[q] = request[q]
        /\ SentInv' /\ \A q \in Requests : q # r => (Decided(q)' <=> Decided(q))
    BY <1>6, <2>3
  <2>5. ~Decided(r)' /\ Question(r)' = Wanted[r][Len(new) + 1]
    BY <2>2, <2>4 DEF Decided, Question
  <2>6. DecidedInv'
    BY <1>7, <2>4, <2>5 DEF DecidedInv
  <2>7. DialogInv'
    <3>1. ASSUME NEW q \in Requests, Decided(q)', Requester[q] = Requester[r] PROVE Question(r)' \notin ToSet(Wanted[q])
      <4>1. q # r /\ Decided(q)
        BY <2>4, <2>5, <3>1
      <4>2. \A i \in DOMAIN Wanted[q] : Recorded(q, Wanted[q][i])' # None
        BY <1>7, <2>4, <4>1
      <4>3. \A p : Recorded(q, p)' = recorded[p]
        BY <3>1 DEF Recorded, recorded
      <4> QED BY <1>10, <2>5, <4>2, <4>3 DEF ToSet
    <3>2. AnsweredTo(r, Len(request[r].answers))'
      BY <1>8, <1>10, <2>2, <2>4 DEF AnsweredTo
    <3>3. Recorded(r, Question(r))' = None
      BY <1>2, <1>10, <2>5
    <3>4. request'[r].at = "waiting" /\ request'[r].answers = new
      BY <2>2, <2>4
    <3> QED BY <1>10, <3>1, <3>2, <3>3, <3>4 DEF DialogInv
  <2>8. WaitInv'
    <3> SUFFICES ASSUME ~crossed' PROVE \A q \in Requests : Waits(q)' => dialog' = q
      BY DEF WaitInv
    <3>1. \A q \in Requests : q # r => ~Waits(q)
      BY <1>1, <1>10, PermissionsAssumption DEF WaitInv
    <3> QED BY <1>10, <2>4, <3>1 DEF Waits
  <2> QED BY <1>10, <2>4, <2>6, <2>7, <2>8 DEF PermissionInv, PermissionTypes
<1>11. ASSUME NEW new \in Seq(BOOLEAN), Extends(new, answers, r, recorded), Len(new) = Len(Wanted[r]),
              request' = [request EXCEPT ![r] = [at |-> "done", answers |-> new]], dialog' = None,
              crossed' = (crossed \/ (dialog # None /\ dialog # r))
       PROVE  PermissionInv'
  <2>1. PICK state \in RequestStates : state = [at |-> "done", answers |-> new]
    BY DEF RequestStates
  <2>2. state.at = "done" /\ state.answers = new
    BY <2>1
  <2>3. request' = [request EXCEPT ![r] = state]
    BY <1>11, <2>1
  <2>4. /\ request' \in [Requests -> RequestStates] /\ request'[r] = state
        /\ \A q \in Requests : q # r => request'[q] = request[q]
        /\ SentInv' /\ \A q \in Requests : q # r => (Decided(q)' <=> Decided(q))
    BY <1>6, <2>3
  <2>5. request'[r].at = "done" /\ AnsweredTo(r, Len(Wanted[r]))'
    BY <1>8, <1>11, <2>2, <2>4 DEF AnsweredTo
  <2>6. DecidedInv'
    <3>1. ASSUME NEW q \in Requests, Decided(q)'
          PROVE  IF request'[q].at = "done" THEN AnsweredTo(q, Len(Wanted[q]))'
                 ELSE \A i \in DOMAIN Wanted[q] : Recorded(q, Wanted[q][i])' = TRUE
      <4>1. CASE q = r
        BY <2>5, <4>1
      <4>2. CASE q # r
        BY <1>7, <2>4, <3>1, <4>2
      <4> QED BY <4>1, <4>2
    <3> QED BY <3>1 DEF DecidedInv
  <2>7. DialogInv'
    BY <1>11 DEF DialogInv
  <2>8. WaitInv'
    <3> SUFFICES ASSUME ~crossed' PROVE \A q \in Requests : ~Waits(q)'
      BY DEF WaitInv
    <3>1. \A q \in Requests : q # r => ~Waits(q)
      BY <1>1, <1>11, PermissionsAssumption DEF WaitInv
    <3> QED BY <2>4, <2>5, <3>1 DEF Waits
  <2> QED BY <1>11, <2>4, <2>6, <2>7, <2>8 DEF PermissionInv, PermissionTypes
<1> QED BY <1>2, <1>5, <1>9, <1>10, <1>11, Continues

\* The permissions of the metadata are granted, before anything is asked.
LEMMA GrantKeeps ==
  ASSUME PermissionInv, NEW r \in Requests, grantStaticPermissions(r)
  PROVE  PermissionInv'
<1> DEFINE bad == {i \in DOMAIN Wanted[r] : handlePermission(Wanted[r][i]) = "error"}
           given == {Wanted[r][i] : i \in {k \in DOMAIN Wanted[r] : \A j \in bad : k < j}}
           grants == [p \in AllPermissions |-> IF p \in given THEN TRUE ELSE permissions[Requester[r]][p]]
<1>1. /\ PermissionTypes /\ DecidedInv /\ DialogInv /\ WaitInv /\ SentInv
      /\ request \in [Requests -> RequestStates] /\ dialog \in Requests \cup {None}
      /\ permissions \in [TheExtensions -> [AllPermissions -> {None, TRUE, FALSE}]]
  BY DEF PermissionInv, PermissionTypes
<1>2. /\ \A k \in Requests : Requester[k] = Requester[r] => request[k].at = "idle"
      /\ permissions' = [permissions EXCEPT ![Requester[r]] = grants]
      /\ request' = [request EXCEPT ![r].at = "static"]
      /\ UNCHANGED <<dialog, crossed, sent>>
  BY <1>1 DEF grantStaticPermissions, TheExtensions
<1>3. /\ Requester[r] \in TheExtensions /\ grants \in [AllPermissions -> {None, TRUE, FALSE}]
      /\ \A p \in given \cap AllPermissions : grants[p] = TRUE
  BY <1>1 DEF TheExtensions
<1>4. bad = {} => \A i \in DOMAIN Wanted[r] : Wanted[r][i] \in given \cap AllPermissions
  <2>1. ASSUME NEW i \in DOMAIN Wanted[r], bad = {} PROVE Wanted[r][i] \in given
    BY <2>1
  <2>2. \A i \in DOMAIN Wanted[r] : Wanted[r][i] \in AllPermissions
    BY PermissionsAssumption
  <2> HIDE DEF given, bad
  <2> QED BY <2>1, <2>2
<1>5. (\A i \in DOMAIN Wanted[r] : handlePermission(Wanted[r][i]) # "error") => bad = {}
  OBVIOUS
<1> HIDE DEF grants, given, bad
<1>6. /\ permissions' \in [TheExtensions -> [AllPermissions -> {None, TRUE, FALSE}]]
      /\ permissions'[Requester[r]] = grants
      /\ \A q \in Requests : Requester[q] # Requester[r] => \A p : Recorded(q, p)' = Recorded(q, p)
  BY <1>1, <1>2, <1>3 DEF Recorded, TheExtensions
<1>7. PICK state \in RequestStates : request' = [request EXCEPT ![r] = state] /\ state.at = "static"
  <2>1. request[r] \in RequestStates
    BY <1>1
  <2>2. [request[r] EXCEPT !.at = "static"] \in RequestStates
    BY <2>1 DEF RequestStates
  <2> QED BY <1>1, <1>2, <2>1, <2>2 DEF RequestStates
<1>8. /\ request' \in [Requests -> RequestStates] /\ request'[r] = state
      /\ \A q \in Requests : q # r => request'[q] = request[q]
  BY <1>1, <1>7
<1>9. \A q \in Requests : Requester[q] = Requester[r] => ~Decided(q) /\ ~Waits(q) /\ q # dialog
  <2>1. \A q \in Requests : Requester[q] = Requester[r] => ~Decided(q) /\ ~Waits(q)
    BY <1>2 DEF Decided, Waits
  <2>2. dialog \in Requests => request[dialog].at # "idle"
    BY <1>1, PermissionsAssumption DEF DialogInv
  <2> QED BY <1>2, <2>1, <2>2
<1>10. DecidedStay
  BY <1>6, <1>8, <1>9 DEF DecidedStay
<1>11. \A q \in Requests : q # r => (Decided(q)' <=> Decided(q)) /\ (Waits(q)' <=> Waits(q))
  BY <1>8 DEF Decided, Waits
<1>12. DecidedInv'
  <2>1. ASSUME NEW q \in Requests, q # r, Decided(q)'
        PROVE  IF request'[q].at = "done" THEN AnsweredTo(q, Len(Wanted[q]))'
               ELSE \A i \in DOMAIN Wanted[q] : Recorded(q, Wanted[q][i])' = TRUE
    <3>1. Decided(q) /\ request'[q] = request[q] /\ Requester[q] # Requester[r]
      BY <1>8, <1>9, <1>11, <2>1
    <3>2. \A p : Recorded(q, p)' = Recorded(q, p)
      BY <1>6, <3>1
    <3> QED BY <1>1, <3>1, <3>2 DEF DecidedInv, AnsweredTo
  <2>2. ASSUME Decided(r)' PROVE request'[r].at # "done" /\ \A i \in DOMAIN Wanted[r] : Recorded(r, Wanted[r][i])' = TRUE
    <3>1. bad = {}
      BY <1>5, <1>7, <1>8, <2>2 DEF Decided
    <3> QED BY <1>3, <1>4, <1>6, <1>7, <1>8, <3>1 DEF Recorded
  <2> QED BY <2>1, <2>2 DEF DecidedInv
<1>13. DialogInv'
  <2> SUFFICES ASSUME dialog # None PROVE DialogInv'
    BY <1>2 DEF DialogInv
  <2>1. dialog \in Requests /\ dialog' = dialog /\ Requester[dialog] # Requester[r]
    BY <1>1, <1>2, <1>9
  <2>2. request'[dialog] = request[dialog] /\ (\A p : Recorded(dialog, p)' = Recorded(dialog, p)) /\ dialog # r
    BY <1>6, <1>8, <2>1
  <2>3. Question(dialog)' = Question(dialog) /\ (Waits(dialog)' <=> Waits(dialog))
    BY <2>1, <2>2 DEF Question, Waits
  <2>4. \A q \in Requests : Decided(q)' /\ Requester[q] = Requester[dialog] => Decided(q)
    BY <1>11, <2>1
  <2> QED BY <1>1, <2>1, <2>2, <2>3, <2>4 DEF DialogInv, AnsweredTo
<1>14. WaitInv'
  BY <1>1, <1>2, <1>7, <1>8, <1>11 DEF WaitInv, Waits
<1> QED BY <1>1, <1>2, <1>6, <1>8, <1>10, <1>12, <1>13, <1>14, SentStays DEF PermissionInv, PermissionTypes

\* An extension asks for permissions.
LEMMA RequestKeeps ==
  ASSUME PermissionInv, NEW r \in Requests, requestPermissions(r)
  PROVE  PermissionInv'
<1>1. /\ permissions \in [TheExtensions -> [AllPermissions -> {None, TRUE, FALSE}]]
      /\ request[r].at = "idle" /\ UNCHANGED <<permissions, sent>>
      /\ Continue(r, <<>>, permissions'[Requester[r]])
  BY DEF PermissionInv, PermissionTypes, requestPermissions
<1> DEFINE none == <<>>
<1>2. none \in Seq(BOOLEAN) /\ Len(none) = 0 /\ Len(none) <= Len(Wanted[r]) /\ 1..Len(none) = {}
  BY EmptySeq, PermissionsAssumption
<1>3. Continue(r, none, permissions'[Requester[r]])
  BY <1>1
<1> HIDE DEF none
<1>4. \A q \in Requests : \A p : Recorded(q, p)' = Recorded(q, p)
  BY <1>1 DEF Recorded
<1>5. permissions' \in [TheExtensions -> [AllPermissions -> {None, TRUE, FALSE}]]
  BY <1>1
<1> QED BY <1>1, <1>2, <1>3, <1>4, <1>5, RequestGoesOn

\* The user answers.
LEMMA AnswerKeeps ==
  ASSUME PermissionInv, NEW allowed \in BOOLEAN, handleUserRequest(allowed)
  PROVE  PermissionInv'
<1>1. /\ PermissionTypes /\ DecidedInv /\ DialogInv /\ WaitInv /\ SentInv
      /\ request \in [Requests -> RequestStates]
      /\ permissions \in [TheExtensions -> [AllPermissions -> {None, TRUE, FALSE}]]
  BY DEF PermissionInv, PermissionTypes
<1>2. PICK r \in Requests : r = dialog /\ dialog # None
  BY <1>1 DEF handleUserRequest, PermissionTypes
<1>3. /\ request[r] \in RequestStates /\ request[r].answers \in Seq(BOOLEAN) /\ Len(request[r].answers) \in Nat
      /\ request[r].at \in {"waiting", "failed"} /\ Len(request[r].answers) < Len(Wanted[r])
      /\ \A q \in Requests : Decided(q) /\ Requester[q] = Requester[r] => Question(r) \notin ToSet(Wanted[q])
      /\ Waits(r) => AnsweredTo(r, Len(request[r].answers)) /\ Recorded(r, Question(r)) = None
  BY <1>1, <1>2 DEF DialogInv, RequestStates
<1>4. /\ Wanted[r] \in Seq(AllPermissions) /\ Len(Wanted[r]) \in Nat /\ DOMAIN Wanted[r] = 1..Len(Wanted[r])
      /\ None \notin BOOLEAN /\ allowed # None /\ Requester[r] \in TheExtensions
  BY PermissionsAssumption DEF TheExtensions
<1>5. Question(r) \in AllPermissions
  BY <1>3, <1>4 DEF Question
<1> DEFINE recorded == [permissions[Requester[r]] EXCEPT ![Question(r)] = allowed]
<1>6. /\ UNCHANGED sent
      /\ permissions' = [permissions EXCEPT ![Requester[r]] = recorded]
      /\ IF Waits(r)
         THEN IF allowed /\ handlePermission(Question(r)) = "error"
              THEN request' = [request EXCEPT ![r].at = "failed"] /\ UNCHANGED <<dialog, crossed>>
              ELSE Continue(r, Append(request[r].answers, allowed), recorded)
         ELSE UNCHANGED <<request, dialog, crossed>>
  BY <1>1, <1>2, <1>4 DEF handleUserRequest, AnswerTo
<1>7. /\ recorded \in [AllPermissions -> {None, TRUE, FALSE}] /\ recorded[Question(r)] = allowed
      /\ \A p \in AllPermissions : p # Question(r) => recorded[p] = permissions[Requester[r]][p]
  BY <1>1, <1>4, <1>5
<1> HIDE DEF recorded
<1>8. /\ permissions' \in [TheExtensions -> [AllPermissions -> {None, TRUE, FALSE}]] /\ permissions'[Requester[r]] = recorded
      /\ \A q \in Requests : Requester[q] # Requester[r] => \A p : Recorded(q, p)' = Recorded(q, p)
      /\ \A q \in Requests : Requester[q] = Requester[r] => \A p : Recorded(q, p)' = recorded[p]
      /\ \A q \in Requests : Requester[q] = Requester[r] => \A p : Recorded(q, p) = permissions[Requester[r]][p]
  BY <1>1, <1>4, <1>6, <1>7 DEF Recorded, TheExtensions
<1>9. ASSUME NEW q \in Requests, Decided(q), NEW i \in DOMAIN Wanted[q]
      PROVE  Recorded(q, Wanted[q][i])' = Recorded(q, Wanted[q][i])
  <2>1. CASE Requester[q] # Requester[r]
    BY <1>8, <2>1
  <2>2. CASE Requester[q] = Requester[r]
    <3>1. Wanted[q][i] # Question(r)
      BY <1>3, <1>9, <2>2 DEF ToSet
    <3>2. Wanted[q][i] \in AllPermissions
      BY PermissionsAssumption
    <3> QED BY <1>7, <1>8, <2>2, <3>1, <3>2
  <2> QED BY <2>1, <2>2
<1>10. r = dialog /\ ~Decided(r)
  BY <1>2, <1>3 DEF Decided
<1>11. ASSUME NEW state \in RequestStates, request' = [request EXCEPT ![r] = state], state.at = "failed",
              state.answers = request[r].answers, UNCHANGED <<dialog, crossed>>
       PROVE  PermissionInv'
  <2>1. /\ request' \in [Requests -> RequestStates] /\ request'[r] = state
        /\ \A q \in Requests : q # r => request'[q] = request[q]
    BY <1>1, <1>11
  <2>2. /\ ~Decided(r)' /\ ~Waits(r)' /\ Question(r)' = Question(r)
        /\ \A q \in Requests : q # r => (Decided(q)' <=> Decided(q)) /\ (Waits(q)' <=> Waits(q))
    BY <1>11, <2>1 DEF Decided, Waits, Question
  <2>3. DecidedStay
    BY <1>9, <1>10, <2>1 DEF DecidedStay
  <2>4. DecidedInv'
    <3>1. ASSUME NEW q \in Requests, Decided(q)'
          PROVE  IF request'[q].at = "done" THEN AnsweredTo(q, Len(Wanted[q]))'
                 ELSE \A i \in DOMAIN Wanted[q] : Recorded(q, Wanted[q][i])' = TRUE
      <4>1. Decided(q) /\ request'[q] = request[q] /\ DOMAIN Wanted[q] = 1..Len(Wanted[q])
        BY <2>1, <2>2, <3>1, PermissionsAssumption
      <4>2. \A i \in DOMAIN Wanted[q] : Recorded(q, Wanted[q][i])' = Recorded(q, Wanted[q][i])
        BY <1>9, <4>1
      <4> QED BY <1>1, <4>1, <4>2 DEF DecidedInv, AnsweredTo
    <3> QED BY <3>1 DEF DecidedInv
  <2>5. DialogInv'
    <3>1. dialog' = r /\ request'[r].at = "failed" /\ request'[r].answers = request[r].answers
      BY <1>2, <1>11, <2>1
    <3>2. \A q \in Requests : Decided(q)' => Decided(q)
      BY <2>2
    <3> QED BY <1>3, <2>2, <3>1, <3>2 DEF DialogInv
  <2>6. WaitInv'
    BY <1>1, <1>11, <2>2 DEF WaitInv
  <2>7. SentInv'
    BY <1>1, <1>6, <2>3, SentStays
  <2> QED BY <1>2, <1>8, <1>11, <2>1, <2>4, <2>5, <2>6, <2>7 DEF PermissionInv, PermissionTypes
<1>12. CASE Waits(r) /\ allowed /\ handlePermission(Question(r)) = "error"
  <2>1. [request[r] EXCEPT !.at = "failed"] \in RequestStates
    BY <1>3 DEF RequestStates
  <2>2. PICK state \in RequestStates : state = [request[r] EXCEPT !.at = "failed"]
    BY <2>1
  <2>3. state.at = "failed" /\ state.answers = request[r].answers
    BY <1>3, <2>2 DEF RequestStates
  <2>4. request' = [request EXCEPT ![r] = state] /\ UNCHANGED <<dialog, crossed>>
    BY <1>6, <1>12, <2>2
  <2> QED BY <1>11, <2>3, <2>4
<1>13. CASE ~Waits(r)
  <2>1. request[r].at = "failed" /\ UNCHANGED <<request, dialog, crossed>>
    BY <1>3, <1>6, <1>13 DEF Waits
  <2>2. request' = [request EXCEPT ![r] = request[r]]
    BY <1>1, <2>1
  <2> QED BY <1>3, <1>11, <2>1, <2>2
<1>14. CASE Waits(r) /\ ~(allowed /\ handlePermission(Question(r)) = "error")
  <2> DEFINE answers == Append(request[r].answers, allowed)
  <2>1. Continue(r, answers, recorded)
    BY <1>6, <1>14
  <2>2. /\ answers \in Seq(BOOLEAN) /\ Len(answers) = Len(request[r].answers) + 1 /\ Len(answers) <= Len(Wanted[r])
        /\ answers[Len(request[r].answers) + 1] = allowed
        /\ \A i \in 1..Len(request[r].answers) : answers[i] = request[r].answers[i]
    BY <1>3, <1>4, AppendProperties
  <2> HIDE DEF answers
  <2>3. ASSUME NEW i \in 1..Len(answers)
        PROVE  answers[i] = Recorded(r, Wanted[r][i])' /\ Recorded(r, Wanted[r][i])' # None
    <3>1. CASE i = Len(request[r].answers) + 1
      BY <1>4, <1>7, <1>8, <2>2, <3>1 DEF Question
    <3>2. CASE i # Len(request[r].answers) + 1
      <4>1. i \in 1..Len(request[r].answers) /\ i \in 1..Len(Wanted[r])
        BY <1>3, <1>4, <2>2, <3>2
      <4>2. answers[i] = Recorded(r, Wanted[r][i]) /\ Recorded(r, Wanted[r][i]) # None /\ Recorded(r, Question(r)) = None
        BY <1>3, <1>14, <2>2, <4>1 DEF AnsweredTo
      <4>3. Wanted[r][i] # Question(r) /\ Wanted[r][i] \in AllPermissions
        BY <1>4, <4>1, <4>2
      <4> QED BY <1>7, <1>8, <4>2, <4>3
    <3> QED BY <3>1, <3>2
  <2>4. request[r].at = "waiting"
    BY <1>14 DEF Waits
  <2>5. Continue(r, answers, permissions'[Requester[r]])
    BY <1>8, <2>1
  <2> QED BY <1>6, <1>8, <1>9, <1>10, <2>2, <2>3, <2>4, <2>5, RequestGoesOn
<1> QED BY <1>12, <1>13, <1>14

\* What the guard lets through is under the path of the permission.
LEMMA GuardHolds ==
  ASSUME NEW url, NEW allowed, url.path \in Seq(STRING), allowed.path \in Seq(STRING), allowed.path # <<>>, guard(url, allowed)
  PROVE  /\ url.origin = allowed.origin
         /\ \A i \in DOMAIN allowed.path :
              \/ i \in DOMAIN url.path /\ url.path[i] = allowed.path[i]
              \/ i = Len(allowed.path) /\ allowed.path[i] = ""
<1> DEFINE scope == allowed.path
           path == url.path
           within == IF Last(scope) = "" THEN Front(scope) ELSE scope
<1>1. url.origin = allowed.origin /\ (path = scope \/ IsPrefix(within, path))
  BY DEF guard, StartsWith
<1>2. scope \in Seq(STRING) /\ path \in Seq(STRING) /\ scope # <<>>
  OBVIOUS
<1> HIDE DEF scope, path
<1>3. /\ Front(scope) \in Seq(STRING) /\ DOMAIN Front(scope) = DOMAIN scope \ {Len(scope)}
      /\ Last(scope) = scope[Len(scope)]
      /\ \A i \in DOMAIN Front(scope) : Front(scope)[i] = scope[i]
  BY <1>2, DropsLast
<1>4. CASE path = scope
  BY <1>1, <1>4 DEF scope, path
<1>5. CASE IsPrefix(within, path)
  <2>1. within \in Seq(STRING)
    BY <1>2, <1>3
  <2>2. Begins(within, path)
    <3> HIDE DEF within
    <3> QED BY <1>2, <1>5, <2>1, BeginsIsPrefix
  <2>3. \A i \in DOMAIN within : i \in DOMAIN path /\ path[i] = within[i]
    <3> HIDE DEF within
    <3>1. DOMAIN within = 1..Len(within) /\ DOMAIN path = 1..Len(path) /\ Len(within) \in Nat /\ Len(path) \in Nat
      BY <1>2, <2>1
    <3> QED BY <2>2, <3>1 DEF Begins
  <2>4. \A i \in DOMAIN scope : (i \in DOMAIN within /\ within[i] = scope[i]) \/ (i = Len(scope) /\ scope[i] = "")
    BY <1>3
  <2> HIDE DEF within
  <2>5. \A i \in DOMAIN scope : (i \in DOMAIN path /\ path[i] = scope[i]) \/ (i = Len(scope) /\ scope[i] = "")
    BY <2>3, <2>4
  <2> QED BY <1>1, <2>5 DEF scope, path
<1> QED BY <1>1, <1>4, <1>5

\* An extension sends a request.
LEMMA SendKeeps ==
  ASSUME PermissionInv, NEW r \in Requests, NEW i \in DOMAIN Wanted[r], NEW url \in URLs, NEW body, NEW contentType,
         Send(r, i, url, body, contentType)
  PROVE  PermissionInv'
<1> DEFINE p == Wanted[r][i]
<1>1. PermissionTypes /\ DecidedInv /\ DialogInv /\ WaitInv
  BY DEF PermissionInv
<1>2. /\ Holds(r, i) /\ p[1] = "internet" /\ guard(url, p[3])
      /\ sent' = [who |-> Requester[r], for |-> p, method |-> IF p[2] = "http-get" THEN "GET" ELSE "POST", url |-> url]
      /\ UNCHANGED <<permissions, request, dialog, crossed>>
  BY DEF Send
<1>3. p \in AllPermissions /\ handlePermission(p) = "object"
  BY <1>2, PermissionsAssumption DEF Holds
<1>4. p[2] \in {"http-get", "http-post"}
  BY <1>2, <1>3 DEF handlePermission
<1>5. p[3].path \in Seq(STRING) /\ p[3].path # <<>> /\ url.path \in Seq(STRING)
  BY <1>2, <1>3, PermissionsAssumption
<1>6. Decided(r) /\ Recorded(r, p) = TRUE
  <2>1. CASE request[r].at = "done" /\ request[r].answers[i]
    <3>1. AnsweredTo(r, Len(Wanted[r])) /\ Decided(r) /\ DOMAIN Wanted[r] = 1..Len(Wanted[r])
      BY <1>1, <2>1, PermissionsAssumption DEF DecidedInv, Decided
    <3>2. request[r].answers[i] = Recorded(r, p) /\ request[r].answers[i] \in BOOLEAN
      <4>1. request[r] \in RequestStates
        BY <1>1 DEF PermissionTypes
      <4>2. request[r].answers \in Seq(BOOLEAN) /\ i \in 1..Len(request[r].answers)
        BY <3>1, <4>1 DEF RequestStates, AnsweredTo
      <4> QED BY <3>1, <4>2 DEF AnsweredTo
    <3> QED BY <2>1, <3>1, <3>2
  <2>2. CASE request[r].at = "static" /\ \A k \in DOMAIN Wanted[r] : handlePermission(Wanted[r][k]) # "error"
    <3>1. Decided(r) /\ request[r].at # "done"
      BY <2>2 DEF Decided
    <3> QED BY <1>1, <3>1 DEF DecidedInv
  <2> QED BY <1>2, <2>1, <2>2 DEF Holds
<1> HIDE DEF p
<1>7. /\ sent'.who = Requester[r] /\ sent'.for = p /\ sent'.method = IF p[2] = "http-get" THEN "GET" ELSE "POST"
      /\ sent'.url = url
  BY <1>2
<1>8. /\ url.origin = p[3].origin
      /\ \A k \in DOMAIN p[3].path :
           \/ k \in DOMAIN url.path /\ url.path[k] = p[3].path[k]
           \/ k = Len(p[3].path) /\ p[3].path[k] = ""
  BY <1>2, <1>5, GuardHolds
<1>9. SentWithin'
  BY <1>2, <1>4, <1>7, <1>8 DEF SentWithin
<1>10. Decided(r)' /\ Recorded(r, p)' = TRUE
  BY <1>2, <1>6 DEF Decided, Recorded
<1>11. SentInv'
  BY <1>7, <1>9, <1>10 DEF SentInv, p
<1>12. PermissionTypes' /\ DecidedInv' /\ DialogInv' /\ WaitInv'
  BY <1>1, <1>2 DEF PermissionTypes, DecidedInv, DialogInv, WaitInv, Decided, AnsweredTo, Recorded, Question, Waits
<1> QED BY <1>11, <1>12 DEF PermissionInv

\* At first nothing is asked for and nothing is granted.
LEMMA PermissionsStart == PermissionsInit => PermissionInv
<1> SUFFICES ASSUME PermissionsInit PROVE PermissionInv
  OBVIOUS
<1>1. /\ permissions = [e \in TheExtensions |-> [p \in AllPermissions |-> None]]
      /\ request = [r \in Requests |-> NoRequest]
      /\ dialog = None /\ crossed = FALSE /\ sent = None
  BY DEF PermissionsInit
<1>2. NoRequest \in RequestStates /\ NoRequest.at = "idle"
  BY EmptySeq DEF NoRequest, RequestStates
<1>3. PermissionTypes
  BY <1>1, <1>2 DEF PermissionTypes
<1>4. \A r \in Requests : ~Decided(r) /\ ~Waits(r)
  BY <1>1, <1>2 DEF Decided, Waits
<1> QED BY <1>1, <1>3, <1>4 DEF PermissionInv, DecidedInv, DialogInv, WaitInv, SentInv

\* Every step of the permissions.
LEMMA PermissionSteps == PermissionInv /\ [PermissionsNext]_permissionVars => PermissionInv'
<1> SUFFICES ASSUME PermissionInv, [PermissionsNext]_permissionVars PROVE PermissionInv'
  OBVIOUS
<1>1. ASSUME NEW r \in Requests, NEW url \in URLs, NEW body, NEW contentType, NEW i \in DOMAIN Wanted[r],
             Send(r, i, url, body, contentType)
      PROVE  PermissionInv'
  BY <1>1, SendKeeps
<1>2. ASSUME NEW r \in Requests, grantStaticPermissions(r) \/ requestPermissions(r) PROVE PermissionInv'
  BY <1>2, GrantKeeps, RequestKeeps
<1>3. ASSUME NEW allowed \in BOOLEAN, handleUserRequest(allowed) PROVE PermissionInv'
  BY <1>3, AnswerKeeps
<1>4. CASE UNCHANGED permissionVars
  <2>1. UNCHANGED <<permissions, request, dialog, crossed, sent>>
    BY <1>4 DEF permissionVars
  <2>2. PermissionTypes /\ DecidedInv /\ DialogInv /\ WaitInv /\ SentInv
    BY DEF PermissionInv
  <2>3. PermissionTypes' /\ DecidedInv' /\ DialogInv' /\ WaitInv'
    BY <2>1, <2>2 DEF PermissionTypes, DecidedInv, DialogInv, WaitInv, Decided, AnsweredTo, Recorded, Question, Waits
  <2>4. SentInv'
    BY <2>1, <2>2, SentStays DEF DecidedStay, Recorded
  <2> QED BY <2>3, <2>4 DEF PermissionInv
<1> QED BY <1>1, <1>2, <1>3, <1>4 DEF PermissionsNext

\* What the invariant says of the answers and of what is sent.
LEMMA PermissionsHold == PermissionInv => PermissionsTypeOK /\ AnsweredAsAsked /\ SentAsAllowed
<1> SUFFICES ASSUME PermissionInv PROVE PermissionsTypeOK /\ AnsweredAsAsked /\ SentAsAllowed
  OBVIOUS
<1>1. PermissionTypes /\ DecidedInv /\ WaitInv /\ SentInv
  BY DEF PermissionInv
<1>2. PermissionsTypeOK
  <2>1. \A e \in TheExtensions : permissions[e] \in [AllPermissions -> {None, TRUE, FALSE}]
    BY <1>1 DEF PermissionTypes
  <2>2. \A r \in Requests : request[r] \in RequestStates
    BY <1>1 DEF PermissionTypes
  <2>3. \A r \in Requests : request[r].at \in {"idle", "static", "waiting", "done", "failed"}
    BY <2>2 DEF RequestStates
  <2> QED BY <1>1, <2>1, <2>3 DEF PermissionsTypeOK, PermissionTypes
<1>3. AnsweredAsAsked
  <2>1. ASSUME NEW r \in Requests, request[r].at = "done", NEW i \in DOMAIN Wanted[r]
        PROVE  request[r].answers[i] = Recorded(r, Wanted[r][i])
    <3>1. AnsweredTo(r, Len(Wanted[r])) /\ DOMAIN Wanted[r] = 1..Len(Wanted[r])
      BY <1>1, <2>1, PermissionsAssumption DEF DecidedInv, Decided
    <3> QED BY <3>1 DEF AnsweredTo
  <2> QED BY <1>1, <2>1 DEF AnsweredAsAsked, WaitInv
<1>4. SentAsAllowed
  <2> SUFFICES ASSUME sent # None PROVE SentAsAllowed
    BY DEF SentAsAllowed
  <2>1. permissions[sent.who][sent.for] = TRUE
    BY <1>1 DEF SentInv, Recorded
  <2>2. SentWithin
    BY <1>1 DEF SentInv
  <2> QED BY <2>1, <2>2 DEF SentAsAllowed, SentWithin
<1> QED BY <1>2, <1>3, <1>4

(* The inductive invariant of the permissions.                             *)
THEOREM PermissionInvariance == PermissionsSafety => []PermissionInv
<1>1. PermissionInv /\ [PermissionsNext]_permissionVars => PermissionInv'
  BY PermissionSteps
<1> QED BY <1>1, PermissionsStart, PTL DEF PermissionsSafety

(* A request for permissions returns what its own dialog was answered, and *)
(* whatever is sent is within what was allowed and still is                *)
(* (request-permissions.ts, internet.ts).                                  *)
THEOREM SentIsAllowed == PermissionsSafety => [](AnsweredAsAsked /\ SentAsAllowed /\ PermissionsTypeOK)
<1>1. PermissionInv => AnsweredAsAsked /\ SentAsAllowed /\ PermissionsTypeOK
  BY PermissionsHold
<1> QED BY <1>1, PermissionInvariance, PTL

(* The extensions that are shown as enabled run, and those in the sandbox  *)
(* have and use the permissions they were given.                           *)
THEOREM ExtensionsAreSettled == HostSafety /\ PermissionsSafety => []ExtensionsSettle
<1>1. ExtensionsAsShown /\ AnsweredAsAsked /\ SentAsAllowed => ExtensionsSettle
  BY DEF ExtensionsSettle
<1> QED BY <1>1, ShownExtensionsRun, SentIsAllowed, PTL

(* The parts have the types that their modules state, always.              *)
THEOREM HostTypeCorrectness ==
  /\ Spec /\ StorageSafety /\ ReplicaSafety /\ ChannelsSafety /\ LogStreamSafety
  /\ LogViewSafety /\ WailsSafety /\ HostSafety /\ PermissionsSafety
  => []HostPartsTypeOK
<1>1. /\ TypeOK /\ StorageTypeOK /\ ReplicaTypeOK /\ (ExitIsToldOnce /\ ChannelsTypeOK)
      /\ (ShownWasWritten /\ OneStream /\ LogStreamTypeOK) /\ LogViewTypeOK /\ (WailsDelivers /\ WailsTypeOK)
      /\ (ExtensionsAsShown /\ ExtensionsTypeOK) /\ (AnsweredAsAsked /\ SentAsAllowed /\ PermissionsTypeOK)
      => HostPartsTypeOK
  BY DEF HostPartsTypeOK
<1> QED BY <1>1, TypeCorrectness, StorageTypeCorrectness, FlagsMatchBatches, ExitsAreToldOnce, ShownIsWritten,
           LogViewTypeCorrectness, BridgeDelivers, ShownExtensionsRun, SentIsAllowed, PTL
=============================================================================
