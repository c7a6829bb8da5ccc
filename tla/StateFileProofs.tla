--------------------------- MODULE StateFileProofs ---------------------------
(***************************************************************************)
(* Proofs about module StateFile, for any states, any number of writes in  *)
(* flight, changes and restarts, and for both files.                       *)
(*                                                                         *)
(* While nothing is disturbed one write at most is in flight, and the file *)
(* is what that write makes of the last one.  From there on, each promise  *)
(* is about two pieces of state that only meet later: the file and the     *)
(* memory when the last write is answered, the file of a page that ended   *)
(* and what the next page reads, and what a start has read and what the    *)
(* file holds when it decides.                                             *)
(***************************************************************************)
EXTENDS StateFile, TLAPS

\* A write that was sent carries a state.
WritesCarryStates == \A s \in Slots : writes[s].phase # "free" => writes[s].value \in Values

\* The writes end with the application.
ClosedIsQuiet == page = "off" => Busy = {}

\* Undisturbed, one write at most is in flight, and it fills a file that it has emptied.
OneWrite ==
  ~disturbed =>
    /\ \A s, t \in Busy : s = t
    /\ \A s \in Slots : writes[s].phase # "failed"
    /\ \A s \in Open : file = Empty

\* Undisturbed, a page that is up knows what is in the file or will be, and what is still to be written.
PageIsSynced ==
  page = "up" =>
    /\ memory \in Values /\ lastWritten \in Values
    /\ ~disturbed =>
         /\ Busy = {} => file = lastWritten /\ (timer \/ memory = lastWritten)
         /\ \A s \in Busy :
              /\ writes[s].owned
              /\ writes[s].phase = "sent" => file = lastWritten
              /\ writes[s].phase = "written" => file = writes[s].value
              /\ timer \/ memory = writes[s].value

\* What a page left finished is still there, and is what the start has read.
PromiseIsInFile ==
  page # "up" /\ promised # None =>
    /\ promised \in Values /\ file = promised /\ Busy = {}
    /\ page = "deciding" => found = promised

\* A start that has read nothing does not meet a torn file.
NothingIsNotTorn == page = "deciding" /\ found = Empty /\ ~disturbed => file # Torn

IInv ==
  /\ TypeOK
  /\ WritesCarryStates
  /\ ClosedIsQuiet
  /\ OneWrite
  /\ PageIsSynced
  /\ PromiseIsInFile
  /\ NothingIsNotTorn
  /\ ConfigIsBackedUp

-----------------------------------------------------------------------------
\* The type invariant, variable by variable.
Types ==
  /\ regenerates \in BOOLEAN /\ timer \in BOOLEAN /\ disturbed \in BOOLEAN
  /\ page \in {"off", "reading", "deciding", "up"}
  /\ found \in Contents \cup {None}
  /\ memory \in Values \cup {None} /\ lastWritten \in Values \cup {None}
  /\ promised \in Values \cup {None}
  /\ writes \in [Slots -> WriteRecord]
  /\ file \in Contents
  /\ backups \subseteq Contents /\ lost \subseteq Contents
  /\ changes \in 0..MaxChanges /\ restarts \in 0..MaxRestarts

\* The type invariant, set by set.
LEMMA TypeParts == (TypeOK <=> Types) /\ (TypeOK' <=> Types')
BY DEF TypeOK, Types

\* The initial states satisfy the invariant.
LEMMA InitInv == Init => IInv
<1> SUFFICES ASSUME Init PROVE IInv
  OBVIOUS
<1>1. Types
  <2>1. writes \in [Slots -> WriteRecord]
    BY DEF Init, Free, WriteRecord
  <2>2. changes \in 0..MaxChanges /\ restarts \in 0..MaxRestarts
    BY StateFileAssumption DEF Init
  <2> QED BY <2>1, <2>2 DEF Init, Types, Contents
<1>2. Busy = {} /\ Open = {}
  BY DEF Init, Busy, Open, Free
<1>3. WritesCarryStates /\ ClosedIsQuiet /\ OneWrite /\ PageIsSynced /\ PromiseIsInFile /\ NothingIsNotTorn /\ ConfigIsBackedUp
  BY <1>2 DEF Init, Free, WritesCarryStates, ClosedIsQuiet, OneWrite, PageIsSynced, PromiseIsInFile,
              NothingIsNotTorn, ConfigIsBackedUp
<1> QED BY <1>1, <1>3, TypeParts DEF IInv

-----------------------------------------------------------------------------
\* What a write's step does to the writes.
LEMMA PhaseMoves ==
  ASSUME Types, NEW s \in Slots, NEW from, NEW to \in {"free", "sent", "open", "written", "failed"},
         SetPhase(s, from, to)
  PROVE  /\ writes' \in [Slots -> WriteRecord]
         /\ writes[s].phase = from /\ writes'[s].phase = to
         /\ writes'[s].value = writes[s].value /\ writes'[s].owned = writes[s].owned
         /\ \A t \in Slots : t # s => writes'[t] = writes[t]
BY DEF SetPhase, Types, WriteRecord

\* Changing and syncing keep the types, and send only states.
LEMMA SyncTypes ==
  ASSUME IInv, (\E v \in Values : Change(v)) \/ Sync
  PROVE  WritesCarryStates' /\ writes' \in [Slots -> WriteRecord]
<1> USE DEF IInv
<1>0. Types
  BY TypeParts
<1>1. CASE \E v \in Values : Change(v)
  BY <1>0, <1>1 DEF Change, Types, WritesCarryStates
<1>2. CASE Sync /\ memory = lastWritten
  BY <1>0, <1>2 DEF Sync, Types, WritesCarryStates
<1>3. CASE Sync /\ memory # lastWritten
  <2>1. PICK s \in Slots \ Busy :
          writes' = [writes EXCEPT ![s] = [phase |-> "sent", value |-> memory, owned |-> TRUE]]
    BY <1>3 DEF Sync
  <2>2. memory \in Values
    BY <1>3 DEF Sync, PageIsSynced
  <2>3. [phase |-> "sent", value |-> memory, owned |-> TRUE] \in WriteRecord
    BY <2>2 DEF WriteRecord
  <2>4. /\ writes'[s] = [phase |-> "sent", value |-> memory, owned |-> TRUE]
        /\ \A t \in Slots : t # s => writes'[t] = writes[t]
    BY <1>0, <2>1 DEF Types
  <2> QED BY <1>0, <2>1, <2>2, <2>3, <2>4 DEF Types, WritesCarryStates
<1> QED BY <1>1, <1>2, <1>3

\* A write's step keeps the types.
LEMMA WriteTypes ==
  ASSUME IInv, NEW s \in Slots, WriteStep(s)
  PROVE  Types' /\ WritesCarryStates'
<1> USE DEF IInv
<1>0. Types
  BY TypeParts
<1>1. CASE OpenFile(s)
  <2>1. /\ writes' \in [Slots -> WriteRecord] /\ writes[s].phase = "sent"
        /\ writes'[s].value = writes[s].value /\ \A t \in Slots : t # s => writes'[t] = writes[t]
    BY <1>0, <1>1, PhaseMoves DEF OpenFile
  <2> QED BY <1>0, <1>1, <2>1 DEF OpenFile, Types, WritesCarryStates, Contents, pageVars, boundVars, historyVars
<1>2. CASE FillFile(s)
  <2>1. /\ writes' \in [Slots -> WriteRecord] /\ writes[s].phase = "open"
        /\ writes'[s].value = writes[s].value /\ \A t \in Slots : t # s => writes'[t] = writes[t]
    BY <1>0, <1>2, PhaseMoves DEF FillFile
  <2>2. writes[s].value \in Values
    BY <2>1 DEF WritesCarryStates
  <2>3. file' \in Contents
    BY <1>2, <2>2 DEF FillFile, Contents
  <2> QED BY <1>0, <1>2, <2>1, <2>3 DEF FillFile, Types, WritesCarryStates, pageVars, boundVars, historyVars
<1>3. CASE WriteFails(s)
  <2>1. /\ writes' \in [Slots -> WriteRecord] /\ writes[s].phase \in {"sent", "open"}
        /\ writes'[s].value = writes[s].value /\ \A t \in Slots : t # s => writes'[t] = writes[t]
    BY <1>0, <1>3, PhaseMoves DEF WriteFails
  <2>2. file' \in Contents
    BY <1>0, <1>3 DEF WriteFails, Contents, Types
  <2> QED BY <1>0, <1>3, <2>1, <2>2 DEF WriteFails, Types, WritesCarryStates, pageVars, boundVars, historyVars
<1>4. CASE WriteAnswered(s)
  <2>1. Free \in WriteRecord
    BY DEF Free, WriteRecord
  <2>2. writes' \in [Slots -> WriteRecord] /\ \A t \in Slots : writes'[t] \in {writes[t], Free}
    BY <1>0, <1>4, <2>1 DEF WriteAnswered, Types
  <2>3. lastWritten' \in Values \cup {None}
    BY <1>0, <1>4 DEF WriteAnswered, Types, WritesCarryStates
  <2>4. WritesCarryStates'
    BY <2>2 DEF WritesCarryStates, Free
  <2> QED BY <1>0, <1>4, <2>2, <2>3, <2>4 DEF WriteAnswered, Types, boundVars, historyVars
<1> QED BY <1>1, <1>2, <1>3, <1>4 DEF WriteStep

\* An end of the page keeps the types.
LEMMA EndTypes ==
  ASSUME IInv, Reload \/ Exit \/ Start \/ EditByHand
  PROVE  Types' /\ WritesCarryStates'
<1> USE DEF IInv
<1>0. Types
  BY TypeParts
<1>1. PageGone => /\ promised' \in Values \cup {None} /\ restarts' \in 0..MaxRestarts
                  /\ found' = None /\ memory' = None /\ lastWritten' = None /\ timer' = FALSE
                  /\ UNCHANGED <<regenerates, changes, backups, lost>>
  BY <1>0, StateFileAssumption DEF PageGone, Promise, Types
<1>2. CASE Reload
  <2>1. \A s \in Slots : /\ writes'[s] \in WriteRecord
                         /\ writes'[s].phase = writes[s].phase /\ writes'[s].value = writes[s].value
    BY <1>0, <1>2 DEF Reload, Types, WriteRecord
  <2>2. writes' \in [Slots -> WriteRecord] /\ WritesCarryStates'
    BY <1>2, <2>1 DEF Reload, WritesCarryStates
  <2> QED BY <1>0, <1>1, <1>2, <2>2 DEF Reload, Types
<1>3. CASE Exit
  <2>1. writes' \in [Slots -> WriteRecord] /\ WritesCarryStates'
    BY <1>3 DEF Exit, Free, WriteRecord, WritesCarryStates
  <2>2. file' \in Contents
    BY <1>0, <1>3 DEF Exit, Contents, Types
  <2> QED BY <1>0, <1>1, <1>3, <2>1, <2>2 DEF Exit, Types
<1>4. CASE Start
  BY <1>0, <1>4 DEF Start, Types, WritesCarryStates, boundVars, historyVars
<1>5. CASE EditByHand
  BY <1>0, <1>5 DEF EditByHand, Types, WritesCarryStates, Contents, pageVars, boundVars
<1> QED BY <1>2, <1>3, <1>4, <1>5

\* A start of the page keeps the types.
LEMMA BootTypes ==
  ASSUME IInv, Boot
  PROVE  Types' /\ WritesCarryStates'
<1> USE DEF IInv
<1>0. Types /\ Default \in Values
  BY TypeParts, StateFileAssumption
<1>1. CASE ReadFile
  BY <1>0, <1>1 DEF ReadFile, Types, WritesCarryStates, boundVars, historyVars
<1>2. ASSUME NEW v \in Values, BootWith(v), file' \in Contents, backups' \subseteq Contents, lost' \subseteq Contents,
             writes' \in [Slots -> WriteRecord],
             \A s \in Slots : writes'[s].value = writes[s].value /\
                              (writes'[s].phase # "free" => writes[s].phase # "free")
      PROVE  Types' /\ WritesCarryStates'
  BY <1>0, <1>2 DEF BootWith, Types, WritesCarryStates, boundVars
<1>3. CASE BootLoaded
  BY <1>0, <1>2, <1>3 DEF BootLoaded, Types
<1>4. CASE BootDropped
  BY <1>0, <1>2, <1>4 DEF BootDropped, Types
<1>5. CASE BootDefaulted
  <2>1. file' \in Contents /\ lost' \subseteq Contents
    BY <1>0, <1>5 DEF BootDefaulted, Types, Contents
  <2> QED BY <1>0, <1>2, <1>5, <2>1 DEF BootDefaulted, Types
<1>6. CASE BootRegenerated
  <2>1. file' \in Contents /\ backups' \subseteq Contents
    BY <1>0, <1>6 DEF BootRegenerated, Types, Contents
  <2>2. \A s \in Slots : writes'[s] = IF s \in Open THEN [writes[s] EXCEPT !.phase = "written"] ELSE writes[s]
    BY <1>6 DEF BootRegenerated
  <2>3. \A s \in Slots : /\ writes'[s] \in WriteRecord /\ writes'[s].value = writes[s].value
                         /\ writes'[s].phase # "free" => writes[s].phase # "free"
    BY <1>0, <2>2 DEF Types, WriteRecord, Open
  <2>4. writes' \in [Slots -> WriteRecord]
    BY <1>6, <2>3 DEF BootRegenerated
  <2> QED BY <1>0, <1>2, <1>6, <2>1, <2>3, <2>4 DEF BootRegenerated, Types
<1>7. CASE BootUnbacked
  BY <1>0, <1>2, <1>7 DEF BootUnbacked, Types
<1> QED BY <1>1, <1>3, <1>4, <1>5, <1>6, <1>7 DEF Boot

\* Every step keeps the types.
LEMMA TypeStep == ASSUME IInv, [Next]_vars PROVE TypeOK' /\ WritesCarryStates'
<1>0. Types /\ WritesCarryStates
  BY TypeParts DEF IInv
<1> SUFFICES Types' /\ WritesCarryStates'
  BY TypeParts
<1>1. ASSUME NEW v \in Values, Change(v) PROVE Types' /\ WritesCarryStates'
  <2>1. changes' \in 0..MaxChanges
    BY <1>0, <1>1, StateFileAssumption DEF Change, Types
  <2> QED BY <1>0, <1>1, <2>1, SyncTypes DEF Change, Types, historyVars
<1>2. CASE TimerFires \/ SyncNow
  <2>1. Sync /\ timer' \in BOOLEAN
    BY <1>0, <1>2 DEF TimerFires, SyncNow, Types
  <2> QED BY <1>0, <2>1, SyncTypes DEF Sync, Types, boundVars
<1>3. ASSUME NEW s \in Slots, WriteStep(s) PROVE Types' /\ WritesCarryStates'
  BY <1>3, WriteTypes
<1>4. CASE Reload \/ Exit \/ Start \/ EditByHand
  BY <1>4, EndTypes
<1>5. CASE Boot
  BY <1>5, BootTypes
<1>6. CASE UNCHANGED vars
  BY <1>0, <1>6 DEF Types, WritesCarryStates, vars, pageVars, boundVars, historyVars
<1> QED BY <1>1, <1>2, <1>3, <1>4, <1>5, <1>6 DEF Next

-----------------------------------------------------------------------------
\* What a page has in memory changes: the sync that is due carries it.
LEMMA ChangeKeeps ==
  ASSUME IInv, NEW v \in Values, Change(v)
  PROVE  OneWrite' /\ PageIsSynced' /\ PromiseIsInFile' /\ NothingIsNotTorn' /\ ConfigIsBackedUp'
<1> USE DEF IInv
<1>1. /\ page = "up" /\ memory' = v /\ timer' = TRUE
      /\ UNCHANGED <<regenerates, page, found, lastWritten, writes, file, lost, disturbed, promised>>
  BY DEF Change, historyVars
<1>2. Busy' = Busy /\ Open' = Open
  BY <1>1 DEF Busy, Open
<1> QED BY <1>1, <1>2 DEF OneWrite, PageIsSynced, PromiseIsInFile, NothingIsNotTorn, ConfigIsBackedUp

\* A sync sends what is in memory, and leaves the file undisturbed when no write is in flight.
LEMMA SyncKeeps ==
  ASSUME IInv, TypeOK', Sync, timer' \in {timer, FALSE}
  PROVE  OneWrite' /\ PageIsSynced' /\ PromiseIsInFile' /\ NothingIsNotTorn' /\ ConfigIsBackedUp'
<1> USE DEF IInv
<1>1. /\ page = "up" /\ disturbed' = (disturbed \/ Busy # {})
      /\ UNCHANGED <<regenerates, page, found, memory, lastWritten, file, lost, promised>>
  BY DEF Sync
<1>2. PromiseIsInFile' /\ NothingIsNotTorn' /\ ConfigIsBackedUp'
  BY <1>1 DEF PromiseIsInFile, NothingIsNotTorn, ConfigIsBackedUp
<1>3. CASE disturbed'
  BY <1>1, <1>3 DEF OneWrite, PageIsSynced, PromiseIsInFile, NothingIsNotTorn, ConfigIsBackedUp
<1>4. CASE ~disturbed' /\ memory = lastWritten
  <2>1. ~disturbed /\ Busy = {} /\ writes' = writes /\ Busy' = {} /\ Open' = {}
    BY <1>1, <1>4 DEF Sync, Busy, Open
  <2> QED BY <1>1, <1>2, <1>4, <2>1 DEF OneWrite, PageIsSynced
<1>5. CASE ~disturbed' /\ memory # lastWritten
  <2>1. PICK s \in Slots \ Busy :
          writes' = [writes EXCEPT ![s] = [phase |-> "sent", value |-> memory, owned |-> TRUE]]
    BY <1>5 DEF Sync
  <2>2. /\ ~disturbed /\ Busy = {} /\ s \in Slots
        /\ writes'[s].phase = "sent" /\ writes'[s].value = memory /\ writes'[s].owned
        /\ \A t \in Slots : t # s => writes'[t] = writes[t]
    BY <1>1, <1>5, <2>1 DEF TypeOK
  <2>3. Busy' = {s} /\ Open' = {} /\ \A t \in Slots : writes'[t].phase # "failed"
    BY <2>2 DEF Busy, Open
  <2> QED BY <1>1, <1>2, <2>2, <2>3 DEF OneWrite, PageIsSynced
<1> QED BY <1>3, <1>4, <1>5

\* The one write of an undisturbed page empties the file, fills it, and is remembered.
LEMMA WriteKeeps ==
  ASSUME IInv, TypeOK', NEW s \in Slots, WriteStep(s)
  PROVE  OneWrite' /\ PageIsSynced' /\ PromiseIsInFile' /\ NothingIsNotTorn' /\ ConfigIsBackedUp'
<1> USE DEF IInv
<1>0. Types /\ Types'
  BY TypeParts
<1>1. /\ UNCHANGED <<regenerates, page, found, memory, timer, lost, promised>>
      /\ s \in Busy
  BY DEF WriteStep, OpenFile, FillFile, WriteFails, WriteAnswered, SetPhase, Busy, pageVars, historyVars
<1>2. PromiseIsInFile' /\ ConfigIsBackedUp'
  BY <1>1 DEF PromiseIsInFile, ConfigIsBackedUp
<1>3. writes[s].value \in Values /\ Empty \notin Values /\ Torn \notin Values
  BY <1>1, StateFileAssumption DEF WritesCarryStates, Busy
<1>4. CASE OpenFile(s)
  <2>1. /\ writes[s].phase = "sent" /\ writes'[s].phase = "open" /\ file' = Empty
        /\ writes'[s].value = writes[s].value /\ writes'[s].owned = writes[s].owned
        /\ \A t \in Slots : t # s => writes'[t] = writes[t]
        /\ UNCHANGED <<lastWritten, disturbed>>
    BY <1>0, <1>4, PhaseMoves DEF OpenFile, pageVars, historyVars
  <2>2. Busy' = Busy /\ Open' = Open \cup {s}
    BY <2>1 DEF Busy, Open
  <2>3. OneWrite' /\ NothingIsNotTorn'
    BY <2>1, <2>2 DEF OneWrite, NothingIsNotTorn, Empty, Torn
  <2>4. PageIsSynced'
    BY <1>1, <2>1, <2>2 DEF PageIsSynced, OneWrite
  <2> QED BY <1>2, <2>3, <2>4
<1>5. CASE FillFile(s)
  <2>1. /\ writes[s].phase = "open" /\ writes'[s].phase = "written"
        /\ file' = writes[s].value \/ file # Empty
        /\ writes'[s].value = writes[s].value /\ writes'[s].owned = writes[s].owned
        /\ \A t \in Slots : t # s => writes'[t] = writes[t]
        /\ UNCHANGED <<lastWritten, disturbed>>
    BY <1>0, <1>5, PhaseMoves DEF FillFile, pageVars, historyVars
  <2>2. Busy' = Busy /\ Open' = Open \ {s} /\ s \in Open
    BY <2>1 DEF Busy, Open
  <2>3. ~disturbed => file' = writes[s].value /\ Open' = {}
    BY <1>1, <2>1, <2>2 DEF OneWrite, Busy, Open
  <2>4. OneWrite' /\ NothingIsNotTorn'
    BY <1>3, <2>1, <2>2, <2>3 DEF OneWrite, NothingIsNotTorn
  <2>5. PageIsSynced'
    BY <1>1, <2>1, <2>2, <2>3 DEF PageIsSynced, OneWrite
  <2> QED BY <1>2, <2>4, <2>5
<1>6. CASE WriteFails(s)
  <2>1. disturbed' /\ lastWritten' = lastWritten
    BY <1>6 DEF WriteFails, pageVars
  <2> QED BY <1>1, <1>2, <2>1 DEF OneWrite, PageIsSynced, NothingIsNotTorn
<1>7. CASE WriteAnswered(s)
  <2>1. /\ writes[s].phase \in {"written", "failed"} /\ writes'[s] = Free
        /\ lastWritten' = IF writes[s].owned /\ writes[s].phase = "written" THEN writes[s].value ELSE lastWritten
        /\ \A t \in Slots : t # s => writes'[t] = writes[t]
        /\ UNCHANGED <<file, disturbed>>
    BY <1>0, <1>7 DEF WriteAnswered, historyVars, Types
  <2>2. Busy' = Busy \ {s} /\ Open' \subseteq Open
    BY <2>1 DEF Busy, Open, Free
  <2>3. OneWrite' /\ NothingIsNotTorn'
    BY <1>1, <2>1, <2>2 DEF OneWrite, NothingIsNotTorn, Free
  <2>4. ~disturbed /\ page = "up" => Busy' = {} /\ lastWritten' = writes[s].value /\ file' = writes[s].value
    BY <1>1, <2>1, <2>2 DEF OneWrite, PageIsSynced
  <2>5. PageIsSynced'
    BY <1>1, <1>3, <2>1, <2>4 DEF PageIsSynced
  <2> QED BY <1>2, <2>3, <2>5
<1> QED BY <1>4, <1>5, <1>6, <1>7 DEF WriteStep

\* An end leaves what was finished, or promises nothing.
LEMMA EndKeeps ==
  ASSUME IInv, TypeOK', Reload \/ Exit \/ Start \/ EditByHand
  PROVE  OneWrite' /\ PageIsSynced' /\ PromiseIsInFile' /\ NothingIsNotTorn' /\ ConfigIsBackedUp'
<1> USE DEF IInv
<1>0. Types
  BY TypeParts
<1>1. /\ page' \in {"reading", "off"} /\ UNCHANGED <<regenerates, lost, disturbed>>
  BY DEF Reload, Exit, Start, EditByHand, PageGone, historyVars, pageVars
<1>2. PageIsSynced' /\ NothingIsNotTorn' /\ ConfigIsBackedUp'
  BY <1>1 DEF PageIsSynced, NothingIsNotTorn, ConfigIsBackedUp
<1>3. PageGone /\ promised' # None => promised' \in Values /\ file = promised' /\ Busy = {}
  <2>1. CASE page # "up"
    BY <1>0, <2>1 DEF PageGone, Promise, PromiseIsInFile
  <2>2. CASE page = "up"
    BY <1>0, <2>2 DEF PageGone, Promise, PageIsSynced
  <2> QED BY <2>1, <2>2
<1>4. CASE Reload
  <2>1. \A s \in Slots : writes'[s].phase = writes[s].phase
    BY <1>0, <1>4 DEF Reload, Types, WriteRecord
  <2>2. Busy' = Busy /\ Open' = Open /\ file' = file /\ PageGone
    BY <1>4, <2>1 DEF Reload, Busy, Open
  <2>3. PromiseIsInFile'
    BY <1>1, <1>3, <2>2 DEF PromiseIsInFile
  <2> QED BY <1>1, <1>2, <2>1, <2>2, <2>3 DEF OneWrite
<1>5. CASE Exit
  <2>1. Busy' = {} /\ Open' = {} /\ PageGone /\ \A s \in Slots : writes'[s].phase = "free"
    BY <1>5 DEF Exit, Busy, Open, Free
  <2>2. Busy = {} => file' = file
    BY <1>5 DEF Exit, Busy, Open
  <2>3. PromiseIsInFile'
    BY <1>1, <1>3, <2>1, <2>2 DEF PromiseIsInFile
  <2> QED BY <1>2, <2>1, <2>3 DEF OneWrite
<1>6. CASE Start
  <2>1. UNCHANGED <<writes, file, promised, found>> /\ Busy' = Busy /\ Open' = Open
    BY <1>6 DEF Start, historyVars, Busy, Open
  <2> QED BY <1>1, <1>2, <1>6, <2>1 DEF OneWrite, PromiseIsInFile, Start
<1>7. CASE EditByHand
  <2>1. promised' = None /\ writes' = writes /\ page = "off"
    BY <1>7 DEF EditByHand
  <2>2. Busy = {} /\ Busy' = {} /\ Open' = {} /\ \A s \in Slots : writes[s].phase = "free"
    BY <2>1 DEF ClosedIsQuiet, Busy, Open
  <2>3. OneWrite'
    BY <2>1, <2>2 DEF OneWrite
  <2> QED BY <1>2, <2>1, <2>3 DEF PromiseIsInFile
<1> QED BY <1>4, <1>5, <1>6, <1>7

\* The writes in flight are those of a page, or of one that reloads.
LEMMA ClosedStep == ASSUME IInv, [Next]_vars PROVE ClosedIsQuiet'
<1> USE DEF IInv
<1>0. Types
  BY TypeParts
<1>1. CASE (\E v \in Values : Change(v)) \/ TimerFires \/ SyncNow \/ Reload \/ Boot
  <2>1. page' # "off"
    BY <1>1 DEF Change, TimerFires, SyncNow, Sync, Reload, Boot, ReadFile, BootWith, BootLoaded, BootDropped,
                BootDefaulted, BootRegenerated, BootUnbacked
  <2> QED BY <2>1 DEF ClosedIsQuiet
<1>2. ASSUME NEW s \in Slots, WriteStep(s) PROVE ClosedIsQuiet'
  <2>1. s \in Busy /\ page' = page
    BY <1>2 DEF WriteStep, OpenFile, FillFile, WriteFails, WriteAnswered, SetPhase, Busy, pageVars
  <2> QED BY <2>1 DEF ClosedIsQuiet
<1>3. CASE Exit
  BY <1>3 DEF Exit, Free, Busy, ClosedIsQuiet
<1>4. CASE Start \/ EditByHand \/ UNCHANGED vars
  <2>1. writes' = writes /\ Busy' = Busy /\ (page' = "off" => page = "off")
    BY <1>4 DEF Start, EditByHand, vars, pageVars, Busy
  <2> QED BY <2>1 DEF ClosedIsQuiet
<1> QED BY <1>1, <1>2, <1>3, <1>4 DEF Next

\* A start that a page left quiet reads what was promised and loads it; any other promises
\* nothing.  The default never replaces a torn config, unless something was disturbed.
LEMMA BootKeeps ==
  ASSUME IInv, TypeOK', Boot
  PROVE  /\ OneWrite' /\ PageIsSynced' /\ PromiseIsInFile' /\ NothingIsNotTorn' /\ ConfigIsBackedUp'
         /\ page # "up" /\ page' = "up" /\ promised # None => memory' = promised
<1> USE DEF IInv
<1>0. Types /\ Default \in Values
  BY TypeParts, StateFileAssumption
<1>1. CASE ReadFile
  <2>1. /\ page = "reading" /\ page' = "deciding" /\ found' = file
        /\ UNCHANGED <<regenerates, writes, file, lost, disturbed, promised>>
    BY <1>1 DEF ReadFile, historyVars
  <2>2. Busy' = Busy /\ Open' = Open
    BY <2>1 DEF Busy, Open
  <2>3. OneWrite' /\ PageIsSynced' /\ PromiseIsInFile' /\ ConfigIsBackedUp'
    BY <2>1, <2>2 DEF OneWrite, PageIsSynced, PromiseIsInFile, ConfigIsBackedUp
  <2>4. NothingIsNotTorn'
    BY <2>1 DEF NothingIsNotTorn, Empty, Torn
  <2> QED BY <2>1, <2>3, <2>4
<1>2. ASSUME NEW v \in Values, BootWith(v),
             Busy = {} => writes' = writes,
             regenerates => lost' = lost
      PROVE  OneWrite' /\ PageIsSynced' /\ PromiseIsInFile' /\ NothingIsNotTorn' /\ ConfigIsBackedUp'
  <2>1. /\ page' = "up" /\ memory' = v /\ lastWritten' = v /\ regenerates' = regenerates
        /\ ~disturbed' => file' = v /\ Busy = {}
    BY <1>2 DEF BootWith
  <2>2. ~disturbed' => Busy' = {} /\ Open' = {} /\ \A s \in Slots : writes'[s].phase = "free"
    BY <1>2, <2>1 DEF Busy, Open
  <2>3. OneWrite' /\ PageIsSynced' /\ PromiseIsInFile' /\ NothingIsNotTorn'
    BY <2>1, <2>2 DEF OneWrite, PageIsSynced, PromiseIsInFile, NothingIsNotTorn
  <2> QED BY <1>2, <2>1, <2>3 DEF ConfigIsBackedUp
<1>3. page = "deciding" /\ promised # None => Content = promised /\ ~Reread /\ promised \in Values
  BY StateFileAssumption DEF PromiseIsInFile, Content, Reread
<1>4. CASE BootLoaded
  BY <1>2, <1>3, <1>4 DEF BootLoaded, BootWith
<1>5. CASE BootDropped \/ BootUnbacked
  <2>1. page = "deciding" /\ Content \notin Values /\ BootWith(Default) /\ UNCHANGED <<writes, lost>>
    BY <1>5, StateFileAssumption DEF BootDropped, BootUnbacked
  <2> QED BY <1>0, <1>2, <1>3, <2>1
<1>6. CASE BootRegenerated
  <2>1. page = "deciding" /\ Content \notin Values /\ BootWith(Default) /\ lost' = lost
    BY <1>6, StateFileAssumption DEF BootRegenerated
  <2>2. Busy = {} => writes' = writes
    <3>1. SUFFICES ASSUME Busy = {} PROVE writes' = writes
      OBVIOUS
    <3>2. Open = {}
      BY <3>1 DEF Busy, Open
    <3> QED BY <1>0, <1>6, <3>2 DEF BootRegenerated, Types
  <2> QED BY <1>0, <1>2, <1>3, <2>1, <2>2
<1>7. CASE BootDefaulted
  <2>1. page = "deciding" /\ Reread /\ BootWith(Default) /\ writes' = writes
    BY <1>7 DEF BootDefaulted
  <2>2. regenerates => lost' = lost
    BY <1>7 DEF BootDefaulted, Reread, NothingIsNotTorn
  <2> QED BY <1>0, <1>2, <1>3, <2>1, <2>2
<1> QED BY <1>1, <1>4, <1>5, <1>6, <1>7 DEF Boot

-----------------------------------------------------------------------------
\* Every step keeps the invariant, and a start finds what was promised.
LEMMA StepInv ==
  ASSUME IInv, [Next]_vars
  PROVE  IInv' /\ (page # "up" /\ page' = "up" /\ promised # None => memory' = promised)
<1>0. TypeOK' /\ WritesCarryStates' /\ ClosedIsQuiet'
  BY TypeStep, ClosedStep
<1>1. ASSUME NEW v \in Values, Change(v)
      PROVE  IInv' /\ page = "up"
  BY <1>0, <1>1, ChangeKeeps DEF IInv, Change
<1>2. CASE TimerFires \/ SyncNow
  BY <1>0, <1>2, SyncKeeps DEF TimerFires, SyncNow, IInv, Sync
<1>3. ASSUME NEW s \in Slots, WriteStep(s)
      PROVE  IInv' /\ page' = page
  BY <1>0, <1>3, WriteKeeps DEF IInv, WriteStep, OpenFile, FillFile, WriteFails, WriteAnswered, pageVars
<1>4. CASE Reload \/ Exit \/ Start \/ EditByHand
  BY <1>0, <1>4, EndKeeps DEF IInv, Reload, Exit, Start, EditByHand, pageVars
<1>5. CASE Boot
  BY <1>0, <1>5, BootKeeps DEF IInv
<1>6. CASE UNCHANGED vars
  <2>1. Busy' = Busy /\ Open' = Open
    BY <1>6 DEF vars, Busy, Open
  <2> QED BY <1>0, <1>6, <2>1 DEF IInv, OneWrite, PageIsSynced, PromiseIsInFile, NothingIsNotTorn,
          ConfigIsBackedUp, vars, pageVars, boundVars, historyVars
<1> QED BY <1>1, <1>2, <1>3, <1>4, <1>5, <1>6 DEF Next

\* The invariant holds in every state a state, its file and its writes reach.
THEOREM Invariance == Spec => []IInv
<1>1. Init => IInv
  BY InitInv
<1>2. IInv /\ [Next]_vars => IInv'
  BY StepInv
<1> QED BY <1>1, <1>2, PTL DEF Spec

\* The state, the file and the writes between them have their types.
THEOREM TypeCorrectness == Spec => []TypeOK
BY Invariance, PTL DEF IInv

\* With no sync due and no write in flight the file holds the state, unless a write failed or
\* was overtaken; and a start never overwrites a config it could not read.
THEOREM StateIsKept == Spec => []NothingIsLost
<1>1. IInv => NothingIsLost
  BY DEF IInv, NothingIsLost, NothingForgotten, PageIsSynced
<1> QED BY <1>1, Invariance, PTL

\* What a page finished writing is what the next one starts with, however often the application
\* is reloaded, closed or killed in between.
THEOREM FinishedSurvives == Spec => SyncedSurvives
<1>1. IInv /\ [Next]_vars => [page # "up" /\ page' = "up" /\ promised # None => memory' = promised]_vars
  BY StepInv
<1> QED BY <1>1, Invariance, PTL DEF Spec, SyncedSurvives
=============================================================================
