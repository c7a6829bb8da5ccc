---------------------------- MODULE SettingsRows ----------------------------
(***************************************************************************)
(* The rows of the settings and the fields of a new instance: arguments,   *)
(* and the memory, which is kept among them, and the size of the window.   *)
(* Toggles, colours, selects and radios store what they are given at once; *)
(* a text field stores what it shows when its debounce timer fires.  A     *)
(* field that is rendered again shows what is stored, typed text or not,   *)
(* and a field that leaves the page keeps its text until its timer fires.  *)
(***************************************************************************)
EXTENDS Undefined, Selection, SequencesExt, TLC

CONSTANTS
  Rows,           \* the rows the user touches, of AllRows
  Texts,          \* [what a field holds -> texts a user leaves in it]
  PickedFiles,    \* the files a dialog may return
  Detected,       \* answers of detect_java_installations: paths with their sources
  CustomJava,     \* globalStates.java: paths of the user
  LocalesFound,   \* the codes get_locales answers, in order
  MaxEdits        \* bound: edits, and changes of the tab or page, after which the user does nothing

DefaultLocale == "en"

ASSUME EditsAssumption == MaxEdits \in Nat /\ None \notin {"here", "left"}

(* The answer names files of one directory.                                *)
ASSUME FoundAssumption == LocalesFound \in Seq(ToSet(LocalesFound)) /\ IsInjective(LocalesFound)

-----------------------------------------------------------------------------
(* The rows.                                                               *)

ToggleRow == [kind |-> "toggle"]
Select == [kind |-> "select"]
Radio == [kind |-> "radio"]
Color == [kind |-> "color"]
Input(holds) == [kind |-> "input", holds |-> holds, filePicker |-> FALSE, onBlur |-> FALSE]
FilePicker(holds) == [Input(holds) EXCEPT !.filePicker = TRUE]

DevelopmentSettingsRows ==
  [enableDebugMode |-> ToggleRow, loadErudaDevTools |-> ToggleRow, showFPS |-> ToggleRow, showCPUUsage |-> ToggleRow,
   showMemoryUsage |-> ToggleRow, enableNativeContextMenu |-> ToggleRow, enableNativeReloadKeyBinds |-> ToggleRow,
   useNativeColorPicker |-> ToggleRow]

UserInterfaceSettingsRows ==
  [locale |-> Select, lineHeight |-> Input("number"), rippleColor |-> Color, rippleSparkles |-> Color,
   backgroundImage |-> FilePicker("text or nothing"), backgroundBlur |-> Input("number or nothing"),
   backgroundColor |-> Color]

UserInterfaceSettingsRowsBelow ==
  [backgroundIsVideo |-> ToggleRow, textFont |-> FilePicker("text or nothing"), textMainColor |-> Color,
   textSecondaryColor |-> Color, widgetBackground |-> Color, widgetBlur |-> Input("number or nothing"),
   widgetTextColor |-> Color, widgetSecondaryColor |-> Color]

MinecraftSettingsRows ==
  [windowWidth |-> Input("number"), windowHeight |-> Input("number"), icon |-> FilePicker("text"),
   addJvmArguments |-> Input("arguments"), addGameArguments |-> Input("arguments"),
   removeJvmArguments |-> Input("arguments"), removeGameArguments |-> Input("arguments")]

JavaRow == [javaBinary |-> Radio]

(* The fields of a new instance store when they lose the focus, too.       *)
customSettings ==
  [draftJvmArguments |-> [Input("arguments") EXCEPT !.onBlur = TRUE],
   draftGameArguments |-> [Input("arguments") EXCEPT !.onBlur = TRUE]]

(* Of a new instance, kept as two of its JVM arguments.                    *)
MemoryRows ==
  [draftMinMemory |-> [Input("memory") EXCEPT !.onBlur = TRUE],
   draftMaxMemory |-> [Input("memory") EXCEPT !.onBlur = TRUE]]

ResolutionRows ==
  [draftWindowWidth |-> [Input("number") EXCEPT !.onBlur = TRUE],
   draftWindowHeight |-> [Input("number") EXCEPT !.onBlur = TRUE]]

Table ==
  ("development" :> DevelopmentSettingsRows)
    @@ ("user-interface" :> (UserInterfaceSettingsRows @@ UserInterfaceSettingsRowsBelow))
    @@ ("minecraft" :> MinecraftSettingsRows) @@ ("java" :> JavaRow)
    @@ ("add-instance" :> (customSettings @@ MemoryRows @@ ResolutionRows))
(* The sections whose rows are modelled.                                   *)
SettingsSections == {"development", "user-interface", "minecraft", "java"}

AllRows == UNION {DOMAIN Table[s] : s \in DOMAIN Table}
SectionOf(row) == CHOOSE s \in DOMAIN Table : row \in DOMAIN Table[s]
Row(row) == Table[SectionOf(row)][row]
Fields == {row \in Rows : Row(row).kind = "input"}
DraftRows == DOMAIN customSettings \cup DOMAIN MemoryRows \cup DOMAIN ResolutionRows
(* The fields whose handlers are made anew when they are rendered.         *)
OptionRows == DOMAIN customSettings \cup DOMAIN MemoryRows
(* The fields that read and write the JVM arguments of a new instance.     *)
JvmRows == {"draftJvmArguments"} \cup DOMAIN MemoryRows

(* The setting that a new instance takes over.                             *)
DefaultOf ==
  [draftJvmArguments |-> "addJvmArguments", draftGameArguments |-> "addGameArguments",
   draftWindowWidth |-> "windowWidth", draftWindowHeight |-> "windowHeight"]

ASSUME RowsAssumption ==
  /\ Rows \subseteq AllRows /\ None \notin Rows
  /\ \A row \in Rows \cap DOMAIN DefaultOf : DefaultOf[row] \in Rows
  /\ Rows \cap DOMAIN MemoryRows # {} => "draftJvmArguments" \in Rows

-----------------------------------------------------------------------------
(* What fields make of a text: a sequence of characters.                   *)
Quote == "\""
Space == " "

(* Nothing ends isInQuotes: what follows a quoted argument is taken for    *)
(* another one, and is dropped unless a quote ends it.                     *)
SplitAt(s, c) ==
  CASE c = Quote /\ s.isInQuotes -> [s EXCEPT !.parts = Append(@, s.quoted), !.quoted = <<>>]
    [] c = Quote /\ ~s.isInQuotes -> [s EXCEPT !.isInQuotes = TRUE]
    [] c # Quote /\ s.isInQuotes -> [s EXCEPT !.quoted = Append(@, c)]
    [] c = Space /\ ~s.isInQuotes -> [s EXCEPT !.parts = Append(@, s.simple), !.simple = <<>>]
    [] OTHER -> [s EXCEPT !.simple = Append(@, c)]
splitArguments(text) ==
  LET s == FoldLeft(SplitAt, [parts |-> <<>>, simple |-> <<>>, quoted |-> <<>>, isInQuotes |-> FALSE], text)
  IN  SelectSeq(Append(s.parts, s.simple), LAMBDA part : part # <<>>)

(* An argument with a space is quoted, and its own quotes are escaped,     *)
(* which splitArguments does not know.                                     *)
Escaped(argument) == FlattenSeq([i \in DOMAIN argument |-> IF argument[i] = Quote THEN <<"\\", Quote>> ELSE <<argument[i]>>])
joinArguments(arguments) ==
  LET shown(a) == IF Contains(a, Space) THEN <<Quote>> \o Escaped(a) \o <<Quote>> ELSE a
  IN  FlattenSeq([i \in DOMAIN arguments |-> (IF i = 1 THEN <<>> ELSE <<Space>>) \o shown(arguments[i])])

(* JavaScript's Number, by its text: that of blanks is 0.                  *)
Number(text) ==
  CASE ToSet(text) \subseteq {Space} -> <<"0">>
    [] text # <<>> /\ ToSet(text) \subseteq {"0", "1", "2", "3"} -> text
    [] OTHER -> None

NoNumber(row, text) ==
  /\ Row(row).holds \in {"number", "number or nothing"} /\ Number(text) = None
Understood(row, text) ==
  CASE Row(row).holds = "arguments" -> splitArguments(text)
    [] Row(row).holds \in {"text or nothing", "number or nothing", "memory"} /\ text = <<>> -> None
    [] Row(row).holds \in {"number", "number or nothing", "memory"} /\ text # <<>> -> Number(text)
    [] Row(row).holds = "number" /\ text = <<>> -> Number(text)
    [] OTHER -> text
(* The memory of a new instance, in megabytes: what stands between the     *)
(* flag, here one character, and the unit, which is not looked at.         *)
Flag == [draftMinMemory |-> "-Xms", draftMaxMemory |-> "-Xmx"]
IsAllocation(argument, rows) == argument # <<>> /\ Head(argument) \in {Flag[row] : row \in rows}
currentMemoryAllocation(row, arguments) ==
  LET own == SelectSeq(arguments, LAMBDA a : IsAllocation(a, {row}))
  IN  IF own = <<>> THEN None ELSE Number(SubSeq(Last(own), 2, Len(Last(own)) - 1))

(* One field is changed and the other written again, in megabytes; one     *)
(* that is 0 is dropped.                                                   *)
handleMemoryAllocation(row, text, arguments) ==
  LET Of(r) == IF r = row THEN (IF text = <<>> THEN None ELSE text) ELSE currentMemoryAllocation(r, arguments)
      Built(r) == IF Of(r) = None \/ (r # row /\ Of(r) = <<"0">>) THEN <<>> ELSE <<<<Flag[r]>> \o Of(r) \o <<"m">>>>
  IN  Built("draftMinMemory") \o Built("draftMaxMemory")
        \o SelectSeq(arguments, LAMBDA a : ~IsAllocation(a, DOMAIN MemoryRows))

Displayed(row, value) ==
  CASE Row(row).holds = "arguments" -> joinArguments(value)
    [] value = None -> <<>>
    [] OTHER -> value

-----------------------------------------------------------------------------
VARIABLES
  settings,   \* globalStates, by row; of DraftRows what the draft has, or None;
              \* of MemoryRows None, as the JVM arguments have them
  page, tab,  \* the page that is shown; pages.settings.tab
  disabled,   \* Tabs.vue: the tab that was clicked last
  awaited,    \* the click on "java": None, or where its component is, "here" or "left"
  active,     \* the field that has the keyboard
  focused,    \* CustomInput.vue: it was given to it by a click
  shown,      \* the texts of the fields on the page
  timer,      \* the fields whose debounce timer runs
  detached,   \* texts of fields which have left the page with their timer running
  picking,    \* the fields whose file dialog is open
  java,       \* javaStates
  ReadLocales,
  locating,   \* get_locales has been called and has not answered
  edits, last, disturbed, hijacked  \* history: edits so far, the last of each field and whether something
                                    \* came between it and its timer; a tab opened by a late answer

fieldVars == <<active, focused, shown, timer, detached, picking>>
tabVars == <<page, tab, disabled, awaited, hijacked>>
foundVars == <<java, ReadLocales, locating>>
historyVars == <<edits, last, disturbed>>
settingsVars == <<settings, tabVars, fieldVars, foundVars, historyVars>>

(* What a row shows of values: a draft that is not there yet, the default. *)
Kept(row, values) == IF row \in DraftRows /\ values[row] = None THEN values[DefaultOf[row]] ELSE values[row]
Stored(row, values) ==
  IF row \in DOMAIN MemoryRows THEN currentMemoryAllocation(row, Kept("draftJvmArguments", values)) ELSE Kept(row, values)
Rendered(row, values) == Displayed(row, Stored(row, values))

DefaultSetting(row) ==
  LET kind == Row(row).kind IN
  IF row \in DraftRows THEN None
  ELSE CASE kind = "select" -> DefaultLocale
    [] kind = "toggle" -> FALSE
    [] kind = "radio" -> "java"
    [] kind = "color" -> None
    [] kind = "input" /\ Row(row).holds = "arguments" -> <<>>
    [] kind = "input" /\ Row(row).holds = "number" -> <<"2">>
    [] kind = "input" /\ Row(row).holds = "text" -> <<"i">>
    [] OTHER -> None

SettingsInit ==
  /\ settings = [row \in Rows |-> DefaultSetting(row)]
  /\ page = "settings" /\ tab = "minecraft" /\ disabled = None /\ awaited = None
  /\ active = None /\ focused = FALSE
  /\ shown = [row \in Fields |-> Rendered(row, settings)]
  /\ timer = {} /\ picking = {} /\ detached = [row \in Fields |-> None]
  /\ java = [status |-> "idle", installations |-> {}]
  /\ ReadLocales = <<DefaultLocale>> /\ locating = FALSE
  /\ edits = 0 /\ last = [row \in Fields |-> None] /\ disturbed = {} /\ hijacked = FALSE

OnPage(row) == SectionOf(row) = IF page = "settings" THEN tab ELSE page
Edited == edits < MaxEdits /\ edits' = edits + 1

-----------------------------------------------------------------------------
(* The fields.                                                             *)

(* onInput: the text goes to the settings, or to the draft, which begins   *)
(* as a copy of them; a number that is none changes nothing.               *)
With(row, text) ==
  LET complete == [k \in Rows |-> IF row \in DraftRows /\ k \in DOMAIN DefaultOf THEN Kept(k, settings) ELSE settings[k]]
  IN  IF NoNumber(row, text) THEN settings
      ELSE IF row \in DOMAIN MemoryRows
      THEN [complete EXCEPT !["draftJvmArguments"] = handleMemoryAllocation(row, text, @)]
      ELSE [complete EXCEPT ![row] = Understood(row, text)]

(* Every edit of a new instance replaces what its fields are computed      *)
(* from, but that of the game's arguments in a draft that is there.        *)
RenderedAnew(row) ==
  IF row = "draftGameArguments" /\ settings[row] # None THEN DOMAIN customSettings ELSE OptionRows

(* What is rendered again when a text is stored: the fields that show      *)
(* something else now, arguments, and of a new instance those with         *)
(* handlers of their own.                                                  *)
Rerendered(row, text) ==
  LET values == With(row, text) IN
  {k \in Fields : Rendered(k, values) # Rendered(k, settings)}
    \cup (IF NoNumber(row, text) THEN {}
          ELSE IF row \in DraftRows THEN RenderedAnew(row) \cap Rows
          ELSE IF values # settings \/ Row(row).holds = "arguments" THEN {row} ELSE {})

(* The fields in also are rendered, too.                                   *)
Store(row, text, also) ==
  /\ settings' = With(row, text)
  /\ shown' = [k \in Fields |-> IF k \in also \cup Rerendered(row, text) THEN Rendered(k, settings') ELSE shown[k]]

(* The arguments and the memory are written in one another's field: what   *)
(* was typed there is not the last word then.                              *)
Superseded(k, row) ==
  /\ {k, row} \subseteq JvmRows /\ "draftJvmArguments" \in {k, row} /\ k # row
  /\ k \notin timer /\ detached[k] = None /\ Stored(k, settings') # Stored(k, settings)
Supersede(row) == last' = [k \in Fields |-> IF Superseded(k, row) THEN None ELSE last[k]]

Type(row, text) ==
  /\ active = row /\ text # shown[row] /\ Edited
  /\ shown' = [shown EXCEPT ![row] = text]
  /\ timer' = timer \cup {row}
  /\ last' = [last EXCEPT ![row] = text]
  /\ disturbed' = disturbed \ {row}
  /\ UNCHANGED <<settings, active, focused, detached, picking, tabVars, foundVars>>

handleWrapperClick(row) ==
  /\ active = None /\ OnPage(row) /\ edits < MaxEdits
  /\ active' = row /\ focused' \in BOOLEAN   \* by a click, or by the keyboard
  /\ UNCHANGED <<settings, shown, timer, detached, picking, tabVars, foundVars, historyVars>>

(* unFocus: focused is rendered, and with it what is stored.               *)
unFocus ==
  /\ active # None
  /\ active' = None /\ focused' = FALSE
  /\ LET drawn == IF focused THEN {active} ELSE {} IN
     IF Row(active).onBlur
     THEN /\ Store(active, shown[active], drawn) /\ Supersede(active)
          /\ disturbed' = disturbed \cup (timer \cap (Rerendered(active, shown[active]) \ {active}))
     ELSE /\ shown' = [k \in Fields |-> IF k \in drawn THEN Rendered(k, settings) ELSE shown[k]]
          /\ disturbed' = disturbed \cup (timer \cap drawn)
          /\ UNCHANGED <<settings, last>>
  /\ UNCHANGED <<timer, detached, picking, edits, tabVars, foundVars>>

(* The handler reads its field when the timer fires; that of a field which *)
(* has left the page began earlier, and fires earlier.                     *)
handleInput(row) ==
  /\ row \in timer /\ \A k \in Fields : detached[k] = None
  /\ timer' = timer \ {row}
  /\ Store(row, shown[row], {}) /\ Supersede(row)
  /\ disturbed' = disturbed \cup (timer \cap (Rerendered(row, shown[row]) \ {row}))
  /\ UNCHANGED <<active, focused, detached, picking, edits, tabVars, foundVars>>

(* That of a field which is not on the page any more.                      *)
handleDetachedInput(row) ==
  /\ detached[row] # None
  /\ detached' = [detached EXCEPT ![row] = None]
  /\ Store(row, detached[row], {}) /\ Supersede(row)
  /\ disturbed' = disturbed \cup (timer \cap Rerendered(row, detached[row]))
  /\ UNCHANGED <<timer, active, focused, picking, edits, tabVars, foundVars>>

handleFilePickerClick(row) ==
  /\ Row(row).filePicker /\ OnPage(row) /\ active = None /\ row \notin picking /\ edits < MaxEdits
  /\ picking' = picking \cup {row}
  /\ UNCHANGED <<settings, active, focused, shown, timer, detached, tabVars, foundVars, historyVars>>

(* The answer of the dialog, on the page or not.                           *)
onPick(row, file) ==
  /\ row \in picking /\ picking' = picking \ {row}
  /\ \/ file = None /\ UNCHANGED <<settings, shown, historyVars>>
     \/ /\ file # None /\ Edited
        /\ Store(row, file, {})
        /\ last' = [last EXCEPT ![row] = file]
        /\ disturbed' = (disturbed \ {row}) \cup (IF row \in timer \/ detached[row] # None THEN {row} ELSE {})
  /\ UNCHANGED <<active, focused, timer, detached, tabVars, foundVars>>

-----------------------------------------------------------------------------
(* The other rows.                                                         *)

Put(row, value) ==
  /\ active = None /\ OnPage(row) /\ value # settings[row] /\ Edited
  /\ settings' = [settings EXCEPT ![row] = value]
  /\ UNCHANGED <<fieldVars, tabVars, foundVars, last, disturbed>>

handleRowClick(row) == Row(row).kind = "toggle" /\ Put(row, ~settings[row])

(* Every change of the text is stored, whether it is a colour or not.      *)
handleHexInput(row) == Row(row).kind = "color" /\ \E text \in Texts["color"] : Put(row, text)

handleSelect(row) == Row(row).kind = "select" /\ \E code \in ToSet(ReadLocales) : Put(row, code)

(* The paths that can be chosen: the program of the environment by its     *)
(* name, and by its path where it has been detected as well.               *)
JavaSettingsRows ==
  {i.path : i \in java.installations} \cup CustomJava
    \cup (IF \E i \in java.installations : i.source = "environment" THEN {"java"} ELSE {})

ChooseJava(row) == Row(row).kind = "radio" /\ \E path \in JavaSettingsRows : Put(row, path)

-----------------------------------------------------------------------------
(* The tabs, and what they ask for.                                        *)

(* Fields that leave the page keep their text until their timer fires; the *)
(* user does not leave a field twice within its 300 ms.                    *)
Unmounted(row) == row \in timer /\ OnPage(row)

Leave(values) ==
  /\ \A row \in Fields : Unmounted(row) => detached[row] = None
  /\ detached' = [row \in Fields |-> IF Unmounted(row) THEN shown[row] ELSE detached[row]]
  /\ timer' = {row \in timer : ~OnPage(row)}
  /\ active' = None /\ focused' = FALSE
  /\ shown' = [row \in Fields |-> Rendered(row, values)]
  /\ UNCHANGED picking

(* UserInterfaceSettings.vue asks for the languages when it is mounted.    *)
Mounted(section) == locating' = (locating \/ section = "user-interface")

(* The tab "java" is opened when the installations are known.              *)
handleModeSelect(section) ==
  /\ page = "settings" /\ active = None /\ Edited
  /\ section # tab /\ section # disabled
  /\ disabled' = section
  /\ IF section = "java" /\ java.status = "idle"
     THEN /\ awaited' = "here" /\ java' = [java EXCEPT !.status = "scanning"]
          /\ UNCHANGED <<tab, locating, fieldVars>>
     ELSE tab' = section /\ Mounted(section) /\ Leave(settings) /\ UNCHANGED <<awaited, java>>
  /\ UNCHANGED <<settings, page, hijacked, ReadLocales, last, disturbed>>

(* Tabs.vue: a click of the meantime is the one that counts, as long as    *)
(* the tabs have not been left.                                            *)
StillSelected == awaited = "left" \/ (awaited = "here" /\ disabled = "java")

detectJavaInstallations(answer) ==
  /\ java.status = "scanning"
  /\ java' = IF answer = None THEN [java EXCEPT !.status = "failed"] ELSE [status |-> "loaded", installations |-> answer]
  /\ awaited' = None
  /\ hijacked' = (hijacked \/ awaited = "left")
  /\ IF StillSelected
     THEN /\ tab' = "java"
          /\ IF page = "settings" /\ tab # "java" THEN Leave(settings) ELSE UNCHANGED fieldVars
     ELSE UNCHANGED <<tab, fieldVars>>
  /\ UNCHANGED <<settings, page, disabled, ReadLocales, locating, historyVars>>

(* The sidebar; ChangeJavaBinary.vue asks for the installations, too.      *)
OpenPage(new) ==
  /\ page # new /\ active = None /\ Edited
  /\ page' = new
  /\ disabled' = None
  /\ awaited' = IF awaited = "here" THEN (IF disabled = "java" THEN "left" ELSE None) ELSE awaited
  /\ java' = IF new = "add-instance" /\ java.status = "idle" THEN [java EXCEPT !.status = "scanning"] ELSE java
  /\ Mounted(IF new = "settings" THEN tab ELSE new)
  /\ Leave(settings)
  /\ UNCHANGED <<settings, tab, hijacked, ReadLocales, last, disturbed>>

(* What is listed already is looked up when the answer is there.           *)
Unlisted == Selected(LocalesFound, ToSet(LocalesFound) \ ToSet(ReadLocales))

GetLocales(answered) ==
  /\ locating /\ locating' = FALSE
  /\ ReadLocales' = IF answered THEN ReadLocales \o Unlisted ELSE ReadLocales
  /\ UNCHANGED <<settings, tabVars, fieldVars, java, historyVars>>

SettingsNext ==
  \/ \E row \in Fields :
       \/ \E text \in Texts[Row(row).holds] : Type(row, text)
       \/ handleWrapperClick(row) \/ handleInput(row) \/ handleDetachedInput(row)
       \/ handleFilePickerClick(row) \/ \E file \in PickedFiles \cup {None} : onPick(row, file)
  \/ \E row \in Rows \ Fields : handleRowClick(row) \/ handleHexInput(row) \/ handleSelect(row) \/ ChooseJava(row)
  \/ unFocus
  \/ \E section \in SettingsSections : handleModeSelect(section)
  \/ \E answer \in Detected \cup {None} : detectJavaInstallations(answer)
  \/ \E new \in {"settings", "add-instance"} : OpenPage(new)
  \/ \E answered \in BOOLEAN : GetLocales(answered)

-----------------------------------------------------------------------------
(* Nothing is shown or awaited that the page does not have.                *)
SettingsTypeOK ==
  /\ DOMAIN settings = Rows /\ \A row \in Rows \ DraftRows : Row(row).kind = "toggle" => settings[row] \in BOOLEAN
  /\ page \in {"settings", "add-instance"} /\ tab \in SettingsSections /\ disabled \in SettingsSections \cup {None}
  /\ awaited \in {None, "here", "left"}
  /\ active # None => active \in Fields /\ OnPage(active)
  /\ timer \subseteq {row \in Fields : OnPage(row)} /\ picking \subseteq Fields /\ disturbed \subseteq Fields
  /\ java.status \in {"idle", "scanning", "loaded", "failed"} /\ DefaultLocale \in ToSet(ReadLocales)

(* Once its timer has fired, a field has stored what was typed or picked   *)
(* last, on the page or off it; unless it was rendered again before, and   *)
(* for texts that are shown again as they were understood.  That of a new  *)
(* instance never depends on when it loses the focus, and one bound of its *)
(* memory not on the other's edits, unless it is 0.  CustomInput.vue,      *)
(* ChangeMemoryAllocation.vue.                                             *)
StoredAsTyped ==
  \A row \in Fields :
    LET value == Understood(row, last[row]) IN
    (/\ last[row] # None /\ row \notin timer /\ detached[row] = None /\ row \notin disturbed
     /\ ~(Row(row).holds = "memory" /\ value = <<"0">>)
     /\ ~NoNumber(row, last[row]) /\ Understood(row, Displayed(row, value)) = value)
      => Stored(row, settings) = value

(* The tab that is open is the one clicked last, and not one that took     *)
(* longer to load; unless the page was left meanwhile.  Tabs.vue.          *)
TabAsSelected == disabled # None /\ awaited = None /\ ~hijacked => tab = disabled

(* Languages are listed once, however often the tab has asked for them.    *)
LocalesListedOnce == IsInjective(ReadLocales)
=============================================================================
