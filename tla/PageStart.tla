----------------------------- MODULE PageStart ------------------------------
(***************************************************************************)
(* The start of the page: main.ts asks the backend for the initial state,  *)
(* reads what that lacks, mounts the page and its watchers, and finishes   *)
(* by showing the window, which is hidden until then; if extensions are to *)
(* be loaded first, their loader shows it.  An error before shows it, too. *)
(* The watchers fetch translations and developer tools, and await them.    *)
(***************************************************************************)
EXTENDS Undefined, Naturals, SequencesExt

CONSTANTS
  Locales,       \* the codes a config may have; the language of a code has its name
  JavaMajors,    \* what finalize_initialization finds
  MaxChanges     \* bound: changes of the locale and of the switch of the tools

English == "en"
FamousAndOldJavaMajorVersion == 8

ASSUME LocalesAssumption ==
  /\ English \in Locales /\ MaxChanges \in Nat
  /\ LET unread == {"missing", "corrupt", "scalar"} IN Locales \cap unread = {} /\ None \notin Locales \cup unread

VARIABLES
  startup,       \* how far main.ts is
  window,        \* "hidden", "shown", or "lost" when showing it has failed
  boot,          \* the config: locale, extensions and whether they come first, loadErudaDevTools
  localeFiles,   \* translations/<code>.json: the language in it, or "missing", "corrupt", "scalar"
  parsed,        \* parsed.translations of the initial state
  translations,  \* globalStates.translations, by language
  fetching,      \* the answers that watchLocaleStates waits for: number -> locale
  issued, applied,   \* numbers of the last request and of the last answer
  loader,        \* ExtensionLoader.vue: "none", "loading", "done" or "aborted"
  javaMajor,     \* GlobalInternals.javaMajor
  eruda,         \* loads under way; whether the tools are shown, and can be unloaded
  recreation,    \* pending of recreate-web-view.ts: "no", "yes", or "ever" after an error
  unread,            \* history: the file of the last answer could not be read
  changes, muddled   \* history: changes so far; a change of the switch has met a load, or one failed

localeVars == <<localeFiles, translations, fetching, issued, applied, unread>>
changeVars == <<changes, muddled>>
startVars == <<startup, window, boot, localeVars, parsed, loader, javaMajor, eruda, recreation, changeVars>>

Starting ==
  /\ startup = "starting" /\ window = "hidden" /\ parsed = None /\ translations = None
  /\ fetching = <<>> /\ issued = 0 /\ applied = 0 /\ unread = FALSE
  /\ loader = "none" /\ javaMajor = None
  /\ eruda = [loading |-> 0, shown |-> FALSE, unload |-> FALSE]

StartInit ==
  /\ Starting
  /\ boot \in [locale : Locales, extensions : BOOLEAN, after : BOOLEAN, eruda : BOOLEAN]
  /\ localeFiles \in {f \in [Locales -> Locales \cup {"missing", "corrupt", "scalar"}] : \A l \in Locales : f[l] \in Locales => f[l] \in {l, English}}
  /\ recreation = "no" /\ changes = 0 /\ muddled = FALSE

-----------------------------------------------------------------------------
(* Translations.                                                           *)

\* Mutant of Language: what is read is not looked at.
LanguageUnchecked(l) == localeFiles[l]

(* What is read of a file: a file that is not there or no JSON is written  *)
(* anew, in English; JSON that is no object is English, and stays.         *)
Language(l) == IF localeFiles[l] \in Locales THEN localeFiles[l] ELSE English
Repaired(l) == IF localeFiles[l] \in {"missing", "corrupt"} THEN [localeFiles EXCEPT ![l] = English] ELSE localeFiles

(* With the file of the initial state, or by the default locale without;   *)
(* and by the selected locale later.  A file that cannot be read, or not   *)
(* be written anew, is English, and stays; one whose existence cannot be   *)
(* looked up counts as missing, and English is written over it.            *)
getTranslations(file, selected) ==
  IF file \in Locales \cup {"scalar"}
  THEN translations' = (IF file = "scalar" THEN English ELSE file) /\ UNCHANGED <<localeFiles, unread>>
  ELSE \/ translations' = Language(selected) /\ localeFiles' = Repaired(selected) /\ unread' = FALSE
       \/ /\ translations' = English /\ unread' = TRUE
          /\ localeFiles' \in {localeFiles, [localeFiles EXCEPT ![selected] = English]}

(* watchLocaleStates runs at once, and whenever the locale changes.        *)
Request(l) ==
  /\ issued' = issued + 1
  /\ fetching' = Append(fetching, [number |-> issued + 1, locale |-> l])

(* The answers come in any order, and each is put in place.  The locale is *)
(* read before the file is, and is what it was then.                       *)
Translated(i) ==
  /\ getTranslations(None, fetching[i].locale)
  /\ applied' = fetching[i].number
  /\ fetching' = RemoveAt(fetching, i)
  /\ UNCHANGED <<startup, window, boot, parsed, issued, loader, javaMajor, eruda, recreation, changeVars>>

-----------------------------------------------------------------------------
(* main.ts.                                                                *)

\* Mutant of AfterExtensions: the switch counts without extensions, too.
AfterExtensionsAlways == boot.after

AfterExtensions == boot.extensions /\ boot.after

(* get_initial_state reads the translations of the locale in the config.   *)
start(answered) ==
  /\ startup = "starting"
  /\ IF answered THEN startup' = "reading" /\ parsed' = localeFiles[boot.locale]
     ELSE startup' = "failed" /\ UNCHANGED parsed
  /\ UNCHANGED <<window, boot, localeVars, loader, javaMajor, eruda, recreation, changeVars>>

(* The files have been read: the states, the watchers and the page are set *)
(* up without a pause, and the initialization is finished.                 *)
run ==
  /\ startup = "reading"
  /\ startup' = "showing"
  /\ getTranslations(parsed, English)
  /\ Request(boot.locale)
  /\ eruda' = [eruda EXCEPT !.loading = IF boot.eruda THEN 1 ELSE 0]
  /\ loader' = IF boot.extensions THEN "loading" ELSE "none"
  /\ UNCHANGED <<window, boot, parsed, applied, javaMajor, recreation, changeVars>>

(* Some of it throws: nothing has been mounted.                            *)
RunFails ==
  /\ startup = "reading" /\ startup' = "failed"
  /\ UNCHANGED <<window, boot, localeVars, parsed, loader, javaMajor, eruda, recreation, changeVars>>

Show(shows) == window' = IF shows THEN "shown" ELSE IF window = "shown" THEN window ELSE "lost"

(* finish: finalize_initialization has been called and works meanwhile; it *)
(* is awaited after the window was shown, and not if that fails.           *)
finish(shows) ==
  /\ startup = "showing"
  /\ IF AfterExtensions THEN startup' = "finalizing" /\ UNCHANGED window
     ELSE Show(shows) /\ startup' = IF shows THEN "finalizing" ELSE "unfinished"
  /\ UNCHANGED <<boot, localeVars, parsed, loader, javaMajor, eruda, recreation, changeVars>>

finalize_initialization(major) ==
  /\ startup = "finalizing" /\ startup' = "finished"
  /\ javaMajor' = IF major = None THEN FamousAndOldJavaMajorVersion ELSE major
  /\ UNCHANGED <<window, boot, localeVars, parsed, loader, eruda, recreation, changeVars>>

(* run().catch: the error is shown in the window.                          *)
ShowError(shows) ==
  /\ startup = "failed" /\ startup' = "over"
  /\ Show(shows)
  /\ UNCHANGED <<boot, localeVars, parsed, loader, javaMajor, eruda, recreation, changeVars>>

(* showWebviewWindow, at the end of the load of the extensions; a load     *)
(* that an error ends does not get there.                                  *)
showWindow(shows) ==
  /\ loader = "loading" /\ loader' = "done"
  /\ IF boot.after THEN Show(shows) ELSE UNCHANGED window
  /\ UNCHANGED <<startup, boot, localeVars, parsed, javaMajor, eruda, recreation, changeVars>>

LoadAborts ==
  /\ loader = "loading" /\ loader' = "aborted"
  /\ UNCHANGED <<startup, window, boot, localeVars, parsed, javaMajor, eruda, recreation, changeVars>>

-----------------------------------------------------------------------------
(* What the user does with a window that is there.                         *)
Changed == window = "shown" /\ issued > 0 /\ changes < MaxChanges /\ changes' = changes + 1

ChangeLocale(l) ==
  /\ Changed /\ l # boot.locale
  /\ boot' = [boot EXCEPT !.locale = l]
  /\ Request(l)
  /\ UNCHANGED <<startup, window, localeFiles, translations, applied, unread, parsed, loader, javaMajor, eruda, recreation, muddled>>

(* watchDevelopmentStates: switched off, the tools of the last load that   *)
(* has ended are unloaded; a load that goes on shows them after that.      *)
toggleEruda ==
  /\ Changed
  /\ boot' = [boot EXCEPT !.eruda = ~@]
  /\ eruda' = IF boot.eruda THEN [eruda EXCEPT !.shown = @ /\ ~eruda.unload] ELSE [eruda EXCEPT !.loading = @ + 1]
  /\ muddled' = (muddled \/ eruda.loading > 0)
  /\ UNCHANGED <<startup, window, localeVars, parsed, loader, javaMajor, recreation>>

loadEruda(loaded) ==
  /\ eruda.loading > 0
  /\ eruda' = IF loaded THEN [loading |-> eruda.loading - 1, shown |-> TRUE, unload |-> TRUE] ELSE [eruda EXCEPT !.loading = @ - 1]
  /\ muddled' = (muddled \/ ~loaded)
  /\ UNCHANGED <<startup, window, boot, localeVars, parsed, loader, javaMajor, recreation, changes>>

recreateWebView ==
  /\ Changed /\ recreation = "no"
  /\ recreation' = "yes"
  /\ UNCHANGED <<startup, window, boot, localeVars, parsed, loader, javaMajor, eruda, muddled>>

(* The other window is there, and this one is destroyed; the page starts   *)
(* anew in it, from the config as it was synced.                           *)
Created ==
  /\ recreation = "yes" /\ recreation' = "no"
  /\ startup' = "starting" /\ window' = "hidden" /\ parsed' = None /\ translations' = None
  /\ fetching' = <<>> /\ issued' = 0 /\ applied' = 0 /\ unread' = FALSE
  /\ loader' = "none" /\ javaMajor' = None
  /\ eruda' = [loading |-> 0, shown |-> FALSE, unload |-> FALSE]
  /\ muddled' = FALSE
  /\ UNCHANGED <<boot, localeFiles, changes>>

(* An error: the flag is left as it is, and there is no second try.        *)
CreationFails ==
  /\ recreation = "yes" /\ recreation' = "ever"
  /\ UNCHANGED <<startup, window, boot, localeVars, parsed, loader, javaMajor, eruda, changeVars>>

MainStep ==
  \/ run
  \/ \E ok \in BOOLEAN : start(ok) \/ finish(ok) \/ ShowError(ok)
LoaderStep == LoadAborts \/ \E shows \in BOOLEAN : showWindow(shows)

StartNext ==
  \/ MainStep \/ RunFails \/ LoaderStep
  \/ \E major \in JavaMajors \cup {None} : finalize_initialization(major)
  \/ \E i \in DOMAIN fetching : Translated(i)
  \/ \E l \in Locales : ChangeLocale(l)
  \/ toggleEruda \/ \E loaded \in BOOLEAN : loadEruda(loaded)
  \/ recreateWebView \/ Created \/ CreationFails

(* main.ts goes on when a command is answered, and every command is.       *)
StartFairness == WF_startVars(MainStep) /\ WF_startVars(LoaderStep)

-----------------------------------------------------------------------------
StartTypeOK ==
  /\ startup \in {"starting", "reading", "showing", "finalizing", "finished", "unfinished", "failed", "over"}
  /\ window \in {"hidden", "shown", "lost"} /\ recreation \in {"no", "yes", "ever"}
  /\ \A l \in Locales : localeFiles[l] \in Locales \cup {"missing", "corrupt", "scalar"}
  /\ startup \in {"showing", "finalizing", "finished", "unfinished"} => translations \in Locales
  /\ applied <= issued /\ \A i \in DOMAIN fetching : fetching[i].number <= issued
  /\ startup = "finished" => javaMajor \in JavaMajors \cup {FamousAndOldJavaMajorVersion}

(* The page is in the language of the locale as soon as the answer for it  *)
(* was the last to come, whatever the file was at the start, and wherever  *)
(* the first translations came from (get-translations.ts, watch-states);   *)
(* unless its file could not be read or written (handle-json-file.ts:116). *)
TranslationsFollow ==
  issued > 0 /\ applied = issued /\ ~unread => translations = Language(boot.locale)

(* The tools are there exactly if they are switched on, as long as the     *)
(* switch and a load did not cross and no load failed (watch-states.ts).   *)
ToolsAsSwitched ==
  startup \in {"finalizing", "finished"} /\ eruda.loading = 0 /\ ~muddled => eruda.shown = boot.eruda
=============================================================================
