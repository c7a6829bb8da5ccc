------------------------------ MODULE PageParts ------------------------------
(***************************************************************************)
(* Parts of the page: how it starts and signs in, the instances that are   *)
(* put together and launched on it, its settings, its search, and the      *)
(* servers of its extensions.  These parts share no state; what they       *)
(* promise together is stated here.                                        *)
(***************************************************************************)
EXTENDS LaunchPipeline, SignIn, InstanceDraft, SettingsRows, PageStart, ExtensionServers, ModpackSearch

PagePartsTypeOK ==
  /\ PipelineTypeOK /\ SignInTypeOK /\ DraftTypeOK
  /\ SettingsTypeOK /\ StartTypeOK /\ ServersTypeOK /\ SearchTypeOK

(* When its parts are quiet, the page shows what was chosen: the tab that  *)
(* was clicked last and each locale once, translations of the locale,      *)
(* tools and servers that are there, and modpacks as they are filtered     *)
(* (Tabs.vue, UserInterfaceSettings.vue, watch-states.ts, servers.ts,      *)
(* ModrinthInstance.vue).  And the launches that it starts write nothing   *)
(* to a directory that is not there (ensure-patch-directories.ts).         *)
PageIsSettled ==
  /\ TabAsSelected /\ LocalesListedOnce /\ TranslationsFollow /\ ToolsAsSwitched
  /\ ServersAsRunning /\ ServedWhole /\ SearchAsFiltered /\ DirectoriesReady

(* What is stored is what a field shows, if its text is one that is kept;  *)
(* and a command has every library once, in the version of the patch       *)
(* nearest to the entry (CustomInput.vue, resolve-sub-patches.ts,          *)
(* finalize-patches.ts).                                                   *)
ValuesAsMeant == StoredAsTyped /\ CommandIsMerged
=============================================================================
