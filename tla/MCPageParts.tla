---------------------------- MODULE MCPageParts ----------------------------
(***************************************************************************)
(* Parts of the page which share no state: a behaviour is one of any of    *)
(* them, the one in `focus'; the others stay where they began.             *)
(***************************************************************************)
EXTENDS PageParts, TLC
VARIABLE focus

-----------------------------------------------------------------------------
(* The launch pipeline: a modloader that requires the game and a library   *)
(* patch, which the game requires, too; OptiFine is required by nobody but *)
(* the entry.                                                              *)

TheRequires == [loader |-> <<"game", "optifine">>, game |-> <<>>, optifine |-> <<"game">>]
TheEntry == [l \in Launches |-> IF l = CHOOSE k \in Launches : TRUE THEN "loader" ELSE "game"]
TheFiles == {<<"patch", u>> : u \in DOMAIN TheRequires} \cup {<<"index", "loader">>}
TheDirectories == [patches |-> {"cache/uid"}, assets |-> {"indexes", "objects"}, hashes |-> {"objects/00"}]
TheInstallations ==
  {<<{}, [f \in TheFiles |-> "missing"]>>,
   <<UNION {TheDirectories[v] : v \in DOMAIN TheDirectories},
     [f \in TheFiles |-> CASE f = <<"patch", "game">> -> "stale" [] f[1] = "index" -> "corrupt" [] OTHER -> "good"]>>}

Lib(ga, version) == SpecificPatchLibrary(Coordinate(ga, version, None))
Full(lib) == [lib EXCEPT !.artifact = "central"]
On(os, action) == [os |-> os, action |-> action]
Linux == OSName("", "linux", "")
Osx == OSName("", "osx", "")
NotOnOsx(lib) == [lib EXCEPT !.rules = <<On(None, "allow"), On(Osx, "disallow"), On(OSName("", "osx", "arm64"), "disallow")>>]
Old(lib) == [lib EXCEPT !.classifiers = <<OSName("natives", "windows", "${arch}"), OSName("natives", "linux", ""), OSName("natives", "osx", "arm64")>>]
New(ga, os) == [Full(SpecificPatchLibrary(Coordinate(ga, 1, os))) EXCEPT !.native = TRUE]
Jar(uid) == [whole |-> TRUE, path |-> ArtifactPath(Coordinate("client", 1, None), "")]

Catalog(bundled, gameLibraries, loaderLibraries) ==
  [loader |-> [SpecificPatchMeta("loader") EXCEPT !.requires = TheRequires.loader, !.libraries = loaderLibraries,
                 !.mavenFiles = <<Full(Lib("asm", 3))>>, !.mainClass = "Loader", !.tweakers = <<"Tweaker">>],
   game |-> [SpecificPatchMeta("game") EXCEPT !.requires = TheRequires.game, !.libraries = gameLibraries, !.mainJar = Jar("game"),
               !.mainClass = "Main", !.minecraftArguments = <<Value("--accessToken"), Placeholder("auth_access_token")>>,
               !.traits = <<"FirstThreadOnMacOS">>, !.assetIndex = "1.8",
               !.logging = [whole |-> TRUE, id |-> "client.xml"]],
   optifine |-> generateOptiFinePatch("optifine", "game", 1, bundled)]

OldGame == Catalog(TRUE, <<Full(Lib("asm", 1)), Lib("guava", 1), Old(Full(Lib("lwjgl", 1)))>>, <<[Lib("asm", 2) EXCEPT !.base = "maven"]>>)
NewGame == Catalog(FALSE, <<Full(Lib("guava", 1)), New("netty", Linux), NotOnOsx(Old(Lib("twitch", 1))), [Lib("x", 1) EXCEPT !.name = None]>>,
                   <<NotOnOsx(Lib("guava", 2)), Full(Lib("asm", 1))>>)
OddGame == Catalog(TRUE, <<New("epoll", OSName("", "linux", "mips"))>>, <<>>)
TheInputs ==
  {<<<<"macos", "aarch64">>, OldGame>>, <<<<"linux", "riscv64">>, NewGame>>, <<<<"windows", "x86">>, NewGame>>,
   <<<<"windows", "x86_64">>, OddGame>>, <<<<"android", "arm">>, OldGame>>}

-----------------------------------------------------------------------------
(* Modloaders, with the game each version needs, and two modpacks.         *)
Published1(version, needs) == [version |-> version, needs |-> needs]
ThePublished == (Fabric :> {Published1("f1", None)}) @@ ("forge" :> {Published1("o1", "g1"), Published1("o2", "g2")})
TheManifests ==
  [fabrics |-> [game |-> "g1", loader |-> Fabric, version |-> Published1("f1", None)],
   forges  |-> [game |-> "g2", loader |-> "forge", version |-> Published1("o2", "g2")]]

(* Modpacks by what is searched: some pages without filters, then fewer.   *)
TheTerms == {"", "t"}
TheFilterValues == [gameVersions |-> {"g1"}, loaders |-> {Fabric}]
TheHits(facets) ==
  CASE facets.text # "" -> IF facets.loaders = {} THEN 1 ELSE 0
    [] facets.gameVersions # {} -> 3
    [] OTHER -> 5

(* What the user types, picks and finds in the settings.                  *)
TheTexts ==
  [number |-> {<<>>, <<"1">>, <<"x">>}, memory |-> {<<>>, <<"0">>, <<"1">>},
   arguments |-> {<<"a", Quote, "b", Space, "c", Quote>>, <<"a", Space, "-Xmx", "2", "g">>}]
    @@ ("text or nothing" :> {<<>>, <<"t">>}) @@ ("color" :> {<<"#">>})
ThePicked == {<<"f">>}
TheDetected == {{[path |-> "/a", source |-> "environment"], [path |-> "/b", source |-> "system"]}}
TheFound == <<"en", "ru">>

-----------------------------------------------------------------------------
Unless(other, atRest) == focus # other => atRest

Init ==
  /\ focus \in {"pipeline", "sign-in", "draft", "settings", "start", "servers", "search"}
  /\ PipelineInit    /\ Unless("pipeline", made = {})
  /\ SignInInit
  /\ DraftInit       /\ Unless("draft", patch = Minecraft)
  /\ SettingsInit
  /\ StartInit       /\ Unless("start", boot = [locale |-> English, extensions |-> FALSE, after |-> FALSE, eruda |-> FALSE]
                                          /\ \A l \in Locales : localeFiles[l] = "missing")
  /\ ServersInit
  /\ SearchInit

vars == <<focus, pipelineVars, signInVars, draftVars, settingsVars, startVars, serverVars, searchVars>>

Next ==
  /\ UNCHANGED focus
  /\ \/ focus = "pipeline" /\ PipelineNext
     \/ focus # "pipeline" /\ UNCHANGED pipelineVars
  /\ \/ focus = "sign-in" /\ SignInNext
     \/ focus # "sign-in" /\ UNCHANGED signInVars
  /\ \/ focus = "draft" /\ DraftNext
     \/ focus # "draft" /\ UNCHANGED draftVars
  /\ \/ focus = "settings" /\ SettingsNext
     \/ focus # "settings" /\ UNCHANGED settingsVars
  /\ \/ focus = "start" /\ StartNext
     \/ focus # "start" /\ UNCHANGED startVars
  /\ \/ focus = "servers" /\ ServersNext
     \/ focus # "servers" /\ UNCHANGED serverVars
  /\ \/ focus = "search" /\ SearchNext
     \/ focus # "search" /\ UNCHANGED searchVars

(* PipelineFairness, SignInFairness and StartFairness, of the part in      *)
(* focus.                                                                  *)
Spec ==
  /\ Init /\ [][Next]_vars
  /\ \A l \in Launches : WF_pipelineVars(focus = "pipeline" /\ LaunchStep(l))
  /\ WF_signInVars(focus = "sign-in" /\ CallAnswered)
  /\ WF_signInVars(focus = "sign-in" /\ Timeout)
  /\ WF_startVars(focus = "start" /\ MainStep)
  /\ WF_startVars(focus = "start" /\ LoaderStep)

-----------------------------------------------------------------------------
(* The window, created hidden, is shown in the end, by main.ts, by its     *)
(* handler of errors or by the loader of the extensions; unless showing it *)
(* fails, or an error ends that load (finish.ts, ExtensionLoader.vue).     *)
WindowIsShown == focus = "start" /\ window = "hidden" ~> window # "hidden" \/ loader = "aborted"
=============================================================================
