---------------------------- MODULE MCHostParts ----------------------------
(***************************************************************************)
(* The parts that the page is surrounded with share no state: a behaviour  *)
(* is one of any of them, the one in `focus'; the others stay where they   *)
(* began.                                                                  *)
(***************************************************************************)
EXTENDS HostParts, TLC
VARIABLE focus

-----------------------------------------------------------------------------
(* The files of the replica: what is stored, and the calls that are made.  *)

NoCall == [op |-> "write", path |-> <<>>, to |-> <<>>, value |-> "empty", archives |-> <<>>, prefixes |-> {}]
TheCalls ==
  {[NoCall EXCEPT !.op = "rename", !.path = <<"mods">>, !.to = <<"old">>],
   [NoCall EXCEPT !.op = "rename", !.path = <<"old", "/", "a">>, !.to = <<"mods", "2">>],
   [NoCall EXCEPT !.op = "write", !.path = <<"mods", "/", "a">>, !.value = "v3"],
   [NoCall EXCEPT !.op = "pick", !.path = <<"mods", "2">>, !.value = "v4"],
   [NoCall EXCEPT !.op = "remove", !.path = <<"mods">>],
   [NoCall EXCEPT !.op = "unzip", !.to = <<"mods">>, !.archives = <<<<"z">>, <<"ext", "/", "x", ".zip">>>>, !.prefixes = {<<"META">>}],
   [NoCall EXCEPT !.op = "mrpack", !.to = <<"mods">>, !.archives = <<<<"z">>>>, !.prefixes = {<<"over", "/">>}]}
ZipEntry(name) == [name |-> name, isDirectory |-> FALSE, isCorrupt |-> FALSE, value |-> "v5"]
TheArchives ==
  [zip |-> <<ZipEntry(<<"index.json">>), [ZipEntry(<<"over", "/">>) EXCEPT !.isDirectory = TRUE], ZipEntry(<<"over", "/", "a">>), ZipEntry(<<"..", "/", "a">>),
             [ZipEntry(<<"over", "/", "b">>) EXCEPT !.isCorrupt = TRUE]>>,
   ext |-> <<ZipEntry(<<"metadata">>), ZipEntry(<<"index">>)>>]
TheStored ==
  (<<"old", "/", "a">> :> "v7") @@ (<<"mods", "/", "a">> :> "v1") @@ (<<"mods", "/", "b">> :> "v2") @@ (<<"z">> :> "zip") @@ (<<"ext", "/", "x", ".zip">> :> "ext")

(* The lines of a log, a character at a time, and what is looked for.      *)
Long == <<"1", "|", "a", "|", "b", "a", "a", "|", "a", "a", "a">>
Short == <<"b", "a", "a">>
TheLines == {Long, Short}
TheFilters == [all |-> TheLines, some |-> {Short}]
TheNeedles == {<<<<"a", "a">>, TRUE>>, <<<<"a", "a">>, FALSE>>}
TheSizes == {<<1, 2, 2>>}

(* Extensions, and what they ask for.                                      *)
TheOrder == <<"box", "free">>
URL(origin, path) == [origin |-> origin, path |-> path]
Get == <<"internet", "http-get", URL("a", <<"x">>)>>
Post == <<"internet", "http-post", URL("a", <<"">>)>>
TheWanted ==
  [a1 |-> <<<<"time", "date">>, Get>>, a2 |-> <<Get, <<"log", "read">>, <<"junk">>>>,
   b1 |-> <<Post, <<"internet", "http-get">>, <<"internal-storage", "read">>>>]
TheURLs == {URL("a", <<"x">>), URL("a", <<"x", "y">>), URL("a", <<"">>), URL("b", <<"x">>)}
TheRequester == [a1 |-> "a", a2 |-> "a", b1 |-> "b"]

-----------------------------------------------------------------------------
Unless(other, atRest) == focus # other => atRest

PartsInit ==
  /\ focus \in {"artifact", "storage", "downloads", "channels", "log stream", "log view", "wails", "extensions", "permissions"}
  /\ Init
  /\ StorageInit     /\ Unless("storage", {c \in Calls : call[c].at # "never"} = CHOOSE k \in kSubset(AtOnce, Calls) : TRUE)
  /\ ReplicaInit /\ ChannelsInit
  /\ LogStreamInit   /\ Unless("log stream", preview)
  /\ LogViewInit     /\ Unless("log view", filtering = "all" /\ partsSize = <<1, 2, 2>>)
  /\ WailsInit
  /\ HostInit        /\ Unless("extensions", \A e \in Extensions : enabled[e] = None)
  /\ PermissionsInit

partsVars == <<focus, vars, storageVars, replicaVars, channelVars, logStreamVars, logViewVars, wailsVars,
               extensionVars, permissionVars>>

PartsNext ==
  /\ UNCHANGED focus
  /\ \/ focus = "artifact" /\ Next
     \/ focus # "artifact" /\ UNCHANGED vars
  /\ \/ focus = "storage" /\ StorageNext
     \/ focus # "storage" /\ UNCHANGED storageVars
  /\ \/ focus = "downloads" /\ ReplicaNext
     \/ focus # "downloads" /\ UNCHANGED replicaVars
  /\ \/ focus = "channels" /\ ChannelsNext
     \/ focus # "channels" /\ UNCHANGED channelVars
  /\ \/ focus = "log stream" /\ LogStreamNext
     \/ focus # "log stream" /\ UNCHANGED logStreamVars
  /\ \/ focus = "log view" /\ LogViewNext
     \/ focus # "log view" /\ UNCHANGED logViewVars
  /\ \/ focus = "wails" /\ WailsNext
     \/ focus # "wails" /\ UNCHANGED wailsVars
  /\ \/ focus = "extensions" /\ HostNext
     \/ focus # "extensions" /\ UNCHANGED extensionVars
  /\ \/ focus = "permissions" /\ PermissionsNext
     \/ focus # "permissions" /\ UNCHANGED permissionVars

PartsSpec == PartsInit /\ [][PartsNext]_partsVars

=============================================================================
