--------------------------- MODULE InstanceDraft ---------------------------
(***************************************************************************)
(* The page on which an instance is put together: one draft, which every   *)
(* input replaces by an edited copy, and which an imported modpack         *)
(* replaces whenever its manifest has been read.  The lists of versions    *)
(* are fetched, and kept by what they were fetched for.  Creating an       *)
(* instance takes the draft and, of a modpack, begins the installation,    *)
(* which goes on while another instance is being put together.  Names are  *)
(* left out: nothing depends on them.                                      *)
(***************************************************************************)
EXTENDS Undefined, Naturals, SequencesExt, Functions

CONSTANTS
  Games,          \* versions of Minecraft
  DefaultGame,    \* the one a draft begins with
  Published,      \* [modloader -> its versions, each with the game it needs, or None]
  Manifests,      \* [archive -> its manifest, or None for a plain zip]
  FromModrinth,   \* the archives that are downloaded, and not picked on the disk
  MaxInstances    \* bound: instances created, after which the user chooses nothing more

Minecraft == "net.minecraft"
Fabric == "net.fabricmc.fabric-loader"
Intermediary == "net.fabricmc.intermediary"

(* What is published fits together: a modpack declares a version of its    *)
(* loader that runs with its game.  (Nothing in the code looks at that.)   *)
ASSUME DraftAssumption ==
  /\ DefaultGame \in Games
  /\ None \notin DOMAIN Manifests
  /\ Minecraft \notin DOMAIN Published
  /\ \A a \in DOMAIN Manifests : LET manifest == Manifests[a] IN
       manifest # None =>
         /\ manifest.game \in Games \cup {None}
         /\ manifest.loader \in DOMAIN Published \cup {None}
         /\ manifest.game # None /\ manifest.loader # None => manifest.version.needs \in {None, manifest.game}

VARIABLES
  draft,        \* globalStates.pages["add-instance"].instance
  patch,        \* instanceVersionSearch.patch: what the instance will start with
  imported,     \* importedModpack
  place,        \* the page or tab that is shown
  listed,       \* the version list that was fetched last: its key and its versions
  importing,    \* where the import of each archive is
  instances,    \* instanceStates, in order of creation
  installing,   \* the created instances whose modpack is being installed
  untouched     \* history: the archive whose versions the draft has as they were, or None

createdVars == <<instances, installing>>
draftVars == <<draft, patch, imported, place, listed, importing, createdVars, untouched>>

OnlyGame(game) == [uid \in {Minecraft} |-> game]
WithVersion(versions, uid, version) ==
  [u \in DOMAIN versions \cup {uid} |-> IF u = uid THEN version ELSE versions[u]]
NoDraft == OnlyGame(DefaultGame)
NoList == [key |-> <<None, None>>, versions |-> {}]

(* extractSavedFromPages                                                   *)
Current == IF draft = None THEN NoDraft ELSE draft

(* The patch stays what it was for the instance before.                    *)
DraftInit ==
  /\ patch \in {Minecraft} \cup DOMAIN Published
  /\ draft = None /\ imported = None /\ untouched = None
  /\ place = "clean" /\ listed = NoList
  /\ importing = [a \in DOMAIN Manifests |-> "idle"]
  /\ instances = <<>> /\ installing = {}

Choosing == Len(instances) < MaxInstances

Navigate(new) ==
  /\ Choosing /\ place # new
  /\ place' = new
  /\ UNCHANGED <<draft, patch, imported, listed, importing, createdVars, untouched>>

-----------------------------------------------------------------------------
(* Versions.                                                               *)

(* A version that needs another game is left out.                          *)
fetchAllVersions(uid, game) ==
  IF uid = Minecraft THEN Games ELSE {v \in Published[uid] : v.needs \in {None, game}}

(* What a version list is fetched, and kept, for.                          *)
queryKey(uid) == <<uid, IF uid = Minecraft THEN None ELSE Current[Minecraft]>>

(* The data of another key is not shown, but fetched or taken from what is *)
(* kept; either way it is what was published for the key.                  *)
FetchVersions(uid) ==
  /\ Choosing /\ place = "clean" /\ uid \in {patch, Minecraft} /\ listed.key # queryKey(uid)
  /\ listed' = [key |-> queryKey(uid), versions |-> fetchAllVersions(uid, Current[Minecraft])]
  /\ UNCHANGED <<draft, patch, imported, place, importing, createdVars, untouched>>

\* Mutant of handledPatchVersions: another game leaves the modloaders.
KeepModloaders(uid, version) == WithVersion(Current, uid, version)

(* Another game leaves no version of a modloader behind.                   *)
handledPatchVersions(uid, version) ==
  IF uid = Minecraft THEN OnlyGame(version) ELSE WithVersion(Current, uid, version)

(* The badge of the game opens its list even when a modloader is chosen.   *)
selectVersion(uid, version) ==
  /\ Choosing /\ place = "clean" /\ uid \in {patch, Minecraft}
  /\ listed.key = queryKey(uid) /\ version \in listed.versions
  /\ draft' = handledPatchVersions(uid, version)
  /\ untouched' = None
  /\ UNCHANGED <<patch, imported, place, listed, importing, createdVars>>

(* The buttons are out of the pointer's reach once a modpack is imported,  *)
(* but not of the keyboard's.                                              *)
handlePatch(uid) ==
  /\ Choosing /\ place = "clean" /\ uid # patch
  /\ patch' = uid /\ untouched' = None
  /\ UNCHANGED <<draft, imported, place, listed, importing, createdVars>>

resetPageStates ==
  /\ place # "library" /\ imported # None
  /\ imported' = None /\ patch' = Minecraft /\ untouched' = None
  /\ draft' = NoDraft
  /\ UNCHANGED <<place, listed, importing, createdVars>>

-----------------------------------------------------------------------------
(* Modpacks.                                                               *)

ImportAt(archive, at) == importing' = [importing EXCEPT ![archive] = at]

(* Leaving the tab and coming back makes buttons that know nothing of the  *)
(* imports under way, so that several may be.                              *)
handleImport(archive) ==
  /\ Choosing /\ place = "modrinth" /\ importing[archive] = "idle"
  /\ ImportAt(archive, IF archive \in FromModrinth THEN "fetch" ELSE "peek")
  /\ UNCHANGED <<draft, patch, imported, place, listed, createdVars, untouched>>

(* The archive of Modrinth's answer is written to the cache.               *)
Downloaded(archive) ==
  /\ importing[archive] = "fetch"
  /\ ImportAt(archive, "peek")
  /\ UNCHANGED <<draft, patch, imported, place, listed, createdVars, untouched>>

ImportFails(archive) ==
  /\ importing[archive] # "idle"
  /\ ImportAt(archive, "idle")
  /\ UNCHANGED <<draft, patch, imported, place, listed, createdVars, untouched>>

resolvePatchVersions(manifest) ==
  IF manifest.game = None THEN None
  ELSE IF manifest.loader = None THEN OnlyGame(manifest.game)
  ELSE WithVersion(OnlyGame(manifest.game), manifest.loader, manifest.version)

(* A modpack whose loader is not known keeps the patch that was chosen.    *)
applyManifest(archive) ==
  LET manifest == Manifests[archive]
      versions == IF manifest = None THEN None ELSE resolvePatchVersions(manifest)
      loader == IF versions = None THEN None ELSE manifest.loader
  IN /\ imported' = [path |-> archive, loader |-> IF loader = None THEN Minecraft ELSE loader]
     /\ draft' = IF manifest = None THEN draft ELSE IF versions = None THEN Current ELSE versions
     /\ patch' = IF loader = None THEN patch ELSE loader
     /\ untouched' = IF loader = None THEN None ELSE archive

(* A download without a manifest is given up; an archive of the disk that  *)
(* has none is imported as a plain zip.  The first tab is selected.        *)
peekMrpack(archive) ==
  /\ importing[archive] = "peek"
  /\ archive \in FromModrinth => Manifests[archive] # None
  /\ ImportAt(archive, "idle")
  /\ applyManifest(archive)
  /\ place' = IF place = "modrinth" THEN "clean" ELSE place
  /\ UNCHANGED <<listed, createdVars>>

-----------------------------------------------------------------------------
(* Creation.                                                               *)

(* Fabric gets its mappings, of the game's version, too.                   *)
toAdd(versions) ==
  IF patch = Fabric
  THEN WithVersion(versions, Intermediary, [version |-> versions[Minecraft], needs |-> versions[Minecraft]])
  ELSE versions

(* Refused without a version of the patch.  The draft is gone, the library *)
(* is shown, and the installation of the modpack begins.                   *)
handleCreate ==
  /\ Choosing /\ place = "clean" /\ patch \in DOMAIN Current
  /\ instances' = Append(instances,
                    [versions |-> toAdd(Current), entry |-> patch,
                     modpack |-> IF imported = None THEN None ELSE imported.path,
                     asImported |-> imported # None /\ untouched = imported.path])
  /\ installing' = installing \cup IF imported = None THEN {} ELSE {Len(instances')}
  /\ draft' = None /\ imported' = None /\ untouched' = None /\ place' = "library"
  /\ UNCHANGED <<patch, listed, importing>>

(* It ends, whether it succeeded, failed or was cancelled.                 *)
installMrpack(i) ==
  /\ i \in installing
  /\ installing' = installing \ {i}
  /\ UNCHANGED <<draft, patch, imported, place, listed, importing, instances, untouched>>

DraftNext ==
  \/ resetPageStates \/ handleCreate
  \/ \E new \in {"clean", "modrinth", "library"} : Navigate(new)
  \/ \E uid \in {Minecraft} \cup DOMAIN Published :
       handlePatch(uid) \/ FetchVersions(uid) \/ \E v \in listed.versions : selectVersion(uid, v)
  \/ \E a \in DOMAIN Manifests : handleImport(a) \/ Downloaded(a) \/ ImportFails(a) \/ peekMrpack(a)
  \/ \E i \in installing : installMrpack(i)

-----------------------------------------------------------------------------
(* Properties.                                                             *)

DraftTypeOK ==
  /\ place \in {"clean", "modrinth", "library"} /\ patch \in {Minecraft} \cup DOMAIN Published
  /\ Current[Minecraft] \in Games
  /\ \A i \in DOMAIN instances : instances[i].versions[Minecraft] \in Games
  /\ installing \subseteq DOMAIN instances
  /\ \A a \in DOMAIN Manifests : importing[a] \in {"idle", "fetch", "peek"}

(* Every version of a modloader, in the draft and in what was created, was *)
(* published for the Minecraft version next to it, in whatever order the   *)
(* two were chosen and replaced by an import or a reset                    *)
(* (handledPatchVersions; the keys of the version lists).                  *)
LoaderFitsGame ==
  \A versions \in {Current} \cup {instances[i].versions : i \in DOMAIN instances} :
    \A uid \in DOMAIN versions \ {Minecraft} : versions[uid].needs \in {None, versions[Minecraft]}

(* An instance made of a modpack whose versions nobody touched starts with *)
(* the modpack's loader and has its versions, whichever imports were under *)
(* way at the time (applyManifest, handleCreate).                          *)
ModpackAsImported ==
  \A i \in DOMAIN instances : instances[i].asImported =>
    LET manifest == Manifests[instances[i].modpack]
        versions == resolvePatchVersions(manifest)
    IN /\ instances[i].entry = manifest.loader
       /\ \A uid \in DOMAIN versions : instances[i].versions[uid] = versions[uid]

InstancesAsChosen == LoaderFitsGame /\ ModpackAsImported
=============================================================================
