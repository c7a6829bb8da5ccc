---------------------------- MODULE PatchMetadata ----------------------------
(***************************************************************************)
(* What a launch makes of the metadata of patches: which libraries and     *)
(* natives fit the machine, how the patches of an instance are merged, and *)
(* the command that comes out.  Pure functions of the parsers/ and         *)
(* arguments/ folders; extensions that answer in their place are left to   *)
(* the modules that call these operators.                                  *)
(*                                                                         *)
(* A library's name is a coordinate; a file is named by its coordinate, an *)
(* argument is a token or a placeholder, and None is "undefined".          *)
(***************************************************************************)
EXTENDS Undefined, Naturals, Sequences, FiniteSets, SequencesExt

-----------------------------------------------------------------------------
(* Platforms.  An OS name is a prefix, an operating system and an arch.    *)

OSName(prefix, os, arch) == [prefix |-> prefix, os |-> os, arch |-> arch]

\* The names unifyPlatformWithArch has a case for; it throws at any other.
Handled(name) ==
  LET words == {"x64", "x86_64", "64", "x86", "32"} IN
  name.arch \in
    CASE name.prefix = "" /\ name.os = "linux"   -> {"", "arm32", "riscv64", "arm64", "x64", "aarch_64", "x86_64"}
      [] name.prefix = "" /\ name.os = "windows" -> {"", "arm32", "arm64", "x64", "aarch_64", "x86_64"}
      [] name.prefix = "" /\ name.os = "osx"     -> {"", "arm64", "aarch_64", "x86_64"}
      [] name.prefix = "" /\ name.os = "mac-os"  -> {"arm64", "x64"}
      [] name.prefix = "natives" /\ name.os \in {"linux", "windows"} -> words \cup {"", "${arch}", "arm32", "arm64"}
      [] name.prefix = "natives" /\ name.os \in {"osx", "macos"}     -> words \cup {"", "${arch}", "arm64"}
      [] OTHER -> {}

unifyPlatformWithArch(name) ==
  [platform |-> IF name.os \in {"osx", "macos", "mac-os"} THEN "macos" ELSE name.os,
   arch     |-> CASE name.arch \in {"", "${arch}"} -> "any"
                  [] name.arch \in {"arm64", "riscv64", "aarch_64"} -> "arm64"
                  [] name.arch \in {"x64", "x86_64", "64"} -> "x64"
                  [] name.arch \in {"x86", "32"} -> "x86"
                  [] OTHER -> name.arch]

\* A machine as Tauri names it; None when the launcher does not run on it.
CompatibleMachine(platform, arch) ==
  LET known == [x86 |-> "x86", x86_64 |-> "x64", arm |-> "arm32", aarch64 |-> "arm64", riscv64 |-> "arm64"]
  IN IF platform \in {"linux", "windows", "macos"} /\ arch \in DOMAIN known
     THEN [platform |-> platform, arch |-> known[arch]] ELSE None

-----------------------------------------------------------------------------
(* One library.                                                            *)

Coordinate(ga, version, classifier) == [ga |-> ga, version |-> version, classifier |-> classifier]

\* A library that names nothing but itself; others are made from it with EXCEPT.
SpecificPatchLibrary(name) ==
  [name |-> name, hint |-> FALSE, base |-> None, artifact |-> None, classifiers |-> None,
   rules |-> None, native |-> FALSE]

\* normalizeArtifactPath: `native` says that the name has that word in it.
ArtifactPath(name, suffix) == <<name, suffix>>

\* A rule speaks of a machine of its platform: without an arch, of the x86 ones only.
handlePlatformRule(machine, rule, current) ==
  LET unified == unifyPlatformWithArch(rule.os)
      fits == /\ unified.platform = machine.platform
              /\ \/ unified.arch = machine.arch
                 \/ unified.arch = "any" /\ machine.arch \in {"x64", "x86"}
  IN IF fits THEN rule.action # "disallow" ELSE current

\* The last rule that applies decides; with rules, the answer starts at "no".
shouldIncludeLibrary(machine, library) ==
  \/ library.rules = None
  \/ library.rules # None
     /\ FoldLeft(LAMBDA current, rule :
                   IF rule.os = None THEN rule.action = "allow" ELSE handlePlatformRule(machine, rule, current),
                 FALSE, library.rules)

checkIsNative(library) == library.classifiers # None \/ library.native

MappedArtifact(id, status, path, source, hashed) ==
  [id |-> id, status |-> status, path |-> path, source |-> source, hashed |-> hashed, first |-> FALSE]

\* The artifact of a library, or nothing; only a full description is verified by its hash.
parseLibrary(library, isMaven) ==
  LET status == IF isMaven THEN "mavenFile" ELSE "library"
      path   == ArtifactPath(library.name, "")
      as(kind, source, hashed) == <<MappedArtifact(<<library.name.ga>>, kind, path, source, hashed)>>
  IN CASE library.hint -> as(status, "local", library.artifact # None)
       [] ~library.hint /\ library.base = None /\ library.artifact = None /\ library.classifiers = None
            -> as("library", "Libraries.Base", FALSE)
       [] ~library.hint /\ library.base # None -> as(status, library.base, FALSE)
       [] ~library.hint /\ library.base = None /\ library.artifact # None -> as(status, library.artifact, TRUE)
       [] OTHER -> <<>>

Compatible(machine, name) ==
  LET unified == unifyPlatformWithArch(name)
  IN unified.platform = machine.platform /\ unified.arch \in {"any", machine.arch}

\* Old natives list classifiers, and the first that fits is taken; new ones are libraries of their own.
parseNative(machine, library) ==
  LET id == <<library.name, "natives">>
      artifact == <<MappedArtifact(id, "native", ArtifactPath(library.name, ""), library.artifact, TRUE)>>
      fitting  == SelectSeq(library.classifiers, LAMBDA name : Compatible(machine, name))
  IN CASE library.classifiers = None /\ library.artifact # None
            -> IF library.name.classifier = None \/ Compatible(machine, library.name.classifier)
               THEN artifact ELSE <<>>
       [] library.classifiers # None /\ fitting # <<>>
            -> <<MappedArtifact(id, "native", ArtifactPath(library.name, machine.platform), Head(fitting), TRUE)>>
       [] OTHER -> <<>>

\* A library without a name is left out.
parseLibraries(machine, libraries, isMaven) ==
  LET included == SelectSeq(libraries, LAMBDA l : l.name # None /\ shouldIncludeLibrary(machine, l))
  IN FlattenSeq([i \in DOMAIN included |->
       parseLibrary(included[i], isMaven)
         \o (IF checkIsNative(included[i]) THEN parseNative(machine, included[i]) ELSE <<>>)])

-----------------------------------------------------------------------------
(* One patch.  Fields that are not given are None, or empty.               *)

SpecificPatchMeta(uid) ==
  [uid |-> uid, requires |-> <<>>, mavenFiles |-> <<>>, libraries |-> <<>>, plusLibraries |-> <<>>,
   jvmArgs |-> <<>>, traits |-> <<>>, tweakers |-> <<>>,
   mainClass |-> None, minecraftArguments |-> None, assetIndex |-> None, type |-> None,
   logging |-> None, mainJar |-> None]

\* The patch that is made from a jar of OptiFine, with the launchwrapper that was in it or the vanilla one.
generateOptiFinePatch(uid, minecraft, version, bundled) ==
  LET described(name) == [SpecificPatchLibrary(name) EXCEPT !.artifact = "BMCLAPI"]
      wrapper == IF bundled THEN [described(Coordinate("launchwrapper", "of", None)) EXCEPT !.hint = TRUE]
                 ELSE SpecificPatchLibrary(Coordinate("launchwrapper", "1.12", None))
  IN [SpecificPatchMeta(uid) EXCEPT
        !.mainClass = "net.minecraft.launchwrapper.Launch", !.tweakers = <<"optifine.OptiFineTweaker">>,
        !.requires = <<minecraft>>, !.plusLibraries = <<wrapper, described(Coordinate("OptiFine", version, None))>>]

\* parseLogging and parseMainJar: a description that lacks the file, its url or its hash is none.
parseLogging(patch) == IF patch.logging # None /\ patch.logging.whole THEN patch.logging ELSE None
parseMainJar(patch) == IF patch.mainJar # None /\ patch.mainJar.whole THEN patch.mainJar ELSE None

\* Names that the parsers throw at: the launch ends with an error.  Classifiers are read up to the one that fits.
ThrowsAt(machine, library) ==
  LET fits(i) == Handled(library.classifiers[i]) /\ Compatible(machine, library.classifiers[i])
  IN /\ library.name # None
     /\ \/ library.rules # None /\ \E r \in ToSet(library.rules) : r.os # None /\ ~Handled(r.os)
        \/ shouldIncludeLibrary(machine, library)
           /\ \/ library.name.version = None
              \/ library.classifiers # None
                 /\ \E i \in DOMAIN library.classifiers :
                      ~Handled(library.classifiers[i]) /\ \A j \in 1..(i - 1) : ~fits(j)
              \/ /\ library.classifiers = None /\ library.native /\ library.artifact # None
                 /\ library.name.classifier # None /\ ~Handled(library.name.classifier)

Throws(machine, patch) ==
  \E library \in ToSet(patch.mavenFiles \o patch.libraries \o patch.plusLibraries) : ThrowsAt(machine, library)

-----------------------------------------------------------------------------
(* Merging: `patches` go from parents to dependencies, and are applied the *)
(* other way round.                                                        *)

\* Mutant of PutArtifact: the older one stays.
PutOnce(map, artifact) ==
  IF \E i \in DOMAIN map : map[i].id = artifact.id THEN map ELSE Append(map, artifact)

\* A JavaScript Map keeps the place of a key that is set again.
PutArtifact(map, artifact) ==
  IF \E i \in DOMAIN map : map[i].id = artifact.id
  THEN [i \in DOMAIN map |->
          IF map[i].id # artifact.id THEN map[i]
          ELSE IF map[i].status \in {"library", "empty"} THEN [artifact EXCEPT !.status = map[i].status]
          ELSE artifact]
  ELSE Append(map, artifact)

addArtifactsToMap(machine, map, libraries, isFirst) ==
  FoldLeft(LAMBDA m, a : PutArtifact(m, [a EXCEPT !.first = isFirst]),
           map, parseLibraries(machine, libraries, FALSE))

Placeholder(key) == [placeholder |-> key]
Value(text) == [text |-> text]

Given(value, default) == IF value = None THEN default ELSE value

\* Without arguments the empty string is split, which gives one empty argument.
Unpatched ==
  [jvmArgs |-> <<>>, traits |-> <<>>, tweakers |-> <<>>, mavenFiles |-> <<>>, unique |-> <<>>,
   mainClass |-> "net.minecraft.client.Minecraft", minecraftArguments |-> <<Value("")>>,
   assetIndex |-> None, type |-> None, client |-> None, logging |-> None]

AddPatch(machine, built, patch) ==
  [jvmArgs    |-> built.jvmArgs \o patch.jvmArgs,
   traits     |-> built.traits \o patch.traits,
   tweakers   |-> built.tweakers \o patch.tweakers,
   mavenFiles |-> built.mavenFiles \o parseLibraries(machine, patch.mavenFiles, TRUE),
   unique     |-> addArtifactsToMap(machine, addArtifactsToMap(machine, built.unique, patch.libraries, FALSE),
                                    patch.plusLibraries, TRUE),
   mainClass  |-> Given(patch.mainClass, built.mainClass),
   minecraftArguments |-> Given(patch.minecraftArguments, built.minecraftArguments),
   assetIndex |-> Given(patch.assetIndex, built.assetIndex),
   type       |-> Given(patch.type, built.type),
   logging    |-> Given(parseLogging(patch), built.logging),
   client     |-> Given(parseMainJar(patch), built.client)]

finalizePatches(machine, patches) ==
  FoldLeft(LAMBDA built, patch : AddPatch(machine, built, patch), Unpatched, Reverse(patches))

Artifacts(finalized) == finalized.mavenFiles \o finalized.unique

\* The archives that handleLaunch has unpacked.
Natives(finalized) == SelectSeq(Artifacts(finalized), LAMBDA a : a.status = "native")

-----------------------------------------------------------------------------
(* The command.                                                            *)

\* What `first` marks goes to the front, each before the ones already there; paths are unique.
ClassPath(finalized) ==
  LET listed == SelectSeq(Artifacts(finalized), LAMBDA a : a.status \in {"library", "empty"})
      placed == FoldLeft(LAMBDA path, a : IF a.first THEN <<a.path>> \o path ELSE Append(path, a.path), <<>>, listed)
      all == placed \o (IF finalized.client = None THEN <<>> ELSE <<finalized.client.path>>)
      firsts == {i \in DOMAIN all : \A j \in 1..(i - 1) : all[j] # all[i]}
  IN [k \in 1..Cardinality(firsts) |-> all[CHOOSE i \in firsts : Cardinality(firsts \cap 1..i) = k]]

getGameArguments(finalized, instance) ==
  finalized.minecraftArguments
    \o FlattenSeq([i \in DOMAIN finalized.tweakers |-> <<Value("--tweakClass"), Value(finalized.tweakers[i])>>])
    \o <<Value("--height"), Value(instance.height), Value("--width"), Value(instance.width)>>
    \o instance.gameArguments

getJvmArguments(machine, finalized, instance) ==
  LET default == <<Placeholder("libraries_directory"), Placeholder("natives_directory"), Placeholder("main_jar_path")>>
      tricks == CASE machine.platform = "windows" -> <<Value("MojangTricks")>>
                  [] machine.platform = "macos" /\ "FirstThreadOnMacOS" \in ToSet(finalized.traits) -> <<Value("FirstThread")>>
                  [] OTHER -> <<>>
      logging == IF finalized.logging = None THEN <<>>
                 ELSE <<Value(<<"log4j", IF machine.platform = "windows" THEN "file:///" ELSE "", finalized.logging.id>>)>>
  IN default \o finalized.jvmArgs \o instance.jvmArguments \o tricks \o logging

\* Placeholders are replaced in two passes: the first result is logged, the second is run.
Replace(arguments, values) ==
  [i \in DOMAIN arguments |->
     IF "placeholder" \in DOMAIN arguments[i] /\ arguments[i].placeholder \in DOMAIN values
     THEN Value(values[arguments[i].placeholder]) ELSE arguments[i]]

replaceLaunchArguments(arguments, replacements, account) ==
  LET secrets == [auth_access_token |-> account.token, auth_session |-> account.token,
                  auth_player_name |-> account.username, auth_uuid |-> account.uuid, auth_xuid |-> account.xuid]
      logged == Replace(arguments, replacements)
  IN [logged |-> logged, run |-> Replace(logged, secrets)]

createCommand(machine, finalized, instance, account) ==
  LET arguments == getJvmArguments(machine, finalized, instance)
                     \o <<Value("-cp"), Placeholder("classpath"), Value(finalized.mainClass)>>
                     \o getGameArguments(finalized, instance)
      replacements == [classpath |-> ClassPath(finalized), natives_directory |-> "natives",
                       libraries_directory |-> "libraries", assets_root |-> "assets",
                       assets_index_name |-> Given(finalized.assetIndex, ""),
                       main_jar_path |-> IF finalized.client = None THEN "none" ELSE finalized.client.path]
  IN replaceLaunchArguments(arguments, replacements, account)
=============================================================================
