--------------------------- MODULE ReplicaStorage ---------------------------
(***************************************************************************)
(* The files of the preview in a browser: what Tauri's file system and the *)
(* archive commands do on a disk, done on a flat map in IndexedDB          *)
(* (lib/__browser).  There are no directories, only keys with separators,  *)
(* and no operation over several keys is atomic: between two awaits any    *)
(* other call may get in, and the page may be reloaded.  IndexedDB may     *)
(* fail any request: a write or a deletion then rejects, a listing is      *)
(* empty, and what is read is the empty text.                              *)
(*                                                                         *)
(* A path is a sequence of tokens, one of them the separator; startsWith   *)
(* is a prefix of the tokens, whether or not a name ends there.            *)
(***************************************************************************)
EXTENDS Undefined, Selection, FiniteSets, SequencesExt, Functions

CONSTANTS
  Calls,      \* the calls there may be: records of what they are for
  AtOnce,     \* bound: how many of them there are
  AtFirst,    \* [path -> value] that is stored at the start
  Empty,      \* the empty text, which is also what a missing path reads as
  Texts,      \* the values that are stored as text, and not as a File
  Archives    \* [value that is a zip -> its entries, in order]

Slash == "/"

\* Paths end in a name: only a directory in an archive is named with a separator at the end.
Paths == {path \in Seq(STRING) : path # <<>> => Last(path) # Slash}

ASSUME ArchivesAssumption ==
  \A v \in DOMAIN Archives :
    /\ Archives[v] \in Seq(ToSet(Archives[v]))
    /\ \A e \in ToSet(Archives[v]) : e.name \in Seq(STRING) /\ (e.isDirectory <=> e.name \notin Paths)

\* (What is said of the separator and of None, the provers do not know of literals and records.)
ASSUME PathsAssumption ==
  /\ DOMAIN AtFirst \subseteq Paths
  /\ \A c \in Calls : c.path \in Paths /\ c.to \in Paths /\ c.prefixes \subseteq Seq(STRING)
  /\ Slash \in STRING /\ None \notin [isFile : BOOLEAN, mtime : BOOLEAN]

VARIABLES
  stored,     \* [path -> value]
  call,       \* where each call is
  previews,   \* the paths of picked images, which are shown from memory
  owed        \* history: values that were stored and that nobody removed or overwrote

storageVars == <<stored, call, previews, owed>>

Under(path, key) == IsPrefix(Append(path, Slash), key)
Values == {Empty} \cup {AtFirst[p] : p \in DOMAIN AtFirst} \cup {c.value : c \in Calls}
            \cup UNION {{e.value : e \in ToSet(Archives[v])} : v \in DOMAIN Archives}

-----------------------------------------------------------------------------
(* Answers, each from what is stored at one moment, when no read fails.    *)

listStores(path) == {key \in DOMAIN stored : IsPrefix(path, key)}

readStoragePath(path) == IF path \in DOMAIN stored THEN stored[path] ELSE Empty

\* The error listener answers as if nothing were there.
mayRead(path) == {readStoragePath(path), Empty}

\* A missing file and one with no text in it are the same to whoever needs bytes.
HasBytes(path) == readStoragePath(path) # Empty

exists(path) == listStores(path) # {}

get_missing_files(paths) ==
  {path \in paths : path \notin DOMAIN stored /\ ~\E key \in DOMAIN stored : Under(path, key)}

\* Texts carry no time; None is a refusal.
getStoredFileInfo(path) ==
  LET isFile == path \in listStores(path)
      isDirectory == ~isFile /\ \E key \in listStores(path) : Under(path, key)
  IN IF ~isFile /\ ~isDirectory THEN None
     ELSE [isFile |-> isFile, mtime |-> isFile /\ readStoragePath(path) \notin Texts]

\* A name that is a file and leads to files, too, is a directory.
listDirectoryEntries(path) ==
  LET prefix == IF path # <<>> /\ Last(path) = Slash THEN path ELSE Append(path, Slash)
      rest(key) == SubSeq(key, Len(prefix) + 1, Len(key))
      upToSlash(key) == SelectInSeq(rest(key), LAMBDA token : token = Slash)
      names == {<<IF upToSlash(k) = 0 THEN rest(k) ELSE SubSeq(rest(k), 1, upToSlash(k) - 1), upToSlash(k) # 0>> :
                  k \in {key \in listStores(prefix) : rest(key) # <<>>}}
  IN {[name |-> n[1], isDirectory |-> <<n[1], TRUE>> \in names] : n \in names}

\* `hashOf` is "ignore" or the value whose digest is expected; the failing paths are the answer.
verify_file_paths(artifacts) ==
  {path \in DOMAIN artifacts :
     ~HasBytes(path) \/ (artifacts[path] # "ignore" /\ artifacts[path] # readStoragePath(path))}

\* Extensions and locales are read one after another; what does not parse is listed or left out.
readStoredExtensions(path) ==
  LET files == {key \in listStores(Append(path, Slash)) :
                  /\ Len(key) > Len(path) + 1
                  /\ Slash \notin ToSet(SubSeq(key, Len(path) + 2, Len(key)))
                  /\ Last(key) = ".zip"}
      good(key) == /\ stored[key] \in DOMAIN Archives
                   /\ {<<"metadata">>, <<"index">>} \subseteq {e.name : e \in ToSet(Archives[stored[key]])}
  IN [extensions |-> {key \in files : good(key)}, failures |-> {key \in files : ~good(key)}]

-----------------------------------------------------------------------------
(* Changes.                                                                *)

Idle == [at |-> "idle", keys |-> {}, key |-> <<>>, got |-> None, entries |-> <<>>, archives |-> <<>>, written |-> {}, ok |-> TRUE]

StorageInit ==
  /\ stored = AtFirst
  /\ \E chosen \in kSubset(AtOnce, Calls) :
       call = [c \in Calls |-> IF c \in chosen THEN Idle ELSE [Idle EXCEPT !.at = "never"]]
  /\ previews = {}
  /\ owed = Values \cap {AtFirst[p] : p \in DOMAIN AtFirst}

\* A rename has read the value of a key, and will delete the key.
Moving(key) == \E c \in Calls : c.op = "rename" /\ call[c].at \in {"write", "delete"} /\ call[c].key = key

Overwritten(key) == IF key \in DOMAIN stored THEN {stored[key]} ELSE {}

\* writeToStoragePath.  What is written over a file that is being moved goes with it.
Put(key, value) ==
  /\ stored' = [k \in DOMAIN stored \cup {key} |-> IF k = key THEN value ELSE stored[k]]
  /\ owed' = IF Moving(key) THEN owed \ (Overwritten(key) \cup {value}) ELSE (owed \ Overwritten(key)) \cup {value}

\* deleteStoragePath; a removal, and the move of a file that was read as empty, lose the value.
Drop(key, loses) ==
  /\ stored' = Restrict(stored, DOMAIN stored \ {key})
  /\ owed' = IF loses THEN owed \ Overwritten(key) ELSE owed

Goes(c, record) == call' = [call EXCEPT ![c] = record]
Done(c, ok) == [call[c] EXCEPT !.at = "done", !.ok = ok]

\* An error is collected and the next archive opened; any other call is given up.
Failed(c) ==
  IF c.op # "unzip" \/ Len(call[c].archives) <= 1 THEN Done(c, FALSE)
  ELSE [call[c] EXCEPT !.at = "open", !.ok = FALSE, !.archives = Tail(@), !.entries = <<>>]

\* A write or a deletion rejects.
StoreRejects(c) ==
  /\ \/ c.op \in {"write", "pick"} /\ call[c].at = "idle"
     \/ c.op = "remove" /\ call[c].at = "next"
     \/ c.op = "rename" /\ call[c].at \in {"write", "delete"}
     \/ call[c].at = "entries" /\ call[c].entries # <<>>
  /\ Goes(c, Failed(c))
  /\ UNCHANGED <<stored, previews, owed>>

\* write_text_file, write_file, the download of the upload plugin, and a picked file.
writeToStoragePath(c) ==
  /\ c.op \in {"write", "pick"} /\ call[c].at = "idle"
  /\ Put(c.path, c.value)
  /\ Goes(c, IF c.op = "pick" THEN [call[c] EXCEPT !.at = "preview"] ELSE Done(c, TRUE))
  /\ UNCHANGED previews

\* importPickedFile, once the image has been read into a URL.
importPickedFile(c) ==
  /\ call[c].at = "preview"
  /\ previews' = previews \cup {c.path}
  /\ Goes(c, Done(c, TRUE))
  /\ UNCHANGED <<stored, owed>>

\* The keys are listed; a key that is the path itself goes alone, or else the keys under it.
KeysAt(path) == IF path \in listStores(path) THEN {path} ELSE {k \in listStores(path) : Under(path, k)}

List(c) ==
  /\ c.op \in {"remove", "rename"} /\ call[c].at = "idle"
  /\ \E keys \in {KeysAt(c.path), {}} :
       Goes(c, IF keys = {} THEN Done(c, c.op = "remove") ELSE [call[c] EXCEPT !.at = "next", !.keys = keys])
  /\ UNCHANGED <<stored, previews, owed>>

DeleteKey(c) ==
  /\ c.op = "remove" /\ call[c].at = "next"
  /\ \E key \in call[c].keys :
       /\ Drop(key, TRUE)
       /\ Goes(c, IF call[c].keys = {key} THEN Done(c, TRUE) ELSE [call[c] EXCEPT !.keys = @ \ {key}])
  /\ UNCHANGED previews

\* moveStoredValue: what a rename does with a key, one await after another.
MoveSteps == <<"next", "write", "delete">>

\* Mutant of MoveOrder: the value is only in memory for a while.
MoveUnsaved(at) == CASE at = "next" -> "delete" [] at = "delete" -> "write" [] at = "write" -> "next"

MoveOrder(at) == CASE at = "next" -> "write" [] at = "write" -> "delete" [] at = "delete" -> "next"

Moved(c, left) ==
  LET next == MoveOrder(call[c].at)
  IN Goes(c, IF next = "next" /\ left = {} THEN Done(c, TRUE) ELSE [call[c] EXCEPT !.at = next, !.keys = left])

\* The new name of a key under the old path.
Destination(c) == c.to \o SubSeq(call[c].key, Len(c.path) + 1, Len(call[c].key))

ReadMoved(c) ==
  /\ c.op = "rename" /\ call[c].at = "next"
  /\ \E key \in call[c].keys : \E got \in mayRead(key) :
       Goes(c, [call[c] EXCEPT !.at = MoveOrder("next"), !.key = key, !.got = got, !.keys = @ \ {key}])
  /\ UNCHANGED <<stored, previews, owed>>

WriteMoved(c) ==
  /\ c.op = "rename" /\ call[c].at = "write"
  /\ Put(Destination(c), call[c].got)
  /\ Moved(c, call[c].keys)
  /\ UNCHANGED previews

\* A file is deleted though it could not be read: only that loses what was in it.
DeleteMoved(c) ==
  /\ c.op = "rename" /\ call[c].at = "delete"
  /\ Drop(call[c].key, call[c].got = Empty)
  /\ Moved(c, call[c].keys)
  /\ UNCHANGED previews

-----------------------------------------------------------------------------
(* Archives: unzip_files takes several, and install_mrpack one.            *)

isSafeZipEntryName(name) == name # <<>> /\ Head(name) # Slash /\ ".." \notin ToSet(name)

\* Where an entry goes, or None: unzip leaves out what is excluded, mrpack all but the overrides.
Target(c, entry) ==
  LET prefixes == {p \in c.prefixes : IsPrefix(p, entry.name)}
      prefix == CHOOSE p \in prefixes : TRUE
      relative == IF c.op = "unzip" THEN entry.name ELSE SubSeq(entry.name, Len(prefix) + 1, Len(entry.name))
  IN IF \/ entry.isDirectory \/ ~isSafeZipEntryName(entry.name)
        \/ c.op = "unzip" /\ prefixes # {}
        \/ c.op = "mrpack" /\ (prefixes = {} \/ relative = <<>>)
     THEN None ELSE Append(c.to, Slash) \o relative

HasManifest(value) == \E e \in ToSet(Archives[value]) : e.name = <<"index.json">> /\ e.value # Empty

BeginArchive(c) ==
  /\ c.op \in {"unzip", "mrpack"} /\ call[c].at = "idle"
  /\ Goes(c, IF c.archives = <<>> THEN Done(c, TRUE) ELSE [call[c] EXCEPT !.at = "open", !.archives = c.archives])
  /\ UNCHANGED <<stored, previews, owed>>

\* readStoredArchive, listZipEntries, readManifest.
OpenArchive(c) ==
  /\ call[c].at = "open"
  /\ \E value \in mayRead(Head(call[c].archives)) :
       Goes(c, IF value \notin DOMAIN Archives THEN Failed(c)
               ELSE IF c.op = "mrpack" /\ ~HasManifest(value) THEN Failed(c)
               ELSE [call[c] EXCEPT !.at = "entries",
                       !.entries = Selected(Archives[value], {e \in ToSet(Archives[value]) : Target(c, e) # None})])
  /\ UNCHANGED <<stored, previews, owed>>

\* The archive was read into memory whole: what becomes of its file no longer matters.
ExtractEntry(c) ==
  /\ call[c].at = "entries" /\ call[c].entries # <<>>
  /\ LET entry == Head(call[c].entries) IN
       IF entry.isCorrupt THEN Goes(c, Failed(c)) /\ UNCHANGED <<stored, owed>>
       ELSE /\ Put(Target(c, entry), entry.value)
            /\ Goes(c, [call[c] EXCEPT !.entries = Tail(@), !.written = @ \cup {Target(c, entry)}])
  /\ UNCHANGED previews

ArchiveDone(c) ==
  /\ call[c].at = "entries" /\ call[c].entries = <<>>
  /\ Goes(c, IF Len(call[c].archives) <= 1 THEN Done(c, call[c].ok)
             ELSE [call[c] EXCEPT !.at = "open", !.archives = Tail(@)])
  /\ UNCHANGED <<stored, previews, owed>>

\* The page is loaded anew: calls end where they are, and nothing is shown from memory.
ReloadStorage ==
  /\ \E c \in Calls : call[c].at \notin {"never", "idle", "done"}
  /\ call' = [c \in Calls |-> IF call[c].at \in {"never", "idle"} THEN call[c] ELSE Done(c, FALSE)]
  /\ previews' = {}
  /\ UNCHANGED <<stored, owed>>

CallStep(c) ==
  \/ writeToStoragePath(c) \/ importPickedFile(c) \/ List(c) \/ DeleteKey(c)
  \/ ReadMoved(c) \/ WriteMoved(c) \/ DeleteMoved(c)
  \/ StoreRejects(c) \/ BeginArchive(c) \/ OpenArchive(c) \/ ExtractEntry(c) \/ ArchiveDone(c)

StorageNext == ReloadStorage \/ \E c \in Calls : CallStep(c)

-----------------------------------------------------------------------------
(* Properties.                                                             *)

StorageTypeOK ==
  /\ \A p \in DOMAIN stored : stored[p] \in Values
  /\ \A c \in Calls : call[c].at \in {"never", "idle", "preview", "next", "write", "delete", "open", "entries", "done"}
  /\ previews \subseteq {c.path : c \in Calls}

\* What was stored is somewhere, until someone removes it or writes over it: in the middle of a rename,
\* after a reload there, and when a request of it is rejected, too.  There is one exception: a rename
\* that cannot read a file moves an empty one, and deletes what it has not read
\* (read-storage-path.ts:37-39, rename-storage-path.ts:29-32).  (What is written over a file that is
\* being moved goes with it: by another call, or by a rename that writes where it reads.)
NothingLost == owed \subseteq Range(stored)

\* The commands agree on what is there, when no read fails: what is not missing exists and has information, and no other;
\* a path that is no file has entries, and one with entries is not missing; the entries of a directory
\* are there, as files unless they are directories; what is verified can be read; and each extension is
\* an entry and a file.
AnswersAgree ==
  \A path \in DOMAIN stored \cup {c.path : c \in Calls} \cup {c.to : c \in Calls} :
    LET missing == path \in get_missing_files({path})
        info == getStoredFileInfo(path)
        entries == listDirectoryEntries(path)
        found == readStoredExtensions(path)
        In(name) == Append(path, Slash) \o name
    IN /\ missing <=> info = None
       /\ ~missing => exists(path)
       /\ entries # {} => ~missing
       /\ ~missing => info.isFile \/ entries # {}
       /\ \A e \in entries :
            LET there == getStoredFileInfo(In(e.name)) IN there # None /\ (e.isDirectory \/ there.isFile)
       /\ path \notin verify_file_paths([p \in {path} |-> "ignore"]) => ~missing /\ info.isFile
       /\ \A key \in found.extensions \cup found.failures :
            getStoredFileInfo(key).isFile /\ \E e \in entries : key = In(e.name)
=====================
