------------------------------ MODULE Requests -------------------------------
(***************************************************************************)
(* From what is typed into the explorer to what the CLI gets: the paths    *)
(* that creating, renaming and dragging produce, spelled out, the sizes of *)
(* the files, and the checks of the backend's Validator on the request a   *)
(* button sends.                                                           *)
(***************************************************************************)
EXTENDS PathRules, FiniteSets, FiniteSetsExt, Functions

CONSTANTS
  Typed,     \* what the user types as a path
  MaxFiles,   \* max_files; the page is bounded to one file more
  MaxSize,    \* max_file_size_kb * 1024
  MaxFolders, \* bound: folders without files
  MaxLength   \* bound: pieces of a path

ASSUME LimitsType == MaxFiles \in Nat \ {0} /\ MaxSize \in Nat

ASSUME TypedType == \A value \in Typed : value \in Seq(STRING)

VARIABLES
  files,     \* the files of the store: path to size
  virtual,   \* virtualFolders
  sent,      \* the files of the request the backend looks at
  verdict    \* what Validator says, "none" while there is no request, and
             \* "done" when a valid one came to its end

workspace == <<files, virtual>>
request   == <<sent, verdict>>

Toml == <<"Move", ".", "toml">>
Main == <<"sources", Slash, "main", ".", "move">>

NoFiles == <<>>

RequestsInit ==
  /\ files = [p \in {Toml, Main} |-> 1]
  /\ virtual = {}
  /\ sent = NoFiles /\ verdict = "none"

-----------------------------------------------------------------------------
(* The explorer. *)

Under(dir, p) == IsStrictPrefix(Append(dir, Slash), p)

Parents(p) == {SubSeq(p, 1, i - 1) : i \in {k \in DOMAIN p : p[k] = Slash}}
Folders    == (UNION {Parents(p) : p \in DOMAIN files}) \cup
              (UNION {Parents(d) \cup {d} : d \in virtual})
Taken(p)   == p \in DOMAIN files \cup Folders

\* getBaseName
BaseName(p) ==
  LET slashes == {i \in DOMAIN p : p[i] = Slash} IN
  IF slashes = {} THEN p ELSE SubSeq(p, Max(slashes) + 1, Len(p))

\* Mutant: what is dropped on the root keeps the slash.
DestinationSlash(dir, p) == dir \o <<Slash>> \o BaseName(p)

\* The path of what is dropped on dir, which is empty for the root.
Destination(dir, p) == IF dir = <<>> THEN BaseName(p) ELSE dir \o <<Slash>> \o BaseName(p)

Swap(p, old, new) == new \o SubSeq(p, Len(old) + 1, Len(p))

Moved(to) == [q \in (DOMAIN files \ DOMAIN to) \cup Range(to) |->
                IF q \in Range(to) THEN files[CHOOSE p \in DOMAIN to : to[p] = q] ELSE files[q]]

Short(ps) == \A p \in ps : Len(p) <= MaxLength

CreateFile(t) ==
  /\ FilePath(t) /\ ~Taken(t)
  /\ Cardinality(DOMAIN files) <= MaxFiles
  /\ files' = [q \in DOMAIN files \cup {t} |-> IF q = t THEN 0 ELSE files[q]]
  /\ UNCHANGED <<virtual, request>>

CreateFolder(t) ==
  /\ FolderPath(t) /\ ~Taken(t)
  /\ Cardinality(virtual) < MaxFolders
  /\ virtual' = virtual \cup {t}
  /\ UNCHANGED <<files, request>>

MoveFile(p, new) ==
  /\ p # Toml /\ ~Taken(new)
  /\ files' = Moved([q \in {p} |-> new])
  /\ Short({new})
  /\ UNCHANGED <<virtual, request>>

\* moveFolder and setVirtualFolders.  What is not taken as a folder has no files
\* in it that could be overwritten.
MoveFolder(old, new) ==
  LET inside  == {p \in DOMAIN files : Under(old, p)}
      folders == {d \in virtual : d = old \/ Under(old, d)}
      to      == [p \in inside |-> Swap(p, old, new)]
  IN /\ ~Taken(new) /\ ~Under(old, new)
     /\ files' = Moved(to)
     /\ virtual' = (virtual \ folders) \cup
                   (IF folders = {} THEN {new} ELSE {Swap(d, old, new) : d \in folders})
     /\ Short(Range(to) \cup virtual') /\ Cardinality(virtual') <= MaxFolders
     /\ UNCHANGED request

RenameFile(p, t)   == FilePath(t) /\ MoveFile(p, t)
RenameFolder(d, t) == FolderPath(t) /\ MoveFolder(d, t)

DropFile(p, dir)   == MoveFile(p, Destination(dir, p))
DropFolder(d, dir) == dir # d /\ ~Under(d, dir) /\ MoveFolder(d, Destination(dir, d))

\* Nothing in the page limits a file.
Type(p) ==
  /\ \E size \in (0..(MaxSize + 1)) \ {files[p]} : files' = [files EXCEPT ![p] = size]
  /\ UNCHANGED <<virtual, request>>

Texts == {NormalizePath(value) : value \in Typed}

Explore ==
  \/ \E t \in Texts :
       \/ CreateFile(t) \/ CreateFolder(t)
       \/ \E p \in DOMAIN files : RenameFile(p, t)
       \/ \E d \in Folders : RenameFolder(d, t)
  \/ \E dir \in Folders \cup {<<>>} :
       \/ \E p \in DOMAIN files : DropFile(p, dir)
       \/ \E d \in Folders : DropFolder(d, dir)
  \/ \E p \in DOMAIN files : Type(p)

-----------------------------------------------------------------------------
(* The request. *)

Manifests == {"good", "unreadable", "no package", "other host"}
Addresses == {"none", "placeholder", "hexadecimal", "reserved", "no 0x", "no digits",
              "too long", "other letters"}
Entries   == {"none", "blank", "function"}

TooLarge(sizes) == \E p \in DOMAIN sizes : sizes[p] > MaxSize

\* Validator::validate: the first check that fails, of those that look at the
\* files and then of the others.
ValidateFiles(sizes) ==
  LET count == Cardinality(DOMAIN sizes) IN
  CASE count = 0 \/ count > MaxFiles            -> "count"
    [] TooLarge(sizes)                          -> "size"
    [] \E p \in DOMAIN sizes : ~ServedPath(p)   -> "path"
    [] OTHER                                    -> "valid"

Validate(sizes, run, manifest, address, entry) ==
  CASE Toml \in DOMAIN sizes /\ manifest # "good"            -> "manifest"
    [] address \notin {"none", "placeholder", "hexadecimal"} -> "address"
    [] run /\ entry # "function"                             -> "entry"
    [] OTHER                                                 -> "valid"

\* execute of useWebSocket sends every file of the store.
Submit ==
  /\ verdict \in {"none", "done"}
  /\ sent' = files
  /\ IF ValidateFiles(files) # "valid" THEN verdict' = ValidateFiles(files)
     ELSE verdict' \in {Validate(files, r, m, a, e) :
                          r \in BOOLEAN, m \in Manifests, a \in Addresses, e \in Entries}
  /\ UNCHANGED workspace

\* The backend answers Failed, and the page may send again.
Refused ==
  /\ verdict \notin {"none", "valid", "done"}
  /\ verdict' = "none"
  /\ sent' = NoFiles
  /\ UNCHANGED workspace

-----------------------------------------------------------------------------
RequestsTypeOK ==
  /\ \A p \in DOMAIN files : FilePath(p) \/ p = Toml \/ p[1] \in Drives
  /\ \A p \in DOMAIN files : files[p] \in 0..(MaxSize + 1)
  /\ verdict \in {"none", "count", "size", "path", "manifest", "address", "entry", "valid",
                 "done"}

\* The page and the backend agree on paths: whatever was typed, renamed and
\* dragged, no request is refused for a path, and no two of its files are
\* written to the same place of the workspace.
PathsAgree ==
  /\ verdict # "path"
  /\ \A p, q \in DOMAIN sent : Place(p) = Place(q) => p = q
=============================================================================
