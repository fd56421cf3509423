------------------------------ MODULE Explorer ------------------------------
(***************************************************************************)
(* The files of the workspace in the browser: the file fields of the       *)
(* workspace store, the explorer that changes them (creating, renaming,    *)
(* deleting and dragging files and folders), the tabs of the editor, and   *)
(* the shared workspace that arrives from the backend at any time.         *)
(*                                                                         *)
(* A path is the sequence of its names.  What validateFilePath and         *)
(* validateFolderPath reject for its spelling is not among the paths.  A   *)
(* content stands for what a user wrote, so each is a number of its own.   *)
(***************************************************************************)
EXTENDS Naturals, Sequences, FiniteSets, SequencesExt

CONSTANTS
  Names,        \* names of files and folders
  MoveNames,    \* those that end in .move
  MoveToml,     \* the name Move.toml
  Main,         \* the path sources/main.move
  Paths,        \* what the user types
  Shares,       \* shared workspaces: sequences of distinct paths
  MaxDepth,     \* bound: names in a path
  MaxContents,  \* bound: contents, two of them in the initial workspace
  MaxFolders    \* bound: folders in virtualFolders

ASSUME NamesType  == MoveNames \subseteq Names /\ MoveToml \in Names \ MoveNames
ASSUME MainType   == Main \in Seq(Names) /\ Len(Main) > 1 /\ Last(Main) \in MoveNames
ASSUME PathsType  == Paths \subseteq Seq(Names) \ {<<>>}
ASSUME SharesType == \A w \in Shares : w \in Seq(Seq(Names) \ {<<>>}) /\ IsInjective(w)
ASSUME BoundsType == MaxDepth \in Nat /\ MaxContents \in Nat \ {0, 1} /\ MaxFolders \in Nat

Root == <<>>
Null == <<>>       \* activeFile: no file
Toml == <<MoveToml>>

\* The bound on what a move may result in.
Fits(st, vs) == \A p \in DOMAIN st.files \cup vs : Len(p) <= MaxDepth

VARIABLES
  store,     \* files (path to content), openTabs and activeFile
  virtual,   \* virtualFolders: folders shown without a file in them
  asking,    \* what the user is in the middle of: an edit, a confirmation or
             \* a drag, and the path it is about
  share,     \* the fetch of loadShare: "loading" or "over"
  contents   \* how many contents there have been

vars == <<store, virtual, asking, share, contents>>

Kinds == {"none", "create file", "create folder", "rename file", "rename folder",
          "confirm file", "confirm folder", "drag file", "drag folder"}

Idle == [kind |-> "none", path |-> Null]

Init ==
  /\ store = [files  |-> [p \in {Toml, Main} |-> IF p = Toml THEN 1 ELSE 2],
              tabs   |-> <<Main, Toml>>,
              active |-> Main]
  /\ virtual = {}
  /\ asking = Idle
  /\ share = "loading"
  /\ contents = 2

-----------------------------------------------------------------------------
(* The actions of the store, as functions of its state. *)

\* openTabs.filter: the tabs that are not gone.  (A recursive function, where
\* SelectSeq would do for TLC, is something one can prove about.)
Without(tabs, gone) ==
  LET kept[n \in 0..Len(tabs)] ==
        IF n = 0 THEN <<>>
        ELSE IF tabs[n] \in gone THEN kept[n - 1] ELSE Append(kept[n - 1], tabs[n])
  IN kept[Len(tabs)]

FirstTab(tabs) == IF tabs = <<>> THEN Null ELSE Head(tabs)

CreateFile(st, p, c) ==
  [files  |-> [q \in DOMAIN st.files \cup {p} |-> IF q = p THEN c ELSE st.files[q]],
   tabs   |-> Append(st.tabs, p),
   active |-> p]

DeleteFile(st, p) ==
  LET tabs == Without(st.tabs, {p}) IN
  [files  |-> [q \in DOMAIN st.files \ {p} |-> st.files[q]],
   tabs   |-> tabs,
   active |-> IF st.active = p THEN FirstTab(tabs) ELSE st.active]

\* Every file that moves, from p to to[p], takes its content, its tab and its
\* being active along.  A file that was at the new path is overwritten.
Relocate(st, to) ==
  LET moved     == DOMAIN to
      targets   == Range(to)
      source(q) == CHOOSE p \in moved : to[p] = q
      new(p)    == IF p \in moved THEN to[p] ELSE p
  IN [files  |-> [q \in (DOMAIN st.files \ moved) \cup targets |->
                    IF q \in targets THEN st.files[source(q)] ELSE st.files[q]],
      tabs   |-> [i \in DOMAIN st.tabs |-> new(st.tabs[i])],
      active |-> new(st.active)]

\* Mutants: the tabs keep the old path; the old file is not deleted.
RenameFileKeepsTabs(st, old, new) ==
  IF old \in DOMAIN st.files
  THEN [Relocate(st, [p \in {old} |-> new]) EXCEPT !.tabs = st.tabs]
  ELSE st

RenameFileCopies(st, old, new) ==
  IF old \in DOMAIN st.files
  THEN [Relocate(st, [p \in {old} |-> new]) EXCEPT
          !.files = [q \in DOMAIN @ \cup {old} |-> IF q = new THEN @[q] ELSE st.files[q]]]
  ELSE st

RenameFile(st, old, new) ==
  IF old \in DOMAIN st.files THEN Relocate(st, [p \in {old} |-> new]) ELSE st

Under(dir, p)    == Len(dir) < Len(p) /\ SubSeq(p, 1, Len(dir)) = dir
Inside(st, dir)  == {p \in DOMAIN st.files : Under(dir, p)}
Swap(p, old, new) == new \o SubSeq(p, Len(old) + 1, Len(p))

\* One file after another is deleted and set again; the callers see to it that
\* no new path is an old one, so the order does not matter.
MoveFolder(st, old, new) == Relocate(st, [p \in Inside(st, old) |-> Swap(p, old, new)])

DeleteFolder(st, dir) ==
  LET gone == Inside(st, dir)
      tabs == Without(st.tabs, {t \in ToSet(st.tabs) : Under(dir, t)})
  IN IF gone = {} THEN st
     ELSE [files  |-> [q \in DOMAIN st.files \ gone |-> st.files[q]],
           tabs   |-> tabs,
           active |-> IF Under(dir, st.active) THEN FirstTab(tabs) ELSE st.active]

OpenTab(st, p) ==
  [st EXCEPT !.tabs = IF p \in ToSet(@) THEN @ ELSE Append(@, p), !.active = p]

CloseTab(st, p) ==
  LET idx  == CHOOSE i \in DOMAIN st.tabs : st.tabs[i] = p
      tabs == Without(st.tabs, {p})
  IN [st EXCEPT !.tabs = tabs,
                !.active = IF @ # p THEN @
                           ELSE IF tabs = <<>> THEN Null
                           ELSE tabs[IF idx > 1 THEN idx - 1 ELSE 1]]

MoveTab(st, from, to) ==
  LET i == CHOOSE k \in DOMAIN st.tabs : st.tabs[k] = from
      j == CHOOSE k \in DOMAIN st.tabs : st.tabs[k] = to
  IN [st EXCEPT !.tabs = InsertAt(RemoveAt(@, i), j, from)]

LoadWorkspace(w, c) ==
  [files  |-> [p \in ToSet(w) |-> c + (CHOOSE i \in DOMAIN w : w[i] = p)],
   tabs   |-> w,
   active |-> FirstTab(w)]

-----------------------------------------------------------------------------
(* The tree, and what its handlers know of it when they are called. *)

Ancestors(p) == {SubSeq(p, 1, n) : n \in 1..(Len(p) - 1)}

\* folderSet: the folders of the files, the virtual ones and theirs.
Folders(st, vs) ==
  (UNION {Ancestors(p) : p \in DOMAIN st.files}) \cup (UNION {Ancestors(d) \cup {d} : d \in vs})

\* fileExists or folderExists
Taken(st, vs, p) == p \in DOMAIN st.files \/ p \in Folders(st, vs)

\* setVirtualFolders after a folder has moved
MoveVirtual(vs, old, new) ==
  LET inside == {d \in vs : d = old \/ Under(old, d)} IN
  (vs \ inside) \cup (IF inside = {} THEN {new} ELSE {Swap(d, old, new) : d \in inside})

\* What a renaming or a drop of a folder does if nothing is in its way.
FolderMoves(old, new) == new # old /\ ~Taken(store, virtual, new) /\ ~Under(old, new)

-----------------------------------------------------------------------------
(* Editing in the tree. *)

\* Mutant of Guarded: Move.toml is a file like any other.
GuardedNever(p) == FALSE

\* isMoveToml: no button for it, and no handler takes it.
Guarded(p) == p = Toml

Ask(kind, p) ==
  /\ asking = Idle
  /\ asking' = [kind |-> kind, path |-> p]
  /\ UNCHANGED <<store, virtual, share, contents>>

AskNew == \E kind \in {"create file", "create folder"} : Ask(kind, Null)

AskFile ==
  \E p \in DOMAIN store.files, kind \in {"rename file", "confirm file", "drag file"} :
    ~Guarded(p) /\ Ask(kind, p)

AskFolder ==
  \E d \in Folders(store, virtual),
     kind \in {"rename folder", "confirm folder", "drag folder"} : Ask(kind, d)

\* Escape, a blur, Cancel, a drop outside the tree.
GiveUp ==
  /\ asking # Idle
  /\ asking' = Idle
  /\ UNCHANGED <<store, virtual, share, contents>>

Answer(kind) ==
  /\ asking.kind = kind
  /\ asking' = Idle
  /\ UNCHANGED share

IsFilePath(p) == p # Toml /\ Last(p) \in MoveNames

CommitCreateFile(p) ==
  /\ Answer("create file")
  /\ IsFilePath(p)
  /\ ~Taken(store, virtual, p)
  /\ contents < MaxContents
  /\ contents' = contents + 1
  /\ store' = CreateFile(store, p, contents + 1)
  /\ UNCHANGED virtual

CommitCreateFolder(d) ==
  /\ Answer("create folder")
  /\ ~Taken(store, virtual, d)
  /\ Cardinality(virtual) < MaxFolders
  /\ virtual' = virtual \cup {d}
  /\ UNCHANGED <<store, contents>>

CommitRenameFile(p) ==
  /\ Answer("rename file")
  /\ IsFilePath(p)
  /\ ~Taken(store, virtual, p)
  /\ store' = RenameFile(store, asking.path, p)
  /\ UNCHANGED <<virtual, contents>>

CommitRenameFolder(d) ==
  LET old == asking.path IN
  /\ Answer("rename folder")
  /\ FolderMoves(old, d)
  /\ \A p \in Inside(store, old) : Swap(p, old, d) \notin DOMAIN store.files
  /\ store' = MoveFolder(store, old, d)
  /\ virtual' = MoveVirtual(virtual, old, d)
  /\ Fits(store', virtual')
  /\ UNCHANGED contents

ConfirmDeleteFile ==
  /\ Answer("confirm file")
  /\ store' = DeleteFile(store, asking.path)
  /\ UNCHANGED <<virtual, contents>>

ConfirmDeleteFolder ==
  LET dir == asking.path IN
  /\ Answer("confirm folder")
  /\ store' = DeleteFolder(store, dir)
  /\ virtual' = {d \in virtual : d # dir /\ ~Under(dir, d)}
  /\ UNCHANGED contents

-----------------------------------------------------------------------------
(* Dragging. *)

\* Mutant: what is dropped on the root gets a path that starts with a slash.
DestinationSlash(target, p) == Append(IF target = Root THEN <<"">> ELSE target, Last(p))

Destination(target, p) == Append(target, Last(p))

\* handleDrop.  It sees the files and folders of the last rendering, and acts
\* on the store and the virtual folders as they are.
DropFile(now, p, target) ==
  LET new == Destination(target, p) IN
  IF Guarded(p) \/ new = p \/ Taken(store, virtual, new) THEN now
  ELSE [now EXCEPT !.store = RenameFile(@, p, new)]

DropFolder(now, dir, target) ==
  LET new    == Destination(target, dir)
      moving == Inside(store, dir)
      refused == \/ target = dir \/ Under(dir, target) \/ ~FolderMoves(dir, new)
                 \/ \E p \in moving : LET q == Swap(p, dir, new)
                                      IN q \in DOMAIN store.files \ moving
  IN IF refused THEN now
     ELSE [store   |-> IF moving = {} THEN now.store ELSE MoveFolder(now.store, dir, new),
           virtual |-> MoveVirtual(now.virtual, dir, new)]

HandleDrop(now, target) ==
  IF asking.kind = "drag file" THEN DropFile(now, asking.path, target)
                               ELSE DropFolder(now, asking.path, target)

\* The drop on a folder's row bubbles to the list around it, whose handler
\* takes it for a drop on the root.
Drop(target) ==
  LET before == [store |-> store, virtual |-> virtual]
      row    == IF target = Root THEN before ELSE HandleDrop(before, target)
      after  == HandleDrop(row, Root)
  IN /\ asking.kind \in {"drag file", "drag folder"}
     /\ Answer(asking.kind)
     /\ store' = after.store
     /\ virtual' = after.virtual
     /\ Fits(store', virtual')
     /\ UNCHANGED contents

-----------------------------------------------------------------------------
(* The tree and the editor, between two questions. *)

Click(st) ==
  /\ asking = Idle
  /\ store' = st
  /\ UNCHANGED <<virtual, asking, share, contents>>

ClickFile   == \E p \in DOMAIN store.files : Click(OpenTab(store, p))
ClickTab    == \E p \in ToSet(store.tabs) : Click([store EXCEPT !.active = p])
ClickClose  == \E p \in ToSet(store.tabs) : Click(CloseTab(store, p))
DragTab     == \E p, q \in ToSet(store.tabs) : p # q /\ Click(MoveTab(store, p, q))

\* updateFileContent, of the active file if it is there
Type ==
  /\ asking = Idle
  /\ store.active \in DOMAIN store.files
  /\ contents < MaxContents
  /\ contents' = contents + 1
  /\ store' = [store EXCEPT !.files[store.active] = contents + 1]
  /\ UNCHANGED <<virtual, asking, share>>

\* loadShare gets its answer, whatever the user is doing.
LoadShare ==
  /\ share = "loading"
  /\ share' = "over"
  /\ \E w \in Shares :
       /\ contents + Len(w) <= MaxContents
       /\ contents' = contents + Len(w)
       /\ store' = LoadWorkspace(w, contents)
  /\ UNCHANGED <<virtual, asking>>

\* ... or an error, and a toast.
LoadShareFails ==
  /\ share = "loading"
  /\ share' = "over"
  /\ UNCHANGED <<store, virtual, asking, contents>>

-----------------------------------------------------------------------------
Rename == \E p \in Paths : CommitRenameFile(p) \/ CommitRenameFolder(p)
Create == \E p \in Paths : CommitCreateFile(p) \/ CommitCreateFolder(p)
Drag   == \E t \in Folders(store, virtual) \cup {Root} : Drop(t)

Next ==
  \/ AskNew \/ AskFile \/ AskFolder \/ GiveUp
  \/ Create \/ Rename \/ Drag \/ ConfirmDeleteFile \/ ConfirmDeleteFolder
  \/ ClickFile \/ ClickTab \/ ClickClose \/ DragTab \/ Type
  \/ LoadShare \/ LoadShareFails

Spec == Init /\ [][Next]_vars
-----------------------------------------------------------------------------
PathType == Seq(Names) \ {<<>>}

TypeOK ==
  /\ DOMAIN store.files \subseteq PathType
  /\ \A p \in DOMAIN store.files : store.files[p] \in 1..MaxContents
  /\ store.tabs \in Seq(PathType)
  /\ store.active \in PathType \cup {Null}
  /\ virtual \subseteq PathType
  /\ asking.kind \in Kinds /\ asking.path \in Seq(Names)
  /\ share \in {"loading", "over"}
  /\ contents \in 2..MaxContents

\* Through every renaming, move and deletion the tabs stay those of files that
\* are there, each once, and one of them is active whenever there is any.
TabsSound ==
  /\ ToSet(store.tabs) \subseteq DOMAIN store.files
  /\ IsInjective(store.tabs)
  /\ IF store.tabs = <<>> THEN store.active = Null ELSE store.active \in ToSet(store.tabs)

\* Renaming and dragging, of files or of whole folders, lose no file and no
\* content: nothing is overwritten.
MovesLoseNothing ==
  [][Rename \/ Drag =>
       /\ Cardinality(DOMAIN store'.files) = Cardinality(DOMAIN store.files)
       /\ Range(store'.files) = Range(store.files)]_vars

\* README.md:11, "a guarded Move.toml": only typing in it, or a workspace that
\* was shared, replaces it.
MoveTomlKept ==
  [][(Toml \in DOMAIN store.files /\ ~LoadShare) =>
       /\ Toml \in DOMAIN store'.files
       /\ store'.files[Toml] = store.files[Toml] \/ Type]_vars

-----------------------------------------------------------------------------
(* What the code says, and does not do. *)

\* FileTree.tsx:430, "Cannot move a folder into itself": a folder dropped on
\* itself, or on a folder inside it, stays where it is.
RefusedDropMovesNothing ==
  [][\A t \in Folders(store, virtual) :
       (/\ asking.kind = "drag folder"
        /\ t = asking.path \/ Under(asking.path, t)
        /\ Drop(t)) => UNCHANGED <<store, virtual>>]_vars

=============================================================================
