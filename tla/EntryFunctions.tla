----------------------------- MODULE EntryFunctions --------------------------
(***************************************************************************)
(* The entry function of Run: the functions ConfigPanel finds in the files *)
(* and keeps in the store, the one selected among them, and the layout of  *)
(* Workspace, which mounts the panel on a narrow screen only under its tab.*)
(*                                                                         *)
(* A file is what the panel's regular expressions make of it: whether its  *)
(* path ends in .move, its first module ("" for none), and the names of    *)
(* its entry and test functions in the order they have in the text.        *)
(***************************************************************************)
EXTENDS Naturals, Sequences, SequencesExt

CONSTANTS
  Workspaces,       \* what may be in the editor: sequences of files, in the
                    \* order of the store's Map
  Default,          \* the workspace of createDefaultFiles
  DefaultFunction   \* its function

ASSUME DefaultsType == Default \in Workspaces
ASSUME FilesType ==
  \A w \in Workspaces :
    /\ w \in Seq(ToSet(w))
    /\ \A i \in DOMAIN w : /\ w[i].entries \in Seq(ToSet(w[i].entries))
                           /\ w[i].tests \in Seq(ToSet(w[i].tests))

Null == <<>>        \* selectedFunction: none

VARIABLES
  files,      \* the files of the store
  available,  \* availableFunctions
  selected,   \* selectedFunction
  wide,       \* not isMobile
  tab,        \* activeTab, which survives while the screen is wide
  due,        \* the panel's effect has to run
  edited      \* history: the user changed the files after they were loaded

functions == <<files, available, selected, wide, tab, due, edited>>

MobileTabs == {"files", "editor", "output", "config"}

Mounted == wide \/ tab = "config"

\* The functions of a file, each with its full name; those of a workspace.
In(file) ==
  LET found(names, entry) ==
        [i \in DOMAIN names |-> [fullName |-> <<file.module, names[i]>>, isEntry |-> entry]]
  IN IF file.move /\ file.module # ""
     THEN found(file.entries, TRUE) \o found(file.tests, FALSE)
     ELSE <<>>

Listed(ws) == FlattenSeq([i \in DOMAIN ws |-> In(ws[i])])

FullNames(list)  == {list[i].fullName : i \in DOMAIN list}
FirstEntry(list) == SelectInSeq(list, LAMBDA f : f.isEntry)   \* 0 if there is none

ASSUME FunctionType == DefaultFunction \in FullNames(Listed(Default))

FunctionsInit ==
  /\ files = Default
  /\ available = <<>>
  /\ selected = DefaultFunction
  /\ wide \in BOOLEAN /\ tab = "editor"
  /\ due = wide
  /\ edited = FALSE

-----------------------------------------------------------------------------
\* Typing, or any operation of the explorer: the effect depends on the files.
Edit ==
  /\ \E w \in Workspaces \ {files} : files' = w
  /\ due' = Mounted
  /\ edited' = TRUE
  /\ UNCHANGED <<available, selected, wide, tab>>

\* Mutant: the functions of the workspace before stay on offer.
LoadWorkspaceKeepsList ==
  /\ files' \in Workspaces
  /\ selected' = Null
  /\ due' = Mounted
  /\ edited' = FALSE
  /\ UNCHANGED <<available, wide, tab>>

LoadWorkspace ==
  /\ files' \in Workspaces
  /\ selected' = Null /\ available' = <<>>
  /\ due' = Mounted
  /\ edited' = FALSE
  /\ UNCHANGED <<wide, tab>>

\* The list offers the functions of the last effect, tests among them, and
\* "Select a function...", which is none.
Select ==
  /\ Mounted
  /\ selected' \in (FullNames(available) \cup {Null}) \ {selected}
  /\ due' = TRUE
  /\ UNCHANGED <<files, available, wide, tab, edited>>

AutoSelect(list) ==
  IF selected = Null /\ FirstEntry(list) # 0 THEN list[FirstEntry(list)].fullName ELSE selected

\* The effect: the functions of the files, and the first entry function of them
\* if none is selected.
FindFunctions ==
  /\ Mounted /\ due
  /\ available' = Listed(files)
  /\ selected' = AutoSelect(Listed(files))
  /\ due' = (selected' # selected)
  /\ UNCHANGED <<files, wide, tab, edited>>

\* Across 768 pixels everything is mounted anew.
Resize ==
  /\ wide' = ~wide
  /\ due' = (wide' \/ tab = "config")
  /\ UNCHANGED <<files, available, selected, tab, edited>>

\* Mutant: an effect that is due outlives its panel.
SwitchTabLate(t) ==
  /\ ~wide /\ t # tab
  /\ tab' = t
  /\ due' = (due \/ t = "config")
  /\ UNCHANGED <<files, available, selected, wide, edited>>

SwitchTab(t) ==
  /\ ~wide /\ t # tab
  /\ tab' = t
  /\ due' = (t = "config")
  /\ UNCHANGED <<files, available, selected, wide, edited>>

FunctionsNext ==
  \/ Edit \/ LoadWorkspace \/ Select \/ FindFunctions \/ Resize
  \/ \E t \in MobileTabs : SwitchTab(t)

FunctionsSpec == FunctionsInit /\ [][FunctionsNext]_functions
-----------------------------------------------------------------------------
FunctionsTypeOK ==
  /\ files \in Workspaces
  /\ FullNames(available) \cup {selected} \subseteq
       (UNION {FullNames(Listed(w)) : w \in Workspaces}) \cup {Null}
  /\ wide \in BOOLEAN /\ tab \in MobileTabs /\ due \in BOOLEAN /\ edited \in BOOLEAN
  /\ due => Mounted

\* What the panel offers is what is in the files, and while they have an entry
\* function Run has one to send: the user cannot even choose to have none.
ListCurrent ==
  Mounted /\ ~due =>
    /\ available = Listed(files)
    /\ FirstEntry(available) # 0 => selected # Null

\* The function Run sends is one of the workspace that was opened, until that
\* is edited: nothing of the workspace before survives, wherever the panel is.
SelectionFresh == ~edited => selected \in FullNames(Listed(files)) \cup {Null}

\* The list and the selection follow the files as far as the code has them
\* follow: an edit does not take the selection back (README, Departures).
SelectionSound == ListCurrent /\ SelectionFresh
=============================================================================
