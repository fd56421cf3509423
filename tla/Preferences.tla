---------------------------- MODULE Preferences ----------------------------
(***************************************************************************)
(* What a user chooses in the header: the menus and the mouse presses that *)
(* reach them, the theme with that of the operating system behind          *)
(* "system", the keybindings with the vim adapter of the editor, and what  *)
(* localStorage keeps for the next page.                                   *)
(*                                                                         *)
(* A change of the store is rendered, and the effects of that rendering    *)
(* run, before the next event: they are part of the action.                *)
(***************************************************************************)
EXTENDS Naturals

VARIABLES
  open,       \* the menus that are shown
  press,      \* where the mouse button is down
  os,         \* the theme of the operating system
  changed,    \* a change event of the media query is on its way to its listener
  theme,      \* theme of the store and of the document
  mode,       \* themeMode
  keys,       \* keybindingMode
  saved,      \* localStorage: mode and keys as last chosen, "none" before
  editor,     \* the Editor component: "absent", "loading" or "mounted"
  rendered,   \* keys in the rendering that brought it
  handle,     \* editorRef is set
  vim         \* vimModeRef: "none", or an adapter that is "attached" to the
              \* editor or "left" with one that has gone

menus       == <<open, press>>
themes      == <<os, changed, theme, mode>>
adapter     == <<editor, rendered, handle, vim>>
preferences == <<menus, themes, keys, saved, adapter>>

Menus  == {"run", "wallet", "settings"}
Themes == {"light", "dark"}
Modes  == Themes \cup {"system"}
Keys   == {"default", "vim"}

\* Where a mouse button goes down: on the button that shows a menu, on an item
\* of a menu, or somewhere else.
Nowhere == <<"elsewhere", "none">>
Places  == ({"button", "item"} \X Menus) \cup {Nowhere}

ComputeTheme(m) == IF m = "system" THEN os ELSE m

\* initTheme, after the first rendering, which has the default keys and puts
\* the editor in its place.
PreferencesInit ==
  /\ open = {} /\ press = Nowhere
  /\ saved \in [mode : Modes \cup {"none"}, keys : Keys \cup {"none"}]
  /\ os \in Themes /\ changed = FALSE
  /\ mode = IF saved.mode = "none" THEN "dark" ELSE saved.mode
  /\ theme = ComputeTheme(mode)
  /\ keys = IF saved.keys = "none" THEN "default" ELSE saved.keys
  /\ editor = "loading" /\ rendered = "default" /\ handle = FALSE /\ vim = "none"

-----------------------------------------------------------------------------
(* The menus. *)

\* Mutant: the settings are not looked at.
ClosedByRunOnly(p) == IF p[2] = "run" THEN {} ELSE {"settings", "wallet"}

\* handleClickOutside: the settings close unless the mouse is in them, and the
\* wallet menu unless it is in the run menu, to which walletMenuRef is attached.
ClosedBy(p) == (IF p[2] = "settings" THEN {} ELSE {"settings"}) \cup
               (IF p[2] = "run" THEN {} ELSE {"wallet"})

Press(p) ==
  /\ press = Nowhere
  /\ p[1] = "item" => p[2] \in open
  /\ press' = p
  /\ open' = open \ ClosedBy(p)
  /\ UNCHANGED <<themes, keys, saved, adapter>>

\* The click that follows: a button toggles its menu, an item of the run menu
\* closes it.  What is no longer there gets no click.
Click ==
  /\ press # Nowhere
  /\ press # <<"item", "settings">>
  /\ press' = Nowhere
  /\ LET m == press[2] IN
     open' = IF press[1] = "button" /\ m \notin open THEN open \cup {m}
             ELSE IF press[1] = "button" \/ m = "run" THEN open \ {m} ELSE open
  /\ UNCHANGED <<themes, keys, saved, adapter>>

\* An item of the settings is clicked, or chosen with the keyboard.
Choose ==
  /\ press \in {Nowhere, <<"item", "settings">>}
  /\ "settings" \in open
  /\ press' = Nowhere
  /\ open' = open \ {"settings"}

-----------------------------------------------------------------------------
(* The theme. *)

SetThemeMode(m) ==
  /\ Choose
  /\ mode' = m /\ theme' = ComputeTheme(m)
  /\ saved' = [saved EXCEPT !.mode = m]
  /\ changed' = (changed /\ m = "system")
  /\ UNCHANGED <<os, keys, adapter>>

\* Mutant: nobody listens.
OsChangesUnheard ==
  /\ os' \in Themes \ {os}
  /\ changed' = FALSE
  /\ UNCHANGED <<menus, theme, mode, keys, saved, adapter>>

\* While the mode is "system" the effect of App listens.
OsChanges ==
  /\ os' \in Themes \ {os}
  /\ changed' = (mode = "system")
  /\ UNCHANGED <<menus, theme, mode, keys, saved, adapter>>

SyncSystemTheme ==
  /\ changed
  /\ changed' = FALSE
  /\ theme' = IF mode = "system" THEN ComputeTheme(mode) ELSE theme
  /\ UNCHANGED <<menus, os, mode, keys, saved, adapter>>

-----------------------------------------------------------------------------
(* The keybindings. *)

\* Mutant: the choice is forgotten.
SavedKeysNever(k) == saved

SavedKeys(k) == [saved EXCEPT !.keys = k]

\* The effect attaches the adapter to the editor of editorRef, be it gone, or
\* disposes of it.
SetKeybindingMode(k) ==
  /\ Choose
  /\ keys' = k
  /\ saved' = SavedKeys(k)
  /\ vim' = IF k = keys \/ ~handle THEN vim
            ELSE IF k = "default" THEN "none"
            ELSE IF vim # "none" THEN vim
            ELSE IF editor = "mounted" THEN "attached" ELSE "left"
  /\ UNCHANGED <<themes, editor, rendered, handle>>

\* Mutant: the adapter does without a status line.
AdapterBare(k) == IF k = "vim" THEN "attached" ELSE vim

\* A rendering with vim keys replaces the adapter, if the status line is there.
Adapter(k) == IF k = "default" THEN vim ELSE IF keys = "vim" THEN "attached" ELSE "none"

\* handleEditorMount, of the first rendering or of the latest.
EditorMounts ==
  /\ editor = "loading"
  /\ editor' = "mounted" /\ handle' = TRUE
  /\ \E k \in {rendered, keys} : vim' = Adapter(k)
  /\ UNCHANGED <<menus, themes, keys, saved, rendered>>

\* The last tab is closed, and a file is opened again.
EditorGoes ==
  /\ editor # "absent"
  /\ editor' = "absent"
  /\ vim' = IF vim = "attached" THEN "left" ELSE vim
  /\ UNCHANGED <<menus, themes, keys, saved, rendered, handle>>

EditorComes ==
  /\ editor = "absent"
  /\ editor' = "loading" /\ rendered' = keys
  /\ UNCHANGED <<menus, themes, keys, saved, handle, vim>>

\* On a narrow screen another tab unmounts EditorPane, whose cleanup disposes of
\* the adapter.
PaneGoes ==
  /\ editor' = "absent" /\ handle' = FALSE /\ vim' = "none"
  /\ UNCHANGED <<menus, themes, keys, saved, rendered>>

PreferencesNext ==
  \/ \E p \in Places : Press(p)
  \/ Click
  \/ \E m \in Modes : SetThemeMode(m)
  \/ OsChanges \/ SyncSystemTheme
  \/ \E k \in Keys : SetKeybindingMode(k)
  \/ EditorMounts \/ EditorGoes \/ EditorComes \/ PaneGoes

PreferencesSpec == PreferencesInit /\ [][PreferencesNext]_preferences
-----------------------------------------------------------------------------
PreferencesTypeOK ==
  /\ open \subseteq Menus /\ press \in Places
  /\ {os, theme} \subseteq Themes /\ mode \in Modes /\ keys \in Keys
  /\ changed \in BOOLEAN /\ handle \in BOOLEAN
  /\ editor \in {"absent", "loading", "mounted"} /\ rendered \in Keys
  /\ vim \in {"none", "attached", "left"}

\* A press on an item of the run menu or the settings finds it still there when
\* the click comes.  (The wallet menu has closed by then.)
PressArrives == press[1] = "item" /\ press[2] # "wallet" => press[2] \in open

\* The theme is the one chosen, or that of the system unless the news of its
\* change is on its way; and both choices are those a reload would find.
ThemeFollows == ~changed => theme = ComputeTheme(mode)

ChoicesSaved ==
  /\ saved.mode \in {mode, "none"} /\ (saved.mode = "none" => mode = "dark")
  /\ saved.keys \in {keys, "none"} /\ (saved.keys = "none" => keys = "default")

\* Menus, theme and storage agree with what the user did.
PreferencesSound == PressArrives /\ ThemeFollows /\ ChoicesSaved

\* No adapter is left with default keys, in whatever order the editor and the
\* choice come and go.
NoVimInDefault == keys = "default" => vim = "none"
=============================================================================
