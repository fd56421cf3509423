------------------------------ MODULE PathRules ------------------------------
(***************************************************************************)
(* What the page and the backend make of the text of a path: normalizePath,*)
(* validateFolderPath and validateFilePath of pathRules.ts, and the path   *)
(* rules of the backend's Validator.                                       *)
(*                                                                         *)
(* A text is the sequence of its pieces: a slash, a backslash, a blank, a  *)
(* dot, a drive such as C:, or a run of other characters.                  *)
(***************************************************************************)
EXTENDS Naturals, Sequences, SequencesExt

CONSTANT Drives   \* pieces that are a letter and a colon

Slash == "/"

Opens(t, i)  == i = 1 \/ t[i - 1] = Slash          \* a name starts at i
Closes(t, i) == i = Len(t) \/ t[i + 1] = Slash     \* a name ends at i

\* The places of t where a name starts with a dot.
HiddenAt(t) == {i \in DOMAIN t : t[i] = "." /\ Opens(t, i)}

GoesUp(t) == \E i \in DOMAIN t \ {1} : t[i - 1] = "." /\ t[i] = "."

-----------------------------------------------------------------------------
(* pathRules.ts *)

Trim(t) ==
  LET solid == {i \in DOMAIN t : t[i] # " "} IN
  IF solid = {} THEN <<>> ELSE SubSeq(t, Min(solid), Max(solid))

\* Mutant: slashes are not collapsed.
NormalizePathLoosely(value) ==
  LET slashed == [i \in DOMAIN Trim(value) |->
                    IF Trim(value)[i] = "\\" THEN Slash ELSE Trim(value)[i]]
      kept    == {i \in DOMAIN slashed : \E j \in i..Len(slashed) : slashed[j] # Slash}
  IN IF kept = {} THEN <<>> ELSE SubSeq(slashed, 1, Max(kept))

NormalizePath(value) ==
  LET slashed == [i \in DOMAIN Trim(value) |->
                    IF Trim(value)[i] = "\\" THEN Slash ELSE Trim(value)[i]]
      add(t, c) == IF c = Slash /\ t # <<>> /\ Last(t) = Slash THEN t ELSE Append(t, c)
      single  == FoldLeft(add, <<>>, slashed)
  IN IF single # <<>> /\ Last(single) = Slash THEN Front(single) ELSE single

\* Mutant: names that start with a dot are let through.
FolderPathHidden(t) ==
  /\ t # <<>>
  /\ t[1] # Slash /\ t[1] \notin Drives
  /\ ~GoesUp(t)

\* validateFolderPath and validateFilePath of a normalized text: it is taken.
FolderPath(t) ==
  /\ t # <<>>
  /\ t[1] # Slash /\ t[1] \notin Drives
  /\ ~GoesUp(t)
  /\ HiddenAt(t) = {}

FilePath(t) ==
  /\ t # <<"Move", ".", "toml">>
  /\ IsSuffix(<<".", "move">>, t)
  /\ FolderPath(t)

-----------------------------------------------------------------------------
(* validator.rs and the file system *)

\* Path::extension: what follows the last dot of the last name, unless the name
\* has no other dot than the one it starts with.
Extension(t) ==
  LET dots == {i \in DOMAIN t : t[i] = "." /\ ~Opens(t, i)}
      last == Max(dots)
  IN IF dots = {} \/ \E i \in last..Len(t) : t[i] = Slash THEN <<>>
     ELSE SubSeq(t, last + 1, Len(t))

\* validate_file_paths, of one file.
ServedPath(t) ==
  /\ t = <<>> \/ t[1] \notin {Slash, "\\"}
  /\ ~GoesUp(t)
  /\ \A i \in HiddenAt(t) : Closes(t, i)
  /\ Extension(t) \in {<<"move">>, <<"toml">>}

\* The names of a path below the directory of the workspace, where the empty
\* one and "." are the directory they are in.
Place(t) ==
  LET add(names, c)    == IF c = Slash THEN Append(names, <<>>)
                          ELSE [names EXCEPT ![Len(names)] = Append(@, c)]
      enter(dir, name) == IF name \in {<<>>, <<".">>} THEN dir ELSE Append(dir, name)
  IN FoldLeft(enter, <<>>, FoldLeft(add, <<<<>>>>, t))
=============================================================================
