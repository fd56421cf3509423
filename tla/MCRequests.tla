----------------------------- MODULE MCRequests -----------------------------
(* Paths with blanks, backslashes, doubled and trailing slashes, dots where  *)
(* they are good and where they are not, and a drive below a folder.         *)
EXTENDS Diagnostics

MCTyped ==
  {<<"a", ".", "move">>,
   <<" ", "a", "\\", "a", ".", "move", Slash>>,
   <<"a", Slash, Slash, "a", ".", "move">>,
   <<Slash, "a", ".", "move">>, <<"C:", "\\", "a", ".", "move">>,
   <<"a", Slash, ".", ".", Slash, "a", ".", "move">>,
   <<"a", Slash, ".", "move">>, <<"a", ".", ".", "move">>,
   <<"Move", ".", "toml", Slash>>, <<"a", ".", "toml">>, <<" ", Slash>>,
   <<"a", Slash, " ", "a", Slash>>, <<"a", Slash, "C:">>, <<".", "a">>}

\* The CLI speaks of the initial workspace, sizes change while there are few
\* paths, and a request, which is a copy, is looked at before the next change.
Alone ==
  /\ verdict # "none" => files = sent
  /\ \/ diagnostics = <<<<>>, <<>>, <<>>>>
     \/ files = [p \in {Toml, Main} |-> 1] /\ virtual = {}
  /\ \/ MapThenSumSet(LAMBDA p : files[p], DOMAIN files) = 2
     \/ virtual = {} /\ DOMAIN files \subseteq {Toml, Main, <<"a", ".", "move">>}
=============================================================================
