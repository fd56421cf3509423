----------------------------- MODULE MCExplorer -----------------------------
(* Three names, two of which folders may have: `main.move' among them, which *)
(* makes a path that is a file and a folder possible.  Shared workspaces     *)
(* come with and without a Move.toml.                                        *)
EXTENDS Explorer

MCNames     == {"Move.toml", "sources", "main.move"}
MCMoveNames == {"main.move"}
MCMain      == <<"sources", "main.move">>
MCPaths     == {<<"main.move">>, <<"sources">>, <<"sources", "sources">>,
                <<"sources", "main.move">>, <<"main.move", "main.move">>}
MCShares    == {<<<<"Move.toml">>, <<"main.move">>>>, <<<<"sources", "main.move">>>>}

\* For the drop of a nested folder.
MCDropNames == MCNames \cup {"lib"}
MCDropPaths == {<<"sources", "lib">>}
MCNoShares  == {}
=============================================================================
