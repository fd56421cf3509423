------------------------------ MODULE MCShare ------------------------------
(* A page that opens what it shared, or was sharing meanwhile.  There are the *)
(* initial workspace, one with an underscore in a file's name, one with a    *)
(* folder below sources as well, and one with too many files.                *)
EXTENDS Share, TLC

CONSTANTS page, one, two, none, some

Toml == <<"Move.toml">>
Main == <<"sources", "/", "main.move">>
Coin == <<"sources", "/", "my", "_", "coin.move">>
Deep == <<"sources", "/", "my", "/", "coin.move">>

MCTokens  == {"sources", "/", "_", "my", "main.move", "coin.move", "Move.toml"}
MCPages   == {page}
MCBooks   == {none, some}
MCDefault == (Toml :> one) @@ (Main :> one)
MCWorkspaces == {MCDefault, (Coin :> two), (Coin :> one) @@ (Deep :> two),
                 MCDefault @@ (Coin :> one)}

\* Named addresses go with the workspaces that are shared and come back.
Plain == \A p \in Pages : editor[p].book = none \/ editor[p].files \in {MCDefault, (Coin :> two)}
=============================================================================
