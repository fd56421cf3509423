------------------------------ MODULE MCServer ------------------------------
(* Three connections from an address with two slots, one from another.     *)
EXTENDS Server, TLC

CONSTANTS a, b, c1, c2, c3, c4

MCConns  == {c1, c2, c3, c4}
MCIps    == {a, b}
MCSource == (c1 :> a) @@ (c2 :> a) @@ (c3 :> a) @@ (c4 :> b)
=============================================================================
