--------------------------- MODULE MCRateLimiter ---------------------------
(* Five connections from two addresses with two slots each: one address    *)
(* has fewer connections than slots, the other more.                       *)
EXTENDS RateLimiter, TLC

CONSTANTS a, b, t1, t2, t3, t4, t5

MCTasks  == {t1, t2, t3, t4, t5}
MCIps    == {a, b}
MCSource == (t1 :> a) @@ (t2 :> a) @@ (t3 :> a) @@ (t4 :> a) @@ (t5 :> b)
=============================================================================
