------------------------------- MODULE MCWatch -------------------------------
(* A watch and a view of the reactor r; a view and an effect of reactor q. *)
EXTENDS Watch, TLC

CONSTANTS r, q, s, g, e, m, v, w

MCHome == (s :> r) @@ (g :> r) @@ (e :> r) @@ (v :> r) @@ (w :> q) @@ (m :> q)
=============================================================================
