------------------------------ MODULE MCRouter ------------------------------
(* The instances TLC checks: two neighbours and a host behind one of them.  *)
EXTENDS Router, TLC

CONSTANTS h1, h2, far

Topology == (h1 :> h1) @@ (h2 :> h2) @@ (far :> h2)
=============================================================================
