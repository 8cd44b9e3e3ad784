---------------------------- MODULE MCTaskArena ----------------------------
(* k1 and k2 use the workers, k3 is run inline, k4 has no items. *)
EXTENDS TaskArena, TLC

CONSTANTS k1, k2, k3, k4
FourCalls == k1 :> 2 @@ k2 :> 2 @@ k3 :> 1 @@ k4 :> 0
=============================================================================
