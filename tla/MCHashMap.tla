----------------------------- MODULE MCHashMap -----------------------------
(* Four keys whose home buckets collide, and wrap, at every capacity. *)
EXTENDS HashMap, TLC

CONSTANTS k1, k2, k3, k4

MCKeys == {k1, k2, k3, k4}
MCHash == k1 :> 3 @@ k2 :> 3 @@ k3 :> 7 @@ k4 :> 15
=============================================================================
