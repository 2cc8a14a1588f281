------------------------------- MODULE MCCHashMap -------------------------------
(***************************************************************************)
(* Bounds of CHashMap: two keys in one shard and one in the other.          *)
(***************************************************************************)
EXTENDS CHashMap, TLC

CONSTANTS k1, k2, k3

MCShardOf == (k1 :> 0) @@ (k2 :> 0) @@ (k3 :> 1)
=================================================================================
