----------------------------- MODULE MCCHashMapIter -----------------------------
(***************************************************************************)
(* Bounds of CHashMapIter: two keys in the first shard, one in the second.  *)
(***************************************************************************)
EXTENDS CHashMapIter, TLC

CONSTANTS k1, k2, k3

MCShardOf == (k1 :> 0) @@ (k2 :> 0) @@ (k3 :> 1)
MCSymmetry == Permutations({k1, k2})
=================================================================================
