------------------------------- MODULE MCInterner -------------------------------
(***************************************************************************)
(* Bounds of Interner: two values that share a shard, hashes without a      *)
(* collision.                                                               *)
(***************************************************************************)
EXTENDS Interner, TLC

CONSTANTS v1, v2, h1, h2, h3, h4, s1

MCHash == (v1 :> h1) @@ (v2 :> h2)
MCHashOne == (h1 :> h3) @@ (h2 :> h4) @@ (h3 :> h3) @@ (h4 :> h4)
MCShardOf == (v1 :> s1) @@ (v2 :> s1)
MCSymmetry == Permutations(Threads) \union Permutations(Arcs)
=================================================================================
