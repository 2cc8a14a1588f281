----------------------------- MODULE MCArcCounts -----------------------------
(* ArcCounts on a small instance. *)
EXTENDS ArcCounts, TLC

Perms == Permutations(Threads) \union Permutations(Handles)
===============================================================================
