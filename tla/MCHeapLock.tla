----------------------------- MODULE MCHeapLock -----------------------------
(* Small instances of HeapLock for TLC. *)
EXTENDS HeapLock, TLC

CONSTANTS t1, t2, t3, b1, b2, b3

Threads3 == {t1, t2, t3}
Boxes3 == {b1, b2, b3}
Threads2 == {t1, t2}
Boxes2 == {b1, b2}
Symmetry == Permutations(Threads3) \union Permutations(Boxes3)
=============================================================================
