----------------------------- MODULE MCSlotMaps -----------------------------
(***************************************************************************)
(* SlotMap and SecondaryMap on a small instance.  One slot may go through   *)
(* all of its versions while the secondary map is not used; once it is, the *)
(* primary map only changes the keys that are live, and one slot is used a  *)
(* second time.  What the primary map stores is all one.                    *)
(***************************************************************************)
EXTENDS SecondaryMap, TLC
CONSTANTS v1, v2
TwoValues == {v1, v2}

SecUnused == sec_len = 1 /\ SecIdle
Issues(n) == {i \in Idx : Len(issued[i]) >= n}
Bounded ==
  /\ \A i \in Used : u[i] = v1
  /\ Issues(3) # {} => SecUnused
  /\ Issues(3) # {} \/ ~SecUnused => Cardinality(Issues(2)) <= 1

Primary == Insert \/ (\E k \in IssuedKeys : Remove(k)) \/ Detaching
Interleaved ==
  \/ SecUnused /\ UNCHANGED secVars
  \/ SecUnused /\ Idle /\ credit = 0
  \/ ~SecUnused /\ (Primary \/ UNCHANGED vars)
===============================================================================
