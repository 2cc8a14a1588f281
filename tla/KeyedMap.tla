-------------------------------- MODULE KeyedMap --------------------------------
(***************************************************************************)
(* What a concurrent map promises its callers, key by key and with no word  *)
(* of shards: whoever holds a reference to an element, shared or exclusive, *)
(* sees nobody else change it.                                              *)
(***************************************************************************)
CONSTANTS Threads, Keys, Values, NoValue

VARIABLES
  map,      \* map[k]: the value under k, or NoValue
  holds     \* holds[k][t]: how thread t holds the element of k

Modes == {"none", "shared", "exclusive"}

Init ==
  /\ map = [k \in Keys |-> NoValue]
  /\ holds = [k \in Keys |-> [t \in Threads |-> "none"]]

\* t leaves key k held in mode h with value v.
Step(t, k, h, v) ==
  /\ \A x \in Threads \ {t} :
       /\ v # map[k] => holds[k][x] = "none"
       /\ h = "exclusive" => holds[k][x] = "none"
       /\ h = "shared" => holds[k][x] # "exclusive"
  /\ h = "shared" => v # NoValue
  /\ map' = [map EXCEPT ![k] = v]
  /\ holds' = [holds EXCEPT ![k][t] = h]

Next == \E t \in Threads, k \in Keys, h \in Modes, v \in Values \union {NoValue} : Step(t, k, h, v)
Spec == Init /\ [][Next]_<<map, holds>>
===============================================================================
