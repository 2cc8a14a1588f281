------------------------- MODULE FallibleCollection -------------------------
(***************************************************************************)
(* What the fallible extensions of the std collections promise              *)
(* (rustyfill/src/alloc/{vec,vecdeque,linked_list,binary_heap},             *)
(* rustyfill/src/std/hashmap, rustyfill/src/try_extend, .../recovery).  A   *)
(* call that takes its items from the caller does all of it or nothing.  An *)
(* extension from a source may stop part way, and then the collection and   *)
(* what it hands back hold, between them, every item exactly once.          *)
(***************************************************************************)
EXTENDS Contents

CONSTANT NoCall

Ops == {"push_back", "push_front", "insert", "rollback", "within", "resize",
        "resize_with", "append", "shrink", "box", "collect", "from_slice"}
Request == [op : Ops, xs : Seq(Elems), at : Nat, to : Nat]

VARIABLES
  kind,
  self,    \* the collection's contents
  other,   \* those of the collection an append drains
  asked,   \* the all-or-nothing call in progress, or NoCall
  given    \* what a source still has to deliver

cvars == <<kind, self, other, asked, given>>

Init ==
  /\ kind \in Kinds
  /\ self = EmptyOf(kind) /\ other = EmptyOf(kind)
  /\ asked = NoCall
  /\ given = << >>

Ask ==
  /\ asked = NoCall
  /\ asked' \in Request
  /\ other' = other \/ asked'.op = "append"
  /\ UNCHANGED <<kind, self, given>>

Grant ==
  /\ asked # NoCall /\ ~OutOfBounds(self, asked)
  /\ asked' = NoCall
  /\ IF asked.op = "append"
     THEN self' = PutAll(kind, self, other) /\ other' = EmptyOf(kind)
     ELSE self' = Outcome(kind, self, asked) /\ UNCHANGED other
  /\ UNCHANGED <<kind, given>>

\* A heap's refused append may have exchanged the two heaps.
Refuse ==
  /\ asked # NoCall
  /\ asked' = NoCall
  /\ \/ UNCHANGED <<self, other>>
     \/ kind = "heap" /\ asked.op = "append" /\ self' = other /\ other' = self
  /\ UNCHANGED <<kind, given>>

Give ==
  /\ asked = NoCall /\ given = << >>
  /\ given' \in Seq(Elems)
  /\ UNCHANGED <<kind, self, other, asked>>

Commit ==
  /\ given # << >>
  /\ self' = Put(kind, self, Head(given))
  /\ given' = Tail(given)
  /\ UNCHANGED <<kind, other, asked>>

\* The caller drops what a failed call left it.
Abandon ==
  /\ asked = NoCall
  /\ given' = << >> /\ other' = EmptyOf(kind)
  /\ UNCHANGED <<kind, self, asked>>

\* It takes an item out of the collection, or drops the collection.
Leave ==
  /\ asked = NoCall
  /\ \/ self' = EmptyOf(kind)
     \/ /\ kind # "map" /\ self # << >> /\ self' = Front(self)
     \/ /\ kind = "map"
        /\ \E x \in DOMAIN self : self' = [y \in DOMAIN self \ {x} |-> self[y]]
  /\ UNCHANGED <<kind, other, asked, given>>

Next == Ask \/ Grant \/ Refuse \/ Give \/ Commit \/ Abandon \/ Leave

Spec == Init /\ [][Next]_cvars
===============================================================================
