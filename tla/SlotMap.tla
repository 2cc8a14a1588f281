-------------------------------- MODULE SlotMap --------------------------------
(***************************************************************************)
(* rustyfill::collections::slotmap::SlotMap: values under versioned keys.   *)
(* A slot's word u is a union: the value while the version is odd, the next *)
(* link of the freelist while it is even, DANGLING while the key is         *)
(* detached.  The freelist ends at Len(slots), which is also where the next *)
(* fresh slot goes.                                                         *)
(***************************************************************************)
EXTENDS Integers, FiniteSets, Sequences

CONSTANTS
  MaxSlotsLen,   \* MAX_SLOTS_LEN, slots.len() never exceeds it
  Half,          \* versions are counted modulo 2 * Half (2^32 in the code)
  Values,        \* the values stored
  MaxIssues,     \* bound: how many keys a slot issues
  MaxCapacity    \* bound: the largest capacity the allocator grants

ASSUME LenAssumption == MaxSlotsLen \in Nat \ {0, 1}
ASSUME HalfAssumption == Half \in Nat \ {0}
ASSUME CapacityAssumption == MaxCapacity \in Nat

VMod == 2 * Half
Dangling == MaxSlotsLen + 1        \* DANGLING_SENTINEL = MAX_SLOTS_LEN + 1
Idx == 0 .. MaxSlotsLen - 1
Keys == [idx : Idx, version : 0 .. VMod - 1]

VARIABLES
  version,    \* version[i]: the version counter of slot i
  u,          \* u[i]: the union word of slot i
  len,        \* slots.len()
  cap,        \* slots.capacity()
  free_head,
  num_elems,
  sweep,      \* the retain or drain that borrows the map, and its cursor
  issued,     \* history: issued[i], the versions slot i handed out, in order
  credit      \* history: elements the last try_reserve still promises to take

vars == <<version, u, len, cap, free_head, num_elems, sweep, issued, credit>>

NoSweep == [kind |-> "none", cur |-> 0]

TypeOK ==
  /\ version \in [Idx -> 0 .. VMod - 1]
  /\ u \in [Idx -> Values \union (0 .. MaxSlotsLen + 1)]
  /\ len \in 1 .. MaxSlotsLen
  /\ cap \in Nat
  /\ free_head \in 1 .. MaxSlotsLen
  /\ num_elems \in Int
  /\ sweep \in [kind : {"none", "retain", "drain"}, cur : 0 .. MaxSlotsLen]
  /\ issued \in [Idx -> Seq(0 .. VMod - 1)]
  /\ credit \in Nat

Occupied(i) == version[i] % 2 = 1
Used == {i \in 1 .. len - 1 : Occupied(i)}
Detached == {i \in 1 .. len - 1 : ~Occupied(i) /\ u[i] = Dangling}
Free == {i \in 1 .. len - 1 : ~Occupied(i) /\ u[i] # Dangling}

BumpUnwrapped(v) == v + 1                   \* mutant of Bump: no wrap-around
Bump(v) == (v + 1) % VMod                   \* wrapping_add(1)
Drop1(v) == (v + VMod - 1) % VMod           \* wrapping_sub(1)
Odd(v) == IF v % 2 = 1 THEN v ELSE v + 1    \* version | 1

ContainsKey(k) == k.idx < len /\ version[k.idx] = k.version

\* try_with_capacity_and_key: the sentinel slot at index 0, and room for capacity.
WithCapacityRejects(capacity) == capacity >= MaxSlotsLen - 1
Init ==
  /\ version = [i \in Idx |-> 0]
  /\ u = [i \in Idx |-> 0]
  /\ len = 1
  /\ \E capacity \in 0 .. MaxCapacity - 1 : ~WithCapacityRejects(capacity) /\ cap = capacity + 1
  /\ free_head = 1
  /\ num_elems = 0
  /\ sweep = NoSweep
  /\ issued = [i \in Idx |-> <<>>]
  /\ credit = 0

(***************************************************************************)
(* Vec::try_reserve(n) (std, amortised growth).                             *)
(***************************************************************************)
Larger(a, b) == IF a >= b THEN a ELSE b
HasRoom(n) == cap - len >= n
Grown(n) == Larger(Larger(2 * cap, len + n), 4)
Reserved(n) ==
  \/ HasRoom(n) /\ UNCHANGED cap
  \/ ~HasRoom(n) /\ Grown(n) <= MaxCapacity /\ cap' = Grown(n)

(***************************************************************************)
(* Insertion: insert_inner.                                                 *)
(***************************************************************************)
Idle == sweep = NoSweep

Spent == IF credit > 0 THEN credit - 1 ELSE 0

Stored(i, v, ver) ==
  /\ u' = [u EXCEPT ![i] = v]
  /\ version' = [version EXCEPT ![i] = ver]
  /\ num_elems' = num_elems + 1
  /\ issued' = [issued EXCEPT ![i] = Append(@, ver)]
  /\ credit' = Spent

\* Mutants of InsertReuse: the head of the freelist is not advanced; the freed
\* slot's version is handed out again.
InsertReuseKeepsHead(v) ==
  /\ Idle /\ free_head < len
  /\ Len(issued[free_head]) < MaxIssues
  /\ Stored(free_head, v, Odd(version[free_head]))
  /\ UNCHANGED <<free_head, len, cap, sweep>>
InsertReuseSameVersion(v) ==
  /\ Idle /\ free_head < len
  /\ Len(issued[free_head]) < MaxIssues
  /\ Stored(free_head, v, 1)
  /\ free_head' = u[free_head]
  /\ UNCHANGED <<len, cap, sweep>>

\* The fast path: the head of the freelist is taken, with its version made odd.
InsertReuse(v) ==
  /\ Idle /\ free_head < len
  /\ Len(issued[free_head]) < MaxIssues
  /\ Stored(free_head, v, Odd(version[free_head]))
  /\ free_head' = u[free_head]
  /\ UNCHANGED <<len, cap, sweep>>

\* Mutant of InsertGrow: free_head keeps pointing at the slot just filled.
InsertGrowKeepsHead(v) ==
  /\ Idle /\ free_head >= len /\ len < MaxSlotsLen
  /\ MaxIssues > 0
  /\ Reserved(1)
  /\ Stored(len, v, 1)
  /\ len' = len + 1
  /\ UNCHANGED <<free_head, sweep>>

\* No free slot: reserve one, push it, and move the end of the freelist.
InsertGrow(v) ==
  /\ Idle /\ free_head >= len /\ len < MaxSlotsLen
  /\ MaxIssues > 0
  /\ Reserved(1)
  /\ Stored(len, v, 1)
  /\ free_head' = len + 1
  /\ len' = len + 1
  /\ UNCHANGED sweep

\* The closure of try_insert_with_key fails: after the reservation, before any
\* other change.  (A failed reservation or a full map changes nothing.)
InsertClosureFails ==
  /\ Idle /\ free_head >= len /\ len < MaxSlotsLen
  /\ Reserved(1) /\ cap' # cap
  /\ UNCHANGED <<version, u, len, free_head, num_elems, sweep, issued, credit>>

(***************************************************************************)
(* Reservation: try_reserve.                                                *)
(***************************************************************************)
ReserveRejects(additional) == num_elems + additional >= MaxSlotsLen - 1
Needed(additional) == Larger(0, num_elems + additional - (len - 1))

\* Mutant of TryReserve: counts freed slots twice.
TryReserveShort(additional) ==
  /\ Idle /\ ~ReserveRejects(additional)
  /\ Reserved(Larger(0, Needed(additional) - 1))
  /\ credit' = additional
  /\ UNCHANGED <<version, u, len, free_head, num_elems, sweep, issued>>

TryReserve(additional) ==
  /\ Idle /\ ~ReserveRejects(additional)
  /\ Reserved(Needed(additional))
  /\ credit' = additional
  /\ UNCHANGED <<version, u, len, free_head, num_elems, sweep, issued>>

(***************************************************************************)
(* Removal: remove, detach, reattach, and the loops that call               *)
(* remove_from_slot.                                                        *)
(***************************************************************************)

RemoveFromSlot(i) ==
  /\ u' = [u EXCEPT ![i] = free_head]
  /\ free_head' = i
  /\ num_elems' = num_elems - 1
  /\ version' = [version EXCEPT ![i] = Bump(@)]

Remove(k) ==
  /\ Idle /\ ContainsKey(k)
  /\ RemoveFromSlot(k.idx)
  /\ UNCHANGED <<len, cap, sweep, issued, credit>>

\* Mutant of Detach: the slot becomes the head of the freelist as well.
DetachFrees(k) ==
  /\ Idle /\ ContainsKey(k)
  /\ u' = [u EXCEPT ![k.idx] = Dangling]
  /\ version' = [version EXCEPT ![k.idx] = Bump(@)]
  /\ num_elems' = num_elems - 1
  /\ free_head' = k.idx
  /\ UNCHANGED <<len, cap, sweep, issued, credit>>

\* The slot is reserved for reattach: neither occupied nor on the freelist.
Detach(k) ==
  /\ Idle /\ ContainsKey(k)
  /\ u' = [u EXCEPT ![k.idx] = Dangling]
  /\ version' = [version EXCEPT ![k.idx] = Bump(@)]
  /\ num_elems' = num_elems - 1
  /\ UNCHANGED <<len, cap, free_head, sweep, issued, credit>>

CanReattach(k) ==
  k.idx < len /\ version[k.idx] = Bump(k.version) /\ u[k.idx] = Dangling

Reattach(k, v) ==
  /\ Idle /\ CanReattach(k)
  /\ u' = [u EXCEPT ![k.idx] = v]
  /\ version' = [version EXCEPT ![k.idx] = Drop1(@)]
  /\ num_elems' = num_elems + 1
  /\ credit' = Spent
  /\ UNCHANGED <<len, cap, free_head, sweep, issued>>

\* retain borrows the map; so does Drain.
StartSweep(kind) ==
  /\ Idle
  /\ sweep' = [kind |-> kind, cur |-> 1]
  /\ UNCHANGED <<version, u, len, cap, free_head, num_elems, issued, credit>>

SweepOver == sweep.cur >= len

\* One iteration: retain asks the predicate, Drain::next takes every element.
SweepRemove ==
  /\ ~Idle /\ ~SweepOver /\ Occupied(sweep.cur)
  /\ RemoveFromSlot(sweep.cur)
  /\ sweep' = [sweep EXCEPT !.cur = @ + 1]
  /\ UNCHANGED <<len, cap, issued, credit>>

SweepSkip ==
  /\ ~Idle /\ ~SweepOver
  /\ Occupied(sweep.cur) => sweep.kind = "retain"
  /\ sweep' = [sweep EXCEPT !.cur = @ + 1]
  /\ UNCHANGED <<version, u, len, cap, free_head, num_elems, issued, credit>>

\* The borrow ends when the slots are exhausted (dropping a Drain runs it to its
\* end), or early: retain's predicate unwinds, a Drain is forgotten.
EndSweep ==
  /\ ~Idle
  /\ sweep' = NoSweep
  /\ UNCHANGED <<version, u, len, cap, free_head, num_elems, issued, credit>>

(***************************************************************************)
(* Composition.                                                            *)
(***************************************************************************)
IssuedKeys == {k \in Keys : \E n \in 1 .. Len(issued[k.idx]) : issued[k.idx][n] = k.version}

Insert == \E v \in Values : InsertReuse(v) \/ InsertGrow(v)
Sweeps == (\E kind \in {"retain", "drain"} : StartSweep(kind)) \/ SweepRemove \/ SweepSkip \/ EndSweep
Others ==
  \/ InsertClosureFails
  \/ \E n \in 1 .. MaxSlotsLen : TryReserve(n)
  \/ \E k \in IssuedKeys : Remove(k)
Detaching == \E k \in IssuedKeys : Detach(k) \/ \E v \in Values : Reattach(k, v)

Next == Insert \/ Others \/ Sweeps \/ Detaching
Spec == Init /\ [][Next]_vars

(***************************************************************************)
(* get_disjoint_mut: walk the keys, flipping the low version bit of each    *)
(* slot taken so that a repeated key no longer matches; then flip back the  *)
(* slots taken.                                                             *)
(***************************************************************************)
Flip(v) == IF v % 2 = 1 THEN v - 1 ELSE v + 1      \* version ^= 1

\* Versions and number of keys taken after the first n iterations.
Taken(ks) ==
  LET at[n \in 0 .. Len(ks)] ==
        IF n = 0 THEN [ver |-> version, n |-> 0]
        ELSE LET s == at[n - 1]  k == ks[n]
             IN IF s.n = n - 1 /\ k.idx < len /\ s.ver[k.idx] = k.version
                THEN [ver |-> [s.ver EXCEPT ![k.idx] = Flip(@)], n |-> n]
                ELSE s
  IN at[Len(ks)]
\* Mutant of FlippedBack: also flips the keys that were never taken.
FlippedBackAll(ks, s) ==
  LET at[n \in 0 .. Len(ks)] ==
        IF n = 0 THEN s.ver ELSE [at[n - 1] EXCEPT ![ks[n].idx] = Flip(@)]
  IN at[Len(ks)]
FlippedBack(ks, s) ==
  LET at[n \in 0 .. s.n] ==
        IF n = 0 THEN s.ver ELSE [at[n - 1] EXCEPT ![ks[n].idx] = Flip(@)]
  IN at[s.n]
GetDisjoint(ks) ==
  LET s == Taken(ks) IN [found |-> s.n = Len(ks), version |-> FlippedBack(ks, s)]

(***************************************************************************)
(* Properties.                                                             *)
(***************************************************************************)

\* The freelist, walked for n links.
Chain[n \in 0 .. MaxSlotsLen] ==
  IF n = 0 THEN free_head
  ELSE IF Chain[n - 1] \in Free THEN u[Chain[n - 1]] ELSE Chain[n - 1]

\* A slot is used, detached or free; the freelist reaches each free slot exactly
\* once and ends at Len(slots).  A lost link leaks slots for good; a wrong one
\* makes insert overwrite a live value (basic.rs:375-391, 523-536).
FreeChain == {Chain[n] : n \in 0 .. MaxSlotsLen} = Free \union {len}

\* num_elems counts the occupied slots, so len(), the iterators' num_left and
\* their "remaining count positive" expectations hold (basic.rs:384-389, 935-939).
CountsLive == num_elems = Cardinality(Used)

\* A key whose element was removed never names another element, until its slot
\* has been reused Half times and the version counter has wrapped
\* ("Keys are versioned so that once a key is removed it stays invalid even if
\* the underlying slot is reused", basic.rs:214-217).
StaleKeysStayInvalid ==
  \A i \in Idx : \A n \in 1 .. Len(issued[i]) :
    /\ n < Len(issued[i])
    /\ Len(issued[i]) - n < Half
    => ~ContainsKey([idx |-> i, version |-> issued[i][n]])

\* A detached key stays reattachable until it is reattached, whatever else the
\* map does: its slot is not handed out (basic.rs:472-518).
DetachedStayReserved ==
  [][\A i \in Detached : i \in Detached' \/ (i \in Used' /\ version'[i] = Drop1(version[i]))]_vars

\* Whatever was drained is gone: a Drain leaves no element behind its cursor
\* (basic.rs:872-888).
DrainClears ==
  sweep.kind = "drain" => \A i \in Used : i >= sweep.cur

\* What try_reserve does promise: the elements to come, put in by insert or back
\* by reattach, have a free slot, a detached slot or spare capacity each, below
\* the maximum slot count (basic.rs:316-329).
ReservedOrDetached ==
  credit > 0 => /\ Cardinality(Free) + Cardinality(Detached) + (cap - len) >= credit
                /\ Cardinality(Free) + Cardinality(Detached) + (MaxSlotsLen - len) >= credit

\* get_disjoint_mut succeeds exactly on live, pairwise different keys, and
\* leaves every version as it was, also when it gives up midway
\* (basic.rs:615-647).
DisjointKeys ==
  \A k1, k2 \in IssuedKeys :
    LET r == GetDisjoint(<<k1, k2>>) IN
      /\ r.version = version
      /\ r.found <=> ContainsKey(k1) /\ ContainsKey(k2) /\ k1 # k2
===============================================================================
