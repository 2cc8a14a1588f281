------------------------------ MODULE ArcCounts ------------------------------
(***************************************************************************)
(* The two reference counts of an Arc or Rc allocation                      *)
(* (rustyfill/src/alloc/arc/arc_.rs, rustyfill/src/alloc/rc/rc_.rs).  The   *)
(* fallible operations reach behind the standard library's types: they      *)
(* write the counts of a fresh allocation, and try_clone, try_downgrade and *)
(* try_upgrade raise them by fetch_update, a load and a compare-and-swap    *)
(* retried until it succeeds, where std would abort past a limit.  The      *)
(* standard library's own drops, try_unwrap, get_mut and new_cyclic run     *)
(* beside them on the same counts.                                         *)
(*                                                                         *)
(* One allocation is followed through its life and then made anew.  For an  *)
(* Rc, which never leaves its thread, the "threads" are the calls nested in *)
(* one another: a call starts inside user code another call runs (the       *)
(* value's Drop or try_clone, code holding a &mut to the value) and returns *)
(* before it.                                                              *)
(***************************************************************************)
EXTENDS Naturals, FiniteSets

CONSTANTS
  Threads,
  Handles,     \* the Arc, Rc and Weak values there can be
  NoHandle,
  MaxRefcount  \* isize::MAX

ASSUME HandlesAssumption == IsFiniteSet(Handles) /\ NoHandle \notin Handles
ASSUME MaxAssumption == MaxRefcount \in Nat /\ MaxRefcount >= 2

VARIABLES
  flavour,   \* "arc" or "rc"
  strong,    \* the strong count
  weak,      \* the weak count: 1 for all strong handles together, 1 per Weak
  held,      \* held[h]: "free", "strong", "weak", "dangling", or "claimed"
             \*          for the result of the call in progress
  value,     \* "none", "raw", "live", "dropped" or "taken"
  memory,    \* the allocation exists
  building,  \* the Weak that new_cyclic lends its closure, or NoHandle
  op,        \* the call each thread is in
  pc,        \* where in that call it is
  on,        \* the handle it was called on
  to,        \* where its result goes
  seen       \* the count it loaded last

vars == <<flavour, strong, weak, held, value, memory, building, op, pc, on, to, seen>>
data == <<strong, weak, held, value, memory, building>>

Max == MaxRefcount
Locked == 2 * Max + 1     \* usize::MAX: Arc::is_unique holds the weak count

Growing == {"clone", "downgrade", "wclone", "upgrade"}
Ops == Growing \union {"get_mut", "default", "unwrap", "drop", "none"}
PCs == {"idle", "load", "cas", "make", "lock", "check", "unlock", "mut",
        "unwrap", "copying", "dropping", "release", "dealloc", "panic"}

TypeOK ==
  /\ flavour \in {"arc", "rc"}
  /\ strong \in 0..Max
  /\ weak \in 0..Max \union {Locked}
  /\ held \in [Handles -> {"free", "strong", "weak", "dangling", "claimed"}]
  /\ value \in {"none", "raw", "live", "dropped", "taken"}
  /\ memory \in BOOLEAN
  /\ building \in Handles \union {NoHandle}
  /\ op \in [Threads -> Ops]
  /\ pc \in [Threads -> PCs]
  /\ on \in [Threads -> Handles \union {NoHandle}]
  /\ to \in [Threads -> Handles \union {NoHandle}]
  /\ seen \in [Threads -> Nat]

Init ==
  /\ flavour \in {"arc", "rc"}
  /\ strong = 0 /\ weak = 0
  /\ held = [h \in Handles |-> "free"]
  /\ value = "none"
  /\ memory = FALSE
  /\ building = NoHandle
  /\ op = [t \in Threads |-> "none"]
  /\ pc = [t \in Threads |-> "idle"]
  /\ on = [t \in Threads |-> NoHandle]
  /\ to = [t \in Threads |-> NoHandle]
  /\ seen = [t \in Threads |-> 0]

Goto(t, where) == pc' = [pc EXCEPT ![t] = where]

Return(t) ==
  /\ op' = [op EXCEPT ![t] = "none"]
  /\ pc' = [pc EXCEPT ![t] = "idle"]
  /\ on' = [on EXCEPT ![t] = NoHandle]
  /\ to' = [to EXCEPT ![t] = NoHandle]
  /\ seen' = [seen EXCEPT ![t] = 0]

\* User code runs here: an Rc can be used from within it.
UserCode == {"make", "mut", "copying", "dropping"}

\* An Rc's calls do not interleave, they nest.
Turn(t) == flavour = "rc" => \A u \in Threads \ {t} : pc[u] \in UserCode \union {"idle"}

Unborrowed(h) == \A u \in Threads : on[u] # h
Borrowable(h) == \A u \in Threads : on[u] = h => op[u] \in Growing

(***************************************************************************)
(* Making an allocation.                                                   *)
(***************************************************************************)

\* try_new, try_new_give_back, try_pin: both counts 1, the value in place.  An
\* allocation that fails changes nothing.
TryNew(h) ==
  /\ ~memory
  /\ held[h] = "free"
  /\ strong' = 1 /\ weak' = 1
  /\ held' = [held EXCEPT ![h] = "strong"]
  /\ value' \in {"live", "raw"}     \* "raw": try_new_uninit, try_new_zeroed
  /\ memory' = TRUE
  /\ UNCHANGED <<flavour, building, op, pc, on, to, seen>>

\* TryDefault for Arc<T> and Rc<T>: try_new_uninit, then T::try_default().
TryDefault(t, h) ==
  /\ pc[t] = "idle" /\ Turn(t)
  /\ ~memory
  /\ held[h] = "free"
  /\ strong' = 1 /\ weak' = 1
  /\ held' = [held EXCEPT ![h] = "strong"]
  /\ value' = "raw"
  /\ memory' = TRUE
  /\ op' = [op EXCEPT ![t] = "default"]
  /\ on' = [on EXCEPT ![t] = h]
  /\ Goto(t, "make")
  /\ UNCHANGED <<flavour, building, to, seen>>

\* T::try_default() returned a value: Arc::get_mut(&mut uninit).unwrap().
Made(t) ==
  /\ pc[t] = "make" /\ Turn(t)
  /\ Goto(t, "lock")
  /\ UNCHANGED <<flavour, data, op, on, to, seen>>

\* Arc::new_cyclic: no strong count until its closure, which borrows the only
\* Weak, has returned the value.
NewCyclic(h) ==
  /\ ~memory
  /\ held[h] = "free"
  /\ strong' = 0 /\ weak' = 1
  /\ held' = [held EXCEPT ![h] = "weak"]
  /\ value' = "raw"
  /\ memory' = TRUE
  /\ building' = h
  /\ UNCHANGED <<flavour, op, pc, on, to, seen>>

CyclicDone ==
  /\ building # NoHandle /\ Unborrowed(building)
  /\ strong' = 1
  /\ held' = [held EXCEPT ![building] = "strong"]
  /\ value' = "live"
  /\ building' = NoHandle
  /\ UNCHANGED <<flavour, weak, memory, op, pc, on, to, seen>>

\* The closure panics: its Weak is dropped like any other.
CyclicPanics ==
  /\ building # NoHandle
  /\ building' = NoHandle
  /\ UNCHANGED <<flavour, strong, weak, held, value, memory, op, pc, on, to, seen>>

\* Weak::new(), and TryDefault for Weak<T>: no allocation behind it.
WeakNew(n) ==
  /\ held[n] = "free"
  /\ held' = [held EXCEPT ![n] = "dangling"]
  /\ UNCHANGED <<flavour, strong, weak, value, memory, building, op, pc, on, to, seen>>

(***************************************************************************)
(* The fetch_update loops: try_clone of Arc and of Weak, try_downgrade,     *)
(* try_upgrade.                                                            *)
(***************************************************************************)

\* weak_is_dangling: a pointer copy; upgrading one gives None.
CloneDangling(h, n) ==
  /\ held[h] = "dangling"
  /\ WeakNew(n)

Begin(t, o, h, n) ==
  /\ pc[t] = "idle" /\ Turn(t)
  /\ held[h] = IF o \in {"clone", "downgrade"} THEN "strong" ELSE "weak"
  /\ Borrowable(h)
  /\ held[n] = "free"
  /\ held' = [held EXCEPT ![n] = "claimed"]
  /\ op' = [op EXCEPT ![t] = o]
  /\ on' = [on EXCEPT ![t] = h]
  /\ to' = [to EXCEPT ![t] = n]
  /\ Goto(t, "load")
  /\ UNCHANGED <<flavour, strong, weak, value, memory, building, seen>>

Count(t) == IF op[t] \in {"clone", "upgrade"} THEN strong ELSE weak

Load(t) ==
  /\ pc[t] = "load"
  /\ seen' = [seen EXCEPT ![t] = Count(t)]
  /\ Goto(t, "cas")
  /\ UNCHANGED <<flavour, data, op, on, to>>

\* Mutant of Refused: an upgrade from zero is let through.
RefusedAtMax(t) ==
  \/ op[t] = "upgrade" /\ seen[t] >= Max
  \/ op[t] # "upgrade" /\ flavour = "arc" /\ seen[t] + 1 >= Max
  \/ op[t] # "upgrade" /\ flavour = "rc" /\ seen[t] >= Max

\* What the closure given to fetch_update rejects.
Refused(t) ==
  \/ op[t] = "upgrade" /\ seen[t] = 0
  \/ op[t] = "upgrade" /\ seen[t] >= Max
  \/ op[t] # "upgrade" /\ flavour = "arc" /\ seen[t] + 1 >= Max
  \/ op[t] # "upgrade" /\ flavour = "rc" /\ seen[t] >= Max

\* None, TryUpgradeError, TryDowngradeError or TryCloneError.
Refuse(t) ==
  /\ pc[t] = "cas" /\ Refused(t)
  /\ held' = [held EXCEPT ![to[t]] = "free"]
  /\ Return(t)
  /\ UNCHANGED <<flavour, strong, weak, value, memory, building>>

\* The compare-and-swap fails: fetch_update goes round with the count it found.
\* (A spurious failure finds the same count and changes nothing.)
Retry(t) ==
  /\ pc[t] = "cas" /\ ~Refused(t)
  /\ Count(t) # seen[t]
  /\ seen' = [seen EXCEPT ![t] = Count(t)]
  /\ UNCHANGED <<flavour, data, op, pc, on, to>>

\* Mutant of Increment: a load and a store, whatever the count is by now.
IncrementStale(t) ==
  /\ pc[t] = "cas" /\ ~Refused(t)
  /\ IF op[t] \in {"clone", "upgrade"}
     THEN /\ strong' = seen[t] + 1
          /\ held' = [held EXCEPT ![to[t]] = "strong"]
          /\ UNCHANGED weak
     ELSE /\ weak' = seen[t] + 1
          /\ held' = [held EXCEPT ![to[t]] = "weak"]
          /\ UNCHANGED strong
  /\ Return(t)
  /\ UNCHANGED <<flavour, value, memory, building>>

\* It succeeds: the handle is the bits of the one it was made from.
Increment(t) ==
  /\ pc[t] = "cas" /\ ~Refused(t)
  /\ Count(t) = seen[t]
  /\ IF op[t] \in {"clone", "upgrade"}
     THEN /\ strong' = seen[t] + 1
          /\ held' = [held EXCEPT ![to[t]] = "strong"]
          /\ UNCHANGED weak
     ELSE /\ weak' = seen[t] + 1
          /\ held' = [held EXCEPT ![to[t]] = "weak"]
          /\ UNCHANGED strong
  /\ Return(t)
  /\ UNCHANGED <<flavour, value, memory, building>>

(***************************************************************************)
(* Drops: the standard library's, on the counts written above.             *)
(***************************************************************************)

\* Arc::drop.  Whoever takes the count to zero drops the value.
GiveUp(t, h) ==
  /\ strong' = strong - 1
  /\ held' = [held EXCEPT ![h] = "free"]
  /\ IF strong = 1
     THEN /\ op' = [op EXCEPT ![t] = "drop"]
          /\ on' = [on EXCEPT ![t] = NoHandle]
          /\ Goto(t, "dropping")
          /\ UNCHANGED <<to, seen>>
     ELSE Return(t)
  /\ UNCHANGED <<flavour, weak, value, memory, building>>

DropStrong(t, h) ==
  /\ pc[t] = "idle" /\ Turn(t)
  /\ held[h] = "strong" /\ Unborrowed(h)
  /\ GiveUp(t, h)

\* T::try_default() failed: the uninitialised Arc goes.
MakeFails(t) ==
  /\ pc[t] = "make" /\ Turn(t)
  /\ GiveUp(t, on[t])

\* drop_in_place; a MaybeUninit has nothing to drop.
ValueDropped(t) ==
  /\ pc[t] = "dropping" /\ Turn(t)
  /\ value' = IF value = "live" THEN "dropped" ELSE value
  /\ Goto(t, "release")
  /\ UNCHANGED <<flavour, strong, weak, held, memory, building, op, on, to, seen>>

\* One less on the weak count, by whoever is in a drop.
Lower(t) ==
  /\ weak' = weak - 1
  /\ IF weak = 1
     THEN /\ op' = [op EXCEPT ![t] = "drop"]
          /\ Goto(t, "dealloc")
          /\ UNCHANGED <<on, to, seen>>
     ELSE Return(t)

\* The weak reference all strong handles shared.
Release(t) ==
  /\ pc[t] = "release"
  /\ Lower(t)
  /\ UNCHANGED <<flavour, strong, held, value, memory, building>>

DropWeak(t, h) ==
  /\ pc[t] = "idle" /\ Turn(t)
  /\ held[h] = "weak" /\ Unborrowed(h) /\ h # building
  /\ held' = [held EXCEPT ![h] = "free"]
  /\ Lower(t)
  /\ UNCHANGED <<flavour, strong, value, memory, building>>

DropDangling(h) ==
  /\ held[h] = "dangling"
  /\ held' = [held EXCEPT ![h] = "free"]
  /\ UNCHANGED <<flavour, strong, weak, value, memory, building, op, pc, on, to, seen>>

Dealloc(t) ==
  /\ pc[t] = "dealloc"
  /\ memory' = FALSE
  /\ value' = "none"
  /\ Return(t)
  /\ UNCHANGED <<flavour, strong, weak, held, building>>

(***************************************************************************)
(* Exclusive access: Arc::get_mut, and unwrap_or_try_clone.                 *)
(***************************************************************************)

BeginExclusive(t, o, h) ==
  /\ pc[t] = "idle" /\ Turn(t)
  /\ held[h] = "strong" /\ Unborrowed(h)
  /\ o = "unwrap" => value = "live"
  /\ op' = [op EXCEPT ![t] = o]
  /\ on' = [on EXCEPT ![t] = h]
  /\ Goto(t, IF o = "unwrap" THEN "unwrap" ELSE "lock")
  /\ UNCHANGED <<flavour, data, to, seen>>

\* get_mut finds other handles: None, which try_default would unwrap.
Shared(t) ==
  IF op[t] = "default"
  THEN Goto(t, "panic") /\ UNCHANGED <<op, on, to, seen>>
  ELSE Return(t)

\* Arc::is_unique takes the weak count from 1 to usize::MAX, if it is 1.  (An
\* Rc just reads both counts: with one thread the lock shows nowhere.)
LockWeak(t) ==
  /\ pc[t] = "lock"
  /\ \/ weak = 1 /\ weak' = Locked /\ Goto(t, "check") /\ UNCHANGED <<op, on, to, seen>>
     \/ weak # 1 /\ Shared(t) /\ UNCHANGED weak
  /\ UNCHANGED <<flavour, strong, held, value, memory, building>>

CheckStrong(t) ==
  /\ pc[t] = "check"
  /\ seen' = [seen EXCEPT ![t] = strong]
  /\ Goto(t, "unlock")
  /\ UNCHANGED <<flavour, data, op, on, to>>

UnlockWeak(t) ==
  /\ pc[t] = "unlock"
  /\ weak' = 1
  /\ \/ seen[t] = 1 /\ Goto(t, "mut") /\ UNCHANGED <<op, on, to, seen>>
     \/ seen[t] # 1 /\ Shared(t)
  /\ UNCHANGED <<flavour, strong, held, value, memory, building>>

\* The &mut T ends; try_default has written the value through it.
EndMut(t) ==
  /\ pc[t] = "mut" /\ Turn(t)
  /\ value' \in IF op[t] = "default" THEN {"live"} ELSE {value, "live"}
  /\ Return(t)
  /\ UNCHANGED <<flavour, strong, weak, held, memory, building>>

\* Arc::try_unwrap: one compare-and-swap from 1 to 0, and the value is moved out.
TryUnwrap(t) ==
  /\ pc[t] = "unwrap"
  /\ \/ /\ strong = 1
        /\ strong' = 0
        /\ held' = [held EXCEPT ![on[t]] = "free"]
        /\ value' = "taken"
        /\ on' = [on EXCEPT ![t] = NoHandle]
        /\ op' = [op EXCEPT ![t] = "drop"]
        /\ Goto(t, "release")
     \/ /\ strong # 1
        /\ Goto(t, "copying")
        /\ UNCHANGED <<strong, held, value, on, op>>
  /\ UNCHANGED <<flavour, weak, memory, building, to, seen>>

\* (*arc).try_clone() succeeds, and the arc is dropped, perhaps as the last one.
Copied(t) ==
  /\ pc[t] = "copying" /\ Turn(t)
  /\ GiveUp(t, on[t])

\* It fails, and the arc is handed back.
CopyFails(t) ==
  /\ pc[t] = "copying" /\ Turn(t)
  /\ Return(t)
  /\ UNCHANGED <<flavour, data>>

Step(t) ==
  \/ Made(t) \/ MakeFails(t)
  \/ Load(t) \/ Refuse(t) \/ Retry(t) \/ Increment(t)
  \/ ValueDropped(t) \/ Release(t) \/ Dealloc(t)
  \/ LockWeak(t) \/ CheckStrong(t) \/ UnlockWeak(t) \/ EndMut(t)
  \/ TryUnwrap(t) \/ Copied(t) \/ CopyFails(t)

Call(t, h) ==
  \/ TryDefault(t, h)
  \/ \E o \in Growing, n \in Handles : Begin(t, o, h, n)
  \/ DropStrong(t, h) \/ DropWeak(t, h)
  \/ BeginExclusive(t, "get_mut", h) \/ BeginExclusive(t, "unwrap", h)

Next ==
  \/ CyclicDone \/ CyclicPanics
  \/ \E h \in Handles :
       \/ TryNew(h) \/ NewCyclic(h) \/ WeakNew(h) \/ DropDangling(h)
       \/ \E n \in Handles : CloneDangling(h, n)
  \/ \E t \in Threads :
       \/ Step(t)
       \/ \E h \in Handles : Call(t, h)

Spec == Init /\ [][Next]_vars

(***************************************************************************)
(* Properties.                                                             *)
(***************************************************************************)

StrongHandles == {h \in Handles : held[h] = "strong"}
WeakHandles == {h \in Handles : held[h] = "weak"}

\* The strong handles' common weak reference is still counted.
SharedWeak ==
  IF StrongHandles # {} \/ \E t \in Threads : pc[t] \in {"dropping", "release"}
  THEN 1 ELSE 0

\* The counts written by hand and raised by fetch_update are, whatever runs
\* beside them, the number of handles there really are: no increment is lost
\* or applied to a count read too early, none goes past the limit, and a weak
\* count that is_unique has taken to usize::MAX is never counted up from.
CountsMatch ==
  /\ strong = Cardinality(StrongHandles)
  /\ weak = Locked \/ weak = Cardinality(WeakHandles) + SharedWeak
  /\ weak = Locked => WeakHandles = {} /\ StrongHandles # {}

\* try_default's Arc::get_mut(&mut uninit).unwrap() finds the allocation it has
\* just made to be its own, and a &mut to the value means no other handle.
ExclusiveIsSole == \A t \in Threads :
  /\ pc[t] # "panic"
  /\ pc[t] = "mut" => StrongHandles = {on[t]} /\ WeakHandles = {}

\* A handle is handed to the caller when its call returns; a &mut borrows one.
Handed == [h \in Handles |-> IF held[h] = "claimed" THEN "free" ELSE held[h]]
Unique == IF \E t \in Threads : pc[t] = "mut"
          THEN on[CHOOSE t \in Threads : pc[t] = "mut"]
          ELSE NoHandle

Promise == INSTANCE SharedValue WITH held <- Handed, unique <- Unique

\* Every step of the counts is a step of the promise made to users: nothing is
\* reached after it was freed, an upgrade succeeds only while a strong handle
\* keeps the value, which is dropped or moved out once, before its memory goes.
ImplementsSharedValue == Promise!Spec
===============================================================================
