----------------------------- MODULE CHashMapIter -----------------------------
(***************************************************************************)
(* rustyfill::collections::chashmap::iter: one Iter or IterMut over the     *)
(* shards while other threads lock, change and unlock them.  The iterator   *)
(* and every item it has yielded share an Arc of the shard's guard.         *)
(***************************************************************************)
EXTENDS Integers, FiniteSets

CONSTANTS
  Keys, NoKey,
  ShardCount,      \* shard_count()
  ShardOf          \* the shard of a key

Shards == 0 .. ShardCount - 1

ASSUME ShardsAssumption == ShardCount \in Nat \ {0, 1} /\ ShardOf \in [Keys -> Shards]
ASSUME NamesAssumption == NoKey \notin Keys

VARIABLES
  mutable,   \* an IterMut, which takes write locks
  table,     \* the keys in the map
  other,     \* other[s]: the lock other threads have on shard s
  strong,    \* strong[s]: count of the Arc on the iterator's guard of s, 0 = no guard
  running,   \* a call of next is under way
  last,      \* what next returned last, or "fresh"
  idx,       \* shard_idx
  open,      \* current.is_some()
  left,      \* current.raw_iter: buckets not popped yet
  pending,   \* current.pending_bucket
  auto,      \* auto_unstall
  items,     \* the keys of the items the caller holds
  yields,    \* history: how often each key was yielded, at most 2
  stayed,    \* history: keys in the map ever since the iterator was made
  blamed,    \* history: keys an emitted error was about
  opted      \* history: how the caller has opted out of stalling

otherVars == <<mutable, table, other, stayed>>
iterVars == <<idx, open, left, pending>>
vars == <<mutable, table, other, strong, running, last, idx, open, left, pending, auto,
          items, yields, stayed, blamed, opted>>

TypeOK ==
  /\ table \subseteq Keys /\ stayed \subseteq table /\ blamed \subseteq Keys
  /\ other \in [Shards -> {"none", "read", "write"}]
  /\ strong \in [Shards -> Int]
  /\ running \in BOOLEAN /\ open \in BOOLEAN /\ auto \in BOOLEAN /\ mutable \in BOOLEAN
  /\ opted \in {"no", "unstall", "rudely"}
  /\ last \in {"fresh", "item", "error", "end", "unstalled", "dropped"}
  /\ idx \in 0 .. ShardCount
  /\ left \subseteq Keys
  /\ pending \in Keys \union {NoKey}
  /\ items \subseteq Keys
  /\ yields \in [Keys -> 0 .. 2]

Guarded(s) == strong[s] > 0
Elements(s) == {k \in table : ShardOf[k] = s}

Init ==
  /\ mutable \in BOOLEAN
  /\ table \in SUBSET Keys
  /\ other = [s \in Shards |-> "none"]
  /\ strong = [s \in Shards |-> 0]
  /\ running = FALSE /\ last = "fresh"
  /\ idx = 0 /\ open = FALSE /\ left = {} /\ pending = NoKey
  /\ auto = FALSE
  /\ items = {} /\ yields = [k \in Keys |-> 0]
  /\ stayed = table /\ blamed = {} /\ opted = "no"

(***************************************************************************)
(* Other threads.                                                           *)
(***************************************************************************)
OtherLock(s, mode) ==
  /\ other[s] = "none"
  /\ ~Guarded(s) \/ (mode = "read" /\ ~mutable)
  /\ other' = [other EXCEPT ![s] = mode]
  /\ UNCHANGED <<mutable, table, strong, running, last, iterVars, auto, items, yields, stayed, blamed, opted>>

OtherUnlock(s) ==
  /\ other[s] # "none"
  /\ other' = [other EXCEPT ![s] = "none"]
  /\ UNCHANGED <<mutable, table, strong, running, last, iterVars, auto, items, yields, stayed, blamed, opted>>

OtherInsert(k) ==
  /\ other[ShardOf[k]] = "write" /\ k \notin table
  /\ table' = table \union {k}
  /\ UNCHANGED <<mutable, other, strong, running, last, iterVars, auto, items, yields, stayed, blamed, opted>>

OtherRemove(k) ==
  /\ other[ShardOf[k]] = "write" /\ k \in table
  /\ table' = table \ {k} /\ stayed' = stayed \ {k}
  /\ UNCHANGED <<mutable, other, strong, running, last, iterVars, auto, items, yields, blamed, opted>>

(***************************************************************************)
(* next: the loop, from its top with no current shard.                      *)
(***************************************************************************)
CallNext ==
  /\ ~running /\ last # "dropped"
  /\ running' = TRUE
  /\ UNCHANGED <<otherVars, strong, last, iterVars, auto, items, yields, blamed, opted>>

Returns(r) == running' = FALSE /\ last' = r
Loops == UNCHANGED <<running, last>>

\* At the top of the loop with the current shard's lock in hand.
Locked ==
  /\ running /\ ~open /\ idx < ShardCount
  /\ other[idx] # "write"
  /\ mutable => other[idx] = "none"
Finished ==
  /\ running /\ ~open /\ idx = ShardCount
  /\ Returns("end")
  /\ UNCHANGED <<otherVars, strong, iterVars, auto, items, yields, blamed, opted>>

\* Mutant of SkipEmpty: `continue' without advance_shard.
SkipEmptyStays ==
  /\ Locked /\ Elements(idx) = {}
  /\ Loops
  /\ UNCHANGED <<otherVars, strong, iterVars, auto, items, yields, blamed, opted>>

SkipEmpty ==
  /\ Locked /\ Elements(idx) = {}
  /\ idx' = idx + 1
  /\ Loops
  /\ UNCHANGED <<otherVars, strong, open, left, pending, auto, items, yields, blamed, opted>>

\* Arc::new fails: stall on this shard, or give it up; either way unlock it.
ArcFails ==
  /\ Locked /\ Elements(idx) # {}
  /\ IF auto THEN idx' = idx + 1 /\ Loops /\ UNCHANGED blamed
             ELSE Returns("error") /\ blamed' = blamed \union Elements(idx) /\ UNCHANGED idx
  /\ UNCHANGED <<otherVars, strong, open, left, pending, auto, items, yields, opted>>

ArcNew ==
  /\ Locked /\ Elements(idx) # {}
  /\ strong' = [strong EXCEPT ![idx] = 1]
  /\ open' = TRUE /\ left' = Elements(idx)
  /\ Loops
  /\ UNCHANGED <<otherVars, idx, pending, auto, items, yields, blamed, opted>>

(***************************************************************************)
(* next: the current shard's buckets, the pending one first.                *)
(***************************************************************************)
Popped(k) ==
  /\ running /\ open
  /\ IF pending # NoKey THEN k = pending ELSE k \in left
  /\ left' = left \ {k}

\* Mutant of Yield: the item is given out without a share of the guard.
YieldUncloned(k) ==
  /\ Popped(k)
  /\ pending' = NoKey
  /\ items' = items \union {k}
  /\ yields' = [yields EXCEPT ![k] = IF @ < 2 THEN @ + 1 ELSE @]
  /\ Returns("item")
  /\ UNCHANGED <<otherVars, strong, idx, open, auto, blamed, opted>>

\* Mutant of Yield: the stashed bucket is copied out, not taken.
YieldKeepsPending(k) ==
  /\ Popped(k)
  /\ strong' = [strong EXCEPT ![idx] = @ + 1]
  /\ items' = items \union {k}
  /\ yields' = [yields EXCEPT ![k] = IF @ < 2 THEN @ + 1 ELSE @]
  /\ Returns("item")
  /\ UNCHANGED <<otherVars, idx, open, pending, auto, blamed, opted>>

Yield(k) ==
  /\ Popped(k)
  /\ pending' = NoKey
  /\ strong' = [strong EXCEPT ![idx] = @ + 1]
  /\ items' = items \union {k}
  /\ yields' = [yields EXCEPT ![k] = IF @ < 2 THEN @ + 1 ELSE @]
  /\ Returns("item")
  /\ UNCHANGED <<otherVars, idx, open, auto, blamed, opted>>

\* Mutant of CloneFails: the popped bucket is not put back.
CloneFailsDrops(k) ==
  /\ Popped(k)
  /\ pending' = NoKey
  /\ IF auto THEN Loops ELSE Returns("error")
  /\ UNCHANGED <<otherVars, strong, idx, open, auto, items, yields, blamed, opted>>

\* Arc::try_clone fails: stall on this bucket, or give it up.
CloneFails(k) ==
  /\ Popped(k)
  /\ IF auto THEN Loops /\ pending' = NoKey /\ UNCHANGED blamed
             ELSE Returns("error") /\ pending' = k /\ blamed' = blamed \union {k}
  /\ UNCHANGED <<otherVars, strong, idx, open, auto, items, yields, opted>>

Exhausted ==
  /\ running /\ open /\ pending = NoKey /\ left = {}
  /\ strong' = [strong EXCEPT ![idx] = @ - 1]
  /\ open' = FALSE /\ idx' = idx + 1
  /\ Loops
  /\ UNCHANGED <<otherVars, left, pending, auto, items, yields, blamed, opted>>

(***************************************************************************)
(* The caller.                                                              *)
(***************************************************************************)
Stalled == last = "error" /\ (open => pending # NoKey)

\* unstall: drop the pending bucket, or go past a shard that could not be opened.
Unstall ==
  /\ ~running /\ last # "dropped"
  /\ IF open THEN pending' = NoKey /\ UNCHANGED idx
             ELSE UNCHANGED pending /\ idx' = IF idx < ShardCount THEN idx + 1 ELSE idx
  /\ last' = "unstalled"
  /\ opted' = IF Stalled /\ opted # "rudely" THEN "unstall" ELSE "rudely"
  /\ UNCHANGED <<otherVars, strong, running, open, left, auto, items, yields, blamed>>

SetAutoUnstall(b) ==
  /\ ~running /\ last # "dropped" /\ b # auto
  /\ auto' = b /\ opted' = "rudely"
  /\ UNCHANGED <<otherVars, strong, running, last, iterVars, items, yields, blamed>>

DropItem(k) ==
  /\ k \in items
  /\ items' = items \ {k}
  /\ strong' = [strong EXCEPT ![ShardOf[k]] = @ - 1]
  /\ UNCHANGED <<otherVars, running, last, iterVars, auto, yields, blamed, opted>>

\* Dropping the iterator gives up its share of the current guard.
DropIter ==
  /\ ~running /\ last # "dropped"
  /\ last' = "dropped"
  /\ strong' = IF open THEN [strong EXCEPT ![idx] = @ - 1] ELSE strong
  /\ open' = FALSE /\ left' = {} /\ pending' = NoKey
  /\ UNCHANGED <<otherVars, running, idx, auto, items, yields, blamed, opted>>

Others ==
  \/ \E s \in Shards : OtherUnlock(s) \/ \E mode \in {"read", "write"} : OtherLock(s, mode)
  \/ \E k \in Keys : OtherInsert(k) \/ OtherRemove(k)
Locks == SkipEmpty \/ ArcFails \/ ArcNew
Works == Finished \/ Exhausted \/ \E k \in Keys : Yield(k) \/ CloneFails(k)
Caller ==
  \/ CallNext \/ Unstall \/ DropIter
  \/ \E b \in BOOLEAN : SetAutoUnstall(b)
  \/ \E k \in Keys : DropItem(k)
Next == Others \/ Locks \/ Works \/ Caller
Spec == Init /\ [][Next]_vars

\* A call of next runs on; other threads drop their guards; parking_lot lets no
\* thread wait for a lock forever.
FairSpec ==
  /\ Spec
  /\ WF_vars(Works) /\ SF_vars(Locks)
  /\ \A s \in Shards : WF_vars(OtherUnlock(s))

(***************************************************************************)
(* Properties.                                                             *)
(***************************************************************************)

\* Items point at live elements as long as the caller keeps them, though the
\* iterator has moved on or is gone and other threads want the shard
\* (iter.rs:1-9, refs/multi.rs:1-10).
ItemsStayValid == items \subseteq table

\* No key is given out twice: two RefMutMulti of one element would alias
\* (iter.rs:331-346).
YieldsOnce == \A k \in Keys : yields[k] <= 1

\* While the caller only retries, an iteration that ends has yielded every element
\* there all along: `no data is silently lost' (recovery.rs:42-47).  If it unstalls
\* after errors only, what was not yielded is what an error was about: unstall
\* gives up what was stalled and nothing else (iter.rs:222-225).
NothingLost == last = "end" /\ opted # "rudely" =>
  \A k \in stayed : yields[k] = 1 \/ (opted = "unstall" /\ k \in blamed)

\* Every call of next returns, whatever fails and whoever holds the shards.
NextReturns == running ~> ~running
===============================================================================
