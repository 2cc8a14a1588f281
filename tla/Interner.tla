-------------------------------- MODULE Interner --------------------------------
(***************************************************************************)
(* rustyfill::collections::interner: a sharded table of weak references by  *)
(* hash.  intern looks the value up under the shard's read lock, then again *)
(* under its write lock with room reserved, and inserts; clients clone and  *)
(* drop their handles without any lock, so entries die underneath.  Calls   *)
(* prune the unlocked shards now and then.                                  *)
(*                                                                         *)
(* An entry's key is the hash of its value, and so is the hash it is probed *)
(* by; a reservation that rehashes the table places it by the hash of its   *)
(* key instead.                                                             *)
(***************************************************************************)
EXTENDS Integers, FiniteSets

CONSTANTS
  Threads, NoOne,
  Arcs, NoArc,      \* heap allocations
  Values,           \* str, OsStr, CStr or Path values
  Shards, ShardOf,  \* the shard of a value
  Hashes, Hash,     \* compute_hash_internal(value)
  HashOne,          \* hasher().hash_one(u64)
  MaxHandles,       \* bound: handles beyond which no client clones or calls
  MaxSpare          \* bound: free places after a reservation

ASSUME NamesAssumption == NoOne \notin Threads /\ NoArc \notin Arcs
ASSUME ValuesAssumption == Values # {}
ASSUME HashAssumption == Hash \in [Values -> Hashes] /\ HashOne \in [Hashes -> Hashes]
ASSUME ShardAssumption == ShardOf \in [Values -> Shards]
ASSUME SpareAssumption == MaxSpare \in Nat \ {0} /\ MaxHandles \in Nat

VARIABLES
  strong,    \* strong[a]: handles of the allocation; 0 = expired or free
  val,       \* val[a]: its value
  entries,   \* entries[s]: the table of shard s: where an entry is probed, its key, its weak
  spare,     \* spare[s]: inserts that need no growth
  writer, readers,   \* the shards' locks
  pc, arg, found, toPrune,   \* the threads' calls
  rehashed   \* history: shards whose entries have been placed anew

heap == <<strong, val>>
locks == <<writer, readers>>
vars == <<heap, entries, spare, locks, pc, arg, found, toPrune, rehashed>>

Entry == [at : Hashes, key : Hashes, weak : Arcs]
PCs == {"idle", "prune", "read", "hit", "miss", "reserve", "recheck", "stale", "create"}

TypeOK ==
  /\ strong \in [Arcs -> Nat] /\ val \in [Arcs -> Values]
  /\ entries \in [Shards -> SUBSET Entry]
  /\ spare \in [Shards -> 0 .. MaxSpare]
  /\ writer \in [Shards -> Threads \union {NoOne}] /\ readers \in [Shards -> SUBSET Threads]
  /\ pc \in [Threads -> PCs] /\ arg \in [Threads -> Values]
  /\ found \in [Threads -> Arcs \union {NoArc}]
  /\ toPrune \in [Threads -> SUBSET Shards]
  /\ rehashed \subseteq Shards

Init ==
  /\ strong = [a \in Arcs |-> 0] /\ val = [a \in Arcs |-> CHOOSE v \in Values : TRUE]
  /\ entries = [s \in Shards |-> {}] /\ spare = [s \in Shards |-> 0]
  /\ writer = [s \in Shards |-> NoOne] /\ readers = [s \in Shards |-> {}]
  /\ pc = [t \in Threads |-> "idle"] /\ arg = [t \in Threads |-> CHOOSE v \in Values : TRUE]
  /\ found = [t \in Threads |-> NoArc] /\ toPrune = [t \in Threads |-> {}]
  /\ rehashed = {}

Live(a) == a # NoArc /\ strong[a] > 0
Shard(t) == ShardOf[arg[t]]
WeakIn(s) == {e.weak : e \in entries[s]}
Unused == {a \in Arcs : ~Live(a) /\ \A s \in Shards : a \notin WeakIn(s)}

Goto(t, where) == pc' = [pc EXCEPT ![t] = where]
Unlocked(s) == writer[s] = NoOne /\ readers[s] = {}

(***************************************************************************)
(* Clients.                                                                *)
(***************************************************************************)
CloneHandle(a) ==
  /\ Live(a) /\ strong[a] < MaxHandles
  /\ strong' = [strong EXCEPT ![a] = @ + 1]
  /\ UNCHANGED <<val, entries, spare, locks, pc, arg, found, toPrune, rehashed>>

DropHandle(a) ==
  /\ Live(a)
  /\ strong' = [strong EXCEPT ![a] = @ - 1]
  /\ UNCHANGED <<val, entries, spare, locks, pc, arg, found, toPrune, rehashed>>

(***************************************************************************)
(* intern, intern_owned, promote: maybe_prune_all_maps first, on every      *)
(* PRUNE_INTERVAL-th call of any thread, that is on any call of this one.   *)
(***************************************************************************)
Begin(t, v) ==
  /\ pc[t] = "idle"
  /\ \A a \in Arcs : val[a] = v => strong[a] < MaxHandles
  /\ arg' = [arg EXCEPT ![t] = v]
  /\ \/ Goto(t, "prune") /\ toPrune' = [toPrune EXCEPT ![t] = Shards]
     \/ Goto(t, "read") /\ UNCHANGED toPrune
  /\ UNCHANGED <<heap, entries, spare, locks, found, rehashed>>

\* Mutant of PruneShard: an entry whose weak upgrades is removed.
PruneShardLive(t, s) ==
  /\ pc[t] = "prune" /\ s \in toPrune[t]
  /\ toPrune' = [toPrune EXCEPT ![t] = @ \ {s}]
  /\ Unlocked(s)
  /\ entries' = [entries EXCEPT ![s] = {e \in @ : ~Live(e.weak)}]
  /\ UNCHANGED <<heap, spare, locks, pc, arg, found, rehashed>>

\* prune_unlocked_shards: a shard's expired entries go under its write lock; the
\* room of a removed entry comes back or stays a tombstone.  A shard that is
\* locked, be it by another pruning thread, is left out.
PruneShard(t, s) ==
  /\ pc[t] = "prune" /\ s \in toPrune[t]
  /\ toPrune' = [toPrune EXCEPT ![t] = @ \ {s}]
  /\ \/ /\ Unlocked(s)
        /\ entries' = [entries EXCEPT ![s] = {e \in @ : Live(e.weak)}]
        /\ \E n \in 0 .. Cardinality(entries[s]) - Cardinality(entries'[s]) :
             spare' = [spare EXCEPT ![s] = IF @ + n <= MaxSpare THEN @ + n ELSE MaxSpare]
     \/ /\ ~Unlocked(s) \/ \E u \in Threads \ {t} : pc[u] = "prune"
        /\ UNCHANGED <<entries, spare>>
  /\ UNCHANGED <<heap, locks, pc, arg, found, rehashed>>

PruneDone(t) ==
  /\ pc[t] = "prune" /\ toPrune[t] = {}
  /\ Goto(t, "read")
  /\ UNCHANGED <<heap, entries, spare, locks, arg, found, toPrune, rehashed>>

(***************************************************************************)
(* do_intern_with_key.                                                     *)
(***************************************************************************)

\* RawTable::find(hash, ..): an entry probed by this hash whose weak upgrades to
\* an equal value, or none.
Matches(t) ==
  {e \in entries[Shard(t)] : e.at = Hash[arg[t]] /\ Live(e.weak) /\ val[e.weak] = arg[t]}
Find(t) ==
  IF Matches(t) = {} THEN found' = [found EXCEPT ![t] = NoArc]
  ELSE \E e \in Matches(t) : found' = [found EXCEPT ![t] = e.weak]

\* The call returns Ok or Err; either way its guard is dropped.
Return(t) ==
  /\ Goto(t, "idle")
  /\ found' = [found EXCEPT ![t] = NoArc]
  /\ writer' = [s \in Shards |-> IF writer[s] = t THEN NoOne ELSE writer[s]]
  /\ readers' = [s \in Shards |-> readers[s] \ {t}]
Handed(a) == strong' = [strong EXCEPT ![a] = @ + 1]

\* Step 1, under the read lock.
FastFind(t) ==
  /\ pc[t] = "read" /\ writer[Shard(t)] = NoOne
  /\ readers' = [readers EXCEPT ![Shard(t)] = @ \union {t}]
  /\ Find(t)
  /\ Goto(t, "hit")
  /\ UNCHANGED <<heap, entries, spare, writer, arg, toPrune, rehashed>>

\* The bucket's weak is upgraded once more: its last handle may be gone by now.
FastHit(t) ==
  /\ pc[t] = "hit"
  /\ Live(found[t])
  /\ Handed(found[t])
  /\ Return(t)
  /\ UNCHANGED <<val, entries, spare, arg, toPrune, rehashed>>
FastMiss(t) ==
  /\ pc[t] = "hit"
  /\ ~Live(found[t])
  /\ readers' = [readers EXCEPT ![Shard(t)] = @ \ {t}]
  /\ found' = [found EXCEPT ![t] = NoArc]
  /\ Goto(t, "miss")
  /\ UNCHANGED <<heap, entries, spare, writer, arg, toPrune, rehashed>>

\* Step 2, under the write lock.
LockShard(t) ==
  /\ pc[t] = "miss" /\ Unlocked(Shard(t))
  /\ writer' = [writer EXCEPT ![Shard(t)] = t]
  /\ Goto(t, "reserve")
  /\ UNCHANGED <<heap, entries, spare, readers, arg, found, toPrune, rehashed>>

\* Mutant of Reserve: tries to do without.
ReserveNothing(t) ==
  /\ pc[t] = "reserve"
  /\ Goto(t, "recheck")
  /\ UNCHANGED <<heap, entries, spare, locks, arg, found, toPrune, rehashed>>

\* try_reserve(1, |(k, _)| hash_one(k)): nothing to do, or a rehash, in place or
\* into a larger table, or a failure.
Rehashed(e) == [e EXCEPT !.at = HashOne[e.key]]
Reserve(t) ==
  /\ pc[t] = "reserve"
  /\ \/ /\ spare[Shard(t)] > 0
        /\ Goto(t, "recheck")
        /\ UNCHANGED <<entries, spare, rehashed, found, locks>>
     \/ /\ spare[Shard(t)] = 0
        /\ entries' = [entries EXCEPT ![Shard(t)] = {Rehashed(e) : e \in @}]
        /\ \E n \in 1 .. MaxSpare : spare' = [spare EXCEPT ![Shard(t)] = n]
        /\ rehashed' = IF entries[Shard(t)] = {} THEN rehashed ELSE rehashed \union {Shard(t)}
        /\ Goto(t, "recheck")
        /\ UNCHANGED <<found, locks>>
     \/ /\ spare[Shard(t)] = 0
        /\ Return(t)
        /\ UNCHANGED <<entries, spare, rehashed>>
  /\ UNCHANGED <<heap, arg, toPrune>>

\* Mutant of Recheck: inserts without looking again.
RecheckNot(t) ==
  /\ pc[t] = "recheck"
  /\ Goto(t, "create")
  /\ UNCHANGED <<heap, entries, spare, locks, arg, found, toPrune, rehashed>>

Recheck(t) ==
  /\ pc[t] = "recheck"
  /\ Find(t)
  /\ Goto(t, IF Matches(t) = {} THEN "create" ELSE "stale")
  /\ UNCHANGED <<heap, entries, spare, locks, arg, toPrune, rehashed>>

\* The bucket found is upgraded once more, as in step 1.
Upgraded(t) ==
  /\ pc[t] = "stale" /\ Live(found[t])
  /\ Handed(found[t])
  /\ Return(t)
  /\ UNCHANGED <<val, entries, spare, arg, toPrune, rehashed>>
Expired(t) ==
  /\ pc[t] = "stale" /\ ~Live(found[t])
  /\ Goto(t, "create")
  /\ UNCHANGED <<heap, entries, spare, locks, arg, found, toPrune, rehashed>>

CreateFails(t) ==
  /\ pc[t] = "create"
  /\ Return(t)
  /\ UNCHANGED <<heap, entries, spare, arg, toPrune, rehashed>>

\* The value is cloned into a fresh Arc, whose weak replaces the expired one of
\* the bucket found or goes into the room reserved.
Replaced(s, old, new) == {IF e.weak = old THEN [e EXCEPT !.weak = new] ELSE e : e \in entries[s]}
Create(t) ==
  /\ pc[t] = "create"
  /\ \E a \in Unused :
       /\ strong' = [strong EXCEPT ![a] = 1] /\ val' = [val EXCEPT ![a] = arg[t]]
       /\ IF found[t] # NoArc
          THEN entries' = [entries EXCEPT ![Shard(t)] = Replaced(Shard(t), found[t], a)] /\ UNCHANGED spare
          ELSE /\ entries' = [entries EXCEPT ![Shard(t)] =
                                @ \union {[at |-> Hash[arg[t]], key |-> Hash[arg[t]], weak |-> a]}]
               /\ spare' = [spare EXCEPT ![Shard(t)] = @ - 1]
  /\ Return(t)
  /\ UNCHANGED <<arg, toPrune, rehashed>>

Clients == \E a \in Arcs : CloneHandle(a) \/ DropHandle(a)
Calls(t) == \E v \in Values : Begin(t, v)
Prunes(t) == PruneDone(t) \/ \E s \in Shards : PruneShard(t, s)
Interns(t) ==
  \/ FastFind(t) \/ FastHit(t) \/ FastMiss(t) \/ LockShard(t) \/ Reserve(t)
  \/ Recheck(t) \/ Upgraded(t) \/ Expired(t) \/ CreateFails(t) \/ Create(t)
Next == Clients \/ \E t \in Threads : Calls(t) \/ Prunes(t) \/ Interns(t)
Spec == Init /\ [][Next]_vars

(***************************************************************************)
(* Properties.                                                             *)
(***************************************************************************)

\* "If it does, you get back a shared reference to the existing copy"
\* (interner/mod.rs:4-8): all handles of a value that are alive at one time share
\* one allocation.
OneCopy == \A a, b \in Arcs : Live(a) /\ Live(b) /\ val[a] = val[b] => a = b

\* So it is until a reservation places the entries anew.
OneCopyUntilRehash ==
  \A a, b \in Arcs :
    Live(a) /\ Live(b) /\ val[a] = val[b] /\ ShardOf[val[a]] \notin rehashed => a = b

\* A value alive stays in the table, in one place, whatever is pruned and replaced
\* around it; before any rehash it is probed by its own hash (mod.rs:314-342,
\* 415-436).
LiveValuesListed ==
  \A a \in Arcs : Live(a) =>
    LET s == ShardOf[val[a]]
        es == {e \in entries[s] : e.weak = a}
    IN /\ Cardinality(es) = 1
       /\ s \notin rehashed => \A e \in es : e.at = Hash[val[a]]

\* insert_no_grow is unchecked: it finds the room that try_reserve made, although
\* other buckets were looked at, pruned and replaced since (mod.rs:394-402, 442-446).
RoomForInsert == \A t \in Threads : pc[t] \in {"recheck", "stale", "create"} => spare[Shard(t)] > 0
===================================================================================
