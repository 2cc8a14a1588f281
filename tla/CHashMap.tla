-------------------------------- MODULE CHashMap --------------------------------
(***************************************************************************)
(* rustyfill::collections::chashmap: a map split into shards, each a raw    *)
(* table behind a parking_lot RwLock.  A call locks one shard at a time;    *)
(* entries and references keep the shard locked until they are dropped.     *)
(* Every allocation may fail.                                               *)
(***************************************************************************)
EXTENDS Integers, FiniteSets

CONSTANTS
  Threads, Keys, Values,
  NoKey, NoValue, NoOne,
  ShardCount,    \* shard_count()
  ShardOf,       \* shard_index_internal(hash(k))
  MaxSpare       \* bound: the most free buckets a shard's table is grown to

Shards == 0 .. ShardCount - 1

ASSUME ShardsAssumption == ShardCount \in Nat \ {0, 1} /\ ShardOf \in [Keys -> Shards]
ASSUME SpareAssumption == MaxSpare \in Nat \ {0}
ASSUME NamesAssumption == NoKey \notin Keys /\ NoValue \notin Values /\ NoOne \notin Threads

VARIABLES
  table,     \* table[k]: the element of k in its shard's table, or NoValue
  spare,     \* spare[s]: hashbrown's growth_left, the inserts shard s takes without allocating
  writer,    \* writer[s]: who has set the write bit of shard s
  readers,   \* readers[s]: who holds a read guard of shard s
  pc,        \* where each thread is
  call,      \* the call each thread is in
  key,       \* its key argument
  shard,     \* the shard it locks
  occupied,  \* the threads whose entry is an Entry::Occupied
  seen,      \* the value its reference points at
  acc,       \* what a scan has collected
  stayed,    \* history: keys present ever since the scan began
  ever       \* history: elements present at some time since the scan began

lockVars == <<writer, readers>>
vars == <<table, spare, writer, readers, pc, call, key, shard, occupied, seen, acc, stayed, ever>>

Reads == {"get", "scan"}
KeyCalls == {"get", "get_mut", "entry", "remove"}
LoopCalls == {"scan", "reserve", "shrink"}
PCs == {"idle", "want", "claim", "in", "entry", "ref", "refmut", "done"}
Pairs == Keys \X Values

TypeOK ==
  /\ table \in [Keys -> Values \union {NoValue}]
  /\ spare \in [Shards -> 0 .. MaxSpare]
  /\ writer \in [Shards -> Threads \union {NoOne}]
  /\ readers \in [Shards -> SUBSET Threads]
  /\ pc \in [Threads -> PCs]
  /\ call \in [Threads -> KeyCalls \union LoopCalls \union {"none"}]
  /\ key \in [Threads -> Keys \union {NoKey}]
  /\ shard \in [Threads -> Shards]
  /\ occupied \in SUBSET Threads
  /\ seen \in [Threads -> Values \union {NoValue}]
  /\ acc \in [Threads -> SUBSET Pairs]
  /\ stayed \in [Threads -> SUBSET Keys]
  /\ ever \in [Threads -> SUBSET Pairs]

Present == {k \in Keys : table[k] # NoValue}
Elements(s) == {<<k, table[k]>> : k \in {x \in Present : ShardOf[x] = s}}
Snapshot == {<<k, table[k]>> : k \in Present}

\* Constructors give empty shards, reserved alike.
Init ==
  /\ table = [k \in Keys |-> NoValue]
  /\ \E n \in 0 .. MaxSpare : spare = [s \in Shards |-> n]
  /\ writer = [s \in Shards |-> NoOne]
  /\ readers = [s \in Shards |-> {}]
  /\ pc = [t \in Threads |-> "idle"]
  /\ call = [t \in Threads |-> "none"]
  /\ key = [t \in Threads |-> NoKey]
  /\ shard = [t \in Threads |-> 0]
  /\ occupied = {}
  /\ seen = [t \in Threads |-> NoValue]
  /\ acc = [t \in Threads |-> {}]
  /\ stayed = [t \in Threads |-> {}]
  /\ ever = [t \in Threads |-> {}]

(***************************************************************************)
(* parking_lot's RwLock: a writer sets the write bit when no writer has it, *)
(* which keeps new readers out, then waits for the readers to leave.        *)
(***************************************************************************)
Goto(t, l) == pc' = [pc EXCEPT ![t] = l]

LockRead(t) ==
  /\ pc[t] = "want" /\ call[t] \in Reads
  /\ writer[shard[t]] = NoOne
  /\ readers' = [readers EXCEPT ![shard[t]] = @ \union {t}]
  /\ Goto(t, "in")
  /\ UNCHANGED <<table, spare, writer, call, key, shard, occupied, seen, acc>>

ClaimWrite(t) ==
  /\ pc[t] = "want" /\ call[t] \notin Reads
  /\ writer[shard[t]] = NoOne
  /\ writer' = [writer EXCEPT ![shard[t]] = t]
  /\ Goto(t, "claim")
  /\ UNCHANGED <<table, spare, readers, call, key, shard, occupied, seen, acc>>

GrantWrite(t) ==
  /\ pc[t] = "claim"
  /\ readers[shard[t]] = {}
  /\ Goto(t, "in")
  /\ UNCHANGED <<table, spare, writer, readers, call, key, shard, occupied, seen, acc>>

\* Dropping the guard of the shard the thread works on.
Unlock(t) ==
  /\ writer' = [writer EXCEPT ![shard[t]] = IF @ = t THEN NoOne ELSE @]
  /\ readers' = [readers EXCEPT ![shard[t]] = @ \ {t}]

Return(t) ==
  /\ Unlock(t)
  /\ Goto(t, "idle")
  /\ call' = [call EXCEPT ![t] = "none"]
  /\ key' = [key EXCEPT ![t] = NoKey]
  /\ shard' = [shard EXCEPT ![t] = 0]
  /\ occupied' = occupied \ {t}
  /\ seen' = [seen EXCEPT ![t] = NoValue]
  /\ acc' = [acc EXCEPT ![t] = {}]

(***************************************************************************)
(* Calls.                                                                   *)
(***************************************************************************)
Begin(t, c, k) ==
  /\ pc[t] = "idle"
  /\ call' = [call EXCEPT ![t] = c]
  /\ key' = [key EXCEPT ![t] = k]
  /\ shard' = [shard EXCEPT ![t] = ShardOf[k]]
  /\ Goto(t, "want")
  /\ UNCHANGED <<table, spare, writer, readers, occupied, seen, acc>>

\* do_entry_nonblock: try_write, then on as do_entry (or Locked: no change).
BeginNonblock(t, k) ==
  /\ pc[t] = "idle"
  /\ writer[ShardOf[k]] = NoOne /\ readers[ShardOf[k]] = {}
  /\ writer' = [writer EXCEPT ![ShardOf[k]] = t]
  /\ call' = [call EXCEPT ![t] = "entry"]
  /\ key' = [key EXCEPT ![t] = k]
  /\ shard' = [shard EXCEPT ![t] = ShardOf[k]]
  /\ Goto(t, "in")
  /\ UNCHANGED <<table, spare, readers, occupied, seen, acc>>

\* len, visit_all, try_clone, try_fmt; try_reserve; try_shrink_to_fit.
BeginLoop(t, c) ==
  /\ pc[t] = "idle"
  /\ call' = [call EXCEPT ![t] = c]
  /\ Goto(t, "want")
  /\ UNCHANGED <<table, spare, writer, readers, key, shard, occupied, seen, acc>>

(***************************************************************************)
(* get, get_mut, remove, remove_entry.                                      *)
(***************************************************************************)
Put(k, v) == table' = [table EXCEPT ![k] = v]

Get(t) ==
  /\ pc[t] = "in" /\ call[t] \in {"get", "get_mut"}
  /\ \/ /\ table[key[t]] # NoValue
        /\ seen' = [seen EXCEPT ![t] = table[key[t]]]
        /\ Goto(t, IF call[t] = "get" THEN "ref" ELSE "refmut")
        /\ UNCHANGED <<writer, readers, call, key, shard, occupied, acc>>
     \/ /\ table[key[t]] = NoValue
        /\ Return(t)
  /\ UNCHANGED <<table, spare>>

\* Taking an element out frees its bucket or leaves a tombstone in it.
TakeOut(t) ==
  /\ Put(key[t], NoValue)
  /\ \E n \in {0, 1} : spare' = [spare EXCEPT ![shard[t]] = IF @ + n <= MaxSpare THEN @ + n ELSE @]
  /\ Return(t)

Remove(t) ==
  /\ pc[t] = "in" /\ call[t] = "remove"
  /\ IF table[key[t]] # NoValue THEN TakeOut(t) ELSE Return(t) /\ UNCHANGED <<table, spare>>

(***************************************************************************)
(* Entries: reserve one, find the key or a slot for it, keep the lock.      *)
(***************************************************************************)
TryReserve(s) ==
  IF spare[s] > 0 THEN UNCHANGED spare
  ELSE \E n \in 1 .. MaxSpare : spare' = [spare EXCEPT ![s] = n]

MakeEntry(t) ==
  /\ occupied' = IF table[key[t]] # NoValue THEN occupied \union {t} ELSE occupied
  /\ Goto(t, "entry")

\* Mutant of EntryFind: no reservation before the probe.
EntryFindUnreserved(t) ==
  /\ pc[t] = "in" /\ call[t] = "entry"
  /\ MakeEntry(t)
  /\ UNCHANGED <<table, spare, writer, readers, call, key, shard, seen, acc>>

\* Mutant of EntryFind: the guard is dropped once the key has been looked up.
EntryFindUnlocks(t) ==
  /\ pc[t] = "in" /\ call[t] = "entry"
  /\ TryReserve(shard[t])
  /\ MakeEntry(t)
  /\ Unlock(t)
  /\ UNCHANGED <<table, call, key, shard, seen, acc>>

EntryFind(t) ==
  /\ pc[t] = "in" /\ call[t] = "entry"
  /\ TryReserve(shard[t])
  /\ MakeEntry(t)
  /\ UNCHANGED <<table, writer, readers, call, key, shard, seen, acc>>

\* Mutant of Fail: a failed reservation is tried again.
FailRetries(t) ==
  /\ pc[t] = "in" /\ call[t] = "entry" /\ spare[shard[t]] = 0
  /\ Unlock(t)
  /\ Goto(t, "want")
  /\ UNCHANGED <<table, spare, call, key, shard, occupied, seen, acc>>

\* The reservation of an entry, of try_reserve or of try_shrink_to_fit, or the
\* element clone of try_clone, fails: the guard is dropped, the call gives up.
Fail(t) ==
  /\ pc[t] = "in"
  /\ \/ call[t] = "entry" /\ spare[shard[t]] = 0
     \/ call[t] \in LoopCalls
  /\ Return(t)
  /\ UNCHANGED <<table, spare>>

\* Mutant of EntryInsert: the room is taken when the slot is found and again here.
EntryInsertTwice(t, v) ==
  /\ pc[t] = "entry" /\ t \notin occupied
  /\ Put(key[t], v)
  /\ spare' = [spare EXCEPT ![shard[t]] = @ - 2]
  /\ seen' = [seen EXCEPT ![t] = v]
  /\ Goto(t, "refmut")
  /\ UNCHANGED <<writer, readers, call, key, shard, occupied, acc>>

\* Entry::insert and or_insert on a vacant entry, VacantEntry::insert: the slot
\* was empty and uses up spare room, or was a tombstone.
EntryInsert(t, v) ==
  /\ pc[t] = "entry" /\ t \notin occupied
  /\ Put(key[t], v)
  /\ \E n \in {0, 1} : spare' = [spare EXCEPT ![shard[t]] = @ - n]
  /\ seen' = [seen EXCEPT ![t] = v]
  /\ Goto(t, "refmut")
  /\ UNCHANGED <<writer, readers, call, key, shard, occupied, acc>>

\* OccupiedEntry::insert, get_mut, and_modify: the entry lives on.
EntryWrite(t, v) ==
  /\ pc[t] = "entry" /\ t \in occupied
  /\ table[key[t]] # v
  /\ Put(key[t], v)
  /\ UNCHANGED <<spare, writer, readers, pc, call, key, shard, occupied, seen, acc>>

\* OccupiedEntry::into_ref, or_insert on an occupied entry.
EntryInto(t) ==
  /\ pc[t] = "entry" /\ t \in occupied
  /\ seen' = [seen EXCEPT ![t] = table[key[t]]]
  /\ Goto(t, "refmut")
  /\ UNCHANGED <<table, spare, writer, readers, call, key, shard, occupied, acc>>

\* OccupiedEntry::remove, remove_entry.
EntryRemove(t) ==
  /\ pc[t] = "entry" /\ t \in occupied
  /\ TakeOut(t)

\* The entry is dropped: after try_insert replaced a value, or try_insert_unique
\* found the key.
EntryDrop(t) ==
  /\ pc[t] = "entry"
  /\ Return(t)
  /\ UNCHANGED <<table, spare>>

(***************************************************************************)
(* References.                                                              *)
(***************************************************************************)
RefMutWrite(t, v) ==
  /\ pc[t] = "refmut" /\ v # seen[t]
  /\ Put(key[t], v)
  /\ seen' = [seen EXCEPT ![t] = v]
  /\ UNCHANGED <<spare, writer, readers, pc, call, key, shard, occupied, acc>>

\* Mutant of Downgrade: the write lock is released and not replaced.
DowngradeUnlocks(t) ==
  /\ pc[t] = "refmut"
  /\ Unlock(t)
  /\ Goto(t, "ref")
  /\ UNCHANGED <<table, spare, call, key, shard, occupied, seen, acc>>

Downgrade(t) ==
  /\ pc[t] = "refmut"
  /\ writer' = [writer EXCEPT ![shard[t]] = NoOne]
  /\ readers' = [readers EXCEPT ![shard[t]] = @ \union {t}]
  /\ Goto(t, "ref")
  /\ UNCHANGED <<table, spare, call, key, shard, occupied, seen, acc>>

DropRef(t) ==
  /\ pc[t] \in {"ref", "refmut"}
  /\ Return(t)
  /\ UNCHANGED <<table, spare>>

(***************************************************************************)
(* Loops over the shards: one lock at a time, in index order.               *)
(***************************************************************************)
Last(t) == shard[t] = ShardCount - 1

\* Drop this shard's guard and go for the next one.
Advance(t) ==
  /\ Unlock(t)
  /\ shard' = [shard EXCEPT ![t] = @ + 1]
  /\ Goto(t, "want")
  /\ UNCHANGED <<call, key, occupied, seen>>

\* Drop the last shard's guard with the scan's result at hand.
Finish(t) ==
  /\ Unlock(t)
  /\ Goto(t, "done")
  /\ UNCHANGED <<call, key, shard, occupied, seen>>

\* Mutant of ScanShard: the last shard is left out.
ScanShardShort(t) ==
  /\ pc[t] = "in" /\ call[t] = "scan"
  /\ acc' = [acc EXCEPT ![t] = IF Last(t) THEN @ ELSE @ \union Elements(shard[t])]
  /\ IF Last(t) THEN Finish(t) ELSE Advance(t)
  /\ UNCHANGED <<table, spare>>

ScanShard(t) ==
  /\ pc[t] = "in" /\ call[t] = "scan"
  /\ acc' = [acc EXCEPT ![t] = @ \union Elements(shard[t])]
  /\ IF Last(t) THEN Finish(t) ELSE Advance(t)
  /\ UNCHANGED <<table, spare>>

ScanReturn(t) ==
  /\ pc[t] = "done"
  /\ Return(t)
  /\ UNCHANGED <<table, spare>>

\* try_reserve(n) on one shard's table, n not 0.
ReserveShard(t) ==
  /\ pc[t] = "in" /\ call[t] = "reserve"
  /\ \E n \in 1 .. MaxSpare : n >= spare[shard[t]] /\ spare' = [spare EXCEPT ![shard[t]] = n]
  /\ IF Last(t) THEN Return(t) ELSE Advance(t) /\ UNCHANGED acc
  /\ UNCHANGED table

\* The shard's elements move to a table reserved for exactly as many, which
\* hashbrown rounds up.
ShrinkShard(t) ==
  /\ pc[t] = "in" /\ call[t] = "shrink"
  /\ \E n \in 0 .. MaxSpare : spare' = [spare EXCEPT ![shard[t]] = n]
  /\ IF Last(t) THEN Return(t) ELSE Advance(t) /\ UNCHANGED acc
  /\ UNCHANGED table

(***************************************************************************)
(* Composition.  A client thread holds one entry or reference at a time.    *)
(***************************************************************************)
Calls(t) ==
  \/ \E k \in Keys : BeginNonblock(t, k) \/ \E c \in KeyCalls : Begin(t, c, k)
  \/ \E c \in LoopCalls : BeginLoop(t, c)
Bodies(t) ==
  \/ Get(t) \/ Remove(t) \/ EntryFind(t) \/ Fail(t)
  \/ ScanShard(t) \/ ReserveShard(t) \/ ShrinkShard(t)
Releases(t) == EntryDrop(t) \/ DropRef(t) \/ ScanReturn(t)
Uses(t) ==
  \/ EntryInto(t) \/ EntryRemove(t) \/ Downgrade(t)
  \/ \E v \in Values : EntryInsert(t, v) \/ EntryWrite(t, v) \/ RefMutWrite(t, v)

Scanning(t) == call[t] = "scan"
History ==
  /\ stayed' = [t \in Threads |-> IF ~Scanning(t)' THEN {}
                                  ELSE IF Scanning(t) THEN stayed[t] \intersect Present' ELSE Present']
  /\ ever' = [t \in Threads |-> IF ~Scanning(t)' THEN {} ELSE ever[t] \union Snapshot']

Step(t) ==
  \/ Calls(t) \/ LockRead(t) \/ ClaimWrite(t) \/ GrantWrite(t)
  \/ Bodies(t) \/ Releases(t) \/ Uses(t)
Next == \E t \in Threads : Step(t) /\ History
Spec == Init /\ [][Next]_vars

\* Call bodies run to their end and clients drop what they hold; parking_lot's
\* queue lets no thread wait for a lock forever while others keep taking it.
Fairness ==
  \A t \in Threads :
    /\ WF_vars(Bodies(t) /\ History) /\ WF_vars(Releases(t) /\ History)
    /\ SF_vars(LockRead(t) /\ History) /\ SF_vars(ClaimWrite(t) /\ History)
    /\ WF_vars(GrantWrite(t) /\ History)
FairSpec == Spec /\ Fairness

(***************************************************************************)
(* Properties.                                                             *)
(***************************************************************************)

\* What an entry says of its key is still so when it is used: a vacant entry
\* never inserts a second element under a key, an occupied one never touches a
\* bucket that has been removed (entry.rs:66-101, 118-145).
EntryStaysTrue ==
  \A t \in Threads : pc[t] = "entry" => (t \in occupied <=> table[key[t]] # NoValue)

\* The insertion slot of a vacant entry needs no allocation: insert_in_slot is
\* infallible and would write past the table's spare capacity otherwise
\* (map.rs:1001-1009, entry.rs:133-137).
InsertHasRoom ==
  \A t \in Threads : pc[t] = "entry" /\ t \notin occupied => spare[shard[t]] > 0

\* A reference points at the live element of its key and at the value its holder
\* last saw, whatever other threads do to the shard (refs/one.rs:31-52, 115-128).
RefsStayValid ==
  \A t \in Threads : pc[t] \in {"ref", "refmut"} => seen[t] # NoValue /\ table[key[t]] = seen[t]

\* A completed scan (len, visit_all, try_clone) missed no element that was there
\* all along and reports none that never was, each key at most once, although it
\* locks the shards one after the other (map.rs:484-494, 933-946, 1160-1182).
ScanSandwich ==
  \A t \in Threads : pc[t] = "done" =>
    /\ acc[t] \subseteq ever[t]
    /\ \A k \in stayed[t] : \E p \in acc[t] : p[1] = k
    /\ \A p, q \in acc[t] : p[1] = q[1] => p = q

\* The map promises what KeyedMap says, with no trace of the shards.
Holds(t) == IF pc[t] \in {"entry", "refmut"} THEN "exclusive"
            ELSE IF pc[t] = "ref" THEN "shared" ELSE "none"
Promise == INSTANCE KeyedMap WITH
  map <- table,
  holds <- [k \in Keys |-> [t \in Threads |-> IF key[t] = k THEN Holds(t) ELSE "none"]]
ImplementsKeyedMap == Promise!Spec

\* Threads that hold one guard at a time do not deadlock or starve: every call
\* gets its locks and returns, or hands its caller an entry or a reference
\* (shard.rs:31-50).
CallsReturn == \A t \in Threads : pc[t] = "want" ~> pc[t] \in {"idle", "entry", "ref", "refmut"}
===============================================================================
