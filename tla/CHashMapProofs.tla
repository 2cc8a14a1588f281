----------------------------- MODULE CHashMapProofs -----------------------------
(***************************************************************************)
(* Proofs about CHashMap, for any number of threads, keys and shards.       *)
(*                                                                          *)
(* Everything rests on one fact about the lock: a thread past GrantWrite    *)
(* owns the write bit of its shard and nobody reads it (LockOK), and keys   *)
(* live in one shard (LocalOK).  So only the owner of an entry or reference *)
(* changes the element under it (DataOK), and a scan sees each shard whole  *)
(* (ScanOK).                                                                *)
(***************************************************************************)
EXTENDS CHashMap, TLAPS

Excl(t) == pc[t] \in {"entry", "refmut"} \/ (pc[t] = "in" /\ call[t] \notin Reads)
Shared(t) == pc[t] = "ref" \/ (pc[t] = "in" /\ call[t] \in Reads)

LocalOK(t) ==
  /\ pc[t] = "idle" => call[t] = "none" /\ shard[t] = 0
  /\ pc[t] # "idle" => call[t] # "none"
  /\ call[t] \in KeyCalls => key[t] \in Keys /\ shard[t] = ShardOf[key[t]]
  /\ pc[t] = "claim" => call[t] \notin Reads
  /\ pc[t] = "entry" => call[t] = "entry"
  /\ pc[t] \in {"ref", "refmut"} => call[t] \in {"get", "get_mut", "entry"}
  /\ pc[t] = "done" => call[t] = "scan"
  /\ t \in occupied => pc[t] \in {"entry", "ref", "refmut"}
  /\ call[t] # "scan" => acc[t] = {}

LockOK(t) ==
  /\ pc[t] = "claim" => writer[shard[t]] = t
  /\ Excl(t) => writer[shard[t]] = t /\ readers[shard[t]] = {}
  /\ Shared(t) => t \in readers[shard[t]]

DataOK(t) ==
  /\ pc[t] = "entry" => (t \in occupied <=> table[key[t]] # NoValue)
  /\ pc[t] = "entry" /\ t \notin occupied => spare[shard[t]] > 0
  /\ pc[t] \in {"ref", "refmut"} => seen[t] # NoValue /\ table[key[t]] = seen[t]

IInv ==
  /\ TypeOK
  /\ \A t \in Threads : LocalOK(t)
  /\ \A t \in Threads : LockOK(t)
  /\ \A t \in Threads : DataOK(t)

---------------------------------------------------------------------------------
\* What a step of t leaves alone.

LEMMA ReturnFrame ==
  ASSUME TypeOK, NEW t \in Threads, Return(t)
  PROVE  /\ \A x \in Threads \ {t} :
              /\ pc'[x] = pc[x] /\ call'[x] = call[x] /\ key'[x] = key[x] /\ shard'[x] = shard[x]
              /\ seen'[x] = seen[x] /\ acc'[x] = acc[x] /\ (x \in occupied' <=> x \in occupied)
         /\ pc'[t] = "idle" /\ call'[t] = "none" /\ key'[t] = NoKey /\ shard'[t] = 0
         /\ t \notin occupied' /\ acc'[t] = {} /\ seen'[t] = NoValue
BY DEF TypeOK, Return, Goto

\* Other threads' places, arguments and results.
LEMMA Frame ==
  ASSUME TypeOK, NEW t \in Threads, Step(t), NEW x \in Threads \ {t}
  PROVE  /\ pc'[x] = pc[x] /\ call'[x] = call[x] /\ key'[x] = key[x] /\ shard'[x] = shard[x]
         /\ seen'[x] = seen[x] /\ acc'[x] = acc[x] /\ (x \in occupied' <=> x \in occupied)
<1> DEFINE Fr == /\ pc'[x] = pc[x] /\ call'[x] = call[x] /\ key'[x] = key[x] /\ shard'[x] = shard[x]
                 /\ seen'[x] = seen[x] /\ acc'[x] = acc[x] /\ (x \in occupied' <=> x \in occupied)
<1>1. ASSUME Calls(t) PROVE Fr
  BY <1>1 DEF Calls, Begin, BeginNonblock, BeginLoop, Goto, TypeOK
<1>2. ASSUME LockRead(t) \/ ClaimWrite(t) \/ GrantWrite(t) PROVE Fr
  BY <1>2 DEF LockRead, ClaimWrite, GrantWrite, Goto, TypeOK
<1>3. ASSUME Return(t) PROVE Fr
  BY <1>3, ReturnFrame
<1>4. ASSUME Advance(t), acc' = acc \/ \E S : acc' = [acc EXCEPT ![t] = S] PROVE Fr
  BY <1>4 DEF Advance, Goto, TypeOK
<1>5. ASSUME Finish(t), acc' = acc \/ \E S : acc' = [acc EXCEPT ![t] = S] PROVE Fr
  BY <1>5 DEF Finish, Goto, TypeOK
<1>6. ASSUME Bodies(t) PROVE Fr
  <2>1. CASE Get(t)
    BY <2>1, <1>3 DEF Get, Goto, TypeOK
  <2>2. CASE Remove(t)
    BY <2>2, <1>3 DEF Remove, TakeOut
  <2>3. CASE EntryFind(t)
    BY <2>3 DEF EntryFind, MakeEntry, Goto, TypeOK
  <2>4. CASE Fail(t)
    BY <2>4, <1>3 DEF Fail
  <2>5. CASE ScanShard(t)
    BY <2>5, <1>4, <1>5 DEF ScanShard
  <2>6. CASE ReserveShard(t)
    BY <2>6, <1>3, <1>4 DEF ReserveShard
  <2>7. CASE ShrinkShard(t)
    BY <2>7, <1>3, <1>4 DEF ShrinkShard
  <2> QED BY <1>6, <2>1, <2>2, <2>3, <2>4, <2>5, <2>6, <2>7 DEF Bodies
<1>7. ASSUME Releases(t) PROVE Fr
  BY <1>7, <1>3 DEF Releases, EntryDrop, DropRef, ScanReturn
<1>8. ASSUME Uses(t) PROVE Fr
  <2>1. CASE EntryInto(t) \/ Downgrade(t)
    BY <2>1 DEF EntryInto, Downgrade, Goto, TypeOK
  <2>2. CASE EntryRemove(t)
    BY <2>2, <1>3 DEF EntryRemove, TakeOut
  <2>3. ASSUME NEW v \in Values, EntryInsert(t, v) \/ EntryWrite(t, v) \/ RefMutWrite(t, v) PROVE Fr
    BY <2>3 DEF EntryInsert, EntryWrite, RefMutWrite, Goto, TypeOK
  <2> QED BY <1>8, <2>1, <2>2, <2>3 DEF Uses
<1> QED BY <1>1, <1>2, <1>6, <1>7, <1>8 DEF Step

\* The table changes only under its key's owner, who holds the shard exclusively.
LEMMA TableFrame ==
  ASSUME TypeOK, NEW t \in Threads, LocalOK(t), Step(t), NEW k \in Keys
  PROVE  table'[k] = table[k] \/ (Excl(t) /\ call[t] \in KeyCalls /\ k = key[t])
<1> DEFINE Fr == table'[k] = table[k] \/ (Excl(t) /\ call[t] \in KeyCalls /\ k = key[t])
<1>1. ASSUME Calls(t) \/ LockRead(t) \/ ClaimWrite(t) \/ GrantWrite(t) \/ Releases(t) PROVE Fr
  BY <1>1 DEF Calls, Begin, BeginNonblock, BeginLoop, LockRead, ClaimWrite, GrantWrite,
              Releases, EntryDrop, DropRef, ScanReturn
<1>2. ASSUME Bodies(t) PROVE Fr
  <2>1. CASE Remove(t)
    BY <2>1 DEF Remove, TakeOut, Put, TypeOK, Excl, Reads, KeyCalls
  <2>2. CASE table' = table
    BY <2>2
  <2> QED
    BY <1>2, <2>1, <2>2 DEF Bodies, Get, EntryFind, Fail, ScanShard, ReserveShard, ShrinkShard
<1>3. ASSUME Uses(t) PROVE Fr
  <2>1. CASE EntryInto(t) \/ Downgrade(t)
    BY <2>1 DEF EntryInto, Downgrade
  <2>2. CASE EntryRemove(t)
    BY <2>2 DEF EntryRemove, TakeOut, Put, TypeOK, Excl, LocalOK, KeyCalls
  <2>3. ASSUME NEW v \in Values, EntryInsert(t, v) \/ EntryWrite(t, v) \/ RefMutWrite(t, v) PROVE Fr
    BY <2>3 DEF EntryInsert, EntryWrite, RefMutWrite, Put, TypeOK, Excl, LocalOK, KeyCalls
  <2> QED BY <1>3, <2>1, <2>2, <2>3 DEF Uses
<1> QED BY <1>1, <1>2, <1>3 DEF Step

\* A shard's room changes only under its exclusive holder.
LEMMA SpareFrame ==
  ASSUME TypeOK, NEW t \in Threads, Step(t), NEW s \in Shards
  PROVE  spare'[s] = spare[s] \/ (Excl(t) /\ s = shard[t])
<1> DEFINE Fr == spare'[s] = spare[s] \/ (Excl(t) /\ s = shard[t])
<1>1. ASSUME Calls(t) \/ LockRead(t) \/ ClaimWrite(t) \/ GrantWrite(t) \/ Releases(t) PROVE Fr
  BY <1>1 DEF Calls, Begin, BeginNonblock, BeginLoop, LockRead, ClaimWrite, GrantWrite,
              Releases, EntryDrop, DropRef, ScanReturn
<1>2. ASSUME Bodies(t) PROVE Fr
  <2>1. CASE Remove(t)
    BY <2>1 DEF Remove, TakeOut, TypeOK, Excl, Reads
  <2>2. CASE EntryFind(t)
    BY <2>2 DEF EntryFind, TryReserve, TypeOK, Excl, Reads
  <2>3. CASE ReserveShard(t) \/ ShrinkShard(t)
    BY <2>3 DEF ReserveShard, ShrinkShard, TypeOK, Excl, Reads
  <2> QED BY <1>2, <2>1, <2>2, <2>3 DEF Bodies, Get, Fail, ScanShard
<1>3. ASSUME Uses(t) PROVE Fr
  <2>1. CASE EntryInto(t) \/ Downgrade(t)
    BY <2>1 DEF EntryInto, Downgrade
  <2>2. CASE EntryRemove(t)
    BY <2>2 DEF EntryRemove, TakeOut, TypeOK, Excl
  <2>3. ASSUME NEW v \in Values, EntryInsert(t, v) \/ EntryWrite(t, v) \/ RefMutWrite(t, v) PROVE Fr
    BY <2>3 DEF EntryInsert, EntryWrite, RefMutWrite, TypeOK, Excl
  <2> QED BY <1>3, <2>1, <2>2, <2>3 DEF Uses
<1> QED BY <1>1, <1>2, <1>3 DEF Step

\* t takes and drops guards for itself only; it takes one only when the write bit
\* is clear or its own.
LEMMA LockFrame ==
  ASSUME TypeOK, NEW t \in Threads, LockOK(t), Step(t), NEW s \in Shards, NEW x \in Threads \ {t}
  PROVE  /\ writer[s] = x => writer'[s] = x
         /\ x \in readers[s] => x \in readers'[s]
         /\ writer[s] = x /\ readers[s] = {} => readers'[s] = {}
<1> DEFINE Fr == /\ writer[s] = x => writer'[s] = x
                 /\ x \in readers[s] => x \in readers'[s]
                 /\ writer[s] = x /\ readers[s] = {} => readers'[s] = {}
<1> USE NamesAssumption
<1>0. ASSUME Unlock(t) PROVE Fr
  BY <1>0 DEF Unlock, TypeOK
<1>1. ASSUME Calls(t) PROVE Fr
  BY <1>1 DEF Calls, Begin, BeginNonblock, BeginLoop, TypeOK
<1>2. ASSUME LockRead(t) \/ ClaimWrite(t) \/ GrantWrite(t) PROVE Fr
  BY <1>2 DEF LockRead, ClaimWrite, GrantWrite, TypeOK
<1>3. ASSUME UNCHANGED <<writer, readers>> PROVE Fr
  BY <1>3
<1>4. ASSUME Bodies(t) \/ Releases(t) PROVE Fr
  BY <1>4, <1>0, <1>3 DEF Bodies, Get, Remove, TakeOut, EntryFind, Fail, ScanShard, ReserveShard,
     ShrinkShard, Releases, EntryDrop, DropRef, ScanReturn, Return, Advance, Finish
<1>5. ASSUME Uses(t) PROVE Fr
  <2>1. CASE Downgrade(t)
    BY <2>1 DEF Downgrade, TypeOK, LockOK, Excl
  <2> QED BY <1>5, <2>1, <1>0, <1>3 DEF Uses, EntryInto, EntryRemove, TakeOut, Return,
             EntryInsert, EntryWrite, RefMutWrite
<1> QED BY <1>1, <1>2, <1>4, <1>5 DEF Step

---------------------------------------------------------------------------------
\* One lemma per conjunct of the invariant.

LEMMA TypeReturn ==
  ASSUME TypeOK, NEW t \in Threads, Return(t)
  PROVE  /\ writer' \in [Shards -> Threads \union {NoOne}] /\ readers' \in [Shards -> SUBSET Threads]
         /\ pc' \in [Threads -> PCs] /\ call' \in [Threads -> KeyCalls \union LoopCalls \union {"none"}]
         /\ key' \in [Threads -> Keys \union {NoKey}] /\ shard' \in [Threads -> Shards]
         /\ occupied' \in SUBSET Threads /\ seen' \in [Threads -> Values \union {NoValue}]
         /\ acc' \in [Threads -> SUBSET Pairs]
<1>1. 0 \in Shards
  BY ShardsAssumption DEF Shards
<1>2. {} \in SUBSET Pairs
  OBVIOUS
<1> HIDE DEF Shards, Pairs
<1> QED BY <1>1, <1>2 DEF TypeOK, Return, Unlock, Goto, PCs

\* The history variables are typed whatever the step.
LEMMA TypeHistory ==
  ASSUME TypeOK, History, table' \in [Keys -> Values \union {NoValue}]
  PROVE  stayed' \in [Threads -> SUBSET Keys] /\ ever' \in [Threads -> SUBSET Pairs]
<1>1. Snapshot' \subseteq Pairs
  BY DEF Snapshot, Present, Pairs
<1>2. \A t \in Threads : stayed[t] \in SUBSET Keys /\ ever[t] \in SUBSET Pairs
  BY DEF TypeOK
<1>3. Present' \subseteq Keys
  BY DEF Present
<1> HIDE DEF Pairs, Snapshot, Present
<1>4. \A t \in Threads : (IF ~Scanning(t)' THEN {} ELSE ever[t] \union Snapshot') \in SUBSET Pairs
  BY <1>1, <1>2
<1>5. \A t \in Threads : (IF ~Scanning(t)' THEN {}
                          ELSE IF Scanning(t) THEN stayed[t] \intersect Present' ELSE Present') \in SUBSET Keys
  BY <1>2, <1>3
<1> QED BY <1>4, <1>5 DEF History

LEMMA TypeStep ==
  ASSUME TypeOK, NEW t \in Threads, LocalOK(t), DataOK(t), Step(t), History
  PROVE  TypeOK'
<1> DEFINE Ty == /\ table' \in [Keys -> Values \union {NoValue}]
                 /\ spare' \in [Shards -> 0 .. MaxSpare]
                 /\ writer' \in [Shards -> Threads \union {NoOne}]
                 /\ readers' \in [Shards -> SUBSET Threads]
                 /\ pc' \in [Threads -> PCs]
                 /\ call' \in [Threads -> KeyCalls \union LoopCalls \union {"none"}]
                 /\ key' \in [Threads -> Keys \union {NoKey}]
                 /\ shard' \in [Threads -> Shards]
                 /\ occupied' \in SUBSET Threads
                 /\ seen' \in [Threads -> Values \union {NoValue}]
                 /\ acc' \in [Threads -> SUBSET Pairs]
<1>0. /\ table \in [Keys -> Values \union {NoValue}]
      /\ spare \in [Shards -> 0 .. MaxSpare]
      /\ writer \in [Shards -> Threads \union {NoOne}]
      /\ readers \in [Shards -> SUBSET Threads]
      /\ pc \in [Threads -> PCs]
      /\ call \in [Threads -> KeyCalls \union LoopCalls \union {"none"}]
      /\ key \in [Threads -> Keys \union {NoKey}]
      /\ shard \in [Threads -> Shards]
      /\ occupied \in SUBSET Threads
      /\ seen \in [Threads -> Values \union {NoValue}]
      /\ acc \in [Threads -> SUBSET Pairs]
  BY DEF TypeOK
<1>1. ShardOf \in [Keys -> Shards] /\ shard[t] \in Shards /\ 0 .. MaxSpare \subseteq Int
  BY ShardsAssumption DEF TypeOK
<1>2. Elements(shard[t]) \subseteq Pairs /\ acc[t] \in SUBSET Pairs
  BY DEF TypeOK, Elements, Present, Pairs
<1>3. \A v \in Values \union {NoValue} : Put(key[t], v) => table' \in [Keys -> Values \union {NoValue}]
  BY DEF Put, TypeOK
<1>4. spare[shard[t]] \in 0 .. MaxSpare
  BY <1>1 DEF TypeOK
<1>5. ASSUME NEW n \in 0 .. MaxSpare, spare' = [spare EXCEPT ![shard[t]] = n]
      PROVE  spare' \in [Shards -> 0 .. MaxSpare]
  BY <1>1, <1>5 DEF TypeOK
<1>13. ASSUME Return(t), table' \in [Keys -> Values \union {NoValue}], spare' \in [Shards -> 0 .. MaxSpare]
       PROVE Ty
  BY <1>13, TypeReturn
<1>6. ASSUME Advance(t), ~Last(t), acc' \in [Threads -> SUBSET Pairs], table' = table,
             spare' \in [Shards -> 0 .. MaxSpare] PROVE Ty
  <2>1. shard[t] + 1 \in Shards
    BY <1>1, <1>6, ShardsAssumption DEF Last, Shards
  <2> HIDE DEF Shards
  <2> QED BY <1>0, <1>6, <2>1 DEF Advance, Unlock, Goto, PCs
<1>7. ASSUME TakeOut(t) PROVE Ty
  <2>1. spare' \in [Shards -> 0 .. MaxSpare]
    <3>1. PICK n \in {0, 1} : spare' = [spare EXCEPT ![shard[t]] = IF @ + n <= MaxSpare THEN @ + n ELSE @]
      BY <1>7 DEF TakeOut
    <3> DEFINE m == IF spare[shard[t]] + n <= MaxSpare THEN spare[shard[t]] + n ELSE spare[shard[t]]
    <3>2. m \in 0 .. MaxSpare
      BY <1>4, SpareAssumption
    <3>3. spare' = [spare EXCEPT ![shard[t]] = m]
      BY <3>1
    <3> QED BY <3>2, <3>3, <1>5
  <2> QED BY <1>7, <2>1, <1>3, <1>13 DEF TakeOut
<1>8. ASSUME Calls(t) PROVE Ty
  <2>1. \A k \in Keys : ShardOf[k] \in Shards
    BY <1>1
  <2>2. 0 \in Shards
    BY ShardsAssumption DEF Shards
  <2> HIDE DEF Shards
  <2> QED
    BY <1>0, <1>8, <2>1, <2>2 DEF Calls, Begin, BeginNonblock, BeginLoop, Goto, PCs, KeyCalls, LoopCalls
<1>9. ASSUME LockRead(t) \/ ClaimWrite(t) \/ GrantWrite(t) PROVE Ty
  BY <1>0, <1>9, <1>1 DEF LockRead, ClaimWrite, GrantWrite, Goto, PCs
<1>10. ASSUME Bodies(t) PROVE Ty
  <2>1. CASE Get(t)
    <3>1. CASE Return(t) /\ UNCHANGED <<table, spare>>
      BY <1>0, <3>1, <1>13
    <3>2. CASE table[key[t]] # NoValue
      <4>1. table[key[t]] \in Values \union {NoValue}
        BY <1>0, <2>1, <3>2 DEF Get, LocalOK, KeyCalls
      <4> QED BY <1>0, <4>1, <3>2, <2>1, <3>1 DEF Get, Goto, PCs
    <3> QED BY <2>1, <3>1, <3>2 DEF Get
  <2>2. CASE Remove(t)
    BY <1>0, <2>2, <1>7, <1>13 DEF Remove
  <2>3. CASE EntryFind(t)
    <3>1. spare' \in [Shards -> 0 .. MaxSpare]
      BY <1>0, <2>3, <1>5 DEF EntryFind, TryReserve
    <3> QED BY <1>0, <3>1, <2>3 DEF EntryFind, MakeEntry, Goto, PCs
  <2>4. CASE Fail(t)
    BY <1>0, <2>4, <1>13 DEF Fail
  <2>5. CASE ScanShard(t)
    <3>1. acc' \in [Threads -> SUBSET Pairs]
      <4>1. acc[t] \union Elements(shard[t]) \in SUBSET Pairs
        BY <1>2
      <4>2. acc' = [acc EXCEPT ![t] = acc[t] \union Elements(shard[t])] /\ acc \in [Threads -> SUBSET Pairs]
        BY <1>0, <2>5 DEF ScanShard
      <4> HIDE DEF Elements, Pairs
      <4> QED BY <4>1, <4>2
    <3>2. CASE Last(t)
      BY <1>0, <3>1, <3>2, <2>5 DEF ScanShard, Finish, Unlock, Goto, PCs
    <3>3. CASE ~Last(t)
      BY <1>0, <3>1, <3>3, <2>5, <1>6 DEF ScanShard
    <3> QED BY <3>2, <3>3
  <2>6. CASE ReserveShard(t) \/ ShrinkShard(t)
    <3>1. spare' \in [Shards -> 0 .. MaxSpare]
      BY <2>6, <1>5 DEF ReserveShard, ShrinkShard
    <3>2. CASE Last(t)
      BY <1>0, <3>1, <3>2, <2>6, <1>13 DEF ReserveShard, ShrinkShard
    <3>3. CASE ~Last(t)
      BY <1>0, <3>1, <3>3, <2>6, <1>6 DEF ReserveShard, ShrinkShard
    <3> QED BY <3>2, <3>3
  <2> QED
    BY <1>10, <2>1, <2>2, <2>3, <2>4, <2>5, <2>6 DEF Bodies
<1>11. ASSUME Releases(t) PROVE Ty
  BY <1>0, <1>11, <1>13 DEF Releases, EntryDrop, DropRef, ScanReturn
<1>12. ASSUME Uses(t) PROVE Ty
  <2>1. CASE EntryInto(t)
    <3>1. table[key[t]] \in Values \union {NoValue}
      BY <1>0, <2>1 DEF EntryInto, LocalOK, KeyCalls
    <3> QED BY <1>0, <3>1, <2>1 DEF EntryInto, Goto, PCs
  <2>2. CASE EntryRemove(t)
    BY <2>2, <1>7 DEF EntryRemove
  <2>3. CASE Downgrade(t)
    BY <1>0, <2>3, <1>1 DEF Downgrade, Goto, PCs
  <2>4. ASSUME NEW v \in Values, EntryInsert(t, v) PROVE Ty
    <3>1. spare' \in [Shards -> 0 .. MaxSpare]
      <4>1. PICK n \in {0, 1} : spare' = [spare EXCEPT ![shard[t]] = @ - n]
        BY <2>4 DEF EntryInsert
      <4>2. spare[shard[t]] > 0
        BY <2>4 DEF EntryInsert, DataOK
      <4>3. spare[shard[t]] - n \in 0 .. MaxSpare
        BY <1>4, <4>2, SpareAssumption
      <4> QED BY <4>1, <4>3, <1>5
    <3> QED BY <1>0, <3>1, <2>4, <1>3 DEF EntryInsert, Goto, PCs
  <2>5. ASSUME NEW v \in Values, EntryWrite(t, v) \/ RefMutWrite(t, v) PROVE Ty
    BY <1>0, <2>5, <1>3 DEF EntryWrite, RefMutWrite
  <2> QED
    BY <1>12, <2>1, <2>2, <2>3, <2>4, <2>5 DEF Uses
<1>14. Ty
  BY <1>8, <1>9, <1>10, <1>11, <1>12 DEF Step
<1> QED BY <1>14, TypeHistory DEF TypeOK

\* t's own place and arguments stay in step.
LEMMA LocalStep ==
  ASSUME TypeOK, TypeOK', NEW t \in Threads, LocalOK(t), Step(t)
  PROVE  LocalOK(t)'
<1> USE DEF KeyCalls, LoopCalls, Reads
<1>1. CASE Return(t)
  BY <1>1, ReturnFrame DEF LocalOK
<1>2. CASE Calls(t)
  <2>1. ShardOf \in [Keys -> Shards]
    BY ShardsAssumption
  <2> HIDE DEF Shards
  <2> QED BY <1>2, <2>1 DEF Calls, Begin, BeginNonblock, BeginLoop, Goto, LocalOK, TypeOK
<1>3. CASE LockRead(t) \/ ClaimWrite(t) \/ GrantWrite(t)
  BY <1>3 DEF LockRead, ClaimWrite, GrantWrite, Goto, LocalOK, TypeOK
<1>4. CASE Bodies(t)
  <2>1. CASE Get(t)
    BY <2>1, <1>1 DEF Get, Goto, LocalOK, TypeOK
  <2>2. CASE Remove(t) \/ Fail(t)
    BY <2>2, <1>1 DEF Remove, TakeOut, Fail
  <2>3. CASE EntryFind(t)
    BY <2>3 DEF EntryFind, MakeEntry, Goto, LocalOK, TypeOK
  <2>4. CASE ScanShard(t)
    BY <2>4 DEF ScanShard, Finish, Advance, Goto, LocalOK, TypeOK
  <2>5. CASE ReserveShard(t) \/ ShrinkShard(t)
    BY <2>5, <1>1 DEF ReserveShard, ShrinkShard, Advance, Goto, LocalOK, TypeOK
  <2> QED BY <1>4, <2>1, <2>2, <2>3, <2>4, <2>5 DEF Bodies
<1>5. CASE Releases(t)
  BY <1>5, <1>1 DEF Releases, EntryDrop, DropRef, ScanReturn
<1>6. CASE Uses(t)
  <2>1. CASE EntryInto(t) \/ Downgrade(t)
    BY <2>1 DEF EntryInto, Downgrade, Goto, LocalOK, TypeOK
  <2>2. CASE EntryRemove(t)
    BY <2>2, <1>1 DEF EntryRemove, TakeOut
  <2>3. ASSUME NEW v \in Values, EntryInsert(t, v) \/ EntryWrite(t, v) \/ RefMutWrite(t, v)
        PROVE  LocalOK(t)'
    BY <2>3 DEF EntryInsert, EntryWrite, RefMutWrite, Goto, LocalOK, TypeOK
  <2> QED BY <1>6, <2>1, <2>2, <2>3 DEF Uses
<1> QED BY <1>2, <1>3, <1>4, <1>5, <1>6 DEF Step

\* t's own guard follows its place.
LEMMA OwnLock ==
  ASSUME TypeOK, TypeOK', NEW t \in Threads, LocalOK(t), LockOK(t), Step(t)
  PROVE  LockOK(t)'
<1> USE DEF Excl, Shared, KeyCalls, LoopCalls, Reads
<1>1. CASE pc'[t] \in {"idle", "want", "done"}
  BY <1>1 DEF LockOK
<1>2. CASE Calls(t)
  <2>1. ASSUME NEW k \in Keys, BeginNonblock(t, k) PROVE LockOK(t)'
    <3>1. ShardOf[k] \in Shards
      BY ShardsAssumption
    <3> HIDE DEF Shards
    <3> QED BY <2>1, <3>1 DEF BeginNonblock, Goto, LockOK, TypeOK
  <2>2. CASE pc' = [pc EXCEPT ![t] = "want"]
    BY <2>2, <1>1 DEF TypeOK
  <2> QED BY <1>2, <2>1, <2>2 DEF Calls, Begin, BeginLoop, Goto
<1>3. CASE LockRead(t) \/ ClaimWrite(t) \/ GrantWrite(t)
  <2>1. CASE LockRead(t)
    BY <2>1 DEF LockRead, Goto, LockOK, TypeOK
  <2>2. CASE ClaimWrite(t)
    BY <2>2 DEF ClaimWrite, Goto, LockOK, TypeOK
  <2>3. CASE GrantWrite(t)
    BY <2>3 DEF GrantWrite, Goto, LockOK, LocalOK, TypeOK
  <2> QED BY <1>3, <2>1, <2>2, <2>3
<1>4. CASE Return(t)
  BY <1>4, <1>1, ReturnFrame
<1>5. CASE Bodies(t)
  <2>1. CASE Get(t)
    BY <2>1, <1>4 DEF Get, Goto, LockOK, TypeOK
  <2>2. CASE Remove(t) \/ Fail(t)
    BY <2>2, <1>4 DEF Remove, TakeOut, Fail
  <2>3. CASE EntryFind(t)
    BY <2>3 DEF EntryFind, MakeEntry, Goto, LockOK, TypeOK
  <2>4. CASE Advance(t) \/ Finish(t)
    BY <2>4, <1>1 DEF Advance, Finish, Goto, TypeOK
  <2> QED
    BY <1>5, <2>1, <2>2, <2>3, <2>4, <1>4 DEF Bodies, ScanShard, ReserveShard, ShrinkShard
<1>6. CASE Releases(t)
  BY <1>6, <1>4 DEF Releases, EntryDrop, DropRef, ScanReturn
<1>7. CASE Uses(t)
  <2>1. CASE EntryInto(t) \/ Downgrade(t)
    BY <2>1 DEF EntryInto, Downgrade, Goto, LockOK, TypeOK
  <2>2. CASE EntryRemove(t)
    BY <2>2, <1>4 DEF EntryRemove, TakeOut
  <2>3. ASSUME NEW v \in Values, EntryInsert(t, v) \/ EntryWrite(t, v) \/ RefMutWrite(t, v)
        PROVE  LockOK(t)'
    BY <2>3 DEF EntryInsert, EntryWrite, RefMutWrite, Goto, LockOK, TypeOK
  <2> QED BY <1>7, <2>1, <2>2, <2>3 DEF Uses
<1> QED BY <1>2, <1>3, <1>5, <1>6, <1>7 DEF Step

\* t's own entry or reference stays true to the table.
LEMMA OwnData ==
  ASSUME TypeOK, TypeOK', NEW t \in Threads, LocalOK(t), DataOK(t), Step(t)
  PROVE  DataOK(t)'
<1> USE DEF KeyCalls, LoopCalls
<1>1. CASE pc'[t] \notin {"entry", "ref", "refmut"}
  BY <1>1 DEF DataOK
<1>2. CASE Return(t)
  BY <1>1, <1>2, ReturnFrame
<1>3. CASE Calls(t) \/ LockRead(t) \/ ClaimWrite(t) \/ GrantWrite(t)
  BY <1>1, <1>3 DEF Calls, Begin, BeginNonblock, BeginLoop, LockRead, ClaimWrite, GrantWrite, Goto, TypeOK
<1>4. CASE Bodies(t)
  <2>1. CASE Get(t)
    BY <2>1, <1>2 DEF Get, Goto, DataOK, LocalOK, TypeOK
  <2>2. CASE Remove(t) \/ Fail(t)
    BY <2>2, <1>2 DEF Remove, TakeOut, Fail
  <2>3. CASE EntryFind(t)
    <3>1. spare'[shard[t]] > 0
      BY <2>3, SpareAssumption DEF EntryFind, TryReserve, TypeOK
    <3> QED BY <2>3, <3>1 DEF EntryFind, MakeEntry, Goto, DataOK, LocalOK, TypeOK
  <2>4. CASE Advance(t) \/ Finish(t)
    BY <2>4, <1>1 DEF Advance, Finish, Goto, TypeOK
  <2> QED
    BY <1>4, <2>1, <2>2, <2>3, <2>4, <1>2 DEF Bodies, ScanShard, ReserveShard, ShrinkShard
<1>5. CASE Releases(t)
  BY <1>5, <1>2 DEF Releases, EntryDrop, DropRef, ScanReturn
<1>6. CASE Uses(t)
  <2>1. CASE EntryInto(t) \/ Downgrade(t)
    BY <2>1 DEF EntryInto, Downgrade, Goto, DataOK, LocalOK, TypeOK
  <2>2. CASE EntryRemove(t)
    BY <2>2, <1>2 DEF EntryRemove, TakeOut
  <2>3. ASSUME NEW v \in Values, EntryInsert(t, v) \/ EntryWrite(t, v) \/ RefMutWrite(t, v)
        PROVE  DataOK(t)'
    BY <2>3, NamesAssumption
       DEF EntryInsert, EntryWrite, RefMutWrite, Put, Goto, DataOK, LocalOK, TypeOK
  <2> QED BY <1>6, <2>1, <2>2, <2>3 DEF Uses
<1> QED BY <1>3, <1>4, <1>5, <1>6 DEF Step

\* Nobody else's guard, entry or reference is disturbed.
LEMMA OthersStep ==
  ASSUME IInv, NEW t \in Threads, Step(t), NEW x \in Threads \ {t}
  PROVE  LocalOK(x)' /\ LockOK(x)' /\ DataOK(x)'
<1>1. LocalOK(t) /\ LockOK(t) /\ LocalOK(x) /\ LockOK(x) /\ DataOK(x) /\ TypeOK
  BY DEF IInv
<1>2. /\ pc'[x] = pc[x] /\ call'[x] = call[x] /\ key'[x] = key[x] /\ shard'[x] = shard[x]
      /\ seen'[x] = seen[x] /\ acc'[x] = acc[x] /\ (x \in occupied' <=> x \in occupied)
  BY <1>1, Frame
<1>3. LocalOK(x)'
  BY <1>1, <1>2 DEF LocalOK
<1>4. shard[x] \in Shards /\ shard[t] \in Shards
  BY <1>1 DEF TypeOK
<1>5. /\ writer[shard[x]] = x => writer'[shard[x]] = x
      /\ x \in readers[shard[x]] => x \in readers'[shard[x]]
      /\ writer[shard[x]] = x /\ readers[shard[x]] = {} => readers'[shard[x]] = {}
  BY <1>1, <1>4, LockFrame
<1>6. LockOK(x)'
  BY <1>1, <1>2, <1>5 DEF LockOK, Excl, Shared
<1>7. ASSUME Excl(x) \/ Shared(x), Excl(t) PROVE shard[x] # shard[t]
  BY <1>1, <1>7 DEF LockOK
<1>8. ASSUME pc[x] \in {"entry", "ref", "refmut"}
      PROVE  table'[key[x]] = table[key[x]] /\ spare'[shard[x]] = spare[shard[x]]
  <2>1. Excl(x) \/ Shared(x)
    BY <1>8 DEF Excl, Shared
  <2>2. key[x] \in Keys /\ shard[x] = ShardOf[key[x]]
    BY <1>1, <1>8 DEF LocalOK, KeyCalls
  <2>3. table'[key[x]] = table[key[x]] \/ (Excl(t) /\ call[t] \in KeyCalls /\ key[x] = key[t])
    BY <1>1, <2>2, TableFrame
  <2>4. call[t] \in KeyCalls => shard[t] = ShardOf[key[t]]
    BY <1>1 DEF LocalOK
  <2>5. spare'[shard[x]] = spare[shard[x]] \/ (Excl(t) /\ shard[x] = shard[t])
    BY <1>1, <1>4, SpareFrame
  <2> QED BY <2>1, <2>2, <2>3, <2>4, <2>5, <1>7
<1>9. DataOK(x)'
  BY <1>1, <1>2, <1>8 DEF DataOK
<1> QED BY <1>3, <1>6, <1>9

LEMMA InitInv == Init => IInv
<1> SUFFICES ASSUME Init PROVE IInv
  OBVIOUS
<1>1. 0 \in Shards
  BY ShardsAssumption DEF Shards
<1>2. TypeOK
  <2>1. {} \in SUBSET Pairs /\ {} \in SUBSET Keys
    OBVIOUS
  <2> HIDE DEF Shards, Pairs
  <2> QED BY <1>1, <2>1 DEF Init, TypeOK, PCs
<1>3. ASSUME NEW t \in Threads PROVE LocalOK(t) /\ LockOK(t) /\ DataOK(t)
  BY DEF Init, LocalOK, LockOK, DataOK, Excl, Shared, KeyCalls
<1> QED BY <1>2, <1>3 DEF IInv

LEMMA Inductive == IInv /\ [Next]_vars => IInv'
<1> SUFFICES ASSUME IInv, [Next]_vars PROVE IInv'
  OBVIOUS
<1>1. CASE UNCHANGED vars
  BY <1>1 DEF IInv, vars, TypeOK, LocalOK, LockOK, DataOK, Excl, Shared
<1>2. CASE Next
  <2>1. PICK t \in Threads : Step(t) /\ History
    BY <1>2 DEF Next
  <2>2. TypeOK /\ LocalOK(t) /\ LockOK(t) /\ DataOK(t)
    BY DEF IInv
  <2>3. TypeOK'
    BY <2>1, <2>2, TypeStep
  <2>4. LocalOK(t)' /\ LockOK(t)' /\ DataOK(t)'
    BY <2>1, <2>2, <2>3, LocalStep, OwnLock, OwnData
  <2>5. \A x \in Threads \ {t} : LocalOK(x)' /\ LockOK(x)' /\ DataOK(x)'
    BY <2>1, OthersStep
  <2> QED BY <2>3, <2>4, <2>5 DEF IInv
<1> QED BY <1>1, <1>2 DEF Next

THEOREM Invariance == Spec => []IInv
BY InitInv, Inductive, PTL DEF Spec

\* The types of every variable, for any number of threads, keys and shards.
THEOREM TypeCorrect == Spec => []TypeOK
<1>1. IInv => TypeOK
  BY DEF IInv
<1> QED BY <1>1, Invariance, PTL

\* A vacant entry never inserts a duplicate, an occupied one never touches a
\* bucket already removed: do_entry keeps the shard's write guard.
THEOREM EntriesTrue == Spec => []EntryStaysTrue
<1>1. IInv => EntryStaysTrue
  BY DEF IInv, EntryStaysTrue, DataOK
<1> QED BY <1>1, Invariance, PTL

\* VacantEntry::insert never needs memory: its slot was reserved by do_entry.
THEOREM InsertInfallible == Spec => []InsertHasRoom
<1>1. IInv => InsertHasRoom
  BY DEF IInv, InsertHasRoom, DataOK
<1> QED BY <1>1, Invariance, PTL

\* Ref and RefMut point at the live element and its current value, downgrade included.
THEOREM RefsValid == Spec => []RefsStayValid
<1>1. IInv => RefsStayValid
  BY DEF IInv, RefsStayValid, DataOK
<1> QED BY <1>1, Invariance, PTL

---------------------------------------------------------------------------------
\* Refinement.

HoldsMap == [k \in Keys |-> [t \in Threads |-> IF key[t] = k THEN Holds(t) ELSE "none"]]

\* After a step, whoever holds an element exclusively, by an entry or a RefMut,
\* holds it alone.
LEMMA ExclusiveAlone ==
  ASSUME IInv', NEW t \in Threads, NEW x \in Threads \ {t}, key'[t] = key'[x],
         Holds(t)' = "exclusive"
  PROVE  Holds(x)' = "none"
<1>1. LocalOK(t)' /\ LockOK(t)' /\ LocalOK(x)' /\ LockOK(x)'
  BY DEF IInv
<1>2. pc'[t] \in {"entry", "refmut"}
  BY DEF Holds
<1>3. writer'[shard'[t]] = t /\ readers'[shard'[t]] = {}
  BY <1>1, <1>2 DEF LockOK, Excl
<1>4. ASSUME Holds(x)' # "none" PROVE FALSE
  <2>1. pc'[x] \in {"entry", "ref", "refmut"}
    BY <1>4 DEF Holds
  <2>2. shard'[x] = shard'[t]
    BY <1>1, <1>2, <2>1 DEF LocalOK, KeyCalls
  <2> QED BY <1>1, <1>3, <2>1, <2>2 DEF LockOK, Excl, Shared
<1> QED BY <1>4

\* One step of a thread is one step of the promise on the key it works on.
LEMMA StepRefines ==
  ASSUME IInv, IInv', NEW t \in Threads, Step(t)
  PROVE  Promise!Next \/ UNCHANGED <<table, HoldsMap>>
<1>1. TypeOK /\ LocalOK(t) /\ LocalOK(t)' /\ DataOK(t)' /\ TypeOK'
  BY DEF IInv
<1>2. \A x \in Threads \ {t} : key'[x] = key[x] /\ Holds(x)' = Holds(x)
  BY <1>1, Frame DEF Holds
<1>3. \A k \in Keys : table'[k] = table[k] \/ (Excl(t) /\ call[t] \in KeyCalls /\ k = key[t])
  BY <1>1, TableFrame
<1>4. table \in [Keys -> Values \union {NoValue}] /\ table' \in [Keys -> Values \union {NoValue}]
  BY <1>1 DEF TypeOK
<1>5. CASE call[t] \notin KeyCalls
  <2>1. table' = table
    BY <1>3, <1>4, <1>5
  <2>2. Holds(t) = "none" /\ Holds(t)' = "none"
    <3>1. pc[t] \in {"idle", "want", "claim", "in", "done"}
      BY <1>1, <1>5 DEF TypeOK, PCs, LocalOK, KeyCalls
    <3>2. pc'[t] \notin {"entry", "ref", "refmut"}
      BY <1>1, <1>5, <3>1, ReturnFrame
         DEF Step, Calls, Begin, BeginNonblock, BeginLoop, LockRead, ClaimWrite, GrantWrite, Bodies,
             Get, Remove, EntryFind, Fail, ScanShard, ReserveShard, ShrinkShard, Advance, Finish,
             Releases, EntryDrop, DropRef, ScanReturn, Uses, EntryInto, EntryRemove, Downgrade,
             EntryInsert, EntryWrite, RefMutWrite, Goto, KeyCalls, TypeOK
    <3> QED BY <3>1, <3>2 DEF Holds
  <2>3. HoldsMap' = HoldsMap
    BY <1>2, <2>2 DEF HoldsMap
  <2> QED BY <2>1, <2>3
<1>6. CASE call[t] \in KeyCalls
  <2>0. PICK k, h, v : k = key[t] /\ h = Holds(t)' /\ v = table'[k]
    OBVIOUS
  <2>1. k \in Keys /\ v \in Values \union {NoValue} /\ h \in Promise!Modes
    BY <2>0, <1>1, <1>4, <1>6 DEF LocalOK, Holds, Promise!Modes
  <2>2. key'[t] = k \/ h = "none"
    <3>1. pc[t] # "idle"
      BY <1>1, <1>6 DEF LocalOK, KeyCalls
    <3>2. key'[t] = key[t] \/ pc'[t] = "idle"
      BY <1>1, <3>1, ReturnFrame
         DEF Step, Calls, Begin, BeginNonblock, BeginLoop, LockRead, ClaimWrite, GrantWrite, Bodies,
             Get, Remove, TakeOut, EntryFind, Fail, ScanShard, ReserveShard, ShrinkShard, Advance, Finish,
             Releases, EntryDrop, DropRef, ScanReturn, Uses, EntryInto, EntryRemove, Downgrade,
             EntryInsert, EntryWrite, RefMutWrite, Goto
    <3> QED BY <2>0, <3>2 DEF Holds
  <2>3. table' = [table EXCEPT ![k] = v]
    BY <2>0, <1>3, <1>4, <2>1
  <2>4. HoldsMap' = [HoldsMap EXCEPT ![k][t] = h]
    <3>1. \A kk \in Keys, x \in Threads :
            (IF key'[x] = kk THEN Holds(x)' ELSE "none")
              = IF kk = k /\ x = t THEN h ELSE IF key[x] = kk THEN Holds(x) ELSE "none"
      BY <2>0, <1>2, <2>2
    <3> QED BY <3>1, <2>1 DEF HoldsMap
  <2>5. ASSUME NEW x \in Threads \ {t}
        PROVE  /\ v # table[k] => HoldsMap[k][x] = "none"
               /\ h = "exclusive" => HoldsMap[k][x] = "none"
               /\ h = "shared" => HoldsMap[k][x] # "exclusive"
    <3>1. HoldsMap[k][x] = IF key[x] = k THEN Holds(x) ELSE "none"
      BY <2>1 DEF HoldsMap
    <3>2. ASSUME key[x] = k, v # table[k] PROVE Holds(x) = "none"
      <4>1. Excl(t) /\ LockOK(t) /\ LockOK(x) /\ LocalOK(x)
        BY <2>0, <1>3, <2>1, <3>2 DEF IInv
      <4>2. writer[shard[t]] = t /\ readers[shard[t]] = {}
        BY <4>1 DEF LockOK
      <4>3. pc[x] \in {"entry", "ref", "refmut"} => shard[x] = shard[t]
        BY <2>0, <1>1, <1>6, <3>2, <4>1 DEF LocalOK, KeyCalls
      <4> QED BY <4>1, <4>2, <4>3 DEF Holds, LockOK, Excl, Shared
    <3>3. ASSUME key[x] = k, h = "exclusive" PROVE Holds(x) = "none"
      <4>1. key'[t] = key'[x]
        BY <2>0, <1>2, <2>2, <3>3
      <4>2. Holds(x)' = "none"
        BY <2>0, <3>3, <4>1, ExclusiveAlone
      <4> QED BY <4>2, <1>2
    <3>4. ASSUME key[x] = k, h = "shared" PROVE Holds(x) # "exclusive"
      <4>1. key'[t] = key'[x]
        BY <2>0, <1>2, <2>2, <3>4
      <4>2. SUFFICES ASSUME Holds(x)' = "exclusive" PROVE FALSE
        BY <1>2
      <4>3. Holds(t)' = "none"
        BY <4>1, <4>2, ExclusiveAlone
      <4> QED BY <2>0, <3>4, <4>3
    <3> QED BY <3>1, <3>2, <3>3, <3>4
  <2>6. h = "shared" => v # NoValue
    <3>1. ASSUME h = "shared" PROVE table'[key'[t]] # NoValue
      BY <2>0, <1>1, <3>1 DEF DataOK, Holds
    <3> QED BY <2>0, <3>1, <2>2
  <2>7. Promise!Step(t, k, h, v)
    BY <2>3, <2>4, <2>5, <2>6 DEF Promise!Step, HoldsMap
  <2> QED BY <2>1, <2>7 DEF Promise!Next
<1> QED BY <1>5, <1>6

LEMMA InitRefines == Init => Promise!Init
BY NamesAssumption DEF Init, Promise!Init, Holds

\* The sharded map is the map of KeyedMap: whoever holds a reference to an element
\* sees nobody else change it, whatever the shards and locks beneath.
THEOREM Refinement == Spec => ImplementsKeyedMap
<1>1. IInv /\ IInv' /\ [Next]_vars => [Promise!Next]_<<table, HoldsMap>>
  <2> SUFFICES ASSUME IInv, IInv', [Next]_vars PROVE [Promise!Next]_<<table, HoldsMap>>
    OBVIOUS
  <2>1. CASE UNCHANGED vars
    BY <2>1 DEF vars, HoldsMap, Holds
  <2>2. CASE Next
    <3>1. PICK t \in Threads : Step(t)
      BY <2>2 DEF Next
    <3> QED BY <3>1, StepRefines
  <2> QED BY <2>1, <2>2
<1>2. IInv /\ IInv' /\ [Next]_vars => [Promise!Next]_<<table, [k \in Keys |-> [t \in Threads |-> IF key[t] = k THEN Holds(t) ELSE "none"]]>>
  BY <1>1 DEF HoldsMap
<1> QED BY <1>2, InitRefines, Invariance, PTL DEF Spec, ImplementsKeyedMap, Promise!Spec

---------------------------------------------------------------------------------
\* Scans.

ScanOK(t) ==
  call[t] = "scan" =>
    /\ pc[t] \in {"want", "in", "done"}
    /\ stayed[t] \subseteq Present
    /\ Snapshot \subseteq ever[t]
    /\ acc[t] \subseteq ever[t]
    /\ \A p \in acc[t] : pc[t] # "done" => ShardOf[p[1]] < shard[t]
    /\ \A k \in stayed[t] : (pc[t] = "done" \/ ShardOf[k] < shard[t]) => \E p \in acc[t] : p[1] = k
    /\ \A p, q \in acc[t] : p[1] = q[1] => p = q

ScanInv == IInv /\ \A t \in Threads : ScanOK(t)

\* A scan that collects nothing in a step stays right: keys only leave `stayed',
\* elements only join `ever'.
LEMMA ScanKeeps ==
  ASSUME TypeOK, NEW x \in Threads, ScanOK(x), History, call[x] = "scan",
         acc'[x] = acc[x], shard'[x] = shard[x],
         pc'[x] \in {"want", "in", "done"}, pc'[x] = "done" <=> pc[x] = "done"
  PROVE  ScanOK(x)'
<1> SUFFICES ASSUME call'[x] = "scan" PROVE ScanOK(x)'
  BY DEF ScanOK
<1>1. stayed'[x] = stayed[x] \intersect Present' /\ ever'[x] = ever[x] \union Snapshot'
  BY DEF History, Scanning
<1> HIDE DEF Present, Snapshot
<1> QED BY <1>1 DEF ScanOK

\* Visiting a shard collects exactly the elements it has.
LEMMA ScanVisits ==
  ASSUME TypeOK, NEW t \in Threads, LocalOK(t), ScanOK(t), ScanShard(t), History
  PROVE  ScanOK(t)'
<1> DEFINE E == Elements(shard[t])
<1>1. call[t] = "scan" /\ pc[t] = "in" /\ acc'[t] = acc[t] \union E /\ call' = call /\ table' = table
  BY DEF ScanShard, Finish, Advance, TypeOK
<1>2. stayed'[t] = stayed[t] \intersect Present' /\ ever'[t] = ever[t] \union Snapshot'
  BY <1>1 DEF History, Scanning
<1>3. Present' = Present /\ Snapshot' = Snapshot
  BY <1>1 DEF Present, Snapshot
<1>4. E \subseteq Snapshot
  BY DEF Elements, Snapshot
<1>5. \A p \in E : p[1] \in Present /\ ShardOf[p[1]] = shard[t] /\ p = <<p[1], table[p[1]]>>
  BY DEF Elements
<1>6. \A k \in Present : ShardOf[k] = shard[t] => \E p \in E : p[1] = k
  <2> SUFFICES ASSUME NEW k \in Present, ShardOf[k] = shard[t] PROVE \E p \in E : p[1] = k
    OBVIOUS
  <2>1. <<k, table[k]>> \in E /\ <<k, table[k]>>[1] = k
    BY DEF Elements
  <2> QED BY <2>1
<1>7. shard[t] \in 0 .. ShardCount - 1 /\ \A k \in Present : ShardOf[k] \in 0 .. ShardCount - 1
  BY ShardsAssumption DEF TypeOK, Shards, Present
<1>8. \/ shard[t] = ShardCount - 1 /\ pc'[t] = "done"
      \/ pc'[t] = "want" /\ shard'[t] = shard[t] + 1
  BY DEF ScanShard, Finish, Advance, Goto, Last, TypeOK
<1>9. \A p \in acc[t] : ShardOf[p[1]] < shard[t]
  BY <1>1 DEF ScanOK
<1>10. stayed[t] \subseteq Present /\ Snapshot \subseteq ever[t] /\ acc[t] \subseteq ever[t]
  BY <1>1 DEF ScanOK
<1> HIDE DEF Present, Snapshot, E
<1>11. \A p, q \in acc'[t] : p[1] = q[1] => p = q
  <2> SUFFICES ASSUME NEW p \in acc[t] \union E, NEW q \in acc[t] \union E, p[1] = q[1] PROVE p = q
    BY <1>1
  <2>1. CASE p \in acc[t] /\ q \in acc[t]
    BY <2>1, <1>1 DEF ScanOK
  <2>2. CASE p \in E /\ q \in E
    BY <2>2, <1>5
  <2>3. CASE (p \in acc[t] /\ q \in E) \/ (q \in acc[t] /\ p \in E)
    <3>1. ShardOf[p[1]] < shard[t] /\ ShardOf[p[1]] = shard[t]
      BY <2>3, <1>5, <1>9
    <3> QED BY <3>1, <1>7
  <2> QED BY <2>1, <2>2, <2>3
<1>12. \A k \in stayed'[t] : (pc'[t] = "done" \/ ShardOf[k] < shard'[t]) => \E p \in acc'[t] : p[1] = k
  <2> SUFFICES ASSUME NEW k \in stayed[t], k \in Present, pc'[t] = "done" \/ ShardOf[k] < shard'[t]
               PROVE  \E p \in acc[t] \union E : p[1] = k
    BY <1>1, <1>2, <1>3
  <2>1. ShardOf[k] <= shard[t]
    BY <1>7, <1>8, ShardsAssumption
  <2>2. CASE ShardOf[k] < shard[t]
    BY <2>2, <1>1 DEF ScanOK
  <2>3. CASE ShardOf[k] = shard[t]
    BY <2>3, <1>6
  <2> QED BY <2>1, <2>2, <2>3, <1>7
<1>13. \A p \in acc'[t] : pc'[t] # "done" => ShardOf[p[1]] < shard'[t]
  <2> SUFFICES ASSUME NEW p \in acc[t] \union E, pc'[t] # "done" PROVE ShardOf[p[1]] < shard'[t]
    BY <1>1
  <2>1. shard'[t] = shard[t] + 1
    BY <1>8
  <2>2. CASE p \in E
    BY <2>1, <2>2, <1>5, <1>7
  <2>3. CASE p \in acc[t]
    <3>1. p[1] \in Keys
      BY <2>3 DEF TypeOK, Pairs
    <3>2. ShardOf[p[1]] \in Int
      BY <3>1, ShardsAssumption DEF Shards
    <3> QED BY <2>1, <2>3, <3>2, <1>7, <1>9
  <2> QED BY <2>2, <2>3
<1>14. /\ pc'[t] \in {"want", "in", "done"} /\ stayed'[t] \subseteq Present'
       /\ Snapshot' \subseteq ever'[t] /\ acc'[t] \subseteq ever'[t]
  BY <1>1, <1>2, <1>3, <1>4, <1>8, <1>10
<1> QED BY <1>11, <1>12, <1>13, <1>14 DEF ScanOK

\* A scan begins with everything there in sight and nothing collected.
LEMMA ScanBegins ==
  ASSUME TypeOK, NEW t \in Threads, LocalOK(t), BeginLoop(t, "scan"), History
  PROVE  ScanOK(t)'
<1>1. pc[t] = "idle" /\ call[t] = "none" /\ shard'[t] = 0 /\ acc'[t] = {} /\ pc'[t] = "want"
  BY DEF BeginLoop, Goto, LocalOK, TypeOK
<1>2. Scanning(t)' /\ ~Scanning(t)
  BY <1>1 DEF BeginLoop, Scanning, TypeOK
<1>3. stayed'[t] = Present' /\ ever'[t] = ever[t] \union Snapshot'
  BY <1>2 DEF History
<1>4. \A k \in Present' : ~(ShardOf[k] < 0)
  BY ShardsAssumption DEF Present, Shards
<1> HIDE DEF Present, Snapshot
<1> QED BY <1>1, <1>3, <1>4 DEF ScanOK

LEMMA OwnScan ==
  ASSUME TypeOK, NEW t \in Threads, LocalOK(t), ScanOK(t), Step(t), History
  PROVE  ScanOK(t)'
<1>1. CASE call'[t] # "scan"
  BY <1>1 DEF ScanOK
<1>2. CASE call[t] = "scan" /\ call'[t] = "scan"
  <2>1. pc[t] \in {"want", "in", "done"}
    BY <1>2 DEF ScanOK
  <2>2. CASE LockRead(t)
    BY <1>2, <2>2, ScanKeeps DEF LockRead, Goto, TypeOK
  <2>3. CASE ScanShard(t)
    BY <2>3, ScanVisits
  <2>4. CASE Return(t)
    BY <1>2, <2>4, ReturnFrame
  <2> QED
    BY <1>2, <2>1, <2>2, <2>3, <2>4
       DEF Step, Calls, Begin, BeginNonblock, BeginLoop, ClaimWrite, GrantWrite, Bodies, Get, Remove,
           EntryFind, Fail, ReserveShard, ShrinkShard, Releases, EntryDrop, DropRef, ScanReturn, Uses,
           EntryInto, EntryRemove, Downgrade, EntryInsert, EntryWrite, RefMutWrite, Reads, LocalOK
<1>3. CASE call[t] # "scan" /\ call'[t] = "scan"
  <2>1. CASE Calls(t)
    <3>1. BeginLoop(t, "scan")
      BY <1>3, <2>1 DEF Calls, Begin, BeginNonblock, BeginLoop, KeyCalls, LoopCalls, TypeOK
    <3> QED BY <3>1, ScanBegins
  <2>2. CASE ~Calls(t)
    BY <1>3, <2>2, ReturnFrame
       DEF Step, LockRead, ClaimWrite, GrantWrite, Bodies, Get, Remove, TakeOut,
           EntryFind, Fail, ScanShard, ReserveShard, ShrinkShard, Advance, Finish, Releases, EntryDrop,
           DropRef, ScanReturn, Uses, EntryInto, EntryRemove, Downgrade, EntryInsert, EntryWrite, RefMutWrite
  <2> QED BY <2>1, <2>2
<1> QED BY <1>1, <1>2, <1>3

LEMMA ScanInductive == ScanInv /\ [Next]_vars => ScanInv'
<1> SUFFICES ASSUME ScanInv, [Next]_vars PROVE ScanInv'
  OBVIOUS
<1>0. IInv'
  BY Inductive DEF ScanInv
<1>1. CASE UNCHANGED vars
  BY <1>0, <1>1 DEF ScanInv, vars, ScanOK, Present, Snapshot
<1>2. CASE Next
  <2>1. PICK t \in Threads : Step(t) /\ History
    BY <1>2 DEF Next
  <2>2. TypeOK /\ LocalOK(t) /\ ScanOK(t)
    BY DEF ScanInv, IInv
  <2>3. ScanOK(t)'
    BY <2>1, <2>2, OwnScan
  <2>4. ASSUME NEW x \in Threads \ {t} PROVE ScanOK(x)'
    <3>1. pc'[x] = pc[x] /\ call'[x] = call[x] /\ shard'[x] = shard[x] /\ acc'[x] = acc[x]
      BY <2>1, <2>2, Frame
    <3>2. CASE call[x] = "scan"
      <4>1. ScanOK(x) /\ pc[x] \in {"want", "in", "done"}
        BY <3>2 DEF ScanInv, ScanOK
      <4> QED BY <2>1, <2>2, <3>1, <3>2, <4>1, ScanKeeps
    <3> QED BY <3>1, <3>2 DEF ScanOK
  <2> QED BY <1>0, <2>3, <2>4 DEF ScanInv
<1> QED BY <1>1, <1>2

\* A completed len, visit_all or try_clone missed nothing that was there all along
\* and made nothing up, although the shards are locked one after the other.
THEOREM ScansSandwiched == Spec => []ScanSandwich
<1>1. Init => ScanInv
  BY InitInv DEF Init, ScanInv, ScanOK
<1>2. ScanInv => ScanSandwich
  BY DEF ScanInv, IInv, LocalOK, ScanOK, ScanSandwich
<1> QED BY <1>1, <1>2, ScanInductive, PTL DEF Spec
=================================================================================
