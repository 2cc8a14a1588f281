----------------------------- MODULE InternerProofs -----------------------------
(***************************************************************************)
(* Proofs about Interner, for any number of threads, values, shards and     *)
(* allocations and any hash function.                                      *)
(***************************************************************************)
EXTENDS Interner, FiniteSetTheorems, TLAPS

(***************************************************************************)
(* The inductive invariant.                                                *)
(***************************************************************************)

\* Step 2 runs under the write lock of the value's shard.
Inside == {"reserve", "recheck", "stale", "create"}
Exclusive == \A t \in Threads : pc[t] \in Inside => writer[Shard(t)] = t

\* An entry is in the shard of its value and bears its hash, an allocation has
\* one entry at most, and one while it is alive.
Listed ==
  /\ \A s \in Shards :
       /\ IsFiniteSet(entries[s])
       /\ \A e \in entries[s] :
            /\ ShardOf[val[e.weak]] = s /\ e.key = Hash[val[e.weak]]
            /\ s \notin rehashed => e.at = e.key
       /\ \A e, f \in entries[s] : e.weak = f.weak => e = f
  /\ \A a \in Arcs : Live(a) => a \in WeakIn(ShardOf[val[a]])

\* What step 2 has found out still holds when it acts on it.
Holds(t) ==
  /\ pc[t] \in {"recheck", "stale", "create"} => spare[Shard(t)] > 0
  /\ pc[t] \in {"stale", "create"} /\ found[t] # NoArc =>
       found[t] \in WeakIn(Shard(t)) /\ val[found[t]] = arg[t]
  /\ pc[t] = "create" => ~Live(found[t])
  /\ Shard(t) \notin rehashed =>
       /\ pc[t] = "stale" => \A a \in Arcs : Live(a) /\ val[a] = arg[t] => a = found[t]
       /\ pc[t] = "create" => \A a \in Arcs : Live(a) => val[a] # arg[t]
Known == \A t \in Threads : Holds(t)

IInv == TypeOK /\ Exclusive /\ Listed /\ Known /\ OneCopyUntilRehash

-------------------------------------------------------------------------------

\* The call's return drops its guard.
LEMMA Returned ==
  ASSUME TypeOK, NEW t \in Threads, Return(t)
  PROVE  /\ writer' \in [Shards -> Threads \union {NoOne}] /\ readers' \in [Shards -> SUBSET Threads]
         /\ pc' \in [Threads -> PCs] /\ found' \in [Threads -> Arcs \union {NoArc}]
         /\ pc'[t] = "idle"
         /\ \A u \in Threads \ {t} : pc'[u] = pc[u] /\ found'[u] = found[u]
         /\ \A s \in Shards : writer[s] # t => writer'[s] = writer[s]
  BY DEF TypeOK, Return, Goto, PCs

LEMMA ShardIn ==
  ASSUME TypeOK
  PROVE  /\ \A t \in Threads : Shard(t) \in Shards
         /\ \A a \in Arcs : ShardOf[val[a]] \in Shards
         /\ \A s \in Shards : \A e \in entries[s] :
              e.weak \in Arcs /\ e.key \in Hashes /\ e.at \in Hashes
  BY ShardAssumption DEF TypeOK, Shard, Entry

\* Pruning removes what has expired and only ever adds room.
LEMMA PruneEffect ==
  ASSUME IInv, NEW t \in Threads, NEW s \in Shards, PruneShard(t, s)
  PROVE  /\ entries' \in [Shards -> SUBSET Entry]
         /\ spare' \in [Shards -> 0 .. MaxSpare]
         /\ \A x \in Shards :
              /\ spare'[x] >= spare[x]
              /\ entries'[x] \subseteq entries[x]
              /\ \A e \in entries[x] \ entries'[x] : ~Live(e.weak) /\ writer[x] = NoOne
  <1> USE SpareAssumption DEF IInv, TypeOK
  <1>1. CASE UNCHANGED <<entries, spare>>
    BY <1>1
  <1>2. ASSUME entries' = [entries EXCEPT ![s] = {e \in @ : Live(e.weak)}],
               NEW n \in 0 .. Cardinality(entries[s]) - Cardinality(entries'[s]),
               spare' = [spare EXCEPT ![s] = IF @ + n <= MaxSpare THEN @ + n ELSE MaxSpare]
        PROVE  spare' \in [Shards -> 0 .. MaxSpare] /\ \A x \in Shards : spare'[x] >= spare[x]
    <2>1. entries'[s] \subseteq entries[s]
      BY <1>2
    <2>2. IsFiniteSet(entries[s]) /\ IsFiniteSet(entries'[s])
      BY <2>1, FS_Subset DEF Listed
    <2>3. Cardinality(entries[s]) \in Nat /\ Cardinality(entries'[s]) \in Nat
      BY <2>2, FS_CardinalityType
    <2>4. n \in Nat
      BY <2>3
    <2> QED
      BY <1>2, <2>4
  <1>3. ASSUME entries' = [entries EXCEPT ![s] = {e \in @ : Live(e.weak)}], Unlocked(s)
        PROVE  /\ entries' \in [Shards -> SUBSET Entry]
               /\ \A x \in Shards :
                    /\ entries'[x] \subseteq entries[x]
                    /\ \A e \in entries[x] \ entries'[x] : ~Live(e.weak) /\ writer[x] = NoOne
    BY <1>3 DEF Unlocked
  <1> QED
    BY <1>1, <1>2, <1>3 DEF PruneShard

\* A rehash moves every entry of the shard and keeps what it stands for.
Grows(t) ==
  /\ spare[Shard(t)] = 0
  /\ entries' = [entries EXCEPT ![Shard(t)] = {Rehashed(e) : e \in @}]
  /\ \E n \in 1 .. MaxSpare : spare' = [spare EXCEPT ![Shard(t)] = n]
  /\ rehashed' = IF entries[Shard(t)] = {} THEN rehashed ELSE rehashed \union {Shard(t)}
  /\ Goto(t, "recheck")
  /\ UNCHANGED <<found, locks>>

LEMMA GrowEffect ==
  ASSUME IInv, NEW t \in Threads, Grows(t)
  PROVE  /\ entries' \in [Shards -> SUBSET Entry] /\ IsFiniteSet(entries'[Shard(t)])
         /\ spare' \in [Shards -> 0 .. MaxSpare] /\ spare'[Shard(t)] > 0
         /\ \A s \in Shards \ {Shard(t)} : entries'[s] = entries[s] /\ spare'[s] = spare[s]
         /\ \A f \in entries'[Shard(t)] : \E e \in entries[Shard(t)] :
              f = Rehashed(e) /\ f.weak = e.weak /\ f.key = e.key
         /\ \A e \in entries[Shard(t)] : \E f \in entries'[Shard(t)] : f.weak = e.weak
         /\ entries'[Shard(t)] # {} => Shard(t) \in rehashed'
         /\ rehashed' \subseteq Shards /\ rehashed \subseteq rehashed'
         /\ rehashed' \subseteq rehashed \union {Shard(t)}
  <1> DEFINE S == Shard(t)
  <1> USE DEF IInv, TypeOK
  <1>1. S \in Shards
    BY ShardIn
  <1>2. entries'[S] = {Rehashed(e) : e \in entries[S]}
    BY <1>1 DEF Grows
  <1>3. ASSUME NEW e \in entries[S]
        PROVE  Rehashed(e) \in Entry /\ Rehashed(e).weak = e.weak /\ Rehashed(e).key = e.key
    BY <1>1, HashAssumption DEF Entry, Rehashed
  <1>4. entries' \in [Shards -> SUBSET Entry]
    BY <1>1, <1>2, <1>3 DEF Grows
  <1>5. IsFiniteSet(entries'[S])
    <2> DEFINE F == [e \in entries[S] |-> Rehashed(e)]
    <2>1. F \in Surjection(entries[S], entries'[S])
      BY <1>2 DEF Surjection
    <2>2. IsFiniteSet(entries[S])
      BY <1>1 DEF Listed
    <2> QED
      BY <2>1, <2>2, FS_Surjection
  <1>6. spare' \in [Shards -> 0 .. MaxSpare] /\ spare'[S] > 0
    BY <1>1, SpareAssumption DEF Grows
  <1>7. \A s \in Shards \ {S} : entries'[s] = entries[s] /\ spare'[s] = spare[s]
    BY <1>1 DEF Grows
  <1>8. entries'[S] # {} => entries[S] # {}
    BY <1>2
  <1>9. /\ rehashed' \subseteq Shards /\ rehashed \subseteq rehashed' /\ rehashed' \subseteq rehashed \union {S}
        /\ entries[S] # {} => S \in rehashed'
    BY <1>1 DEF Grows
  <1> QED
    BY <1>2, <1>3, <1>4, <1>5, <1>6, <1>7, <1>8, <1>9

\* A new entry stands for the new allocation, in place of the expired one or
\* beside the others.
Added(t, a) ==
  /\ ~Live(a) /\ \A s \in Shards : a \notin WeakIn(s)
  /\ strong' = [strong EXCEPT ![a] = 1] /\ val' = [val EXCEPT ![a] = arg[t]]
  /\ entries' \in [Shards -> SUBSET Entry] /\ IsFiniteSet(entries'[Shard(t)])
  /\ spare' \in [Shards -> 0 .. MaxSpare]
  /\ \A s \in Shards \ {Shard(t)} : entries'[s] = entries[s] /\ spare'[s] = spare[s]
  /\ \A f \in entries'[Shard(t)] :
       \/ f \in entries[Shard(t)] /\ f.weak # a
       \/ /\ f.weak = a /\ f.key = Hash[arg[t]]
          /\ Shard(t) \notin rehashed => f.at = f.key
  /\ \A f, g \in entries'[Shard(t)] : f.weak = g.weak => f = g
  /\ \A e \in entries[Shard(t)] : e.weak # found[t] => e \in entries'[Shard(t)]
  /\ \E f \in entries'[Shard(t)] : f.weak = a

LEMMA CreateEffect ==
  ASSUME IInv, NEW t \in Threads, Create(t)
  PROVE  \E a \in Arcs : Added(t, a)
  <1> DEFINE S == Shard(t)
  <1> USE DEF IInv, TypeOK
  <1>1. S \in Shards /\ arg[t] \in Values /\ Hash[arg[t]] \in Hashes
    BY ShardIn, HashAssumption
  <1>2. PICK a \in Unused :
          /\ strong' = [strong EXCEPT ![a] = 1] /\ val' = [val EXCEPT ![a] = arg[t]]
          /\ IF found[t] # NoArc
             THEN entries' = [entries EXCEPT ![S] = Replaced(S, found[t], a)] /\ UNCHANGED spare
             ELSE /\ entries' = [entries EXCEPT ![S] =
                                   @ \union {[at |-> Hash[arg[t]], key |-> Hash[arg[t]], weak |-> a]}]
                  /\ spare' = [spare EXCEPT ![S] = @ - 1]
    BY DEF Create
  <1>3. a \in Arcs /\ ~Live(a) /\ \A s \in Shards : \A e \in entries[s] : e.weak # a
    BY DEF Unused, WeakIn
  <1>4. CASE found[t] # NoArc
    <2> DEFINE R(e) == IF e.weak = found[t] THEN [e EXCEPT !.weak = a] ELSE e
    <2>1. entries'[S] = {R(e) : e \in entries[S]} /\ \A s \in Shards \ {S} : entries'[s] = entries[s]
      BY <1>1, <1>2, <1>4 DEF Replaced
    <2>2. PICK o \in entries[S] : o.weak = found[t] /\ val[found[t]] = arg[t]
      BY <1>4 DEF Create, Known, Holds, WeakIn
    <2>3. ASSUME NEW e \in entries[S]
          PROVE  /\ R(e) \in Entry
                 /\ e.weak # found[t] => R(e) = e
                 /\ e.weak = found[t] => e = o
      BY <1>1, <1>3, <2>2, <2>3 DEF Entry, Listed
    <2>4. R(o) \in Entry /\ R(o).weak = a /\ R(o).key = Hash[arg[t]]
          /\ (S \notin rehashed => R(o).at = R(o).key)
      BY <1>1, <1>3, <2>2, <2>3 DEF Entry, Listed
    <2>5. \A f \in entries'[S] : f = R(o) \/ (f \in entries[S] /\ f.weak # found[t])
      BY <2>1, <2>2, <2>3
    <2>6. IsFiniteSet(entries'[S])
      <3> DEFINE F == [e \in entries[S] |-> R(e)]
      <3>1. F \in Surjection(entries[S], entries'[S])
        BY <2>1 DEF Surjection
      <3>2. IsFiniteSet(entries[S])
        BY <1>1 DEF Listed
      <3> QED
        BY <3>1, <3>2, FS_Surjection
    <2>7. entries' \in [Shards -> SUBSET Entry]
      BY <1>1, <1>2, <1>4, <2>1, <2>3
    <2>8. \A f, g \in entries'[S] : f.weak = g.weak => f = g
      <3>1. \A e \in entries[S] : e.weak # a
        BY <1>1, <1>3
      <3>2. \A e, f \in entries[S] : e.weak = f.weak => e = f
        BY <1>1 DEF Listed
      <3> HIDE DEF R, S
      <3>3. R(o).weak = a
        BY <2>4
      <3> QED
        BY <2>5, <3>1, <3>2, <3>3
    <2>9. R(o) \in entries'[S] /\ \A e \in entries[S] : e.weak # found[t] => e \in entries'[S]
      BY <2>1, <2>2, <2>3
    <2> QED
      <3>1. \A f \in entries'[S] :
              \/ f \in entries[S] /\ f.weak # a
              \/ f.weak = a /\ f.key = Hash[arg[t]] /\ (S \notin rehashed => f.at = f.key)
        <4>1. \A e \in entries[S] : e.weak # a
          BY <1>1, <1>3
        <4> HIDE DEF R
        <4> QED
          BY <2>4, <2>5, <4>1
      <3>2. \E f \in entries'[S] : f.weak = a
        BY <2>4, <2>9
      <3>3. \A s \in Shards : a \notin WeakIn(s)
        BY <1>3 DEF WeakIn
      <3>4. spare' \in [Shards -> 0 .. MaxSpare] /\ \A s \in Shards : spare'[s] = spare[s]
        BY <1>2, <1>4
      <3> HIDE DEF R
      <3> QED
        BY <1>2, <1>3, <2>1, <2>6, <2>7, <2>8, <2>9, <3>1, <3>2, <3>3, <3>4 DEF Added
  <1>5. CASE found[t] = NoArc
    <2> DEFINE new == [at |-> Hash[arg[t]], key |-> Hash[arg[t]], weak |-> a]
    <2>1. entries'[S] = entries[S] \union {new} /\ \A s \in Shards \ {S} : entries'[s] = entries[s]
      BY <1>1, <1>2, <1>5
    <2>2. new \in Entry /\ new.weak = a /\ new.key = Hash[arg[t]] /\ new.at = new.key
      BY <1>1, <1>3 DEF Entry
    <2>3. IsFiniteSet(entries'[S])
      <3>1. IsFiniteSet(entries[S])
        BY <1>1 DEF Listed
      <3>2. IsFiniteSet(entries[S] \cup {new})
        <4> HIDE DEF new
        <4> QED
          BY <3>1, FS_AddElement
      <3> QED
        BY <2>1, <3>2
    <2>4. entries' \in [Shards -> SUBSET Entry]
      BY <1>1, <1>2, <1>5, <2>1, <2>2
    <2>5. spare[S] > 0
      BY DEF Create, Known, Holds
    <2>6. spare' \in [Shards -> 0 .. MaxSpare] /\ \A s \in Shards \ {S} : spare'[s] = spare[s]
      BY <1>1, <1>2, <1>5, <2>5, SpareAssumption
    <2>7. \A f, g \in entries'[S] : f.weak = g.weak => f = g
      BY <1>1, <1>3, <2>1, <2>2 DEF Listed
    <2> QED
      <3>1. \A s \in Shards : a \notin WeakIn(s)
        BY <1>3 DEF WeakIn
      <3>2. \A e \in entries[S] : e.weak # a
        BY <1>1, <1>3
      <3>3. new \in entries'[S] /\ \A f \in entries'[S] : f = new \/ f \in entries[S]
        BY <2>1
      <3>4. \A e \in entries[S] : e \in entries'[S]
        BY <2>1
      <3>5. \A f \in entries'[S] :
              \/ f \in entries[S] /\ f.weak # a
              \/ f.weak = a /\ f.key = Hash[arg[t]] /\ (S \notin rehashed => f.at = f.key)
        BY <2>2, <3>2, <3>3
      <3>6. \E f \in entries'[S] : f.weak = a
        BY <2>2, <3>3
      <3> HIDE DEF new
      <3> QED
        BY <1>2, <1>3, <2>1, <2>3, <2>4, <2>6, <2>7, <3>1, <3>4, <3>5, <3>6 DEF Added
  <1> QED
    BY <1>4, <1>5

\* Each step of a call, a reservation's three outcomes among them.
LEMMA ReserveCases ==
  ASSUME NEW t \in Threads, Reserve(t)
  PROVE  /\ pc[t] = "reserve" /\ UNCHANGED <<heap, arg, toPrune>>
         /\ \/ spare[Shard(t)] > 0 /\ Goto(t, "recheck") /\ UNCHANGED <<entries, spare, rehashed, found, locks>>
            \/ Grows(t)
            \/ Return(t) /\ UNCHANGED <<entries, spare, rehashed>>
  BY DEF Reserve, Grows

\* Types.
LEMMA TypeStep ==
  ASSUME IInv, Next
  PROVE  TypeOK'
  <1> USE NamesAssumption, SpareAssumption DEF IInv
  <1>1. ASSUME NEW a \in Arcs, CloneHandle(a) PROVE TypeOK'
    BY <1>1, ShardIn DEF TypeOK, PCs, Live, CloneHandle, heap, locks
  <1>2. ASSUME NEW a \in Arcs, DropHandle(a) PROVE TypeOK'
    BY <1>2, ShardIn DEF TypeOK, PCs, Live, DropHandle, heap, locks
  <1>3. ASSUME NEW t \in Threads, NEW v \in Values, Begin(t, v) PROVE TypeOK'
    BY <1>3, ShardIn DEF TypeOK, PCs, Live, Begin, heap, locks, Goto
  <1>4. ASSUME NEW t \in Threads, PruneDone(t) PROVE TypeOK'
    BY <1>4, ShardIn DEF TypeOK, PCs, Live, PruneDone, heap, locks, Goto
  <1>5. ASSUME NEW t \in Threads, NEW s \in Shards, PruneShard(t, s) PROVE TypeOK'
    <2>1. toPrune' \in [Threads -> SUBSET Shards]
      BY <1>5 DEF TypeOK, PruneShard
    <2> QED
      BY <1>5, <2>1, PruneEffect DEF TypeOK, PruneShard, heap, locks
  <1>6. ASSUME NEW t \in Threads, FastFind(t) PROVE TypeOK'
    <2>1. found' \in [Threads -> Arcs \union {NoArc}]
      BY <1>6, ShardIn DEF TypeOK, FastFind, Find, Matches
    <2> QED
      BY <1>6, <2>1, ShardIn DEF TypeOK, PCs, FastFind, heap, locks, Goto
  <1>7. ASSUME NEW t \in Threads, FastHit(t) PROVE TypeOK'
    <2>1. found[t] \in Arcs /\ strong' \in [Arcs -> Nat]
      BY <1>7 DEF TypeOK, FastHit, Live, Handed
    <2> QED
      BY <1>7, <2>1, Returned DEF TypeOK, FastHit
  <1>8. ASSUME NEW t \in Threads, FastMiss(t) PROVE TypeOK'
    BY <1>8, ShardIn DEF TypeOK, PCs, Live, FastMiss, heap, locks, Goto
  <1>9. ASSUME NEW t \in Threads, LockShard(t) PROVE TypeOK'
    BY <1>9, ShardIn DEF TypeOK, PCs, Live, LockShard, heap, locks, Unlocked, Goto
  <1>10. ASSUME NEW t \in Threads, Reserve(t) PROVE TypeOK'
    <2>1. CASE UNCHANGED <<entries, spare, rehashed, found, locks>> /\ Goto(t, "recheck")
      BY <1>10, <2>1, ReserveCases DEF TypeOK, PCs, Goto, heap, locks
    <2>2. CASE Return(t) /\ UNCHANGED <<entries, spare, rehashed>>
      BY <1>10, <2>2, Returned, ReserveCases DEF TypeOK, heap
    <2>3. CASE Grows(t)
      <3>1. UNCHANGED <<found, locks>> /\ Goto(t, "recheck")
        BY <2>3 DEF Grows
      <3>2. UNCHANGED <<heap, arg, toPrune>>
        BY <1>10, ReserveCases
      <3> QED
        BY <2>3, <3>1, <3>2, GrowEffect DEF TypeOK, PCs, Goto, heap, locks
    <2> QED
      BY <1>10, <2>1, <2>2, <2>3, ReserveCases
  <1>11. ASSUME NEW t \in Threads, Recheck(t) PROVE TypeOK'
    <2>1. found' \in [Threads -> Arcs \union {NoArc}]
      BY <1>11, ShardIn DEF TypeOK, Recheck, Find, Matches
    <2> QED
      BY <1>11, <2>1, ShardIn DEF TypeOK, PCs, Recheck, heap, locks, Goto
  <1>12. ASSUME NEW t \in Threads, Upgraded(t) PROVE TypeOK'
    <2>1. found[t] \in Arcs /\ strong' \in [Arcs -> Nat]
      BY <1>12 DEF TypeOK, Upgraded, Live, Handed
    <2> QED
      BY <1>12, <2>1, Returned DEF TypeOK, Upgraded
  <1>13. ASSUME NEW t \in Threads, Expired(t) PROVE TypeOK'
    BY <1>13, ShardIn DEF TypeOK, PCs, Live, Expired, heap, locks, Goto
  <1>14. ASSUME NEW t \in Threads, CreateFails(t) PROVE TypeOK'
    BY <1>14, Returned DEF TypeOK, CreateFails, heap
  <1>15. ASSUME NEW t \in Threads, Create(t) PROVE TypeOK'
    <2>1. strong' \in [Arcs -> Nat] /\ val' \in [Arcs -> Values]
      BY <1>15, CreateEffect DEF TypeOK, Added
    <2>2. entries' \in [Shards -> SUBSET Entry] /\ spare' \in [Shards -> 0 .. MaxSpare]
      BY <1>15, CreateEffect DEF Added
    <2> QED
      BY <1>15, <2>1, <2>2, Returned DEF TypeOK, Create
  <1> QED
    BY <1>1, <1>2, <1>3, <1>4, <1>5, <1>6, <1>7, <1>8, <1>9, <1>10, <1>11, <1>12, <1>13,
       <1>14, <1>15
       DEF Next, Clients, Calls, Prunes, Interns

\* No two threads are in step 2 of one shard.
LEMMA ExclusiveStep ==
  ASSUME IInv, Next
  PROVE  Exclusive'
  <1> USE NamesAssumption, SpareAssumption DEF IInv
  <1>1. ASSUME NEW a \in Arcs, CloneHandle(a) PROVE Exclusive'
    BY <1>1, ShardIn DEF TypeOK, Exclusive, Inside, Shard, CloneHandle, heap, locks
  <1>2. ASSUME NEW a \in Arcs, DropHandle(a) PROVE Exclusive'
    BY <1>2, ShardIn DEF TypeOK, Exclusive, Inside, Shard, DropHandle, heap, locks
  <1>3. ASSUME NEW t \in Threads, NEW v \in Values, Begin(t, v) PROVE Exclusive'
    BY <1>3, ShardIn DEF TypeOK, Exclusive, Inside, Shard, Begin, heap, locks, Goto
  <1>4. ASSUME NEW t \in Threads, PruneDone(t) PROVE Exclusive'
    BY <1>4, ShardIn DEF TypeOK, Exclusive, Inside, Shard, PruneDone, heap, locks, Goto
  <1>5. ASSUME NEW t \in Threads, NEW s \in Shards, PruneShard(t, s) PROVE Exclusive'
    BY <1>5, ShardIn
       DEF TypeOK, Exclusive, Inside, Shard, PruneShard, heap, locks, Unlocked
  <1>6. ASSUME NEW t \in Threads, FastFind(t) PROVE Exclusive'
    BY <1>6, ShardIn DEF TypeOK, Exclusive, Inside, Shard, FastFind, Goto, locks
  <1>7. ASSUME NEW t \in Threads, FastHit(t) PROVE Exclusive'
    <2>1. Return(t) /\ UNCHANGED arg
      BY <1>7 DEF FastHit
    <2> QED
      BY <2>1, Returned, ShardIn DEF TypeOK, Exclusive, Inside, Shard
  <1>8. ASSUME NEW t \in Threads, FastMiss(t) PROVE Exclusive'
    BY <1>8, ShardIn DEF TypeOK, Exclusive, Inside, Shard, FastMiss, heap, locks, Goto
  <1>9. ASSUME NEW t \in Threads, LockShard(t) PROVE Exclusive'
    BY <1>9, ShardIn
       DEF TypeOK, Exclusive, Inside, Shard, LockShard, heap, locks, Unlocked, Goto
  <1>10. ASSUME NEW t \in Threads, Reserve(t) PROVE Exclusive'
    <2>1. UNCHANGED arg /\ pc[t] = "reserve"
      BY <1>10, ReserveCases
    <2>2. CASE UNCHANGED locks /\ Goto(t, "recheck")
      BY <2>1, <2>2 DEF TypeOK, Exclusive, Inside, Shard, Goto, locks
    <2>3. CASE Return(t)
      BY <2>1, <2>3, Returned, ShardIn DEF TypeOK, Exclusive, Inside, Shard
    <2> QED
      BY <1>10, <2>2, <2>3, ReserveCases DEF Grows, locks
  <1>11. ASSUME NEW t \in Threads, Recheck(t) PROVE Exclusive'
    BY <1>11, ShardIn DEF TypeOK, Exclusive, Inside, Shard, Recheck, Goto, locks
  <1>12. ASSUME NEW t \in Threads, Upgraded(t) PROVE Exclusive'
    <2>1. Return(t) /\ UNCHANGED arg
      BY <1>12 DEF Upgraded
    <2> QED
      BY <2>1, Returned, ShardIn DEF TypeOK, Exclusive, Inside, Shard
  <1>13. ASSUME NEW t \in Threads, Expired(t) PROVE Exclusive'
    BY <1>13, ShardIn DEF TypeOK, Exclusive, Inside, Shard, Expired, heap, locks, Goto
  <1>14. ASSUME NEW t \in Threads, CreateFails(t) PROVE Exclusive'
    <2>1. Return(t) /\ UNCHANGED arg
      BY <1>14 DEF CreateFails
    <2> QED
      BY <2>1, Returned, ShardIn DEF TypeOK, Exclusive, Inside, Shard
  <1>15. ASSUME NEW t \in Threads, Create(t) PROVE Exclusive'
    <2>1. Return(t) /\ UNCHANGED arg
      BY <1>15 DEF Create
    <2> QED
      BY <2>1, Returned, ShardIn DEF TypeOK, Exclusive, Inside, Shard
  <1> QED
    BY <1>1, <1>2, <1>3, <1>4, <1>5, <1>6, <1>7, <1>8, <1>9, <1>10, <1>11, <1>12, <1>13,
       <1>14, <1>15
       DEF Next, Clients, Calls, Prunes, Interns


\* A step that neither changes the tables nor revives an allocation.
LEMMA QuietStep ==
  ASSUME IInv, UNCHANGED <<val, entries, rehashed>>, \A a \in Arcs : Live(a)' => Live(a)
  PROVE  Listed' /\ OneCopyUntilRehash'
  <1>1. Listed'
    BY DEF IInv, Listed, WeakIn
  <1>2. OneCopyUntilRehash'
    BY DEF IInv, OneCopyUntilRehash
  <1> QED
    BY <1>1, <1>2

\* Whatever is pruned, rehashed or replaced, each live allocation keeps its
\* entry, and a value gets a second one only in a rehashed shard.
LEMMA TableStep ==
  ASSUME IInv, Next
  PROVE  Listed' /\ OneCopyUntilRehash'
  <1> USE NamesAssumption, SpareAssumption DEF IInv
  <1>1. ASSUME NEW a \in Arcs, CloneHandle(a) PROVE Listed' /\ OneCopyUntilRehash'
    <2>1. UNCHANGED <<val, entries, rehashed>> /\ \A x \in Arcs : Live(x)' => Live(x)
      BY <1>1 DEF TypeOK, Live, heap, CloneHandle
    <2> QED
      BY <2>1, QuietStep
  <1>2. ASSUME NEW a \in Arcs, DropHandle(a) PROVE Listed' /\ OneCopyUntilRehash'
    <2>1. UNCHANGED <<val, entries, rehashed>> /\ \A x \in Arcs : Live(x)' => Live(x)
      BY <1>2 DEF TypeOK, Live, heap, DropHandle
    <2> QED
      BY <2>1, QuietStep
  <1>3. ASSUME NEW t \in Threads, NEW v \in Values, Begin(t, v) PROVE Listed' /\ OneCopyUntilRehash'
    <2>1. UNCHANGED <<val, entries, rehashed>> /\ \A x \in Arcs : Live(x)' => Live(x)
      BY <1>3 DEF TypeOK, Live, heap, Begin
    <2> QED
      BY <2>1, QuietStep
  <1>4. ASSUME NEW t \in Threads, PruneDone(t) PROVE Listed' /\ OneCopyUntilRehash'
    <2>1. UNCHANGED <<val, entries, rehashed>> /\ \A x \in Arcs : Live(x)' => Live(x)
      BY <1>4 DEF TypeOK, Live, heap, PruneDone
    <2> QED
      BY <2>1, QuietStep
  <1>5. ASSUME NEW t \in Threads, NEW s \in Shards, PruneShard(t, s) PROVE Listed' /\ OneCopyUntilRehash'
    <2>1. UNCHANGED <<val, strong, rehashed>>
      BY <1>5 DEF PruneShard, heap
    <2>2. OneCopyUntilRehash'
      BY <2>1 DEF OneCopyUntilRehash, Live
    <2>3. \A x \in Shards : entries'[x] \subseteq entries[x]
      BY <1>5, PruneEffect
    <2>4. \A x \in Shards : IsFiniteSet(entries'[x])
      BY <2>3, FS_Subset DEF Listed
    <2>5. ASSUME NEW a \in Arcs, Live(a)'
          PROVE  (a \in WeakIn(ShardOf[val[a]]))'
      <3>1. Live(a) /\ ShardOf[val[a]] \in Shards
        BY <2>1, <2>5, ShardIn DEF Live
      <3>2. PICK e \in entries[ShardOf[val[a]]] : e.weak = a
        BY <3>1 DEF Listed, WeakIn
      <3>3. e \in entries'[ShardOf[val[a]]]
        BY <1>5, <3>1, <3>2, PruneEffect
      <3> QED
        BY <2>1, <3>2, <3>3 DEF WeakIn
    <2> QED
      BY <2>1, <2>2, <2>3, <2>4, <2>5 DEF Listed
  <1>6. ASSUME NEW t \in Threads, FastFind(t) PROVE Listed' /\ OneCopyUntilRehash'
    <2>1. UNCHANGED <<val, entries, rehashed>> /\ \A x \in Arcs : Live(x)' => Live(x)
      BY <1>6 DEF TypeOK, Live, heap, FastFind
    <2> QED
      BY <2>1, QuietStep
  <1>7. ASSUME NEW t \in Threads, FastHit(t) PROVE Listed' /\ OneCopyUntilRehash'
    <2>1. UNCHANGED <<val, entries, rehashed>> /\ \A x \in Arcs : Live(x)' => Live(x)
      BY <1>7 DEF TypeOK, Live, Handed, FastHit
    <2> QED
      BY <2>1, QuietStep
  <1>8. ASSUME NEW t \in Threads, FastMiss(t) PROVE Listed' /\ OneCopyUntilRehash'
    <2>1. UNCHANGED <<val, entries, rehashed>> /\ \A x \in Arcs : Live(x)' => Live(x)
      BY <1>8 DEF TypeOK, Live, heap, FastMiss
    <2> QED
      BY <2>1, QuietStep
  <1>9. ASSUME NEW t \in Threads, LockShard(t) PROVE Listed' /\ OneCopyUntilRehash'
    <2>1. UNCHANGED <<val, entries, rehashed>> /\ \A x \in Arcs : Live(x)' => Live(x)
      BY <1>9 DEF TypeOK, Live, heap, LockShard
    <2> QED
      BY <2>1, QuietStep
  <1>10. ASSUME NEW t \in Threads, Reserve(t) PROVE Listed' /\ OneCopyUntilRehash'
    <2>1. UNCHANGED <<val, strong>>
      BY <1>10, ReserveCases DEF heap
    <2>2. CASE UNCHANGED <<entries, rehashed>>
      BY <2>1, <2>2, QuietStep DEF Live
    <2>3. CASE Grows(t)
      <3>1. Shard(t) \in Shards
        BY ShardIn
      <3>2. OneCopyUntilRehash'
        BY <2>1, <2>3, GrowEffect DEF OneCopyUntilRehash, Live
      <3>3. \A s \in Shards : IsFiniteSet(entries'[s])
        BY <2>3, GrowEffect DEF Listed
      <3>4. ASSUME NEW s \in Shards, NEW f \in entries'[s]
            PROVE  ShardOf[val[f.weak]] = s /\ f.key = Hash[val[f.weak]]
        BY <2>3, <3>1, GrowEffect DEF Listed
      <3>5. ASSUME NEW s \in Shards, NEW f \in entries'[s], s \notin rehashed'
            PROVE  f.at = f.key
        BY <2>3, <3>1, <3>5, GrowEffect DEF Listed
      <3>6. ASSUME NEW s \in Shards, NEW f \in entries'[s], NEW g \in entries'[s], f.weak = g.weak
            PROVE  f = g
        BY <2>3, <3>1, <3>6, GrowEffect DEF Listed
      <3>7. ASSUME NEW a \in Arcs, Live(a)
            PROVE  \E f \in entries'[ShardOf[val[a]]] : f.weak = a
        <4>1. PICK e \in entries[ShardOf[val[a]]] : e.weak = a
          BY <3>7 DEF Listed, WeakIn
        <4> QED
          BY <2>3, <3>1, <4>1, GrowEffect, ShardIn
      <3> QED
        BY <2>1, <3>2, <3>3, <3>4, <3>5, <3>6, <3>7 DEF Listed, WeakIn, Live
    <2> QED
      BY <1>10, <2>2, <2>3, ReserveCases
  <1>11. ASSUME NEW t \in Threads, Recheck(t) PROVE Listed' /\ OneCopyUntilRehash'
    <2>1. UNCHANGED <<val, entries, rehashed>> /\ \A x \in Arcs : Live(x)' => Live(x)
      BY <1>11 DEF TypeOK, Live, heap, Recheck
    <2> QED
      BY <2>1, QuietStep
  <1>12. ASSUME NEW t \in Threads, Upgraded(t) PROVE Listed' /\ OneCopyUntilRehash'
    <2>1. UNCHANGED <<val, entries, rehashed>> /\ \A x \in Arcs : Live(x)' => Live(x)
      BY <1>12 DEF TypeOK, Live, Handed, Upgraded
    <2> QED
      BY <2>1, QuietStep
  <1>13. ASSUME NEW t \in Threads, Expired(t) PROVE Listed' /\ OneCopyUntilRehash'
    <2>1. UNCHANGED <<val, entries, rehashed>> /\ \A x \in Arcs : Live(x)' => Live(x)
      BY <1>13 DEF TypeOK, Live, heap, Expired
    <2> QED
      BY <2>1, QuietStep
  <1>14. ASSUME NEW t \in Threads, CreateFails(t) PROVE Listed' /\ OneCopyUntilRehash'
    <2>1. UNCHANGED <<val, entries, rehashed>> /\ \A x \in Arcs : Live(x)' => Live(x)
      BY <1>14 DEF TypeOK, Live, heap, CreateFails
    <2> QED
      BY <2>1, QuietStep
  <1>15. ASSUME NEW t \in Threads, Create(t) PROVE Listed' /\ OneCopyUntilRehash'
    <2> DEFINE S == Shard(t)
    <2>1. PICK a \in Arcs : Added(t, a)
      BY <1>15, CreateEffect
    <2>2. /\ S \in Shards /\ ShardOf[arg[t]] = S /\ UNCHANGED rehashed
          /\ pc[t] = "create" /\ ~Live(found[t])
          /\ S \notin rehashed => \A b \in Arcs : Live(b) => val[b] # arg[t]
      BY <1>15, ShardIn DEF Create, Shard, Known, Holds
    <2>3. /\ val'[a] = arg[t] /\ \A b \in Arcs \ {a} : val'[b] = val[b] /\ (Live(b)' <=> Live(b))
      BY <2>1 DEF TypeOK, Live, Added
    <2>4. OneCopyUntilRehash'
      BY <2>2, <2>3 DEF OneCopyUntilRehash
    <2>5. \A s \in Shards : \A e \in entries[s] : e.weak # a /\ e.weak \in Arcs
      BY <2>1, ShardIn DEF WeakIn, Added
    <2>6. \A s \in Shards : IsFiniteSet(entries'[s])
      BY <2>1 DEF Listed, Added
    <2>7. ASSUME NEW s \in Shards, NEW f \in entries'[s]
          PROVE  /\ ShardOf[val'[f.weak]] = s /\ f.key = Hash[val'[f.weak]]
                 /\ s \notin rehashed => f.at = f.key
      <3>1. CASE f \in entries[s]
        BY <2>3, <2>5, <3>1 DEF Listed
      <3>2. CASE f \notin entries[s]
        BY <2>1, <2>2, <2>3, <3>2 DEF Added
      <3> QED
        BY <3>1, <3>2
    <2>8. ASSUME NEW s \in Shards, NEW f \in entries'[s], NEW g \in entries'[s], f.weak = g.weak
          PROVE  f = g
      BY <2>1, <2>8 DEF Listed, Added
    <2>9. ASSUME NEW b \in Arcs, Live(b)'
          PROVE  \E f \in entries'[ShardOf[val'[b]]] : f.weak = b
      <3>1. CASE b = a
        BY <2>1, <2>2, <2>3, <3>1 DEF Added
      <3>2. CASE b # a
        <4>1. Live(b) /\ val'[b] = val[b] /\ ShardOf[val[b]] \in Shards
          BY <2>3, <2>9, <3>2, ShardIn
        <4>2. PICK e \in entries[ShardOf[val[b]]] : e.weak = b
          BY <4>1 DEF Listed, WeakIn
        <4>3. e.weak # found[t]
          BY <2>2, <4>1, <4>2
        <4> QED
          BY <2>1, <4>1, <4>2, <4>3 DEF Added
      <3> QED
        BY <3>1, <3>2
    <2>10. Listed'
      BY <2>2, <2>6, <2>7, <2>8, <2>9 DEF Listed, WeakIn
    <2> QED
      BY <2>4, <2>10
  <1> QED
    BY <1>1, <1>2, <1>3, <1>4, <1>5, <1>6, <1>7, <1>8, <1>9, <1>10, <1>11, <1>12, <1>13,
       <1>14, <1>15
       DEF Next, Clients, Calls, Prunes, Interns


\* A thread keeps what it knows while its shard is left as it is and nothing is
\* revived.
LEMMA KeepsKnown ==
  ASSUME IInv, NEW u \in Threads,
         pc'[u] = pc[u], arg'[u] = arg[u], found'[u] = found[u],
         UNCHANGED val, rehashed \subseteq rehashed',
         \A a \in Arcs : Live(a)' => Live(a),
         pc[u] \in Inside => /\ spare'[Shard(u)] >= spare[Shard(u)]
                             /\ entries'[Shard(u)] = entries[Shard(u)],
         spare' \in [Shards -> 0 .. MaxSpare]
  PROVE  Holds(u)'
  <1> USE NamesAssumption, SpareAssumption DEF IInv
  <1>1. Shard(u) \in Shards /\ Shard(u)' = Shard(u)
    BY ShardIn DEF Shard
  <1>2. found[u] \in Arcs \union {NoArc} /\ (Live(found[u])' => Live(found[u]))
    BY DEF TypeOK, Live
  <1>3. Holds(u)
    BY DEF Known
  <1>4. pc[u] \in {"recheck", "stale", "create"} => spare'[Shard(u)] > 0
    BY <1>1, <1>3 DEF Holds, Inside, TypeOK
  <1>5. pc[u] \in Inside => WeakIn(Shard(u))' = WeakIn(Shard(u))
    BY <1>1 DEF WeakIn
  <1> QED
    BY <1>1, <1>2, <1>3, <1>4, <1>5 DEF Holds, Inside

LEMMA KeepsQuiet ==
  ASSUME IInv, NEW u \in Threads,
         pc'[u] = pc[u], arg'[u] = arg[u], found'[u] = found[u],
         UNCHANGED <<val, entries, spare, rehashed>>,
         \A a \in Arcs : Live(a)' => Live(a)
  PROVE  Holds(u)'
  <1>1. Shard(u) \in Shards /\ spare \in [Shards -> 0 .. MaxSpare]
    BY ShardIn DEF IInv, TypeOK
  <1>2. spare'[Shard(u)] >= spare[Shard(u)]
    BY <1>1, SpareAssumption
  <1> QED
    BY <1>1, <1>2, KeepsKnown

\* Step 2 has the shard to itself.
LEMMA OtherShard ==
  ASSUME IInv, NEW t \in Threads, NEW u \in Threads, t # u, pc[t] \in Inside, pc[u] \in Inside
  PROVE  Shard(t) # Shard(u)
  BY DEF IInv, Exclusive

\* Nothing that happens elsewhere undoes what step 2 relies on.
LEMMA KnownStep ==
  ASSUME IInv, Next
  PROVE  Known'
  <1> USE NamesAssumption, SpareAssumption DEF IInv
  <1>1. ASSUME NEW a \in Arcs, CloneHandle(a) PROVE Known'
    <2>1. UNCHANGED <<val, entries, spare, pc, arg, found, rehashed>> /\ \A x \in Arcs : Live(x)' => Live(x)
      BY <1>1 DEF CloneHandle, TypeOK, Live
    <2> QED
      BY <2>1, KeepsQuiet DEF Known
  <1>2. ASSUME NEW a \in Arcs, DropHandle(a) PROVE Known'
    <2>1. UNCHANGED <<val, entries, spare, pc, arg, found, rehashed>> /\ \A x \in Arcs : Live(x)' => Live(x)
      BY <1>2 DEF DropHandle, TypeOK, Live
    <2> QED
      BY <2>1, KeepsQuiet DEF Known
  <1>3. ASSUME NEW t \in Threads, NEW v \in Values, Begin(t, v) PROVE Known'
    <2> SUFFICES ASSUME NEW u \in Threads PROVE Holds(u)'
      BY DEF Known
    <2>1. CASE u # t
      <3>1. /\ pc'[u] = pc[u] /\ arg'[u] = arg[u] /\ found'[u] = found[u]
            /\ UNCHANGED <<val, strong, entries, spare, rehashed>>
        BY <1>3, <2>1, ShardIn DEF TypeOK, Begin, Find, Goto, heap
      <3> QED
        BY <3>1, KeepsQuiet DEF Live
    <2>2. CASE u = t
      <3>1. pc'[t] \notin Inside
        BY <1>3 DEF TypeOK, Begin, Goto, Inside
      <3> QED
        BY <2>2, <3>1 DEF Holds, Inside
    <2> QED
      BY <2>1, <2>2
  <1>4. ASSUME NEW t \in Threads, PruneDone(t) PROVE Known'
    <2> SUFFICES ASSUME NEW u \in Threads PROVE Holds(u)'
      BY DEF Known
    <2>1. CASE u # t
      <3>1. /\ pc'[u] = pc[u] /\ arg'[u] = arg[u] /\ found'[u] = found[u]
            /\ UNCHANGED <<val, strong, entries, spare, rehashed>>
        BY <1>4, <2>1, ShardIn DEF TypeOK, PruneDone, Find, Goto, heap
      <3> QED
        BY <3>1, KeepsQuiet DEF Live
    <2>2. CASE u = t
      <3>1. pc'[t] \notin Inside
        BY <1>4 DEF TypeOK, PruneDone, Goto, Inside
      <3> QED
        BY <2>2, <3>1 DEF Holds, Inside
    <2> QED
      BY <2>1, <2>2
  <1>5. ASSUME NEW t \in Threads, NEW s \in Shards, PruneShard(t, s) PROVE Known'
    <2> SUFFICES ASSUME NEW u \in Threads PROVE Holds(u)'
      BY DEF Known
    <2>1. UNCHANGED <<val, strong, pc, arg, found, rehashed>>
      BY <1>5 DEF PruneShard, heap
    <2>2. ASSUME pc[u] \in Inside
          PROVE  entries'[Shard(u)] = entries[Shard(u)] /\ spare'[Shard(u)] >= spare[Shard(u)]
      <3>1. Shard(u) \in Shards /\ writer[Shard(u)] = u
        BY <2>2, ShardIn DEF Exclusive
      <3> QED
        BY <1>5, <3>1, PruneEffect
    <2>3. spare' \in [Shards -> 0 .. MaxSpare]
      BY <1>5, PruneEffect
    <2> QED
      BY <2>1, <2>2, <2>3, KeepsKnown DEF Live
  <1>6. ASSUME NEW t \in Threads, FastFind(t) PROVE Known'
    <2> SUFFICES ASSUME NEW u \in Threads PROVE Holds(u)'
      BY DEF Known
    <2>1. CASE u # t
      <3>1. /\ pc'[u] = pc[u] /\ arg'[u] = arg[u] /\ found'[u] = found[u]
            /\ UNCHANGED <<val, strong, entries, spare, rehashed>>
        BY <1>6, <2>1, ShardIn DEF TypeOK, FastFind, Find, Goto, heap
      <3> QED
        BY <3>1, KeepsQuiet DEF Live
    <2>2. CASE u = t
      <3>1. pc'[t] \notin Inside
        BY <1>6 DEF TypeOK, FastFind, Goto, Inside
      <3> QED
        BY <2>2, <3>1 DEF Holds, Inside
    <2> QED
      BY <2>1, <2>2
  <1>7. ASSUME NEW t \in Threads, FastHit(t) PROVE Known'
    <2> SUFFICES ASSUME NEW u \in Threads PROVE Holds(u)'
      BY DEF Known
    <2>1. CASE u # t
      <3>1. Return(t) /\ UNCHANGED <<val, entries, spare, rehashed, arg>>
        BY <1>7 DEF FastHit, heap
      <3>2. \A x \in Arcs : Live(x)' => Live(x)
        BY <1>7 DEF TypeOK, FastHit, Live, heap, Handed
      <3> QED
        BY <2>1, <3>1, <3>2, Returned, KeepsQuiet
    <2>2. CASE u = t
      <3>1. pc'[t] = "idle"
        BY <1>7, Returned DEF FastHit
      <3> QED
        BY <2>2, <3>1 DEF Holds
    <2> QED
      BY <2>1, <2>2
  <1>8. ASSUME NEW t \in Threads, FastMiss(t) PROVE Known'
    <2> SUFFICES ASSUME NEW u \in Threads PROVE Holds(u)'
      BY DEF Known
    <2>1. CASE u # t
      <3>1. /\ pc'[u] = pc[u] /\ arg'[u] = arg[u] /\ found'[u] = found[u]
            /\ UNCHANGED <<val, strong, entries, spare, rehashed>>
        BY <1>8, <2>1, ShardIn DEF TypeOK, FastMiss, Find, Goto, heap
      <3> QED
        BY <3>1, KeepsQuiet DEF Live
    <2>2. CASE u = t
      <3>1. pc'[t] \notin Inside
        BY <1>8 DEF TypeOK, FastMiss, Goto, Inside
      <3> QED
        BY <2>2, <3>1 DEF Holds, Inside
    <2> QED
      BY <2>1, <2>2
  <1>9. ASSUME NEW t \in Threads, LockShard(t) PROVE Known'
    <2> SUFFICES ASSUME NEW u \in Threads PROVE Holds(u)'
      BY DEF Known
    <2>1. CASE u # t
      <3>1. /\ pc'[u] = pc[u] /\ arg'[u] = arg[u] /\ found'[u] = found[u]
            /\ UNCHANGED <<val, strong, entries, spare, rehashed>>
        BY <1>9, <2>1, ShardIn DEF TypeOK, LockShard, Find, Goto, heap
      <3> QED
        BY <3>1, KeepsQuiet DEF Live
    <2>2. CASE u = t
      <3>1. pc'[t] = "reserve"
        BY <1>9 DEF TypeOK, LockShard, Goto
      <3> QED
        BY <2>2, <3>1 DEF Holds
    <2> QED
      BY <2>1, <2>2
  <1>10. ASSUME NEW t \in Threads, Reserve(t) PROVE Known'
    <2> SUFFICES ASSUME NEW u \in Threads PROVE Holds(u)'
      BY DEF Known
    <2>1. CASE u # t
      <3>1. UNCHANGED <<val, strong, arg>> /\ pc[t] \in Inside
        BY <1>10, ReserveCases DEF heap, Inside
      <3>2. CASE UNCHANGED <<entries, spare, rehashed, found>> /\ Goto(t, "recheck")
        BY <2>1, <3>1, <3>2, KeepsQuiet DEF TypeOK, Live, Goto
      <3>3. CASE Return(t) /\ UNCHANGED <<entries, spare, rehashed>>
        BY <2>1, <3>1, <3>3, Returned, KeepsQuiet DEF Live
      <3>4. CASE Grows(t)
        <4>1. pc'[u] = pc[u] /\ UNCHANGED found
          BY <2>1, <3>4 DEF TypeOK, Grows, Goto
        <4>2. ASSUME pc[u] \in Inside
              PROVE  entries'[Shard(u)] = entries[Shard(u)] /\ spare'[Shard(u)] >= spare[Shard(u)]
          <5>1. Shard(u) \in Shards \ {Shard(t)}
            BY <2>1, <3>1, <4>2, OtherShard, ShardIn
          <5>2. spare[Shard(u)] \in 0 .. MaxSpare
            BY <5>1 DEF TypeOK
          <5> QED
            BY <3>4, <5>1, <5>2, GrowEffect
        <4>3. spare' \in [Shards -> 0 .. MaxSpare] /\ rehashed \subseteq rehashed'
          BY <3>4, GrowEffect
        <4> QED
          BY <3>1, <4>1, <4>2, <4>3, KeepsKnown DEF Live
      <3> QED
        BY <1>10, <3>2, <3>3, <3>4, ReserveCases
    <2>2. CASE u = t
      <3>1. UNCHANGED arg /\ pc[t] = "reserve" /\ Shard(t)' = Shard(t)
        BY <1>10, ReserveCases DEF Shard
      <3>2. CASE spare[Shard(t)] > 0 /\ Goto(t, "recheck") /\ UNCHANGED spare
        BY <2>2, <3>1, <3>2 DEF TypeOK, Holds, Goto
      <3>3. CASE Return(t)
        BY <2>2, <3>3, Returned DEF Holds
      <3>4. CASE Grows(t)
        <4>1. pc'[t] = "recheck"
          BY <3>4 DEF Grows, Goto, TypeOK
        <4> QED
          BY <2>2, <3>1, <3>4, <4>1, GrowEffect DEF Holds
      <3> QED
        BY <1>10, <3>2, <3>3, <3>4, ReserveCases
    <2> QED
      BY <2>1, <2>2
  <1>11. ASSUME NEW t \in Threads, Recheck(t) PROVE Known'
    <2> SUFFICES ASSUME NEW u \in Threads PROVE Holds(u)'
      BY DEF Known
    <2>1. CASE u # t
      <3>1. /\ pc'[u] = pc[u] /\ arg'[u] = arg[u] /\ found'[u] = found[u]
            /\ UNCHANGED <<val, strong, entries, spare, rehashed>>
        BY <1>11, <2>1, ShardIn DEF TypeOK, Recheck, Find, Goto, heap
      <3> QED
        BY <3>1, KeepsQuiet DEF Live
    <2>2. CASE u = t
      <3> DEFINE S == Shard(t)
      <3>1. S \in Shards /\ S' = S /\ pc[t] = "recheck" /\ ShardOf[arg[t]] = S
            /\ UNCHANGED <<val, strong, entries, spare, rehashed, arg>>
        BY <1>11, ShardIn DEF Recheck, heap, Shard
      <3>2. spare[S] > 0
        BY <3>1 DEF Known, Holds
      <3>3. CASE Matches(t) = {}
        <4>1. pc'[t] = "create" /\ found'[t] = NoArc
          BY <1>11, <3>3 DEF TypeOK, Recheck, Find, Goto
        <4>2. ASSUME S \notin rehashed, NEW a \in Arcs, Live(a), val[a] = arg[t]
              PROVE  FALSE
          <5>1. PICK e \in entries[S] : e.weak = a
            BY <3>1, <4>2 DEF Listed, WeakIn
          <5>2. e \in Matches(t)
            BY <3>1, <4>2, <5>1 DEF Listed, Matches
          <5> QED
            BY <3>3, <5>2
        <4> QED
          BY <2>2, <3>1, <3>2, <4>1, <4>2 DEF Holds, Live
      <3>4. CASE Matches(t) # {}
        <4>1. PICK e \in Matches(t) : found' = [found EXCEPT ![t] = e.weak]
          BY <1>11, <3>4 DEF Recheck, Find
        <4>2. pc'[t] = "stale" /\ found'[t] = e.weak
          BY <1>11, <3>4, <4>1 DEF TypeOK, Recheck, Goto
        <4>3. e \in entries[S] /\ e.weak \in Arcs /\ Live(e.weak) /\ val[e.weak] = arg[t]
          BY <3>1, ShardIn DEF Matches
        <4>4. e.weak \in WeakIn(S)' /\ val'[e.weak] = arg'[t]
          BY <3>1, <4>3 DEF WeakIn
        <4>5. ASSUME S \notin rehashed, NEW a \in Arcs, Live(a), val[a] = arg[t]
              PROVE  a = e.weak
          BY <3>1, <4>3, <4>5 DEF OneCopyUntilRehash
        <4> QED
          BY <2>2, <3>1, <3>2, <4>2, <4>4, <4>5 DEF Holds, Live
      <3> QED
        BY <3>3, <3>4
    <2> QED
      BY <2>1, <2>2
  <1>12. ASSUME NEW t \in Threads, Upgraded(t) PROVE Known'
    <2> SUFFICES ASSUME NEW u \in Threads PROVE Holds(u)'
      BY DEF Known
    <2>1. CASE u # t
      <3>1. Return(t) /\ UNCHANGED <<val, entries, spare, rehashed, arg>>
        BY <1>12 DEF Upgraded, heap
      <3>2. \A x \in Arcs : Live(x)' => Live(x)
        BY <1>12 DEF TypeOK, Upgraded, Live, heap, Handed
      <3> QED
        BY <2>1, <3>1, <3>2, Returned, KeepsQuiet
    <2>2. CASE u = t
      <3>1. pc'[t] = "idle"
        BY <1>12, Returned DEF Upgraded
      <3> QED
        BY <2>2, <3>1 DEF Holds
    <2> QED
      BY <2>1, <2>2
  <1>13. ASSUME NEW t \in Threads, Expired(t) PROVE Known'
    <2> SUFFICES ASSUME NEW u \in Threads PROVE Holds(u)'
      BY DEF Known
    <2>1. CASE u # t
      <3>1. /\ pc'[u] = pc[u] /\ arg'[u] = arg[u] /\ found'[u] = found[u]
            /\ UNCHANGED <<val, strong, entries, spare, rehashed>>
        BY <1>13, <2>1, ShardIn DEF TypeOK, Expired, Find, Goto, heap
      <3> QED
        BY <3>1, KeepsQuiet DEF Live
    <2>2. CASE u = t
      <3>1. pc[t] = "stale" /\ pc'[t] = "create" /\ ~Live(found[t])
        BY <1>13 DEF TypeOK, Expired, Goto
      <3>2. UNCHANGED <<val, strong, entries, spare, rehashed, arg, found>>
        BY <1>13 DEF Expired, heap
      <3>3. Holds(t)
        BY DEF Known
      <3> QED
        BY <2>2, <3>1, <3>2, <3>3 DEF Holds, Shard, Live, WeakIn
    <2> QED
      BY <2>1, <2>2
  <1>14. ASSUME NEW t \in Threads, CreateFails(t) PROVE Known'
    <2> SUFFICES ASSUME NEW u \in Threads PROVE Holds(u)'
      BY DEF Known
    <2>1. CASE u # t
      <3>1. Return(t) /\ UNCHANGED <<val, entries, spare, rehashed, arg>>
        BY <1>14 DEF CreateFails, heap
      <3>2. \A x \in Arcs : Live(x)' => Live(x)
        BY <1>14 DEF TypeOK, CreateFails, Live, heap
      <3> QED
        BY <2>1, <3>1, <3>2, Returned, KeepsQuiet
    <2>2. CASE u = t
      <3>1. pc'[t] = "idle"
        BY <1>14, Returned DEF CreateFails
      <3> QED
        BY <2>2, <3>1 DEF Holds
    <2> QED
      BY <2>1, <2>2
  <1>15. ASSUME NEW t \in Threads, Create(t) PROVE Known'
    <2> SUFFICES ASSUME NEW u \in Threads PROVE Holds(u)'
      BY DEF Known
    <2>1. CASE u # t
      <3>1. Return(t) /\ UNCHANGED <<arg, rehashed>> /\ pc[t] \in Inside
        BY <1>15 DEF Create, Inside
      <3>2. PICK a \in Arcs : Added(t, a)
        BY <1>15, CreateEffect
      <3>3. pc'[u] = pc[u] /\ arg'[u] = arg[u] /\ found'[u] = found[u]
        BY <2>1, <3>1, Returned
      <3>4. CASE pc[u] \notin Inside
        BY <3>3, <3>4 DEF Holds, Inside
      <3>5. CASE pc[u] \in Inside
        <4>1. Shard(u) \in Shards \ {Shard(t)} /\ Shard(u)' = Shard(u)
          BY <2>1, <3>1, <3>5, OtherShard, ShardIn DEF Shard
        <4>2. UNCHANGED <<entries[Shard(u)], spare[Shard(u)]>>
          BY <3>2, <4>1 DEF Added
        <4>3. Holds(u)
          BY DEF Known
        <4>4. found[u] \in Arcs \union {NoArc}
              /\ (found[u] \in WeakIn(Shard(u)) => found[u] # a)
          BY <3>2, <4>1 DEF TypeOK, Added
        <4>5. /\ \A b \in Arcs \ {a} : val'[b] = val[b] /\ (Live(b)' <=> Live(b))
              /\ val'[a] = arg[t] /\ arg[t] # arg[u]
          BY <3>2, <4>1 DEF Added, TypeOK, Live, Shard
        <4>6. pc[u] \in {"stale", "create"} /\ found[u] # NoArc =>
                found[u] \in WeakIn(Shard(u))' /\ val'[found[u]] = arg[u]
          BY <4>1, <4>2, <4>3, <4>4, <4>5 DEF Holds, WeakIn
        <4>7. pc[u] = "create" => ~Live(found[u])'
          <5>1. CASE found[u] = NoArc
            BY <3>3, <5>1 DEF Live
          <5>2. CASE found[u] # NoArc
            BY <3>3, <4>3, <4>4, <4>5, <5>2 DEF Holds
          <5> QED
            BY <5>1, <5>2
        <4>8. ASSUME NEW b \in Arcs, Live(b)', val'[b] = arg[u]
              PROVE  Live(b) /\ val[b] = arg[u]
          BY <4>5, <4>8
        <4> QED
          BY <3>1, <3>3, <4>1, <4>2, <4>3, <4>6, <4>7, <4>8 DEF Holds
      <3> QED
        BY <3>4, <3>5
    <2>2. CASE u = t
      <3>1. pc'[t] = "idle"
        BY <1>15, Returned DEF Create
      <3> QED
        BY <2>2, <3>1 DEF Holds
    <2> QED
      BY <2>1, <2>2
  <1> QED
    BY <1>1, <1>2, <1>3, <1>4, <1>5, <1>6, <1>7, <1>8, <1>9, <1>10, <1>11, <1>12, <1>13,
       <1>14, <1>15
       DEF Next, Clients, Calls, Prunes, Interns

\* The invariant holds at the start and every step keeps it.
LEMMA InitInv == Init => IInv
  <1> SUFFICES ASSUME Init PROVE IInv
    OBVIOUS
  <1> USE DEF Init
  <1>1. TypeOK
    <2>1. (CHOOSE v \in Values : TRUE) \in Values
      BY ValuesAssumption
    <2> QED
      BY <2>1, SpareAssumption DEF TypeOK, PCs
  <1>2. Exclusive
    BY DEF Exclusive, Inside
  <1>3. \A a \in Arcs : ~Live(a)
    BY DEF Live
  <1>4. Listed
    BY <1>3, FS_EmptySet DEF Listed
  <1>5. Known
    BY DEF Known, Holds
  <1>6. OneCopyUntilRehash
    BY <1>3 DEF OneCopyUntilRehash
  <1> QED
    BY <1>1, <1>2, <1>4, <1>5, <1>6 DEF IInv

LEMMA StepInv == IInv /\ [Next]_vars => IInv'
  <1> SUFFICES ASSUME IInv, [Next]_vars PROVE IInv'
    OBVIOUS
  <1>1. CASE Next
    BY <1>1, TypeStep, ExclusiveStep, TableStep, KnownStep DEF IInv
  <1>2. CASE UNCHANGED vars
    <2> USE <1>2 DEF vars, heap, locks, IInv
    <2>1. TypeOK' /\ Exclusive' /\ Listed' /\ OneCopyUntilRehash'
      BY DEF TypeOK, Exclusive, Shard, Listed, WeakIn, Live, OneCopyUntilRehash
    <2>2. Known'
      BY DEF Known, Holds, Shard, WeakIn, Live
    <2> QED
      BY <2>1, <2>2
  <1> QED
    BY <1>1, <1>2

LEMMA Invariance == Spec => []IInv
  BY InitInv, StepInv, PTL DEF Spec

(***************************************************************************)
(* The theorems.                                                           *)
(***************************************************************************)

\* The unchecked insert finds the room that was reserved under the same lock
\* (mod.rs:394-402, 442-446).
THEOREM RoomKept == Spec => []RoomForInsert
  <1>1. IInv => RoomForInsert
    BY DEF IInv, Known, Holds, RoomForInsert
  <1> QED
    BY <1>1, Invariance, PTL

\* While a shard has not been rehashed, a value in it is never alive twice
\* (interner/mod.rs:4-8), however calls, prunes and drops interleave.
THEOREM OneCopyKept == Spec => []OneCopyUntilRehash
  <1>1. IInv => OneCopyUntilRehash
    BY DEF IInv
  <1> QED
    BY <1>1, Invariance, PTL

\* A live value has its one entry in the shard of its hash, and before a rehash
\* at the place its hash is probed (mod.rs:314-342, 415-436).
THEOREM LiveListed == Spec => []LiveValuesListed
  <1>1. ASSUME IInv, NEW a \in Arcs, Live(a)
        PROVE  LET s == ShardOf[val[a]]
                   es == {e \in entries[s] : e.weak = a}
               IN /\ Cardinality(es) = 1
                  /\ s \notin rehashed => \A e \in es : e.at = Hash[val[a]]
    <2> DEFINE s == ShardOf[val[a]]
               es == {e \in entries[s] : e.weak = a}
    <2>1. s \in Shards
      BY <1>1, ShardIn DEF IInv
    <2>2. PICK e \in entries[s] : e.weak = a
      BY <1>1 DEF IInv, Listed, WeakIn
    <2>3. es = {e}
      BY <1>1, <2>1, <2>2 DEF IInv, Listed
    <2>4. Cardinality(es) = 1
      BY <2>3, FS_Singleton
    <2>5. s \notin rehashed => e.at = Hash[val[a]]
      BY <1>1, <2>1, <2>2 DEF IInv, Listed
    <2> QED
      BY <2>3, <2>4, <2>5
  <1>2. IInv => LiveValuesListed
    BY <1>1 DEF LiveValuesListed
  <1> QED
    BY <1>2, Invariance, PTL
=================================================================================
