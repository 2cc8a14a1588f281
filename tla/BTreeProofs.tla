------------------------------ MODULE BTreeProofs ------------------------------
(***************************************************************************)
(* Proofs about the fallible insertions into a B-tree, BTreeInsert, for     *)
(* every branching factor, map to start from and source.                    *)
(***************************************************************************)
EXTENDS BTreeInsert, FiniteSetTheorems, SequenceTheorems, WellFoundedInduction, TLAPS

(***************************************************************************)
(* BTreeInsert: what splitpoint promises, that the commit uses exactly what *)
(* was reserved, and that try_extend loses no item.                         *)
(***************************************************************************)

\* What stays left of the promoted entry, and right of it.
LeftOf(e) == SplitPoint(e).sp
RightOf(e) == CAPACITY - SplitPoint(e).sp - 1

\* A full node split for an insertion at edge e leaves two halves with room for
\* the new entry and, with it in place, at least B - 1 entries each
\* (helpers.rs:51-64).
THEOREM SplitBalanced ==
  ASSUME NEW e \in 0 .. CAPACITY
  PROVE  /\ LeftOf(e) \in 0 .. CAPACITY - 1 /\ RightOf(e) \in 0 .. CAPACITY - 1
         /\ SplitPoint(e).right => LeftOf(e) >= B - 1 /\ RightOf(e) + 1 >= B - 1
         /\ ~SplitPoint(e).right => LeftOf(e) + 1 >= B - 1 /\ RightOf(e) >= B - 1
<1>1. CASE e < B - 1
  BY <1>1, BAssumption DEF LeftOf, RightOf, SplitPoint, CAPACITY
<1>2. CASE e = B - 1
  BY <1>2, BAssumption DEF LeftOf, RightOf, SplitPoint, CAPACITY
<1>3. CASE e = B
  BY <1>3, BAssumption DEF LeftOf, RightOf, SplitPoint, CAPACITY
<1>4. CASE e > B
  BY <1>4, BAssumption DEF LeftOf, RightOf, SplitPoint, CAPACITY
<1> QED BY <1>1, <1>2, <1>3, <1>4, BAssumption DEF CAPACITY

\* The new entry lands at edge e of the old order: inside its half, after the
\* promoted entry exactly if it is in the right half (helpers.rs:51-64).
THEOREM SplitKeepsPlace ==
  ASSUME NEW e \in 0 .. CAPACITY
  PROVE  /\ SplitPoint(e).right =>
              SplitPoint(e).idx \in 0 .. RightOf(e) /\ LeftOf(e) + 1 + SplitPoint(e).idx = e
         /\ ~SplitPoint(e).right =>
              SplitPoint(e).idx \in 0 .. LeftOf(e) /\ SplitPoint(e).idx = e
<1>1. CASE e < B - 1
  BY <1>1, BAssumption DEF LeftOf, RightOf, SplitPoint, CAPACITY
<1>2. CASE e = B - 1
  BY <1>2, BAssumption DEF LeftOf, RightOf, SplitPoint, CAPACITY
<1>3. CASE e = B
  BY <1>3, BAssumption DEF LeftOf, RightOf, SplitPoint, CAPACITY
<1>4. CASE e > B
  BY <1>4, BAssumption DEF LeftOf, RightOf, SplitPoint, CAPACITY
<1> QED BY <1>1, <1>2, <1>3, <1>4, BAssumption DEF CAPACITY

(***************************************************************************)
(* try_extend hands back what it did not insert.                            *)
(***************************************************************************)

\* The number of items that have been taken from the iterator; the last of
\* them is item while an insert runs.
Holding == phase \notin {"idle", "next"}
InMap(n) ==
  \A j \in 1 .. n : given[j][1] \in DOMAIN content
Latest(n) ==
  \A j \in 1 .. n : (\A l \in j + 1 .. n : given[l][1] # given[j][1]) =>
                        content[given[j][1]] = given[j][2]
Rest(n) == SubSeq(given, n + 1, Len(given))
Position(n) ==
  /\ InMap(n) /\ Latest(n)
  /\ ~Holding => remaining = Rest(n)
  /\ Holding => n < Len(given) /\ item = given[n + 1] /\ remaining = Rest(n + 1)
SourceInv ==
  /\ start.max_items \in Nat
  /\ start = [calls |-> start.calls, max_key |-> start.max_key, max_items |-> start.max_items]
  /\ \E S : given \in Seq(S)
  /\ \E n \in 0 .. Len(given) : Position(n)

\* A suffix of a sequence, and the longer one an item put in front gives.
LEMMA Suffix ==
  ASSUME NEW S, NEW s \in Seq(S), NEW n \in 0 .. Len(s)
  PROVE  LET suffix(k) == SubSeq(s, k + 1, Len(s)) IN
         /\ suffix(0) = s
         /\ suffix(n) # <<>> => n < Len(s)
         /\ n < Len(s) =>
              /\ Head(suffix(n)) = s[n + 1] /\ Tail(suffix(n)) = suffix(n + 1)
              /\ <<s[n + 1]>> \o suffix(n + 1) = suffix(n)
  OBVIOUS

\* An insert or a replacement of the item at n + 1 moves the position past it.
LEMMA PutAdvances ==
  ASSUME NEW n \in Nat, n < Len(given), Len(given) \in Nat, InMap(n), Latest(n), Recorded(given[n + 1]), given' = given
  PROVE  InMap(n + 1)' /\ Latest(n + 1)'
  <1> DEFINE kv == given[n + 1]
  <1>1. content' = [k \in DOMAIN content \union {kv[1]} |-> IF k = kv[1] THEN kv[2] ELSE content[k]]
    BY DEF Recorded
  <1>2. InMap(n + 1)'
    BY <1>1 DEF InMap
  <1>3. ASSUME NEW j \in 1 .. n + 1, \A l \in j + 1 .. n + 1 : given[l][1] # given[j][1]
        PROVE  content'[given[j][1]] = given[j][2]
    <2>1. CASE j = n + 1
      BY <1>1, <2>1
    <2>2. CASE j # n + 1
      <3>1. j \in 1 .. n /\ n + 1 \in j + 1 .. n + 1
        BY <2>2
      <3>2. given[j][1] # kv[1] /\ given[j][1] \in DOMAIN content
        BY <3>1, <1>3 DEF InMap
      <3>3. content[given[j][1]] = given[j][2]
        BY <3>1, <1>3 DEF Latest
      <3> QED BY <1>1, <3>2, <3>3
    <2> QED BY <2>1, <2>2
  <1> QED BY <1>2, <1>3 DEF Latest

\* Steps that do not touch what is to be inserted.
Aside == UNCHANGED <<given, content, start, remaining, item>> /\ Holding' = Holding

LEMMA AsideKeeps == ASSUME SourceInv, Aside PROVE SourceInv'
  BY DEF SourceInv, Aside, Position, InMap, Latest, Rest

\* A failed insert puts its item back in front of the others.
LEMMA FailedKeeps ==
  ASSUME SourceInv, Holding, Failed
  PROVE  SourceInv'
  <1>1. PICK n \in 0 .. Len(given) : Position(n)
    BY DEF SourceInv
  <1>2. PICK S : given \in Seq(S)
    BY DEF SourceInv
  <1>3. remaining' = Rest(n) /\ UNCHANGED <<given, content, start>> /\ ~Holding'
    BY <1>1, <1>2, Suffix DEF Position, Failed, Rest, history, Holding
  <1>4. Position(n)'
    BY <1>1, <1>3 DEF Position, InMap, Latest, Rest
  <1> QED BY <1>3, <1>4 DEF SourceInv

\* A completed one has put its item into the map.
LEMMA InsertedKeeps ==
  ASSUME SourceInv, Holding, NEW a, NEW idx, Inserted(a, idx)
  PROVE  SourceInv'
  <1>1. PICK n \in 0 .. Len(given) : Position(n)
    BY DEF SourceInv
  <1>2. PICK S : given \in Seq(S)
    BY DEF SourceInv
  <1>3. /\ UNCHANGED <<given, start, remaining>> /\ ~Holding'
        /\ n < Len(given) /\ Recorded(given[n + 1]) /\ remaining = Rest(n + 1)
    BY <1>1 DEF Position, Inserted, Holding
  <1>4. InMap(n + 1)' /\ Latest(n + 1)'
    BY <1>1, <1>2, <1>3, PutAdvances DEF Position
  <1>5. Position(n + 1)' /\ n + 1 \in 0 .. Len(given')
    BY <1>2, <1>3, <1>4 DEF Position, Rest
  <1> QED BY <1>3, <1>5 DEF SourceInv

LEMMA SourceInit == TreeInit => SourceInv
  <1> SUFFICES ASSUME TreeInit PROVE SourceInv
    OBVIOUS
  <1>1. given = <<>> /\ remaining = <<>> /\ phase = "idle"
    BY DEF TreeInit
  <1>2. Position(0) /\ given \in Seq({})
    BY <1>1 DEF Position, InMap, Latest, Rest, Holding
  <1>3. /\ start.max_items \in Nat
        /\ start = [calls |-> start.calls, max_key |-> start.max_key, max_items |-> start.max_items]
    BY StartsAssumption DEF TreeInit
  <1> QED BY <1>1, <1>2, <1>3 DEF SourceInv

LEMMA SourceStep == SourceInv /\ [TreeNext]_treeVars => SourceInv'
  <1> SUFFICES ASSUME SourceInv, [TreeNext]_treeVars PROVE SourceInv'
    OBVIOUS
  <1>1. PICK n \in 0 .. Len(given) : Position(n)
    BY DEF SourceInv
  <1>2. PICK S : given \in Seq(S)
    BY DEF SourceInv
  <1>3. ASSUME NEW source \in Sources, Extend(source) PROVE SourceInv'
    <2>1. \E T : source \in Seq(T)
      <3> DEFINE T == {<<k, "new">> : k \in 1 .. start.max_key}
      <3>1. start.max_items \in Nat
        BY DEF SourceInv
      <3>2. PICK m \in 1 .. start.max_items : source \in [1 .. m -> T]
        BY DEF Sources
      <3> HIDE DEF T
      <3>3. source \in Seq(T)
        BY <3>1, <3>2
      <3> QED BY <3>3
    <2>2. given' = source /\ remaining' = source /\ content' = content /\ ~Holding'
      BY <1>3 DEF Extend, Holding
    <2>3. Rest(0)' = given'
      BY <2>1, <2>2, Suffix DEF Rest
    <2>4. Position(0)' /\ 0 \in 0 .. Len(given')
      BY <2>1, <2>2, <2>3 DEF Position, InMap, Latest
    <2>5. /\ start'.max_items \in Nat
          /\ start' = [calls |-> start'.calls, max_key |-> start'.max_key, max_items |-> start'.max_items]
      BY <1>3 DEF Extend, SourceInv
    <2> QED BY <2>1, <2>2, <2>4, <2>5 DEF SourceInv
  <1>4. CASE Resume
    <2>1. UNCHANGED <<given, content, remaining>> /\ ~Holding /\ ~Holding'
      BY <1>4 DEF Resume, Holding
    <2>2. Position(n)'
      BY <1>1, <2>1 DEF Position, InMap, Latest, Rest
    <2>3. /\ start'.max_items \in Nat
          /\ start' = [calls |-> start'.calls, max_key |-> start'.max_key, max_items |-> start'.max_items]
      BY <1>4 DEF Resume, SourceInv
    <2> QED BY <2>1, <2>2, <2>3 DEF SourceInv
  <1>5. CASE Occupied
    <2>1. ~Holding /\ ~Holding' /\ remaining # <<>> /\ remaining = Rest(n) /\ remaining' = Tail(remaining)
          /\ UNCHANGED <<given, start>> /\ Recorded(Head(remaining))
      BY <1>1, <1>5 DEF Occupied, Holding, Position
    <2>2. n < Len(given) /\ Head(remaining) = given[n + 1] /\ remaining' = Rest(n + 1)
      BY <1>2, <2>1, Suffix DEF Rest
    <2>3. InMap(n + 1)' /\ Latest(n + 1)'
      BY <1>1, <1>2, <2>1, <2>2, PutAdvances DEF Position
    <2>4. Position(n + 1)' /\ n + 1 \in 0 .. Len(given')
      BY <1>2, <2>1, <2>2, <2>3 DEF Position, Rest
    <2> QED BY <2>1, <2>4 DEF SourceInv
  <1>6. CASE Vacant
    <2>1. ~Holding /\ Holding' /\ remaining # <<>> /\ remaining = Rest(n) /\ remaining' = Tail(remaining)
          /\ UNCHANGED <<given, start, content>> /\ item' = Head(remaining)
      BY <1>1, <1>6 DEF Vacant, Holding, Position, history
    <2>2. n < Len(given) /\ item' = given[n + 1] /\ remaining' = Rest(n + 1)
      BY <1>2, <2>1, Suffix DEF Rest
    <2>3. Position(n)'
      BY <1>1, <2>1, <2>2 DEF Position, InMap, Latest, Rest
    <2> QED BY <2>1, <2>3 DEF SourceInv
  <1>7. CASE InsertEmpty
    BY <1>7, InsertedKeeps, FailedKeeps DEF InsertEmpty, Holding
  <1>8. CASE InsertFits
    BY <1>8, InsertedKeeps DEF InsertFits, Holding
  <1>9. CASE Probe
    <2>1. Holding /\ (Aside \/ Failed)
      BY <1>9 DEF Probe, Holding, Aside, history, arg
    <2> QED BY <2>1, FailedKeeps, AsideKeeps
  <1>10. CASE ReserveLeaf
    <2>1. Holding /\ (Aside \/ Failed)
      BY <1>10 DEF ReserveLeaf, Holding, Aside, history, arg
    <2> QED BY <2>1, FailedKeeps, AsideKeeps
  <1>11. CASE ReserveBuffer
    <2>1. Holding /\ (Aside \/ Failed)
      BY <1>11 DEF ReserveBuffer, Rollback, Holding, Aside, history, arg
    <2> QED BY <2>1, FailedKeeps, AsideKeeps
  <1>12. CASE ReserveInternal
    <2>1. Holding /\ (Aside \/ Failed)
      BY <1>12 DEF ReserveInternal, Rollback, Holding, Aside, history, arg
    <2> QED BY <2>1, FailedKeeps, AsideKeeps
  <1>13. CASE Drain
    BY <1>13, AsideKeeps DEF Drain, Holding, Aside, history, arg
  <1>14. CASE CommitLeaf
    BY <1>14, AsideKeeps DEF CommitLeaf, Holding, Aside, history, arg
  <1>15. CASE Absorb
    BY <1>15, InsertedKeeps DEF Absorb, Finished, Holding
  <1>16. CASE SplitInternal
    BY <1>16, AsideKeeps DEF SplitInternal, Holding, Aside, history, arg
  <1>17. CASE GrowRoot
    BY <1>17, InsertedKeeps DEF GrowRoot, Finished, Holding
  <1>18. CASE ExtendReturns
    BY <1>18, AsideKeeps DEF ExtendReturns, Holding, Aside, history, insert, arg
  <1>19. CASE UNCHANGED treeVars
    BY <1>19, AsideKeeps DEF treeVars, Holding, Aside, history, insert, arg
  <1> QED
    BY <1>3, <1>4, <1>5, <1>6, <1>7, <1>8, <1>9, <1>10, <1>11, <1>12, <1>13, <1>14, <1>15, <1>16,
       <1>17, <1>18, <1>19 DEF TreeNext

\* Whatever allocation fails, what try_extend hands back is the rest of its
\* source, and every item before it is in the map under its last value
\* (entry_try_extend.rs:57-64).
THEOREM NothingLost == TreeSpec => []ItemsKept
  <1>1. SourceInv => ItemsKept
    BY DEF SourceInv, ItemsKept, Position, InMap, Latest, Rest, Holding
  <1> QED BY <1>1, SourceInit, SourceStep, PTL DEF TreeSpec

(***************************************************************************)
(* The commit uses exactly the nodes that were reserved.                    *)
(***************************************************************************)

\* What the path up from the leaf is made of: up[h] is the path after h steps.
Extended(below) ==
  LET child == IF below = <<>> THEN leaf ELSE Last(below).ptr
      a == node[child].parent
  IN IF a = Null \/ (below # <<>> /\ ~Last(below).will_split) THEN below
     ELSE Append(below, [ptr |-> a, child_idx |-> node[child].parent_idx, will_split |-> ~HasRoom(a)])
Climbs(up, h) == up = [i \in 0 .. h |-> IF i = 0 THEN <<>> ELSE Extended(up[i - 1])]

\* Sets of numbers have a least one, so counting up reaches every number.
LEMMA LeastNumber ==
  ASSUME NEW T, T \subseteq Nat, T # {}
  PROVE \E x \in T : \A y \in T : x <= y
  <1>1. PICK x \in T : \A y \in T : ~(<<y,x>> \in OpToRel(<,Nat))
    BY NatLessThanWellFounded, WFMin
  <1>2. \A y \in T : <<y,x>> \in OpToRel(<,Nat) <=> y < x
    BY DEF OpToRel
  <1>3. \A y \in T : ~(y < x)
    BY <1>1, <1>2, Zenon
  <1> QED BY <1>3

LEMMA Counting ==
  ASSUME NEW T, 0 \in T, \A n \in Nat : n \in T => n + 1 \in T
  PROVE  Nat \subseteq T
  <1> SUFFICES ASSUME Nat \ T # {} PROVE FALSE
    OBVIOUS
  <1>1. PICK x \in Nat \ T : \A y \in Nat \ T : x <= y
    BY LeastNumber
  <1>2. x # 0 /\ x - 1 \in Nat
    BY <1>1
  <1>3. x - 1 \in T
    BY <1>1, <1>2
  <1> QED BY <1>1, <1>2, <1>3

\* The path exists: for every number of steps there is the function that takes them.
LEMMA ClimbsExist == \A h \in Nat : \E up : Climbs(up, h)
  <1> DEFINE T == {h \in Nat : \E up : Climbs(up, h)}
  <1>1. 0 \in T
    <2>1. Climbs([i \in 0 .. 0 |-> <<>>], 0)
      BY DEF Climbs
    <2> QED BY <2>1
  <1>2. ASSUME NEW h \in Nat, h \in T PROVE h + 1 \in T
    <2>1. PICK up : Climbs(up, h)
      BY <1>2
    <2> DEFINE next == [i \in 0 .. h + 1 |-> IF i = h + 1 THEN Extended(up[h]) ELSE up[i]]
    <2>2. Climbs(next, h + 1)
      <3>1. \A i \in 0 .. h + 1 : next[i] = IF i = 0 THEN <<>> ELSE Extended(next[i - 1])
        BY <2>1 DEF Climbs
      <3> HIDE DEF next
      <3>2. next = [i \in 0 .. h + 1 |-> next[i]]
        BY DEF next
      <3> QED BY <3>1, <3>2 DEF Climbs
    <2> QED BY <2>2
  <1> HIDE DEF T
  <1>3. Nat \subseteq T
    BY <1>1, <1>2, Counting
  <1> QED BY <1>3 DEF T

\* It is as long as it has steps, at most, and so a finite sequence.
LEMMA ClimbsLength ==
  ASSUME NEW n \in Nat, NEW up, Climbs(up, n)
  PROVE  \A h \in 0 .. n : \E S : up[h] \in Seq(S)
  <1> DEFINE T == {h \in Nat : h <= n => \E S : up[h] \in Seq(S)}
  <1>1. 0 \in T
    <2>1. up[0] = <<>>
      BY DEF Climbs
    <2>2. <<>> \in Seq({})
      OBVIOUS
    <2> QED BY <2>1, <2>2
  <1>2. ASSUME NEW h \in Nat, h \in T PROVE h + 1 \in T
    <2> SUFFICES ASSUME h + 1 <= n PROVE \E S : up[h + 1] \in Seq(S)
      OBVIOUS
    <2>1. PICK S : up[h] \in Seq(S)
      BY <1>2
    <2>2. up[h + 1] = Extended(up[h])
      BY DEF Climbs
    <2>3. \/ up[h + 1] = up[h]
          \/ \E r : up[h + 1] = Append(up[h], r)
      BY <2>2 DEF Extended
    <2>4. ASSUME NEW r PROVE Append(up[h], r) \in Seq(S \union {r})
      <3>1. up[h] \in Seq(S \union {r})
        BY <2>1
      <3> QED BY <3>1
    <2> QED BY <2>1, <2>3, <2>4
  <1> HIDE DEF T
  <1>3. Nat \subseteq T
    BY <1>1, <1>2, Counting
  <1> QED BY <1>3 DEF T

LEMMA PathLength == height \in Nat => Len(Path) \in Nat
  <1> SUFFICES ASSUME height \in Nat PROVE Len(Path) \in Nat
    OBVIOUS
  <1> DEFINE up == CHOOSE up : Climbs(up, height)
  <1>1. Path = up[height]
    BY DEF Path, Climbs, Extended
  <1>2. Climbs(up, height)
    BY ClimbsExist
  <1> HIDE DEF up
  <1> QED BY <1>1, <1>2, ClimbsLength

\* What is still to be split at and above level l, and the nodes that takes.
Splits(l) == {i \in l .. Len(plan.internals) : plan.internals[i].will_split}
Needed(l) == Cardinality(Splits(l)) + (IF plan.new_root THEN 1 ELSE 0)

ReserveInv ==
  /\ height \in Nat
  /\ Len(plan.internals) \in Nat
  /\ \E c : reserve = [nodes |-> reserve.nodes, cap |-> c]
  /\ \E S : reserve.nodes \in Seq(S)
  /\ phase \in {"commit", "promote"} => level \in Nat \ {0} /\ Len(reserve.nodes) = Needed(level)

LEMMA SplitsCounted ==
  ASSUME Len(plan.internals) \in Nat, NEW l \in Nat \ {0}, l <= Len(plan.internals)
  PROVE  /\ Needed(l) \in Nat
         /\ plan.internals[l].will_split => Needed(l) \in Nat \ {0} /\ Needed(l + 1) = Needed(l) - 1
  <1>1. Splits(l) \subseteq l .. Len(plan.internals) /\ IsFiniteSet(l .. Len(plan.internals))
    <2>1. l \in Int /\ Len(plan.internals) \in Int
      OBVIOUS
    <2>2. IsFiniteSet(l .. Len(plan.internals))
      BY <2>1, FS_Interval
    <2> QED BY <2>2 DEF Splits
  <1>2. IsFiniteSet(Splits(l)) /\ Cardinality(Splits(l)) \in Nat
    BY <1>1, FS_Subset, FS_CardinalityType
  <1>3. ASSUME plan.internals[l].will_split
        PROVE  Cardinality(Splits(l)) # 0 /\ Cardinality(Splits(l + 1)) = Cardinality(Splits(l)) - 1
    <2>1. l \in Splits(l) /\ Splits(l + 1) = Splits(l) \ {l}
      BY <1>3 DEF Splits
    <2>2. Cardinality(Splits(l) \ {l}) = Cardinality(Splits(l)) - 1 /\ Cardinality(Splits(l)) # 0
      BY <1>2, <2>1, FS_RemoveElement, FS_EmptySet
    <2> QED BY <2>1, <2>2
  <1> QED BY <1>2, <1>3 DEF Needed

\* The steps that leave the reservation and the plan of the commit alone.
Unreserved == UNCHANGED <<height, plan, reserve>> /\ phase' \notin {"commit", "promote"}

LEMMA UnreservedKeeps == ASSUME ReserveInv, Unreserved PROVE ReserveInv'
  BY DEF ReserveInv, Unreserved

\* The plan and the reservation are dropped.
Dropped ==
  /\ height' \in Nat /\ phase' \notin {"commit", "promote"}
  /\ plan' = NoPlan
  /\ reserve' = reserve \/ \E c : reserve' = [nodes |-> <<>>, cap |-> c]

LEMMA DroppedKeeps == ASSUME ReserveInv, Dropped PROVE ReserveInv'
  <1>1. Len(plan'.internals) = 0
    BY DEF Dropped, NoPlan
  <1>2. /\ \E c : reserve' = [nodes |-> reserve'.nodes, cap |-> c]
        /\ \E S : reserve'.nodes \in Seq(S)
    <2>1. CASE reserve' = reserve
      BY <2>1 DEF ReserveInv
    <2>2. CASE \E c : reserve' = [nodes |-> <<>>, cap |-> c]
      <3>1. PICK c : reserve' = [nodes |-> <<>>, cap |-> c]
        BY <2>2
      <3>2. reserve'.nodes = <<>>
        BY <3>1
      <3>3. reserve' = [nodes |-> reserve'.nodes, cap |-> c]
        BY <3>1, <3>2
      <3>4. <<>> \in Seq({})
        OBVIOUS
      <3> QED BY <3>2, <3>3, <3>4
    <2> QED BY <2>1, <2>2 DEF Dropped
  <1> QED BY <1>1, <1>2 DEF Dropped, ReserveInv

LEMMA ReserveInit == TreeInit => ReserveInv
  <1> SUFFICES ASSUME TreeInit PROVE ReserveInv
    OBVIOUS
  <1>1. height \in Nat /\ phase = "idle" /\ plan = NoPlan /\ reserve = NoReserve
    BY StartsAssumption DEF TreeInit
  <1>2. Len(plan.internals) = 0 /\ reserve.nodes = <<>> /\ reserve = [nodes |-> reserve.nodes, cap |-> 0]
    BY <1>1 DEF NoPlan, NoReserve
  <1>3. <<>> \in Seq({})
    OBVIOUS
  <1> QED BY <1>1, <1>2, <1>3 DEF ReserveInv

LEMMA ReserveStep == ReserveInv /\ [TreeNext]_treeVars => ReserveInv'
  <1> SUFFICES ASSUME ReserveInv, [TreeNext]_treeVars PROVE ReserveInv'
    OBVIOUS
  <1>1. CASE (\E source \in Sources : Extend(source)) \/ Resume \/ ExtendReturns \/ Occupied
    <2>1. Unreserved
      BY <1>1 DEF Extend, Resume, ExtendReturns, Occupied, Unreserved, insert, tree
    <2> QED BY <2>1, UnreservedKeeps
  <1>2. CASE Vacant
    <2>1. phase' \in {"empty", "fits", "probe"} /\ UNCHANGED <<height, plan, reserve>>
      BY <1>2 DEF Vacant, tree
    <2> QED BY <2>1, UnreservedKeeps DEF Unreserved
  <1>3. CASE InsertEmpty
    <2>1. (height' = 0 \/ height' = height) /\ UNCHANGED <<plan, reserve>> /\ phase' \in {"idle", "next"}
      <3>1. UNCHANGED <<plan, reserve>>
        BY <1>3 DEF InsertEmpty
      <3>2. (\E a : height' = 0 /\ Inserted(a, 0)) \/ Failed
        BY <1>3 DEF InsertEmpty
      <3> QED BY <3>1, <3>2 DEF Inserted, Failed
    <2> QED BY <2>1 DEF ReserveInv
  <1>4. CASE InsertFits
    <2>1. Unreserved
      BY <1>4 DEF InsertFits, Inserted, Unreserved
    <2> QED BY <2>1, UnreservedKeeps
  <1>5. CASE Probe
    <2>1. UNCHANGED <<height, reserve>> /\ phase' \in {"leaf", "idle"}
      BY <1>5 DEF Probe, Failed
    <2>2. plan' = plan \/ plan'.internals = Path
      BY <1>5 DEF Probe
    <2>3. Len(plan'.internals) \in Nat
      BY <2>2, PathLength DEF ReserveInv
    <2> QED BY <2>1, <2>3 DEF ReserveInv
  <1>6. CASE ReserveLeaf
    <2>1. Unreserved \/ Dropped
      BY <1>6 DEF ReserveLeaf, Failed, Unreserved, Dropped, ReserveInv
    <2> QED BY <2>1, UnreservedKeeps, DroppedKeeps
  <1>7. CASE ReserveBuffer
    <2>1. CASE Rollback
      <3>1. Dropped
        BY <2>1, <1>7 DEF Rollback, Failed, Dropped, ReserveInv, NoReserve
      <3> QED BY <3>1, DroppedKeeps
    <2>2. CASE /\ reserve' = [nodes |-> <<>>, cap |-> Capacity(reserve_buf, NumReserved)]
               /\ phase' = "internals" /\ UNCHANGED <<height, plan>>
      <3>1. reserve'.nodes = <<>> /\ reserve' = [nodes |-> reserve'.nodes, cap |-> Capacity(reserve_buf, NumReserved)]
        BY <2>2
      <3>2. <<>> \in Seq({})
        OBVIOUS
      <3> QED BY <2>2, <3>1, <3>2 DEF ReserveInv
    <2> QED BY <1>7, <2>1, <2>2 DEF ReserveBuffer, tree
  <1>8. CASE ReserveInternal
    <2>1. CASE Rollback
      <3>1. Dropped
        BY <2>1, <1>8 DEF Rollback, Failed, Dropped, ReserveInv, NoReserve
      <3> QED BY <3>1, DroppedKeeps
    <2>2. CASE \E a : /\ reserve' = [reserve EXCEPT !.nodes = Append(@, a)]
                      /\ UNCHANGED <<phase, height, plan>>
      <3>1. PICK a : reserve' = [reserve EXCEPT !.nodes = Append(@, a)]
        BY <2>2
      <3>2. PICK S : reserve.nodes \in Seq(S)
        BY DEF ReserveInv
      <3>3. reserve.nodes \in Seq(S \union {a})
        BY <3>2
      <3>4. Append(reserve.nodes, a) \in Seq(S \union {a})
        BY <3>3
      <3>5. PICK c : reserve = [nodes |-> reserve.nodes, cap |-> c]
        BY DEF ReserveInv
      <3>6. reserve' = [nodes |-> Append(reserve.nodes, a), cap |-> c]
        <4>1. PICK q : q = Append(reserve.nodes, a)
          OBVIOUS
        <4>2. reserve' = [reserve EXCEPT !.nodes = q]
          BY <3>1, <4>1
        <4>3. PICK ns : ns = reserve.nodes
          OBVIOUS
        <4>4. reserve = [nodes |-> ns, cap |-> c]
          BY <3>5, <4>3
        <4> QED BY <4>1, <4>2, <4>4
      <3>7. reserve'.nodes = Append(reserve.nodes, a) /\ reserve' = [nodes |-> reserve'.nodes, cap |-> c]
        BY <3>6
      <3>8. phase' \notin {"commit", "promote"}
        BY <1>8, <2>2 DEF ReserveInternal
      <3> QED BY <2>2, <3>4, <3>7, <3>8 DEF ReserveInv
    <2> QED BY <1>8, <2>1, <2>2 DEF ReserveInternal
  <1>9. CASE Drain
    <2>1. NumReserved = Needed(1)
      BY DEF NumReserved, NumSplits, Needed, Splits
    <2>2. level' = 1 /\ UNCHANGED <<height, plan, reserve>> /\ Len(reserve.nodes) = Needed(1)
      BY <1>9, <2>1 DEF Drain, tree
    <2> QED BY <2>2 DEF ReserveInv, Needed, Splits
  <1>10. CASE CommitLeaf
    BY <1>10 DEF CommitLeaf, ReserveInv, Needed, Splits
  <1>11. CASE Absorb \/ GrowRoot
    <2>1. phase' = "next" /\ plan' = NoPlan /\ reserve' = NoReserve /\ height' \in Nat
      BY <1>11 DEF Absorb, GrowRoot, Finished, Inserted, ReserveInv
    <2>2. Dropped
      BY <2>1 DEF Dropped, NoReserve
    <2> QED BY <2>2, DroppedKeeps
  <1>12. CASE SplitInternal
    <2>1. /\ UNCHANGED <<height, plan, phase>> /\ phase = "promote" /\ level' = level + 1
          /\ reserve' = [reserve EXCEPT !.nodes = Tail(@)]
          /\ level <= Len(plan.internals) /\ plan.internals[level].will_split
      BY <1>12 DEF SplitInternal, Promotion
    <2>2. level \in Nat \ {0} /\ Len(reserve.nodes) = Needed(level) /\ Len(plan.internals) \in Nat
      BY <2>1 DEF ReserveInv
    <2>3. Needed(level) \in Nat \ {0} /\ Needed(level + 1) = Needed(level) - 1
      BY <2>1, <2>2, SplitsCounted
    <2>4. PICK S : reserve.nodes \in Seq(S)
      BY DEF ReserveInv
    <2>5. Tail(reserve.nodes) \in Seq(S) /\ Len(Tail(reserve.nodes)) = Len(reserve.nodes) - 1
      BY <2>2, <2>3, <2>4
    <2>6. PICK c : reserve = [nodes |-> reserve.nodes, cap |-> c]
      BY DEF ReserveInv
    <2>7. reserve' = [nodes |-> Tail(reserve.nodes), cap |-> c]
      <3>1. \A s : [reserve EXCEPT !.nodes = s] = [nodes |-> s, cap |-> c]
        BY <2>6
      <3>2. reserve' = [reserve EXCEPT !.nodes = Tail(reserve.nodes)]
        BY <2>1
      <3> QED BY <3>1, <3>2, Zenon
    <2>8. reserve'.nodes = Tail(reserve.nodes) /\ reserve' = [nodes |-> reserve'.nodes, cap |-> c]
      BY <2>7
    <2>9. Needed(level)' = Needed(level + 1)
      BY <2>1 DEF Needed, Splits
    <2>10. level' \in Nat \ {0} /\ Len(reserve'.nodes) = Needed(level)'
      BY <2>1, <2>2, <2>3, <2>5, <2>8, <2>9
    <2>11. height' \in Nat /\ Len(plan'.internals) \in Nat
      BY <2>1, <2>2 DEF ReserveInv
    <2>12. (\E V : reserve'.nodes \in Seq(V)) /\ \E m : reserve' = [nodes |-> reserve'.nodes, cap |-> m]
      BY <2>5, <2>8
    <2> QED BY <2>10, <2>11, <2>12 DEF ReserveInv
  <1>13. CASE UNCHANGED treeVars
    BY <1>13 DEF treeVars, tree, insert, ReserveInv, Needed, Splits
  <1> QED
    BY <1>1, <1>2, <1>3, <1>4, <1>5, <1>6, <1>7, <1>8, <1>9, <1>10, <1>11, <1>12, <1>13 DEF TreeNext

\* The commit finds a reserved node for every split of the path and for a new
\* root, and leaves none over (entry.rs:1314-1316, 1405-1407).
THEOREM ReservedUsed == TreeSpec => []ReservedExactly
  <1>1. ReserveInv => ReservedExactly
    BY DEF ReserveInv, ReservedExactly, Committing, Needed, Splits
  <1> QED BY <1>1, ReserveInit, ReserveStep, PTL DEF TreeSpec

(***************************************************************************)
(* The surgery on a table of nodes, node by node.                           *)
(***************************************************************************)
Pair == Nat \X {"old", "new"}
Table(N) == N \in [DOMAIN N -> NodeRecord] /\ DOMAIN N \subseteq Nodes

LEMMA RecordIs ==
  ASSUME NEW N, Table(N), NEW a \in DOMAIN N
  PROVE  /\ N[a] \in NodeRecord
         /\ N[a].kvs \in Seq(Pair) /\ N[a].edges \in Seq(Nodes)
         /\ N[a].parent \in Nodes \union {Null} /\ N[a].parent_idx \in Nat
         /\ Len(N[a].kvs) \in Nat /\ Len(N[a].edges) \in Nat
         /\ a \in Nodes /\ a # Null
  <1>1. N[a] \in NodeRecord /\ a \in Nodes
    BY DEF Table
  <1>2. /\ N[a].kvs \in Seq(Pair) /\ N[a].edges \in Seq(Nodes)
        /\ N[a].parent \in Nodes \union {Null} /\ N[a].parent_idx \in Nat
    BY <1>1 DEF NodeRecord, Pair
  <1> QED BY <1>1, <1>2, NullAssumption

Filling(r, ks, es) == [r EXCEPT !.kvs = ks, !.edges = es]
Hanging(r, p, i) == [r EXCEPT !.parent = p, !.parent_idx = i]

LEMMA FillingIs ==
  ASSUME NEW r \in NodeRecord, NEW ks, NEW es
  PROVE  Filling(r, ks, es) = [kvs |-> ks, edges |-> es, parent |-> r.parent, parent_idx |-> r.parent_idx]
  <1> DEFINE one == [r EXCEPT !.kvs = ks]
  <1>1. PICK k, e, q, j : r = [kvs |-> k, edges |-> e, parent |-> q, parent_idx |-> j]
    BY DEF NodeRecord
  <1>2. one = [kvs |-> ks, edges |-> e, parent |-> q, parent_idx |-> j]
    BY <1>1
  <1>3. Filling(r, ks, es) = [one EXCEPT !.edges = es]
    BY <1>1 DEF Filling
  <1> HIDE DEF one
  <1>4. [one EXCEPT !.edges = es] = [kvs |-> ks, edges |-> es, parent |-> q, parent_idx |-> j]
    BY <1>2
  <1>5. r.parent = q /\ r.parent_idx = j
    BY <1>1
  <1> QED BY <1>3, <1>4, <1>5

LEMMA HangingIs ==
  ASSUME NEW r \in NodeRecord, NEW p, NEW i
  PROVE  Hanging(r, p, i) = [kvs |-> r.kvs, edges |-> r.edges, parent |-> p, parent_idx |-> i]
  <1> DEFINE two == [r EXCEPT !.parent = p]
  <1>1. PICK k, e, q, j : r = [kvs |-> k, edges |-> e, parent |-> q, parent_idx |-> j]
    BY DEF NodeRecord
  <1>2. two = [kvs |-> k, edges |-> e, parent |-> p, parent_idx |-> j]
    BY <1>1
  <1>3. Hanging(r, p, i) = [two EXCEPT !.parent_idx = i]
    BY <1>1 DEF Hanging
  <1> HIDE DEF two
  <1>4. [two EXCEPT !.parent_idx = i] = [kvs |-> k, edges |-> e, parent |-> p, parent_idx |-> i]
    BY <1>2
  <1>5. r.kvs = k /\ r.edges = e
    BY <1>1
  <1> QED BY <1>3, <1>4, <1>5

LEMMA RefilledIs ==
  ASSUME NEW N, Table(N), NEW a \in DOMAIN N, NEW ks \in Seq(Pair), NEW es \in Seq(Nodes),
         NEW r, r = Refilled(N, a, ks, es)
  PROVE  /\ DOMAIN r = DOMAIN N /\ Table(r)
         /\ \A x \in DOMAIN N : x # a => r[x] = N[x]
         /\ r[a].kvs = ks /\ r[a].edges = es /\ r[a].parent = N[a].parent /\ r[a].parent_idx = N[a].parent_idx
  <1> DEFINE ra == [kvs |-> ks, edges |-> es, parent |-> N[a].parent, parent_idx |-> N[a].parent_idx]
  <1>1. N = [x \in DOMAIN N |-> N[x]]
    BY DEF Table
  <1>2. Filling(N[a], ks, es) = ra
    BY RecordIs, FillingIs
  <1>3. r = [x \in DOMAIN N |-> IF x = a THEN ra ELSE N[x]]
    <2> HIDE DEF ra
    <2> QED BY <1>1, <1>2 DEF Refilled, Filling
  <1>4. ra \in NodeRecord
    BY RecordIs DEF NodeRecord, Pair
  <1>5. ra.kvs = ks /\ ra.edges = es /\ ra.parent = N[a].parent /\ ra.parent_idx = N[a].parent_idx
    OBVIOUS
  <1> HIDE DEF ra
  <1>6. DOMAIN r = DOMAIN N /\ r[a] = ra /\ \A x \in DOMAIN N : x # a => r[x] = N[x]
    BY <1>3
  <1>7. Table(r)
    <2>1. \A x \in DOMAIN N : r[x] \in NodeRecord
      BY <1>4, <1>6 DEF Table
    <2>2. r = [x \in DOMAIN r |-> r[x]]
      BY <1>3
    <2> QED BY <1>6, <2>1, <2>2 DEF Table
  <1> QED BY <1>5, <1>6, <1>7 DEF ra

\* A part of a sequence; one with an element put in.
LEMMA PartIs ==
  ASSUME NEW S, NEW s \in Seq(S), NEW from \in Nat \ {0}, NEW to \in Nat, to <= Len(s)
  PROVE  /\ SubSeq(s, from, to) \in Seq(S)
         /\ Len(SubSeq(s, from, to)) = IF from <= to THEN to - from + 1 ELSE 0
         /\ \A i \in 1 .. to - from + 1 : SubSeq(s, from, to)[i] = s[from + i - 1]
  <1>1. \A i \in from .. to : s[i] \in S
    OBVIOUS
  <1> QED BY <1>1, SubSeqProperties

LEMMA InsertAtIs ==
  ASSUME NEW S, NEW s \in Seq(S), NEW i \in 1 .. Len(s) + 1, NEW e \in S
  PROVE  /\ InsertAt(s, i, e) \in Seq(S) /\ Len(InsertAt(s, i, e)) = Len(s) + 1
         /\ \A j \in 1 .. Len(s) + 1 :
              InsertAt(s, i, e)[j] = IF j < i THEN s[j] ELSE IF j = i THEN e ELSE s[j - 1]
  <1> DEFINE l == SubSeq(s, 1, i - 1)
             r == SubSeq(s, i, Len(s))
  <1>1. Len(s) \in Nat /\ i - 1 \in 0 .. Len(s)
    OBVIOUS
  <1>2. /\ l \in Seq(S) /\ Len(l) = i - 1 /\ \A j \in 1 .. i - 1 : l[j] = s[j]
        /\ r \in Seq(S) /\ Len(r) = Len(s) - (i - 1) /\ \A j \in 1 .. Len(s) - (i - 1) : r[j] = s[i - 1 + j]
    BY <1>1, PartIs
  <1> HIDE DEF l, r
  <1>3. /\ l \o <<e>> \in Seq(S) /\ Len(l \o <<e>>) = i
        /\ \A j \in 1 .. i : (l \o <<e>>)[j] = IF j < i THEN s[j] ELSE e
    BY <1>1, <1>2
  <1> DEFINE m == l \o <<e>>
  <1> HIDE DEF m
  <1>4. /\ m \o r \in Seq(S) /\ Len(m \o r) = Len(s) + 1
        /\ \A j \in 1 .. Len(s) + 1 : (m \o r)[j] = IF j <= i THEN m[j] ELSE r[j - i]
    <2>1. m \in Seq(S) /\ r \in Seq(S) /\ Len(m) = i /\ Len(m) + Len(r) = Len(s) + 1
      <3>1. Len(r) = Len(s) - (i - 1) /\ i \in Nat
        BY <1>2
      <3>2. m \in Seq(S) /\ Len(m) = i
        BY <1>3 DEF m
      <3>3. i + (Len(s) - (i - 1)) = Len(s) + 1
        BY <1>1, <3>1
      <3> QED BY <1>2, <3>1, <3>2, <3>3
    <2> QED BY <2>1, ConcatProperties
  <1>5. \A j \in 1 .. Len(s) + 1 : (m \o r)[j] = IF j < i THEN s[j] ELSE IF j = i THEN e ELSE s[j - 1]
    <2> SUFFICES ASSUME NEW j \in 1 .. Len(s) + 1
                 PROVE (m \o r)[j] = IF j < i THEN s[j] ELSE IF j = i THEN e ELSE s[j - 1]
      OBVIOUS
    <2>1. CASE j <= i
      BY <1>1, <1>3, <1>4, <2>1 DEF m
    <2>2. CASE j > i
      <3>1. j - i \in 1 .. Len(s) - (i - 1) /\ i - 1 + (j - i) = j - 1
        BY <1>1, <2>2
      <3>2. (m \o r)[j] = r[j - i] /\ r[j - i] = s[i - 1 + (j - i)]
        BY <1>2, <1>4, <2>2, <3>1, SMTT(30)
      <3>3. ~(j < i) /\ j # i /\ (m \o r)[j] = s[j - 1]
        BY <2>2, <3>1, <3>2
      <3> HIDE DEF m, r
      <3> QED BY <3>3
    <2>3. j <= i \/ j > i
      BY <1>1
    <2> QED BY <2>1, <2>2, <2>3, Zenon
  <1> QED BY <1>4, <1>5 DEF InsertAt, m, l, r

\* The same, from its premises as one formula.
CanInsert(S, s, i, e) == s \in Seq(S) /\ i \in 1 .. Len(s) + 1 /\ e \in S
InsertedAt(s, i, e) ==
  /\ Len(InsertAt(s, i, e)) = Len(s) + 1
  /\ \A j \in 1 .. Len(s) + 1 : InsertAt(s, i, e)[j] = IF j < i THEN s[j] ELSE IF j = i THEN e ELSE s[j - 1]

LEMMA InsertFitted ==
  ASSUME NEW S, NEW s, NEW i, NEW e, CanInsert(S, s, i, e)
  PROVE  InsertedAt(s, i, e)
  <1>1. s \in Seq(S) /\ i \in 1 .. Len(s) + 1 /\ e \in S
    BY DEF CanInsert
  <1> QED BY <1>1, InsertAtIs DEF InsertedAt

LEMMA MovedIs ==
  ASSUME NEW N, Table(N), NEW a \in DOMAIN N, NEW b \in DOMAIN N, a # b, NEW sp \in Nat,
         sp < Len(N[a].kvs), Len(N[a].edges) \in {0, Len(N[a].kvs) + 1},
         NEW m, m = MoveRightHalf(N, a, b, sp)
  PROVE  /\ DOMAIN m = DOMAIN N /\ Table(m)
         /\ \A x \in DOMAIN N : x \notin {a, b} => m[x] = N[x]
         /\ m[a].kvs = SubSeq(N[a].kvs, 1, sp)
         /\ m[a].edges = IF N[a].edges = <<>> THEN <<>> ELSE SubSeq(N[a].edges, 1, sp + 1)
         /\ m[b].kvs = SubSeq(N[a].kvs, sp + 2, Len(N[a].kvs))
         /\ m[b].edges = SubSeq(N[a].edges, sp + 2, Len(N[a].edges))
         /\ \A x \in DOMAIN N : m[x].parent = N[x].parent /\ m[x].parent_idx = N[x].parent_idx
  <1> DEFINE ka == SubSeq(N[a].kvs, 1, sp)
             ea == IF N[a].edges = <<>> THEN <<>> ELSE SubSeq(N[a].edges, 1, sp + 1)
             kb == SubSeq(N[a].kvs, sp + 2, Len(N[a].kvs))
             eb == SubSeq(N[a].edges, sp + 2, Len(N[a].edges))
             l == Refilled(N, a, ka, ea)
  <1>1. m = Refilled(l, b, kb, eb)
    BY DEF MoveRightHalf
  <1>2. N[a].kvs \in Seq(Pair) /\ N[a].edges \in Seq(Nodes)
    BY RecordIs
  <1>3. ka \in Seq(Pair) /\ kb \in Seq(Pair)
    BY <1>2, PartIs
  <1>4. eb \in Seq(Nodes)
    BY <1>2, PartIs
  <1>5. ea \in Seq(Nodes)
    <2>1. N[a].edges # <<>> => Len(N[a].edges) = Len(N[a].kvs) + 1
      BY <1>2
    <2> QED BY <1>2, <2>1, PartIs
  <1> HIDE DEF ka, kb, ea, eb, l
  <1>6. /\ DOMAIN l = DOMAIN N /\ Table(l) /\ \A x \in DOMAIN N : x # a => l[x] = N[x]
        /\ l[a].kvs = ka /\ l[a].edges = ea /\ l[a].parent = N[a].parent /\ l[a].parent_idx = N[a].parent_idx
    BY <1>3, <1>5, RefilledIs DEF l
  <1>7. /\ DOMAIN m = DOMAIN l /\ Table(m) /\ \A x \in DOMAIN l : x # b => m[x] = l[x]
        /\ m[b].kvs = kb /\ m[b].edges = eb /\ m[b].parent = l[b].parent /\ m[b].parent_idx = l[b].parent_idx
    BY <1>1, <1>3, <1>4, <1>6, RefilledIs
  <1>8. /\ DOMAIN m = DOMAIN N /\ Table(m) /\ (\A x \in DOMAIN N : x \notin {a, b} => m[x] = N[x])
        /\ m[a] = l[a] /\ m[b].kvs = kb /\ m[b].edges = eb
        /\ \A x \in DOMAIN N : m[x].parent = N[x].parent /\ m[x].parent_idx = N[x].parent_idx
    BY <1>6, <1>7
  <1> QED BY <1>6, <1>8 DEF ka, ea, kb, eb

\* The edges from .. to of a go to different nodes; these, and only these, now hang there.
Apart(N, a, from, to) == \A i, j \in from .. to : N[a].edges[i + 1] = N[a].edges[j + 1] => i = j
RelinkOf(N, r, a, from, to) ==
  /\ DOMAIN r = DOMAIN N /\ Table(r)
  /\ \A c \in DOMAIN N : r[c].kvs = N[c].kvs /\ r[c].edges = N[c].edges
  /\ \A c \in DOMAIN N : (\A i \in from .. to : N[a].edges[i + 1] # c) => r[c] = N[c]
  /\ \A i \in from .. to : N[a].edges[i + 1] \in DOMAIN N =>
       r[N[a].edges[i + 1]].parent = a /\ r[N[a].edges[i + 1]].parent_idx = i

LEMMA RelinkedIs ==
  ASSUME NEW N, Table(N), NEW a \in DOMAIN N, NEW from \in Nat, NEW to \in Int, to < Len(N[a].edges),
         Apart(N, a, from, to), NEW r, r = Relinked(N, a, from, to)
  PROVE  RelinkOf(N, r, a, from, to)
  <1> DEFINE at(c) == {i \in from .. to : N[a].edges[i + 1] = c}
             new(c) == [N[c] EXCEPT !.parent = a, !.parent_idx = CHOOSE i \in at(c) : TRUE]
  <1>1. r = [c \in DOMAIN N |-> IF at(c) = {} THEN N[c] ELSE new(c)]
    BY DEF Relinked
  <1>2. \A c \in DOMAIN N : at(c) # {} =>
          /\ (CHOOSE i \in at(c) : TRUE) \in at(c) /\ (CHOOSE i \in at(c) : TRUE) \in Nat
          /\ new(c) = [kvs |-> N[c].kvs, edges |-> N[c].edges, parent |-> a, parent_idx |-> CHOOSE i \in at(c) : TRUE]
    <2> SUFFICES ASSUME NEW c \in DOMAIN N, at(c) # {}
                 PROVE  /\ (CHOOSE i \in at(c) : TRUE) \in at(c) /\ (CHOOSE i \in at(c) : TRUE) \in Nat
                        /\ new(c) = [kvs |-> N[c].kvs, edges |-> N[c].edges, parent |-> a, parent_idx |-> CHOOSE i \in at(c) : TRUE]
      OBVIOUS
    <2>1. (CHOOSE i \in at(c) : TRUE) \in at(c)
      OBVIOUS
    <2> DEFINE k == CHOOSE i \in at(c) : TRUE
    <2>2. k \in Nat
      BY <2>1
    <2> HIDE DEF k
    <2>3. Hanging(N[c], a, k) = [kvs |-> N[c].kvs, edges |-> N[c].edges, parent |-> a, parent_idx |-> k]
      BY RecordIs, HangingIs
    <2> QED BY <2>1, <2>2, <2>3 DEF k, Hanging
  <1> HIDE DEF new
  <1>3. \A c \in DOMAIN N : at(c) # {} => new(c) \in NodeRecord /\ new(c).kvs = N[c].kvs /\ new(c).edges = N[c].edges
                                          /\ new(c).parent = a /\ new(c).parent_idx \in at(c)
    <2> SUFFICES ASSUME NEW c \in DOMAIN N, at(c) # {}
                 PROVE  new(c) \in NodeRecord /\ new(c).kvs = N[c].kvs /\ new(c).edges = N[c].edges
                        /\ new(c).parent = a /\ new(c).parent_idx \in at(c)
      OBVIOUS
    <2> DEFINE k == CHOOSE i \in at(c) : TRUE
    <2>1. k \in at(c) /\ k \in Nat
          /\ new(c) = [kvs |-> N[c].kvs, edges |-> N[c].edges, parent |-> a, parent_idx |-> k]
      BY <1>2
    <2> HIDE DEF k
    <2>2. N[c].kvs \in Seq(Pair) /\ N[c].edges \in Seq(Nodes) /\ a \in Nodes
      BY RecordIs
    <2> QED BY <2>1, <2>2 DEF NodeRecord, Pair
  <1>4. DOMAIN r = DOMAIN N
    BY <1>1
  <1>5. \A c \in DOMAIN N : r[c] = IF at(c) = {} THEN N[c] ELSE new(c)
    BY <1>1
  <1>6. Table(r)
    <2>1. \A c \in DOMAIN N : r[c] \in NodeRecord
      BY <1>3, <1>5 DEF Table
    <2>2. r = [c \in DOMAIN r |-> r[c]]
      BY <1>1
    <2> QED BY <1>4, <2>1, <2>2 DEF Table
  <1>7. ASSUME NEW i \in from .. to, N[a].edges[i + 1] \in DOMAIN N
        PROVE  r[N[a].edges[i + 1]].parent = a /\ r[N[a].edges[i + 1]].parent_idx = i
    <2> DEFINE c == N[a].edges[i + 1]
    <2>1. i \in at(c)
      OBVIOUS
    <2>2. \A j \in at(c) : j = i
      BY DEF Apart
    <2>3. r[c] = new(c) /\ new(c).parent = a /\ new(c).parent_idx \in at(c)
      BY <1>3, <1>5, <1>7, <2>1
    <2> HIDE DEF at, c
    <2> QED BY <2>2, <2>3 DEF c
  <1>8. \A c \in DOMAIN N : (\A i \in from .. to : N[a].edges[i + 1] # c) => at(c) = {}
    OBVIOUS
  <1> QED BY <1>3, <1>4, <1>5, <1>6, <1>7, <1>8, SMTT(30) DEF RelinkOf

LEMMA FilledIs ==
  ASSUME NEW N, Table(N), NEW a \in DOMAIN N, NEW i \in Nat, NEW kv \in Pair, NEW child \in Nodes,
         i <= Len(N[a].kvs), Len(N[a].edges) = Len(N[a].kvs) + 1,
         NEW f, f = InternalInsert(N, a, i, kv, child)
  PROVE  /\ DOMAIN f = DOMAIN N /\ Table(f)
         /\ \A x \in DOMAIN N : x # a => f[x] = N[x]
         /\ f[a].kvs = InsertAt(N[a].kvs, i + 1, kv) /\ f[a].edges = InsertAt(N[a].edges, i + 2, child)
         /\ f[a].parent = N[a].parent /\ f[a].parent_idx = N[a].parent_idx
  <1>1. i + 1 \in 1 .. Len(N[a].kvs) + 1 /\ i + 2 \in 1 .. Len(N[a].edges) + 1
    BY RecordIs
  <1>2. InsertAt(N[a].kvs, i + 1, kv) \in Seq(Pair) /\ InsertAt(N[a].edges, i + 2, child) \in Seq(Nodes)
    BY <1>1, InsertAtIs, RecordIs
  <1> QED BY <1>2, RefilledIs DEF InternalInsert

(***************************************************************************)
(* Shapes: how nodes hang together.  rank is a node's height above the      *)
(* leaves, and tops are the nodes that hang below no other; a node that is  *)
(* split keeps the shape, with one more top.                                *)
(***************************************************************************)
ChildOK(N, T, rank, a, i) ==
  LET c == N[a].edges[i] IN
  c \in T /\ rank[c] = rank[a] - 1 /\ N[c].parent = a /\ N[c].parent_idx = i - 1
Hangs(N, T, a) ==
  LET p == N[a].parent IN
  /\ p \in T /\ N[a].parent_idx + 1 \in 1 .. Len(N[p].edges)
  /\ N[p].edges[N[a].parent_idx + 1] = a
EdgesOf(n, r) == IF r = 0 THEN 0 ELSE n + 1
Shaped(N, T, tops, rank) ==
  /\ T \subseteq DOMAIN N /\ tops \subseteq T /\ rank \in [T -> Nat]
  /\ \A a \in T : Len(N[a].edges) = EdgesOf(Len(N[a].kvs), rank[a])
  /\ \A a \in T : \A i \in 1 .. Len(N[a].edges) : ChildOK(N, T, rank, a, i)
  /\ \A a \in tops : N[a].parent = Null
  /\ \A a \in T : a \notin tops => Hangs(N, T, a)

\* Node a is split at entry sp, what is right of it is in b.
Moved(N, T, a, sp, x) == N[x].parent = a /\ N[x].parent_idx > sp
SplitOf(N, l, T, rank, a, b, sp) ==
  /\ Table(l) /\ DOMAIN l = DOMAIN N
  /\ \A x \in DOMAIN N : x \notin {a, b} => l[x].kvs = N[x].kvs /\ l[x].edges = N[x].edges
  /\ \A x \in DOMAIN N : x \notin T \union {b} => l[x] = N[x]
  /\ l[a].kvs = SubSeq(N[a].kvs, 1, sp) /\ l[b].kvs = SubSeq(N[a].kvs, sp + 2, Len(N[a].kvs))
  /\ Len(l[a].kvs) = sp /\ Len(l[b].kvs) = Len(N[a].kvs) - sp - 1
  /\ Len(l[a].edges) = EdgesOf(sp, rank[a])
  /\ Len(l[b].edges) = EdgesOf(Len(N[a].kvs) - sp - 1, rank[a])
  /\ \A i \in 1 .. Len(l[a].edges) : l[a].edges[i] = N[a].edges[i]
  /\ \A i \in 1 .. Len(l[b].edges) : l[b].edges[i] = N[a].edges[sp + 1 + i]
  /\ l[b].parent = N[b].parent
  /\ \A x \in T : l[x].parent = IF Moved(N, T, a, sp, x) THEN b ELSE N[x].parent
  /\ \A x \in T : l[x].parent_idx = IF Moved(N, T, a, sp, x) THEN N[x].parent_idx - (sp + 1) ELSE N[x].parent_idx

Ranked(rank, T, b, r) == [x \in T \union {b} |-> IF x = b THEN r ELSE rank[x]]

LEMMA SplitShape ==
  ASSUME NEW N, Table(N), NEW T, NEW tops, NEW rank, Shaped(N, T, tops, rank), NEW a \in T, NEW b \in DOMAIN N, b \notin T,
         N[b].parent = Null, NEW sp \in Nat, sp < Len(N[a].kvs), NEW l, SplitOf(N, l, T, rank, a, b, sp)
  PROVE  Shaped(l, T \union {b}, tops \union {b}, Ranked(rank, T, b, rank[a]))
  <1> DEFINE T2 == T \union {b}
             r2 == Ranked(rank, T, b, rank[a])
  <1>1. /\ T \subseteq DOMAIN N /\ tops \subseteq T /\ rank \in [T -> Nat] /\ a \in DOMAIN N /\ a # b
        /\ \A x \in T : Len(N[x].edges) = EdgesOf(Len(N[x].kvs), rank[x])
        /\ \A x \in T : \A i \in 1 .. Len(N[x].edges) : ChildOK(N, T, rank, x, i)
        /\ \A x \in tops : N[x].parent = Null
        /\ \A x \in T : x \notin tops => Hangs(N, T, x)
    BY DEF Shaped
  <1>2. /\ T2 \subseteq DOMAIN l /\ tops \union {b} \subseteq T2 /\ r2 \in [T2 -> Nat]
        /\ r2[b] = rank[a] /\ \A x \in T : r2[x] = rank[x]
    BY <1>1 DEF Ranked, SplitOf
  <1> HIDE DEF r2
  <1>3. \A x \in DOMAIN N : Len(N[x].kvs) \in Nat /\ Len(N[x].edges) \in Nat /\ N[x].parent_idx \in Nat /\ x # Null
    BY RecordIs
  <1>4. ASSUME NEW x \in T2 PROVE Len(l[x].edges) = EdgesOf(Len(l[x].kvs), r2[x])
    BY <1>1, <1>2 DEF SplitOf
  <1>5. ASSUME NEW x \in T2, NEW i \in 1 .. Len(l[x].edges) PROVE ChildOK(l, T2, r2, x, i)
    <2>1. CASE x = a
      <3> DEFINE c == N[a].edges[i]
      <3>1. l[a].edges[i] = c /\ Len(l[a].edges) = EdgesOf(sp, rank[a])
        BY <1>5, <2>1 DEF SplitOf
      <3>2. rank[a] # 0 /\ i <= sp + 1 /\ i \in 1 .. Len(N[a].edges)
        BY <1>1, <1>3, <1>5, <2>1, <3>1 DEF EdgesOf
      <3>3. c \in T /\ rank[c] = rank[a] - 1 /\ N[c].parent = a /\ N[c].parent_idx = i - 1
        BY <1>1, <3>2 DEF ChildOK
      <3>4. ~Moved(N, T, a, sp, c)
        BY <3>2, <3>3 DEF Moved
      <3>5. l[c].parent = a /\ l[c].parent_idx = i - 1
        BY <3>3, <3>4 DEF SplitOf
      <3> QED BY <1>2, <2>1, <3>1, <3>3, <3>5 DEF ChildOK
    <2>2. CASE x = b
      <3> DEFINE j == sp + 1 + i
                 c == N[a].edges[j]
      <3>1. l[b].edges[i] = c /\ Len(l[b].edges) = EdgesOf(Len(N[a].kvs) - sp - 1, rank[a])
        BY <1>5, <2>2 DEF SplitOf
      <3>2. rank[a] # 0 /\ i <= Len(N[a].kvs) - sp /\ j \in 1 .. Len(N[a].edges)
        BY <1>1, <1>3, <1>5, <2>2, <3>1 DEF EdgesOf
      <3>3. c \in T /\ rank[c] = rank[a] - 1 /\ N[c].parent = a /\ N[c].parent_idx = j - 1
        BY <1>1, <3>2 DEF ChildOK
      <3>4. Moved(N, T, a, sp, c)
        BY <3>2, <3>3 DEF Moved
      <3>5. l[c].parent = b /\ l[c].parent_idx = i - 1
        BY <3>3, <3>4 DEF SplitOf
      <3> QED BY <1>2, <2>2, <3>1, <3>3, <3>5 DEF ChildOK
    <2>3. CASE x \notin {a, b}
      <3> DEFINE c == N[x].edges[i]
      <3>1. x \in T /\ x \in DOMAIN N /\ l[x].edges = N[x].edges
        BY <1>1, <2>3 DEF SplitOf
      <3>2. c \in T /\ rank[c] = rank[x] - 1 /\ N[c].parent = x /\ N[c].parent_idx = i - 1
        BY <1>1, <1>5, <3>1 DEF ChildOK
      <3>3. ~Moved(N, T, a, sp, c)
        BY <2>3, <3>2 DEF Moved
      <3>4. l[c].parent = x /\ l[c].parent_idx = i - 1
        BY <3>2, <3>3 DEF SplitOf
      <3> QED BY <1>2, <3>1, <3>2, <3>4 DEF ChildOK
    <2> QED BY <2>1, <2>2, <2>3
  <1>6. ASSUME NEW x \in tops \union {b} PROVE l[x].parent = Null
    <2>1. CASE x = b
      BY <2>1 DEF SplitOf
    <2>2. CASE x # b
      <3>1. x \in T /\ N[x].parent = Null
        BY <1>1, <2>2
      <3>2. ~Moved(N, T, a, sp, x)
        BY <1>1, <1>3, <3>1 DEF Moved
      <3> QED BY <3>1, <3>2 DEF SplitOf
    <2> QED BY <2>1, <2>2
  <1>7. ASSUME NEW x \in T2, x \notin tops \union {b} PROVE Hangs(l, T2, x)
    <2> DEFINE p == N[x].parent
               j == N[x].parent_idx
    <2>1. x \in T /\ x \in DOMAIN N /\ p \in T /\ j + 1 \in 1 .. Len(N[p].edges) /\ N[p].edges[j + 1] = x /\ j \in Nat
      BY <1>1, <1>3, <1>7 DEF Hangs
    <2>2. CASE p = a /\ j > sp
      <3>1. Moved(N, T, a, sp, x)
        BY <2>2 DEF Moved
      <3>2. l[x].parent = b /\ l[x].parent_idx = j - (sp + 1)
        BY <2>1, <3>1 DEF SplitOf
      <3>3. rank[a] # 0 /\ Len(N[a].edges) = Len(N[a].kvs) + 1
        BY <1>1, <2>1, <2>2 DEF EdgesOf
      <3>4. Len(l[b].edges) = Len(N[a].kvs) - sp
        BY <1>1, <1>3, <3>3 DEF SplitOf, EdgesOf
      <3>5. j - sp \in 1 .. Len(l[b].edges) /\ sp + 1 + (j - sp) = j + 1
        BY <1>1, <1>3, <2>1, <2>2, <3>3, <3>4, SMTT(30)
      <3>6. l[b].edges[j - sp] = x
        BY <2>1, <2>2, <3>5, SMTT(30) DEF SplitOf
      <3>7. j - (sp + 1) + 1 = j - sp
        BY <2>1
      <3> QED BY <3>2, <3>5, <3>6, <3>7 DEF Hangs
    <2>3. CASE p = a /\ ~(j > sp)
      <3>1. ~Moved(N, T, a, sp, x)
        BY <2>3 DEF Moved
      <3>2. l[x].parent = a /\ l[x].parent_idx = j
        BY <2>1, <2>3, <3>1 DEF SplitOf
      <3>3. rank[a] # 0
        BY <1>1, <2>1, <2>3 DEF EdgesOf
      <3>4. Len(l[a].edges) = sp + 1
        BY <3>3 DEF SplitOf, EdgesOf
      <3>5. j + 1 \in 1 .. Len(l[a].edges)
        BY <2>1, <2>3, <3>4
      <3>6. l[a].edges[j + 1] = x
        BY <2>1, <2>3, <3>5 DEF SplitOf
      <3> QED BY <3>2, <3>5, <3>6 DEF Hangs
    <2>4. CASE p # a
      <3>1. ~Moved(N, T, a, sp, x)
        BY <2>4 DEF Moved
      <3>2. l[x].parent = p /\ l[x].parent_idx = j
        BY <2>1, <3>1 DEF SplitOf
      <3>3. l[p].edges = N[p].edges
        BY <1>1, <2>1, <2>4 DEF SplitOf
      <3> QED BY <2>1, <3>2, <3>3 DEF Hangs
    <2> QED BY <2>2, <2>3, <2>4
  <1> QED BY <1>2, <1>4, <1>5, <1>6, <1>7 DEF Shaped, r2

\* A leaf has no edges; a node above the leaves takes the moved ones along.
LEMMA SplitLeafIs ==
  ASSUME NEW N, Table(N), NEW T, NEW tops, NEW rank, Shaped(N, T, tops, rank), NEW a \in T, NEW b \in DOMAIN N, b \notin T,
         rank[a] = 0, NEW sp \in Nat, sp < Len(N[a].kvs), NEW l, l = MoveRightHalf(N, a, b, sp)
  PROVE  SplitOf(N, l, T, rank, a, b, sp)
  <1>1. a \in DOMAIN N /\ a # b /\ T \subseteq DOMAIN N
    BY DEF Shaped
  <1>2. N[a].kvs \in Seq(Pair) /\ N[a].edges \in Seq(Nodes) /\ Len(N[a].edges) = 0 /\ Len(N[a].kvs) \in Nat
    BY <1>1, RecordIs DEF Shaped, EdgesOf
  <1>3. N[a].edges = <<>> /\ SubSeq(N[a].edges, sp + 2, Len(N[a].edges)) = <<>>
    BY <1>2, SubSeqEmpty
  <1>4. /\ DOMAIN l = DOMAIN N /\ Table(l)
        /\ \A x \in DOMAIN N : x \notin {a, b} => l[x] = N[x]
        /\ l[a].kvs = SubSeq(N[a].kvs, 1, sp) /\ l[a].edges = <<>>
        /\ l[b].kvs = SubSeq(N[a].kvs, sp + 2, Len(N[a].kvs)) /\ l[b].edges = <<>>
        /\ \A x \in DOMAIN N : l[x].parent = N[x].parent /\ l[x].parent_idx = N[x].parent_idx
    BY <1>1, <1>2, <1>3, MovedIs, SMTT(30)
  <1>5. \A x \in T : ~Moved(N, T, a, sp, x)
    <2> SUFFICES ASSUME NEW x \in T, N[x].parent = a PROVE FALSE
      BY DEF Moved
    <2>1. a # Null
      BY <1>1, RecordIs
    <2>2. Hangs(N, T, x)
      BY <2>1 DEF Shaped
    <2> QED BY <1>2, <2>2 DEF Hangs
  <1>6. Len(SubSeq(N[a].kvs, 1, sp)) = sp /\ Len(SubSeq(N[a].kvs, sp + 2, Len(N[a].kvs))) = Len(N[a].kvs) - sp - 1
    BY <1>2, PartIs, SMTT(30)
  <1>7. \A x \in DOMAIN N : x \notin T \union {b} => x \notin {a, b}
    OBVIOUS
  <1> QED BY <1>1, <1>4, <1>5, <1>6, <1>7 DEF SplitOf, EdgesOf

LEMMA OneEdgeEach ==
  ASSUME NEW N, NEW T, NEW tops, NEW rank, Shaped(N, T, tops, rank), NEW a \in T,
         NEW i \in 1 .. Len(N[a].edges), NEW j \in 1 .. Len(N[a].edges), N[a].edges[i] = N[a].edges[j]
  PROVE  i = j
  <1>1. ChildOK(N, T, rank, a, i) /\ ChildOK(N, T, rank, a, j)
    BY DEF Shaped
  <1> QED BY <1>1 DEF ChildOK

LEMMA SplitInnerIs ==
  ASSUME NEW N, Table(N), NEW T, NEW tops, NEW rank, Shaped(N, T, tops, rank), NEW a \in T, NEW b \in DOMAIN N, b \notin T,
         rank[a] # 0, NEW sp \in Nat, sp < Len(N[a].kvs), NEW m, m = MoveRightHalf(N, a, b, sp),
         NEW l, l = Relinked(m, b, 0, Len(m[b].kvs))
  PROVE  SplitOf(N, l, T, rank, a, b, sp)
  <1> DEFINE n == Len(N[a].kvs)
             E == N[a].edges
  <1>1. a \in DOMAIN N /\ a # b /\ T \subseteq DOMAIN N
    BY DEF Shaped
  <1>2. N[a].kvs \in Seq(Pair) /\ E \in Seq(Nodes) /\ n \in Nat /\ Len(E) = n + 1
    BY <1>1, RecordIs DEF Shaped, EdgesOf
  <1>3. E # <<>>
    BY <1>2
  <1>4. /\ DOMAIN m = DOMAIN N /\ Table(m)
        /\ \A x \in DOMAIN N : x \notin {a, b} => m[x] = N[x]
        /\ m[a].kvs = SubSeq(N[a].kvs, 1, sp) /\ m[a].edges = SubSeq(E, 1, sp + 1)
        /\ m[b].kvs = SubSeq(N[a].kvs, sp + 2, n) /\ m[b].edges = SubSeq(E, sp + 2, Len(E))
        /\ \A x \in DOMAIN N : m[x].parent = N[x].parent /\ m[x].parent_idx = N[x].parent_idx
    <2>1. Len(N[a].edges) \in {0, Len(N[a].kvs) + 1}
      BY <1>2
    <2>2. /\ DOMAIN m = DOMAIN N /\ Table(m)
          /\ \A x \in DOMAIN N : x \notin {a, b} => m[x] = N[x]
          /\ m[a].kvs = SubSeq(N[a].kvs, 1, sp)
          /\ m[a].edges = IF N[a].edges = <<>> THEN <<>> ELSE SubSeq(N[a].edges, 1, sp + 1)
          /\ m[b].kvs = SubSeq(N[a].kvs, sp + 2, Len(N[a].kvs))
          /\ m[b].edges = SubSeq(N[a].edges, sp + 2, Len(N[a].edges))
          /\ \A x \in DOMAIN N : m[x].parent = N[x].parent /\ m[x].parent_idx = N[x].parent_idx
      BY <1>1, <2>1, MovedIs
    <2> QED BY <1>3, <2>2
  <1>5. /\ Len(m[a].kvs) = sp /\ Len(m[b].kvs) = n - sp - 1
        /\ Len(m[a].edges) = sp + 1 /\ \A i \in 1 .. sp + 1 : m[a].edges[i] = E[i]
        /\ Len(m[b].edges) = n - sp /\ \A i \in 1 .. n - sp : m[b].edges[i] = E[sp + 1 + i]
    <2>1. Len(SubSeq(N[a].kvs, 1, sp)) = sp /\ Len(SubSeq(N[a].kvs, sp + 2, n)) = n - sp - 1
      BY <1>2, PartIs
    <2>2. Len(SubSeq(E, 1, sp + 1)) = sp + 1 /\ \A i \in 1 .. sp + 1 : SubSeq(E, 1, sp + 1)[i] = E[i]
      BY <1>2, PartIs
    <2>3. Len(SubSeq(E, sp + 2, Len(E))) = n - sp
      BY <1>2, PartIs
    <2>4. ASSUME NEW i \in 1 .. n - sp PROVE SubSeq(E, sp + 2, Len(E))[i] = E[sp + 1 + i]
      <3> DEFINE len == Len(E)
      <3>0. n \in Nat /\ sp < n /\ len = n + 1
        BY <1>2
      <3> HIDE DEF n, len
      <3>1. i \in 1 .. len - (sp + 2) + 1 /\ sp + 2 + i - 1 = sp + 1 + i
        BY <3>0
      <3> USE DEF len
      <3>2. SubSeq(E, sp + 2, Len(E))[i] = E[sp + 2 + i - 1]
        BY <1>2, <3>1, PartIs
      <3> QED BY <3>1, <3>2
    <2> QED BY <1>4, <2>1, <2>2, <2>3, <2>4
  <1> DEFINE to == Len(m[b].kvs)
  <1>6. to \in Int /\ to < Len(m[b].edges) /\ to = n - sp - 1
    BY <1>2, <1>5
  <1>7. \A i \in 0 .. to : m[b].edges[i + 1] = E[sp + 2 + i] /\ sp + 2 + i \in 1 .. Len(E)
    <2> SUFFICES ASSUME NEW i \in 0 .. to PROVE m[b].edges[i + 1] = E[sp + 2 + i] /\ sp + 2 + i \in 1 .. Len(E)
      OBVIOUS
    <2>1. i + 1 \in 1 .. n - sp /\ sp + 1 + (i + 1) = sp + 2 + i
      BY <1>2, <1>6
    <2>2. m[b].edges[i + 1] = E[sp + 1 + (i + 1)]
      BY <1>5, <2>1
    <2> QED BY <1>2, <2>1, <2>2
  <1>8. \A i, j \in 0 .. to : m[b].edges[i + 1] = m[b].edges[j + 1] => i = j
    <2> SUFFICES ASSUME NEW i \in 0 .. to, NEW j \in 0 .. to, m[b].edges[i + 1] = m[b].edges[j + 1] PROVE i = j
      OBVIOUS
    <2>1. /\ sp + 2 + i \in 1 .. Len(N[a].edges) /\ sp + 2 + j \in 1 .. Len(N[a].edges)
          /\ N[a].edges[sp + 2 + i] = N[a].edges[sp + 2 + j]
      BY <1>7
    <2>2. sp + 2 + i = sp + 2 + j
      BY <2>1, OneEdgeEach
    <2> QED BY <2>2
  <1> HIDE DEF to
  <1>9. /\ DOMAIN l = DOMAIN m /\ Table(l)
        /\ \A c \in DOMAIN m : l[c].kvs = m[c].kvs /\ l[c].edges = m[c].edges
        /\ \A c \in DOMAIN m : (\A i \in 0 .. to : m[b].edges[i + 1] # c) => l[c] = m[c]
        /\ \A i \in 0 .. to : m[b].edges[i + 1] \in DOMAIN m =>
             l[m[b].edges[i + 1]].parent = b /\ l[m[b].edges[i + 1]].parent_idx = i
    <2>1. l = Relinked(m, b, 0, to)
      BY DEF to
    <2>2. Table(m) /\ b \in DOMAIN m /\ 0 \in Nat
      BY <1>4
    <2>3. Apart(m, b, 0, to)
      BY <1>8 DEF Apart
    <2> HIDE DEF E, n
    <2>4. RelinkOf(m, l, b, 0, to)
      BY <1>6, <2>1, <2>2, <2>3, RelinkedIs
    <2> QED BY <2>4 DEF RelinkOf
  <1>10. ASSUME NEW i \in 0 .. to
         PROVE  m[b].edges[i + 1] \in T /\ N[m[b].edges[i + 1]].parent = a /\ N[m[b].edges[i + 1]].parent_idx = sp + 1 + i
    <2>1. m[b].edges[i + 1] = E[sp + 2 + i] /\ sp + 2 + i \in 1 .. Len(E)
      BY <1>7
    <2>3. i \in Int /\ sp + 2 + i - 1 = sp + 1 + i
      BY <1>6
    <2>2. ChildOK(N, T, rank, a, sp + 2 + i)
      BY <2>1 DEF Shaped
    <2> QED BY <2>1, <2>2, <2>3 DEF ChildOK
  <1>11. ASSUME NEW x \in T, Moved(N, T, a, sp, x) PROVE l[x].parent = b /\ l[x].parent_idx = N[x].parent_idx - (sp + 1)
    <2> DEFINE j == N[x].parent_idx
               i == j - (sp + 1)
    <2>1. a # Null /\ j \in Nat /\ j > sp /\ x \in DOMAIN N
      BY <1>1, RecordIs, <1>11 DEF Moved
    <2>2. Hangs(N, T, x) /\ N[x].parent = a
      BY <1>11, <2>1 DEF Shaped, Moved
    <2>3. j + 1 \in 1 .. Len(E) /\ E[j + 1] = x
      BY <2>2 DEF Hangs
    <2>4. i \in 0 .. to /\ sp + 2 + i = j + 1
      <3> DEFINE len == Len(E)
      <3>1. n \in Nat /\ len = n + 1 /\ to = n - sp - 1 /\ j \in Nat /\ j > sp /\ j + 1 \in 1 .. len
        BY <1>2, <1>6, <2>1, <2>3
      <3> HIDE DEF n, len, j
      <3> QED BY <3>1
    <2>5. m[b].edges[i + 1] = x
      BY <1>7, <2>3, <2>4
    <2>6. x \in DOMAIN m
      BY <1>4, <2>1
    <2> HIDE DEF i, j
    <2>7. l[x].parent = b /\ l[x].parent_idx = i
      BY <1>9, <2>4, <2>5, <2>6
    <2> QED BY <2>7 DEF i, j
  <1>12. ASSUME NEW x \in T, ~Moved(N, T, a, sp, x) PROVE l[x] = m[x]
    <2>1. ASSUME NEW i \in 0 .. to, m[b].edges[i + 1] = x PROVE FALSE
      <3>1. N[x].parent = a /\ N[x].parent_idx = sp + 1 + i
        BY <1>10, <2>1
      <3> QED BY <1>12, <3>1 DEF Moved
    <2> QED BY <1>1, <1>4, <1>9, <2>1
  <1>13. ASSUME NEW x \in DOMAIN N, x \notin T PROVE l[x] = m[x]
    <2>1. \A i \in 0 .. to : m[b].edges[i + 1] # x
      BY <1>10, <1>13
    <2> QED BY <1>4, <1>9, <2>1
  <1>14. ASSUME NEW x \in T
         PROVE  /\ l[x].parent = IF Moved(N, T, a, sp, x) THEN b ELSE N[x].parent
                /\ l[x].parent_idx = IF Moved(N, T, a, sp, x) THEN N[x].parent_idx - (sp + 1) ELSE N[x].parent_idx
    <2>1. CASE Moved(N, T, a, sp, x)
      BY <1>11, <2>1
    <2>2. CASE ~Moved(N, T, a, sp, x)
      <3>1. l[x] = m[x] /\ x \in DOMAIN N
        BY <1>1, <1>12, <2>2
      <3> QED BY <1>4, <2>2, <3>1
    <2> QED BY <2>1, <2>2
  <1>15. \A x \in DOMAIN N : x \notin T \union {b} => l[x] = N[x]
    <2> SUFFICES ASSUME NEW x \in DOMAIN N, x \notin T \union {b} PROVE l[x] = N[x]
      OBVIOUS
    <2>1. l[x] = m[x] /\ x \notin {a, b}
      BY <1>13
    <2> QED BY <1>4, <2>1
  <1>16. l[b].parent = N[b].parent
    BY <1>4, <1>13
  <1>17. /\ Len(l[a].edges) = EdgesOf(sp, rank[a]) /\ Len(l[b].edges) = EdgesOf(n - sp - 1, rank[a])
         /\ \A i \in 1 .. Len(l[a].edges) : l[a].edges[i] = E[i]
         /\ \A i \in 1 .. Len(l[b].edges) : l[b].edges[i] = E[sp + 1 + i]
    <2>1. l[a].edges = m[a].edges /\ l[b].edges = m[b].edges
      BY <1>1, <1>4, <1>9
    <2>2. EdgesOf(sp, rank[a]) = sp + 1 /\ EdgesOf(n - sp - 1, rank[a]) = n - sp
      BY <1>2 DEF EdgesOf
    <2> QED BY <1>5, <2>1, <2>2
  <1>18. /\ l[a].kvs = SubSeq(N[a].kvs, 1, sp) /\ l[b].kvs = SubSeq(N[a].kvs, sp + 2, n)
         /\ Len(l[a].kvs) = sp /\ Len(l[b].kvs) = n - sp - 1
    BY <1>1, <1>4, <1>5, <1>9
  <1>19. \A x \in DOMAIN N : x \notin {a, b} => l[x].kvs = N[x].kvs /\ l[x].edges = N[x].edges
    BY <1>4, <1>9
  <1>20. Table(l) /\ DOMAIN l = DOMAIN N
    BY <1>4, <1>9
  <1> QED BY <1>14, <1>15, <1>16, <1>17, <1>18, <1>19, <1>20 DEF SplitOf

(***************************************************************************)
(* An entry and the node right of it are put into a node with room.         *)
(***************************************************************************)
Shifted(N, a, i, x) == N[x].parent = a /\ N[x].parent_idx > i
InsertOf(N, l, T, a, i, kv, c) ==
  /\ Table(l) /\ DOMAIN l = DOMAIN N
  /\ \A x \in DOMAIN N : x # a => l[x].kvs = N[x].kvs /\ l[x].edges = N[x].edges
  /\ \A x \in DOMAIN N : x \notin T => l[x] = N[x]
  /\ l[a].kvs = InsertAt(N[a].kvs, i + 1, kv) /\ Len(l[a].kvs) = Len(N[a].kvs) + 1
  /\ Len(l[a].edges) = Len(N[a].edges) + 1
  /\ \A j \in 1 .. Len(N[a].edges) + 1 :
       l[a].edges[j] = IF j <= i + 1 THEN N[a].edges[j] ELSE IF j = i + 2 THEN c ELSE N[a].edges[j - 1]
  /\ l[c].parent = a /\ l[c].parent_idx = i + 1
  /\ \A x \in T : x # c =>
       /\ l[x].parent = N[x].parent
       /\ l[x].parent_idx = IF Shifted(N, a, i, x) THEN N[x].parent_idx + 1 ELSE N[x].parent_idx

LEMMA InsertIs ==
  ASSUME NEW N, Table(N), NEW T, NEW tops, NEW rank, Shaped(N, T, tops, rank), NEW a \in T, rank[a] # 0,
         NEW i \in Nat, i <= Len(N[a].kvs), NEW kv \in Pair, NEW c \in tops,
         NEW f, f = InternalInsert(N, a, i, kv, c), NEW l, l = Relinked(f, a, i + 1, Len(f[a].kvs))
  PROVE  InsertOf(N, l, T, a, i, kv, c)
  <1> DEFINE n == Len(N[a].kvs)
             E == N[a].edges
             F == f[a].edges
  <1>1. a \in DOMAIN N /\ T \subseteq DOMAIN N /\ c \in T /\ c \in Nodes /\ N[c].parent = Null /\ a # Null
    BY RecordIs DEF Shaped, Table
  <1>2. N[a].kvs \in Seq(Pair) /\ E \in Seq(Nodes) /\ n \in Nat /\ Len(E) = n + 1
    BY <1>1, RecordIs DEF Shaped, EdgesOf
  <1>3. /\ DOMAIN f = DOMAIN N /\ Table(f)
        /\ \A x \in DOMAIN N : x # a => f[x] = N[x]
        /\ f[a].kvs = InsertAt(N[a].kvs, i + 1, kv) /\ F = InsertAt(E, i + 2, c)
        /\ f[a].parent = N[a].parent /\ f[a].parent_idx = N[a].parent_idx
    BY <1>1, <1>2, FilledIs
  <1>4. Len(f[a].kvs) = n + 1
    <2>1. i + 1 \in 1 .. Len(N[a].kvs) + 1
      BY <1>2
    <2> QED BY <1>2, <1>3, <2>1, InsertAtIs
  <1>5. /\ Len(F) = n + 2
        /\ \A j \in 1 .. n + 2 : F[j] = IF j < i + 2 THEN E[j] ELSE IF j = i + 2 THEN c ELSE E[j - 1]
    <2>1. i + 2 \in 1 .. Len(E) + 1 /\ Len(E) + 1 = n + 2
      BY <1>2
    <2>2. /\ Len(InsertAt(E, i + 2, c)) = Len(E) + 1
          /\ \A j \in 1 .. Len(E) + 1 : InsertAt(E, i + 2, c)[j] = IF j < i + 2 THEN E[j] ELSE IF j = i + 2 THEN c ELSE E[j - 1]
      <3>1. CanInsert(Nodes, E, i + 2, c)
        BY <1>1, <1>2, <2>1 DEF CanInsert
      <3> HIDE DEF E, n, F
      <3>2. InsertedAt(E, i + 2, c)
        BY <3>1, InsertFitted
      <3> QED BY <3>2 DEF InsertedAt
    <2> HIDE DEF E, n, F
    <2> QED BY <1>3, <2>1, <2>2
  <1> HIDE DEF F
  <1>6. ASSUME NEW j \in 1 .. Len(E)
        PROVE  E[j] \in T /\ N[E[j]].parent = a /\ N[E[j]].parent_idx = j - 1 /\ E[j] # c
    <2>1. ChildOK(N, T, rank, a, j)
      BY DEF Shaped
    <2> QED BY <1>1, <2>1 DEF ChildOK
  <1>7. ASSUME NEW k \in i + 1 .. n + 1
        PROVE  /\ k = i + 1 => F[k + 1] = c
               /\ k # i + 1 => F[k + 1] = E[k] /\ k \in 1 .. Len(E)
    <2>1. k + 1 \in 1 .. n + 2 /\ k + 1 - 1 = k /\ ~(k + 1 < i + 2) /\ (k + 1 = i + 2 <=> k = i + 1)
      BY <1>2
    <2> QED BY <1>2, <1>5, <2>1
  <1>8. \A j, k \in i + 1 .. n + 1 : F[j + 1] = F[k + 1] => j = k
    <2> SUFFICES ASSUME NEW j \in i + 1 .. n + 1, NEW k \in i + 1 .. n + 1, F[j + 1] = F[k + 1], j # k PROVE FALSE
      OBVIOUS
    <2>1. CASE j = i + 1
      <3>1. F[j + 1] = c /\ F[k + 1] = E[k] /\ k \in 1 .. Len(E)
        BY <1>7, <2>1
      <3> QED BY <1>6, <3>1
    <2>2. CASE k = i + 1
      <3>1. F[k + 1] = c /\ F[j + 1] = E[j] /\ j \in 1 .. Len(E)
        BY <1>7, <2>2
      <3> QED BY <1>6, <3>1
    <2>3. CASE j # i + 1 /\ k # i + 1
      <3>1. F[k + 1] = E[k] /\ k \in 1 .. Len(E) /\ F[j + 1] = E[j] /\ j \in 1 .. Len(E)
        BY <1>7, <2>3
      <3> QED BY <3>1, OneEdgeEach
    <2> QED BY <2>1, <2>2, <2>3
  <1>9. /\ DOMAIN l = DOMAIN f /\ Table(l)
        /\ \A x \in DOMAIN f : l[x].kvs = f[x].kvs /\ l[x].edges = f[x].edges
        /\ \A x \in DOMAIN f : (\A k \in i + 1 .. n + 1 : F[k + 1] # x) => l[x] = f[x]
        /\ \A k \in i + 1 .. n + 1 : F[k + 1] \in DOMAIN f =>
             l[F[k + 1]].parent = a /\ l[F[k + 1]].parent_idx = k
    <2>1. l = Relinked(f, a, i + 1, n + 1) /\ n + 1 < Len(F) /\ i + 1 \in Nat /\ n + 1 \in Int
      BY <1>2, <1>4, <1>5
    <2>2. Table(f) /\ a \in DOMAIN f
      BY <1>1, <1>3
    <2>3. Apart(f, a, i + 1, n + 1)
      BY <1>8 DEF F, Apart
    <2> HIDE DEF E, n
    <2>4. RelinkOf(f, l, a, i + 1, n + 1)
      BY <2>1, <2>2, <2>3, RelinkedIs DEF F
    <2> QED BY <2>4 DEF RelinkOf, F
  <1>10. l[c].parent = a /\ l[c].parent_idx = i + 1
    <2>1. i + 1 \in i + 1 .. n + 1 /\ F[i + 1 + 1] = c
      BY <1>2, <1>7
    <2> QED BY <1>1, <1>3, <1>9, <2>1
  <1>11. ASSUME NEW x \in T, x # c, Shifted(N, a, i, x)
         PROVE  l[x].parent = a /\ l[x].parent_idx = N[x].parent_idx + 1
    <2> DEFINE k == N[x].parent_idx + 1
    <2>1. N[x].parent_idx \in Nat /\ x \in DOMAIN N
      BY <1>1, RecordIs
    <2>2. Hangs(N, T, x) /\ N[x].parent = a /\ N[x].parent_idx > i
      BY <1>1, <1>11 DEF Shaped, Shifted
    <2>3. k \in 1 .. Len(E) /\ E[k] = x
      BY <2>2 DEF Hangs
    <2>4. k \in i + 1 .. n + 1 /\ k # i + 1
      BY <1>2, <2>1, <2>2, <2>3
    <2>5. F[k + 1] = x
      BY <1>7, <2>3, <2>4
    <2>6. x \in DOMAIN f
      BY <1>3, <2>1
    <2> HIDE DEF k
    <2>7. l[x].parent = a /\ l[x].parent_idx = k
      BY <1>9, <2>4, <2>5, <2>6
    <2> QED BY <2>7 DEF k
  <1>12. ASSUME NEW x \in T, x # c, ~Shifted(N, a, i, x) PROVE l[x] = f[x]
    <2>1. ASSUME NEW k \in i + 1 .. n + 1, F[k + 1] = x PROVE FALSE
      <3>1. k # i + 1 /\ x = E[k] /\ k \in 1 .. Len(E)
        BY <1>7, <1>12, <2>1
      <3>2. N[x].parent = a /\ N[x].parent_idx = k - 1
        BY <1>6, <3>1
      <3>3. k - 1 > i
        BY <1>2, <3>1
      <3> QED BY <1>12, <3>2, <3>3 DEF Shifted
    <2> QED BY <1>1, <1>3, <1>9, <2>1
  <1>13. ASSUME NEW x \in T, x # c
         PROVE  /\ l[x].parent = N[x].parent
                /\ l[x].parent_idx = IF Shifted(N, a, i, x) THEN N[x].parent_idx + 1 ELSE N[x].parent_idx
    <2>1. CASE Shifted(N, a, i, x)
      <3>1. N[x].parent = a
        BY <2>1 DEF Shifted
      <3> QED BY <1>11, <1>13, <2>1, <3>1
    <2>2. CASE ~Shifted(N, a, i, x)
      <3>1. l[x] = f[x] /\ x \in DOMAIN N
        BY <1>1, <1>12, <1>13, <2>2
      <3>2. f[x].parent = N[x].parent /\ f[x].parent_idx = N[x].parent_idx
        BY <1>3, <3>1
      <3> QED BY <2>2, <3>1, <3>2
    <2> QED BY <2>1, <2>2
  <1>14. ASSUME NEW x \in DOMAIN N, x \notin T PROVE l[x] = N[x]
    <2>1. ASSUME NEW k \in i + 1 .. n + 1, F[k + 1] = x PROVE FALSE
      BY <1>1, <1>6, <1>7, <1>14, <2>1
    <2> QED BY <1>3, <1>9, <1>14, <2>1
  <1>15. /\ \A x \in DOMAIN N : x # a => l[x].kvs = N[x].kvs /\ l[x].edges = N[x].edges
         /\ l[a].kvs = InsertAt(N[a].kvs, i + 1, kv) /\ Len(l[a].kvs) = n + 1 /\ l[a].edges = F
    BY <1>1, <1>3, <1>4, <1>9 DEF F
  <1>16. \A j \in 1 .. Len(E) + 1 : F[j] = IF j <= i + 1 THEN E[j] ELSE IF j = i + 2 THEN c ELSE E[j - 1]
    <2> SUFFICES ASSUME NEW j \in 1 .. n + 2 PROVE F[j] = IF j <= i + 1 THEN E[j] ELSE IF j = i + 2 THEN c ELSE E[j - 1]
      BY <1>2
    <2>1. j < i + 2 <=> j <= i + 1
      BY <1>2
    <2> QED BY <1>5, <2>1
  <1>17. Len(F) = Len(E) + 1
    BY <1>2, <1>5
  <1> QED BY <1>3, <1>9, <1>10, <1>13, <1>14, <1>15, <1>16, <1>17 DEF InsertOf

LEMMA InsertShape ==
  ASSUME NEW N, Table(N), NEW T, NEW tops, NEW rank, Shaped(N, T, tops, rank), NEW a \in T, rank[a] # 0,
         NEW i \in Nat, i <= Len(N[a].kvs), NEW kv, NEW c \in tops, rank[c] = rank[a] - 1,
         NEW l, InsertOf(N, l, T, a, i, kv, c)
  PROVE  Shaped(l, T, tops \ {c}, rank)
  <1> DEFINE n == Len(N[a].kvs)
             E == N[a].edges
  <1>1. /\ T \subseteq DOMAIN N /\ tops \subseteq T /\ rank \in [T -> Nat] /\ a \in DOMAIN N /\ c \in T /\ a # c
        /\ \A x \in T : Len(N[x].edges) = EdgesOf(Len(N[x].kvs), rank[x])
        /\ \A x \in T : \A j \in 1 .. Len(N[x].edges) : ChildOK(N, T, rank, x, j)
        /\ \A x \in tops : N[x].parent = Null
        /\ \A x \in T : x \notin tops => Hangs(N, T, x)
    BY DEF Shaped
  <1>2. \A x \in DOMAIN N : Len(N[x].kvs) \in Nat /\ Len(N[x].edges) \in Nat /\ N[x].parent_idx \in Nat /\ x # Null
    BY RecordIs
  <1>3. n \in Nat /\ Len(E) = n + 1
    BY <1>1, <1>2 DEF EdgesOf
  <1>4. ASSUME NEW x \in T PROVE Len(l[x].edges) = EdgesOf(Len(l[x].kvs), rank[x])
    <2>1. CASE x = a
      BY <1>3, <2>1 DEF InsertOf, EdgesOf
    <2>2. CASE x # a
      BY <1>1, <2>2 DEF InsertOf
    <2> QED BY <2>1, <2>2
  <1>5. ASSUME NEW x \in T, NEW j \in 1 .. Len(N[x].edges)
        PROVE  /\ N[x].edges[j] \in T /\ N[x].edges[j] # c /\ rank[N[x].edges[j]] = rank[x] - 1
               /\ N[N[x].edges[j]].parent = x /\ N[N[x].edges[j]].parent_idx = j - 1
    <2>1. ChildOK(N, T, rank, x, j)
      BY <1>1
    <2> QED BY <1>1, <1>2, <2>1 DEF ChildOK
  <1>6. ASSUME NEW x \in T, NEW j \in 1 .. Len(l[x].edges) PROVE ChildOK(l, T, rank, x, j)
    <2>1. CASE x # a
      <3> DEFINE d == N[x].edges[j]
      <3>1. l[x].edges = N[x].edges
        BY <1>1, <2>1 DEF InsertOf
      <3>2. j \in 1 .. Len(N[x].edges)
        BY <1>6, <3>1
      <3>3. d \in T /\ d # c /\ rank[d] = rank[x] - 1 /\ N[d].parent = x /\ N[d].parent_idx = j - 1
        BY <1>5, <3>2
      <3>4. l[d].parent = x /\ l[d].parent_idx = j - 1
        BY <2>1, <3>3 DEF InsertOf, Shifted
      <3> QED BY <3>1, <3>3, <3>4 DEF ChildOK
    <2>2. CASE x = a
      <3>1. j \in 1 .. Len(E) + 1 /\ j \in 1 .. n + 2
        BY <1>3, <1>6, <2>2 DEF InsertOf
      <3>2. CASE j <= i + 1
        <4> DEFINE d == E[j]
        <4>1. l[a].edges[j] = d /\ j \in 1 .. Len(E)
          BY <1>3, <3>1, <3>2 DEF InsertOf
        <4>2. d \in T /\ d # c /\ rank[d] = rank[a] - 1 /\ N[d].parent = a /\ N[d].parent_idx = j - 1
          BY <1>5, <4>1
        <4>3. ~Shifted(N, a, i, d)
          BY <3>1, <3>2, <4>2 DEF Shifted
        <4>4. l[d].parent = a /\ l[d].parent_idx = j - 1
          BY <4>2, <4>3 DEF InsertOf
        <4> HIDE DEF d
        <4> QED BY <2>2, <4>1, <4>2, <4>4 DEF ChildOK
      <3>3. CASE j = i + 2
        <4>1. l[a].edges[j] = c
          BY <3>1, <3>3 DEF InsertOf
        <4>2. l[c].parent = a /\ l[c].parent_idx = j - 1
          BY <3>3 DEF InsertOf
        <4> QED BY <1>1, <2>2, <4>1, <4>2 DEF ChildOK
      <3>4. CASE j > i + 2
        <4> DEFINE d == E[j - 1]
        <4>1. l[a].edges[j] = d /\ j - 1 \in 1 .. Len(E)
          BY <1>3, <3>1, <3>4 DEF InsertOf
        <4>2. d \in T /\ d # c /\ rank[d] = rank[a] - 1 /\ N[d].parent = a /\ N[d].parent_idx = j - 1 - 1
          BY <1>5, <4>1
        <4>3. Shifted(N, a, i, d)
          BY <3>1, <3>4, <4>2 DEF Shifted
        <4>4. j - 1 - 1 + 1 = j - 1
          BY <3>1
        <4> HIDE DEF d
        <4>5. l[d].parent = N[d].parent /\ l[d].parent_idx = N[d].parent_idx + 1
          BY <4>2, <4>3 DEF InsertOf
        <4> QED BY <2>2, <4>1, <4>2, <4>4, <4>5 DEF ChildOK
      <3> QED BY <3>1, <3>2, <3>3, <3>4
    <2> QED BY <2>1, <2>2
  <1>7. ASSUME NEW x \in tops \ {c} PROVE l[x].parent = Null
    BY <1>1, <1>7 DEF InsertOf
  <1>8. ASSUME NEW x \in T, x \notin tops \ {c} PROVE Hangs(l, T, x)
    <2>1. CASE x = c
      <3>1. l[c].parent = a /\ l[c].parent_idx = i + 1 /\ i + 1 + 1 = i + 2 /\ i + 2 \in 1 .. n + 2
        BY <1>3 DEF InsertOf
      <3>2. l[a].edges[i + 2] = c /\ Len(l[a].edges) = n + 2
        BY <1>3, <3>1 DEF InsertOf
      <3> QED BY <2>1, <3>1, <3>2 DEF Hangs
    <2>2. CASE x # c
      <3> DEFINE p == N[x].parent
                 j == N[x].parent_idx
      <3>1. p \in T /\ j + 1 \in 1 .. Len(N[p].edges) /\ N[p].edges[j + 1] = x /\ j \in Nat
        BY <1>1, <1>2, <1>8, <2>2 DEF Hangs
      <3>2. l[x].parent = p /\ l[x].parent_idx = IF Shifted(N, a, i, x) THEN j + 1 ELSE j
        BY <2>2 DEF InsertOf
      <3>3. CASE p # a
        <4>1. ~Shifted(N, a, i, x) /\ l[p].edges = N[p].edges
          BY <1>1, <3>1, <3>3 DEF Shifted, InsertOf
        <4> QED BY <3>1, <3>2, <4>1 DEF Hangs
      <3>4. CASE p = a /\ j > i
        <4>0. Shifted(N, a, i, x)
          BY <3>4 DEF Shifted
        <4>1. Shifted(N, a, i, x) /\ j + 2 \in 1 .. Len(E) + 1 /\ ~(j + 2 <= i + 1) /\ j + 2 # i + 2 /\ j + 2 - 1 = j + 1
          <5>1. j \in Nat /\ j > i /\ j + 1 <= Len(E)
            BY <3>1, <3>4
          <5> HIDE DEF j
          <5> QED BY <1>3, <4>0, <5>1
        <4> DEFINE q == j + 2
        <4>4. q \in 1 .. Len(E) + 1 /\ ~(q <= i + 1) /\ q # i + 2 /\ E[q - 1] = x
          <5>1. E[j + 1] = x /\ j \in Nat
            BY <3>1, <3>4
          <5>2. q \in 1 .. Len(E) + 1 /\ ~(q <= i + 1) /\ q # i + 2
            BY <4>1
          <5>3. q - 1 = j + 1
            BY <5>1
          <5> HIDE DEF E, j, q
          <5> QED BY <5>1, <5>2, <5>3
        <4> HIDE DEF q
        <4>5. l[a].edges[q] = x /\ q \in 1 .. Len(l[a].edges)
          BY <4>4 DEF InsertOf
        <4>2. l[a].edges[j + 2] = x /\ j + 2 \in 1 .. Len(l[a].edges)
          BY <4>5 DEF q
        <4>3. j + 1 + 1 = j + 2
          BY <3>1
        <4> QED BY <3>2, <3>4, <4>1, <4>2, <4>3 DEF Hangs
      <3>5. CASE p = a /\ ~(j > i)
        <4>1. ~Shifted(N, a, i, x) /\ j + 1 \in 1 .. Len(E) + 1 /\ j + 1 <= i + 1
          BY <1>3, <3>1, <3>5 DEF Shifted
        <4>2. l[a].edges[j + 1] = x /\ j + 1 \in 1 .. Len(l[a].edges)
          BY <3>1, <3>5, <4>1 DEF InsertOf
        <4> QED BY <3>2, <3>5, <4>1, <4>2 DEF Hangs
      <3> QED BY <3>3, <3>4, <3>5
    <2> QED BY <2>1, <2>2
  <1> QED BY <1>1, <1>4, <1>6, <1>7, <1>8 DEF Shaped, InsertOf

\* What is at the edges matters, what entries there are does not.
LEMMA SameShape ==
  ASSUME NEW N, NEW T, NEW tops, NEW rank, Shaped(N, T, tops, rank),
         NEW l, T \subseteq DOMAIN l,
         \A x \in T : l[x].edges = N[x].edges /\ l[x].parent = N[x].parent /\ l[x].parent_idx = N[x].parent_idx,
         \A x \in T : rank[x] = 0 \/ Len(l[x].kvs) = Len(N[x].kvs)
  PROVE  Shaped(l, T, tops, rank)
  <1>1. \A x \in T : Len(l[x].edges) = EdgesOf(Len(l[x].kvs), rank[x])
    BY DEF Shaped, EdgesOf
  <1>2. ASSUME NEW x \in T, NEW i \in 1 .. Len(l[x].edges) PROVE ChildOK(l, T, rank, x, i)
    <2>1. ChildOK(N, T, rank, x, i)
      BY <1>2 DEF Shaped
    <2> QED BY <2>1 DEF ChildOK
  <1>3. ASSUME NEW x \in T, x \notin tops PROVE Hangs(l, T, x)
    <2>1. Hangs(N, T, x)
      BY <1>3 DEF Shaped
    <2> QED BY <2>1 DEF Hangs
  <1>4. \A x \in tops : l[x].parent = Null
    BY DEF Shaped
  <1>5. tops \subseteq T /\ rank \in [T -> Nat]
    BY DEF Shaped
  <1> QED BY <1>1, <1>2, <1>3, <1>4, <1>5 DEF Shaped

(***************************************************************************)
(* Depths and ranks: a node at depth d of a tree of height h has rank h -   *)
(* d.                                                                       *)
(***************************************************************************)
Under(N, S) == UNION {ToSet(N[a].edges) : a \in S}
LevelAt(N, top, at, n) == IF n = 0 THEN {top} ELSE Under(N, at[n - 1])
Levels(N, top, h, at) == at = [n \in 0 .. h |-> LevelAt(N, top, at, n)]

LEMMA LevelsExist == ASSUME NEW N, NEW top PROVE \A h \in Nat : \E at : Levels(N, top, h, at)
  <1> DEFINE S == {h \in Nat : \E at : Levels(N, top, h, at)}
  <1>1. 0 \in S
    <2>1. Levels(N, top, 0, [i \in 0 .. 0 |-> {top}])
      BY DEF Levels, LevelAt
    <2> QED BY <2>1
  <1>2. ASSUME NEW h \in Nat, h \in S PROVE h + 1 \in S
    <2>1. PICK at : Levels(N, top, h, at)
      BY <1>2
    <2> DEFINE next == [i \in 0 .. h + 1 |-> IF i = h + 1 THEN Under(N, at[h]) ELSE at[i]]
    <2>2. Levels(N, top, h + 1, next)
      <3>0. \A i \in 0 .. h : at[i] = LevelAt(N, top, at, i)
        BY <2>1 DEF Levels
      <3>1. ASSUME NEW i \in 0 .. h + 1 PROVE next[i] = LevelAt(N, top, next, i)
        <4>1. CASE i = h + 1
          <5>1. next[i] = Under(N, at[h]) /\ i # 0 /\ next[i - 1] = at[h]
            BY <4>1
          <5> QED BY <5>1 DEF LevelAt
        <4>2. CASE i # h + 1
          <5>1. i # 0 => next[i - 1] = at[i - 1]
            BY <4>2
          <5>2. next[i] = at[i] /\ at[i] = LevelAt(N, top, at, i)
            BY <3>0, <4>2
          <5> HIDE DEF next
          <5> QED BY <5>1, <5>2 DEF LevelAt
        <4> QED BY <4>1, <4>2
      <3> HIDE DEF next
      <3>2. next = [i \in 0 .. h + 1 |-> next[i]]
        BY DEF next
      <3> QED BY <3>1, <3>2 DEF Levels
    <2> QED BY <2>2
  <1> HIDE DEF S
  <1>3. Nat \subseteq S
    BY <1>1, <1>2, Counting
  <1> QED BY <1>3 DEF S

LEMMA DepthIs ==
  ASSUME NEW N, NEW top, NEW h \in Nat
  PROVE  /\ Depth(N, top, h, 0) = {top}
         /\ \A d \in 0 .. h : d # 0 => Depth(N, top, h, d) = Under(N, Depth(N, top, h, d - 1))
  <1> DEFINE at == CHOOSE at : Levels(N, top, h, at)
  <1>1. Levels(N, top, h, at)
    BY LevelsExist
  <1>2. \A d \in 0 .. h : Depth(N, top, h, d) = at[d]
    BY DEF Depth, Levels, LevelAt, Under
  <1> HIDE DEF at
  <1>3. at[0] = {top} /\ \A d \in 0 .. h : d # 0 => at[d] = Under(N, at[d - 1])
    <2>1. \A d \in 0 .. h : at[d] = LevelAt(N, top, at, d)
      BY <1>1 DEF Levels
    <2> QED BY <2>1 DEF LevelAt
  <1>4. \A d \in 0 .. h : d # 0 => d - 1 \in 0 .. h
    OBVIOUS
  <1> QED BY <1>2, <1>3, <1>4

Sized(N, T, top) == \A a \in T : Len(N[a].kvs) <= CAPACITY /\ (a # top => Len(N[a].kvs) >= B - 1)

\* The nodes T are a tree under top, with a part under each of tops not yet joined.
Grown(N, T, tops, top, h, rank) ==
  /\ rank \in [T -> 0 .. h] /\ Shaped(N, T, tops, rank) /\ Sized(N, T, top)
  /\ IF top = Null THEN T = {} ELSE top \in tops /\ rank[top] = h

\* The nodes at depth d are those of rank h - d.
LEMMA DepthRank ==
  ASSUME NEW N, Table(N), NEW T, NEW top, top # Null, NEW h \in Nat, NEW rank, Grown(N, T, {top}, top, h, rank)
  PROVE  \A d \in 0 .. h : Depth(N, top, h, d) = {a \in T : rank[a] = h - d}
  <1>0. rank \in [T -> 0 .. h] /\ Shaped(N, T, {top}, rank) /\ rank[top] = h /\ Sized(N, T, top)
    BY DEF Grown
  <1> USE <1>0
  <1> DEFINE At(d) == {a \in T : rank[a] = h - d}
             D(d) == Depth(N, top, h, d)
  <1>1. /\ T \subseteq DOMAIN N /\ top \in T /\ N[top].parent = Null
        /\ \A x \in T : Len(N[x].edges) = EdgesOf(Len(N[x].kvs), rank[x])
        /\ \A x \in T : \A j \in 1 .. Len(N[x].edges) : ChildOK(N, T, rank, x, j)
        /\ \A x \in T : x # top => Hangs(N, T, x)
    BY <1>0 DEF Shaped
  <1>2. \A x \in DOMAIN N : N[x].edges \in Seq(Nodes) /\ Len(N[x].kvs) \in Nat /\ N[x].parent_idx \in Nat /\ x # Null
    BY RecordIs
  <1>3. ASSUME NEW x \in T, x # top
        PROVE  N[x].parent \in T /\ rank[N[x].parent] = rank[x] + 1 /\ x \in ToSet(N[N[x].parent].edges)
    <2> DEFINE p == N[x].parent
               j == N[x].parent_idx + 1
    <2>1. p \in T /\ j \in 1 .. Len(N[p].edges) /\ N[p].edges[j] = x
      BY <1>1, <1>3 DEF Hangs
    <2>2. ChildOK(N, T, rank, p, j)
      BY <1>1, <2>1
    <2>3. rank[x] = rank[p] - 1
      BY <2>1, <2>2 DEF ChildOK
    <2>4. N[p].edges \in Seq(Nodes)
      BY <1>1, <1>2, <2>1
    <2> HIDE DEF j, p
    <2>5. x \in ToSet(N[p].edges)
      BY <2>1, <2>4 DEF ToSet
    <2>6. rank[p] = rank[x] + 1
      BY <2>1, <2>3
    <2> QED BY <2>1, <2>5, <2>6 DEF p
  <1>4. ASSUME NEW x \in T, NEW y \in ToSet(N[x].edges)
        PROVE  y \in T /\ rank[y] = rank[x] - 1
    <2>1. PICK j \in 1 .. Len(N[x].edges) : y = N[x].edges[j]
      <3>1. N[x].edges \in Seq(Nodes)
        BY <1>1, <1>2
      <3> QED BY <3>1 DEF ToSet
    <2>2. ChildOK(N, T, rank, x, j)
      BY <1>1, <2>1
    <2> QED BY <2>1, <2>2 DEF ChildOK
  <1>5. At(0) = {top}
    <2>1. ASSUME NEW x \in T, rank[x] = h, x # top PROVE FALSE
      BY <1>3, <2>1
    <2> QED BY <1>1, <2>1
  <1>6. ASSUME NEW d \in 0 .. h, d # 0 PROVE At(d) = Under(N, At(d - 1))
    <2>1. ASSUME NEW x \in At(d) PROVE x \in Under(N, At(d - 1))
      <3>1. x \in T /\ rank[x] = h - d /\ x # top
        BY <1>6
      <3>2. N[x].parent \in At(d - 1) /\ x \in ToSet(N[N[x].parent].edges)
        BY <1>3, <1>6, <3>1
      <3> HIDE DEF At
      <3> QED BY <3>2 DEF Under
    <2>2. ASSUME NEW x \in Under(N, At(d - 1)) PROVE x \in At(d)
      <3>1. PICK p \in At(d - 1) : x \in ToSet(N[p].edges)
        BY DEF Under
      <3>2. x \in T /\ rank[x] = rank[p] - 1 /\ rank[p] = h - (d - 1)
        BY <1>4, <3>1
      <3> QED BY <1>6, <3>2
    <2> QED BY <2>1, <2>2
  <1>7. D(0) = {top} /\ \A d \in 0 .. h : d # 0 => D(d) = Under(N, D(d - 1))
    BY DepthIs
  <1> HIDE DEF D, At
  <1>8. \A d \in 0 .. h : D(d) = At(d)
    <2> DEFINE S == {d \in Nat : d <= h => D(d) = At(d)}
    <2>1. 0 \in S
      BY <1>5, <1>7
    <2>2. ASSUME NEW d \in Nat, d \in S PROVE d + 1 \in S
      <3> SUFFICES ASSUME d + 1 <= h PROVE D(d + 1) = At(d + 1)
        OBVIOUS
      <3>1. d + 1 \in 0 .. h /\ d + 1 # 0 /\ d + 1 - 1 = d /\ D(d) = At(d)
        BY <2>2
      <3>2. D(d + 1) = Under(N, D(d + 1 - 1)) /\ At(d + 1) = Under(N, At(d + 1 - 1))
        BY <1>6, <1>7, <3>1
      <3> QED BY <3>1, <3>2
    <2> HIDE DEF S
    <2>3. Nat \subseteq S
      BY <2>1, <2>2, Counting
    <2> QED BY <2>3 DEF S
  <1> QED BY <1>8 DEF D, At

LEMMA ShapeTree ==
  ASSUME NEW N, Table(N), NEW T, NEW top, top # Null, NEW h \in Nat, NEW rank, Grown(N, T, {top}, top, h, rank)
  PROVE  IsTree(N, top, h, T)
  <1>0. rank \in [T -> 0 .. h] /\ Shaped(N, T, {top}, rank) /\ rank[top] = h /\ Sized(N, T, top)
    BY DEF Grown
  <1> USE <1>0
  <1> DEFINE At(d) == {a \in T : rank[a] = h - d}
             D(d) == Depth(N, top, h, d)
  <1>1. /\ T \subseteq DOMAIN N /\ top \in T /\ N[top].parent = Null
        /\ \A x \in T : Len(N[x].edges) = EdgesOf(Len(N[x].kvs), rank[x])
        /\ \A x \in T : \A j \in 1 .. Len(N[x].edges) : ChildOK(N, T, rank, x, j)
    BY <1>0 DEF Shaped
  <1>8. \A d \in 0 .. h : D(d) = At(d)
    BY DepthRank
  <1> HIDE DEF D, At
  <1>9. T = UNION {D(d) : d \in 0 .. h}
    <2>1. ASSUME NEW x \in T PROVE \E d \in 0 .. h : x \in D(d)
      <3>1. h - rank[x] \in 0 .. h /\ rank[x] = h - (h - rank[x])
        OBVIOUS
      <3>2. x \in At(h - rank[x])
        BY <3>1 DEF At
      <3> QED BY <1>8, <3>1, <3>2
    <2>2. \A d \in 0 .. h : \A x \in D(d) : x \in T
      BY <1>8 DEF At
    <2> QED BY <2>1, <2>2
  <1>10. ASSUME NEW d \in 0 .. h, NEW a \in D(d)
         PROVE  /\ Len(N[a].kvs) <= CAPACITY /\ (a # top => Len(N[a].kvs) >= B - 1)
                /\ Len(N[a].edges) = IF d = h THEN 0 ELSE Len(N[a].kvs) + 1
                /\ \A i \in 1 .. Len(N[a].edges) :
                     N[N[a].edges[i]].parent = a /\ N[N[a].edges[i]].parent_idx = i - 1
    <2>1. a \in T /\ rank[a] = h - d
      BY <1>8, <1>10 DEF At
    <2>2. Len(N[a].edges) = IF d = h THEN 0 ELSE Len(N[a].kvs) + 1
      BY <1>1, <1>10, <2>1 DEF EdgesOf
    <2> QED BY <1>1, <2>1, <2>2 DEF Sized, ChildOK
  <1> QED BY <1>1, <1>9, <1>10 DEF IsTree, D

LEMMA TreeShape ==
  ASSUME NEW N, Table(N), NEW T, T \subseteq DOMAIN N, NEW top, NEW h \in Nat, IsTree(N, top, h, T)
  PROVE  \E rank : Grown(N, T, {top}, top, h, rank)
  <1> DEFINE D(d) == Depth(N, top, h, d)
  <1>1. D(0) = {top} /\ \A d \in 0 .. h : d # 0 => D(d) = Under(N, D(d - 1))
    BY DepthIs
  <1> HIDE DEF D
  <1>2. /\ T = UNION {D(d) : d \in 0 .. h} /\ N[top].parent = Null
        /\ \A d \in 0 .. h : \A a \in D(d) :
             /\ Len(N[a].kvs) <= CAPACITY /\ (a # top => Len(N[a].kvs) >= B - 1)
             /\ Len(N[a].edges) = IF d = h THEN 0 ELSE Len(N[a].kvs) + 1
             /\ \A i \in 1 .. Len(N[a].edges) :
                  N[N[a].edges[i]].parent = a /\ N[N[a].edges[i]].parent_idx = i - 1
    BY DEF IsTree, D
  <1>3. \A x \in DOMAIN N : N[x].edges \in Seq(Nodes) /\ Len(N[x].kvs) \in Nat /\ N[x].parent_idx \in Nat /\ x # Null
    BY RecordIs
  <1>4. \A d \in 0 .. h : D(d) \subseteq T
    BY <1>2
  <1>5. ASSUME NEW d \in 0 .. h, d # 0, NEW x \in D(d)
        PROVE  /\ N[x].parent \in D(d - 1) /\ N[x].parent_idx + 1 \in 1 .. Len(N[N[x].parent].edges)
               /\ N[N[x].parent].edges[N[x].parent_idx + 1] = x
    <2>1. d - 1 \in 0 .. h /\ D(d) = Under(N, D(d - 1))
      BY <1>1, <1>5
    <2>2. PICK p \in D(d - 1) : x \in ToSet(N[p].edges)
      BY <2>1 DEF Under
    <2>3. p \in T
      BY <1>4, <2>1, <2>2
    <2>4. PICK i \in 1 .. Len(N[p].edges) : x = N[p].edges[i]
      BY <1>3, <2>2, <2>3 DEF ToSet
    <2>5. N[x].parent = p /\ N[x].parent_idx = i - 1
      BY <1>2, <2>1, <2>2, <2>4
    <2>6. N[x].parent_idx + 1 = i
      BY <2>5
    <2> QED BY <2>2, <2>4, <2>5, <2>6
  \* No node is at two depths: its parent would be, up to the root, which has none.
  <1>6. \A d \in 0 .. h : \A e \in 0 .. h : d < e => D(d) \cap D(e) = {}
    <2> DEFINE S == {d \in Nat : d <= h => \A e \in 0 .. h : d < e => D(d) \cap D(e) = {}}
    <2>1. 0 \in S
      <3> SUFFICES ASSUME NEW e \in 0 .. h, 0 < e, top \in D(e) PROVE FALSE
        BY <1>1
      <3>1. N[top].parent \in D(e - 1) /\ e - 1 \in 0 .. h
        BY <1>5
      <3>2. N[top].parent \in T
        BY <1>4, <3>1
      <3> QED BY <1>2, <1>3, <3>2
    <2>2. ASSUME NEW d \in Nat, d \in S PROVE d + 1 \in S
      <3> SUFFICES ASSUME d + 1 <= h, NEW e \in 0 .. h, d + 1 < e, NEW x \in D(d + 1), x \in D(e) PROVE FALSE
        OBVIOUS
      <3>1. d + 1 \in 0 .. h /\ d + 1 # 0 /\ d + 1 - 1 = d /\ e # 0 /\ e - 1 \in 0 .. h /\ d < e - 1
        OBVIOUS
      <3>2. N[x].parent \in D(d) /\ N[x].parent \in D(e - 1)
        BY <1>5, <3>1
      <3>3. D(d) \cap D(e - 1) = {}
        BY <2>2, <3>1
      <3> QED BY <3>2, <3>3
    <2> HIDE DEF S
    <2>3. Nat \subseteq S
      BY <2>1, <2>2, Counting
    <2> QED BY <2>3 DEF S
  <1> DEFINE rank == [a \in T |-> h - (CHOOSE d \in 0 .. h : a \in D(d))]
  <1>7. \A d \in 0 .. h : \A a \in D(d) : a \in T /\ rank[a] = h - d
    <2> SUFFICES ASSUME NEW d \in 0 .. h, NEW a \in D(d) PROVE a \in T /\ rank[a] = h - d
      OBVIOUS
    <2> DEFINE e == CHOOSE e \in 0 .. h : a \in D(e)
    <2>1. a \in T /\ e \in 0 .. h /\ a \in D(e) /\ rank[a] = h - e
      BY <1>4
    <2> HIDE DEF e, rank
    <2>2. ~(d < e) /\ ~(e < d)
      BY <1>6, <2>1
    <2>3. d = e
      BY <2>1, <2>2
    <2> QED BY <2>1, <2>3
  <1>8. rank \in [T -> 0 .. h]
    <2>1. \A a \in T : (CHOOSE d \in 0 .. h : a \in D(d)) \in 0 .. h
      BY <1>2
    <2>2. \A a \in T : h - (CHOOSE d \in 0 .. h : a \in D(d)) \in 0 .. h
      <3> SUFFICES ASSUME NEW a \in T, NEW d \in 0 .. h PROVE h - d \in 0 .. h
        BY <2>1
      <3> QED OBVIOUS
    <2> QED BY <2>2
  <1> HIDE DEF rank
  <1>9. \A a \in T : \E d \in 0 .. h : a \in D(d)
    BY <1>2
  <1>10. top \in T /\ rank[top] = h
    BY <1>1, <1>7
  <1>11. Sized(N, T, top)
    BY <1>2, <1>9 DEF Sized
  <1>12. ASSUME NEW a \in T PROVE Len(N[a].edges) = EdgesOf(Len(N[a].kvs), rank[a])
    <2>1. PICK d \in 0 .. h : a \in D(d)
      BY <1>9
    <2> QED BY <1>2, <1>7, <2>1 DEF EdgesOf
  <1>13. ASSUME NEW a \in T, NEW i \in 1 .. Len(N[a].edges) PROVE ChildOK(N, T, rank, a, i)
    <2>1. PICK d \in 0 .. h : a \in D(d)
      BY <1>9
    <2> DEFINE c == N[a].edges[i]
    <2>2. N[c].parent = a /\ N[c].parent_idx = i - 1
      BY <1>2, <2>1
    <2>3. d # h
      BY <1>2, <2>1
    <2>4. d + 1 \in 0 .. h /\ d + 1 # 0 /\ d + 1 - 1 = d
      BY <2>3
    <2>5. c \in ToSet(N[a].edges)
      BY <1>3 DEF ToSet
    <2> HIDE DEF c
    <2>6. c \in D(d + 1)
      BY <1>1, <2>1, <2>4, <2>5 DEF Under
    <2>7. c \in T /\ rank[c] = h - (d + 1) /\ rank[a] = h - d
      BY <1>7, <2>1, <2>4, <2>6
    <2>8. rank[c] = rank[a] - 1
      BY <2>7
    <2> QED BY <2>2, <2>7, <2>8 DEF ChildOK, c
  <1>14. ASSUME NEW a \in T, a # top PROVE Hangs(N, T, a)
    <2>1. PICK d \in 0 .. h : a \in D(d)
      BY <1>9
    <2>2. d # 0
      BY <1>1, <1>14, <2>1
    <2>3. N[a].parent \in T
      BY <1>4, <1>5, <2>1, <2>2
    <2> QED BY <1>5, <2>1, <2>2, <2>3 DEF Hangs
  <1>15. rank \in [T -> Nat]
    BY <1>8
  <1>16. Shaped(N, T, {top}, rank)
    BY <1>2, <1>10, <1>12, <1>13, <1>14, <1>15 DEF Shaped
  <1>17. top # Null
    BY <1>3, <1>10
  <1> QED BY <1>8, <1>10, <1>11, <1>16, <1>17 DEF Grown

(***************************************************************************)
(* A tree under top, and the nodes not yet joined to it: one step of a      *)
(* split.                                                                   *)
(***************************************************************************)
LEMMA GrownSame ==
  ASSUME NEW N, NEW T, NEW tops, NEW top, NEW h, NEW rank, Grown(N, T, tops, top, h, rank),
         NEW l, T \subseteq DOMAIN l, \A x \in T : l[x] = N[x]
  PROVE  Grown(l, T, tops, top, h, rank)
  <1>1. Shaped(l, T, tops, rank)
    BY SameShape DEF Grown
  <1> QED BY <1>1 DEF Grown, Sized

\* A node as high as the tree is at the top of it.
LEMMA HighestIs ==
  ASSUME NEW N, Table(N), NEW T, NEW tops, NEW top, NEW h \in Nat, NEW rank, Grown(N, T, tops, top, h, rank),
         NEW a \in T, rank[a] = h
  PROVE  a \in tops
  <1> SUFFICES ASSUME a \notin tops PROVE FALSE
    OBVIOUS
  <1> DEFINE p == N[a].parent
             j == N[a].parent_idx + 1
  <1>1. p \in T /\ j \in 1 .. Len(N[p].edges) /\ N[p].edges[j] = a
    BY DEF Grown, Shaped, Hangs
  <1>2. ChildOK(N, T, rank, p, j)
    BY <1>1 DEF Grown, Shaped
  <1>3. rank[a] = rank[p] - 1 /\ rank[p] \in 0 .. h
    BY <1>1, <1>2 DEF Grown, ChildOK
  <1> QED BY <1>3

Split(N, p, T, a, b) ==
  /\ Table(p) /\ DOMAIN p = DOMAIN N
  /\ \A x \in DOMAIN N : x \notin T \union {b} => p[x] = N[x]
  /\ \A x \in T : x # a => p[x].kvs = N[x].kvs
  /\ Len(p[a].kvs) >= B - 1

LEMMA LeafSplit ==
  ASSUME NEW N, Table(N), NEW T, NEW top, top # Null, NEW h \in Nat, NEW rank, Grown(N, T, {top}, top, h, rank),
         NEW a \in T, rank[a] = 0, Len(N[a].kvs) = CAPACITY, NEW e \in 0 .. CAPACITY,
         NEW b \in DOMAIN N, b \notin T, N[b].parent = Null, NEW kv \in Pair,
         NEW m, m = MoveRightHalf(N, a, b, SplitPoint(e).sp), NEW half, half = IF SplitPoint(e).right THEN b ELSE a,
         NEW p, p = LeafInsert(m, half, SplitPoint(e).idx, kv)
  PROVE  Split(N, p, T, a, b) /\ Grown(p, T \union {b}, {top, b}, top, h, Ranked(rank, T, b, 0))
  <1> DEFINE sp == SplitPoint(e).sp
             i == SplitPoint(e).idx
             r2 == Ranked(rank, T, b, 0)
             T2 == T \union {b}
  <1>1. CAPACITY \in Nat /\ B - 1 \in Nat /\ CAPACITY = 2 * (B - 1) + 1
    BY BAssumption DEF CAPACITY
  <1>2. sp \in Nat /\ sp < CAPACITY /\ RightOf(e) = CAPACITY - sp - 1 /\ RightOf(e) \in 0 .. CAPACITY - 1
    BY <1>1, SplitBalanced DEF LeftOf, RightOf
  <1>3. /\ SplitPoint(e).right => i \in 0 .. RightOf(e) /\ sp >= B - 1 /\ RightOf(e) + 1 >= B - 1
        /\ ~SplitPoint(e).right => i \in 0 .. sp /\ sp + 1 >= B - 1 /\ RightOf(e) >= B - 1
    BY SplitBalanced, SplitKeepsPlace DEF LeftOf
  <1>4. Shaped(N, T, {top}, rank) /\ rank \in [T -> 0 .. h] /\ Sized(N, T, top) /\ rank[top] = h /\ top \in T
    BY DEF Grown, Shaped
  <1>5. SplitOf(N, m, T, rank, a, b, sp)
    <2> HIDE DEF sp
    <2>1. sp < Len(N[a].kvs) /\ m = MoveRightHalf(N, a, b, sp)
      BY <1>2 DEF sp
    <2> QED BY <1>2, <1>4, <2>1, SplitLeafIs
  <1>6. Shaped(m, T2, {top, b}, r2)
    <2> HIDE DEF sp
    <2>1. sp < Len(N[a].kvs)
      BY <1>2
    <2>2. Shaped(m, T \union {b}, {top} \union {b}, Ranked(rank, T, b, rank[a]))
      BY <1>2, <1>4, <1>5, <2>1, SplitShape
    <2>3. {top} \union {b} = {top, b}
      OBVIOUS
    <2> QED BY <2>2, <2>3
  <1>7. /\ Table(m) /\ DOMAIN m = DOMAIN N /\ Len(m[a].kvs) = sp /\ Len(m[b].kvs) = RightOf(e)
        /\ \A x \in T : x # a => m[x].kvs = N[x].kvs
        /\ \A x \in DOMAIN N : x \notin T \union {b} => m[x] = N[x]
    <2>1. T \subseteq DOMAIN N
      BY <1>4 DEF Shaped
    <2>2. RightOf(e) = Len(N[a].kvs) - sp - 1
      BY <1>2
    <2> HIDE DEF sp
    <2> QED BY <1>5, <2>1, <2>2 DEF SplitOf
  <1> HIDE DEF sp, i, r2
  <1>8. half \in {a, b} /\ half \in DOMAIN m /\ i \in 0 .. Len(m[half].kvs) /\ a # b
    <2>1. a \in DOMAIN N
      BY <1>4 DEF Shaped
    <2> QED BY <1>3, <1>7, <2>1
  <1>9. m[half].kvs \in Seq(Pair) /\ m[half].edges \in Seq(Nodes) /\ i + 1 \in 1 .. Len(m[half].kvs) + 1
    BY <1>7, <1>8, RecordIs
  <1> DEFINE ks == InsertAt(m[half].kvs, i + 1, kv)
  <1>10. ks \in Seq(Pair) /\ Len(ks) = Len(m[half].kvs) + 1
    BY <1>9, InsertAtIs
  <1>11. p = Refilled(m, half, ks, m[half].edges)
    BY DEF LeafInsert, i
  <1> HIDE DEF ks
  <1>12. /\ DOMAIN p = DOMAIN m /\ Table(p) /\ \A x \in DOMAIN m : x # half => p[x] = m[x]
         /\ p[half].kvs = ks /\ p[half].edges = m[half].edges
         /\ p[half].parent = m[half].parent /\ p[half].parent_idx = m[half].parent_idx
    BY <1>7, <1>8, <1>9, <1>10, <1>11, RefilledIs
  <1>13. r2 \in [T2 -> 0 .. h] /\ r2[a] = 0 /\ r2[b] = 0 /\ r2[top] = h
    <2>1. r2[a] = 0 /\ r2[b] = 0 /\ r2[top] = h
      BY <1>4, <1>8 DEF r2, Ranked
    <2>2. 0 \in 0 .. h /\ \A x \in T : rank[x] \in 0 .. h
      BY <1>4
    <2> QED BY <2>1, <2>2 DEF r2, Ranked
  <1>14. T2 \subseteq DOMAIN m
    BY <1>6 DEF Shaped
  <1>15. Shaped(p, T2, {top, b}, r2)
    <2>1. \A x \in T2 : p[x].edges = m[x].edges /\ p[x].parent = m[x].parent /\ p[x].parent_idx = m[x].parent_idx
      BY <1>12, <1>14
    <2>2. \A x \in T2 : r2[x] = 0 \/ Len(p[x].kvs) = Len(m[x].kvs)
      BY <1>8, <1>12, <1>13, <1>14
    <2>3. T2 \subseteq DOMAIN p
      BY <1>12, <1>14
    <2> HIDE DEF T2
    <2> QED BY <1>6, <2>1, <2>2, <2>3, SameShape
  <1>16. Len(p[a].kvs) <= CAPACITY /\ Len(p[a].kvs) >= B - 1 /\ Len(p[b].kvs) <= CAPACITY /\ Len(p[b].kvs) >= B - 1
    <2>1. a \in DOMAIN m
      BY <1>14
    <2>2. CASE SplitPoint(e).right
      <3>1. Len(p[b].kvs) = RightOf(e) + 1 /\ Len(p[a].kvs) = sp
        BY <1>7, <1>8, <1>10, <1>12, <2>1, <2>2
      <3>2. sp >= B - 1 /\ RightOf(e) + 1 >= B - 1
        BY <1>3, <2>2
      <3>3. sp <= CAPACITY /\ RightOf(e) + 1 <= CAPACITY
        <4>1. CAPACITY \in Nat /\ sp \in Nat /\ sp < CAPACITY
          BY <1>1, <1>2
        <4>2. RightOf(e) \in Nat /\ RightOf(e) < CAPACITY
          BY <1>1, <1>2
        <4> QED BY <4>1, <4>2
      <3> QED BY <3>1, <3>2, <3>3
    <2>3. CASE ~SplitPoint(e).right
      <3>1. Len(p[b].kvs) = RightOf(e) /\ Len(p[a].kvs) = sp + 1
        BY <1>7, <1>8, <1>10, <1>12, <2>1, <2>3
      <3>2. sp + 1 >= B - 1 /\ RightOf(e) >= B - 1
        BY <1>3, <2>3
      <3>3. sp + 1 <= CAPACITY /\ RightOf(e) <= CAPACITY
        <4>1. CAPACITY \in Nat /\ sp \in Nat /\ sp < CAPACITY
          BY <1>1, <1>2
        <4>2. RightOf(e) \in Nat /\ RightOf(e) < CAPACITY
          BY <1>1, <1>2
        <4> QED BY <4>1, <4>2
      <3> QED BY <3>1, <3>2, <3>3
    <2> QED BY <2>2, <2>3
  <1>17. \A x \in T : x # a => p[x].kvs = N[x].kvs
    <2> SUFFICES ASSUME NEW x \in T, x # a PROVE p[x].kvs = N[x].kvs
      OBVIOUS
    <2>1. x # b /\ x \in DOMAIN m /\ m[x].kvs = N[x].kvs
      BY <1>7, <1>14
    <2> QED BY <1>8, <1>12, <2>1
  <1>18. Sized(p, T2, top)
    BY <1>4, <1>16, <1>17 DEF Sized
  <1>19. Split(N, p, T, a, b)
    BY <1>7, <1>8, <1>12, <1>16, <1>17 DEF Split
  <1> QED BY <1>13, <1>15, <1>18, <1>19 DEF Grown, r2

MovedOver(N, l, a, b, sp) ==
  LET m == MoveRightHalf(N, a, b, sp) IN l = Relinked(m, b, 0, Len(m[b].kvs))
PutIn(l, p, a, i, kv, c) ==
  LET f == InternalInsert(l, a, i, kv, c) IN p = Relinked(f, a, i + 1, Len(f[a].kvs))

LEMMA InnerSplit ==
  ASSUME NEW N, Table(N), NEW T, NEW top, top # Null, NEW c, c # top, NEW h \in Nat, NEW rank,
         Grown(N, T, {top, c}, top, h, rank),
         NEW a \in T, rank[a] # 0, rank[c] = rank[a] - 1, Len(N[a].kvs) = CAPACITY, NEW e \in 0 .. CAPACITY,
         NEW b \in DOMAIN N, b \notin T, N[b].parent = Null, NEW kv \in Pair,
         NEW l, MovedOver(N, l, a, b, SplitPoint(e).sp), NEW half, half = IF SplitPoint(e).right THEN b ELSE a,
         NEW p, PutIn(l, p, half, SplitPoint(e).idx, kv, c)
  PROVE  Split(N, p, T, a, b) /\ Grown(p, T \union {b}, {top, b}, top, h, Ranked(rank, T, b, rank[a]))
  <1> DEFINE sp == SplitPoint(e).sp
             i == SplitPoint(e).idx
             r2 == Ranked(rank, T, b, rank[a])
             T2 == T \union {b}
  <1>1. CAPACITY \in Nat /\ B - 1 \in Nat /\ CAPACITY = 2 * (B - 1) + 1
    BY BAssumption DEF CAPACITY
  <1>2. sp \in Nat /\ sp < CAPACITY /\ RightOf(e) = CAPACITY - sp - 1 /\ RightOf(e) \in 0 .. CAPACITY - 1
    BY <1>1, SplitBalanced DEF LeftOf, RightOf
  <1>3. /\ SplitPoint(e).right => i \in 0 .. RightOf(e) /\ sp >= B - 1 /\ RightOf(e) + 1 >= B - 1
        /\ ~SplitPoint(e).right => i \in 0 .. sp /\ sp + 1 >= B - 1 /\ RightOf(e) >= B - 1
    BY SplitBalanced, SplitKeepsPlace DEF LeftOf
  <1>4. /\ Shaped(N, T, {top, c}, rank) /\ rank \in [T -> 0 .. h] /\ Sized(N, T, top) /\ rank[top] = h
        /\ top \in T /\ c \in T /\ T \subseteq DOMAIN N /\ a # b /\ c # b /\ top # b
    BY DEF Grown, Shaped
  <1>5. SplitOf(N, l, T, rank, a, b, sp)
    <2> HIDE DEF sp
    <2>1. sp < Len(N[a].kvs) /\ MovedOver(N, l, a, b, sp)
      BY <1>2 DEF sp
    <2> QED BY <1>2, <1>4, <2>1, SplitInnerIs DEF MovedOver
  <1>6. Shaped(l, T2, {top, b, c}, r2)
    <2> HIDE DEF sp
    <2>1. sp < Len(N[a].kvs)
      BY <1>2
    <2>2. Shaped(l, T \union {b}, {top, c} \union {b}, Ranked(rank, T, b, rank[a]))
      BY <1>2, <1>4, <1>5, <2>1, SplitShape
    <2>3. {top, c} \union {b} = {top, b, c}
      OBVIOUS
    <2> QED BY <2>2, <2>3
  <1>7. /\ Table(l) /\ DOMAIN l = DOMAIN N /\ Len(l[a].kvs) = sp /\ Len(l[b].kvs) = RightOf(e)
        /\ \A x \in T : x # a => l[x].kvs = N[x].kvs
        /\ \A x \in DOMAIN N : x \notin T \union {b} => l[x] = N[x]
    <2>2. RightOf(e) = Len(N[a].kvs) - sp - 1
      BY <1>2
    <2> HIDE DEF sp
    <2> QED BY <1>4, <1>5, <2>2 DEF SplitOf
  <1>8. half \in {a, b} /\ half \in T2 /\ half \in DOMAIN l /\ i \in Nat /\ i <= Len(l[half].kvs)
    BY <1>2, <1>3, <1>4, <1>7
  <1> HIDE DEF sp, i, r2
  <1>9. /\ r2 \in [T2 -> 0 .. h] /\ r2[a] = rank[a] /\ r2[b] = rank[a] /\ r2[top] = h /\ r2[c] = rank[a] - 1
    <2>1. r2[a] = rank[a] /\ r2[b] = rank[a] /\ r2[top] = h /\ r2[c] = rank[a] - 1
      BY <1>4 DEF r2, Ranked
    <2>2. \A x \in T : rank[x] \in 0 .. h
      BY <1>4
    <2> QED BY <2>1, <2>2 DEF r2, Ranked
  <1>10. r2[half] # 0 /\ r2[c] = r2[half] - 1 /\ c \in {top, b, c}
    BY <1>8, <1>9
  <1>11. InsertOf(l, p, T2, half, i, kv, c)
    <2>1. PutIn(l, p, half, i, kv, c)
      BY DEF i
    <2> HIDE DEF T2
    <2> QED BY <1>6, <1>7, <1>8, <1>10, <2>1, InsertIs DEF PutIn
  <1>12. Shaped(p, T2, {top, b}, r2)
    <2> HIDE DEF T2
    <2>1. Shaped(p, T2, {top, b, c} \ {c}, r2)
      BY <1>6, <1>7, <1>8, <1>10, <1>11, InsertShape
    <2>2. {top, b, c} \ {c} = {top, b}
      BY <1>4
    <2> QED BY <2>1, <2>2
  <1>13. /\ DOMAIN p = DOMAIN l /\ Table(p)
         /\ \A x \in DOMAIN l : x # half => p[x].kvs = l[x].kvs
         /\ \A x \in DOMAIN l : x \notin T2 => p[x] = l[x]
         /\ Len(p[half].kvs) = Len(l[half].kvs) + 1
    <2> HIDE DEF T2
    <2> QED BY <1>11 DEF InsertOf
  <1>14. Len(p[a].kvs) <= CAPACITY /\ Len(p[a].kvs) >= B - 1 /\ Len(p[b].kvs) <= CAPACITY /\ Len(p[b].kvs) >= B - 1
    <2>1. a \in DOMAIN l /\ b \in DOMAIN l
      BY <1>4, <1>7
    <2>2. CASE SplitPoint(e).right
      <3>1. Len(p[b].kvs) = RightOf(e) + 1 /\ Len(p[a].kvs) = sp
        BY <1>4, <1>7, <1>13, <2>1, <2>2
      <3>2. sp >= B - 1 /\ RightOf(e) + 1 >= B - 1
        BY <1>3, <2>2 DEF sp
      <3>3. sp <= CAPACITY /\ RightOf(e) + 1 <= CAPACITY
        <4>1. CAPACITY \in Nat /\ sp \in Nat /\ sp < CAPACITY
          BY <1>1, <1>2
        <4>2. RightOf(e) \in Nat /\ RightOf(e) < CAPACITY
          BY <1>1, <1>2
        <4> QED BY <4>1, <4>2
      <3> QED BY <3>1, <3>2, <3>3
    <2>3. CASE ~SplitPoint(e).right
      <3>1. Len(p[b].kvs) = RightOf(e) /\ Len(p[a].kvs) = sp + 1
        BY <1>4, <1>7, <1>13, <2>1, <2>3
      <3>2. sp + 1 >= B - 1 /\ RightOf(e) >= B - 1
        BY <1>3, <2>3 DEF sp
      <3>3. sp + 1 <= CAPACITY /\ RightOf(e) <= CAPACITY
        <4>1. CAPACITY \in Nat /\ sp \in Nat /\ sp < CAPACITY
          BY <1>1, <1>2
        <4>2. RightOf(e) \in Nat /\ RightOf(e) < CAPACITY
          BY <1>1, <1>2
        <4> QED BY <4>1, <4>2
      <3> QED BY <3>1, <3>2, <3>3
    <2> QED BY <2>2, <2>3
  <1>15. \A x \in T : x # a => p[x].kvs = N[x].kvs
    BY <1>4, <1>7, <1>8, <1>13
  <1>16. Sized(p, T2, top)
    BY <1>4, <1>14, <1>15 DEF Sized
  <1>17. Split(N, p, T, a, b)
    BY <1>7, <1>13, <1>14, <1>15 DEF Split
  <1> QED BY <1>9, <1>12, <1>16, <1>17 DEF Grown, r2

Roomy(N, a, i) == Len(N[a].kvs) < CAPACITY /\ i \in Nat /\ i <= Len(N[a].kvs)
Absorbed(N, f, p, a, i, kv, c) ==
  f = InternalInsert(N, a, i, kv, c) /\ p = Relinked(f, a, i + 1, Len(N[a].kvs) + 1)
LEMMA AbsorbIs ==
  ASSUME NEW N, Table(N), NEW T, NEW top, top # Null, NEW c, c # top, NEW h \in Nat, NEW rank,
         Grown(N, T, {top, c}, top, h, rank),
         NEW a \in T, rank[a] # 0, rank[c] = rank[a] - 1, NEW i, Roomy(N, a, i), NEW kv \in Pair,
         NEW f, NEW p, Absorbed(N, f, p, a, i, kv, c)
  PROVE  Table(p) /\ DOMAIN p = DOMAIN N /\ Grown(p, T, {top}, top, h, rank)
  <1>0. /\ Len(N[a].kvs) < CAPACITY /\ i \in Nat /\ i <= Len(N[a].kvs)
        /\ f = InternalInsert(N, a, i, kv, c) /\ p = Relinked(f, a, i + 1, Len(N[a].kvs) + 1)
    BY DEF Roomy, Absorbed
  <1> USE <1>0
  <1>1. /\ Shaped(N, T, {top, c}, rank) /\ rank \in [T -> 0 .. h] /\ Sized(N, T, top) /\ rank[top] = h
        /\ c \in T /\ T \subseteq DOMAIN N /\ Len(N[a].edges) = Len(N[a].kvs) + 1
    BY DEF Grown, Shaped, EdgesOf
  <1>2. c \in Nodes /\ Len(N[a].kvs) \in Nat /\ N[a].kvs \in Seq(Pair) /\ a \in DOMAIN N
    BY <1>1, RecordIs
  <1>3. Len(f[a].kvs) = Len(N[a].kvs) + 1
    <2>1. f[a].kvs = InsertAt(N[a].kvs, i + 1, kv)
      BY <1>1, <1>2, FilledIs
    <2>2. i + 1 \in 1 .. Len(N[a].kvs) + 1
      BY <1>2
    <2> QED BY <1>2, <2>1, <2>2, InsertAtIs
  <1>4. p = Relinked(f, a, i + 1, Len(f[a].kvs)) /\ c \in {top, c}
    BY <1>3
  <1>5. InsertOf(N, p, T, a, i, kv, c)
    BY <1>1, <1>4, InsertIs
  <1>6. Shaped(p, T, {top}, rank)
    <2>1. Shaped(p, T, {top, c} \ {c}, rank)
      BY <1>1, <1>4, <1>5, InsertShape
    <2>2. {top, c} \ {c} = {top}
      OBVIOUS
    <2> QED BY <2>1, <2>2
  <1>7. /\ Table(p) /\ DOMAIN p = DOMAIN N
        /\ \A x \in T : x # a => p[x].kvs = N[x].kvs
        /\ Len(p[a].kvs) = Len(N[a].kvs) + 1
    BY <1>1, <1>5 DEF InsertOf
  <1>8. Sized(p, T, top)
    <2>0. B - 1 \in Nat /\ CAPACITY \in Nat
      BY BAssumption DEF CAPACITY
    <2>1. Len(p[a].kvs) <= CAPACITY
      BY <1>2, <1>7, <2>0
    <2>2. a # top => Len(p[a].kvs) >= B - 1
      <3> SUFFICES ASSUME a # top PROVE Len(p[a].kvs) >= B - 1
        OBVIOUS
      <3>1. Len(N[a].kvs) >= B - 1
        BY <1>1 DEF Sized
      <3> QED BY <1>2, <1>7, <2>0, <3>1
    <2> QED BY <1>1, <1>7, <2>1, <2>2 DEF Sized
  <1> QED BY <1>1, <1>6, <1>7, <1>8 DEF Grown

RootRecord(kv, top, c) == [kvs |-> <<kv>>, edges |-> <<top, c>>, parent |-> Null, parent_idx |-> 0]
RootOver(N, n, b, kv, top, c) ==
  /\ DOMAIN n = DOMAIN N /\ Table(n) /\ \A x \in DOMAIN N : x # b => n[x] = N[x]
  /\ n[b].kvs = <<kv>> /\ Len(n[b].kvs) = 1
  /\ Len(n[b].edges) = 2 /\ n[b].edges[1] = top /\ n[b].edges[2] = c /\ n[b].parent = Null

LEMMA RootPut ==
  ASSUME NEW N, Table(N), NEW b \in DOMAIN N, NEW kv \in Pair, NEW top \in Nodes, NEW c \in Nodes, top # c,
         NEW n, n = [N EXCEPT ![b] = RootRecord(kv, top, c)], NEW p, p = Relinked(n, b, 0, 1)
  PROVE  RootOver(N, n, b, kv, top, c) /\ RelinkOf(n, p, b, 0, 1)
  <1> DEFINE rec == RootRecord(kv, top, c)
  <1>1. rec \in NodeRecord /\ rec.kvs = <<kv>> /\ rec.edges = <<top, c>> /\ rec.parent = Null
    <2>1. <<kv>> \in Seq(Pair) /\ <<top, c>> \in Seq(Nodes)
      OBVIOUS
    <2> QED BY <2>1 DEF NodeRecord, Pair, RootRecord
  <1> HIDE DEF rec
  <1>2. DOMAIN n = DOMAIN N /\ n[b] = rec /\ \A x \in DOMAIN N : x # b => n[x] = N[x]
    BY DEF Table, rec
  <1>3. Table(n)
    <2>1. n = [x \in DOMAIN n |-> n[x]]
      BY DEF Table, rec
    <2>2. \A x \in DOMAIN n : n[x] \in NodeRecord
      BY <1>1, <1>2 DEF Table
    <2> QED BY <1>2, <2>1, <2>2 DEF Table
  <1>4. /\ n[b].kvs = <<kv>> /\ Len(n[b].kvs) = 1
        /\ Len(n[b].edges) = 2 /\ n[b].edges[1] = top /\ n[b].edges[2] = c /\ n[b].parent = Null
    BY <1>1, <1>2
  <1>5. Apart(n, b, 0, 1)
    <2> SUFFICES ASSUME NEW i \in 0 .. 1, NEW j \in 0 .. 1, n[b].edges[i + 1] = n[b].edges[j + 1] PROVE i = j
      BY DEF Apart
    <2>1. (i = 0 \/ i = 1) /\ (j = 0 \/ j = 1)
      OBVIOUS
    <2> QED BY <1>4, <2>1
  <1>6. b \in DOMAIN n /\ 1 < Len(n[b].edges) /\ 0 \in Nat /\ 1 \in Int
    BY <1>2, <1>4
  <1>7. RelinkOf(n, p, b, 0, 1)
    BY <1>3, <1>5, <1>6, RelinkedIs
  <1> QED BY <1>2, <1>3, <1>4, <1>7 DEF RootOver

HalfFull(N, a) == Len(N[a].kvs) >= B - 1
LEMMA RootIs ==
  ASSUME NEW N, Table(N), NEW T, NEW top, top # Null, NEW c, c # top, NEW h \in Nat, NEW rank,
         Grown(N, T, {top, c}, top, h, rank), rank[c] = h, HalfFull(N, top),
         NEW b \in DOMAIN N, b \notin T, NEW kv \in Pair,
         NEW n, RootOver(N, n, b, kv, top, c), NEW p, RelinkOf(n, p, b, 0, 1)
  PROVE  Table(p) /\ DOMAIN p = DOMAIN N /\ Grown(p, T \union {b}, {b}, b, h + 1, Ranked(rank, T, b, h + 1))
  <1> DEFINE T2 == T \union {b}
             r2 == Ranked(rank, T, b, h + 1)
  <1>1. /\ T \subseteq DOMAIN N /\ top \in T /\ c \in T /\ rank \in [T -> 0 .. h] /\ rank[top] = h /\ Sized(N, T, top)
        /\ \A x \in T : Len(N[x].edges) = EdgesOf(Len(N[x].kvs), rank[x])
        /\ \A x \in T : \A j \in 1 .. Len(N[x].edges) : ChildOK(N, T, rank, x, j)
        /\ N[top].parent = Null /\ N[c].parent = Null
        /\ \A x \in T : x # top /\ x # c => Hangs(N, T, x)
    BY DEF Grown, Shaped
  <1>2. top \in Nodes /\ c \in Nodes /\ b \in Nodes /\ top # b /\ c # b /\ \A x \in DOMAIN N : x # Null
    BY <1>1, RecordIs DEF Table
  <1>4. DOMAIN n = DOMAIN N /\ \A x \in DOMAIN N : x # b => n[x] = N[x]
    BY DEF RootOver
  <1>6. Len(n[b].kvs) = 1 /\ Len(n[b].edges) = 2 /\ n[b].edges[1] = top /\ n[b].edges[2] = c /\ n[b].parent = Null
    BY DEF RootOver
  <1>8. /\ DOMAIN p = DOMAIN N /\ Table(p)
        /\ \A x \in DOMAIN N : p[x].kvs = n[x].kvs /\ p[x].edges = n[x].edges
    BY <1>4 DEF RelinkOf
  <1>9. p[top].parent = b /\ p[top].parent_idx = 0 /\ p[c].parent = b /\ p[c].parent_idx = 1
    <2>1. top \in DOMAIN n /\ c \in DOMAIN n
      BY <1>1, <1>4
    <2>2. 0 \in 0 .. 1 /\ 1 \in 0 .. 1 /\ n[b].edges[0 + 1] = top /\ n[b].edges[1 + 1] = c
      BY <1>6
    <2> QED BY <2>1, <2>2 DEF RelinkOf
  <1>10. \A x \in DOMAIN N : x # top /\ x # c => p[x] = n[x]
    <2> SUFFICES ASSUME NEW x \in DOMAIN N, x # top, x # c PROVE p[x] = n[x]
      OBVIOUS
    <2>1. \A i \in 0 .. 1 : n[b].edges[i + 1] # x
      <3> SUFFICES ASSUME NEW i \in 0 .. 1 PROVE n[b].edges[i + 1] # x
        OBVIOUS
      <3>1. i = 0 \/ i = 1
        OBVIOUS
      <3> QED BY <1>6, <3>1
    <2> QED BY <1>4, <2>1 DEF RelinkOf
  <1>11. /\ r2 \in [T2 -> 0 .. h + 1] /\ r2[b] = h + 1 /\ \A x \in T : r2[x] = rank[x]
    <2>1. r2[b] = h + 1 /\ \A x \in T : r2[x] = rank[x]
      BY DEF Ranked
    <2>2. \A x \in T2 : r2[x] \in 0 .. h + 1
      BY <1>1, <2>1
    <2> QED BY <2>1, <2>2 DEF Ranked
  <1> HIDE DEF r2
  <1>12. ASSUME NEW x \in T2 PROVE Len(p[x].edges) = EdgesOf(Len(p[x].kvs), r2[x])
    <2>1. CASE x = b
      <3>1. Len(p[b].edges) = 2 /\ Len(p[b].kvs) = 1 /\ r2[b] # 0
        BY <1>6, <1>8, <1>11
      <3> QED BY <2>1, <3>1 DEF EdgesOf
    <2>2. CASE x # b
      BY <1>1, <1>4, <1>8, <1>11, <2>2
    <2> QED BY <2>1, <2>2
  <1>13. ASSUME NEW x \in T2, NEW i \in 1 .. Len(p[x].edges) PROVE ChildOK(p, T2, r2, x, i)
    <2>1. CASE x = b
      <3>1. p[b].edges = n[b].edges
        BY <1>8
      <3>2. i = 1 \/ i = 2
        <4>1. Len(p[x].edges) = 2
          BY <1>6, <2>1, <3>1
        <4> QED BY <4>1
      <3>3. r2[top] = h /\ r2[c] = h /\ r2[b] = h + 1 /\ h = h + 1 - 1
        BY <1>1, <1>11
      <3>4. CASE i = 1
        <4>1. p[x].edges[i] = top /\ top \in T2 /\ r2[top] = r2[x] - 1 /\ p[top].parent = x /\ p[top].parent_idx = i - 1
          BY <1>1, <1>6, <1>9, <2>1, <3>1, <3>3, <3>4
        <4> HIDE DEF T2
        <4> QED BY <4>1 DEF ChildOK
      <3>5. CASE i = 2
        <4>1. p[x].edges[i] = c /\ c \in T2 /\ r2[c] = r2[x] - 1 /\ p[c].parent = x /\ p[c].parent_idx = i - 1
          BY <1>1, <1>6, <1>9, <2>1, <3>1, <3>3, <3>5
        <4> HIDE DEF T2
        <4> QED BY <4>1 DEF ChildOK
      <3> QED BY <3>2, <3>4, <3>5
    <2>2. CASE x # b
      <3> DEFINE d == N[x].edges[i]
      <3>1. x \in T /\ p[x].edges = N[x].edges
        BY <1>1, <1>4, <1>8, <2>2
      <3>2. d \in T /\ rank[d] = rank[x] - 1 /\ N[d].parent = x /\ N[d].parent_idx = i - 1
        BY <1>1, <1>13, <3>1 DEF ChildOK
      <3>3. d # top /\ d # c
        BY <1>1, <1>2, <3>1, <3>2
      <3>4. p[d] = N[d]
        BY <1>1, <1>4, <1>10, <3>2, <3>3
      <3> HIDE DEF d
      <3>5. d \in T2 /\ r2[d] = r2[x] - 1 /\ p[d].parent = x /\ p[d].parent_idx = i - 1
        BY <1>11, <3>1, <3>2, <3>4
      <3> QED BY <3>1, <3>5 DEF ChildOK, d
    <2> QED BY <2>1, <2>2
  <1>14. p[b].parent = Null
    BY <1>2, <1>6, <1>10
  <1>15. ASSUME NEW x \in T2, x # b PROVE Hangs(p, T2, x)
    <2>0. p[b].edges = n[b].edges /\ b \in T2
      BY <1>8
    <2>1. CASE x = top
      <3>1. p[x].parent = b /\ p[x].parent_idx + 1 = 1 /\ 1 \in 1 .. 2
        BY <1>9, <2>1
      <3> QED BY <1>6, <2>0, <2>1, <3>1 DEF Hangs
    <2>2. CASE x = c
      <3>1. p[x].parent = b /\ p[x].parent_idx + 1 = 2 /\ 2 \in 1 .. 2
        BY <1>9, <2>2
      <3> QED BY <1>6, <2>0, <2>2, <3>1 DEF Hangs
    <2>3. CASE x # top /\ x # c
      <3>1. p[x] = N[x] /\ Hangs(N, T, x)
        BY <1>1, <1>4, <1>10, <1>15, <2>3
      <3>2. N[x].parent \in T /\ p[N[x].parent].edges = N[N[x].parent].edges
        BY <1>1, <1>4, <1>8, <3>1 DEF Hangs
      <3> QED BY <3>1, <3>2 DEF Hangs
    <2> QED BY <2>1, <2>2, <2>3
  <1>16. Shaped(p, T2, {b}, r2)
    <2>1. r2 \in [T2 -> Nat] /\ T2 \subseteq DOMAIN p
      BY <1>1, <1>8, <1>11
    <2> HIDE DEF T2
    <2>2. {b} \subseteq T2
      BY DEF T2
    <2> QED BY <1>12, <1>13, <1>14, <1>15, <2>1, <2>2 DEF Shaped
  <1>17. Sized(p, T2, b)
    <2>0. CAPACITY \in Nat /\ CAPACITY >= 1
      BY BAssumption DEF CAPACITY
    <2>1. Len(p[b].kvs) <= CAPACITY
      BY <1>6, <1>8, <2>0
    <2>2. \A x \in T : p[x].kvs = N[x].kvs
      BY <1>1, <1>4, <1>8
    <2>3. \A x \in T : Len(N[x].kvs) <= CAPACITY /\ Len(N[x].kvs) >= B - 1
      BY <1>1 DEF Sized, HalfFull
    <2> QED BY <2>1, <2>2, <2>3 DEF Sized
  <1> QED BY <1>2, <1>8, <1>11, <1>16, <1>17 DEF Grown, r2

(***************************************************************************)
(* Down from the root to a leaf, and up again.                              *)
(***************************************************************************)
NextDown(a, k) == IF Hit(a, k) THEN a ELSE node[a].edges[Below(a, k) + 1]
DownAt(down, k, i) == IF i = 0 THEN root ELSE NextDown(down[i - 1], k)
Goes(down, k, h) == down = [i \in 0 .. h |-> DownAt(down, k, i)]

LEMMA GoesExist == ASSUME NEW k PROVE \A h \in Nat : \E down : Goes(down, k, h)
  <1> DEFINE S == {h \in Nat : \E down : Goes(down, k, h)}
  <1>1. 0 \in S
    <2>1. Goes([i \in 0 .. 0 |-> root], k, 0)
      BY DEF Goes, DownAt
    <2> QED BY <2>1
  <1>2. ASSUME NEW h \in Nat, h \in S PROVE h + 1 \in S
    <2>1. PICK down : Goes(down, k, h)
      BY <1>2
    <2> DEFINE next == [i \in 0 .. h + 1 |-> IF i = h + 1 THEN NextDown(down[h], k) ELSE down[i]]
    <2>2. Goes(next, k, h + 1)
      <3>1. \A i \in 0 .. h : down[i] = DownAt(down, k, i)
        BY <2>1 DEF Goes
      <3>2. ASSUME NEW i \in 0 .. h + 1 PROVE next[i] = DownAt(next, k, i)
        <4>1. CASE i = h + 1
          <5>1. next[i] = NextDown(down[h], k) /\ i # 0 /\ next[i - 1] = down[h]
            BY <4>1
          <5> QED BY <5>1 DEF DownAt
        <4>2. CASE i # h + 1
          <5>1. i # 0 => next[i - 1] = down[i - 1]
            BY <4>2
          <5>2. next[i] = down[i] /\ down[i] = DownAt(down, k, i)
            BY <3>1, <4>2
          <5> HIDE DEF next
          <5> QED BY <5>1, <5>2 DEF DownAt
        <4> QED BY <4>1, <4>2
      <3> HIDE DEF next
      <3>3. next = [i \in 0 .. h + 1 |-> next[i]]
        BY DEF next
      <3> QED BY <3>2, <3>3 DEF Goes
    <2> QED BY <2>2
  <1> HIDE DEF S
  <1>3. Nat \subseteq S
    BY <1>1, <1>2, Counting
  <1> QED BY <1>3 DEF S

\* The code's descent counts heights down.
DescendAt(down, k, h) == IF h = height THEN root ELSE NextDown(down[h + 1], k)
Descends(down, k) == down = [h \in 0 .. height |-> DescendAt(down, k, h)]

LEMMA DescentExists == ASSUME height \in Nat, NEW k PROVE \E down : Descends(down, k)
  <1>1. PICK g : Goes(g, k, height)
    BY GoesExist
  <1>2. \A i \in 0 .. height : g[i] = DownAt(g, k, i)
    BY <1>1 DEF Goes
  <1> DEFINE down == [h \in 0 .. height |-> g[height - h]]
  <1>3. ASSUME NEW h \in 0 .. height PROVE down[h] = DescendAt(down, k, h)
    <2>1. height - h \in 0 .. height /\ down[h] = g[height - h]
      OBVIOUS
    <2>2. g[height - h] = DownAt(g, k, height - h)
      BY <1>2, <2>1
    <2>3. CASE h = height
      <3>1. height - h = 0
        BY <2>3
      <3> QED BY <2>1, <2>2, <2>3, <3>1 DEF DownAt, DescendAt
    <2>4. CASE h # height
      <3>1. h + 1 \in 0 .. height /\ height - h # 0 /\ height - h - 1 = height - (h + 1)
        BY <2>4
      <3>2. down[h + 1] = g[height - (h + 1)]
        BY <3>1
      <3> HIDE DEF down
      <3> QED BY <2>1, <2>2, <2>4, <3>1, <3>2 DEF DownAt, DescendAt
    <2> QED BY <2>3, <2>4
  <1>4. down = [h \in 0 .. height |-> down[h]]
    OBVIOUS
  <1> HIDE DEF down
  <1>5. Descends(down, k)
    BY <1>3, <1>4 DEF Descends
  <1> QED BY <1>5

LEMMA BelowIs ==
  ASSUME Table(node), NEW a \in DOMAIN node, NEW k
  PROVE  Below(a, k) \in 0 .. Len(node[a].kvs)
  <1> DEFINE n == Len(node[a].kvs)
             S == {i \in 1 .. n : node[a].kvs[i][1] < k}
  <1>1. n \in Nat
    BY RecordIs
  <1>2. IsFiniteSet(1 .. n) /\ Cardinality(1 .. n) = n
    BY <1>1, FS_Interval
  <1>3. IsFiniteSet(S) /\ Cardinality(S) <= n /\ Cardinality(S) \in Nat
    BY <1>2, FS_Subset, FS_CardinalityType
  <1>4. Below(a, k) = Cardinality(S)
    BY DEF Below, LenOf
  <1> HIDE DEF S, n
  <1>5. Cardinality(S) \in 0 .. n
    BY <1>1, <1>3
  <1> QED BY <1>4, <1>5 DEF n

LEMMA SearchIs ==
  ASSUME Table(node), height \in Nat, root # Null, NEW T, NEW rank, Grown(node, T, {root}, root, height, rank), NEW k
  PROVE  /\ Search(k) \in T /\ Below(Search(k), k) \in 0 .. Len(node[Search(k)].kvs)
         /\ Hit(Search(k), k) \/ rank[Search(k)] = 0
  <1>1. /\ T \subseteq DOMAIN node /\ root \in T /\ rank \in [T -> 0 .. height] /\ rank[root] = height
        /\ \A x \in T : Len(node[x].edges) = EdgesOf(Len(node[x].kvs), rank[x])
        /\ \A x \in T : \A j \in 1 .. Len(node[x].edges) : ChildOK(node, T, rank, x, j)
    BY DEF Grown, Shaped
  <1> DEFINE down == CHOOSE down : Descends(down, k)
  <1>2. Search(k) = down[0]
    BY DEF Search, Descends, DescendAt, NextDown
  <1>3. Descends(down, k)
    BY DescentExists
  <1> HIDE DEF down
  <1>4. \A h \in 0 .. height : down[h] = DescendAt(down, k, h)
    BY <1>3 DEF Descends
  <1> DEFINE OK(a, h) == a \in T /\ (Hit(a, k) \/ rank[a] = h)
             S == {d \in Nat : d <= height => OK(down[height - d], height - d)}
  <1>5. 0 \in S
    <2>1. height - 0 = height /\ height \in 0 .. height
      OBVIOUS
    <2>2. down[height] = root
      BY <1>4, <2>1 DEF DescendAt
    <2>3. OK(down[height], height)
      BY <1>1, <2>2
    <2> HIDE DEF OK
    <2> QED BY <2>1, <2>3
  <1>6. ASSUME NEW d \in Nat, d \in S PROVE d + 1 \in S
    <2> SUFFICES ASSUME d + 1 <= height PROVE OK(down[height - (d + 1)], height - (d + 1))
      OBVIOUS
    <2> DEFINE h == height - (d + 1)
    <2>1. h \in 0 .. height /\ h # height /\ h + 1 = height - d /\ d <= height
      OBVIOUS
    <2>2. OK(down[h + 1], h + 1)
      BY <1>6, <2>1
    <2>3. down[h] = NextDown(down[h + 1], k)
      BY <1>4, <2>1 DEF DescendAt
    <2> HIDE DEF h
    <2> DEFINE a == down[h + 1]
    <2>4. CASE Hit(a, k)
      BY <2>2, <2>3, <2>4 DEF NextDown, h
    <2>5. CASE ~Hit(a, k)
      <3>1. a \in T /\ rank[a] = h + 1 /\ a \in DOMAIN node
        BY <1>1, <2>2, <2>5
      <3>2. down[h] = node[a].edges[Below(a, k) + 1]
        BY <2>3, <2>5 DEF NextDown
      <3>3. Len(node[a].edges) = Len(node[a].kvs) + 1
        <4>1. h + 1 # 0
          BY <2>1
        <4> QED BY <1>1, <3>1, <4>1 DEF EdgesOf
      <3>4. Below(a, k) + 1 \in 1 .. Len(node[a].edges)
        <4>1. Below(a, k) \in 0 .. Len(node[a].kvs) /\ Len(node[a].kvs) \in Nat
          BY <3>1, BelowIs, RecordIs
        <4> QED BY <3>3, <4>1
      <3>5. ChildOK(node, T, rank, a, Below(a, k) + 1)
        BY <1>1, <3>1, <3>4
      <3>6. down[h] \in T /\ rank[down[h]] = rank[a] - 1
        <4> HIDE DEF a, OK, S
        <4> QED BY <3>2, <3>5 DEF ChildOK
      <3>7. rank[a] - 1 = h
        BY <2>1, <3>1
      <3> QED BY <3>6, <3>7 DEF h
    <2> QED BY <2>4, <2>5
  <1> HIDE DEF S
  <1>7. Nat \subseteq S
    BY <1>5, <1>6, Counting
  <1>8. OK(down[0], 0)
    <2>1. height - height = 0 /\ height <= height /\ height \in S
      BY <1>7
    <2> HIDE DEF OK
    <2> QED BY <2>1 DEF S
  <1> QED BY <1>1, <1>2, <1>8, BelowIs

\* Stop i of a path is the node i levels above the leaf; only the last has room.
Stops == [ptr : Nodes, child_idx : Nat, will_split : BOOLEAN]
StopAt(N, T, rank, s, i) ==
  /\ s[i].ptr \in T /\ rank[s[i].ptr] = i /\ s[i].child_idx <= Len(N[s[i].ptr].kvs)
  /\ s[i].will_split = ~(Len(N[s[i].ptr].kvs) < CAPACITY)
PathOK(N, T, rank, s) ==
  /\ s \in Seq(Stops)
  /\ \A i \in 1 .. Len(s) : StopAt(N, T, rank, s, i)
  /\ \A i \in 1 .. Len(s) : i # Len(s) => s[i].will_split

LEMMA PathIs ==
  ASSUME Table(node), height \in Nat, root # Null, NEW T, NEW rank, Grown(node, T, {root}, root, height, rank),
         leaf \in T, rank[leaf] = 0
  PROVE  /\ PathOK(node, T, rank, Path)
         /\ (\A i \in 1 .. Len(Path) : Path[i].will_split) => Len(Path) = height
  <1>1. /\ T \subseteq DOMAIN node /\ root \in T /\ rank \in [T -> 0 .. height] /\ rank[root] = height
        /\ \A x \in T : Len(node[x].edges) = EdgesOf(Len(node[x].kvs), rank[x])
        /\ \A x \in T : \A j \in 1 .. Len(node[x].edges) : ChildOK(node, T, rank, x, j)
        /\ \A x \in T : x # root => Hangs(node, T, x)
        /\ node[root].parent = Null
    BY DEF Grown, Shaped
  <1>2. \A x \in DOMAIN node : /\ Len(node[x].kvs) \in Nat /\ node[x].parent_idx \in Nat /\ x # Null /\ x \in Nodes
                               /\ Len(node[x].edges) \in Nat
    BY RecordIs
  <1>3. ASSUME NEW x \in T, rank[x] # height
        PROVE  /\ node[x].parent # Null /\ node[x].parent \in T /\ rank[node[x].parent] = rank[x] + 1
               /\ node[x].parent_idx <= Len(node[node[x].parent].kvs)
    <2> DEFINE p == node[x].parent
               j == node[x].parent_idx + 1
    <2>1. p \in T /\ j \in 1 .. Len(node[p].edges) /\ node[p].edges[j] = x
      BY <1>1, <1>3 DEF Hangs
    <2>2. ChildOK(node, T, rank, p, j)
      BY <1>1, <2>1
    <2>3. rank[x] = rank[p] - 1 /\ rank[p] \in 0 .. height
      BY <1>1, <2>1, <2>2 DEF ChildOK
    <2>4. Len(node[p].edges) = 0 \/ Len(node[p].edges) = Len(node[p].kvs) + 1
      BY <1>1, <2>1 DEF EdgesOf
    <2>5. node[x].parent_idx \in Nat /\ Len(node[p].kvs) \in Nat /\ p # Null
      BY <1>1, <1>2, <2>1
    <2>6. node[x].parent_idx <= Len(node[p].kvs)
      BY <2>1, <2>4, <2>5
    <2> QED BY <2>1, <2>3, <2>5, <2>6
  <1> DEFINE Done(s) == s # <<>> /\ ~Last(s).will_split
             OK(s, h) == PathOK(node, T, rank, s) /\ (Len(s) = h \/ Done(s))
  <1>4. ASSUME NEW s, NEW h \in Nat, h < height, OK(s, h) PROVE OK(Extended(s), h + 1)
    <2> DEFINE child == IF s = <<>> THEN leaf ELSE Last(s).ptr
               a == node[child].parent
               stop == [ptr |-> a, child_idx |-> node[child].parent_idx, will_split |-> ~HasRoom(a)]
    <2>0. s \in Seq(Stops) /\ Len(s) \in Nat
      BY <1>4 DEF PathOK
    <2>1. Extended(s) = IF a = Null \/ Done(s) THEN s ELSE Append(s, stop)
      BY DEF Extended
    <2>2. CASE Done(s)
      BY <1>4, <2>1, <2>2
    <2>3. CASE ~Done(s)
      <3>1. Len(s) = h
        BY <1>4, <2>3
      <3>2. child \in T /\ rank[child] = h
        <4>1. CASE s = <<>>
          BY <2>0, <3>1, <4>1
        <4>2. CASE s # <<>>
          <5>1. h \in 1 .. Len(s) /\ Last(s) = s[h]
            BY <2>0, <3>1, <4>2 DEF Last
          <5>2. StopAt(node, T, rank, s, h)
            BY <1>4, <5>1 DEF PathOK
          <5> QED BY <4>2, <5>1, <5>2 DEF StopAt
        <4> QED BY <4>1, <4>2
      <3> HIDE DEF child
      <3>3. a # Null /\ a \in T /\ rank[a] = h + 1 /\ node[child].parent_idx <= Len(node[a].kvs)
        BY <1>3, <1>4, <3>2
      <3>4. node[child].parent_idx \in Nat /\ a \in Nodes
        BY <1>1, <1>2, <3>2, <3>3
      <3> HIDE DEF a
      <3>5. stop \in Stops
        BY <3>4 DEF Stops, HasRoom
      <3>7. /\ stop.ptr = a /\ stop.child_idx = node[child].parent_idx
            /\ stop.will_split = ~(Len(node[a].kvs) < CAPACITY)
        BY DEF HasRoom, LenOf
      <3> HIDE DEF stop, Done, OK
      <3>8. Extended(s) = Append(s, stop)
        BY <2>1, <2>3, <3>3
      <3> DEFINE t == Append(s, stop)
      <3>9. t \in Seq(Stops) /\ Len(t) = h + 1 /\ t[h + 1] = stop /\ \A i \in 1 .. h : t[i] = s[i]
        BY <2>0, <3>1, <3>5
      <3> HIDE DEF t
      <3>10. ASSUME NEW i \in 1 .. Len(t) PROVE StopAt(node, T, rank, t, i)
        <4>1. CASE i = h + 1
          BY <3>3, <3>7, <3>9, <4>1 DEF StopAt
        <4>2. CASE i # h + 1
          <5>1. i \in 1 .. h /\ t[i] = s[i]
            BY <3>9, <4>2
          <5>2. StopAt(node, T, rank, s, i)
            BY <1>4, <3>1, <5>1 DEF OK, PathOK
          <5> QED BY <5>1, <5>2 DEF StopAt
        <4> QED BY <4>1, <4>2
      <3>11. ASSUME NEW i \in 1 .. Len(t), i # Len(t) PROVE t[i].will_split
        <4>1. i \in 1 .. h /\ t[i] = s[i]
          BY <3>9, <3>11
        <4>2. CASE i # h
          BY <1>4, <3>1, <4>1, <4>2 DEF OK, PathOK
        <4>3. CASE i = h
          <5>1. s # <<>> /\ Last(s) = s[h]
            BY <2>0, <3>1, <4>1, <4>3 DEF Last
          <5> QED BY <2>3, <4>1, <4>3, <5>1 DEF Done
        <4> QED BY <4>2, <4>3
      <3>12. PathOK(node, T, rank, t)
        BY <3>9, <3>10, <3>11 DEF PathOK
      <3> QED BY <3>8, <3>9, <3>12 DEF OK, t
    <2> QED BY <2>2, <2>3
  <1> DEFINE up == CHOOSE up : Climbs(up, height)
  <1>5. Path = up[height]
    BY DEF Path, Climbs, Extended
  <1>6. Climbs(up, height)
    BY ClimbsExist
  <1> HIDE DEF up
  <1>7. up[0] = <<>> /\ \A h \in 0 .. height : h # 0 => up[h] = Extended(up[h - 1])
    BY <1>6 DEF Climbs
  <1>8. OK(<<>>, 0)
    BY DEF PathOK
  <1> HIDE DEF OK
  <1> DEFINE S == {h \in Nat : h <= height => OK(up[h], h)}
  <1>9. 0 \in S
    BY <1>7, <1>8
  <1>10. ASSUME NEW h \in Nat, h \in S PROVE h + 1 \in S
    <2> SUFFICES ASSUME h + 1 <= height PROVE OK(up[h + 1], h + 1)
      OBVIOUS
    <2>1. h + 1 \in 0 .. height /\ h + 1 # 0 /\ (h + 1) - 1 = h /\ h < height
      OBVIOUS
    <2>2. up[h + 1] = Extended(up[h])
      BY <1>7, <2>1
    <2>3. OK(up[h], h)
      BY <1>10, <2>1
    <2> QED BY <1>4, <2>1, <2>2, <2>3
  <1> HIDE DEF S
  <1>11. Nat \subseteq S
    BY <1>9, <1>10, Counting
  <1>12. OK(Path, height)
    BY <1>5, <1>11 DEF S
  <1>13. ASSUME \A i \in 1 .. Len(Path) : Path[i].will_split, Done(Path) PROVE FALSE
    <2>1. Path \in Seq(Stops) /\ Path # <<>>
      BY <1>12, <1>13 DEF OK, PathOK
    <2>2. Last(Path) = Path[Len(Path)] /\ Len(Path) \in 1 .. Len(Path)
      BY <2>1 DEF Last
    <2> QED BY <1>13, <2>2
  <1> QED BY <1>12, <1>13 DEF OK

(***************************************************************************)
(* The nodes that are reserved, and the tree that all others form.          *)
(***************************************************************************)
Spare == ToSet(reserve.nodes) \union (IF Committing THEN {} ELSE {leaf_right} \ {Null})
InTree == DOMAIN node \ Spare
Tops == {root, current_right} \ {Null}

Resting == phase \in {"idle", "next"}
NothingReserved == phase \in {"idle", "next", "empty", "fits", "probe", "leaf"}
Placing == phase \in {"fits", "probe", "leaf", "buffer", "internals", "commit"}
Planned == phase \in {"leaf", "buffer", "internals", "commit", "promote"}

SpareOK ==
  /\ Table(node) /\ height \in Nat
  /\ reserve.nodes \in Seq(DOMAIN node)
  /\ \A i, j \in 1 .. Len(reserve.nodes) : reserve.nodes[i] = reserve.nodes[j] => i = j
  /\ leaf_right \in DOMAIN node \union {Null} /\ leaf_right \notin ToSet(reserve.nodes)
  /\ \A a \in Spare : node[a] = FreshNode
  /\ (NothingReserved \/ phase = "buffer") => reserve.nodes = <<>>
  /\ leaf_right = Null <=> NothingReserved
  /\ ~Committing => current_right = Null
  /\ (phase = "empty" => root = Null) /\ (phase = "commit" => level = 1)
ItemOK ==
  /\ remaining \in Seq(Pair) /\ (~Resting => item \in Pair)
  /\ start.max_key \in Nat /\ start.max_items \in Nat
  /\ \E c : start = [calls |-> c, max_key |-> start.max_key, max_items |-> start.max_items]
AtLeaf(rank) ==
  Placing =>
    /\ leaf \in InTree /\ rank[leaf] = 0 /\ edge_idx \in 0 .. Len(node[leaf].kvs)
    /\ IF phase = "fits" THEN Len(node[leaf].kvs) < CAPACITY ELSE Len(node[leaf].kvs) = CAPACITY
Planning(rank) ==
  Planned =>
    /\ plan.internals \in Seq(Stops)
    /\ \A i \in 1 .. Len(plan.internals) :
         (Committing => i >= level) => StopAt(node, InTree, rank, plan.internals, i)
    /\ \A i \in 1 .. Len(plan.internals) : i # Len(plan.internals) => plan.internals[i].will_split
    /\ plan.new_root = \A i \in 1 .. Len(plan.internals) : plan.internals[i].will_split
    /\ plan.new_root => Len(plan.internals) = height
    /\ ~Committing => /\ plan.leaf_sp = SplitPoint(edge_idx).sp /\ plan.right = SplitPoint(edge_idx).right
                      /\ plan.idx = SplitPoint(edge_idx).idx
Promoting(rank) ==
  Committing =>
    /\ level \in 1 .. Len(plan.internals) + 1 /\ current_kv \in Pair
    /\ current_right # Null /\ current_right # root /\ rank[current_right] = level - 1
    /\ \A i \in 1 .. Len(plan.internals) : i < level => plan.internals[i].will_split
    /\ height = level - 1 => Len(node[root].kvs) >= B - 1
Standing(rank) ==
  /\ Grown(node, InTree, Tops, root, height, rank)
  /\ AtLeaf(rank) /\ Planning(rank) /\ Promoting(rank)
TreeInv == SpareOK /\ ItemOK /\ \E rank : Standing(rank)

LEMMA PhasesApart ==
  /\ Resting => ~Placing /\ ~Planned /\ ~Committing /\ NothingReserved /\ phase # "empty"
  /\ phase = "empty" => ~Placing /\ ~Planned /\ ~Committing /\ NothingReserved /\ ~Resting
  BY DEF Resting, Placing, Planned, Committing, NothingReserved

\* Between inserts nothing is reserved.
Rested(rank) ==
  /\ Table(node) /\ height \in Nat /\ reserve.nodes = <<>> /\ leaf_right = Null /\ current_right = Null
  /\ Grown(node, DOMAIN node, {root} \ {Null}, root, height, rank)

LEMMA RestedIs ==
  ASSUME SpareOK, NEW rank, Standing(rank), NothingReserved
  PROVE  Rested(rank) /\ InTree = DOMAIN node /\ Tops = {root} \ {Null}
  <1>1. ~Committing
    BY DEF NothingReserved, Committing
  <1>2. reserve.nodes = <<>> /\ leaf_right = Null /\ current_right = Null
    BY <1>1 DEF SpareOK
  <1>3. ToSet(reserve.nodes) = {}
    BY <1>2 DEF ToSet
  <1>4. Spare = {} /\ Tops = {root} \ {Null}
    BY <1>2, <1>3 DEF Spare, Tops
  <1> QED BY <1>2, <1>4 DEF Rested, SpareOK, Standing, InTree

LEMMA RestedKeeps ==
  ASSUME ItemOK', NEW rank, Rested(rank)', NothingReserved', phase' = "empty" => root' = Null,
         InTree' = DOMAIN node' => AtLeaf(rank)' /\ Planning(rank)'
  PROVE  TreeInv'
  <1>1. ~Committing' /\ phase' # "buffer" /\ phase' # "commit"
    BY DEF NothingReserved, Committing
  <1>2. reserve'.nodes = <<>> /\ leaf_right' = Null /\ current_right' = Null
    BY DEF Rested
  <1>3. ToSet(reserve'.nodes) = {}
    BY <1>2 DEF ToSet
  <1>4. Spare' = {} /\ Tops' = {root'} \ {Null}
    BY <1>2, <1>3 DEF Spare, Tops
  <1>5. InTree' = DOMAIN node'
    BY <1>4 DEF InTree
  <1>6. SpareOK'
    <2>1. reserve'.nodes \in Seq(DOMAIN node') /\ Len(reserve'.nodes) = 0
      BY <1>2
    <2> QED BY <1>1, <1>2, <1>3, <1>4, <2>1 DEF SpareOK, Rested
  <1>7. Standing(rank)'
    BY <1>1, <1>4, <1>5 DEF Standing, Promoting, Rested
  <1> QED BY <1>6, <1>7 DEF TreeInv

LEMMA RestingKeeps ==
  ASSUME ItemOK', NEW rank, Rested(rank)', Resting'
  PROVE  TreeInv'
  <1>1. ~Placing' /\ ~Planned' /\ NothingReserved' /\ phase' # "empty"
    BY DEF Resting, Placing, Planned, NothingReserved
  <1>2. AtLeaf(rank)' /\ Planning(rank)'
    BY <1>1 DEF AtLeaf, Planning
  <1> QED BY <1>1, <1>2, RestedKeeps

LEMMA SourcesAre == ASSUME start.max_items \in Nat, NEW source \in Sources PROVE source \in Seq(Pair)
  <1> DEFINE S == {<<k, "new">> : k \in 1 .. start.max_key}
  <1>1. PICK m \in 1 .. start.max_items : source \in [1 .. m -> S]
    BY DEF Sources
  <1>2. S \subseteq Pair
    BY DEF Pair
  <1> HIDE DEF S
  <1>3. source \in [1 .. m -> Pair] /\ m \in Nat
    BY <1>1, <1>2
  <1> QED BY <1>3

LEMMA TreeStarts == TreeInit => TreeInv
  <1> SUFFICES ASSUME TreeInit PROVE TreeInv
    OBVIOUS
  <1>1. PICK s \in Starts :
          /\ node = s.node /\ root = s.root /\ height = s.height
          /\ start = [calls |-> s.calls, max_key |-> s.max_key, max_items |-> s.max_items]
          /\ phase = "idle" /\ remaining = <<>> /\ leaf_right = Null /\ reserve = NoReserve /\ current_right = Null
    BY DEF TreeInit
  <1>2. /\ height \in Nat /\ s.max_items \in Nat /\ s.max_key \in Nat /\ Table(node)
        /\ IF root = Null THEN DOMAIN node = {} ELSE root \in Nodes /\ IsTree(node, root, height, DOMAIN node)
    BY <1>1, StartsAssumption DEF Table
  <1>3. PICK rank : Grown(node, DOMAIN node, {root} \ {Null}, root, height, rank)
    <2>1. CASE root = Null
      <3> DEFINE none == [x \in {} |-> 0]
      <3>1. none \in [{} -> 0 .. height] /\ none \in [{} -> Nat]
        OBVIOUS
      <3>2. DOMAIN node = {} /\ {root} \ {Null} = {}
        BY <1>2, <2>1
      <3> HIDE DEF none
      <3>3. Grown(node, {}, {}, root, height, none)
        BY <2>1, <3>1 DEF Grown, Shaped, Sized
      <3> QED BY <3>2, <3>3
    <2>2. CASE root # Null
      <3>1. \E rank : Grown(node, DOMAIN node, {root}, root, height, rank)
        <4>1. IsTree(node, root, height, DOMAIN node) /\ DOMAIN node \subseteq DOMAIN node
          BY <1>2, <2>2
        <4> QED BY <1>2, <4>1, TreeShape
      <3>2. {root} \ {Null} = {root}
        BY <2>2
      <3> QED BY <3>1, <3>2
    <2> QED BY <2>1, <2>2
  <1>4. Resting /\ ~Placing /\ ~Planned /\ ~Committing /\ NothingReserved /\ phase # "empty"
    BY <1>1 DEF Resting, Placing, Planned, Committing, NothingReserved
  <1>5. reserve.nodes = <<>> /\ Len(reserve.nodes) = 0 /\ ToSet(reserve.nodes) = {} /\ reserve.nodes \in Seq(DOMAIN node)
    BY <1>1 DEF NoReserve, ToSet
  <1>6. Spare = {} /\ InTree = DOMAIN node /\ Tops = {root} \ {Null}
    BY <1>1, <1>5 DEF Spare, InTree, Tops
  <1>7. Standing(rank)
    BY <1>3, <1>4, <1>6 DEF Standing, AtLeaf, Planning, Promoting
  <1>8. SpareOK
    BY <1>1, <1>2, <1>4, <1>5, <1>6 DEF SpareOK
  <1>9. ItemOK
    <2>1. start.max_key = s.max_key /\ start.max_items = s.max_items /\ remaining \in Seq(Pair)
      BY <1>1
    <2> QED BY <1>1, <1>2, <1>4, <2>1 DEF ItemOK
  <1> QED BY <1>7, <1>8, <1>9 DEF TreeInv

(***************************************************************************)
(* One lemma per action.                                                    *)
(***************************************************************************)
LEMMA GrownAlike ==
  ASSUME NEW N, NEW T, NEW tops, NEW top, NEW h, NEW rank, Grown(N, T, tops, top, h, rank),
         NEW l, T \subseteq DOMAIN l,
         \A x \in T : l[x].edges = N[x].edges /\ l[x].parent = N[x].parent /\ l[x].parent_idx = N[x].parent_idx,
         \A x \in T : Len(l[x].kvs) = Len(N[x].kvs)
  PROVE  Grown(l, T, tops, top, h, rank)
  <1>1. Shaped(l, T, tops, rank)
    BY SameShape DEF Grown
  <1> QED BY <1>1 DEF Grown, Sized

Refreshed(N, l) ==
  /\ Table(l) /\ DOMAIN l = DOMAIN N
  /\ \A x \in DOMAIN N : l[x].edges = N[x].edges /\ l[x].parent = N[x].parent /\ l[x].parent_idx = N[x].parent_idx
  /\ \A x \in DOMAIN N : Len(l[x].kvs) = Len(N[x].kvs)

\* A value is replaced in place; an entry is put into a leaf with room.
LEMMA ReplacedIs ==
  ASSUME NEW N, Table(N), NEW a \in DOMAIN N, NEW i \in 1 .. Len(N[a].kvs), NEW kv \in Pair,
         NEW l, l = [N EXCEPT ![a].kvs[i] = kv]
  PROVE  Refreshed(N, l)
  <1>1. N[a] \in NodeRecord /\ N[a].kvs \in Seq(Pair)
    BY RecordIs
  <1>2. PICK k, e, q, j : N[a] = [kvs |-> k, edges |-> e, parent |-> q, parent_idx |-> j]
    BY <1>1 DEF NodeRecord
  <1>3. k = N[a].kvs /\ e = N[a].edges /\ q = N[a].parent /\ j = N[a].parent_idx
    BY <1>2
  <1> DEFINE ks == [k EXCEPT ![i] = kv]
             rec == [kvs |-> ks, edges |-> e, parent |-> q, parent_idx |-> j]
  <1>4. ks \in Seq(Pair) /\ Len(ks) = Len(k)
    BY <1>1, <1>3
  <1> HIDE DEF ks
  <1>5. rec \in NodeRecord /\ rec.kvs = ks /\ rec.edges = e /\ rec.parent = q /\ rec.parent_idx = j
    BY <1>1, <1>2, <1>3, <1>4 DEF NodeRecord, Pair
  <1>6. [N[a] EXCEPT !.kvs = ks] = rec
    BY <1>2
  <1> HIDE DEF rec
  <1>7. l = [N EXCEPT ![a] = rec]
    BY <1>3, <1>6 DEF ks
  <1>8. DOMAIN l = DOMAIN N /\ l[a] = rec /\ \A x \in DOMAIN N : x # a => l[x] = N[x]
    BY <1>7
  <1>9. Table(l)
    <2>1. \A x \in DOMAIN l : l[x] \in NodeRecord
      BY <1>5, <1>8 DEF Table
    <2>2. l = [x \in DOMAIN l |-> l[x]]
      BY <1>7 DEF Table
    <2> QED BY <1>8, <2>1, <2>2 DEF Table
  <1> QED BY <1>3, <1>4, <1>5, <1>8, <1>9 DEF Refreshed

LEMMA LeafPut ==
  ASSUME NEW N, Table(N), NEW T, NEW tops, NEW top, NEW h, NEW rank, Grown(N, T, tops, top, h, rank),
         NEW a \in T, rank[a] = 0, Len(N[a].kvs) < CAPACITY, NEW i \in 0 .. Len(N[a].kvs), NEW kv \in Pair,
         NEW p, p = LeafInsert(N, a, i, kv)
  PROVE  Table(p) /\ DOMAIN p = DOMAIN N /\ Grown(p, T, tops, top, h, rank)
  <1>1. a \in DOMAIN N /\ T \subseteq DOMAIN N /\ Shaped(N, T, tops, rank) /\ Sized(N, T, top)
    BY DEF Grown, Shaped
  <1>2. N[a].kvs \in Seq(Pair) /\ N[a].edges \in Seq(Nodes) /\ i + 1 \in 1 .. Len(N[a].kvs) + 1 /\ Len(N[a].kvs) \in Nat
    BY <1>1, RecordIs
  <1> DEFINE ks == InsertAt(N[a].kvs, i + 1, kv)
  <1>3. ks \in Seq(Pair) /\ Len(ks) = Len(N[a].kvs) + 1
    BY <1>2, InsertAtIs
  <1>4. p = Refilled(N, a, ks, N[a].edges)
    BY DEF LeafInsert
  <1> HIDE DEF ks
  <1>5. /\ DOMAIN p = DOMAIN N /\ Table(p) /\ \A x \in DOMAIN N : x # a => p[x] = N[x]
        /\ p[a].kvs = ks /\ p[a].edges = N[a].edges /\ p[a].parent = N[a].parent /\ p[a].parent_idx = N[a].parent_idx
    BY <1>1, <1>2, <1>3, <1>4, RefilledIs
  <1>6. Shaped(p, T, tops, rank)
    <2>1. \A x \in T : p[x].edges = N[x].edges /\ p[x].parent = N[x].parent /\ p[x].parent_idx = N[x].parent_idx
      BY <1>1, <1>5
    <2>2. \A x \in T : rank[x] = 0 \/ Len(p[x].kvs) = Len(N[x].kvs)
      BY <1>1, <1>5
    <2> QED BY <1>1, <1>5, <2>1, <2>2, SameShape
  <1>7. Sized(p, T, top)
    <2>0. B - 1 \in Nat /\ CAPACITY \in Nat
      BY BAssumption DEF CAPACITY
    <2>1. Len(p[a].kvs) <= CAPACITY
      BY <1>2, <1>3, <1>5, <2>0
    <2>2. a # top => Len(p[a].kvs) >= B - 1
      <3> SUFFICES ASSUME a # top PROVE Len(p[a].kvs) >= B - 1
        OBVIOUS
      <3>1. Len(N[a].kvs) >= B - 1
        BY <1>1 DEF Sized
      <3> QED BY <1>2, <1>3, <1>5, <2>0, <3>1
    <2> QED BY <1>1, <1>5, <2>1, <2>2 DEF Sized
  <1> QED BY <1>5, <1>6, <1>7 DEF Grown

LEMMA ItemInserted == ASSUME ItemOK, NEW a, NEW idx, Inserted(a, idx) PROVE ItemOK'
  BY DEF ItemOK, Inserted, Resting
LEMMA ItemFailed ==
  ASSUME ItemOK, ~Resting, Failed
  PROVE  ItemOK' /\ Resting' /\ UNCHANGED <<root, height>>
  <1>1. remaining' \in Seq(Pair)
    <2>1. <<item>> \in Seq(Pair) /\ remaining \in Seq(Pair) /\ remaining' = <<item>> \o remaining
      BY DEF ItemOK, Failed
    <2> QED BY <2>1, ConcatProperties
  <1> QED BY <1>1 DEF ItemOK, Failed, Resting, history
LEMMA ItemAside == ASSUME ItemOK, ~Resting, UNCHANGED <<remaining, item, start>> PROVE ItemOK'
  BY DEF ItemOK

LEMMA SameRest ==
  ASSUME NEW rank, Rested(rank), UNCHANGED <<node, root, height, leaf_right, current_right>>, reserve'.nodes = reserve.nodes
  PROVE  Rested(rank)'
  BY DEF Rested

LEMMA AskKeeps ==
  ASSUME TreeInv, Resume \/ ExtendReturns \/ \E source \in Sources : Extend(source)
  PROVE  TreeInv'
  <1>1. PICK rank : Standing(rank)
    BY DEF TreeInv
  <1>2. Resting /\ Resting' /\ UNCHANGED <<node, root, height, leaf_right, reserve, current_right>>
    BY DEF Resume, ExtendReturns, Extend, Resting, tree, insert
  <1>3. Rested(rank)'
    BY <1>1, <1>2, RestedIs, PhasesApart, SameRest DEF TreeInv
  <1>4. ItemOK'
    <2>1. CASE ExtendReturns
      BY <1>2, <2>1 DEF TreeInv, ItemOK, ExtendReturns, history
    <2>2. CASE Resume
      BY <1>2, <2>2 DEF TreeInv, ItemOK, Resume
    <2>3. CASE \E source \in Sources : Extend(source)
      BY <1>2, <2>3, SourcesAre DEF TreeInv, ItemOK, Extend
    <2> QED BY <2>1, <2>2, <2>3
  <1> QED BY <1>2, <1>3, <1>4, RestingKeeps

LEMMA OccupiedKeeps == ASSUME TreeInv, Occupied PROVE TreeInv'
  <1>1. PICK rank : Standing(rank)
    BY DEF TreeInv
  <1>2. /\ Resting /\ Resting' /\ root # Null /\ remaining # <<>> /\ remaining' = Tail(remaining)
        /\ UNCHANGED <<root, height, leaf_right, reserve, current_right, item, start>>
    BY DEF Occupied, Resting, insert, arg
  <1>3. Rested(rank)
    BY <1>1, <1>2, RestedIs, PhasesApart DEF TreeInv
  <1>4. /\ Grown(node, DOMAIN node, {root}, root, height, rank) /\ Table(node) /\ height \in Nat
    <2>1. {root} \ {Null} = {root}
      BY <1>2
    <2> QED BY <1>3, <2>1 DEF Rested
  <1>5. Head(remaining) \in Pair /\ remaining' \in Seq(Pair)
    BY <1>2 DEF TreeInv, ItemOK
  <1> DEFINE kv == Head(remaining)
             a == Search(kv[1])
             i == Below(a, kv[1]) + 1
  <1>6. Hit(a, kv[1]) /\ node' = [node EXCEPT ![a].kvs[i] = kv]
    BY DEF Occupied
  <1>7. a \in DOMAIN node /\ Below(a, kv[1]) \in 0 .. Len(node[a].kvs)
    BY <1>2, <1>4, SearchIs
  <1>8. Below(a, kv[1]) < Len(node[a].kvs) /\ Len(node[a].kvs) \in Nat
    BY <1>4, <1>6, <1>7, RecordIs DEF Hit, LenOf
  <1>9. i \in 1 .. Len(node[a].kvs)
    BY <1>7, <1>8
  <1> HIDE DEF kv, a, i
  <1>10. kv \in Pair
    BY <1>5 DEF kv
  <1>11. Refreshed(node, node')
    BY <1>4, <1>6, <1>7, <1>9, <1>10, ReplacedIs
  <1>12. Grown(node', DOMAIN node, {root} \ {Null}, root, height, rank)
    BY <1>3, <1>11, GrownAlike DEF Rested, Refreshed
  <1>13. Rested(rank)'
    BY <1>2, <1>3, <1>11, <1>12 DEF Rested, Refreshed
  <1>14. ItemOK'
    BY <1>2, <1>5 DEF TreeInv, ItemOK
  <1> QED BY <1>2, <1>13, <1>14, RestingKeeps

LEMMA VacantKeeps == ASSUME TreeInv, Vacant PROVE TreeInv'
  <1>1. PICK rank : Standing(rank)
    BY DEF TreeInv
  <1>2. /\ Resting /\ remaining # <<>> /\ remaining' = Tail(remaining) /\ item' = Head(remaining)
        /\ UNCHANGED <<node, root, height, leaf_right, reserve, current_right, start>>
    BY DEF Vacant, Resting, tree, history
  <1>3. Rested(rank) /\ Rested(rank)'
    BY <1>1, <1>2, RestedIs, PhasesApart, SameRest DEF TreeInv
  <1>4. ItemOK'
    BY <1>2 DEF TreeInv, ItemOK
  <1>5. CASE root = Null /\ phase' = "empty"
    <2>1. NothingReserved' /\ ~Placing' /\ ~Planned'
      BY <1>5 DEF NothingReserved, Placing, Planned
    <2>2. AtLeaf(rank)' /\ Planning(rank)'
      BY <2>1 DEF AtLeaf, Planning
    <2> QED BY <1>2, <1>3, <1>4, <1>5, <2>1, <2>2, RestedKeeps
  <1>6. CASE /\ root # Null /\ leaf' = Search(Head(remaining)[1])
             /\ edge_idx' = Below(Search(Head(remaining)[1]), Head(remaining)[1])
             /\ ~Hit(Search(Head(remaining)[1]), Head(remaining)[1])
             /\ phase' = IF HasRoom(Search(Head(remaining)[1])) THEN "fits" ELSE "probe"
    <2> DEFINE k == Head(remaining)[1]
    <2>1. NothingReserved' /\ ~Planned' /\ phase' # "empty" /\ phase' \in {"fits", "probe"}
      BY <1>6 DEF NothingReserved, Planned
    <2>2. Planning(rank)'
      BY <2>1 DEF Planning
    <2>3. Grown(node, DOMAIN node, {root}, root, height, rank) /\ Table(node) /\ height \in Nat
      <3>1. {root} \ {Null} = {root}
        BY <1>6
      <3> QED BY <1>3, <3>1 DEF Rested
    <2>4. /\ Search(k) \in DOMAIN node /\ Below(Search(k), k) \in 0 .. Len(node[Search(k)].kvs)
          /\ Hit(Search(k), k) \/ rank[Search(k)] = 0
      BY <1>6, <2>3, SearchIs
    <2>5. leaf' \in DOMAIN node /\ rank[leaf'] = 0 /\ edge_idx' \in 0 .. Len(node[leaf'].kvs)
      BY <1>6, <2>4
    <2>6. Len(node[leaf'].kvs) <= CAPACITY /\ Len(node[leaf'].kvs) \in Nat /\ CAPACITY \in Nat
      BY <2>3, <2>5, RecordIs, BAssumption DEF Grown, Sized, CAPACITY
    <2>7. phase' = "fits" <=> Len(node[leaf'].kvs) < CAPACITY
      BY <1>6 DEF HasRoom, LenOf
    <2>8. IF phase' = "fits" THEN Len(node[leaf'].kvs) < CAPACITY ELSE Len(node[leaf'].kvs) = CAPACITY
      BY <2>6, <2>7
    <2>9. InTree' = DOMAIN node' => AtLeaf(rank)'
      BY <1>2, <2>5, <2>8 DEF AtLeaf
    <2> QED BY <1>3, <1>4, <2>1, <2>2, <2>9, RestedKeeps
  <1> QED BY <1>5, <1>6 DEF Vacant

LEMMA InsertEmptyKeeps == ASSUME TreeInv, InsertEmpty PROVE TreeInv'
  <1>1. PICK rank : Standing(rank)
    BY DEF TreeInv
  <1>2. phase = "empty" /\ root = Null /\ ~Resting /\ NothingReserved /\ UNCHANGED <<leaf_right, reserve, current_right>>
    BY PhasesApart DEF InsertEmpty, TreeInv, SpareOK
  <1>3. Rested(rank) /\ ItemOK /\ item \in Pair
    BY <1>1, <1>2, RestedIs DEF TreeInv, ItemOK
  <1>4. CASE Failed /\ UNCHANGED node
    <2>1. Rested(rank)'
      BY <1>2, <1>3, <1>4, SameRest DEF Failed
    <2> QED BY <1>2, <1>3, <1>4, <2>1, ItemFailed, RestingKeeps
  <1>5. CASE \E a \in Free : /\ node' = [x \in {a} |-> [FreshNode EXCEPT !.kvs = <<item>>]]
                             /\ root' = a /\ height' = 0 /\ Inserted(a, 0)
    <2>1. PICK a \in Free : /\ node' = [x \in {a} |-> [FreshNode EXCEPT !.kvs = <<item>>]]
                            /\ root' = a /\ height' = 0 /\ Inserted(a, 0)
      BY <1>5
    <2> DEFINE rec == [kvs |-> <<item>>, edges |-> <<>>, parent |-> Null, parent_idx |-> 0]
               zero == [x \in {a} |-> 0]
    <2>2. [FreshNode EXCEPT !.kvs = <<item>>] = rec
      BY DEF FreshNode
    <2>3. rec \in NodeRecord /\ Len(rec.kvs) = 1 /\ Len(rec.edges) = 0 /\ rec.parent = Null
      <3>1. <<item>> \in Seq(Pair) /\ <<>> \in Seq(Nodes)
        BY <1>3
      <3> QED BY <3>1 DEF NodeRecord, Pair
    <2> HIDE DEF rec
    <2>4. node' = [x \in {a} |-> rec] /\ a \in Nodes /\ a # Null
      BY <2>1, <2>2, NullAssumption DEF Free
    <2>5. DOMAIN node' = {a} /\ node'[a] = rec /\ Table(node')
      BY <2>3, <2>4 DEF Table
    <2>6. zero \in [{a} -> Nat] /\ zero \in [{a} -> 0 .. 0] /\ zero[a] = 0
      OBVIOUS
    <2> HIDE DEF zero
    <2>7. Shaped(node', {a}, {a}, zero)
      BY <2>3, <2>5, <2>6 DEF Shaped, EdgesOf
    <2>8. Sized(node', {a}, a)
      <3>1. 1 <= CAPACITY
        BY BAssumption DEF CAPACITY
      <3> QED BY <2>3, <2>5, <3>1 DEF Sized
    <2>9. Grown(node', {a}, {a}, a, 0, zero)
      BY <2>4, <2>6, <2>7, <2>8 DEF Grown
    <2>10. {root'} \ {Null} = {a}
      BY <2>1, <2>4
    <2>11. Rested(zero)'
      BY <1>2, <1>3, <2>1, <2>5, <2>9, <2>10 DEF Rested
    <2>12. Resting'
      BY <2>1 DEF Inserted, Resting
    <2> QED BY <1>3, <2>1, <2>11, <2>12, ItemInserted, RestingKeeps
  <1> QED BY <1>4, <1>5 DEF InsertEmpty

LEMMA InsertFitsKeeps == ASSUME TreeInv, InsertFits PROVE TreeInv'
  <1>1. PICK rank : Standing(rank)
    BY DEF TreeInv
  <1>2. /\ phase = "fits" /\ NothingReserved /\ Placing /\ ~Resting
        /\ node' = LeafInsert(node, leaf, edge_idx, item) /\ Inserted(leaf, edge_idx)
        /\ UNCHANGED <<root, height, leaf_right, reserve, current_right>>
    BY DEF InsertFits, NothingReserved, Placing, Resting
  <1>3. Rested(rank) /\ InTree = DOMAIN node /\ ItemOK /\ item \in Pair
    BY <1>1, <1>2, RestedIs DEF TreeInv, ItemOK
  <1>4. leaf \in DOMAIN node /\ rank[leaf] = 0 /\ edge_idx \in 0 .. Len(node[leaf].kvs) /\ Len(node[leaf].kvs) < CAPACITY
    BY <1>1, <1>2, <1>3 DEF Standing, AtLeaf
  <1>5. /\ Table(node') /\ DOMAIN node' = DOMAIN node
        /\ Grown(node', DOMAIN node, {root} \ {Null}, root, height, rank)
    BY <1>2, <1>3, <1>4, LeafPut DEF Rested
  <1>6. Rested(rank)' /\ Resting'
    BY <1>2, <1>3, <1>5 DEF Rested, Inserted, Resting
  <1> QED BY <1>2, <1>3, <1>6, ItemInserted, RestingKeeps

AllocOf(N, a, l) == l = [x \in DOMAIN N \union {a} |-> IF x = a THEN FreshNode ELSE N[x]]
AllocatedAs(N, a, l) ==
  Table(l) /\ DOMAIN l = DOMAIN N \union {a} /\ l[a] = FreshNode /\ \A x \in DOMAIN N : l[x] = N[x]
LEMMA AllocatedIs ==
  ASSUME NEW N, Table(N), NEW a \in Nodes, a \notin DOMAIN N, NEW l, AllocOf(N, a, l)
  PROVE  AllocatedAs(N, a, l)
  <1>1. FreshNode \in NodeRecord
    <2>1. <<>> \in Seq(Pair) /\ <<>> \in Seq(Nodes)
      OBVIOUS
    <2> QED BY <2>1 DEF FreshNode, NodeRecord, Pair
  <1>2. DOMAIN l = DOMAIN N \union {a} /\ l[a] = FreshNode /\ \A x \in DOMAIN N : l[x] = N[x]
    BY DEF AllocOf
  <1>3. \A x \in DOMAIN l : l[x] \in NodeRecord
    BY <1>1, <1>2 DEF Table
  <1>4. l = [x \in DOMAIN l |-> l[x]]
    BY DEF AllocOf
  <1> QED BY <1>2, <1>3, <1>4 DEF Table, AllocatedAs

LEMMA StandingKept ==
  ASSUME NEW rank, Standing(rank), ~Committing, ~Committing', phase # "fits", phase' # "fits",
         Placing' => Placing, Planned' => Planned,
         InTree' = InTree, InTree \subseteq DOMAIN node', \A x \in InTree : node'[x] = node[x],
         UNCHANGED <<root, height, current_right, leaf, edge_idx, plan>>
  PROVE  Standing(rank)'
  <1>1. Grown(node', InTree, Tops, root, height, rank)
    BY GrownSame DEF Standing
  <1>2. Tops' = Tops
    BY DEF Tops
  <1>3. AtLeaf(rank)'
    BY DEF Standing, AtLeaf
  <1>4. Planning(rank)'
    <2>1. ASSUME Planned, NEW i \in 1 .. Len(plan.internals) PROVE StopAt(node', InTree, rank, plan.internals, i)
      <3>1. StopAt(node, InTree, rank, plan.internals, i)
        BY <2>1 DEF Standing, Planning
      <3> QED BY <3>1 DEF StopAt
    <2> QED BY <2>1 DEF Standing, Planning
  <1> QED BY <1>1, <1>2, <1>3, <1>4 DEF Standing, Promoting

\* What is reserved before the commit is freed.
LEMMA RollbackKeeps ==
  ASSUME TreeInv, Rollback, phase \in {"buffer", "internals"}, UNCHANGED current_right
  PROVE  TreeInv'
  <1>1. PICK rank : Standing(rank)
    BY DEF TreeInv
  <1>2. ~Resting /\ ~Committing /\ ~NothingReserved
    BY DEF Resting, Committing, NothingReserved
  <1>3. /\ leaf_right # Null /\ current_right = Null /\ Table(node) /\ height \in Nat
    BY <1>2 DEF TreeInv, SpareOK
  <1>4. Spare = {leaf_right} \union ToSet(reserve.nodes) /\ Tops = {root} \ {Null}
    BY <1>2, <1>3 DEF Spare, Tops
  <1>5. node' = [x \in InTree |-> node[x]] /\ DOMAIN node' = InTree
    BY <1>4 DEF Rollback, Released, InTree
  <1>6. Table(node')
    <2>1. \A x \in InTree : node'[x] \in NodeRecord
      BY <1>3, <1>5 DEF Table, InTree
    <2>2. InTree \subseteq Nodes
      BY <1>3 DEF Table, InTree
    <2> QED BY <1>5, <2>1, <2>2 DEF Table
  <1>7. Grown(node', InTree, {root} \ {Null}, root, height, rank)
    BY <1>1, <1>4, <1>5, GrownSame DEF Standing
  <1>8. ItemOK' /\ Resting' /\ UNCHANGED <<root, height>>
    BY <1>2, ItemFailed DEF Rollback, TreeInv
  <1>9. Rested(rank)'
    BY <1>3, <1>5, <1>6, <1>7, <1>8 DEF Rested, Rollback, NoReserve
  <1> QED BY <1>8, <1>9, RestingKeeps

LEMMA ProbeKeeps == ASSUME TreeInv, Probe PROVE TreeInv'
  <1>1. PICK rank : Standing(rank)
    BY DEF TreeInv
  <1>2. /\ phase = "probe" /\ NothingReserved /\ Placing /\ ~Resting
        /\ UNCHANGED <<node, leaf_right, reserve, current_right>>
    BY DEF Probe, NothingReserved, Placing, Resting
  <1>3. Rested(rank) /\ InTree = DOMAIN node /\ ItemOK
    BY <1>1, <1>2, RestedIs DEF TreeInv
  <1>4. CASE Failed
    <2>1. ItemOK' /\ Resting' /\ UNCHANGED <<root, height>>
      BY <1>2, <1>3, <1>4, ItemFailed
    <2>2. Rested(rank)'
      BY <1>2, <1>3, <2>1, SameRest
    <2> QED BY <2>1, <2>2, RestingKeeps
  <1>5. CASE /\ phase' = "leaf" /\ UNCHANGED <<remaining, arg, root, height, length, history>>
             /\ plan' = [leaf_sp |-> SplitPoint(edge_idx).sp, right |-> SplitPoint(edge_idx).right,
                         idx |-> SplitPoint(edge_idx).idx, internals |-> Path,
                         new_root |-> \A i \in 1 .. Len(Path) : Path[i].will_split,
                         cap |-> Capacity(probe_buf, Len(Path))]
    <2>1. Rested(rank)'
      BY <1>2, <1>3, <1>5, SameRest
    <2>2. ItemOK'
      BY <1>2, <1>3, <1>5 DEF ItemOK, arg, history, Resting
    <2>3. /\ leaf \in DOMAIN node /\ rank[leaf] = 0 /\ edge_idx \in 0 .. Len(node[leaf].kvs)
          /\ Len(node[leaf].kvs) = CAPACITY
      BY <1>1, <1>2, <1>3 DEF Standing, AtLeaf
    <2>4. NothingReserved' /\ phase' # "empty" /\ ~Committing' /\ UNCHANGED <<leaf, edge_idx, root, height>>
      BY <1>5 DEF NothingReserved, Committing, arg
    <2>5. Grown(node, DOMAIN node, {root}, root, height, rank) /\ Table(node) /\ height \in Nat /\ root # Null
      <3>1. root # Null
        BY <1>3, <2>3 DEF Rested, Grown
      <3>2. {root} \ {Null} = {root}
        BY <3>1
      <3> QED BY <1>3, <3>1, <3>2 DEF Rested
    <2>6. /\ PathOK(node, DOMAIN node, rank, Path)
          /\ (\A i \in 1 .. Len(Path) : Path[i].will_split) => Len(Path) = height
      BY <2>3, <2>5, PathIs
    <2>7. /\ plan'.internals = Path /\ plan'.leaf_sp = SplitPoint(edge_idx).sp
          /\ plan'.right = SplitPoint(edge_idx).right /\ plan'.idx = SplitPoint(edge_idx).idx
          /\ plan'.new_root = \A i \in 1 .. Len(Path) : Path[i].will_split
      <3> HIDE DEF Path
      <3> QED BY <1>5
    <2>8. InTree' = DOMAIN node' => AtLeaf(rank)' /\ Planning(rank)'
      <3> SUFFICES ASSUME InTree' = DOMAIN node' PROVE AtLeaf(rank)' /\ Planning(rank)'
        OBVIOUS
      <3>1. InTree' = DOMAIN node /\ node' = node
        BY <1>2
      <3>2. AtLeaf(rank)'
        BY <1>5, <2>3, <2>4, <3>1 DEF AtLeaf
      <3>3. Planning(rank)'
        BY <2>4, <2>6, <2>7, <3>1 DEF Planning, PathOK
      <3> QED BY <3>2, <3>3
    <2> QED BY <2>1, <2>2, <2>4, <2>8, RestedKeeps
  <1> QED BY <1>4, <1>5 DEF Probe

LEMMA ReserveLeafKeeps == ASSUME TreeInv, ReserveLeaf PROVE TreeInv'
  <1>1. PICK rank : Standing(rank)
    BY DEF TreeInv
  <1>2. /\ phase = "leaf" /\ NothingReserved /\ Placing /\ ~Resting /\ Planned /\ ~Committing
        /\ UNCHANGED <<reserve, current_right>>
    BY DEF ReserveLeaf, NothingReserved, Placing, Resting, Planned, Committing
  <1>3. Rested(rank) /\ InTree = DOMAIN node /\ ItemOK
    BY <1>1, <1>2, RestedIs DEF TreeInv
  <1>4. CASE Failed /\ UNCHANGED <<node, leaf_right>>
    <2>1. ItemOK' /\ Resting' /\ UNCHANGED <<root, height>>
      BY <1>2, <1>3, <1>4, ItemFailed
    <2>2. Rested(rank)'
      BY <1>2, <1>3, <1>4, <2>1, SameRest
    <2> QED BY <2>1, <2>2, RestingKeeps
  <1>5. CASE \E a \in Free : /\ Allocated(a) /\ leaf_right' = a /\ phase' = "buffer"
                             /\ UNCHANGED <<remaining, arg, root, height, length, plan, probe_buf, history>>
    <2>1. PICK a \in Free : /\ Allocated(a) /\ leaf_right' = a /\ phase' = "buffer"
                            /\ UNCHANGED <<remaining, arg, root, height, length, plan, probe_buf, history>>
      BY <1>5
    <2>2. a \in Nodes /\ a \notin DOMAIN node /\ a # Null
      BY NullAssumption DEF Free
    <2>3. Table(node') /\ DOMAIN node' = DOMAIN node \union {a} /\ node'[a] = FreshNode /\ \A x \in DOMAIN node : node'[x] = node[x]
      <3>1. Table(node) /\ AllocOf(node, a, node')
        BY <1>3, <2>1 DEF Rested, Allocated, AllocOf
      <3>2. AllocatedAs(node, a, node')
        BY <2>2, <3>1, AllocatedIs
      <3> QED BY <3>2 DEF AllocatedAs
    <2>4. reserve.nodes = <<>> /\ ToSet(reserve.nodes) = {} /\ current_right = Null
      BY <1>3 DEF Rested, ToSet
    <2>5. ~Committing' /\ ~NothingReserved' /\ ~Resting' /\ Placing' /\ Planned'
      BY <2>1 DEF Committing, NothingReserved, Resting, Placing, Planned
    <2>6. Spare' = {a} /\ InTree' = DOMAIN node
      <3>1. ToSet(reserve'.nodes) = {}
        BY <1>2, <2>4
      <3>2. Spare' = {a}
        BY <2>1, <2>2, <2>5, <3>1 DEF Spare
      <3> QED BY <2>2, <2>3, <3>2 DEF InTree
    <2>7. SpareOK'
      <3>1. reserve'.nodes \in Seq(DOMAIN node') /\ Len(reserve'.nodes) = 0 /\ ToSet(reserve'.nodes) = {}
        BY <1>2, <2>4
      <3> QED BY <1>2, <1>3, <2>1, <2>2, <2>3, <2>4, <2>5, <2>6, <3>1 DEF SpareOK, Rested
    <2>8. ItemOK'
      BY <1>2, <1>3, <2>1, ItemAside DEF arg, history
    <2>9. Standing(rank)'
      BY <1>1, <1>2, <1>3, <2>1, <2>3, <2>5, <2>6, StandingKept DEF arg
    <2> QED BY <2>7, <2>8, <2>9 DEF TreeInv
  <1> QED BY <1>4, <1>5 DEF ReserveLeaf

LEMMA ReserveBufferKeeps == ASSUME TreeInv, ReserveBuffer PROVE TreeInv'
  <1>1. PICK rank : Standing(rank)
    BY DEF TreeInv
  <1>2. phase = "buffer" /\ ~NothingReserved /\ Placing /\ ~Resting /\ Planned /\ ~Committing /\ UNCHANGED current_right
    BY DEF ReserveBuffer, NothingReserved, Placing, Resting, Planned, Committing
  <1>3. CASE Rollback
    BY <1>2, <1>3, RollbackKeeps
  <1>4. CASE /\ reserve' = [nodes |-> <<>>, cap |-> Capacity(reserve_buf, NumReserved)]
             /\ phase' = "internals"
             /\ UNCHANGED <<tree, remaining, arg, plan, leaf_right, probe_buf, history>>
    <2>1. reserve'.nodes = <<>> /\ reserve.nodes = <<>>
      BY <1>2, <1>4 DEF TreeInv, SpareOK
    <2>2. ~Committing' /\ ~NothingReserved' /\ ~Resting' /\ Placing' /\ Planned' /\ phase' # "empty"
      BY <1>4 DEF Committing, NothingReserved, Resting, Placing, Planned
    <2>3. Spare' = Spare /\ InTree' = InTree /\ UNCHANGED <<node, root, height, leaf, edge_idx, item, remaining, start>>
      BY <1>2, <1>4, <2>1, <2>2 DEF Spare, InTree, tree, arg, history
    <2>4. SpareOK'
      BY <1>2, <1>4, <2>1, <2>2, <2>3 DEF TreeInv, SpareOK
    <2>5. Standing(rank)'
      <3>1. InTree \subseteq DOMAIN node'
        BY <2>3 DEF InTree
      <3> QED BY <1>1, <1>2, <1>4, <2>2, <2>3, <3>1, StandingKept
    <2>6. ItemOK'
      BY <1>2, <2>3, ItemAside DEF TreeInv
    <2> QED BY <2>4, <2>5, <2>6 DEF TreeInv
  <1> QED BY <1>3, <1>4 DEF ReserveBuffer

LEMMA ReserveInternalKeeps == ASSUME TreeInv, ReserveInv, ReserveInternal PROVE TreeInv'
  <1>1. PICK rank : Standing(rank)
    BY DEF TreeInv
  <1>2. phase = "internals" /\ ~NothingReserved /\ Placing /\ ~Resting /\ Planned /\ ~Committing /\ UNCHANGED current_right
    BY DEF ReserveInternal, NothingReserved, Placing, Resting, Planned, Committing
  <1>3. CASE Rollback
    BY <1>2, <1>3, RollbackKeeps
  <1>4. CASE \E a \in Free : /\ Allocated(a) /\ reserve' = [reserve EXCEPT !.nodes = Append(@, a)]
                             /\ UNCHANGED <<remaining, arg, phase, root, height, length, plan, leaf_right, probe_buf,
                                            reserve_buf, history>>
    <2>1. PICK a \in Free : /\ Allocated(a) /\ reserve' = [reserve EXCEPT !.nodes = Append(@, a)]
                            /\ UNCHANGED <<remaining, arg, phase, root, height, length, plan, leaf_right, probe_buf,
                                           reserve_buf, history>>
      BY <1>4
    <2>2. a \in Nodes /\ a \notin DOMAIN node /\ a # Null
      BY NullAssumption DEF Free
    <2>3. Table(node') /\ DOMAIN node' = DOMAIN node \union {a} /\ node'[a] = FreshNode /\ \A x \in DOMAIN node : node'[x] = node[x]
      <3>1. Table(node) /\ AllocOf(node, a, node')
        BY <2>1 DEF TreeInv, SpareOK, Allocated, AllocOf
      <3>2. AllocatedAs(node, a, node')
        BY <2>2, <3>1, AllocatedIs
      <3> QED BY <3>2 DEF AllocatedAs
    <2>4. reserve'.nodes = Append(reserve.nodes, a)
      <3>1. PICK c : reserve = [nodes |-> reserve.nodes, cap |-> c]
        BY DEF ReserveInv
      <3>2. reserve' = [reserve EXCEPT !.nodes = Append(reserve.nodes, a)]
        BY <2>1
      <3>3. \A s : [reserve EXCEPT !.nodes = s] = [nodes |-> s, cap |-> c]
        BY <3>1
      <3>4. reserve' = [nodes |-> Append(reserve.nodes, a), cap |-> c]
        BY <3>2, <3>3, Zenon
      <3> QED BY <3>4
    <2> DEFINE R == reserve.nodes
    <2>5. R \in Seq(DOMAIN node) /\ \A i, j \in 1 .. Len(R) : R[i] = R[j] => i = j
      BY DEF TreeInv, SpareOK
    <2> HIDE DEF R
    <2>6. R \in Seq(DOMAIN node')
      BY <2>3, <2>5
    <2> DEFINE Q == Append(R, a)
    <2>7. Q \in Seq(DOMAIN node') /\ Len(Q) = Len(R) + 1 /\ Q[Len(R) + 1] = a /\ \A i \in 1 .. Len(R) : Q[i] = R[i] /\ Q[i] \in DOMAIN node
      BY <2>3, <2>5, <2>6
    <2> HIDE DEF Q
    <2>8. \A i, j \in 1 .. Len(Q) : Q[i] = Q[j] => i = j
      <3> SUFFICES ASSUME NEW i \in 1 .. Len(Q), NEW j \in 1 .. Len(Q), Q[i] = Q[j] PROVE i = j
        OBVIOUS
      <3>1. (i \in 1 .. Len(R) \/ i = Len(R) + 1) /\ (j \in 1 .. Len(R) \/ j = Len(R) + 1)
        BY <2>5, <2>7
      <3> QED BY <2>2, <2>5, <2>7, <3>1
    <2>9. ToSet(Q) = ToSet(R) \union {a}
      <3>1. ToSet(Q) = {Q[i] : i \in 1 .. Len(Q)} /\ ToSet(R) = {R[i] : i \in 1 .. Len(R)}
        BY <2>5, <2>7 DEF ToSet
      <3>2. 1 .. Len(Q) = (1 .. Len(R)) \union {Len(R) + 1}
        BY <2>5, <2>7
      <3> QED BY <2>7, <3>1, <3>2
    <2>10. Spare' = Spare \union {a} /\ InTree' = InTree
      <3>1. Spare' = Spare \union {a}
        BY <1>2, <2>1, <2>4, <2>9 DEF Spare, R, Q, Committing
      <3> QED BY <2>2, <2>3, <3>1 DEF InTree
    <2>11. ~Committing' /\ ~NothingReserved' /\ ~Resting' /\ Placing' /\ Planned' /\ phase' = "internals"
      BY <1>2, <2>1 DEF Committing, NothingReserved, Resting, Placing, Planned
    <2>12. SpareOK'
      <3>1. leaf_right' \in DOMAIN node' \union {Null} /\ leaf_right' \notin ToSet(reserve'.nodes) /\ leaf_right' # Null
        BY <1>2, <2>1, <2>2, <2>3, <2>4, <2>9 DEF TreeInv, SpareOK, Q, R
      <3>2. \A x \in Spare' : node'[x] = FreshNode
        <4>1. \A x \in Spare : x \in DOMAIN node /\ node[x] = FreshNode
          <5>1. \A x \in ToSet(R) : x \in DOMAIN node
            BY <2>5 DEF ToSet
          <5>2. \A x \in Spare : x \in DOMAIN node
            BY <1>2, <5>1 DEF Spare, TreeInv, SpareOK, R
          <5> QED BY <5>2 DEF TreeInv, SpareOK
        <4> QED BY <2>3, <2>10, <4>1
      <3>3. current_right' = Null /\ height' \in Nat
        BY <1>2, <2>1 DEF TreeInv, SpareOK
      <3>4. reserve'.nodes = Q
        BY <2>4 DEF Q, R
      <3> QED BY <2>3, <2>7, <2>8, <2>11, <3>1, <3>2, <3>3, <3>4 DEF SpareOK
    <2>13. ItemOK'
      BY <1>2, <2>1, ItemAside DEF TreeInv, arg, history
    <2>14. Standing(rank)'
      <3>1. InTree \subseteq DOMAIN node' /\ \A x \in InTree : node'[x] = node[x]
        BY <2>3 DEF InTree
      <3> QED BY <1>1, <1>2, <2>1, <2>10, <2>11, <3>1, StandingKept DEF arg
    <2> QED BY <2>12, <2>13, <2>14 DEF TreeInv
  <1> QED BY <1>3, <1>4 DEF ReserveInternal

LEMMA DrainKeeps == ASSUME TreeInv, Drain PROVE TreeInv'
  <1>1. PICK rank : Standing(rank)
    BY DEF TreeInv
  <1>2. /\ phase = "internals" /\ ~NothingReserved /\ Placing /\ ~Resting /\ Planned /\ ~Committing
        /\ level' = 1 /\ phase' \in {"commit", "aborted"}
        /\ UNCHANGED <<node, root, height, remaining, item, leaf, edge_idx, plan, leaf_right, reserve, current_right, start>>
    BY DEF Drain, NothingReserved, Placing, Resting, Planned, Committing, tree, arg, history
  <1>3. ~Committing' /\ ~NothingReserved' /\ ~Resting' /\ phase' \notin {"empty", "buffer", "fits"}
    BY <1>2 DEF Committing, NothingReserved, Resting
  <1>4. Spare' = Spare /\ InTree' = InTree
    BY <1>2, <1>3 DEF Spare, InTree
  <1>5. SpareOK'
    BY <1>2, <1>3, <1>4 DEF TreeInv, SpareOK
  <1>6. Standing(rank)'
    <2>1. InTree \subseteq DOMAIN node'
      BY <1>2 DEF InTree
    <2> QED BY <1>1, <1>2, <1>3, <1>4, <2>1, StandingKept
  <1>7. ItemOK'
    BY <1>2, ItemAside DEF TreeInv
  <1> QED BY <1>5, <1>6, <1>7 DEF TreeInv

\* Node a has been split, the new node b is the one to promote next.
LEMMA SplitStands ==
  ASSUME SpareOK, NEW rank, Standing(rank), Planned, root # Null,
         NEW a \in InTree, a # current_right, NEW b \in DOMAIN node, b \notin InTree, b # Null,
         Split(node, node', InTree, a, b),
         NEW r2, r2 = Ranked(rank, InTree, b, rank[a]),
         Grown(node', InTree \union {b}, {root, b}, root, height, r2),
         phase' = "promote", level' \in 1 .. Len(plan.internals) + 1, rank[a] = level' - 1,
         \A i \in 1 .. Len(plan.internals) : i >= level' => StopAt(node, InTree, rank, plan.internals, i),
         \A i \in 1 .. Len(plan.internals) : i < level' => plan.internals[i].will_split,
         current_kv' \in Pair, current_right' = b, InTree' = InTree \union {b},
         UNCHANGED <<root, height, plan>>
  PROVE  Standing(r2)'
  <1>1. Committing' /\ ~Placing' /\ Planned'
    BY DEF Committing, Placing, Planned
  <1>2. Table(node) /\ height \in Nat /\ Grown(node, InTree, Tops, root, height, rank)
    BY DEF SpareOK, Standing
  <1>3. root \in InTree /\ rank \in [InTree -> 0 .. height] /\ InTree \subseteq DOMAIN node
    BY <1>2 DEF Grown, Shaped
  <1>4. r2[b] = rank[a] /\ \A x \in InTree : r2[x] = rank[x]
    BY DEF Ranked
  <1>5. Tops' = {root', b}
    BY <1>3 DEF Tops
  <1>6. plan.internals \in Seq(Stops) /\ Len(plan.internals) \in Nat
    BY DEF Standing, Planning
  <1>7. Planning(r2)'
    <2>1. ASSUME NEW i \in 1 .. Len(plan.internals), i >= level'
          PROVE  StopAt(node', InTree', r2, plan.internals, i)
      <3> DEFINE x == plan.internals[i].ptr
      <3>1. StopAt(node, InTree, rank, plan.internals, i)
        BY <2>1
      <3>2. x \in InTree /\ rank[x] = i
        BY <3>1 DEF StopAt
      <3>3. x # a
        BY <1>6, <2>1, <3>2
      <3>4. node'[x].kvs = node[x].kvs /\ r2[x] = rank[x] /\ x \in InTree'
        BY <1>4, <3>2, <3>3 DEF Split
      <3> QED BY <3>1, <3>4 DEF StopAt
    <2>2. /\ plan.internals \in Seq(Stops)
          /\ \A i \in 1 .. Len(plan.internals) : i # Len(plan.internals) => plan.internals[i].will_split
          /\ plan.new_root = \A i \in 1 .. Len(plan.internals) : plan.internals[i].will_split
          /\ plan.new_root => Len(plan.internals) = height
      BY DEF Standing, Planning
    <2> QED BY <1>1, <2>1, <2>2 DEF Planning
  <1>8. Promoting(r2)'
    <2>1. b # root /\ r2[b] = level' - 1
      BY <1>3, <1>4
    <2>2. height = level' - 1 => Len(node'[root].kvs) >= B - 1
      <3> SUFFICES ASSUME height = level' - 1 PROVE Len(node'[root].kvs) >= B - 1
        OBVIOUS
      <3>1. a \in Tops
        BY <1>2, HighestIs
      <3>2. a = root
        BY <3>1 DEF Tops
      <3> QED BY <3>2 DEF Split
    <2> QED BY <1>1, <2>1, <2>2 DEF Promoting
  <1>9. AtLeaf(r2)'
    BY <1>1 DEF AtLeaf
  <1>10. Grown(node', InTree', Tops', root', height', r2)
    BY <1>5
  <1> QED BY <1>7, <1>8, <1>9, <1>10 DEF Standing

LEMMA CommitLeafKeeps == ASSUME TreeInv, CommitLeaf PROVE TreeInv'
  <1>1. PICK rank : Standing(rank)
    BY DEF TreeInv
  <1>2. /\ phase = "commit" /\ ~NothingReserved /\ Placing /\ ~Resting /\ Planned /\ ~Committing
        /\ phase' = "promote" /\ Committing' /\ ~NothingReserved' /\ ~Resting' /\ current_right' = leaf_right
        /\ UNCHANGED <<root, height, remaining, item, leaf, edge_idx, plan, leaf_right, reserve, start, level>>
    BY DEF CommitLeaf, NothingReserved, Placing, Resting, Planned, Committing, arg, history
  <1>0. PICK a, b : a = leaf /\ b = leaf_right
    OBVIOUS
  <1> DEFINE half == IF SplitPoint(edge_idx).right THEN b ELSE a
             m == MoveRightHalf(node, a, b, SplitPoint(edge_idx).sp)
  <1>r. PICK r2 : r2 = Ranked(rank, InTree, b, rank[a])
    OBVIOUS
  <1> USE <1>0
  <1>3. /\ Table(node) /\ height \in Nat /\ current_right = Null /\ level = 1
        /\ reserve.nodes \in Seq(DOMAIN node) /\ b \in DOMAIN node /\ b # Null /\ b \notin ToSet(reserve.nodes)
        /\ \A x \in Spare : node[x] = FreshNode
    BY <1>2 DEF TreeInv, SpareOK
  <1>4. Spare = ToSet(reserve.nodes) \union {b} /\ Tops = {root} \ {Null}
    BY <1>2, <1>3 DEF Spare, Tops
  <1>5. /\ leaf \in InTree /\ rank[leaf] = 0 /\ edge_idx \in 0 .. Len(node[leaf].kvs) /\ Len(node[leaf].kvs) = CAPACITY
    BY <1>1, <1>2 DEF Standing, AtLeaf
  <1>6. /\ plan.leaf_sp = SplitPoint(edge_idx).sp /\ plan.right = SplitPoint(edge_idx).right
        /\ plan.idx = SplitPoint(edge_idx).idx
    BY <1>1, <1>2 DEF Standing, Planning
  <1>7. node' = LeafInsert(m, half, SplitPoint(edge_idx).idx, item) /\ current_kv' = node[a].kvs[SplitPoint(edge_idx).sp + 1]
    BY <1>6 DEF CommitLeaf
  <1>8. root # Null /\ Grown(node, InTree, {root}, root, height, rank) /\ InTree \subseteq DOMAIN node
    <2>1. Grown(node, InTree, Tops, root, height, rank)
      BY <1>1 DEF Standing
    <2>2. root # Null
      BY <1>5, <2>1 DEF Grown
    <2>3. Tops = {root}
      BY <1>4, <2>2
    <2> QED BY <2>1, <2>2, <2>3 DEF InTree
  <1>9. b \notin InTree /\ node[b].parent = Null /\ item \in Pair
    BY <1>2, <1>3, <1>4 DEF InTree, FreshNode, TreeInv, ItemOK
  <1>10. Split(node, node', InTree, a, b) /\ Grown(node', InTree \union {b}, {root, b}, root, height, r2)
    <2>1. edge_idx \in 0 .. CAPACITY
      BY <1>5
    <2> HIDE DEF half, m
    <2>2. Split(node, node', InTree, a, b) /\ Grown(node', InTree \union {b}, {root, b}, root, height, Ranked(rank, InTree, b, 0))
      BY <1>3, <1>5, <1>7, <1>8, <1>9, <2>1, LeafSplit DEF half, m
    <2> QED BY <1>5, <1>r, <2>2
  <1> HIDE DEF half, m
  <1>11. InTree' = InTree \union {b}
    <2>1. Spare' = ToSet(reserve.nodes)
      BY <1>2 DEF Spare
    <2>2. DOMAIN node' = DOMAIN node
      BY <1>10 DEF Split
    <2> QED BY <1>3, <1>4, <2>1, <2>2 DEF InTree
  <1>12. current_kv' \in Pair
    <2>1. node[a].kvs \in Seq(Pair) /\ Len(node[a].kvs) = CAPACITY /\ CAPACITY \in Nat
      BY <1>3, <1>5, <1>8, RecordIs, BAssumption DEF CAPACITY
    <2>2. SplitPoint(edge_idx).sp \in 0 .. CAPACITY - 1
      BY <1>5, SplitBalanced DEF LeftOf
    <2>3. SplitPoint(edge_idx).sp + 1 \in 1 .. CAPACITY
      BY <2>1, <2>2
    <2> QED BY <1>7, <2>1, <2>3
  <1>13. Standing(r2)'
    <2>1. Len(plan.internals) \in Nat
      BY <1>1, <1>2 DEF Standing, Planning
    <2>2. level' \in 1 .. Len(plan.internals) + 1 /\ rank[a] = level' - 1
      BY <1>2, <1>3, <1>5, <2>1
    <2>3. \A i \in 1 .. Len(plan.internals) : StopAt(node, InTree, rank, plan.internals, i)
      BY <1>1, <1>2 DEF Standing, Planning
    <2>4. \A i \in 1 .. Len(plan.internals) : i < level' => plan.internals[i].will_split
      BY <1>2, <1>3, <2>1
    <2>5. a \in InTree /\ a # current_right /\ SpareOK
      BY <1>3, <1>5, <1>8, RecordIs DEF TreeInv
    <2>6. b \in DOMAIN node /\ b # Null /\ current_right' = b
      BY <1>2, <1>3
    <2> QED BY <1>1, <1>r, <1>2, <1>8, <1>9, <1>10, <1>11, <1>12, <2>2, <2>3, <2>4, <2>5, <2>6, SplitStands
  <1>14. SpareOK'
    <2>1. Spare' = ToSet(reserve.nodes) /\ Table(node') /\ DOMAIN node' = DOMAIN node
      BY <1>2, <1>10 DEF Spare, Split
    <2>2. \A x \in Spare' : node'[x] = FreshNode
      <3> SUFFICES ASSUME NEW x \in ToSet(reserve.nodes) PROVE node'[x] = FreshNode
        BY <2>1
      <3>1. x \in DOMAIN node
        BY <1>3 DEF ToSet
      <3>2. x \notin InTree \union {b} /\ node[x] = FreshNode
        BY <1>3, <1>4 DEF InTree
      <3> QED BY <1>10, <3>1, <3>2 DEF Split
    <2> QED BY <1>2, <1>3, <2>1, <2>2 DEF TreeInv, SpareOK
  <1>15. ItemOK'
    BY <1>2, ItemAside DEF TreeInv
  <1> QED BY <1>13, <1>14, <1>15 DEF TreeInv

LEMMA PromotingIs ==
  ASSUME SpareOK, ReserveInv, NEW rank, Standing(rank), phase = "promote"
  PROVE  /\ root # Null /\ root \in Nodes /\ current_right \in Nodes /\ current_right # root /\ Table(node) /\ height \in Nat
         /\ Grown(node, InTree, {root, current_right}, root, height, rank)
         /\ current_kv \in Pair /\ rank[current_right] = level - 1
         /\ Len(plan.internals) \in Nat /\ level \in 1 .. Len(plan.internals) + 1
         /\ Spare = ToSet(reserve.nodes) /\ InTree = DOMAIN node \ ToSet(reserve.nodes)
         /\ reserve.nodes \in Seq(DOMAIN node) /\ Len(reserve.nodes) = Needed(level)
         /\ height = level - 1 => Len(node[root].kvs) >= B - 1
         /\ ~Resting /\ Planned /\ Committing /\ ~Placing /\ ~NothingReserved
  <1>1. ~Resting /\ Planned /\ Committing /\ ~Placing /\ ~NothingReserved
    BY DEF Resting, Planned, Committing, Placing, NothingReserved
  <1>2. /\ current_kv \in Pair /\ rank[current_right] = level - 1 /\ level \in 1 .. Len(plan.internals) + 1
        /\ current_right # Null /\ current_right # root
        /\ height = level - 1 => Len(node[root].kvs) >= B - 1
        /\ Grown(node, InTree, Tops, root, height, rank)
    BY <1>1 DEF Standing, Promoting
  <1>3. root # Null
    <2>1. current_right \in InTree
      BY <1>2 DEF Grown, Shaped, Tops
    <2> QED BY <1>2, <2>1 DEF Grown
  <1>4. Tops = {root, current_right}
    BY <1>2, <1>3 DEF Tops
  <1>5. Table(node) /\ height \in Nat /\ reserve.nodes \in Seq(DOMAIN node)
    BY DEF SpareOK
  <1>6. Spare = ToSet(reserve.nodes)
    BY <1>1 DEF Spare
  <1>7. root \in Nodes /\ current_right \in Nodes
    <2>1. root \in DOMAIN node /\ current_right \in DOMAIN node
      BY <1>2, <1>4 DEF Grown, Shaped
    <2> QED BY <1>5, <2>1 DEF Table
  <1> QED BY <1>1, <1>2, <1>3, <1>4, <1>5, <1>6, <1>7 DEF ReserveInv, InTree

LEMMA AbsorbKeeps == ASSUME TreeInv, ReserveInv, Absorb PROVE TreeInv'
  <1>1. PICK rank : Standing(rank)
    BY DEF TreeInv
  <1> DEFINE N == Len(plan.internals)
  <1>0. PICK a, i : a = Promotion.ptr /\ i = Promotion.child_idx
    OBVIOUS
  <1>2. /\ phase = "promote" /\ level <= N /\ ~plan.internals[level].will_split /\ Finished /\ UNCHANGED <<root, height>>
        /\ node' = Relinked(InternalInsert(node, a, i, current_kv, current_right), a, i + 1, Len(node[a].kvs) + 1)
    BY <1>0 DEF Absorb, Promotion, LenOf
  <1>3. /\ root # Null /\ current_right # root /\ Table(node) /\ height \in Nat
        /\ Grown(node, InTree, {root, current_right}, root, height, rank)
        /\ current_kv \in Pair /\ rank[current_right] = level - 1
        /\ Len(plan.internals) \in Nat /\ level \in 1 .. Len(plan.internals) + 1
        /\ InTree = DOMAIN node \ ToSet(reserve.nodes)
        /\ reserve.nodes \in Seq(DOMAIN node) /\ Len(reserve.nodes) = Needed(level)
        /\ ~Resting /\ Planned /\ Committing
    BY <1>1, <1>2, PromotingIs DEF TreeInv
  <1>4. level \in 1 .. N /\ level = N
    <2>1. level \in 1 .. N
      BY <1>2, <1>3
    <2>2. \A j \in 1 .. N : j # N => plan.internals[j].will_split
      BY <1>1, <1>3 DEF Standing, Planning
    <2> QED BY <1>2, <2>1, <2>2
  <1>5. StopAt(node, InTree, rank, plan.internals, level) /\ plan.internals[level] \in Stops /\ ~plan.new_root
    <2>1. Planning(rank) /\ level >= level
      BY <1>1, <1>3 DEF Standing
    <2>2. StopAt(node, InTree, rank, plan.internals, level)
      BY <1>3, <1>4, <2>1 DEF Planning
    <2>3. plan.internals \in Seq(Stops) /\ ~plan.new_root
      BY <1>2, <1>3, <1>4, <2>1 DEF Planning
    <2> QED BY <1>4, <2>2, <2>3
  <1>6. /\ a \in InTree /\ rank[a] = level /\ i \in Nat /\ i <= Len(node[a].kvs) /\ Len(node[a].kvs) < CAPACITY
    <2>1. plan.internals[level].child_idx \in Nat
      BY <1>5 DEF Stops
    <2> QED BY <1>0, <1>2, <1>5, <2>1 DEF StopAt, Promotion
  <1>7. reserve.nodes = <<>>
    <2>1. Splits(level) = {}
      BY <1>2, <1>4 DEF Splits
    <2>2. Needed(level) = 0
      BY <1>5, <2>1, FS_EmptySet DEF Needed
    <2> QED BY <1>3, <2>2
  <1>8. InTree = DOMAIN node
    <2>1. ToSet(reserve.nodes) = {}
      BY <1>7 DEF ToSet
    <2> QED BY <1>3, <2>1
  <1> HIDE DEF N
  <1>9. /\ Table(node') /\ DOMAIN node' = DOMAIN node
        /\ Grown(node', InTree, {root}, root, height, rank)
    <2>1. rank[a] # 0 /\ rank[current_right] = rank[a] - 1 /\ Roomy(node, a, i)
      BY <1>3, <1>6 DEF Roomy
    <2>2. PICK f : f = InternalInsert(node, a, i, current_kv, current_right)
      OBVIOUS
    <2>3. Absorbed(node, f, node', a, i, current_kv, current_right)
      BY <1>2, <2>2 DEF Absorbed
    <2>4. /\ Table(node) /\ root # Null /\ current_right # root /\ height \in Nat /\ current_kv \in Pair
          /\ Grown(node, InTree, {root, current_right}, root, height, rank)
      BY <1>3
    <2> QED BY <1>6, <2>1, <2>3, <2>4, AbsorbIs
  <1>10. Rested(rank)'
    <2>1. {root} \ {Null} = {root}
      BY <1>3
    <2> QED BY <1>2, <1>3, <1>8, <1>9, <2>1 DEF Rested, Finished, NoReserve
  <1>11. ItemOK' /\ Resting'
    <2>1. Inserted(IF plan.right THEN leaf_right ELSE leaf, plan.idx)
      BY <1>2 DEF Finished
    <2> QED BY <2>1, ItemInserted DEF TreeInv, Inserted, Resting
  <1> QED BY <1>10, <1>11, RestingKeeps

LEMMA GrowRootKeeps == ASSUME TreeInv, ReserveInv, GrowRoot PROVE TreeInv'
  <1>1. PICK rank : Standing(rank)
    BY DEF TreeInv
  <1> DEFINE N == Len(plan.internals)
  <1>0. PICK b : b = ReservedNode
    OBVIOUS
  <1>2. /\ phase = "promote" /\ level > N /\ Finished /\ root' = b /\ height' = height + 1
        /\ node' = Relinked([node EXCEPT ![b] = RootRecord(current_kv, root, current_right)], b, 0, 1)
    BY <1>0 DEF GrowRoot, RootRecord
  <1>3. /\ root # Null /\ root \in Nodes /\ current_right \in Nodes /\ current_right # root /\ Table(node) /\ height \in Nat
        /\ Grown(node, InTree, {root, current_right}, root, height, rank)
        /\ current_kv \in Pair /\ rank[current_right] = level - 1
        /\ Len(plan.internals) \in Nat /\ level \in 1 .. Len(plan.internals) + 1
        /\ InTree = DOMAIN node \ ToSet(reserve.nodes)
        /\ reserve.nodes \in Seq(DOMAIN node) /\ Len(reserve.nodes) = Needed(level)
        /\ height = level - 1 => Len(node[root].kvs) >= B - 1
        /\ ~Resting /\ Planned /\ Committing
    BY <1>1, <1>2, PromotingIs DEF TreeInv
  <1>4. level = N + 1
    BY <1>2, <1>3
  <1>5. plan.new_root /\ N = height
    <2>1. \A j \in 1 .. N : plan.internals[j].will_split
      BY <1>1, <1>3, <1>4 DEF Standing, Promoting
    <2> QED BY <1>1, <1>3, <2>1 DEF Standing, Planning
  <1>6. reserve.nodes = <<b>> /\ b \in DOMAIN node /\ b \notin InTree
    <2>1. Splits(level) = {}
      BY <1>3, <1>4 DEF Splits
    <2>2. Needed(level) = 1
      BY <1>5, <2>1, FS_EmptySet DEF Needed
    <2>3. Len(reserve.nodes) = 1 /\ reserve.nodes[1] = b /\ reserve.nodes[1] \in DOMAIN node
      BY <1>0, <1>3, <2>2 DEF ReservedNode
    <2>4. reserve.nodes = <<b>>
      BY <1>3, <2>3
    <2>5. ToSet(reserve.nodes) = {b}
      BY <2>4 DEF ToSet
    <2> QED BY <1>3, <2>3, <2>4, <2>5
  <1>7. InTree \union {b} = DOMAIN node
    <2>1. ToSet(reserve.nodes) = {b}
      BY <1>6 DEF ToSet
    <2> QED BY <1>3, <1>6, <2>1
  <1>8. PICK n : n = [node EXCEPT ![b] = RootRecord(current_kv, root, current_right)]
    OBVIOUS
  <1>9. RootOver(node, n, b, current_kv, root, current_right) /\ RelinkOf(n, node', b, 0, 1)
    <2>1. node' = Relinked(n, b, 0, 1)
      BY <1>2, <1>8
    <2> QED BY <1>3, <1>6, <1>8, <2>1, RootPut
  <1>10. PICK r2 : r2 = Ranked(rank, InTree, b, height + 1)
    OBVIOUS
  <1>11. /\ Table(node') /\ DOMAIN node' = DOMAIN node
         /\ Grown(node', InTree \union {b}, {b}, b, height + 1, r2)
    <2>1. rank[current_right] = height /\ HalfFull(node, root)
      BY <1>3, <1>4, <1>5 DEF HalfFull
    <2>2. /\ Table(node') /\ DOMAIN node' = DOMAIN node
          /\ Grown(node', InTree \union {b}, {b}, b, height + 1, Ranked(rank, InTree, b, height + 1))
      <3>1. /\ Table(node) /\ root # Null /\ current_right # root /\ height \in Nat /\ current_kv \in Pair
            /\ Grown(node, InTree, {root, current_right}, root, height, rank)
        BY <1>3
      <3> QED BY <1>6, <1>9, <2>1, <3>1, RootIs
    <2> QED BY <1>10, <2>2
  <1>12. Rested(r2)'
    <2>1. {b} \ {Null} = {b} /\ height' \in Nat
      BY <1>2, <1>3, <1>6, RecordIs
    <2> QED BY <1>2, <1>7, <1>11, <2>1 DEF Rested, Finished, NoReserve
  <1>13. ItemOK' /\ Resting'
    <2>1. Inserted(IF plan.right THEN leaf_right ELSE leaf, plan.idx)
      BY <1>2 DEF Finished
    <2> QED BY <2>1, ItemInserted DEF TreeInv, Inserted, Resting
  <1> QED BY <1>12, <1>13, RestingKeeps

LEMMA SplitInternalKeeps == ASSUME TreeInv, ReserveInv, SplitInternal PROVE TreeInv'
  <1>1. PICK rank : Standing(rank)
    BY DEF TreeInv
  <1> DEFINE N == Len(plan.internals)
  <1>0. PICK a, b, e : a = Promotion.ptr /\ b = ReservedNode /\ e = Promotion.child_idx
    BY Zenon
  <1> DEFINE half == IF SplitPoint(e).right THEN b ELSE a
             m == MoveRightHalf(node, a, b, SplitPoint(e).sp)
             l == Relinked(m, b, 0, Len(m[b].kvs))
             f == InternalInsert(l, half, SplitPoint(e).idx, current_kv, current_right)
  <1>2. /\ phase = "promote" /\ level <= N /\ plan.internals[level].will_split
        /\ node' = Relinked(f, half, SplitPoint(e).idx + 1, Len(f[half].kvs))
        /\ current_kv' = node[a].kvs[SplitPoint(e).sp + 1]
        /\ current_right' = b /\ level' = level + 1 /\ reserve' = [reserve EXCEPT !.nodes = Tail(@)]
        /\ UNCHANGED <<root, height, phase, remaining, item, plan, leaf_right, start>>
    BY <1>0 DEF SplitInternal, Promotion, arg, history
  <1>3. /\ root # Null /\ current_right # root /\ Table(node) /\ height \in Nat
        /\ Grown(node, InTree, {root, current_right}, root, height, rank)
        /\ current_kv \in Pair /\ rank[current_right] = level - 1
        /\ Len(plan.internals) \in Nat /\ level \in 1 .. Len(plan.internals) + 1
        /\ Spare = ToSet(reserve.nodes) /\ InTree = DOMAIN node \ ToSet(reserve.nodes)
        /\ reserve.nodes \in Seq(DOMAIN node) /\ Len(reserve.nodes) = Needed(level)
        /\ ~Resting /\ Planned /\ Committing /\ ~NothingReserved
    BY <1>1, <1>2, PromotingIs DEF TreeInv
  <1>4. level \in 1 .. N /\ level \in Nat \ {0}
    BY <1>2, <1>3
  <1>5. StopAt(node, InTree, rank, plan.internals, level) /\ plan.internals[level] \in Stops
    <2>1. Planning(rank) /\ level >= level
      BY <1>1, <1>3 DEF Standing
    <2>2. StopAt(node, InTree, rank, plan.internals, level) /\ plan.internals \in Seq(Stops)
      BY <1>3, <1>4, <2>1 DEF Planning
    <2> QED BY <1>4, <2>2
  <1>6. CAPACITY \in Nat /\ InTree \subseteq DOMAIN node /\ \A x \in InTree : Len(node[x].kvs) \in Nat /\ Len(node[x].kvs) <= CAPACITY
    <2>1. CAPACITY \in Nat /\ InTree \subseteq DOMAIN node
      BY BAssumption DEF CAPACITY, InTree
    <2> QED BY <1>3, <2>1, RecordIs DEF Grown, Sized
  <1>7. a \in InTree /\ rank[a] = level /\ e \in 0 .. CAPACITY /\ Len(node[a].kvs) = CAPACITY
    <2>1. plan.internals[level].child_idx \in Nat
      BY <1>5, SMTT(30) DEF Stops
    <2>2. a \in InTree /\ rank[a] = level /\ e <= Len(node[a].kvs) /\ ~(Len(node[a].kvs) < CAPACITY)
      BY <1>0, <1>2, <1>5 DEF StopAt, Promotion
    <2> QED BY <1>0, <1>6, <2>1, <2>2 DEF Promotion
  <1>8. PICK R : R = reserve.nodes
    OBVIOUS
  <1>9. /\ R \in Seq(DOMAIN node) /\ Len(R) \in Nat \ {0} /\ b = R[1] /\ b \in ToSet(R)
        /\ \A i, j \in 1 .. Len(R) : R[i] = R[j] => i = j
    <2>1. Len(R) \in Nat \ {0}
      BY <1>2, <1>3, <1>4, <1>8, SplitsCounted
    <2>2. b = R[1] /\ 1 \in 1 .. Len(R)
      BY <1>0, <1>3, <1>8, <2>1 DEF ReservedNode
    <2>3. \A i, j \in 1 .. Len(R) : R[i] = R[j] => i = j
      BY <1>8 DEF TreeInv, SpareOK
    <2> QED BY <1>3, <1>8, <2>1, <2>2, <2>3 DEF ToSet
  <1>10. b \in DOMAIN node /\ b \notin InTree /\ b # Null /\ node[b].parent = Null
    <2>1. b \in DOMAIN node /\ b \in Spare
      BY <1>3, <1>8, <1>9
    <2>2. node[b] = FreshNode
      BY <2>1 DEF TreeInv, SpareOK
    <2> QED BY <1>3, <2>1, <2>2, RecordIs DEF InTree, FreshNode
  <1>11. PICK r2 : r2 = Ranked(rank, InTree, b, rank[a])
    OBVIOUS
  <1>12. Split(node, node', InTree, a, b) /\ Grown(node', InTree \union {b}, {root, b}, root, height, r2)
    <2>1. MovedOver(node, l, a, b, SplitPoint(e).sp)
      BY DEF MovedOver
    <2>2. PutIn(l, node', half, SplitPoint(e).idx, current_kv, current_right)
      BY <1>2 DEF PutIn
    <2>3. half = IF SplitPoint(e).right THEN b ELSE a
      OBVIOUS
    <2> HIDE DEF l, half
    <2>4. rank[a] # 0 /\ rank[current_right] = rank[a] - 1
      BY <1>3, <1>4, <1>7
    <2> QED BY <1>3, <1>7, <1>10, <1>11, <2>1, <2>2, <2>3, <2>4, InnerSplit
  <1> HIDE DEF half, m, l, f
  <1>13. Tail(R) \in Seq(DOMAIN node) /\ Len(Tail(R)) = Len(R) - 1 /\ \A i \in 1 .. Len(Tail(R)) : Tail(R)[i] = R[i + 1]
    BY <1>9
  <1>14. ToSet(Tail(R)) = ToSet(R) \ {b}
    <2>1. ToSet(R) = {R[i] : i \in 1 .. Len(R)} /\ ToSet(Tail(R)) = {Tail(R)[i] : i \in 1 .. Len(Tail(R))}
      <3>1. DOMAIN R = 1 .. Len(R) /\ DOMAIN Tail(R) = 1 .. Len(Tail(R))
        BY <1>9, <1>13
      <3> QED BY <3>1 DEF ToSet
    <2>2. ASSUME NEW x \in ToSet(Tail(R)) PROVE x \in ToSet(R) /\ x # b
      <3>1. PICK i \in 1 .. Len(Tail(R)) : x = Tail(R)[i]
        BY <2>1
      <3>2. i + 1 \in 1 .. Len(R) /\ x = R[i + 1] /\ i + 1 # 1 /\ 1 \in 1 .. Len(R)
        BY <1>9, <1>13, <3>1
      <3> QED BY <1>9, <2>1, <3>2
    <2>3. ASSUME NEW x \in ToSet(R), x # b PROVE x \in ToSet(Tail(R))
      <3>1. PICK i \in 1 .. Len(R) : x = R[i]
        BY <2>1
      <3>2. i # 1 /\ i - 1 \in 1 .. Len(Tail(R)) /\ (i - 1) + 1 = i
        BY <1>9, <1>13, <2>3, <3>1
      <3>3. Tail(R)[i - 1] = x
        BY <1>13, <3>1, <3>2
      <3> QED BY <2>1, <3>2, <3>3
    <2> QED BY <2>2, <2>3
  <1>15. reserve'.nodes = Tail(R)
    <2>1. PICK c : reserve = [nodes |-> reserve.nodes, cap |-> c]
      BY DEF ReserveInv
    <2>2. reserve' = [reserve EXCEPT !.nodes = Tail(reserve.nodes)]
      BY <1>2
    <2>3. \A s : [reserve EXCEPT !.nodes = s] = [nodes |-> s, cap |-> c]
      BY <2>1
    <2>4. reserve' = [nodes |-> Tail(reserve.nodes), cap |-> c]
      BY <2>2, <2>3, Zenon
    <2> QED BY <1>8, <2>4
  <1>16. Spare' = Spare \ {b} /\ InTree' = InTree \union {b} /\ DOMAIN node' = DOMAIN node /\ Table(node')
    <2>1. Spare' = ToSet(Tail(R))
      BY <1>2, <1>15 DEF Spare, Committing
    <2>2. DOMAIN node' = DOMAIN node /\ Table(node')
      BY <1>12 DEF Split
    <2> QED BY <1>3, <1>8, <1>10, <1>14, <2>1, <2>2 DEF InTree
  <1>17. current_kv' \in Pair
    <2>1. node[a].kvs \in Seq(Pair)
      BY <1>3, <1>6, <1>7, RecordIs
    <2>2. SplitPoint(e).sp \in 0 .. CAPACITY - 1
      BY <1>7, SplitBalanced DEF LeftOf
    <2>3. SplitPoint(e).sp + 1 \in 1 .. Len(node[a].kvs)
      BY <1>6, <1>7, <2>2
    <2> QED BY <1>2, <2>1, <2>3
  <1>18. Standing(r2)'
    <2>1. level' \in 1 .. Len(plan.internals) + 1 /\ rank[a] = level' - 1 /\ rank[a] # rank[current_right]
      BY <1>2, <1>3, <1>4, <1>7, SMTT(30)
    <2>2. \A i \in 1 .. N : i >= level => StopAt(node, InTree, rank, plan.internals, i)
      BY <1>1, <1>3 DEF Standing, Planning
    <2>3. \A i \in 1 .. N : i >= level' => StopAt(node, InTree, rank, plan.internals, i)
      <3> SUFFICES ASSUME NEW i \in 1 .. N, i >= level + 1 PROVE StopAt(node, InTree, rank, plan.internals, i)
        BY <1>2
      <3>1. i >= level
        BY <1>3, <1>4
      <3> QED BY <2>2, <3>1
    <2>4. \A i \in 1 .. N : i < level => plan.internals[i].will_split
      BY <1>1, <1>3 DEF Standing, Promoting
    <2>5. \A i \in 1 .. N : i < level' => plan.internals[i].will_split
      BY <1>2, <1>3, <1>4, <2>4
    <2>6. SpareOK
      BY DEF TreeInv
    <2> HIDE DEF N
    <2> QED BY <1>1, <1>2, <1>3, <1>7, <1>10, <1>11, <1>12, <1>16, <1>17, <2>1, <2>3, <2>5, <2>6, SplitStands DEF N
  <1>19. SpareOK'
    <2>1. \A x \in Spare' : node'[x] = FreshNode
      <3> SUFFICES ASSUME NEW x \in Spare, x # b PROVE node'[x] = FreshNode
        BY <1>16
      <3>1. x \in DOMAIN node /\ x \notin InTree
        BY <1>3, <1>8, <1>9 DEF ToSet
      <3>2. node[x] = FreshNode
        BY DEF TreeInv, SpareOK
      <3> QED BY <1>12, <3>1, <3>2 DEF Split
    <2>2. \A i, j \in 1 .. Len(Tail(R)) : Tail(R)[i] = Tail(R)[j] => i = j
      <3> SUFFICES ASSUME NEW i \in 1 .. Len(Tail(R)), NEW j \in 1 .. Len(Tail(R)), Tail(R)[i] = Tail(R)[j] PROVE i = j
        OBVIOUS
      <3>1. i + 1 \in 1 .. Len(R) /\ j + 1 \in 1 .. Len(R) /\ R[i + 1] = R[j + 1]
        BY <1>9, <1>13
      <3>2. i + 1 = j + 1
        BY <1>9, <3>1
      <3> QED BY <3>2
    <2>3. leaf_right' \in DOMAIN node' \union {Null} /\ leaf_right' # Null /\ leaf_right' \notin ToSet(Tail(R))
      BY <1>2, <1>3, <1>8, <1>14, <1>16 DEF TreeInv, SpareOK
    <2>4. ~NothingReserved' /\ Committing' /\ phase' = "promote"
      BY <1>2 DEF NothingReserved, Committing
    <2>5. reserve'.nodes \in Seq(DOMAIN node') /\ height' \in Nat
      BY <1>2, <1>3, <1>13, <1>15, <1>16
    <2> QED BY <1>15, <1>16, <2>1, <2>2, <2>3, <2>4, <2>5 DEF SpareOK
  <1>20. ItemOK'
    BY <1>2, <1>3, ItemAside DEF TreeInv
  <1> QED BY <1>18, <1>19, <1>20 DEF TreeInv

LEMMA TreeStep == TreeInv /\ ReserveInv /\ [TreeNext]_treeVars => TreeInv'
  <1> SUFFICES ASSUME TreeInv, ReserveInv, [TreeNext]_treeVars PROVE TreeInv'
    OBVIOUS
  <1>1. CASE (\E source \in Sources : Extend(source)) \/ Resume \/ ExtendReturns
    BY <1>1, AskKeeps
  <1>2. CASE Occupied
    BY <1>2, OccupiedKeeps
  <1>3. CASE Vacant
    BY <1>3, VacantKeeps
  <1>4. CASE InsertEmpty
    BY <1>4, InsertEmptyKeeps
  <1>5. CASE InsertFits
    BY <1>5, InsertFitsKeeps
  <1>6. CASE Probe
    BY <1>6, ProbeKeeps
  <1>7. CASE ReserveLeaf
    BY <1>7, ReserveLeafKeeps
  <1>8. CASE ReserveBuffer
    BY <1>8, ReserveBufferKeeps
  <1>9. CASE ReserveInternal
    BY <1>9, ReserveInternalKeeps
  <1>10. CASE Drain
    BY <1>10, DrainKeeps
  <1>11. CASE CommitLeaf
    BY <1>11, CommitLeafKeeps
  <1>12. CASE Absorb
    BY <1>12, AbsorbKeeps
  <1>13. CASE SplitInternal
    BY <1>13, SplitInternalKeeps
  <1>14. CASE GrowRoot
    BY <1>14, GrowRootKeeps
  <1>15. CASE UNCHANGED treeVars
    <2>1. /\ UNCHANGED <<node, root, height, phase, remaining, item, leaf, edge_idx, plan, leaf_right, reserve,
                         level, current_kv, current_right, start>>
      BY <1>15 DEF treeVars, tree, insert, arg, history
    <2>2. Committing' = Committing /\ Spare' = Spare /\ InTree' = InTree /\ Tops' = Tops /\ NothingReserved' = NothingReserved
          /\ Placing' = Placing /\ Planned' = Planned /\ Resting' = Resting
      BY <2>1 DEF Committing, Spare, InTree, Tops, NothingReserved, Placing, Planned, Resting
    <2>3. SpareOK'
      BY <2>1, <2>2 DEF TreeInv, SpareOK
    <2>4. ItemOK'
      BY <2>1, <2>2 DEF TreeInv, ItemOK
    <2>5. PICK rank : Standing(rank)
      BY DEF TreeInv
    <2>6. AtLeaf(rank)' /\ Promoting(rank)'
      BY <2>1, <2>2, <2>5 DEF Standing, AtLeaf, Promoting
    <2>7. Planning(rank)'
      BY <2>1, <2>2, <2>5 DEF Standing, Planning
    <2>8. Grown(node, InTree, Tops, root, height, rank)'
      BY <2>1, <2>2, <2>5 DEF Standing
    <2> QED BY <2>3, <2>4, <2>6, <2>7, <2>8 DEF TreeInv, Standing
  <1> QED
    BY <1>1, <1>2, <1>3, <1>4, <1>5, <1>6, <1>7, <1>8, <1>9, <1>10, <1>11, <1>12, <1>13, <1>14, <1>15 DEF TreeNext

LEMMA NodesKept == TreeInv => NodesInPlace
  <1> SUFFICES ASSUME TreeInv PROVE NodesInPlace
    OBVIOUS
  <1>1. PICK rank : Grown(node, InTree, Tops, root, height, rank)
    BY DEF TreeInv, Standing
  <1>2. /\ Table(node) /\ height \in Nat /\ reserve.nodes \in Seq(DOMAIN node)
        /\ leaf_right \in DOMAIN node \union {Null} /\ \A a \in Spare : node[a] = FreshNode
        /\ ~Committing => current_right = Null
    BY DEF TreeInv, SpareOK
  <1>3. InTree \subseteq DOMAIN node /\ Tops \subseteq InTree
    BY <1>1 DEF Grown, Shaped
  <1>4. Null \notin DOMAIN node /\ ToSet(reserve.nodes) \subseteq DOMAIN node
    BY <1>2, RecordIs DEF ToSet
  <1> DEFINE held == {leaf_right, current_right} \union ToSet(reserve.nodes)
             children == UNION {ToSet(node[a].edges) : a \in DOMAIN node}
  <1>5. ASSUME NEW x \in DOMAIN node PROVE x \in {root} \union children \union held
    <2>1. CASE x \in Spare
      BY <2>1 DEF Spare
    <2>2. CASE x \in Tops
      BY <2>2 DEF Tops
    <2>3. CASE x \notin Spare /\ x \notin Tops
      <3> DEFINE p == node[x].parent
                 j == node[x].parent_idx + 1
      <3>1. x \in InTree
        BY <2>3 DEF InTree
      <3>2. Hangs(node, InTree, x)
        BY <1>1, <2>3, <3>1 DEF Grown, Shaped
      <3>3. p \in DOMAIN node /\ j \in 1 .. Len(node[p].edges) /\ node[p].edges[j] = x
        BY <1>3, <3>2 DEF Hangs
      <3>4. node[p].edges \in Seq(Nodes)
        BY <1>2, <3>3, RecordIs
      <3> HIDE DEF p, j
      <3>5. x \in ToSet(node[p].edges)
        BY <3>3, <3>4 DEF ToSet
      <3> QED BY <3>3, <3>5
    <2> QED BY <2>1, <2>2, <2>3
  <1>6. ASSUME NEW a \in DOMAIN node, NEW x \in ToSet(node[a].edges) PROVE x \in DOMAIN node
    <2>1. node[a].edges \in Seq(Nodes)
      BY <1>2, RecordIs
    <2>2. PICK i \in 1 .. Len(node[a].edges) : x = node[a].edges[i]
      BY <2>1 DEF ToSet
    <2>3. CASE a \in Spare
      BY <1>2, <2>2, <2>3 DEF FreshNode
    <2>4. CASE a \notin Spare
      <3>1. a \in InTree
        BY <2>4 DEF InTree
      <3>2. ChildOK(node, InTree, rank, a, i)
        BY <1>1, <3>1 DEF Grown, Shaped
      <3> QED BY <1>3, <2>2, <3>2 DEF ChildOK
    <2> QED BY <2>3, <2>4
  <1>7. root \in DOMAIN node \union {Null} /\ current_right \in DOMAIN node \union {Null}
    BY <1>3 DEF Tops
  <1>8. DOMAIN node = ({root} \union children \union held) \ {Null}
    <2>1. children \subseteq DOMAIN node
      BY <1>6
    <2>2. held \subseteq DOMAIN node \union {Null}
      BY <1>2, <1>4, <1>7
    <2> HIDE DEF children, held
    <2> QED BY <1>4, <1>5, <1>7, <2>1, <2>2
  <1>9. ASSUME ~Committing, root # Null PROVE IsTree(node, root, height, DOMAIN node \ held)
    <2>1. current_right = Null
      BY <1>2, <1>9
    <2>2. Tops = {root}
      BY <1>9, <2>1 DEF Tops
    <2>3. DOMAIN node \ held = InTree
      BY <1>4, <1>9, <2>1 DEF InTree, Spare
    <2>4. Grown(node, InTree, {root}, root, height, rank)
      BY <1>1, <2>2
    <2>5. IsTree(node, root, height, InTree)
      BY <1>2, <1>9, <2>4, ShapeTree
    <2> HIDE DEF held
    <2> QED BY <2>3, <2>5
  <1> HIDE DEF held, children
  <1> QED BY <1>8, <1>9 DEF NodesInPlace, held, children

\* Every allocated node is in the tree once or held by the insert, after a failed
\* reservation too (entry.rs:993-1000, scratch.rs:249-262); outside the commit the
\* nodes are a tree of the standard library's, half full and of one depth, and the
\* parent links the next probe climbs agree with the edges.
THEOREM NodesStay == TreeSpec => []NodesInPlace
  <1>1. TreeSpec => [](TreeInv /\ ReserveInv)
    BY TreeStarts, TreeStep, ReserveInit, ReserveStep, PTL DEF TreeSpec
  <1> QED BY <1>1, NodesKept, PTL

(***************************************************************************)
(* The order of keys: what a node may hold, and what below its edges.       *)
(***************************************************************************)
Lower(keys, k) == {x \in keys : x < k}
Upper(keys, k) == {x \in keys : k < x}
InRow(kvs) == \A i, j \in 1 .. Len(kvs) : i < j => kvs[i][1] < kvs[j][1]
NodeOrdered(kvs, edges, place, keys) ==
  /\ keys \subseteq Nat /\ InRow(kvs)
  /\ \A i \in 1 .. Len(kvs) : kvs[i][1] \in keys
  /\ \A i \in 1 .. Len(edges) : place[edges[i]] = Slot(kvs, keys, i)

LEMMA PairsAre ==
  ASSUME NEW kvs \in Seq(Pair)
  PROVE  /\ Len(kvs) \in Nat /\ DOMAIN kvs = 1 .. Len(kvs)
         /\ \A i \in 1 .. Len(kvs) : kvs[i] \in Pair /\ kvs[i][1] \in Nat
         /\ Increasing(kvs) <=> InRow(kvs)
         /\ ToSet(kvs) = {kvs[i] : i \in 1 .. Len(kvs)}
  <1>1. Len(kvs) \in Nat /\ DOMAIN kvs = 1 .. Len(kvs)
    OBVIOUS
  <1>2. \A i \in 1 .. Len(kvs) : kvs[i] \in Pair
    OBVIOUS
  <1>3. \A e \in Pair : e[1] \in Nat
    BY DEF Pair
  <1>4. Increasing(kvs) <=> InRow(kvs)
    BY <1>1 DEF Increasing, InRow
  <1> QED BY <1>1, <1>2, <1>3, <1>4 DEF ToSet

\* Entry sp + 1 divides a node: l has what is left of it, r what is right.
Halves(kvs, sp, l, r) ==
  /\ l \in Seq(Pair) /\ Len(l) = sp /\ \A i \in 1 .. sp : l[i] = kvs[i]
  /\ r \in Seq(Pair) /\ Len(r) = (Len(kvs) - sp) - 1 /\ \A i \in 1 .. Len(r) : r[i] = kvs[sp + 1 + i]

LEMMA HalvesAre ==
  ASSUME NEW kvs \in Seq(Pair), NEW sp \in Nat, sp < Len(kvs)
  PROVE  Halves(kvs, sp, SubSeq(kvs, 1, sp), SubSeq(kvs, sp + 2, Len(kvs)))
  <1>1. Len(kvs) \in Nat
    OBVIOUS
  <1>2. /\ SubSeq(kvs, 1, sp) \in Seq(Pair) /\ Len(SubSeq(kvs, 1, sp)) = sp
        /\ \A i \in 1 .. sp : SubSeq(kvs, 1, sp)[i] = kvs[i]
    BY <1>1, PartIs
  <1>3. /\ SubSeq(kvs, sp + 2, Len(kvs)) \in Seq(Pair)
        /\ Len(SubSeq(kvs, sp + 2, Len(kvs))) = (Len(kvs) - sp) - 1
        /\ \A i \in 1 .. (Len(kvs) - sp) - 1 : SubSeq(kvs, sp + 2, Len(kvs))[i] = kvs[(sp + 2) + i - 1]
    BY <1>1, PartIs
  <1>4. \A i \in 1 .. (Len(kvs) - sp) - 1 : (sp + 2) + i - 1 = sp + 1 + i
    BY <1>1
  <1> QED BY <1>2, <1>3, <1>4 DEF Halves

SlotsKept(kvs, keys, sp, l, r, k) ==
  /\ \A j \in 1 .. sp + 1 : Slot(l, Lower(keys, k), j) = Slot(kvs, keys, j)
  /\ \A j \in 1 .. Len(kvs) - sp : Slot(r, Upper(keys, k), j) = Slot(kvs, keys, sp + 1 + j)

LEMMA SplitSlots ==
  ASSUME NEW kvs \in Seq(Pair), InRow(kvs), NEW keys, keys \subseteq Nat, NEW sp \in Nat, sp < Len(kvs),
         NEW l, NEW r, Halves(kvs, sp, l, r), NEW k, k = kvs[sp + 1][1]
  PROVE  SlotsKept(kvs, keys, sp, l, r, k)
  <1>1. Len(kvs) \in Nat /\ (\A i \in 1 .. Len(kvs) : kvs[i][1] \in Nat) /\ sp + 1 \in 1 .. Len(kvs) /\ k \in Nat
    BY PairsAre
  <1>2. ASSUME NEW j \in 1 .. sp + 1 PROVE Slot(l, Lower(keys, k), j) = Slot(kvs, keys, j)
    <2>1. Len(l) = sp /\ (j > 1 => l[j - 1] = kvs[j - 1]) /\ (j <= sp => l[j] = kvs[j])
      BY DEF Halves
    <2>2. j <= sp => kvs[j][1] < k /\ kvs[j][1] \in Nat
      BY <1>1 DEF InRow
    <2>3. j > sp => j = sp + 1
      OBVIOUS
    <2>4. ASSUME NEW x \in keys PROVE x \in Slot(l, Lower(keys, k), j) <=> x \in Slot(kvs, keys, j)
      <3>1. x \in Nat
        OBVIOUS
      <3>2. CASE j <= sp
        BY <1>1, <2>1, <2>2, <3>1, <3>2 DEF Slot, Lower
      <3>3. CASE j > sp
        BY <1>1, <2>1, <2>3, <3>1, <3>3 DEF Slot, Lower
      <3> QED BY <3>2, <3>3
    <2>5. Slot(l, Lower(keys, k), j) \subseteq keys /\ Slot(kvs, keys, j) \subseteq keys
      BY DEF Slot, Lower
    <2> QED BY <2>4, <2>5
  <1>3. ASSUME NEW j \in 1 .. Len(kvs) - sp PROVE Slot(r, Upper(keys, k), j) = Slot(kvs, keys, sp + 1 + j)
    <2> DEFINE n == Len(kvs) - sp - 1
               m == sp + 1 + j
    <2>1. /\ n \in Nat /\ Len(r) = n /\ m \in sp + 2 .. Len(kvs) + 1
          /\ j > 1 => r[j - 1] = kvs[m - 1] /\ m - 1 \in 1 .. Len(kvs)
          /\ j <= n => r[j] = kvs[m] /\ m \in 1 .. Len(kvs)
          /\ j <= n <=> m <= Len(kvs)
      <3>0. Len(r) = (Len(kvs) - sp) - 1 /\ \A i \in 1 .. Len(r) : r[i] = kvs[sp + 1 + i]
        BY DEF Halves
      <3>9. n \in Nat /\ n = (Len(kvs) - sp) - 1
        BY <1>1
      <3>1. n \in Nat /\ Len(r) = n /\ \A i \in 1 .. n : r[i] = kvs[sp + 1 + i]
        <4> HIDE DEF n, m
        <4>1. Len(r) = n
          BY <3>0, <3>9
        <4> QED BY <3>0, <3>9, <4>1
      <3>2. j > 1 => j - 1 \in 1 .. n /\ sp + 1 + (j - 1) = m - 1
        BY <1>1
      <3>3. j <= n => j \in 1 .. n
        BY <1>1
      <3>4. m \in sp + 2 .. Len(kvs) + 1 /\ (j <= n <=> m <= Len(kvs))
        BY <1>1
      <3>5. j > 1 => m - 1 \in 1 .. Len(kvs)
        BY <1>1
      <3>6. j <= n => m \in 1 .. Len(kvs)
        BY <1>1
      <3>7. j > 1 => r[j - 1] = kvs[m - 1]
        BY <3>1, <3>2
      <3>8. j <= n => r[j] = kvs[m]
        BY <3>1, <3>3
      <3> HIDE DEF m, n
      <3> QED BY <3>1, <3>4, <3>5, <3>6, <3>7, <3>8
    <2>2. j > 1 => k < kvs[m - 1][1]
      <3>1. j > 1 => sp + 1 < m - 1
        BY <2>1
      <3> QED BY <1>1, <2>1, <3>1 DEF InRow
    <2>3. j <= 1 => m - 1 = sp + 1
      OBVIOUS
    <2> HIDE DEF m, n
    <2>4. m > 1
      BY <2>1
    <2>5. ASSUME NEW x \in keys PROVE x \in Slot(r, Upper(keys, k), j) <=> x \in Slot(kvs, keys, m)
      <3>1. x \in Nat
        OBVIOUS
      <3>2. CASE j > 1
        <4>1. x \in Slot(r, Upper(keys, k), j) <=> k < x /\ r[j - 1][1] < x /\ (j <= Len(r) => x < r[j][1])
          <5>1. x \in Upper(keys, k) <=> k < x
            BY <3>2 DEF Upper
          <5> QED BY <3>1, <3>2, <5>1 DEF Slot
        <4>2. x \in Slot(kvs, keys, m) <=> kvs[m - 1][1] < x /\ (m <= Len(kvs) => x < kvs[m][1])
          BY <2>4, <3>1 DEF Slot
        <4>3. k \in Nat /\ kvs[m - 1][1] \in Nat
          BY <1>1, <2>1, <3>2
        <4>4. kvs[m - 1][1] < x => k < x
          BY <2>2, <3>1, <3>2, <4>3
        <4>5. r[j - 1][1] = kvs[m - 1][1] /\ (j <= Len(r) <=> m <= Len(kvs)) /\ (j <= Len(r) => r[j][1] = kvs[m][1])
          BY <2>1, <3>2
        <4> QED BY <4>1, <4>2, <4>4, <4>5
      <3>3. CASE j <= 1
        BY <1>1, <2>1, <2>3, <2>4, <3>1, <3>3 DEF Slot, Upper
      <3> QED BY <3>2, <3>3
    <2>6. Slot(r, Upper(keys, k), j) \subseteq keys /\ Slot(kvs, keys, m) \subseteq keys
      BY DEF Slot, Upper
    <2>7. Slot(r, Upper(keys, k), j) = Slot(kvs, keys, m)
      BY <2>5, <2>6
    <2> QED BY <2>7 DEF m
  <1> QED BY <1>2, <1>3 DEF SlotsKept

TakenLeft(edges, el, sp) == \A i \in 1 .. Len(el) : i \in 1 .. sp + 1 /\ i \in 1 .. Len(edges) /\ el[i] = edges[i]
TakenRight(edges, er, sp, n) ==
  \A i \in 1 .. Len(er) : i \in 1 .. n - sp /\ sp + 1 + i \in 1 .. Len(edges) /\ er[i] = edges[sp + 1 + i]

\* Both halves are in order, with the edges they take.
LEMMA SplitOrdered ==
  ASSUME NEW kvs \in Seq(Pair), NEW edges, NEW place, NEW keys, NodeOrdered(kvs, edges, place, keys),
         NEW sp \in Nat, sp < Len(kvs), NEW l, NEW r, Halves(kvs, sp, l, r),
         NEW k, k = kvs[sp + 1][1], NEW el, NEW er, TakenLeft(edges, el, sp), TakenRight(edges, er, sp, Len(kvs))
  PROVE  /\ NodeOrdered(l, el, place, Lower(keys, k)) /\ NodeOrdered(r, er, place, Upper(keys, k))
         /\ k \in keys /\ ToSet(l) \union ToSet(r) \union {kvs[sp + 1]} = ToSet(kvs)
  <1>1. Len(kvs) \in Nat /\ (\A i \in 1 .. Len(kvs) : kvs[i][1] \in Nat) /\ sp + 1 \in 1 .. Len(kvs) /\ k \in Nat
    BY PairsAre
  <1>2. keys \subseteq Nat /\ InRow(kvs) /\ k \in keys /\ \A i \in 1 .. Len(kvs) : kvs[i][1] \in keys
    BY <1>1 DEF NodeOrdered
  <1>3. /\ Len(l) = sp /\ \A i \in 1 .. sp : l[i] = kvs[i] /\ i \in 1 .. Len(kvs) /\ i < sp + 1
        /\ Len(r) = (Len(kvs) - sp) - 1
        /\ \A i \in 1 .. Len(r) : r[i] = kvs[sp + 1 + i] /\ sp + 1 + i \in 1 .. Len(kvs) /\ sp + 1 < sp + 1 + i
    BY <1>1 DEF Halves
  <1>4. SlotsKept(kvs, keys, sp, l, r, k)
    BY <1>2, SplitSlots
  <1>5. NodeOrdered(l, el, place, Lower(keys, k))
    <2>1. Lower(keys, k) \subseteq Nat
      BY <1>2 DEF Lower
    <2>2. InRow(l)
      BY <1>2, <1>3 DEF InRow
    <2>3. \A i \in 1 .. Len(l) : l[i][1] \in Lower(keys, k)
      BY <1>1, <1>2, <1>3 DEF InRow, Lower
    <2>4. ASSUME NEW i \in 1 .. Len(el) PROVE place[el[i]] = Slot(l, Lower(keys, k), i)
      <3>1. i \in 1 .. sp + 1 /\ i \in 1 .. Len(edges) /\ el[i] = edges[i]
        BY DEF TakenLeft
      <3>2. place[edges[i]] = Slot(kvs, keys, i)
        BY <3>1 DEF NodeOrdered
      <3> QED BY <1>4, <3>1, <3>2 DEF SlotsKept
    <2> QED BY <2>1, <2>2, <2>3, <2>4 DEF NodeOrdered
  <1>6. NodeOrdered(r, er, place, Upper(keys, k))
    <2>1. Upper(keys, k) \subseteq Nat
      BY <1>2 DEF Upper
    <2>2. InRow(r)
      <3> SUFFICES ASSUME NEW i \in 1 .. Len(r), NEW j \in 1 .. Len(r), i < j PROVE r[i][1] < r[j][1]
        BY DEF InRow
      <3>1. Len(r) \in Nat
        BY DEF Halves
      <3>2. sp + 1 + i < sp + 1 + j
        BY <3>1
      <3>3. /\ r[i] = kvs[sp + 1 + i] /\ sp + 1 + i \in 1 .. Len(kvs)
            /\ r[j] = kvs[sp + 1 + j] /\ sp + 1 + j \in 1 .. Len(kvs)
        BY <1>3
      <3> QED BY <1>2, <3>2, <3>3 DEF InRow
    <2>3. \A i \in 1 .. Len(r) : r[i][1] \in Upper(keys, k)
      BY <1>1, <1>2, <1>3 DEF InRow, Upper
    <2>4. ASSUME NEW i \in 1 .. Len(er) PROVE place[er[i]] = Slot(r, Upper(keys, k), i)
      <3>1. i \in 1 .. Len(kvs) - sp /\ sp + 1 + i \in 1 .. Len(edges) /\ er[i] = edges[sp + 1 + i]
        BY DEF TakenRight
      <3>2. place[edges[sp + 1 + i]] = Slot(kvs, keys, sp + 1 + i)
        BY <3>1 DEF NodeOrdered
      <3> QED BY <1>4, <3>1, <3>2 DEF SlotsKept
    <2> QED BY <2>1, <2>2, <2>3, <2>4 DEF NodeOrdered
  <1>7. ToSet(l) \union ToSet(r) \union {kvs[sp + 1]} = ToSet(kvs)
    <2> DEFINE all == ToSet(l) \union ToSet(r) \union {kvs[sp + 1]}
    <2>1. ToSet(l) = {l[i] : i \in 1 .. Len(l)} /\ ToSet(r) = {r[i] : i \in 1 .. Len(r)}
      BY PairsAre DEF Halves
    <2>2. ToSet(kvs) = {kvs[i] : i \in 1 .. Len(kvs)}
      BY PairsAre
    <2>3. ASSUME NEW i \in 1 .. Len(kvs) PROVE kvs[i] \in all
      <3>1. CASE i < sp + 1
        <4>1. i \in 1 .. Len(l) /\ l[i] = kvs[i]
          BY <1>3, <3>1
        <4> QED BY <2>1, <4>1
      <3>2. CASE i = sp + 1
        BY <3>2
      <3>3. CASE i > sp + 1
        <4>1. i - (sp + 1) \in 1 .. Len(r) /\ (sp + 1) + (i - (sp + 1)) = i
          BY <1>1, <1>3, <3>3
        <4>2. r[i - (sp + 1)] = kvs[i]
          BY <1>3, <4>1
        <4> QED BY <2>1, <4>1, <4>2
      <3> QED BY <3>1, <3>2, <3>3
    <2>4. \A e \in ToSet(l) : e \in ToSet(kvs)
      BY <1>3, <2>1, <2>2
    <2>5. \A e \in ToSet(r) : e \in ToSet(kvs)
      BY <1>3, <2>1, <2>2
    <2>6. \A e \in ToSet(kvs) : e \in all
      BY <2>2, <2>3
    <2> QED BY <1>1, <2>2, <2>4, <2>5, <2>6
  <1> QED BY <1>2, <1>5, <1>6, <1>7

\* Entry kv put in at edge i.
PutAfter(kvs, i, kv, s) ==
  /\ s \in Seq(Pair) /\ Len(s) = Len(kvs) + 1
  /\ \A j \in 1 .. Len(kvs) + 1 : s[j] = IF j < i + 1 THEN kvs[j] ELSE IF j = i + 1 THEN kv ELSE kvs[j - 1]
SlotsPut(kvs, keys, i, k, s) ==
  \A j \in 1 .. Len(kvs) + 2 :
    Slot(s, keys, j) = IF j < i + 1 THEN Slot(kvs, keys, j)
                       ELSE IF j = i + 1 THEN Lower(Slot(kvs, keys, i + 1), k)
                       ELSE IF j = i + 2 THEN Upper(Slot(kvs, keys, i + 1), k)
                       ELSE Slot(kvs, keys, j - 1)

LEMMA PutSlots ==
  ASSUME NEW kvs \in Seq(Pair), NEW keys, keys \subseteq Nat, NEW i \in 0 .. Len(kvs), NEW kv \in Pair,
         kv[1] \in Slot(kvs, keys, i + 1), InRow(kvs), NEW s, PutAfter(kvs, i, kv, s)
  PROVE  SlotsPut(kvs, keys, i, kv[1], s)
  <1> DEFINE n == Len(kvs)
  <1>0. PICK k : k = kv[1]
    OBVIOUS
  <1>1. n \in Nat /\ (\A j \in 1 .. n : kvs[j][1] \in Nat) /\ k \in Nat /\ i \in 0 .. n
    BY <1>0, PairsAre DEF Pair
  <1>2. k \in keys /\ (i >= 1 => kvs[i][1] < k) /\ (i < n => k < kvs[i + 1][1])
    <2>1. k \in keys /\ (i + 1 > 1 => kvs[(i + 1) - 1][1] < k) /\ (i + 1 <= n => k < kvs[i + 1][1])
      BY <1>0 DEF Slot
    <2>2. (i + 1) - 1 = i /\ (i >= 1 => i + 1 > 1) /\ (i < n => i + 1 <= n)
      BY <1>1
    <2> QED BY <2>1, <2>2
  <1>3. Len(s) = n + 1 /\ \A j \in 1 .. n + 1 : s[j][1] = IF j < i + 1 THEN kvs[j][1] ELSE IF j = i + 1 THEN k ELSE kvs[j - 1][1]
    BY <1>0 DEF PutAfter
  <1> DEFINE new(j) == IF j < i + 1 THEN Slot(kvs, keys, j)
                       ELSE IF j = i + 1 THEN Lower(Slot(kvs, keys, i + 1), k)
                       ELSE IF j = i + 2 THEN Upper(Slot(kvs, keys, i + 1), k)
                       ELSE Slot(kvs, keys, j - 1)
  <1>4. ASSUME NEW j \in 1 .. n + 2 PROVE Slot(s, keys, j) = new(j)
    <2>1. (j > 1 => j - 1 \in 1 .. n + 1) /\ (j <= n + 1 => j \in 1 .. n + 1)
      BY <1>1
    <2>2. /\ j > 1 => s[j - 1][1] = IF j - 1 < i + 1 THEN kvs[j - 1][1] ELSE IF j - 1 = i + 1 THEN k ELSE kvs[(j - 1) - 1][1]
          /\ j <= n + 1 => s[j][1] = IF j < i + 1 THEN kvs[j][1] ELSE IF j = i + 1 THEN k ELSE kvs[j - 1][1]
      BY <1>3, <2>1
    <2> DEFINE low(x) == j > 1 => s[j - 1][1] < x
               high(x) == j <= n + 1 => x < s[j][1]
    <2>3. Slot(s, keys, j) = {x \in keys : low(x) /\ high(x)}
      BY <1>3 DEF Slot
    <2>4. CASE j < i + 1
      <3>1. (j > 1 => s[j - 1][1] = kvs[j - 1][1]) /\ j <= n + 1 /\ j <= n /\ s[j][1] = kvs[j][1]
        BY <1>1, <2>2, <2>4
      <3>2. \A x \in keys : low(x) /\ high(x) <=> (j > 1 => kvs[j - 1][1] < x) /\ (j <= n => x < kvs[j][1])
        BY <3>1
      <3>3. new(j) = {x \in keys : (j > 1 => kvs[j - 1][1] < x) /\ (j <= n => x < kvs[j][1])}
        BY <2>4 DEF Slot
      <3> HIDE DEF low, high, new
      <3> QED BY <2>3, <3>2, <3>3
    <2>5. CASE j = i + 1
      <3>1. (j > 1 => s[j - 1][1] = kvs[i][1]) /\ j <= n + 1 /\ s[j][1] = k /\ (j <= n => k < kvs[j][1] /\ kvs[j][1] \in Nat)
        BY <1>1, <1>2, <2>2, <2>5
      <3>2. new(j) = {x \in keys : (j > 1 => kvs[i][1] < x) /\ (j <= n => x < kvs[j][1]) /\ x < k}
        BY <1>1, <2>5 DEF Slot, Lower
      <3>3. \A x \in keys : low(x) /\ high(x) <=> (j > 1 => kvs[i][1] < x) /\ (j <= n => x < kvs[j][1]) /\ x < k
        <4> SUFFICES ASSUME NEW x \in keys
                     PROVE low(x) /\ high(x) <=> (j > 1 => kvs[i][1] < x) /\ (j <= n => x < kvs[j][1]) /\ x < k
          OBVIOUS
        <4>1. x \in Nat
          OBVIOUS
        <4>2. j <= n /\ x < k => x < kvs[j][1]
          BY <1>1, <3>1, <4>1
        <4> QED BY <3>1, <4>2
      <3> HIDE DEF low, high, new
      <3> QED BY <2>3, <3>2, <3>3
    <2>6. CASE j = i + 2
      <3>1. j > 1 /\ s[j - 1][1] = k /\ (j <= n + 1 => s[j][1] = kvs[i + 1][1]) /\ (i >= 1 => kvs[i][1] < k /\ kvs[i][1] \in Nat)
        BY <1>1, <1>2, <2>2, <2>6
      <3>2. (j <= n + 1 <=> i + 1 <= n) /\ (i + 1 > 1 <=> i >= 1) /\ (i + 1) - 1 = i
        BY <1>1, <2>6
      <3>3. new(j) = {x \in keys : (i >= 1 => kvs[i][1] < x) /\ (j <= n + 1 => x < kvs[i + 1][1]) /\ k < x}
        BY <1>1, <2>6, <3>2 DEF Slot, Upper
      <3>4. \A x \in keys : low(x) /\ high(x) <=> (i >= 1 => kvs[i][1] < x) /\ (j <= n + 1 => x < kvs[i + 1][1]) /\ k < x
        <4> SUFFICES ASSUME NEW x \in keys
                     PROVE low(x) /\ high(x) <=> (i >= 1 => kvs[i][1] < x) /\ (j <= n + 1 => x < kvs[i + 1][1]) /\ k < x
          OBVIOUS
        <4>1. x \in Nat
          OBVIOUS
        <4>2. i >= 1 /\ k < x => kvs[i][1] < x
          BY <1>1, <3>1, <4>1
        <4> QED BY <3>1, <4>2
      <3> HIDE DEF low, high, new
      <3> QED BY <2>3, <3>3, <3>4
    <2>7. CASE j > i + 2
      <3>1. j > 1 /\ s[j - 1][1] = kvs[(j - 1) - 1][1] /\ (j <= n + 1 => s[j][1] = kvs[j - 1][1])
        BY <1>1, <2>2, <2>7
      <3>2. (j <= n + 1 <=> j - 1 <= n) /\ j - 1 > 1
        BY <1>1, <2>7
      <3>3. \A x \in keys : low(x) /\ high(x) <=> (j - 1 > 1 => kvs[(j - 1) - 1][1] < x) /\ (j - 1 <= n => x < kvs[j - 1][1])
        BY <3>1, <3>2
      <3>4. new(j) = {x \in keys : (j - 1 > 1 => kvs[(j - 1) - 1][1] < x) /\ (j - 1 <= n => x < kvs[j - 1][1])}
        BY <1>1, <2>7 DEF Slot
      <3> HIDE DEF low, high, new
      <3> QED BY <2>3, <3>3, <3>4
    <2> HIDE DEF low, high, new
    <2>8. j < i + 1 \/ j = i + 1 \/ j = i + 2 \/ j > i + 2
      BY <1>1
    <2> QED BY <2>4, <2>5, <2>6, <2>7, <2>8
  <1> QED BY <1>0, <1>4 DEF SlotsPut

\* What is below the edges once another node, c, hangs at edge i + 1.
EdgesPut(edges, place, i, k, e2, place2) ==
  \A j \in 1 .. Len(e2) :
    /\ j < i + 1 => j \in 1 .. Len(edges) /\ place2[e2[j]] = place[edges[j]]
    /\ j = i + 1 => j \in 1 .. Len(edges) /\ place2[e2[j]] = Lower(place[edges[i + 1]], k)
    /\ j = i + 2 => i + 1 \in 1 .. Len(edges) /\ place2[e2[j]] = Upper(place[edges[i + 1]], k)
    /\ j > i + 2 => j - 1 \in 1 .. Len(edges) /\ place2[e2[j]] = place[edges[j - 1]]

LEMMA PutOrdered ==
  ASSUME NEW kvs \in Seq(Pair), NEW edges, NEW place, NEW keys, NodeOrdered(kvs, edges, place, keys),
         NEW i \in 0 .. Len(kvs), NEW kv \in Pair, kv[1] \in Slot(kvs, keys, i + 1),
         NEW s, PutAfter(kvs, i, kv, s), NEW e2, Len(e2) \in {0, Len(kvs) + 2}, NEW place2,
         EdgesPut(edges, place, i, kv[1], e2, place2)
  PROVE  NodeOrdered(s, e2, place2, keys) /\ ToSet(s) = ToSet(kvs) \union {kv}
  <1> DEFINE n == Len(kvs)
  <1>0. PICK k : k = kv[1]
    OBVIOUS
  <1>1. n \in Nat /\ (\A j \in 1 .. n : kvs[j][1] \in Nat) /\ k \in Nat /\ i \in 0 .. n
    BY <1>0, PairsAre DEF Pair
  <1>2. keys \subseteq Nat /\ InRow(kvs) /\ (\A j \in 1 .. n : kvs[j][1] \in keys)
    BY DEF NodeOrdered
  <1>3. k \in keys /\ (i >= 1 => kvs[i][1] < k) /\ (i < n => k < kvs[i + 1][1])
    <2>1. k \in keys /\ (i + 1 > 1 => kvs[(i + 1) - 1][1] < k) /\ (i + 1 <= n => k < kvs[i + 1][1])
      BY <1>0 DEF Slot
    <2>2. (i + 1) - 1 = i /\ (i >= 1 => i + 1 > 1) /\ (i < n => i + 1 <= n)
      BY <1>1
    <2> QED BY <2>1, <2>2
  <1>4. /\ s \in Seq(Pair) /\ Len(s) = n + 1
        /\ \A j \in 1 .. n + 1 : s[j] = IF j < i + 1 THEN kvs[j] ELSE IF j = i + 1 THEN kv ELSE kvs[j - 1]
    BY DEF PutAfter
  <1>5. SlotsPut(kvs, keys, i, k, s)
    BY <1>0, <1>2, PutSlots
  <1>6. ASSUME NEW j \in 1 .. n PROVE (j <= i => kvs[j][1] < k) /\ (j > i => k < kvs[j][1])
    <2>1. CASE j < i
      <3>1. kvs[j][1] < kvs[i][1] /\ i >= 1 /\ i \in 1 .. n
        BY <1>1, <1>2, <2>1 DEF InRow
      <3> QED BY <1>1, <1>3, <2>1, <3>1
    <2>2. CASE j = i
      BY <1>1, <1>3, <2>2
    <2>3. CASE j = i + 1
      BY <1>1, <1>3, <2>3
    <2>4. CASE j > i + 1
      <3>1. kvs[i + 1][1] < kvs[j][1] /\ i < n /\ i + 1 \in 1 .. n
        BY <1>1, <1>2, <2>4 DEF InRow
      <3> QED BY <1>1, <1>3, <2>4, <3>1
    <2> QED BY <1>1, <2>1, <2>2, <2>3, <2>4
  <1>7. InRow(s)
    <2> SUFFICES ASSUME NEW a \in 1 .. Len(s), NEW b \in 1 .. Len(s), a < b PROVE s[a][1] < s[b][1]
      BY DEF InRow
    <2>1. a \in 1 .. n + 1 /\ b \in 1 .. n + 1
      BY <1>4
    <2>2. s[a] = (IF a < i + 1 THEN kvs[a] ELSE IF a = i + 1 THEN kv ELSE kvs[a - 1])
          /\ s[b] = (IF b < i + 1 THEN kvs[b] ELSE IF b = i + 1 THEN kv ELSE kvs[b - 1])
      BY <1>4, <2>1
    <2>3. CASE b < i + 1
      BY <1>1, <1>2, <2>1, <2>2, <2>3 DEF InRow
    <2>4. CASE b = i + 1
      <3>1. a \in 1 .. n /\ a <= i /\ s[a] = kvs[a] /\ s[b] = kv
        BY <1>1, <2>1, <2>2, <2>4
      <3> QED BY <1>0, <1>6, <3>1
    <2>5. CASE b > i + 1 /\ a < i + 1
      <3>1. s[a] = kvs[a] /\ s[b] = kvs[b - 1] /\ a \in 1 .. n /\ b - 1 \in 1 .. n /\ a < b - 1
        BY <1>1, <2>1, <2>2, <2>5
      <3> QED BY <1>2, <3>1 DEF InRow
    <2>6. CASE b > i + 1 /\ a = i + 1
      <3>1. s[a] = kv /\ s[b] = kvs[b - 1] /\ b - 1 \in 1 .. n /\ b - 1 > i
        BY <1>1, <2>1, <2>2, <2>6
      <3> QED BY <1>0, <1>6, <3>1
    <2>7. CASE b > i + 1 /\ a > i + 1
      <3>1. s[a] = kvs[a - 1] /\ s[b] = kvs[b - 1] /\ a - 1 \in 1 .. n /\ b - 1 \in 1 .. n /\ a - 1 < b - 1
        BY <1>1, <2>1, <2>2, <2>7
      <3> QED BY <1>2, <3>1 DEF InRow
    <2> QED BY <1>1, <2>1, <2>3, <2>4, <2>5, <2>6, <2>7
  <1>8. ASSUME NEW j \in 1 .. Len(s) PROVE s[j][1] \in keys
    <2>1. CASE j < i + 1
      BY <1>1, <1>2, <1>4, <2>1
    <2>2. CASE j = i + 1
      BY <1>0, <1>3, <1>4, <2>2, SMTT(30)
    <2>3. CASE j > i + 1
      <3>1. j - 1 \in 1 .. n /\ s[j] = kvs[j - 1]
        BY <1>1, <1>4, <2>3
      <3> QED BY <1>2, <3>1
    <2> QED BY <1>1, <1>4, <2>1, <2>2, <2>3
  <1>9. ASSUME NEW j \in 1 .. Len(e2) PROVE place2[e2[j]] = Slot(s, keys, j)
    <2>1. j \in 1 .. n + 2
      BY <1>1
    <2>2. \A x \in 1 .. Len(edges) : place[edges[x]] = Slot(kvs, keys, x)
      BY DEF NodeOrdered
    <2>3. CASE j < i + 1
      BY <1>0, <1>5, <2>1, <2>2, <2>3 DEF SlotsPut, EdgesPut
    <2>4. CASE j = i + 1
      <3>1. i + 1 \in 1 .. Len(edges) /\ place2[e2[j]] = Lower(place[edges[i + 1]], k)
        BY <1>0, <2>4 DEF EdgesPut
      <3>2. Slot(s, keys, j) = Lower(Slot(kvs, keys, i + 1), k)
        BY <1>5, <2>1, <2>4 DEF SlotsPut
      <3> QED BY <2>2, <3>1, <3>2
    <2>5. CASE j = i + 2
      <3>1. i + 1 \in 1 .. Len(edges) /\ place2[e2[j]] = Upper(place[edges[i + 1]], k)
        BY <1>0, <2>5 DEF EdgesPut
      <3>2. ~(j < i + 1) /\ j # i + 1
        BY <1>1, <2>5
      <3>3. Slot(s, keys, j) = Upper(Slot(kvs, keys, i + 1), k)
        BY <1>5, <2>1, <2>5, <3>2 DEF SlotsPut
      <3> QED BY <2>2, <3>1, <3>3
    <2>6. CASE j > i + 2
      <3>1. j - 1 \in 1 .. Len(edges) /\ place2[e2[j]] = place[edges[j - 1]]
        BY <2>6 DEF EdgesPut
      <3>2. ~(j < i + 1) /\ j # i + 1 /\ j # i + 2
        BY <1>1, <2>6
      <3>3. Slot(s, keys, j) = Slot(kvs, keys, j - 1)
        BY <1>5, <2>1, <3>2 DEF SlotsPut
      <3> QED BY <2>2, <3>1, <3>3
    <2> QED BY <1>1, <2>1, <2>3, <2>4, <2>5, <2>6
  <1>10. ToSet(s) = ToSet(kvs) \union {kv}
    <2>1. ToSet(s) = {s[j] : j \in 1 .. Len(s)} /\ ToSet(kvs) = {kvs[j] : j \in 1 .. Len(kvs)}
      BY <1>4, PairsAre
    <2>2. ASSUME NEW j \in 1 .. n PROVE kvs[j] \in ToSet(s)
      <3>1. CASE j < i + 1
        BY <1>1, <1>4, <2>1, <3>1
      <3>2. CASE j >= i + 1
        <4>1. j + 1 \in 1 .. n + 1 /\ ~(j + 1 < i + 1) /\ j + 1 # i + 1 /\ (j + 1) - 1 = j
          BY <1>1, <3>2
        <4>2. s[j + 1] = kvs[j]
          BY <1>4, <4>1
        <4> QED BY <1>4, <2>1, <4>1, <4>2
      <3> QED BY <1>1, <3>1, <3>2
    <2>3. kv \in ToSet(s)
      <3>1. i + 1 \in 1 .. n + 1 /\ s[i + 1] = kv
        BY <1>1, <1>4
      <3> QED BY <1>4, <2>1, <3>1
    <2>4. ASSUME NEW j \in 1 .. n + 1 PROVE s[j] \in ToSet(kvs) \union {kv}
      <3>1. j < i + 1 => j \in 1 .. n
        BY <1>1
      <3>2. j > i + 1 => j - 1 \in 1 .. n
        BY <1>1
      <3> QED BY <1>1, <1>4, <2>1, <3>1, <3>2
    <2> QED BY <1>4, <2>1, <2>2, <2>3, <2>4
  <1> QED BY <1>2, <1>7, <1>8, <1>9, <1>10 DEF NodeOrdered

LEMMA PutAfterIs ==
  ASSUME NEW kvs \in Seq(Pair), NEW i \in 0 .. Len(kvs), NEW kv \in Pair
  PROVE  PutAfter(kvs, i, kv, InsertAt(kvs, i + 1, kv))
  <1>1. PICK e : e = i + 1
    OBVIOUS
  <1>2. kvs \in Seq(Pair) /\ kv \in Pair /\ e \in 1 .. Len(kvs) + 1
    BY <1>1
  <1>3. \A j \in 1 .. Len(kvs) + 1 : InsertAt(kvs, e, kv)[j] = IF j < e THEN kvs[j] ELSE IF j = e THEN kv ELSE kvs[j - 1]
    BY <1>2, InsertAtIs
  <1>4. InsertAt(kvs, e, kv) \in Seq(Pair) /\ Len(InsertAt(kvs, e, kv)) = Len(kvs) + 1
    BY <1>2, InsertAtIs
  <1> QED BY <1>1, <1>3, <1>4 DEF PutAfter

(***************************************************************************)
(* A tree in order: a key has one place on every level.                     *)
(***************************************************************************)
Spanned(N, T, place, own) == \A a \in T : NodeOrdered(N[a].kvs, N[a].edges, place, own[a])
InOrderTree(N, T, top, h, rank, span) ==
  Grown(N, T, {top}, top, h, rank) /\ Spanned(N, T, span, span) /\ span[top] = Nat

\* A key below an edge is none of the node's own, and below no other edge.
LEMMA SlotsApart ==
  ASSUME NEW kvs \in Seq(Pair), NEW keys, keys \subseteq Nat, InRow(kvs), NEW k,
         NEW i \in 1 .. Len(kvs) + 1, k \in Slot(kvs, keys, i)
  PROVE  /\ \A j \in 1 .. Len(kvs) : kvs[j][1] # k
         /\ \A j \in 1 .. Len(kvs) + 1 : k \in Slot(kvs, keys, j) => j = i
  <1> DEFINE n == Len(kvs)
  <1>1. n \in Nat /\ (\A j \in 1 .. n : kvs[j][1] \in Nat) /\ k \in Nat
    BY PairsAre DEF Slot
  <1>2. (i > 1 => kvs[i - 1][1] < k) /\ (i <= n => k < kvs[i][1])
    BY DEF Slot
  <1>3. ASSUME NEW j \in 1 .. n PROVE (j < i => kvs[j][1] < k) /\ (j >= i => k < kvs[j][1])
    <2>1. CASE j < i - 1
      <3>1. kvs[j][1] < kvs[i - 1][1] /\ i - 1 \in 1 .. n /\ i > 1
        BY <1>1, <2>1 DEF InRow
      <3> QED BY <1>1, <1>2, <2>1, <3>1
    <2>2. CASE j = i - 1
      BY <1>1, <1>2, <2>2
    <2>3. CASE j = i
      BY <1>1, <1>2, <2>3
    <2>4. CASE j > i
      <3>1. kvs[i][1] < kvs[j][1] /\ i \in 1 .. n
        BY <1>1, <2>4 DEF InRow
      <3> QED BY <1>1, <1>2, <2>4, <3>1
    <2> QED BY <1>1, <2>1, <2>2, <2>3, <2>4
  <1>4. ASSUME NEW j \in 1 .. n PROVE kvs[j][1] # k
    BY <1>1, <1>3
  <1>5. ASSUME NEW j \in 1 .. n + 1, k \in Slot(kvs, keys, j) PROVE j = i
    <2>1. (j > 1 => kvs[j - 1][1] < k) /\ (j <= n => k < kvs[j][1])
      BY <1>5 DEF Slot
    <2>2. CASE j < i
      <3>1. j \in 1 .. n /\ kvs[j][1] < k /\ k < kvs[j][1]
        BY <1>1, <1>3, <2>1, <2>2
      <3> QED BY <1>1, <3>1
    <2>3. CASE j > i
      <3>1. j - 1 \in 1 .. n /\ j - 1 >= i /\ j > 1
        BY <1>1, <2>3
      <3>2. kvs[j - 1][1] < k /\ k < kvs[j - 1][1]
        BY <1>3, <2>1, <3>1
      <3> QED BY <1>1, <3>1, <3>2
    <2> QED BY <1>1, <2>2, <2>3
  <1> QED BY <1>4, <1>5

\* A node that is not the root is at an edge of its parent.
LEMMA ParentIs ==
  ASSUME NEW N, Table(N), NEW T, NEW top, NEW h \in Nat, NEW rank, Grown(N, T, {top}, top, h, rank),
         NEW c \in T, rank[c] # h
  PROVE  \E p \in T : \E i \in 1 .. Len(N[p].edges) :
           N[p].edges[i] = c /\ rank[p] = rank[c] + 1 /\ i \in 1 .. Len(N[p].kvs) + 1
  <1>1. /\ T \subseteq DOMAIN N /\ rank \in [T -> 0 .. h] /\ (top # Null => rank[top] = h)
        /\ \A x \in T : Len(N[x].edges) = EdgesOf(Len(N[x].kvs), rank[x])
        /\ \A x \in T : \A i \in 1 .. Len(N[x].edges) : ChildOK(N, T, rank, x, i)
        /\ \A x \in T : x # top => Hangs(N, T, x)
        /\ top = Null => T = {}
    BY DEF Grown, Shaped
  <1> DEFINE p == N[c].parent
             i == N[c].parent_idx + 1
  <1>2. p \in T /\ i \in 1 .. Len(N[p].edges) /\ N[p].edges[i] = c
    <2>1. c # top
      BY <1>1
    <2> QED BY <1>1, <2>1 DEF Hangs
  <1> HIDE DEF p, i
  <1>3. ChildOK(N, T, rank, p, i) /\ p \in DOMAIN N
    BY <1>1, <1>2
  <1>4. rank[c] = rank[p] - 1 /\ rank[p] \in 0 .. h /\ rank[c] \in 0 .. h
    BY <1>1, <1>2, <1>3 DEF ChildOK
  <1>5. Len(N[p].edges) = 0 \/ Len(N[p].edges) = Len(N[p].kvs) + 1
    BY <1>1, <1>2 DEF EdgesOf
  <1>6. Len(N[p].kvs) \in Nat
    BY <1>3, RecordIs
  <1>7. i \in 1 .. Len(N[p].kvs) + 1 /\ rank[p] = rank[c] + 1
    BY <1>2, <1>4, <1>5, <1>6
  <1> QED BY <1>2, <1>7

\* What a node below an edge may hold is what the edge leaves it.
LEMMA SpanBelow ==
  ASSUME NEW N, Table(N), NEW T, T \subseteq DOMAIN N, NEW span, Spanned(N, T, span, span), NEW p \in T,
         NEW i \in 1 .. Len(N[p].edges), NEW k \in span[N[p].edges[i]]
  PROVE  /\ k \in Slot(N[p].kvs, span[p], i) /\ k \in span[p] /\ k \in Nat
         /\ N[p].kvs \in Seq(Pair) /\ span[p] \subseteq Nat /\ InRow(N[p].kvs)
  <1>1. NodeOrdered(N[p].kvs, N[p].edges, span, span[p]) /\ p \in DOMAIN N
    BY DEF Spanned
  <1>2. k \in Slot(N[p].kvs, span[p], i) /\ span[p] \subseteq Nat /\ InRow(N[p].kvs)
    BY <1>1 DEF NodeOrdered
  <1>3. N[p].kvs \in Seq(Pair)
    BY <1>1, RecordIs
  <1> QED BY <1>2, <1>3 DEF Slot

BothHold(rank, span, a, b, k) == rank[a] = rank[b] /\ k \in span[a] /\ k \in span[b]

LEMMA OnePlace ==
  ASSUME NEW N, Table(N), NEW T, NEW top, NEW h \in Nat, NEW rank, NEW span, InOrderTree(N, T, top, h, rank, span),
         NEW a \in T, NEW b \in T, NEW k, BothHold(rank, span, a, b, k)
  PROVE  a = b
  <1>0. rank[a] = rank[b] /\ k \in span[a] /\ k \in span[b]
    BY DEF BothHold
  <1>1. /\ Grown(N, T, {top}, top, h, rank) /\ Spanned(N, T, span, span) /\ T \subseteq DOMAIN N /\ rank \in [T -> 0 .. h]
        /\ \A x \in T : \A i \in 1 .. Len(N[x].edges) : ChildOK(N, T, rank, x, i)
    BY DEF InOrderTree, Grown, Shaped
  <1> DEFINE S == {d \in Nat : \A x, y \in T : rank[x] = h - d /\ rank[y] = h - d /\ k \in span[x] /\ k \in span[y] => x = y}
  <1>2. 0 \in S
    <2> SUFFICES ASSUME NEW x \in T, NEW y \in T, rank[x] = h - 0, rank[y] = h - 0 PROVE x = y
      OBVIOUS
    <2>1. rank[x] = h /\ rank[y] = h
      OBVIOUS
    <2>2. x \in {top} /\ y \in {top}
      BY <1>1, <2>1, HighestIs
    <2> QED BY <2>2
  <1>3. ASSUME NEW d \in Nat, d \in S PROVE d + 1 \in S
    <2> SUFFICES ASSUME NEW x \in T, NEW y \in T, rank[x] = h - (d + 1), rank[y] = h - (d + 1), k \in span[x], k \in span[y]
                 PROVE  x = y
      OBVIOUS
    <2>1. rank[x] # h /\ rank[y] # h /\ rank[x] + 1 = h - d
      OBVIOUS
    <2>p. \E q \in T : \E j \in 1 .. Len(N[q].edges) :
            N[q].edges[j] = y /\ rank[q] = rank[y] + 1 /\ j \in 1 .. Len(N[q].kvs) + 1
      <3>1. rank[y] # h
        BY <2>1
      <3> QED BY <1>1, <3>1, ParentIs
    <2>2a. PICK p \in T : \E i \in 1 .. Len(N[p].edges) :
                           N[p].edges[i] = x /\ rank[p] = rank[x] + 1 /\ i \in 1 .. Len(N[p].kvs) + 1
      BY <1>1, <2>1, ParentIs
    <2>2. PICK i \in 1 .. Len(N[p].edges) :
                    N[p].edges[i] = x /\ rank[p] = rank[x] + 1 /\ i \in 1 .. Len(N[p].kvs) + 1
      BY <2>2a
    <2>3a. PICK q \in T : \E j \in 1 .. Len(N[q].edges) :
                           N[q].edges[j] = y /\ rank[q] = rank[y] + 1 /\ j \in 1 .. Len(N[q].kvs) + 1
      BY <2>p
    <2>3. PICK j \in 1 .. Len(N[q].edges) :
                    N[q].edges[j] = y /\ rank[q] = rank[y] + 1 /\ j \in 1 .. Len(N[q].kvs) + 1
      BY <2>3a
    <2>4. /\ k \in Slot(N[p].kvs, span[p], i) /\ k \in span[p] /\ N[p].kvs \in Seq(Pair) /\ span[p] \subseteq Nat
          /\ InRow(N[p].kvs)
      BY <1>1, <2>2, SpanBelow
    <2>5. k \in Slot(N[q].kvs, span[q], j) /\ k \in span[q]
      BY <1>1, <2>3, SpanBelow
    <2>6. p = q
      <3>1. rank[p] = h - d /\ rank[q] = h - d
        BY <2>1, <2>2, <2>3
      <3> QED BY <1>3, <2>4, <2>5, <3>1
    <2>7. i = j
      BY <2>2, <2>3, <2>4, <2>5, <2>6, SlotsApart
    <2> QED BY <2>2, <2>3, <2>6, <2>7
  <1> HIDE DEF S
  <1>4. Nat \subseteq S
    BY <1>2, <1>3, Counting
  <1>5. h - rank[a] \in S /\ h - (h - rank[a]) = rank[a]
    <2>1. rank[a] \in 0 .. h
      BY <1>1
    <2> QED BY <1>4, <2>1
  <1> QED BY <1>0, <1>5 DEF S

\* No node as low as one that holds a key may hold it, but that one.
KeyFits(N, rank, span, a, m, c) == rank[c] <= rank[a] /\ N[a].kvs[m][1] \in span[c]

LEMMA KeyOnce ==
  ASSUME NEW N, Table(N), NEW T, NEW top, NEW h \in Nat, NEW rank, NEW span, InOrderTree(N, T, top, h, rank, span),
         NEW a \in T, NEW m \in 1 .. Len(N[a].kvs), NEW c \in T, KeyFits(N, rank, span, a, m, c)
  PROVE  c = a
  <1>0. rank[c] <= rank[a] /\ N[a].kvs[m][1] \in span[c]
    BY DEF KeyFits
  <1> DEFINE k == N[a].kvs[m][1]
  <1>1. /\ Grown(N, T, {top}, top, h, rank) /\ Spanned(N, T, span, span) /\ T \subseteq DOMAIN N /\ rank \in [T -> 0 .. h]
    BY DEF InOrderTree, Grown, Shaped
  <1>2. k \in span[a]
    BY <1>1 DEF Spanned, NodeOrdered
  <1> DEFINE S == {d \in Nat : \A x \in T : rank[x] + d = rank[a] /\ k \in span[x] => x = a}
  <1>3. 0 \in S
    <2> SUFFICES ASSUME NEW x \in T, rank[x] + 0 = rank[a], k \in span[x] PROVE x = a
      OBVIOUS
    <2>1. rank[x] = rank[a]
      BY <1>1
    <2>2. BothHold(rank, span, x, a, k)
      BY <1>2, <2>1 DEF BothHold
    <2> HIDE DEF k, S
    <2> QED BY <2>2, OnePlace
  <1>4. ASSUME NEW d \in Nat, d \in S PROVE d + 1 \in S
    <2> SUFFICES ASSUME NEW x \in T, rank[x] + (d + 1) = rank[a], k \in span[x] PROVE FALSE
      OBVIOUS
    <2>0. rank[x] \in 0 .. h /\ rank[a] \in 0 .. h
      BY <1>1
    <2>0a. rank[x] + (d + 1) = rank[a]
      OBVIOUS
    <2>0b. PICK rx, ra : rx = rank[x] /\ ra = rank[a]
      OBVIOUS
    <2>0c. rx \in 0 .. h /\ ra \in 0 .. h /\ rx + (d + 1) = ra
      BY <2>0, <2>0a, <2>0b
    <2>0d. rx # h /\ (rx + 1) + d = ra
      BY <2>0c
    <2>1. rank[x] # h /\ (rank[x] + 1) + d = rank[a]
      BY <2>0b, <2>0d
    <2>2a. PICK p \in T : \E i \in 1 .. Len(N[p].edges) :
                           N[p].edges[i] = x /\ rank[p] = rank[x] + 1 /\ i \in 1 .. Len(N[p].kvs) + 1
      BY <1>1, <2>1, ParentIs
    <2>2. PICK i \in 1 .. Len(N[p].edges) :
                    N[p].edges[i] = x /\ rank[p] = rank[x] + 1 /\ i \in 1 .. Len(N[p].kvs) + 1
      BY <2>2a
    <2>3. /\ k \in Slot(N[p].kvs, span[p], i) /\ k \in span[p] /\ N[p].kvs \in Seq(Pair) /\ span[p] \subseteq Nat
          /\ InRow(N[p].kvs)
      <3> HIDE DEF k
      <3> QED BY <1>1, <2>2, SpanBelow
    <2>4. p = a
      BY <1>4, <2>1, <2>2, <2>3
    <2>5. \A j \in 1 .. Len(N[p].kvs) : N[p].kvs[j][1] # k
      <3> HIDE DEF k
      <3> QED BY <2>2, <2>3, SlotsApart
    <2> QED BY <2>4, <2>5
  <1> HIDE DEF S
  <1>5. Nat \subseteq S
    BY <1>3, <1>4, Counting
  <1>6. rank[a] - rank[c] \in S /\ rank[c] + (rank[a] - rank[c]) = rank[a]
    <2>1. rank[a] \in 0 .. h /\ rank[c] \in 0 .. h
      BY <1>1
    <2> QED BY <1>0, <1>5, <2>1
  <1> QED BY <1>0, <1>6 DEF S

\* Entries i of a and j of b of an ordered tree have the same key.
SameKey(N, T, top, h, rank, span, a, i, b, j) ==
  /\ Table(N) /\ h \in Nat /\ InOrderTree(N, T, top, h, rank, span)
  /\ a \in T /\ i \in 1 .. Len(N[a].kvs) /\ b \in T /\ j \in 1 .. Len(N[b].kvs)
  /\ N[a].kvs[i][1] = N[b].kvs[j][1]

\* An entry is where its key is, and nowhere else.
LEMMA EntryOnce ==
  ASSUME NEW N, NEW T, NEW top, NEW h, NEW rank, NEW span, NEW a, NEW i, NEW b, NEW j,
         SameKey(N, T, top, h, rank, span, a, i, b, j)
  PROVE  a = b /\ i = j
  <1>0. /\ Table(N) /\ h \in Nat /\ InOrderTree(N, T, top, h, rank, span)
        /\ a \in T /\ i \in 1 .. Len(N[a].kvs) /\ b \in T /\ j \in 1 .. Len(N[b].kvs)
        /\ N[a].kvs[i][1] = N[b].kvs[j][1]
    BY DEF SameKey
  <1>1. Spanned(N, T, span, span) /\ T \subseteq DOMAIN N /\ rank \in [T -> 0 .. h]
    BY <1>0 DEF InOrderTree, Grown, Shaped
  <1>2. /\ N[a].kvs[i][1] \in span[a] /\ N[b].kvs[j][1] \in span[b] /\ InRow(N[a].kvs)
    BY <1>0, <1>1 DEF Spanned, NodeOrdered
  <1>3. a = b
    <2>1. rank[a] \in Nat /\ rank[b] \in Nat
      BY <1>0, <1>1
    <2>2. CASE rank[a] <= rank[b]
      <3>1. KeyFits(N, rank, span, b, j, a)
        BY <1>0, <1>2, <2>2 DEF KeyFits
      <3> QED BY <1>0, <3>1, KeyOnce
    <2>3. CASE rank[b] <= rank[a]
      <3>1. KeyFits(N, rank, span, a, i, b)
        BY <1>0, <1>2, <2>3 DEF KeyFits
      <3> QED BY <1>0, <3>1, KeyOnce
    <2> QED BY <1>0, <2>1, <2>2, <2>3
  <1>4. N[a].kvs \in Seq(Pair)
    BY <1>0, <1>1, RecordIs
  <1>5. Len(N[a].kvs) \in Nat /\ \A x \in 1 .. Len(N[a].kvs) : N[a].kvs[x][1] \in Nat
    BY <1>0, <1>4, PairsAre
  <1>6. i \in 1 .. Len(N[a].kvs) /\ j \in 1 .. Len(N[a].kvs) /\ N[a].kvs[i][1] = N[a].kvs[j][1]
    BY <1>0, <1>3
  <1>7. ~(i < j)
    BY <1>0, <1>2, <1>5, <1>6 DEF InRow
  <1>8. ~(j < i)
    BY <1>0, <1>2, <1>5, <1>6 DEF InRow
  <1> QED BY <1>0, <1>3, <1>5, <1>7, <1>8

(***************************************************************************)
(* The surgery keeps the order, and the entries.                            *)
(***************************************************************************)
Holds(N, T) == UNION {ToSet(N[a].kvs) : a \in T}
Divided(own, T, a, b, k) ==
  [x \in T \union {b} |-> IF x = a THEN Lower(own[a], k) ELSE IF x = b THEN Upper(own[a], k) ELSE own[x]]
HeldApart(N, l, T, b, mid) == Holds(l, T \union {b}) \union {mid} = Holds(N, T)
MidOf(N, a, sp, mid) == sp < Len(N[a].kvs) /\ mid = N[a].kvs[sp + 1]

LEMMA SplitSpans ==
  ASSUME NEW N, Table(N), NEW T, NEW tops, NEW rank, Shaped(N, T, tops, rank), NEW a \in T, NEW b, b \notin T,
         NEW sp \in Nat, NEW mid, MidOf(N, a, sp, mid), NEW l, SplitOf(N, l, T, rank, a, b, sp),
         NEW place, NEW own, Spanned(N, T, place, own)
  PROVE  /\ Spanned(l, T \union {b}, place, Divided(own, T, a, b, mid[1]))
         /\ mid \in Pair /\ mid[1] \in own[a] /\ HeldApart(N, l, T, b, mid)
         /\ SlotsKept(N[a].kvs, own[a], sp, l[a].kvs, l[b].kvs, mid[1])
  <1> DEFINE own2 == Divided(own, T, a, b, mid[1])
  <1>0. PICK k : k = mid[1]
    OBVIOUS
  <1>1. /\ N[a].kvs \in Seq(Pair) /\ Len(N[a].kvs) \in Nat /\ sp + 1 \in 1 .. Len(N[a].kvs) /\ sp < Len(N[a].kvs)
        /\ mid = N[a].kvs[sp + 1] /\ mid \in Pair /\ a # b /\ T \subseteq DOMAIN N
    <2>1. T \subseteq DOMAIN N
      BY DEF Shaped
    <2>2. N[a].kvs \in Seq(Pair) /\ Len(N[a].kvs) \in Nat
      BY <2>1, RecordIs
    <2> QED BY <2>1, <2>2, PairsAre DEF MidOf
  <1>2. NodeOrdered(N[a].kvs, N[a].edges, place, own[a])
    BY DEF Spanned
  <1>3. Halves(N[a].kvs, sp, l[a].kvs, l[b].kvs)
    <2>1. l[a].kvs = SubSeq(N[a].kvs, 1, sp) /\ l[b].kvs = SubSeq(N[a].kvs, sp + 2, Len(N[a].kvs))
      BY DEF SplitOf
    <2> QED BY <1>1, <2>1, HalvesAre
  <1>4. /\ Len(l[a].edges) = EdgesOf(sp, rank[a]) /\ Len(l[b].edges) = EdgesOf(Len(N[a].kvs) - sp - 1, rank[a])
        /\ Len(N[a].edges) = EdgesOf(Len(N[a].kvs), rank[a])
        /\ \A i \in 1 .. Len(l[a].edges) : l[a].edges[i] = N[a].edges[i]
        /\ \A i \in 1 .. Len(l[b].edges) : l[b].edges[i] = N[a].edges[sp + 1 + i]
    BY DEF SplitOf, Shaped
  <1>5. TakenLeft(N[a].edges, l[a].edges, sp)
    BY <1>1, <1>4 DEF TakenLeft, EdgesOf
  <1>6. TakenRight(N[a].edges, l[b].edges, sp, Len(N[a].kvs))
    BY <1>1, <1>4 DEF TakenRight, EdgesOf
  <1>7. /\ NodeOrdered(l[a].kvs, l[a].edges, place, Lower(own[a], k))
        /\ NodeOrdered(l[b].kvs, l[b].edges, place, Upper(own[a], k))
        /\ k \in own[a] /\ ToSet(l[a].kvs) \union ToSet(l[b].kvs) \union {mid} = ToSet(N[a].kvs)
    <2>1. k = N[a].kvs[sp + 1][1]
      BY <1>0, <1>1
    <2> QED BY <1>1, <1>2, <1>3, <1>5, <1>6, <2>1, SplitOrdered
  <1>8. SlotsKept(N[a].kvs, own[a], sp, l[a].kvs, l[b].kvs, k)
    <2>1. k = N[a].kvs[sp + 1][1] /\ own[a] \subseteq Nat /\ InRow(N[a].kvs)
      BY <1>0, <1>1, <1>2 DEF NodeOrdered
    <2> QED BY <1>1, <1>3, <2>1, SplitSlots
  <1>9. ASSUME NEW x \in T, x # a PROVE l[x].kvs = N[x].kvs /\ l[x].edges = N[x].edges
    BY <1>1, <1>9 DEF SplitOf
  <1>10. Spanned(l, T \union {b}, place, own2)
    <2> SUFFICES ASSUME NEW x \in T \union {b} PROVE NodeOrdered(l[x].kvs, l[x].edges, place, own2[x])
      BY DEF Spanned
    <2>1. CASE x = a
      <3>1. own2[x] = Lower(own[a], k)
        BY <1>0, <2>1 DEF Divided
      <3> HIDE DEF own2
      <3> QED BY <1>7, <2>1, <3>1
    <2>2. CASE x = b
      <3>1. own2[x] = Upper(own[a], k)
        BY <1>0, <1>1, <2>2 DEF Divided
      <3> HIDE DEF own2
      <3> QED BY <1>7, <2>2, <3>1
    <2>3. CASE x # a /\ x # b
      <3>1. own2[x] = own[x] /\ x \in T
        BY <2>3 DEF Divided
      <3>2. NodeOrdered(N[x].kvs, N[x].edges, place, own[x])
        BY <3>1 DEF Spanned
      <3> HIDE DEF own2
      <3> QED BY <1>9, <2>3, <3>1, <3>2
    <2> QED BY <2>1, <2>2, <2>3
  <1>11. HeldApart(N, l, T, b, mid)
    <2>1. ASSUME NEW e PROVE e \in Holds(l, T \union {b}) \union {mid} <=> e \in Holds(N, T)
      <3>1. e \in Holds(l, T \union {b}) <=> (\E x \in T : x # a /\ e \in ToSet(N[x].kvs)) \/ e \in ToSet(l[a].kvs) \/ e \in ToSet(l[b].kvs)
        BY <1>9 DEF Holds
      <3>2. e \in Holds(N, T) <=> (\E x \in T : x # a /\ e \in ToSet(N[x].kvs)) \/ e \in ToSet(N[a].kvs)
        BY DEF Holds
      <3> QED BY <1>7, <3>1, <3>2
    <2> QED BY <2>1 DEF HeldApart
  <1> HIDE DEF own2
  <1> QED BY <1>0, <1>1, <1>7, <1>8, <1>10, <1>11 DEF own2

NodePut(N, p, T, x, i, kv) ==
  /\ \A y \in T : y # x => p[y].kvs = N[y].kvs /\ p[y].edges = N[y].edges
  /\ p[x].kvs = InsertAt(N[x].kvs, i + 1, kv)
  /\ Len(p[x].edges) \in {0, Len(N[x].kvs) + 2}
\* Edges of other nodes lead to what they led to.
OthersStay(N, T, x, place, place2) ==
  \A y \in T : y # x => \A j \in 1 .. Len(N[y].edges) : place2[N[y].edges[j]] = place[N[y].edges[j]]
Fits(N, own, x, i, kv) == i \in 0 .. Len(N[x].kvs) /\ kv \in Pair /\ kv[1] \in Slot(N[x].kvs, own[x], i + 1)
HeldToo(N, p, T, kv) == Holds(p, T) = Holds(N, T) \union {kv}

LEMMA PutSpans ==
  ASSUME NEW N, Table(N), NEW T, T \subseteq DOMAIN N, NEW x \in T, NEW i, NEW kv, NEW p, NodePut(N, p, T, x, i, kv),
         NEW place, NEW own, Spanned(N, T, place, own), Fits(N, own, x, i, kv),
         NEW place2, EdgesPut(N[x].edges, place, i, kv[1], p[x].edges, place2), OthersStay(N, T, x, place, place2)
  PROVE  Spanned(p, T, place2, own) /\ HeldToo(N, p, T, kv)
  <1>1. /\ i \in 0 .. Len(N[x].kvs) /\ kv \in Pair /\ kv[1] \in Slot(N[x].kvs, own[x], i + 1)
        /\ N[x].kvs \in Seq(Pair) /\ NodeOrdered(N[x].kvs, N[x].edges, place, own[x])
    BY RecordIs DEF Fits, Spanned
  <1>2. PutAfter(N[x].kvs, i, kv, p[x].kvs) /\ Len(p[x].edges) \in {0, Len(N[x].kvs) + 2}
    BY <1>1, PutAfterIs DEF NodePut
  <1>3. NodeOrdered(p[x].kvs, p[x].edges, place2, own[x]) /\ ToSet(p[x].kvs) = ToSet(N[x].kvs) \union {kv}
    <2>1. PICK kvs, edges, keys, s, e2 :
            kvs = N[x].kvs /\ edges = N[x].edges /\ keys = own[x] /\ s = p[x].kvs /\ e2 = p[x].edges
      OBVIOUS
    <2>2. kvs \in Seq(Pair) /\ NodeOrdered(kvs, edges, place, keys) /\ i \in 0 .. Len(kvs) /\ kv \in Pair
      BY <1>1, <2>1
    <2>3. /\ kv[1] \in Slot(kvs, keys, i + 1) /\ PutAfter(kvs, i, kv, s) /\ Len(e2) \in {0, Len(kvs) + 2}
          /\ EdgesPut(edges, place, i, kv[1], e2, place2)
      BY <1>1, <1>2, <2>1
    <2>4. NodeOrdered(s, e2, place2, keys) /\ ToSet(s) = ToSet(kvs) \union {kv}
      BY <2>2, <2>3, PutOrdered
    <2> QED BY <2>1, <2>4
  <1>4. ASSUME NEW y \in T, y # x PROVE NodeOrdered(p[y].kvs, p[y].edges, place2, own[y])
    <2>1. NodeOrdered(N[y].kvs, N[y].edges, place, own[y])
      BY DEF Spanned
    <2>2. p[y].kvs = N[y].kvs /\ p[y].edges = N[y].edges
      BY <1>4 DEF NodePut
    <2>3. \A j \in 1 .. Len(N[y].edges) : place2[N[y].edges[j]] = place[N[y].edges[j]]
      BY <1>4 DEF OthersStay
    <2> QED BY <2>1, <2>2, <2>3 DEF NodeOrdered
  <1>5. Spanned(p, T, place2, own)
    BY <1>3, <1>4 DEF Spanned
  <1>6. ASSUME NEW e PROVE e \in Holds(p, T) <=> e \in Holds(N, T) \union {kv}
    <2>1. e \in Holds(p, T) <=> (\E y \in T : y # x /\ e \in ToSet(N[y].kvs)) \/ e \in ToSet(p[x].kvs)
      BY DEF Holds, NodePut
    <2>2. e \in Holds(N, T) <=> (\E y \in T : y # x /\ e \in ToSet(N[y].kvs)) \/ e \in ToSet(N[x].kvs)
      BY DEF Holds
    <2> QED BY <1>3, <2>1, <2>2
  <1> QED BY <1>5, <1>6 DEF HeldToo

\* Node c, right of what is at edge i + 1 of node x, comes to hang beside it.
Parted(place, T, d, c, k) ==
  [y \in T |-> IF y = d THEN Lower(place[d], k) ELSE IF y = c THEN Upper(place[d], k) ELSE place[y]]

LEMMA InsertSpans ==
  ASSUME NEW N, Table(N), NEW T, NEW tops, NEW rank, Shaped(N, T, tops, rank), NEW x \in T, rank[x] # 0,
         NEW i, NEW kv, NEW c \in tops, NEW p, InsertOf(N, p, T, x, i, kv, c),
         NEW place, NEW own, Spanned(N, T, place, own), Fits(N, own, x, i, kv),
         NEW d, d = N[x].edges[i + 1]
  PROVE  Spanned(p, T, Parted(place, T, d, c, kv[1]), own) /\ HeldToo(N, p, T, kv)
  <1> DEFINE E == N[x].edges
             n == Len(N[x].kvs)
             place2 == Parted(place, T, d, c, kv[1])
  <1>0. PICK k : k = kv[1]
    OBVIOUS
  <1>1. /\ T \subseteq DOMAIN N /\ c \in T /\ N[c].parent = Null
        /\ \A y \in T : \A j \in 1 .. Len(N[y].edges) : ChildOK(N, T, rank, y, j)
        /\ Len(E) = n + 1
    BY DEF Shaped, EdgesOf
  <1>2. n \in Nat /\ i \in 0 .. n /\ \A y \in T : y # Null
    BY <1>1, RecordIs DEF Fits
  <1>3. /\ \A y \in T : y # x => p[y].kvs = N[y].kvs /\ p[y].edges = N[y].edges
        /\ p[x].kvs = InsertAt(N[x].kvs, i + 1, kv) /\ Len(p[x].edges) = n + 2
        /\ \A j \in 1 .. n + 2 : p[x].edges[j] = IF j <= i + 1 THEN E[j] ELSE IF j = i + 2 THEN c ELSE E[j - 1]
    <2>1. Len(E) + 1 = n + 2
      BY <1>1, <1>2
    <2> QED BY <1>1, <2>1 DEF InsertOf
  <1>4. NodePut(N, p, T, x, i, kv)
    BY <1>3 DEF NodePut
  <1>5. ASSUME NEW y \in T, NEW j \in 1 .. Len(N[y].edges)
        PROVE  /\ N[y].edges[j] \in T /\ N[y].edges[j] # c
               /\ N[y].edges[j] = d <=> y = x /\ j = i + 1
    <2>1. ChildOK(N, T, rank, y, j)
      BY <1>1
    <2>2. N[y].edges[j] \in T /\ N[N[y].edges[j]].parent = y /\ N[N[y].edges[j]].parent_idx = j - 1
      BY <2>1 DEF ChildOK
    <2>3. i + 1 \in 1 .. Len(E)
      BY <1>1, <1>2
    <2>4. ChildOK(N, T, rank, x, i + 1)
      BY <1>1, <2>3
    <2>5. N[d].parent = x /\ N[d].parent_idx = (i + 1) - 1
      BY <2>4 DEF ChildOK
    <2>6. N[y].edges[j] = d => y = x /\ j - 1 = (i + 1) - 1
      BY <2>2, <2>5
    <2>7. j - 1 = (i + 1) - 1 => j = i + 1
      BY <1>2
    <2>8. y = x /\ j = i + 1 => N[y].edges[j] = d
      OBVIOUS
    <2> QED BY <1>1, <1>2, <2>2, <2>6, <2>7, <2>8
  <1>6. ASSUME NEW y \in T
        PROVE  place2[y] = IF y = d THEN Lower(place[d], k) ELSE IF y = c THEN Upper(place[d], k) ELSE place[y]
    BY <1>0 DEF Parted
  <1> HIDE DEF place2
  <1>7. OthersStay(N, T, x, place, place2)
    BY <1>5, <1>6 DEF OthersStay
  <1>8. EdgesPut(E, place, i, k, p[x].edges, place2)
    <2> SUFFICES ASSUME NEW j \in 1 .. n + 2
                 PROVE  /\ j < i + 1 => j \in 1 .. Len(E) /\ place2[p[x].edges[j]] = place[E[j]]
                        /\ j = i + 1 => j \in 1 .. Len(E) /\ place2[p[x].edges[j]] = Lower(place[E[i + 1]], k)
                        /\ j = i + 2 => i + 1 \in 1 .. Len(E) /\ place2[p[x].edges[j]] = Upper(place[E[i + 1]], k)
                        /\ j > i + 2 => j - 1 \in 1 .. Len(E) /\ place2[p[x].edges[j]] = place[E[j - 1]]
      BY <1>3 DEF EdgesPut
    <2>0. d # c
      <3>1. i + 1 \in 1 .. Len(N[x].edges)
        BY <1>1, <1>2
      <3> QED BY <1>5, <3>1
    <2>1. CASE j < i + 1
      <3>1. j \in 1 .. Len(E) /\ j # i + 1 /\ j <= i + 1
        BY <1>1, <1>2, <2>1
      <3>2. p[x].edges[j] = E[j]
        BY <1>3, <3>1
      <3>3. E[j] \in T /\ E[j] # c /\ E[j] # d
        BY <1>5, <3>1
      <3>4. place2[E[j]] = place[E[j]]
        BY <1>6, <3>3
      <3> QED BY <1>2, <2>1, <3>1, <3>2, <3>4
    <2>2. CASE j = i + 1
      <3>1. j \in 1 .. Len(E) /\ j <= i + 1
        BY <1>1, <1>2, <2>2
      <3>2. p[x].edges[j] = E[i + 1]
        BY <1>3, <2>2, <3>1
      <3>3. d \in T
        BY <1>5, <2>2, <3>1
      <3>4. place2[d] = Lower(place[d], k)
        BY <1>6, <3>3
      <3> QED BY <1>2, <2>2, <3>1, <3>2, <3>4
    <2>3. CASE j = i + 2
      <3>1. i + 1 \in 1 .. Len(E) /\ ~(j <= i + 1)
        BY <1>1, <1>2, <2>3
      <3>2. p[x].edges[j] = c
        BY <1>3, <2>3, <3>1
      <3>3. place2[c] = Upper(place[d], k)
        BY <1>1, <1>6, <2>0
      <3> QED BY <1>2, <2>3, <3>1, <3>2, <3>3
    <2>4. CASE j > i + 2
      <3>1. j - 1 \in 1 .. Len(E) /\ j - 1 # i + 1 /\ ~(j <= i + 1) /\ j # i + 2
        BY <1>1, <1>2, <2>4
      <3>2. p[x].edges[j] = E[j - 1]
        BY <1>3, <3>1
      <3>3. E[j - 1] \in T /\ E[j - 1] # c /\ E[j - 1] # d
        BY <1>5, <3>1
      <3>4. place2[E[j - 1]] = place[E[j - 1]]
        BY <1>6, <3>3
      <3> QED BY <1>2, <2>4, <3>1, <3>2, <3>4
    <2> QED BY <1>2, <2>1, <2>2, <2>3, <2>4
  <1> QED BY <1>0, <1>1, <1>4, <1>7, <1>8, PutSpans DEF place2

EntryAt(p, a, i, kv) == i + 1 \in 1 .. Len(p[a].kvs) /\ p[a].kvs[i + 1] = kv
SameEdges(N, p, S) == \A x \in S : p[x].edges = N[x].edges

LEMMA LeafPutSpans ==
  ASSUME NEW N, Table(N), NEW T, T \subseteq DOMAIN N, NEW a \in T, Len(N[a].edges) = 0,
         NEW place, NEW own, Spanned(N, T, place, own), NEW i, NEW kv, Fits(N, own, a, i, kv),
         NEW p, p = LeafInsert(N, a, i, kv)
  PROVE  /\ Spanned(p, T, place, own) /\ HeldToo(N, p, T, kv) /\ EntryAt(p, a, i, kv) /\ SameEdges(N, p, T)
  <1>1. /\ N[a].kvs \in Seq(Pair) /\ N[a].edges \in Seq(Nodes) /\ i \in 0 .. Len(N[a].kvs) /\ kv \in Pair
        /\ Len(N[a].kvs) \in Nat /\ a \in DOMAIN N
    BY RecordIs DEF Fits
  <1> DEFINE ks == InsertAt(N[a].kvs, i + 1, kv)
  <1>2. PutAfter(N[a].kvs, i, kv, ks)
    BY <1>1, PutAfterIs
  <1>3. p = Refilled(N, a, ks, N[a].edges)
    BY DEF LeafInsert
  <1> HIDE DEF ks
  <1>4. /\ \A x \in DOMAIN N : x # a => p[x] = N[x]
        /\ p[a].kvs = ks /\ p[a].edges = N[a].edges
    <2>1. ks \in Seq(Pair)
      BY <1>2 DEF PutAfter
    <2> QED BY <1>1, <1>3, <2>1, RefilledIs
  <1>5. NodePut(N, p, T, a, i, kv)
    BY <1>4 DEF NodePut, ks
  <1>6. EdgesPut(N[a].edges, place, i, kv[1], p[a].edges, place)
    BY <1>4 DEF EdgesPut
  <1>7. OthersStay(N, T, a, place, place)
    BY DEF OthersStay
  <1>8. Spanned(p, T, place, own) /\ HeldToo(N, p, T, kv)
    BY <1>5, <1>6, <1>7, PutSpans
  <1>9. EntryAt(p, a, i, kv)
    <2>1. i + 1 \in 1 .. Len(N[a].kvs) + 1 /\ ~(i + 1 < i + 1)
      BY <1>1
    <2>2. ks[i + 1] = kv /\ Len(ks) = Len(N[a].kvs) + 1
      BY <1>2, <2>1 DEF PutAfter
    <2> QED BY <1>4, <2>1, <2>2 DEF EntryAt
  <1>10. SameEdges(N, p, T)
    BY <1>4 DEF SameEdges
  <1> QED BY <1>8, <1>9, <1>10

\* Where the new entry goes in the half it belongs to (SplitKeepsPlace).
LEMMA PlaceInHalf ==
  ASSUME NEW e \in 0 .. CAPACITY
  PROVE  /\ SplitPoint(e).sp \in Nat /\ SplitPoint(e).sp < CAPACITY /\ SplitPoint(e).idx \in Nat
         /\ SplitPoint(e).right =>
              /\ SplitPoint(e).idx <= CAPACITY - SplitPoint(e).sp - 1
              /\ SplitPoint(e).idx + 1 \in 1 .. CAPACITY - SplitPoint(e).sp
              /\ SplitPoint(e).sp + 1 + (SplitPoint(e).idx + 1) = e + 1
         /\ ~SplitPoint(e).right =>
              SplitPoint(e).idx <= SplitPoint(e).sp /\ SplitPoint(e).idx + 1 \in 1 .. SplitPoint(e).sp + 1 /\ SplitPoint(e).idx = e
  <1>1. CAPACITY \in Nat
    BY BAssumption DEF CAPACITY
  <1>2. PICK s, i, r : s = SplitPoint(e).sp /\ i = SplitPoint(e).idx /\ r = SplitPoint(e).right
    OBVIOUS
  <1>3. s \in 0 .. CAPACITY - 1 /\ LeftOf(e) = s /\ RightOf(e) = CAPACITY - s - 1
    BY <1>2, SplitBalanced DEF LeftOf, RightOf
  <1>4. /\ r => i \in 0 .. CAPACITY - s - 1 /\ s + 1 + i = e
        /\ ~r => i \in 0 .. s /\ i = e
    BY <1>2, <1>3, SplitKeepsPlace
  <1>5. s \in Nat /\ s < CAPACITY /\ i \in Nat
    BY <1>1, <1>3, <1>4
  <1>6. r => i <= CAPACITY - s - 1 /\ i + 1 \in 1 .. CAPACITY - s /\ s + 1 + (i + 1) = e + 1
    BY <1>1, <1>4, <1>5
  <1>7. ~r => i <= s /\ i + 1 \in 1 .. s + 1 /\ i = e
    BY <1>1, <1>4, <1>5
  <1> QED BY <1>2, <1>5, <1>6, <1>7

HeldOver(N, p, T, b, mid, kv) == Holds(p, T \union {b}) \union {mid} = Holds(N, T) \union {kv}

\* Leaf a is split for entry kv at its edge e: it goes into half, mid goes up.
LeafParted(N, a, b, e, kv, half, p, mid) ==
  /\ half = (IF SplitPoint(e).right THEN b ELSE a)
  /\ p = LeafInsert(MoveRightHalf(N, a, b, SplitPoint(e).sp), half, SplitPoint(e).idx, kv)
  /\ mid = N[a].kvs[SplitPoint(e).sp + 1]
Belongs(N, own, a, e, kv) == kv \in Pair /\ kv[1] \in Slot(N[a].kvs, own[a], e + 1)
FullLeaf(N, rank, a) == rank[a] = 0 /\ Len(N[a].kvs) = CAPACITY
Detached(N, T, b) == b \in DOMAIN N /\ b \notin T /\ N[b].parent = Null
LEMMA LeafSplitSpans ==
  ASSUME NEW N, Table(N), NEW T, NEW tops, NEW rank, Shaped(N, T, tops, rank),
         NEW a \in T, FullLeaf(N, rank, a), NEW e \in 0 .. CAPACITY, NEW b, Detached(N, T, b),
         NEW place, NEW own, Spanned(N, T, place, own), NEW kv, Belongs(N, own, a, e, kv),
         NEW half, NEW p, NEW mid, LeafParted(N, a, b, e, kv, half, p, mid)
  PROVE  /\ Spanned(p, T \union {b}, place, Divided(own, T, a, b, mid[1]))
         /\ mid \in Pair /\ mid[1] \in own[a] /\ HeldOver(N, p, T, b, mid, kv)
         /\ EntryAt(p, half, SplitPoint(e).idx, kv) /\ Len(p[half].edges) = 0 /\ SameEdges(N, p, T \ {a})
  <1>0. PICK m : m = MoveRightHalf(N, a, b, SplitPoint(e).sp)
    OBVIOUS
  <1>a. /\ rank[a] = 0 /\ Len(N[a].kvs) = CAPACITY /\ b \in DOMAIN N /\ b \notin T /\ N[b].parent = Null
        /\ kv \in Pair /\ kv[1] \in Slot(N[a].kvs, own[a], e + 1) /\ half = (IF SplitPoint(e).right THEN b ELSE a)
        /\ p = LeafInsert(m, half, SplitPoint(e).idx, kv) /\ mid = N[a].kvs[SplitPoint(e).sp + 1]
    BY <1>0 DEF FullLeaf, Detached, Belongs, LeafParted
  <1> USE <1>0, <1>a
  <1> DEFINE sp == SplitPoint(e).sp
             i == SplitPoint(e).idx
             T2 == T \union {b}
             own2 == Divided(own, T, a, b, mid[1])
  <1>1. /\ sp \in Nat /\ sp < CAPACITY /\ i \in Nat
        /\ SplitPoint(e).right => i <= CAPACITY - sp - 1 /\ i + 1 \in 1 .. CAPACITY - sp /\ sp + 1 + (i + 1) = e + 1
        /\ ~SplitPoint(e).right => i <= sp /\ i + 1 \in 1 .. sp + 1 /\ i = e
    BY PlaceInHalf
  <1>2. m = MoveRightHalf(N, a, b, sp) /\ p = LeafInsert(m, half, i, kv) /\ mid = N[a].kvs[sp + 1]
    OBVIOUS
  <1> HIDE DEF sp, i
  <1>3. SplitOf(N, m, T, rank, a, b, sp)
    BY <1>1, <1>2, SplitLeafIs
  <1>4. MidOf(N, a, sp, mid)
    BY <1>1, <1>2 DEF MidOf
  <1>5. /\ Spanned(m, T2, place, own2) /\ mid \in Pair /\ mid[1] \in own[a] /\ HeldApart(N, m, T, b, mid)
        /\ SlotsKept(N[a].kvs, own[a], sp, m[a].kvs, m[b].kvs, mid[1])
    BY <1>1, <1>3, <1>4, SplitSpans
  <1>6. Table(m) /\ DOMAIN m = DOMAIN N /\ T2 \subseteq DOMAIN m /\ a # b /\ half \in T2
    BY <1>3 DEF SplitOf, Shaped
  <1>7. /\ Len(m[a].kvs) = sp /\ Len(m[b].kvs) = CAPACITY - sp - 1 /\ Len(m[a].edges) = 0 /\ Len(m[b].edges) = 0
        /\ \A x \in T : x # a => m[x].edges = N[x].edges
    <2>1. T \subseteq DOMAIN N
      BY DEF Shaped
    <2> QED BY <1>3, <2>1 DEF SplitOf, EdgesOf
  <1>8. own2[a] = Lower(own[a], mid[1]) /\ own2[b] = Upper(own[a], mid[1])
    BY <1>6 DEF Divided
  <1> HIDE DEF own2
  <1>9. Fits(m, own2, half, i, kv)
    <2>1. CAPACITY \in Nat
      BY BAssumption DEF CAPACITY
    <2>2. CASE SplitPoint(e).right
      <3>1. half = b /\ i \in 0 .. Len(m[half].kvs)
        BY <1>1, <1>7, <2>1, <2>2
      <3>2. Slot(m[b].kvs, own2[b], i + 1) = Slot(N[a].kvs, own[a], e + 1)
        BY <1>1, <1>5, <1>8, <2>2, ZenonT(30) DEF SlotsKept
      <3> QED BY <3>1, <3>2 DEF Fits
    <2>3. CASE ~SplitPoint(e).right
      <3>1. half = a /\ i \in 0 .. Len(m[half].kvs)
        BY <1>1, <1>7, <2>1, <2>3
      <3>2. Slot(m[a].kvs, own2[a], i + 1) = Slot(N[a].kvs, own[a], e + 1)
        BY <1>1, <1>5, <1>8, <2>3 DEF SlotsKept
      <3> QED BY <3>1, <3>2 DEF Fits
    <2> QED BY <2>2, <2>3
  <1>10. Len(m[half].edges) = 0
    BY <1>7
  <1> HIDE DEF T2
  <1>11. Spanned(p, T2, place, own2) /\ HeldToo(m, p, T2, kv) /\ EntryAt(p, half, i, kv) /\ SameEdges(m, p, T2)
    BY <1>2, <1>5, <1>6, <1>9, <1>10, LeafPutSpans
  <1>12. HeldOver(N, p, T, b, mid, kv)
    BY <1>5, <1>11 DEF HeldOver, HeldApart, HeldToo, T2
  <1>13. Len(p[half].edges) = 0 /\ SameEdges(N, p, T \ {a})
    BY <1>6, <1>7, <1>10, <1>11 DEF SameEdges, T2
  <1> QED BY <1>5, <1>11, <1>12, <1>13 DEF T2, own2, i

\* What splitting an inner node comes to: the node is parted, then the node below
\* that was parted before it gets its place in one of the halves.
InnerSteps(N, l, p, T, tops, rank, a, b, e, kv, c) ==
  LET half == IF SplitPoint(e).right THEN b ELSE a IN
  /\ SplitOf(N, l, T, rank, a, b, SplitPoint(e).sp)
  /\ Shaped(l, T \union {b}, tops \union {b}, Ranked(rank, T, b, rank[a]))
  /\ InsertOf(l, p, T \union {b}, half, SplitPoint(e).idx, kv, c)

LEMMA InnerStepsAre ==
  ASSUME NEW N, Table(N), NEW T, NEW tops, NEW rank, Shaped(N, T, tops, rank), NEW c \in tops,
         NEW a \in T, rank[a] # 0, Len(N[a].kvs) = CAPACITY, NEW e \in 0 .. CAPACITY,
         NEW b \in DOMAIN N, b \notin T, N[b].parent = Null, NEW kv \in Pair,
         NEW l, MovedOver(N, l, a, b, SplitPoint(e).sp),
         NEW p, PutIn(l, p, IF SplitPoint(e).right THEN b ELSE a, SplitPoint(e).idx, kv, c)
  PROVE  InnerSteps(N, l, p, T, tops, rank, a, b, e, kv, c)
  <1> DEFINE sp == SplitPoint(e).sp
             i == SplitPoint(e).idx
             half == IF SplitPoint(e).right THEN b ELSE a
             T2 == T \union {b}
             r2 == Ranked(rank, T, b, rank[a])
  <1>1. /\ sp \in Nat /\ sp < CAPACITY /\ i \in Nat
        /\ SplitPoint(e).right => i <= CAPACITY - sp - 1
        /\ ~SplitPoint(e).right => i <= sp
    BY PlaceInHalf
  <1>2. MovedOver(N, l, a, b, sp) /\ PutIn(l, p, half, i, kv, c)
    OBVIOUS
  <1>3. half \in {a, b} /\ (SplitPoint(e).right => half = b) /\ (~SplitPoint(e).right => half = a)
    OBVIOUS
  <1> HIDE DEF sp, i, half
  <1>4. T \subseteq DOMAIN N /\ c \in T /\ a # b /\ c # b
    BY DEF Shaped
  <1>5. SplitOf(N, l, T, rank, a, b, sp)
    BY <1>1, <1>2, SplitInnerIs DEF MovedOver
  <1>6. Shaped(l, T2, tops \union {b}, r2)
    BY <1>1, <1>5, SplitShape
  <1>7. Table(l) /\ Len(l[a].kvs) = sp /\ Len(l[b].kvs) = CAPACITY - sp - 1
    BY <1>5 DEF SplitOf
  <1>8. half \in T2 /\ i <= Len(l[half].kvs) /\ c \in tops \union {b} /\ kv \in Pair
    BY <1>1, <1>3, <1>7
  <1>9. r2[half] # 0
    BY <1>3, <1>4 DEF Ranked
  <1> HIDE DEF T2, r2
  <1>10. InsertOf(l, p, T2, half, i, kv, c)
    <2>1. PICK tops2 : tops2 = tops \union {b}
      OBVIOUS
    <2> QED BY <1>1, <1>2, <1>6, <1>7, <1>8, <1>9, <2>1, InsertIs DEF PutIn
  <1> QED BY <1>5, <1>6, <1>10 DEF InnerSteps, sp, i, half, T2, r2

\* Entry kv is for edge e of node a, which leads to d; mid goes up.
FullInner(N, rank, a) == rank[a] # 0 /\ Len(N[a].kvs) = CAPACITY
UnderEdge(N, place, a, e, d, kv) == kv \in Pair /\ d = N[a].edges[e + 1] /\ kv[1] \in place[d]
GoesUp(N, a, e, mid) == mid = N[a].kvs[SplitPoint(e).sp + 1]
LEMMA InnerSplitSpans ==
  ASSUME NEW N, Table(N), NEW T, NEW tops, NEW rank, Shaped(N, T, tops, rank), NEW c \in tops,
         NEW a \in T, FullInner(N, rank, a), NEW e \in 0 .. CAPACITY, NEW b, Detached(N, T, b), NEW kv,
         NEW l, NEW p, InnerSteps(N, l, p, T, tops, rank, a, b, e, kv, c),
         NEW place, NEW own, Spanned(N, T, place, own), NEW d, UnderEdge(N, place, a, e, d, kv),
         NEW mid, GoesUp(N, a, e, mid)
  PROVE  /\ Spanned(p, T \union {b}, Parted(place, T \union {b}, d, c, kv[1]), Divided(own, T, a, b, mid[1]))
         /\ mid \in Pair /\ mid[1] \in own[a] /\ HeldOver(N, p, T, b, mid, kv) /\ SameEdges(N, p, T \ {a})
  <1>0. /\ rank[a] # 0 /\ Len(N[a].kvs) = CAPACITY /\ b \in DOMAIN N /\ b \notin T
        /\ kv \in Pair /\ d = N[a].edges[e + 1] /\ kv[1] \in place[d] /\ mid = N[a].kvs[SplitPoint(e).sp + 1]
    BY DEF FullInner, Detached, UnderEdge, GoesUp
  <1> USE <1>0
  <1> DEFINE sp == SplitPoint(e).sp
             i == SplitPoint(e).idx
             half == IF SplitPoint(e).right THEN b ELSE a
             T2 == T \union {b}
             r2 == Ranked(rank, T, b, rank[a])
             own2 == Divided(own, T, a, b, mid[1])
             tops2 == tops \union {b}
  <1>1. /\ sp \in Nat /\ sp < CAPACITY /\ i \in Nat
        /\ SplitPoint(e).right => i <= CAPACITY - sp - 1 /\ i + 1 \in 1 .. CAPACITY - sp /\ sp + 1 + (i + 1) = e + 1
        /\ ~SplitPoint(e).right => i <= sp /\ i + 1 \in 1 .. sp + 1 /\ i = e
    BY PlaceInHalf
  <1>2. /\ SplitOf(N, l, T, rank, a, b, sp) /\ Shaped(l, T2, tops2, r2)
        /\ InsertOf(l, p, T2, half, i, kv, c) /\ mid = N[a].kvs[sp + 1]
    BY DEF InnerSteps
  <1>3. half \in {a, b} /\ (SplitPoint(e).right => half = b) /\ (~SplitPoint(e).right => half = a)
    OBVIOUS
  <1>4. T \subseteq DOMAIN N /\ c \in T /\ a # b /\ half \in T2 /\ c \in tops2
    BY <1>3 DEF Shaped
  <1>5. r2[half] = rank[a] /\ r2[half] # 0
    BY <1>3, <1>4 DEF Ranked
  <1> HIDE DEF sp, i, half, r2, tops2
  <1>6. MidOf(N, a, sp, mid)
    BY <1>1, <1>2 DEF MidOf
  <1>7. /\ Spanned(l, T2, place, own2) /\ mid \in Pair /\ mid[1] \in own[a] /\ HeldApart(N, l, T, b, mid)
    BY <1>1, <1>2, <1>6, SplitSpans
  <1>8. /\ Table(l) /\ Len(l[a].kvs) = sp /\ Len(l[b].kvs) = CAPACITY - sp - 1
        /\ Len(l[a].edges) = sp + 1 /\ Len(l[b].edges) = CAPACITY - sp
        /\ \A j \in 1 .. Len(l[a].edges) : l[a].edges[j] = N[a].edges[j]
        /\ \A j \in 1 .. Len(l[b].edges) : l[b].edges[j] = N[a].edges[sp + 1 + j]
        /\ \A x \in T : x # a => l[x].edges = N[x].edges
    <2>1. CAPACITY \in Nat
      BY BAssumption DEF CAPACITY
    <2>2. \A x \in T : x # a => x \in DOMAIN N /\ x \notin {a, b}
      BY <1>4
    <2>3. (CAPACITY - sp - 1) + 1 = CAPACITY - sp
      BY <1>1, <2>1
    <2> QED BY <1>2, <2>2, <2>3 DEF SplitOf, EdgesOf
  <1>9. l[half].edges[i + 1] = d /\ i + 1 \in 1 .. Len(l[half].edges) /\ i \in 0 .. Len(l[half].kvs)
    <2>1. CAPACITY \in Nat
      BY BAssumption DEF CAPACITY
    <2>2. CASE SplitPoint(e).right
      <3>1. i + 1 \in 1 .. Len(l[b].edges) /\ sp + 1 + (i + 1) = e + 1 /\ i \in 0 .. Len(l[b].kvs)
        BY <1>1, <1>8, <2>1, <2>2
      <3> QED BY <1>3, <1>8, <2>2, <3>1
    <2>3. CASE ~SplitPoint(e).right
      <3>1. i + 1 \in 1 .. Len(l[a].edges) /\ i = e /\ i \in 0 .. Len(l[a].kvs)
        BY <1>1, <1>8, <2>1, <2>3
      <3> QED BY <1>3, <1>8, <2>3, <3>1
    <2> QED BY <2>2, <2>3
  <1>10. Fits(l, own2, half, i, kv)
    <2>1. place[l[half].edges[i + 1]] = Slot(l[half].kvs, own2[half], i + 1)
      <3> HIDE DEF own2
      <3> QED BY <1>4, <1>7, <1>9 DEF Spanned, NodeOrdered
    <2> QED BY <1>9, <2>1 DEF Fits
  <1> HIDE DEF own2, T2
  <1>11. Spanned(p, T2, Parted(place, T2, d, c, kv[1]), own2) /\ HeldToo(l, p, T2, kv)
    <2>1. d = l[half].edges[i + 1]
      BY <1>9
    <2> QED BY <1>2, <1>4, <1>5, <1>7, <1>8, <1>10, <2>1, InsertSpans
  <1>12. HeldOver(N, p, T, b, mid, kv)
    BY <1>7, <1>11 DEF HeldOver, HeldApart, HeldToo, T2
  <1>13. SameEdges(N, p, T \ {a})
    <2> SUFFICES ASSUME NEW x \in T, x # a PROVE p[x].edges = N[x].edges
      BY DEF SameEdges
    <2>1. x # half /\ x \in DOMAIN l
      BY <1>2, <1>3, <1>4 DEF SplitOf
    <2>2. p[x].edges = l[x].edges
      BY <1>2, <2>1 DEF InsertOf
    <2> QED BY <1>8, <2>2
  <1> QED BY <1>7, <1>11, <1>12, <1>13 DEF T2, own2

LEMMA SpannedAlike ==
  ASSUME NEW N, NEW T, NEW tops, NEW rank, Shaped(N, T, tops, rank), NEW place, NEW own, Spanned(N, T, place, own),
         NEW place2, NEW own2, \A y \in T : place2[y] = place[y], \A y \in T : own2[y] = own[y]
  PROVE  Spanned(N, T, place2, own2)
  <1> SUFFICES ASSUME NEW a \in T PROVE NodeOrdered(N[a].kvs, N[a].edges, place2, own2[a])
    BY DEF Spanned
  <1>1. NodeOrdered(N[a].kvs, N[a].edges, place, own[a]) /\ own2[a] = own[a]
    BY DEF Spanned
  <1>2. ASSUME NEW i \in 1 .. Len(N[a].edges) PROVE place2[N[a].edges[i]] = place[N[a].edges[i]]
    <2>1. ChildOK(N, T, rank, a, i)
      BY DEF Shaped
    <2> QED BY <2>1 DEF ChildOK
  <1> QED BY <1>1, <1>2 DEF NodeOrdered

LEMMA AbsorbSpans ==
  ASSUME NEW N, Table(N), NEW T, NEW tops, NEW rank, Shaped(N, T, tops, rank), NEW c \in tops,
         NEW a \in T, rank[a] # 0, NEW i, Roomy(N, a, i), NEW kv,
         NEW f, NEW p, Absorbed(N, f, p, a, i, kv, c),
         NEW place, NEW own, Spanned(N, T, place, own), NEW d, UnderEdge(N, place, a, i, d, kv)
  PROVE  /\ Spanned(p, T, Parted(place, T, d, c, kv[1]), own) /\ HeldToo(N, p, T, kv)
         /\ \A x \in T : x # a => p[x].kvs = N[x].kvs
  <1>0. kv \in Pair /\ d = N[a].edges[i + 1] /\ kv[1] \in place[d]
    BY DEF UnderEdge
  <1> USE <1>0
  <1>1. i \in Nat /\ i <= Len(N[a].kvs) /\ f = InternalInsert(N, a, i, kv, c) /\ p = Relinked(f, a, i + 1, Len(N[a].kvs) + 1)
    BY DEF Roomy, Absorbed
  <1>2. T \subseteq DOMAIN N /\ c \in T /\ a \in DOMAIN N /\ Len(N[a].edges) = Len(N[a].kvs) + 1
    BY DEF Shaped, EdgesOf
  <1>3. c \in Nodes /\ Len(N[a].kvs) \in Nat /\ N[a].kvs \in Seq(Pair)
    BY <1>2, RecordIs
  <1>4. Len(f[a].kvs) = Len(N[a].kvs) + 1
    <2>1. f[a].kvs = InsertAt(N[a].kvs, i + 1, kv)
      BY <1>1, <1>2, <1>3, FilledIs
    <2>2. i + 1 \in 1 .. Len(N[a].kvs) + 1
      BY <1>1, <1>3
    <2> QED BY <1>3, <2>1, <2>2, InsertAtIs
  <1>5. p = Relinked(f, a, i + 1, Len(f[a].kvs))
    BY <1>1, <1>4
  <1>6. InsertOf(N, p, T, a, i, kv, c)
    BY <1>1, <1>5, InsertIs
  <1>7. Fits(N, own, a, i, kv)
    <2>1. i \in 0 .. Len(N[a].kvs) /\ i + 1 \in 1 .. Len(N[a].edges)
      BY <1>1, <1>2, <1>3
    <2>2. place[N[a].edges[i + 1]] = Slot(N[a].kvs, own[a], i + 1)
      BY <2>1 DEF Spanned, NodeOrdered
    <2> QED BY <2>1, <2>2 DEF Fits
  <1>8. Spanned(p, T, Parted(place, T, d, c, kv[1]), own) /\ HeldToo(N, p, T, kv)
    BY <1>6, <1>7, InsertSpans
  <1>9. \A x \in T : x # a => p[x].kvs = N[x].kvs
    BY <1>2, <1>6 DEF InsertOf
  <1> QED BY <1>8, <1>9

\* The new root holds the entry carried up; what was split hangs on both its sides.
Crowned(own, T, b) == [y \in T \union {b} |-> IF y = b THEN Nat ELSE own[y]]
AlikeBut(place, own, T, S) == \A y \in T : y \notin S => own[y] = place[y]

BothSides(place, own, T, top, c, kv) ==
  AlikeBut(place, own, T, {top, c}) /\ own[top] = Lower(Nat, kv[1]) /\ own[c] = Upper(Nat, kv[1])
OverBoth(N, T, tops, b, top, c) == tops = {top, c} /\ b \in DOMAIN N /\ b \notin T
RootedAs(N, n, p, b, kv, top, c) == RootOver(N, n, b, kv, top, c) /\ RelinkOf(n, p, b, 0, 1)
CrownedOver(N, p, T, own, b, kv) ==
  /\ Spanned(p, T \union {b}, Crowned(own, T, b), Crowned(own, T, b))
  /\ Holds(p, T \union {b}) = Holds(N, T) \union {kv}
  /\ \A x \in T : p[x].kvs = N[x].kvs
LEMMA RootSpans ==
  ASSUME NEW N, Table(N), NEW T, NEW tops, NEW rank, Shaped(N, T, tops, rank),
         NEW top, NEW c, NEW b, OverBoth(N, T, tops, b, top, c), NEW kv \in Pair, NEW n, NEW p, RootedAs(N, n, p, b, kv, top, c),
         NEW place, NEW own, Spanned(N, T, place, own), BothSides(place, own, T, top, c, kv)
  PROVE  CrownedOver(N, p, T, own, b, kv)
  <1>a. /\ AlikeBut(place, own, T, {top, c}) /\ own[top] = Lower(Nat, kv[1]) /\ own[c] = Upper(Nat, kv[1])
        /\ RootOver(N, n, b, kv, top, c) /\ RelinkOf(n, p, b, 0, 1) /\ b \in DOMAIN N /\ b \notin T
        /\ Shaped(N, T, {top, c}, rank)
    BY DEF BothSides, RootedAs, OverBoth
  <1> USE <1>a
  <1> DEFINE S == Crowned(own, T, b)
  <1>0. PICK k : k = kv[1]
    OBVIOUS
  <1>1. /\ T \subseteq DOMAIN N /\ top \in T /\ c \in T /\ k \in Nat
        /\ \A x \in T : \A i \in 1 .. Len(N[x].edges) : ChildOK(N, T, rank, x, i)
        /\ N[top].parent = Null /\ N[c].parent = Null
    BY <1>0 DEF Shaped, Pair
  <1>2. \A x \in T : x # b /\ p[x].kvs = N[x].kvs /\ p[x].edges = N[x].edges /\ x # Null
    BY <1>1, RecordIs DEF RootOver, RelinkOf
  <1>3. p[b].kvs = <<kv>> /\ Len(p[b].edges) = 2 /\ p[b].edges[1] = top /\ p[b].edges[2] = c
    BY DEF RootOver, RelinkOf
  <1>4. S[b] = Nat /\ \A y \in T : S[y] = own[y]
    BY <1>2 DEF Crowned
  <1> HIDE DEF S
  <1>5. ASSUME NEW x \in T PROVE NodeOrdered(p[x].kvs, p[x].edges, S, S[x])
    <2>1. NodeOrdered(N[x].kvs, N[x].edges, place, own[x])
      BY DEF Spanned
    <2>2. ASSUME NEW i \in 1 .. Len(N[x].edges) PROVE S[N[x].edges[i]] = place[N[x].edges[i]]
      <3> DEFINE y == N[x].edges[i]
      <3>1. y \in T /\ N[y].parent = x
        BY <1>1 DEF ChildOK
      <3>2. y \notin {top, c}
        BY <1>1, <1>2, <3>1
      <3> HIDE DEF y
      <3>3. own[y] = place[y]
        BY <3>1, <3>2 DEF AlikeBut
      <3> QED BY <1>4, <3>1, <3>3 DEF y
    <2> QED BY <1>2, <1>4, <2>1, <2>2 DEF NodeOrdered
  <1>6. NodeOrdered(p[b].kvs, p[b].edges, S, S[b])
    <2> DEFINE q == <<kv>>
    <2>1. Len(q) = 1 /\ q[1] = kv
      OBVIOUS
    <2> HIDE DEF q
    <2>2. p[b].kvs = q
      BY <1>3 DEF q
    <2>3. Slot(q, Nat, 1) = Lower(Nat, k)
      BY <1>0, <2>1 DEF Slot, Lower
    <2>4. Slot(q, Nat, 2) = Upper(Nat, k)
      BY <1>0, <2>1 DEF Slot, Upper
    <2>5. S[top] = Lower(Nat, k) /\ S[c] = Upper(Nat, k)
      BY <1>0, <1>1, <1>4
    <2>6. \A i \in 1 .. Len(p[b].edges) : i = 1 \/ i = 2
      BY <1>3
    <2>7. \A i \in 1 .. Len(p[b].edges) : S[p[b].edges[i]] = Slot(q, Nat, i)
      BY <1>3, <2>3, <2>4, <2>5, <2>6
    <2>8. InRow(q) /\ \A i \in 1 .. Len(q) : q[i][1] \in Nat
      BY <1>0, <1>1, <2>1 DEF InRow
    <2> QED BY <1>4, <2>2, <2>7, <2>8 DEF NodeOrdered
  <1>7. Spanned(p, T \union {b}, S, S)
    BY <1>5, <1>6 DEF Spanned
  <1>8. Holds(p, T \union {b}) = Holds(N, T) \union {kv}
    <2>1. ToSet(p[b].kvs) = {kv}
      BY <1>3 DEF ToSet
    <2>2. ASSUME NEW e PROVE e \in Holds(p, T \union {b}) <=> e \in Holds(N, T) \/ e \in {kv}
      BY <1>2, <2>1 DEF Holds
    <2> QED BY <2>2
  <1> QED BY <1>2, <1>7, <1>8 DEF S, CrownedOver

(***************************************************************************)
(* The descent ends where the key is, or where it belongs; the climb goes   *)
(* back along the edges.                                                    *)
(***************************************************************************)
LEMMA BelowCounts ==
  ASSUME Table(node), NEW a \in DOMAIN node, InRow(node[a].kvs), NEW k \in Nat
  PROVE  /\ Below(a, k) \in 0 .. Len(node[a].kvs)
         /\ \A i \in 1 .. Len(node[a].kvs) : node[a].kvs[i][1] < k <=> i <= Below(a, k)
  <1> DEFINE c == node[a].kvs
             n == Len(c)
             S == {i \in 1 .. n : c[i][1] < k}
             T == {i \in Nat : i \in 1 .. n + 1 /\ i \notin S}
  <1>1. n \in Nat /\ \A i \in 1 .. n : c[i][1] \in Nat
    BY RecordIs, PairsAre
  <1>2. n + 1 \in T
    BY <1>1
  <1>3. PICK m \in T : \A y \in T : m <= y
    <2> HIDE DEF T
    <2>1. T \subseteq Nat /\ T # {}
      BY <1>2 DEF T
    <2> QED BY <2>1, LeastNumber
  <1>4. \A i \in 1 .. n : i \in S <=> i < m
    <2> SUFFICES ASSUME NEW i \in 1 .. n PROVE i \in S <=> i < m
      OBVIOUS
    <2>1. CASE i < m
      BY <1>1, <1>3, <2>1
    <2>2. CASE ~(i < m)
      <3>1. m \in 1 .. n /\ m \notin S /\ m <= i
        BY <1>1, <1>3, <2>2
      <3>2. ~(c[m][1] < k) /\ (m = i \/ c[m][1] < c[i][1])
        BY <3>1 DEF InRow
      <3> QED BY <1>1, <2>2, <3>1, <3>2
    <2> QED BY <2>1, <2>2
  <1>5. m \in 1 .. n + 1
    BY <1>3
  <1>6. S = 1 .. (m - 1)
    <2>1. \A i : i \in S => i \in 1 .. (m - 1)
      BY <1>1, <1>4, <1>5
    <2>2. \A i : i \in 1 .. (m - 1) => i \in S
      BY <1>1, <1>4, <1>5
    <2> QED BY <2>1, <2>2
  <1>7. Cardinality(1 .. (m - 1)) = m - 1
    BY <1>1, <1>5, FS_Interval
  <1>8. Below(a, k) = m - 1
    BY <1>6, <1>7 DEF Below, LenOf
  <1> QED BY <1>1, <1>4, <1>5, <1>8

LEMMA NotHitIs ==
  ASSUME Table(node), NEW a \in DOMAIN node, InRow(node[a].kvs), NEW k \in Nat, ~Hit(a, k), NEW keys, k \in keys
  PROVE  k \in Slot(node[a].kvs, keys, Below(a, k) + 1)
  <1> DEFINE c == node[a].kvs
             m == Below(a, k)
  <1>1. Len(c) \in Nat /\ \A i \in 1 .. Len(c) : c[i][1] \in Nat
    BY RecordIs, PairsAre
  <1>2. m \in 0 .. Len(c) /\ \A i \in 1 .. Len(c) : c[i][1] < k <=> i <= m
    BY BelowCounts
  <1>3. m < Len(c) => c[m + 1][1] # k
    BY DEF Hit, LenOf
  <1> HIDE DEF m
  <1>4. m + 1 > 1 => c[(m + 1) - 1][1] < k
    <2> SUFFICES ASSUME m + 1 > 1 PROVE c[(m + 1) - 1][1] < k
      OBVIOUS
    <2>1. m \in 1 .. Len(c) /\ (m + 1) - 1 = m /\ m <= m
      BY <1>1, <1>2
    <2>2. c[m][1] < k
      BY <1>2, <2>1
    <2> QED BY <2>1, <2>2
  <1>5. m + 1 <= Len(c) => k < c[m + 1][1]
    <2> SUFFICES ASSUME m + 1 <= Len(c) PROVE k < c[m + 1][1]
      OBVIOUS
    <2>1. m + 1 \in 1 .. Len(c) /\ ~(m + 1 <= m) /\ m < Len(c)
      BY <1>1, <1>2
    <2>2. ~(c[m + 1][1] < k) /\ c[m + 1][1] # k /\ c[m + 1][1] \in Nat
      BY <1>1, <1>2, <1>3, <2>1
    <2> QED BY <2>2
  <1> QED BY <1>4, <1>5 DEF Slot, m

LEMMA SearchSpan ==
  ASSUME Table(node), height \in Nat, root # Null, NEW T, NEW rank, NEW span,
         InOrderTree(node, T, root, height, rank, span), NEW k \in Nat
  PROVE  k \in span[Search(k)]
  <1>1. /\ T \subseteq DOMAIN node /\ root \in T /\ rank \in [T -> 0 .. height] /\ rank[root] = height
        /\ \A x \in T : Len(node[x].edges) = EdgesOf(Len(node[x].kvs), rank[x])
        /\ \A x \in T : \A j \in 1 .. Len(node[x].edges) : ChildOK(node, T, rank, x, j)
        /\ Spanned(node, T, span, span) /\ span[root] = Nat
    BY DEF InOrderTree, Grown, Shaped
  <1> DEFINE down == CHOOSE down : Descends(down, k)
  <1>2. Search(k) = down[0]
    BY DEF Search, Descends, DescendAt, NextDown
  <1>3. Descends(down, k)
    BY DescentExists
  <1> HIDE DEF down
  <1>4. \A h \in 0 .. height : down[h] = DescendAt(down, k, h)
    BY <1>3 DEF Descends
  <1> DEFINE OK(a, h) == a \in T /\ (Hit(a, k) \/ rank[a] = h) /\ k \in span[a]
             S == {d \in Nat : d <= height => OK(down[height - d], height - d)}
  <1>5. 0 \in S
    <2>1. height - 0 = height /\ height \in 0 .. height
      OBVIOUS
    <2>2. down[height] = root
      BY <1>4, <2>1 DEF DescendAt
    <2>3. OK(down[height], height)
      BY <1>1, <2>2
    <2> HIDE DEF OK
    <2> QED BY <2>1, <2>3
  <1>6. ASSUME NEW d \in Nat, d \in S PROVE d + 1 \in S
    <2> SUFFICES ASSUME d + 1 <= height PROVE OK(down[height - (d + 1)], height - (d + 1))
      OBVIOUS
    <2> DEFINE h == height - (d + 1)
    <2>1. h \in 0 .. height /\ h # height /\ h + 1 = height - d /\ d <= height
      OBVIOUS
    <2>2. OK(down[h + 1], h + 1)
      BY <1>6, <2>1
    <2>3. down[h] = NextDown(down[h + 1], k)
      BY <1>4, <2>1 DEF DescendAt
    <2> HIDE DEF h
    <2> DEFINE a == down[h + 1]
    <2>4. CASE Hit(a, k)
      BY <2>2, <2>3, <2>4 DEF NextDown, h
    <2>5. CASE ~Hit(a, k)
      <3>1. a \in T /\ rank[a] = h + 1 /\ a \in DOMAIN node /\ k \in span[a]
        BY <1>1, <2>2, <2>5
      <3>2. down[h] = node[a].edges[Below(a, k) + 1]
        BY <2>3, <2>5 DEF NextDown
      <3>3. Len(node[a].edges) = Len(node[a].kvs) + 1
        <4>1. h + 1 # 0
          BY <2>1
        <4> QED BY <1>1, <3>1, <4>1 DEF EdgesOf
      <3>4. Below(a, k) + 1 \in 1 .. Len(node[a].edges)
        <4>1. Below(a, k) \in 0 .. Len(node[a].kvs) /\ Len(node[a].kvs) \in Nat
          BY <3>1, BelowIs, RecordIs
        <4> QED BY <3>3, <4>1
      <3>5. ChildOK(node, T, rank, a, Below(a, k) + 1)
        BY <1>1, <3>1, <3>4
      <3>6. down[h] \in T /\ rank[down[h]] = rank[a] - 1
        <4> HIDE DEF a, OK, S
        <4> QED BY <3>2, <3>5 DEF ChildOK
      <3>7. rank[a] - 1 = h
        BY <2>1, <3>1
      <3>8. k \in span[down[h]]
        <4> HIDE DEF a, OK, S
        <4>1. NodeOrdered(node[a].kvs, node[a].edges, span, span[a])
          BY <1>1, <3>1 DEF Spanned
        <4>2. InRow(node[a].kvs)
          BY <4>1 DEF NodeOrdered
        <4>3. k \in Slot(node[a].kvs, span[a], Below(a, k) + 1)
          BY <2>5, <3>1, <4>2, NotHitIs
        <4>4. span[node[a].edges[Below(a, k) + 1]] = Slot(node[a].kvs, span[a], Below(a, k) + 1)
          BY <3>4, <4>1 DEF NodeOrdered
        <4> QED BY <3>2, <4>3, <4>4
      <3> QED BY <3>6, <3>7, <3>8 DEF h
    <2> QED BY <2>4, <2>5
  <1> HIDE DEF S
  <1>7. Nat \subseteq S
    BY <1>5, <1>6, Counting
  <1>8. OK(down[0], 0)
    <2>1. height - height = 0 /\ height <= height /\ height \in S
      BY <1>7
    <2> HIDE DEF OK
    <2> QED BY <2>1 DEF S
  <1> QED BY <1>2, <1>8

\* A key the descent does not find is nowhere in the tree.
LEMMA SearchMisses ==
  ASSUME Table(node), height \in Nat, root # Null, NEW T, NEW rank, NEW span,
         InOrderTree(node, T, root, height, rank, span), NEW k \in Nat, ~Hit(Search(k), k)
  PROVE  /\ Search(k) \in T /\ k \in Slot(node[Search(k)].kvs, span[Search(k)], Below(Search(k), k) + 1)
         /\ \A a \in T : \A m \in 1 .. Len(node[a].kvs) : node[a].kvs[m][1] # k
  <1> DEFINE s == Search(k)
  <1>1. /\ T \subseteq DOMAIN node /\ rank \in [T -> 0 .. height] /\ Grown(node, T, {root}, root, height, rank)
        /\ Spanned(node, T, span, span)
    BY DEF InOrderTree, Grown, Shaped
  <1>2. s \in T /\ rank[s] = 0 /\ Below(s, k) \in 0 .. Len(node[s].kvs)
    BY <1>1, SearchIs
  <1>3. k \in span[s]
    BY SearchSpan
  <1> HIDE DEF s
  <1>4. NodeOrdered(node[s].kvs, node[s].edges, span, span[s]) /\ s \in DOMAIN node
    BY <1>1, <1>2 DEF Spanned
  <1>5. k \in Slot(node[s].kvs, span[s], Below(s, k) + 1)
    <2>1. ~Hit(s, k) /\ InRow(node[s].kvs)
      BY <1>4 DEF s, NodeOrdered
    <2> QED BY <1>3, <1>4, <2>1, NotHitIs
  <1>6. ASSUME NEW a \in T, NEW m \in 1 .. Len(node[a].kvs), node[a].kvs[m][1] = k PROVE FALSE
    <2>1. KeyFits(node, rank, span, a, m, s)
      BY <1>1, <1>2, <1>3, <1>6 DEF KeyFits
    <2>2. s = a
      BY <1>2, <2>1, KeyOnce
    <2>3. node[s].kvs \in Seq(Pair) /\ span[s] \subseteq Nat /\ InRow(node[s].kvs) /\ Below(s, k) + 1 \in 1 .. Len(node[s].kvs) + 1
      <3>1. Len(node[s].kvs) \in Nat
        BY <1>4, RecordIs
      <3> QED BY <1>2, <1>4, <3>1, RecordIs DEF NodeOrdered
    <2>4. \A j \in 1 .. Len(node[s].kvs) : node[s].kvs[j][1] # k
      BY <1>5, <2>3, SlotsApart
    <2> QED BY <1>6, <2>2, <2>4
  <1> QED BY <1>2, <1>5, <1>6 DEF s

\* Rung i of a climb: the leaf, or the node i levels above it.
Rung(s, i) == IF i = 0 THEN leaf ELSE s[i].ptr
ClimbOK(N, s, from) ==
  \A i \in 1 .. Len(s) : i >= from => N[s[i].ptr].edges[s[i].child_idx + 1] = Rung(s, i - 1)

LEMMA PathClimbs ==
  ASSUME Table(node), height \in Nat, NEW T, NEW rank, Grown(node, T, {root}, root, height, rank), leaf \in T
  PROVE  ClimbOK(node, Path, 1)
  <1>1. /\ T \subseteq DOMAIN node /\ node[root].parent = Null
        /\ \A x \in T : x # root => Hangs(node, T, x)
    BY DEF Grown, Shaped
  <1>2. \A x \in DOMAIN node : node[x].parent_idx \in Nat /\ x # Null /\ x \in Nodes
    BY RecordIs
  <1> DEFINE OK(s) == s \in Seq(Stops) /\ (\A i \in 1 .. Len(s) : s[i].ptr \in T) /\ ClimbOK(node, s, 1)
  <1>3. ASSUME NEW s, OK(s) PROVE OK(Extended(s))
    <2> DEFINE child == IF s = <<>> THEN leaf ELSE Last(s).ptr
               a == node[child].parent
               stop == [ptr |-> a, child_idx |-> node[child].parent_idx, will_split |-> ~HasRoom(a)]
               n == Len(s)
    <2>0. s \in Seq(Stops) /\ n \in Nat
      BY <1>3
    <2>1. Extended(s) = s \/ (a # Null /\ Extended(s) = Append(s, stop))
      BY DEF Extended
    <2>2. CASE Extended(s) = s
      BY <1>3, <2>2
    <2>3. CASE a # Null /\ Extended(s) = Append(s, stop)
      <3>1. child \in T /\ child = Rung(s, n)
        <4>1. CASE s = <<>>
          BY <4>1 DEF Rung
        <4>2. CASE s # <<>>
          <5>1. n \in 1 .. n /\ Last(s) = s[n] /\ n # 0
            BY <2>0, <4>2 DEF Last
          <5> QED BY <1>3, <4>2, <5>1 DEF Rung
        <4> QED BY <4>1, <4>2
      <3> HIDE DEF child
      <3>2. a \in T /\ node[a].edges[node[child].parent_idx + 1] = child
        <4>1. child # root
          BY <1>1, <2>3
        <4> QED BY <1>1, <3>1, <4>1 DEF Hangs
      <3>3. stop \in Stops /\ stop.ptr = a /\ stop.child_idx = node[child].parent_idx
        <4>1. node[child].parent_idx \in Nat /\ a \in Nodes
          BY <1>1, <1>2, <3>1, <3>2
        <4> HIDE DEF a
        <4> QED BY <4>1 DEF Stops, HasRoom
      <3> DEFINE t == Append(s, stop)
      <3> HIDE DEF stop, a
      <3>4. t \in Seq(Stops) /\ Len(t) = n + 1 /\ t[n + 1] = stop /\ \A i \in 1 .. n : t[i] = s[i]
        BY <2>0, <3>3
      <3> HIDE DEF t
      <3>5. ASSUME NEW i \in 1 .. Len(t) PROVE t[i].ptr \in T /\ node[t[i].ptr].edges[t[i].child_idx + 1] = Rung(t, i - 1)
        <4>1. CASE i = n + 1
          <5>1. Rung(t, i - 1) = Rung(s, n)
            <6>1. i - 1 = n
              BY <2>0, <4>1
            <6>2. CASE n = 0
              BY <6>1, <6>2 DEF Rung
            <6>3. CASE n # 0
              <7>1. n \in 1 .. n
                BY <2>0, <6>3
              <7> QED BY <3>4, <6>1, <6>3, <7>1 DEF Rung
            <6> QED BY <6>2, <6>3
          <5> QED BY <3>1, <3>2, <3>3, <3>4, <4>1, <5>1
        <4>2. CASE i # n + 1
          <5>1. i \in 1 .. n /\ i >= 1 /\ (i - 1 # 0 => i - 1 \in 1 .. n)
            BY <2>0, <3>4, <4>2
          <5>2. Rung(t, i - 1) = Rung(s, i - 1)
            BY <3>4, <5>1 DEF Rung
          <5>3. s[i].ptr \in T /\ node[s[i].ptr].edges[s[i].child_idx + 1] = Rung(s, i - 1)
            BY <1>3, <5>1 DEF ClimbOK
          <5> QED BY <3>4, <5>1, <5>2, <5>3
        <4> QED BY <4>1, <4>2
      <3>6. OK(t)
        BY <3>4, <3>5 DEF ClimbOK
      <3> QED BY <2>3, <3>6 DEF t
    <2> HIDE DEF OK, child, a, stop
    <2> QED BY <2>1, <2>2, <2>3
  <1> DEFINE up == CHOOSE up : Climbs(up, height)
  <1>5. Path = up[height]
    BY DEF Path, Climbs, Extended
  <1>6. Climbs(up, height)
    BY ClimbsExist
  <1> HIDE DEF up
  <1>7. up[0] = <<>> /\ \A h \in 0 .. height : h # 0 => up[h] = Extended(up[h - 1])
    BY <1>6 DEF Climbs
  <1>8. OK(<<>>)
    BY DEF ClimbOK
  <1> HIDE DEF OK
  <1> DEFINE S == {h \in Nat : h <= height => OK(up[h])}
  <1>9. 0 \in S
    BY <1>7, <1>8
  <1>10. ASSUME NEW h \in Nat, h \in S PROVE h + 1 \in S
    <2> SUFFICES ASSUME h + 1 <= height PROVE OK(up[h + 1])
      OBVIOUS
    <2>1. h + 1 \in 0 .. height /\ h + 1 # 0 /\ (h + 1) - 1 = h /\ h < height
      OBVIOUS
    <2>2. up[h + 1] = Extended(up[h])
      BY <1>7, <2>1
    <2>3. OK(up[h])
      BY <1>10, <2>1
    <2> QED BY <1>3, <2>2, <2>3
  <1> HIDE DEF S
  <1>11. Nat \subseteq S
    BY <1>9, <1>10, Counting
  <1>12. OK(Path)
    BY <1>5, <1>11 DEF S
  <1> QED BY <1>12 DEF OK

(***************************************************************************)
(* The keys each node may hold, and the content the nodes hold.             *)
(***************************************************************************)
\* While a split is carried upward the half that stayed has the lower part of what
\* its edge leaves it, the node split off the upper part.
Lowered == Rung(plan.internals, level - 1)
PartedAt(place, own) ==
  /\ Lowered \in InTree /\ Lowered # current_right /\ current_kv[1] \in place[Lowered]
  /\ own[Lowered] = Lower(place[Lowered], current_kv[1])
  /\ own[current_right] = Upper(place[Lowered], current_kv[1])
  /\ AlikeBut(place, own, InTree, {Lowered, current_right})
KeysAt(place, own) ==
  /\ Spanned(node, InTree, place, own) /\ (root # Null => place[root] = Nat)
  /\ IF Committing THEN PartedAt(place, own) ELSE AlikeBut(place, own, InTree, {})
  /\ Placing => item[1] \in Slot(node[leaf].kvs, own[leaf], edge_idx + 1)

\* The nodes, and the entry carried upward, hold the content, and the item on its way in.
Carried == IF Committing THEN {current_kv} ELSE {}
Entering == IF Committing THEN {item} ELSE {}
ContentHeld ==
  /\ Holds(node, InTree) \union Carried = Graph(content) \union Entering
  /\ IsFiniteSet(DOMAIN content) /\ length = Cardinality(DOMAIN content)
  /\ ~Resting => item[1] \notin DOMAIN content

\* The stops of the plan still ahead are above one another, the last at the root
\* if the tree will grow.
StopsClimb ==
  Planned =>
    /\ ClimbOK(node, plan.internals, IF Committing THEN level ELSE 1)
    /\ plan.new_root => Rung(plan.internals, Len(plan.internals)) = root

Landed == IF plan.right THEN leaf_right ELSE leaf
EntryReturned ==
  IF Committing
  THEN Landed \in InTree /\ Len(node[Landed].edges) = 0 /\ EntryAt(node, Landed, plan.idx, item)
  ELSE handle # NoHandle =>
         /\ handle.node \in InTree /\ handle.kv[1] \in DOMAIN content
         /\ EntryAt(node, handle.node, handle.idx, <<handle.kv[1], content[handle.kv[1]]>>)

MapInv == (\E place, own : KeysAt(place, own)) /\ ContentHeld /\ StopsClimb /\ EntryReturned

(***************************************************************************)
(* Steps that leave the nodes of the tree alone.                            *)
(***************************************************************************)
SameTree == InTree' = InTree /\ (\A x \in InTree : node'[x] = node[x]) /\ root' = root
Outside == ~Committing /\ ~Committing'
LEMMA KeysKept ==
  ASSUME NEW place, NEW own, KeysAt(place, own), Outside, SameTree,
         Placing' => Placing /\ leaf \in InTree /\ UNCHANGED <<item, leaf, edge_idx>>
  PROVE  KeysAt(place, own)'
  <1>1. Spanned(node', InTree', place, own)
    BY DEF KeysAt, Spanned, SameTree
  <1>2. AlikeBut(place, own, InTree', {})
    BY DEF KeysAt, Outside, SameTree
  <1>3. Placing' => item'[1] \in Slot(node'[leaf'].kvs, own[leaf'], edge_idx' + 1)
    BY DEF KeysAt, SameTree
  <1> QED BY <1>1, <1>2, <1>3 DEF KeysAt, Outside, SameTree

LEMMA ContentKept ==
  ASSUME ContentHeld, Outside, SameTree, UNCHANGED <<content, length>>, ~Resting' => ~Resting /\ item' = item
  PROVE  ContentHeld'
  <1>1. Holds(node', InTree') = Holds(node, InTree)
    BY DEF Holds, SameTree
  <1> QED BY <1>1 DEF ContentHeld, Outside, Carried, Entering

LEMMA StopsKept ==
  ASSUME NEW rank, Standing(rank), StopsClimb, Outside, SameTree,
         Planned' => Planned /\ UNCHANGED <<plan, leaf>>
  PROVE  StopsClimb'
  <1> SUFFICES ASSUME Planned' PROVE /\ ClimbOK(node, plan.internals, 1)'
                                     /\ (plan.new_root => Rung(plan.internals, Len(plan.internals)) = root)'
    BY DEF StopsClimb, Outside
  <1>1. ClimbOK(node, plan.internals, 1) /\ (plan.new_root => Rung(plan.internals, Len(plan.internals)) = root)
    BY DEF StopsClimb, Outside
  <1>2. \A i \in 1 .. Len(plan.internals) : plan.internals[i].ptr \in InTree
    BY DEF Standing, Planning, Outside, StopAt
  <1>3. \A i : Rung(plan.internals, i)' = Rung(plan.internals, i)
    BY DEF Rung
  <1> QED BY <1>1, <1>2, <1>3 DEF ClimbOK, SameTree, Rung

LEMMA ReturnedKept ==
  ASSUME EntryReturned, Outside, SameTree, content' = content, handle' \in {handle, NoHandle}
  PROVE  EntryReturned'
  BY DEF EntryReturned, Outside, SameTree, EntryAt

LEMMA MapKept ==
  ASSUME MapInv, NEW rank, Standing(rank), Outside, SameTree, UNCHANGED <<content, length>>,
         handle' \in {handle, NoHandle}, ~Resting' => ~Resting /\ item' = item,
         Placing' => Placing /\ UNCHANGED <<item, leaf, edge_idx>>, Planned' => Planned /\ UNCHANGED <<plan, leaf>>
  PROVE  MapInv'
  <1>1. PICK place, own : KeysAt(place, own)
    BY DEF MapInv
  <1>2. Placing' => leaf \in InTree
    BY DEF Standing, AtLeaf
  <1>3. KeysAt(place, own)'
    BY <1>1, <1>2, KeysKept
  <1>4. ContentHeld'
    BY ContentKept DEF MapInv
  <1>5. StopsClimb' /\ EntryReturned'
    BY StopsKept, ReturnedKept DEF MapInv
  <1> QED BY <1>3, <1>4, <1>5 DEF MapInv

LEMMA RestedAlike ==
  ASSUME NEW rank, Rested(rank), InTree = DOMAIN node, reserve'.nodes = reserve.nodes, UNCHANGED <<node, root, leaf_right>>
  PROVE  SameTree
  <1>1. ToSet(reserve'.nodes) = {} /\ leaf_right' = Null
    BY DEF Rested, ToSet
  <1>2. Spare' = {}
    BY <1>1 DEF Spare
  <1> QED BY <1>2 DEF InTree, SameTree

LEMMA FailedMap ==
  ASSUME MapInv, NEW rank, Standing(rank), ~Committing, SameTree, Failed
  PROVE  MapInv'
  <1>1. Resting' /\ ~Committing' /\ ~Placing' /\ ~Planned' /\ UNCHANGED <<content, length, handle>>
    BY DEF Failed, Resting, Committing, Placing, Planned, history
  <1> QED BY <1>1, MapKept DEF Outside

LEMMA AskMap ==
  ASSUME TreeInv, MapInv, Resume \/ ExtendReturns \/ \E source \in Sources : Extend(source)
  PROVE  MapInv'
  <1>1. PICK rank : Standing(rank)
    BY DEF TreeInv
  <1>2. /\ Resting /\ Resting' /\ UNCHANGED <<node, root, length, leaf_right, reserve, content>>
        /\ handle' \in {handle, NoHandle}
    BY DEF Resume, ExtendReturns, Extend, Resting, tree, insert, history
  <1>3. ~Committing /\ ~Committing' /\ ~Placing' /\ ~Planned'
    BY <1>2 DEF Resting, Committing, Placing, Planned
  <1>4. SameTree
    BY <1>1, <1>2, RestedIs, PhasesApart, RestedAlike DEF TreeInv
  <1> QED BY <1>1, <1>2, <1>3, <1>4, MapKept DEF Outside

LEMMA ProbeMap == ASSUME TreeInv, MapInv, Probe PROVE MapInv'
  <1>1. PICK rank : Standing(rank)
    BY DEF TreeInv
  <1>2. /\ phase = "probe" /\ NothingReserved /\ Placing /\ ~Resting /\ ~Committing
        /\ UNCHANGED <<node, leaf_right, reserve, current_right>>
    BY DEF Probe, NothingReserved, Placing, Resting, Committing
  <1>3. Rested(rank) /\ InTree = DOMAIN node
    BY <1>1, <1>2, RestedIs DEF TreeInv
  <1>4. CASE Failed
    <2>1. SameTree
      BY <1>2, <1>3, <1>4, RestedAlike DEF Failed
    <2> QED BY <1>1, <1>2, <1>4, <2>1, FailedMap
  <1>5. CASE /\ phase' = "leaf" /\ UNCHANGED <<remaining, arg, root, height, length, history>>
             /\ plan' = [leaf_sp |-> SplitPoint(edge_idx).sp, right |-> SplitPoint(edge_idx).right,
                         idx |-> SplitPoint(edge_idx).idx, internals |-> Path,
                         new_root |-> \A i \in 1 .. Len(Path) : Path[i].will_split,
                         cap |-> Capacity(probe_buf, Len(Path))]
    <2>1. SameTree /\ Outside /\ Placing' /\ UNCHANGED <<item, leaf, edge_idx, content, length, handle>>
      BY <1>2, <1>3, <1>5, RestedAlike DEF arg, history, Outside, Committing, Placing
    <2>2. leaf \in InTree /\ rank[leaf] = 0
      BY <1>1, <1>2 DEF Standing, AtLeaf
    <2>3. PICK place, own : KeysAt(place, own)
      BY DEF MapInv
    <2>4. KeysAt(place, own)'
      BY <1>2, <2>1, <2>2, <2>3, KeysKept
    <2>5. ContentHeld' /\ EntryReturned'
      <3>1. ContentHeld /\ EntryReturned /\ ~Resting
        BY <1>2 DEF MapInv
      <3> QED BY <2>1, <3>1, ContentKept, ReturnedKept
    <2>6. Grown(node, DOMAIN node, {root}, root, height, rank) /\ Table(node) /\ height \in Nat /\ root # Null
      <3>1. root # Null
        BY <1>3, <2>2 DEF Rested, Grown
      <3>2. {root} \ {Null} = {root}
        BY <3>1
      <3> QED BY <1>3, <3>1, <3>2 DEF Rested
    <2>7. /\ PathOK(node, DOMAIN node, rank, Path) /\ ClimbOK(node, Path, 1)
          /\ (\A i \in 1 .. Len(Path) : Path[i].will_split) => Len(Path) = height
      BY <1>3, <2>2, <2>6, PathIs, PathClimbs
    <2>8. plan'.internals = Path /\ plan'.new_root = \A i \in 1 .. Len(Path) : Path[i].will_split
      <3> HIDE DEF Path
      <3> QED BY <1>5
    <2>9. PICK s : s = Path
      OBVIOUS
    <2>10. ASSUME \A i \in 1 .. Len(s) : s[i].will_split PROVE Rung(s, Len(s)) = root
      <3>1. Len(s) = height
        BY <2>7, <2>9, <2>10
      <3>2. Rung(s, Len(s)) \in DOMAIN node /\ rank[Rung(s, Len(s))] = height
        <4>1. CASE height = 0
          BY <1>3, <2>2, <3>1, <4>1 DEF Rung
        <4>2. CASE height # 0
          <5>1. StopAt(node, DOMAIN node, rank, s, height)
            BY <2>6, <2>7, <2>9, <3>1, <4>2 DEF PathOK
          <5> QED BY <3>1, <4>2, <5>1 DEF StopAt, Rung
        <4> QED BY <4>1, <4>2
      <3>3. PICK a : a = Rung(s, Len(s))
        OBVIOUS
      <3>4. a \in DOMAIN node /\ rank[a] = height
        BY <3>2, <3>3
      <3>5. a \in {root}
        BY <2>6, <3>4, HighestIs
      <3> QED BY <3>3, <3>5
    <2>11. \A i : Rung(s, i)' = Rung(s, i)
      BY <2>1 DEF Rung
    <2>12. StopsClimb'
      <3>1. ~Committing' /\ node' = node /\ root' = root /\ plan'.internals = s
        BY <1>2, <2>1, <2>8, <2>9 DEF Outside, SameTree
      <3>2. ClimbOK(node, s, 1) /\ plan'.new_root = \A i \in 1 .. Len(s) : s[i].will_split
        BY <2>7, <2>8, <2>9
      <3>3. ClimbOK(node, s, 1)'
        BY <2>11, <3>1, <3>2 DEF ClimbOK
      <3> QED BY <2>10, <2>11, <3>1, <3>2, <3>3 DEF StopsClimb
    <2> QED BY <2>4, <2>5, <2>12 DEF MapInv
  <1> QED BY <1>4, <1>5 DEF Probe

LEMMA RollbackMap ==
  ASSUME TreeInv, MapInv, Rollback, phase \in {"buffer", "internals"}
  PROVE  MapInv'
  <1>1. PICK rank : Standing(rank)
    BY DEF TreeInv
  <1>2. ~Committing /\ ~NothingReserved /\ leaf_right # Null
    BY DEF Committing, NothingReserved, TreeInv, SpareOK
  <1>3. Spare = {leaf_right} \union ToSet(reserve.nodes)
    BY <1>2 DEF Spare
  <1>4. node' = [x \in InTree |-> node[x]]
    BY <1>3 DEF Rollback, Released, InTree
  <1>5. Spare' = {}
    <2>1. reserve'.nodes = <<>> /\ leaf_right' = Null
      BY DEF Rollback, NoReserve
    <2> QED BY <2>1 DEF Spare, ToSet
  <1>6. SameTree
    BY <1>4, <1>5 DEF SameTree, InTree, Rollback, Failed
  <1> QED BY <1>1, <1>2, <1>6, FailedMap DEF Rollback

LEMMA ReserveLeafMap == ASSUME TreeInv, MapInv, ReserveLeaf PROVE MapInv'
  <1>1. PICK rank : Standing(rank)
    BY DEF TreeInv
  <1>2. /\ phase = "leaf" /\ NothingReserved /\ Placing /\ ~Resting /\ Planned /\ ~Committing
        /\ UNCHANGED <<reserve, current_right>>
    BY DEF ReserveLeaf, NothingReserved, Placing, Resting, Planned, Committing
  <1>3. Rested(rank) /\ InTree = DOMAIN node
    BY <1>1, <1>2, RestedIs DEF TreeInv
  <1>4. CASE Failed /\ UNCHANGED <<node, leaf_right>>
    <2>1. SameTree
      BY <1>2, <1>3, <1>4, RestedAlike DEF Failed
    <2> QED BY <1>1, <1>2, <1>4, <2>1, FailedMap
  <1>5. CASE \E a \in Free : /\ Allocated(a) /\ leaf_right' = a /\ phase' = "buffer"
                             /\ UNCHANGED <<remaining, arg, root, height, length, plan, probe_buf, history>>
    <2>1. PICK a \in Free : /\ Allocated(a) /\ leaf_right' = a /\ phase' = "buffer"
                            /\ UNCHANGED <<remaining, arg, root, height, length, plan, probe_buf, history>>
      BY <1>5
    <2>2. a \notin DOMAIN node /\ a # Null
      BY NullAssumption DEF Free
    <2>3. DOMAIN node' = DOMAIN node \union {a} /\ \A x \in DOMAIN node : node'[x] = node[x]
      BY <2>1, <2>2 DEF Allocated
    <2>4. ~Committing' /\ ToSet(reserve'.nodes) = {} /\ UNCHANGED <<item, leaf, edge_idx, plan, content, length, handle, root>>
      BY <1>2, <1>3, <2>1 DEF Rested, ToSet, Committing, arg, history
    <2>5. InTree' = DOMAIN node
      BY <2>1, <2>2, <2>3, <2>4 DEF InTree, Spare
    <2>6. SameTree
      BY <1>3, <2>3, <2>4, <2>5 DEF SameTree
    <2> QED BY <1>1, <1>2, <2>4, <2>6, MapKept DEF Outside
  <1> QED BY <1>4, <1>5 DEF ReserveLeaf

LEMMA ReserveBufferMap == ASSUME TreeInv, MapInv, ReserveBuffer PROVE MapInv'
  <1>1. PICK rank : Standing(rank)
    BY DEF TreeInv
  <1>2. phase = "buffer" /\ Placing /\ ~Resting /\ Planned /\ ~Committing
    BY DEF ReserveBuffer, Placing, Resting, Planned, Committing
  <1>3. CASE Rollback
    BY <1>2, <1>3, RollbackMap
  <1>4. CASE /\ reserve' = [nodes |-> <<>>, cap |-> Capacity(reserve_buf, NumReserved)]
             /\ phase' = "internals"
             /\ UNCHANGED <<tree, remaining, arg, plan, leaf_right, probe_buf, history>>
    <2>1. reserve'.nodes = reserve.nodes
      BY <1>2, <1>4 DEF TreeInv, SpareOK
    <2>2. ~Committing' /\ UNCHANGED <<node, root, leaf_right, item, leaf, edge_idx, plan, content, length, handle>>
      BY <1>4 DEF Committing, tree, arg, history
    <2>3. SameTree
      BY <1>2, <2>1, <2>2 DEF Spare, InTree, SameTree
    <2> QED BY <1>1, <1>2, <2>2, <2>3, MapKept DEF Outside
  <1> QED BY <1>3, <1>4 DEF ReserveBuffer

LEMMA ReserveInternalMap == ASSUME TreeInv, ReserveInv, MapInv, ReserveInternal PROVE MapInv'
  <1>1. PICK rank : Standing(rank)
    BY DEF TreeInv
  <1>2. phase = "internals" /\ Placing /\ ~Resting /\ Planned /\ ~Committing
    BY DEF ReserveInternal, Placing, Resting, Planned, Committing
  <1>3. CASE Rollback
    BY <1>2, <1>3, RollbackMap
  <1>4. CASE \E a \in Free : /\ Allocated(a) /\ reserve' = [reserve EXCEPT !.nodes = Append(@, a)]
                             /\ UNCHANGED <<remaining, arg, phase, root, height, length, plan, leaf_right, probe_buf,
                                            reserve_buf, history>>
    <2>1. PICK a \in Free : /\ Allocated(a) /\ reserve' = [reserve EXCEPT !.nodes = Append(@, a)]
                            /\ UNCHANGED <<remaining, arg, phase, root, height, length, plan, leaf_right, probe_buf,
                                           reserve_buf, history>>
      BY <1>4
    <2>2. a \notin DOMAIN node
      BY DEF Free
    <2>3. DOMAIN node' = DOMAIN node \union {a} /\ \A x \in DOMAIN node : node'[x] = node[x]
      BY <2>1, <2>2 DEF Allocated
    <2>4. ToSet(reserve'.nodes) = ToSet(reserve.nodes) \union {a}
      <3>1. reserve'.nodes = Append(reserve.nodes, a)
        <4>1. PICK c : reserve = [nodes |-> reserve.nodes, cap |-> c]
          BY DEF ReserveInv
        <4>2. reserve' = [reserve EXCEPT !.nodes = Append(reserve.nodes, a)]
          BY <2>1
        <4>3. \A s : [reserve EXCEPT !.nodes = s] = [nodes |-> s, cap |-> c]
          BY <4>1
        <4>4. reserve' = [nodes |-> Append(reserve.nodes, a), cap |-> c]
          BY <4>2, <4>3, Zenon
        <4> QED BY <4>4
      <3>2. PICK R : R = reserve.nodes
        OBVIOUS
      <3>3. R \in Seq(DOMAIN node)
        BY <3>2 DEF TreeInv, SpareOK
      <3>4. Len(Append(R, a)) = Len(R) + 1 /\ Append(R, a)[Len(R) + 1] = a /\ \A i \in 1 .. Len(R) : Append(R, a)[i] = R[i]
        BY <3>3
      <3>5. ToSet(Append(R, a)) = {Append(R, a)[i] : i \in 1 .. Len(Append(R, a))} /\ ToSet(R) = {R[i] : i \in 1 .. Len(R)}
        <4>1. R \in Seq(DOMAIN node \union {a}) /\ Append(R, a) \in Seq(DOMAIN node \union {a})
          BY <3>3
        <4>2. DOMAIN R = 1 .. Len(R) /\ DOMAIN Append(R, a) = 1 .. Len(Append(R, a))
          BY <4>1
        <4> QED BY <4>2 DEF ToSet
      <3>6. 1 .. Len(Append(R, a)) = (1 .. Len(R)) \union {Len(R) + 1}
        BY <3>3, <3>4
      <3> QED BY <3>1, <3>2, <3>4, <3>5, <3>6
    <2>5. ~Committing' /\ UNCHANGED <<item, leaf, edge_idx, plan, content, length, handle, root, leaf_right>>
      BY <1>2, <2>1 DEF Committing, arg, history
    <2>6. Spare' = Spare \union {a}
      BY <1>2, <2>4, <2>5 DEF Spare
    <2>7. SameTree
      BY <2>2, <2>3, <2>5, <2>6 DEF SameTree, InTree
    <2>8. Placing' /\ Planned' /\ ~Resting'
      BY <1>2, <2>1 DEF Placing, Planned, Resting
    <2> QED BY <1>1, <1>2, <2>5, <2>7, <2>8, MapKept DEF Outside
  <1> QED BY <1>3, <1>4 DEF ReserveInternal

LEMMA DrainMap == ASSUME TreeInv, MapInv, Drain PROVE MapInv'
  <1>1. PICK rank : Standing(rank)
    BY DEF TreeInv
  <1>2. /\ phase = "internals" /\ Placing /\ ~Resting /\ Planned /\ ~Committing
        /\ phase' \in {"commit", "aborted"}
        /\ UNCHANGED <<node, root, item, leaf, edge_idx, plan, leaf_right, reserve, content, length, handle>>
    BY DEF Drain, Placing, Resting, Planned, Committing, tree, arg, history
  <1>3. ~Committing'
    BY <1>2 DEF Committing
  <1>4. SameTree
    BY <1>2, <1>3 DEF Spare, InTree, SameTree
  <1> QED BY <1>1, <1>2, <1>3, <1>4, MapKept DEF Outside

LEMMA StutterMap == ASSUME MapInv, UNCHANGED treeVars PROVE MapInv'
  <1>1. /\ UNCHANGED <<node, root, height, length, phase, item, leaf, edge_idx, plan, leaf_right, reserve,
                       level, current_kv, current_right, content, handle>>
    BY DEF treeVars, tree, insert, arg, history
  <1>2. /\ Committing' = Committing /\ InTree' = InTree /\ Placing' = Placing /\ Planned' = Planned
        /\ Resting' = Resting /\ Landed' = Landed
    BY <1>1 DEF Committing, Spare, InTree, Placing, Planned, Resting, Landed
  <1>3. \A s, i : Rung(s, i)' = Rung(s, i)
    BY <1>1 DEF Rung
  <1>4. PICK place, own : KeysAt(place, own)
    BY DEF MapInv
  <1>5. KeysAt(place, own)'
    BY <1>1, <1>2, <1>4 DEF KeysAt, PartedAt, Lowered, Rung
  <1>6. ContentHeld'
    BY <1>1, <1>2 DEF MapInv, ContentHeld, Carried, Entering
  <1>7. StopsClimb'
    BY <1>1, <1>2 DEF MapInv, StopsClimb, ClimbOK, Rung
  <1>8. EntryReturned'
    BY <1>1, <1>2 DEF MapInv, EntryReturned
  <1> QED BY <1>5, <1>6, <1>7, <1>8 DEF MapInv

(***************************************************************************)
(* What is inserted or replaced.                                            *)
(***************************************************************************)
LEMMA PairIs == ASSUME NEW kv \in Pair PROVE kv = <<kv[1], kv[2]>> /\ kv[1] \in Nat
  BY DEF Pair

LEMMA RecordedIs ==
  ASSUME NEW kv \in Pair, Recorded(kv)
  PROVE  /\ DOMAIN content' = DOMAIN content \union {kv[1]} /\ <<kv[1], content'[kv[1]]>> = kv
         /\ \A k \in DOMAIN content : k # kv[1] => content'[k] = content[k]
         /\ Graph(content') = {e \in Graph(content) : e[1] # kv[1]} \union {kv}
  <1>1. DOMAIN content' = DOMAIN content \union {kv[1]} /\ content'[kv[1]] = kv[2]
    BY DEF Recorded
  <1>2. \A k \in DOMAIN content : k # kv[1] => content'[k] = content[k]
    BY DEF Recorded
  <1>3. <<kv[1], content'[kv[1]]>> = kv
    BY <1>1, PairIs
  <1>4. ASSUME NEW e \in Graph(content') PROVE e \in {x \in Graph(content) : x[1] # kv[1]} \union {kv}
    <2>1. PICK k \in DOMAIN content' : e = <<k, content'[k]>>
      BY DEF Graph
    <2>2. CASE k = kv[1]
      BY <1>3, <2>1, <2>2
    <2>3. CASE k # kv[1]
      <3>1. k \in DOMAIN content /\ e = <<k, content[k]>> /\ e[1] = k
        BY <1>1, <1>2, <2>1, <2>3
      <3> QED BY <2>3, <3>1 DEF Graph
    <2> QED BY <2>2, <2>3
  <1>5. kv \in Graph(content')
    BY <1>1, <1>3 DEF Graph
  <1>6. ASSUME NEW e \in Graph(content), e[1] # kv[1] PROVE e \in Graph(content')
    <2>1. PICK k \in DOMAIN content : e = <<k, content[k]>>
      BY DEF Graph
    <2>2. k # kv[1] /\ content'[k] = content[k] /\ k \in DOMAIN content'
      BY <1>1, <1>2, <1>6, <2>1
    <2> QED BY <2>1, <2>2 DEF Graph
  <1> QED BY <1>1, <1>2, <1>3, <1>4, <1>5, <1>6

LEMMA InsertedIs ==
  ASSUME NEW a, NEW idx, Inserted(a, idx), item \in Pair, item[1] \notin DOMAIN content,
         IsFiniteSet(DOMAIN content), length = Cardinality(DOMAIN content)
  PROVE  /\ Graph(content') = Graph(content) \union {item}
         /\ IsFiniteSet(DOMAIN content') /\ length' = Cardinality(DOMAIN content')
         /\ handle' = [node |-> a, idx |-> idx, kv |-> item] /\ <<item[1], content'[item[1]]>> = item
         /\ item[1] \in DOMAIN content' /\ Resting' /\ ~Committing' /\ ~Placing' /\ ~Planned'
  <1>1. Recorded(item)
    BY DEF Inserted
  <1>2. /\ DOMAIN content' = DOMAIN content \union {item[1]} /\ <<item[1], content'[item[1]]>> = item
        /\ Graph(content') = {e \in Graph(content) : e[1] # item[1]} \union {item}
    BY <1>1, RecordedIs
  <1>3. \A e \in Graph(content) : e[1] # item[1]
    BY DEF Graph
  <1>4. IsFiniteSet(DOMAIN content') /\ Cardinality(DOMAIN content') = Cardinality(DOMAIN content) + 1
    BY <1>2, FS_AddElement
  <1> QED BY <1>2, <1>3, <1>4 DEF Inserted, Resting, Committing, Placing, Planned

\* The map is whole again: the nodes hold the content, each key where it belongs.
LEMMA MapSettles ==
  ASSUME NEW own, Spanned(node', InTree', own, own), root' # Null => own[root'] = Nat,
         Resting', ~Committing', ~Placing', ~Planned',
         Holds(node', InTree') = Graph(content'), IsFiniteSet(DOMAIN content'), length' = Cardinality(DOMAIN content'),
         EntryReturned'
  PROVE  MapInv'
  <1>1. KeysAt(own, own)'
    BY DEF KeysAt, AlikeBut
  <1>2. ContentHeld'
    BY DEF ContentHeld, Carried, Entering
  <1>3. StopsClimb'
    BY DEF StopsClimb
  <1> QED BY <1>1, <1>2, <1>3 DEF MapInv

LEMMA HeldIs ==
  ASSUME NEW N, Table(N), NEW T, T \subseteq DOMAIN N
  PROVE  /\ \A e \in Holds(N, T) : \E a \in T : \E m \in 1 .. Len(N[a].kvs) : N[a].kvs[m] = e
         /\ \A a \in T : \A m \in 1 .. Len(N[a].kvs) : N[a].kvs[m] \in Holds(N, T)
  <1>1. ASSUME NEW a \in T PROVE ToSet(N[a].kvs) = {N[a].kvs[m] : m \in 1 .. Len(N[a].kvs)}
    <2>1. N[a].kvs \in Seq(Pair)
      BY RecordIs
    <2> QED BY <2>1, PairsAre
  <1> QED BY <1>1 DEF Holds

\* Between inserts the nodes are a tree in order.
LEMMA SettledIs ==
  ASSUME NEW place, NEW own, KeysAt(place, own), ~Committing, root # Null, NEW rank, Rested(rank), InTree = DOMAIN node
  PROVE  InOrderTree(node, DOMAIN node, root, height, rank, own)
  <1>1. {root} \ {Null} = {root}
    OBVIOUS
  <1>2. Grown(node, DOMAIN node, {root}, root, height, rank)
    BY <1>1 DEF Rested
  <1>3. Shaped(node, DOMAIN node, {root}, rank) /\ root \in DOMAIN node
    BY <1>2 DEF Grown, Shaped
  <1>4. Spanned(node, DOMAIN node, place, own) /\ place[root] = Nat /\ \A y \in DOMAIN node : own[y] = place[y]
    BY DEF KeysAt, AlikeBut
  <1>5. Spanned(node, DOMAIN node, own, own)
    BY <1>3, <1>4, SpannedAlike
  <1> QED BY <1>2, <1>3, <1>4, <1>5 DEF InOrderTree

LEMMA EmptyHolds ==
  ASSUME ContentHeld, ~Committing, root = Null, NEW rank, Rested(rank), InTree = DOMAIN node
  PROVE  DOMAIN node = {} /\ Graph(content) = {} /\ DOMAIN content = {}
  <1>1. DOMAIN node = {}
    BY DEF Rested, Grown
  <1>2. Graph(content) = {}
    BY <1>1 DEF ContentHeld, Carried, Entering, Holds
  <1> QED BY <1>1, <1>2 DEF Graph

LEMMA VacantMap == ASSUME TreeInv, MapInv, Vacant PROVE MapInv'
  <1>1. PICK rank : Standing(rank)
    BY DEF TreeInv
  <1>2. /\ Resting /\ remaining # <<>> /\ item' = Head(remaining)
        /\ UNCHANGED <<node, root, height, length, leaf_right, reserve, content, handle>>
    BY DEF Vacant, Resting, tree, history
  <1>3. Rested(rank) /\ InTree = DOMAIN node /\ ~Committing
    BY <1>1, <1>2, RestedIs, PhasesApart DEF TreeInv
  <1>4. SameTree
    BY <1>2, <1>3, RestedAlike
  <1>5. PICK place, own : KeysAt(place, own)
    BY DEF MapInv
  <1>6. item' \in Pair /\ item'[1] \in Nat
    <2>1. item' \in Pair
      BY <1>2 DEF TreeInv, ItemOK
    <2> QED BY <2>1 DEF Pair
  <1>7. ContentHeld /\ EntryReturned
    BY DEF MapInv
  <1>8. ASSUME ~Committing', item'[1] \notin DOMAIN content PROVE ContentHeld' /\ EntryReturned'
    <2>1. Holds(node', InTree') = Holds(node, InTree)
      BY <1>4 DEF Holds, SameTree
    <2>2. ContentHeld'
      BY <1>2, <1>3, <1>7, <1>8, <2>1 DEF ContentHeld, Carried, Entering
    <2>3. EntryReturned'
      BY <1>2, <1>3, <1>4, <1>7, <1>8, ReturnedKept DEF Outside
    <2> QED BY <2>2, <2>3
  <1>9. CASE root = Null /\ phase' = "empty"
    <2>1. ~Committing' /\ ~Placing' /\ ~Planned'
      BY <1>9 DEF Committing, Placing, Planned
    <2>2. item'[1] \notin DOMAIN content
      BY <1>3, <1>7, <1>9, EmptyHolds
    <2>3. KeysAt(place, own)'
      BY <1>3, <1>4, <1>5, <2>1, KeysKept DEF Outside
    <2> QED BY <1>8, <2>1, <2>2, <2>3 DEF MapInv, StopsClimb
  <1>10. CASE /\ root # Null /\ leaf' = Search(Head(remaining)[1])
              /\ edge_idx' = Below(Search(Head(remaining)[1]), Head(remaining)[1])
              /\ ~Hit(Search(Head(remaining)[1]), Head(remaining)[1])
              /\ phase' = IF HasRoom(Search(Head(remaining)[1])) THEN "fits" ELSE "probe"
    <2>1. ~Committing' /\ ~Planned'
      BY <1>10 DEF Committing, Planned
    <2>2. PICK k : k = item'[1]
      OBVIOUS
    <2>3. InOrderTree(node, DOMAIN node, root, height, rank, own) /\ Table(node) /\ height \in Nat
      BY <1>3, <1>5, <1>10, SettledIs DEF Rested
    <2>4. k \in Nat /\ ~Hit(Search(k), k) /\ leaf' = Search(k) /\ edge_idx' = Below(Search(k), k)
      BY <1>2, <1>6, <1>10, <2>2
    <2>5. /\ Search(k) \in DOMAIN node /\ k \in Slot(node[Search(k)].kvs, own[Search(k)], Below(Search(k), k) + 1)
          /\ \A a \in DOMAIN node : \A m \in 1 .. Len(node[a].kvs) : node[a].kvs[m][1] # k
      BY <1>10, <2>3, <2>4, SearchMisses
    <2>6. item'[1] \notin DOMAIN content
      <3> SUFFICES ASSUME k \in DOMAIN content PROVE FALSE
        BY <2>2
      <3>1. <<k, content[k]>> \in Holds(node, DOMAIN node)
        BY <1>3, <1>7 DEF ContentHeld, Carried, Entering, Graph
      <3>2. PICK a \in DOMAIN node : \E m \in 1 .. Len(node[a].kvs) : node[a].kvs[m] = <<k, content[k]>>
        BY <2>3, <3>1, HeldIs, SMTT(30)
      <3> QED BY <2>5, <3>2
    <2>7. KeysAt(place, own)'
      <3>1. Spanned(node', InTree', place, own) /\ (root' # Null => place[root'] = Nat) /\ AlikeBut(place, own, InTree', {})
        BY <1>3, <1>4, <1>5 DEF KeysAt, Spanned, SameTree
      <3>2. item'[1] \in Slot(node'[leaf'].kvs, own[leaf'], edge_idx' + 1)
        BY <1>2, <2>2, <2>4, <2>5
      <3> QED BY <2>1, <3>1, <3>2 DEF KeysAt
    <2> QED BY <1>8, <2>1, <2>6, <2>7 DEF MapInv, StopsClimb
  <1> QED BY <1>9, <1>10 DEF Vacant

LEMMA InsertFitsMap == ASSUME TreeInv, MapInv, InsertFits PROVE MapInv'
  <1>1. PICK rank : Standing(rank)
    BY DEF TreeInv
  <1>2. /\ phase = "fits" /\ NothingReserved /\ Placing /\ ~Resting /\ ~Committing
        /\ node' = LeafInsert(node, leaf, edge_idx, item) /\ Inserted(leaf, edge_idx)
        /\ UNCHANGED <<root, height, leaf_right, reserve>>
    BY DEF InsertFits, NothingReserved, Placing, Resting, Committing
  <1>3. Rested(rank) /\ InTree = DOMAIN node /\ item \in Pair
    BY <1>1, <1>2, RestedIs DEF TreeInv, ItemOK
  <1>0. PICK a, i, kv : a = leaf /\ i = edge_idx /\ kv = item
    OBVIOUS
  <1>4. a \in DOMAIN node /\ rank[a] = 0 /\ i \in 0 .. Len(node[a].kvs) /\ Len(node[a].kvs) < CAPACITY
    BY <1>0, <1>1, <1>2, <1>3 DEF Standing, AtLeaf
  <1>5. PICK place, own : KeysAt(place, own)
    BY DEF MapInv
  <1>6. root # Null
    BY <1>3, <1>4 DEF Rested, Grown
  <1>7. InOrderTree(node, DOMAIN node, root, height, rank, own) /\ Table(node)
    BY <1>2, <1>3, <1>5, <1>6, SettledIs DEF Rested
  <1>8. Fits(node, own, a, i, kv)
    BY <1>0, <1>2, <1>3, <1>4, <1>5 DEF KeysAt, Fits
  <1>9. Len(node[a].edges) = 0 /\ Spanned(node, DOMAIN node, own, own) /\ own[root] = Nat
    BY <1>4, <1>7 DEF InOrderTree, Grown, Shaped, EdgesOf
  <1>10. node' = LeafInsert(node, a, i, kv)
    BY <1>0, <1>2
  <1>11. Spanned(node', DOMAIN node, own, own) /\ HeldToo(node, node', DOMAIN node, kv) /\ EntryAt(node', a, i, kv)
    BY <1>4, <1>7, <1>8, <1>9, <1>10, LeafPutSpans
  <1>12. DOMAIN node' = DOMAIN node
    <2>1. Grown(node, DOMAIN node, {root}, root, height, rank)
      BY <1>7 DEF InOrderTree
    <2> QED BY <1>0, <1>3, <1>4, <1>7, <1>10, <2>1, LeafPut
  <1>13. InTree' = DOMAIN node
    <2>1. ToSet(reserve'.nodes) = {} /\ leaf_right' = Null
      BY <1>2, <1>3 DEF Rested, ToSet
    <2> QED BY <1>12, <2>1 DEF InTree, Spare
  <1>14. Holds(node, DOMAIN node) = Graph(content) /\ item[1] \notin DOMAIN content
         /\ IsFiniteSet(DOMAIN content) /\ length = Cardinality(DOMAIN content)
    BY <1>2, <1>3 DEF MapInv, ContentHeld, Carried, Entering
  <1>15. /\ Graph(content') = Graph(content) \union {item}
         /\ IsFiniteSet(DOMAIN content') /\ length' = Cardinality(DOMAIN content')
         /\ handle' = [node |-> leaf, idx |-> edge_idx, kv |-> item] /\ <<item[1], content'[item[1]]>> = item
         /\ item[1] \in DOMAIN content' /\ Resting' /\ ~Committing' /\ ~Placing' /\ ~Planned'
    BY <1>2, <1>3, <1>14, InsertedIs
  <1>16. EntryReturned'
    BY <1>0, <1>4, <1>11, <1>13, <1>15 DEF EntryReturned
  <1>17. Holds(node', InTree') = Graph(content')
    BY <1>0, <1>11, <1>13, <1>14, <1>15 DEF HeldToo
  <1> QED BY <1>2, <1>9, <1>11, <1>13, <1>15, <1>16, <1>17, MapSettles

LEMMA InsertEmptyMap == ASSUME TreeInv, MapInv, InsertEmpty PROVE MapInv'
  <1>1. PICK rank : Standing(rank)
    BY DEF TreeInv
  <1>2. /\ phase = "empty" /\ root = Null /\ ~Resting /\ NothingReserved /\ ~Committing
        /\ UNCHANGED <<leaf_right, reserve>>
    BY PhasesApart DEF InsertEmpty, TreeInv, SpareOK
  <1>3. Rested(rank) /\ InTree = DOMAIN node /\ item \in Pair
    BY <1>1, <1>2, RestedIs DEF TreeInv, ItemOK
  <1>4. CASE Failed /\ UNCHANGED node
    <2>1. SameTree
      BY <1>2, <1>3, <1>4, RestedAlike DEF Failed
    <2> QED BY <1>1, <1>2, <1>4, <2>1, FailedMap
  <1>5. CASE \E a \in Free : /\ node' = [x \in {a} |-> [FreshNode EXCEPT !.kvs = <<item>>]]
                             /\ root' = a /\ height' = 0 /\ Inserted(a, 0)
    <2>1. PICK a \in Free : /\ node' = [x \in {a} |-> [FreshNode EXCEPT !.kvs = <<item>>]]
                            /\ root' = a /\ height' = 0 /\ Inserted(a, 0)
      BY <1>5
    <2>2. DOMAIN node' = {a} /\ node'[a].kvs = <<item>> /\ node'[a].edges = <<>>
      BY <2>1 DEF FreshNode
    <2>3. InTree' = {a}
      <3>1. ToSet(reserve'.nodes) = {} /\ leaf_right' = Null
        BY <1>2, <1>3 DEF Rested, ToSet
      <3> QED BY <2>2, <3>1 DEF InTree, Spare
    <2>4. ContentHeld /\ Graph(content) = {}
      BY <1>2, <1>3, EmptyHolds DEF MapInv
    <2>5. /\ Graph(content') = Graph(content) \union {item}
          /\ IsFiniteSet(DOMAIN content') /\ length' = Cardinality(DOMAIN content')
          /\ handle' = [node |-> a, idx |-> 0, kv |-> item] /\ <<item[1], content'[item[1]]>> = item
          /\ item[1] \in DOMAIN content' /\ Resting' /\ ~Committing' /\ ~Placing' /\ ~Planned'
      <3>1. item[1] \notin DOMAIN content /\ IsFiniteSet(DOMAIN content) /\ length = Cardinality(DOMAIN content)
        BY <1>2, <2>4 DEF ContentHeld
      <3> QED BY <1>3, <2>1, <3>1, InsertedIs
    <2>6. PICK own : own = [x \in {a} |-> Nat]
      OBVIOUS
    <2>7. item \in Pair /\ item[1] \in Nat /\ Len(<<item>>) = 1 /\ <<item>>[1] = item /\ ToSet(<<item>>) = {item}
      BY <1>3, PairIs DEF ToSet
    <2>8. NodeOrdered(<<item>>, <<>>, own, Nat)
      BY <2>7 DEF NodeOrdered, InRow
    <2>9. Spanned(node', InTree', own, own) /\ own[root'] = Nat
      BY <2>1, <2>2, <2>3, <2>6, <2>8 DEF Spanned
    <2>10. Holds(node', InTree') = Graph(content')
      BY <2>2, <2>3, <2>4, <2>5, <2>7 DEF Holds
    <2>11. EntryReturned'
      BY <2>2, <2>3, <2>5, <2>7 DEF EntryReturned, EntryAt
    <2> QED BY <2>5, <2>9, <2>10, <2>11, MapSettles
  <1> QED BY <1>4, <1>5 DEF InsertEmpty

\* A value replaced in place leaves every key where it is.
SameKeys(N, l) ==
  \A x \in DOMAIN N : /\ Len(l[x].kvs) = Len(N[x].kvs) /\ l[x].edges = N[x].edges
                      /\ \A j \in 1 .. Len(N[x].kvs) : l[x].kvs[j][1] = N[x].kvs[j][1]
OneReplaced(N, l, a, i, kv) ==
  /\ \A j \in 1 .. Len(N[a].kvs) : l[a].kvs[j] = IF j = i THEN kv ELSE N[a].kvs[j]
  /\ \A x \in DOMAIN N : x # a => l[x] = N[x]
LEMMA ReplacedAt ==
  ASSUME NEW N, Table(N), NEW a \in DOMAIN N, NEW i \in 1 .. Len(N[a].kvs), NEW kv \in Pair,
         N[a].kvs[i][1] = kv[1], NEW l, l = [N EXCEPT ![a].kvs[i] = kv]
  PROVE  OneReplaced(N, l, a, i, kv) /\ SameKeys(N, l)
  <1>1. N[a] \in NodeRecord /\ N[a].kvs \in Seq(Pair)
    BY RecordIs
  <1>2. PICK k, e, q, j : N[a] = [kvs |-> k, edges |-> e, parent |-> q, parent_idx |-> j]
    BY <1>1 DEF NodeRecord
  <1>3. k = N[a].kvs
    BY <1>2
  <1> DEFINE ks == [k EXCEPT ![i] = kv]
             rec == [kvs |-> ks, edges |-> e, parent |-> q, parent_idx |-> j]
  <1> HIDE DEF ks
  <1>4. rec.kvs = ks /\ [N[a] EXCEPT !.kvs = ks] = rec
    BY <1>2
  <1> HIDE DEF rec
  <1>5. l[a].kvs = [k EXCEPT ![i] = kv] /\ \A x \in DOMAIN N : x # a => l[x] = N[x]
    <2>1. l = [N EXCEPT ![a] = rec]
      BY <1>3, <1>4 DEF ks
    <2> QED BY <1>4, <2>1 DEF ks
  <1>6. \A m \in 1 .. Len(N[a].kvs) : l[a].kvs[m] = IF m = i THEN kv ELSE N[a].kvs[m]
    <2>1. k \in Seq(Pair) /\ DOMAIN k = 1 .. Len(k)
      BY <1>1, <1>3
    <2> QED BY <1>3, <1>5, <2>1
  <1>7. OneReplaced(N, l, a, i, kv)
    BY <1>5, <1>6 DEF OneReplaced
  <1>8. Refreshed(N, l)
    BY ReplacedIs
  <1>9. SameKeys(N, l)
    <2>1. ASSUME NEW x \in DOMAIN N, NEW m \in 1 .. Len(N[x].kvs) PROVE l[x].kvs[m][1] = N[x].kvs[m][1]
      <3>1. CASE x = a
        BY <1>6, <3>1
      <3>2. CASE x # a
        BY <1>5, <3>2
      <3> QED BY <3>1, <3>2
    <2> QED BY <1>8, <2>1 DEF SameKeys, Refreshed
  <1> QED BY <1>7, <1>9

LEMMA SameKeysSpans ==
  ASSUME NEW N, Table(N), NEW T, NEW tops, NEW rank, Shaped(N, T, tops, rank),
         NEW place, NEW own, Spanned(N, T, place, own), NEW l, SameKeys(N, l)
  PROVE  Spanned(l, T, place, own)
  <1> SUFFICES ASSUME NEW x \in T PROVE NodeOrdered(l[x].kvs, l[x].edges, place, own[x])
    BY DEF Spanned
  <1>1. x \in DOMAIN N
    BY DEF Shaped
  <1>2. NodeOrdered(N[x].kvs, N[x].edges, place, own[x])
    BY DEF Spanned
  <1>3. /\ Len(l[x].kvs) = Len(N[x].kvs) /\ l[x].edges = N[x].edges
        /\ \A j \in 1 .. Len(N[x].kvs) : l[x].kvs[j][1] = N[x].kvs[j][1]
    BY <1>1 DEF SameKeys
  <1>4. Len(N[x].kvs) \in Nat /\ Len(N[x].edges) \in Nat /\ Len(N[x].edges) <= Len(N[x].kvs) + 1
    <2>1. Len(N[x].kvs) \in Nat /\ Len(N[x].edges) = EdgesOf(Len(N[x].kvs), rank[x])
      BY <1>1, RecordIs DEF Shaped
    <2> QED BY <2>1 DEF EdgesOf
  <1>5. PICK n, m, q, r, es, K : n = Len(N[x].kvs) /\ m = Len(N[x].edges) /\ q = N[x].kvs /\ r = l[x].kvs /\ es = N[x].edges /\ K = own[x]
    OBVIOUS
  <1>6. n \in Nat /\ m \in Nat /\ m <= n + 1 /\ \A j \in 1 .. n : r[j][1] = q[j][1]
    BY <1>3, <1>4, <1>5
  <1>7. \A i \in 1 .. m : Slot(r, K, i) = Slot(q, K, i)
    <2> SUFFICES ASSUME NEW i \in 1 .. m PROVE Slot(r, K, i) = Slot(q, K, i)
      OBVIOUS
    <2>1. i > 1 => r[i - 1][1] = q[i - 1][1]
      BY <1>6
    <2>2. i <= n => r[i][1] = q[i][1]
      BY <1>6
    <2>3. Len(r) = n /\ Len(q) = n
      BY <1>3, <1>5
    <2> QED BY <2>1, <2>2, <2>3 DEF Slot
  <1>8. NodeOrdered(q, es, place, K) /\ Len(q) = n /\ Len(es) = m /\ Len(r) = n
    BY <1>2, <1>3, <1>5
  <1>9. InRow(r)
    BY <1>6, <1>8 DEF NodeOrdered, InRow
  <1>10. NodeOrdered(r, es, place, K)
    BY <1>6, <1>7, <1>8, <1>9 DEF NodeOrdered
  <1> QED BY <1>3, <1>5, <1>10

LEMMA OccupiedMap == ASSUME TreeInv, MapInv, Occupied PROVE MapInv'
  <1>1. PICK rank : Standing(rank)
    BY DEF TreeInv
  <1>2. /\ Resting /\ Resting' /\ root # Null /\ remaining # <<>>
        /\ UNCHANGED <<root, height, length, leaf_right, reserve, handle, phase>>
    BY DEF Occupied, Resting, insert, arg
  <1>3. Rested(rank) /\ InTree = DOMAIN node /\ ~Committing
    BY <1>1, <1>2, RestedIs, PhasesApart DEF TreeInv
  <1>4. PICK place, own : KeysAt(place, own)
    BY DEF MapInv
  <1>5. InOrderTree(node, DOMAIN node, root, height, rank, own) /\ Table(node) /\ height \in Nat
    BY <1>2, <1>3, <1>4, SettledIs DEF Rested
  <1>0. PICK kv, a, i : kv = Head(remaining) /\ a = Search(kv[1]) /\ i = Below(a, kv[1]) + 1
    OBVIOUS
  <1>6. kv \in Pair
    BY <1>0, <1>2 DEF TreeInv, ItemOK
  <1>7. /\ Hit(a, kv[1]) /\ node' = [node EXCEPT ![a].kvs[i] = kv] /\ Recorded(kv)
    BY <1>0 DEF Occupied
  <1>8. Grown(node, DOMAIN node, {root}, root, height, rank) /\ Spanned(node, DOMAIN node, own, own) /\ own[root] = Nat
    BY <1>5 DEF InOrderTree
  <1>9. a \in DOMAIN node /\ Below(a, kv[1]) \in 0 .. Len(node[a].kvs)
    BY <1>0, <1>2, <1>5, <1>8, SearchIs
  <1>10. i \in 1 .. Len(node[a].kvs) /\ node[a].kvs[i][1] = kv[1]
    <2>1. Below(a, kv[1]) < Len(node[a].kvs) /\ Len(node[a].kvs) \in Nat /\ node[a].kvs[i][1] = kv[1]
      BY <1>0, <1>5, <1>7, <1>9, RecordIs DEF Hit, LenOf
    <2> QED BY <1>0, <1>9, <2>1
  <1>11. OneReplaced(node, node', a, i, kv) /\ SameKeys(node, node') /\ Refreshed(node, node')
    BY <1>5, <1>6, <1>7, <1>9, <1>10, ReplacedAt, ReplacedIs
  <1>12. InTree' = DOMAIN node /\ Table(node') /\ DOMAIN node' = DOMAIN node
    <2>1. ToSet(reserve'.nodes) = {} /\ leaf_right' = Null
      BY <1>2, <1>3 DEF Rested, ToSet
    <2>2. DOMAIN node' = DOMAIN node /\ Table(node')
      BY <1>11 DEF Refreshed
    <2> QED BY <2>1, <2>2 DEF InTree, Spare
  <1>13. Spanned(node', DOMAIN node, own, own)
    <2>1. Shaped(node, DOMAIN node, {root}, rank)
      BY <1>8 DEF Grown
    <2> QED BY <1>5, <1>8, <1>11, <2>1, SameKeysSpans
  \* An entry with the key that is replaced is the one replaced.
  <1>14. ASSUME NEW b \in DOMAIN node, NEW j \in 1 .. Len(node[b].kvs), node[b].kvs[j][1] = kv[1] PROVE b = a /\ j = i
    <2>1. node[a].kvs[i][1] = node[b].kvs[j][1]
      BY <1>10, <1>14
    <2>2. /\ Table(node) /\ height \in Nat /\ InOrderTree(node, DOMAIN node, root, height, rank, own)
          /\ a \in DOMAIN node /\ i \in 1 .. Len(node[a].kvs)
          /\ b \in DOMAIN node /\ j \in 1 .. Len(node[b].kvs)
      BY <1>5, <1>9, <1>10, <1>14
    <2>3. SameKey(node, DOMAIN node, root, height, rank, own, a, i, b, j)
      BY <2>1, <2>2 DEF SameKey
    <2> QED BY <2>3, EntryOnce
  <1>15. ContentHeld /\ Holds(node, DOMAIN node) = Graph(content)
    BY <1>3 DEF MapInv, ContentHeld, Carried, Entering
  <1>16. /\ DOMAIN content' = DOMAIN content \union {kv[1]} /\ <<kv[1], content'[kv[1]]>> = kv
         /\ \A k \in DOMAIN content : k # kv[1] => content'[k] = content[k]
         /\ Graph(content') = {e \in Graph(content) : e[1] # kv[1]} \union {kv}
    BY <1>6, <1>7, RecordedIs
  <1>17. kv[1] \in DOMAIN content
    <2>1. node[a].kvs[i] \in Holds(node, DOMAIN node)
      BY <1>5, <1>9, <1>10, HeldIs
    <2>2. PICK k \in DOMAIN content : node[a].kvs[i] = <<k, content[k]>>
      BY <1>15, <2>1 DEF Graph
    <2> QED BY <1>10, <2>2
  <1>18. DOMAIN content' = DOMAIN content
    BY <1>16, <1>17
  <1>19. Holds(node', DOMAIN node) = Graph(content')
    <2>1. ASSUME NEW e \in Holds(node', DOMAIN node) PROVE e \in Graph(content')
      <3>1. PICK x \in DOMAIN node : \E m \in 1 .. Len(node'[x].kvs) : node'[x].kvs[m] = e
        BY <1>12, <2>1, HeldIs
      <3>2. PICK m \in 1 .. Len(node[x].kvs) : node'[x].kvs[m] = e
        BY <1>11, <3>1 DEF SameKeys
      <3>3. CASE x = a /\ m = i
        BY <1>9, <1>11, <1>16, <3>2, <3>3 DEF OneReplaced
      <3>4. CASE ~(x = a /\ m = i)
        <4>1. e = node[x].kvs[m]
          BY <1>11, <3>2, <3>4 DEF OneReplaced
        <4>2. e \in Graph(content)
          BY <1>5, <1>15, <3>2, <4>1, HeldIs
        <4>3. e[1] # kv[1]
          BY <1>14, <3>2, <3>4, <4>1
        <4> QED BY <1>16, <4>2, <4>3
      <3> QED BY <3>3, <3>4
    <2>2. ASSUME NEW e \in Graph(content'), e # kv PROVE e \in Holds(node', DOMAIN node)
      <3>1. e \in Holds(node, DOMAIN node) /\ e[1] # kv[1]
        BY <1>15, <1>16, <2>2
      <3>2. PICK x \in DOMAIN node : \E m \in 1 .. Len(node[x].kvs) : node[x].kvs[m] = e
        BY <1>5, <3>1, HeldIs
      <3>3. PICK m \in 1 .. Len(node[x].kvs) : node[x].kvs[m] = e
        BY <3>2
      <3>4. ~(x = a /\ m = i)
        BY <1>10, <3>1, <3>3
      <3>5. node'[x].kvs[m] = e /\ m \in 1 .. Len(node'[x].kvs)
        BY <1>11, <3>3, <3>4 DEF OneReplaced, SameKeys
      <3> QED BY <1>12, <3>5, HeldIs
    <2>3. kv \in Holds(node', DOMAIN node)
      <3>1. node'[a].kvs[i] = kv /\ i \in 1 .. Len(node'[a].kvs)
        BY <1>9, <1>10, <1>11 DEF OneReplaced, SameKeys
      <3> QED BY <1>9, <1>12, <3>1, HeldIs
    <2> QED BY <2>1, <2>2, <2>3
  <1>20. EntryReturned'
    <2> SUFFICES ASSUME handle # NoHandle
                 PROVE  /\ handle.node \in DOMAIN node /\ handle.kv[1] \in DOMAIN content'
                        /\ EntryAt(node', handle.node, handle.idx, <<handle.kv[1], content'[handle.kv[1]]>>)
      <3>1. ~Committing'
        BY <1>2, <1>3 DEF Committing
      <3> QED BY <1>2, <1>12, <3>1 DEF EntryReturned, NoHandle
    <2>1. /\ handle.node \in DOMAIN node /\ handle.kv[1] \in DOMAIN content
          /\ EntryAt(node, handle.node, handle.idx, <<handle.kv[1], content[handle.kv[1]]>>)
      BY <1>3 DEF MapInv, EntryReturned
    <2>2. PICK b, j, k : b = handle.node /\ j = handle.idx + 1 /\ k = handle.kv[1]
      OBVIOUS
    <2>3. b \in DOMAIN node /\ j \in 1 .. Len(node[b].kvs) /\ node[b].kvs[j] = <<k, content[k]>> /\ k \in DOMAIN content
      BY <2>1, <2>2 DEF EntryAt
    <2>4. node[b].kvs[j][1] = k
      BY <2>3
    <2>5. j \in 1 .. Len(node'[b].kvs)
      BY <1>11, <2>3 DEF SameKeys
    <2>6. node'[b].kvs[j] = <<k, content'[k]>>
      <3>1. CASE k = kv[1]
        <4>1. b = a /\ j = i
          BY <1>14, <2>3, <2>4, <3>1
        <4> QED BY <1>10, <1>11, <1>16, <3>1, <4>1 DEF OneReplaced
      <3>2. CASE k # kv[1]
        <4>1. ~(b = a /\ j = i)
          BY <1>10, <2>4, <3>2
        <4> QED BY <1>11, <1>16, <2>3, <3>2, <4>1 DEF OneReplaced
      <3> QED BY <3>1, <3>2
    <2> QED BY <1>18, <2>2, <2>3, <2>5, <2>6 DEF EntryAt
  <1>21. ~Committing' /\ ~Placing' /\ ~Planned'
    BY <1>2, PhasesApart DEF Committing, Placing, Planned, Resting
  <1> QED BY <1>2, <1>8, <1>12, <1>13, <1>15, <1>18, <1>19, <1>20, <1>21, MapSettles DEF ContentHeld

(***************************************************************************)
(* The steps of the commit.                                                 *)
(***************************************************************************)
\* The climb goes on from a later stop; node a is passed.
Ahead(s, from, T, a) == \A i \in 1 .. Len(s) : i >= from => s[i].ptr \in T \ {a}
LEMMA ClimbKept ==
  ASSUME NEW N, NEW p, NEW T, NEW a, SameEdges(N, p, T \ {a}), NEW s, NEW from \in Nat, NEW from2 \in Nat, from2 >= from,
         ClimbOK(N, s, from), Ahead(s, from2, T, a)
  PROVE  ClimbOK(p, s, from2)
  <1> SUFFICES ASSUME NEW i \in 1 .. Len(s), i >= from2
               PROVE  p[s[i].ptr].edges[s[i].child_idx + 1] = Rung(s, i - 1)
    BY DEF ClimbOK
  <1>1. i >= from
    OBVIOUS
  <1>2. N[s[i].ptr].edges[s[i].child_idx + 1] = Rung(s, i - 1)
    BY <1>1 DEF ClimbOK
  <1>3. s[i].ptr \in T \ {a}
    BY DEF Ahead
  <1> QED BY <1>2, <1>3 DEF SameEdges

LEMMA StopsStay ==
  ASSUME StopsClimb, Planned, Committing', UNCHANGED <<plan, leaf, root>>, ClimbOK(node', plan.internals, level')
  PROVE  StopsClimb'
  <1>1. \A i : Rung(plan.internals, i)' = Rung(plan.internals, i)
    BY DEF Rung
  <1>2. ClimbOK(node, plan.internals, level)'
    BY <1>1 DEF ClimbOK
  <1> QED BY <1>1, <1>2 DEF StopsClimb

LEMMA CommitLeafMap == ASSUME TreeInv, MapInv, CommitLeaf PROVE MapInv'
  <1>1. PICK rank : Standing(rank)
    BY DEF TreeInv
  <1>2. /\ phase = "commit" /\ ~NothingReserved /\ Placing /\ ~Resting /\ Planned /\ ~Committing
        /\ phase' = "promote" /\ Committing' /\ ~Resting' /\ ~Placing' /\ current_right' = leaf_right
        /\ UNCHANGED <<root, height, item, leaf, edge_idx, plan, leaf_right, reserve, level, length, content>>
    BY DEF CommitLeaf, NothingReserved, Placing, Resting, Planned, Committing, arg, history
  <1>0. PICK a, b, e, kv : a = leaf /\ b = leaf_right /\ e = edge_idx /\ kv = item
    OBVIOUS
  <1>t. PICK T : T = InTree
    OBVIOUS
  <1>3. /\ Table(node) /\ height \in Nat /\ current_right = Null /\ level = 1
        /\ reserve.nodes \in Seq(DOMAIN node) /\ b \in DOMAIN node /\ b # Null /\ b \notin ToSet(reserve.nodes)
        /\ \A x \in Spare : node[x] = FreshNode
    BY <1>0, <1>2 DEF TreeInv, SpareOK
  <1>4. Spare = ToSet(reserve.nodes) \union {b} /\ Tops = {root} \ {Null}
    BY <1>0, <1>2, <1>3 DEF Spare, Tops
  <1>5. /\ a \in T /\ rank[a] = 0 /\ e \in 0 .. CAPACITY /\ Len(node[a].kvs) = CAPACITY
    BY <1>0, <1>t, <1>1, <1>2 DEF Standing, AtLeaf
  <1>6. /\ plan.leaf_sp = SplitPoint(e).sp /\ plan.right = SplitPoint(e).right
        /\ plan.idx = SplitPoint(e).idx
    BY <1>0, <1>1, <1>2 DEF Standing, Planning
  <1>7. PICK m, half, mid : /\ m = MoveRightHalf(node, a, b, SplitPoint(e).sp)
                            /\ half = IF SplitPoint(e).right THEN b ELSE a
                            /\ mid = node[a].kvs[SplitPoint(e).sp + 1]
    OBVIOUS
  <1>8. PICK p : p = LeafInsert(m, half, SplitPoint(e).idx, kv)
    OBVIOUS
  <1>9. node' = p /\ current_kv' = mid /\ current_right' = b /\ half = Landed
    BY <1>0, <1>2, <1>6, <1>7, <1>8 DEF CommitLeaf, Landed
  <1>10. Shaped(node, T, Tops, rank) /\ T \subseteq DOMAIN node
    BY <1>1, <1>t DEF Standing, Grown, InTree
  <1>11. b \notin T /\ node[b].parent = Null /\ kv \in Pair
    BY <1>0, <1>t, <1>2, <1>3, <1>4 DEF InTree, FreshNode, TreeInv, ItemOK
  <1>12. PICK place, own : KeysAt(place, own)
    BY DEF MapInv
  <1>13. /\ Spanned(node, T, place, own) /\ kv[1] \in Slot(node[a].kvs, own[a], e + 1)
         /\ (root # Null => place[root] = Nat) /\ \A y \in T : own[y] = place[y]
    BY <1>0, <1>t, <1>2, <1>12 DEF KeysAt, AlikeBut
  <1>14. PICK own2 : own2 = Divided(own, T, a, b, mid[1])
    OBVIOUS
  <1>15. /\ Spanned(p, T \union {b}, place, own2)
         /\ mid \in Pair /\ mid[1] \in own[a] /\ HeldOver(node, p, T, b, mid, kv)
         /\ EntryAt(p, half, SplitPoint(e).idx, kv) /\ Len(p[half].edges) = 0 /\ SameEdges(node, p, T \ {a})
    <2>1. /\ Spanned(p, T \union {b}, place, Divided(own, T, a, b, mid[1]))
          /\ mid \in Pair /\ mid[1] \in own[a] /\ HeldOver(node, p, T, b, mid, kv)
          /\ EntryAt(p, half, SplitPoint(e).idx, kv) /\ Len(p[half].edges) = 0 /\ SameEdges(node, p, T \ {a})
      <3>1. PICK tops : tops = Tops
        OBVIOUS
      <3>2. Table(node) /\ Shaped(node, T, tops, rank) /\ Spanned(node, T, place, own)
        BY <1>3, <1>10, <1>13, <3>1
      <3>3. LeafParted(node, a, b, e, kv, half, p, mid)
        BY <1>7, <1>8 DEF LeafParted
      <3>4. FullLeaf(node, rank, a) /\ Detached(node, T, b) /\ Belongs(node, own, a, e, kv)
        BY <1>3, <1>5, <1>11, <1>13 DEF FullLeaf, Detached, Belongs
      <3> QED BY <1>5, <3>2, <3>3, <3>4, LeafSplitSpans
    <2> QED BY <1>14, <2>1
  <1>16. InTree' = T \union {b}
    <2>1. Spare' = ToSet(reserve.nodes)
      BY <1>2 DEF Spare
    <2>2. DOMAIN node' = DOMAIN node
      BY <1>9, <1>8, <1>7 DEF LeafInsert, Refilled, MoveRightHalf
    <2> QED BY <1>t, <1>3, <1>4, <2>1, <2>2 DEF InTree
  <1>17. KeysAt(place, own2)'
    <2>1. Lowered' = a
      BY <1>0, <1>2, <1>3 DEF Lowered, Rung
    <2>2. a \in T /\ a # b
      BY <1>5, <1>11
    <2>3. /\ own2[a] = Lower(place[a], mid[1]) /\ own2[b] = Upper(place[a], mid[1]) /\ mid[1] \in place[a]
          /\ \A y \in T \union {b} : y \notin {a, b} => own2[y] = place[y]
      BY <1>13, <1>14, <1>15, <2>2 DEF Divided
    <2>4. PartedAt(place, own2)'
      BY <1>9, <1>16, <2>1, <2>2, <2>3 DEF PartedAt, AlikeBut
    <2> QED BY <1>2, <1>9, <1>13, <1>15, <1>16, <2>4 DEF KeysAt
  <1>18. ContentHeld'
    <2>1. Holds(node', InTree') \union {current_kv'} = Graph(content) \union {item}
      BY <1>0, <1>t, <1>2, <1>9, <1>15, <1>16 DEF HeldOver, MapInv, ContentHeld, Carried, Entering
    <2> QED BY <1>2, <2>1 DEF MapInv, ContentHeld, Carried, Entering
  <1>19. StopsClimb'
    <2>1. PICK s : s = plan.internals
      OBVIOUS
    <2>2. ClimbOK(node, s, 1)
      BY <1>2, <2>1 DEF MapInv, StopsClimb
    <2>3. Len(s) \in Nat /\ \A i \in 1 .. Len(s) : StopAt(node, T, rank, s, i)
      BY <1>1, <1>t, <1>2, <2>1 DEF Standing, Planning
    <2>4. Ahead(s, 1, T, a)
      BY <1>5, <2>3 DEF Ahead, StopAt
    <2>5. ClimbOK(node', s, 1)
      BY <1>9, <1>15, <2>2, <2>4, ClimbKept
    <2> QED BY <1>2, <1>3, <2>1, <2>5, StopsStay DEF MapInv
  <1>20. EntryReturned'
    <2>1. Landed' = half /\ half \in InTree' /\ plan'.idx = SplitPoint(e).idx /\ item' = kv
      BY <1>0, <1>2, <1>5, <1>6, <1>7, <1>9, <1>16 DEF Landed
    <2> QED BY <1>2, <1>9, <1>15, <2>1 DEF EntryReturned
  <1> QED BY <1>17, <1>18, <1>19, <1>20 DEF MapInv

\* The keys below the edge where the entry goes are shared out as the nodes are.
SharedOut(place, own, T, d, c, k) ==
  d # c /\ own[d] = Lower(place[d], k) /\ own[c] = Upper(place[d], k) /\ AlikeBut(place, own, T, {d, c})
LEMMA PartedAlike ==
  ASSUME NEW place, NEW own, NEW T, NEW d \in T, NEW c \in T, NEW k, SharedOut(place, own, T, d, c, k)
  PROVE  \A y \in T : Parted(place, T, d, c, k)[y] = own[y]
  BY DEF Parted, AlikeBut, SharedOut

\* What is below the edge of the next stop is what was split last.
LEMMA NextStop ==
  ASSUME TreeInv, MapInv, NEW rank, Standing(rank), phase = "promote", level \in 1 .. Len(plan.internals),
         NEW a, a = Promotion.ptr, NEW i, i = Promotion.child_idx
  PROVE  /\ a \in InTree /\ rank[a] = level /\ i \in Nat /\ i <= Len(node[a].kvs)
         /\ Promotion.will_split = ~(Len(node[a].kvs) < CAPACITY)
         /\ node[a].edges[i + 1] = Lowered
  <1>1. Planned /\ Committing
    BY DEF Planned, Committing
  <1>2. StopAt(node, InTree, rank, plan.internals, level) /\ plan.internals[level] \in Stops
    <2>1. Planning(rank) /\ level >= level
      BY DEF Standing
    <2> QED BY <1>1, <2>1 DEF Planning
  <1>3. i \in Nat
    BY <1>2 DEF Stops, Promotion
  <1>4. ClimbOK(node, plan.internals, level)
    BY <1>1 DEF MapInv, StopsClimb
  <1>5. node[a].edges[i + 1] = Lowered
    <2>1. level >= level
      OBVIOUS
    <2> QED BY <1>4, <2>1 DEF ClimbOK, Lowered, Promotion
  <1> QED BY <1>2, <1>3, <1>5 DEF StopAt, Promotion

\* While a split is carried upward.
LEMMA CarryingIs ==
  ASSUME TreeInv, MapInv, phase = "promote"
  PROVE  /\ item \in Pair /\ item[1] \notin DOMAIN content
         /\ IsFiniteSet(DOMAIN content) /\ length = Cardinality(DOMAIN content)
         /\ Holds(node, InTree) \union {current_kv} = Graph(content) \union {item}
         /\ Landed \in InTree /\ Len(node[Landed].edges) = 0 /\ EntryAt(node, Landed, plan.idx, item)
         /\ \E place, own : KeysAt(place, own) /\ PartedAt(place, own) /\ Spanned(node, InTree, place, own)
                            /\ (root # Null => place[root] = Nat)
  <1>1. Committing /\ ~Resting
    BY DEF Committing, Resting
  <1>2. \E place, own : KeysAt(place, own) /\ PartedAt(place, own) /\ Spanned(node, InTree, place, own)
                            /\ (root # Null => place[root] = Nat)
    <2>1. PICK place, own : KeysAt(place, own)
      BY DEF MapInv
    <2> QED BY <1>1, <2>1 DEF KeysAt
  <1> QED BY <1>1, <1>2 DEF TreeInv, ItemOK, MapInv, ContentHeld, Carried, Entering, EntryReturned

\* The stop that has room is the last, nothing is reserved any more.
LEMMA LastStop ==
  ASSUME TreeInv, ReserveInv, NEW rank, Standing(rank), phase = "promote", level \in 1 .. Len(plan.internals),
         ~plan.internals[level].will_split
  PROVE  reserve.nodes = <<>>
  <1> DEFINE N == Len(plan.internals)
  <1>1. Planned /\ N \in Nat /\ reserve.nodes \in Seq(DOMAIN node) /\ Len(reserve.nodes) = Needed(level)
    BY PromotingIs DEF TreeInv
  <1>2. level = N
    <2>1. \A j \in 1 .. N : j # N => plan.internals[j].will_split
      BY <1>1 DEF Standing, Planning
    <2> QED BY <2>1
  <1>3. Splits(level) = {}
    BY <1>2 DEF Splits
  <1>4. ~plan.new_root
    BY <1>1 DEF Standing, Planning
  <1>5. Needed(level) = 0
    BY <1>3, <1>4, FS_EmptySet DEF Needed
  <1> QED BY <1>1, <1>5

LEMMA AbsorbMap == ASSUME TreeInv, ReserveInv, MapInv, Absorb PROVE MapInv'
  <1>1. PICK rank : Standing(rank)
    BY DEF TreeInv
  <1>0. PICK a, i, c, kv, T : a = Promotion.ptr /\ i = Promotion.child_idx /\ c = current_right /\ kv = current_kv /\ T = InTree
    OBVIOUS
  <1>2. /\ phase = "promote" /\ level <= Len(plan.internals) /\ ~plan.internals[level].will_split /\ Finished
        /\ UNCHANGED <<root, height>>
        /\ node' = Relinked(InternalInsert(node, a, i, kv, c), a, i + 1, Len(node[a].kvs) + 1)
    BY <1>0 DEF Absorb, Promotion, LenOf
  <1>3. /\ root # Null /\ c # root /\ Table(node) /\ height \in Nat
        /\ Grown(node, T, {root, c}, root, height, rank) /\ kv \in Pair /\ rank[c] = level - 1
        /\ Len(plan.internals) \in Nat /\ level \in 1 .. Len(plan.internals) + 1
    BY <1>0, <1>1, <1>2, PromotingIs DEF TreeInv
  <1>4. level \in 1 .. Len(plan.internals)
    BY <1>2, <1>3
  <1>5. /\ a \in T /\ rank[a] = level /\ i \in Nat /\ i <= Len(node[a].kvs) /\ node[a].edges[i + 1] = Lowered
        /\ Len(node[a].kvs) < CAPACITY
    BY <1>0, <1>1, <1>2, <1>4, NextStop DEF Promotion
  <1>6. /\ item \in Pair /\ item[1] \notin DOMAIN content
        /\ IsFiniteSet(DOMAIN content) /\ length = Cardinality(DOMAIN content)
        /\ Holds(node, T) \union {kv} = Graph(content) \union {item}
        /\ Landed \in T /\ Len(node[Landed].edges) = 0 /\ EntryAt(node, Landed, plan.idx, item)
    BY <1>0, <1>2, CarryingIs
  <1>7. PICK place, own : /\ PartedAt(place, own) /\ Spanned(node, T, place, own) /\ (root # Null => place[root] = Nat)
    BY <1>0, <1>2, CarryingIs
  <1>8. PICK d : d = Lowered
    OBVIOUS
  <1>9. /\ d \in T /\ d # c /\ kv[1] \in place[d] /\ own[d] = Lower(place[d], kv[1]) /\ own[c] = Upper(place[d], kv[1])
        /\ AlikeBut(place, own, T, {d, c})
    BY <1>0, <1>7, <1>8 DEF PartedAt
  <1>10. /\ Shaped(node, T, {root, c}, rank) /\ c \in T /\ root \in T /\ c \in {root, c} /\ T \subseteq DOMAIN node
         /\ rank \in [T -> 0 .. height] /\ rank[root] = height
    BY <1>3 DEF Grown, Shaped
  <1>11. rank[a] # 0 /\ rank[c] = rank[a] - 1 /\ Roomy(node, a, i)
    BY <1>3, <1>4, <1>5 DEF Roomy
  <1>12. PICK f, p : f = InternalInsert(node, a, i, kv, c) /\ p = Relinked(f, a, i + 1, Len(node[a].kvs) + 1)
    OBVIOUS
  <1>13. node' = p /\ Absorbed(node, f, p, a, i, kv, c)
    BY <1>2, <1>12 DEF Absorbed
  <1>14. Table(p) /\ DOMAIN p = DOMAIN node /\ Grown(p, T, {root}, root, height, rank)
    BY <1>3, <1>5, <1>11, <1>13, AbsorbIs
  <1>15. /\ Spanned(p, T, Parted(place, T, d, c, kv[1]), own) /\ HeldToo(node, p, T, kv)
         /\ \A x \in T : x # a => p[x].kvs = node[x].kvs
    <2>1. UnderEdge(node, place, a, i, d, kv)
      BY <1>3, <1>5, <1>8, <1>9 DEF UnderEdge
    <2>2. PICK tops : tops = {root, c}
      OBVIOUS
    <2>3. Table(node) /\ Shaped(node, T, tops, rank) /\ c \in tops /\ rank[a] # 0 /\ Roomy(node, a, i)
          /\ Absorbed(node, f, p, a, i, kv, c) /\ Spanned(node, T, place, own)
      BY <1>3, <1>7, <1>10, <1>11, <1>13, <2>2
    <2> QED BY <1>5, <2>1, <2>3, AbsorbSpans
  <1>16. Spanned(p, T, own, own)
    <2>1. Shaped(p, T, {root}, rank)
      BY <1>14 DEF Grown
    <2>2. \A y \in T : Parted(place, T, d, c, kv[1])[y] = own[y]
      <3>1. PICK k : k = kv[1]
        OBVIOUS
      <3>2. SharedOut(place, own, T, d, c, k)
        BY <1>9, <3>1 DEF SharedOut
      <3>3. \A y \in T : Parted(place, T, d, c, k)[y] = own[y]
        BY <1>9, <1>10, <3>2, PartedAlike
      <3> QED BY <3>1, <3>3
    <2>3. PICK place2 : place2 = Parted(place, T, d, c, kv[1])
      OBVIOUS
    <2>4. Spanned(p, T, place2, own) /\ (\A y \in T : own[y] = place2[y]) /\ \A y \in T : own[y] = own[y]
      BY <1>15, <2>2, <2>3
    <2> QED BY <2>1, <2>4, SpannedAlike
  <1>17. own[root] = Nat
    <2>1. rank[d] = rank[a] - 1
      <3>1. Len(node[a].edges) = Len(node[a].kvs) + 1 /\ Len(node[a].kvs) \in Nat
        BY <1>3, <1>5, <1>10, <1>11, RecordIs DEF Shaped, EdgesOf
      <3>2. i + 1 \in 1 .. Len(node[a].edges)
        BY <1>5, <3>1
      <3>3. ChildOK(node, T, rank, a, i + 1)
        BY <1>5, <1>10, <3>2 DEF Shaped
      <3> QED BY <1>5, <1>8, <3>3 DEF ChildOK
    <2>2. rank[a] \in 0 .. height
      BY <1>5, <1>10
    <2>3. rank[d] # rank[root]
      BY <1>3, <1>10, <2>1, <2>2
    <2>4. root \notin {d, c}
      BY <1>3, <2>3
    <2> QED BY <1>3, <1>7, <1>9, <1>10, <2>4 DEF AlikeBut
  <1>18. InTree' = T
    <2>1. reserve'.nodes = <<>> /\ leaf_right' = Null
      BY <1>2 DEF Finished, NoReserve
    <2>2. Spare' = {}
      BY <2>1 DEF Spare, ToSet
    <2>3. T = DOMAIN node
      <3>1. reserve.nodes = <<>>
        BY <1>1, <1>2, <1>4, LastStop
      <3>3. Spare = ToSet(reserve.nodes)
        BY <1>1, <1>2, PromotingIs DEF TreeInv
      <3>4. ToSet(reserve.nodes) = {}
        BY <3>1 DEF ToSet
      <3> QED BY <1>0, <3>3, <3>4 DEF InTree
    <2> QED BY <1>13, <1>14, <2>2, <2>3 DEF InTree
  <1>19. /\ Graph(content') = Graph(content) \union {item}
         /\ IsFiniteSet(DOMAIN content') /\ length' = Cardinality(DOMAIN content')
         /\ handle' = [node |-> Landed, idx |-> plan.idx, kv |-> item] /\ <<item[1], content'[item[1]]>> = item
         /\ item[1] \in DOMAIN content' /\ Resting' /\ ~Committing' /\ ~Placing' /\ ~Planned'
    <2>1. Inserted(Landed, plan.idx)
      BY <1>2 DEF Finished, Landed
    <2> QED BY <1>6, <2>1, InsertedIs
  <1>20. EntryReturned'
    <2>1. Landed # a
      <3>1. Len(node[a].edges) = Len(node[a].kvs) + 1 /\ Len(node[a].kvs) \in Nat
        BY <1>3, <1>5, <1>10, <1>11, RecordIs DEF Shaped, EdgesOf
      <3> QED BY <1>6, <3>1
    <2>2. EntryAt(p, Landed, plan.idx, item)
      BY <1>6, <1>15, <2>1 DEF EntryAt
    <2> QED BY <1>6, <1>13, <1>18, <1>19, <2>2 DEF EntryReturned
  <1>21. Holds(node', InTree') = Graph(content')
    BY <1>6, <1>13, <1>15, <1>18, <1>19 DEF HeldToo
  <1> QED BY <1>2, <1>13, <1>16, <1>17, <1>18, <1>19, <1>20, <1>21, MapSettles

\* At the top only the node for the new root is left of those reserved.
LEMMA TopStop ==
  ASSUME TreeInv, ReserveInv, NEW rank, Standing(rank), phase = "promote", level > Len(plan.internals),
         NEW b, b = ReservedNode
  PROVE  /\ plan.new_root /\ Len(plan.internals) = height /\ level - 1 = Len(plan.internals)
         /\ b \in DOMAIN node /\ b \notin InTree /\ InTree \union {b} = DOMAIN node
  <1> DEFINE N == Len(plan.internals)
  <1>1. /\ Planned /\ Committing /\ N \in Nat /\ level \in 1 .. N + 1 /\ InTree = DOMAIN node \ ToSet(reserve.nodes)
        /\ reserve.nodes \in Seq(DOMAIN node) /\ Len(reserve.nodes) = Needed(level)
    BY PromotingIs DEF TreeInv
  <1>2. level = N + 1
    BY <1>1
  <1>3. plan.new_root /\ N = height
    <2>1. \A j \in 1 .. N : plan.internals[j].will_split
      BY <1>1, <1>2 DEF Standing, Promoting
    <2> QED BY <1>1, <2>1 DEF Standing, Planning
  <1>4. Splits(level) = {}
    BY <1>1, <1>2 DEF Splits
  <1>5. Needed(level) = 1
    BY <1>3, <1>4, FS_EmptySet DEF Needed
  <1>6. reserve.nodes = <<b>> /\ b \in DOMAIN node
    <2>1. Len(reserve.nodes) = 1 /\ reserve.nodes[1] = b /\ reserve.nodes[1] \in DOMAIN node
      BY <1>1, <1>5 DEF ReservedNode
    <2> QED BY <1>1, <2>1
  <1>7. ToSet(reserve.nodes) = {b}
    BY <1>6 DEF ToSet
  <1>8. b \notin InTree /\ InTree \union {b} = DOMAIN node
    BY <1>1, <1>6, <1>7
  <1>9. level - 1 = N
    BY <1>1, <1>2
  <1> HIDE DEF N
  <1>10. plan.new_root /\ N = height /\ level - 1 = N /\ b \in DOMAIN node /\ b \notin InTree /\ InTree \union {b} = DOMAIN node
    BY <1>3, <1>6, <1>8, <1>9
  <1> QED BY <1>10 DEF N

LEMMA GrowRootMap == ASSUME TreeInv, ReserveInv, MapInv, GrowRoot PROVE MapInv'
  <1>1. PICK rank : Standing(rank)
    BY DEF TreeInv
  <1>0. PICK b, top, c, kv, T : b = ReservedNode /\ top = root /\ c = current_right /\ kv = current_kv /\ T = InTree
    OBVIOUS
  <1>2. /\ phase = "promote" /\ level > Len(plan.internals) /\ Finished /\ root' = b
        /\ node' = Relinked([node EXCEPT ![b] = RootRecord(kv, top, c)], b, 0, 1)
    BY <1>0 DEF GrowRoot, RootRecord
  <1>3. /\ top # Null /\ top \in Nodes /\ c \in Nodes /\ c # top /\ Table(node) /\ kv \in Pair
        /\ Grown(node, T, {top, c}, top, height, rank)
    BY <1>0, <1>1, <1>2, PromotingIs DEF TreeInv
  <1>4. /\ plan.new_root /\ Len(plan.internals) = height /\ level - 1 = Len(plan.internals)
        /\ b \in DOMAIN node /\ b \notin T /\ T \union {b} = DOMAIN node
    BY <1>0, <1>1, <1>2, TopStop
  <1>5. Lowered = top
    <2>1. Planned
      BY <1>2 DEF Planned
    <2> QED BY <1>0, <1>4, <2>1 DEF MapInv, StopsClimb, Lowered
  <1>6. /\ item \in Pair /\ item[1] \notin DOMAIN content
        /\ IsFiniteSet(DOMAIN content) /\ length = Cardinality(DOMAIN content)
        /\ Holds(node, T) \union {kv} = Graph(content) \union {item}
        /\ Landed \in T /\ Len(node[Landed].edges) = 0 /\ EntryAt(node, Landed, plan.idx, item)
    BY <1>0, <1>2, CarryingIs
  <1>7. PICK place, own : PartedAt(place, own) /\ Spanned(node, T, place, own) /\ place[top] = Nat
    BY <1>0, <1>2, <1>3, CarryingIs
  <1>8. BothSides(place, own, T, top, c, kv)
    BY <1>0, <1>5, <1>7 DEF PartedAt, BothSides
  <1>9. PICK n, p : n = [node EXCEPT ![b] = RootRecord(kv, top, c)] /\ p = Relinked(n, b, 0, 1)
    OBVIOUS
  <1>10. RootedAs(node, n, p, b, kv, top, c) /\ node' = p
    <2>1. RootOver(node, n, b, kv, top, c) /\ RelinkOf(n, p, b, 0, 1)
      BY <1>3, <1>4, <1>9, RootPut
    <2> QED BY <1>2, <1>9, <2>1 DEF RootedAs
  <1>11. PICK S : S = Crowned(own, T, b)
    OBVIOUS
  <1>12. /\ Spanned(p, T \union {b}, S, S) /\ Holds(p, T \union {b}) = Holds(node, T) \union {kv}
         /\ \A x \in T : p[x].kvs = node[x].kvs
    <2>1. Shaped(node, T, {top, c}, rank)
      BY <1>3 DEF Grown
    <2>2. PICK tops : tops = {top, c}
      OBVIOUS
    <2>3. Table(node) /\ Shaped(node, T, tops, rank) /\ OverBoth(node, T, tops, b, top, c) /\ kv \in Pair
          /\ RootedAs(node, n, p, b, kv, top, c) /\ Spanned(node, T, place, own) /\ BothSides(place, own, T, top, c, kv)
      BY <1>3, <1>4, <1>7, <1>8, <1>10, <2>1, <2>2 DEF OverBoth
    <2>4. CrownedOver(node, p, T, own, b, kv)
      BY <2>3, RootSpans
    <2> QED BY <1>11, <2>4 DEF CrownedOver
  <1>13. S[b] = Nat
    BY <1>11 DEF Crowned
  <1>14. InTree' = T \union {b}
    <2>1. reserve'.nodes = <<>> /\ leaf_right' = Null
      BY <1>2 DEF Finished, NoReserve
    <2>2. Spare' = {}
      BY <2>1 DEF Spare, ToSet
    <2>3. DOMAIN p = DOMAIN node
      BY <1>10 DEF RootedAs, RootOver, RelinkOf
    <2> QED BY <1>4, <1>10, <2>2, <2>3 DEF InTree
  <1>15. /\ Graph(content') = Graph(content) \union {item}
         /\ IsFiniteSet(DOMAIN content') /\ length' = Cardinality(DOMAIN content')
         /\ handle' = [node |-> Landed, idx |-> plan.idx, kv |-> item] /\ <<item[1], content'[item[1]]>> = item
         /\ item[1] \in DOMAIN content' /\ Resting' /\ ~Committing' /\ ~Placing' /\ ~Planned'
    <2>1. Inserted(Landed, plan.idx)
      BY <1>2 DEF Finished, Landed
    <2> QED BY <1>6, <2>1, InsertedIs
  <1>16. EntryReturned'
    <2>1. EntryAt(p, Landed, plan.idx, item)
      BY <1>6, <1>12 DEF EntryAt
    <2> QED BY <1>6, <1>10, <1>14, <1>15, <2>1 DEF EntryReturned
  <1>17. Holds(node', InTree') = Graph(content')
    BY <1>6, <1>10, <1>12, <1>14, <1>15
  <1> QED BY <1>2, <1>10, <1>12, <1>13, <1>14, <1>15, <1>16, <1>17, MapSettles

LEMMA TailIs ==
  ASSUME NEW S, NEW R \in Seq(S), Len(R) \in Nat \ {0}, NEW b, b = R[1],
         \A i, j \in 1 .. Len(R) : R[i] = R[j] => i = j
  PROVE  ToSet(Tail(R)) = ToSet(R) \ {b}
  <1>1. Tail(R) \in Seq(S) /\ Len(Tail(R)) = Len(R) - 1 /\ \A i \in 1 .. Len(Tail(R)) : Tail(R)[i] = R[i + 1]
    OBVIOUS
  <1>2. ToSet(R) = {R[i] : i \in 1 .. Len(R)} /\ ToSet(Tail(R)) = {Tail(R)[i] : i \in 1 .. Len(Tail(R))}
    <2>1. DOMAIN R = 1 .. Len(R) /\ DOMAIN Tail(R) = 1 .. Len(Tail(R))
      BY <1>1
    <2> QED BY <2>1 DEF ToSet
  <1>3. ASSUME NEW x \in ToSet(Tail(R)) PROVE x \in ToSet(R) /\ x # b
    <2>1. PICK i \in 1 .. Len(Tail(R)) : x = Tail(R)[i]
      BY <1>2
    <2>2. i + 1 \in 1 .. Len(R) /\ x = R[i + 1] /\ i + 1 # 1 /\ 1 \in 1 .. Len(R)
      BY <1>1, <2>1
    <2> QED BY <1>2, <2>2
  <1>4. ASSUME NEW x \in ToSet(R), x # b PROVE x \in ToSet(Tail(R))
    <2>1. PICK i \in 1 .. Len(R) : x = R[i]
      BY <1>2
    <2>2. i # 1 /\ i - 1 \in 1 .. Len(Tail(R)) /\ (i - 1) + 1 = i
      BY <1>1, <1>4, <2>1
    <2>3. Tail(R)[i - 1] = x
      BY <1>1, <2>1, <2>2
    <2> QED BY <1>2, <2>2, <2>3
  <1> QED BY <1>3, <1>4

LEMMA SplitInternalMap == ASSUME TreeInv, ReserveInv, MapInv, SplitInternal PROVE MapInv'
  <1>1. PICK rank : Standing(rank)
    BY DEF TreeInv
  <1>0. PICK a, b, e, c, kv, T : /\ a = Promotion.ptr /\ b = ReservedNode /\ e = Promotion.child_idx
                                 /\ c = current_right /\ kv = current_kv /\ T = InTree
    OBVIOUS
  <1>w. PICK half, m, mid : /\ half = (IF SplitPoint(e).right THEN b ELSE a)
                            /\ m = MoveRightHalf(node, a, b, SplitPoint(e).sp)
                            /\ mid = node[a].kvs[SplitPoint(e).sp + 1]
    OBVIOUS
  <1>l. PICK l : l = Relinked(m, b, 0, Len(m[b].kvs))
    OBVIOUS
  <1>f. PICK f : f = InternalInsert(l, half, SplitPoint(e).idx, kv, c)
    OBVIOUS
  <1>p. PICK p : p = Relinked(f, half, SplitPoint(e).idx + 1, Len(f[half].kvs))
    BY Zenon
  <1>2. /\ phase = "promote" /\ level <= Len(plan.internals) /\ plan.internals[level].will_split
        /\ node' = p /\ current_kv' = mid
        /\ current_right' = b /\ level' = level + 1 /\ reserve' = [reserve EXCEPT !.nodes = Tail(@)]
        /\ UNCHANGED <<root, height, length, phase, item, leaf, plan, leaf_right, content>>
    BY <1>0, <1>w, <1>l, <1>f, <1>p DEF SplitInternal, Promotion, arg, history
  <1>3. /\ root # Null /\ c # root /\ Table(node) /\ height \in Nat
        /\ Grown(node, T, {root, c}, root, height, rank)
        /\ kv \in Pair /\ rank[c] = level - 1
        /\ Len(plan.internals) \in Nat /\ level \in 1 .. Len(plan.internals) + 1
        /\ Spare = ToSet(reserve.nodes) /\ T = DOMAIN node \ ToSet(reserve.nodes)
        /\ reserve.nodes \in Seq(DOMAIN node) /\ Len(reserve.nodes) = Needed(level)
        /\ ~Resting /\ Planned /\ Committing /\ ~Placing
    BY <1>0, <1>1, <1>2, PromotingIs DEF TreeInv
  <1>4. level \in 1 .. Len(plan.internals) /\ level \in Nat \ {0}
    BY <1>2, <1>3
  <1>5. /\ a \in T /\ rank[a] = level /\ e \in Nat /\ e <= Len(node[a].kvs) /\ node[a].edges[e + 1] = Lowered
        /\ ~(Len(node[a].kvs) < CAPACITY)
    BY <1>0, <1>1, <1>2, <1>4, NextStop DEF Promotion
  <1>6. T \subseteq DOMAIN node /\ Shaped(node, T, {root, c}, rank) /\ c \in T /\ root \in T
        /\ rank \in [T -> 0 .. height] /\ rank[root] = height /\ Sized(node, T, root)
    BY <1>3 DEF Grown, Shaped
  <1>7. e \in 0 .. CAPACITY /\ Len(node[a].kvs) = CAPACITY
    <2>1. CAPACITY \in Nat /\ Len(node[a].kvs) \in Nat /\ Len(node[a].kvs) <= CAPACITY
      BY <1>3, <1>5, <1>6, RecordIs, BAssumption DEF CAPACITY, Sized
    <2> QED BY <1>5, <2>1
  <1>8. PICK R : R = reserve.nodes
    OBVIOUS
  <1>9. /\ R \in Seq(DOMAIN node) /\ Len(R) \in Nat \ {0} /\ b = R[1] /\ b \in ToSet(R)
        /\ \A i, j \in 1 .. Len(R) : R[i] = R[j] => i = j
    <2>1. Len(R) \in Nat \ {0}
      BY <1>2, <1>3, <1>4, <1>8, SplitsCounted
    <2>2. b = R[1] /\ 1 \in 1 .. Len(R)
      BY <1>0, <1>3, <1>8, <2>1 DEF ReservedNode
    <2>3. \A i, j \in 1 .. Len(R) : R[i] = R[j] => i = j
      BY <1>8 DEF TreeInv, SpareOK
    <2>4. R \in Seq(DOMAIN node)
      BY <1>3, <1>8
    <2>5. ToSet(R) = {R[x] : x \in 1 .. Len(R)}
      <3>1. DOMAIN R = 1 .. Len(R)
        BY <2>4
      <3> QED BY <3>1 DEF ToSet
    <2>6. b \in ToSet(R)
      BY <2>2, <2>5
    <2> QED BY <2>1, <2>2, <2>3, <2>4, <2>6
  <1>10. Detached(node, T, b)
    <2>1. b \in DOMAIN node /\ b \in Spare
      BY <1>3, <1>8, <1>9
    <2>2. node[b] = FreshNode
      BY <2>1 DEF TreeInv, SpareOK
    <2> QED BY <1>3, <2>1, <2>2 DEF FreshNode, Detached
  <1>11. rank[a] # 0 /\ rank[c] = rank[a] - 1
    BY <1>3, <1>4, <1>5
  <1>12. MovedOver(node, l, a, b, SplitPoint(e).sp) /\ PutIn(l, p, half, SplitPoint(e).idx, kv, c)
    BY <1>w, <1>l, <1>f, <1>p DEF MovedOver, PutIn
  <1>13. InnerSteps(node, l, p, T, {root, c}, rank, a, b, e, kv, c)
    <2>1. PutIn(l, p, IF SplitPoint(e).right THEN b ELSE a, SplitPoint(e).idx, kv, c)
      BY <1>w, <1>12
    <2>2. b \in DOMAIN node /\ b \notin T /\ node[b].parent = Null
      BY <1>10 DEF Detached
    <2>3. PICK tops : tops = {root, c}
      OBVIOUS
    <2>4. InnerSteps(node, l, p, T, tops, rank, a, b, e, kv, c)
      <3>1. Table(node) /\ Shaped(node, T, tops, rank) /\ c \in tops /\ kv \in Pair
        BY <1>3, <1>6, <2>3
      <3> QED BY <1>5, <1>7, <1>11, <1>12, <2>1, <2>2, <3>1, InnerStepsAre
    <2> QED BY <2>3, <2>4
  <1>14. PICK place, own : PartedAt(place, own) /\ Spanned(node, T, place, own) /\ place[root] = Nat
    BY <1>0, <1>2, <1>3, CarryingIs
  <1>15. PICK d : d = Lowered
    OBVIOUS
  <1>16. /\ d \in T /\ d # c /\ kv[1] \in place[d] /\ own[d] = Lower(place[d], kv[1]) /\ own[c] = Upper(place[d], kv[1])
         /\ AlikeBut(place, own, T, {d, c})
    BY <1>0, <1>14, <1>15 DEF PartedAt
  <1>17. PICK place2, own2 : place2 = Parted(place, T \union {b}, d, c, kv[1]) /\ own2 = Divided(own, T, a, b, mid[1])
    OBVIOUS
  <1>18. /\ Spanned(p, T \union {b}, place2, own2)
         /\ mid \in Pair /\ mid[1] \in own[a] /\ HeldOver(node, p, T, b, mid, kv) /\ SameEdges(node, p, T \ {a})
    <2>1. UnderEdge(node, place, a, e, d, kv) /\ FullInner(node, rank, a) /\ GoesUp(node, a, e, mid)
      BY <1>w, <1>3, <1>5, <1>7, <1>11, <1>15, <1>16 DEF UnderEdge, FullInner, GoesUp
    <2>2. PICK tops : tops = {root, c}
      OBVIOUS
    <2>3. /\ Table(node) /\ Shaped(node, T, tops, rank) /\ c \in tops /\ Spanned(node, T, place, own)
          /\ InnerSteps(node, l, p, T, tops, rank, a, b, e, kv, c)
      BY <1>3, <1>6, <1>13, <1>14, <2>2
    <2>4. /\ Spanned(p, T \union {b}, Parted(place, T \union {b}, d, c, kv[1]), Divided(own, T, a, b, mid[1]))
          /\ mid \in Pair /\ mid[1] \in own[a] /\ HeldOver(node, p, T, b, mid, kv) /\ SameEdges(node, p, T \ {a})
      BY <1>5, <1>7, <1>10, <2>1, <2>3, InnerSplitSpans
    <2> QED BY <1>17, <2>4
  \* What hung at its edge hangs there again, the two new halves are to be shared out.
  <1>19. \A y \in T : place2[y] = own[y]
    BY <1>6, <1>16, <1>17 DEF Parted, AlikeBut
  <1>20. place2[root] = Nat
    <2>1. rank[d] = rank[a] - 1
      <3>1. Len(node[a].edges) = Len(node[a].kvs) + 1 /\ Len(node[a].kvs) \in Nat
        BY <1>3, <1>5, <1>6, <1>11, RecordIs DEF Shaped, EdgesOf
      <3>2. e + 1 \in 1 .. Len(node[a].edges)
        BY <1>5, <3>1
      <3>3. ChildOK(node, T, rank, a, e + 1)
        BY <1>5, <1>6, <3>2 DEF Shaped
      <3> QED BY <1>5, <1>15, <3>3 DEF ChildOK
    <2>2. rank[a] \in 0 .. height
      BY <1>5, <1>6
    <2>3. rank[d] # rank[root]
      BY <1>3, <1>6, <2>1, <2>2
    <2>4. root \notin {d, c}
      BY <1>3, <2>3
    <2> QED BY <1>6, <1>14, <1>16, <1>19, <2>4 DEF AlikeBut
  <1>21. Table(p) /\ DOMAIN p = DOMAIN node /\ Split(node, p, T, a, b)
    <2>1. Split(node, p, T, a, b)
      <3>1. b \in DOMAIN node /\ b \notin T /\ node[b].parent = Null
        BY <1>10 DEF Detached
      <3>2. half = IF SplitPoint(e).right THEN b ELSE a
        BY <1>w
      <3> QED BY <1>3, <1>5, <1>7, <1>11, <1>12, <3>1, <3>2, InnerSplit
    <2> QED BY <2>1 DEF Split
  <1>22. InTree' = T \union {b}
    <2>1. reserve'.nodes = Tail(R)
      <3>1. PICK x : reserve = [nodes |-> reserve.nodes, cap |-> x]
        BY DEF ReserveInv
      <3>2. reserve' = [reserve EXCEPT !.nodes = Tail(reserve.nodes)]
        BY <1>2
      <3>3. \A s : [reserve EXCEPT !.nodes = s] = [nodes |-> s, cap |-> x]
        BY <3>1
      <3>4. reserve' = [nodes |-> Tail(reserve.nodes), cap |-> x]
        BY <3>2, <3>3, Zenon
      <3> QED BY <1>8, <3>4
    <2>2. ToSet(Tail(R)) = ToSet(R) \ {b}
      BY <1>9, TailIs
    <2>3. Spare' = ToSet(R) \ {b}
      BY <1>2, <2>1, <2>2 DEF Spare, Committing
    <2>4. b \in DOMAIN node /\ b \notin T
      BY <1>10 DEF Detached
    <2> QED BY <1>2, <1>3, <1>8, <1>9, <1>21, <2>3, <2>4 DEF InTree
  <1>23. Lowered' = a /\ a # b
    <2>1. level' - 1 = level
      BY <1>2, <1>4
    <2> QED BY <1>0, <1>2, <1>4, <1>5, <1>10, <2>1 DEF Lowered, Rung, Promotion, Detached
  <1>24. KeysAt(place2, own2)'
    <2>1. /\ own2[a] = Lower(place2[a], mid[1]) /\ own2[b] = Upper(place2[a], mid[1]) /\ mid[1] \in place2[a]
          /\ \A y \in T \union {b} : y \notin {a, b} => own2[y] = place2[y]
      BY <1>5, <1>17, <1>18, <1>19, <1>23 DEF Divided
    <2>2. PartedAt(place2, own2)'
      BY <1>2, <1>5, <1>22, <1>23, <2>1 DEF PartedAt, AlikeBut
    <2>3. Committing' /\ ~Placing'
      BY <1>2 DEF Committing, Placing
    <2> QED BY <1>2, <1>18, <1>20, <1>22, <2>2, <2>3 DEF KeysAt
  <1>25. /\ item \in Pair /\ item[1] \notin DOMAIN content
         /\ IsFiniteSet(DOMAIN content) /\ length = Cardinality(DOMAIN content)
         /\ Holds(node, T) \union {kv} = Graph(content) \union {item}
         /\ Landed \in T /\ Len(node[Landed].edges) = 0 /\ EntryAt(node, Landed, plan.idx, item)
    BY <1>0, <1>2, CarryingIs
  <1>26. ContentHeld'
    <2>1. Committing' /\ ~Resting'
      BY <1>2 DEF Committing, Resting
    <2>2. Holds(node', InTree') \union {current_kv'} = Graph(content) \union {item}
      BY <1>2, <1>18, <1>22, <1>25 DEF HeldOver
    <2> QED BY <1>2, <1>25, <2>1, <2>2 DEF ContentHeld, Carried, Entering
  <1>27. StopsClimb'
    <2>1. PICK s : s = plan.internals
      OBVIOUS
    <2>2. ClimbOK(node, s, level)
      BY <1>3, <2>1 DEF MapInv, StopsClimb
    <2>3. Len(s) \in Nat /\ \A i \in 1 .. Len(s) : i >= level => StopAt(node, T, rank, s, i)
      BY <1>0, <1>1, <1>3, <2>1 DEF Standing, Planning
    <2>4. Ahead(s, level + 1, T, a)
      <3> SUFFICES ASSUME NEW i \in 1 .. Len(s), i >= level + 1 PROVE s[i].ptr \in T \ {a}
        BY DEF Ahead
      <3>1. i >= level /\ i # level
        BY <1>4
      <3> QED BY <1>5, <2>3, <3>1 DEF StopAt
    <2>5. ClimbOK(node', s, level + 1)
      <3>1. PICK from, from2 : from = level /\ from2 = level + 1
        OBVIOUS
      <3>2. from \in Nat /\ from2 \in Nat /\ from2 >= from
        BY <1>4, <3>1
      <3> QED BY <1>2, <1>18, <2>2, <2>4, <3>1, <3>2, ClimbKept
    <2>6. Committing'
      BY <1>2 DEF Committing
    <2> QED BY <1>2, <1>3, <2>1, <2>5, <2>6, StopsStay DEF MapInv
  <1>28. EntryReturned'
    <2>1. Landed # a
      <3>1. Len(node[a].edges) = Len(node[a].kvs) + 1 /\ Len(node[a].kvs) \in Nat
        BY <1>3, <1>5, <1>6, <1>11, RecordIs DEF Shaped, EdgesOf
      <3> QED BY <1>25, <3>1
    <2>2. EntryAt(p, Landed, plan.idx, item) /\ Len(p[Landed].edges) = 0
      BY <1>18, <1>21, <1>25, <2>1 DEF EntryAt, SameEdges, Split
    <2>3. Committing' /\ Landed' = Landed
      BY <1>2 DEF Committing, Landed
    <2> QED BY <1>2, <1>22, <1>25, <2>2, <2>3 DEF EntryReturned
  <1> QED BY <1>24, <1>26, <1>27, <1>28 DEF MapInv

LEMMA MapStep == TreeInv /\ ReserveInv /\ MapInv /\ [TreeNext]_treeVars => MapInv'
  <1> SUFFICES ASSUME TreeInv, ReserveInv, MapInv, [TreeNext]_treeVars PROVE MapInv'
    OBVIOUS
  <1>1. CASE (\E source \in Sources : Extend(source)) \/ Resume \/ ExtendReturns
    BY <1>1, AskMap
  <1>2. CASE Occupied
    BY <1>2, OccupiedMap
  <1>3. CASE Vacant
    BY <1>3, VacantMap
  <1>4. CASE InsertEmpty
    BY <1>4, InsertEmptyMap
  <1>5. CASE InsertFits
    BY <1>5, InsertFitsMap
  <1>6. CASE Probe
    BY <1>6, ProbeMap
  <1>7. CASE ReserveLeaf
    BY <1>7, ReserveLeafMap
  <1>8. CASE ReserveBuffer
    BY <1>8, ReserveBufferMap
  <1>9. CASE ReserveInternal
    BY <1>9, ReserveInternalMap
  <1>10. CASE Drain
    BY <1>10, DrainMap
  <1>11. CASE CommitLeaf
    BY <1>11, CommitLeafMap
  <1>12. CASE Absorb
    BY <1>12, AbsorbMap
  <1>13. CASE SplitInternal
    BY <1>13, SplitInternalMap
  <1>14. CASE GrowRoot
    BY <1>14, GrowRootMap
  <1>15. CASE UNCHANGED treeVars
    BY <1>15, StutterMap
  <1> QED
    BY <1>1, <1>2, <1>3, <1>4, <1>5, <1>6, <1>7, <1>8, <1>9, <1>10, <1>11, <1>12, <1>13, <1>14, <1>15 DEF TreeNext

(***************************************************************************)
(* The map a client starts with is in order.                                *)
(***************************************************************************)
SpanAt(N, span, d) ==
  [a \in DOMAIN N |->
    IF d = 0 THEN Nat ELSE Slot(N[N[a].parent].kvs, span[d - 1][N[a].parent], N[a].parent_idx + 1)]
Spans(N, h, span) == span = [d \in 0 .. h |-> SpanAt(N, span, d)]

LEMMA SpansExist == ASSUME NEW N PROVE \A h \in Nat : \E span : Spans(N, h, span)
  <1> DEFINE S == {h \in Nat : \E span : Spans(N, h, span)}
             none == [a \in DOMAIN N |-> Nat]
  <1>1. 0 \in S
    <2>1. Spans(N, 0, [i \in 0 .. 0 |-> none])
      BY DEF Spans, SpanAt
    <2> QED BY <2>1
  <1>2. ASSUME NEW h \in Nat, h \in S PROVE h + 1 \in S
    <2>1. PICK span : Spans(N, h, span)
      BY <1>2
    <2> DEFINE next == [i \in 0 .. h + 1 |-> IF i = h + 1 THEN SpanAt(N, span, h + 1) ELSE span[i]]
    <2>2. Spans(N, h + 1, next)
      <3>1. \A i \in 0 .. h : span[i] = SpanAt(N, span, i)
        BY <2>1 DEF Spans
      <3>2. ASSUME NEW i \in 0 .. h + 1 PROVE next[i] = SpanAt(N, next, i)
        <4>1. i # 0 => next[i - 1] = span[i - 1]
          <5>1. i # 0 => i - 1 \in 0 .. h + 1 /\ i - 1 # h + 1
            OBVIOUS
          <5> QED BY <5>1
        <4>2. next[i] = SpanAt(N, span, i)
          BY <3>1
        <4> HIDE DEF next
        <4>3. SpanAt(N, next, i) = SpanAt(N, span, i)
          BY <4>1 DEF SpanAt
        <4> QED BY <4>2, <4>3
      <3>3. next = [i \in 0 .. h + 1 |-> next[i]]
        OBVIOUS
      <3> HIDE DEF next
      <3> QED BY <3>2, <3>3 DEF Spans
    <2> QED BY <2>2
  <1> HIDE DEF S
  <1>3. Nat \subseteq S
    BY <1>1, <1>2, Counting
  <1> QED BY <1>3 DEF S

LEMMA OrderedIs ==
  ASSUME NEW N, NEW top, NEW h \in Nat, IsOrdered(N, top, h)
  PROVE  \E span : /\ \A d \in 0 .. h : span[d] = SpanAt(N, span, d)
                   /\ \A d \in 0 .. h : \A a \in Depth(N, top, h, d) :
                        Increasing(N[a].kvs) /\ \A i \in DOMAIN N[a].kvs : N[a].kvs[i][1] \in span[d][a]
  <1> DEFINE span == CHOOSE span : Spans(N, h, span)
  <1>1. Spans(N, h, span)
    BY SpansExist
  <1>2. \A d \in 0 .. h : \A a \in Depth(N, top, h, d) :
          Increasing(N[a].kvs) /\ \A i \in DOMAIN N[a].kvs : N[a].kvs[i][1] \in span[d][a]
    BY DEF IsOrdered, Spans, SpanAt
  <1> HIDE DEF span
  <1>3. \A d \in 0 .. h : span[d] = SpanAt(N, span, d)
    BY <1>1 DEF Spans
  <1> QED BY <1>2, <1>3

\* A child is one level nearer to the leaves than its parent.
LEMMA LevelBelow ==
  ASSUME NEW h \in Nat, NEW r \in 0 .. h, NEW q \in 0 .. h, q = r - 1
  PROVE  h - r \in 0 .. h /\ h - q \in 0 .. h /\ h - q # 0 /\ (h - q) - 1 = h - r
  OBVIOUS

LEMMA OrderedSpans ==
  ASSUME NEW N, Table(N), NEW top, top # Null, NEW h \in Nat, NEW rank, Grown(N, DOMAIN N, {top}, top, h, rank),
         IsOrdered(N, top, h)
  PROVE  \E own : InOrderTree(N, DOMAIN N, top, h, rank, own)
  <1> DEFINE T == DOMAIN N
  <1>1. /\ rank \in [T -> 0 .. h] /\ rank[top] = h /\ top \in T
        /\ \A x \in T : \A i \in 1 .. Len(N[x].edges) : ChildOK(N, T, rank, x, i)
        /\ \A x \in T : x # top => Hangs(N, T, x)
    BY DEF Grown, Shaped
  <1>2. PICK span :
          /\ \A d \in 0 .. h : span[d] = SpanAt(N, span, d)
          /\ \A d \in 0 .. h : \A a \in Depth(N, top, h, d) :
               Increasing(N[a].kvs) /\ \A i \in DOMAIN N[a].kvs : N[a].kvs[i][1] \in span[d][a]
    BY OrderedIs
  <1>3. \A d \in 0 .. h : Depth(N, top, h, d) = {a \in T : rank[a] = h - d}
    BY DepthRank
  <1> DEFINE own == [a \in T |-> span[h - rank[a]][a]]
  <1>4. ASSUME NEW a \in T PROVE h - rank[a] \in 0 .. h /\ a \in Depth(N, top, h, h - rank[a]) /\ own[a] = span[h - rank[a]][a]
    <2>1. PICK r : r = rank[a]
      OBVIOUS
    <2>2. r \in 0 .. h
      BY <1>1, <2>1
    <2>3. h - r \in 0 .. h /\ r = h - (h - r)
      BY <2>2
    <2>4. a \in Depth(N, top, h, h - r)
      BY <1>3, <2>1, <2>3
    <2> QED BY <2>1, <2>3, <2>4
  <1>5. ASSUME NEW a \in T, NEW i \in 1 .. Len(N[a].edges) PROVE own[N[a].edges[i]] = Slot(N[a].kvs, own[a], i)
    <2>1. PICK c : c = N[a].edges[i]
      OBVIOUS
    <2>2. c \in T /\ rank[c] = rank[a] - 1 /\ N[c].parent = a /\ N[c].parent_idx = i - 1
      BY <1>1, <2>1 DEF ChildOK
    <2>3. PICK d, e : d = h - rank[a] /\ e = h - rank[c]
      OBVIOUS
    <2>4. d \in 0 .. h /\ e \in 0 .. h /\ e # 0 /\ e - 1 = d
      <3>1. PICK ra, rc : ra = rank[a] /\ rc = rank[c]
        OBVIOUS
      <3>2. ra \in 0 .. h /\ rc \in 0 .. h /\ rc = ra - 1
        BY <1>1, <2>2, <3>1
      <3>3. d = h - ra /\ e = h - rc
        BY <2>3, <3>1
      <3> QED BY <3>2, <3>3, LevelBelow
    <2>5. span[e] = SpanAt(N, span, e)
      BY <1>2, <2>4
    <2>6. span[e][c] = Slot(N[a].kvs, span[d][a], (i - 1) + 1)
      BY <2>2, <2>4, <2>5 DEF SpanAt
    <2>7. own[a] = span[d][a] /\ own[c] = span[e][c]
      BY <2>2, <2>3
    <2>8. (i - 1) + 1 = i
      OBVIOUS
    <2> HIDE DEF own
    <2> QED BY <2>1, <2>6, <2>7, <2>8
  <1>6. own[top] = Nat
    <2>1. h - rank[top] = 0 /\ 0 \in 0 .. h
      BY <1>1
    <2>2. own[top] = span[0][top]
      BY <1>1, <2>1
    <2>3. span[0] = SpanAt(N, span, 0)
      BY <1>2
    <2> HIDE DEF own
    <2> QED BY <1>1, <2>2, <2>3 DEF SpanAt
  <1> HIDE DEF own
  <1>7. \A a \in T : own[a] \subseteq Nat
    <2> DEFINE S == {d \in Nat : \A a \in T : h - rank[a] = d => own[a] \subseteq Nat}
    <2>1. 0 \in S
      <3> SUFFICES ASSUME NEW a \in T, h - rank[a] = 0 PROVE own[a] \subseteq Nat
        OBVIOUS
      <3>1. span[0] = SpanAt(N, span, 0) /\ own[a] = span[0][a]
        <4>1. 0 \in 0 .. h
          OBVIOUS
        <4> QED BY <1>2, <1>4, <4>1
      <3> QED BY <3>1 DEF SpanAt
    <2>2. ASSUME NEW d \in Nat, d \in S PROVE d + 1 \in S
      <3> SUFFICES ASSUME NEW c \in T, h - rank[c] = d + 1 PROVE own[c] \subseteq Nat
        OBVIOUS
      <3>1. c # top
        <4>1. h - rank[top] = 0 /\ d + 1 # 0
          BY <1>1
        <4> QED BY <4>1
      <3>2. PICK p, i : p = N[c].parent /\ i = N[c].parent_idx + 1
        OBVIOUS
      <3>3. p \in T /\ i \in 1 .. Len(N[p].edges) /\ N[p].edges[i] = c
        BY <1>1, <3>1, <3>2 DEF Hangs
      <3>4. rank[c] = rank[p] - 1
        BY <1>1, <3>3 DEF ChildOK
      <3>5. h - rank[p] = d
        <4>1. PICK rp, rc : rp = rank[p] /\ rc = rank[c]
          OBVIOUS
        <4>2. rp \in 0 .. h /\ rc \in 0 .. h /\ rc = rp - 1 /\ h - rc = d + 1
          BY <1>1, <3>3, <3>4, <4>1
        <4> QED BY <4>1, <4>2
      <3>6. own[p] \subseteq Nat /\ own[c] = Slot(N[p].kvs, own[p], i)
        BY <1>5, <2>2, <3>3, <3>5
      <3> QED BY <3>6 DEF Slot
    <2> HIDE DEF S
    <2>3. Nat \subseteq S
      BY <2>1, <2>2, Counting
    <2> QED BY <1>4, <2>3 DEF S
  <1>8. ASSUME NEW a \in T PROVE NodeOrdered(N[a].kvs, N[a].edges, own, own[a])
    <2>1. N[a].kvs \in Seq(Pair)
      BY RecordIs
    <2>2. DOMAIN N[a].kvs = 1 .. Len(N[a].kvs) /\ (Increasing(N[a].kvs) <=> InRow(N[a].kvs))
      BY <2>1, PairsAre
    <2>3. Increasing(N[a].kvs) /\ \A i \in DOMAIN N[a].kvs : N[a].kvs[i][1] \in own[a]
      BY <1>2, <1>4
    <2> QED BY <1>5, <1>7, <2>2, <2>3 DEF NodeOrdered
  <1>9. Spanned(N, T, own, own)
    BY <1>8 DEF Spanned
  <1>10. InOrderTree(N, T, top, h, rank, own)
    BY <1>6, <1>9 DEF InOrderTree
  <1> QED BY <1>10

LEMMA MapStarts == TreeInit => MapInv
  <1> SUFFICES ASSUME TreeInit PROVE MapInv
    OBVIOUS
  <1>1. PICK s \in Starts :
          /\ node = s.node /\ root = s.root /\ height = s.height
          /\ length = Cardinality(DOMAIN s.content) /\ content = s.content
          /\ phase = "idle" /\ leaf_right = Null /\ reserve = NoReserve /\ current_right = Null /\ handle = NoHandle
    BY DEF TreeInit
  <1>2. /\ height \in Nat
        /\ IF root = Null THEN DOMAIN node = {} ELSE IsOrdered(node, root, height)
        /\ IsFiniteSet(DOMAIN content) /\ Graph(content) = UNION {ToSet(node[a].kvs) : a \in DOMAIN node}
    BY <1>1, StartsAssumption
  <1>3. TreeInv
    BY TreeStarts
  <1>4. Resting
    BY <1>1 DEF Resting
  <1>5. ~Placing /\ ~Planned /\ ~Committing /\ NothingReserved
    BY <1>4, PhasesApart
  <1>6. PICK rank : Standing(rank)
    BY <1>3 DEF TreeInv
  <1>7. Rested(rank) /\ InTree = DOMAIN node
    BY <1>3, <1>5, <1>6, RestedIs DEF TreeInv
  <1>8. \E own : Spanned(node, InTree, own, own) /\ (root # Null => own[root] = Nat)
    <2>1. CASE root = Null
      <3>1. InTree = {}
        BY <1>2, <1>7, <2>1
      <3>2. Spanned(node, InTree, <<>>, <<>>)
        BY <3>1 DEF Spanned
      <3> QED BY <2>1, <3>2
    <2>2. CASE root # Null
      <3>1. {root} \ {Null} = {root}
        BY <2>2
      <3>2. Table(node) /\ Grown(node, DOMAIN node, {root}, root, height, rank)
        BY <1>7, <3>1 DEF Rested
      <3>3. \E own : InOrderTree(node, DOMAIN node, root, height, rank, own)
        <4>1. IsOrdered(node, root, height)
          BY <1>2, <2>2
        <4> QED BY <1>2, <2>2, <3>2, <4>1, OrderedSpans
      <3> QED BY <1>7, <3>3 DEF InOrderTree
    <2> QED BY <2>1, <2>2
  <1>9. PICK own : Spanned(node, InTree, own, own) /\ (root # Null => own[root] = Nat)
    BY <1>8
  <1>10. KeysAt(own, own)
    BY <1>5, <1>9 DEF KeysAt, AlikeBut
  <1>11. ContentHeld
    BY <1>1, <1>2, <1>4, <1>5, <1>7 DEF ContentHeld, Carried, Entering, Holds
  <1>12. StopsClimb /\ EntryReturned
    BY <1>1, <1>5 DEF StopsClimb, EntryReturned
  <1> QED BY <1>10, <1>11, <1>12 DEF MapInv

(***************************************************************************)
(* Reading the map: a node's entries between what is below its edges.       *)
(***************************************************************************)
JoinAt(kvs, edges, below, join, i) ==
  IF i = 0 THEN below[edges[1]] ELSE Append(join[i - 1], kvs[i]) \o below[edges[i + 1]]
Joins(kvs, edges, below, n, join) == join = [i \in 0 .. n |-> JoinAt(kvs, edges, below, join, i)]

LEMMA JoinsExist == ASSUME NEW kvs, NEW edges, NEW below PROVE \A n \in Nat : \E join : Joins(kvs, edges, below, n, join)
  <1> DEFINE S == {n \in Nat : \E join : Joins(kvs, edges, below, n, join)}
  <1>1. 0 \in S
    <2>1. Joins(kvs, edges, below, 0, [i \in 0 .. 0 |-> below[edges[1]]])
      BY DEF Joins, JoinAt
    <2> QED BY <2>1
  <1>2. ASSUME NEW n \in Nat, n \in S PROVE n + 1 \in S
    <2>1. PICK join : Joins(kvs, edges, below, n, join)
      BY <1>2
    <2> DEFINE next == [i \in 0 .. n + 1 |-> IF i = n + 1 THEN JoinAt(kvs, edges, below, join, n + 1) ELSE join[i]]
    <2>2. Joins(kvs, edges, below, n + 1, next)
      <3>1. \A i \in 0 .. n : join[i] = JoinAt(kvs, edges, below, join, i)
        BY <2>1 DEF Joins
      <3>2. ASSUME NEW i \in 0 .. n + 1 PROVE next[i] = JoinAt(kvs, edges, below, next, i)
        <4>1. i # 0 => next[i - 1] = join[i - 1]
          <5>1. i # 0 => i - 1 \in 0 .. n + 1 /\ i - 1 # n + 1
            OBVIOUS
          <5> QED BY <5>1
        <4>2. next[i] = JoinAt(kvs, edges, below, join, i)
          BY <3>1
        <4> HIDE DEF next
        <4>3. JoinAt(kvs, edges, below, next, i) = JoinAt(kvs, edges, below, join, i)
          BY <4>1 DEF JoinAt
        <4> QED BY <4>2, <4>3
      <3>3. next = [i \in 0 .. n + 1 |-> next[i]]
        OBVIOUS
      <3> HIDE DEF next
      <3> QED BY <3>2, <3>3 DEF Joins
    <2> QED BY <2>2
  <1> HIDE DEF S
  <1>3. Nat \subseteq S
    BY <1>1, <1>2, Counting
  <1> QED BY <1>3 DEF S

\* s lists entries in key order, with keys among these.
Reads(s, keys) == s \in Seq(Pair) /\ InRow(s) /\ \A e \in ToSet(s) : e[1] \in keys
Between(s, kv, t) == kv \in Pair /\ (\A e \in ToSet(s) : e[1] < kv[1]) /\ \A e \in ToSet(t) : kv[1] < e[1]

LEMMA WovenIs ==
  ASSUME NEW s \in Seq(Pair), InRow(s), NEW t \in Seq(Pair), InRow(t), NEW kv, Between(s, kv, t)
  PROVE  /\ Append(s, kv) \o t \in Seq(Pair) /\ InRow(Append(s, kv) \o t)
         /\ \A e : e \in ToSet(Append(s, kv) \o t) <=> e \in ToSet(s) \/ e = kv \/ e \in ToSet(t)
  <1> DEFINE w == Append(s, kv) \o t
             n == Len(s)
  <1>1. kv \in Pair /\ n \in Nat /\ Len(t) \in Nat
    BY DEF Between
  <1>2. /\ w \in Seq(Pair) /\ Len(w) = n + 1 + Len(t)
        /\ \A i \in 1 .. n : w[i] = s[i]
        /\ w[n + 1] = kv
        /\ \A i \in 1 .. Len(t) : w[n + 1 + i] = t[i]
    <2>1. PICK u : u = Append(s, kv)
      OBVIOUS
    <2>2. u \in Seq(Pair) /\ Len(u) = n + 1 /\ (\A i \in 1 .. n : u[i] = s[i]) /\ u[n + 1] = kv
      BY <1>1, <2>1
    <2>3. /\ u \o t \in Seq(Pair) /\ Len(u \o t) = Len(u) + Len(t)
          /\ \A i \in 1 .. Len(u) + Len(t) : (u \o t)[i] = IF i <= Len(u) THEN u[i] ELSE t[i - Len(u)]
      BY <2>2
    <2>4. \A i \in 1 .. n + 1 : (u \o t)[i] = u[i]
      BY <1>1, <2>2, <2>3
    <2>5. ASSUME NEW i \in 1 .. Len(t) PROVE (u \o t)[n + 1 + i] = t[i]
      <3>1. n + 1 + i \in 1 .. Len(u) + Len(t) /\ ~(n + 1 + i <= Len(u)) /\ (n + 1 + i) - Len(u) = i
        BY <1>1, <2>2
      <3> QED BY <2>3, <3>1
    <2>6. (\A i \in 1 .. n : (u \o t)[i] = s[i]) /\ (u \o t)[n + 1] = kv
      BY <1>1, <2>2, <2>4
    <2> QED BY <2>1, <2>2, <2>3, <2>5, <2>6
  <1> HIDE DEF w
  <1>3. /\ ToSet(s) = {s[i] : i \in 1 .. n} /\ ToSet(t) = {t[i] : i \in 1 .. Len(t)} /\ ToSet(w) = {w[i] : i \in 1 .. Len(w)}
        /\ (\A i \in 1 .. n : s[i][1] \in Nat) /\ (\A i \in 1 .. Len(t) : t[i][1] \in Nat)
    BY <1>2, PairsAre
  <1>4. ASSUME NEW i \in 1 .. Len(w)
        PROVE  \/ i \in 1 .. n /\ w[i] = s[i]
               \/ i = n + 1 /\ w[i] = kv
               \/ i - (n + 1) \in 1 .. Len(t) /\ w[i] = t[i - (n + 1)]
    <2>1. CASE i <= n
      BY <1>2, <2>1
    <2>2. CASE i = n + 1
      BY <1>2, <2>2
    <2>3. CASE i > n + 1
      <3>1. i - (n + 1) \in 1 .. Len(t) /\ n + 1 + (i - (n + 1)) = i
        BY <1>1, <1>2, <2>3
      <3> QED BY <1>2, <3>1
    <2> QED BY <1>1, <2>1, <2>2, <2>3
  <1>5. ASSUME NEW e PROVE e \in ToSet(w) <=> e \in ToSet(s) \/ e = kv \/ e \in ToSet(t)
    <2>1. ASSUME e \in ToSet(w) PROVE e \in ToSet(s) \/ e = kv \/ e \in ToSet(t)
      <3>1. PICK i \in 1 .. Len(w) : e = w[i]
        BY <1>3, <2>1
      <3> QED BY <1>3, <1>4, <3>1
    <2>2. ASSUME e \in ToSet(s) PROVE e \in ToSet(w)
      <3>1. PICK i \in 1 .. n : e = s[i]
        BY <1>3, <2>2
      <3>2. i \in 1 .. Len(w) /\ w[i] = e
        BY <1>1, <1>2, <3>1
      <3> QED BY <1>3, <3>2
    <2>3. kv \in ToSet(w)
      <3>1. n + 1 \in 1 .. Len(w) /\ w[n + 1] = kv
        BY <1>1, <1>2
      <3> QED BY <1>3, <3>1
    <2>4. ASSUME e \in ToSet(t) PROVE e \in ToSet(w)
      <3>1. PICK i \in 1 .. Len(t) : e = t[i]
        BY <1>3, <2>4
      <3>2. n + 1 + i \in 1 .. Len(w) /\ w[n + 1 + i] = e
        BY <1>1, <1>2, <3>1
      <3> QED BY <1>3, <3>2
    <2> QED BY <2>1, <2>2, <2>3, <2>4
  <1>6. InRow(w)
    <2> SUFFICES ASSUME NEW i \in 1 .. Len(w), NEW j \in 1 .. Len(w), i < j PROVE w[i][1] < w[j][1]
      BY DEF InRow
    <2>1. kv[1] \in Nat
      BY <1>1 DEF Pair
    <2>2. /\ \A m \in 1 .. n : s[m][1] < kv[1]
          /\ \A m \in 1 .. Len(t) : kv[1] < t[m][1]
      BY <1>3 DEF Between
    <2>3. CASE i <= n /\ j <= n
      <3>1. i \in 1 .. n /\ j \in 1 .. n
        BY <1>1, <2>3
      <3> QED BY <1>2, <3>1 DEF InRow
    <2>4. CASE i <= n /\ j = n + 1
      <3>1. i \in 1 .. n
        BY <1>1, <2>4
      <3> QED BY <1>2, <2>2, <2>4, <3>1
    <2>5. CASE i <= n /\ j > n + 1
      <3>1. i \in 1 .. n /\ j \notin 1 .. n /\ j # n + 1
        BY <1>1, <2>5
      <3>2. j - (n + 1) \in 1 .. Len(t) /\ w[j] = t[j - (n + 1)]
        BY <1>4, <3>1
      <3>3. w[i][1] < kv[1] /\ kv[1] < w[j][1] /\ w[i][1] \in Nat /\ w[j][1] \in Nat
        BY <1>2, <1>3, <2>2, <3>1, <3>2
      <3> QED BY <2>1, <3>3
    <2>6. CASE i = n + 1
      <3>1. j \notin 1 .. n /\ j # n + 1
        BY <1>1, <2>6
      <3>2. j - (n + 1) \in 1 .. Len(t) /\ w[j] = t[j - (n + 1)]
        BY <1>4, <3>1
      <3> QED BY <1>2, <2>2, <2>6, <3>2
    <2>7. CASE i > n + 1
      <3>1. i \notin 1 .. n /\ i # n + 1 /\ j \notin 1 .. n /\ j # n + 1 /\ i - (n + 1) < j - (n + 1)
        BY <1>1, <2>7
      <3>2. j - (n + 1) \in 1 .. Len(t) /\ w[j] = t[j - (n + 1)] /\ i - (n + 1) \in 1 .. Len(t) /\ w[i] = t[i - (n + 1)]
        BY <1>4, <3>1
      <3> QED BY <3>1, <3>2 DEF InRow
    <2> QED BY <1>1, <2>3, <2>4, <2>5, <2>6, <2>7
  <1> QED BY <1>2, <1>5, <1>6 DEF w

Parts(kvs, edges, below, keys) ==
  /\ kvs \in Seq(Pair) /\ keys \subseteq Nat /\ InRow(kvs) /\ \A i \in 1 .. Len(kvs) : kvs[i][1] \in keys
  /\ \A i \in 1 .. Len(kvs) + 1 : Reads(below[edges[i]], Slot(kvs, keys, i))
ReadTo(kvs, keys, i) == IF i < Len(kvs) THEN Lower(keys, kvs[i + 1][1]) ELSE keys
JoinOK(kvs, edges, below, keys, s, i) ==
  /\ Reads(s, ReadTo(kvs, keys, i))
  /\ \A j \in 1 .. i : kvs[j] \in ToSet(s)
  /\ \A j \in 1 .. i + 1 : ToSet(below[edges[j]]) \subseteq ToSet(s)
  /\ \A e \in ToSet(s) : e \in ToSet(kvs) \/ \E j \in 1 .. Len(kvs) + 1 : e \in ToSet(below[edges[j]])

\* What is read up to entry i is in order and comes from left of it.
LEMMA JoinIs ==
  ASSUME NEW kvs, NEW edges, NEW below, NEW keys, Parts(kvs, edges, below, keys),
         NEW join, Joins(kvs, edges, below, Len(kvs), join)
  PROVE  JoinOK(kvs, edges, below, keys, join[Len(kvs)], Len(kvs))
  <1> DEFINE n == Len(kvs)
  <1>1. /\ kvs \in Seq(Pair) /\ keys \subseteq Nat /\ InRow(kvs) /\ n \in Nat
        /\ \A i \in 1 .. n : kvs[i] \in Pair /\ kvs[i][1] \in keys /\ kvs[i][1] \in Nat /\ kvs[i] \in ToSet(kvs)
        /\ \A i \in 1 .. n + 1 : Reads(below[edges[i]], Slot(kvs, keys, i))
    BY PairsAre DEF Parts
  <1>2. \A i \in 0 .. n : join[i] = JoinAt(kvs, edges, below, join, i)
    BY DEF Joins
  <1> HIDE DEF n
  <1> DEFINE S == {i \in Nat : i <= n => JoinOK(kvs, edges, below, keys, join[i], i)}
  <1>3. 0 \in S
    <2>1. join[0] = below[edges[1]]
      <3>1. 0 \in 0 .. n
        BY <1>1
      <3> QED BY <1>2, <3>1 DEF JoinAt
    <2>2. 1 \in 1 .. n + 1 /\ Reads(below[edges[1]], Slot(kvs, keys, 1))
      BY <1>1
    <2>3. Slot(kvs, keys, 1) \subseteq ReadTo(kvs, keys, 0)
      <3>1. n > 0 => 1 <= n
        BY <1>1
      <3> QED BY <3>1 DEF Slot, ReadTo, Lower, n
    <2>4. Reads(join[0], ReadTo(kvs, keys, 0))
      BY <2>1, <2>2, <2>3 DEF Reads
    <2>5. \A j \in 1 .. 0 + 1 : j = 1
      OBVIOUS
    <2>6. 1 \in 1 .. Len(kvs) + 1
      BY <2>2 DEF n
    <2>7. JoinOK(kvs, edges, below, keys, join[0], 0)
      BY <2>1, <2>4, <2>5, <2>6 DEF JoinOK
    <2> QED BY <2>7
  <1>4. ASSUME NEW i \in Nat, i \in S PROVE i + 1 \in S
    <2> SUFFICES ASSUME i + 1 <= n PROVE JoinOK(kvs, edges, below, keys, join[i + 1], i + 1)
      OBVIOUS
    <2>1. PICK s, kv, t : s = join[i] /\ kv = kvs[i + 1] /\ t = below[edges[i + 2]]
      OBVIOUS
    <2>2. i + 1 \in 0 .. n /\ i + 1 \in 1 .. n /\ i + 2 \in 1 .. n + 1 /\ i < n /\ i + 1 # 0 /\ (i + 1) - 1 = i /\ (i + 1) + 1 = i + 2
      BY <1>1
    <2>3. join[i + 1] = Append(s, kv) \o t
      BY <1>2, <2>1, <2>2 DEF JoinAt
    <2>4. JoinOK(kvs, edges, below, keys, s, i)
      <3>1. i <= n
        BY <1>1, <2>2
      <3> QED BY <1>4, <2>1, <3>1
    <2>5. Reads(s, Lower(keys, kv[1])) /\ Reads(t, Slot(kvs, keys, i + 2))
      BY <1>1, <2>1, <2>2, <2>4 DEF JoinOK, ReadTo, n
    <2>6. kv \in Pair /\ kv[1] \in keys /\ kv[1] \in Nat
      BY <1>1, <2>1, <2>2
    <2>7. \A e \in ToSet(s) : e[1] \in keys /\ e[1] < kv[1]
      BY <2>5 DEF Reads, Lower
    <2>8. \A e \in ToSet(t) : e[1] \in keys /\ kv[1] < e[1] /\ (i + 2 <= n => e[1] < kvs[i + 2][1])
      <3>1. i + 2 > 1 /\ (i + 2) - 1 = i + 1
        BY <2>2
      <3> QED BY <2>1, <2>5, <3>1 DEF Reads, Slot, n
    <2>9. /\ s \in Seq(Pair) /\ InRow(s) /\ t \in Seq(Pair) /\ InRow(t) /\ Between(s, kv, t)
      BY <2>5, <2>6, <2>7, <2>8 DEF Reads, Between
    <2>10. PICK w : w = Append(s, kv) \o t
      OBVIOUS
    <2>11. /\ w \in Seq(Pair) /\ InRow(w)
           /\ \A e : e \in ToSet(w) <=> e \in ToSet(s) \/ e = kv \/ e \in ToSet(t)
      BY <2>9, <2>10, WovenIs
    <2>12. \A e \in ToSet(w) : e[1] \in ReadTo(kvs, keys, i + 1)
      <3>1. CASE i + 1 < n
        <4>1. i + 2 <= n /\ i + 2 \in 1 .. n /\ kv[1] < kvs[i + 2][1] /\ kvs[i + 2][1] \in Nat
          <5>1. i + 2 <= n /\ i + 2 \in 1 .. n /\ i + 1 < i + 2
            BY <1>1, <2>2, <3>1
          <5> QED BY <1>1, <2>1, <2>2, <5>1 DEF InRow, n
        <4>2. ASSUME NEW e \in ToSet(w) PROVE e[1] \in keys /\ e[1] < kvs[i + 2][1]
          <5>1. CASE e \in ToSet(s)
            <6>1. e[1] \in Nat /\ e[1] < kv[1]
              BY <1>1, <2>7, <5>1
            <6> QED BY <2>6, <2>7, <4>1, <5>1, <6>1
          <5>2. CASE e = kv
            BY <2>6, <4>1, <5>2
          <5>3. CASE e \in ToSet(t)
            BY <2>8, <4>1, <5>3
          <5> QED BY <2>11, <5>1, <5>2, <5>3
        <4>3. ReadTo(kvs, keys, i + 1) = Lower(keys, kvs[i + 2][1])
          BY <2>2, <3>1 DEF ReadTo, n
        <4> QED BY <4>2, <4>3 DEF Lower
      <3>2. CASE ~(i + 1 < n)
        <4>1. ReadTo(kvs, keys, i + 1) = keys
          BY <3>2 DEF ReadTo, n
        <4> QED BY <2>6, <2>7, <2>8, <2>11, <4>1
      <3> QED BY <3>1, <3>2
    <2>13. \A j \in 1 .. i + 1 : kvs[j] \in ToSet(w)
      <3>1. \A j \in 1 .. i + 1 : j \in 1 .. i \/ j = i + 1
        OBVIOUS
      <3> QED BY <2>1, <2>4, <2>11, <3>1 DEF JoinOK
    <2>14. \A j \in 1 .. (i + 1) + 1 : ToSet(below[edges[j]]) \subseteq ToSet(w)
      <3>1. \A j \in 1 .. (i + 1) + 1 : j \in 1 .. i + 1 \/ j = i + 2
        OBVIOUS
      <3> QED BY <2>1, <2>4, <2>11, <3>1 DEF JoinOK
    <2>15. \A e \in ToSet(w) : e \in ToSet(kvs) \/ \E j \in 1 .. Len(kvs) + 1 : e \in ToSet(below[edges[j]])
      <3>1. i + 2 \in 1 .. Len(kvs) + 1 /\ kv \in ToSet(kvs)
        BY <1>1, <2>1, <2>2 DEF n
      <3> QED BY <2>1, <2>4, <2>11, <3>1 DEF JoinOK
    <2>16. Reads(w, ReadTo(kvs, keys, i + 1))
      BY <2>11, <2>12 DEF Reads
    <2>17. JoinOK(kvs, edges, below, keys, w, i + 1)
      BY <2>13, <2>14, <2>15, <2>16 DEF JoinOK
    <2> QED BY <2>3, <2>10, <2>17
  <1> HIDE DEF S
  <1>5. Nat \subseteq S
    BY <1>3, <1>4, Counting
  <1>6. n \in S
    BY <1>1, <1>5
  <1> QED BY <1>1, <1>6 DEF S, n

\* All that is below a node is read, one height after another.
Joined(a, below) ==
  (CHOOSE join : Joins(node[a].kvs, node[a].edges, below, Len(node[a].kvs), join))[Len(node[a].kvs)]
ReadAt(flat, h) == [a \in DOMAIN node |-> IF h = 0 THEN node[a].kvs ELSE Joined(a, flat[h - 1])]
Flats(n, flat) == flat = [h \in 0 .. n |-> ReadAt(flat, h)]

LEMMA FlatsExist == \A n \in Nat : \E flat : Flats(n, flat)
  <1> DEFINE S == {n \in Nat : \E flat : Flats(n, flat)}
             kvsOf == [a \in DOMAIN node |-> node[a].kvs]
  <1>1. 0 \in S
    <2>1. Flats(0, [i \in 0 .. 0 |-> kvsOf])
      BY DEF Flats, ReadAt
    <2> QED BY <2>1
  <1>2. ASSUME NEW n \in Nat, n \in S PROVE n + 1 \in S
    <2>1. PICK flat : Flats(n, flat)
      BY <1>2
    <2> DEFINE next == [i \in 0 .. n + 1 |-> IF i = n + 1 THEN ReadAt(flat, n + 1) ELSE flat[i]]
    <2>2. Flats(n + 1, next)
      <3>1. \A i \in 0 .. n : flat[i] = ReadAt(flat, i)
        BY <2>1 DEF Flats
      <3>2. ASSUME NEW i \in 0 .. n + 1 PROVE next[i] = ReadAt(next, i)
        <4>1. i # 0 => next[i - 1] = flat[i - 1]
          <5>1. i # 0 => i - 1 \in 0 .. n + 1 /\ i - 1 # n + 1
            OBVIOUS
          <5> QED BY <5>1
        <4>2. next[i] = ReadAt(flat, i)
          BY <3>1
        <4> HIDE DEF next
        <4>3. ReadAt(next, i) = ReadAt(flat, i)
          BY <4>1 DEF ReadAt
        <4> QED BY <4>2, <4>3
      <3>3. next = [i \in 0 .. n + 1 |-> next[i]]
        OBVIOUS
      <3> HIDE DEF next
      <3> QED BY <3>2, <3>3 DEF Flats
    <2> QED BY <2>2
  <1> HIDE DEF S
  <1>3. Nat \subseteq S
    BY <1>1, <1>2, Counting
  <1> QED BY <1>3 DEF S

LEMMA EntriesAre ==
  ASSUME root # Null, height \in Nat
  PROVE  \E flat : Entries = flat[height][root] /\ \A h \in 0 .. height : flat[h] = ReadAt(flat, h)
  <1> DEFINE flat == CHOOSE flat : Flats(height, flat)
  <1>1. Flats(height, flat)
    BY FlatsExist, SMTT(30)
  <1>2. Entries = flat[height][root]
    BY DEF Entries, Flats, ReadAt, Joined, Joins, JoinAt, LenOf
  <1> HIDE DEF flat
  <1>3. \A h \in 0 .. height : flat[h] = ReadAt(flat, h)
    BY <1>1 DEF Flats
  <1> QED BY <1>2, <1>3

Descended(flat) == \A h \in 0 .. height : flat[h] = ReadAt(flat, h)
ReadOK(flat, rank, own, T, x) ==
  /\ Reads(flat[rank[x]][x], own[x]) /\ ToSet(flat[rank[x]][x]) \subseteq Holds(node, T)
  /\ ToSet(node[x].kvs) \subseteq ToSet(flat[rank[x]][x])
  /\ \A i \in 1 .. Len(node[x].edges) : ToSet(flat[rank[x] - 1][node[x].edges[i]]) \subseteq ToSet(flat[rank[x]][x])

\* What is read below a node is in order, and all of it is held below it.
LEMMA FlatIs ==
  ASSUME Table(node), height \in Nat, NEW T, NEW rank, NEW own, InOrderTree(node, T, root, height, rank, own),
         NEW flat, Descended(flat)
  PROVE  \A x \in T : ReadOK(flat, rank, own, T, x)
  <1>1. /\ T \subseteq DOMAIN node /\ rank \in [T -> 0 .. height]
        /\ \A x \in T : Len(node[x].edges) = EdgesOf(Len(node[x].kvs), rank[x])
        /\ \A x \in T : \A i \in 1 .. Len(node[x].edges) : ChildOK(node, T, rank, x, i)
        /\ \A x \in T : NodeOrdered(node[x].kvs, node[x].edges, own, own[x])
    BY DEF InOrderTree, Grown, Shaped, Spanned
  <1>2. ASSUME NEW x \in T
        PROVE  /\ node[x].kvs \in Seq(Pair) /\ Len(node[x].kvs) \in Nat
               /\ ToSet(node[x].kvs) = {node[x].kvs[i] : i \in 1 .. Len(node[x].kvs)}
               /\ ToSet(node[x].kvs) \subseteq Holds(node, T)
    <2>1. node[x].kvs \in Seq(Pair)
      BY <1>1, RecordIs
    <2> QED BY <2>1, PairsAre DEF Holds
  <1> DEFINE S == {r \in Nat : \A x \in T : rank[x] = r => ReadOK(flat, rank, own, T, x)}
  <1>3. 0 \in S
    <2> SUFFICES ASSUME NEW x \in T, rank[x] = 0 PROVE ReadOK(flat, rank, own, T, x)
      OBVIOUS
    <2>1. flat[0][x] = node[x].kvs
      <3>1. 0 \in 0 .. height
        OBVIOUS
      <3>2. flat[0] = ReadAt(flat, 0)
        BY <3>1 DEF Descended
      <3>3. x \in DOMAIN node
        BY <1>1
      <3> QED BY <3>2, <3>3 DEF ReadAt
    <2>2. Len(node[x].edges) = 0
      BY <1>1 DEF EdgesOf
    <2>3. Reads(node[x].kvs, own[x])
      <3>1. InRow(node[x].kvs) /\ \A i \in 1 .. Len(node[x].kvs) : node[x].kvs[i][1] \in own[x]
        BY <1>1 DEF NodeOrdered
      <3>2. \A e \in ToSet(node[x].kvs) : \E i \in 1 .. Len(node[x].kvs) : e = node[x].kvs[i]
        BY <1>2
      <3>3. \A e \in ToSet(node[x].kvs) : e[1] \in own[x]
        BY <3>1, <3>2
      <3> QED BY <1>2, <3>1, <3>3 DEF Reads
    <2>4. \A i \in 1 .. Len(node[x].edges) : FALSE
      BY <2>2
    <2> QED BY <1>2, <2>1, <2>3, <2>4 DEF ReadOK
  <1>4. ASSUME NEW r \in Nat, r \in S PROVE r + 1 \in S
    <2> SUFFICES ASSUME NEW x \in T, rank[x] = r + 1 PROVE ReadOK(flat, rank, own, T, x)
      OBVIOUS
    <2>1. PICK kvs, edges, below, keys, s :
            kvs = node[x].kvs /\ edges = node[x].edges /\ below = flat[r] /\ keys = own[x] /\ s = flat[r + 1][x]
      OBVIOUS
    <2>2. r + 1 \in 0 .. height /\ r + 1 # 0 /\ (r + 1) - 1 = r
      <3>1. rank[x] \in 0 .. height
        BY <1>1
      <3> QED BY <3>1
    <2>3. s = Joined(x, below)
      <3>1. flat[r + 1] = ReadAt(flat, r + 1)
        BY <2>2 DEF Descended
      <3>2. x \in DOMAIN node
        BY <1>1
      <3>3. ReadAt(flat, r + 1)[x] = Joined(x, flat[(r + 1) - 1])
        BY <2>2, <3>2 DEF ReadAt
      <3> QED BY <2>1, <2>2, <3>1, <3>3
    <2>4. Len(edges) = Len(kvs) + 1 /\ Len(kvs) \in Nat /\ kvs \in Seq(Pair)
      BY <1>1, <1>2, <2>1, <2>2, SMTT(30) DEF EdgesOf
    <2>5. ASSUME NEW i \in 1 .. Len(kvs) + 1
          PROVE  /\ Reads(below[edges[i]], Slot(kvs, keys, i))
                 /\ ToSet(below[edges[i]]) \subseteq Holds(node, T)
      <3>1. i \in 1 .. Len(node[x].edges)
        BY <2>1, <2>4
      <3>2. PICK c : c = edges[i]
        OBVIOUS
      <3>3. c \in T /\ rank[c] = r
        BY <1>1, <2>1, <2>2, <3>1, <3>2 DEF ChildOK
      <3>4. own[c] = Slot(kvs, keys, i)
        BY <1>1, <2>1, <3>1, <3>2 DEF NodeOrdered
      <3>5. ReadOK(flat, rank, own, T, c)
        BY <1>4, <3>3
      <3> QED BY <2>1, <3>2, <3>3, <3>4, <3>5 DEF ReadOK
    <2>6. Parts(kvs, edges, below, keys)
      BY <1>1, <2>1, <2>4, <2>5 DEF Parts, NodeOrdered
    <2>7. JoinOK(kvs, edges, below, keys, s, Len(kvs))
      <3>1. PICK join : join = CHOOSE j : Joins(kvs, edges, below, Len(kvs), j)
        OBVIOUS
      <3>2. Joins(kvs, edges, below, Len(kvs), join)
        <4>1. \E j : Joins(kvs, edges, below, Len(kvs), j)
          BY <2>4, JoinsExist
        <4> QED BY <3>1, <4>1
      <3>3. s = join[Len(kvs)]
        BY <2>1, <2>3, <3>1 DEF Joined
      <3>4. JoinOK(kvs, edges, below, keys, join[Len(kvs)], Len(kvs))
        BY <2>6, <3>2, JoinIs
      <3> QED BY <3>3, <3>4
    <2>8. Reads(s, keys)
      BY <2>4, <2>7 DEF JoinOK, ReadTo
    <2>9. ToSet(s) \subseteq Holds(node, T)
      BY <1>2, <2>1, <2>5, <2>7 DEF JoinOK
    <2>10. ToSet(kvs) \subseteq ToSet(s)
      <3>1. ToSet(kvs) = {kvs[i] : i \in 1 .. Len(kvs)}
        BY <2>4, PairsAre
      <3>2. \A j \in 1 .. Len(kvs) : kvs[j] \in ToSet(s)
        BY <2>7 DEF JoinOK
      <3> QED BY <3>1, <3>2
    <2>11. \A i \in 1 .. Len(edges) : ToSet(below[edges[i]]) \subseteq ToSet(s)
      BY <2>4, <2>7 DEF JoinOK
    <2> QED BY <2>1, <2>2, <2>8, <2>9, <2>10, <2>11 DEF ReadOK
  <1> HIDE DEF S
  <1>5. Nat \subseteq S
    BY <1>3, <1>4, Counting
  <1>6. ASSUME NEW x \in T PROVE ReadOK(flat, rank, own, T, x)
    <2>1. rank[x] \in S
      BY <1>1, <1>5
    <2> QED BY <2>1 DEF S
  <1> QED BY <1>6

LEMMA EntriesHeld ==
  ASSUME Table(node), height \in Nat, root # Null, NEW T, NEW rank, NEW own, InOrderTree(node, T, root, height, rank, own)
  PROVE  Reads(Entries, Nat) /\ ToSet(Entries) = Holds(node, T)
  <1>1. PICK flat : Entries = flat[height][root] /\ Descended(flat)
    BY EntriesAre DEF Descended
  <1>2. \A x \in T : ReadOK(flat, rank, own, T, x)
    BY <1>1, FlatIs
  <1>3. /\ T \subseteq DOMAIN node /\ rank \in [T -> 0 .. height] /\ root \in T /\ rank[root] = height /\ own[root] = Nat
        /\ Grown(node, T, {root}, root, height, rank)
    BY DEF InOrderTree, Grown, Shaped
  <1>4. ReadOK(flat, rank, own, T, root)
    BY <1>2, <1>3
  <1>5. Reads(Entries, Nat) /\ ToSet(Entries) \subseteq Holds(node, T)
    BY <1>1, <1>3, <1>4 DEF ReadOK
  <1> DEFINE S == {d \in Nat : \A x \in T : rank[x] = height - d => ToSet(flat[rank[x]][x]) \subseteq ToSet(Entries)}
  <1>6. 0 \in S
    <2> SUFFICES ASSUME NEW x \in T, rank[x] = height - 0 PROVE ToSet(flat[rank[x]][x]) \subseteq ToSet(Entries)
      OBVIOUS
    <2>1. rank[x] = height
      OBVIOUS
    <2>2. x \in {root}
      BY <1>3, <2>1, HighestIs
    <2> QED BY <1>1, <2>1, <2>2
  <1>7. ASSUME NEW d \in Nat, d \in S PROVE d + 1 \in S
    <2> SUFFICES ASSUME NEW x \in T, rank[x] = height - (d + 1) PROVE ToSet(flat[rank[x]][x]) \subseteq ToSet(Entries)
      OBVIOUS
    <2>1. PICK rx : rx = rank[x]
      OBVIOUS
    <2>2. rx # height /\ rx + 1 = height - d /\ (rx + 1) - 1 = rx
      BY <2>1
    <2>3. \E p \in T : \E i \in 1 .. Len(node[p].edges) :
            node[p].edges[i] = x /\ rank[p] = rank[x] + 1 /\ i \in 1 .. Len(node[p].kvs) + 1
      BY <1>3, <2>1, <2>2, ParentIs
    <2>4. PICK p \in T : \E i \in 1 .. Len(node[p].edges) :
            node[p].edges[i] = x /\ rank[p] = rank[x] + 1 /\ i \in 1 .. Len(node[p].kvs) + 1
      BY <2>3
    <2>5. PICK i \in 1 .. Len(node[p].edges) : node[p].edges[i] = x /\ rank[p] = rank[x] + 1
      BY <2>4
    <2>6. ToSet(flat[rank[p]][p]) \subseteq ToSet(Entries)
      <3>1. rank[p] = height - d
        BY <2>1, <2>2, <2>5
      <3> QED BY <1>7, <3>1
    <2>7. ReadOK(flat, rank, own, T, p)
      BY <1>2
    <2>8. ToSet(flat[rank[x]][x]) \subseteq ToSet(flat[rank[p]][p])
      <3>1. rank[p] - 1 = rank[x]
        BY <2>1, <2>2, <2>5
      <3> QED BY <2>5, <2>7, <3>1 DEF ReadOK
    <2> QED BY <2>6, <2>8
  <1> HIDE DEF S
  <1>8. Nat \subseteq S
    BY <1>6, <1>7, Counting
  <1>9. ASSUME NEW x \in T PROVE ToSet(node[x].kvs) \subseteq ToSet(Entries)
    <2>1. PICK rx : rx = rank[x]
      OBVIOUS
    <2>2. rx \in 0 .. height
      BY <1>3, <2>1
    <2>3. height - rx \in Nat /\ rx = height - (height - rx)
      BY <2>2
    <2>4. height - rx \in S
      BY <1>8, <2>3
    <2>5. ToSet(flat[rank[x]][x]) \subseteq ToSet(Entries)
      BY <2>1, <2>3, <2>4 DEF S
    <2>6. ReadOK(flat, rank, own, T, x)
      BY <1>2
    <2> QED BY <2>5, <2>6 DEF ReadOK
  <1>10. Holds(node, T) \subseteq ToSet(Entries)
    BY <1>9 DEF Holds
  <1> QED BY <1>5, <1>10

LEMMA ReadOnce ==
  ASSUME NEW s, Reads(s, Nat), NEW map, ToSet(s) = Graph(map)
  PROVE  Len(s) = Cardinality(DOMAIN map)
  <1> DEFINE n == Len(s)
             f == [i \in 1 .. n |-> s[i][1]]
  <1>1. s \in Seq(Pair) /\ n \in Nat /\ (\A i \in 1 .. n : s[i][1] \in Nat) /\ ToSet(s) = {s[i] : i \in 1 .. n} /\ InRow(s)
    BY PairsAre DEF Reads
  <1>2. ASSUME NEW i \in 1 .. n PROVE f[i] \in DOMAIN map
    <2>1. s[i] \in Graph(map)
      BY <1>1
    <2>2. PICK k \in DOMAIN map : s[i] = <<k, map[k]>>
      BY <2>1 DEF Graph
    <2> QED BY <2>2
  <1>3. ASSUME NEW k \in DOMAIN map PROVE \E i \in 1 .. n : f[i] = k
    <2>1. <<k, map[k]>> \in ToSet(s)
      BY DEF Graph
    <2>2. PICK i \in 1 .. n : s[i] = <<k, map[k]>>
      BY <1>1, <2>1
    <2> QED BY <2>2
  <1>4. ASSUME NEW i \in 1 .. n, NEW j \in 1 .. n, f[i] = f[j] PROVE i = j
    <2>1. s[i][1] = s[j][1] /\ s[i][1] \in Nat
      BY <1>1, <1>4
    <2>2. ~(i < j) /\ ~(j < i)
      BY <1>1, <2>1 DEF InRow
    <2> QED BY <1>1, <2>2
  <1>5. f \in [1 .. n -> DOMAIN map]
    BY <1>2
  <1>6. f \in Bijection(1 .. n, DOMAIN map)
    <2> HIDE DEF f
    <2> QED BY <1>3, <1>4, <1>5 DEF Bijection, Injection, Surjection, IsInjective
  <1> HIDE DEF f, n
  <1>7. IsFiniteSet(1 .. n) /\ Cardinality(1 .. n) = n
    <2>1. n \in Nat
      BY <1>1
    <2> QED BY <2>1, FS_Interval
  <1>8. Cardinality(DOMAIN map) = n
    BY <1>6, <1>7, FS_Bijection DEF ExistsBijection
  <1> QED BY <1>8 DEF n

\* In every phase but the commit the nodes of the tree read as the content.
LEMMA ReadsAsContent ==
  ASSUME TreeInv, MapInv, ~Committing
  PROVE  Reads(Entries, Nat) /\ ToSet(Entries) = Graph(content)
  <1>1. PICK rank : Grown(node, InTree, Tops, root, height, rank)
    BY DEF TreeInv, Standing
  <1>2. Table(node) /\ height \in Nat /\ current_right = Null
    BY DEF TreeInv, SpareOK
  <1>3. Holds(node, InTree) = Graph(content)
    BY DEF MapInv, ContentHeld, Carried, Entering
  <1>4. CASE root = Null
    <2>1. InTree = {}
      BY <1>1, <1>4 DEF Grown
    <2>2. Holds(node, InTree) = {}
      BY <2>1 DEF Holds
    <2>3. Entries = <<>>
      BY <1>4 DEF Entries
    <2>4. Reads(<<>>, Nat) /\ ToSet(<<>>) = {}
      BY DEF Reads, InRow, ToSet
    <2> QED BY <1>3, <2>2, <2>3, <2>4
  <1>5. CASE root # Null
    <2>1. PICK place, own : KeysAt(place, own)
      BY DEF MapInv
    <2>2. Spanned(node, InTree, place, own) /\ place[root] = Nat /\ \A y \in InTree : own[y] = place[y]
      BY <1>5, <2>1 DEF KeysAt, AlikeBut
    <2>3. Tops = {root}
      BY <1>2, <1>5 DEF Tops
    <2>4. Grown(node, InTree, {root}, root, height, rank)
      BY <1>1, <2>3
    <2>5. Shaped(node, InTree, {root}, rank) /\ root \in InTree
      BY <2>4 DEF Grown, Shaped
    <2>6. Spanned(node, InTree, own, own)
      BY <2>2, <2>5, SpannedAlike
    <2>7. InOrderTree(node, InTree, root, height, rank, own)
      BY <2>2, <2>4, <2>5, <2>6 DEF InOrderTree
    <2>8. PICK T : T = InTree
      OBVIOUS
    <2>9. Reads(Entries, Nat) /\ ToSet(Entries) = Holds(node, T)
      BY <1>2, <1>5, <2>7, <2>8, EntriesHeld
    <2> QED BY <1>3, <2>8, <2>9
  <1> QED BY <1>4, <1>5

LEMMA MapIs == TreeInv /\ MapInv => TreeIsMap
  <1> SUFFICES ASSUME TreeInv, MapInv, ~Committing
               PROVE  /\ Increasing(Entries) /\ ToSet(Entries) = Graph(content)
                      /\ length = Len(Entries)
                      /\ handle # NoHandle /\ phase = "idle" =>
                           node[handle.node].kvs[handle.idx + 1] = <<handle.kv[1], content[handle.kv[1]]>>
    BY DEF TreeIsMap
  <1>1. Reads(Entries, Nat) /\ ToSet(Entries) = Graph(content)
    BY ReadsAsContent
  <1>2. Increasing(Entries)
    <2>1. Entries \in Seq(Pair) /\ InRow(Entries)
      BY <1>1 DEF Reads
    <2> QED BY <2>1, PairsAre
  <1>3. length = Len(Entries)
    <2>1. Len(Entries) = Cardinality(DOMAIN content)
      BY <1>1, ReadOnce
    <2> QED BY <2>1 DEF MapInv, ContentHeld
  <1>4. handle # NoHandle =>
          node[handle.node].kvs[handle.idx + 1] = <<handle.kv[1], content[handle.kv[1]]>>
    BY DEF MapInv, EntryReturned, EntryAt
  <1> QED BY <1>1, <1>2, <1>3, <1>4

\* The map, read in key order, is what was inserted: no insert loses, doubles or misplaces an entry.
THEOREM MapStays == TreeSpec => []TreeIsMap
  <1>1. TreeInit => TreeInv /\ ReserveInv /\ MapInv
    BY TreeStarts, ReserveInit, MapStarts
  <1>2. TreeInv /\ ReserveInv /\ MapInv /\ [TreeNext]_treeVars => (TreeInv /\ ReserveInv /\ MapInv)'
    BY TreeStep, ReserveStep, MapStep
  <1> QED BY <1>1, <1>2, MapIs, PTL DEF TreeSpec
===============================================================================
