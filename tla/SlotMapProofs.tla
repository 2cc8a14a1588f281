----------------------------- MODULE SlotMapProofs -----------------------------
(***************************************************************************)
(* Proofs about SlotMap, for any number of slots, width of the version      *)
(* counter, set of values and allocator limit.                              *)
(***************************************************************************)
EXTENDS SecondaryMap, FiniteSetTheorems, SequenceTheorems, WellFoundedInduction, TLAPS

(***************************************************************************)
(* The inductive invariant.                                                 *)
(***************************************************************************)

\* How far the version counter is ahead of version w, modulo its width.
Ahead(v, w) == IF v >= w THEN v - w ELSE v - w + VMod

\* The sentinel and the slots not pushed yet have issued no key.
Shape ==
  \A i \in Idx : i = 0 \/ i >= len => version[i] = 0 /\ issued[i] = <<>>

\* The freelist is linked through free slots only, each with one predecessor:
\* popping its head yields a slot nobody holds, and leaves the rest intact.
Links ==
  /\ free_head \in Free \union {len}
  /\ \A i \in Free : u[i] \in Free \union {len} /\ u[i] # free_head
  /\ \A i, j \in Free : u[i] = u[j] => i = j

\* The n-th newest key of a slot is 2n versions behind, unless the counter has
\* wrapped since.
Ages ==
  \A i \in Idx : \A n \in 1 .. Len(issued[i]) :
    /\ issued[i][n] % 2 = 1
    /\ Len(issued[i]) - n < Half =>
         Ahead(version[i], issued[i][n]) = 2 * (Len(issued[i]) - n) + (1 - (version[i] % 2))

IInv == TypeOK /\ Shape /\ Links /\ Ages /\ CountsLive /\ DrainClears

-------------------------------------------------------------------------------

\* The counter advances by one, or wraps to zero.
LEMMA BumpIs ==
  ASSUME NEW v \in 0 .. VMod - 1
  PROVE  /\ Bump(v) = IF v = VMod - 1 THEN 0 ELSE v + 1
         /\ Drop1(v) = IF v = 0 THEN VMod - 1 ELSE v - 1
         /\ Bump(v) \in 0 .. VMod - 1 /\ Bump(v) % 2 = 1 - (v % 2)
         /\ Drop1(v) \in 0 .. VMod - 1 /\ Drop1(v) % 2 = 1 - (v % 2)
         /\ v % 2 \in {0, 1}
  <1>1. VMod = 2 * Half /\ Half \in Nat /\ Half > 0 /\ VMod \in Nat
    BY HalfAssumption DEF VMod
  <1>2. \A x \in Int : x >= 0 /\ x < VMod => x % VMod = x
    BY <1>1
  <1>3. \A x \in Int : x >= VMod /\ x < VMod + VMod => x % VMod = x - VMod
    BY <1>1
  <1>4. /\ Bump(v) = IF v = VMod - 1 THEN 0 ELSE v + 1
        /\ Drop1(v) = IF v = 0 THEN VMod - 1 ELSE v - 1
    BY <1>1, <1>2, <1>3 DEF Bump, Drop1
  <1> QED BY <1>1, <1>4

\* Removing a key makes its slot's counter one further ahead; reattaching undoes it.
LEMMA AheadMoves ==
  ASSUME NEW v \in 0 .. VMod - 1, NEW w \in 0 .. VMod - 1
  PROVE  /\ Ahead(v, w) \in 0 .. VMod - 1
         /\ Ahead(v, w) = 0 => v = w
         /\ Ahead(v, w) < VMod - 1 => Ahead(Bump(v), w) = Ahead(v, w) + 1
         /\ Ahead(v, w) > 0 => Ahead(Drop1(v), w) = Ahead(v, w) - 1
  <1>1. VMod \in Nat /\ VMod > 0
    BY HalfAssumption DEF VMod
  <1>2. /\ Bump(v) = IF v = VMod - 1 THEN 0 ELSE v + 1
        /\ Drop1(v) = IF v = 0 THEN VMod - 1 ELSE v - 1
    BY BumpIs
  <1> QED BY <1>1, <1>2 DEF Ahead

\* Occupied slots are finitely many, so they can be counted.
LEMMA UsedFinite == TypeOK => IsFiniteSet(Used)
  <1> SUFFICES ASSUME TypeOK PROVE IsFiniteSet(Used)
    OBVIOUS
  <1>1. IsFiniteSet(1 .. len - 1)
    BY FS_Interval, LenAssumption DEF TypeOK
  <1> QED BY <1>1, FS_Subset DEF Used

\* What the histories hold.
LEMMA IssuedFacts ==
  ASSUME issued \in [Idx -> Seq(0 .. VMod - 1)], NEW i \in Idx
  PROVE  /\ issued[i] \in Seq(0 .. VMod - 1) /\ Len(issued[i]) \in Nat
         /\ \A n \in 1 .. Len(issued[i]) : issued[i][n] \in 0 .. VMod - 1
  <1>1. issued[i] \in Seq(0 .. VMod - 1)
    OBVIOUS
  <1> QED BY <1>1, ElementOfSeq, LenProperties

\* A new map satisfies the invariant.
LEMMA InitInv == Init => IInv
  <1> SUFFICES ASSUME Init PROVE IInv
    OBVIOUS
  <1>1. TypeOK
    BY LenAssumption, HalfAssumption, CapacityAssumption
       DEF Init, TypeOK, NoSweep, Idx, VMod
  <1>2. Used = {} /\ Free = {}
    BY DEF Init, Used, Free
  <1>3. CountsLive
    BY <1>2, FS_EmptySet DEF Init, CountsLive
  <1> QED BY <1>1, <1>2, <1>3 DEF Init, IInv, Shape, Links, Ages, DrainClears, NoSweep

-------------------------------------------------------------------------------

\* Moving a slot's counter between a version and the one after it keeps Ages,
\* which speaks of the keys issued so far.
LEMMA AgesMove ==
  ASSUME IInv, NEW i \in Idx, issued' = issued,
         \/ version[i] % 2 = 1 /\ version' = [version EXCEPT ![i] = Bump(version[i])]
         \/ version[i] % 2 = 0 /\ version' = [version EXCEPT ![i] = Drop1(version[i])]
  PROVE  version' \in [Idx -> 0 .. VMod - 1] /\ Ages'
  <1>1. /\ version \in [Idx -> 0 .. VMod - 1]
        /\ issued \in [Idx -> Seq(0 .. VMod - 1)]
    BY DEF IInv, TypeOK
  <1>2. VMod = 2 * Half /\ Half \in Nat /\ Half > 0 /\ VMod \in Nat
    BY HalfAssumption DEF VMod
  <1>3. version[i] \in 0 .. VMod - 1
    BY <1>1
  <1>4. version'[i] \in 0 .. VMod - 1 /\ 1 - (version'[i] % 2) = version[i] % 2
    <2>1. /\ Bump(version[i]) \in 0 .. VMod - 1 /\ Bump(version[i]) % 2 = 1 - (version[i] % 2)
          /\ Drop1(version[i]) \in 0 .. VMod - 1 /\ Drop1(version[i]) % 2 = 1 - (version[i] % 2)
      BY <1>3, BumpIs
    <2>2. version'[i] \in {Bump(version[i]), Drop1(version[i])}
      BY <1>1
    <2> QED BY <1>2, <1>3, <2>1, <2>2
  <1>5. version' \in [Idx -> 0 .. VMod - 1]
    BY <1>1, <1>4
  <1>6. Len(issued[i]) \in Nat /\ \A n \in 1 .. Len(issued[i]) : issued[i][n] \in 0 .. VMod - 1
    BY <1>1, IssuedFacts
  <1>7. ASSUME NEW n \in 1 .. Len(issued[i]), Len(issued[i]) - n < Half
        PROVE  Ahead(version'[i], issued[i][n]) = 2 * (Len(issued[i]) - n) + (version[i] % 2)
    <2>1. issued[i][n] \in 0 .. VMod - 1 /\ n \in Nat
      BY <1>6, <1>7
    <2>2. Ahead(version[i], issued[i][n]) = 2 * (Len(issued[i]) - n) + (1 - (version[i] % 2))
      BY <1>7 DEF IInv, Ages
    <2>3. CASE version[i] % 2 = 1 /\ version'[i] = Bump(version[i])
      <3>1. Ahead(version[i], issued[i][n]) = 2 * (Len(issued[i]) - n)
        BY <2>2, <2>3
      <3>2. 2 * (Len(issued[i]) - n) < VMod - 1
        BY <1>2, <1>6, <1>7, <2>1
      <3>3. Ahead(version'[i], issued[i][n]) = 2 * (Len(issued[i]) - n) + 1
        BY <1>3, <2>1, <2>3, <3>1, <3>2, AheadMoves
      <3> QED BY <2>3, <3>3
    <2>4. CASE version[i] % 2 = 0 /\ version'[i] = Drop1(version[i])
      <3>1. Ahead(version[i], issued[i][n]) = 2 * (Len(issued[i]) - n) + 1
        BY <2>2, <2>4
      <3>2. 2 * (Len(issued[i]) - n) + 1 > 0 /\ 2 * (Len(issued[i]) - n) \in Int
        BY <1>6, <1>7, <2>1
      <3>3. Ahead(version'[i], issued[i][n]) = 2 * (Len(issued[i]) - n) + 1 - 1
        <4>1. Ahead(version[i], issued[i][n]) > 0 =>
                Ahead(Drop1(version[i]), issued[i][n]) = Ahead(version[i], issued[i][n]) - 1
          BY <1>3, <2>1, AheadMoves
        <4> QED BY <2>4, <3>1, <3>2, <4>1
      <3>4. Ahead(version'[i], issued[i][n]) = 2 * (Len(issued[i]) - n)
        BY <3>2, <3>3
      <3>5. 2 * (Len(issued[i]) - n) + (version[i] % 2) = 2 * (Len(issued[i]) - n)
        BY <2>4, <3>2
      <3> QED BY <3>4, <3>5
    <2> QED BY <1>1, <2>3, <2>4
  <1>8. \A n \in 1 .. Len(issued[i]) : issued[i][n] % 2 = 1
    BY DEF IInv, Ages
  <1>9. \A j \in Idx : j # i => version'[j] = version[j]
    BY <1>1
  <1>10. ASSUME NEW j \in Idx, NEW n \in 1 .. Len(issued[j])
         PROVE  /\ issued[j][n] % 2 = 1
                /\ Len(issued[j]) - n < Half =>
                     Ahead(version'[j], issued[j][n]) = 2 * (Len(issued[j]) - n) + (1 - (version'[j] % 2))
    <2>1. CASE j = i
      BY <1>4, <1>7, <1>8, <2>1
    <2>2. CASE j # i
      BY <1>9, <2>2 DEF IInv, Ages
    <2> QED BY <2>1, <2>2
  <1> QED BY <1>5, <1>10 DEF Ages

\* What remove_from_slot does to a slot in use: it becomes the head of the
\* freelist, and its newest key one version stale.
LEMMA FreesSlot ==
  ASSUME IInv, NEW i \in Used, RemoveFromSlot(i), UNCHANGED <<len, issued>>
  PROVE  /\ version' \in [Idx -> 0 .. VMod - 1]
         /\ u' \in [Idx -> Values \union (0 .. MaxSlotsLen + 1)]
         /\ free_head' \in 1 .. MaxSlotsLen
         /\ num_elems' \in Int
         /\ Shape' /\ Links' /\ Ages' /\ CountsLive'
         /\ Used' = Used \ {i} /\ Detached' = Detached
  <1>1. /\ version \in [Idx -> 0 .. VMod - 1]
        /\ u \in [Idx -> Values \union (0 .. MaxSlotsLen + 1)]
        /\ issued \in [Idx -> Seq(0 .. VMod - 1)]
        /\ len \in 1 .. MaxSlotsLen /\ MaxSlotsLen \in Nat /\ num_elems \in Int
    BY LenAssumption DEF IInv, TypeOK
  <1>2. i \in Idx /\ i \in 1 .. len - 1 /\ version[i] \in 0 .. VMod - 1 /\ version[i] % 2 = 1
    BY <1>1 DEF Used, Occupied, Idx
  <1>3. Bump(version[i]) \in 0 .. VMod - 1 /\ Bump(version[i]) % 2 = 0
    BY <1>2, BumpIs
  <1>4. version' = [version EXCEPT ![i] = Bump(version[i])]
        /\ u' = [u EXCEPT ![i] = free_head] /\ free_head' = i
        /\ num_elems' = num_elems - 1 /\ len' = len /\ issued' = issued
    BY DEF RemoveFromSlot
  <1>5. \A j \in Idx : version'[j] = IF j = i THEN Bump(version[i]) ELSE version[j]
    BY <1>1, <1>2, <1>4
  <1>6. \A j \in Idx : u'[j] = IF j = i THEN free_head ELSE u[j]
    BY <1>1, <1>2, <1>4
  <1>7. 1 .. len - 1 \subseteq Idx
    BY <1>1 DEF Idx
  <1>8. free_head \in 1 .. MaxSlotsLen /\ free_head # Dangling
    BY <1>1 DEF IInv, Links, TypeOK, Dangling
  <1>9. i \notin Free /\ i \notin Detached
    BY <1>2 DEF Free, Detached, Occupied
  <1>10. Used' = Used \ {i}
    BY <1>2, <1>3, <1>4, <1>5, <1>7 DEF Used, Occupied
  <1>11. Free' = Free \union {i}
    BY <1>2, <1>3, <1>4, <1>5, <1>6, <1>7, <1>8 DEF Free, Occupied, Dangling
  <1>12. Detached' = Detached
    BY <1>2, <1>3, <1>4, <1>5, <1>6, <1>7, <1>8 DEF Detached, Occupied, Dangling
  <1>13. Shape'
    BY <1>2, <1>4, <1>5 DEF IInv, Shape
  <1>14. Links'
    <2>1. \A j \in Free : j \in Idx /\ j # i /\ u'[j] = u[j]
      BY <1>6, <1>7, <1>9 DEF Free
    <2>2. \A j \in Free : u[j] # i
      BY <1>2, <1>9 DEF IInv, Links
    <2> QED BY <1>2, <1>4, <1>6, <1>9, <1>11, <2>1, <2>2 DEF IInv, Links
  <1>15. Ages'
    BY <1>2, <1>4, AgesMove
  <1>16. CountsLive'
    <2>1. Cardinality(Used \ {i}) = Cardinality(Used) - 1
      BY UsedFinite, FS_RemoveElement DEF IInv
    <2> QED BY <1>4, <1>10, <2>1 DEF IInv, CountsLive
  <1>17. version' \in [Idx -> 0 .. VMod - 1]
    BY <1>1, <1>3, <1>4
  <1>18. u' \in [Idx -> Values \union (0 .. MaxSlotsLen + 1)]
    <2>1. free_head \in 0 .. MaxSlotsLen + 1
      BY <1>1, <1>8
    <2> QED BY <1>1, <1>4, <2>1, Zenon
  <1>19. free_head' \in 1 .. MaxSlotsLen /\ num_elems' \in Int
    BY <1>1, <1>2, <1>4 DEF Idx
  <1> QED BY <1>10, <1>12, <1>13, <1>14, <1>15, <1>16, <1>17, <1>18, <1>19

\* What an insertion does to the history of the slot it fills: a new key, which
\* is the only one that names the slot's new version.
LEMMA IssuesKey ==
  ASSUME IInv, NEW i \in Idx, version[i] % 2 = 0, NEW ver, ver = Odd(version[i]),
         version' = [version EXCEPT ![i] = ver],
         issued' = [issued EXCEPT ![i] = Append(@, ver)]
  PROVE  /\ ver \in 0 .. VMod - 1 /\ ver % 2 = 1
         /\ version' \in [Idx -> 0 .. VMod - 1]
         /\ issued' \in [Idx -> Seq(0 .. VMod - 1)]
         /\ Ages'
  <1>1. /\ version \in [Idx -> 0 .. VMod - 1]
        /\ issued \in [Idx -> Seq(0 .. VMod - 1)]
    BY DEF IInv, TypeOK
  <1>2. VMod = 2 * Half /\ Half \in Nat /\ Half > 0 /\ VMod \in Nat
    BY HalfAssumption DEF VMod
  <1>3. version[i] \in 0 .. VMod - 1
    BY <1>1
  <1>4. ver = version[i] + 1 /\ ver \in 0 .. VMod - 1 /\ ver % 2 = 1
    BY <1>2, <1>3 DEF Odd
  <1>5. ver = Bump(version[i])
    <2>1. Bump(version[i]) = IF version[i] = VMod - 1 THEN 0 ELSE version[i] + 1
      BY <1>3, BumpIs
    <2> QED BY <1>2, <1>3, <1>4, <2>1
  <1>6. version' \in [Idx -> 0 .. VMod - 1]
    BY <1>1, <1>4
  <1>7. Append(issued[i], ver) \in Seq(0 .. VMod - 1)
    BY <1>1, <1>4, IssuedFacts, AppendProperties
  <1>8. issued' \in [Idx -> Seq(0 .. VMod - 1)]
    BY <1>1, <1>7
  <1>9. /\ Len(issued[i]) \in Nat
        /\ \A n \in 1 .. Len(issued[i]) : issued[i][n] \in 0 .. VMod - 1
    BY <1>1, IssuedFacts
  <1>10. /\ Len(issued'[i]) = Len(issued[i]) + 1
         /\ issued'[i][Len(issued[i]) + 1] = ver
         /\ \A n \in 1 .. Len(issued[i]) : issued'[i][n] = issued[i][n]
    <2>1. issued'[i] = Append(issued[i], ver)
      BY <1>1
    <2>2. issued[i] \in Seq(0 .. VMod - 1)
      BY <1>1, IssuedFacts
    <2> HIDE DEF Ahead
    <2> QED BY <1>4, <1>9, <2>1, <2>2, AppendProperties, SMTT(20)
  <1>11. Ages'
    <2> SUFFICES ASSUME NEW j \in Idx, NEW n \in 1 .. Len(issued'[j])
                 PROVE  /\ issued'[j][n] % 2 = 1
                        /\ Len(issued'[j]) - n < Half =>
                             Ahead(version'[j], issued'[j][n]) = 2 * (Len(issued'[j]) - n) + (1 - (version'[j] % 2))
      BY DEF Ages
    <2>1. CASE j # i
      BY <1>1, <2>1 DEF IInv, Ages
    <2>2. CASE j = i /\ n = Len(issued[i]) + 1
      <3>1. Ahead(ver, ver) = 0
        BY <1>4 DEF Ahead
      <3>2. issued'[j][n] = ver /\ version'[j] = ver /\ Len(issued'[j]) - n = 0
        BY <1>1, <1>9, <1>10, <2>2
      <3>3. 1 - (version'[j] % 2) = 0
        BY <1>2, <1>4, <3>2
      <3>4. Ahead(version'[j], issued'[j][n]) = 0
        BY <3>1, <3>2
      <3>5. 2 * (Len(issued'[j]) - n) + (1 - (version'[j] % 2)) = 0
        BY <3>2, <3>3
      <3>6. issued'[j][n] % 2 = 1
        BY <1>4, <3>2
      <3> QED BY <3>4, <3>5, <3>6
    <2>3. CASE j = i /\ n # Len(issued[i]) + 1
      <3>1. n \in 1 .. Len(issued[i]) /\ issued'[j][n] = issued[i][n] /\ version'[j] = ver
        BY <1>1, <1>9, <1>10, <2>3
      <3>2. issued[i][n] % 2 = 1 /\ (Len(issued[i]) - n < Half =>
              Ahead(version[i], issued[i][n]) = 2 * (Len(issued[i]) - n) + (1 - (version[i] % 2)))
        BY <3>1 DEF IInv, Ages
      <3>3. /\ Ahead(version[i], issued[i][n]) \in 0 .. VMod - 1
            /\ Ahead(version[i], issued[i][n]) < VMod - 1 =>
                 Ahead(ver, issued[i][n]) = Ahead(version[i], issued[i][n]) + 1
        BY <1>3, <1>5, <1>9, <3>1, AheadMoves
      <3>4. Len(issued[i]) + 1 - n < Half =>
              Ahead(ver, issued[i][n]) = 2 * (Len(issued[i]) + 1 - n)
        <4>1. 1 - (version[i] % 2) = 1
          BY <1>2, <1>3
        <4> SUFFICES ASSUME Len(issued[i]) + 1 - n < Half
                     PROVE  Ahead(ver, issued[i][n]) = 2 * (Len(issued[i]) + 1 - n)
          OBVIOUS
        <4>2. Ahead(version[i], issued[i][n]) = 2 * (Len(issued[i]) - n) + 1
          BY <1>2, <1>9, <3>1, <3>2, <4>1
        <4>3. 2 * (Len(issued[i]) - n) + 1 < VMod - 1
          BY <1>2, <1>9, <3>1
        <4>4. Ahead(ver, issued[i][n]) = 2 * (Len(issued[i]) - n) + 1 + 1
          BY <3>3, <4>2, <4>3
        <4> QED BY <1>9, <3>1, <4>4
      <3>5. Len(issued'[j]) = Len(issued[i]) + 1 /\ 1 - (version'[j] % 2) = 0
        BY <1>2, <1>4, <1>10, <2>3, <3>1
      <3>6. issued'[j][n] % 2 = 1
        BY <3>1, <3>2
      <3>7. ASSUME Len(issued'[j]) - n < Half
            PROVE  Ahead(version'[j], issued'[j][n]) = 2 * (Len(issued'[j]) - n) + (1 - (version'[j] % 2))
        <4>1. Ahead(version'[j], issued'[j][n]) = 2 * (Len(issued[i]) + 1 - n)
          BY <1>9, <3>1, <3>4, <3>5, <3>7
        <4>2. 2 * (Len(issued'[j]) - n) + (1 - (version'[j] % 2)) = 2 * (Len(issued[i]) + 1 - n)
          BY <1>9, <3>1, <3>5
        <4> QED BY <4>1, <4>2
      <3> QED BY <3>6, <3>7
    <2> QED BY <2>1, <2>2, <2>3
  <1> QED BY <1>4, <1>6, <1>8, <1>11

\* A key of the map names a slot past the sentinel with an odd version, so a key
\* that is in the map names a slot in use.
LEMMA LiveIssued ==
  ASSUME IInv, NEW k \in IssuedKeys
  PROVE  /\ k.idx \in Idx /\ k.version \in 0 .. VMod - 1 /\ k.version % 2 = 1
         /\ k.idx < len => k.idx \in 1 .. len - 1
         /\ ContainsKey(k) => k.idx \in Used
  <1>1. k.idx \in Idx /\ k.version \in 0 .. VMod - 1
    BY DEF IssuedKeys, Keys
  <1>2. PICK n \in 1 .. Len(issued[k.idx]) : issued[k.idx][n] = k.version
    BY DEF IssuedKeys
  <1>3. k.version % 2 = 1
    BY <1>1, <1>2 DEF IInv, Ages
  <1>4. k.idx # 0
    <2>1. Len(<<>>) = 0
      OBVIOUS
    <2> QED BY <1>1, <1>2, <2>1 DEF IInv, Shape
  <1>5. len \in 1 .. MaxSlotsLen /\ MaxSlotsLen \in Nat
    BY LenAssumption DEF IInv, TypeOK
  <1>6. k.idx < len => k.idx \in 1 .. len - 1
    BY <1>1, <1>4, <1>5 DEF Idx
  <1> QED BY <1>1, <1>3, <1>6 DEF ContainsKey, Used, Occupied

\* Insertion fills the head of the freelist, never a slot in use or detached.
LEMMA InsertReuseInv == ASSUME IInv, NEW v \in Values, InsertReuse(v) PROVE IInv'
  <1>1. /\ version \in [Idx -> 0 .. VMod - 1]
        /\ u \in [Idx -> Values \union (0 .. MaxSlotsLen + 1)]
        /\ len \in 1 .. MaxSlotsLen /\ MaxSlotsLen \in Nat /\ num_elems \in Int
    BY LenAssumption DEF IInv, TypeOK
  <1> DEFINE i == free_head
  <1>2. i \in Free /\ i < len
    BY <1>1 DEF InsertReuse, IInv, Links
  <1>3. i \in Idx /\ i \in 1 .. len - 1 /\ ~Occupied(i) /\ version[i] % 2 = 0
    <2>1. i \in Idx /\ i \in 1 .. len - 1 /\ ~Occupied(i)
      BY <1>1, <1>2 DEF Free, Idx
    <2> QED BY <1>1, <2>1, BumpIs DEF Occupied
  <1>4. /\ version' = [version EXCEPT ![i] = Odd(version[i])]
        /\ issued' = [issued EXCEPT ![i] = Append(@, Odd(version[i]))]
        /\ u' = [u EXCEPT ![i] = v] /\ free_head' = u[i] /\ len' = len
        /\ num_elems' = num_elems + 1
    BY DEF InsertReuse, Stored
  <1>5. /\ version' \in [Idx -> 0 .. VMod - 1] /\ issued' \in [Idx -> Seq(0 .. VMod - 1)]
        /\ Ages' /\ Odd(version[i]) % 2 = 1
    BY <1>3, <1>4, IssuesKey
  <1>6. \A j \in Idx : /\ version'[j] = IF j = i THEN Odd(version[i]) ELSE version[j]
                       /\ u'[j] = IF j = i THEN v ELSE u[j]
    BY <1>1, <1>3, <1>4
  <1>7. 1 .. len - 1 \subseteq Idx
    BY <1>1 DEF Idx
  <1>8. Used' = Used \union {i} /\ i \notin Used
    BY <1>3, <1>4, <1>5, <1>6, <1>7 DEF Used, Occupied
  <1>9. Free' = Free \ {i}
    BY <1>3, <1>4, <1>5, <1>6, <1>7 DEF Free, Occupied
  <1>10. Links'
    <2>1. \A j \in Free \ {i} : u'[j] = u[j]
      BY <1>6, <1>7 DEF Free
    <2> QED BY <1>2, <1>4, <1>9, <2>1 DEF IInv, Links
  <1>11. Shape'
    BY <1>1, <1>3, <1>4, <1>6 DEF IInv, Shape, TypeOK
  <1>12. CountsLive'
    <2>1. Cardinality(Used \union {i}) = Cardinality(Used) + 1
      BY <1>8, UsedFinite, FS_AddElement DEF IInv
    <2> QED BY <1>4, <1>8, <2>1 DEF IInv, CountsLive
  <1>13. TypeOK'
    <2>1. free_head' \in 1 .. MaxSlotsLen
      BY <1>1, <1>2, <1>4 DEF IInv, Links, Free
    <2>2. u' \in [Idx -> Values \union (0 .. MaxSlotsLen + 1)]
      BY <1>1, <1>4, Zenon
    <2>3. credit' \in Nat
      BY DEF InsertReuse, Stored, Spent, IInv, TypeOK
    <2> QED BY <1>1, <1>4, <1>5, <2>1, <2>2, <2>3 DEF InsertReuse, IInv, TypeOK
  <1>14. DrainClears'
    BY DEF InsertReuse, Idle, NoSweep, DrainClears
  <1> QED BY <1>5, <1>10, <1>11, <1>12, <1>13, <1>14 DEF IInv

\* Growth pushes a slot at the end of the freelist and moves that end.
LEMMA InsertGrowInv == ASSUME IInv, NEW v \in Values, InsertGrow(v) PROVE IInv'
  <1>1. /\ version \in [Idx -> 0 .. VMod - 1]
        /\ u \in [Idx -> Values \union (0 .. MaxSlotsLen + 1)]
        /\ len \in 1 .. MaxSlotsLen - 1 /\ MaxSlotsLen \in Nat /\ num_elems \in Int
    BY LenAssumption DEF IInv, TypeOK, InsertGrow
  <1>2. free_head = len /\ len \in Idx
    BY <1>1 DEF InsertGrow, IInv, Links, Free, Idx
  <1>3. version[len] = 0 /\ Odd(version[len]) = 1
    <2>1. len >= len
      BY <1>1
    <2>2. version[len] = 0
      BY <1>2, <2>1 DEF IInv, Shape
    <2> QED BY <2>2 DEF Odd
  <1>4. /\ version' = [version EXCEPT ![len] = Odd(version[len])]
        /\ issued' = [issued EXCEPT ![len] = Append(@, Odd(version[len]))]
        /\ u' = [u EXCEPT ![len] = v] /\ free_head' = len + 1 /\ len' = len + 1
        /\ num_elems' = num_elems + 1
    BY <1>3 DEF InsertGrow, Stored
  <1>5. /\ version' \in [Idx -> 0 .. VMod - 1] /\ issued' \in [Idx -> Seq(0 .. VMod - 1)]
        /\ Ages'
    <2>1. version[len] % 2 = 0
      BY <1>3
    <2> QED BY <1>2, <1>4, <2>1, IssuesKey
  <1>6. \A j \in Idx : /\ version'[j] = IF j = len THEN 1 ELSE version[j]
                       /\ u'[j] = IF j = len THEN v ELSE u[j]
    BY <1>1, <1>2, <1>3, <1>4
  <1>7. 1 .. len \subseteq Idx
    BY <1>1 DEF Idx
  <1>8. Used' = Used \union {len} /\ len \notin Used
    BY <1>1, <1>4, <1>6, <1>7 DEF Used, Occupied
  <1>9. Free' = Free
    BY <1>1, <1>4, <1>6, <1>7 DEF Free, Occupied
  <1>10. Links'
    <2>1. \A j \in Free : u'[j] = u[j] /\ u[j] \in Free
      BY <1>1, <1>2, <1>6, <1>7 DEF Free, IInv, Links
    <2>2. len + 1 \notin Free
      BY <1>1 DEF Free
    <2> QED BY <1>4, <1>9, <2>1, <2>2 DEF IInv, Links
  <1>11. Shape'
    BY <1>1, <1>2, <1>4, <1>6 DEF IInv, Shape, TypeOK
  <1>12. CountsLive'
    <2>1. Cardinality(Used \union {len}) = Cardinality(Used) + 1
      BY <1>8, UsedFinite, FS_AddElement DEF IInv
    <2> QED BY <1>4, <1>8, <2>1 DEF IInv, CountsLive
  <1>13. TypeOK'
    <2>1. cap' \in Nat
      BY CapacityAssumption DEF InsertGrow, Reserved, HasRoom, Grown, Larger, IInv, TypeOK
    <2>2. u' \in [Idx -> Values \union (0 .. MaxSlotsLen + 1)]
      BY <1>1, <1>4, Zenon
    <2>3. credit' \in Nat
      BY DEF InsertGrow, Stored, Spent, IInv, TypeOK
    <2> QED BY <1>1, <1>4, <1>5, <2>1, <2>2, <2>3 DEF InsertGrow, IInv, TypeOK
  <1>14. DrainClears'
    BY DEF InsertGrow, Idle, NoSweep, DrainClears
  <1> QED BY <1>5, <1>10, <1>11, <1>12, <1>13, <1>14 DEF IInv

\* A detached slot is on no list.
LEMMA DetachInv ==
  ASSUME IInv, NEW k \in IssuedKeys, Detach(k)
  PROVE  IInv' /\ Detached' = Detached \union {k.idx}
  <1> DEFINE i == k.idx
  <1>1. /\ version \in [Idx -> 0 .. VMod - 1]
        /\ u \in [Idx -> Values \union (0 .. MaxSlotsLen + 1)]
        /\ len \in 1 .. MaxSlotsLen /\ MaxSlotsLen \in Nat /\ num_elems \in Int
    BY LenAssumption DEF IInv, TypeOK
  <1>2. i \in Used
    BY LiveIssued DEF Detach
  <1>3. i \in Idx /\ i \in 1 .. len - 1 /\ version[i] % 2 = 1
    BY <1>1, <1>2 DEF Used, Occupied, Idx
  <1>4. /\ version' = [version EXCEPT ![i] = Bump(version[i])]
        /\ u' = [u EXCEPT ![i] = Dangling] /\ free_head' = free_head
        /\ len' = len /\ issued' = issued /\ num_elems' = num_elems - 1
    BY DEF Detach
  <1>5. version' \in [Idx -> 0 .. VMod - 1] /\ Ages'
    BY <1>3, <1>4, AgesMove
  <1>6. Bump(version[i]) % 2 = 0
    BY <1>1, <1>3, BumpIs
  <1>7. \A j \in Idx : /\ version'[j] = IF j = i THEN Bump(version[i]) ELSE version[j]
                       /\ u'[j] = IF j = i THEN Dangling ELSE u[j]
    BY <1>1, <1>3, <1>4
  <1>8. 1 .. len - 1 \subseteq Idx
    BY <1>1 DEF Idx
  <1>9. Used' = Used \ {i}
    BY <1>3, <1>4, <1>6, <1>7, <1>8 DEF Used, Occupied
  <1>10. Free' = Free /\ i \notin Free
    BY <1>3, <1>4, <1>6, <1>7, <1>8 DEF Free, Occupied
  <1>11. Detached' = Detached \union {i}
    BY <1>3, <1>4, <1>6, <1>7, <1>8 DEF Detached, Occupied
  <1>12. Links'
    <2>1. \A j \in Free : u'[j] = u[j]
      BY <1>7, <1>8, <1>10 DEF Free
    <2> QED BY <1>4, <1>10, <2>1 DEF IInv, Links
  <1>13. Shape'
    BY <1>3, <1>4, <1>7 DEF IInv, Shape
  <1>14. CountsLive'
    <2>1. Cardinality(Used \ {i}) = Cardinality(Used) - 1
      BY <1>2, UsedFinite, FS_RemoveElement DEF IInv
    <2> QED BY <1>4, <1>9, <2>1 DEF IInv, CountsLive
  <1>15. TypeOK'
    <2>1. Dangling \in 0 .. MaxSlotsLen + 1
      BY <1>1 DEF Dangling
    <2>2. u' \in [Idx -> Values \union (0 .. MaxSlotsLen + 1)]
      BY <1>1, <1>4, <2>1, Zenon
    <2> QED BY <1>1, <1>4, <1>5, <2>2 DEF Detach, IInv, TypeOK
  <1>16. DrainClears'
    BY DEF Detach, Idle, NoSweep, DrainClears
  <1> QED BY <1>5, <1>11, <1>12, <1>13, <1>14, <1>15, <1>16 DEF IInv

\* Reattaching revives the version of the detached key.
LEMMA ReattachInv ==
  ASSUME IInv, NEW k \in IssuedKeys, NEW v \in Values, Reattach(k, v)
  PROVE  IInv' /\ Detached' = Detached \ {k.idx} /\ k.idx \in Used'
         /\ version'[k.idx] = Drop1(version[k.idx])
  <1> DEFINE i == k.idx
  <1>1. /\ version \in [Idx -> 0 .. VMod - 1]
        /\ u \in [Idx -> Values \union (0 .. MaxSlotsLen + 1)]
        /\ len \in 1 .. MaxSlotsLen /\ MaxSlotsLen \in Nat /\ num_elems \in Int
    BY LenAssumption DEF IInv, TypeOK
  <1>2. i \in Idx /\ i \in 1 .. len - 1 /\ version[i] = Bump(k.version)
        /\ k.version \in 0 .. VMod - 1 /\ k.version % 2 = 1 /\ u[i] = Dangling
    BY LiveIssued DEF Reattach, CanReattach
  <1>3. version[i] % 2 = 0
    BY <1>2, BumpIs
  <1>4. /\ version' = [version EXCEPT ![i] = Drop1(version[i])]
        /\ u' = [u EXCEPT ![i] = v] /\ free_head' = free_head
        /\ len' = len /\ issued' = issued /\ num_elems' = num_elems + 1
    BY DEF Reattach
  <1>5. version' \in [Idx -> 0 .. VMod - 1] /\ Ages'
    BY <1>2, <1>3, <1>4, AgesMove
  <1>6. Drop1(version[i]) % 2 = 1
    <2>1. version[i] \in 0 .. VMod - 1
      BY <1>1, <1>2
    <2>2. Drop1(version[i]) % 2 = 1 - (version[i] % 2)
      BY <2>1, BumpIs
    <2> QED BY <1>3, <2>2
  <1>7. \A j \in Idx : /\ version'[j] = IF j = i THEN Drop1(version[i]) ELSE version[j]
                       /\ u'[j] = IF j = i THEN v ELSE u[j]
    BY <1>1, <1>2, <1>4
  <1>8. 1 .. len - 1 \subseteq Idx
    BY <1>1 DEF Idx
  <1>9. Used' = Used \union {i} /\ i \notin Used
    BY <1>2, <1>3, <1>4, <1>6, <1>7, <1>8 DEF Used, Occupied
  <1>10. Free' = Free /\ i \notin Free
    BY <1>2, <1>4, <1>6, <1>7, <1>8 DEF Free, Occupied
  <1>11. Detached' = Detached \ {i}
    BY <1>2, <1>4, <1>6, <1>7, <1>8 DEF Detached, Occupied
  <1>12. Links'
    <2>1. \A j \in Free : u'[j] = u[j]
      BY <1>7, <1>8, <1>10 DEF Free
    <2> QED BY <1>4, <1>10, <2>1 DEF IInv, Links
  <1>13. Shape'
    <2>1. i # 0 /\ ~(i >= len)
      BY <1>1, <1>2
    <2> QED BY <1>2, <1>4, <1>7, <2>1 DEF IInv, Shape
  <1>14. CountsLive'
    <2>1. Cardinality(Used \union {i}) = Cardinality(Used) + 1
      BY <1>9, UsedFinite, FS_AddElement DEF IInv
    <2> QED BY <1>4, <1>9, <2>1 DEF IInv, CountsLive
  <1>15. TypeOK'
    <2>1. u' \in [Idx -> Values \union (0 .. MaxSlotsLen + 1)]
      BY <1>1, <1>4, Zenon
    <2>2. credit' \in Nat
      BY DEF Reattach, Spent, IInv, TypeOK
    <2> QED BY <1>1, <1>4, <1>5, <2>1, <2>2 DEF Reattach, IInv, TypeOK
  <1>16. DrainClears'
    BY DEF Reattach, Idle, NoSweep, DrainClears
  <1> QED BY <1>2, <1>5, <1>7, <1>9, <1>11, <1>12, <1>13, <1>14, <1>15, <1>16 DEF IInv

\* The reservations, the loops that only move a cursor, and stuttering.
LEMMA CursorInv ==
  ASSUME IInv, sweep' \in [kind : {"none", "retain", "drain"}, cur : 0 .. MaxSlotsLen],
         cap' \in Nat, credit' \in Nat, DrainClears',
         UNCHANGED <<version, u, len, free_head, num_elems, issued>>
  PROVE  IInv' /\ Detached' = Detached
  <1>1. Used' = Used /\ Free' = Free /\ Detached' = Detached
    BY DEF Used, Free, Detached, Occupied
  <1> QED BY <1>1 DEF IInv, TypeOK, Shape, Links, Ages, CountsLive

\* Removal steps, by key or by a sweep's cursor.
LEMMA RemovalInv ==
  ASSUME IInv, NEW i \in Used, RemoveFromSlot(i), UNCHANGED <<len, cap, issued, credit>>,
         \/ sweep = NoSweep /\ sweep' = sweep
         \/ i = sweep.cur /\ sweep' = [sweep EXCEPT !.cur = @ + 1]
  PROVE  IInv' /\ Detached' = Detached
  <1>1. /\ version' \in [Idx -> 0 .. VMod - 1]
        /\ u' \in [Idx -> Values \union (0 .. MaxSlotsLen + 1)]
        /\ free_head' \in 1 .. MaxSlotsLen /\ num_elems' \in Int
        /\ Shape' /\ Links' /\ Ages' /\ CountsLive'
        /\ Used' = Used \ {i} /\ Detached' = Detached
    BY FreesSlot
  <1>2. len \in 1 .. MaxSlotsLen /\ MaxSlotsLen \in Nat /\ i \in 1 .. len - 1
    BY LenAssumption DEF IInv, TypeOK, Used
  <1>3. sweep' \in [kind : {"none", "retain", "drain"}, cur : 0 .. MaxSlotsLen]
    BY <1>2 DEF IInv, TypeOK, NoSweep
  <1>4. DrainClears'
    BY <1>1, <1>2 DEF IInv, TypeOK, DrainClears, NoSweep, Used
  <1> QED BY <1>1, <1>3, <1>4 DEF IInv, TypeOK

\* Every step keeps the invariant and the detached slots.
LEMMA StepInv ==
  ASSUME IInv, [Next]_vars
  PROVE  IInv' /\ (\A i \in Detached :
                     i \in Detached' \/ (i \in Used' /\ version'[i] = Drop1(version[i])))
  <1>1. len \in 1 .. MaxSlotsLen /\ MaxSlotsLen \in Nat
        /\ sweep \in [kind : {"none", "retain", "drain"}, cur : 0 .. MaxSlotsLen]
        /\ cap \in Nat /\ credit \in Nat
    BY LenAssumption DEF IInv, TypeOK
  <1>2. ASSUME NEW v \in Values, InsertReuse(v) PROVE IInv' /\ Detached \subseteq Detached'
    <2>1. free_head \notin Detached
      BY <1>1, <1>2 DEF IInv, Links, Free, Detached, InsertReuse
    <2>2. Detached \subseteq Detached'
      <3> SUFFICES ASSUME NEW i \in Detached PROVE i \in Detached'
        OBVIOUS
      <3>1. i \in Idx /\ i # free_head /\ len' = len
        BY <1>1, <1>2, <2>1 DEF Detached, Idx, InsertReuse
      <3>2. version'[i] = version[i] /\ u'[i] = u[i]
        BY <1>2, <3>1 DEF InsertReuse, Stored, IInv, TypeOK
      <3> QED BY <3>1, <3>2 DEF Detached, Occupied
    <2> QED BY <1>2, <2>2, InsertReuseInv
  <1>3. ASSUME NEW v \in Values, InsertGrow(v) PROVE IInv' /\ Detached \subseteq Detached'
    <2>1. Detached \subseteq Detached'
      <3> SUFFICES ASSUME NEW i \in Detached PROVE i \in Detached'
        OBVIOUS
      <3>1. i \in Idx /\ i # len /\ i \in 1 .. len' - 1
        BY <1>1, <1>3 DEF Detached, Idx, InsertGrow
      <3>2. version'[i] = version[i] /\ u'[i] = u[i]
        BY <1>3, <3>1 DEF InsertGrow, Stored, IInv, TypeOK
      <3> QED BY <3>1, <3>2 DEF Detached, Occupied
    <2> QED BY <1>3, <2>1, InsertGrowInv
  <1>4. CASE InsertClosureFails \/ \E n \in 1 .. MaxSlotsLen : TryReserve(n)
    <2>1. /\ UNCHANGED <<version, u, len, free_head, num_elems, sweep, issued>>
          /\ cap' \in Nat /\ credit' \in Nat
      <3>1. \A n \in Int : Reserved(n) => cap' \in Nat
        BY <1>1 DEF Reserved, Grown, Larger
      <3>2. \A n \in Int : Needed(n) \in Int
        BY <1>1 DEF Needed, Larger, IInv, TypeOK
      <3>3. CASE InsertClosureFails
        BY <1>1, <3>1, <3>3 DEF InsertClosureFails
      <3>4. CASE \E n \in 1 .. MaxSlotsLen : TryReserve(n)
        BY <1>1, <3>1, <3>2, <3>4 DEF TryReserve
      <3> QED BY <1>4, <3>3, <3>4
    <2>2. DrainClears'
      BY <2>1 DEF IInv, DrainClears, Used, Occupied
    <2> QED BY <1>1, <2>1, <2>2, CursorInv
  <1>5. ASSUME NEW k \in IssuedKeys, Remove(k) PROVE IInv' /\ Detached' = Detached
    <2>1. k.idx \in Used
      BY <1>5, LiveIssued DEF Remove
    <2> QED BY <1>5, <2>1, RemovalInv DEF Remove, Idle
  <1>6. CASE \E kind \in {"retain", "drain"} : StartSweep(kind)
    <2>1. DrainClears'
      <3>1. \A i \in Used' : i >= 1
        BY <1>1, <1>6 DEF StartSweep, Used
      <3>2. sweep'.cur = 1
        BY <1>6 DEF StartSweep
      <3> QED BY <3>1, <3>2 DEF DrainClears
    <2>2. sweep' \in [kind : {"none", "retain", "drain"}, cur : 0 .. MaxSlotsLen]
      BY <1>1, <1>6 DEF StartSweep
    <2> QED BY <1>1, <1>6, <2>1, <2>2, CursorInv DEF StartSweep
  <1>7. CASE SweepRemove
    <2>1. sweep.cur \in Used
      <3>1. sweep.cur \in Idx /\ version[sweep.cur] % 2 = 1
        BY <1>1, <1>7 DEF SweepRemove, SweepOver, Occupied, Idx
      <3>2. sweep.cur # 0
        BY <3>1 DEF IInv, Shape
      <3> QED BY <1>1, <1>7, <3>1, <3>2 DEF SweepRemove, SweepOver, Used
    <2> QED BY <1>7, <2>1, RemovalInv DEF SweepRemove
  <1>8. CASE SweepSkip
    <2>1. DrainClears'
      BY <1>1, <1>8 DEF SweepSkip, IInv, DrainClears, Used, Occupied
    <2>2. sweep' \in [kind : {"none", "retain", "drain"}, cur : 0 .. MaxSlotsLen]
      BY <1>1, <1>8 DEF SweepSkip, SweepOver
    <2> QED BY <1>1, <1>8, <2>1, <2>2, CursorInv DEF SweepSkip
  <1>9. CASE EndSweep
    <2>1. DrainClears'
      BY <1>9 DEF EndSweep, DrainClears, NoSweep
    <2>2. sweep' \in [kind : {"none", "retain", "drain"}, cur : 0 .. MaxSlotsLen]
      BY <1>1, <1>9 DEF EndSweep, NoSweep
    <2> QED BY <1>1, <1>9, <2>1, <2>2, CursorInv DEF EndSweep
  <1>10. ASSUME NEW k \in IssuedKeys, Detach(k) PROVE IInv' /\ Detached \subseteq Detached'
    BY <1>10, DetachInv
  <1>11. ASSUME NEW k \in IssuedKeys, NEW v \in Values, Reattach(k, v)
         PROVE  IInv' /\ Detached' = Detached \ {k.idx} /\ k.idx \in Used'
                /\ version'[k.idx] = Drop1(version[k.idx])
    BY <1>11, ReattachInv
  <1>12. CASE UNCHANGED vars
    <2>1. DrainClears'
      BY <1>12 DEF vars, IInv, DrainClears, Used, Occupied
    <2> QED BY <1>1, <1>12, <2>1, CursorInv DEF vars
  <1> QED
    BY <1>2, <1>3, <1>4, <1>5, <1>6, <1>7, <1>8, <1>9, <1>10, <1>11, <1>12
       DEF Next, Insert, Others, Sweeps, Detaching

-------------------------------------------------------------------------------

\* The map's invariant holds however its operations are interleaved.
THEOREM Invariance == Spec => []IInv
  BY InitInv, StepInv, PTL DEF Spec

\* The types of the map's fields: indices stay below MAX_SLOTS_LEN, versions
\* within their width.
THEOREM TypeCorrect == Spec => []TypeOK
  <1>1. IInv => TypeOK
    BY DEF IInv
  <1> QED BY <1>1, Invariance, PTL

\* num_elems counts the slots in use, so the unwrapped checked_sub of removal
\* and of the iterators cannot panic (basic.rs:384-389, 527-533, 935-939).
THEOREM CountExact == Spec => []CountsLive
  <1>1. IInv => CountsLive
    BY DEF IInv
  <1> QED BY <1>1, Invariance, PTL

\* A removed key stays invalid for Half - 1 reuses of its slot, whatever happens
\* in between (basic.rs:214-217).
THEOREM StaleKeys == Spec => []StaleKeysStayInvalid
  <1>1. IInv => StaleKeysStayInvalid
    <2> SUFFICES ASSUME IInv, NEW i \in Idx, NEW n \in 1 .. Len(issued[i]),
                        n < Len(issued[i]), Len(issued[i]) - n < Half,
                        version[i] = issued[i][n]
                 PROVE  FALSE
      BY DEF StaleKeysStayInvalid, ContainsKey
    <2>1. /\ version[i] \in 0 .. VMod - 1 /\ Len(issued[i]) \in Nat /\ VMod \in Nat
      BY IssuedFacts, HalfAssumption DEF IInv, TypeOK, VMod
    <2>2. Ahead(version[i], issued[i][n]) = 0
      BY <2>1 DEF Ahead
    <2>3. Ahead(version[i], issued[i][n]) = 2 * (Len(issued[i]) - n) + (1 - (version[i] % 2))
      BY DEF IInv, Ages
    <2>4. version[i] % 2 \in {0, 1}
      BY <2>1
    <2> QED BY <2>1, <2>2, <2>3, <2>4
  <1> QED BY <1>1, Invariance, PTL

\* A drain leaves nothing in use behind its cursor (basic.rs:872-888).
THEOREM DrainComplete == Spec => []DrainClears
  <1>1. IInv => DrainClears
    BY DEF IInv
  <1> QED BY <1>1, Invariance, PTL

\* A detached slot is handed out by no operation but its reattachment
\* (basic.rs:472-518).
THEOREM DetachedReserved == Spec => DetachedStayReserved
  <1>1. IInv /\ [Next]_vars =>
          [\A i \in Detached : i \in Detached' \/ (i \in Used' /\ version'[i] = Drop1(version[i]))]_vars
    BY StepInv
  <1> QED BY <1>1, Invariance, PTL DEF Spec, DetachedStayReserved
-------------------------------------------------------------------------------

\* The slots behind the sentinel are used, detached or free, so at most len - 1
\* hold elements and the others can be counted.
LEMMA SlotsCounted ==
  ASSUME TypeOK
  PROVE  /\ Cardinality(Used) \in 0 .. len - 1
         /\ Cardinality(Free) \in Nat /\ Cardinality(Detached) \in Nat
         /\ Cardinality(Used) + Cardinality(Free) + Cardinality(Detached) = len - 1
  <1>1. len \in 1 .. MaxSlotsLen /\ MaxSlotsLen \in Nat
    BY LenAssumption DEF TypeOK
  <1>2. IsFiniteSet(1 .. len - 1) /\ Cardinality(1 .. len - 1) = len - 1
    BY <1>1, FS_Interval
  <1>3. Used \subseteq 1 .. len - 1 /\ Free \subseteq 1 .. len - 1 /\ Detached \subseteq 1 .. len - 1
    BY DEF Used, Free, Detached
  <1>4. IsFiniteSet(Used) /\ IsFiniteSet(Free) /\ IsFiniteSet(Detached)
    BY <1>2, <1>3, FS_Subset
  <1>5. /\ Cardinality(Used) \in Nat /\ Cardinality(Free) \in Nat /\ Cardinality(Detached) \in Nat
    BY <1>4, FS_CardinalityType
  <1>6. Cardinality(Free \union Detached) = Cardinality(Free) + Cardinality(Detached)
        /\ IsFiniteSet(Free \union Detached)
    <2>1. Free \intersect Detached = {}
      BY DEF Free, Detached
    <2>2. /\ IsFiniteSet(Free \union Detached)
          /\ Cardinality(Free \union Detached)
               = Cardinality(Free) + Cardinality(Detached) - Cardinality(Free \intersect Detached)
      BY <1>4, FS_Union
    <2>3. Cardinality(Free \intersect Detached) = 0
      BY <2>1, FS_EmptySet
    <2> QED BY <1>5, <2>2, <2>3
  <1>7. Cardinality(Used \union (Free \union Detached))
          = Cardinality(Used) + Cardinality(Free \union Detached)
    <2>1. Used \intersect (Free \union Detached) = {}
      BY DEF Used, Free, Detached
    <2>2. Cardinality(Free \union Detached) \in Nat
      BY <1>5, <1>6
    <2>3. Cardinality(Used \union (Free \union Detached))
            = Cardinality(Used) + Cardinality(Free \union Detached)
                - Cardinality(Used \intersect (Free \union Detached))
      BY <1>4, <1>6, FS_Union
    <2>4. Cardinality(Used \intersect (Free \union Detached)) = 0
      BY <2>1, FS_EmptySet
    <2> QED BY <1>5, <2>2, <2>3, <2>4
  <1>8. Used \union (Free \union Detached) = 1 .. len - 1
    BY <1>3 DEF Used, Free, Detached
  <1>9. Cardinality(Used) + Cardinality(Free) + Cardinality(Detached) = len - 1
    <2> DEFINE a == Cardinality(Used)
               b == Cardinality(Free)
               c == Cardinality(Detached)
    <2>1. Cardinality(Used \union (Free \union Detached)) = a + (b + c)
      BY <1>6, <1>7
    <2>2. a + (b + c) = len - 1
      BY <1>2, <1>8, <2>1
    <2> HIDE DEF a, b, c
    <2>3. a \in Nat /\ b \in Nat /\ c \in Nat
      BY <1>5 DEF a, b, c
    <2>4. a + b + c = len - 1
      BY <2>2, <2>3
    <2> QED BY <2>4 DEF a, b, c
  <1> QED BY <1>1, <1>5, <1>9

Counted == num_elems \in Nat /\ num_elems < len

\* The elements there and the elements promised fit into the slots allocated and
\* into the index space.
Room ==
  /\ len <= cap
  /\ num_elems + credit < cap
  /\ num_elems + credit < MaxSlotsLen

\* Granted room covers what was asked of it, and is never taken back.
LEMMA ReservedCovers ==
  ASSUME TypeOK, len <= cap, NEW n \in Nat, Reserved(n)
  PROVE  cap' \in Nat /\ cap' >= len + n /\ cap' >= cap
  <1>1. len \in Nat /\ cap \in Nat /\ MaxCapacity \in Nat
    BY LenAssumption, CapacityAssumption DEF TypeOK
  <1> QED BY <1>1 DEF Reserved, HasRoom, Grown, Larger

\* A reservation of a more elements asks for the slots beyond the l - 1 there.
LEMMA ReserveSums ==
  ASSUME NEW n \in Nat, NEW a \in Nat, NEW l \in Nat, NEW need \in Nat, NEW q \in Nat,
         l >= 1, need >= n + a - (l - 1), q >= l + need
  PROVE  n + a < q /\ l <= q
  OBVIOUS

\* Every step keeps the room.
LEMMA RoomStep ==
  ASSUME TypeOK, TypeOK', Counted, Counted', Room, [Next]_vars
  PROVE  Room'
  <1>1. /\ len \in 1 .. MaxSlotsLen /\ MaxSlotsLen \in Nat /\ cap \in Nat /\ credit \in Nat
        /\ num_elems \in Nat /\ num_elems < len
    BY LenAssumption DEF TypeOK, Counted
  <1>2. PICK m \in Nat, d \in Nat, l \in 1 .. MaxSlotsLen, q \in Nat :
          num_elems' = m /\ credit' = d /\ len' = l /\ cap' = q /\ m < l
    BY DEF TypeOK, Counted
  <1>3. ASSUME l <= q, q >= cap, m <= num_elems + 1, credit' = Spent
        PROVE  Room'
    <2>1. num_elems + credit < cap /\ num_elems + credit < MaxSlotsLen
      BY DEF Room
    <2>2. d = IF credit > 0 THEN credit - 1 ELSE 0
      BY <1>2, <1>3 DEF Spent
    <2>3. l <= q /\ q >= cap /\ m <= num_elems + 1 /\ m < l
      BY <1>2, <1>3
    <2>4. m + d < q /\ m + d < MaxSlotsLen
      <3>1. CASE credit > 0
        BY <1>1, <2>1, <2>2, <2>3, <3>1
      <3>2. CASE credit = 0
        BY <1>1, <2>2, <2>3, <3>2
      <3> QED BY <1>1, <3>1, <3>2
    <2> QED BY <1>2, <1>3, <2>4 DEF Room
  <1>4. ASSUME l <= q, q >= cap, m <= num_elems, credit' = credit
        PROVE  Room'
    <2>1. num_elems + credit < cap /\ num_elems + credit < MaxSlotsLen
      BY DEF Room
    <2>2. d = credit
      BY <1>2, <1>4
    <2>3. m + d < q /\ m + d < MaxSlotsLen
      BY <1>1, <1>4, <2>1, <2>2
    <2> QED BY <1>2, <1>4, <2>3 DEF Room
  <1>5. TypeOK /\ len <= cap
    BY DEF Room
  <1>6. ASSUME NEW v \in Values, InsertReuse(v) PROVE Room'
    BY <1>1, <1>2, <1>3, <1>5, <1>6 DEF InsertReuse, Stored
  <1>7. ASSUME NEW v \in Values, InsertGrow(v) PROVE Room'
    <2>1. cap' >= len + 1 /\ cap' >= cap
      BY <1>5, <1>7, ReservedCovers DEF InsertGrow
    <2>2. len' = len + 1 /\ num_elems' = num_elems + 1 /\ credit' = Spent
      BY <1>7 DEF InsertGrow, Stored
    <2> QED BY <1>1, <1>2, <1>3, <2>1, <2>2
  <1>8. CASE InsertClosureFails
    <2>1. cap' >= len + 1 /\ cap' >= cap
      BY <1>5, <1>8, ReservedCovers DEF InsertClosureFails
    <2> QED BY <1>1, <1>2, <1>4, <1>8, <2>1 DEF InsertClosureFails
  <1>9. ASSUME NEW n \in 1 .. MaxSlotsLen, TryReserve(n) PROVE Room'
    <2>1. Needed(n) \in Nat /\ Needed(n) >= num_elems + n - (len - 1)
      BY <1>1 DEF Needed, Larger
    <2>2. cap' >= len + Needed(n)
      BY <1>5, <1>9, <2>1, ReservedCovers DEF TryReserve
    <2>3. d = n /\ l = len /\ m = num_elems /\ num_elems + n < MaxSlotsLen - 1
      BY <1>1, <1>2, <1>9 DEF TryReserve, ReserveRejects
    <2>4. q >= len + Needed(n)
      BY <1>2, <2>2
    <2>5. num_elems + n < q /\ len <= q
      BY <1>1, <1>2, <2>1, <2>4, ReserveSums
    <2>6. m + d < q /\ m + d < MaxSlotsLen /\ l <= q
      BY <1>1, <2>3, <2>5
    <2> QED BY <1>2, <2>6 DEF Room
  <1>10. ASSUME NEW k \in IssuedKeys, NEW v \in Values, Reattach(k, v) PROVE Room'
    BY <1>1, <1>2, <1>3, <1>5, <1>10 DEF Reattach
  <1>11. ASSUME NEW k \in IssuedKeys, Remove(k) \/ Detach(k) PROVE Room'
    BY <1>1, <1>2, <1>4, <1>5, <1>11 DEF Remove, Detach, RemoveFromSlot
  <1>12. CASE SweepRemove
    BY <1>1, <1>2, <1>4, <1>5, <1>12 DEF SweepRemove, RemoveFromSlot
  <1>13. CASE (\E kind \in {"retain", "drain"} : StartSweep(kind)) \/ SweepSkip \/ EndSweep \/ UNCHANGED vars
    BY <1>1, <1>2, <1>4, <1>5, <1>13 DEF StartSweep, SweepSkip, EndSweep, vars
  <1> QED
    BY <1>6, <1>7, <1>8, <1>9, <1>10, <1>11, <1>12, <1>13
       DEF Next, Insert, Others, Sweeps, Detaching

\* What try_reserve has promised finds a free slot, a detached slot or spare
\* capacity for each element, for any number of slots and any allocator
\* (basic.rs:309-329).
THEOREM ReservationsKept == Spec => []ReservedOrDetached
  <1>1. Init => Room
    BY LenAssumption, CapacityAssumption DEF Init, Room
  <1>2. IInv /\ Room => ReservedOrDetached
    <2> SUFFICES ASSUME IInv, Room PROVE ReservedOrDetached
      OBVIOUS
    <2>1. len \in 1 .. MaxSlotsLen /\ MaxSlotsLen \in Nat /\ cap \in Nat /\ credit \in Nat
      BY LenAssumption DEF IInv, TypeOK
    <2>2. /\ num_elems \in Nat /\ Cardinality(Free) \in Nat /\ Cardinality(Detached) \in Nat
          /\ num_elems + Cardinality(Free) + Cardinality(Detached) = len - 1
      BY SlotsCounted, <2>1 DEF IInv, CountsLive
    <2> QED BY <2>1, <2>2 DEF Room, ReservedOrDetached
  <1>3. IInv => TypeOK /\ Counted
    <2> SUFFICES ASSUME IInv PROVE TypeOK /\ Counted
      OBVIOUS
    <2>1. TypeOK /\ num_elems = Cardinality(Used)
      BY DEF IInv, CountsLive
    <2>2. len \in 1 .. MaxSlotsLen /\ MaxSlotsLen \in Nat
      BY <2>1, LenAssumption DEF TypeOK
    <2>3. num_elems \in 0 .. len - 1
      BY <2>1, SlotsCounted
    <2> QED BY <2>1, <2>2, <2>3 DEF Counted
  <1>4. TypeOK /\ TypeOK' /\ Counted /\ Counted' /\ Room /\ [Next]_vars => Room'
    BY RoomStep
  <1>5. Spec => [](TypeOK /\ Counted)
    BY <1>3, Invariance, PTL
  <1> QED BY <1>1, <1>2, <1>4, <1>5, Invariance, PTL DEF Spec

-------------------------------------------------------------------------------
(***************************************************************************)
(* The freelist as a whole: it is walked from its head, so its end and what *)
(* it reaches are facts about a recursive function.  Such a function exists  *)
(* because one is exhibited, and what holds of each of its values is shown   *)
(* by counting up to them.                                                   *)
(***************************************************************************)

\* A set of naturals has a least element.
LEMMA LeastNumber ==
  ASSUME NEW T, T \subseteq Nat, T # {}
  PROVE \E x \in T : \A y \in T : x <= y
  <1>1. PICK x \in T : \A y \in T : ~(<<y,x>> \in OpToRel(<,Nat))
    BY NatLessThanWellFounded, WFMin
  <1>2. \A y \in T : <<y,x>> \in OpToRel(<,Nat) <=> y < x
    BY DEF OpToRel
  <1>3. \A y \in T : ~(y < x)
    BY <1>1, <1>2, Zenon
  <1> QED BY <1>3

\* Induction, over the set of numbers for which a fact holds.
LEMMA Counting ==
  ASSUME NEW T, 0 \in T, \A n \in Nat : n \in T => n + 1 \in T
  PROVE  Nat \subseteq T
  <1> SUFFICES ASSUME Nat \ T # {} PROVE FALSE
    OBVIOUS
  <1>1. PICK x \in Nat \ T : \A y \in Nat \ T : x <= y
    BY LeastNumber
  <1>2. x # 0 /\ x - 1 \in Nat
    BY <1>1
  <1>3. x - 1 \in T
    BY <1>1, <1>2
  <1> QED BY <1>1, <1>2, <1>3

\* f is the result of applying F n times to a, for each n up to m.
IteratesTo(F, a, S, m) ==
  \E f \in [0 .. m -> S] : f[0] = a /\ \A n \in 1 .. m : f[n] = F[f[n - 1]]
MapsInto(F, S) == F \in [S -> S]

\* The iterates of a function exist as a function.
LEMMA Iterates ==
  ASSUME NEW S, NEW F, NEW a, MapsInto(F, S), a \in S
  PROVE  \A m \in Nat : IteratesTo(F, a, S, m)
  <1> USE DEF MapsInto, IteratesTo
  <1> DEFINE Good(k, f) == f[0] = a /\ \A n \in 1 .. k : f[n] = F[f[n - 1]]
             T == {k \in Nat : \E f \in [0 .. k -> S] : Good(k, f)}
  <1>1. 0 \in T
    <2>1. [n \in 0 .. 0 |-> a] \in [0 .. 0 -> S] /\ Good(0, [n \in 0 .. 0 |-> a])
      OBVIOUS
    <2> QED BY <2>1
  <1>2. ASSUME NEW k \in Nat, k \in T PROVE k + 1 \in T
    <2>2. PICK f \in [0 .. k -> S] : Good(k, f)
      BY <1>2
    <2> DEFINE g == [n \in 0 .. k + 1 |-> IF n = k + 1 THEN F[f[k]] ELSE f[n]]
    <2>3. g \in [0 .. k + 1 -> S]
      BY <2>2
    <2>4. Good(k + 1, g)
      BY <2>2
    <2> QED BY <2>3, <2>4
  <1>3. Nat \subseteq T
    <2> HIDE DEF T
    <2> QED BY <1>1, <1>2, Counting
  <1> QED BY <1>3

\* The freelist has an end: a rank falls along its links.
Acyclic == \E rank \in [Idx -> Nat] : \A i \in Free : u[i] \in Free => rank[u[i]] < rank[i]

\* An operation that takes one slot off the freelist, or leaves the list alone.
LEMMA ListShrinks ==
  ASSUME IInv, Acyclic, NEW i \in Idx, NEW w, NEW ver,
         u' = [u EXCEPT ![i] = w], version' = [version EXCEPT ![i] = ver],
         len' = len \/ (i = len /\ len' = len + 1), i \notin Free'
  PROVE  Acyclic'
  <1>1. /\ version \in [Idx -> 0 .. VMod - 1]
        /\ u \in [Idx -> Values \union (0 .. MaxSlotsLen + 1)]
        /\ len \in 1 .. MaxSlotsLen /\ MaxSlotsLen \in Nat
    BY LenAssumption DEF IInv, TypeOK
  <1>2. \A j \in Free' : j \in Free /\ j \in Idx /\ u'[j] = u[j]
    <2> SUFFICES ASSUME NEW j \in Free' PROVE j \in Free /\ j \in Idx /\ u'[j] = u[j]
      OBVIOUS
    <2>0. j # i
      OBVIOUS
    <2>1. j # i /\ j \in 1 .. len - 1
      <3>1. j \in 1 .. len' - 1
        BY DEF Free
      <3> QED BY <1>1, <2>0, <3>1
    <2>2. j \in Idx
      BY <1>1, <2>1, LenAssumption DEF Idx
    <2>3. version'[j] = version[j] /\ u'[j] = u[j]
      BY <1>1, <2>1, <2>2
    <2> QED BY <2>1, <2>2, <2>3 DEF Free, Occupied
  <1>3. PICK rank \in [Idx -> Nat] : \A j \in Free : u[j] \in Free => rank[u[j]] < rank[j]
    BY DEF Acyclic
  <1>4. \A j \in Free' : u'[j] \in Free' => rank[u'[j]] < rank[j]
    BY <1>2, <1>3
  <1> QED BY <1>3, <1>4 DEF Acyclic

\* A slot that is freed is put in front of the freelist.
LEMMA ListGrows ==
  ASSUME IInv, Acyclic, NEW i \in Used, RemoveFromSlot(i), len' = len
  PROVE  Acyclic'
  <1>1. /\ version \in [Idx -> 0 .. VMod - 1]
        /\ u \in [Idx -> Values \union (0 .. MaxSlotsLen + 1)]
        /\ len \in 1 .. MaxSlotsLen /\ MaxSlotsLen \in Nat
    BY LenAssumption DEF IInv, TypeOK
  <1>2. i \in Idx /\ i \in 1 .. len - 1 /\ i \notin Free
    BY <1>1 DEF Used, Free, Occupied, Idx
  <1>3. \A j \in Idx : /\ version'[j] = IF j = i THEN Bump(version[i]) ELSE version[j]
                       /\ u'[j] = IF j = i THEN free_head ELSE u[j]
    BY <1>1, <1>2 DEF RemoveFromSlot
  <1>4. \A j \in Free' : j \in Idx /\ (j = i \/ j \in Free)
    <2> SUFFICES ASSUME NEW j \in Free', j # i PROVE j \in Idx /\ j \in Free
      BY <1>2
    <2>1. j \in 1 .. len - 1
      BY DEF Free
    <2>2. j \in Idx
      BY <1>1, <2>1 DEF Idx
    <2> QED BY <1>3, <2>1, <2>2 DEF Free, Occupied
  <1>5. PICK rank \in [Idx -> Nat] : \A j \in Free : u[j] \in Free => rank[u[j]] < rank[j]
    BY DEF Acyclic
  <1>6. free_head \in Free \union {len} /\ \A j \in Free : u[j] \in Free \union {len}
    BY DEF IInv, Links
  <1> DEFINE top == IF free_head \in Free THEN rank[free_head] + 1 ELSE 0
             rnk == [rank EXCEPT ![i] = top]
  <1>7. Free \subseteq Idx
    BY <1>1 DEF Free, Idx
  <1>8. top \in Nat
    BY <1>5, <1>7
  <1>9. rnk \in [Idx -> Nat] /\ rnk[i] = top /\ \A j \in Idx : j # i => rnk[j] = rank[j]
    BY <1>2, <1>5, <1>8
  <1>10. \A j \in Free' : u'[j] \in Free' => rnk[u'[j]] < rnk[j]
    <2> SUFFICES ASSUME NEW j \in Free', u'[j] \in Free' PROVE rnk[u'[j]] < rnk[j]
      OBVIOUS
    <2> HIDE DEF rnk
    <2>1. CASE j = i
      <3>1. u'[j] = free_head /\ free_head # i
        BY <1>2, <1>3, <1>6, <2>1
      <3>2. free_head \in Free /\ free_head \in Idx
        BY <1>4, <3>1
      <3>3. top = rank[free_head] + 1 /\ rank[free_head] \in Nat
        BY <1>5, <3>2
      <3> QED BY <1>9, <2>1, <3>1, <3>2, <3>3
    <2>2. CASE j # i
      <3>1. j \in Free /\ j \in Idx /\ u'[j] = u[j]
        BY <1>3, <1>4, <2>2
      <3>2. u[j] # i
        BY <1>2, <1>6, <3>1
      <3>3. u[j] \in Free /\ u[j] \in Idx
        BY <1>4, <3>1, <3>2
      <3> QED BY <1>5, <1>9, <2>2, <3>1, <3>2, <3>3
    <2> QED BY <2>1, <2>2
  <1> QED BY <1>9, <1>10 DEF Acyclic

\* Every step keeps the freelist free of cycles.
LEMMA AcyclicStep == ASSUME IInv, IInv', Acyclic, [Next]_vars PROVE Acyclic'
  <1>1. /\ version \in [Idx -> 0 .. VMod - 1]
        /\ u \in [Idx -> Values \union (0 .. MaxSlotsLen + 1)]
        /\ len \in 1 .. MaxSlotsLen /\ MaxSlotsLen \in Nat
    BY LenAssumption DEF IInv, TypeOK
  <1>2. \A v \in 0 .. VMod - 1 : v % 2 \in {0, 1}
    BY BumpIs
  <1>3. ASSUME NEW v \in Values, InsertReuse(v) PROVE Acyclic'
    <2> DEFINE i == free_head
    <2>1. i \in Idx /\ i \in Free /\ version[i] % 2 = 0
      BY <1>1, <1>2, <1>3 DEF InsertReuse, IInv, Links, Free, Idx, Occupied
    <2>2. u' = [u EXCEPT ![i] = v] /\ version' = [version EXCEPT ![i] = Odd(version[i])] /\ len' = len
          /\ issued' = [issued EXCEPT ![i] = Append(@, Odd(version[i]))]
      BY <1>3 DEF InsertReuse, Stored
    <2>3. Odd(version[i]) % 2 = 1
      BY <2>1, <2>2, IssuesKey
    <2>4. i \notin Free'
      BY <1>1, <2>1, <2>2, <2>3 DEF Free, Occupied
    <2> HIDE DEF i
    <2> QED BY <2>1, <2>2, <2>4, ListShrinks
  <1>4. ASSUME NEW v \in Values, InsertGrow(v) PROVE Acyclic'
    <2>1. len \in Idx
      BY <1>1, <1>4 DEF InsertGrow, Idx
    <2>2. u' = [u EXCEPT ![len] = v] /\ version' = [version EXCEPT ![len] = 1] /\ len' = len + 1
      BY <1>4 DEF InsertGrow, Stored
    <2>3. len \notin Free'
      BY <1>1, <2>1, <2>2 DEF Free, Occupied
    <2> QED BY <2>1, <2>2, <2>3, ListShrinks
  <1>5. CASE InsertClosureFails \/ (\E n \in 1 .. MaxSlotsLen : TryReserve(n)) \/ SweepSkip \/ EndSweep
             \/ (\E kind \in {"retain", "drain"} : StartSweep(kind)) \/ UNCHANGED vars
    <2>1. UNCHANGED <<version, u, len>>
      BY <1>5 DEF InsertClosureFails, TryReserve, SweepSkip, EndSweep, StartSweep, vars
    <2>2. Free' = Free
      BY <2>1 DEF Free, Occupied
    <2> QED BY <2>1, <2>2 DEF Acyclic
  <1>6. ASSUME NEW k \in IssuedKeys, Remove(k) PROVE Acyclic'
    <2>1. k.idx \in Used
      BY <1>6, LiveIssued DEF Remove
    <2> QED BY <1>6, <2>1, ListGrows DEF Remove
  <1>7. CASE SweepRemove
    <2>1. sweep.cur \in Used
      <3>1. sweep.cur \in Idx /\ version[sweep.cur] % 2 = 1
        BY <1>1, <1>7 DEF SweepRemove, SweepOver, Occupied, Idx, IInv, TypeOK
      <3>2. sweep.cur # 0
        BY <3>1 DEF IInv, Shape
      <3> QED BY <1>1, <1>7, <3>1, <3>2 DEF SweepRemove, SweepOver, Used, Idx
    <2> QED BY <1>7, <2>1, ListGrows DEF SweepRemove
  <1>8. ASSUME NEW k \in IssuedKeys, Detach(k) PROVE Acyclic'
    <2>1. k.idx \in Idx
      BY LiveIssued
    <2>2. /\ u' = [u EXCEPT ![k.idx] = Dangling] /\ len' = len
          /\ version' = [version EXCEPT ![k.idx] = Bump(version[k.idx])]
      BY <1>8 DEF Detach
    <2>3. k.idx \notin Free'
      BY <1>1, <2>1, <2>2 DEF Free
    <2> QED BY <2>1, <2>2, <2>3, ListShrinks
  <1>9. ASSUME NEW k \in IssuedKeys, NEW v \in Values, Reattach(k, v) PROVE Acyclic'
    <2>1. k.idx \in Idx
      BY LiveIssued
    <2>2. /\ u' = [u EXCEPT ![k.idx] = v] /\ len' = len
          /\ version' = [version EXCEPT ![k.idx] = Drop1(version[k.idx])]
      BY <1>9 DEF Reattach
    <2>3. k.idx \notin Free'
      <3>1. k.idx \in Used'
        BY <1>9, ReattachInv
      <3> QED BY <3>1 DEF Used, Free
    <2> QED BY <2>1, <2>2, <2>3, ListShrinks
  <1> QED
    BY <1>3, <1>4, <1>5, <1>6, <1>7, <1>8, <1>9
       DEF Next, Insert, Others, Sweeps, Detaching

\* The freelist's walk exists: each link is either followed or the walk stays.
LEMMA ChainIs ==
  ASSUME IInv
  PROVE  /\ Chain \in [0 .. MaxSlotsLen -> Free \union {len}]
         /\ Chain[0] = free_head
         /\ \A n \in 1 .. MaxSlotsLen :
              Chain[n] = IF Chain[n - 1] \in Free THEN u[Chain[n - 1]] ELSE Chain[n - 1]
  <1> DEFINE S == Free \union {len}
             F == [x \in S |-> IF x \in Free THEN u[x] ELSE x]
             Walk(f) == [n \in 0 .. MaxSlotsLen |->
                           IF n = 0 THEN free_head
                           ELSE IF f[n - 1] \in Free THEN u[f[n - 1]] ELSE f[n - 1]]
  <1>1. MaxSlotsLen \in Nat
    BY LenAssumption
  <1>2. F \in [S -> S] /\ free_head \in S
    BY DEF IInv, Links
  <1>3. PICK f \in [0 .. MaxSlotsLen -> S] :
          f[0] = free_head /\ \A n \in 1 .. MaxSlotsLen : f[n] = F[f[n - 1]]
    <2> HIDE DEF F, S
    <2>1. MapsInto(F, S) /\ free_head \in S
      BY <1>2 DEF MapsInto
    <2>2. IteratesTo(F, free_head, S, MaxSlotsLen)
      BY <1>1, <2>1, Iterates
    <2> QED BY <2>2 DEF IteratesTo
  <1>4. \A n \in 1 .. MaxSlotsLen : n - 1 \in 0 .. MaxSlotsLen
    BY <1>1
  <1>5. \A n \in 1 .. MaxSlotsLen : f[n] = IF f[n - 1] \in Free THEN u[f[n - 1]] ELSE f[n - 1]
    BY <1>3, <1>4
  <1>6. f = Walk(f)
    <2>1. \A n \in 0 .. MaxSlotsLen : f[n] = Walk(f)[n]
      BY <1>1, <1>3, <1>5
    <2> QED BY <1>3, <2>1
  <1>7. Chain = Walk(Chain)
    <2>1. \E g : g = Walk(g)
      BY <1>6
    <2>2. Chain = CHOOSE g : g = Walk(g)
      BY DEF Chain
    <2> HIDE DEF Walk
    <2> QED BY <2>1, <2>2
  <1>8. /\ Chain[0] = free_head
        /\ \A n \in 1 .. MaxSlotsLen :
             Chain[n] = IF Chain[n - 1] \in Free THEN u[Chain[n - 1]] ELSE Chain[n - 1]
    <2>1. \A n \in 0 .. MaxSlotsLen : Chain[n] = Walk(Chain)[n]
      BY <1>7
    <2> QED BY <1>1, <2>1
  <1>9. \A n \in 0 .. MaxSlotsLen : Chain[n] \in S
    <2> DEFINE T == {n \in Nat : n <= MaxSlotsLen => Chain[n] \in S}
    <2>1. 0 \in T
      BY <1>1, <1>2, <1>8
    <2>2. ASSUME NEW n \in Nat, n \in T PROVE n + 1 \in T
      <3> SUFFICES ASSUME n + 1 <= MaxSlotsLen PROVE Chain[n + 1] \in S
        OBVIOUS
      <3>1. Chain[n] \in S /\ n + 1 \in 1 .. MaxSlotsLen /\ (n + 1) - 1 = n
        BY <1>1, <2>2
      <3>2. Chain[n + 1] = IF Chain[n] \in Free THEN u[Chain[n]] ELSE Chain[n]
        BY <1>8, <3>1
      <3> QED BY <3>1, <3>2 DEF IInv, Links
    <2>3. Nat \subseteq T
      <3> HIDE DEF T
      <3> QED BY <2>1, <2>2, Counting
    <2> QED BY <1>1, <2>3
  <1>10. Chain \in [0 .. MaxSlotsLen -> S]
    <2>1. Chain = [n \in 0 .. MaxSlotsLen |-> Chain[n]]
      BY <1>7
    <2> HIDE DEF S
    <2> QED BY <1>9, <2>1
  <1> QED BY <1>8, <1>10

\* A walk that never left the freelist would visit more slots than there are.
LEMMA ChainEnds ==
  ASSUME IInv, Acyclic
  PROVE  \E n \in 0 .. MaxSlotsLen : Chain[n] = len
  <1> SUFFICES ASSUME \A n \in 0 .. MaxSlotsLen : Chain[n] # len PROVE FALSE
    OBVIOUS
  <1>1. MaxSlotsLen \in Nat /\ len \in 1 .. MaxSlotsLen
    BY LenAssumption DEF IInv, TypeOK
  <1>2. Chain \in [0 .. MaxSlotsLen -> Free \union {len}]
    BY ChainIs
  <1>3. Chain \in [0 .. MaxSlotsLen -> Free]
    BY <1>2
  <1>4. \A n \in 1 .. MaxSlotsLen : Chain[n] = u[Chain[n - 1]]
    <2>1. \A n \in 1 .. MaxSlotsLen : n - 1 \in 0 .. MaxSlotsLen
      BY <1>1
    <2> QED BY <1>3, <2>1, ChainIs
  <1>5. PICK rank \in [Idx -> Nat] : \A i \in Free : u[i] \in Free => rank[u[i]] < rank[i]
    BY DEF Acyclic
  <1> DEFINE r == [n \in 0 .. MaxSlotsLen |-> rank[Chain[n]]]
  <1>6. r \in [0 .. MaxSlotsLen -> Nat]
    <2>1. Free \subseteq Idx
      BY <1>1 DEF Free, Idx
    <2> QED BY <1>3, <1>5, <2>1
  <1>7. \A n \in 0 .. MaxSlotsLen - 1 : r[n + 1] < r[n]
    <2> SUFFICES ASSUME NEW n \in 0 .. MaxSlotsLen - 1 PROVE r[n + 1] < r[n]
      OBVIOUS
    <2>1. n \in 0 .. MaxSlotsLen /\ n + 1 \in 1 .. MaxSlotsLen /\ n + 1 \in 0 .. MaxSlotsLen
          /\ (n + 1) - 1 = n
      BY <1>1
    <2>2. Chain[n + 1] = u[Chain[n]] /\ Chain[n] \in Free /\ Chain[n + 1] \in Free
      BY <1>3, <1>4, <2>1
    <2> QED BY <1>5, <2>1, <2>2
  <1> HIDE DEF r
  <1> DEFINE T == {d \in Nat : \A n \in Nat : n + d + 1 <= MaxSlotsLen => r[n + d + 1] < r[n]}
  <1>8. Nat \subseteq T
    <2>1. 0 \in T
      BY <1>1, <1>7
    <2>2. ASSUME NEW d \in Nat, d \in T PROVE d + 1 \in T
      <3> SUFFICES ASSUME NEW n \in Nat, n + (d + 1) + 1 <= MaxSlotsLen
                   PROVE  r[n + (d + 1) + 1] < r[n]
        OBVIOUS
      <3> DEFINE m == n + d + 1
      <3>1. m \in 0 .. MaxSlotsLen - 1 /\ n \in 0 .. MaxSlotsLen /\ m + 1 = n + (d + 1) + 1
            /\ m + 1 \in 0 .. MaxSlotsLen /\ m \in 0 .. MaxSlotsLen /\ m <= MaxSlotsLen
        BY <1>1
      <3>2. r[m] < r[n]
        BY <2>2, <3>1
      <3> HIDE DEF m
      <3>3. r[m + 1] < r[m]
        BY <1>7, <3>1
      <3>4. r[m + 1] \in Nat /\ r[m] \in Nat /\ r[n] \in Nat
        BY <1>6, <3>1
      <3>5. r[m + 1] < r[n]
        BY <3>2, <3>3, <3>4
      <3> QED BY <3>1, <3>5
    <2> HIDE DEF T
    <2> QED BY <2>1, <2>2, Counting
  <1>9. \A x, y \in 0 .. MaxSlotsLen : x < y => r[y] < r[x]
    <2> SUFFICES ASSUME NEW x \in 0 .. MaxSlotsLen, NEW y \in 0 .. MaxSlotsLen, x < y
                 PROVE  r[y] < r[x]
      OBVIOUS
    <2>1. y - x - 1 \in Nat /\ x \in Nat /\ x + (y - x - 1) + 1 = y
      BY <1>1
    <2>2. y - x - 1 \in T
      BY <1>8, <2>1
    <2>3. x + (y - x - 1) + 1 <= MaxSlotsLen => r[x + (y - x - 1) + 1] < r[x]
      BY <2>1, <2>2
    <2> QED BY <1>1, <2>1, <2>3
  <1>10. \A x, y \in 0 .. MaxSlotsLen : x # y => Chain[x] # Chain[y]
    <2> SUFFICES ASSUME NEW x \in 0 .. MaxSlotsLen, NEW y \in 0 .. MaxSlotsLen, x # y,
                        Chain[x] = Chain[y]
                 PROVE  FALSE
      OBVIOUS
    <2>1. r[x] = r[y]
      BY DEF r
    <2>2. r[x] \in Nat /\ r[y] \in Nat
      BY <1>6
    <2>3. x < y \/ y < x
      BY <1>1
    <2> QED BY <1>9, <2>1, <2>2, <2>3
  <1>11. IsFiniteSet(0 .. MaxSlotsLen) /\ Cardinality(0 .. MaxSlotsLen) = MaxSlotsLen + 1
    BY <1>1, FS_Interval
  <1>12. IsFiniteSet(Free) /\ Cardinality(Free) <= len - 1 /\ Cardinality(Free) \in Nat
    <2>1. IsFiniteSet(1 .. len - 1) /\ Cardinality(1 .. len - 1) = len - 1
      BY <1>1, FS_Interval
    <2>2. Free \subseteq 1 .. len - 1
      BY DEF Free
    <2> QED BY <2>1, <2>2, FS_Subset, FS_CardinalityType
  <1>13. Cardinality(Free) < Cardinality(0 .. MaxSlotsLen)
    BY <1>1, <1>11, <1>12
  <1> QED BY <1>3, <1>10, <1>11, <1>12, <1>13, FS_PigeonHole

\* The walk finds its end and every free slot, and nothing else.
LEMMA ChainComplete == ASSUME IInv, Acyclic PROVE FreeChain
  <1> DEFINE C == {Chain[n] : n \in 0 .. MaxSlotsLen}
  <1>1. MaxSlotsLen \in Nat /\ len \in 1 .. MaxSlotsLen
    BY LenAssumption DEF IInv, TypeOK
  <1>2. C \subseteq Free \union {len} /\ len \in C
    BY ChainIs, ChainEnds
  <1>3. ASSUME NEW x \in Free, u[x] \in C PROVE x \in C
    <2> DEFINE N == {n \in 0 .. MaxSlotsLen : Chain[n] = u[x]}
    <2>1. N \subseteq Nat /\ N # {}
      BY <1>1, <1>3
    <2>2. PICK n \in N : \A m \in N : n <= m
      <3> HIDE DEF N
      <3> QED BY <2>1, LeastNumber
    <2>3. n # 0
      BY <2>2, ChainIs DEF IInv, Links
    <2>4. n \in 1 .. MaxSlotsLen /\ n - 1 \in 0 .. MaxSlotsLen /\ ~(n <= n - 1)
      BY <1>1, <2>2, <2>3
    <2>5. Chain[n - 1] # u[x]
      BY <2>2, <2>4
    <2>6. Chain[n] = IF Chain[n - 1] \in Free THEN u[Chain[n - 1]] ELSE Chain[n - 1]
      BY <2>4, ChainIs
    <2>7. Chain[n - 1] \in Free /\ u[Chain[n - 1]] = u[x]
      BY <2>2, <2>5, <2>6
    <2>8. Chain[n - 1] = x
      BY <2>7 DEF IInv, Links
    <2> QED BY <2>4, <2>8
  <1>4. Free \subseteq C
    <2> SUFFICES ASSUME Free \ C # {} PROVE FALSE
      OBVIOUS
    <2>1. PICK rank \in [Idx -> Nat] : \A i \in Free : u[i] \in Free => rank[u[i]] < rank[i]
      BY DEF Acyclic
    <2>2. Free \subseteq Idx
      BY <1>1 DEF Free, Idx
    <2> DEFINE R == {rank[i] : i \in Free \ C}
    <2> HIDE DEF C
    <2>3. R \subseteq Nat /\ R # {}
      BY <2>1, <2>2
    <2>4. PICK q \in R : \A y \in R : q <= y
      <3> HIDE DEF R
      <3> QED BY <2>3, LeastNumber
    <2>5. PICK x \in Free \ C : q = rank[x]
      BY <2>4
    <2>6. u[x] \notin C
      BY <1>3, <2>5
    <2>7. u[x] \in Free \ C
      BY <1>2, <2>5, <2>6 DEF IInv, Links
    <2>8. rank[u[x]] < rank[x] /\ rank[u[x]] \in Nat /\ rank[x] \in Nat
      BY <2>1, <2>2, <2>5, <2>7
    <2>9. rank[u[x]] \in R
      BY <2>7
    <2> QED BY <2>4, <2>5, <2>8, <2>9
  <1> QED BY <1>2, <1>4 DEF FreeChain

\* The freelist reaches each free slot and ends at the end of the slots, for any
\* number of slots and any sequence of operations (basic.rs:375-391, 523-536).
THEOREM FreelistComplete == Spec => []FreeChain
  <1>1. Init => Acyclic
    <2> SUFFICES ASSUME Init PROVE Acyclic
      OBVIOUS
    <2>1. Free = {}
      BY DEF Init, Free
    <2>2. [i \in Idx |-> 0] \in [Idx -> Nat]
      OBVIOUS
    <2> QED BY <2>1, <2>2 DEF Acyclic
  <1>2. IInv /\ IInv' /\ Acyclic /\ [Next]_vars => Acyclic'
    BY AcyclicStep
  <1>3. IInv /\ Acyclic => FreeChain
    BY ChainComplete
  <1> QED BY <1>1, <1>2, <1>3, Invariance, PTL DEF Spec

-------------------------------------------------------------------------------

\* Two keys taken one after the other: at most two iterations.
Step1(k) == IF k.idx < len /\ version[k.idx] = k.version
            THEN [ver |-> [version EXCEPT ![k.idx] = Flip(@)], n |-> 1]
            ELSE [ver |-> version, n |-> 0]
Step2(s, k) == IF s.n = 1 /\ k.idx < len /\ s.ver[k.idx] = k.version
               THEN [ver |-> [s.ver EXCEPT ![k.idx] = Flip(@)], n |-> 2]
               ELSE s

\* The loop over two keys, unrolled.
LEMMA TakenIs ==
  ASSUME NEW k1, NEW k2
  PROVE  Taken(<<k1, k2>>) = Step2(Step1(k1), k2)
  <1> DEFINE ks == <<k1, k2>>
             W(f) == [n \in 0 .. Len(ks) |->
                        IF n = 0 THEN [ver |-> version, n |-> 0]
                        ELSE LET s == f[n - 1]  k == ks[n]
                             IN IF s.n = n - 1 /\ k.idx < len /\ s.ver[k.idx] = k.version
                                THEN [ver |-> [s.ver EXCEPT ![k.idx] = Flip(@)], n |-> n]
                                ELSE s]
             s0 == [ver |-> version, n |-> 0]
             s1 == Step1(k1)
             s2 == Step2(s1, k2)
             g == [n \in 0 .. 2 |-> IF n = 0 THEN s0 ELSE IF n = 1 THEN s1 ELSE s2]
  <1>1. Len(ks) = 2 /\ ks[1] = k1 /\ ks[2] = k2 /\ 0 .. 2 = {0, 1, 2}
    OBVIOUS
  <1>2. ASSUME NEW f PROVE
          /\ W(f)[0] = s0
          /\ W(f)[1] = IF f[0].n = 0 /\ k1.idx < len /\ f[0].ver[k1.idx] = k1.version
                       THEN [ver |-> [f[0].ver EXCEPT ![k1.idx] = Flip(@)], n |-> 1] ELSE f[0]
          /\ W(f)[2] = Step2(f[1], k2)
    BY <1>1 DEF Step2
  <1>3. ASSUME NEW f, f[0] = s0 PROVE W(f)[1] = s1
    BY <1>2, <1>3 DEF Step1
  <1>4. g = W(g)
    <2>1. g[0] = s0 /\ g[1] = s1 /\ g[2] = s2
      BY <1>1
    <2>2. W(g)[0] = s0 /\ W(g)[1] = s1 /\ W(g)[2] = s2
      <3> HIDE DEF W, g, s0, s1
      <3> QED BY <1>2, <1>3, <2>1
    <2>3. W(g) = [n \in {0, 1, 2} |-> W(g)[n]]
      BY <1>1
    <2>4. g = [n \in {0, 1, 2} |-> g[n]]
      BY <1>1
    <2> HIDE DEF W, g, s0, s1, s2
    <2>5. \A n \in {0, 1, 2} : W(g)[n] = g[n]
      BY <2>1, <2>2
    <2> QED BY <2>3, <2>4, <2>5
  <1> DEFINE at == CHOOSE f : f = W(f)
  <1>5. at = W(at)
    <2> HIDE DEF W
    <2> QED BY <1>4
  <1>6. Taken(ks) = at[Len(ks)]
    BY DEF Taken
  <1>7. at[0] = s0 /\ at[1] = s1 /\ at[2] = s2
    <2> HIDE DEF W, at, s0, s1
    <2>1. at[0] = s0
      BY <1>2, <1>5
    <2>2. at[1] = s1
      BY <1>3, <1>5, <2>1
    <2> QED BY <1>2, <1>5, <2>1, <2>2
  <1> QED BY <1>1, <1>6, <1>7

\* The versions v with that of slot i flipped.
FlippedAt(v, i) == [v EXCEPT ![i] = Flip(@)]

\* The loop that restores the versions, unrolled.
LEMMA FlippedBackIs ==
  ASSUME NEW k1, NEW k2, NEW s, s.n \in {0, 1, 2}
  PROVE  FlippedBack(<<k1, k2>>, s) =
           IF s.n = 0 THEN s.ver
           ELSE IF s.n = 1 THEN FlippedAt(s.ver, k1.idx)
           ELSE FlippedAt(FlippedAt(s.ver, k1.idx), k2.idx)
  <1> DEFINE ks == <<k1, k2>>
             v0 == s.ver
             v1 == FlippedAt(v0, k1.idx)
             v2 == FlippedAt(v1, k2.idx)
             Entry(f, n) == IF n = 0 THEN v0 ELSE FlippedAt(f[n - 1], ks[n].idx)
             W(f) == [n \in 0 .. s.n |-> Entry(f, n)]
             Val(n) == IF n = 0 THEN v0 ELSE IF n = 1 THEN v1 ELSE v2
             g == [n \in 0 .. s.n |-> Val(n)]
  <1>1. \A n \in 0 .. s.n : n \in {0, 1, 2} /\ (n > 0 => n - 1 \in 0 .. s.n)
    OBVIOUS
  <1>2. \A f : /\ Entry(f, 0) = v0
                /\ Entry(f, 1) = FlippedAt(f[0], k1.idx)
                /\ Entry(f, 2) = FlippedAt(f[1], k2.idx)
    OBVIOUS
  <1>3. Val(0) = v0 /\ Val(1) = v1 /\ Val(2) = v2
    OBVIOUS
  <1>4. g = W(g)
    <2>1. \A n \in 0 .. s.n : g[n] = Val(n)
      OBVIOUS
    <2>2. ASSUME NEW n \in 0 .. s.n PROVE Val(n) = Entry(g, n)
      <3> HIDE DEF Entry, Val, g, v0
      <3>1. n = 0 \/ n = 1 \/ n = 2
        BY <1>1
      <3>2. n = 1 => 0 \in 0 .. s.n
        BY <1>1
      <3>3. n = 2 => 1 \in 0 .. s.n
        BY <1>1
      <3> QED BY <1>2, <1>3, <2>1, <3>1, <3>2, <3>3
    <2> HIDE DEF Entry, Val
    <2> QED BY <2>2
  <1> DEFINE at == CHOOSE f : f = W(f)
  <1>5. at = W(at)
    <2> HIDE DEF W
    <2> QED BY <1>4
  <1>6. FlippedBack(ks, s) = at[s.n]
    BY DEF FlippedBack, FlippedAt
  <1>7. \A n \in 0 .. s.n : at[n] = Entry(at, n)
    <2> HIDE DEF at, Entry
    <2> QED BY <1>5
  <1> HIDE DEF at, Entry, v0
  <1>8. 0 \in 0 .. s.n /\ (s.n # 0 => 1 \in 0 .. s.n) /\ s.n \in 0 .. s.n
    OBVIOUS
  <1>9. at[0] = v0
    BY <1>2, <1>7, <1>8
  <1>10. s.n # 0 => at[1] = v1
    BY <1>2, <1>7, <1>8, <1>9
  <1>11. s.n = 2 => at[2] = v2
    BY <1>2, <1>7, <1>8, <1>10
  <1>12. s.n = 0 \/ s.n = 1 \/ s.n = 2
    OBVIOUS
  <1> QED BY <1>6, <1>9, <1>10, <1>11, <1>12 DEF v0

\* Flipping the low bit of a version twice gives it back, and an odd version
\* never equals a flipped one.
LEMMA FlipIs ==
  ASSUME NEW v \in 0 .. VMod - 1
  PROVE  /\ Flip(v) \in 0 .. VMod - 1 /\ Flip(Flip(v)) = v
         /\ v % 2 = 1 => Flip(v) % 2 = 0
  <1>1. VMod = 2 * Half /\ Half \in Nat /\ Half > 0 /\ v \in Nat
    BY HalfAssumption DEF VMod
  <1>2. PICK q \in Nat : v = 2 * q \/ v = 2 * q + 1
    <2>1. v = 2 * (v \div 2) + (v % 2) /\ v \div 2 \in Nat /\ v % 2 \in {0, 1}
      BY <1>1
    <2> QED BY <2>1
  <1>3. CASE v = 2 * q
    <2>1. v % 2 = 0 /\ (v + 1) % 2 = 1
      BY <1>2, <1>3
    <2>2. Flip(v) = v + 1 /\ Flip(v + 1) = v + 1 - 1
      BY <2>1 DEF Flip
    <2>3. v + 1 \in 0 .. VMod - 1
      BY <1>1, <1>2, <1>3
    <2>4. v + 1 - 1 = v
      BY <1>1
    <2> QED BY <2>1, <2>2, <2>3, <2>4
  <1>4. CASE v = 2 * q + 1
    <2>1. v % 2 = 1 /\ (v - 1) % 2 = 0
      BY <1>2, <1>4
    <2>2. Flip(v) = v - 1 /\ Flip(v - 1) = v - 1 + 1
      BY <2>1 DEF Flip
    <2>3. v - 1 \in 0 .. VMod - 1 /\ v - 1 + 1 = v
      BY <1>1, <1>2, <1>4
    <2> QED BY <2>1, <2>2, <2>3
  <1> QED BY <1>2, <1>3, <1>4

\* What the two loops yield together for two keys of the map.
LEMMA DisjointPair ==
  ASSUME IInv, NEW k1 \in IssuedKeys, NEW k2 \in IssuedKeys
  PROVE  /\ GetDisjoint(<<k1, k2>>).version = version
         /\ GetDisjoint(<<k1, k2>>).found <=> ContainsKey(k1) /\ ContainsKey(k2) /\ k1 # k2
  <1> DEFINE s == Step2(Step1(k1), k2)
             v1 == FlippedAt(version, k1.idx)
             v2 == FlippedAt(v1, k2.idx)
             back == FlippedBack(<<k1, k2>>, s)
  <1>1. /\ version \in [Idx -> 0 .. VMod - 1]
        /\ k1 = [idx |-> k1.idx, version |-> k1.version]
        /\ k2 = [idx |-> k2.idx, version |-> k2.version]
    BY DEF IInv, TypeOK, IssuedKeys, Keys
  <1>2. /\ k1.idx \in Idx /\ k1.version \in 0 .. VMod - 1 /\ k1.version % 2 = 1
        /\ k2.idx \in Idx /\ k2.version \in 0 .. VMod - 1 /\ k2.version % 2 = 1
    BY LiveIssued
  <1>3. \A v \in 0 .. VMod - 1 :
          Flip(v) \in 0 .. VMod - 1 /\ Flip(Flip(v)) = v /\ (v % 2 = 1 => Flip(v) % 2 = 0)
    BY FlipIs
  <1>4. v1 \in [Idx -> 0 .. VMod - 1] /\ v2 \in [Idx -> 0 .. VMod - 1]
    BY <1>1, <1>2, <1>3 DEF FlippedAt
  <1>5. s.n \in {0, 1, 2} =>
          back = IF s.n = 0 THEN s.ver
                 ELSE IF s.n = 1 THEN FlippedAt(s.ver, k1.idx)
                 ELSE FlippedAt(FlippedAt(s.ver, k1.idx), k2.idx)
    <2> HIDE DEF s
    <2> QED BY FlippedBackIs
  <1>6. /\ GetDisjoint(<<k1, k2>>).version = back
        /\ GetDisjoint(<<k1, k2>>).found <=> s.n = 2
    <2>1. Len(<<k1, k2>>) = 2 /\ Taken(<<k1, k2>>) = s
      BY TakenIs
    <2> HIDE DEF s
    <2> QED BY <2>1 DEF GetDisjoint
  <1> HIDE DEF back
  <1>7. CASE ~ContainsKey(k1)
    <2>1. s = [ver |-> version, n |-> 0]
      BY <1>7 DEF Step1, Step2, FlippedAt, ContainsKey
    <2> HIDE DEF s
    <2>2. back = version /\ s.n = 0
      BY <1>5, <2>1
    <2> QED BY <1>6, <1>7, <2>2
  <1>8. CASE ContainsKey(k1) /\ ~(k2.idx < len /\ v1[k2.idx] = k2.version)
    <2>1. s = [ver |-> v1, n |-> 1]
      BY <1>8 DEF Step1, Step2, FlippedAt, ContainsKey
    <2>2. FlippedAt(v1, k1.idx) = version
      BY <1>1, <1>2, <1>3, <1>4 DEF FlippedAt
    <2>3. ~(ContainsKey(k2) /\ k1 # k2)
      <3> SUFFICES ASSUME ContainsKey(k2), k1 # k2 PROVE FALSE
        OBVIOUS
      <3>1. k1.idx # k2.idx
        BY <1>1, <1>8 DEF ContainsKey
      <3>2. v1[k2.idx] = version[k2.idx]
        BY <1>1, <1>2, <3>1 DEF FlippedAt
      <3> QED BY <1>8, <3>2 DEF ContainsKey
    <2> HIDE DEF s, v1
    <2>4. back = version /\ s.n = 1
      BY <1>5, <2>1, <2>2
    <2> QED BY <1>6, <2>3, <2>4
  <1>9. CASE ContainsKey(k1) /\ k2.idx < len /\ v1[k2.idx] = k2.version
    <2>1. s = [ver |-> v2, n |-> 2]
      BY <1>9 DEF Step1, Step2, FlippedAt, ContainsKey
    <2>2. k1.idx # k2.idx
      <3> SUFFICES ASSUME k1.idx = k2.idx PROVE FALSE
        OBVIOUS
      <3>1. v1[k2.idx] = Flip(k1.version)
        BY <1>1, <1>2, <1>9 DEF FlippedAt, ContainsKey
      <3> QED BY <1>2, <1>3, <1>9, <3>1
    <2>3. FlippedAt(FlippedAt(v2, k1.idx), k2.idx) = version
      BY <1>1, <1>2, <1>3, <1>4, <2>2 DEF FlippedAt
    <2>4. v1[k2.idx] = version[k2.idx]
      BY <1>1, <1>2, <2>2 DEF FlippedAt
    <2> HIDE DEF s, v2
    <2>5. back = version /\ s.n = 2
      BY <1>5, <2>1, <2>3
    <2> QED BY <1>6, <1>9, <2>2, <2>4, <2>5 DEF ContainsKey
  <1> QED BY <1>7, <1>8, <1>9

\* get_disjoint_mut yields two elements exactly for two different keys that are
\* in the map, and leaves the versions as they were either way (basic.rs:615-647).
THEOREM DisjointAccess == Spec => []DisjointKeys
  <1>1. IInv => DisjointKeys
    BY DisjointPair DEF DisjointKeys
  <1> QED BY <1>1, Invariance, PTL

-------------------------------------------------------------------------------
(***************************************************************************)
(* The secondary map beside it.                                            *)
(***************************************************************************)

\* What a step of the primary map may do to the version and the history of a slot.
LEMMA VersionStep ==
  ASSUME IInv, [Next]_vars, NEW i \in Idx
  PROVE  \/ version'[i] = version[i] /\ issued'[i] = issued[i]
         \/ version[i] % 2 = 1 /\ version'[i] = Bump(version[i]) /\ issued'[i] = issued[i]
         \/ /\ version[i] % 2 = 0 /\ version'[i] = Drop1(version[i]) /\ issued'[i] = issued[i]
            /\ Len(issued[i]) > 0
         \/ /\ version[i] % 2 = 0 /\ version'[i] = Odd(version[i])
            /\ issued'[i] = Append(issued[i], Odd(version[i]))
  <1> DEFINE Goal ==
         \/ version'[i] = version[i] /\ issued'[i] = issued[i]
         \/ version[i] % 2 = 1 /\ version'[i] = Bump(version[i]) /\ issued'[i] = issued[i]
         \/ /\ version[i] % 2 = 0 /\ version'[i] = Drop1(version[i]) /\ issued'[i] = issued[i]
            /\ Len(issued[i]) > 0
         \/ /\ version[i] % 2 = 0 /\ version'[i] = Odd(version[i])
            /\ issued'[i] = Append(issued[i], Odd(version[i]))
  <1>1. /\ version \in [Idx -> 0 .. VMod - 1] /\ issued \in [Idx -> Seq(0 .. VMod - 1)]
        /\ len \in 1 .. MaxSlotsLen /\ MaxSlotsLen \in Nat
    BY LenAssumption DEF IInv, TypeOK
  <1>2. \A v \in 0 .. VMod - 1 : v % 2 \in {0, 1}
    BY BumpIs
  <1>3. ASSUME NEW v \in Values, InsertReuse(v) PROVE Goal
    <2>1. free_head \in Idx /\ version[free_head] % 2 = 0
      BY <1>1, <1>2, <1>3 DEF InsertReuse, IInv, Links, Free, Idx, Occupied
    <2>2. version' = [version EXCEPT ![free_head] = Odd(version[free_head])]
          /\ issued' = [issued EXCEPT ![free_head] = Append(@, Odd(version[free_head]))]
      BY <1>3 DEF InsertReuse, Stored
    <2>3. i = free_head \/ (version'[i] = version[i] /\ issued'[i] = issued[i])
      BY <1>1, <2>1, <2>2
    <2>4. version'[free_head] = Odd(version[free_head])
          /\ issued'[free_head] = Append(issued[free_head], Odd(version[free_head]))
      BY <1>1, <2>1, <2>2
    <2> QED BY <2>1, <2>3, <2>4
  <1>4. ASSUME NEW v \in Values, InsertGrow(v) PROVE Goal
    <2>1. len \in Idx /\ len >= len
      BY <1>1, <1>4 DEF InsertGrow, Idx
    <2>2. version[len] = 0 /\ version[len] % 2 = 0 /\ Odd(version[len]) = 1
      <3>1. version[len] = 0
        BY <2>1 DEF IInv, Shape
      <3> QED BY <3>1 DEF Odd
    <2>3. version' = [version EXCEPT ![len] = 1] /\ issued' = [issued EXCEPT ![len] = Append(@, 1)]
      BY <1>4 DEF InsertGrow, Stored
    <2>4. i = len \/ (version'[i] = version[i] /\ issued'[i] = issued[i])
      BY <1>1, <2>1, <2>3
    <2>5. version'[len] = 1 /\ issued'[len] = Append(issued[len], 1)
      BY <1>1, <2>1, <2>3
    <2> QED BY <2>2, <2>4, <2>5
  <1>5. CASE InsertClosureFails \/ (\E n \in 1 .. MaxSlotsLen : TryReserve(n)) \/ SweepSkip \/ EndSweep
             \/ (\E kind \in {"retain", "drain"} : StartSweep(kind)) \/ UNCHANGED vars
    BY <1>5 DEF InsertClosureFails, TryReserve, SweepSkip, EndSweep, StartSweep, vars
  <1>6. ASSUME NEW j \in Idx, version[j] % 2 = 1, version' = [version EXCEPT ![j] = Bump(@)],
               issued' = issued
        PROVE  Goal
    BY <1>1, <1>6
  <1>7. ASSUME NEW k \in IssuedKeys, Remove(k) \/ Detach(k) PROVE Goal
    <2>1. k.idx \in Idx /\ ContainsKey(k) /\ version[k.idx] % 2 = 1
      BY <1>7, LiveIssued DEF Remove, Detach, ContainsKey
    <2>2. version' = [version EXCEPT ![k.idx] = Bump(@)] /\ issued' = issued
      BY <1>7 DEF Remove, Detach, RemoveFromSlot
    <2> QED BY <1>6, <2>1, <2>2
  <1>8. CASE SweepRemove
    <2>1. sweep.cur \in Idx /\ version[sweep.cur] % 2 = 1
      BY <1>1, <1>8 DEF SweepRemove, SweepOver, Occupied, Idx, IInv, TypeOK
    <2>2. version' = [version EXCEPT ![sweep.cur] = Bump(@)] /\ issued' = issued
      BY <1>8 DEF SweepRemove, RemoveFromSlot
    <2> QED BY <1>6, <2>1, <2>2
  <1>9. ASSUME NEW k \in IssuedKeys, NEW v \in Values, Reattach(k, v) PROVE Goal
    <2>1. /\ k.idx \in Idx /\ k.version \in 0 .. VMod - 1 /\ k.version % 2 = 1
          /\ version[k.idx] = Bump(k.version)
      BY <1>9, LiveIssued DEF Reattach, CanReattach
    <2>2. version[k.idx] % 2 = 0
      BY <2>1, BumpIs
    <2>3. Len(issued[k.idx]) > 0
      <3>1. PICK n \in 1 .. Len(issued[k.idx]) : TRUE
        BY DEF IssuedKeys
      <3>2. Len(issued[k.idx]) \in Nat
        BY <1>1, <2>1, IssuedFacts
      <3> QED BY <3>1, <3>2
    <2>4. version' = [version EXCEPT ![k.idx] = Drop1(@)] /\ issued' = issued
      BY <1>9 DEF Reattach
    <2> QED BY <1>1, <2>1, <2>2, <2>3, <2>4
  <1> QED
    BY <1>3, <1>4, <1>5, <1>7, <1>8, <1>9
       DEF Next, Insert, Others, Sweeps, Detaching

\* Until a slot has gone through half of its versions, they are handed out
\* in order from 1.
Early(i) == 2 * Len(issued[i]) <= Half
Fresh ==
  \A i \in Idx : Early(i) =>
    /\ version[i] = 2 * Len(issued[i]) \/ (Len(issued[i]) > 0 /\ version[i] = 2 * Len(issued[i]) - 1)
    /\ \A m \in 1 .. Len(issued[i]) : issued[i][m] = 2 * m - 1

\* A key once issued stays in the history.
LEMMA HistoryGrows ==
  ASSUME IInv, [Next]_vars, NEW i \in Idx
  PROVE  /\ Len(issued[i]) \in Nat /\ Len(issued'[i]) \in Nat /\ Len(issued'[i]) >= Len(issued[i])
         /\ \A m \in 1 .. Len(issued[i]) : issued'[i][m] = issued[i][m]
  <1>1. issued[i] \in Seq(0 .. VMod - 1) /\ Len(issued[i]) \in Nat /\ version[i] \in 0 .. VMod - 1
    BY IssuedFacts DEF IInv, TypeOK
  <1>2. CASE issued'[i] = issued[i]
    BY <1>1, <1>2
  <1>3. CASE version[i] % 2 = 0 /\ issued'[i] = Append(issued[i], Odd(version[i]))
    <2>1. Odd(version[i]) \in Int
      BY <1>1, HalfAssumption DEF Odd, VMod
    <2>2. issued[i] \in Seq(Int)
      BY <1>1, HalfAssumption, SeqMonotonic DEF VMod
    <2>3. /\ Len(issued'[i]) = Len(issued[i]) + 1
          /\ \A m \in 1 .. Len(issued[i]) : issued'[i][m] = issued[i][m]
      BY <1>3, <2>1, <2>2, AppendProperties
    <2> QED BY <1>1, <2>3
  <1> QED BY <1>2, <1>3, VersionStep

\* The versions of an early slot stay in order.
LEMMA FreshStep == ASSUME IInv, Fresh, [Next]_vars PROVE Fresh'
  <1> SUFFICES ASSUME NEW i \in Idx, 2 * Len(issued'[i]) <= Half
               PROVE  /\ version'[i] = 2 * Len(issued'[i])
                           \/ (Len(issued'[i]) > 0 /\ version'[i] = 2 * Len(issued'[i]) - 1)
                      /\ \A m \in 1 .. Len(issued'[i]) : issued'[i][m] = 2 * m - 1
    BY DEF Fresh, Early
  <1>1. VMod = 2 * Half /\ Half \in Nat /\ Half > 0 /\ VMod \in Nat
    BY HalfAssumption DEF VMod
  <1>2. /\ Len(issued[i]) \in Nat /\ Len(issued'[i]) \in Nat /\ Len(issued'[i]) >= Len(issued[i])
        /\ \A m \in 1 .. Len(issued[i]) : issued'[i][m] = issued[i][m]
    BY HistoryGrows
  <1>3. version[i] \in 0 .. VMod - 1 /\ issued[i] \in Seq(0 .. VMod - 1)
    BY IssuedFacts DEF IInv, TypeOK
  <1>4. /\ version[i] = 2 * Len(issued[i]) \/ (Len(issued[i]) > 0 /\ version[i] = 2 * Len(issued[i]) - 1)
        /\ \A m \in 1 .. Len(issued[i]) : issued[i][m] = 2 * m - 1
        /\ 2 * Len(issued[i]) <= Half
    <2>1. 2 * Len(issued[i]) <= Half
      BY <1>1, <1>2
    <2> QED BY <2>1 DEF Fresh, Early
  <1>5. /\ Bump(version[i]) = IF version[i] = VMod - 1 THEN 0 ELSE version[i] + 1
        /\ Drop1(version[i]) = IF version[i] = 0 THEN VMod - 1 ELSE version[i] - 1
    BY <1>3, BumpIs
  <1>6. CASE version'[i] = version[i] /\ issued'[i] = issued[i]
    BY <1>4, <1>6
  <1>7. CASE version[i] % 2 = 1 /\ version'[i] = Bump(version[i]) /\ issued'[i] = issued[i]
    <2>1. version[i] = 2 * Len(issued[i]) - 1
      BY <1>2, <1>4, <1>7
    <2>2. version'[i] = 2 * Len(issued[i])
      BY <1>1, <1>2, <1>4, <1>5, <1>7, <2>1
    <2> QED BY <1>4, <1>7, <2>2
  <1>8. CASE /\ version[i] % 2 = 0 /\ version'[i] = Drop1(version[i]) /\ issued'[i] = issued[i]
             /\ Len(issued[i]) > 0
    <2>1. version[i] = 2 * Len(issued[i])
      BY <1>2, <1>4, <1>8
    <2>2. version'[i] = 2 * Len(issued[i]) - 1
      BY <1>1, <1>2, <1>5, <1>8, <2>1
    <2> QED BY <1>4, <1>8, <2>2
  <1>9. CASE /\ version[i] % 2 = 0 /\ version'[i] = Odd(version[i])
             /\ issued'[i] = Append(issued[i], Odd(version[i]))
    <2>1. version[i] = 2 * Len(issued[i])
      BY <1>2, <1>4, <1>9
    <2>2. Odd(version[i]) = 2 * Len(issued[i]) + 1
      <3>1. Odd(version[i]) = version[i] + 1
        BY <1>9 DEF Odd
      <3> QED BY <2>1, <3>1
    <2>3. issued[i] \in Seq(Int) /\ Odd(version[i]) \in Int
      <3>1. 0 .. VMod - 1 \subseteq Int
        BY <1>1
      <3>2. issued[i] \in Seq(Int)
        BY <1>3, <3>1, SeqMonotonic
      <3> QED BY <1>2, <2>2, <3>2
    <2>4. Len(issued'[i]) = Len(issued[i]) + 1 /\ issued'[i][Len(issued[i]) + 1] = Odd(version[i])
      BY <1>9, <2>3, AppendProperties
    <2>5. version'[i] = 2 * Len(issued'[i]) - 1
      BY <1>2, <1>9, <2>2, <2>4
    <2>6. ASSUME NEW m \in 1 .. Len(issued'[i]) PROVE issued'[i][m] = 2 * m - 1
      <3>1. CASE m \in 1 .. Len(issued[i])
        BY <1>2, <1>4, <3>1
      <3>2. CASE m = Len(issued[i]) + 1
        BY <1>2, <2>2, <2>4, <3>2
      <3> QED BY <1>2, <2>4, <3>1, <3>2
    <2> QED BY <1>2, <2>4, <2>5, <2>6
  <1> QED BY <1>6, <1>7, <1>8, <1>9, VersionStep

KeyOf(i, w) == [idx |-> i, version |-> w]

\* An occupied slot holds what was last put under the very key it is tagged with.
Tags ==
  \A i \in Idx : sec[i].version % 2 = 1 => sec[i].value = put[KeyOf(i, sec[i].version)]

\* Only keys the primary map has issued are put, and kept.
PutIssued ==
  /\ \A k \in Keys : put[k] # NoValue => k \in IssuedKeys
  /\ \A i \in Idx : sec[i].version # 0 => KeyOf(i, sec[i].version) \in IssuedKeys

\* The newest key of a slot that is early in its versions owns the slot of the
\* secondary map once something is put under it.
Kept ==
  \A i \in Idx : Early(i) /\ Len(issued[i]) > 0 =>
    LET w == 2 * Len(issued[i]) - 1
    IN put[KeyOf(i, w)] # NoValue => sec[i].version = w /\ i < sec_len

SecInv == SecTypeOK /\ Tags /\ PutIssued /\ Kept

\* A key is its slot and its version.
LEMMA KeyFacts ==
  ASSUME IInv
  PROVE  /\ \A i \in Idx, w \in 0 .. VMod - 1 : KeyOf(i, w) \in Keys
         /\ \A k \in Keys : k = KeyOf(k.idx, k.version) /\ k.idx \in Idx /\ k.version \in 0 .. VMod - 1
         /\ \A i, w : KeyOf(i, w).idx = i /\ KeyOf(i, w).version = w
  BY DEF Keys, KeyOf

\* A key once issued stays issued.
LEMMA IssuedGrow == ASSUME IInv, [Next]_vars, NEW k \in IssuedKeys PROVE k \in IssuedKeys'
  <1>1. k \in Keys /\ k.idx \in Idx
    BY DEF IssuedKeys, Keys
  <1>2. PICK n \in 1 .. Len(issued[k.idx]) : issued[k.idx][n] = k.version
    BY DEF IssuedKeys
  <1>3. n \in 1 .. Len(issued'[k.idx]) /\ issued'[k.idx][n] = k.version
    BY <1>1, <1>2, HistoryGrows
  <1> QED BY <1>1, <1>3 DEF IssuedKeys

\* A step of the primary map leaves the secondary map right.
LEMMA PrimaryStep ==
  ASSUME IInv, Fresh, SecInv, [Next]_vars, Fresh', UNCHANGED secVars
  PROVE  SecInv'
  <1>1. sec' = sec /\ sec_len' = sec_len /\ put' = put /\ SecTypeOK' /\ Tags'
    BY DEF secVars, SecInv, SecTypeOK, Tags
  <1>2. PutIssued'
    BY <1>1, IssuedGrow DEF SecInv, PutIssued
  <1>3. Kept'
    <2> SUFFICES ASSUME NEW i \in Idx, 2 * Len(issued'[i]) <= Half, Len(issued'[i]) > 0,
                        put[KeyOf(i, 2 * Len(issued'[i]) - 1)] # NoValue
                 PROVE  sec[i].version = 2 * Len(issued'[i]) - 1 /\ i < sec_len
      BY <1>1 DEF Kept, Early
    <2>1. Len(issued[i]) \in Nat /\ Len(issued'[i]) \in Nat /\ Len(issued'[i]) >= Len(issued[i])
      BY HistoryGrows
    <2>2. Half \in Nat /\ VMod = 2 * Half
      BY HalfAssumption DEF VMod
    <2> DEFINE k == KeyOf(i, 2 * Len(issued'[i]) - 1)
    <2>3. k \in Keys /\ k.idx = i /\ k.version = 2 * Len(issued'[i]) - 1
      <3>1. 2 * Len(issued'[i]) - 1 \in 0 .. VMod - 1
        BY <2>1, <2>2
      <3> QED BY <3>1, KeyFacts
    <2>4. k \in IssuedKeys
      BY <2>3 DEF SecInv, PutIssued
    <2>5. PICK n \in 1 .. Len(issued[i]) : issued[i][n] = 2 * Len(issued'[i]) - 1
      BY <2>3, <2>4 DEF IssuedKeys
    <2>6. 2 * Len(issued[i]) <= Half
      BY <2>1, <2>2
    <2>7. issued[i][n] = 2 * n - 1
      BY <2>6 DEF Fresh, Early
    <2>8. Len(issued'[i]) = Len(issued[i])
      BY <2>1, <2>5, <2>7
    <2> QED BY <2>6, <2>8 DEF SecInv, Kept, Early
  <1> QED BY <1>1, <1>2, <1>3 DEF SecInv

\* The wrapping comparison is the distance from one version to the other.
LEMMA OlderIs ==
  ASSUME NEW a \in 0 .. VMod - 1, NEW b \in 0 .. VMod - 1
  PROVE  /\ a >= b /\ a - b < Half => ~IsOlderVersion(a, b)
         /\ a < b /\ b - a <= Half => IsOlderVersion(a, b)
  <1>1. VMod = 2 * Half /\ Half \in Nat /\ Half > 0 /\ VMod \in Nat
    BY HalfAssumption DEF VMod
  <1>2. \A x \in Int : x >= 0 /\ x < VMod => x % VMod = x
    BY <1>1
  <1>3. \A x \in Int : x >= VMod /\ x < VMod + VMod => x % VMod = x - VMod
    BY <1>1
  <1>4. a >= b => (a + VMod - b) % VMod = a - b
    BY <1>1, <1>3
  <1>5. a < b => (a + VMod - b) % VMod = a + VMod - b
    BY <1>1, <1>2
  <1> QED BY <1>1, <1>4, <1>5 DEF IsOlderVersion

\* The types of the slot and of the history a step of the secondary map writes.
LEMMA SecTypes ==
  ASSUME SecTypeOK, NEW i \in Idx
  PROVE  /\ sec \in [Idx -> SecSlot] /\ put \in [Keys -> Values \union {NoValue}]
         /\ sec_len \in Nat /\ sec_len <= MaxSlotsLen
         /\ sec[i].version \in 0 .. VMod - 1
         /\ sec[i].version % 2 = 1 => /\ sec[i].value \in Values
                                      /\ sec[i] = [version |-> sec[i].version, value |-> sec[i].value]
         /\ sec[i].version % 2 # 1 => sec[i] = Vacant
         /\ sec[i] # Vacant <=> sec[i].version % 2 = 1
         /\ Vacant \in SecSlot /\ Vacant.version = 0 /\ Vacant.version % 2 = 0
  <1>1. VMod = 2 * Half /\ Half \in Nat /\ Half > 0 /\ MaxSlotsLen \in Nat
    BY HalfAssumption, LenAssumption DEF VMod
  <1>2. sec[i] \in SecSlot
    BY DEF SecTypeOK
  <1>3. Vacant.version = 0 /\ 0 % 2 = 0
    BY DEF Vacant
  <1>4. CASE sec[i] = Vacant
    BY <1>1, <1>3, <1>4 DEF SecTypeOK, SecSlot
  <1>5. CASE sec[i] \in [version : {w \in 0 .. VMod - 1 : w % 2 = 1}, value : Values]
    <2>1. sec[i].version % 2 = 1
      BY <1>5
    <2>2. sec[i] # Vacant
      BY <1>3, <2>1
    <2> QED BY <1>1, <1>3, <1>5, <2>1, <2>2 DEF SecTypeOK, SecSlot
  <1> QED BY <1>2, <1>4, <1>5 DEF SecSlot

\* What a put or a removal under one key k does to the others.
LEMMA OneKey ==
  ASSUME IInv, SecInv, NEW k \in IssuedKeys, NEW s \in SecSlot, NEW w \in Values \union {NoValue},
         sec' = [sec EXCEPT ![k.idx] = s], put' = [put EXCEPT ![k] = w],
         sec_len' \in 1 .. MaxSlotsLen, sec_len' >= sec_len, sec_num' \in Int,
         sec_sweep' \in [kind : {"none", "retain", "drain"}, cur : 0 .. MaxSlotsLen],
         UNCHANGED vars,
         \/ s = Vacant
         \/ s.version = k.version /\ s.value = w /\ k.idx < sec_len'
         \/ s = sec[k.idx] /\ s.version # k.version,
         \* if k is the newest key of an early slot, it is there or gone
         Early(k.idx) /\ Len(issued[k.idx]) > 0 /\ k.version = 2 * Len(issued[k.idx]) - 1 =>
           w = NoValue \/ (s.version = k.version /\ k.idx < sec_len'),
         \* if not, it does not take the place of that key
         Early(k.idx) /\ Len(issued[k.idx]) > 0 /\ k.version # 2 * Len(issued[k.idx]) - 1
           /\ sec[k.idx].version = 2 * Len(issued[k.idx]) - 1 => s = sec[k.idx]
  PROVE  SecInv'
  <1>1. issued' = issued /\ IssuedKeys' = IssuedKeys
    BY DEF vars, IssuedKeys
  <1>2. /\ k.idx \in Idx /\ k.version \in 0 .. VMod - 1 /\ k.version % 2 = 1 /\ k \in Keys
    BY LiveIssued DEF IssuedKeys
  <1>3. sec \in [Idx -> SecSlot] /\ put \in [Keys -> Values \union {NoValue}] /\ SecTypeOK
    BY DEF SecInv, SecTypeOK
  <1>4. /\ \A j \in Idx : sec'[j] = IF j = k.idx THEN s ELSE sec[j]
        /\ \A l \in Keys : put'[l] = IF l = k THEN w ELSE put[l]
    BY <1>2, <1>3
  <1>5. /\ \A i \in Idx, x \in 0 .. VMod - 1 : KeyOf(i, x) \in Keys
        /\ k = KeyOf(k.idx, k.version)
        /\ \A i, x : KeyOf(i, x).idx = i /\ KeyOf(i, x).version = x
    BY <1>2, KeyFacts
  <1>6. SecTypeOK'
    <2>1. sec' \in [Idx -> SecSlot]
      BY <1>3
    <2>2. put' \in [Keys -> Values \union {NoValue}]
      BY <1>3
    <2> QED BY <2>1, <2>2 DEF SecTypeOK
  <1>7. \A j \in Idx : sec[j].version \in 0 .. VMod - 1
    BY <1>3, SecTypes
  <1>8. Vacant.version = 0 /\ Vacant.version % 2 = 0
    BY <1>2, <1>3, SecTypes
  <1>9. Tags'
    <2> SUFFICES ASSUME NEW j \in Idx, sec'[j].version % 2 = 1
                 PROVE  sec'[j].value = put'[KeyOf(j, sec'[j].version)]
      BY DEF Tags
    <2>1. CASE j # k.idx
      <3>1. KeyOf(j, sec[j].version) # k /\ KeyOf(j, sec[j].version) \in Keys
        BY <1>5, <1>7, <2>1
      <3> QED BY <1>4, <2>1, <3>1 DEF SecInv, Tags
    <2>2. CASE j = k.idx /\ s.version = k.version /\ s.value = w
      BY <1>2, <1>4, <1>5, <2>2
    <2>3. CASE j = k.idx /\ s = sec[k.idx] /\ s.version # k.version
      <3>1. KeyOf(j, sec[j].version) # k /\ KeyOf(j, sec[j].version) \in Keys
        BY <1>5, <1>7, <2>3
      <3> QED BY <1>4, <2>3, <3>1 DEF SecInv, Tags
    <2> QED BY <1>4, <1>8, <2>1, <2>2, <2>3
  <1>10. PutIssued'
    <2>1. \A l \in Keys : put'[l] # NoValue => l \in IssuedKeys
      BY <1>4 DEF SecInv, PutIssued
    <2>2. ASSUME NEW j \in Idx, sec'[j].version # 0 PROVE KeyOf(j, sec'[j].version) \in IssuedKeys
      <3>1. CASE sec'[j] = sec[j]
        BY <2>2, <3>1 DEF SecInv, PutIssued
      <3>2. CASE j = k.idx /\ s.version = k.version
        BY <1>4, <1>5, <3>2
      <3> QED BY <1>4, <1>8, <2>2, <3>1, <3>2
    <2> QED BY <1>1, <2>1, <2>2 DEF PutIssued
  <1>11. Kept'
    <2> SUFFICES ASSUME NEW j \in Idx, Early(j), Len(issued[j]) > 0,
                        put'[KeyOf(j, 2 * Len(issued[j]) - 1)] # NoValue
                 PROVE  sec'[j].version = 2 * Len(issued[j]) - 1 /\ j < sec_len'
      BY <1>1 DEF Kept, Early
    <2> DEFINE n == 2 * Len(issued[j]) - 1
    <2>1. n \in 0 .. VMod - 1 /\ KeyOf(j, n) \in Keys
      <3>1. Len(issued[j]) \in Nat /\ Half \in Nat /\ VMod = 2 * Half
        BY IssuedFacts, HalfAssumption DEF IInv, TypeOK, VMod
      <3> QED BY <1>5, <3>1 DEF Early
    <2> HIDE DEF n
    <2>2. sec_len \in Nat /\ sec_len' \in Int /\ j \in Int
      BY <1>3, SecTypes, LenAssumption DEF Idx
    <2>3. CASE KeyOf(j, n) = k
      <3>1. j = k.idx /\ n = k.version
        BY <1>5, <2>3
      <3> QED BY <1>2, <1>4, <2>3, <3>1 DEF n
    <2>4. CASE KeyOf(j, n) # k
      <3>1. put[KeyOf(j, n)] # NoValue
        BY <1>4, <2>1, <2>4 DEF n
      <3>2. sec[j].version = n /\ j < sec_len
        BY <3>1 DEF SecInv, Kept, n
      <3>3. j < sec_len'
        BY <2>2, <3>2
      <3>4. sec'[j] = sec[j]
        <4>1. CASE j # k.idx
          BY <1>4, <4>1
        <4>2. CASE j = k.idx
          <5>1. k.version # n
            BY <1>5, <2>4, <4>2
          <5> QED BY <1>4, <3>2, <4>2, <5>1 DEF n
        <4> QED BY <4>1, <4>2
      <3> QED BY <3>2, <3>3, <3>4 DEF n
    <2> QED BY <2>3, <2>4
  <1> QED BY <1>6, <1>9, <1>10, <1>11 DEF SecInv

\* An insertion that is dropped as older is not that of the newest key of an
\* early slot; one that takes a slot over does not take it from that key.
LEMMA InsertOrder ==
  ASSUME IInv, Fresh, SecInv, NEW k \in IssuedKeys, Early(k.idx), k.version # sec[k.idx].version
  PROVE  LET n == 2 * Len(issued[k.idx]) - 1
         IN /\ k.version = n => ~IsOlderVersion(k.version, sec[k.idx].version)
            /\ k.version # n /\ sec[k.idx].version = n => IsOlderVersion(k.version, sec[k.idx].version)
  <1> DEFINE i == k.idx
             L == Len(issued[i])
             b == sec[i].version
  <1>1. i \in Idx /\ k.version \in 0 .. VMod - 1 /\ SecTypeOK
    BY LiveIssued DEF SecInv
  <1>2. L \in Nat /\ 2 * L <= Half /\ VMod = 2 * Half /\ Half \in Nat /\ Half > 0
    BY <1>1, IssuedFacts, HalfAssumption DEF Early, VMod, IInv, TypeOK
  <1>3. b \in 0 .. VMod - 1
    BY <1>1, SecTypes
  <1>4. \A m \in 1 .. L : issued[i][m] = 2 * m - 1
    BY <1>1 DEF Fresh
  <1>5. PICK m \in 1 .. L : k.version = 2 * m - 1
    <2>1. PICK m \in 1 .. L : issued[i][m] = k.version
      BY DEF IssuedKeys
    <2> QED BY <1>4, <2>1
  <1>6. b = 0 \/ \E l \in 1 .. L : b = 2 * l - 1
    <2> SUFFICES ASSUME b # 0 PROVE \E l \in 1 .. L : b = 2 * l - 1
      OBVIOUS
    <2>1. KeyOf(i, b) \in IssuedKeys
      BY <1>1 DEF SecInv, PutIssued
    <2>2. PICK l \in 1 .. L : issued[i][l] = b
      BY <2>1 DEF IssuedKeys, KeyOf
    <2> QED BY <1>4, <2>2
  <1>7. /\ k.version >= b /\ k.version - b < Half => ~IsOlderVersion(k.version, b)
        /\ k.version < b /\ b - k.version <= Half => IsOlderVersion(k.version, b)
    BY <1>1, <1>3, OlderIs
  <1> HIDE DEF L, b, i
  <1>8. k.version = 2 * L - 1 => ~IsOlderVersion(k.version, b)
    BY <1>2, <1>3, <1>5, <1>6, <1>7
  <1>9. k.version # 2 * L - 1 /\ b = 2 * L - 1 => IsOlderVersion(k.version, b)
    BY <1>2, <1>3, <1>5, <1>6, <1>7
  <1> QED BY <1>8, <1>9 DEF L, b, i

\* An insertion: in place, dropped as older, or taking the slot over.
LEMMA SecInsertInv ==
  ASSUME IInv, Fresh, SecInv, NEW k \in IssuedKeys, NEW v \in Values, SecInsert(k, v), UNCHANGED vars
  PROVE  SecInv'
  <1>1. k.idx \in Idx /\ k.version \in 0 .. VMod - 1 /\ k.version % 2 = 1 /\ SecTypeOK
    BY LiveIssued DEF SecInv
  <1>2. /\ sec \in [Idx -> SecSlot] /\ sec_len \in 1 .. MaxSlotsLen /\ MaxSlotsLen \in Nat
        /\ sec_num \in Int
        /\ sec_sweep' \in [kind : {"none", "retain", "drain"}, cur : 0 .. MaxSlotsLen]
    BY <1>1, LenAssumption DEF SecTypeOK, SecInsert
  <1>3. sec_len' \in 1 .. MaxSlotsLen /\ sec_len' >= sec_len /\ k.idx < sec_len'
    BY <1>1, <1>2 DEF SecInsert, Accepts, Resized, Larger, Idx
  <1> DEFINE s == [version |-> k.version, value |-> v]
  <1>4. s \in SecSlot /\ s.version = k.version /\ s.value = v
    BY <1>1 DEF SecSlot
  <1>5. put' = [put EXCEPT ![k] = v] /\ v \in Values \union {NoValue}
    BY DEF SecInsert
  <1>6. CASE k.version = sec[k.idx].version /\ sec' = [sec EXCEPT ![k.idx].value = v] /\ sec_num' = sec_num
    <2>1. sec[k.idx] = [version |-> sec[k.idx].version, value |-> sec[k.idx].value]
      BY <1>1, <1>6, SecTypes
    <2>2. [sec[k.idx] EXCEPT !.value = v] = s
      BY <1>6, <2>1
    <2>3. sec' = [sec EXCEPT ![k.idx] = s]
      BY <1>6, <2>2
    <2> HIDE DEF s
    <2> QED BY <1>2, <1>3, <1>4, <1>5, <1>6, <2>3, OneKey
  <1>7. CASE /\ k.version # sec[k.idx].version /\ IsOlderVersion(k.version, sec[k.idx].version)
             /\ UNCHANGED <<sec, sec_num>>
    <2>1. sec[k.idx] \in SecSlot /\ sec' = [sec EXCEPT ![k.idx] = sec[k.idx]]
      BY <1>1, <1>2, <1>7
    <2>2. Early(k.idx) => k.version # 2 * Len(issued[k.idx]) - 1
      BY <1>7, InsertOrder
    <2> QED BY <1>2, <1>3, <1>5, <1>7, <2>1, <2>2, OneKey
  <1>8. CASE /\ k.version # sec[k.idx].version /\ ~IsOlderVersion(k.version, sec[k.idx].version)
             /\ FillVacant(k, v)
    <2>1. sec' = [sec EXCEPT ![k.idx] = s] /\ sec_num' \in Int
      BY <1>2, <1>8 DEF FillVacant
    <2>2. Early(k.idx) /\ k.version # 2 * Len(issued[k.idx]) - 1 =>
            sec[k.idx].version # 2 * Len(issued[k.idx]) - 1
      BY <1>8, InsertOrder
    <2> HIDE DEF s
    <2> QED BY <1>2, <1>3, <1>4, <1>5, <2>1, <2>2, OneKey
  <1> QED BY <1>6, <1>7, <1>8 DEF SecInsert

\* A removal, by key or by a sweep.
LEMMA VacateInv ==
  ASSUME IInv, SecInv, NEW k \in IssuedKeys, Vacate(k), UNCHANGED <<vars, sec_len>>,
         sec[k.idx].version = k.version,
         sec_sweep' \in [kind : {"none", "retain", "drain"}, cur : 0 .. MaxSlotsLen]
  PROVE  SecInv'
  <1>1. k.idx \in Idx /\ SecTypeOK
    BY LiveIssued DEF SecInv
  <1>2. Vacant \in SecSlot /\ sec_len' \in 1 .. MaxSlotsLen /\ sec_len' >= sec_len /\ sec_num' \in Int
    BY <1>1, SecTypes, LenAssumption DEF SecTypeOK, Vacate
  <1>3. sec' = [sec EXCEPT ![k.idx] = Vacant] /\ put' = [put EXCEPT ![k] = NoValue]
    BY DEF Vacate
  <1> QED BY <1>2, <1>3, OneKey

\* Every step of either map keeps the secondary map right.
LEMMA SecStep ==
  ASSUME IInv, Fresh, Fresh', SecInv, [PairNext]_allVars
  PROVE  SecInv'
  <1>1. /\ sec_len \in 1 .. MaxSlotsLen /\ MaxSlotsLen \in Nat /\ SecTypeOK
        /\ sec_sweep \in [kind : {"none", "retain", "drain"}, cur : 0 .. MaxSlotsLen]
    BY LenAssumption DEF SecInv, SecTypeOK
  <1>2. CASE [Next]_vars /\ UNCHANGED secVars
    BY <1>2, PrimaryStep
  <1>3. ASSUME UNCHANGED <<vars, sec, put>>, sec_len' \in 1 .. MaxSlotsLen, sec_len' >= sec_len,
               sec_num' = sec_num,
               sec_sweep' \in [kind : {"none", "retain", "drain"}, cur : 0 .. MaxSlotsLen]
        PROVE  SecInv'
    <2>1. SecTypeOK' /\ Tags'
      BY <1>3 DEF SecInv, SecTypeOK, Tags
    <2>2. issued' = issued /\ IssuedKeys' = IssuedKeys
      BY <1>3 DEF vars, IssuedKeys
    <2>3. PutIssued'
      BY <1>3, <2>2 DEF SecInv, PutIssued
    <2>4. Kept'
      <3>1. \A i \in Idx : i < sec_len => i < sec_len'
        BY <1>1, <1>3 DEF Idx
      <3> QED BY <1>3, <2>2, <3>1 DEF SecInv, Kept, Early
    <2> QED BY <2>1, <2>3, <2>4 DEF SecInv
  <1>4. ASSUME NEW k \in IssuedKeys, SecEntry(k), UNCHANGED vars PROVE SecInv'
    <2>1. k.idx \in Idx
      BY DEF IssuedKeys, Keys
    <2>2. sec_len' \in 1 .. MaxSlotsLen /\ sec_len' >= sec_len
      BY <1>1, <1>4, <2>1 DEF SecEntry, Accepts, Resized, Larger, Idx
    <2> QED BY <1>1, <1>3, <1>4, <2>2 DEF SecEntry
  <1>5. ASSUME NEW k \in IssuedKeys, SecRemove(k), UNCHANGED vars PROVE SecInv'
    BY <1>1, <1>5, VacateInv DEF SecRemove, SecContains
  <1>6. ASSUME NEW k \in IssuedKeys, NEW v \in Values, SecInsert(k, v), UNCHANGED vars PROVE SecInv'
    BY <1>6, SecInsertInv
  <1>7. CASE SecSweepRemove /\ UNCHANGED vars
    <2> DEFINE k == [idx |-> sec_sweep.cur, version |-> sec[sec_sweep.cur].version]
    <2>1. sec_sweep.cur \in Idx
      BY <1>1, <1>7 DEF SecSweepRemove, SecSweepOver, Idx
    <2>2. sec[sec_sweep.cur].version % 2 = 1 /\ sec[sec_sweep.cur].version \in 0 .. VMod - 1
      BY <1>1, <1>7, <2>1, SecTypes DEF SecSweepRemove
    <2>3. k \in IssuedKeys /\ k.idx = sec_sweep.cur /\ k.version = sec[sec_sweep.cur].version
      <3>1. sec[sec_sweep.cur].version # 0
        BY <2>2
      <3> QED BY <2>1, <3>1 DEF SecInv, PutIssued, KeyOf
    <2>4. Vacate(k) /\ sec_len' = sec_len /\ sec_sweep' = [sec_sweep EXCEPT !.cur = @ + 1]
      BY <1>7 DEF SecSweepRemove, SecAdvance
    <2>5. sec_sweep' \in [kind : {"none", "retain", "drain"}, cur : 0 .. MaxSlotsLen]
      BY <1>1, <1>7, <2>4 DEF SecSweepRemove, SecSweepOver
    <2> HIDE DEF k
    <2> QED BY <1>7, <2>3, <2>4, <2>5, VacateInv
  <1>8. CASE SecSweepSkip /\ UNCHANGED vars
    BY <1>1, <1>3, <1>8 DEF SecSweepSkip, SecSweepOver, SecAdvance
  <1>9. CASE (EndSecSweep \/ \E kind \in {"retain", "drain"} : StartSecSweep(kind)) /\ UNCHANGED vars
    BY <1>1, <1>3, <1>9 DEF EndSecSweep, StartSecSweep, NoSweep
  <1> QED
    BY <1>2, <1>4, <1>5, <1>6, <1>7, <1>8, <1>9 DEF PairNext, Secondary, allVars

\* Two new maps satisfy both invariants.
LEMMA SecInitInv == PairInit => Fresh /\ SecInv
  <1> SUFFICES ASSUME PairInit PROVE Fresh /\ SecInv
    OBVIOUS
  <1>1. \A i \in Idx : version[i] = 0 /\ Len(issued[i]) = 0 /\ sec[i] = Vacant
    BY DEF PairInit, Init, SecInit
  <1>2. Fresh
    BY <1>1 DEF Fresh
  <1>3. SecTypeOK
    BY LenAssumption DEF PairInit, SecInit, SecTypeOK, SecSlot, NoSweep
  <1>4. \A k \in Keys : put[k] = NoValue
    BY DEF PairInit, SecInit
  <1>5. Vacant.version = 0 /\ 0 % 2 # 1
    BY DEF Vacant
  <1> QED BY <1>1, <1>2, <1>3, <1>4, <1>5 DEF SecInv, Tags, PutIssued, Kept

\* Beside a secondary map the primary map behaves as it does alone.
LEMMA PairInvariance == PairSpec => [](IInv /\ Fresh /\ SecInv)
  <1>1. PairInit => IInv /\ Fresh /\ SecInv
    BY InitInv, SecInitInv DEF PairInit
  <1>2. [PairNext]_allVars => [Next]_vars
    BY DEF PairNext, allVars
  <1>3. IInv /\ Fresh /\ SecInv /\ [PairNext]_allVars => (IInv /\ Fresh /\ SecInv)'
    BY <1>2, StepInv, FreshStep, SecStep
  <1> QED BY <1>1, <1>3, PTL DEF PairSpec

\* Under a key the secondary map returns only what was put under that very key,
\* for any number of slots, keys and versions (secondary.rs:343-349).
THEOREM SecondaryOwn == PairSpec => []NoForeignValue
  <1>1. IInv /\ SecInv => NoForeignValue
    <2> SUFFICES ASSUME IInv, SecInv, NEW k \in IssuedKeys, SecContains(k)
                 PROVE  sec[k.idx].value = put[k]
      BY DEF NoForeignValue
    <2>1. k.idx \in Idx /\ k.version % 2 = 1 /\ k \in Keys
      BY LiveIssued DEF IssuedKeys
    <2>2. sec[k.idx].version = k.version /\ KeyOf(k.idx, k.version) = k
      BY <2>1, KeyFacts DEF SecContains
    <2> QED BY <2>1, <2>2 DEF SecInv, Tags
  <1> QED BY <1>1, PairInvariance, PTL

\* What is put under a live key is read back, whatever stale keys of the slot
\* insert, while the slot is in the first half of its versions
\* (secondary.rs:245-247, 262-264).
THEOREM SecondaryReadsBack == PairSpec => []LiveKeysReadBack
  <1>1. IInv /\ Fresh /\ SecInv => LiveKeysReadBack
    <2> SUFFICES ASSUME IInv, Fresh, SecInv, NEW k \in IssuedKeys, ContainsKey(k),
                        put[k] # NoValue, 2 * Len(issued[k.idx]) <= Half
                 PROVE  SecContains(k)
      BY DEF LiveKeysReadBack
    <2> DEFINE n == Len(issued[k.idx])
    <2>1. k.idx \in Idx /\ k.version % 2 = 1 /\ k \in Keys
      BY LiveIssued DEF IssuedKeys
    <2>2. n \in Nat
      BY <2>1, IssuedFacts DEF IInv, TypeOK
    <2>3. k.version = 2 * n \/ (n > 0 /\ k.version = 2 * n - 1)
      BY <2>1 DEF Fresh, Early, ContainsKey
    <2>4. n > 0 /\ k.version = 2 * n - 1
      BY <2>1, <2>2, <2>3
    <2>5. KeyOf(k.idx, 2 * n - 1) = k
      BY <2>1, <2>4, KeyFacts
    <2>6. sec[k.idx].version = 2 * n - 1 /\ k.idx < sec_len
      BY <2>1, <2>4, <2>5 DEF SecInv, Kept, Early
    <2> QED BY <2>4, <2>6 DEF SecContains
  <1> QED BY <1>1, PairInvariance, PTL
===============================================================================
