----------------------------- MODULE ReportProofs -----------------------------
(***************************************************************************)
(* Proofs about Report and ReportWalk, for any number of errors, any        *)
(* capacities and any saturation point: losses are counted, the newest      *)
(* errors survive, a failed try_change_context restores the report, and a   *)
(* walk comes out with the tree, whatever fails on the way.                 *)
(***************************************************************************)
EXTENDS ReportWalk, SequenceTheorems, FiniteSetTheorems, WellFoundedInduction, TLAPS

(***************************************************************************)
(* The inductive invariant.  What the properties say of an idle report has  *)
(* to be known at every step of a change of context: which part of the      *)
(* level that is demoted is still among the peers, and which has been       *)
(* boxed, has become a child, or is lost.                                   *)
(***************************************************************************)

\* s is a prefix of t, by index.
Begins(s, t) == Len(s) <= Len(t) /\ \A i \in 1 .. Len(s) : s[i] = t[i]

\* Outside a change of context the peers are the newest errors pushed, and the
\* others are counted.
PeersKept == pc \in {"idle", "evict", "repush"} =>
  /\ Begins(peers, pushed)
  /\ lost_peers = MaxLost \/ Len(peers) + lost_peers >= Len(pushed)

\* During one, the head and the peers left are the front of the level.
LevelOf(e) == level[e].frames
Changing == pc \in {"demote", "box"}
Remaining == Changing =>
  /\ Len(LevelOf(op)) >= 1 + Len(peers)
  /\ LevelOf(op)[1] = head
  /\ \A i \in 1 .. Len(peers) : LevelOf(op)[i + 1] = peers[i]

\* change_context: the children are the newest of the rest of it.
Behind == Len(LevelOf(op)) - 1 - Len(peers)
Demoting == pc = "demote" =>
  /\ Len(children[op]) <= Behind
  /\ \A i \in 1 .. Len(children[op]) : children[op][i] = LevelOf(op)[1 + Len(peers) + i]
  /\ \/ lost_children[op] = MaxLost
     \/ Len(children[op]) + lost_children[op] >= Behind + level[op].lost

\* try_change_context: the boxes are all of the rest of it, oldest first, and
\* nothing else has changed.
Boxing == pc = "box" =>
  /\ Len(boxed) = Behind
  /\ \A i \in 1 .. Len(boxed) : boxed[i] = LevelOf(op)[Len(LevelOf(op)) + 1 - i]
  /\ level[op].lost = lost_peers
  /\ children[op] = <<>> /\ lost_children[op] = 0
  /\ Len(LevelOf(op)) <= 1 + room
  /\ Len(LevelOf(op)) <= 1 + Len(pushed)
  /\ \A i \in 1 .. Len(LevelOf(op)) - 1 : LevelOf(op)[i + 1] = pushed[i]
  /\ lost_peers = MaxLost \/ Len(LevelOf(op)) - 1 + lost_peers >= Len(pushed)

NoBoxes == pc # "box" => boxed = <<>>

\* A frame whose children are complete.
Complete(e) ==
  /\ \/ lost_children[e] = MaxLost
     \/ Len(children[e]) + lost_children[e] >= Len(LevelOf(e)) + level[e].lost
  /\ Begins(children[e], LevelOf(e)) \/ children[e] = Reverse(LevelOf(e))
AllComplete ==
  /\ \A e \in Errors : Complete(e) \/ (e = op /\ pc \in {"demote", "box", "panicked"})
  /\ pc = "panicked" => Complete(op) \/ children[op] = <<>>

\* An error that has had children is the head or has been demoted, so a fresh one
\* has none.
Bare(e) == children[e] = <<>> /\ lost_children[e] = 0 /\ level[e] = Nothing
IsBelow(e) == \E f \in Errors : ~(Changing /\ f = op) /\ e \in Range(LevelOf(f))
Known == pc # "panicked" =>
  \A e \in Errors : Bare(e) \/ e = head \/ (Changing /\ e = op) \/ IsBelow(e)

ReportInv ==
  /\ TypeOK /\ PeersKept /\ Remaining /\ Demoting /\ Boxing /\ NoBoxes /\ AllComplete /\ Known

(***************************************************************************)
(* Sequences, by index.                                                     *)
(***************************************************************************)
LEMMA Consed ==
  ASSUME NEW S, NEW s \in Seq(S), NEW x \in S
  PROVE  LET r == <<x>> \o s IN
         /\ r \in Seq(S) /\ Len(r) = Len(s) + 1 /\ r[1] = x
         /\ \A i \in 1 .. Len(s) : r[i + 1] = s[i]
  OBVIOUS

ConsedAs(S, x, s) ==
  LET r == <<x>> \o s IN
    /\ r \in Seq(S) /\ Len(r) = Len(s) + 1 /\ r[1] = x
    /\ \A i \in 1 .. Len(s) : r[i + 1] = s[i]
LEMMA ConsedIs == ASSUME NEW S, NEW s \in Seq(S), NEW x \in S PROVE ConsedAs(S, x, s)
  BY DEF ConsedAs

LEMMA Appended ==
  ASSUME NEW S, NEW s \in Seq(S), NEW x \in S
  PROVE  LET r == Append(s, x) IN
         /\ r \in Seq(S) /\ Len(r) = Len(s) + 1 /\ r[Len(s) + 1] = x
         /\ \A i \in 1 .. Len(s) : r[i] = s[i]
  OBVIOUS

LEMMA Fronted ==
  ASSUME NEW S, NEW s \in Seq(S), s # <<>>
  PROVE  /\ Front(s) \in Seq(S) /\ Len(Front(s)) = Len(s) - 1
         /\ \A i \in 1 .. Len(s) - 1 : Front(s)[i] = s[i]
         /\ Last(s) = s[Len(s)] /\ Last(s) \in S /\ Len(s) \in Nat \ {0}
  <1>1. Len(s) \in Nat \ {0} /\ \A i \in 1 .. Len(s) : s[i] \in S
    OBVIOUS
  <1> DEFINE n == Len(s) - 1
  <1>2. n \in Nat /\ n + 1 = Len(s) /\ \A i \in 1 .. n : s[i] \in S
    BY <1>1
  <1>3. /\ SubSeq(s, 1, n) \in Seq(S) /\ Len(SubSeq(s, 1, n)) = n
        /\ \A i \in 1 .. n : SubSeq(s, 1, n)[i] = s[i]
    <2> HIDE DEF n
    <2> QED BY <1>2, SubSeqProperties
  <1> QED BY <1>1, <1>3 DEF Front, Last

LEMMA Popped ==
  ASSUME NEW S, NEW s \in Seq(S)
  PROVE  /\ PopBack(s) \in Seq(S) /\ Len(PopBack(s)) \in Nat
         /\ Len(PopBack(s)) <= Len(s) /\ Len(s) <= Len(PopBack(s)) + 1
         /\ \A i \in 1 .. Len(PopBack(s)) : PopBack(s)[i] = s[i]
         /\ s = <<>> => PopBack(s) = <<>>
  BY Fronted DEF PopBack

LEMMA Reversed ==
  ASSUME NEW S, NEW s \in Seq(S)
  PROVE  /\ Reverse(s) \in Seq(S) /\ Len(Reverse(s)) = Len(s)
         /\ \A i \in 1 .. Len(s) : Reverse(s)[i] = s[Len(s) + 1 - i]
  <1> DEFINE r == [i \in 1 .. Len(s) |-> s[(Len(s) - i) + 1]]
  <1>1. \A i \in 1 .. Len(s) : s[(Len(s) - i) + 1] \in S
    OBVIOUS
  <1>2. r \in Seq(S) /\ Len(r) = Len(s)
    BY <1>1
  <1>3. Reverse(s) = r
    BY DEF Reverse
  <1>4. \A i \in 1 .. Len(s) : r[i] = s[Len(s) + 1 - i]
    OBVIOUS
  <1> QED BY <1>2, <1>3, <1>4

LEMMA Concatenated ==
  ASSUME NEW S, NEW s \in Seq(S), NEW t \in Seq(S)
  PROVE  /\ s \o t \in Seq(S) /\ Len(s \o t) = Len(s) + Len(t)
         /\ \A i \in 1 .. Len(s) : (s \o t)[i] = s[i]
         /\ \A i \in 1 .. Len(t) : (s \o t)[Len(s) + i] = t[i]
  OBVIOUS

LEMMA SameSequence ==
  ASSUME NEW S, NEW s \in Seq(S), NEW t \in Seq(S), Len(s) = Len(t), \A i \in 1 .. Len(s) : s[i] = t[i]
  PROVE  s = t
  OBVIOUS

LEMMA PrefixByIndex ==
  ASSUME NEW S, NEW s \in Seq(S), NEW t \in Seq(S), Begins(s, t)
  PROVE  IsPrefix(s, t)
  <1>1. SubSeq(t, 1, Len(s)) \in Seq(S) /\ Len(SubSeq(t, 1, Len(s))) = Len(s)
        /\ \A i \in 1 .. Len(s) : SubSeq(t, 1, Len(s))[i] = s[i]
    BY DEF Begins
  <1>2. SubSeq(s, 1, Len(s)) = s
    OBVIOUS
  <1>3. SubSeq(t, 1, Len(s)) = s
    BY <1>1, SameSequence
  <1> QED BY <1>2, <1>3 DEF IsPrefix, Begins

(***************************************************************************)
(* Fresh errors.                                                            *)
(***************************************************************************)
LEMMA LeastNumber ==
  ASSUME NEW T, T \subseteq Nat, T # {}
  PROVE \E x \in T : \A y \in T : x <= y
  <1>1. PICK x \in T : \A y \in T : ~(<<y,x>> \in OpToRel(<,Nat))
    BY NatLessThanWellFounded, WFMin
  <1>2. \A y \in T : <<y,x>> \in OpToRel(<,Nat) <=> y < x
    BY DEF OpToRel
  <1>3. \A y \in T : ~(y < x)
    BY <1>1, <1>2, Zenon
  <1> QED BY <1>3

LEMMA LargestError ==
  ASSUME NEW S, S \subseteq Errors, S # {}
  PROVE  Max(S) \in S /\ \A x \in S : x <= Max(S)
  <1> DEFINE T == {MaxErrors - x : x \in S}
  <1>1. MaxErrors \in Nat /\ \A x \in S : x \in Nat /\ x <= MaxErrors
    BY ErrorsAssumption DEF Errors
  <1>2. T \subseteq Nat /\ T # {}
    BY <1>1
  <1>3. PICK y \in T : \A z \in T : y <= z
    BY <1>2, LeastNumber
  <1>4. PICK m \in S : y = MaxErrors - m
    BY <1>3
  <1>5. \A x \in S : m >= x
    <2> TAKE x \in S
    <2>1. MaxErrors - x \in T
      OBVIOUS
    <2>2. MaxErrors - m <= MaxErrors - x
      BY <1>3, <1>4, <2>1
    <2> QED BY <1>1, <2>2
  <1>6. Max(S) \in S /\ \A x \in S : Max(S) >= x
    BY <1>5 DEF Max
  <1>7. \A x \in S : x \in Int
    BY <1>1
  <1> QED BY <1>6, <1>7

\* The error a call brings is not the head, not pushed and nobody's child.
LEMMA FreshIsNew ==
  ASSUME TypeOK
  PROVE  /\ Fresh \in Nat \ {0}
         /\ Fresh # head
         /\ \A f \in Errors : Fresh \notin Range(LevelOf(f))
  <1> DEFINE S == {head} \union Range(pushed) \union UNION {Range(level[e].frames) : e \in Errors}
  <1>1. \A q \in Seq(Errors) : Range(q) \subseteq Errors
    BY DEF Range
  <1>2. S \subseteq Errors
    BY <1>1 DEF TypeOK
  <1>3. Max(S) \in Errors /\ \A x \in S : x \in Errors /\ x <= Max(S)
    BY <1>2, LargestError
  <1>4. Fresh = 1 + Max(S)
    BY DEF Fresh
  <1>5. Fresh \notin S
    <2> HIDE DEF S
    <2> QED BY <1>3, <1>4, ErrorsAssumption DEF Errors
  <1>6. Fresh \in Nat \ {0}
    <2> HIDE DEF S
    <2> QED BY <1>3, <1>4 DEF Errors
  <1> QED BY <1>5, <1>6 DEF LevelOf

(***************************************************************************)
(* Each step keeps the invariant.                                           *)
(***************************************************************************)
LEMMA ReportInit == Init => ReportInv
  <1> SUFFICES ASSUME Init PROVE ReportInv
    OBVIOUS
  <1>1. /\ MaxErrors \in Nat \ {0} /\ MaxLost \in Nat \ {0} /\ 1 \in Errors
    BY ErrorsAssumption DEF Errors
  <1>2. /\ head = 1 /\ peers = <<>> /\ room = 0 /\ lost_peers = 0 /\ capacity = NoCap
        /\ pc = "idle" /\ op = NoError /\ new_room = 0 /\ boxed = <<>> /\ pushed = <<>>
        /\ children \in [Errors -> Seq(Errors)] /\ lost_children \in [Errors -> 0 .. MaxLost]
        /\ level \in [Errors -> [frames : Seq(Errors), lost : 0 .. MaxLost]]
    BY <1>1 DEF Init, Nothing
  <1>3. \A e \in Errors : children[e] = <<>> /\ lost_children[e] = 0 /\ level[e] = Nothing
                          /\ LevelOf(e) = <<>> /\ level[e].lost = 0
    BY DEF Init, Nothing, LevelOf
  <1>4. TypeOK
    BY <1>1, <1>2 DEF TypeOK, PCs, NoError, Errors
  <1>5. PeersKept /\ Remaining /\ Demoting /\ Boxing /\ NoBoxes
    BY <1>2 DEF NoBoxes, PeersKept, Remaining, Demoting, Boxing, Changing, Begins
  <1>6. AllComplete /\ Known
    BY <1>2, <1>3 DEF AllComplete, Complete, Begins, Known, Bare
  <1> QED BY <1>4, <1>5, <1>6 DEF ReportInv

Plain == pc \in {"idle", "evict", "repush"}

\* Steps that only concern the peers.
LEMMA FramesKept ==
  ASSUME ReportInv, Plain, UNCHANGED <<frameVars, level, head, boxed>>,
         Plain' \/ (pc' = "panicked" /\ op' = op /\ op \in Errors)
  PROVE  Remaining' /\ Demoting' /\ Boxing' /\ NoBoxes' /\ AllComplete' /\ Known'
  <1>1. Remaining' /\ Demoting' /\ Boxing' /\ NoBoxes'
    BY DEF ReportInv, NoBoxes, Plain, Remaining, Demoting, Boxing, Changing
  <1>2. \A e \in Errors : Complete(e)
    BY DEF ReportInv, AllComplete, Plain
  <1>3. \A e \in Errors : Complete(e)'
    BY <1>2 DEF Complete, frameVars, LevelOf
  <1>4. AllComplete'
    BY <1>3 DEF AllComplete, Plain
  <1>5. ~Changing
    BY DEF Plain, Changing
  <1>6. pc' # "panicked" => ~Changing'
    BY DEF Plain, Changing
  <1>7. \A e \in Errors : Bare(e) \/ e = head \/ \E f \in Errors : e \in Range(LevelOf(f))
    BY <1>5 DEF ReportInv, Known, IsBelow, Plain
  <1>8. \A e \in Errors : Bare(e)' <=> Bare(e)
    BY DEF Bare, frameVars
  <1>9. \A f \in Errors : LevelOf(f)' = LevelOf(f)
    BY DEF LevelOf
  <1>10. Known'
    BY <1>6, <1>7, <1>8, <1>9 DEF Known, IsBelow
  <1> QED BY <1>1, <1>4, <1>10

LEMMA GrownRoom ==
  ASSUME NEW s \in Seq(Errors), NEW r \in Nat, NEW r2 \in RoomToPush(s, r)
  PROVE  r2 \in Nat /\ Len(s) + 1 <= r2
  BY ErrorsAssumption DEF RoomToPush, Grown

\* Push: a peer is evicted, or the deque cannot grow and the oldest makes room.
LEMMA EvictKeeps ==
  ASSUME ReportInv, EvictOldest, pc \in {"evict", "repush"}, pc' \in {"evict", "repush"},
         UNCHANGED <<head, room, capacity, frameVars, op, new_room, boxed, pushed, level>>
  PROVE  ReportInv'
  <1> USE DEF ReportInv
  <1>1. /\ peers \in Seq(Errors) /\ pushed \in Seq(Errors) /\ lost_peers \in 0 .. MaxLost
        /\ MaxLost \in Nat \ {0} /\ room \in Nat /\ Len(peers) <= room
    BY ErrorsAssumption DEF TypeOK
  <1>2. /\ peers' = PopBack(peers) /\ lost_peers' = Count(lost_peers) /\ pushed' = pushed
    BY DEF EvictOldest
  <1>3. /\ peers' \in Seq(Errors) /\ Len(peers') \in Nat /\ Len(peers) \in Nat /\ Len(peers') <= Len(peers)
        /\ Len(peers) <= Len(peers') + 1 /\ \A i \in 1 .. Len(peers') : peers'[i] = peers[i]
    BY <1>1, <1>2, Popped
  <1>4. lost_peers' \in 0 .. MaxLost
    BY <1>1, <1>2 DEF Count
  <1>5. TypeOK'
    BY <1>1, <1>3, <1>4, SMTT(30) DEF TypeOK, frameVars, PCs
  <1>6. Begins(peers, pushed) /\ (lost_peers = MaxLost \/ Len(peers) + lost_peers >= Len(pushed))
    BY DEF PeersKept
  <1>7. Begins(peers, pushed)'
    BY <1>1, <1>2, <1>3, <1>6 DEF Begins
  <1>8. (lost_peers = MaxLost \/ Len(peers) + lost_peers >= Len(pushed))'
    BY <1>1, <1>2, <1>3, <1>6 DEF Count
  <1>9. PeersKept'
    BY <1>7, <1>8 DEF PeersKept
  <1> QED BY <1>5, <1>9, FramesKept DEF Plain

\* Push, try_push: the new error is the front peer.
LEMMA PushedKeeps ==
  ASSUME ReportInv, Plain, NEW e \in Errors, room' \in RoomToPush(peers, room),
         peers' = <<e>> \o peers, pushed' = <<e>> \o pushed, pc' = "idle", op' = NoError,
         UNCHANGED <<head, lost_peers, capacity, frameVars, new_room, boxed, level>>
  PROVE  ReportInv'
  <1> USE DEF ReportInv
  <1>1. /\ peers \in Seq(Errors) /\ pushed \in Seq(Errors) /\ lost_peers \in 0 .. MaxLost
        /\ MaxLost \in Nat \ {0} /\ room \in Nat /\ Len(peers) <= room
    BY ErrorsAssumption DEF TypeOK
  <1>2. /\ peers' \in Seq(Errors) /\ Len(peers') = Len(peers) + 1 /\ peers'[1] = e
        /\ \A i \in 1 .. Len(peers) : peers'[i + 1] = peers[i]
    BY <1>1, Consed
  <1>3. /\ pushed' \in Seq(Errors) /\ Len(pushed') = Len(pushed) + 1 /\ pushed'[1] = e
        /\ \A i \in 1 .. Len(pushed) : pushed'[i + 1] = pushed[i]
    BY <1>1, Consed
  <1>4. room' \in Nat /\ Len(peers) + 1 <= room'
    BY <1>1, GrownRoom
  <1>5. TypeOK'
    BY <1>1, <1>2, <1>3, <1>4 DEF TypeOK, frameVars, PCs
  <1>6. Begins(peers, pushed) /\ (lost_peers = MaxLost \/ Len(peers) + lost_peers >= Len(pushed))
    BY DEF PeersKept, Plain
  <1>7. Len(peers) \in Nat /\ Len(pushed) \in Nat
    BY <1>1
  <1>8. ASSUME NEW i \in 1 .. Len(peers') PROVE peers'[i] = pushed'[i]
    <2>1. CASE i = 1
      BY <1>2, <1>3, <2>1
    <2>2. CASE i # 1
      <3>1. i - 1 \in 1 .. Len(peers) /\ i - 1 \in 1 .. Len(pushed) /\ i = (i - 1) + 1
        BY <1>2, <1>6, <1>7, <2>2 DEF Begins
      <3> QED BY <1>2, <1>3, <1>6, <3>1 DEF Begins
    <2> QED BY <2>1, <2>2
  <1>9. Begins(peers, pushed)'
    BY <1>2, <1>3, <1>6, <1>7, <1>8 DEF Begins
  <1>10. (lost_peers = MaxLost \/ Len(peers) + lost_peers >= Len(pushed))'
    BY <1>1, <1>2, <1>3, <1>6, <1>7
  <1>11. PeersKept'
    BY <1>9, <1>10 DEF PeersKept
  <1> QED BY <1>5, <1>11, FramesKept DEF Plain

\* The steps of push, try_push and with_capacity.
LEMMA PushKeeps ==
  ASSUME ReportInv,
         \/ \E cap \in Caps : WithCapacity(cap)
         \/ Push \/ PushEvicts \/ PushFits \/ PushFails \/ Repush \/ RepushFails \/ TryPush
  PROVE  ReportInv'
  <1> USE DEF ReportInv
  <1>1. ASSUME NEW cap \in Caps, WithCapacity(cap) PROVE ReportInv'
    <2>1. TypeOK'
      BY <1>1 DEF WithCapacity, TypeOK, frameVars, callVars
    <2>2. PeersKept'
      BY <1>1 DEF WithCapacity, PeersKept, callVars, Begins
    <2> QED BY <1>1, <2>1, <2>2, FramesKept DEF WithCapacity, Plain, callVars
  <1>2. CASE Push
    <2>1. Fresh \in Errors /\ NoError \notin Errors
      BY <1>2, FreshIsNew DEF Push, Errors, NoError
    <2>2. TypeOK'
      BY <1>2, <2>1 DEF Push, TypeOK, reportVars, frameVars, PCs
    <2>3. PeersKept'
      BY <1>2 DEF Push, PeersKept, reportVars, Begins
    <2> QED BY <1>2, <2>2, <2>3, FramesKept DEF Push, Plain, reportVars
  <1>3. CASE PushEvicts \/ PushFails
    BY <1>3, EvictKeeps DEF PushEvicts, PushFails, callVars
  <1>4. CASE PushFits \/ Repush
    <2>1. op \in Errors
      BY <1>4 DEF PushFits, Repush, TypeOK
    <2> QED BY <1>4, <2>1, PushedKeeps DEF PushFits, Repush, PushFront, Return, Plain
  <1>5. CASE TryPush
    <2>1. Fresh \in Errors /\ pc = "idle" /\ op = NoError
      BY <1>5 DEF TryPush, TypeOK
    <2> QED BY <1>5, <2>1, PushedKeeps DEF TryPush, Plain, callVars
  <1>6. CASE RepushFails
    <2>1. TypeOK' /\ op \in Errors
      BY <1>6 DEF RepushFails, TypeOK, reportVars, frameVars, PCs
    <2>2. PeersKept'
      BY <1>6 DEF RepushFails, PeersKept
    <2> QED BY <1>6, <2>1, <2>2, FramesKept DEF RepushFails, Plain, reportVars
  <1> QED BY <1>1, <1>2, <1>3, <1>4, <1>5, <1>6

\* A change of context begins: the level to demote is the head and the peers.
LEMMA BegunKeeps ==
  ASSUME ReportInv, NEW step \in {"box", "demote"}, Begin(step), new_room' \in Nat,
         lost_children' = IF step = "box" THEN lost_children
                          ELSE [lost_children EXCEPT ![Fresh] = lost_peers]
  PROVE  ReportInv'
  <1> USE DEF ReportInv
  <1>1. /\ peers \in Seq(Errors) /\ pushed \in Seq(Errors) /\ lost_peers \in 0 .. MaxLost
        /\ MaxLost \in Nat \ {0} /\ room \in Nat /\ Len(peers) <= room /\ head \in Errors
        /\ level \in [Errors -> [frames : Seq(Errors), lost : 0 .. MaxLost]]
        /\ children \in [Errors -> Seq(Errors)] /\ lost_children \in [Errors -> 0 .. MaxLost]
    BY ErrorsAssumption DEF TypeOK
  <1>2. /\ pc = "idle" /\ pc' = step /\ Fresh \in Errors /\ op' = Fresh /\ Fresh # NoError
        /\ UNCHANGED <<head, peers, room, lost_peers, capacity, children, boxed, pushed>>
        /\ level' = [level EXCEPT ![Fresh] = [frames |-> <<head>> \o peers, lost |-> lost_peers]]
    BY FreshIsNew DEF Begin, reportVars, NoError
  <1>3. Bare(Fresh)
    BY <1>2, FreshIsNew DEF Known, IsBelow, Changing
  <1>4. LET r == <<head>> \o peers IN
        /\ r \in Seq(Errors) /\ Len(r) = Len(peers) + 1 /\ r[1] = head
        /\ \A i \in 1 .. Len(peers) : r[i + 1] = peers[i]
    <2>1. peers \in Seq(Errors) /\ head \in Errors
      BY <1>1
    <2> HIDE DEF ReportInv
    <2> QED BY <2>1, Consed
  <1>5. LevelOf(op)' = <<head>> \o peers /\ level'[op'].lost = lost_peers
    BY <1>1, <1>2 DEF LevelOf
  <1>6. \A e \in Errors : e # Fresh =>
          LevelOf(e)' = LevelOf(e) /\ level'[e] = level[e] /\ lost_children'[e] = lost_children[e]
    BY <1>1, <1>2 DEF LevelOf
  <1>7. lost_children' \in [Errors -> 0 .. MaxLost] /\ level' \in [Errors -> [frames : Seq(Errors), lost : 0 .. MaxLost]]
    BY <1>1, <1>2, <1>4
  <1>8. TypeOK'
    BY <1>2, <1>7 DEF TypeOK, PCs
  <1>9. PeersKept'
    BY <1>2 DEF PeersKept
  <1>10. Behind' = 0
    BY <1>1, <1>2, <1>4, <1>5 DEF Behind
  <1>11. Remaining'
    BY <1>1, <1>2, <1>4, <1>5 DEF Remaining
  <1>12. children'[op'] = <<>>
    BY <1>2, <1>3 DEF Bare
  <1>13. Demoting'
    <2> SUFFICES ASSUME pc' = "demote" PROVE Demoting'
      BY DEF Demoting
    <2>1. lost_children'[op'] = lost_peers
      BY <1>1, <1>2
    <2> QED BY <1>1, <1>5, <1>10, <1>12, <2>1 DEF Demoting
  <1>14. Boxing'
    <2> SUFFICES ASSUME pc' = "box" PROVE Boxing'
      BY DEF Boxing
    <2>1. lost_children'[op'] = 0 /\ boxed' = <<>>
      BY <1>2, <1>3 DEF Bare, NoBoxes
    <2>2. Begins(peers, pushed) /\ (lost_peers = MaxLost \/ Len(peers) + lost_peers >= Len(pushed))
      BY <1>2 DEF PeersKept
    <2>3. Len(peers) \in Nat /\ Len(pushed) \in Nat
      BY <1>1
    <2>4. /\ Len(LevelOf(op)') = Len(peers) + 1
          /\ \A i \in 1 .. Len(LevelOf(op)') - 1 : LevelOf(op)'[i + 1] = pushed[i]
      BY <1>4, <1>5, <2>2, <2>3 DEF Begins
    <2>5. Len(boxed') = 0
      BY <2>1
    <2> QED BY <1>1, <1>2, <1>5, <1>10, <1>12, <2>1, <2>2, <2>3, <2>4, <2>5, SMTT(30) DEF Boxing, Begins
  <1>15. AllComplete'
    <2>1. \A e \in Errors : e # Fresh => Complete(e)'
      BY <1>2, <1>6 DEF AllComplete, Complete
    <2> QED BY <1>2, <2>1 DEF AllComplete
  <1>16. Known'
    <2> SUFFICES ASSUME NEW e \in Errors, ~Bare(e)', e # head, e # Fresh PROVE IsBelow(e)'
      BY <1>2 DEF Known, Changing
    <2>1. ~Bare(e)
      BY <1>2, <1>6 DEF Bare
    <2>2. PICK f \in Errors : e \in Range(LevelOf(f))
      BY <1>2, <2>1 DEF Known, Changing, IsBelow
    <2>3. f # Fresh
      <3>1. Range(LevelOf(Fresh)) = {}
        BY <1>3 DEF Bare, LevelOf, Nothing, Range
      <3> QED BY <2>2, <3>1
    <2> QED BY <1>2, <1>6, <2>2, <2>3 DEF IsBelow
  <1>17. NoBoxes'
    BY <1>2 DEF NoBoxes
  <1> QED BY <1>8, <1>9, <1>11, <1>13, <1>14, <1>15, <1>16, <1>17

\* It ends: op is the head, and the level below it is complete.
LEMMA NewReportKeeps ==
  ASSUME ReportInv, Changing, NewReport,
         children' \in [Errors -> Seq(Errors)], lost_children' \in [Errors -> 0 .. MaxLost],
         \A e \in Errors : e # op => children'[e] = children[e] /\ lost_children'[e] = lost_children[e],
         NEW o \in Errors, o = op, Complete(o)'
  PROVE  ReportInv'
  <1> USE DEF ReportInv
  <1>1. /\ op \in Errors /\ pc \in {"box", "demote"} /\ head \in Errors
        /\ level \in [Errors -> [frames : Seq(Errors), lost : 0 .. MaxLost]]
    BY DEF TypeOK, Changing
  <1>2. /\ head' = op /\ peers' = <<>> /\ room' = 0 /\ lost_peers' = 0 /\ new_room' = 0
        /\ boxed' = <<>> /\ pushed' = <<>> /\ pc' = "idle" /\ op' = NoError
        /\ capacity' = capacity /\ level' = level
    BY DEF NewReport, Return
  <1>3. TypeOK'
    BY <1>1, <1>2, ErrorsAssumption, SMTT(30) DEF TypeOK, PCs
  <1>4. PeersKept' /\ Remaining' /\ Demoting' /\ Boxing' /\ NoBoxes'
    BY <1>2 DEF PeersKept, Remaining, Demoting, Boxing, NoBoxes, Changing, Begins
  <1>5. AllComplete'
    <2>1. ASSUME NEW e \in Errors, e # op PROVE Complete(e)'
      <3>1. Complete(e)
        BY <2>1 DEF AllComplete
      <3> QED BY <1>2, <2>1, <3>1 DEF Complete, LevelOf
    <2>2. \A e \in Errors : Complete(e)'
      BY <2>1
    <2> QED BY <1>2, <2>2 DEF AllComplete
  <1>6. Known'
    <2> SUFFICES ASSUME NEW e \in Errors, ~Bare(e)', e # op PROVE IsBelow(e)'
      BY <1>2 DEF Known
    <2>1. ~Bare(e)
      BY <1>2 DEF Bare
    <2>2. e = head \/ IsBelow(e)
      BY <1>1, <2>1 DEF Known, Changing
    <2>3. CASE IsBelow(e)
      BY <1>2, <2>3 DEF IsBelow, Changing, LevelOf
    <2>4. CASE e = head
      <3>1. LevelOf(op)[1] = head /\ Len(LevelOf(op)) >= 1 + Len(peers)
        BY DEF Remaining
      <3>2. LevelOf(op) \in Seq(Errors) /\ peers \in Seq(Errors)
        BY <1>1 DEF LevelOf, TypeOK
      <3>3. 1 \in DOMAIN LevelOf(op)
        BY <3>1, <3>2
      <3>4. head \in Range(LevelOf(op))
        BY <3>1, <3>3 DEF Range
      <3> QED BY <1>1, <1>2, <2>4, <3>4 DEF IsBelow, Changing, LevelOf
    <2> QED BY <2>2, <2>3, <2>4
  <1> QED BY <1>3, <1>4, <1>5, <1>6

\* change_context is done with a frame: c are the children then.
LEMMA PassedKeeps ==
  ASSUME ReportInv, pc = "demote", NextFrame,
         NEW c \in Seq(Errors), NEW lc \in 0 .. MaxLost,
         children' = [children EXCEPT ![op] = c], lost_children' = [lost_children EXCEPT ![op] = lc],
         peers # <<>> => new_room' \in Nat,
         Len(c) <= Behind + 1,
         \A i \in 1 .. Len(c) : c[i] = LevelOf(op)[Len(peers) + i],
         lc = MaxLost \/ Len(c) + lc >= Behind + 1 + level[op].lost
  PROVE  ReportInv'
  <1> USE DEF ReportInv
  <1>1. /\ peers \in Seq(Errors) /\ MaxLost \in Nat \ {0} /\ room \in Nat /\ Len(peers) <= room
        /\ op \in Errors /\ level \in [Errors -> [frames : Seq(Errors), lost : 0 .. MaxLost]]
        /\ children \in [Errors -> Seq(Errors)] /\ lost_children \in [Errors -> 0 .. MaxLost]
    BY ErrorsAssumption DEF TypeOK
  <1>2. /\ children' \in [Errors -> Seq(Errors)] /\ lost_children' \in [Errors -> 0 .. MaxLost]
        /\ children'[op] = c /\ lost_children'[op] = lc
        /\ \A e \in Errors : e # op => children'[e] = children[e] /\ lost_children'[e] = lost_children[e]
    BY <1>1
  <1>3. LevelOf(op) \in Seq(Errors) /\ level[op].lost \in Nat
    BY <1>1 DEF LevelOf
  <1>4. CASE peers = <<>> /\ NewReport
    <2>1. Len(peers) = 0
      BY <1>4
    <2>2. Len(c) \in Nat /\ Len(LevelOf(op)) \in Nat /\ Behind + 1 = Len(LevelOf(op))
      BY <1>3, <2>1 DEF Behind
    <2>3. Begins(c, LevelOf(op)) /\ (lc = MaxLost \/ Len(c) + lc >= Len(LevelOf(op)) + level[op].lost)
      BY <2>1, <2>2 DEF Begins
    <2>4. ASSUME NEW o \in Errors, o = op PROVE Complete(o)'
      <3>1. level' = level
        BY <1>4 DEF NewReport
      <3> QED BY <1>2, <2>3, <2>4, <3>1 DEF Complete, LevelOf
    <2>5. Changing
      BY DEF Changing
    <2> QED BY <1>1, <1>2, <1>4, <2>4, <2>5, NewReportKeeps
  <1>5. CASE /\ peers # <<>> /\ peers' = Front(peers)
             /\ UNCHANGED <<head, room, lost_peers, capacity, pc, op, boxed, pushed, level>>
    <2>1. /\ peers' \in Seq(Errors) /\ Len(peers') = Len(peers) - 1 /\ Len(peers) \in Nat \ {0}
          /\ \A i \in 1 .. Len(peers) - 1 : peers'[i] = peers[i]
      BY <1>1, <1>5, Fronted
    <2>2. TypeOK'
      <3>1. new_room' \in Nat /\ Len(peers') <= room
        BY <1>1, <1>5, <2>1
      <3> QED BY <1>2, <1>5, <2>1, <3>1 DEF TypeOK
    <2>3. Behind' = Behind + 1
      BY <1>3, <1>5, <2>1 DEF Behind, LevelOf
    <2>4. LevelOf(op)' = LevelOf(op)
      BY <1>5 DEF LevelOf
    <2>5. /\ Len(LevelOf(op)) >= 1 + Len(peers) /\ LevelOf(op)[1] = head
          /\ \A i \in 1 .. Len(peers) : LevelOf(op)[i + 1] = peers[i]
      BY DEF Remaining, Changing
    <2>6. Remaining'
      BY <1>3, <1>5, <2>1, <2>4, <2>5 DEF Remaining
    <2>7. \A i \in 1 .. Len(c) : c[i] = LevelOf(op)[1 + Len(peers') + i]
      BY <2>1
    <2>8. Demoting'
      BY <1>2, <1>5, <2>3, <2>4, <2>7 DEF Demoting
    <2>9. PeersKept' /\ Boxing' /\ NoBoxes'
      BY <1>5 DEF PeersKept, Boxing, NoBoxes
    <2>10. AllComplete'
      <3>1. ASSUME NEW e \in Errors, e # op PROVE Complete(e)'
        <4>1. Complete(e)
          BY <3>1 DEF AllComplete
        <4> QED BY <1>2, <1>5, <3>1, <4>1 DEF Complete, LevelOf
      <3> QED BY <1>5, <3>1 DEF AllComplete
    <2>11. Known'
      <3> SUFFICES ASSUME NEW e \in Errors, ~Bare(e)', e # head, e # op PROVE IsBelow(e)'
        BY <1>5 DEF Known, Changing
      <3>1. ~Bare(e)
        BY <1>2, <1>5 DEF Bare
      <3>2. IsBelow(e)
        BY <3>1 DEF Known
      <3> QED BY <1>5, <3>2 DEF IsBelow, Changing, LevelOf
    <2> QED BY <2>2, <2>6, <2>8, <2>9, <2>10, <2>11
  <1> QED BY <1>4, <1>5 DEF NextFrame

\* The frame change_context is at comes right after the peers that are left.
LEMMA DemotedIs ==
  ASSUME ReportInv, Changing
  PROVE  Demoted \in Errors /\ Demoted = LevelOf(op)[Len(peers) + 1]
  <1> USE DEF ReportInv
  <1>1. peers \in Seq(Errors) /\ head \in Errors
    BY DEF TypeOK
  <1>2. CASE peers = <<>>
    BY <1>1, <1>2 DEF Demoted, Remaining
  <1>3. CASE peers # <<>>
    <2>1. Demoted = peers[Len(peers)] /\ peers[Len(peers)] \in Errors /\ Len(peers) \in Nat \ {0}
      BY <1>1, <1>3, Fronted DEF Demoted
    <2>2. LevelOf(op)[Len(peers) + 1] = peers[Len(peers)]
      BY <2>1 DEF Remaining
    <2> QED BY <2>1, <2>2
  <1> QED BY <1>2, <1>3

\* It becomes the first child, in front of those kept.
LEMMA PushChildKeeps ==
  ASSUME ReportInv, pc = "demote",
         NEW kept \in Seq(Errors), Len(kept) <= Len(children[op]),
         \A i \in 1 .. Len(kept) : kept[i] = children[op][i], PushChild(kept),
         NEW lc \in 0 .. MaxLost, lost_children' = [lost_children EXCEPT ![op] = lc],
         lc = MaxLost \/ Len(kept) + lc >= Behind + level[op].lost
  PROVE  ReportInv'
  <1> USE DEF ReportInv
  <1> DEFINE c == <<Demoted>> \o kept
  <1>1. /\ children' = [children EXCEPT ![op] = c] /\ NextFrame
        /\ peers # <<>> => new_room' \in RoomToPush(kept, new_room)
    BY DEF PushChild
  <1>2. Changing
    BY DEF Changing
  <1>3. Demoted \in Errors /\ Demoted = LevelOf(op)[Len(peers) + 1]
    BY <1>2, DemotedIs
  <1>4. /\ c \in Seq(Errors) /\ Len(c) = Len(kept) + 1 /\ c[1] = Demoted
        /\ \A i \in 1 .. Len(kept) : c[i + 1] = kept[i]
    BY <1>3, Consed
  <1>5. /\ new_room \in Nat /\ op \in Errors /\ peers \in Seq(Errors) /\ MaxLost \in Nat
        /\ level \in [Errors -> [frames : Seq(Errors), lost : 0 .. MaxLost]]
        /\ children \in [Errors -> Seq(Errors)]
    BY ErrorsAssumption DEF TypeOK
  <1>6. peers # <<>> => new_room' \in Nat
    BY <1>1, <1>5, GrownRoom
  <1>7. Len(kept) \in Nat /\ Len(peers) \in Nat /\ Behind \in Int /\ level[op].lost \in Nat
        /\ Len(children[op]) \in Nat
    BY <1>5 DEF Behind, LevelOf
  <1>8. Len(c) <= Behind + 1
    BY <1>4, <1>7 DEF Demoting
  <1>9. ASSUME NEW i \in 1 .. Len(c) PROVE c[i] = LevelOf(op)[Len(peers) + i]
    <2>1. CASE i = 1
      BY <1>3, <1>4, <2>1
    <2>2. CASE i # 1
      <3>1. i - 1 \in 1 .. Len(kept) /\ i = (i - 1) + 1
        BY <1>4, <1>7, <2>2
      <3>2. c[i] = kept[i - 1]
        BY <1>4, <3>1
      <3>3. kept[i - 1] = children[op][i - 1] /\ i - 1 \in 1 .. Len(children[op])
        BY <1>7, <3>1
      <3>4. children[op][i - 1] = LevelOf(op)[1 + Len(peers) + (i - 1)]
        BY <3>3 DEF Demoting
      <3>5. 1 + Len(peers) + (i - 1) = Len(peers) + i
        BY <1>7
      <3> QED BY <3>2, <3>3, <3>4, <3>5
    <2> QED BY <2>1, <2>2
  <1>10. lc = MaxLost \/ Len(c) + lc >= Behind + 1 + level[op].lost
    BY <1>4, <1>7
  <1> HIDE DEF c
  <1> QED BY <1>1, <1>4, <1>6, <1>8, <1>9, <1>10, PassedKeeps

\* The steps of change_context.
LEMMA ChangeKeeps ==
  ASSUME ReportInv,
         ChangeContext \/ Demote \/ DemoteEvicts \/ DemotePanics \/ BoxFails \/ GiveUp
  PROVE  ReportInv'
  <1> USE DEF ReportInv
  <1>1. /\ MaxLost \in Nat \ {0} /\ MaxSpare \in Nat /\ peers \in Seq(Errors)
        /\ children \in [Errors -> Seq(Errors)] /\ lost_children \in [Errors -> 0 .. MaxLost]
        /\ level \in [Errors -> [frames : Seq(Errors), lost : 0 .. MaxLost]]
    BY ErrorsAssumption DEF TypeOK
  <1>2. CASE ChangeContext
    <2>1. new_room' \in Nat
      <3>1. PeerCount \in Nat
        BY <1>1 DEF PeerCount
      <3> QED BY <1>1, <1>2, <3>1 DEF ChangeContext, Grown
    <2> QED BY <1>2, <2>1, BegunKeeps DEF ChangeContext
  <1>3. ASSUME pc = "demote"
        PROVE  /\ op \in Errors /\ children[op] \in Seq(Errors) /\ lost_children[op] \in 0 .. MaxLost
               /\ Count(lost_children[op]) \in 0 .. MaxLost /\ Behind \in Int /\ level[op].lost \in Nat
               /\ Len(children[op]) \in Nat /\ Len(children[op]) <= Behind
               /\ \/ lost_children[op] = MaxLost
                  \/ Len(children[op]) + lost_children[op] >= Behind + level[op].lost
    <2>1. op \in Errors
      BY <1>3 DEF TypeOK
    <2>2. Count(lost_children[op]) \in 0 .. MaxLost
      BY <1>1, <2>1 DEF Count
    <2>3. children[op] \in Seq(Errors) /\ lost_children[op] \in 0 .. MaxLost
      BY <1>1, <2>1
    <2>4. level[op].frames \in Seq(Errors) /\ level[op].lost \in Nat
      BY <1>1, <2>1
    <2>5. Behind \in Int /\ Len(children[op]) \in Nat
      BY <1>1, <2>3, <2>4 DEF Behind, LevelOf
    <2>6. /\ Len(children[op]) <= Behind
          /\ \/ lost_children[op] = MaxLost
             \/ Len(children[op]) + lost_children[op] >= Behind + level[op].lost
      BY <1>3 DEF Demoting
    <2> QED BY <2>1, <2>2, <2>3, <2>4, <2>5, <2>6
  <1>4. CASE Demote
    <2>1. pc = "demote" /\ PushChild(children[op]) /\ lost_children' = lost_children
      BY <1>4 DEF Demote
    <2>2. lost_children' = [lost_children EXCEPT ![op] = lost_children[op]]
      BY <1>1, <1>3, <2>1
    <2>3. /\ children[op] \in Seq(Errors) /\ Len(children[op]) <= Len(children[op])
          /\ \A i \in 1 .. Len(children[op]) : children[op][i] = children[op][i]
          /\ lost_children[op] \in 0 .. MaxLost
          /\ \/ lost_children[op] = MaxLost
             \/ Len(children[op]) + lost_children[op] >= Behind + level[op].lost
      BY <1>3, <2>1
    <2> HIDE DEF ReportInv
    <2> QED BY <2>1, <2>2, <2>3, PushChildKeeps
  <1>5. CASE DemoteEvicts
    <2>1. pc = "demote" /\ PushChild(PopBack(children[op]))
          /\ lost_children' = [lost_children EXCEPT ![op] = Count(lost_children[op])]
      BY <1>5 DEF DemoteEvicts, LoseChild
    <2>2. LET kept == PopBack(children[op]) IN
          /\ kept \in Seq(Errors) /\ Len(kept) \in Nat /\ Len(kept) <= Len(children[op])
          /\ Len(children[op]) <= Len(kept) + 1 /\ \A i \in 1 .. Len(kept) : kept[i] = children[op][i]
      BY <1>3, <2>1, Popped
    <2>3. \/ Count(lost_children[op]) = MaxLost
          \/ Len(PopBack(children[op])) + Count(lost_children[op]) >= Behind + level[op].lost
      BY <1>1, <1>3, <2>1, <2>2 DEF Count
    <2> QED BY <1>3, <2>1, <2>2, <2>3, PushChildKeeps
  <1>6. CASE GiveUp
    <2>1. /\ pc = "demote" /\ children[op] = <<>> /\ NextFrame /\ children' = children
          /\ lost_children' = [lost_children EXCEPT ![op] = Count(lost_children[op])]
          /\ peers # <<>> => new_room' = new_room
      BY <1>6 DEF GiveUp, LoseChild
    <2>2. children' = [children EXCEPT ![op] = <<>>] /\ new_room \in Nat
      BY <1>1, <1>3, <2>1 DEF TypeOK
    <2>3. Len(<<>>) = 0 /\ <<>> \in Seq(Errors) /\ Len(children[op]) = 0
      BY <2>1
    <2>4. \/ Count(lost_children[op]) = MaxLost
          \/ Len(<<>>) + Count(lost_children[op]) >= Behind + 1 + level[op].lost
      BY <1>1, <1>3, <2>1, <2>3 DEF Count
    <2>5. /\ Len(<<>>) <= Behind + 1 /\ Count(lost_children[op]) \in 0 .. MaxLost
          /\ \A i \in 1 .. Len(<<>>) : <<>>[i] = LevelOf(op)[Len(peers) + i]
      BY <1>3, <2>1, <2>3
    <2>6. peers # <<>> => new_room' \in Nat
      BY <2>1, <2>2
    <2> HIDE DEF ReportInv
    <2> QED BY <2>1, <2>2, <2>3, <2>4, <2>5, <2>6, PassedKeeps
  <1>7. CASE BoxFails
    <2>1. /\ pc = "demote" /\ children[op] # <<>>
          /\ children' = [children EXCEPT ![op] = Front(children[op])]
          /\ lost_children' = [lost_children EXCEPT ![op] = Count(lost_children[op])]
          /\ UNCHANGED <<reportVars, callVars, pushed, level>>
      BY <1>7 DEF BoxFails, LoseChild
    <2>2. /\ Front(children[op]) \in Seq(Errors) /\ Len(Front(children[op])) = Len(children[op]) - 1
          /\ \A i \in 1 .. Len(children[op]) - 1 : Front(children[op])[i] = children[op][i]
      BY <1>3, <2>1, Fronted
    <2>3. /\ children' \in [Errors -> Seq(Errors)] /\ lost_children' \in [Errors -> 0 .. MaxLost]
          /\ children'[op] = Front(children[op]) /\ lost_children'[op] = Count(lost_children[op])
          /\ \A e \in Errors : e # op => children'[e] = children[e] /\ lost_children'[e] = lost_children[e]
      BY <1>1, <1>3, <2>1, <2>2
    <2>4. UNCHANGED <<head, peers, room, lost_peers, capacity, pc, op, new_room, boxed, pushed, level>>
      BY <2>1 DEF reportVars, callVars
    <2>5. TypeOK'
      BY <2>3, <2>4 DEF TypeOK
    <2>6. PeersKept' /\ Remaining' /\ Boxing' /\ NoBoxes'
      BY <2>1, <2>4 DEF PeersKept, Remaining, Changing, LevelOf, Boxing, NoBoxes
    <2>7. Behind' = Behind /\ LevelOf(op)' = LevelOf(op) /\ level'[op'].lost = level[op].lost
      BY <2>4 DEF Behind, LevelOf
    <2>8. \/ lost_children'[op'] = MaxLost
          \/ Len(children'[op']) + lost_children'[op'] >= Behind' + level'[op'].lost
      <3>1. \/ Count(lost_children[op]) = MaxLost
            \/ Len(Front(children[op])) + Count(lost_children[op]) >= Behind + level[op].lost
        BY <1>1, <1>3, <2>1, <2>2 DEF Count
      <3> QED BY <2>3, <2>4, <2>7, <3>1
    <2>9. \A i \in 1 .. Len(children'[op']) : children'[op'][i] = LevelOf(op)[1 + Len(peers) + i]
      <3> TAKE i \in 1 .. Len(children'[op'])
      <3>1. i \in 1 .. Len(children[op]) - 1 /\ i \in 1 .. Len(children[op])
        BY <1>3, <2>1, <2>2, <2>3, <2>4
      <3>2. children'[op'][i] = children[op][i]
        BY <2>2, <2>3, <2>4, <3>1
      <3> QED BY <2>1, <3>1, <3>2 DEF Demoting
    <2>10. Demoting'
      BY <1>3, <2>1, <2>2, <2>3, <2>4, <2>7, <2>8, <2>9 DEF Demoting
    <2>11. AllComplete'
      <3>1. ASSUME NEW e \in Errors, e # op PROVE Complete(e)'
        <4>1. Complete(e)
          BY <2>1, <3>1 DEF AllComplete
        <4> QED BY <2>3, <2>4, <3>1, <4>1 DEF Complete, LevelOf
      <3> QED BY <2>1, <2>4, <3>1 DEF AllComplete
    <2>12. Known'
      <3> SUFFICES ASSUME NEW e \in Errors, ~Bare(e)', e # head, e # op PROVE IsBelow(e)'
        BY <2>1, <2>4 DEF Known, Changing
      <3>1. ~Bare(e)
        BY <2>3, <2>4 DEF Bare
      <3>2. IsBelow(e)
        BY <2>1, <3>1 DEF Known
      <3> QED BY <2>4, <3>2 DEF IsBelow, Changing, LevelOf
    <2> QED BY <2>5, <2>6, <2>10, <2>11, <2>12
  <1>8. CASE DemotePanics
    <2>1. /\ pc = "demote" /\ pc' = "panicked" /\ children[op] = <<>> /\ children' = children
          /\ lost_children' = [lost_children EXCEPT ![op] = Count(lost_children[op])]
          /\ UNCHANGED <<head, peers, room, lost_peers, capacity, op, new_room, boxed, pushed, level>>
      BY <1>8 DEF DemotePanics, LoseChild, reportVars
    <2>2. lost_children' \in [Errors -> 0 .. MaxLost]
          /\ \A e \in Errors : e # op => lost_children'[e] = lost_children[e]
      BY <1>1, <1>3, <2>1
    <2>3. TypeOK'
      BY <1>3, <2>1, <2>2 DEF TypeOK, PCs
    <2>4. PeersKept' /\ Remaining' /\ Demoting' /\ Boxing' /\ NoBoxes' /\ Known'
      BY <2>1 DEF PeersKept, Remaining, Demoting, Boxing, NoBoxes, Known, Changing
    <2>5. AllComplete'
      <3>1. ASSUME NEW e \in Errors, e # op PROVE Complete(e)'
        <4>1. Complete(e)
          BY <2>1, <3>1 DEF AllComplete
        <4> QED BY <2>1, <2>2, <3>1, <4>1 DEF Complete, LevelOf
      <3> QED BY <2>1, <3>1 DEF AllComplete
    <2> QED BY <2>3, <2>4, <2>5
  <1> QED BY <1>2, <1>4, <1>5, <1>6, <1>7, <1>8

\* What is known while try_change_context boxes frames.
LEMMA BoxFacts ==
  ASSUME ReportInv, pc = "box"
  PROVE  /\ op \in Errors /\ head \in Errors /\ peers \in Seq(Errors) /\ boxed \in Seq(Errors)
         /\ pushed \in Seq(Errors) /\ LevelOf(op) \in Seq(Errors)
         /\ Len(LevelOf(op)) = 1 + Len(peers) + Len(boxed)
         /\ Len(peers) \in Nat /\ Len(boxed) \in Nat /\ Len(pushed) \in Nat /\ room \in Nat
         /\ LevelOf(op)[1] = head
         /\ \A i \in 1 .. Len(peers) : LevelOf(op)[i + 1] = peers[i]
         /\ \A i \in 1 .. Len(boxed) : boxed[i] = LevelOf(op)[Len(LevelOf(op)) + 1 - i]
  <1> USE DEF ReportInv
  <1>1. /\ op \in Errors /\ head \in Errors /\ peers \in Seq(Errors) /\ boxed \in Seq(Errors)
        /\ pushed \in Seq(Errors) /\ LevelOf(op) \in Seq(Errors) /\ room \in Nat
    BY DEF TypeOK, LevelOf
  <1>2. Len(peers) \in Nat /\ Len(boxed) \in Nat /\ Len(pushed) \in Nat /\ Len(LevelOf(op)) \in Nat
    BY <1>1
  <1> QED BY <1>1, <1>2 DEF Boxing, Remaining, Changing, Behind

\* The peers not boxed yet, then the boxes newest first, are the peers that went
\* in.
LEMMA RecoveredIs ==
  ASSUME ReportInv, pc = "box"
  PROVE  /\ peers \o Reverse(boxed) \in Seq(Errors)
         /\ Len(peers \o Reverse(boxed)) = Len(LevelOf(op)) - 1
         /\ \A i \in 1 .. Len(LevelOf(op)) - 1 : (peers \o Reverse(boxed))[i] = LevelOf(op)[i + 1]
  <1> DEFINE r == Reverse(boxed)
             n == Len(LevelOf(op))
             k == Len(peers)
             m == Len(boxed)
  <1>1. /\ r \in Seq(Errors) /\ Len(r) = m
        /\ \A i \in 1 .. m : r[i] = boxed[m + 1 - i]
    BY BoxFacts, Reversed
  <1>2. peers \in Seq(Errors)
    BY BoxFacts
  <1>3. /\ peers \o r \in Seq(Errors) /\ Len(peers \o r) = k + Len(r)
        /\ \A i \in 1 .. k : (peers \o r)[i] = peers[i]
        /\ \A i \in 1 .. Len(r) : (peers \o r)[k + i] = r[i]
    <2>1. r \in Seq(Errors)
      BY <1>1
    <2> HIDE DEF r, k, m, n
    <2>2. ASSUME NEW s \in Seq(Errors), NEW u \in Seq(Errors)
          PROVE  /\ s \o u \in Seq(Errors) /\ Len(s \o u) = Len(s) + Len(u)
                 /\ \A i \in 1 .. Len(s) : (s \o u)[i] = s[i]
                 /\ \A i \in 1 .. Len(u) : (s \o u)[Len(s) + i] = u[i]
      BY Concatenated
    <2> QED BY <1>2, <2>1, <2>2, Zenon DEF k
  <1>4. k \in Nat /\ m \in Nat /\ n = 1 + k + m
    BY BoxFacts
  <1>5. /\ \A i \in 1 .. k : LevelOf(op)[i + 1] = peers[i]
        /\ \A i \in 1 .. m : boxed[i] = LevelOf(op)[n + 1 - i]
    BY BoxFacts
  <1> HIDE DEF r, n, k, m
  <1>6. ASSUME NEW i \in 1 .. n - 1 PROVE (peers \o r)[i] = LevelOf(op)[i + 1]
    <2>1. CASE i <= k
      <3>1. i \in 1 .. k
        BY <1>4, <2>1
      <3> QED BY <1>3, <1>5, <3>1
    <2>2. CASE i > k
      <3> DEFINE j == i - k
      <3>1. j \in 1 .. m /\ i = k + j /\ m + 1 - j \in 1 .. m /\ n + 1 - (m + 1 - j) = i + 1
        BY <1>4, <2>2
      <3> HIDE DEF j
      <3>2. (peers \o r)[k + j] = r[j] /\ r[j] = boxed[m + 1 - j]
        BY <1>1, <1>3, <3>1
      <3>3. boxed[m + 1 - j] = LevelOf(op)[n + 1 - (m + 1 - j)]
        BY <1>5, <3>1
      <3> QED BY <3>1, <3>2, <3>3
    <2>3. i \in Int /\ k \in Int
      BY <1>4
    <2>4. i <= k \/ i > k
      BY <2>3
    <2> QED BY <2>1, <2>2, <2>4
  <1>7. Len(peers \o r) = n - 1
    BY <1>1, <1>3, <1>4
  <1> QED BY <1>3, <1>6, <1>7 DEF r, n

\* The boxes, with the head after them, are the level oldest first.
LEMMA BoxedIs ==
  ASSUME ReportInv, pc = "box", peers = <<>>
  PROVE  Append(boxed, head) = Reverse(LevelOf(op))
  <1> DEFINE b == Append(boxed, head)
             n == Len(LevelOf(op))
  <1>1. n = Len(boxed) + 1 /\ Len(boxed) \in Nat
    <2>1. Len(peers) = 0
      OBVIOUS
    <2> QED BY <2>1, BoxFacts
  <1>2. /\ b \in Seq(Errors) /\ Len(b) = Len(boxed) + 1 /\ b[Len(boxed) + 1] = head
        /\ \A i \in 1 .. Len(boxed) : b[i] = boxed[i]
    BY BoxFacts, Appended
  <1>3. /\ Reverse(LevelOf(op)) \in Seq(Errors) /\ Len(Reverse(LevelOf(op))) = n
        /\ \A i \in 1 .. n : Reverse(LevelOf(op))[i] = LevelOf(op)[n + 1 - i]
    BY BoxFacts, Reversed
  <1>4. ASSUME NEW i \in 1 .. n PROVE b[i] = Reverse(LevelOf(op))[i]
    <2>1. CASE i <= Len(boxed)
      <3>1. i \in 1 .. Len(boxed)
        BY <1>1, <2>1
      <3>2. boxed[i] = LevelOf(op)[n + 1 - i]
        BY <3>1, BoxFacts
      <3> QED BY <1>2, <1>3, <3>1, <3>2
    <2>2. CASE i = n
      <3>1. n + 1 - i = 1
        BY <1>1, <2>2
      <3>2. Reverse(LevelOf(op))[i] = LevelOf(op)[1]
        BY <1>3, <3>1
      <3> QED BY <1>1, <1>2, <2>2, <3>2, BoxFacts
    <2> QED BY <1>1, <2>1, <2>2
  <1> QED BY <1>1, <1>2, <1>3, <1>4, SameSequence

\* The steps of try_change_context.
LEMMA TryChangeKeeps ==
  ASSUME ReportInv, TryChangeContext \/ BoxPeer \/ BoxHead \/ TryBoxFails
  PROVE  ReportInv'
  <1>1. CASE TryChangeContext
    BY <1>1, BegunKeeps DEF TryChangeContext, ReportInv, TypeOK
  <1>2. CASE BoxPeer
    <2>1. /\ pc = "box" /\ peers # <<>> /\ boxed' = Append(boxed, Last(peers)) /\ peers' = Front(peers)
          /\ UNCHANGED <<head, room, lost_peers, capacity, children, lost_children, pc, op, new_room, pushed, level>>
      BY <1>2 DEF BoxPeer, frameVars
    <2>2. /\ peers' \in Seq(Errors) /\ Len(peers') = Len(peers) - 1
          /\ \A i \in 1 .. Len(peers) - 1 : peers'[i] = peers[i]
          /\ Last(peers) = peers[Len(peers)] /\ Last(peers) \in Errors /\ Len(peers) \in Nat \ {0}
      BY <2>1, BoxFacts, Fronted
    <2>3. /\ boxed' \in Seq(Errors) /\ Len(boxed') = Len(boxed) + 1 /\ boxed'[Len(boxed) + 1] = Last(peers)
          /\ \A i \in 1 .. Len(boxed) : boxed'[i] = boxed[i]
      BY <2>1, <2>2, BoxFacts, Appended
    <2>4. TypeOK'
      <3>1. Len(peers') <= room
        BY <2>2 DEF ReportInv, TypeOK
      <3> QED BY <2>1, <2>2, <2>3, <3>1 DEF TypeOK, ReportInv
    <2>5. LevelOf(op)' = LevelOf(op) /\ Behind' = Behind + 1
      BY <2>1, <2>2, BoxFacts DEF LevelOf, Behind
    <2>6. Remaining'
      <3>1. \A i \in 1 .. Len(peers') : LevelOf(op)[i + 1] = peers'[i]
        BY <2>1, <2>2, BoxFacts
      <3> QED BY <2>1, <2>2, <2>5, <3>1, BoxFacts DEF Remaining
    <2>7. ASSUME NEW i \in 1 .. Len(boxed') PROVE boxed'[i] = LevelOf(op)[Len(LevelOf(op)) + 1 - i]
      <3>1. CASE i <= Len(boxed)
        <4>1. i \in 1 .. Len(boxed)
          BY <2>1, <2>3, <3>1, BoxFacts
        <4> QED BY <2>1, <2>3, <4>1, BoxFacts
      <3>2. CASE i = Len(boxed) + 1
        <4>1. Len(LevelOf(op)) + 1 - i = Len(peers) + 1 /\ Len(peers) \in 1 .. Len(peers)
          BY <2>1, <2>2, <3>2, BoxFacts
        <4>2. LevelOf(op)[Len(peers) + 1] = peers[Len(peers)]
          BY <2>1, <4>1, BoxFacts
        <4> QED BY <2>2, <2>3, <3>2, <4>1, <4>2
      <3> QED BY <2>1, <2>3, <3>1, <3>2, BoxFacts
    <2>8. Boxing'
      <3>1. Len(boxed') = Behind'
        BY <2>1, <2>3, <2>5 DEF ReportInv, Boxing
      <3> QED BY <2>1, <2>5, <2>7, <3>1 DEF ReportInv, Boxing
    <2>9. PeersKept' /\ Demoting' /\ NoBoxes'
      BY <2>1 DEF PeersKept, Demoting, NoBoxes
    <2>10. AllComplete' /\ Known'
      <3>1. AllComplete'
        BY <2>1 DEF ReportInv, AllComplete, Complete, LevelOf
      <3>2. \A e \in Errors : (Bare(e)' <=> Bare(e)) /\ (IsBelow(e)' <=> IsBelow(e))
        BY <2>1 DEF Bare, IsBelow, Changing, LevelOf
      <3> QED BY <2>1, <3>1, <3>2 DEF ReportInv, Known, Changing
    <2> QED BY <2>4, <2>6, <2>8, <2>9, <2>10 DEF ReportInv
  <1>3. CASE BoxHead
    <2>1. /\ pc = "box" /\ peers = <<>> /\ NewReport
          /\ children' = [children EXCEPT ![op] = Append(boxed, head)]
          /\ lost_children' = [lost_children EXCEPT ![op] = lost_peers]
      BY <1>3 DEF BoxHead
    <2>2. /\ op \in Errors /\ lost_peers \in 0 .. MaxLost /\ MaxLost \in Nat
          /\ children \in [Errors -> Seq(Errors)] /\ lost_children \in [Errors -> 0 .. MaxLost]
      BY <2>1, BoxFacts, ErrorsAssumption DEF ReportInv, TypeOK
    <2>3. Append(boxed, head) = Reverse(LevelOf(op)) /\ Append(boxed, head) \in Seq(Errors)
      BY <2>1, BoxedIs, BoxFacts, Appended
    <2>4. /\ children' \in [Errors -> Seq(Errors)] /\ lost_children' \in [Errors -> 0 .. MaxLost]
          /\ children'[op] = Reverse(LevelOf(op)) /\ lost_children'[op] = lost_peers
          /\ \A e \in Errors : e # op => children'[e] = children[e] /\ lost_children'[e] = lost_children[e]
      BY <2>1, <2>2, <2>3
    <2>5. ASSUME NEW o \in Errors, o = op PROVE Complete(o)'
      <3>1. level' = level /\ level[op].lost = lost_peers
        BY <2>1 DEF NewReport, ReportInv, Boxing
      <3>2. Len(Reverse(LevelOf(op))) = Len(LevelOf(op)) /\ Len(LevelOf(op)) \in Nat
        BY <2>1, BoxFacts, Reversed
      <3> QED BY <2>2, <2>4, <2>5, <3>1, <3>2 DEF Complete, LevelOf
    <2>6. Changing
      BY <2>1 DEF Changing
    <2> QED BY <2>1, <2>2, <2>4, <2>5, <2>6, NewReportKeeps
  <1>4. CASE TryBoxFails
    <2>1. /\ pc = "box" /\ pc' = "idle" /\ op' = NoError /\ boxed' = <<>>
          /\ peers' = peers \o Reverse(boxed) /\ level' = [level EXCEPT ![op] = Nothing]
          /\ UNCHANGED <<head, room, lost_peers, capacity, children, lost_children, new_room, pushed>>
      BY <1>4 DEF TryBoxFails, Recover, Return, frameVars
    <2>2. /\ peers' \in Seq(Errors) /\ Len(peers') = Len(LevelOf(op)) - 1
          /\ \A i \in 1 .. Len(LevelOf(op)) - 1 : peers'[i] = LevelOf(op)[i + 1]
      BY <2>1, RecoveredIs
    <2>3. /\ op \in Errors /\ MaxLost \in Nat
          /\ level \in [Errors -> [frames : Seq(Errors), lost : 0 .. MaxLost]]
      BY <2>1, BoxFacts, ErrorsAssumption DEF ReportInv, TypeOK
    <2>4. level' \in [Errors -> [frames : Seq(Errors), lost : 0 .. MaxLost]]
      BY <2>1, <2>3 DEF Nothing
    <2>5. /\ Len(LevelOf(op)) <= 1 + room /\ Len(LevelOf(op)) <= 1 + Len(pushed)
          /\ \A i \in 1 .. Len(LevelOf(op)) - 1 : LevelOf(op)[i + 1] = pushed[i]
          /\ lost_peers = MaxLost \/ Len(LevelOf(op)) - 1 + lost_peers >= Len(pushed)
          /\ children[op] = <<>> /\ lost_children[op] = 0
      BY <2>1 DEF ReportInv, Boxing
    <2>6. Len(LevelOf(op)) \in Nat \ {0} /\ Len(pushed) \in Nat /\ room \in Nat
      BY <2>1, BoxFacts
    <2>7. TypeOK'
      <3>1. Len(peers') <= room
        BY <2>2, <2>5, <2>6
      <3> QED BY <2>1, <2>2, <2>4, <3>1, SMTT(30) DEF ReportInv, TypeOK, PCs
    <2>8. PeersKept'
      <3> DEFINE k == Len(LevelOf(op)) - 1
      <3>1. k \in Nat /\ k <= Len(pushed)
        BY <2>5, <2>6
      <3>2. Len(peers') = k /\ \A i \in 1 .. k : peers'[i] = pushed[i]
        BY <2>2, <2>5
      <3>3. lost_peers = MaxLost \/ k + lost_peers >= Len(pushed)
        BY <2>5
      <3>4. pushed' = pushed /\ lost_peers' = lost_peers
        BY <2>1
      <3> HIDE DEF k
      <3>5. Begins(peers, pushed)'
        BY <3>1, <3>2, <3>4 DEF Begins
      <3> QED BY <3>2, <3>3, <3>4, <3>5 DEF PeersKept
    <2>9. Remaining' /\ Demoting' /\ Boxing' /\ NoBoxes'
      BY <2>1 DEF Remaining, Demoting, Boxing, NoBoxes, Changing
    <2>10. level'[op] = Nothing /\ \A e \in Errors : e # op => level'[e] = level[e]
      BY <2>1, <2>3
    <2>11. AllComplete'
      <3>1. ASSUME NEW e \in Errors PROVE Complete(e)'
        <4>1. CASE e = op
          <5>1. children'[e] = <<>> /\ lost_children'[e] = 0 /\ level'[e] = Nothing
            BY <2>1, <2>5, <2>10, <4>1
          <5>2. LevelOf(e)' = <<>> /\ level'[e].lost = 0
            BY <5>1 DEF LevelOf, Nothing
          <5> QED BY <5>1, <5>2 DEF Complete, Begins
        <4>2. CASE e # op
          <5>1. Complete(e)
            BY <2>1, <4>2 DEF ReportInv, AllComplete
          <5> QED BY <2>1, <2>10, <4>2, <5>1 DEF Complete, LevelOf
        <4> QED BY <4>1, <4>2
      <3> QED BY <2>1, <3>1 DEF AllComplete
    <2>12. Known'
      <3> SUFFICES ASSUME NEW e \in Errors, ~Bare(e)', e # head PROVE IsBelow(e)'
        BY <2>1 DEF Known
      <3>1. e # op
        BY <2>1, <2>5, <2>10 DEF Bare
      <3>2. ~Bare(e)
        BY <2>1, <2>10, <3>1 DEF Bare
      <3>3. PICK f \in Errors : f # op /\ e \in Range(LevelOf(f))
        BY <2>1, <3>1, <3>2 DEF ReportInv, Known, IsBelow, Changing
      <3> QED BY <2>1, <2>10, <3>3 DEF IsBelow, Changing, LevelOf
    <2> QED BY <2>7, <2>8, <2>9, <2>11, <2>12 DEF ReportInv
  <1> QED BY <1>1, <1>2, <1>3, <1>4

LEMMA ReportStep == ReportInv /\ [Next]_vars => ReportInv'
  <1> SUFFICES ASSUME ReportInv, [Next]_vars PROVE ReportInv'
    OBVIOUS
  <1>1. CASE \/ \E cap \in Caps : WithCapacity(cap)
             \/ Push \/ PushEvicts \/ PushFits \/ PushFails \/ Repush \/ RepushFails \/ TryPush
    BY <1>1, PushKeeps
  <1>2. CASE ChangeContext \/ Demote \/ DemoteEvicts \/ DemotePanics \/ BoxFails \/ GiveUp
    BY <1>2, ChangeKeeps
  <1>3. CASE TryChangeContext \/ BoxPeer \/ BoxHead \/ TryBoxFails
    BY <1>3, TryChangeKeeps
  <1>4. CASE UNCHANGED vars
    BY <1>4 DEF vars, reportVars, frameVars, callVars, ReportInv, TypeOK, PeersKept, Remaining,
                Demoting, Boxing, NoBoxes, AllComplete, Complete, Known, Bare, IsBelow, Changing,
                LevelOf, Behind, Begins
  <1> QED BY <1>1, <1>2, <1>3, <1>4 DEF Next, CallStep

LEMMA ReportInvariance == Spec => []ReportInv
  BY ReportInit, ReportStep, PTL DEF Spec

(***************************************************************************)
(* The theorems.                                                            *)
(***************************************************************************)
\* Every call of the report leaves its fields well-typed; in particular the
\* deque of peers never holds more than its buffer, and the counters of lost
\* frames saturate (saturating_add in push and demote_and_push).
THEOREM ReportTypes == Spec => []TypeOK
  <1>1. ReportInv => TypeOK
    BY DEF ReportInv
  <1> QED BY <1>1, ReportInvariance, PTL

\* Whatever allocations fail, push, change_context and try_change_context count
\* every frame they drop, among the peers and among the children of every head.
THEOREM LossesCounted == Spec => []NothingLostSilently
  <1>1. ReportInv => NothingLostSilently
    <2> SUFFICES ASSUME ReportInv, pc = "idle" PROVE NothingLostSilently
      BY DEF NothingLostSilently
    <2>1. lost_peers = MaxLost \/ Len(peers) + lost_peers >= Len(pushed)
      BY DEF ReportInv, PeersKept
    <2>2. \A e \in Errors : Complete(e)
      BY DEF ReportInv, AllComplete
    <2> QED BY <2>1, <2>2 DEF NothingLostSilently, Complete, LevelOf
  <1> QED BY <1>1, ReportInvariance, PTL

\* What push evicts and change_context gives up is always the oldest frame, so
\* that the frames left are the newest in their order; try_change_context keeps
\* them all.
THEOREM OldestGoFirst == Spec => []NewestSurvive
  <1>1. ReportInv => NewestSurvive
    <2> SUFFICES ASSUME ReportInv PROVE NewestSurvive
      OBVIOUS
    <2>1. /\ peers \in Seq(Errors) /\ pushed \in Seq(Errors)
          /\ \A e \in Errors : children[e] \in Seq(Errors) /\ LevelOf(e) \in Seq(Errors)
      BY DEF ReportInv, TypeOK, LevelOf
    <2>2. ASSUME pc \in {"idle", "evict", "repush"} PROVE IsPrefix(peers, pushed)
      BY <2>1, <2>2, PrefixByIndex DEF ReportInv, PeersKept
    <2>3. ASSUME NEW e \in Errors, ~(pc = "demote" /\ e = op)
          PROVE  IsPrefix(children[e], LevelOf(e)) \/ children[e] = Reverse(LevelOf(e))
      <3>1. CASE Complete(e)
        BY <2>1, <3>1, PrefixByIndex DEF Complete
      <3>2. CASE ~Complete(e)
        <4>1. children[e] = <<>>
          BY <2>3, <3>2 DEF ReportInv, AllComplete, Boxing
        <4>2. Begins(children[e], LevelOf(e))
          BY <2>1, <4>1 DEF Begins
        <4> QED BY <2>1, <4>2, PrefixByIndex
      <3> QED BY <3>1, <3>2
    <2> QED BY <2>2, <2>3 DEF NewestSurvive, LevelOf
  <1> QED BY <1>1, ReportInvariance, PTL

\* When a box of try_change_context fails, recover_report gives back the head, the
\* peers in their order and the count of lost ones that went in, however many
\* frames had been boxed.
THEOREM FailedChangeRestores == Spec => TryChangeRestores
  <1> DEFINE Restored == /\ <<head'>> \o peers' = level[op].frames
                         /\ lost_peers' = level[op].lost
  <1>1. ReportInv /\ [Next]_vars
          => [pc = "box" /\ pc' = "idle" /\ head' # op => Restored]_vars
    <2> SUFFICES ASSUME ReportInv, Next, pc = "box", pc' = "idle", head' # op PROVE Restored
      OBVIOUS
    <2>1. TryBoxFails
      BY DEF Next, CallStep, WithCapacity, Push, TryPush, ChangeContext, TryChangeContext, Begin,
             PushEvicts, PushFits, PushFails, Repush, RepushFails, Demote, DemoteEvicts,
             DemotePanics, BoxFails, GiveUp, BoxPeer, BoxHead, NewReport
    <2>2. /\ peers' = peers \o Reverse(boxed) /\ head' = head /\ lost_peers' = lost_peers
      BY <2>1 DEF TryBoxFails, Recover
    <2>3. lost_peers' = level[op].lost
      BY <2>2 DEF ReportInv, Boxing
    <2>4. /\ peers' \in Seq(Errors) /\ Len(peers') = Len(LevelOf(op)) - 1
          /\ \A i \in 1 .. Len(LevelOf(op)) - 1 : peers'[i] = LevelOf(op)[i + 1]
      BY <2>2, RecoveredIs
    <2>5. head \in Errors /\ LevelOf(op) \in Seq(Errors) /\ Len(LevelOf(op)) \in Nat \ {0}
          /\ LevelOf(op)[1] = head
      BY BoxFacts
    <2> DEFINE s == <<head>> \o peers'
    <2>6. /\ s \in Seq(Errors) /\ Len(s) = Len(peers') + 1 /\ s[1] = head
          /\ \A i \in 1 .. Len(peers') : s[i + 1] = peers'[i]
      BY <2>4, <2>5, Consed
    <2> HIDE DEF s
    <2>7. Len(s) = Len(LevelOf(op))
      BY <2>4, <2>5, <2>6
    <2>8. ASSUME NEW i \in 1 .. Len(s) PROVE s[i] = LevelOf(op)[i]
      <3>1. CASE i = 1
        BY <2>5, <2>6, <3>1
      <3>2. CASE i # 1
        <4>1. i - 1 \in 1 .. Len(peers') /\ (i - 1) + 1 = i /\ i - 1 \in 1 .. Len(LevelOf(op)) - 1
          BY <2>4, <2>5, <2>7, <2>8, <3>2
        <4> QED BY <2>4, <2>6, <4>1
      <3> QED BY <3>1, <3>2
    <2>9. s = LevelOf(op)
      BY <2>5, <2>6, <2>7, <2>8, SameSequence
    <2> QED BY <2>2, <2>3, <2>9 DEF s, LevelOf
  <1> QED BY <1>1, ReportInvariance, PTL DEF Spec, TryChangeRestores

(***************************************************************************)
(* Lineage: an error stands on one level only, which was demoted below a    *)
(* younger one.  So the frames of a report form a forest.                   *)
(***************************************************************************)
On(x) == \E e \in Errors : \E i \in 1 .. Len(LevelOf(e)) : LevelOf(e)[i] = x
Younger == \A e \in Errors : \A i \in 1 .. Len(LevelOf(e)) : LevelOf(e)[i] < e
OnePlace == \A e, f \in Errors : \A i \in 1 .. Len(LevelOf(e)), j \in 1 .. Len(LevelOf(f)) :
  LevelOf(e)[i] = LevelOf(f)[j] => e = f /\ i = j
NewOp == op # NoError /\ pc # "panicked" => ~On(op)
FreeTops == Plain =>
  /\ ~On(head) /\ head # op
  /\ \A i \in 1 .. Len(peers) : ~On(peers[i]) /\ peers[i] # head /\ peers[i] # op
  /\ \A i, j \in 1 .. Len(peers) : peers[i] = peers[j] => i = j
Lineage == Younger /\ OnePlace /\ NewOp /\ FreeTops

\* What the errors on the levels are, and that a fresh one is above all others.
LEMMA FreshIsLargest ==
  ASSUME ReportInv, Plain
  PROVE  /\ head < Fresh /\ \A i \in 1 .. Len(peers) : peers[i] < Fresh
         /\ ~On(Fresh) /\ Fresh # head /\ Fresh # NoError
         /\ \A i \in 1 .. Len(peers) : peers[i] # Fresh
  <1> DEFINE S == {head} \union Range(pushed) \union UNION {Range(level[e].frames) : e \in Errors}
  <1>1. /\ head \in Errors /\ peers \in Seq(Errors) /\ pushed \in Seq(Errors)
        /\ \A e \in Errors : LevelOf(e) \in Seq(Errors)
    BY DEF ReportInv, TypeOK, LevelOf
  <1>2. \A q \in Seq(Errors) : Range(q) \subseteq Errors /\ \A i \in 1 .. Len(q) : q[i] \in Range(q)
    BY DEF Range
  <1>3. S \subseteq Errors
    BY <1>1, <1>2 DEF LevelOf
  <1>4. \A x \in S : x <= Max(S) /\ Max(S) \in Errors /\ x \in Errors
    BY <1>3, LargestError
  <1>5. Fresh = 1 + Max(S)
    BY DEF Fresh
  <1>6. \A x \in S : x < Fresh
    <2> HIDE DEF S
    <2> QED BY <1>4, <1>5 DEF Errors
  <1>7. head \in S /\ \A i \in 1 .. Len(peers) : peers[i] \in S
    <2>1. \A i \in 1 .. Len(peers) : i \in 1 .. Len(pushed) /\ peers[i] = pushed[i]
      BY <1>1 DEF ReportInv, PeersKept, Begins, Plain
    <2> QED BY <1>1, <1>2, <2>1
  <1>8. \A e \in Errors : \A i \in 1 .. Len(LevelOf(e)) : LevelOf(e)[i] \in S
    <2> SUFFICES ASSUME NEW e \in Errors, NEW i \in 1 .. Len(LevelOf(e)) PROVE LevelOf(e)[i] \in S
      OBVIOUS
    <2>1. LevelOf(e)[i] \in Range(LevelOf(e))
      BY <1>1, <1>2
    <2> QED BY <2>1 DEF LevelOf
  <1>9. \A x \in S : x # Fresh
    <2> HIDE DEF S
    <2> QED BY <1>4, <1>6 DEF Errors
  <1>10. Fresh # NoError
    BY FreshIsNew DEF NoError, ReportInv
  <1> HIDE DEF S
  <1>11. ~On(Fresh)
    BY <1>8, <1>9 DEF On
  <1> QED BY <1>6, <1>7, <1>9, <1>10, <1>11

\* Steps that leave the levels as they are.
LEMMA LevelsKept ==
  ASSUME Lineage, UNCHANGED level, pc' = "panicked" \/ op' = NoError \/ ~On(op'), FreeTops'
  PROVE  Lineage'
  <1>1. \A e : LevelOf(e)' = LevelOf(e)
    BY DEF LevelOf
  <1>2. \A x : On(x)' <=> On(x)
    BY <1>1 DEF On
  <1>3. NewOp'
    BY <1>2 DEF NewOp, On, LevelOf
  <1> QED BY <1>1, <1>3 DEF Lineage, Younger, OnePlace

\* An error that is on no level comes in front of the peers.
LEMMA FrontFree ==
  ASSUME ReportInv, Lineage, Plain, UNCHANGED <<level, head>>, NEW x \in Errors,
         ~On(x), x # head, \A i \in 1 .. Len(peers) : peers[i] # x,
         peers' = <<x>> \o peers, op' = NoError
  PROVE  Lineage'
  <1>1. peers \in Seq(Errors) /\ head \in Errors /\ NoError \notin Errors
    BY DEF ReportInv, TypeOK, NoError, Errors
  <1>2. /\ peers' \in Seq(Errors) /\ Len(peers') = Len(peers) + 1 /\ peers'[1] = x
        /\ \A i \in 1 .. Len(peers) : peers'[i + 1] = peers[i]
    BY <1>1, Consed
  <1>3. Len(peers) \in Nat
    BY <1>1
  <1>4. \A i \in 1 .. Len(peers') : i # 1 => i - 1 \in 1 .. Len(peers) /\ peers'[i] = peers[i - 1]
    <2> SUFFICES ASSUME NEW i \in 1 .. Len(peers'), i # 1
                 PROVE  i - 1 \in 1 .. Len(peers) /\ peers'[i] = peers[i - 1]
      OBVIOUS
    <2>1. i - 1 \in 1 .. Len(peers) /\ (i - 1) + 1 = i
      BY <1>2, <1>3
    <2> QED BY <1>2, <2>1
  <1>5. \A e : On(e)' <=> On(e)
    BY DEF On, LevelOf
  <1>6. \A i \in 1 .. Len(peers') : peers'[i] \in Errors
    BY <1>2
  <1>7. ASSUME NEW i \in 1 .. Len(peers'), NEW j \in 1 .. Len(peers'), peers'[i] = peers'[j] PROVE i = j
    <2>1. CASE i # 1 /\ j # 1
      <3>1. i - 1 = j - 1
        BY <1>4, <1>7, <2>1 DEF Lineage, FreeTops
      <3> QED BY <1>2, <1>3, <3>1
    <2>2. CASE i = 1 \/ j = 1
      BY <1>2, <1>4, <1>7, <2>2
    <2> QED BY <2>1, <2>2
  <1>8. \A i \in 1 .. Len(peers') : ~On(peers'[i]) /\ peers'[i] # head
    BY <1>2, <1>4 DEF Lineage, FreeTops
  <1>9. FreeTops'
    <2>1. head' = head /\ op' = NoError /\ head # NoError
      BY <1>1
    <2> QED BY <1>1, <1>5, <1>6, <1>7, <1>8, <2>1 DEF FreeTops, Lineage
  <1> QED BY <1>9, LevelsKept

\* The peers are among those there were.
LEMMA PeersLeft ==
  ASSUME ReportInv, Lineage, Plain, UNCHANGED <<level, head, op>>,
         \A i \in 1 .. Len(peers') : i \in 1 .. Len(peers) /\ peers'[i] = peers[i]
  PROVE  Lineage'
  <1>1. \A e : On(e)' <=> On(e)
    BY DEF On, LevelOf
  <1>2. /\ ~On(head) /\ head # op
        /\ \A i \in 1 .. Len(peers) : ~On(peers[i]) /\ peers[i] # head /\ peers[i] # op
        /\ \A i, j \in 1 .. Len(peers) : peers[i] = peers[j] => i = j
    BY DEF Lineage, FreeTops
  <1>3. FreeTops'
    BY <1>1, <1>2 DEF FreeTops
  <1>4. op' = NoError \/ pc' = "panicked" \/ ~On(op')
    <2>1. Plain => pc # "panicked"
      BY DEF Plain
    <2> QED BY <2>1 DEF Lineage, NewOp
  <1> QED BY <1>3, <1>4, LevelsKept

\* A change of context begins: the head and the peers become a level.
LEMMA LevelBegun ==
  ASSUME ReportInv, Lineage, NEW step \in {"box", "demote"}, Begin(step)
  PROVE  Lineage'
  <1>1. /\ pc = "idle" /\ Plain /\ pc' = step /\ Fresh \in Errors /\ op' = Fresh
        /\ level' = [level EXCEPT ![Fresh] = [frames |-> <<head>> \o peers, lost |-> lost_peers]]
    BY DEF Begin, Plain
  <1>2. /\ peers \in Seq(Errors) /\ head \in Errors
        /\ level \in [Errors -> [frames : Seq(Errors), lost : 0 .. MaxLost]]
    BY DEF ReportInv, TypeOK
  <1>0. PICK o \in Errors : o = Fresh
    BY <1>1
  <1> DEFINE n == Len(peers)
  <1>3. LET r == <<head>> \o peers IN
        /\ r \in Seq(Errors) /\ Len(r) = n + 1 /\ r[1] = head
        /\ \A i \in 1 .. n : r[i + 1] = peers[i]
    <2>1. ConsedAs(Errors, head, peers)
      BY <1>2, ConsedIs
    <2> QED BY <2>1 DEF ConsedAs
  <1>4. PICK r : /\ LevelOf(o)' = r /\ r \in Seq(Errors) /\ Len(r) = n + 1 /\ r[1] = head
                 /\ \A i \in 1 .. n : r[i + 1] = peers[i]
    <2>1. LevelOf(o)' = <<head>> \o peers
      BY <1>0, <1>1, <1>2 DEF LevelOf
    <2> QED BY <1>3, <2>1
  <1>5. \A e \in Errors : e # o => LevelOf(e)' = LevelOf(e)
    BY <1>0, <1>1, <1>2 DEF LevelOf
  <1>6. n \in Nat
    BY <1>2
  <1>7. \A i \in 1 .. n + 1 : i # 1 => i - 1 \in 1 .. n /\ r[i] = peers[i - 1]
    <2> SUFFICES ASSUME NEW i \in 1 .. n + 1, i # 1 PROVE i - 1 \in 1 .. n /\ r[i] = peers[i - 1]
      OBVIOUS
    <2>1. i - 1 \in 1 .. n /\ (i - 1) + 1 = i
      BY <1>6
    <2> QED BY <1>4, <2>1
  <1> HIDE DEF n
  <1>8. /\ head < o /\ ~On(o) /\ o # head /\ ~On(head)
        /\ \A i \in 1 .. n : peers[i] < o /\ peers[i] # o /\ peers[i] # head /\ ~On(peers[i])
        /\ \A i, j \in 1 .. n : peers[i] = peers[j] => i = j
    BY <1>0, <1>1, FreshIsLargest DEF n, Lineage, FreeTops
  <1>9. \A i \in 1 .. n + 1 : r[i] < o /\ r[i] # o /\ ~On(r[i])
    BY <1>4, <1>7, <1>8
  <1>10. ASSUME NEW i \in 1 .. n + 1, NEW j \in 1 .. n + 1, r[i] = r[j] PROVE i = j
    <2>1. CASE i # 1 /\ j # 1
      <3>1. i - 1 = j - 1
        BY <1>7, <1>8, <1>10, <2>1
      <3> QED BY <1>6, <3>1
    <2>2. CASE i = 1 \/ j = 1
      BY <1>4, <1>7, <1>8, <1>10, <2>2
    <2> QED BY <2>1, <2>2
  <1>11. Younger'
    BY <1>4, <1>5, <1>9 DEF Younger, Lineage
  <1>12. ASSUME NEW e \in Errors, NEW f \in Errors, NEW i \in 1 .. Len(LevelOf(e)'), NEW j \in 1 .. Len(LevelOf(f)'),
                LevelOf(e)'[i] = LevelOf(f)'[j]
         PROVE  e = f /\ i = j
    <2>1. CASE e = o /\ f = o
      BY <1>4, <1>10, <1>12, <2>1
    <2>2. CASE e # o /\ f # o
      BY <1>5, <1>12, <2>2 DEF Lineage, OnePlace
    <2>3. CASE e = o /\ f # o
      BY <1>4, <1>5, <1>9, <1>12, <2>3 DEF On
    <2>4. CASE e # o /\ f = o
      BY <1>4, <1>5, <1>9, <1>12, <2>4 DEF On
    <2> QED BY <2>1, <2>2, <2>3, <2>4
  <1>13. OnePlace'
    BY <1>12 DEF OnePlace
  <1>14. ~On(o)'
    <2> SUFFICES ASSUME NEW e \in Errors, NEW i \in 1 .. Len(LevelOf(e)') PROVE LevelOf(e)'[i] # o
      BY DEF On
    <2>1. CASE e = o
      BY <1>4, <1>9, <2>1
    <2>2. CASE e # o
      BY <1>5, <1>8, <2>2 DEF On
    <2> QED BY <2>1, <2>2
  <1>15. NewOp' /\ FreeTops'
    BY <1>0, <1>1, <1>14 DEF NewOp, FreeTops, Plain, On, LevelOf
  <1> QED BY <1>11, <1>13, <1>15 DEF Lineage

\* A change of context ends, with op as the head.
LEMMA LevelClosed ==
  ASSUME ReportInv, Lineage, Changing, NewReport
  PROVE  Lineage'
  <1>1. /\ head' = op /\ peers' = <<>> /\ op' = NoError /\ level' = level /\ op # NoError
        /\ ~On(op) /\ pc # "panicked"
    BY DEF NewReport, Return, Changing, Lineage, NewOp, ReportInv, TypeOK
  <1>2. FreeTops'
    BY <1>1 DEF FreeTops, On, LevelOf
  <1> QED BY <1>1, <1>2, LevelsKept

\* recover_report: the level comes off, and its frames are the head and the peers.
LEMMA LevelRecovered ==
  ASSUME ReportInv, Lineage, TryBoxFails
  PROVE  Lineage'
  <1>1. /\ pc = "box" /\ pc' = "idle" /\ op' = NoError /\ head' = head
        /\ peers' = peers \o Reverse(boxed) /\ level' = [level EXCEPT ![op] = Nothing]
    BY DEF TryBoxFails, Recover, Return
  <1>2. op \in Errors /\ head \in Errors /\ level \in [Errors -> [frames : Seq(Errors), lost : 0 .. MaxLost]]
    BY <1>1 DEF ReportInv, TypeOK
  <1>3. PICK o \in Errors : o = op
    BY <1>2
  <1>4. PICK q : q = LevelOf(o)
    OBVIOUS
  <1>5. peers' \in Seq(Errors) /\ Len(peers') = Len(q) - 1 /\ \A i \in 1 .. Len(q) - 1 : peers'[i] = q[i + 1]
    BY <1>1, <1>3, <1>4, RecoveredIs
  <1>6. Len(q) \in Nat \ {0} /\ q[1] = head /\ q \in Seq(Errors)
    BY <1>1, <1>3, <1>4, BoxFacts
  <1>7. LevelOf(o)' = <<>> /\ \A e \in Errors : e # o => LevelOf(e)' = LevelOf(e)
    BY <1>1, <1>2, <1>3 DEF LevelOf, Nothing
  <1>8. Younger' /\ OnePlace'
    BY <1>7 DEF Younger, OnePlace, Lineage
  <1>9. ASSUME NEW k \in 1 .. Len(q), NEW e \in Errors, NEW i \in 1 .. Len(LevelOf(e)') PROVE LevelOf(e)'[i] # q[k]
    <2>1. e # o
      BY <1>7
    <2> QED BY <1>4, <1>7, <2>1 DEF Lineage, OnePlace
  <1>10. \A i \in 1 .. Len(peers') : i + 1 \in 1 .. Len(q) /\ peers'[i] = q[i + 1] /\ i + 1 # 1
    BY <1>5, <1>6
  <1>11. \A k \in 1 .. Len(q) : ~On(q[k])' /\ q[k] # NoError
    <2>1. \A k \in 1 .. Len(q) : q[k] # NoError
      <3>1. \A k \in 1 .. Len(q) : q[k] \in Errors
        BY <1>6
      <3> QED BY <3>1 DEF Errors, NoError
    <2>2. ASSUME NEW k \in 1 .. Len(q) PROVE ~On(q[k])'
      BY <1>9 DEF On
    <2> QED BY <2>1, <2>2
  <1>12. \A k, l \in 1 .. Len(q) : q[k] = q[l] => k = l
    BY <1>4 DEF Lineage, OnePlace
  <1>13. ~On(head)' /\ head # NoError /\ \A i \in 1 .. Len(peers') : peers'[i] # head
    <2>1. 1 \in 1 .. Len(q)
      BY <1>6
    <2>2. PICK h : h = head
      OBVIOUS
    <2>3. ~On(h)'
      BY <1>6, <1>11, <2>1, <2>2
    <2>4. \A i \in 1 .. Len(peers') : peers'[i] # head
      BY <1>6, <1>10, <1>12, <2>1
    <2> QED BY <1>1, <1>6, <1>11, <2>1, <2>2, <2>3, <2>4
  <1>14. FreeTops' /\ NewOp'
    <2>1. /\ \A k \in 1 .. Len(peers') : peers'[k] # NoError
          /\ \A k \in 1 .. Len(peers') : \A e \in Errors : \A i \in 1 .. Len(LevelOf(e)') : LevelOf(e)'[i] # peers'[k]
      BY <1>9, <1>10, <1>11
    <2>2. \A i, j \in 1 .. Len(peers') : peers'[i] = peers'[j] => i = j
      BY <1>5, <1>6, <1>10, <1>12
    <2>3. \A e \in Errors : \A i \in 1 .. Len(LevelOf(e)') : LevelOf(e)'[i] # head
      <3>1. 1 \in 1 .. Len(q)
        BY <1>6
      <3> QED BY <1>6, <1>9, <3>1
    <2> QED BY <1>1, <1>13, <2>1, <2>2, <2>3 DEF FreeTops, NewOp, On
  <1> QED BY <1>8, <1>14 DEF Lineage

\* Inside a change of context the level stays as it is.
LEMMA ChangeGoesOn ==
  ASSUME ReportInv, Lineage, Changing, UNCHANGED <<level, op>>, pc' \notin {"idle", "evict", "repush"}
  PROVE  Lineage'
  <1>1. op # NoError /\ ~On(op) /\ op' = op
    BY DEF Changing, Lineage, NewOp, ReportInv, TypeOK
  <1>2. FreeTops'
    BY DEF FreeTops, Plain
  <1>3. ~On(op')
    BY <1>1
  <1> QED BY <1>2, <1>3, LevelsKept

LEMMA PushLineage ==
  ASSUME ReportInv, Lineage,
         \/ \E cap \in Caps : WithCapacity(cap)
         \/ Push \/ PushEvicts \/ PushFits \/ PushFails \/ Repush \/ RepushFails \/ TryPush
  PROVE  Lineage'
  <1>0. peers \in Seq(Errors) /\ op \in Errors \union {NoError} /\ (pc = "idle" <=> op = NoError)
    BY DEF ReportInv, TypeOK
  <1>1. ASSUME EvictOldest, Plain, Plain', UNCHANGED <<level, head, op>> PROVE Lineage'
    <2>1. \A i \in 1 .. Len(peers') : i \in 1 .. Len(peers) /\ peers'[i] = peers[i]
      BY <1>0, <1>1, Popped DEF EvictOldest
    <2> QED BY <1>1, <2>1, PeersLeft
  <1>2. CASE \E cap \in Caps : WithCapacity(cap)
    <2>1. /\ pc = "idle" /\ UNCHANGED <<peers, level, head, op>>
      BY <1>2 DEF WithCapacity, callVars
    <2> QED BY <2>1, PeersLeft DEF Plain
  <1>3. CASE Push
    <2>1. pc = "idle" /\ pc' = "evict" /\ op' = Fresh /\ UNCHANGED <<head, peers, level>>
      BY <1>3 DEF Push, reportVars
    <2>2. /\ ~On(Fresh) /\ Fresh # head /\ \A i \in 1 .. Len(peers) : peers[i] # Fresh
      BY <2>1, FreshIsLargest DEF Plain
    <2>3. PICK f : f = Fresh
      OBVIOUS
    <2>4. FreeTops'
      BY <2>1, <2>2, <2>3 DEF Lineage, FreeTops, Plain, On, LevelOf
    <2>5. ~On(op')
      BY <2>1, <2>2
    <2> QED BY <2>1, <2>4, <2>5, LevelsKept
  <1>4. CASE PushEvicts
    BY <1>1, <1>4 DEF PushEvicts, Plain, callVars
  <1>5. CASE PushFails
    BY <1>1, <1>5 DEF PushFails, Plain
  <1>6. CASE PushFits \/ Repush
    <2>1. /\ Plain /\ op # NoError /\ pc # "panicked" /\ peers' = <<op>> \o peers /\ op' = NoError
          /\ UNCHANGED <<level, head>>
      BY <1>0, <1>6 DEF PushFits, Repush, PushFront, Return, Plain
    <2>2. op \in Errors /\ ~On(op) /\ op # head /\ \A i \in 1 .. Len(peers) : peers[i] # op
      BY <1>0, <2>1 DEF Lineage, FreeTops, NewOp
    <2> QED BY <2>1, <2>2, FrontFree
  <1>7. CASE RepushFails
    <2>1. pc' = "panicked" /\ UNCHANGED level
      BY <1>7 DEF RepushFails
    <2> QED BY <2>1, LevelsKept DEF FreeTops, Plain
  <1>8. CASE TryPush
    <2>1. /\ Plain /\ Fresh \in Errors /\ peers' = <<Fresh>> \o peers /\ op' = NoError
          /\ UNCHANGED <<level, head>>
      BY <1>0, <1>8 DEF TryPush, callVars, Plain
    <2>2. ~On(Fresh) /\ Fresh # head /\ \A i \in 1 .. Len(peers) : peers[i] # Fresh
      BY <2>1, FreshIsLargest
    <2> QED BY <2>1, <2>2, FrontFree
  <1> QED BY <1>2, <1>3, <1>4, <1>5, <1>6, <1>7, <1>8

LEMMA ChangeLineage ==
  ASSUME ReportInv, Lineage,
         \/ ChangeContext \/ Demote \/ DemoteEvicts \/ DemotePanics \/ BoxFails \/ GiveUp
         \/ TryChangeContext \/ BoxPeer \/ BoxHead \/ TryBoxFails
  PROVE  Lineage'
  <1>1. ASSUME pc = "demote", NextFrame PROVE Lineage'
    <2>1. CASE NewReport
      BY <1>1, <2>1, LevelClosed DEF Changing
    <2>2. CASE UNCHANGED <<level, op, pc>>
      BY <1>1, <2>2, ChangeGoesOn DEF Changing
    <2> QED BY <1>1, <2>1, <2>2 DEF NextFrame
  <1>2. CASE ChangeContext
    BY <1>2, LevelBegun DEF ChangeContext
  <1>3. CASE TryChangeContext
    BY <1>3, LevelBegun DEF TryChangeContext
  <1>4. CASE Demote \/ DemoteEvicts \/ GiveUp
    BY <1>1, <1>4 DEF Demote, DemoteEvicts, GiveUp, PushChild
  <1>5. CASE DemotePanics \/ BoxFails \/ BoxPeer
    <2>1. Changing /\ UNCHANGED <<level, op>> /\ pc' \notin {"idle", "evict", "repush"}
      BY <1>5 DEF DemotePanics, BoxFails, BoxPeer, Changing, callVars
    <2> QED BY <2>1, ChangeGoesOn
  <1>6. CASE BoxHead
    BY <1>6, LevelClosed DEF BoxHead, Changing
  <1>7. CASE TryBoxFails
    BY <1>7, LevelRecovered
  <1> QED BY <1>2, <1>3, <1>4, <1>5, <1>6, <1>7

LEMMA LineageInit == Init => Lineage
  <1> SUFFICES ASSUME Init PROVE Lineage
    OBVIOUS
  <1>1. \A e \in Errors : LevelOf(e) = <<>>
    BY DEF Init, LevelOf, Nothing
  <1>2. \A e \in Errors : ~\E i \in 1 .. Len(LevelOf(e)) : TRUE
    BY <1>1
  <1>3. \A x : ~On(x)
    BY <1>2 DEF On
  <1> QED BY <1>2, <1>3 DEF Lineage, Younger, OnePlace, NewOp, FreeTops, Init, NoError

LEMMA LineageStep == ASSUME ReportInv, Lineage, [Next]_vars PROVE Lineage'
  <1>1. CASE UNCHANGED vars
    BY <1>1 DEF vars, reportVars, callVars, Lineage, Younger, OnePlace, NewOp, FreeTops, On, LevelOf, Plain
  <1> QED BY <1>1, PushLineage, ChangeLineage DEF Next, CallStep

(***************************************************************************)
(* Flattened sequences, and what is left of one from each of its parts on.  *)
(***************************************************************************)
LEMMA Counting ==
  ASSUME NEW T, 0 \in T, \A n \in Nat : n \in T => n + 1 \in T
  PROVE  Nat \subseteq T
  <1> SUFFICES ASSUME Nat \ T # {} PROVE FALSE
    OBVIOUS
  <1>1. PICK x \in Nat \ T : \A y \in Nat \ T : x <= y
    BY LeastNumber
  <1>2. x # 0 /\ x - 1 \in Nat
    BY <1>1
  <1>3. x - 1 \in T
    BY <1>1, <1>2
  <1> QED BY <1>1, <1>2, <1>3

FlatStep(q, g, i) == IF i = 1 THEN q[i] ELSE g[i - 1] \o q[i]
Flat(q, n, g) == g = [i \in 1 .. n |-> FlatStep(q, g, i)]

LEMMA FlatExists == ASSUME NEW q PROVE \A n \in Nat : \E g : Flat(q, n, g)
  <1> DEFINE S == {n \in Nat : \E g : Flat(q, n, g)}
  <1>1. 0 \in S
    <2>1. Flat(q, 0, [i \in 1 .. 0 |-> q[i]])
      BY DEF Flat
    <2> QED BY <2>1
  <1>2. ASSUME NEW n \in Nat, n \in S PROVE n + 1 \in S
    <2>1. PICK g : Flat(q, n, g)
      BY <1>2
    <2> DEFINE next == [i \in 1 .. n + 1 |-> IF i = n + 1 THEN FlatStep(q, g, n + 1) ELSE g[i]]
    <2>2. Flat(q, n + 1, next)
      <3>1. \A i \in 1 .. n : g[i] = FlatStep(q, g, i)
        BY <2>1 DEF Flat
      <3>2. ASSUME NEW i \in 1 .. n + 1 PROVE next[i] = FlatStep(q, next, i)
        <4>1. i # 1 => next[i - 1] = g[i - 1]
          <5>1. i # 1 => i - 1 \in 1 .. n + 1 /\ i - 1 # n + 1
            OBVIOUS
          <5> QED BY <5>1
        <4>2. next[i] = FlatStep(q, g, i)
          BY <3>1
        <4> HIDE DEF next
        <4>3. FlatStep(q, next, i) = FlatStep(q, g, i)
          BY <4>1 DEF FlatStep
        <4> QED BY <4>2, <4>3
      <3>3. next = [i \in 1 .. n + 1 |-> next[i]]
        OBVIOUS
      <3> HIDE DEF next
      <3> QED BY <3>2, <3>3 DEF Flat
    <2> QED BY <2>2
  <1> HIDE DEF S
  <1>3. Nat \subseteq S
    BY <1>1, <1>2, Counting
  <1> QED BY <1>3 DEF S

LEMMA FlattenIs ==
  ASSUME NEW T, NEW q \in Seq(Seq(T))
  PROVE  \E g : /\ \A i \in 1 .. Len(q) : g[i] \in Seq(T) /\ g[i] = FlatStep(q, g, i)
                /\ Len(q) # 0 => FlattenSeq(q) = g[Len(q)]
                /\ Len(q) = 0 => FlattenSeq(q) = <<>>
  <1> DEFINE n == Len(q)
             g == CHOOSE g : Flat(q, n, g)
  <1>1. n \in Nat /\ \A i \in 1 .. n : q[i] \in Seq(T)
    OBVIOUS
  <1>2. \E f : Flat(q, n, f)
    BY <1>1, FlatExists
  <1>3. Flat(q, n, g)
    BY <1>2
  <1>4. n # 0 => FlattenSeq(q) = g[n]
    BY DEF FlattenSeq, Flat, FlatStep
  <1>5. n = 0 => FlattenSeq(q) = <<>>
    BY DEF FlattenSeq
  <1> HIDE DEF g, n
  <1>6. \A i \in 1 .. n : g[i] = FlatStep(q, g, i)
    BY <1>3 DEF Flat
  <1> DEFINE S == {k \in Nat : k + 1 \in 1 .. n => g[k + 1] \in Seq(T)}
  <1>7. 0 \in S
    BY <1>1, <1>6 DEF FlatStep
  <1>8. ASSUME NEW k \in Nat, k \in S PROVE k + 1 \in S
    <2> SUFFICES ASSUME k + 1 + 1 \in 1 .. n PROVE g[k + 1 + 1] \in Seq(T)
      OBVIOUS
    <2>0. PICK i : i = k + 1
      OBVIOUS
    <2>1. i \in 1 .. n /\ i + 1 \in 1 .. n /\ (i + 1) - 1 = i /\ i + 1 # 1
      BY <1>1, <2>0
    <2>2. g[i] \in Seq(T) /\ q[i + 1] \in Seq(T)
      BY <1>1, <1>8, <2>0, <2>1
    <2>3. g[i + 1] = g[i] \o q[i + 1]
      BY <1>6, <2>1 DEF FlatStep
    <2>4. g[i + 1] \in Seq(T)
      BY <2>2, <2>3, Concatenated
    <2> QED BY <2>0, <2>4
  <1> HIDE DEF S
  <1>9. Nat \subseteq S
    BY <1>7, <1>8, Counting
  <1>10. \A i \in 1 .. n : g[i] \in Seq(T)
    <2> SUFFICES ASSUME NEW i \in 1 .. n PROVE g[i] \in Seq(T)
      OBVIOUS
    <2>1. i - 1 \in S /\ (i - 1) + 1 = i
      BY <1>1, <1>9
    <2> QED BY <2>1 DEF S
  <1> QED BY <1>4, <1>5, <1>6, <1>10 DEF n

\* h[i] is what comes from part i of q on, with m at the end.
SuffixFrom(T, q, m, j, h) ==
  /\ h \in [j .. Len(q) + 1 -> Seq(T)] /\ h[Len(q) + 1] = m
  /\ \A i \in j .. Len(q) : h[i] = q[i] \o h[i + 1]
Suffixed(T, q, m, h) == SuffixFrom(T, q, m, 1, h) /\ h[1] = FlattenSeq(q) \o m

SuffixNext(T, q, m, j, k, h) ==
  q \in Seq(Seq(T)) /\ m \in Seq(T) /\ j \in 1 .. Len(q) /\ k = j + 1 /\ SuffixFrom(T, q, m, k, h)
SuffixThis(T, q, m, j, k, h, f) == SuffixFrom(T, q, m, j, f) /\ f[j] = q[j] \o h[k] /\ f[k] = h[k]

LEMMA SuffixGrows ==
  ASSUME NEW T, NEW q, NEW m, NEW j, NEW k, NEW h, SuffixNext(T, q, m, j, k, h)
  PROVE  \E f : SuffixThis(T, q, m, j, k, h, f)
  <1> /\ q \in Seq(Seq(T)) /\ m \in Seq(T) /\ j \in 1 .. Len(q) /\ k = j + 1 /\ SuffixFrom(T, q, m, k, h)
    BY DEF SuffixNext
  <1>0. PICK n \in Nat : n = Len(q)
    OBVIOUS
  <1> DEFINE f == [i \in j .. n + 1 |-> IF i = j THEN q[j] \o h[k] ELSE h[i]]
  <1>1. /\ q[j] \in Seq(T) /\ j \in Nat /\ k \in k .. n + 1 /\ k # j /\ k \in j .. n + 1
        /\ n + 1 # j /\ n + 1 \in j .. n + 1 /\ j \in j .. n + 1
    BY <1>0
  <1>2. /\ \A i \in k .. n + 1 : h[i] \in Seq(T)
        /\ h[n + 1] = m
        /\ \A i \in k .. n : h[i] = q[i] \o h[i + 1]
    BY <1>0 DEF SuffixFrom
  <1>3. q[j] \o h[k] \in Seq(T)
    BY <1>1, <1>2, Concatenated
  <1>4. \A i \in j .. n + 1 : i # j => i \in k .. n + 1
    BY <1>1
  <1>5. f \in [j .. n + 1 -> Seq(T)]
    BY <1>2, <1>3, <1>4
  <1>6. f[n + 1] = m /\ f[j] = q[j] \o h[k] /\ f[k] = h[k]
    <2>1. \A i \in j .. n + 1 : f[i] = IF i = j THEN q[j] \o h[k] ELSE h[i]
      OBVIOUS
    <2> HIDE DEF f
    <2> QED BY <1>1, <1>2, <2>1
  <1>7. ASSUME NEW i \in j .. n PROVE f[i] = q[i] \o f[i + 1]
    <2>1. i + 1 \in j .. n + 1 /\ i + 1 # j
      BY <1>1
    <2>2. f[i + 1] = h[i + 1]
      BY <2>1
    <2>3. i # j => f[i] = h[i] /\ i \in k .. n
      BY <1>1
    <2> HIDE DEF f
    <2> QED BY <1>2, <1>6, <2>2, <2>3
  <1> HIDE DEF f
  <1>8. SuffixFrom(T, q, m, j, f)
    BY <1>0, <1>5, <1>6, <1>7 DEF SuffixFrom
  <1> QED BY <1>6, <1>8 DEF SuffixThis

LEMMA SuffixExists ==
  ASSUME NEW T, NEW q \in Seq(Seq(T)), NEW m \in Seq(T)
  PROVE  \E h : Suffixed(T, q, m, h)
  <1>0. PICK n \in Nat : n = Len(q)
    OBVIOUS
  <1>1. \A i \in 1 .. n : q[i] \in Seq(T)
    BY <1>0
  <1>2. PICK g : /\ \A i \in 1 .. n : g[i] \in Seq(T) /\ g[i] = FlatStep(q, g, i)
                 /\ n # 0 => FlattenSeq(q) = g[n]
                 /\ n = 0 => FlattenSeq(q) = <<>>
    BY <1>0, FlattenIs
  <1> DEFINE last == [i \in n + 1 .. n + 1 |-> m]
  <1>3. SuffixFrom(T, q, m, n + 1, last) /\ last[n + 1] = m
    <2>1. last[n + 1] = m /\ last \in [n + 1 .. n + 1 -> Seq(T)] /\ \A i \in n + 1 .. n : FALSE
      OBVIOUS
    <2> HIDE DEF last
    <2> QED BY <1>0, <2>1 DEF SuffixFrom
  <1> HIDE DEF last
  <1>4. CASE n = 0
    <2>1. n + 1 = 1 /\ <<>> \o m = m
      BY <1>4
    <2> QED BY <1>2, <1>3, <1>4, <2>1 DEF Suffixed
  <1>5. CASE n # 0
    <2> DEFINE From(k) == \E j : \E h : j = n - k /\ SuffixFrom(T, q, m, j, h) /\ g[j] \o h[j + 1] = g[n] \o m
               S == {k \in Nat : k < n => From(k)}
    <2>1. From(0)
      <3>1. n \in 1 .. n /\ n - 0 = n /\ n \in 1 .. Len(q)
        BY <1>0, <1>5
      <3>2. PICK k : k = n + 1
        OBVIOUS
      <3>3. PICK h : SuffixFrom(T, q, m, n, h) /\ h[k] = last[k]
        <4>1. SuffixNext(T, q, m, n, k, last)
          BY <1>3, <3>1, <3>2 DEF SuffixNext
        <4>2. PICK f : SuffixThis(T, q, m, n, k, last, f)
          BY <4>1, SuffixGrows
        <4> QED BY <4>2 DEF SuffixThis
      <3> QED BY <1>3, <3>1, <3>2, <3>3
    <2>2. ASSUME NEW k \in Nat, k + 1 < n, From(k) PROVE From(k + 1)
      <3>1. PICK j, i : j = n - (k + 1) /\ i = n - k
        OBVIOUS
      <3>2. j \in 1 .. n /\ i \in 1 .. n /\ i = j + 1 /\ i # 1 /\ i - 1 = j /\ i \in i .. n /\ i + 1 \in i .. n + 1 /\ j \in 1 .. Len(q)
        BY <1>0, <2>2, <3>1
      <3>3. PICK h : SuffixFrom(T, q, m, i, h) /\ g[i] \o h[i + 1] = g[n] \o m
        BY <2>2, <3>1
      <3>4. PICK f : SuffixFrom(T, q, m, j, f) /\ f[i] = h[i]
        <4>1. SuffixNext(T, q, m, j, i, h)
          BY <3>2, <3>3 DEF SuffixNext
        <4>2. PICK f : SuffixThis(T, q, m, j, i, h, f)
          BY <4>1, SuffixGrows
        <4> QED BY <4>2 DEF SuffixThis
      <3>5. h[i] = q[i] \o h[i + 1] /\ h[i + 1] \in Seq(T)
        BY <1>0, <3>2, <3>3 DEF SuffixFrom
      <3>6. g[i] = g[j] \o q[i] /\ g[j] \in Seq(T) /\ q[i] \in Seq(T)
        BY <1>1, <1>2, <3>2 DEF FlatStep
      <3>7. g[j] \o (q[i] \o h[i + 1]) = (g[j] \o q[i]) \o h[i + 1]
        <4>1. PICK a, b, c : a = g[j] /\ b = q[i] /\ c = h[i + 1]
          OBVIOUS
        <4>2. a \in Seq(T) /\ b \in Seq(T) /\ c \in Seq(T)
          BY <3>5, <3>6, <4>1
        <4>3. (a \o b) \o c = a \o (b \o c)
          BY <4>2, ConcatAssociative
        <4> QED BY <4>1, <4>3
      <3>8. g[j] \o f[j + 1] = g[n] \o m
        BY <3>2, <3>3, <3>4, <3>5, <3>6, <3>7
      <3> QED BY <3>1, <3>4, <3>8
    <2> HIDE DEF From
    <2>3. 0 \in S /\ \A k \in Nat : k \in S => k + 1 \in S
      BY <2>1, <2>2
    <2> HIDE DEF S
    <2>4. Nat \subseteq S
      BY <2>3, Counting
    <2>5. n - 1 \in Nat /\ n - 1 < n /\ n - (n - 1) = 1
      BY <1>5
    <2>6. From(n - 1)
      BY <2>4, <2>5 DEF S
    <2>7. PICK h : SuffixFrom(T, q, m, 1, h) /\ g[1] \o h[1 + 1] = g[n] \o m
      BY <2>5, <2>6 DEF From
    <2>8. 1 \in 1 .. n /\ 1 \in 1 .. Len(q)
      BY <1>0, <1>5
    <2>9. g[1] = q[1]
      BY <1>2, <2>8 DEF FlatStep
    <2>10. h[1] = q[1] \o h[1 + 1]
      BY <2>7, <2>8 DEF SuffixFrom
    <2> QED BY <1>2, <1>5, <2>7, <2>9, <2>10 DEF Suffixed
  <1> QED BY <1>4, <1>5

(***************************************************************************)
(* The tree that a walk is to yield.  A walk sees only a part of the report,*)
(* which it does not change: w.                                             *)
(***************************************************************************)
Item == [frame : Errors \union {NoError}, lost : Nat, depth : Nat]
Seen == [children |-> children, lost |-> lost_children, roots |-> Roots, lost_roots |-> lost_peers]
Whole(w) ==
  /\ w.children \in [Errors -> Seq(Errors)] /\ w.lost \in [Errors -> 0 .. MaxLost]
  /\ w.roots \in Seq(Errors) /\ w.lost_roots \in 0 .. MaxLost
  /\ \A e \in Errors : \A i \in 1 .. Len(w.children[e]) : w.children[e][i] < e

LEMMA ItemsAre ==
  /\ \A e \in Errors, d \in Nat : <<Frame(e, d)>> \in Seq(Item)
  /\ \A n \in 0 .. MaxLost, d \in Nat : LostMarker(n, d) \in Seq(Item)
  <1>1. \A e \in Errors, d \in Nat : Frame(e, d) \in Item
    BY DEF Item, Frame
  <1>2. \A n \in 0 .. MaxLost, d \in Nat : LostFrames(n, d) \in Item
    BY ErrorsAssumption DEF Item, LostFrames
  <1>3. ASSUME NEW e \in Errors, NEW d \in Nat PROVE <<Frame(e, d)>> \in Seq(Item)
    <2>1. PICK x \in Item : x = Frame(e, d)
      BY <1>1
    <2> QED BY <2>1
  <1>4. ASSUME NEW n \in 0 .. MaxLost, NEW d \in Nat PROVE LostMarker(n, d) \in Seq(Item)
    <2>1. PICK x \in Item : x = LostFrames(n, d)
      BY <1>2
    <2>2. <<x>> \in Seq(Item) /\ <<>> \in Seq(Item)
      OBVIOUS
    <2> QED BY <2>1, <2>2 DEF LostMarker
  <1> QED BY <1>3, <1>4

\* What is below an error, given what is below each of its children.
BelowAt(w, S, f, e, d) ==
  IF w.children[e] = <<>> \/ e \in S THEN <<>>
  ELSE FlattenSeq([i \in DOMAIN w.children[e] |-> f[w.children[e][i]][d]]) \o LostMarker(w.lost[e], d)
SubtreeAt(w, S, f, e) == [depth \in 0 .. MaxErrors - e |-> <<Frame(e, depth)>> \o BelowAt(w, S, f, e, depth + 1)]
Subtrees(w, S, n, f) == f = [e \in 1 .. n |-> SubtreeAt(w, S, f, e)]

LEMMA SameSubtree ==
  ASSUME NEW w, NEW S, NEW f, NEW g, NEW e, \A i \in DOMAIN w.children[e] : f[w.children[e][i]] = g[w.children[e][i]]
  PROVE  SubtreeAt(w, S, f, e) = SubtreeAt(w, S, g, e)
  <1>1. ASSUME NEW d PROVE BelowAt(w, S, f, e, d) = BelowAt(w, S, g, e, d)
    <2>1. [i \in DOMAIN w.children[e] |-> f[w.children[e][i]][d]] = [i \in DOMAIN w.children[e] |-> g[w.children[e][i]][d]]
      OBVIOUS
    <2> QED BY <2>1 DEF BelowAt
  <1> QED BY <1>1 DEF SubtreeAt

LEMMA SubtreesExist ==
  ASSUME NEW w, Whole(w), NEW S
  PROVE  \E f : Subtrees(w, S, MaxErrors, f)
  <1> DEFINE T == {n \in Nat : n <= MaxErrors => \E f : Subtrees(w, S, n, f)}
  <1>1. 0 \in T
    <2>1. Subtrees(w, S, 0, [i \in 1 .. 0 |-> i])
      BY DEF Subtrees
    <2> QED BY <2>1
  <1>2. ASSUME NEW n \in Nat, n \in T PROVE n + 1 \in T
    <2> SUFFICES ASSUME n + 1 <= MaxErrors PROVE \E f : Subtrees(w, S, n + 1, f)
      OBVIOUS
    <2>1. PICK f : Subtrees(w, S, n, f)
      BY <1>2, ErrorsAssumption
    <2>2. PICK m : m = n + 1
      OBVIOUS
    <2> DEFINE next == [e \in 1 .. m |-> IF e = m THEN SubtreeAt(w, S, f, m) ELSE f[e]]
    <2>3. /\ \A e \in 1 .. n : next[e] = f[e]
          /\ next[m] = SubtreeAt(w, S, f, m)
          /\ next = [e \in 1 .. m |-> next[e]]
      BY <2>2
    <2> HIDE DEF next
    <2>4. ASSUME NEW e \in 1 .. m PROVE next[e] = SubtreeAt(w, S, next, e)
      <3>1. e \in Errors
        BY <2>2, ErrorsAssumption DEF Errors
      <3>2. \A i \in DOMAIN w.children[e] : w.children[e][i] \in 1 .. n
        <4>1. w.children[e] \in Seq(Errors) /\ \A i \in 1 .. Len(w.children[e]) : w.children[e][i] < e
          BY <3>1 DEF Whole
        <4>2. \A i \in DOMAIN w.children[e] : w.children[e][i] \in Errors /\ w.children[e][i] < e
          BY <4>1
        <4> QED BY <2>2, <4>2, ErrorsAssumption DEF Errors
      <3>3. SubtreeAt(w, S, next, e) = SubtreeAt(w, S, f, e)
        <4>1. \A i \in DOMAIN w.children[e] : next[w.children[e][i]] = f[w.children[e][i]]
          BY <2>3, <3>2
        <4> QED BY <4>1, SameSubtree
      <3>4. CASE e = m
        BY <2>3, <3>3, <3>4
      <3>5. CASE e # m
        <4>1. e \in 1 .. n
          BY <2>2, <3>5
        <4>2. f[e] = SubtreeAt(w, S, f, e)
          BY <2>1, <4>1 DEF Subtrees
        <4> QED BY <2>3, <3>3, <4>1, <4>2
      <3> QED BY <3>4, <3>5
    <2>5. Subtrees(w, S, m, next)
      BY <2>3, <2>4 DEF Subtrees
    <2> QED BY <2>2, <2>5
  <1> HIDE DEF T
  <1>3. Nat \subseteq T
    BY <1>1, <1>2, Counting
  <1> QED BY <1>3, ErrorsAssumption DEF T

Subtree(w, S) == CHOOSE f : Subtrees(w, S, MaxErrors, f)
Kids(w, S, e, d) == [i \in DOMAIN w.children[e] |-> Subtree(w, S)[w.children[e][i]][d]]
Opening(w, S, e, d) == BelowAt(w, S, Subtree(w, S), e, d)

LEMMA SubtreeOpens ==
  ASSUME NEW w, Whole(w), NEW S
  PROVE  \A e \in Errors : \A d \in 0 .. MaxErrors - e : Subtree(w, S)[e][d] = <<Frame(e, d)>> \o Opening(w, S, e, d + 1)
  <1>1. PICK f : f = Subtree(w, S)
    OBVIOUS
  <1>2. Subtrees(w, S, MaxErrors, f)
    BY <1>1, SubtreesExist DEF Subtree
  <1>3. \A e \in Errors : f[e] = SubtreeAt(w, S, f, e)
    BY <1>2 DEF Subtrees, Errors
  <1> QED BY <1>1, <1>3 DEF SubtreeAt, Opening

\* The children of an error fit below it.
LEMMA KidsFit ==
  ASSUME NEW w, Whole(w), NEW e \in Errors, NEW i \in 1 .. Len(w.children[e]), NEW d \in 1 .. MaxErrors + 1 - e
  PROVE  /\ w.children[e][i] \in Errors /\ w.children[e][i] < e
         /\ d \in 0 .. MaxErrors - w.children[e][i] /\ d + 1 \in 1 .. MaxErrors + 1 - w.children[e][i]
         /\ d \in Nat /\ d + 1 \in Nat
  <1>1. w.children[e] \in Seq(Errors) /\ w.children[e][i] < e
    BY DEF Whole
  <1>2. PICK c \in Errors : c = w.children[e][i]
    BY <1>1
  <1>3. c \in Nat /\ e \in Nat /\ c < e
    BY <1>1, <1>2 DEF Errors
  <1>4. d \in 0 .. MaxErrors - c /\ d + 1 \in 1 .. MaxErrors + 1 - c /\ d \in Nat /\ d + 1 \in Nat
    BY <1>3, ErrorsAssumption
  <1> QED BY <1>1, <1>2, <1>4

KidsRead(w, S, e, d) ==
  /\ Kids(w, S, e, d) \in Seq(Seq(Item)) /\ Len(Kids(w, S, e, d)) = Len(w.children[e])
  /\ \A i \in 1 .. Len(w.children[e]) : Kids(w, S, e, d)[i] = Subtree(w, S)[w.children[e][i]][d]
  /\ LostMarker(w.lost[e], d) \in Seq(Item)
  /\ Opening(w, S, e, d) \in Seq(Item)
  /\ Opening(w, S, e, d) = IF w.children[e] = <<>> \/ e \in S THEN <<>>
                           ELSE FlattenSeq(Kids(w, S, e, d)) \o LostMarker(w.lost[e], d)

LEMMA KidsTyped ==
  ASSUME NEW w, Whole(w), NEW S, NEW e \in Errors, NEW d \in 1 .. MaxErrors + 1 - e,
         \A i \in 1 .. Len(w.children[e]) : Subtree(w, S)[w.children[e][i]][d] \in Seq(Item)
  PROVE  KidsRead(w, S, e, d)
  <1>1. PICK n \in Nat : n = Len(w.children[e]) /\ DOMAIN w.children[e] = 1 .. n
    <2>1. w.children[e] \in Seq(Errors)
      BY DEF Whole
    <2> QED BY <2>1
  <1>2. PICK q : q = Kids(w, S, e, d)
    OBVIOUS
  <1>3. q = [i \in 1 .. n |-> Subtree(w, S)[w.children[e][i]][d]]
    BY <1>1, <1>2 DEF Kids
  <1>4. q \in Seq(Seq(Item)) /\ Len(q) = n /\ \A i \in 1 .. n : q[i] = Subtree(w, S)[w.children[e][i]][d]
    BY <1>1, <1>3
  <1>5. LostMarker(w.lost[e], d) \in Seq(Item)
    <2>1. w.lost[e] \in 0 .. MaxLost /\ d \in Nat
      BY DEF Whole
    <2> QED BY <2>1, ItemsAre
  <1>6. FlattenSeq(q) \in Seq(Item)
    <2>1. PICK g : /\ \A i \in 1 .. Len(q) : g[i] \in Seq(Item)
                   /\ Len(q) # 0 => FlattenSeq(q) = g[Len(q)]
                   /\ Len(q) = 0 => FlattenSeq(q) = <<>>
      BY <1>4, FlattenIs
    <2>2. CASE n = 0
      <3>1. <<>> \in Seq(Item)
        OBVIOUS
      <3> QED BY <1>4, <2>1, <2>2, <3>1
    <2>3. CASE n # 0
      BY <1>4, <2>1, <2>3
    <2> QED BY <2>2, <2>3
  <1>7. Opening(w, S, e, d) = IF w.children[e] = <<>> \/ e \in S THEN <<>> ELSE FlattenSeq(q) \o LostMarker(w.lost[e], d)
    BY <1>2 DEF Opening, BelowAt, Kids
  <1>8. FlattenSeq(q) \o LostMarker(w.lost[e], d) \in Seq(Item) /\ <<>> \in Seq(Item)
    BY <1>5, <1>6, Concatenated
  <1>9. Opening(w, S, e, d) \in Seq(Item)
    BY <1>7, <1>8
  <1> QED BY <1>1, <1>2, <1>4, <1>5, <1>7, <1>9 DEF KidsRead

LEMMA SubtreeTyped ==
  ASSUME NEW w, Whole(w), NEW S
  PROVE  \A e \in Errors : \A d \in 0 .. MaxErrors - e : Subtree(w, S)[e][d] \in Seq(Item)
  <1> DEFINE Typed(e) == \A d \in 0 .. MaxErrors - e : Subtree(w, S)[e][d] \in Seq(Item)
             T == {n \in Nat : \A e \in Errors : e <= n => Typed(e)}
  <1>1. 0 \in T
    BY DEF Errors
  <1>2. ASSUME NEW e \in Errors, \A c \in Errors : c < e => Typed(c) PROVE Typed(e)
    <2> SUFFICES ASSUME NEW d \in 0 .. MaxErrors - e PROVE Subtree(w, S)[e][d] \in Seq(Item)
      OBVIOUS
    <2>1. PICK k : k = d + 1
      OBVIOUS
    <2>2. k \in 1 .. MaxErrors + 1 - e /\ d \in Nat
      BY <2>1, ErrorsAssumption DEF Errors
    <2>3. \A i \in 1 .. Len(w.children[e]) : Subtree(w, S)[w.children[e][i]][k] \in Seq(Item)
      BY <1>2, <2>2, KidsFit
    <2>4. Opening(w, S, e, k) \in Seq(Item)
      BY <2>2, <2>3, KidsTyped DEF KidsRead
    <2>5. Subtree(w, S)[e][d] = <<Frame(e, d)>> \o Opening(w, S, e, k)
      BY <2>1, SubtreeOpens
    <2>6. <<Frame(e, d)>> \in Seq(Item)
      BY <2>2, ItemsAre
    <2> QED BY <2>4, <2>5, <2>6, Concatenated
  <1> HIDE DEF Typed
  <1>3. ASSUME NEW n \in Nat, n \in T PROVE n + 1 \in T
    <2> SUFFICES ASSUME NEW e \in Errors, e <= n + 1 PROVE Typed(e)
      OBVIOUS
    <2>1. \A c \in Errors : c < e => c <= n
      BY DEF Errors
    <2> QED BY <1>2, <1>3, <2>1
  <1> HIDE DEF T
  <1>4. Nat \subseteq T
    BY <1>1, <1>3, Counting
  <1>5. \A e \in Errors : Typed(e)
    BY <1>4 DEF T, Errors
  <1> QED BY <1>5 DEF Typed

\* What is left of the children of an error, and of the roots.
Left(w, S, e, d) == CHOOSE h : Suffixed(Item, Kids(w, S, e, d), LostMarker(w.lost[e], d), h)
RootTrees(w, S) == [i \in DOMAIN w.roots |-> Subtree(w, S)[w.roots[i]][0]]
RootsLeft(w, S) == CHOOSE h : Suffixed(Item, RootTrees(w, S), LostMarker(w.lost_roots, 0), h)
\* What comes after an error, unless it is discarded.
Opens(w, S, e, d) == IF w.children[e] = <<>> \/ e \in S THEN <<>> ELSE Left(w, S, e, d)[1]

LeftRead(w, S, e, d) ==
  /\ Suffixed(Item, Kids(w, S, e, d), LostMarker(w.lost[e], d), Left(w, S, e, d))
  /\ Opening(w, S, e, d) = Opens(w, S, e, d) /\ Opens(w, S, e, d) \in Seq(Item)

LEMMA LeftSuffixed ==
  ASSUME NEW w, Whole(w), NEW S, NEW e \in Errors, NEW d \in 1 .. MaxErrors + 1 - e
  PROVE  KidsRead(w, S, e, d) /\ LeftRead(w, S, e, d)
  <1>1. \A i \in 1 .. Len(w.children[e]) : Subtree(w, S)[w.children[e][i]][d] \in Seq(Item)
    BY KidsFit, SubtreeTyped
  <1>2. KidsRead(w, S, e, d)
    BY <1>1, KidsTyped
  <1>3. PICK q, m : q = Kids(w, S, e, d) /\ m = LostMarker(w.lost[e], d)
    OBVIOUS
  <1>4. \E h : Suffixed(Item, q, m, h)
    BY <1>2, <1>3, SuffixExists DEF KidsRead
  <1>5. PICK l : l = Left(w, S, e, d)
    OBVIOUS
  <1>6. Suffixed(Item, q, m, l)
    BY <1>3, <1>4, <1>5 DEF Left
  <1>7. l[1] = FlattenSeq(q) \o m
    BY <1>6 DEF Suffixed
  <1>8. Opening(w, S, e, d) = Opens(w, S, e, d)
    BY <1>2, <1>3, <1>5, <1>7 DEF Opens, KidsRead
  <1> QED BY <1>2, <1>3, <1>5, <1>6, <1>8 DEF KidsRead, LeftRead

\* Going on with a child, or past the last one.
AtChild(w, S, e, d, i, l, c) ==
  /\ l[i] \in Seq(Item) /\ l[i + 1] \in Seq(Item) /\ Opens(w, S, c, d + 1) \in Seq(Item) /\ <<Frame(c, d)>> \in Seq(Item)
  /\ l[i] = <<Frame(c, d)>> \o (Opens(w, S, c, d + 1) \o l[i + 1])

Regroups(a, b, c) == (a \o b) \o c = a \o (b \o c)
LEMMA Associated ==
  ASSUME NEW T, NEW a \in Seq(T), NEW b \in Seq(T), NEW c \in Seq(T) PROVE Regroups(a, b, c)
  BY ConcatAssociative DEF Regroups

LEMMA LeftIs ==
  ASSUME NEW w, Whole(w), NEW S, NEW e \in Errors, NEW d \in 1 .. MaxErrors + 1 - e
  PROVE  /\ \A i \in 1 .. Len(w.children[e]) + 1 : Left(w, S, e, d)[i] \in Seq(Item)
         /\ Left(w, S, e, d)[Len(w.children[e]) + 1] = LostMarker(w.lost[e], d)
         /\ \A i \in 1 .. Len(w.children[e]) : AtChild(w, S, e, d, i, Left(w, S, e, d), w.children[e][i])
  <1>1. PICK l, q : l = Left(w, S, e, d) /\ q = Kids(w, S, e, d)
    OBVIOUS
  <1>2. PICK n \in Nat : n = Len(w.children[e])
    BY DEF Whole
  <1>3. /\ Len(q) = n /\ \A i \in 1 .. n : q[i] = Subtree(w, S)[w.children[e][i]][d]
        /\ Suffixed(Item, q, LostMarker(w.lost[e], d), l)
    <2>1. KidsRead(w, S, e, d) /\ LeftRead(w, S, e, d)
      BY LeftSuffixed
    <2> QED BY <1>1, <1>2, <2>1 DEF KidsRead, LeftRead
  <1>4. /\ l \in [1 .. n + 1 -> Seq(Item)] /\ l[n + 1] = LostMarker(w.lost[e], d)
        /\ \A i \in 1 .. n : l[i] = q[i] \o l[i + 1]
    BY <1>3 DEF Suffixed, SuffixFrom
  <1>5. ASSUME NEW i \in 1 .. n PROVE AtChild(w, S, e, d, i, l, w.children[e][i])
    <2>1. PICK c : c = w.children[e][i]
      OBVIOUS
    <2>2. c \in Errors /\ d \in 0 .. MaxErrors - c /\ d + 1 \in 1 .. MaxErrors + 1 - c /\ d \in Nat
      BY <1>2, <2>1, KidsFit
    <2>3. PICK o : o = Opens(w, S, c, d + 1)
      OBVIOUS
    <2>4. o \in Seq(Item) /\ o = Opening(w, S, c, d + 1)
      BY <2>2, <2>3, LeftSuffixed DEF LeftRead
    <2>5. q[i] = <<Frame(c, d)>> \o o
      BY <1>3, <2>1, <2>2, <2>4, SubtreeOpens
    <2>6. PICK f \in Seq(Item) : f = <<Frame(c, d)>>
      BY <2>2, ItemsAre
    <2>7. i \in 1 .. n + 1 /\ i + 1 \in 1 .. n + 1
      BY <1>2
    <2>8. PICK t \in Seq(Item) : t = l[i + 1]
      BY <1>4, <2>7
    <2>9. l[i] = (f \o o) \o t
      BY <1>4, <2>5, <2>6, <2>8
    <2>10. l[i] = f \o (o \o t)
      <3>1. Regroups(f, o, t)
        BY <2>4, <2>6, <2>8, Associated
      <3> QED BY <2>9, <3>1 DEF Regroups
    <2>11. l[i] \in Seq(Item)
      BY <1>4, <2>7
    <2> QED BY <2>1, <2>3, <2>4, <2>6, <2>8, <2>10, <2>11 DEF AtChild
  <1> QED BY <1>1, <1>2, <1>4, <1>5

LEMMA RootsLeftIs ==
  ASSUME NEW w, Whole(w), NEW S
  PROVE  /\ \A i \in 1 .. Len(w.roots) + 1 : RootsLeft(w, S)[i] \in Seq(Item)
         /\ RootsLeft(w, S)[Len(w.roots) + 1] = LostMarker(w.lost_roots, 0)
         /\ \A i \in 1 .. Len(w.roots) : AtChild(w, S, NoError, 0, i, RootsLeft(w, S), w.roots[i])
         /\ RootsLeft(w, S)[1] = FlattenSeq(RootTrees(w, S)) \o LostMarker(w.lost_roots, 0)
  <1>1. PICK n \in Nat : n = Len(w.roots) /\ DOMAIN w.roots = 1 .. n
    BY DEF Whole
  <1>2. PICK l, q, m : l = RootsLeft(w, S) /\ q = RootTrees(w, S) /\ m = LostMarker(w.lost_roots, 0)
    OBVIOUS
  <1>3. q = [i \in 1 .. n |-> Subtree(w, S)[w.roots[i]][0]]
    BY <1>1, <1>2 DEF RootTrees
  <1>4. \A i \in 1 .. n : w.roots[i] \in Errors /\ 0 \in 0 .. MaxErrors - w.roots[i] /\ 1 \in 1 .. MaxErrors + 1 - w.roots[i]
    <2>1. \A i \in 1 .. n : w.roots[i] \in Errors
      BY <1>1 DEF Whole
    <2>2. \A c \in Errors : 0 \in 0 .. MaxErrors - c /\ 1 \in 1 .. MaxErrors + 1 - c
      BY ErrorsAssumption DEF Errors
    <2> QED BY <2>1, <2>2
  <1>5. q \in Seq(Seq(Item)) /\ Len(q) = n /\ \A i \in 1 .. n : q[i] = Subtree(w, S)[w.roots[i]][0]
    <2>1. \A i \in 1 .. n : Subtree(w, S)[w.roots[i]][0] \in Seq(Item)
      BY <1>4, SubtreeTyped
    <2> QED BY <1>1, <1>3, <2>1
  <1>6. m \in Seq(Item)
    BY <1>2, ItemsAre DEF Whole
  <1>7. \E h : Suffixed(Item, q, m, h)
    BY <1>5, <1>6, SuffixExists
  <1>8. Suffixed(Item, q, m, l)
    BY <1>2, <1>7 DEF RootsLeft
  <1>9. /\ l \in [1 .. n + 1 -> Seq(Item)] /\ l[n + 1] = m
        /\ \A i \in 1 .. n : l[i] = q[i] \o l[i + 1]
        /\ l[1] = FlattenSeq(q) \o m
    BY <1>5, <1>8 DEF Suffixed, SuffixFrom
  <1>10. ASSUME NEW i \in 1 .. n PROVE AtChild(w, S, NoError, 0, i, l, w.roots[i])
    <2>1. PICK c : c = w.roots[i]
      OBVIOUS
    <2>2. c \in Errors /\ 0 \in 0 .. MaxErrors - c /\ 1 \in 1 .. MaxErrors + 1 - c
      BY <1>4, <2>1
    <2>k. PICK k : k = 0 + 1 /\ k \in 1 .. MaxErrors + 1 - c
      BY <2>2
    <2>3. PICK o : o = Opens(w, S, c, k)
      OBVIOUS
    <2>4. o \in Seq(Item) /\ o = Opening(w, S, c, k)
      BY <2>2, <2>3, <2>k, LeftSuffixed DEF LeftRead
    <2>5. q[i] = <<Frame(c, 0)>> \o o
      BY <1>5, <2>1, <2>2, <2>4, <2>k, SubtreeOpens
    <2>6. PICK f \in Seq(Item) : f = <<Frame(c, 0)>>
      BY <2>2, ItemsAre
    <2>7. i \in 1 .. n + 1 /\ i + 1 \in 1 .. n + 1
      BY <1>1
    <2>8. PICK t \in Seq(Item) : t = l[i + 1]
      BY <1>9, <2>7
    <2>9. l[i] = (f \o o) \o t
      BY <1>9, <2>5, <2>6, <2>8
    <2>10. l[i] = f \o (o \o t)
      <3>1. Regroups(f, o, t)
        BY <2>4, <2>6, <2>8, Associated
      <3> QED BY <2>9, <3>1 DEF Regroups
    <2>11. l[i] \in Seq(Item)
      BY <1>9, <2>7
    <2> QED BY <2>1, <2>3, <2>4, <2>6, <2>8, <2>10, <2>11, <2>k DEF AtChild
  <1> QED BY <1>1, <1>2, <1>9, <1>10

LEMMA TreeIs ==
  ASSUME Whole(Seen), NEW S
  PROVE  TreeWithout(S) = RootsLeft(Seen, S)[1]
  <1>1. PICK w : w = Seen
    OBVIOUS
  <1>2. /\ w.children = children /\ w.lost = lost_children /\ w.roots = Roots /\ w.lost_roots = lost_peers
    BY <1>1 DEF Seen
  <1>3. TreeWithout(S) = FlattenSeq([i \in DOMAIN Roots |-> Subtree(w, S)[Roots[i]][0]]) \o LostMarker(lost_peers, 0)
    BY <1>2 DEF TreeWithout, Subtree, Subtrees, SubtreeAt, BelowAt, Errors
  <1>4. TreeWithout(S) = FlattenSeq(RootTrees(w, S)) \o LostMarker(w.lost_roots, 0)
    BY <1>2, <1>3 DEF RootTrees
  <1> QED BY <1>1, <1>4, RootsLeftIs

(***************************************************************************)
(* The report that is walked is a forest.                                   *)
(***************************************************************************)
ForestOf(w) ==
  /\ \A e, f \in Errors : \A i \in 1 .. Len(w.children[e]), j \in 1 .. Len(w.children[f]) :
       w.children[e][i] = w.children[f][j] => e = f /\ i = j
  /\ \A e \in Errors : \A i \in 1 .. Len(w.children[e]), k \in 1 .. Len(w.roots) : w.children[e][i] # w.roots[k]
  /\ \A k, l \in 1 .. Len(w.roots) : w.roots[k] = w.roots[l] => k = l

\* What a walk of kind k sees.
RootsIf(k) == IF k = "chrono" THEN Reverse(peers) \o <<head>> ELSE <<head>> \o peers
SeenIf(k) == [children |-> children, lost |-> lost_children, roots |-> RootsIf(k), lost_roots |-> lost_peers]

\* The roots are the head and the peers, once each.
LEMMA RootsAre ==
  ASSUME ReportInv, Lineage, pc = "idle", NEW kind
  PROVE  /\ RootsIf(kind) \in Seq(Errors)
         /\ \A k \in 1 .. Len(RootsIf(kind)) : ~On(RootsIf(kind)[k])
         /\ \A k, l \in 1 .. Len(RootsIf(kind)) : RootsIf(kind)[k] = RootsIf(kind)[l] => k = l
  <1>1. peers \in Seq(Errors) /\ head \in Errors
    BY DEF ReportInv, TypeOK
  <1>2. PICK n \in Nat : n = Len(peers)
    BY <1>1
  <1>3. /\ ~On(head) /\ \A i \in 1 .. n : ~On(peers[i]) /\ peers[i] # head
        /\ \A i, j \in 1 .. n : peers[i] = peers[j] => i = j
    BY <1>2 DEF Lineage, FreeTops, Plain
  <1>4. PICK r : r = Reverse(peers)
    OBVIOUS
  <1>5. r \in Seq(Errors) /\ Len(r) = n /\ \A i \in 1 .. n : n + 1 - i \in 1 .. n /\ r[i] = peers[n + 1 - i]
    BY <1>1, <1>2, <1>4, Reversed
  <1>6. /\ \A i \in 1 .. n : ~On(r[i]) /\ r[i] # head
        /\ \A i, j \in 1 .. n : r[i] = r[j] => i = j
    <2>1. \A i, j \in 1 .. n : n + 1 - i = n + 1 - j => i = j
      OBVIOUS
    <2> QED BY <1>3, <1>5, <2>1
  <1>7. CASE kind = "chrono"
    <2>1. PICK h \in Seq(Errors) : h = <<head>> /\ Len(h) = 1 /\ h[1] = head
      <3>1. PICK x \in Errors : x = head
        BY <1>1
      <3>2. <<x>> \in Seq(Errors) /\ Len(<<x>>) = 1 /\ <<x>>[1] = x
        OBVIOUS
      <3> QED BY <3>1, <3>2
    <2>2. PICK q : q = r \o h
      OBVIOUS
    <2>3. q \in Seq(Errors) /\ Len(q) = n + 1 /\ (\A i \in 1 .. n : q[i] = r[i]) /\ q[n + 1] = head
      BY <1>5, <2>1, <2>2
    <2>4. \A k \in 1 .. n + 1 : k = n + 1 \/ k \in 1 .. n
      OBVIOUS
    <2>5. RootsIf(kind) = q
      BY <1>4, <1>7, <2>1, <2>2 DEF RootsIf
    <2>6. /\ \A k \in 1 .. n + 1 : ~On(q[k])
          /\ \A k, l \in 1 .. n + 1 : q[k] = q[l] => k = l
      BY <1>3, <1>6, <2>3, <2>4
    <2> QED BY <2>3, <2>5, <2>6
  <1>8. CASE kind # "chrono"
    <2>1. PICK q : q = <<head>> \o peers
      OBVIOUS
    <2>2. q \in Seq(Errors) /\ Len(q) = n + 1 /\ (\A i \in 1 .. n : q[i + 1] = peers[i]) /\ q[1] = head
      BY <1>1, <1>2, <2>1, Consed
    <2>3. \A k \in 1 .. n + 1 : k = 1 \/ (k - 1 \in 1 .. n /\ q[k] = peers[k - 1])
      <3> SUFFICES ASSUME NEW k \in 1 .. n + 1, k # 1 PROVE k - 1 \in 1 .. n /\ q[k] = peers[k - 1]
        OBVIOUS
      <3>1. k - 1 \in 1 .. n /\ (k - 1) + 1 = k
        OBVIOUS
      <3> QED BY <2>2, <3>1
    <2>4. RootsIf(kind) = q
      BY <1>8, <2>1 DEF RootsIf
    <2>5. \A k \in 1 .. n + 1 : ~On(q[k])
      BY <1>3, <2>2, <2>3
    <2>6. ASSUME NEW k \in 1 .. n + 1, NEW l \in 1 .. n + 1, q[k] = q[l] PROVE k = l
      <3>0. \A m \in 1 .. n + 1 : q[m] = head => m = 1
        BY <1>3, <2>3
      <3>1. CASE k = 1 \/ l = 1
        BY <2>2, <2>6, <3>0, <3>1
      <3>2. CASE k # 1 /\ l # 1
        <4>1. k - 1 = l - 1
          BY <1>3, <2>3, <2>6, <3>2
        <4> QED BY <4>1
      <3> QED BY <3>1, <3>2
    <2> QED BY <2>2, <2>4, <2>5, <2>6
  <1> QED BY <1>7, <1>8

LEMMA SeenForest ==
  ASSUME ReportInv, Lineage, pc = "idle", NEW kind
  PROVE  Whole(SeenIf(kind)) /\ ForestOf(SeenIf(kind))
  <1>1. /\ children \in [Errors -> Seq(Errors)] /\ lost_children \in [Errors -> 0 .. MaxLost]
        /\ lost_peers \in 0 .. MaxLost /\ op = NoError
        /\ \A e \in Errors : LevelOf(e) \in Seq(Errors) /\ children[e] \in Seq(Errors)
    BY DEF ReportInv, TypeOK, LevelOf
  <1> DEFINE At(e, i) == IF Begins(children[e], LevelOf(e)) THEN i ELSE Len(LevelOf(e)) + 1 - i
  <1>2. ASSUME NEW e \in Errors, NEW i \in 1 .. Len(children[e])
        PROVE  At(e, i) \in 1 .. Len(LevelOf(e)) /\ children[e][i] = LevelOf(e)[At(e, i)]
    <2>1. Complete(e)
      BY <1>1 DEF ReportInv, AllComplete, NoError, Errors
    <2>2. CASE Begins(children[e], LevelOf(e))
      <3>1. PICK l \in Seq(Errors), c \in Seq(Errors) : l = LevelOf(e) /\ c = children[e]
        BY <1>1
      <3>2. Len(c) <= Len(l) /\ (\A k \in 1 .. Len(c) : c[k] = l[k]) /\ Len(c) \in Nat /\ Len(l) \in Nat
        BY <2>2, <3>1 DEF Begins
      <3>3. i \in 1 .. Len(l) /\ c[i] = l[i]
        BY <3>1, <3>2
      <3>4. At(e, i) = i
        BY <2>2
      <3> QED BY <3>1, <3>3, <3>4
    <2>3. CASE ~Begins(children[e], LevelOf(e))
      <3>1. PICK l \in Seq(Errors) : l = LevelOf(e)
        BY <1>1
      <3>2. children[e] = Reverse(l) /\ Len(children[e]) = Len(l)
        BY <2>1, <2>3, <3>1, Reversed DEF Complete
      <3>3. children[e][i] = l[Len(l) + 1 - i] /\ Len(l) + 1 - i \in 1 .. Len(l)
        BY <3>2, Reversed
      <3> QED BY <2>3, <3>1, <3>3
    <2> QED BY <2>2, <2>3
  <1>3. ASSUME NEW e \in Errors, NEW i \in 1 .. Len(children[e]), NEW j \in 1 .. Len(children[e]), At(e, i) = At(e, j) PROVE i = j
    BY <1>1, <1>3
  <1> HIDE DEF At
  <1>4. ASSUME NEW e \in Errors, NEW i \in 1 .. Len(children[e])
        PROVE  children[e][i] < e /\ On(children[e][i])
    BY <1>2 DEF On, Lineage, Younger
  <1>5. ASSUME NEW e \in Errors, NEW f \in Errors, NEW i \in 1 .. Len(children[e]), NEW j \in 1 .. Len(children[f]),
               children[e][i] = children[f][j]
        PROVE  e = f /\ i = j
    <2>1. LevelOf(e)[At(e, i)] = LevelOf(f)[At(f, j)] /\ At(e, i) \in 1 .. Len(LevelOf(e)) /\ At(f, j) \in 1 .. Len(LevelOf(f))
      BY <1>2, <1>5
    <2>2. e = f /\ At(e, i) = At(f, j)
      BY <2>1 DEF Lineage, OnePlace
    <2> QED BY <1>3, <2>2
  <1>6. PICK r : /\ r = RootsIf(kind) /\ r \in Seq(Errors)
                 /\ \A k \in 1 .. Len(r) : ~On(r[k])
                 /\ \A k, l \in 1 .. Len(r) : r[k] = r[l] => k = l
    BY RootsAre
  <1>7. \A e \in Errors : \A i \in 1 .. Len(children[e]), k \in 1 .. Len(r) : children[e][i] # r[k]
    BY <1>4, <1>6
  <1>8. PICK w : w = SeenIf(kind)
    OBVIOUS
  <1>9. /\ w.children = children /\ w.lost = lost_children /\ w.roots = r /\ w.lost_roots = lost_peers
    BY <1>6, <1>8 DEF SeenIf
  <1>10. Whole(w)
    BY <1>1, <1>4, <1>6, <1>9 DEF Whole
  <1>11. ForestOf(w)
    BY <1>5, <1>6, <1>7, <1>9 DEF ForestOf
  <1> QED BY <1>8, <1>10, <1>11

(***************************************************************************)
(* What has been yielded, Y: a root that came, or a child of an error that   *)
(* has been opened, O, which its iterator has passed.                       *)
(***************************************************************************)
Entry == [of : Errors, at : Nat]
RootDone(w, at, e) == \E k \in 1 .. Len(w.roots) : k < at /\ w.roots[k] = e
ChildDone(w, O, st, e) == \E f \in O : \E i \in 1 .. Len(w.children[f]) :
  w.children[f][i] = e /\ \A j \in 1 .. Len(st) : st[j].of = f => i < st[j].at
Placed(w, O, Y, st, at) ==
  /\ O \subseteq Y /\ Y \subseteq Errors /\ at \in 1 .. Len(w.roots) + 1
  /\ st \in Seq(Entry)
  /\ \A j \in 1 .. Len(st) : st[j].of \in O /\ st[j].at \in 1 .. Len(w.children[st[j].of]) + 1
  /\ \A j, k \in 1 .. Len(st) : st[j].of = st[k].of => j = k
  /\ \A e \in Y : RootDone(w, at, e) \/ ChildDone(w, O, st, e)

LEMMA PlacedOpens ==
  ASSUME NEW w, Whole(w), NEW O, NEW Y, NEW st, NEW at, Placed(w, O, Y, st, at),
         NEW p \in Y, p \notin O
  PROVE  Placed(w, O \union {p}, Y, Append(st, [of |-> p, at |-> 1]), at)
  <1>1. st \in Seq(Entry) /\ p \in Errors /\ O \subseteq Y /\ Y \subseteq Errors
    BY DEF Placed
  <1>2. PICK x : x \in Entry /\ x = [of |-> p, at |-> 1] /\ x.of = p /\ x.at = 1
    <2>1. PICK x : x = [of |-> p, at |-> 1]
      OBVIOUS
    <2>2. x \in Entry /\ x.of = p /\ x.at = 1
      BY <1>1, <2>1 DEF Entry
    <2> QED BY <2>1, <2>2
  <1>3. PICK n, q : n = Len(st) /\ n \in Nat /\ q = Append(st, x)
    <2>1. Len(st) \in Nat
      BY <1>1
    <2> QED BY <2>1
  <1>4. q \in Seq(Entry) /\ Len(q) = n + 1 /\ q[n + 1] = x /\ \A i \in 1 .. n : q[i] = st[i]
    BY <1>1, <1>2, <1>3, Appended
  <1>5. \A j \in 1 .. n + 1 : j = n + 1 \/ j \in 1 .. n
    BY <1>3
  <1>6. ASSUME NEW j \in 1 .. n + 1
        PROVE  q[j].of \in O \union {p} /\ q[j].at \in 1 .. Len(w.children[q[j].of]) + 1
    <2>1. Len(w.children[p]) \in Nat
      BY <1>1 DEF Whole
    <2>2. 1 \in 1 .. Len(w.children[p]) + 1
      BY <2>1
    <2>3. CASE j = n + 1
      BY <1>2, <1>4, <2>2, <2>3
    <2>4. CASE j \in 1 .. n
      BY <1>3, <1>4, <2>4 DEF Placed
    <2> QED BY <1>5, <2>3, <2>4
  <1>7. ASSUME NEW e, ChildDone(w, O, st, e) PROVE ChildDone(w, O \union {p}, q, e)
    <2>1. PICK f \in O : \E i \in 1 .. Len(w.children[f]) :
            w.children[f][i] = e /\ \A j \in 1 .. Len(st) : st[j].of = f => i < st[j].at
      BY <1>7 DEF ChildDone
    <2>2. PICK i \in 1 .. Len(w.children[f]) :
            w.children[f][i] = e /\ \A j \in 1 .. Len(st) : st[j].of = f => i < st[j].at
      BY <2>1
    <2>3. \A j \in 1 .. n + 1 : q[j].of = f => i < q[j].at
      BY <1>2, <1>3, <1>4, <1>5, <2>2
    <2>4. f \in O \union {p} /\ Len(q) = n + 1
      BY <1>4
    <2> QED BY <2>2, <2>3, <2>4 DEF ChildDone
  <1>8. ASSUME NEW j \in 1 .. n + 1, NEW k \in 1 .. n + 1, q[j].of = q[k].of PROVE j = k
    <2>1. \A l \in 1 .. n : q[l].of = st[l].of /\ st[l].of \in O
      BY <1>3, <1>4 DEF Placed
    <2>2. q[n + 1].of = p
      BY <1>2, <1>4
    <2>3. \A l, m \in 1 .. n : st[l].of = st[m].of => l = m
      BY <1>3 DEF Placed
    <2>4. CASE j \in 1 .. n /\ k \in 1 .. n
      BY <1>8, <2>1, <2>3, <2>4
    <2>5. CASE j = n + 1 \/ k = n + 1
      BY <1>5, <1>8, <2>1, <2>2, <2>5
    <2> QED BY <1>5, <2>4, <2>5
  <1>9. Placed(w, O \union {p}, Y, q, at)
    BY <1>1, <1>4, <1>6, <1>7, <1>8 DEF Placed
  <1> QED BY <1>2, <1>3, <1>9

\* s is what is left of st when levels are popped.
LEMMA PlacedPops ==
  ASSUME NEW w, NEW O, NEW Y, NEW st, NEW at, Placed(w, O, Y, st, at),
         NEW s \in Seq(Entry), Begins(s, st)
  PROVE  Placed(w, O, Y, s, at)
  <1>1. Len(s) \in Nat /\ Len(st) \in Nat /\ Len(s) <= Len(st) /\ \A j \in 1 .. Len(s) : s[j] = st[j]
    BY DEF Placed, Begins
  <1>2. \A j \in 1 .. Len(s) : j \in 1 .. Len(st) /\ s[j] = st[j]
    BY <1>1
  <1>3. ASSUME NEW e, ChildDone(w, O, st, e) PROVE ChildDone(w, O, s, e)
    BY <1>2, <1>3 DEF ChildDone
  <1> QED BY <1>2, <1>3 DEF Placed

LEMMA PlacedRoot ==
  ASSUME NEW w, Whole(w), ForestOf(w), NEW O, NEW Y, NEW st, NEW at, Placed(w, O, Y, st, at),
         at <= Len(w.roots)
  PROVE  /\ w.roots[at] \in Errors /\ w.roots[at] \notin Y
         /\ Placed(w, O, Y \union {w.roots[at]}, st, at + 1)
  <1>1. PICK n \in Nat : n = Len(w.roots)
    BY DEF Whole
  <1>2. PICK k, c : k = at + 1 /\ c = w.roots[at]
    OBVIOUS
  <1>3. at \in 1 .. n /\ k \in 1 .. n + 1 /\ at < k /\ c \in Errors /\ \A l \in 1 .. n : l < at => l < k
    BY <1>1, <1>2 DEF Placed, Whole
  <1>4. ~RootDone(w, at, c)
    BY <1>1, <1>2, <1>3 DEF RootDone, ForestOf
  <1>5. ~ChildDone(w, O, st, c)
    BY <1>1, <1>2, <1>3 DEF ChildDone, ForestOf, Placed
  <1>6. c \notin Y
    BY <1>4, <1>5 DEF Placed
  <1>7. RootDone(w, k, c) /\ \A e : RootDone(w, at, e) => RootDone(w, k, e)
    BY <1>1, <1>2, <1>3 DEF RootDone
  <1>8. Placed(w, O, Y \union {c}, st, k)
    BY <1>1, <1>3, <1>7, SMTT(30) DEF Placed
  <1> QED BY <1>2, <1>3, <1>6, <1>8

\* Whether an iterator is at its end.
AtEndOf(w, entry) == entry.at > Len(w.children[entry.of])
\* The child that comes next on the top of the stack, and the stack after it.
Topmost(w, st, c, s) ==
  /\ st # <<>> /\ ~AtEndOf(w, st[Len(st)])
  /\ c = w.children[st[Len(st)].of][st[Len(st)].at]
  /\ s = [st EXCEPT ![Len(st)].at = @ + 1]
TopRead(w, st, c, s, n, t, i) ==
  /\ n \in Nat \ {0} /\ n = Len(st) /\ t = st[n].of /\ i = st[n].at
  /\ t \in Errors /\ i \in 1 .. Len(w.children[t]) /\ c = w.children[t][i] /\ c \in Errors /\ c < t
  /\ s \in Seq(Entry) /\ Len(s) = n /\ s[n].of = t /\ s[n].at = i + 1
  /\ \A j \in 1 .. n : j # n => s[j] = st[j]

LEMMA TopIs ==
  ASSUME NEW w, Whole(w), NEW st \in Seq(Entry), NEW c, NEW s, Topmost(w, st, c, s),
         \A j \in 1 .. Len(st) : st[j].at \in 1 .. Len(w.children[st[j].of]) + 1
  PROVE  \E n, t, i : TopRead(w, st, c, s, n, t, i)
  <1>1. PICK n \in Nat \ {0} : n = Len(st) /\ n \in 1 .. n
    BY DEF Topmost
  <1>2. PICK t, i : t = st[n].of /\ i = st[n].at
    OBVIOUS
  <1>3. st[n] \in Entry /\ t \in Errors /\ i \in Nat /\ i \in 1 .. Len(w.children[t]) + 1
    <2>1. st[n] \in Entry
      BY <1>1
    <2>2. i \in 1 .. Len(w.children[t]) + 1
      BY <1>1, <1>2
    <2> QED BY <1>2, <2>1, <2>2 DEF Entry
  <1>4. w.children[t] \in Seq(Errors) /\ Len(w.children[t]) \in Nat
    BY <1>3 DEF Whole
  <1>5. i \in 1 .. Len(w.children[t])
    BY <1>1, <1>2, <1>3, <1>4 DEF Topmost, AtEndOf
  <1>6. c = w.children[t][i] /\ c \in Errors /\ c < t
    BY <1>1, <1>2, <1>3, <1>4, <1>5 DEF Topmost, Whole
  <1>7. PICK x : x \in Entry /\ x = [of |-> t, at |-> i + 1] /\ x.of = t /\ x.at = i + 1
    <2>1. PICK x : x = [of |-> t, at |-> i + 1]
      OBVIOUS
    <2>2. x \in Entry /\ x.of = t /\ x.at = i + 1
      BY <1>3, <2>1 DEF Entry
    <2> QED BY <2>1, <2>2
  <1>8. s = [st EXCEPT ![n] = x]
    <2>1. [st[n] EXCEPT !.at = @ + 1] = x
      BY <1>2, <1>3, <1>7 DEF Entry
    <2>2. s = [st EXCEPT ![n] = [st[n] EXCEPT !.at = @ + 1]]
      BY <1>1 DEF Topmost
    <2> QED BY <2>1, <2>2
  <1>9. s \in Seq(Entry) /\ Len(s) = n /\ s[n] = x /\ \A j \in 1 .. n : j # n => s[j] = st[j]
    BY <1>1, <1>7, <1>8, SMTT(30)
  <1> QED BY <1>1, <1>2, <1>3, <1>5, <1>6, <1>7, <1>9 DEF TopRead

LEMMA PlacedChild ==
  ASSUME NEW w, Whole(w), ForestOf(w), NEW O, NEW Y, NEW st, NEW at, Placed(w, O, Y, st, at),
         NEW c, NEW s, Topmost(w, st, c, s)
  PROVE  c \notin Y /\ Placed(w, O, Y \union {c}, s, at)
  <1>1. PICK n, t, i : TopRead(w, st, c, s, n, t, i)
    BY TopIs DEF Placed
  <1> USE <1>1 DEF TopRead
  <1>2. n \in 1 .. n /\ n \in Nat /\ i \in Nat /\ t \in O /\ O \subseteq Errors
    BY DEF Placed
  <1>3. ~RootDone(w, at, c)
    BY DEF RootDone, ForestOf
  <1>4. ~ChildDone(w, O, st, c)
    <2> SUFFICES ASSUME NEW f \in O, NEW k \in 1 .. Len(w.children[f]), w.children[f][k] = c,
                        \A j \in 1 .. Len(st) : st[j].of = f => k < st[j].at
                 PROVE  FALSE
      BY DEF ChildDone
    <2>1. f = t /\ k = i
      BY <1>2, SMTT(30) DEF ForestOf
    <2>2. k < i
      BY <1>2, <2>1
    <2> QED BY <1>2, <2>1, <2>2, SMTT(30)
  <1>5. c \notin Y
    BY <1>3, <1>4 DEF Placed
  <1>6. \A j \in 1 .. n : s[j].of = st[j].of
    OBVIOUS
  <1>7. \A k \in Nat, j \in 1 .. n : k < st[j].at => k < s[j].at
    <2> SUFFICES ASSUME NEW k \in Nat, NEW j \in 1 .. n, k < st[j].at PROVE k < s[j].at
      OBVIOUS
    <2>1. CASE j = n
      BY <1>2, <2>1
    <2>2. CASE j # n
      BY <2>2
    <2> QED BY <2>1, <2>2
  <1>8. ASSUME NEW e, ChildDone(w, O, st, e) PROVE ChildDone(w, O, s, e)
    <2>1. PICK f \in O : \E k \in 1 .. Len(w.children[f]) :
            w.children[f][k] = e /\ \A j \in 1 .. n : st[j].of = f => k < st[j].at
      BY <1>8 DEF ChildDone
    <2>2. PICK k \in 1 .. Len(w.children[f]) :
            w.children[f][k] = e /\ \A j \in 1 .. n : st[j].of = f => k < st[j].at
      BY <2>1
    <2>3. \A j \in 1 .. n : s[j].of = f => k < s[j].at
      <3>1. k \in Nat
        BY <2>2
      <3> QED BY <1>6, <1>7, <2>2, <3>1
    <2>4. Len(s) = n
      OBVIOUS
    <2> HIDE DEF TopRead
    <2> QED BY <2>2, <2>3, <2>4 DEF ChildDone
  <1>9. ChildDone(w, O, s, c)
    <2>1. ASSUME NEW j \in 1 .. n, s[j].of = t PROVE i < s[j].at
      <3>1. CASE j = n
        BY <1>2, <3>1
      <3>2. j = n
        BY <1>2, <1>6, <2>1 DEF Placed
      <3> QED BY <3>1, <3>2
    <2> QED BY <1>2, <2>1 DEF ChildDone
  <1>10. \A j \in 1 .. n : s[j].of \in O /\ s[j].at \in 1 .. Len(w.children[s[j].of]) + 1
    <2> SUFFICES ASSUME NEW j \in 1 .. n PROVE s[j].of \in O /\ s[j].at \in 1 .. Len(w.children[s[j].of]) + 1
      OBVIOUS
    <2>1. CASE j = n
      BY <1>2, <2>1, SMTT(30)
    <2>2. CASE j # n
      BY <2>2 DEF Placed
    <2> QED BY <2>1, <2>2
  <1>11. Placed(w, O, Y \union {c}, s, at)
    <2>1. \A j, k \in 1 .. n : s[j].of = s[k].of => j = k
      BY <1>6 DEF Placed
    <2> QED BY <1>8, <1>9, <1>10, <2>1 DEF Placed
  <1> QED BY <1>5, <1>11

\* What comes first is above what came before.
LEMMA NewIsAbove ==
  ASSUME NEW w, ForestOf(w), NEW O, NEW Y, NEW st, NEW at, Placed(w, O, Y, st, at),
         NEW c \in Errors, c \notin Y
  PROVE  \A i \in 1 .. Len(w.children[c]) : w.children[c][i] \notin Y
  <1> SUFFICES ASSUME NEW i \in 1 .. Len(w.children[c]), w.children[c][i] \in Y PROVE FALSE
    OBVIOUS
  <1>1. PICK e : e = w.children[c][i]
    OBVIOUS
  <1>2. ~RootDone(w, at, e)
    BY <1>1 DEF RootDone, ForestOf
  <1>3. PICK f \in O : \E k \in 1 .. Len(w.children[f]) : w.children[f][k] = e
    BY <1>1, <1>2 DEF Placed, ChildDone
  <1>4. f = c
    BY <1>1, <1>3 DEF ForestOf, Placed
  <1> QED BY <1>3, <1>4 DEF Placed

(***************************************************************************)
(* What is still to come, level by level: the rest of the roots and, above    *)
(* it, of the children of each error on the stack.                          *)
(***************************************************************************)
Trail(w, S, st, rest, R) ==
  /\ R \in [0 .. Len(st) -> Seq(Item)] /\ R[0] = rest
  /\ \A j \in 1 .. Len(st) : R[j] = Left(w, S, st[j].of, j)[st[j].at] \o R[j - 1]

LEMMA TrailCut ==
  ASSUME NEW w, NEW S, NEW st \in Seq(Entry), NEW rest, NEW R, Trail(w, S, st, rest, R),
         NEW s \in Seq(Entry), Begins(s, st)
  PROVE  \E Q : Trail(w, S, s, rest, Q) /\ Q[Len(s)] = R[Len(s)]
  <1>1. PICK m, n : m = Len(s) /\ n = Len(st)
    OBVIOUS
  <1>2. m \in Nat /\ n \in Nat /\ m <= n /\ \A j \in 1 .. m : s[j] = st[j]
    BY <1>1 DEF Begins
  <1> DEFINE Q == [j \in 0 .. m |-> R[j]]
  <1>3. 0 \in 0 .. m /\ m \in 0 .. m /\ (\A j \in 0 .. m : j \in 0 .. n)
        /\ \A j \in 1 .. m : j \in 0 .. m /\ j - 1 \in 0 .. m /\ j \in 1 .. n
    BY <1>2
  <1>4. Q \in [0 .. m -> Seq(Item)] /\ \A j \in 0 .. m : Q[j] = R[j]
    BY <1>1, <1>3 DEF Trail
  <1> HIDE DEF Q
  <1>5. \A j \in 1 .. m : Q[j] = Left(w, S, s[j].of, j)[s[j].at] \o Q[j - 1]
    BY <1>1, <1>2, <1>3, <1>4 DEF Trail
  <1>6. Trail(w, S, s, rest, Q)
    BY <1>1, <1>3, <1>4, <1>5 DEF Trail
  <1> QED BY <1>1, <1>3, <1>4, <1>6

TrailNext(w, S, st, rest, R, s, k, x) ==
  /\ Trail(w, S, st, rest, R) /\ Len(st) \in Nat /\ k = Len(st) + 1 /\ Len(s) = k
  /\ \A j \in 1 .. Len(st) : s[j] = st[j]
  /\ x \in Seq(Item) /\ x = Left(w, S, s[k].of, k)[s[k].at]
TrailThis(w, S, st, rest, R, s, k, x, Q) == Trail(w, S, s, rest, Q) /\ Q[k] = x \o R[Len(st)]

LEMMA TrailGrows ==
  ASSUME NEW w, NEW S, NEW st, NEW rest, NEW R, NEW s, NEW k, NEW x, TrailNext(w, S, st, rest, R, s, k, x)
  PROVE  \E Q : TrailThis(w, S, st, rest, R, s, k, x, Q)
  <1>1. PICK n : n = Len(st)
    OBVIOUS
  <1>2. /\ n \in Nat /\ k = n + 1 /\ Len(s) = k /\ (\A j \in 1 .. n : s[j] = st[j])
        /\ x \in Seq(Item) /\ x = Left(w, S, s[k].of, k)[s[k].at]
        /\ R \in [0 .. n -> Seq(Item)] /\ R[0] = rest
        /\ \A j \in 1 .. n : R[j] = Left(w, S, st[j].of, j)[st[j].at] \o R[j - 1]
    BY <1>1 DEF TrailNext, Trail
  <1> DEFINE Q == [j \in 0 .. k |-> IF j = k THEN x \o R[n] ELSE R[j]]
  <1>3. /\ 0 \in 0 .. k /\ k \in 0 .. k /\ k # 0 /\ k - 1 = n /\ n \in 0 .. n /\ n \in 0 .. k /\ n # k
        /\ \A j \in 0 .. k : j = k \/ j \in 0 .. n
    <2>1. n \in Nat /\ k = n + 1
      BY <1>2
    <2> QED BY <2>1
  <1>4. x \o R[n] \in Seq(Item)
    <2>1. R[n] \in Seq(Item)
      BY <1>2, <1>3
    <2> QED BY <1>2, <2>1, Concatenated
  <1>5. Q \in [0 .. k -> Seq(Item)]
    BY <1>2, <1>3, <1>4
  <1>6. Q[k] = x \o R[n] /\ \A j \in 0 .. k : j # k => Q[j] = R[j]
    BY <1>3
  <1> HIDE DEF Q
  <1>7. ASSUME NEW j \in 1 .. k PROVE Q[j] = Left(w, S, s[j].of, j)[s[j].at] \o Q[j - 1]
    <2>1. CASE j = k
      <3>1. Q[n] = R[n]
        BY <1>3, <1>6
      <3> QED BY <1>2, <1>3, <1>6, <2>1, <3>1
    <2>2. CASE j # k
      <3>1. j \in 1 .. n /\ j \in 0 .. k /\ j - 1 \in 0 .. k /\ j - 1 # k
        BY <1>2, <2>2
      <3>2. Q[j] = R[j] /\ Q[j - 1] = R[j - 1] /\ s[j] = st[j]
        BY <1>2, <1>6, <2>2, <3>1, SMTT(30)
      <3> QED BY <1>2, <3>1, <3>2
    <2> QED BY <2>1, <2>2
  <1>8. Trail(w, S, s, rest, Q)
    BY <1>2, <1>3, <1>5, <1>6, <1>7 DEF Trail
  <1> QED BY <1>1, <1>6, <1>8 DEF TrailThis

\* Children are older, so that no stack is too high.
Deep(w, st, p) ==
  /\ st \in Seq(Entry)
  /\ \A j \in 1 .. Len(st) : j \in 1 .. MaxErrors + 1 - st[j].of /\ st[j].at \in 1 .. Len(w.children[st[j].of]) + 1
  /\ p # NoError => p \in Errors /\ Len(st) + 1 \in 1 .. MaxErrors + 1 - p

\* What a frame that waits for its children to be pushed leads to.
Waits(w, S, p, d) == IF p = NoError THEN <<>> ELSE Opens(w, S, p, d)
Leads(w, S, y, p, st, rest) ==
  \E R : Trail(w, S, st, rest, R) /\ y \o (Waits(w, S, p, Len(st) + 1) \o R[Len(st)]) = RootsLeft(w, S)[1]

LEMMA NothingFirst == ASSUME NEW T, NEW s \in Seq(T) PROVE <<>> \o s = s /\ s \o <<>> = s
  OBVIOUS

LEMMA WaitsTyped ==
  ASSUME NEW w, Whole(w), NEW S, NEW st, NEW p, Deep(w, st, p)
  PROVE  Waits(w, S, p, Len(st) + 1) \in Seq(Item)
  <1>1. PICK k : k = Len(st) + 1
    OBVIOUS
  <1>2. CASE p = NoError
    <2>1. <<>> \in Seq(Item)
      OBVIOUS
    <2> QED BY <1>2, <2>1 DEF Waits
  <1>3. CASE p # NoError
    <2>1. p \in Errors /\ k \in 1 .. MaxErrors + 1 - p
      BY <1>1, <1>3 DEF Deep
    <2>2. Opens(w, S, p, k) \in Seq(Item)
      BY <2>1, LeftSuffixed DEF LeftRead
    <2> QED BY <1>1, <1>3, <2>2 DEF Waits
  <1> QED BY <1>2, <1>3

\* The frame that waited is pushed.
LEMMA LeadsOpens ==
  ASSUME NEW w, Whole(w), NEW S, NEW y \in Seq(Item), NEW st, NEW p, NEW rest, Deep(w, st, p),
         p # NoError, w.children[p] # <<>>, p \notin S, Leads(w, S, y, p, st, rest)
  PROVE  Leads(w, S, y, NoError, Append(st, [of |-> p, at |-> 1]), rest)
  <1>1. PICK R : Trail(w, S, st, rest, R) /\ y \o (Waits(w, S, p, Len(st) + 1) \o R[Len(st)]) = RootsLeft(w, S)[1]
    BY DEF Leads
  <1>2. PICK n, k : n = Len(st) /\ k = n + 1 /\ n \in Nat
    <2>1. Len(st) \in Nat
      BY DEF Deep
    <2> QED BY <2>1
  <1>3. st \in Seq(Entry) /\ p \in Errors /\ k \in 1 .. MaxErrors + 1 - p
    BY <1>2 DEF Deep
  <1>4. PICK x : x \in Entry /\ x = [of |-> p, at |-> 1] /\ x.of = p /\ x.at = 1
    <2>1. PICK x : x = [of |-> p, at |-> 1]
      OBVIOUS
    <2>2. x \in Entry /\ x.of = p /\ x.at = 1
      BY <1>3, <2>1 DEF Entry
    <2> QED BY <2>1, <2>2
  <1>5. PICK s : s = Append(st, x)
    OBVIOUS
  <1>6. s \in Seq(Entry) /\ Len(s) = k /\ s[k] = x /\ \A j \in 1 .. n : s[j] = st[j]
    BY <1>2, <1>3, <1>4, <1>5, Appended
  <1>7. PICK o \in Seq(Item) : o = Opens(w, S, p, k)
    BY <1>3, LeftSuffixed DEF LeftRead
  <1>8. o = Left(w, S, p, k)[1]
    BY <1>7 DEF Opens
  <1>9. TrailNext(w, S, st, rest, R, s, k, o)
    BY <1>1, <1>2, <1>4, <1>6, <1>7, <1>8 DEF TrailNext
  <1>10. PICK Q : TrailThis(w, S, st, rest, R, s, k, o, Q)
    BY <1>9, TrailGrows
  <1>11. Trail(w, S, s, rest, Q) /\ Q[k] = o \o R[n]
    BY <1>2, <1>10 DEF TrailThis
  <1>12. <<>> \o Q[k] = Q[k]
    <2>0. k \in 0 .. k
      BY <1>2
    <2>1. Q[k] \in Seq(Item)
      BY <1>6, <1>11, <2>0 DEF Trail
    <2> QED BY <2>1, NothingFirst
  <1>13. y \o (Waits(w, S, NoError, Len(s) + 1) \o Q[Len(s)]) = RootsLeft(w, S)[1]
    BY <1>1, <1>2, <1>6, <1>7, <1>11, <1>12 DEF Waits
  <1>14. Leads(w, S, y, NoError, s, rest)
    BY <1>11, <1>13 DEF Leads
  <1> QED BY <1>4, <1>5, <1>14

\* Levels at their end that have lost no children are passed.
Passed(w, st, m) == \A j \in 1 .. Len(st) : m < j => AtEndOf(w, st[j]) /\ w.lost[st[j].of] = 0
LEMMA LeadsPops ==
  ASSUME NEW w, Whole(w), NEW S, NEW y, NEW st, NEW rest, Deep(w, st, NoError),
         NEW s \in Seq(Entry), Begins(s, st), Passed(w, st, Len(s)), Leads(w, S, y, NoError, st, rest)
  PROVE  Leads(w, S, y, NoError, s, rest)
  <1>1. PICK R : Trail(w, S, st, rest, R) /\ y \o (Waits(w, S, NoError, Len(st) + 1) \o R[Len(st)]) = RootsLeft(w, S)[1]
    BY DEF Leads
  <1>2. PICK m, n : m = Len(s) /\ n = Len(st)
    OBVIOUS
  <1>3. m \in Nat /\ n \in Nat /\ m <= n /\ st \in Seq(Entry)
    BY <1>2 DEF Deep, Begins
  <1>4. ASSUME NEW j \in 1 .. n, m < j PROVE R[j] = R[j - 1]
    <2>1. PICK e, i : e = st[j].of /\ i = st[j].at
      OBVIOUS
    <2>0. st[j] \in Entry
      BY <1>2, <1>3
    <2>2. e \in Errors /\ i \in Nat
      BY <2>0, <2>1 DEF Entry
    <2>3. Len(w.children[e]) \in Nat
      BY <2>2 DEF Whole
    <2>4. j \in 1 .. MaxErrors + 1 - e /\ i \in 1 .. Len(w.children[e]) + 1
      BY <1>2, <2>1 DEF Deep
    <2>5. i > Len(w.children[e]) /\ w.lost[e] = 0
      BY <1>2, <1>4, <2>1 DEF Passed, AtEndOf
    <2>6. i = Len(w.children[e]) + 1
      BY <2>3, <2>4, <2>5
    <2>7. Left(w, S, e, j)[i] = LostMarker(w.lost[e], j)
      BY <2>2, <2>4, <2>6, LeftIs
    <2>8. Left(w, S, e, j)[i] = <<>>
      BY <2>5, <2>7 DEF LostMarker
    <2>9. R[j] = <<>> \o R[j - 1]
      BY <1>1, <1>2, <2>1, <2>8 DEF Trail
    <2>10. R[j - 1] \in Seq(Item)
      <3>1. j - 1 \in 0 .. n
        BY <1>3
      <3> QED BY <1>1, <1>2, <3>1 DEF Trail
    <2> QED BY <2>9, <2>10, NothingFirst
  <1> DEFINE T == {k \in Nat : m <= n - k => R[n - k] = R[n]}
  <1>5. 0 \in T
    BY <1>3
  <1>6. ASSUME NEW k \in Nat, k \in T PROVE k + 1 \in T
    <2> SUFFICES ASSUME m <= n - (k + 1) PROVE R[n - (k + 1)] = R[n]
      OBVIOUS
    <2>1. PICK i, j : i = n - (k + 1) /\ j = n - k
      OBVIOUS
    <2>2. j \in 1 .. n /\ m < j /\ j - 1 = i /\ m <= n - k
      BY <1>3, <2>1
    <2>3. R[j] = R[n]
      BY <1>6, <2>1, <2>2
    <2>4. R[j] = R[i]
      BY <1>4, <2>2
    <2> QED BY <2>1, <2>3, <2>4
  <1> HIDE DEF T
  <1>7. Nat \subseteq T
    BY <1>5, <1>6, Counting
  <1>8. n - m \in Nat /\ n - (n - m) = m /\ m <= n - (n - m)
    BY <1>3
  <1>9. R[m] = R[n]
    BY <1>7, <1>8 DEF T
  <1>10. PICK Q : Trail(w, S, s, rest, Q) /\ Q[m] = R[m]
    BY <1>1, <1>2, <1>3, TrailCut
  <1>11. y \o (Waits(w, S, NoError, Len(s) + 1) \o Q[Len(s)]) = RootsLeft(w, S)[1]
    BY <1>1, <1>2, <1>9, <1>10 DEF Waits
  <1> QED BY <1>10, <1>11 DEF Leads

\* Regroupings of what came with what comes.
RegroupedAs(T, y, f, o, l, r) ==
  /\ y \o (<<>> \o ((f \o (o \o l)) \o r)) = (y \o f) \o (o \o (l \o r))
  /\ y \o (<<>> \o (f \o r)) = (y \o f) \o (<<>> \o r)
  /\ y \o (<<>> \o <<>>) = y
  /\ y \o f \in Seq(T)
LEMMA Regrouped ==
  ASSUME NEW T, NEW y \in Seq(T), NEW f \in Seq(T), NEW o \in Seq(T), NEW l \in Seq(T), NEW r \in Seq(T)
  PROVE  RegroupedAs(T, y, f, o, l, r)
  <1>0. \A a, b \in Seq(T) : a \o b \in Seq(T)
    BY Concatenated
  <1>0b. \A a \in Seq(T) : <<>> \o a = a
    BY NothingFirst
  <1>1. PICK ol, fr, lr : ol = o \o l /\ fr = f \o r /\ lr = l \o r
    OBVIOUS
  <1>2. ol \in Seq(T) /\ fr \in Seq(T) /\ lr \in Seq(T)
    BY <1>0, <1>1
  <1>3. (f \o ol) \o r = f \o (ol \o r) /\ ol \o r = o \o lr
    <2>1. Regroups(f, ol, r) /\ Regroups(o, l, r)
      BY <1>2, Associated
    <2> QED BY <1>1, <2>1 DEF Regroups
  <1>4. PICK olr \in Seq(T) : olr = o \o lr
    BY <1>0, <1>2
  <1>5. (f \o ol) \o r = f \o olr /\ f \o olr \in Seq(T)
    BY <1>0, <1>3, <1>4
  <1>6. y \o (f \o olr) = (y \o f) \o olr /\ y \o fr = (y \o f) \o r
    <2>1. Regroups(y, f, olr) /\ Regroups(y, f, r)
      BY <1>4, Associated
    <2> QED BY <1>1, <2>1 DEF Regroups
  <1>7. <<>> \o (f \o olr) = f \o olr /\ <<>> \o fr = fr /\ <<>> \o r = r
    BY <1>0b, <1>2, <1>5
  <1>8. y \o (<<>> \o <<>>) = y
    BY NothingFirst
  <1> QED BY <1>0, <1>1, <1>4, <1>5, <1>6, <1>7, <1>8 DEF RegroupedAs

Awaited(w, c) == IF w.children[c] = <<>> THEN NoError ELSE c
LEMMA AwaitedOpens ==
  ASSUME NEW w, NEW S, NEW c \in Errors, NEW d
  PROVE  Waits(w, S, Awaited(w, c), d) = Opens(w, S, c, d)
  BY DEF Waits, Awaited, Opens, Errors, NoError

\* A level with one more entry than rest's, or another entry on top.
TopLeft(w, S, y, st, rest, n, t, i, l, r) ==
  /\ n \in Nat \ {0} /\ n = Len(st) /\ t \in Errors /\ i \in 1 .. Len(w.children[t]) + 1
  /\ t = st[n].of /\ i = st[n].at /\ n \in 1 .. MaxErrors + 1 - t
  /\ l \in Seq(Item) /\ l = Left(w, S, t, n)[i]
  /\ r \in Seq(Item)
  /\ y \o (<<>> \o (l \o r)) = RootsLeft(w, S)[1]
  /\ \E R : Trail(w, S, Front(st), rest, R) /\ R[Len(Front(st))] = r
  /\ Front(st) \in Seq(Entry) /\ Len(Front(st)) = n - 1 /\ \A j \in 1 .. n - 1 : Front(st)[j] = st[j]

LEMMA TopLeads ==
  ASSUME NEW w, Whole(w), NEW S, NEW y, NEW st, NEW rest, Deep(w, st, NoError), st # <<>>,
         Leads(w, S, y, NoError, st, rest)
  PROVE  \E n, t, i, l, r : TopLeft(w, S, y, st, rest, n, t, i, l, r)
  <1>1. PICK R : Trail(w, S, st, rest, R) /\ y \o (Waits(w, S, NoError, Len(st) + 1) \o R[Len(st)]) = RootsLeft(w, S)[1]
    BY DEF Leads
  <1>2. st \in Seq(Entry)
    BY DEF Deep
  <1>3. PICK n, m : n = Len(st) /\ n \in Nat \ {0} /\ m = n - 1 /\ m \in Nat
    <2>1. Len(st) \in Nat \ {0}
      BY <1>2
    <2> QED BY <2>1
  <1>4. PICK t, i : t = st[n].of /\ i = st[n].at
    OBVIOUS
  <1>5. n \in 1 .. n /\ st[n] \in Entry /\ t \in Errors
    <2>1. n \in 1 .. n /\ st[n] \in Entry
      BY <1>2, <1>3
    <2> QED BY <1>4, <2>1 DEF Entry
  <1>6. n \in 1 .. MaxErrors + 1 - t /\ i \in 1 .. Len(w.children[t]) + 1
    BY <1>3, <1>4, <1>5 DEF Deep
  <1>7. PICK l \in Seq(Item) : l = Left(w, S, t, n)[i]
    BY <1>5, <1>6, LeftIs
  <1>8. PICK r \in Seq(Item) : r = R[m]
    <2>1. m \in 0 .. n
      BY <1>3
    <2> QED BY <1>1, <1>3, <2>1 DEF Trail
  <1>9. R[n] = l \o r
    BY <1>1, <1>3, <1>4, <1>5, <1>7, <1>8 DEF Trail
  <1>10. PICK s : s = Front(st)
    OBVIOUS
  <1>11. s \in Seq(Entry) /\ Len(s) = m /\ \A j \in 1 .. m : s[j] = st[j]
    BY <1>2, <1>3, <1>10, Fronted
  <1>12. Begins(s, st)
    BY <1>3, <1>11 DEF Begins
  <1>13. PICK Q : Trail(w, S, s, rest, Q) /\ Q[Len(s)] = R[Len(s)]
    BY <1>1, <1>2, <1>11, <1>12, TrailCut
  <1>14. y \o (<<>> \o (l \o r)) = RootsLeft(w, S)[1]
    BY <1>1, <1>3, <1>9, SMTT(30) DEF Waits
  <1>15. TopLeft(w, S, y, st, rest, n, t, i, l, r)
    BY <1>3, <1>4, <1>5, <1>6, <1>7, <1>8, <1>10, <1>11, <1>13, <1>14 DEF TopLeft
  <1> QED BY <1>15

LEMMA LeadsChild ==
  ASSUME NEW w, Whole(w), NEW S, NEW y \in Seq(Item), NEW st, NEW rest, Deep(w, st, NoError),
         NEW c, NEW s, Topmost(w, st, c, s), Leads(w, S, y, NoError, st, rest)
  PROVE  Leads(w, S, y \o <<Frame(c, Len(st))>>, Awaited(w, c), s, rest)
  <1>1. PICK n, t, i : TopRead(w, st, c, s, n, t, i)
    BY TopIs DEF Deep
  <1>2. st # <<>>
    BY DEF Topmost
  <1>3. PICK n1, t1, i1, l, r : TopLeft(w, S, y, st, rest, n1, t1, i1, l, r)
    BY <1>2, TopLeads
  <1>4. n1 = n /\ t1 = t /\ i1 = i
    BY <1>1, <1>3, SMTT(30) DEF TopLeft, TopRead
  <1>5. PICK R : Trail(w, S, Front(st), rest, R) /\ R[Len(Front(st))] = r
    BY <1>3, SMTT(30) DEF TopLeft
  <1>6. PICK q : q = Front(st)
    OBVIOUS
  <1>7. /\ n \in Nat \ {0} /\ n = Len(st) /\ Len(s) = n /\ t \in Errors /\ n \in 1 .. MaxErrors + 1 - t
        /\ i \in 1 .. Len(w.children[t]) /\ c = w.children[t][i] /\ c \in Errors
        /\ l = Left(w, S, t, n)[i] /\ l \in Seq(Item) /\ r \in Seq(Item)
        /\ y \o (<<>> \o (l \o r)) = RootsLeft(w, S)[1]
        /\ s[n].of = t /\ s[n].at = i + 1
        /\ q \in Seq(Entry) /\ Len(q) = n - 1
        /\ (\A j \in 1 .. n - 1 : q[j] = st[j]) /\ \A j \in 1 .. n : j # n => s[j] = st[j]
    <2>1. TopLeft(w, S, y, st, rest, n, t, i, l, r)
      BY <1>3, <1>4
    <2> QED BY <1>1, <1>6, <2>1 DEF TopLeft, TopRead
  <1>8. AtChild(w, S, t, n, i, Left(w, S, t, n), c)
    BY <1>7, LeftIs
  <1>9. PICK f, o, k : f = <<Frame(c, n)>> /\ o = Opens(w, S, c, n + 1) /\ k = i + 1
    OBVIOUS
  <1>10. PICK z : z = Left(w, S, t, n)[k]
    BY SMTT(30)
  <1>11. f \in Seq(Item) /\ o \in Seq(Item) /\ z \in Seq(Item) /\ l = f \o (o \o z)
    BY <1>7, <1>8, <1>9, <1>10 DEF AtChild
  <1>12. \A j \in 1 .. n - 1 : s[j] = q[j]
    <2>1. \A j \in 1 .. n - 1 : j \in 1 .. n /\ j # n
      BY <1>7, SMTT(30)
    <2> QED BY <1>7, <2>1
  <1>13. TrailNext(w, S, q, rest, R, s, n, z)
    <2>1. Len(q) \in Nat /\ n = Len(q) + 1
      BY <1>7
    <2> QED BY <1>5, <1>6, <1>7, <1>9, <1>10, <1>11, <1>12, <2>1 DEF TrailNext
  <1>14. PICK Q : TrailThis(w, S, q, rest, R, s, n, z, Q)
    BY <1>13, TrailGrows
  <1>15. Trail(w, S, s, rest, Q) /\ Q[n] = z \o r
    BY <1>5, <1>6, <1>14 DEF TrailThis
  <1>16. y \o (<<>> \o (l \o r)) = (y \o f) \o (o \o (z \o r))
    <2>1. RegroupedAs(Item, y, f, o, z, r)
      BY <1>7, <1>11, Regrouped
    <2> QED BY <1>11, <2>1 DEF RegroupedAs
  <1>17. Waits(w, S, Awaited(w, c), n + 1) = o
    BY <1>7, <1>9, AwaitedOpens, SMTT(30)
  <1>18. Waits(w, S, Awaited(w, c), Len(s) + 1) = o /\ Q[Len(s)] = z \o r /\ f = <<Frame(c, Len(st))>>
    BY <1>1, <1>9, <1>15, <1>17 DEF TopRead
  <1>19. (y \o f) \o (o \o (z \o r)) = RootsLeft(w, S)[1]
    BY <1>7, <1>16
  <1> QED BY <1>15, <1>18, <1>19 DEF Leads

LEMMA LeadsLost ==
  ASSUME NEW w, Whole(w), NEW S, NEW y \in Seq(Item), NEW st, NEW rest, Deep(w, st, NoError), st # <<>>,
         AtEndOf(w, st[Len(st)]), w.lost[st[Len(st)].of] > 0, Leads(w, S, y, NoError, st, rest)
  PROVE  /\ <<LostFrames(w.lost[st[Len(st)].of], Len(st))>> \in Seq(Item)
         /\ Leads(w, S, y \o <<LostFrames(w.lost[st[Len(st)].of], Len(st))>>, NoError, Front(st), rest)
  <1>1. PICK n, t, i, l, r : TopLeft(w, S, y, st, rest, n, t, i, l, r)
    BY TopLeads
  <1>2. PICK q, g : q = Front(st) /\ g = w.lost[t]
    OBVIOUS
  <1>3. /\ n \in Nat \ {0} /\ n = Len(st) /\ t \in Errors /\ i \in 1 .. Len(w.children[t]) + 1
        /\ n \in 1 .. MaxErrors + 1 - t /\ t = st[n].of /\ i = st[n].at
        /\ l = Left(w, S, t, n)[i] /\ l \in Seq(Item) /\ r \in Seq(Item)
        /\ y \o (<<>> \o (l \o r)) = RootsLeft(w, S)[1]
        /\ \E R : Trail(w, S, q, rest, R) /\ R[Len(q)] = r
    BY <1>1, <1>2 DEF TopLeft
  <1>4. Len(w.children[t]) \in Nat /\ g \in 0 .. MaxLost /\ g > 0
    BY <1>2, <1>3 DEF Whole
  <1>5. i = Len(w.children[t]) + 1
    BY <1>3, <1>4 DEF AtEndOf
  <1>6. l = LostMarker(g, n)
    <2>0. t \in Errors /\ n \in 1 .. MaxErrors + 1 - t
      BY <1>3
    <2>1. Left(w, S, t, n)[Len(w.children[t]) + 1] = LostMarker(w.lost[t], n)
      BY <2>0, LeftIs
    <2> QED BY <1>2, <1>3, <1>5, <2>1
  <1>7. l = <<LostFrames(g, n)>>
    BY <1>4, <1>6 DEF LostMarker
  <1>8. RegroupedAs(Item, y, l, l, l, r)
    BY <1>3, Regrouped
  <1>9. (y \o l) \o (<<>> \o r) = RootsLeft(w, S)[1]
    BY <1>3, <1>8 DEF RegroupedAs
  <1>10. Leads(w, S, y \o l, NoError, q, rest)
    BY <1>3, <1>9 DEF Leads, Waits
  <1> QED BY <1>2, <1>3, <1>7, <1>10

\* With an empty stack, only the rest of the roots is to come.
LEMMA OnlyRest ==
  ASSUME NEW w, NEW S, NEW y, NEW rest
  PROVE  /\ Leads(w, S, y, NoError, <<>>, rest) => rest \in Seq(Item) /\ y \o (<<>> \o rest) = RootsLeft(w, S)[1]
         /\ \A p, x : rest \in Seq(Item) /\ x = Waits(w, S, p, 1) /\ y \o (x \o rest) = RootsLeft(w, S)[1]
                         => Leads(w, S, y, p, <<>>, rest)
  <1>1. PICK s : s = <<>> /\ Len(s) = 0
    OBVIOUS
  <1>2. ASSUME Leads(w, S, y, NoError, s, rest)
        PROVE  rest \in Seq(Item) /\ y \o (<<>> \o rest) = RootsLeft(w, S)[1]
    <2>1. PICK R : Trail(w, S, s, rest, R) /\ y \o (Waits(w, S, NoError, Len(s) + 1) \o R[Len(s)]) = RootsLeft(w, S)[1]
      BY <1>2 DEF Leads
    <2>2. R \in [0 .. 0 -> Seq(Item)] /\ R[0] = rest
      BY <1>1, <2>1 DEF Trail
    <2>3. 0 \in 0 .. 0
      OBVIOUS
    <2>4. R[0] \in Seq(Item)
      BY <2>2, <2>3
    <2> QED BY <1>1, <2>1, <2>2, <2>4 DEF Waits
  <1>3. ASSUME NEW p, NEW x, rest \in Seq(Item), x = Waits(w, S, p, 1), y \o (x \o rest) = RootsLeft(w, S)[1]
        PROVE  Leads(w, S, y, p, s, rest)
    <2> DEFINE R == [j \in 0 .. 0 |-> rest]
    <2>1. R \in [0 .. 0 -> Seq(Item)] /\ R[0] = rest
      BY <1>3
    <2> HIDE DEF R
    <2>2. Trail(w, S, s, rest, R)
      BY <1>1, <2>1 DEF Trail
    <2>3. Len(s) + 1 = 1
      BY <1>1
    <2> QED BY <1>1, <1>3, <2>1, <2>2, <2>3 DEF Leads
  <1> QED BY <1>1, <1>2, <1>3

LEMMA LeadsRoot ==
  ASSUME NEW w, Whole(w), NEW S, NEW y \in Seq(Item), NEW at \in 1 .. Len(w.roots), NEW c, c = w.roots[at],
         Leads(w, S, y, NoError, <<>>, RootsLeft(w, S)[at])
  PROVE  Leads(w, S, y \o <<Frame(c, 0)>>, Awaited(w, c), <<>>, RootsLeft(w, S)[at + 1])
  <1>1. PICK h : h = RootsLeft(w, S)
    OBVIOUS
  <1>2. AtChild(w, S, NoError, 0, at, h, c) /\ c \in Errors
    <2>1. AtChild(w, S, NoError, 0, at, RootsLeft(w, S), w.roots[at])
      BY RootsLeftIs
    <2>2. w.roots[at] \in Errors
      BY DEF Whole
    <2> QED BY <1>1, <2>1, <2>2
  <1>3. PICK f, o, z : f = <<Frame(c, 0)>> /\ o = Opens(w, S, c, 1) /\ z = h[at + 1]
    OBVIOUS
  <1>4. 0 + 1 = 1
    OBVIOUS
  <1>5. f \in Seq(Item) /\ o \in Seq(Item) /\ z \in Seq(Item) /\ h[at] = f \o (o \o z)
    BY <1>2, <1>3, <1>4 DEF AtChild
  <1>6. y \o (<<>> \o h[at]) = h[1]
    BY <1>1, OnlyRest
  <1>7. RegroupedAs(Item, y, f, o, z, <<>>)
    <2>1. <<>> \in Seq(Item)
      OBVIOUS
    <2> QED BY <1>5, <2>1, Regrouped
  <1>8. PICK oz \in Seq(Item) : oz = o \o z
    BY <1>5, Concatenated
  <1>9. PICK foz \in Seq(Item) : foz = f \o oz
    BY <1>5, <1>8, Concatenated
  <1>10. foz \o <<>> = foz /\ z \o <<>> = z
    BY <1>5, NothingFirst
  <1>11. y \o (<<>> \o foz) = (y \o f) \o (o \o z)
    BY <1>7, <1>8, <1>9, <1>10 DEF RegroupedAs
  <1>12. (y \o f) \o (o \o z) = h[1]
    BY <1>5, <1>6, <1>8, <1>9, <1>11
  <1>13. Waits(w, S, Awaited(w, c), 1) = o
    BY <1>2, <1>3, AwaitedOpens
  <1>14. Leads(w, S, y \o f, Awaited(w, c), <<>>, z)
    BY <1>1, <1>5, <1>12, <1>13, OnlyRest
  <1> QED BY <1>1, <1>3, <1>14

LEMMA LeadsLostRoots ==
  ASSUME NEW w, Whole(w), NEW S, NEW y \in Seq(Item), w.lost_roots > 0,
         Leads(w, S, y, NoError, <<>>, RootsLeft(w, S)[Len(w.roots) + 1])
  PROVE  /\ <<LostFrames(w.lost_roots, 0)>> \in Seq(Item)
         /\ Leads(w, S, y \o <<LostFrames(w.lost_roots, 0)>>, NoError, <<>>, <<>>)
  <1>1. PICK h, m, l : h = RootsLeft(w, S) /\ m = RootsLeft(w, S)[Len(w.roots) + 1] /\ l = <<LostFrames(w.lost_roots, 0)>>
    OBVIOUS
  <1>2. m = LostMarker(w.lost_roots, 0)
    BY <1>1, RootsLeftIs
  <1>3. m = l /\ m \in Seq(Item)
    <2>1. w.lost_roots \in 0 .. MaxLost
      BY DEF Whole
    <2> QED BY <1>1, <1>2, <2>1, ItemsAre DEF LostMarker
  <1>4. y \o (<<>> \o m) = h[1]
    BY <1>1, OnlyRest
  <1>5. <<>> \in Seq(Item)
    OBVIOUS
  <1>6. RegroupedAs(Item, y, m, m, m, <<>>)
    BY <1>3, <1>5, Regrouped
  <1>7. m \o <<>> = m
    BY <1>3, NothingFirst
  <1>8. (y \o m) \o (<<>> \o <<>>) = h[1]
    BY <1>4, <1>6, <1>7 DEF RegroupedAs
  <1>9. Waits(w, S, NoError, 1) = <<>>
    BY DEF Waits
  <1>10. Leads(w, S, y \o m, NoError, <<>>, <<>>)
    BY <1>1, <1>5, <1>8, <1>9, OnlyRest
  <1> QED BY <1>1, <1>3, <1>10

LEMMA LeadsEnds ==
  ASSUME NEW w, NEW S, NEW y \in Seq(Item), Leads(w, S, y, NoError, <<>>, <<>>)
  PROVE  y = RootsLeft(w, S)[1]
  <1>1. y \o (<<>> \o <<>>) = RootsLeft(w, S)[1]
    BY OnlyRest
  <1> QED BY <1>1, NothingFirst

\* An error that waits for its children to be pushed is told to discard them.
LEMMA LeadsSkips ==
  ASSUME NEW w, NEW S, NEW y, NEW st, NEW p \in S, NEW rest, Leads(w, S, y, p, st, rest)
  PROVE  Leads(w, S, y, NoError, st, rest)
  <1>1. \A d : Waits(w, S, p, d) = Waits(w, S, NoError, d)
    BY DEF Waits, Opens
  <1> QED BY <1>1 DEF Leads

LEMMA LeadsPrefix ==
  ASSUME NEW w, Whole(w), NEW S, NEW y \in Seq(Item), NEW st, NEW p, NEW rest, Deep(w, st, p),
         Leads(w, S, y, p, st, rest)
  PROVE  IsPrefix(y, RootsLeft(w, S)[1])
  <1>1. PICK R : Trail(w, S, st, rest, R) /\ y \o (Waits(w, S, p, Len(st) + 1) \o R[Len(st)]) = RootsLeft(w, S)[1]
    BY DEF Leads
  <1>2. PICK n \in Nat : n = Len(st)
    BY DEF Deep
  <1>3. PICK x, r : x = Waits(w, S, p, Len(st) + 1) /\ r = R[n]
    OBVIOUS
  <1>4. x \in Seq(Item)
    BY <1>3, WaitsTyped
  <1>5. r \in Seq(Item)
    <2>1. n \in 0 .. n
      OBVIOUS
    <2> QED BY <1>1, <1>2, <1>3, <2>1 DEF Trail
  <1>6. PICK z \in Seq(Item) : z = x \o r
    BY <1>4, <1>5, Concatenated
  <1>7. PICK t : t = y \o z
    OBVIOUS
  <1>8. t \in Seq(Item) /\ Len(t) = Len(y) + Len(z) /\ (\A i \in 1 .. Len(y) : t[i] = y[i]) /\ Len(y) \in Nat /\ Len(z) \in Nat
    BY <1>7, Concatenated
  <1>9. Begins(y, t)
    BY <1>8 DEF Begins
  <1>10. IsPrefix(y, t)
    BY <1>8, <1>9, PrefixByIndex
  <1> QED BY <1>1, <1>2, <1>3, <1>6, <1>7, <1>10

(***************************************************************************)
(* The iterators.  Whatever set of frames the walk will have been told to     *)
(* discard, among those not opened yet, it is on its way to that tree.      *)
(***************************************************************************)
LEMMA FramesOf ==
  /\ Frames(<<>>) = {}
  /\ \A a, b \in Seq(Item) : Frames(a \o b) = Frames(a) \union Frames(b)
  /\ \A c \in Errors, d \in Nat : Frames(<<Frame(c, d)>>) = {c}
  /\ \A n \in Nat, d \in Nat : Frames(<<LostFrames(n, d)>>) = {}
  /\ \A a \in Seq(Item) : Frames(a) \subseteq Errors
  <1>1. Frames(<<>>) = {}
    BY DEF Frames
  <1>2. ASSUME NEW a \in Seq(Item), NEW b \in Seq(Item) PROVE Frames(a \o b) = Frames(a) \union Frames(b)
    <2>1. PICK s, m, n : s = a \o b /\ m = Len(a) /\ n = Len(b)
      OBVIOUS
    <2>2. /\ DOMAIN a = 1 .. m /\ DOMAIN b = 1 .. n /\ DOMAIN s = 1 .. m + n /\ m \in Nat /\ n \in Nat
          /\ (\A i \in 1 .. m : s[i] = a[i]) /\ \A i \in 1 .. n : s[m + i] = b[i]
      BY <2>1, Concatenated
    <2>3. ASSUME NEW i \in 1 .. m + n PROVE s[i].frame \in {a[j].frame : j \in 1 .. m} \union {b[j].frame : j \in 1 .. n}
      <3>1. CASE i \in 1 .. m
        BY <2>2, <3>1
      <3>2. CASE i \notin 1 .. m
        <4>1. i - m \in 1 .. n /\ m + (i - m) = i
          BY <2>2, <3>2
        <4>2. s[i] = b[i - m]
          BY <2>2, <4>1
        <4> QED BY <4>1, <4>2
      <3> QED BY <3>1, <3>2
    <2>4. ASSUME NEW i \in 1 .. m PROVE i \in 1 .. m + n /\ s[i] = a[i]
      BY <2>2
    <2>5. ASSUME NEW i \in 1 .. n PROVE \E j \in 1 .. m + n : s[j] = b[i]
      <3>1. m + i \in 1 .. m + n
        BY <2>2
      <3> QED BY <2>2, <3>1
    <2>6. {s[i].frame : i \in 1 .. m + n} = {a[j].frame : j \in 1 .. m} \union {b[j].frame : j \in 1 .. n}
      <3>1. {s[i].frame : i \in 1 .. m + n} \subseteq {a[j].frame : j \in 1 .. m} \union {b[j].frame : j \in 1 .. n}
        BY <2>3
      <3>2. {a[j].frame : j \in 1 .. m} \subseteq {s[i].frame : i \in 1 .. m + n}
        BY <2>4
      <3>3. {b[j].frame : j \in 1 .. n} \subseteq {s[i].frame : i \in 1 .. m + n}
        <4> SUFFICES ASSUME NEW j \in 1 .. n PROVE b[j].frame \in {s[i].frame : i \in 1 .. m + n}
          OBVIOUS
        <4>1. PICK k \in 1 .. m + n : s[k] = b[j]
          BY <2>5
        <4> QED BY <4>1
      <3> QED BY <3>1, <3>2, <3>3
    <2>7. Frames(s) = Frames(a) \union Frames(b)
      BY <2>2, <2>6 DEF Frames
    <2> QED BY <2>1, <2>7
  <1>3. ASSUME NEW x PROVE Frames(<<x>>) = {x.frame} \ {NoError}
    BY DEF Frames
  <1>4. ASSUME NEW c \in Errors, NEW d \in Nat PROVE Frames(<<Frame(c, d)>>) = {c}
    <2>1. c # NoError
      BY DEF Errors, NoError
    <2> QED BY <1>3, <2>1 DEF Frame
  <1>5. ASSUME NEW n \in Nat, NEW d \in Nat PROVE Frames(<<LostFrames(n, d)>>) = {}
    BY <1>3 DEF LostFrames
  <1>6. ASSUME NEW a \in Seq(Item) PROVE Frames(a) \subseteq Errors
    <2>1. \A i \in DOMAIN a : a[i] \in Item
      OBVIOUS
    <2>2. \A i \in DOMAIN a : a[i].frame \in Errors \union {NoError}
      BY <2>1 DEF Item
    <2> QED BY <2>2 DEF Frames
  <1> QED BY <1>1, <1>2, <1>4, <1>5, <1>6

LEMMA FramesAdd ==
  ASSUME NEW y \in Seq(Item), NEW c \in Errors, NEW d \in Nat
  PROVE  y \o <<Frame(c, d)>> \in Seq(Item) /\ Frames(y \o <<Frame(c, d)>>) = Frames(y) \union {c}
  <1>1. PICK f \in Seq(Item) : f = <<Frame(c, d)>>
    BY ItemsAre
  <1>2. Frames(y \o f) = Frames(y) \union Frames(f) /\ Frames(f) = {c}
    BY <1>1, FramesOf
  <1>3. y \o f \in Seq(Item)
    BY Concatenated
  <1> QED BY <1>1, <1>2, <1>3

RestOf(w, S, at, emitted) == IF emitted THEN <<>> ELSE RootsLeft(w, S)[at]
Held(w, O, sk, Y, p) ==
  /\ sk \subseteq Y /\ O \intersect sk = {}
  /\ p # NoError => p \in Y /\ p \notin O /\ p \notin sk /\ w.children[p] # <<>>
Leading(w, O, sk, y, p, st, at, emitted) ==
  \A S \in SUBSET Errors : sk \subseteq S /\ S \intersect O = {} => Leads(w, S, y, p, st, RestOf(w, S, at, emitted))
IterAt(w, O, sk, y, p, st, at, emitted) ==
  /\ y \in Seq(Item) /\ emitted \in BOOLEAN
  /\ Placed(w, O, Frames(y), st, at) /\ Held(w, O, sk, Frames(y), p) /\ Deep(w, st, p)
  /\ emitted => at = Len(w.roots) + 1 /\ st = <<>> /\ p = NoError
  /\ Leading(w, O, sk, y, p, st, at, emitted)

LEMMA IterStarts ==
  ASSUME NEW w, Whole(w)
  PROVE  IterAt(w, {}, {}, <<>>, NoError, <<>>, 1, FALSE)
  <1>1. PICK y : y = <<>> /\ y \in Seq(Item) /\ y \in Seq(Entry) /\ Len(y) = 0 /\ Frames(y) = {}
    <2>1. PICK y : y = <<>>
      OBVIOUS
    <2>2. y \in Seq(Item) /\ y \in Seq(Entry) /\ Len(y) = 0
      BY <2>1
    <2> QED BY <2>1, <2>2, FramesOf
  <1>2. Len(w.roots) \in Nat
    BY DEF Whole
  <1>3. 1 \in 1 .. Len(w.roots) + 1
    BY <1>2
  <1>4. \A j \in 1 .. Len(y) : FALSE
    BY <1>1
  <1>5. Placed(w, {}, {}, y, 1)
    BY <1>1, <1>3, <1>4 DEF Placed
  <1>6. Deep(w, y, NoError) /\ Held(w, {}, {}, {}, NoError)
    BY <1>1, <1>4 DEF Deep, Held
  <1>7. ASSUME NEW S PROVE Leads(w, S, y, NoError, y, RootsLeft(w, S)[1])
    <2>1. RootsLeft(w, S)[1] \in Seq(Item)
      BY <1>3, RootsLeftIs
    <2>2. PICK r \in Seq(Item) : r = RootsLeft(w, S)[1]
      BY <2>1
    <2>3. y \o (<<>> \o r) = r
      BY <1>1, NothingFirst
    <2>4. Waits(w, S, NoError, 1) = <<>>
      BY DEF Waits
    <2>5. Leads(w, S, y, NoError, <<>>, r)
      BY <2>2, <2>3, <2>4, OnlyRest
    <2> QED BY <1>1, <2>2, <2>5
  <1>8. Leading(w, {}, {}, y, NoError, y, 1, FALSE)
    BY <1>7 DEF Leading, RestOf
  <1>9. IterAt(w, {}, {}, y, NoError, y, 1, FALSE)
    BY <1>1, <1>5, <1>6, <1>8 DEF IterAt
  <1> QED BY <1>1, <1>9

LEMMA IterOpens ==
  ASSUME NEW w, Whole(w), NEW O, NEW sk, NEW y, NEW p, NEW st, NEW at, NEW em,
         IterAt(w, O, sk, y, p, st, at, em), p # NoError
  PROVE  IterAt(w, O \union {p}, sk, y, NoError, Append(st, [of |-> p, at |-> 1]), at, em)
  <1>1. PICK s, P : s = Append(st, [of |-> p, at |-> 1]) /\ P = O \union {p}
    OBVIOUS
  <1>2. /\ y \in Seq(Item) /\ em = FALSE /\ Placed(w, O, Frames(y), st, at) /\ Held(w, O, sk, Frames(y), p)
        /\ Deep(w, st, p) /\ Leading(w, O, sk, y, p, st, at, em)
    BY DEF IterAt
  <1>3. p \in Frames(y) /\ p \notin O /\ p \notin sk /\ w.children[p] # <<>> /\ O \intersect sk = {} /\ sk \subseteq Frames(y)
    BY <1>2 DEF Held
  <1>4. Placed(w, P, Frames(y), s, at)
    BY <1>1, <1>2, <1>3, PlacedOpens
  <1>5. Held(w, P, sk, Frames(y), NoError)
    BY <1>1, <1>3 DEF Held
  <1>6. Deep(w, s, NoError)
    <2>1. PICK n : n = Len(st) /\ n \in Nat /\ st \in Seq(Entry) /\ p \in Errors /\ n + 1 \in 1 .. MaxErrors + 1 - p
      <3>1. Len(st) \in Nat
        BY <1>2 DEF Deep
      <3> QED BY <1>2, <3>1 DEF Deep
    <2>2. PICK x : x \in Entry /\ x = [of |-> p, at |-> 1] /\ x.of = p /\ x.at = 1
      <3>1. PICK x : x = [of |-> p, at |-> 1]
        OBVIOUS
      <3>2. x \in Entry /\ x.of = p /\ x.at = 1
        BY <2>1, <3>1 DEF Entry
      <3> QED BY <3>1, <3>2
    <2>3. s \in Seq(Entry) /\ Len(s) = n + 1 /\ s[n + 1] = x /\ \A j \in 1 .. n : s[j] = st[j]
      BY <1>1, <2>1, <2>2, Appended
    <2>4. \A j \in 1 .. n + 1 : s[j].at \in 1 .. Len(w.children[s[j].of]) + 1
      BY <1>4, <2>3 DEF Placed
    <2>5. \A j \in 1 .. n + 1 : j \in 1 .. MaxErrors + 1 - s[j].of
      <3> SUFFICES ASSUME NEW j \in 1 .. n + 1 PROVE j \in 1 .. MaxErrors + 1 - s[j].of
        OBVIOUS
      <3>1. CASE j = n + 1
        BY <2>1, <2>2, <2>3, <3>1
      <3>2. CASE j # n + 1
        <4>1. j \in 1 .. n
          BY <2>1, <3>2
        <4> QED BY <1>2, <2>1, <2>3, <4>1 DEF Deep
      <3> QED BY <3>1, <3>2
    <2> QED BY <2>3, <2>4, <2>5 DEF Deep
  <1>7. Leading(w, P, sk, y, NoError, s, at, em)
    <2> SUFFICES ASSUME NEW S \in SUBSET Errors, sk \subseteq S, S \intersect P = {}
                 PROVE  Leads(w, S, y, NoError, s, RestOf(w, S, at, em))
      BY DEF Leading
    <2>1. p \notin S /\ S \intersect O = {}
      BY <1>1
    <2>2. Leads(w, S, y, p, st, RestOf(w, S, at, em))
      BY <1>2, <2>1 DEF Leading
    <2> QED BY <1>1, <1>2, <1>3, <2>1, <2>2, LeadsOpens
  <1>8. IterAt(w, P, sk, y, NoError, s, at, em)
    BY <1>2, <1>4, <1>5, <1>6, <1>7 DEF IterAt
  <1> QED BY <1>1, <1>8

LEMMA IterPops ==
  ASSUME NEW w, Whole(w), NEW O, NEW sk, NEW y, NEW st, NEW at, NEW em,
         IterAt(w, O, sk, y, NoError, st, at, em),
         NEW s \in Seq(Entry), Begins(s, st), Passed(w, st, Len(s))
  PROVE  IterAt(w, O, sk, y, NoError, s, at, em)
  <1>1. /\ y \in Seq(Item) /\ em \in BOOLEAN /\ Placed(w, O, Frames(y), st, at) /\ Held(w, O, sk, Frames(y), NoError)
        /\ Deep(w, st, NoError) /\ Leading(w, O, sk, y, NoError, st, at, em)
        /\ em => at = Len(w.roots) + 1 /\ st = <<>>
    BY DEF IterAt
  <1>2. Placed(w, O, Frames(y), s, at)
    BY <1>1, PlacedPops
  <1>3. \A j \in 1 .. Len(s) : j \in 1 .. Len(st) /\ s[j] = st[j]
    <2>1. Len(s) \in Nat /\ Len(st) \in Nat
      BY <1>1 DEF Deep
    <2> QED BY <2>1 DEF Begins
  <1>4. Deep(w, s, NoError)
    BY <1>1, <1>3 DEF Deep
  <1>5. em => s = <<>>
    <2>1. em => Len(s) = 0
      <3>1. Len(s) \in Nat /\ (em => Len(s) <= 0)
        BY <1>1 DEF Begins
      <3> QED BY <3>1
    <2> QED BY <2>1
  <1>6. Leading(w, O, sk, y, NoError, s, at, em)
    <2> SUFFICES ASSUME NEW S \in SUBSET Errors, sk \subseteq S, S \intersect O = {}
                 PROVE  Leads(w, S, y, NoError, s, RestOf(w, S, at, em))
      BY DEF Leading
    <2>1. Leads(w, S, y, NoError, st, RestOf(w, S, at, em))
      BY <1>1 DEF Leading
    <2> QED BY <1>1, <2>1, LeadsPops
  <1> QED BY <1>1, <1>2, <1>4, <1>5, <1>6 DEF IterAt

LEMMA IterChild ==
  ASSUME NEW w, Whole(w), ForestOf(w), NEW O, NEW sk, NEW y, NEW st, NEW at, NEW em,
         IterAt(w, O, sk, y, NoError, st, at, em), NEW c, NEW s, Topmost(w, st, c, s)
  PROVE  c \in Errors /\ IterAt(w, O, sk, y \o <<Frame(c, Len(st))>>, Awaited(w, c), s, at, em)
  <1>1. /\ y \in Seq(Item) /\ em \in BOOLEAN /\ Placed(w, O, Frames(y), st, at) /\ Held(w, O, sk, Frames(y), NoError)
        /\ Deep(w, st, NoError) /\ Leading(w, O, sk, y, NoError, st, at, em) /\ st # <<>> /\ ~em
    BY DEF IterAt, Topmost
  <1>2. PICK n, t, i : TopRead(w, st, c, s, n, t, i)
    BY <1>1, TopIs DEF Deep
  <1>3. /\ n \in Nat \ {0} /\ n = Len(st) /\ t = st[n].of /\ i = st[n].at
        /\ t \in Errors /\ i \in 1 .. Len(w.children[t]) /\ c \in Errors /\ c < t
        /\ s \in Seq(Entry) /\ Len(s) = n /\ s[n].of = t /\ s[n].at = i + 1
        /\ \A j \in 1 .. n : j # n => s[j] = st[j]
    BY <1>2 DEF TopRead
  <1>4. PICK z, Y, a : z = y \o <<Frame(c, n)>> /\ Y = Frames(y) /\ a = Awaited(w, c)
    OBVIOUS
  <1>5. z \in Seq(Item) /\ Frames(z) = Y \union {c}
    BY <1>1, <1>3, <1>4, FramesAdd
  <1>6. c \notin Y /\ Placed(w, O, Y \union {c}, s, at)
    BY <1>1, <1>4, PlacedChild
  <1>7. O \subseteq Y /\ sk \subseteq Y /\ O \intersect sk = {}
    BY <1>1, <1>4 DEF Held, Placed
  <1>8. Held(w, O, sk, Y \union {c}, a)
    BY <1>4, <1>6, <1>7 DEF Held, Awaited
  <1>9. Deep(w, s, a)
    <2>1. n \in 1 .. MaxErrors + 1 - t /\ n \in 1 .. n
      BY <1>1, <1>3 DEF Deep
    <2>2. n + 1 \in 1 .. MaxErrors + 1 - c
      <3>1. c \in Nat /\ t \in Nat /\ c < t /\ n \in Nat /\ MaxErrors \in Nat
        BY <1>3, ErrorsAssumption DEF Errors
      <3> QED BY <2>1, <3>1
    <2>3. \A j \in 1 .. n : s[j].at \in 1 .. Len(w.children[s[j].of]) + 1
      BY <1>3, <1>6 DEF Placed
    <2>4. \A j \in 1 .. n : j \in 1 .. MaxErrors + 1 - s[j].of
      <3> SUFFICES ASSUME NEW j \in 1 .. n PROVE j \in 1 .. MaxErrors + 1 - s[j].of
        OBVIOUS
      <3>1. CASE j = n
        BY <1>3, <2>1, <3>1
      <3>2. CASE j # n
        BY <1>1, <1>3, <3>2 DEF Deep
      <3> QED BY <3>1, <3>2
    <2>5. a = NoError \/ a = c
      BY <1>4 DEF Awaited
    <2> QED BY <1>3, <2>2, <2>3, <2>4, <2>5 DEF Deep
  <1>10. Leading(w, O, sk, z, a, s, at, em)
    <2> SUFFICES ASSUME NEW S \in SUBSET Errors, sk \subseteq S, S \intersect O = {}
                 PROVE  Leads(w, S, z, a, s, RestOf(w, S, at, em))
      BY DEF Leading
    <2>1. Leads(w, S, y, NoError, st, RestOf(w, S, at, em))
      BY <1>1 DEF Leading
    <2> QED BY <1>1, <1>3, <1>4, <2>1, LeadsChild
  <1>11. IterAt(w, O, sk, z, a, s, at, em)
    BY <1>1, <1>5, <1>6, <1>8, <1>9, <1>10 DEF IterAt
  <1> QED BY <1>3, <1>4, <1>11

LEMMA IterLost ==
  ASSUME NEW w, Whole(w), NEW O, NEW sk, NEW y, NEW st, NEW at, NEW em,
         IterAt(w, O, sk, y, NoError, st, at, em), st # <<>>,
         AtEndOf(w, st[Len(st)]), w.lost[st[Len(st)].of] > 0
  PROVE  IterAt(w, O, sk, y \o <<LostFrames(w.lost[st[Len(st)].of], Len(st))>>, NoError, Front(st), at, em)
  <1>1. /\ y \in Seq(Item) /\ em \in BOOLEAN /\ Placed(w, O, Frames(y), st, at) /\ Held(w, O, sk, Frames(y), NoError)
        /\ Deep(w, st, NoError) /\ Leading(w, O, sk, y, NoError, st, at, em) /\ ~em
    BY DEF IterAt
  <1>2. PICK n, s : n = Len(st) /\ s = Front(st)
    OBVIOUS
  <1>3. n \in Nat \ {0} /\ s \in Seq(Entry) /\ Len(s) = n - 1 /\ (\A j \in 1 .. n - 1 : s[j] = st[j]) /\ st[n] \in Entry
    <2>1. st \in Seq(Entry)
      BY <1>1 DEF Deep
    <2> QED BY <1>2, <2>1, Fronted
  <1>4. PICK l, z, g : l = <<LostFrames(g, n)>> /\ g = w.lost[st[n].of] /\ z = y \o l
    OBVIOUS
  <1>5. g \in Nat
    <2>1. st[n].of \in Errors
      BY <1>3 DEF Entry
    <2>2. g \in 0 .. MaxLost
      BY <1>4, <2>1 DEF Whole
    <2> QED BY <2>2
  <1>6. \A S : Leads(w, S, y, NoError, st, RestOf(w, S, at, em)) =>
                 l \in Seq(Item) /\ Leads(w, S, z, NoError, s, RestOf(w, S, at, em))
    BY <1>1, <1>2, <1>4, LeadsLost
  <1>7. Leading(w, O, sk, z, NoError, s, at, em)
    BY <1>1, <1>6 DEF Leading
  <1>8. l \in Seq(Item)
    <2>1. sk \subseteq Errors /\ sk \intersect O = {}
      BY <1>1 DEF Held, Placed
    <2>2. Leads(w, sk, y, NoError, st, RestOf(w, sk, at, em))
      BY <1>1, <2>1 DEF Leading
    <2> QED BY <1>6, <2>2
  <1>9. z \in Seq(Item) /\ Frames(z) = Frames(y)
    <2>1. Frames(l) = {}
      BY <1>3, <1>4, <1>5, FramesOf
    <2>2. y \o l \in Seq(Item)
      BY <1>1, <1>8, Concatenated
    <2>3. Frames(y \o l) = Frames(y) \union Frames(l)
      BY <1>1, <1>8, FramesOf
    <2> QED BY <1>4, <2>1, <2>2, <2>3
  <1>10. Placed(w, O, Frames(y), s, at)
    <2>1. Begins(s, st)
      BY <1>2, <1>3 DEF Begins
    <2> QED BY <1>1, <1>3, <2>1, PlacedPops
  <1>11. Deep(w, s, NoError)
    <2>1. \A j \in 1 .. n - 1 : j \in 1 .. n
      BY <1>3
    <2> QED BY <1>1, <1>2, <1>3, <2>1 DEF Deep
  <1>12. IterAt(w, O, sk, z, NoError, s, at, em)
    BY <1>1, <1>7, <1>9, <1>10, <1>11 DEF IterAt
  <1> QED BY <1>2, <1>4, <1>12

LEMMA IterRoot ==
  ASSUME NEW w, Whole(w), ForestOf(w), NEW O, NEW sk, NEW y, NEW at, NEW em,
         IterAt(w, O, sk, y, NoError, <<>>, at, em), at <= Len(w.roots), NEW c, c = w.roots[at]
  PROVE  c \in Errors /\ IterAt(w, O, sk, y \o <<Frame(c, 0)>>, Awaited(w, c), <<>>, at + 1, em)
  <1>1. PICK st : st = <<>> /\ Len(st) = 0
    OBVIOUS
  <1>2. /\ y \in Seq(Item) /\ em \in BOOLEAN /\ Placed(w, O, Frames(y), st, at) /\ Held(w, O, sk, Frames(y), NoError)
        /\ Deep(w, st, NoError) /\ Leading(w, O, sk, y, NoError, st, at, em)
    BY <1>1 DEF IterAt
  <1>3. em = FALSE /\ at \in 1 .. Len(w.roots)
    <2>1. at \in 1 .. Len(w.roots) + 1 /\ Len(w.roots) \in Nat /\ (em => at = Len(w.roots) + 1)
      BY <1>2 DEF Placed, IterAt, Whole
    <2> QED BY <1>2, <2>1
  <1>4. PICK z, Y, a, k : z = y \o <<Frame(c, 0)>> /\ Y = Frames(y) /\ a = Awaited(w, c) /\ k = at + 1
    OBVIOUS
  <1>5. c \in Errors /\ c \notin Y /\ Placed(w, O, Y \union {c}, st, k)
    BY <1>2, <1>4, PlacedRoot
  <1>6. z \in Seq(Item) /\ Frames(z) = Y \union {c}
    BY <1>2, <1>4, <1>5, FramesAdd
  <1>7. O \subseteq Y /\ sk \subseteq Y /\ O \intersect sk = {}
    BY <1>2, <1>4 DEF Held, Placed
  <1>8. Held(w, O, sk, Y \union {c}, a)
    BY <1>4, <1>5, <1>7 DEF Held, Awaited
  <1>9. Deep(w, st, a)
    <2>1. a = NoError \/ a = c
      BY <1>4 DEF Awaited
    <2>2. 1 \in 1 .. MaxErrors + 1 - c
      BY <1>5, ErrorsAssumption DEF Errors
    <2>3. Len(st) + 1 = 1
      BY <1>1
    <2> QED BY <1>2, <1>5, <2>1, <2>2, <2>3 DEF Deep
  <1>10. Leading(w, O, sk, z, a, st, k, em)
    <2> SUFFICES ASSUME NEW S \in SUBSET Errors, sk \subseteq S, S \intersect O = {}
                 PROVE  Leads(w, S, z, a, st, RootsLeft(w, S)[k])
      BY <1>3 DEF Leading, RestOf
    <2>1. Leads(w, S, y, NoError, st, RootsLeft(w, S)[at])
      BY <1>2, <1>3 DEF Leading, RestOf
    <2>2. Leads(w, S, y \o <<Frame(c, 0)>>, Awaited(w, c), <<>>, RootsLeft(w, S)[at + 1])
      BY <1>1, <1>2, <1>3, <2>1, LeadsRoot
    <2> QED BY <1>1, <1>4, <2>2
  <1>11. IterAt(w, O, sk, z, a, st, k, em)
    BY <1>2, <1>3, <1>5, <1>6, <1>8, <1>9, <1>10 DEF IterAt
  <1> QED BY <1>1, <1>4, <1>5, <1>11

LEMMA IterLostRoots ==
  ASSUME NEW w, Whole(w), NEW O, NEW sk, NEW y, NEW at, NEW em,
         IterAt(w, O, sk, y, NoError, <<>>, at, em), at > Len(w.roots), ~em, w.lost_roots > 0
  PROVE  IterAt(w, O, sk, y \o <<LostFrames(w.lost_roots, 0)>>, NoError, <<>>, at, TRUE)
  <1>1. PICK st : st = <<>> /\ Len(st) = 0
    OBVIOUS
  <1>2. /\ y \in Seq(Item) /\ Placed(w, O, Frames(y), st, at) /\ Held(w, O, sk, Frames(y), NoError)
        /\ Deep(w, st, NoError) /\ Leading(w, O, sk, y, NoError, st, at, em) /\ em = FALSE
    BY <1>1 DEF IterAt
  <1>3. at = Len(w.roots) + 1
    <2>1. at \in 1 .. Len(w.roots) + 1 /\ Len(w.roots) \in Nat
      BY <1>2 DEF Placed, Whole
    <2> QED BY <2>1
  <1>4. PICK l, z : l = <<LostFrames(w.lost_roots, 0)>> /\ z = y \o l
    OBVIOUS
  <1>5. ASSUME NEW S \in SUBSET Errors, sk \subseteq S, S \intersect O = {}
        PROVE  l \in Seq(Item) /\ Leads(w, S, z, NoError, <<>>, <<>>)
    <2>1. Leads(w, S, y, NoError, <<>>, RootsLeft(w, S)[Len(w.roots) + 1])
      BY <1>1, <1>2, <1>3, <1>5 DEF Leading, RestOf
    <2> QED BY <1>2, <1>4, <2>1, LeadsLostRoots
  <1>6. Leading(w, O, sk, z, NoError, st, at, TRUE)
    BY <1>1, <1>5 DEF Leading, RestOf
  <1>7. l \in Seq(Item)
    <2>1. sk \subseteq Errors /\ sk \intersect O = {}
      BY <1>2 DEF Held, Placed
    <2> QED BY <1>5, <2>1
  <1>8. z \in Seq(Item) /\ Frames(z) = Frames(y)
    <2>1. w.lost_roots \in Nat
      <3>1. w.lost_roots \in 0 .. MaxLost
        BY DEF Whole
      <3> QED BY <3>1
    <2>2. Frames(l) = {}
      BY <1>4, <2>1, FramesOf
    <2>3. y \o l \in Seq(Item)
      BY <1>2, <1>7, Concatenated
    <2>4. Frames(y \o l) = Frames(y) \union Frames(l)
      BY <1>2, <1>7, FramesOf
    <2> QED BY <1>4, <2>2, <2>3, <2>4
  <1>9. IterAt(w, O, sk, z, NoError, st, at, TRUE)
    BY <1>1, <1>2, <1>3, <1>6, <1>8 DEF IterAt
  <1> QED BY <1>1, <1>4, <1>9

LEMMA IterEnds ==
  ASSUME NEW w, Whole(w), NEW O, NEW sk, NEW y, NEW at, NEW em,
         IterAt(w, O, sk, y, NoError, <<>>, at, em), at > Len(w.roots), em \/ w.lost_roots = 0
  PROVE  y = RootsLeft(w, sk)[1]
  <1>1. /\ y \in Seq(Item) /\ Leading(w, O, sk, y, NoError, <<>>, at, em)
        /\ sk \subseteq Errors /\ sk \intersect O = {} /\ at \in 1 .. Len(w.roots) + 1 /\ Len(w.roots) \in Nat
    BY DEF IterAt, Held, Placed, Whole
  <1>2. at = Len(w.roots) + 1
    BY <1>1
  <1>3. RestOf(w, sk, at, em) = <<>>
    <2>1. RootsLeft(w, sk)[Len(w.roots) + 1] = LostMarker(w.lost_roots, 0)
      BY RootsLeftIs
    <2> QED BY <1>2, <2>1 DEF RestOf, LostMarker
  <1>4. Leads(w, sk, y, NoError, <<>>, <<>>)
    BY <1>1, <1>3 DEF Leading
  <1> QED BY <1>1, <1>4, LeadsEnds

LEMMA IterSkips ==
  ASSUME NEW w, NEW O, NEW sk, NEW y, NEW p, NEW st, NEW at, NEW em,
         IterAt(w, O, sk, y, p, st, at, em), p # NoError
  PROVE  IterAt(w, O, sk \union {p}, y, NoError, st, at, em)
  <1>1. /\ y \in Seq(Item) /\ em = FALSE /\ Placed(w, O, Frames(y), st, at) /\ Held(w, O, sk, Frames(y), p)
        /\ Deep(w, st, p) /\ Leading(w, O, sk, y, p, st, at, em)
    BY DEF IterAt
  <1>2. Held(w, O, sk \union {p}, Frames(y), NoError) /\ Deep(w, st, NoError)
    BY <1>1 DEF Held, Deep
  <1>3. Leading(w, O, sk \union {p}, y, NoError, st, at, em)
    <2> SUFFICES ASSUME NEW S \in SUBSET Errors, sk \union {p} \subseteq S, S \intersect O = {}
                 PROVE  Leads(w, S, y, NoError, st, RestOf(w, S, at, em))
      BY DEF Leading
    <2>1. p \in S /\ sk \subseteq S
      OBVIOUS
    <2>2. Leads(w, S, y, p, st, RestOf(w, S, at, em))
      BY <1>1, <2>1 DEF Leading
    <2> QED BY <2>1, <2>2, LeadsSkips
  <1> QED BY <1>1, <1>2, <1>3 DEF IterAt

LEMMA IterPrefix ==
  ASSUME NEW w, Whole(w), NEW O, NEW sk, NEW y, NEW p, NEW st, NEW at, NEW em,
         IterAt(w, O, sk, y, p, st, at, em)
  PROVE  IsPrefix(y, RootsLeft(w, sk)[1])
  <1>1. sk \subseteq Errors /\ sk \intersect O = {} /\ y \in Seq(Item) /\ Deep(w, st, p)
        /\ Leading(w, O, sk, y, p, st, at, em)
    BY DEF IterAt, Held, Placed
  <1>2. Leads(w, sk, y, p, st, RestOf(w, sk, at, em))
    BY <1>1 DEF Leading
  <1> QED BY <1>1, <1>2, LeadsPrefix

(***************************************************************************)
(* frames_mut.  The frames of the tree are the roots and all below them.    *)
(***************************************************************************)
LEMMA FramesFlat ==
  ASSUME NEW q \in Seq(Seq(Item)), NEW x
  PROVE  x \in Frames(FlattenSeq(q)) <=> \E i \in 1 .. Len(q) : x \in Frames(q[i])
  <1>1. PICK n \in Nat : n = Len(q) /\ \A i \in 1 .. n : q[i] \in Seq(Item)
    <2>1. Len(q) \in Nat /\ \A i \in 1 .. Len(q) : q[i] \in Seq(Item)
      OBVIOUS
    <2> QED BY <2>1
  <1>2. PICK g : /\ \A i \in 1 .. n : g[i] \in Seq(Item) /\ g[i] = FlatStep(q, g, i)
                 /\ n # 0 => FlattenSeq(q) = g[n]
                 /\ n = 0 => FlattenSeq(q) = <<>>
    BY <1>1, FlattenIs, SMTT(30)
  <1> DEFINE Upto(k) == x \in Frames(g[k]) <=> \E i \in 1 .. k : x \in Frames(q[i])
             T == {k \in Nat : k + 1 <= n => Upto(k + 1)}
  <1>3. 0 \in T
    <2> SUFFICES ASSUME 1 <= n PROVE Upto(1)
      OBVIOUS
    <2>1. g[1] = q[1]
      BY <1>1, <1>2 DEF FlatStep
    <2> QED BY <2>1
  <1>4. ASSUME NEW k \in Nat, k \in T PROVE k + 1 \in T
    <2> SUFFICES ASSUME k + 1 + 1 <= n PROVE Upto(k + 1 + 1)
      OBVIOUS
    <2>1. PICK j, l : j = k + 1 /\ l = j + 1
      OBVIOUS
    <2>2. j \in 1 .. n /\ l \in 1 .. n /\ l - 1 = j /\ l # 1 /\ (\A i \in 1 .. l : i = l \/ i \in 1 .. j) /\ (\A i \in 1 .. j : i \in 1 .. l) /\ l \in 1 .. l
      BY <1>1, <2>1
    <2>3. g[l] = g[j] \o q[l] /\ g[j] \in Seq(Item) /\ q[l] \in Seq(Item)
      BY <1>1, <1>2, <2>2 DEF FlatStep
    <2>4. Frames(g[l]) = Frames(g[j]) \union Frames(q[l])
      BY <2>3, FramesOf
    <2>5. Upto(j)
      <3> HIDE DEF Upto
      <3> QED BY <1>4, <2>1, <2>2
    <2>6. Upto(l)
      BY <2>2, <2>4, <2>5
    <2> QED BY <2>1, <2>6
  <1> HIDE DEF T
  <1>5. Nat \subseteq T
    BY <1>3, <1>4, Counting
  <1>6. CASE n = 0
    <2>1. FlattenSeq(q) = <<>> /\ \A i \in 1 .. Len(q) : FALSE
      BY <1>1, <1>2, <1>6
    <2> QED BY <2>1, FramesOf
  <1>7. CASE n # 0
    <2>1. n - 1 \in Nat /\ (n - 1) + 1 = n
      BY <1>7
    <2>2. Upto(n)
      <3> HIDE DEF Upto
      <3>1. n - 1 \in T
        BY <1>5, <2>1
      <3>2. (n - 1) + 1 <= n => Upto((n - 1) + 1)
        BY <3>1 DEF T
      <3> QED BY <2>1, <3>2
    <2> QED BY <1>1, <1>2, <1>7, <2>2
  <1> QED BY <1>6, <1>7

LEMMA FramesMarker == ASSUME NEW n \in 0 .. MaxLost, NEW d \in Nat PROVE Frames(LostMarker(n, d)) = {}
  <1>1. n \in Nat
    OBVIOUS
  <1> QED BY <1>1, FramesOf DEF LostMarker

InTree(w, e, d) == Frames(Subtree(w, {})[e][d])

LEMMA InTreeIs ==
  ASSUME NEW w, Whole(w), NEW e \in Errors, NEW d \in 0 .. MaxErrors - e, NEW k, k = d + 1, NEW x
  PROVE  x \in InTree(w, e, d) <=> x = e \/ \E i \in 1 .. Len(w.children[e]) : x \in InTree(w, w.children[e][i], k)
  <1>1. k \in 1 .. MaxErrors + 1 - e /\ d \in Nat /\ k \in Nat
    BY ErrorsAssumption DEF Errors
  <1>2. KidsRead(w, {}, e, k)
    BY <1>1, LeftSuffixed
  <1>3. PICK q, m, o, n : q = Kids(w, {}, e, k) /\ m = LostMarker(w.lost[e], k) /\ o = Opening(w, {}, e, k) /\ n = Len(w.children[e])
    OBVIOUS
  <1>4. /\ q \in Seq(Seq(Item)) /\ Len(q) = n
        /\ \A i \in 1 .. n : q[i] = Subtree(w, {})[w.children[e][i]][k]
        /\ m \in Seq(Item) /\ o \in Seq(Item)
        /\ o = IF w.children[e] = <<>> THEN <<>> ELSE FlattenSeq(q) \o m
    BY <1>2, <1>3 DEF KidsRead
  <1>5. PICK f \in Seq(Item) : f = <<Frame(e, d)>> /\ Frames(f) = {e}
    BY <1>1, ItemsAre, FramesOf
  <1>6. Subtree(w, {})[e][d] = f \o o
    BY <1>3, <1>5, SubtreeOpens
  <1>7. InTree(w, e, d) = {e} \union Frames(o)
    <2>1. Frames(f \o o) = Frames(f) \union Frames(o)
      BY <1>4, FramesOf
    <2> QED BY <1>5, <1>6, <2>1 DEF InTree
  <1>8. x \in Frames(o) <=> \E i \in 1 .. n : x \in Frames(q[i])
    <2>1. CASE w.children[e] = <<>>
      <3>1. n = 0 /\ o = <<>>
        BY <1>3, <1>4, <2>1
      <3>2. \A i \in 1 .. n : FALSE
        BY <3>1
      <3> QED BY <3>1, <3>2, FramesOf
    <2>2. CASE w.children[e] # <<>>
      <3>1. PICK z : z = FlattenSeq(q)
        OBVIOUS
      <3>2. z \in Seq(Item)
        <4>1. PICK g : /\ \A i \in 1 .. Len(q) : g[i] \in Seq(Item)
                       /\ Len(q) # 0 => FlattenSeq(q) = g[Len(q)]
                       /\ Len(q) = 0 => FlattenSeq(q) = <<>>
          BY <1>4, FlattenIs
        <4>2. Len(q) \in Nat /\ <<>> \in Seq(Item)
          BY <1>4
        <4>3. CASE Len(q) = 0
          BY <3>1, <4>1, <4>2, <4>3
        <4>4. CASE Len(q) # 0
          <5>1. Len(q) \in 1 .. Len(q)
            BY <4>2, <4>4
          <5> QED BY <3>1, <4>1, <4>4, <5>1
        <4> QED BY <4>3, <4>4
      <3>3. Frames(o) = Frames(z) \union Frames(m)
        <4>1. o = z \o m
          BY <1>4, <2>2, <3>1
        <4> QED BY <1>4, <3>2, <4>1, FramesOf
      <3>4. Frames(m) = {}
        <4>1. w.lost[e] \in 0 .. MaxLost
          BY DEF Whole
        <4> QED BY <1>1, <1>3, <4>1, FramesMarker
      <3>5. x \in Frames(z) <=> \E i \in 1 .. n : x \in Frames(q[i])
        BY <1>4, <3>1, FramesFlat
      <3> QED BY <3>3, <3>4, <3>5
    <2> QED BY <2>1, <2>2
  <1>9. \A i \in 1 .. n : InTree(w, w.children[e][i], k) = Frames(q[i])
    BY <1>4 DEF InTree
  <1> QED BY <1>3, <1>7, <1>8, <1>9

LEMMA InRoots ==
  ASSUME NEW w, Whole(w), NEW x
  PROVE  x \in Frames(RootsLeft(w, {})[1]) <=> \E k \in 1 .. Len(w.roots) : x \in InTree(w, w.roots[k], 0)
  <1>1. PICK q, m, n : q = RootTrees(w, {}) /\ m = LostMarker(w.lost_roots, 0) /\ n = Len(w.roots) /\ n \in Nat /\ DOMAIN w.roots = 1 .. n
    <2>1. Len(w.roots) \in Nat /\ DOMAIN w.roots = 1 .. Len(w.roots)
      BY DEF Whole
    <2> QED BY <2>1
  <1>2. RootsLeft(w, {})[1] = FlattenSeq(q) \o m
    BY <1>1, RootsLeftIs
  <1>3. \A k \in 1 .. n : Subtree(w, {})[w.roots[k]][0] \in Seq(Item)
    <2>1. \A k \in 1 .. n : w.roots[k] \in Errors
      BY <1>1 DEF Whole
    <2>2. \A c \in Errors : 0 \in 0 .. MaxErrors - c
      BY ErrorsAssumption DEF Errors
    <2> QED BY <2>1, <2>2, SubtreeTyped
  <1>4. q = [k \in 1 .. n |-> Subtree(w, {})[w.roots[k]][0]]
    BY <1>1 DEF RootTrees
  <1>5. q \in Seq(Seq(Item)) /\ Len(q) = n /\ \A k \in 1 .. n : q[k] = Subtree(w, {})[w.roots[k]][0]
    BY <1>1, <1>3, <1>4
  <1>6. PICK z : z = FlattenSeq(q)
    OBVIOUS
  <1>7. z \in Seq(Item)
    <2>1. PICK g : /\ \A i \in 1 .. n : g[i] \in Seq(Item)
                   /\ n # 0 => FlattenSeq(q) = g[n]
                   /\ n = 0 => FlattenSeq(q) = <<>>
      BY <1>5, FlattenIs
    <2>2. <<>> \in Seq(Item) /\ (n # 0 => n \in 1 .. n)
      BY <1>1
    <2> QED BY <1>6, <2>1, <2>2
  <1>8. Frames(m) = {} /\ m \in Seq(Item)
    <2>1. w.lost_roots \in 0 .. MaxLost
      BY DEF Whole
    <2> QED BY <1>1, <2>1, FramesMarker, ItemsAre
  <1>9. Frames(z \o m) = Frames(z)
    <2>1. Frames(z \o m) = Frames(z) \union Frames(m)
      BY <1>7, <1>8, FramesOf
    <2> QED BY <1>8, <2>1
  <1>10. x \in Frames(z) <=> \E k \in 1 .. n : x \in Frames(q[k])
    BY <1>5, <1>6, FramesFlat
  <1>11. \A k \in 1 .. n : InTree(w, w.roots[k], 0) = Frames(q[k])
    BY <1>5 DEF InTree
  <1> QED BY <1>1, <1>2, <1>6, <1>9, <1>10, <1>11

\* The frames of the tree are closed under children.
LEMMA BelowInTree ==
  ASSUME NEW w, Whole(w)
  PROVE  \A e \in Errors : \A d \in 0 .. MaxErrors - e : \A x \in Errors :
           x \in InTree(w, e, d) => \A i \in 1 .. Len(w.children[x]) : w.children[x][i] \in InTree(w, e, d)
  <1> DEFINE Shut(e) == \A d \in 0 .. MaxErrors - e : \A x \in Errors :
               x \in InTree(w, e, d) => \A i \in 1 .. Len(w.children[x]) : w.children[x][i] \in InTree(w, e, d)
             T == {n \in Nat : \A e \in Errors : e <= n => Shut(e)}
  <1>1. 0 \in T
    BY DEF Errors
  <1>2. ASSUME NEW e \in Errors, \A c \in Errors : c < e => Shut(c) PROVE Shut(e)
    <2> SUFFICES ASSUME NEW d \in 0 .. MaxErrors - e, NEW x \in Errors, x \in InTree(w, e, d),
                        NEW i \in 1 .. Len(w.children[x])
                 PROVE  w.children[x][i] \in InTree(w, e, d)
      OBVIOUS
    <2>1. PICK k, y : k = d + 1 /\ y = w.children[x][i]
      OBVIOUS
    <2>2. k \in 1 .. MaxErrors + 1 - e
      BY <2>1, ErrorsAssumption DEF Errors
    <2>3. \A z : z \in InTree(w, e, d) <=> z = e \/ \E l \in 1 .. Len(w.children[e]) : z \in InTree(w, w.children[e][l], k)
      BY <2>1, InTreeIs
    <2>4. CASE x = e
      <3>1. y \in Errors /\ k \in 0 .. MaxErrors - y
        BY <2>1, <2>2, <2>4, KidsFit
      <3>2. PICK m : m = k + 1
        OBVIOUS
      <3>3. y \in InTree(w, y, k)
        BY <3>1, <3>2, InTreeIs
      <3> QED BY <2>1, <2>3, <2>4, <3>3
    <2>5. CASE x # e
      <3>1. PICK l \in 1 .. Len(w.children[e]) : x \in InTree(w, w.children[e][l], k)
        BY <2>3, <2>5
      <3>2. PICK c : c = w.children[e][l]
        OBVIOUS
      <3>3. c \in Errors /\ c < e /\ k \in 0 .. MaxErrors - c
        BY <2>2, <3>2, KidsFit
      <3>4. Shut(c)
        BY <1>2, <3>3
      <3>5. y \in InTree(w, c, k)
        BY <2>1, <3>1, <3>2, <3>3, <3>4
      <3> QED BY <2>1, <2>3, <3>2, <3>5
    <2> QED BY <2>4, <2>5
  <1> HIDE DEF Shut
  <1>3. ASSUME NEW n \in Nat, n \in T PROVE n + 1 \in T
    <2> SUFFICES ASSUME NEW e \in Errors, e <= n + 1 PROVE Shut(e)
      OBVIOUS
    <2>1. \A c \in Errors : c < e => c <= n
      BY DEF Errors
    <2> QED BY <1>2, <1>3, <2>1
  <1> HIDE DEF T
  <1>4. Nat \subseteq T
    BY <1>1, <1>3, Counting
  <1>5. \A e \in Errors : Shut(e)
    BY <1>4 DEF T, Errors
  <1> QED BY <1>5 DEF Shut

\* A set with an error and all children of its errors has what is below the error.
LEMMA TreeWithin ==
  ASSUME NEW w, Whole(w), NEW Y, \A e \in Errors : e \in Y => \A i \in 1 .. Len(w.children[e]) : w.children[e][i] \in Y
  PROVE  \A e \in Errors : \A d \in 0 .. MaxErrors - e : e \in Y => InTree(w, e, d) \subseteq Y
  <1> DEFINE Within(e) == \A d \in 0 .. MaxErrors - e : e \in Y => InTree(w, e, d) \subseteq Y
             T == {n \in Nat : \A e \in Errors : e <= n => Within(e)}
  <1>1. 0 \in T
    BY DEF Errors
  <1>2. ASSUME NEW e \in Errors, \A c \in Errors : c < e => Within(c) PROVE Within(e)
    <2> SUFFICES ASSUME NEW d \in 0 .. MaxErrors - e, e \in Y, NEW x \in InTree(w, e, d) PROVE x \in Y
      OBVIOUS
    <2>1. PICK k : k = d + 1
      OBVIOUS
    <2>2. k \in 1 .. MaxErrors + 1 - e
      BY <2>1, ErrorsAssumption DEF Errors
    <2>3. x = e \/ \E l \in 1 .. Len(w.children[e]) : x \in InTree(w, w.children[e][l], k)
      BY <2>1, InTreeIs
    <2>4. ASSUME NEW l \in 1 .. Len(w.children[e]), x \in InTree(w, w.children[e][l], k) PROVE x \in Y
      <3>1. PICK c : c = w.children[e][l]
        OBVIOUS
      <3>2. c \in Errors /\ c < e /\ k \in 0 .. MaxErrors - c
        BY <2>2, <3>1, KidsFit
      <3>3. Within(c) /\ c \in Y
        BY <1>2, <3>1, <3>2
      <3> QED BY <2>4, <3>1, <3>2, <3>3
    <2> QED BY <2>3, <2>4
  <1> HIDE DEF Within
  <1>3. ASSUME NEW n \in Nat, n \in T PROVE n + 1 \in T
    <2> SUFFICES ASSUME NEW e \in Errors, e <= n + 1 PROVE Within(e)
      OBVIOUS
    <2>1. \A c \in Errors : c < e => c <= n
      BY DEF Errors
    <2> QED BY <1>2, <1>3, <2>1
  <1> HIDE DEF T
  <1>4. Nat \subseteq T
    BY <1>1, <1>3, Counting
  <1>5. \A e \in Errors : Within(e)
    BY <1>4 DEF T, Errors
  <1> QED BY <1>5 DEF Within

\* Nothing is open or to come any more: every frame of the tree, and no other,
\* has been visited.
LEMMA AllVisited ==
  ASSUME NEW w, Whole(w), NEW O, NEW Y, NEW st, NEW at, Placed(w, O, Y, st, at),
         \A k \in 1 .. Len(w.roots) : w.roots[k] \in Y,
         \A e \in Y : \A i \in 1 .. Len(w.children[e]) : w.children[e][i] \in Y
  PROVE  Y = Frames(RootsLeft(w, {})[1])
  <1>1. PICK F : F = Frames(RootsLeft(w, {})[1])
    OBVIOUS
  <1>2. /\ \A k \in 1 .. Len(w.roots) : w.roots[k] \in Errors
        /\ \A e \in Errors : 0 \in 0 .. MaxErrors - e
    <2>1. \A k \in 1 .. Len(w.roots) : w.roots[k] \in Errors
      BY DEF Whole
    <2>2. \A e \in Errors : 0 \in 0 .. MaxErrors - e
      BY ErrorsAssumption DEF Errors
    <2> QED BY <2>1, <2>2
  <1>3. \A x : x \in F <=> \E k \in 1 .. Len(w.roots) : x \in InTree(w, w.roots[k], 0)
    BY <1>1, InRoots
  <1>4. \A e \in Errors : \A d \in 0 .. MaxErrors - e : e \in Y => InTree(w, e, d) \subseteq Y
    BY TreeWithin
  <1>5. F \subseteq Y
    BY <1>2, <1>3, <1>4
  <1>6. \A k \in 1 .. Len(w.roots) : w.roots[k] \in F
    <2> SUFFICES ASSUME NEW k \in 1 .. Len(w.roots) PROVE w.roots[k] \in F
      OBVIOUS
    <2>1. PICK r, m : r = w.roots[k] /\ m = 0 + 1 /\ r \in Errors
      BY <1>2
    <2>2. r \in InTree(w, r, 0)
      BY <1>2, <2>1, InTreeIs
    <2> QED BY <1>3, <2>1, <2>2
  <1>7. ASSUME NEW f \in F, f \in Errors, NEW i \in 1 .. Len(w.children[f]) PROVE w.children[f][i] \in F
    <2>1. PICK k \in 1 .. Len(w.roots) : f \in InTree(w, w.roots[k], 0)
      BY <1>3
    <2>2. PICK r \in Errors : r = w.roots[k]
      BY <1>2
    <2>3. w.children[f][i] \in InTree(w, r, 0)
      BY <1>2, <1>7, <2>1, <2>2, BelowInTree
    <2> QED BY <1>3, <2>2, <2>3
  <1>8. Y \subseteq F
    <2> SUFFICES ASSUME Y \ F # {} PROVE FALSE
      OBVIOUS
    <2>1. Y \ F \subseteq Errors
      BY DEF Placed
    <2>2. PICK e \in Y \ F : \A x \in Y \ F : x <= e
      BY <2>1, LargestError
    <2>3. ~RootDone(w, at, e)
      BY <1>6, <2>2 DEF RootDone
    <2>4. PICK f \in O : \E i \in 1 .. Len(w.children[f]) : w.children[f][i] = e
      BY <2>2, <2>3 DEF Placed, ChildDone
    <2>5. PICK i \in 1 .. Len(w.children[f]) : w.children[f][i] = e
      BY <2>4
    <2>6. f \in Y /\ f \in Errors /\ e \in Errors
      BY DEF Placed
    <2>7. e < f
      BY <2>5, <2>6 DEF Whole
    <2>8. f \in F
      BY <2>2, <2>6, <2>7 DEF Errors
    <2> QED BY <1>7, <2>5, <2>6, <2>8
  <1> QED BY <1>1, <1>5, <1>8

\* Each error once, after its parent.
Ordered(w, y) ==
  /\ y \in Seq(Item) /\ \A i \in 1 .. Len(y) : y[i].frame \in Errors
  /\ Cardinality(Frames(y)) = Len(y)
  /\ \A i, j \in 1 .. Len(y) : \A k \in 1 .. Len(w.children[y[j].frame]) :
       w.children[y[j].frame][k] = y[i].frame => j < i

LEMMA OrderedAdds ==
  ASSUME NEW w, Whole(w), NEW y, Ordered(w, y), NEW c \in Errors, c \notin Frames(y),
         \A i \in 1 .. Len(w.children[c]) : w.children[c][i] \notin Frames(y)
  PROVE  Ordered(w, y \o <<Frame(c, 0)>>)
  <1>0. y \in Seq(Item) /\ Cardinality(Frames(y)) = Len(y) /\ \A i \in 1 .. Len(y) : y[i].frame \in Errors
    BY DEF Ordered
  <1>1. PICK x : x \in Item /\ x = Frame(c, 0) /\ x.frame = c
    <2>1. PICK x : x = Frame(c, 0)
      OBVIOUS
    <2>2. x \in Item /\ x.frame = c
      BY <2>1 DEF Frame, Item
    <2> QED BY <2>1, <2>2
  <1>2. PICK z, n : z = y \o <<x>> /\ n = Len(y)
    OBVIOUS
  <1>3. n \in Nat /\ z \in Seq(Item) /\ Len(z) = n + 1 /\ z[n + 1] = x /\ (\A i \in 1 .. n : z[i] = y[i])
        /\ \A i \in 1 .. n + 1 : i = n + 1 \/ i \in 1 .. n
    <2>1. PICK f \in Seq(Item) : f = <<x>> /\ Len(f) = 1 /\ f[1] = x
      <3>1. PICK f : f = <<x>>
        OBVIOUS
      <3>2. f \in Seq(Item) /\ Len(f) = 1 /\ f[1] = x
        BY <1>1, <3>1
      <3> QED BY <3>1, <3>2
    <2>2. 1 \in 1 .. Len(f)
      BY <2>1
    <2> QED BY <1>0, <1>2, <2>1, <2>2, Concatenated
  <1>4. Frames(z) = Frames(y) \union {c}
    <2>1. 0 \in Nat
      OBVIOUS
    <2> QED BY <1>0, <1>1, <1>2, <2>1, FramesAdd
  <1>5. IsFiniteSet(Frames(y))
    <2>1. Frames(y) \subseteq Errors
      BY <1>0, FramesOf
    <2>2. IsFiniteSet(Errors)
      BY FS_Interval, ErrorsAssumption DEF Errors
    <2> QED BY <2>1, <2>2, FS_Subset
  <1>6. Cardinality(Frames(z)) = n + 1
    <2>1. Cardinality(Frames(y) \union {c}) = Cardinality(Frames(y)) + 1
      BY <1>5, FS_AddElement
    <2> QED BY <1>0, <1>2, <1>4, <2>1
  <1>7. \A i \in 1 .. n : y[i].frame \in Frames(y)
    <2> SUFFICES ASSUME NEW i \in 1 .. n PROVE y[i].frame \in Frames(y)
      OBVIOUS
    <2>1. i \in DOMAIN y /\ y[i].frame # NoError
      BY <1>0, <1>2 DEF Errors, NoError
    <2> QED BY <2>1 DEF Frames
  <1>8. ASSUME NEW i \in 1 .. n + 1, NEW j \in 1 .. n + 1, NEW k \in 1 .. Len(w.children[z[j].frame]),
               w.children[z[j].frame][k] = z[i].frame
        PROVE  j < i
    <2>1. CASE i \in 1 .. n /\ j \in 1 .. n
      BY <1>2, <1>3, <1>8, <2>1 DEF Ordered
    <2>2. CASE i \in 1 .. n /\ j = n + 1
      BY <1>1, <1>3, <1>7, <1>8, <2>2
    <2>3. CASE i = n + 1 /\ j \in 1 .. n
      BY <1>3, <2>3
    <2>4. CASE i = n + 1 /\ j = n + 1
      <3>1. w.children[c][k] = c /\ k \in 1 .. Len(w.children[c])
        BY <1>1, <1>3, <1>8, <2>4
      <3>2. w.children[c][k] < c
        BY <3>1 DEF Whole
      <3> QED BY <3>1, <3>2 DEF Errors
    <2> QED BY <1>3, <2>1, <2>2, <2>3, <2>4
  <1>9. \A i \in 1 .. n + 1 : z[i].frame \in Errors
    BY <1>0, <1>1, <1>2, <1>3
  <1>10. Ordered(w, z)
    BY <1>3, <1>6, <1>8, <1>9 DEF Ordered
  <1> QED BY <1>1, <1>2, <1>10

\* What has not come is still to come: the children of the errors in X have not been
\* pushed yet, those of the others on the stack come from where their iterator is.
Comes(w, O, Y, X, st, at) ==
  /\ \A e \in Y : w.children[e] # <<>> => e \in O \/ e \in X
  /\ \A f \in O : \A i \in 1 .. Len(w.children[f]) :
       w.children[f][i] \in Y \/ \E j \in 1 .. Len(st) : st[j].of = f /\ st[j].at <= i
  /\ \A k \in 1 .. Len(w.roots) : k < at => w.roots[k] \in Y
VisitAt(w, O, y, st, at) ==
  Ordered(w, y) /\ Placed(w, O, Frames(y), st, at) /\ Comes(w, O, Frames(y), {}, st, at)

LEMMA ComesSeeds ==
  ASSUME NEW w, Whole(w), NEW O, NEW Y, NEW st, NEW at, NEW c \in Y, c \notin O,
         Placed(w, O, Y, st, at), Comes(w, O, Y, {c}, st, at)
  PROVE  Comes(w, O \union {c}, Y, {}, Append(st, [of |-> c, at |-> 1]), at)
  <1>1. st \in Seq(Entry) /\ c \in Errors
    BY DEF Placed
  <1>2. PICK x : x \in Entry /\ x = [of |-> c, at |-> 1] /\ x.of = c /\ x.at = 1
    <2>1. PICK x : x = [of |-> c, at |-> 1]
      OBVIOUS
    <2>2. x \in Entry /\ x.of = c /\ x.at = 1
      BY <1>1, <2>1 DEF Entry
    <2> QED BY <2>1, <2>2
  <1>3. PICK s, n : s = Append(st, x) /\ n = Len(st)
    OBVIOUS
  <1>4. n \in Nat /\ Len(s) = n + 1 /\ s[n + 1] = x /\ \A j \in 1 .. n : s[j] = st[j]
    BY <1>1, <1>2, <1>3, Appended
  <1>5. n + 1 \in 1 .. n + 1 /\ \A j \in 1 .. n : j \in 1 .. n + 1
    BY <1>4
  <1>6. ASSUME NEW f \in O, NEW i \in 1 .. Len(w.children[f]), w.children[f][i] \notin Y
        PROVE  \E j \in 1 .. n + 1 : s[j].of = f /\ s[j].at <= i
    <2>1. PICK j \in 1 .. n : st[j].of = f /\ st[j].at <= i
      BY <1>3, <1>6 DEF Comes
    <2> QED BY <1>4, <1>5, <2>1
  <1>7. ASSUME NEW i \in 1 .. Len(w.children[c]) PROVE \E j \in 1 .. n + 1 : s[j].of = c /\ s[j].at <= i
    <2>1. 1 <= i
      OBVIOUS
    <2> QED BY <1>2, <1>4, <1>5, <2>1
  <1>8. Comes(w, O \union {c}, Y, {}, s, at)
    BY <1>4, <1>6, <1>7 DEF Comes
  <1> QED BY <1>2, <1>3, <1>8

LEMMA ComesPops ==
  ASSUME NEW w, NEW O, NEW Y, NEW X, NEW st, NEW at, Placed(w, O, Y, st, at), Comes(w, O, Y, X, st, at),
         NEW s \in Seq(Entry), Begins(s, st), \A j \in 1 .. Len(st) : Len(s) < j => AtEndOf(w, st[j])
  PROVE  Comes(w, O, Y, X, s, at)
  <1>1. PICK m, n : m = Len(s) /\ n = Len(st) /\ m \in Nat /\ n \in Nat /\ \A j \in 1 .. m : s[j] = st[j]
    <2>1. Len(s) \in Nat /\ Len(st) \in Nat
      BY DEF Placed
    <2> QED BY <2>1 DEF Begins
  <1>2. ASSUME NEW f \in O, NEW i \in 1 .. Len(w.children[f]), w.children[f][i] \notin Y
        PROVE  \E j \in 1 .. m : s[j].of = f /\ s[j].at <= i
    <2>1. PICK j \in 1 .. n : st[j].of = f /\ st[j].at <= i
      BY <1>1, <1>2 DEF Comes
    <2>2. CASE m < j
      <3>1. st[j].at > Len(w.children[f])
        BY <1>1, <2>1, <2>2 DEF AtEndOf
      <3>2. st[j].at \in 1 .. Len(w.children[f]) + 1
        BY <1>1, <2>1 DEF Placed
      <3> QED BY <2>1, <3>1, <3>2
    <2>3. CASE ~(m < j)
      <3>1. j \in 1 .. m
        BY <1>1, <2>3
      <3> QED BY <1>1, <2>1, <3>1
    <2> QED BY <2>2, <2>3
  <1> QED BY <1>1, <1>2 DEF Comes

LEMMA ComesRoot ==
  ASSUME NEW w, Whole(w), NEW O, NEW Y, NEW st, NEW at \in 1 .. Len(w.roots), Comes(w, O, Y, {}, st, at)
  PROVE  Comes(w, O, Y \union {w.roots[at]}, {w.roots[at]}, st, at + 1)
  <1>1. PICK k, c : k = at + 1 /\ c = w.roots[at]
    OBVIOUS
  <1>2. \A l \in 1 .. Len(w.roots) : l < k => l < at \/ l = at
    BY <1>1
  <1>3. /\ \A e \in Y \union {c} : w.children[e] # <<>> => e \in O \/ e \in {c}
        /\ \A f \in O : \A i \in 1 .. Len(w.children[f]) :
             w.children[f][i] \in Y \union {c} \/ \E j \in 1 .. Len(st) : st[j].of = f /\ st[j].at <= i
    BY SMTT(30) DEF Comes
  <1>4. \A l \in 1 .. Len(w.roots) : l < k => w.roots[l] \in Y \union {c}
    BY <1>1, <1>2 DEF Comes
  <1>5. Comes(w, O, Y \union {c}, {c}, st, k)
    BY <1>3, <1>4 DEF Comes
  <1> QED BY <1>1, <1>5

LEMMA ComesChild ==
  ASSUME NEW w, Whole(w), NEW O, NEW Y, NEW st, NEW at, Placed(w, O, Y, st, at), Comes(w, O, Y, {}, st, at),
         NEW c, NEW s, Topmost(w, st, c, s)
  PROVE  c \in Errors /\ Comes(w, O, Y \union {c}, {c}, s, at)
  <1>1. PICK n, t, i : TopRead(w, st, c, s, n, t, i)
    BY TopIs DEF Placed
  <1>2. /\ n \in Nat \ {0} /\ n = Len(st) /\ t = st[n].of /\ i = st[n].at
        /\ i \in 1 .. Len(w.children[t]) /\ c = w.children[t][i] /\ c \in Errors
        /\ Len(s) = n /\ s[n].of = t /\ s[n].at = i + 1
        /\ \A j \in 1 .. n : j # n => s[j] = st[j]
    BY <1>1 DEF TopRead
  <1>3. ASSUME NEW f \in O, NEW k \in 1 .. Len(w.children[f]), w.children[f][k] \notin Y, w.children[f][k] # c
        PROVE  \E j \in 1 .. n : s[j].of = f /\ s[j].at <= k
    <2>1. PICK j \in 1 .. n : st[j].of = f /\ st[j].at <= k
      BY <1>2, <1>3 DEF Comes
    <2>2. CASE j = n
      <3>1. f = t /\ i <= k /\ k # i
        BY <1>2, <1>3, <2>1, <2>2
      <3>2. i + 1 <= k
        BY <1>2, <3>1
      <3> QED BY <1>2, <2>1, <2>2, <3>1, <3>2
    <2>3. CASE j # n
      BY <1>2, <2>1, <2>3
    <2> QED BY <2>2, <2>3
  <1> QED BY <1>2, <1>3 DEF Comes

SeedsTo(w, O, z, st, at, c) ==
  /\ w.children[c] = <<>> => VisitAt(w, O, z, st, at)
  /\ w.children[c] # <<>> => VisitAt(w, O \union {c}, z, Append(st, [of |-> c, at |-> 1]), at)

LEMMA VisitSeeds ==
  ASSUME NEW w, Whole(w), NEW O, NEW z, NEW st, NEW at, NEW c \in Frames(z), c \notin O, Ordered(w, z),
         Placed(w, O, Frames(z), st, at), Comes(w, O, Frames(z), {c}, st, at)
  PROVE  SeedsTo(w, O, z, st, at, c)
  <1>1. ASSUME w.children[c] = <<>> PROVE VisitAt(w, O, z, st, at)
    <2>1. Comes(w, O, Frames(z), {}, st, at)
      BY <1>1 DEF Comes
    <2> QED BY <2>1 DEF VisitAt
  <1>2. PICK s : s = Append(st, [of |-> c, at |-> 1])
    OBVIOUS
  <1>3. Placed(w, O \union {c}, Frames(z), s, at) /\ Comes(w, O \union {c}, Frames(z), {}, s, at)
    BY <1>2, PlacedOpens, ComesSeeds
  <1>4. VisitAt(w, O \union {c}, z, s, at)
    BY <1>3 DEF VisitAt
  <1> QED BY <1>1, <1>2, <1>4 DEF SeedsTo

LEMMA VisitStarts ==
  ASSUME NEW w, Whole(w)
  PROVE  VisitAt(w, {}, <<>>, <<>>, 1)
  <1>1. PICK y : y = <<>> /\ y \in Seq(Item) /\ Len(y) = 0 /\ Frames(y) = {}
    <2>1. PICK y : y = <<>>
      OBVIOUS
    <2>2. y \in Seq(Item) /\ Len(y) = 0
      BY <2>1
    <2> QED BY <2>1, <2>2, FramesOf
  <1>2. IterAt(w, {}, {}, y, NoError, y, 1, FALSE)
    BY <1>1, IterStarts
  <1>3. Placed(w, {}, {}, y, 1)
    BY <1>1, <1>2 DEF IterAt
  <1>4. \A i \in 1 .. Len(y) : FALSE
    BY <1>1
  <1>5. Ordered(w, y)
    BY <1>1, <1>4, FS_EmptySet DEF Ordered
  <1>6. \A k \in 1 .. Len(w.roots) : ~(k < 1)
    OBVIOUS
  <1>7. Comes(w, {}, {}, {}, y, 1)
    BY <1>6 DEF Comes
  <1> QED BY <1>1, <1>3, <1>5, <1>7 DEF VisitAt

LEMMA VisitsRoot ==
  ASSUME NEW w, Whole(w), ForestOf(w), NEW O, NEW y, NEW st, NEW at, VisitAt(w, O, y, st, at),
         at <= Len(w.roots), NEW c, c = w.roots[at]
  PROVE  c \in Errors /\ Ordered(w, y \o <<Frame(c, 0)>>) /\ SeedsTo(w, O, y \o <<Frame(c, 0)>>, st, at + 1, c)
  <1>1. Ordered(w, y) /\ Placed(w, O, Frames(y), st, at) /\ Comes(w, O, Frames(y), {}, st, at) /\ y \in Seq(Item)
    BY DEF VisitAt, Ordered
  <1>2. PICK z, Y, k : z = y \o <<Frame(c, 0)>> /\ Y = Frames(y) /\ k = at + 1
    OBVIOUS
  <1>3. c \in Errors /\ c \notin Y /\ Placed(w, O, Y \union {c}, st, k)
    BY <1>1, <1>2, PlacedRoot
  <1>4. at \in 1 .. Len(w.roots)
    <2>1. at \in 1 .. Len(w.roots) + 1 /\ Len(w.roots) \in Nat
      BY <1>1 DEF Placed, Whole
    <2> QED BY <2>1
  <1>5. Comes(w, O, Y \union {c}, {c}, st, k)
    BY <1>1, <1>2, <1>4, ComesRoot
  <1>6. Frames(z) = Y \union {c}
    <2>1. 0 \in Nat
      OBVIOUS
    <2> QED BY <1>1, <1>2, <1>3, <2>1, FramesAdd
  <1>7. Ordered(w, z)
    <2>1. \A i \in 1 .. Len(w.children[c]) : w.children[c][i] \notin Y
      BY <1>1, <1>2, <1>3, NewIsAbove
    <2> QED BY <1>1, <1>2, <1>3, <2>1, OrderedAdds
  <1>8. c \notin O /\ c \in Frames(z)
    BY <1>1, <1>2, <1>3, <1>6 DEF Placed
  <1>9. Placed(w, O, Frames(z), st, k) /\ Comes(w, O, Frames(z), {c}, st, k)
    BY <1>3, <1>5, <1>6
  <1>10. SeedsTo(w, O, z, st, k, c)
    BY <1>7, <1>8, <1>9, VisitSeeds
  <1> QED BY <1>2, <1>3, <1>7, <1>10

LEMMA VisitPops ==
  ASSUME NEW w, NEW O, NEW y, NEW st, NEW at, VisitAt(w, O, y, st, at),
         NEW s \in Seq(Entry), Begins(s, st), \A j \in 1 .. Len(st) : Len(s) < j => AtEndOf(w, st[j])
  PROVE  VisitAt(w, O, y, s, at)
  BY PlacedPops, ComesPops DEF VisitAt

LEMMA VisitsChild ==
  ASSUME NEW w, Whole(w), ForestOf(w), NEW O, NEW y, NEW st, NEW at, VisitAt(w, O, y, st, at),
         NEW c, NEW s, Topmost(w, st, c, s)
  PROVE  c \in Errors /\ Ordered(w, y \o <<Frame(c, 0)>>) /\ SeedsTo(w, O, y \o <<Frame(c, 0)>>, s, at, c)
  <1>1. Ordered(w, y) /\ Placed(w, O, Frames(y), st, at) /\ Comes(w, O, Frames(y), {}, st, at) /\ y \in Seq(Item)
    BY DEF VisitAt, Ordered
  <1>2. PICK z, Y : z = y \o <<Frame(c, 0)>> /\ Y = Frames(y)
    OBVIOUS
  <1>3. c \notin Y /\ Placed(w, O, Y \union {c}, s, at)
    BY <1>1, <1>2, PlacedChild
  <1>4. c \in Errors /\ Comes(w, O, Y \union {c}, {c}, s, at)
    BY <1>1, <1>2, ComesChild
  <1>6. Frames(z) = Y \union {c}
    <2>1. 0 \in Nat
      OBVIOUS
    <2> QED BY <1>1, <1>2, <1>4, <2>1, FramesAdd
  <1>7. Ordered(w, z)
    <2>1. \A i \in 1 .. Len(w.children[c]) : w.children[c][i] \notin Y
      BY <1>1, <1>2, <1>3, <1>4, NewIsAbove
    <2> QED BY <1>1, <1>2, <1>3, <1>4, <2>1, OrderedAdds
  <1>8. c \notin O /\ c \in Frames(z)
    BY <1>1, <1>2, <1>3, <1>6 DEF Placed
  <1>9. Placed(w, O, Frames(z), s, at) /\ Comes(w, O, Frames(z), {c}, s, at)
    BY <1>3, <1>4, <1>6
  <1>10. SeedsTo(w, O, z, s, at, c)
    BY <1>7, <1>8, <1>9, VisitSeeds
  <1> QED BY <1>2, <1>4, <1>7, <1>10

LEMMA VisitsEnd ==
  ASSUME NEW w, Whole(w), NEW O, NEW y, NEW at, VisitAt(w, O, y, <<>>, at), at > Len(w.roots)
  PROVE  Frames(y) = Frames(RootsLeft(w, {})[1])
  <1>1. PICK st, Y : st = <<>> /\ Len(st) = 0 /\ Y = Frames(y)
    OBVIOUS
  <1>2. Placed(w, O, Y, st, at) /\ Comes(w, O, Y, {}, st, at) /\ \A j \in 1 .. Len(st) : FALSE
    BY <1>1 DEF VisitAt
  <1>3. \A k \in 1 .. Len(w.roots) : w.roots[k] \in Y
    <2>1. Len(w.roots) \in Nat /\ at \in 1 .. Len(w.roots) + 1
      BY <1>2 DEF Placed, Whole
    <2>2. \A k \in 1 .. Len(w.roots) : k < at
      BY <2>1
    <2> QED BY <1>2, <2>2 DEF Comes
  <1>4. ASSUME NEW e \in Y, NEW i \in 1 .. Len(w.children[e]) PROVE w.children[e][i] \in Y
    <2>1. e \in Errors
      BY <1>2 DEF Placed
    <2>2. w.children[e] # <<>>
      BY <2>1 DEF Whole
    <2>3. e \in O
      BY <1>2, <2>2 DEF Comes
    <2> QED BY <1>2, <2>3 DEF Comes
  <1> QED BY <1>1, <1>2, <1>3, <1>4, AllVisited

(***************************************************************************)
(* The walk, step by step.                                                  *)
(***************************************************************************)
LEMMA AppendIs == ASSUME NEW T, NEW y \in Seq(T), NEW x PROVE Append(y, x) = y \o <<x>>
  OBVIOUS

LEMMA LargestIndex ==
  ASSUME NEW n \in Nat, NEW S, S \subseteq 0 .. n, 0 \in S
  PROVE  Max(S) \in S /\ \A x \in S : x <= Max(S)
  <1> DEFINE T == {n - x : x \in S}
  <1>0. \A x \in S : x \in Nat /\ x <= n
    OBVIOUS
  <1>1. T \subseteq Nat /\ T # {}
    <2>1. n - 0 \in T
      OBVIOUS
    <2>2. \A x \in S : n - x \in Nat
      BY <1>0
    <2> QED BY <2>1, <2>2
  <1>2. PICK y \in T : \A z \in T : y <= z
    BY <1>1, LeastNumber
  <1>3. PICK m \in S : y = n - m
    BY <1>2
  <1>4. \A x \in S : m >= x
    <2> TAKE x \in S
    <2>1. n - x \in T
      OBVIOUS
    <2>2. n - m <= n - x
      BY <1>2, <1>3, <2>1
    <2> QED BY <1>0, <1>3, <2>2
  <1>5. Max(S) \in S /\ \A x \in S : Max(S) >= x
    BY <1>4 DEF Max
  <1> QED BY <1>5

SettledTo(st, s) ==
  /\ s \in Seq(Entry) /\ Begins(s, st)
  /\ s # <<>> => ~AtEnd(s[Len(s)]) \/ (walk # "mut" /\ lost_children[s[Len(s)].of] > 0)
  /\ \A j \in 1 .. Len(st) : Len(s) < j =>
       AtEnd(st[j]) /\ (walk = "mut" \/ ~(lost_children[st[j].of] > 0))
LEMMA SettledIs ==
  ASSUME NEW st \in Seq(Entry)
  PROVE  SettledTo(st, Settled(st))
  <1> DEFINE Stops(i) == ~AtEnd(st[i]) \/ (walk # "mut" /\ lost_children[st[i].of] > 0)
             S == {0} \union {i \in 1 .. Len(st) : Stops(i)}
  <1>1. PICK n, m, s : n = Len(st) /\ m = Max(S) /\ s = Settled(st)
    OBVIOUS
  <1>2. n \in Nat /\ S \subseteq 0 .. n /\ 0 \in S
    BY <1>1
  <1>3. s = SubSeq(st, 1, m)
    BY <1>1 DEF Settled
  <1>4. m \in S /\ (\A x \in S : x <= m)
    <2> HIDE DEF S
    <2> QED BY <1>1, <1>2, LargestIndex
  <1>5. m \in 0 .. n /\ (m # 0 => m \in 1 .. n /\ Stops(m)) /\ \A j \in 1 .. n : m < j => ~Stops(j)
    <2>1. \A j \in 1 .. n : Stops(j) => j \in S
      BY <1>1
    <2>2. m # 0 => m \in 1 .. n /\ Stops(m)
      BY <1>1, <1>4
    <2> HIDE DEF S, Stops
    <2>3. \A j \in 1 .. n : m < j => ~Stops(j)
      <3> SUFFICES ASSUME NEW j \in 1 .. n, m < j, Stops(j) PROVE FALSE
        OBVIOUS
      <3>1. j <= m /\ m \in 0 .. n
        BY <1>2, <1>4, <2>1
      <3> QED BY <3>1
    <2> QED BY <1>2, <1>4, <2>2, <2>3
  <1> HIDE DEF S
  <1>6. s \in Seq(Entry) /\ Len(s) = m /\ \A j \in 1 .. m : s[j] = st[j]
    <2>1. m \in Nat /\ \A j \in 1 .. m : st[j] \in Entry
      BY <1>1, <1>5
    <2> QED BY <1>3, <2>1, SubSeqProperties
  <1>7. Begins(s, st)
    BY <1>1, <1>5, <1>6 DEF Begins
  <1>8. s # <<>> => Stops(m) /\ s[Len(s)] = st[m]
    <2>1. s # <<>> => m # 0
      BY <1>6
    <2> HIDE DEF Stops
    <2>2. m # 0 => m \in 1 .. m
      BY <1>5
    <2> QED BY <1>5, <1>6, <2>1, <2>2
  <1>9. \A j \in 1 .. Len(st) : Len(s) < j => ~Stops(j)
    <2> HIDE DEF Stops
    <2> QED BY <1>1, <1>5, <1>6
  <1>10. SettledTo(st, s)
    BY <1>6, <1>7, <1>8, <1>9 DEF SettledTo
  <1> QED BY <1>1, <1>10

IterGoes(w) ==
  IF over = "no"
  THEN /\ \E O : IterAt(w, O, skipped, yielded, pending, stack, root_at, root_lost_emitted)
       /\ stalled => pending # NoError
  ELSE over = "end" /\ yielded = RootsLeft(w, skipped)[1]
VisitGoes(w) ==
  /\ skipped = {} /\ Ordered(w, yielded)
  /\ over = "no" => \E O : VisitAt(w, O, yielded, stack, root_at)
  /\ over = "end" => Frames(yielded) = Frames(RootsLeft(w, {})[1])
WalkInv ==
  /\ ReportInv /\ Lineage
  /\ walk \in {"none", "frames", "chrono", "mut"}
  /\ walk = "none" => NoWalk
  /\ walk # "none" => pc = "idle"
  /\ walk \in {"frames", "chrono"} => IterGoes(Seen)
  /\ walk = "mut" => VisitGoes(Seen)

LEMMA SeenIs ==
  ASSUME WalkInv, walk # "none"
  PROVE  \E w : w = Seen /\ Whole(w) /\ ForestOf(w)
  <1>1. PICK w, k : w = Seen /\ k = walk
    OBVIOUS
  <1>2. w = SeenIf(k)
    BY <1>1 DEF Seen, SeenIf, Roots, RootsIf
  <1>3. ReportInv /\ Lineage /\ pc = "idle"
    BY DEF WalkInv
  <1>4. Whole(SeenIf(k)) /\ ForestOf(SeenIf(k))
    BY <1>3, SeenForest
  <1> QED BY <1>1, <1>2, <1>4

SeenRead(w) ==
  /\ w.children = children /\ w.lost = lost_children /\ w.roots = Roots /\ w.lost_roots = lost_peers
  /\ \A x : AtEndOf(w, x) = AtEnd(x)
LEMMA SeenReads == ASSUME NEW w, w = Seen PROVE SeenRead(w)
  <1>1. w.children = children /\ w.lost = lost_children /\ w.roots = Roots /\ w.lost_roots = lost_peers
    BY DEF Seen
  <1> QED BY <1>1 DEF SeenRead, AtEndOf, AtEnd

LEMMA SeenStays == ASSUME UNCHANGED <<vars, walk>> PROVE Seen' = Seen
  BY DEF Seen, Roots, vars, reportVars, frameVars

LEMMA ReportStays ==
  ASSUME WalkInv, UNCHANGED vars
  PROVE  ReportInv' /\ Lineage'
  BY ReportStep, LineageStep DEF WalkInv

LEMMA IterMoves ==
  ASSUME WalkInv, Iterating, UNCHANGED <<vars, walk>>, NEW w, w = Seen, IterGoes(w)'
  PROVE  WalkInv'
  <1>1. ReportInv' /\ Lineage'
    BY ReportStays
  <1>2. Seen' = Seen
    BY SeenStays
  <1>3. walk' = walk /\ walk \in {"frames", "chrono"} /\ pc' = pc /\ pc = "idle"
    BY DEF WalkInv, Iterating, vars, callVars
  <1>4. IterGoes(Seen)'
    BY <1>2 DEF IterGoes
  <1> QED BY <1>1, <1>3, <1>4 DEF WalkInv

LEMMA VisitMoves ==
  ASSUME WalkInv, Visiting, UNCHANGED <<vars, walk>>, NEW w, w = Seen, VisitGoes(w)'
  PROVE  WalkInv'
  <1>1. ReportInv' /\ Lineage'
    BY ReportStays
  <1>2. Seen' = Seen
    BY SeenStays
  <1>3. walk' = walk /\ walk = "mut" /\ pc' = pc /\ pc = "idle"
    BY DEF WalkInv, Visiting, vars, callVars
  <1>4. VisitGoes(Seen)'
    BY <1>2 DEF VisitGoes
  <1> QED BY <1>1, <1>3, <1>4 DEF WalkInv

IterFrom(w, O) ==
  /\ w = Seen /\ Whole(w) /\ ForestOf(w) /\ SeenRead(w)
  /\ IterAt(w, O, skipped, yielded, pending, stack, root_at, root_lost_emitted)
LEMMA IterIs == ASSUME WalkInv, Iterating PROVE \E w, O : IterFrom(w, O)
  <1>1. PICK w : w = Seen /\ Whole(w) /\ ForestOf(w)
    BY SeenIs DEF Iterating
  <1>2. PICK O : IterAt(w, O, skipped, yielded, pending, stack, root_at, root_lost_emitted)
    BY <1>1 DEF WalkInv, IterGoes, Iterating
  <1> QED BY <1>1, <1>2, SeenReads DEF IterFrom

LEMMA StartsWalking ==
  ASSUME WalkInv, NEW kind \in {"frames", "chrono", "mut"}, NEW auto, StartWalk(kind, auto)
  PROVE  WalkInv'
  <1>1. NoWalk /\ ReportInv' /\ Lineage' /\ pc = "idle" /\ pc' = pc /\ walk' = kind
    BY ReportStays DEF WalkInv, StartWalk, vars, callVars
  <1>2. PICK w : w = SeenIf(kind) /\ Whole(w) /\ ForestOf(w)
    BY <1>1, SeenForest DEF WalkInv
  <1>3. Seen' = w
    BY <1>1, <1>2 DEF Seen, SeenIf, Roots, RootsIf, StartWalk, vars, reportVars, frameVars
  <1>4. /\ stack' = <<>> /\ root_at' = 1 /\ pending' = NoError /\ stalled' = FALSE /\ root_lost_emitted' = FALSE
        /\ over' = "no" /\ yielded' = <<>> /\ skipped' = {}
    BY <1>1 DEF NoWalk, StartWalk
  <1>5. IterGoes(w)'
    <2>1. IterAt(w, {}, {}, <<>>, NoError, <<>>, 1, FALSE)
      BY <1>2, IterStarts
    <2> QED BY <1>4, <2>1 DEF IterGoes
  <1>6. VisitGoes(w)'
    <2>1. VisitAt(w, {}, <<>>, <<>>, 1)
      BY <1>2, VisitStarts
    <2>2. Ordered(w, <<>>)
      BY <2>1 DEF VisitAt
    <2> QED BY <1>4, <2>1, <2>2 DEF VisitGoes
  <1>7. IterGoes(Seen)' /\ VisitGoes(Seen)'
    BY <1>3, <1>5, <1>6 DEF IterGoes, VisitGoes
  <1> QED BY <1>1, <1>7 DEF WalkInv

\* An iterator that retried the push it owed, and popped what had come to its end.
Ready(w, O, s) ==
  /\ w = Seen /\ Whole(w) /\ ForestOf(w) /\ SeenRead(w)
  /\ IterAt(w, O, skipped, yielded, NoError, s, root_at, root_lost_emitted)
  /\ s \in Seq(Entry) /\ yielded \in Seq(Item)
  /\ s # <<>> => ~AtEndOf(w, s[Len(s)]) \/ w.lost[s[Len(s)].of] > 0

LEMMA ReadyIs ==
  ASSUME WalkInv, Iterating
  PROVE  \E w, O, s : s = Settled(Resumed) /\ Ready(w, O, s)
  <1>1. PICK w, O : IterFrom(w, O)
    BY IterIs
  <1>2. \E P : IterAt(w, P, skipped, yielded, NoError, Resumed, root_at, root_lost_emitted)
    <2>1. CASE pending = NoError
      BY <1>1, <2>1 DEF IterFrom, Resumed
    <2>2. CASE pending # NoError
      <3>1. IterAt(w, O \union {pending}, skipped, yielded, NoError, Append(stack, [of |-> pending, at |-> 1]),
                   root_at, root_lost_emitted)
        BY <1>1, <2>2, IterOpens DEF IterFrom
      <3> QED BY <2>2, <3>1 DEF Resumed
    <2> QED BY <2>1, <2>2
  <1>3. PICK P, st, s : st = Resumed /\ s = Settled(st) /\ IterAt(w, P, skipped, yielded, NoError, st, root_at, root_lost_emitted)
    BY <1>2
  <1>4. st \in Seq(Entry) /\ \A j \in 1 .. Len(st) : st[j].of \in Errors
    BY <1>3 DEF IterAt, Placed, Deep, Entry
  <1>5. SettledTo(st, s)
    BY <1>3, <1>4, SettledIs
  <1>6. walk # "mut"
    BY DEF Iterating
  <1>7. SeenRead(w) /\ Whole(w)
    BY <1>1 DEF IterFrom
  <1>8. Passed(w, st, Len(s))
    <2> SUFFICES ASSUME NEW j \in 1 .. Len(st), Len(s) < j PROVE AtEndOf(w, st[j]) /\ w.lost[st[j].of] = 0
      BY DEF Passed
    <2>1. AtEnd(st[j]) /\ ~(lost_children[st[j].of] > 0)
      BY <1>5, <1>6 DEF SettledTo
    <2>2. w.lost[st[j].of] \in 0 .. MaxLost /\ w.lost = lost_children
      BY <1>4, <1>7 DEF Whole, SeenRead
    <2>3. w.lost[st[j].of] = 0
      BY <2>1, <2>2, ErrorsAssumption
    <2> QED BY <1>7, <2>1, <2>3 DEF SeenRead
  <1>9. s \in Seq(Entry) /\ Begins(s, st)
    BY <1>5 DEF SettledTo
  <1>10. IterAt(w, P, skipped, yielded, NoError, s, root_at, root_lost_emitted)
    BY <1>3, <1>7, <1>8, <1>9, IterPops
  <1>11. s # <<>> => ~AtEndOf(w, s[Len(s)]) \/ w.lost[s[Len(s)].of] > 0
    BY <1>5, <1>6, <1>7 DEF SettledTo, SeenRead
  <1>12. yielded \in Seq(Item)
    BY <1>3 DEF IterAt
  <1>13. Ready(w, P, s)
    BY <1>1, <1>9, <1>10, <1>11, <1>12 DEF Ready, IterFrom
  <1> QED BY <1>3, <1>13

LEMMA LastIs == ASSUME NEW T, NEW s \in Seq(T), s # <<>> PROVE Last(s) = s[Len(s)]
  BY DEF Last

\* What an item of the iterator leaves: another item may follow, or none.
IterNext(w) ==
  IF over' = "no"
  THEN \E O : IterAt(w, O, skipped, yielded', pending', stack', root_at', root_lost_emitted')
  ELSE over' = "end" /\ yielded' = RootsLeft(w, skipped)[1]

LEMMA GoesChild ==
  ASSUME NEW w, NEW O, NEW s, Ready(w, O, s), over = "no", YieldChild(s)
  PROVE  IterNext(w)
  <1>1. s # <<>> /\ ~AtEndOf(w, s[Len(s)]) /\ Last(s) = s[Len(s)] /\ w.children = children
    BY LastIs DEF Ready, YieldChild, SeenRead
  <1>2. PICK c, t, d : /\ c = w.children[s[Len(s)].of][s[Len(s)].at] /\ t = [s EXCEPT ![Len(s)].at = @ + 1]
                       /\ d = Len(s)
    OBVIOUS
  <1>3. Topmost(w, s, c, t)
    BY <1>1, <1>2 DEF Topmost
  <1>4. c \in Errors /\ IterAt(w, O, skipped, yielded \o <<Frame(c, d)>>, Awaited(w, c), t, root_at, root_lost_emitted)
    BY <1>2, <1>3, IterChild DEF Ready
  <1>5. /\ stack' = t /\ yielded' = Append(yielded, Frame(c, d)) /\ pending' = Awaited(w, c)
        /\ root_at' = root_at /\ root_lost_emitted' = root_lost_emitted /\ over' = "no"
    BY <1>1, <1>2 DEF YieldChild, Emit, Awaited
  <1>6. yielded' = yielded \o <<Frame(c, d)>>
    BY <1>5, AppendIs DEF Ready
  <1> QED BY <1>4, <1>5, <1>6 DEF IterNext

LEMMA GoesLost ==
  ASSUME NEW w, NEW O, NEW s, Ready(w, O, s), over = "no", YieldLostChildren(s)
  PROVE  IterNext(w)
  <1>1. s # <<>> /\ AtEndOf(w, s[Len(s)]) /\ Last(s) = s[Len(s)] /\ w.lost = lost_children
    BY LastIs DEF Ready, YieldLostChildren, SeenRead
  <1>2. PICK n, d : n = w.lost[s[Len(s)].of] /\ d = Len(s)
    OBVIOUS
  <1>3. n > 0
    BY <1>1, <1>2 DEF Ready
  <1>4. IterAt(w, O, skipped, yielded \o <<LostFrames(n, d)>>, NoError, Front(s), root_at, root_lost_emitted)
    BY <1>1, <1>2, <1>3, IterLost DEF Ready
  <1>5. /\ stack' = Front(s) /\ yielded' = Append(yielded, LostFrames(n, d)) /\ pending' = NoError
        /\ root_at' = root_at /\ root_lost_emitted' = root_lost_emitted /\ over' = "no"
    BY <1>1, <1>2 DEF YieldLostChildren
  <1>6. yielded' = yielded \o <<LostFrames(n, d)>>
    BY <1>5, AppendIs DEF Ready
  <1> QED BY <1>4, <1>5, <1>6 DEF IterNext

LEMMA GoesRoot ==
  ASSUME NEW w, NEW O, NEW s, Ready(w, O, s), over = "no", YieldRoot(s)
  PROVE  IterNext(w)
  <1>1. s = <<>> /\ root_at <= Len(w.roots) /\ w.roots = Roots /\ w.children = children
    BY DEF Ready, YieldRoot, SeenRead
  <1>2. PICK c : c = w.roots[root_at]
    OBVIOUS
  <1>3. c \in Errors /\ IterAt(w, O, skipped, yielded \o <<Frame(c, 0)>>, Awaited(w, c), <<>>, root_at + 1, root_lost_emitted)
    BY <1>1, <1>2, IterRoot DEF Ready
  <1>4. /\ stack' = <<>> /\ yielded' = Append(yielded, Frame(c, 0)) /\ pending' = Awaited(w, c)
        /\ root_at' = root_at + 1 /\ root_lost_emitted' = root_lost_emitted /\ over' = "no"
    BY <1>1, <1>2 DEF YieldRoot, Emit, Awaited
  <1>5. yielded' = yielded \o <<Frame(c, 0)>>
    BY <1>4, AppendIs DEF Ready
  <1> QED BY <1>3, <1>4, <1>5 DEF IterNext

LEMMA GoesLostPeers ==
  ASSUME NEW w, NEW O, NEW s, Ready(w, O, s), over = "no", YieldLostPeers(s)
  PROVE  IterNext(w)
  <1>1. /\ s = <<>> /\ root_at > Len(w.roots) /\ ~root_lost_emitted
        /\ w.lost_roots > 0 /\ w.lost_roots = lost_peers
    BY DEF Ready, YieldLostPeers, RootsDone, SeenRead
  <1>2. IterAt(w, O, skipped, yielded \o <<LostFrames(w.lost_roots, 0)>>, NoError, <<>>, root_at, TRUE)
    <2>1. Whole(w) /\ IterAt(w, O, skipped, yielded, NoError, <<>>, root_at, root_lost_emitted)
      BY <1>1 DEF Ready
    <2>2. root_lost_emitted = FALSE
      BY <1>1, <2>1 DEF IterAt
    <2>3. IterAt(w, O, skipped, yielded, NoError, <<>>, root_at, FALSE)
      BY <2>1, <2>2
    <2> QED BY <1>1, <2>1, <2>3, IterLostRoots
  <1>3. /\ stack' = <<>> /\ yielded' = Append(yielded, LostFrames(w.lost_roots, 0)) /\ pending' = NoError
        /\ root_at' = root_at /\ root_lost_emitted' = TRUE /\ over' = "no"
    BY <1>1 DEF YieldLostPeers
  <1>4. yielded' = yielded \o <<LostFrames(w.lost_roots, 0)>>
    BY <1>3, AppendIs DEF Ready
  <1> QED BY <1>2, <1>3, <1>4 DEF IterNext

LEMMA GoesToEnd ==
  ASSUME NEW w, NEW O, NEW s, Ready(w, O, s), End(s)
  PROVE  IterNext(w)
  <1>1. /\ s = <<>> /\ root_at > Len(w.roots) /\ (root_lost_emitted \/ w.lost_roots = 0)
    BY DEF Ready, End, RootsDone, SeenRead
  <1>2. yielded = RootsLeft(w, skipped)[1]
    BY <1>1, IterEnds DEF Ready
  <1> QED BY <1>2 DEF IterNext, End

LEMMA NextItemGoes == ASSUME WalkInv, NextItem PROVE WalkInv'
  <1>1. Iterating /\ over = "no" /\ UNCHANGED <<vars, walk>> /\ skipped' = skipped /\ stalled' = FALSE
    BY DEF NextItem, Iterating
  <1>2. PICK w, O, s : s = Settled(Resumed) /\ Ready(w, O, s)
    BY <1>1, ReadyIs
  <1>3. YieldChild(s) \/ YieldLostChildren(s) \/ YieldRoot(s) \/ YieldLostPeers(s) \/ End(s)
    BY <1>2 DEF NextItem
  <1>4. IterNext(w)
    BY <1>1, <1>2, <1>3, GoesChild, GoesLost, GoesRoot, GoesLostPeers, GoesToEnd
  <1>5. IterGoes(w)'
    BY <1>1, <1>4 DEF IterGoes, IterNext
  <1>6. w = Seen
    BY <1>2 DEF Ready
  <1> QED BY <1>1, <1>5, <1>6, IterMoves

LEMMA StallGoes == ASSUME WalkInv, Stall \/ Unstall \/ SetAutoUnstall PROVE WalkInv'
  <1>1. Iterating /\ over = "no" /\ over' = "no" /\ UNCHANGED <<vars, walk, root_at, stack, root_lost_emitted, yielded>>
    BY DEF Stall, Unstall, SetAutoUnstall, Iterating
  <1>2. PICK w, O : IterFrom(w, O)
    BY <1>1, IterIs
  <1>3. w = Seen /\ Whole(w) /\ IterAt(w, O, skipped, yielded, pending, stack, root_at, root_lost_emitted)
    BY <1>2 DEF IterFrom
  <1>4. stalled => pending # NoError
    BY <1>1 DEF WalkInv, IterGoes, Iterating
  <1>5. /\ IterAt(w, O, skipped', yielded, pending', stack, root_at, root_lost_emitted)
        /\ stalled' => pending' # NoError
    <2>1. CASE pending' = pending /\ skipped' = skipped
      BY <1>3, <1>4, <2>1 DEF Stall, Unstall, SetAutoUnstall
    <2>2. CASE pending # NoError /\ pending' = NoError /\ skipped' = skipped \union {pending} /\ stalled' = FALSE
      BY <1>3, <2>2, IterSkips
    <2>3. \/ pending' = pending /\ skipped' = skipped
          \/ pending # NoError /\ pending' = NoError /\ skipped' = skipped \union {pending} /\ stalled' = FALSE
      BY <1>4 DEF Stall, Unstall, SetAutoUnstall
    <2> QED BY <2>1, <2>2, <2>3
  <1>6. IterGoes(w)'
    BY <1>1, <1>5 DEF IterGoes
  <1> QED BY <1>1, <1>3, <1>6, IterMoves

VisitFrom(w, O) ==
  /\ w = Seen /\ Whole(w) /\ ForestOf(w) /\ SeenRead(w)
  /\ VisitAt(w, O, yielded, stack, root_at) /\ yielded \in Seq(Item) /\ Ordered(w, yielded)
  /\ skipped = {} /\ stack \in Seq(Entry) /\ \A j \in 1 .. Len(stack) : stack[j].of \in Errors
LEMMA VisitIs == ASSUME WalkInv, Visiting PROVE \E w, O : VisitFrom(w, O)
  <1>1. PICK w : w = Seen /\ Whole(w) /\ ForestOf(w)
    BY SeenIs DEF Visiting
  <1>2. VisitGoes(w) /\ over = "no"
    BY <1>1 DEF WalkInv, Visiting
  <1>3. PICK O : VisitAt(w, O, yielded, stack, root_at)
    BY <1>2 DEF VisitGoes
  <1>4. yielded \in Seq(Item) /\ Ordered(w, yielded) /\ skipped = {}
    BY <1>2 DEF VisitGoes, Ordered
  <1>5. stack \in Seq(Entry)
    BY <1>3 DEF VisitAt, Placed
  <1>6. \A j \in 1 .. Len(stack) : stack[j].of \in Errors
    BY <1>3 DEF VisitAt, Placed
  <1> QED BY <1>1, <1>3, <1>4, <1>5, <1>6, SeenReads DEF VisitFrom

\* A visit either seeds the stack with the children of the frame or is over.
LEMMA SeedsGo ==
  ASSUME NEW w, NEW O, NEW z, NEW c, NEW s, NEW at, w.children = children, SeedsTo(w, O, z, s, at, c),
         Ordered(w, z), skipped' = {}, yielded' = z, root_at' = at, over = "no",
         Break \/ Seed(c, s) \/ SeedFails(c, s)
  PROVE  VisitGoes(w)'
  <1>1. CASE Break \/ SeedFails(c, s)
    <2>1. over' \in {"broken", "failed"}
      BY <1>1 DEF Break, SeedFails
    <2> QED BY <2>1 DEF VisitGoes
  <1>2. CASE Seed(c, s)
    <2>1. over' = "no"
      BY <1>2 DEF Seed
    <2>2. \E P : VisitAt(w, P, z, stack', at)
      <3>1. CASE children[c] = <<>>
        BY <1>2, <3>1 DEF Seed, SeedsTo
      <3>2. CASE children[c] # <<>>
        BY <1>2, <3>2 DEF Seed, SeedsTo
      <3> QED BY <3>1, <3>2
    <2> QED BY <2>1, <2>2 DEF VisitGoes
  <1> QED BY <1>1, <1>2

LEMMA VisitRootGoes == ASSUME WalkInv, VisitRoot PROVE WalkInv'
  <1>1. Visiting /\ over = "no" /\ UNCHANGED <<vars, walk>> /\ skipped' = skipped /\ root_at <= Len(Roots)
    BY DEF VisitRoot, Visiting
  <1>2. PICK w, O : VisitFrom(w, O)
    BY <1>1, VisitIs
  <1>3. PICK c, z, a : c = w.roots[root_at] /\ z = yielded \o <<Frame(c, 0)>> /\ a = root_at + 1
    OBVIOUS
  <1>4. c \in Errors /\ Ordered(w, z) /\ SeedsTo(w, O, z, stack, a, c)
    <2>1. Whole(w) /\ ForestOf(w) /\ VisitAt(w, O, yielded, stack, root_at) /\ root_at <= Len(w.roots)
      BY <1>1, <1>2 DEF VisitFrom, SeenRead
    <2> QED BY <1>3, <2>1, VisitsRoot
  <1>5. w.children = children /\ c = Roots[root_at] /\ skipped = {} /\ yielded \in Seq(Item) /\ w = Seen
    BY <1>2, <1>3 DEF VisitFrom, SeenRead
  <1>6. yielded' = z
    <2>1. yielded' = Append(yielded, Frame(c, 0))
      BY <1>5 DEF VisitRoot, Visited
    <2> QED BY <1>3, <1>5, <2>1, AppendIs
  <1>7. Break \/ Seed(c, stack) \/ SeedFails(c, stack)
    BY <1>5 DEF VisitRoot
  <1>8. root_at' = a
    BY <1>3 DEF VisitRoot
  <1>9. VisitGoes(w)'
    BY <1>1, <1>4, <1>5, <1>6, <1>7, <1>8, SeedsGo
  <1> QED BY <1>1, <1>5, <1>9, VisitMoves

LEMMA SettledVisit ==
  ASSUME NEW w, NEW O, VisitFrom(w, O), walk = "mut", NEW s, s = Settled(stack)
  PROVE  /\ s \in Seq(Entry) /\ VisitAt(w, O, yielded, s, root_at)
         /\ s # <<>> => ~AtEndOf(w, s[Len(s)])
  <1>1. stack \in Seq(Entry)
    BY DEF VisitFrom
  <1>2. SettledTo(stack, s)
    BY <1>1, SettledIs
  <1>3. \A j \in 1 .. Len(stack) : Len(s) < j => AtEndOf(w, stack[j])
    BY <1>2 DEF SettledTo, VisitFrom, SeenRead
  <1>4. s \in Seq(Entry) /\ Begins(s, stack) /\ VisitAt(w, O, yielded, stack, root_at)
    BY <1>2 DEF SettledTo, VisitFrom
  <1>5. VisitAt(w, O, yielded, s, root_at)
    BY <1>3, <1>4, VisitPops
  <1>6. s # <<>> => ~AtEndOf(w, s[Len(s)])
    BY <1>2 DEF SettledTo, VisitFrom, SeenRead
  <1> QED BY <1>4, <1>5, <1>6

LEMMA VisitChildGoes == ASSUME WalkInv, VisitChild PROVE WalkInv'
  <1>1. /\ Visiting /\ walk = "mut" /\ over = "no" /\ UNCHANGED <<vars, walk>> /\ skipped' = skipped /\ root_at' = root_at
        /\ Settled(stack) # <<>>
    BY DEF VisitChild, Visiting
  <1>2. PICK w, O, s : VisitFrom(w, O) /\ s = Settled(stack)
    BY <1>1, VisitIs
  <1>3. PICK c, z, t : /\ c = w.children[s[Len(s)].of][s[Len(s)].at] /\ z = yielded \o <<Frame(c, 0)>>
                       /\ t = [s EXCEPT ![Len(s)].at = @ + 1]
    OBVIOUS
  <1>4. s \in Seq(Entry) /\ VisitAt(w, O, yielded, s, root_at) /\ s # <<>> /\ ~AtEndOf(w, s[Len(s)])
    BY <1>1, <1>2, SettledVisit
  <1>5. c \in Errors /\ Ordered(w, z) /\ SeedsTo(w, O, z, t, root_at, c)
    <2>1. Topmost(w, s, c, t)
      BY <1>3, <1>4 DEF Topmost
    <2>2. Whole(w) /\ ForestOf(w)
      BY <1>2 DEF VisitFrom
    <2> QED BY <1>3, <1>4, <2>1, <2>2, VisitsChild
  <1>6. /\ w.children = children /\ skipped = {} /\ yielded \in Seq(Item) /\ w = Seen /\ Ordered(w, yielded)
        /\ Last(s) = s[Len(s)]
    BY <1>2, <1>4, LastIs DEF VisitFrom, SeenRead
  <1>7. c = children[Last(s).of][Last(s).at]
    BY <1>3, <1>6
  <1>8. (Visited(c) /\ (Break \/ Seed(c, t))) \/ (SeedFails(c, t) /\ UNCHANGED yielded)
    BY <1>2, <1>3, <1>7 DEF VisitChild
  <1>9. VisitGoes(w)'
    <2>1. CASE Visited(c) /\ (Break \/ Seed(c, t))
      <3>1. yielded' = z
        <4>1. yielded' = Append(yielded, Frame(c, 0))
          BY <2>1 DEF Visited
        <4> QED BY <1>3, <1>6, <4>1, AppendIs
      <3>2. PICK a : a = root_at
        OBVIOUS
      <3> QED BY <1>1, <1>5, <1>6, <2>1, <3>1, <3>2, SeedsGo
    <2>2. CASE SeedFails(c, t) /\ UNCHANGED yielded
      <3>1. over' = "failed" /\ yielded' = yielded /\ skipped' = {}
        BY <1>1, <1>6, <2>2 DEF SeedFails
      <3> QED BY <1>6, <3>1 DEF VisitGoes
    <2> QED BY <1>8, <2>1, <2>2
  <1> QED BY <1>1, <1>6, <1>9, VisitMoves

LEMMA VisitEndsGoes == ASSUME WalkInv, VisitEnds PROVE WalkInv'
  <1>1. /\ Visiting /\ walk = "mut" /\ UNCHANGED <<vars, walk>> /\ skipped' = skipped /\ yielded' = yielded
        /\ over' = "end" /\ Settled(stack) = <<>> /\ root_at > Len(Roots)
    BY DEF VisitEnds, Visiting, RootsDone
  <1>2. PICK w, O, s : VisitFrom(w, O) /\ s = Settled(stack)
    BY <1>1, VisitIs
  <1>3. VisitAt(w, O, yielded, <<>>, root_at)
    BY <1>1, <1>2, SettledVisit
  <1>4. /\ Whole(w) /\ root_at > Len(w.roots) /\ w = Seen /\ skipped = {} /\ Ordered(w, yielded)
    BY <1>1, <1>2 DEF VisitFrom, SeenRead
  <1>5. Frames(yielded) = Frames(RootsLeft(w, {})[1])
    BY <1>3, <1>4, VisitsEnd
  <1>6. VisitGoes(w)'
    BY <1>1, <1>4, <1>5 DEF VisitGoes, Frames
  <1> QED BY <1>1, <1>4, <1>6, VisitMoves

LEMMA WalkStep == WalkInv /\ [WalkNext]_<<vars, walkVars>> => WalkInv'
  <1> SUFFICES ASSUME WalkInv, [WalkNext]_<<vars, walkVars>> PROVE WalkInv'
    OBVIOUS
  <1>1. CASE walk = "none" /\ Next /\ UNCHANGED walkVars
    <2>1. ReportInv' /\ Lineage'
      BY <1>1, ReportStep, LineageStep DEF WalkInv
    <2>2. walk' = "none" /\ NoWalk'
      BY <1>1 DEF WalkInv, NoWalk, walkVars
    <2> QED BY <2>1, <2>2 DEF WalkInv
  <1>2. CASE \E kind \in {"frames", "chrono"}, auto \in BOOLEAN : StartWalk(kind, auto)
    BY <1>2, StartsWalking
  <1>3. CASE StartWalk("mut", FALSE)
    BY <1>3, StartsWalking
  <1>4. CASE NextItem \/ Stall \/ Unstall \/ SetAutoUnstall
    BY <1>4, NextItemGoes, StallGoes
  <1>5. CASE VisitRoot \/ VisitChild \/ VisitEnds
    BY <1>5, VisitRootGoes, VisitChildGoes, VisitEndsGoes
  <1>6. CASE DropWalk
    <2>1. ReportInv' /\ Lineage'
      BY <1>6, ReportStays DEF DropWalk
    <2>2. walk' = "none" /\ NoWalk'
      BY <1>6 DEF DropWalk, NoWalk
    <2> QED BY <2>1, <2>2 DEF WalkInv
  <1>7. CASE UNCHANGED <<vars, walkVars>>
    <2>1. UNCHANGED <<vars, walk>> /\ UNCHANGED walkVars /\ pc' = pc
      BY <1>7 DEF walkVars, vars, callVars
    <2>2. ReportInv' /\ Lineage' /\ Seen' = Seen
      BY <2>1, ReportStays, SeenStays
    <2>3. NoWalk' = NoWalk
      BY <2>1 DEF walkVars, NoWalk
    <2>4. IterGoes(Seen)' = IterGoes(Seen) /\ VisitGoes(Seen)' = VisitGoes(Seen)
      BY <2>1, <2>2 DEF walkVars, IterGoes, VisitGoes, Frames
    <2> QED BY <2>1, <2>2, <2>3, <2>4 DEF WalkInv
  <1> QED BY <1>1, <1>2, <1>3, <1>4, <1>5, <1>6, <1>7 DEF WalkNext

LEMMA WalkStarts == WalkInit => WalkInv
  <1> SUFFICES ASSUME Init, NoWalk PROVE WalkInv
    BY DEF WalkInit
  <1>1. ReportInv /\ Lineage
    BY ReportInit, LineageInit
  <1>2. walk = "none"
    BY DEF NoWalk
  <1> QED BY <1>1, <1>2 DEF WalkInv

LEMMA WalkIsTree == WalkInv => WalkYieldsTree
  <1> SUFFICES ASSUME WalkInv PROVE WalkYieldsTree
    OBVIOUS
  <1>1. ASSUME walk # "none" PROVE \E w : w = Seen /\ Whole(w) /\ Tree = RootsLeft(w, skipped)[1]
    <2>1. PICK w : w = Seen /\ Whole(w)
      BY <1>1, SeenIs
    <2> QED BY <2>1, TreeIs DEF Tree
  <1>2. ASSUME walk \in {"frames", "chrono"} PROVE IsPrefix(yielded, Tree) /\ (over = "end" => yielded = Tree)
    <2>1. PICK w : w = Seen /\ Whole(w) /\ Tree = RootsLeft(w, skipped)[1]
      BY <1>1, <1>2
    <2>2. IterGoes(w)
      BY <1>2, <2>1 DEF WalkInv
    <2>3. CASE over = "no"
      <3>1. PICK O : IterAt(w, O, skipped, yielded, pending, stack, root_at, root_lost_emitted)
        BY <2>2, <2>3 DEF IterGoes
      <3> QED BY <2>1, <2>3, <3>1, IterPrefix
    <2>4. CASE over # "no"
      <3>1. yielded = Tree
        BY <2>1, <2>2, <2>4 DEF IterGoes
      <3>2. Tree \in Seq(Item)
        <4>1. 1 \in 1 .. Len(w.roots) + 1
          BY <2>1 DEF Whole
        <4> QED BY <2>1, <4>1, RootsLeftIs
      <3>3. IsPrefix(Tree, Tree)
        <4>1. Begins(Tree, Tree)
          BY <3>2 DEF Begins
        <4> QED BY <3>2, <4>1, PrefixByIndex
      <3> QED BY <3>1, <3>3
    <2> QED BY <2>3, <2>4
  <1>3. ASSUME walk = "mut"
        PROVE  /\ Cardinality(Frames(yielded)) = Len(yielded)
               /\ over = "end" => Frames(yielded) = Frames(Tree)
               /\ \A i, j \in DOMAIN yielded : yielded[i].frame \in Range(children[yielded[j].frame]) => j < i
    <2>1. PICK w : w = Seen /\ Whole(w) /\ Tree = RootsLeft(w, skipped)[1]
      BY <1>1, <1>3
    <2>2. VisitGoes(w) /\ w.children = children
      BY <1>3, <2>1, SeenReads DEF WalkInv, SeenRead
    <2>3. skipped = {} /\ Ordered(w, yielded) /\ (over = "end" => Frames(yielded) = Frames(RootsLeft(w, {})[1]))
      BY <2>2 DEF VisitGoes
    <2>4. \A i, j \in DOMAIN yielded : yielded[i].frame \in Range(children[yielded[j].frame]) => j < i
      <3> SUFFICES ASSUME NEW i \in DOMAIN yielded, NEW j \in DOMAIN yielded, yielded[i].frame \in Range(children[yielded[j].frame])
                   PROVE  j < i
        OBVIOUS
      <3>1. i \in 1 .. Len(yielded) /\ j \in 1 .. Len(yielded) /\ yielded[j].frame \in Errors
        BY <2>3 DEF Ordered
      <3>2. PICK q : q = children[yielded[j].frame] /\ q \in Seq(Errors)
        BY <2>1, <2>2, <3>1 DEF Whole
      <3>3. PICK k \in 1 .. Len(q) : q[k] = yielded[i].frame
        BY <3>2 DEF Range
      <3> QED BY <2>2, <2>3, <3>1, <3>2, <3>3 DEF Ordered
    <2>5. Cardinality(Frames(yielded)) = Len(yielded)
      BY <2>3 DEF Ordered
    <2> QED BY <2>1, <2>3, <2>4, <2>5
  <1> QED BY <1>2, <1>3 DEF WalkYieldsTree

\* Whatever allocations fail, frames() and frames_chronological() come out with
\* the frames of the report in their order and with a marker wherever frames were
\* lost, also when next is retried, unstalled or told to discard; what is missing
\* is below the frames whose children the caller discarded.  frames_mut comes to
\* every frame once, and to a child after its error.
THEOREM WalksYieldTree == WalkSpec => []WalkYieldsTree
  BY WalkStarts, WalkStep, WalkIsTree, PTL DEF WalkSpec
===============================================================================
