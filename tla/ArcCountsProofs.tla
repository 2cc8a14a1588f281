--------------------------- MODULE ArcCountsProofs ---------------------------
(***************************************************************************)
(* Proofs about ArcCounts, for any number of threads and handles and any    *)
(* limit of the counts.                                                    *)
(***************************************************************************)
EXTENDS ArcCounts, FiniteSetTheorems, TLAPS

(***************************************************************************)
(* The inductive invariant.  CountsMatch alone is not inductive: that a     *)
(* count of one means a sole handle, that nobody borrows what an exclusive  *)
(* call works on, and that one thread at most is past the last strong       *)
(* handle must be known besides.                                           *)
(***************************************************************************)

NoStrong == \A g \in Handles : held[g] # "strong"
NoWeak == \A g \in Handles : held[g] # "weak"
Sole(h) == \A g \in Handles : held[g] = "strong" <=> g = h
Dying(t) == pc[t] \in {"dropping", "release"}
Locking(t) == pc[t] \in {"check", "unlock"}

\* A program counter belongs to a call that can have it, on handles of the kind
\* the call is made on, and its result has a place.
Shape(t) ==
  /\ pc[t] = "idle" => op[t] = "none" /\ on[t] = NoHandle /\ to[t] = NoHandle
  /\ pc[t] \in {"load", "cas"} =>
       /\ op[t] \in Growing
       /\ on[t] \in Handles /\ to[t] \in Handles
       /\ held[on[t]] = IF op[t] \in {"clone", "downgrade"} THEN "strong" ELSE "weak"
       /\ held[to[t]] = "claimed"
  /\ pc[t] \in {"make", "lock", "check", "unlock", "mut", "panic", "unwrap", "copying"} =>
       /\ op[t] \in {"get_mut", "default", "unwrap"}
       /\ on[t] \in Handles /\ held[on[t]] = "strong" /\ to[t] = NoHandle
  /\ pc[t] \in {"make", "panic"} => op[t] = "default"
  /\ pc[t] \in {"unwrap", "copying"} <=> op[t] = "unwrap"
  /\ pc[t] \in {"dropping", "release", "dealloc"} =>
       op[t] = "drop" /\ on[t] = NoHandle /\ to[t] = NoHandle
Shapes == \A t \in Threads : Shape(t)

\* Results do not share a place, and what an exclusive call works on is lent to
\* nobody else.
Borrows ==
  /\ \A t, u \in Threads : to[t] = to[u] /\ to[t] # NoHandle => t = u
  /\ \A t, u \in Threads : on[t] = on[u] /\ on[t] # NoHandle /\ op[t] \notin Growing => t = u
  /\ building # NoHandle => held[building] = "weak"

\* The end of the value and of the allocation is in one thread's hands.
Life ==
  /\ \A t \in Threads : Dying(t) =>
       NoStrong /\ memory /\ building = NoHandle /\ \A u \in Threads : Dying(u) => u = t
  /\ \A t \in Threads : pc[t] = "dealloc" =>
       /\ NoStrong /\ NoWeak /\ memory
       /\ \A u \in Threads : Dying(u) \/ pc[u] = "dealloc" => u = t
  /\ ~memory => NoStrong /\ NoWeak
  /\ building # NoHandle => NoStrong /\ memory

\* A thread that holds the weak count, or found both to be one, is alone.
Exclusion ==
  /\ \A t \in Threads : pc[t] # "panic"
  /\ \A t \in Threads : Locking(t) => weak = Locked /\ NoWeak /\ \A u \in Threads : Locking(u) => u = t
  /\ weak = Locked => \E t \in Threads : Locking(t)
  /\ \A t \in Threads : pc[t] = "unlock" /\ seen[t] = 1 => Sole(on[t])
  /\ \A t \in Threads : pc[t] = "mut" => Sole(on[t]) /\ NoWeak
  /\ \A t \in Threads : op[t] = "default" =>
       Sole(on[t]) /\ NoWeak /\ (pc[t] = "unlock" => seen[t] = 1)

\* The value is there while a strong handle is, and gone before the memory.
Values ==
  /\ ~NoStrong => value \in {"raw", "live"}
  /\ value = "live" => ~NoStrong \/ \E t \in Threads : pc[t] = "dropping"
  /\ \A t \in Threads : op[t] = "unwrap" => value = "live"
  /\ \A t \in Threads : op[t] = "default" => value = "raw"
  /\ building # NoHandle => value = "raw"
  /\ ~memory => value = "none"

IInv == TypeOK /\ CountsMatch /\ Shapes /\ Borrows /\ Life /\ Exclusion /\ Values

-------------------------------------------------------------------------------

\* What a count says of the handles.
LEMMA HandleSets ==
  ASSUME TypeOK
  PROVE  /\ IsFiniteSet(StrongHandles) /\ Cardinality(StrongHandles) \in Nat
         /\ IsFiniteSet(WeakHandles) /\ Cardinality(WeakHandles) \in Nat
         /\ Cardinality(StrongHandles) = 0 <=> NoStrong
         /\ Cardinality(WeakHandles) = 0 <=> NoWeak
         /\ \A h \in Handles : Sole(h) => Cardinality(StrongHandles) = 1
         /\ \A h \in Handles : held[h] = "strong" /\ Cardinality(StrongHandles) = 1 => Sole(h)
         /\ \A h, g \in Handles :
              held[h] = "weak" /\ held[g] = "weak" /\ Cardinality(WeakHandles) = 1 => g = h
  <1>1. IsFiniteSet(StrongHandles) /\ IsFiniteSet(WeakHandles)
    BY HandlesAssumption, FS_Subset DEF StrongHandles, WeakHandles
  <1>2. Cardinality(StrongHandles) \in Nat /\ Cardinality(WeakHandles) \in Nat
    BY <1>1, FS_CardinalityType
  <1>3. Cardinality(StrongHandles) = 0 <=> StrongHandles = {}
    BY <1>1, FS_EmptySet
  <1>4. Cardinality(WeakHandles) = 0 <=> WeakHandles = {}
    BY <1>1, FS_EmptySet
  <1>5. Cardinality(StrongHandles) = 1 <=> \E x : StrongHandles = {x}
    BY <1>1, FS_Singleton
  <1>6. Cardinality(WeakHandles) = 1 <=> \E x : WeakHandles = {x}
    BY <1>1, FS_Singleton
  <1>7. ASSUME NEW h \in Handles, Sole(h) PROVE Cardinality(StrongHandles) = 1
    <2>1. StrongHandles = {h}
      BY <1>7 DEF Sole, StrongHandles
    <2> QED
      BY <2>1, <1>5
  <1>8. ASSUME NEW h \in Handles, held[h] = "strong", Cardinality(StrongHandles) = 1
        PROVE  Sole(h)
    <2>1. PICK x : StrongHandles = {x}
      BY <1>5, <1>8
    <2> QED
      BY <2>1, <1>8 DEF Sole, StrongHandles
  <1>9. ASSUME NEW h \in Handles, NEW g \in Handles, held[h] = "weak", held[g] = "weak",
               Cardinality(WeakHandles) = 1
        PROVE  g = h
    <2>1. PICK x : WeakHandles = {x}
      BY <1>6, <1>9
    <2> QED
      BY <2>1, <1>9 DEF WeakHandles
  <1>10. Cardinality(StrongHandles) = 0 <=> NoStrong
    BY <1>3 DEF StrongHandles, NoStrong
  <1>11. Cardinality(WeakHandles) = 0 <=> NoWeak
    BY <1>4 DEF WeakHandles, NoWeak
  <1>12. \A h \in Handles : Sole(h) => Cardinality(StrongHandles) = 1
    BY <1>7
  <1>13. \A h \in Handles : held[h] = "strong" /\ Cardinality(StrongHandles) = 1 => Sole(h)
    BY <1>8
  <1>14. \A h, g \in Handles :
           held[h] = "weak" /\ held[g] = "weak" /\ Cardinality(WeakHandles) = 1 => g = h
    BY <1>9
  <1> QED
    BY <1>1, <1>2, <1>10, <1>11, <1>12, <1>13, <1>14

\* The counts, read by the code, mean this.
LEMMA CountFacts ==
  ASSUME IInv
  PROVE  /\ strong = 0 <=> NoStrong
         /\ \A h \in Handles : held[h] = "strong" => (strong = 1 <=> Sole(h)) /\ strong >= 1
         /\ weak = 1 => /\ \A h \in Handles : held[h] = "strong" => NoWeak
                        /\ \A t \in Threads : Dying(t) => NoWeak
                        /\ \A h \in Handles : held[h] = "weak" =>
                             /\ NoStrong /\ \A t \in Threads : ~Dying(t)
                             /\ \A g \in Handles : held[g] = "weak" => g = h
         /\ \A h \in Handles : held[h] = "weak" => weak # Locked /\ weak >= 1
         /\ \A t \in Threads : Dying(t) => weak # Locked /\ weak >= 1
         /\ (\E h \in Handles : held[h] = "strong") /\ NoWeak /\ weak # Locked => weak = 1
  <1> DEFINE s == Cardinality(StrongHandles)
             w == Cardinality(WeakHandles)
  <1>1. TypeOK
    BY DEF IInv
  <1>2. /\ s \in Nat /\ w \in Nat
        /\ s = 0 <=> NoStrong
        /\ w = 0 <=> NoWeak
        /\ \A h \in Handles : Sole(h) => s = 1
        /\ \A h \in Handles : held[h] = "strong" /\ s = 1 => Sole(h)
        /\ \A h, g \in Handles : held[h] = "weak" /\ held[g] = "weak" /\ w = 1 => g = h
    BY <1>1, HandleSets
  <1>3. /\ StrongHandles = {} <=> NoStrong
        /\ WeakHandles = {} <=> NoWeak
    BY DEF StrongHandles, NoStrong, WeakHandles, NoWeak
  <1>4. /\ strong = s
        /\ weak = Locked \/ weak = w + SharedWeak
        /\ weak = Locked => NoWeak /\ ~NoStrong
    BY <1>3 DEF IInv, CountsMatch
  <1>5. /\ SharedWeak \in {0, 1}
        /\ SharedWeak = 1 <=> ~NoStrong \/ \E t \in Threads : Dying(t)
    BY <1>3 DEF SharedWeak, Dying
  <1>6. \A t \in Threads : Dying(t) => NoStrong
    BY DEF IInv, Life
  <1>7. Locked # 1
    BY MaxAssumption DEF Locked, Max
  <1> HIDE DEF s, w
  <1>8. \A h \in Handles : held[h] = "strong" => ~NoStrong
    BY DEF NoStrong
  <1>9. \A h \in Handles : held[h] = "weak" => ~NoWeak
    BY DEF NoWeak
  <1>10. strong = 0 <=> NoStrong
    BY <1>2, <1>4
  <1>11. ASSUME NEW h \in Handles, held[h] = "strong"
         PROVE  (strong = 1 <=> Sole(h)) /\ strong >= 1
    BY <1>2, <1>4, <1>8, <1>11
  <1>12. ASSUME weak = 1
         PROVE  /\ \A h \in Handles : held[h] = "strong" => NoWeak
                /\ \A t \in Threads : Dying(t) => NoWeak
                /\ \A h \in Handles : held[h] = "weak" =>
                     /\ NoStrong /\ \A t \in Threads : ~Dying(t)
                     /\ \A g \in Handles : held[g] = "weak" => g = h
    <2>1. 1 = w + SharedWeak
      BY <1>4, <1>7, <1>12
    <2>2. SharedWeak = 1 => NoWeak
      BY <2>1, <1>2
    <2>3. SharedWeak = 0 => w = 1
      BY <2>1, <1>2
    <2>4. ~NoStrong \/ (\E t \in Threads : Dying(t)) => NoWeak
      BY <2>2, <1>5
    <2> QED
      BY <2>2, <2>3, <2>4, <1>2, <1>5, <1>8, <1>9
  <1>13. ASSUME NEW h \in Handles, held[h] = "weak"
         PROVE  weak # Locked /\ weak >= 1
    BY <1>2, <1>4, <1>5, <1>9, <1>13
  <1>14. ASSUME NEW t \in Threads, Dying(t)
         PROVE  weak # Locked /\ weak >= 1
    BY <1>2, <1>4, <1>5, <1>6, <1>14
  <1>15. ASSUME NEW h \in Handles, held[h] = "strong", NoWeak, weak # Locked
         PROVE  weak = 1
    BY <1>2, <1>4, <1>5, <1>8, <1>15
  <1> QED
    BY <1>10, <1>11, <1>12, <1>13, <1>14, <1>15

\* The three calls that give up a strong handle only they can reach.
Giving(t, h) ==
  /\ pc[t] \in {"idle", "make", "copying"}
  /\ held[h] = "strong"
  /\ \A u \in Threads \ {t} : on[u] # h
  /\ pc[t] # "idle" => on[t] = h
  /\ GiveUp(t, h)

\* The actions, by what they do to the counts.
LEMMA NextCases ==
  ASSUME IInv, Next
  PROVE  \/ CyclicDone \/ CyclicPanics
         \/ \E h \in Handles : TryNew(h) \/ NewCyclic(h) \/ WeakNew(h) \/ DropDangling(h)
         \/ \E t \in Threads :
              \/ Made(t) \/ Load(t) \/ Refuse(t) \/ Retry(t) \/ Increment(t)
              \/ ValueDropped(t) \/ Release(t) \/ Dealloc(t)
              \/ LockWeak(t) \/ CheckStrong(t) \/ UnlockWeak(t) \/ EndMut(t)
              \/ TryUnwrap(t) \/ CopyFails(t)
              \/ \E h \in Handles :
                   \/ Giving(t, h) \/ TryDefault(t, h) \/ DropWeak(t, h)
                   \/ \E o \in Growing, n \in Handles : Begin(t, o, h, n)
                   \/ \E o \in {"get_mut", "unwrap"} : BeginExclusive(t, o, h)
  <1>1. ASSUME NEW t \in Threads, MakeFails(t) \/ Copied(t)
        PROVE  \E h \in Handles : Giving(t, h)
    <2>1. on[t] \in Handles /\ held[on[t]] = "strong" /\ op[t] \notin Growing
      BY <1>1 DEF IInv, Shapes, Shape, MakeFails, Copied, Growing
    <2>2. \A u \in Threads \ {t} : on[u] # on[t]
      BY <2>1, HandlesAssumption DEF IInv, Borrows
    <2> QED
      BY <1>1, <2>1, <2>2 DEF MakeFails, Copied, Giving
  <1>2. ASSUME NEW t \in Threads, NEW h \in Handles, DropStrong(t, h)
        PROVE  Giving(t, h)
    BY <1>2 DEF DropStrong, Unborrowed, Giving
  <1> QED
    BY <1>1, <1>2 DEF Next, Step, Call, CloneDangling

\* A count about to be raised is a count of something, which nobody has for
\* itself.
LEMMA GrowerFacts ==
  ASSUME IInv, NEW t \in Threads, Increment(t)
  PROVE  /\ on[t] \in Handles /\ to[t] \in Handles /\ held[to[t]] = "claimed" /\ memory
         /\ ~NoStrong \/ ~NoWeak
         /\ op[t] \in {"clone", "upgrade"} => ~NoStrong
         /\ op[t] \notin {"clone", "upgrade"} => \A u \in Threads : ~Locking(u)
         /\ \A u \in Threads :
              /\ pc[u] # "mut" /\ op[u] # "default" /\ pc[u] # "dealloc"
              /\ ~(pc[u] = "unlock" /\ seen[u] = 1)
  <1>1. /\ op[t] \in Growing /\ on[t] \in Handles /\ to[t] \in Handles
        /\ held[on[t]] = IF op[t] \in {"clone", "downgrade"} THEN "strong" ELSE "weak"
        /\ held[to[t]] = "claimed"
    BY DEF Increment, IInv, Shapes, Shape
  <1>2. /\ op[t] \in {"clone", "downgrade"} => ~NoStrong
        /\ op[t] \in {"upgrade", "wclone"} => ~NoWeak
    BY <1>1 DEF NoStrong, NoWeak
  <1>3. op[t] = "upgrade" => ~NoStrong
    BY CountFacts DEF Increment, Refused, Count
  <1>4. op[t] \notin {"clone", "upgrade"} => weak # Locked
    BY MaxAssumption DEF Increment, Refused, Count, Locked, Max, IInv, TypeOK
  <1>5. ASSUME NEW u \in Threads, op[u] \notin Growing, Sole(on[u]), NoWeak, on[u] \in Handles
        PROVE  FALSE
    <2>1. op[t] \in {"clone", "downgrade"}
      BY <1>1, <1>2, <1>5 DEF Growing
    <2>2. on[t] = on[u]
      BY <1>1, <1>5, <2>1 DEF Sole
    <2>3. on[u] # NoHandle
      BY <1>5, HandlesAssumption
    <2>4. t = u
      BY <1>5, <2>2, <2>3 DEF IInv, Borrows
    <2> QED
      BY <1>1, <1>5, <2>4
  <1>6. ASSUME NEW u \in Threads,
               pc[u] \in {"mut"} \/ op[u] = "default" \/ (pc[u] = "unlock" /\ seen[u] = 1)
        PROVE  FALSE
    <2>1. Sole(on[u]) /\ NoWeak
      BY <1>6 DEF IInv, Exclusion, Locking
    <2>2. op[u] \notin Growing /\ on[u] \in Handles
      BY <1>6 DEF IInv, Shapes, Shape, Growing, TypeOK, PCs
    <2> QED
      BY <1>5, <2>1, <2>2
  <1>7. ASSUME NEW u \in Threads, Locking(u)
        PROVE  weak = Locked
    BY <1>7 DEF IInv, Exclusion
  <1>8. ~NoStrong \/ ~NoWeak
    BY <1>1, <1>2 DEF Growing
  <1>9. memory /\ \A u \in Threads : pc[u] # "dealloc"
    BY <1>8 DEF IInv, Life
  <1>10. op[t] \in {"clone", "upgrade"} => ~NoStrong
    BY <1>2, <1>3
  <1>11. op[t] \notin {"clone", "upgrade"} => \A u \in Threads : ~Locking(u)
    BY <1>4, <1>7
  <1> QED
    BY <1>1, <1>6, <1>8, <1>9, <1>10, <1>11

\* The value that marks a locked weak count is no count.
LEMMA LockedFacts ==
  Locked \in Nat /\ Locked # 1 /\ \A n \in 0..Max : n # Locked /\ n - 1 # Locked /\ n + 1 # Locked
  BY MaxAssumption DEF Locked, Max

\* Where a call's handles point, and that before an allocation no call is under
\* way.
LEMMA LentFacts ==
  ASSUME IInv
  PROVE  /\ \A u \in Threads :
              on[u] # NoHandle => on[u] \in Handles /\ held[on[u]] \in {"strong", "weak"}
         /\ \A u \in Threads : to[u] # NoHandle => to[u] \in Handles /\ held[to[u]] = "claimed"
         /\ ~memory => /\ NoStrong /\ NoWeak /\ building = NoHandle /\ weak # Locked
                       /\ \A u \in Threads : pc[u] = "idle" /\ op[u] = "none"
  <1>1. ASSUME NEW u \in Threads
        PROVE  /\ pc[u] \in PCs
               /\ on[u] # NoHandle => on[u] \in Handles /\ held[on[u]] \in {"strong", "weak"}
               /\ to[u] # NoHandle => to[u] \in Handles /\ held[to[u]] = "claimed"
    BY DEF IInv, TypeOK, Shapes, Shape, PCs
  <1>2. ASSUME ~memory
        PROVE  /\ NoStrong /\ NoWeak /\ building = NoHandle /\ weak # Locked
               /\ \A u \in Threads : pc[u] = "idle" /\ op[u] = "none"
    <2>1. NoStrong /\ NoWeak /\ building = NoHandle
      BY <1>2 DEF IInv, Life
    <2>2. ASSUME NEW u \in Threads PROVE pc[u] = "idle" /\ op[u] = "none"
      BY <1>1, <1>2, <2>1 DEF NoStrong, NoWeak, IInv, Life, Dying, Shapes, Shape, PCs
    <2>3. weak # Locked
      BY <2>2 DEF IInv, Exclusion, Locking
    <2> QED
      BY <2>1, <2>2, <2>3
  <1> QED
    BY <1>1, <1>2

\* What an increment does to the handles and to the other calls.
LEMMA IncrementEffect ==
  ASSUME IInv, NEW t \in Threads, Increment(t)
  PROVE  /\ \A g \in Handles : g # to[t] => held'[g] = held[g]
         /\ held'[to[t]] = IF op[t] \in {"clone", "upgrade"} THEN "strong" ELSE "weak"
         /\ \A u \in Threads : u # t => /\ pc'[u] = pc[u] /\ op'[u] = op[u]
                                        /\ on'[u] = on[u] /\ seen'[u] = seen[u]
         /\ pc'[t] = "idle" /\ op'[t] = "none"
         /\ weak' # Locked => weak # Locked
         /\ weak' = Locked => weak = Locked
         /\ op[t] \in {"clone", "upgrade"} => weak' = weak
         /\ UNCHANGED <<value, memory, building>>
  <1>1. to[t] \in Handles
    BY GrowerFacts
  <1>2. /\ held' = [held EXCEPT ![to[t]] = IF op[t] \in {"clone", "upgrade"} THEN "strong" ELSE "weak"]
        /\ pc' = [pc EXCEPT ![t] = "idle"] /\ op' = [op EXCEPT ![t] = "none"]
        /\ on' = [on EXCEPT ![t] = NoHandle] /\ seen' = [seen EXCEPT ![t] = 0]
        /\ UNCHANGED <<value, memory, building>>
    BY DEF Increment, Return
  <1>3. /\ weak' # Locked => weak # Locked
        /\ weak' = Locked => weak = Locked
        /\ op[t] \in {"clone", "upgrade"} => weak' = weak
    BY LockedFacts, MaxAssumption
       DEF Increment, Refused, Count, IInv, TypeOK, Max, Locked
  <1> QED
    BY <1>1, <1>2, <1>3 DEF IInv, TypeOK

\* Every step leaves each thread in the shape of a call.
LEMMA ShapesStep ==
  ASSUME IInv, Next
  PROVE  Shapes'
  <1> USE HandlesAssumption DEF IInv
  <1>1. CASE CyclicDone
    BY <1>1
       DEF TypeOK, Shapes, Shape, Borrows, Growing, CyclicDone, Unborrowed, Life,
           NoStrong
  <1>2. CASE CyclicPanics
    BY <1>2 DEF TypeOK, Shapes, Shape, Borrows, Growing, CyclicPanics
  <1>3. ASSUME NEW h \in Handles, TryNew(h)
        PROVE  Shapes'
    BY <1>3 DEF TypeOK, Shapes, Shape, Borrows, Growing, TryNew
  <1>4. ASSUME NEW h \in Handles, NewCyclic(h)
        PROVE  Shapes'
    BY <1>4 DEF TypeOK, Shapes, Shape, Borrows, Growing, NewCyclic
  <1>5. ASSUME NEW h \in Handles, WeakNew(h)
        PROVE  Shapes'
    BY <1>5 DEF TypeOK, Shapes, Shape, Borrows, Growing, WeakNew
  <1>6. ASSUME NEW h \in Handles, DropDangling(h)
        PROVE  Shapes'
    BY <1>6 DEF TypeOK, Shapes, Shape, Borrows, Growing, DropDangling
  <1>7. ASSUME NEW t \in Threads, Made(t)
        PROVE  Shapes'
    BY <1>7 DEF TypeOK, Shapes, Shape, Borrows, Growing, Made, Goto, data
  <1>8. ASSUME NEW t \in Threads, NEW h \in Handles, Giving(t, h)
        PROVE  Shapes'
    BY <1>8 DEF TypeOK, Shapes, Shape, Borrows, Growing, Giving, GiveUp, Goto, Return
  <1>9. ASSUME NEW t \in Threads, Load(t)
        PROVE  Shapes'
    BY <1>9 DEF TypeOK, Shapes, Shape, Borrows, Growing, Load, Goto, data
  <1>10. ASSUME NEW t \in Threads, Refuse(t)
         PROVE  Shapes'
    BY <1>10 DEF TypeOK, Shapes, Shape, Borrows, Growing, Refuse, Return
  <1>11. ASSUME NEW t \in Threads, Retry(t)
         PROVE  Shapes'
    BY <1>11 DEF TypeOK, Shapes, Shape, Borrows, Growing, Retry, data
  <1>12. ASSUME NEW t \in Threads, Increment(t)
         PROVE  Shapes'
    BY <1>12 DEF TypeOK, Shapes, Shape, Borrows, Growing, Increment, Return
  <1>13. ASSUME NEW t \in Threads, ValueDropped(t)
         PROVE  Shapes'
    BY <1>13 DEF TypeOK, Shapes, Shape, Borrows, Growing, ValueDropped, Goto
  <1>14. ASSUME NEW t \in Threads, Release(t)
         PROVE  Shapes'
    BY <1>14 DEF TypeOK, Shapes, Shape, Borrows, Growing, Release, Lower, Goto, Return
  <1>15. ASSUME NEW t \in Threads, Dealloc(t)
         PROVE  Shapes'
    BY <1>15 DEF TypeOK, Shapes, Shape, Borrows, Growing, Dealloc, Return
  <1>16. ASSUME NEW t \in Threads, LockWeak(t)
         PROVE  Shapes'
    BY <1>16 DEF TypeOK, Shapes, Shape, Borrows, Growing, LockWeak, Shared, Goto, Return
  <1>17. ASSUME NEW t \in Threads, CheckStrong(t)
         PROVE  Shapes'
    BY <1>17 DEF TypeOK, Shapes, Shape, Borrows, Growing, CheckStrong, Goto, data
  <1>18. ASSUME NEW t \in Threads, UnlockWeak(t)
         PROVE  Shapes'
    BY <1>18
       DEF TypeOK, Shapes, Shape, Borrows, Growing, UnlockWeak, Shared, Goto, Return
  <1>19. ASSUME NEW t \in Threads, EndMut(t)
         PROVE  Shapes'
    BY <1>19 DEF TypeOK, Shapes, Shape, Borrows, Growing, EndMut, Return
  <1>20. ASSUME NEW t \in Threads, TryUnwrap(t)
         PROVE  Shapes'
    BY <1>20 DEF TypeOK, Shapes, Shape, Borrows, Growing, TryUnwrap, Goto
  <1>21. ASSUME NEW t \in Threads, CopyFails(t)
         PROVE  Shapes'
    BY <1>21 DEF TypeOK, Shapes, Shape, Borrows, Growing, CopyFails, Return, data
  <1>22. ASSUME NEW t \in Threads, NEW h \in Handles, TryDefault(t, h)
         PROVE  Shapes'
    BY <1>22 DEF TypeOK, Shapes, Shape, Borrows, Growing, TryDefault, Goto
  <1>23. ASSUME NEW t \in Threads, NEW o \in Growing, NEW h \in Handles, NEW n \in Handles,
                Begin(t, o, h, n)
         PROVE  Shapes'
    BY <1>23 DEF TypeOK, Shapes, Shape, Borrows, Growing, Begin, Goto, Borrowable
  <1>24. ASSUME NEW t \in Threads, NEW h \in Handles, DropWeak(t, h)
         PROVE  Shapes'
    BY <1>24
       DEF TypeOK, Shapes, Shape, Borrows, Growing, DropWeak, Lower, Goto, Return,
           Unborrowed
  <1>25. ASSUME NEW t \in Threads, NEW o \in {"get_mut", "unwrap"}, NEW h \in Handles,
                BeginExclusive(t, o, h)
         PROVE  Shapes'
    BY <1>25 DEF TypeOK, Shapes, Shape, Borrows, Growing, BeginExclusive, Goto, data
  <1> QED
    BY NextCases, <1>1, <1>2, <1>3, <1>4, <1>5, <1>6, <1>7, <1>8, <1>9, <1>10, <1>11,
       <1>12, <1>13, <1>14, <1>15, <1>16, <1>17, <1>18, <1>19, <1>20, <1>21, <1>22,
       <1>23, <1>24, <1>25

\* No step lends twice what an exclusive call works on.
LEMMA BorrowsStep ==
  ASSUME IInv, Next
  PROVE  Borrows'
  <1> USE HandlesAssumption DEF IInv
  <1>1. CASE CyclicDone
    BY <1>1 DEF TypeOK, Shapes, Shape, Borrows, Growing, CyclicDone
  <1>2. CASE CyclicPanics
    BY <1>2 DEF TypeOK, Shapes, Shape, Borrows, Growing, CyclicPanics
  <1>3. ASSUME NEW h \in Handles, TryNew(h)
        PROVE  Borrows'
    BY <1>3 DEF TypeOK, Shapes, Shape, Borrows, Growing, TryNew
  <1>4. ASSUME NEW h \in Handles, NewCyclic(h)
        PROVE  Borrows'
    BY <1>4 DEF TypeOK, Shapes, Shape, Borrows, Growing, NewCyclic, Life, NoWeak
  <1>5. ASSUME NEW h \in Handles, WeakNew(h)
        PROVE  Borrows'
    BY <1>5 DEF TypeOK, Shapes, Shape, Borrows, Growing, WeakNew
  <1>6. ASSUME NEW h \in Handles, DropDangling(h)
        PROVE  Borrows'
    BY <1>6 DEF TypeOK, Shapes, Shape, Borrows, Growing, DropDangling
  <1>7. ASSUME NEW t \in Threads, Made(t)
        PROVE  Borrows'
    BY <1>7 DEF TypeOK, Shapes, Shape, Borrows, Growing, Made, Goto, data
  <1>8. ASSUME NEW t \in Threads, NEW h \in Handles, Giving(t, h)
        PROVE  Borrows'
    BY <1>8
       DEF TypeOK, Shapes, Shape, Borrows, Growing, Giving, GiveUp, Goto, Return, Life,
           NoStrong
  <1>9. ASSUME NEW t \in Threads, Load(t)
        PROVE  Borrows'
    BY <1>9 DEF TypeOK, Shapes, Shape, Borrows, Growing, Load, Goto, data
  <1>10. ASSUME NEW t \in Threads, Refuse(t)
         PROVE  Borrows'
    BY <1>10 DEF TypeOK, Shapes, Shape, Borrows, Growing, Refuse, Return
  <1>11. ASSUME NEW t \in Threads, Retry(t)
         PROVE  Borrows'
    BY <1>11 DEF TypeOK, Shapes, Shape, Borrows, Growing, Retry, data
  <1>12. ASSUME NEW t \in Threads, Increment(t)
         PROVE  Borrows'
    BY <1>12 DEF TypeOK, Shapes, Shape, Borrows, Growing, Increment, Return
  <1>13. ASSUME NEW t \in Threads, ValueDropped(t)
         PROVE  Borrows'
    BY <1>13 DEF TypeOK, Shapes, Shape, Borrows, Growing, ValueDropped, Goto
  <1>14. ASSUME NEW t \in Threads, Release(t)
         PROVE  Borrows'
    BY <1>14 DEF TypeOK, Shapes, Shape, Borrows, Growing, Release, Lower, Goto, Return
  <1>15. ASSUME NEW t \in Threads, Dealloc(t)
         PROVE  Borrows'
    BY <1>15 DEF TypeOK, Shapes, Shape, Borrows, Growing, Dealloc, Return
  <1>16. ASSUME NEW t \in Threads, LockWeak(t)
         PROVE  Borrows'
    BY <1>16 DEF TypeOK, Shapes, Shape, Borrows, Growing, LockWeak, Shared, Goto, Return
  <1>17. ASSUME NEW t \in Threads, CheckStrong(t)
         PROVE  Borrows'
    BY <1>17 DEF TypeOK, Shapes, Shape, Borrows, Growing, CheckStrong, Goto, data
  <1>18. ASSUME NEW t \in Threads, UnlockWeak(t)
         PROVE  Borrows'
    BY <1>18
       DEF TypeOK, Shapes, Shape, Borrows, Growing, UnlockWeak, Shared, Goto, Return
  <1>19. ASSUME NEW t \in Threads, EndMut(t)
         PROVE  Borrows'
    BY <1>19 DEF TypeOK, Shapes, Shape, Borrows, Growing, EndMut, Return
  <1>20. ASSUME NEW t \in Threads, TryUnwrap(t)
         PROVE  Borrows'
    BY <1>20
       DEF TypeOK, Shapes, Shape, Borrows, Growing, TryUnwrap, Goto, Life, NoStrong
  <1>21. ASSUME NEW t \in Threads, CopyFails(t)
         PROVE  Borrows'
    BY <1>21 DEF TypeOK, Shapes, Shape, Borrows, Growing, CopyFails, Return, data
  <1>22. ASSUME NEW t \in Threads, NEW h \in Handles, TryDefault(t, h)
         PROVE  Borrows'
    BY <1>22, LentFacts
       DEF TypeOK, Borrows, Borrowable, Growing, NoStrong, NoWeak, TryDefault, Goto
  <1>23. ASSUME NEW t \in Threads, NEW o \in Growing, NEW h \in Handles, NEW n \in Handles,
                Begin(t, o, h, n)
         PROVE  Borrows'
    BY <1>23, LentFacts
       DEF TypeOK, Borrows, Borrowable, Growing, NoStrong, NoWeak, Begin, Goto
  <1>24. ASSUME NEW t \in Threads, NEW h \in Handles, DropWeak(t, h)
         PROVE  Borrows'
    BY <1>24
       DEF TypeOK, Shapes, Shape, Borrows, Growing, DropWeak, Lower, Goto, Return,
           Unborrowed
  <1>25. ASSUME NEW t \in Threads, NEW o \in {"get_mut", "unwrap"}, NEW h \in Handles,
                BeginExclusive(t, o, h)
         PROVE  Borrows'
    BY <1>25
       DEF TypeOK, Shapes, Shape, Borrows, Growing, BeginExclusive, Goto, data,
           Unborrowed
  <1> QED
    BY NextCases, <1>1, <1>2, <1>3, <1>4, <1>5, <1>6, <1>7, <1>8, <1>9, <1>10, <1>11,
       <1>12, <1>13, <1>14, <1>15, <1>16, <1>17, <1>18, <1>19, <1>20, <1>21, <1>22,
       <1>23, <1>24, <1>25

\* The value and the allocation still end in one thread's hands.
LEMMA LifeStep ==
  ASSUME IInv, Next
  PROVE  Life'
  <1> USE HandlesAssumption DEF IInv
  <1>1. CASE CyclicDone
    BY <1>1, CountFacts
       DEF TypeOK, Shapes, Shape, Borrows, Life, Exclusion, NoStrong, NoWeak, Sole,
           Dying, Locking, Growing, CyclicDone
  <1>2. CASE CyclicPanics
    BY <1>2, CountFacts
       DEF TypeOK, Shapes, Shape, Borrows, Life, Exclusion, NoStrong, NoWeak, Sole,
           Dying, Locking, Growing, CyclicPanics
  <1>3. ASSUME NEW h \in Handles, TryNew(h)
        PROVE  Life'
    BY <1>3, LockedFacts, CountFacts
       DEF TypeOK, Shapes, Shape, Borrows, Life, Exclusion, NoStrong, NoWeak, Sole,
           Dying, Locking, Growing, TryNew
  <1>4. ASSUME NEW h \in Handles, NewCyclic(h)
        PROVE  Life'
    BY <1>4, LockedFacts, CountFacts
       DEF TypeOK, Shapes, Shape, Borrows, Life, Exclusion, NoStrong, NoWeak, Sole,
           Dying, Locking, Growing, NewCyclic
  <1>5. ASSUME NEW h \in Handles, WeakNew(h)
        PROVE  Life'
    BY <1>5, CountFacts
       DEF TypeOK, Shapes, Shape, Borrows, Life, Exclusion, NoStrong, NoWeak, Sole,
           Dying, Locking, Growing, WeakNew
  <1>6. ASSUME NEW h \in Handles, DropDangling(h)
        PROVE  Life'
    BY <1>6, CountFacts
       DEF TypeOK, Shapes, Shape, Borrows, Life, Exclusion, NoStrong, NoWeak, Sole,
           Dying, Locking, Growing, DropDangling
  <1>7. ASSUME NEW t \in Threads, Made(t)
        PROVE  Life'
    BY <1>7, CountFacts
       DEF TypeOK, Shapes, Shape, Borrows, Life, Exclusion, NoStrong, NoWeak, Sole,
           Dying, Locking, Growing, Made, Goto, data
  <1>8. ASSUME NEW t \in Threads, NEW h \in Handles, Giving(t, h)
        PROVE  Life'
    BY <1>8, CountFacts
       DEF TypeOK, Shapes, Shape, Borrows, Life, Exclusion, NoStrong, NoWeak, Sole,
           Dying, Locking, Growing, Giving, GiveUp, Goto, Return
  <1>9. ASSUME NEW t \in Threads, Load(t)
        PROVE  Life'
    BY <1>9, CountFacts
       DEF TypeOK, Shapes, Shape, Borrows, Life, Exclusion, NoStrong, NoWeak, Sole,
           Dying, Locking, Growing, Load, Goto, data
  <1>10. ASSUME NEW t \in Threads, Refuse(t)
         PROVE  Life'
    BY <1>10, CountFacts
       DEF TypeOK, Shapes, Shape, Borrows, Life, Exclusion, NoStrong, NoWeak, Sole,
           Dying, Locking, Growing, Refuse, Return
  <1>11. ASSUME NEW t \in Threads, Retry(t)
         PROVE  Life'
    BY <1>11, CountFacts
       DEF TypeOK, Shapes, Shape, Borrows, Life, Exclusion, NoStrong, NoWeak, Sole,
           Dying, Locking, Growing, Retry, data
  <1>12. ASSUME NEW t \in Threads, Increment(t)
         PROVE  Life'
    BY <1>12, GrowerFacts, IncrementEffect DEF Life, Dying, NoStrong, NoWeak
  <1>13. ASSUME NEW t \in Threads, ValueDropped(t)
         PROVE  Life'
    BY <1>13, CountFacts
       DEF TypeOK, Shapes, Shape, Borrows, Life, Exclusion, NoStrong, NoWeak, Sole,
           Dying, Locking, Growing, ValueDropped, Goto
  <1>14. ASSUME NEW t \in Threads, Release(t)
         PROVE  Life'
    BY <1>14, LockedFacts, CountFacts
       DEF TypeOK, Shapes, Shape, Borrows, Life, Exclusion, NoStrong, NoWeak, Sole,
           Dying, Locking, Growing, Release, Lower, Goto, Return
  <1>15. ASSUME NEW t \in Threads, Dealloc(t)
         PROVE  Life'
    BY <1>15, CountFacts
       DEF TypeOK, Shapes, Shape, Borrows, Life, Exclusion, NoStrong, NoWeak, Sole,
           Dying, Locking, Growing, Dealloc, Return
  <1>16. ASSUME NEW t \in Threads, LockWeak(t)
         PROVE  Life'
    BY <1>16, LockedFacts, CountFacts
       DEF TypeOK, Shapes, Shape, Borrows, Life, Exclusion, NoStrong, NoWeak, Sole,
           Dying, Locking, Growing, LockWeak, Shared, Goto, Return
  <1>17. ASSUME NEW t \in Threads, CheckStrong(t)
         PROVE  Life'
    BY <1>17, CountFacts
       DEF TypeOK, Shapes, Shape, Borrows, Life, Exclusion, NoStrong, NoWeak, Sole,
           Dying, Locking, Growing, CheckStrong, Goto, data
  <1>18. ASSUME NEW t \in Threads, UnlockWeak(t)
         PROVE  Life'
    BY <1>18, LockedFacts, CountFacts
       DEF TypeOK, Shapes, Shape, Borrows, Life, Exclusion, NoStrong, NoWeak, Sole,
           Dying, Locking, Growing, UnlockWeak, Shared, Goto, Return
  <1>19. ASSUME NEW t \in Threads, EndMut(t)
         PROVE  Life'
    BY <1>19, CountFacts
       DEF TypeOK, Shapes, Shape, Borrows, Life, Exclusion, NoStrong, NoWeak, Sole,
           Dying, Locking, Growing, EndMut, Return
  <1>20. ASSUME NEW t \in Threads, TryUnwrap(t)
         PROVE  Life'
    BY <1>20, CountFacts
       DEF TypeOK, Shapes, Shape, Borrows, Life, Exclusion, NoStrong, NoWeak, Sole,
           Dying, Locking, Growing, TryUnwrap, Goto
  <1>21. ASSUME NEW t \in Threads, CopyFails(t)
         PROVE  Life'
    BY <1>21, CountFacts
       DEF TypeOK, Shapes, Shape, Borrows, Life, Exclusion, NoStrong, NoWeak, Sole,
           Dying, Locking, Growing, CopyFails, Return, data
  <1>22. ASSUME NEW t \in Threads, NEW h \in Handles, TryDefault(t, h)
         PROVE  Life'
    BY <1>22, LockedFacts, CountFacts
       DEF TypeOK, Shapes, Shape, Borrows, Life, Exclusion, NoStrong, NoWeak, Sole,
           Dying, Locking, Growing, TryDefault, Goto
  <1>23. ASSUME NEW t \in Threads, NEW o \in Growing, NEW h \in Handles, NEW n \in Handles,
                Begin(t, o, h, n)
         PROVE  Life'
    BY <1>23, CountFacts
       DEF TypeOK, Shapes, Shape, Borrows, Life, Exclusion, NoStrong, NoWeak, Sole,
           Dying, Locking, Growing, Begin, Goto
  <1>24. ASSUME NEW t \in Threads, NEW h \in Handles, DropWeak(t, h)
         PROVE  Life'
    BY <1>24, LockedFacts, CountFacts
       DEF TypeOK, Shapes, Shape, Borrows, Life, Exclusion, NoStrong, NoWeak, Sole,
           Dying, Locking, Growing, DropWeak, Lower, Goto, Return
  <1>25. ASSUME NEW t \in Threads, NEW o \in {"get_mut", "unwrap"}, NEW h \in Handles,
                BeginExclusive(t, o, h)
         PROVE  Life'
    BY <1>25, CountFacts
       DEF TypeOK, Shapes, Shape, Borrows, Life, Exclusion, NoStrong, NoWeak, Sole,
           Dying, Locking, Growing, BeginExclusive, Goto, data
  <1> QED
    BY NextCases, <1>1, <1>2, <1>3, <1>4, <1>5, <1>6, <1>7, <1>8, <1>9, <1>10, <1>11,
       <1>12, <1>13, <1>14, <1>15, <1>16, <1>17, <1>18, <1>19, <1>20, <1>21, <1>22,
       <1>23, <1>24, <1>25

\* A thread that found both counts to be one stays alone.
LEMMA ExclusionStep ==
  ASSUME IInv, Next
  PROVE  Exclusion'
  <1> USE HandlesAssumption DEF IInv
  <1>1. CASE CyclicDone
    BY <1>1, CountFacts
       DEF TypeOK, Shapes, Shape, Borrows, Life, Exclusion, NoStrong, NoWeak, Sole,
           Dying, Locking, Growing, CyclicDone
  <1>2. CASE CyclicPanics
    BY <1>2, CountFacts
       DEF TypeOK, Shapes, Shape, Borrows, Life, Exclusion, NoStrong, NoWeak, Sole,
           Dying, Locking, Growing, CyclicPanics
  <1>3. ASSUME NEW h \in Handles, TryNew(h)
        PROVE  Exclusion'
    BY <1>3, LentFacts, LockedFacts
       DEF TypeOK, Exclusion, Sole, Locking, NoStrong, NoWeak, TryNew
  <1>4. ASSUME NEW h \in Handles, NewCyclic(h)
        PROVE  Exclusion'
    BY <1>4, LentFacts, LockedFacts
       DEF TypeOK, Exclusion, Sole, Locking, NoStrong, NoWeak, NewCyclic
  <1>5. ASSUME NEW h \in Handles, WeakNew(h)
        PROVE  Exclusion'
    BY <1>5, CountFacts
       DEF TypeOK, Shapes, Shape, Borrows, Life, Exclusion, NoStrong, NoWeak, Sole,
           Dying, Locking, Growing, WeakNew
  <1>6. ASSUME NEW h \in Handles, DropDangling(h)
        PROVE  Exclusion'
    BY <1>6, CountFacts
       DEF TypeOK, Shapes, Shape, Borrows, Life, Exclusion, NoStrong, NoWeak, Sole,
           Dying, Locking, Growing, DropDangling
  <1>7. ASSUME NEW t \in Threads, Made(t)
        PROVE  Exclusion'
    BY <1>7, CountFacts
       DEF TypeOK, Shapes, Shape, Borrows, Life, Exclusion, NoStrong, NoWeak, Sole,
           Dying, Locking, Growing, Made, Goto, data
  <1>8. ASSUME NEW t \in Threads, NEW h \in Handles, Giving(t, h)
        PROVE  Exclusion'
    BY <1>8, CountFacts
       DEF TypeOK, Shapes, Shape, Borrows, Life, Exclusion, NoStrong, NoWeak, Sole,
           Dying, Locking, Growing, Giving, GiveUp, Goto, Return
  <1>9. ASSUME NEW t \in Threads, Load(t)
        PROVE  Exclusion'
    BY <1>9, CountFacts
       DEF TypeOK, Shapes, Shape, Borrows, Life, Exclusion, NoStrong, NoWeak, Sole,
           Dying, Locking, Growing, Load, Goto, data
  <1>10. ASSUME NEW t \in Threads, Refuse(t)
         PROVE  Exclusion'
    BY <1>10, CountFacts
       DEF TypeOK, Shapes, Shape, Borrows, Life, Exclusion, NoStrong, NoWeak, Sole,
           Dying, Locking, Growing, Refuse, Return
  <1>11. ASSUME NEW t \in Threads, Retry(t)
         PROVE  Exclusion'
    BY <1>11, CountFacts
       DEF TypeOK, Shapes, Shape, Borrows, Life, Exclusion, NoStrong, NoWeak, Sole,
           Dying, Locking, Growing, Retry, data
  <1>12. ASSUME NEW t \in Threads, Increment(t)
         PROVE  Exclusion'
    <2>1. /\ \A u \in Threads : pc'[u] = "idle" \/ (u # t /\ pc'[u] = pc[u] /\ seen'[u] = seen[u])
          /\ \A u \in Threads : op'[u] = "none" \/ op'[u] = op[u]
      BY <1>12, IncrementEffect
    <2>2. \A u \in Threads : Locking(u)' => Locking(u)
      BY <2>1 DEF Locking
    <2>3. \A u \in Threads : Locking(u) => Locking(u)'
      BY <1>12, IncrementEffect DEF Locking, Increment
    <2>4. \A u \in Threads :
            /\ pc'[u] # "mut" /\ op'[u] # "default" /\ pc'[u] # "panic"
            /\ ~(pc'[u] = "unlock" /\ seen'[u] = 1)
      BY <1>12, <2>1, GrowerFacts DEF Exclusion
    <2>5. ASSUME NEW u \in Threads, Locking(u)
          PROVE  weak' = Locked /\ NoWeak'
      <3>1. op[t] \in {"clone", "upgrade"} /\ weak = Locked /\ NoWeak
        BY <1>12, <2>5, GrowerFacts DEF Exclusion
      <3> QED
        BY <1>12, <3>1, IncrementEffect DEF NoWeak
    <2>6. \A u, v \in Threads : Locking(u)' /\ Locking(v)' => u = v
      BY <2>2 DEF Exclusion
    <2>7. weak' = Locked => \E u \in Threads : Locking(u)'
      BY <1>12, <2>3, IncrementEffect DEF Exclusion
    <2> QED
      BY <2>2, <2>4, <2>5, <2>6, <2>7, LockedFacts DEF Exclusion
  <1>13. ASSUME NEW t \in Threads, ValueDropped(t)
         PROVE  Exclusion'
    BY <1>13, CountFacts
       DEF TypeOK, Shapes, Shape, Borrows, Life, Exclusion, NoStrong, NoWeak, Sole,
           Dying, Locking, Growing, ValueDropped, Goto
  <1>14. ASSUME NEW t \in Threads, Release(t)
         PROVE  Exclusion'
    BY <1>14, LockedFacts, CountFacts
       DEF TypeOK, Shapes, Shape, Borrows, Life, Exclusion, NoStrong, NoWeak, Sole,
           Dying, Locking, Growing, Release, Lower, Goto, Return
  <1>15. ASSUME NEW t \in Threads, Dealloc(t)
         PROVE  Exclusion'
    BY <1>15, CountFacts
       DEF TypeOK, Shapes, Shape, Borrows, Life, Exclusion, NoStrong, NoWeak, Sole,
           Dying, Locking, Growing, Dealloc, Return
  <1>16. ASSUME NEW t \in Threads, LockWeak(t)
         PROVE  Exclusion'
    BY <1>16, LockedFacts, CountFacts
       DEF TypeOK, Shapes, Shape, Borrows, Life, Exclusion, NoStrong, NoWeak, Sole,
           Dying, Locking, Growing, LockWeak, Shared, Goto, Return
  <1>17. ASSUME NEW t \in Threads, CheckStrong(t)
         PROVE  Exclusion'
    BY <1>17, CountFacts
       DEF TypeOK, Shapes, Shape, Borrows, Life, Exclusion, NoStrong, NoWeak, Sole,
           Dying, Locking, Growing, CheckStrong, Goto, data
  <1>18. ASSUME NEW t \in Threads, UnlockWeak(t)
         PROVE  Exclusion'
    BY <1>18, LockedFacts, CountFacts
       DEF TypeOK, Shapes, Shape, Borrows, Life, Exclusion, NoStrong, NoWeak, Sole,
           Dying, Locking, Growing, UnlockWeak, Shared, Goto, Return
  <1>19. ASSUME NEW t \in Threads, EndMut(t)
         PROVE  Exclusion'
    BY <1>19, CountFacts
       DEF TypeOK, Shapes, Shape, Borrows, Life, Exclusion, NoStrong, NoWeak, Sole,
           Dying, Locking, Growing, EndMut, Return
  <1>20. ASSUME NEW t \in Threads, TryUnwrap(t)
         PROVE  Exclusion'
    BY <1>20, CountFacts
       DEF TypeOK, Shapes, Shape, Borrows, Life, Exclusion, NoStrong, NoWeak, Sole,
           Dying, Locking, Growing, TryUnwrap, Goto
  <1>21. ASSUME NEW t \in Threads, CopyFails(t)
         PROVE  Exclusion'
    BY <1>21, CountFacts
       DEF TypeOK, Shapes, Shape, Borrows, Life, Exclusion, NoStrong, NoWeak, Sole,
           Dying, Locking, Growing, CopyFails, Return, data
  <1>22. ASSUME NEW t \in Threads, NEW h \in Handles, TryDefault(t, h)
         PROVE  Exclusion'
    BY <1>22, LentFacts, LockedFacts
       DEF TypeOK, Exclusion, Sole, Locking, NoStrong, NoWeak, TryDefault, Goto
  <1>23. ASSUME NEW t \in Threads, NEW o \in Growing, NEW h \in Handles, NEW n \in Handles,
                Begin(t, o, h, n)
         PROVE  Exclusion'
    BY <1>23, CountFacts
       DEF TypeOK, Shapes, Shape, Borrows, Life, Exclusion, NoStrong, NoWeak, Sole,
           Dying, Locking, Growing, Begin, Goto
  <1>24. ASSUME NEW t \in Threads, NEW h \in Handles, DropWeak(t, h)
         PROVE  Exclusion'
    BY <1>24, LockedFacts, CountFacts
       DEF TypeOK, Shapes, Shape, Borrows, Life, Exclusion, NoStrong, NoWeak, Sole,
           Dying, Locking, Growing, DropWeak, Lower, Goto, Return
  <1>25. ASSUME NEW t \in Threads, NEW o \in {"get_mut", "unwrap"}, NEW h \in Handles,
                BeginExclusive(t, o, h)
         PROVE  Exclusion'
    BY <1>25, CountFacts
       DEF TypeOK, Shapes, Shape, Borrows, Life, Exclusion, NoStrong, NoWeak, Sole,
           Dying, Locking, Growing, BeginExclusive, Goto, data
  <1> QED
    BY NextCases, <1>1, <1>2, <1>3, <1>4, <1>5, <1>6, <1>7, <1>8, <1>9, <1>10, <1>11,
       <1>12, <1>13, <1>14, <1>15, <1>16, <1>17, <1>18, <1>19, <1>20, <1>21, <1>22,
       <1>23, <1>24, <1>25

\* The value outlives the strong handles by one drop, and never its memory.
LEMMA ValuesStep ==
  ASSUME IInv, Next
  PROVE  Values'
  <1> USE HandlesAssumption DEF IInv
  <1>1. CASE CyclicDone
    BY <1>1, CountFacts
       DEF TypeOK, Shapes, Shape, Borrows, Life, Exclusion, Values, NoStrong, NoWeak,
           Sole, Dying, Locking, Growing, CyclicDone
  <1>2. CASE CyclicPanics
    BY <1>2, CountFacts
       DEF TypeOK, Shapes, Shape, Borrows, Life, Exclusion, Values, NoStrong, NoWeak,
           Sole, Dying, Locking, Growing, CyclicPanics
  <1>3. ASSUME NEW h \in Handles, TryNew(h)
        PROVE  Values'
    BY <1>3, LockedFacts, CountFacts
       DEF TypeOK, Shapes, Shape, Borrows, Life, Exclusion, Values, NoStrong, NoWeak,
           Sole, Dying, Locking, Growing, TryNew
  <1>4. ASSUME NEW h \in Handles, NewCyclic(h)
        PROVE  Values'
    BY <1>4, LockedFacts, CountFacts
       DEF TypeOK, Shapes, Shape, Borrows, Life, Exclusion, Values, NoStrong, NoWeak,
           Sole, Dying, Locking, Growing, NewCyclic
  <1>5. ASSUME NEW h \in Handles, WeakNew(h)
        PROVE  Values'
    BY <1>5, CountFacts
       DEF TypeOK, Shapes, Shape, Borrows, Life, Exclusion, Values, NoStrong, NoWeak,
           Sole, Dying, Locking, Growing, WeakNew
  <1>6. ASSUME NEW h \in Handles, DropDangling(h)
        PROVE  Values'
    BY <1>6, CountFacts
       DEF TypeOK, Shapes, Shape, Borrows, Life, Exclusion, Values, NoStrong, NoWeak,
           Sole, Dying, Locking, Growing, DropDangling
  <1>7. ASSUME NEW t \in Threads, Made(t)
        PROVE  Values'
    BY <1>7, CountFacts
       DEF TypeOK, Shapes, Shape, Borrows, Life, Exclusion, Values, NoStrong, NoWeak,
           Sole, Dying, Locking, Growing, Made, Goto, data
  <1>8. ASSUME NEW t \in Threads, NEW h \in Handles, Giving(t, h)
        PROVE  Values'
    BY <1>8, CountFacts
       DEF TypeOK, Shapes, Shape, Borrows, Life, Exclusion, Values, NoStrong, NoWeak,
           Sole, Dying, Locking, Growing, Giving, GiveUp, Goto, Return
  <1>9. ASSUME NEW t \in Threads, Load(t)
        PROVE  Values'
    BY <1>9, CountFacts
       DEF TypeOK, Shapes, Shape, Borrows, Life, Exclusion, Values, NoStrong, NoWeak,
           Sole, Dying, Locking, Growing, Load, Goto, data
  <1>10. ASSUME NEW t \in Threads, Refuse(t)
         PROVE  Values'
    BY <1>10, CountFacts
       DEF TypeOK, Shapes, Shape, Borrows, Life, Exclusion, Values, NoStrong, NoWeak,
           Sole, Dying, Locking, Growing, Refuse, Return
  <1>11. ASSUME NEW t \in Threads, Retry(t)
         PROVE  Values'
    BY <1>11, CountFacts
       DEF TypeOK, Shapes, Shape, Borrows, Life, Exclusion, Values, NoStrong, NoWeak,
           Sole, Dying, Locking, Growing, Retry, data
  <1>12. ASSUME NEW t \in Threads, Increment(t)
         PROVE  Values'
    <2>1. NoStrong' <=> NoStrong
      BY <1>12, GrowerFacts, IncrementEffect DEF NoStrong
    <2>2. \A u \in Threads :
            /\ pc[u] = "dropping" => pc'[u] = "dropping"
            /\ op'[u] = "none" \/ op'[u] = op[u]
      BY <1>12, IncrementEffect DEF Increment
    <2>3. value' = value /\ memory' = memory /\ building' = building
      BY <1>12, IncrementEffect
    <2>4. ~NoStrong' => value' \in {"raw", "live"}
      BY <2>1, <2>3 DEF Values
    <2>5. value' = "live" => ~NoStrong' \/ \E u \in Threads : pc'[u] = "dropping"
      BY <2>1, <2>2, <2>3 DEF Values
    <2>6. \A u \in Threads :
            /\ op'[u] = "unwrap" => value' = "live"
            /\ op'[u] = "default" => value' = "raw"
      BY <2>2, <2>3 DEF Values
    <2>7. building' # NoHandle => value' = "raw"
      BY <2>3 DEF Values
    <2>8. ~memory' => value' = "none"
      BY <2>3 DEF Values
    <2> QED
      BY <2>4, <2>5, <2>6, <2>7, <2>8 DEF Values
  <1>13. ASSUME NEW t \in Threads, ValueDropped(t)
         PROVE  Values'
    BY <1>13, CountFacts
       DEF TypeOK, Shapes, Shape, Borrows, Life, Exclusion, Values, NoStrong, NoWeak,
           Sole, Dying, Locking, Growing, ValueDropped, Goto
  <1>14. ASSUME NEW t \in Threads, Release(t)
         PROVE  Values'
    BY <1>14, LockedFacts, CountFacts
       DEF TypeOK, Shapes, Shape, Borrows, Life, Exclusion, Values, NoStrong, NoWeak,
           Sole, Dying, Locking, Growing, Release, Lower, Goto, Return
  <1>15. ASSUME NEW t \in Threads, Dealloc(t)
         PROVE  Values'
    BY <1>15, LentFacts
       DEF TypeOK, Shapes, Shape, Borrows, Life, Values, NoStrong, NoWeak, PCs, Dying,
           Return, Dealloc
  <1>16. ASSUME NEW t \in Threads, LockWeak(t)
         PROVE  Values'
    BY <1>16, LockedFacts, CountFacts
       DEF TypeOK, Shapes, Shape, Borrows, Life, Exclusion, Values, NoStrong, NoWeak,
           Sole, Dying, Locking, Growing, LockWeak, Shared, Goto, Return
  <1>17. ASSUME NEW t \in Threads, CheckStrong(t)
         PROVE  Values'
    BY <1>17, CountFacts
       DEF TypeOK, Shapes, Shape, Borrows, Life, Exclusion, Values, NoStrong, NoWeak,
           Sole, Dying, Locking, Growing, CheckStrong, Goto, data
  <1>18. ASSUME NEW t \in Threads, UnlockWeak(t)
         PROVE  Values'
    BY <1>18, LockedFacts, CountFacts
       DEF TypeOK, Shapes, Shape, Borrows, Life, Exclusion, Values, NoStrong, NoWeak,
           Sole, Dying, Locking, Growing, UnlockWeak, Shared, Goto, Return
  <1>19. ASSUME NEW t \in Threads, EndMut(t)
         PROVE  Values'
    BY <1>19, CountFacts
       DEF TypeOK, Shapes, Shape, Borrows, Life, Exclusion, Values, NoStrong, NoWeak,
           Sole, Dying, Locking, Growing, EndMut, Return
  <1>20. ASSUME NEW t \in Threads, TryUnwrap(t)
         PROVE  Values'
    BY <1>20, CountFacts
       DEF TypeOK, Shapes, Shape, Borrows, Life, Exclusion, Values, NoStrong, NoWeak,
           Sole, Dying, Locking, Growing, TryUnwrap, Goto
  <1>21. ASSUME NEW t \in Threads, CopyFails(t)
         PROVE  Values'
    BY <1>21, CountFacts
       DEF TypeOK, Shapes, Shape, Borrows, Life, Exclusion, Values, NoStrong, NoWeak,
           Sole, Dying, Locking, Growing, CopyFails, Return, data
  <1>22. ASSUME NEW t \in Threads, NEW h \in Handles, TryDefault(t, h)
         PROVE  Values'
    BY <1>22, LockedFacts, CountFacts
       DEF TypeOK, Shapes, Shape, Borrows, Life, Exclusion, Values, NoStrong, NoWeak,
           Sole, Dying, Locking, Growing, TryDefault, Goto
  <1>23. ASSUME NEW t \in Threads, NEW o \in Growing, NEW h \in Handles, NEW n \in Handles,
                Begin(t, o, h, n)
         PROVE  Values'
    BY <1>23, CountFacts
       DEF TypeOK, Shapes, Shape, Borrows, Life, Exclusion, Values, NoStrong, NoWeak,
           Sole, Dying, Locking, Growing, Begin, Goto
  <1>24. ASSUME NEW t \in Threads, NEW h \in Handles, DropWeak(t, h)
         PROVE  Values'
    BY <1>24, LockedFacts, CountFacts
       DEF TypeOK, Shapes, Shape, Borrows, Life, Exclusion, Values, NoStrong, NoWeak,
           Sole, Dying, Locking, Growing, DropWeak, Lower, Goto, Return
  <1>25. ASSUME NEW t \in Threads, NEW o \in {"get_mut", "unwrap"}, NEW h \in Handles,
                BeginExclusive(t, o, h)
         PROVE  Values'
    BY <1>25, CountFacts
       DEF TypeOK, Shapes, Shape, Borrows, Life, Exclusion, Values, NoStrong, NoWeak,
           Sole, Dying, Locking, Growing, BeginExclusive, Goto, data
  <1> QED
    BY NextCases, <1>1, <1>2, <1>3, <1>4, <1>5, <1>6, <1>7, <1>8, <1>9, <1>10, <1>11,
       <1>12, <1>13, <1>14, <1>15, <1>16, <1>17, <1>18, <1>19, <1>20, <1>21, <1>22,
       <1>23, <1>24, <1>25

\* The counts stay within the limit and above zero.
LEMMA TypeStep ==
  ASSUME IInv, Next
  PROVE  TypeOK'
  <1> USE DEF IInv
  <1>1. CASE CyclicDone
    BY <1>1, LockedFacts, CountFacts, MaxAssumption
       DEF TypeOK, Shapes, Shape, Dying, PCs, Ops, Growing, NoStrong, Max, CyclicDone
  <1>2. CASE CyclicPanics
    BY <1>2, LockedFacts, CountFacts, MaxAssumption
       DEF TypeOK, Shapes, Shape, Dying, PCs, Ops, Growing, NoStrong, Max, CyclicPanics
  <1>3. ASSUME NEW h \in Handles, TryNew(h)
        PROVE  TypeOK'
    BY <1>3, LockedFacts, CountFacts, MaxAssumption
       DEF TypeOK, Shapes, Shape, Dying, PCs, Ops, Growing, NoStrong, Max, TryNew
  <1>4. ASSUME NEW h \in Handles, NewCyclic(h)
        PROVE  TypeOK'
    BY <1>4, LockedFacts, CountFacts, MaxAssumption
       DEF TypeOK, Shapes, Shape, Dying, PCs, Ops, Growing, NoStrong, Max, NewCyclic
  <1>5. ASSUME NEW h \in Handles, WeakNew(h)
        PROVE  TypeOK'
    BY <1>5, LockedFacts, CountFacts, MaxAssumption
       DEF TypeOK, Shapes, Shape, Dying, PCs, Ops, Growing, NoStrong, Max, WeakNew
  <1>6. ASSUME NEW h \in Handles, DropDangling(h)
        PROVE  TypeOK'
    BY <1>6, LockedFacts, CountFacts, MaxAssumption
       DEF TypeOK, Shapes, Shape, Dying, PCs, Ops, Growing, NoStrong, Max, DropDangling
  <1>7. ASSUME NEW t \in Threads, Made(t)
        PROVE  TypeOK'
    BY <1>7, LockedFacts, CountFacts, MaxAssumption
       DEF TypeOK, Shapes, Shape, Dying, PCs, Ops, Growing, NoStrong, Max, Made, Goto,
           data
  <1>8. ASSUME NEW t \in Threads, NEW h \in Handles, Giving(t, h)
        PROVE  TypeOK'
    BY <1>8, LockedFacts, CountFacts, MaxAssumption
       DEF TypeOK, Shapes, Shape, Dying, PCs, Ops, Growing, NoStrong, Max, Giving,
           GiveUp, Goto, Return
  <1>9. ASSUME NEW t \in Threads, Load(t)
        PROVE  TypeOK'
    BY <1>9, LockedFacts, CountFacts, MaxAssumption
       DEF TypeOK, Shapes, Shape, Dying, PCs, Ops, Growing, NoStrong, Max, Refused,
           Count, Load, Goto, data
  <1>10. ASSUME NEW t \in Threads, Refuse(t)
         PROVE  TypeOK'
    BY <1>10, LockedFacts, CountFacts, MaxAssumption
       DEF TypeOK, Shapes, Shape, Dying, PCs, Ops, Growing, NoStrong, Max, Refuse,
           Return
  <1>11. ASSUME NEW t \in Threads, Retry(t)
         PROVE  TypeOK'
    BY <1>11, LockedFacts, CountFacts, MaxAssumption
       DEF TypeOK, Shapes, Shape, Dying, PCs, Ops, Growing, NoStrong, Max, Refused,
           Count, Retry, data
  <1>12. ASSUME NEW t \in Threads, Increment(t)
         PROVE  TypeOK'
    BY <1>12, LockedFacts, CountFacts, MaxAssumption
       DEF TypeOK, Shapes, Shape, Dying, PCs, Ops, Growing, NoStrong, Max, Refused,
           Count, Increment, Return
  <1>13. ASSUME NEW t \in Threads, ValueDropped(t)
         PROVE  TypeOK'
    BY <1>13, LockedFacts, CountFacts, MaxAssumption
       DEF TypeOK, Shapes, Shape, Dying, PCs, Ops, Growing, NoStrong, Max, ValueDropped,
           Goto
  <1>14. ASSUME NEW t \in Threads, Release(t)
         PROVE  TypeOK'
    BY <1>14, LockedFacts, CountFacts, MaxAssumption
       DEF TypeOK, Shapes, Shape, Dying, PCs, Ops, Growing, NoStrong, Max, Release,
           Lower, Goto, Return
  <1>15. ASSUME NEW t \in Threads, Dealloc(t)
         PROVE  TypeOK'
    BY <1>15, LockedFacts, CountFacts, MaxAssumption
       DEF TypeOK, Shapes, Shape, Dying, PCs, Ops, Growing, NoStrong, Max, Dealloc,
           Return
  <1>16. ASSUME NEW t \in Threads, LockWeak(t)
         PROVE  TypeOK'
    BY <1>16, LockedFacts, CountFacts, MaxAssumption
       DEF TypeOK, Shapes, Shape, Dying, PCs, Ops, Growing, NoStrong, Max, LockWeak,
           Shared, Goto, Return
  <1>17. ASSUME NEW t \in Threads, CheckStrong(t)
         PROVE  TypeOK'
    BY <1>17, LockedFacts, CountFacts, MaxAssumption
       DEF TypeOK, Shapes, Shape, Dying, PCs, Ops, Growing, NoStrong, Max, CheckStrong,
           Goto, data
  <1>18. ASSUME NEW t \in Threads, UnlockWeak(t)
         PROVE  TypeOK'
    BY <1>18, LockedFacts, CountFacts, MaxAssumption
       DEF TypeOK, Shapes, Shape, Dying, PCs, Ops, Growing, NoStrong, Max, UnlockWeak,
           Shared, Goto, Return
  <1>19. ASSUME NEW t \in Threads, EndMut(t)
         PROVE  TypeOK'
    BY <1>19, LockedFacts, CountFacts, MaxAssumption
       DEF TypeOK, Shapes, Shape, Dying, PCs, Ops, Growing, NoStrong, Max, EndMut,
           Return
  <1>20. ASSUME NEW t \in Threads, TryUnwrap(t)
         PROVE  TypeOK'
    BY <1>20, LockedFacts, CountFacts, MaxAssumption
       DEF TypeOK, Shapes, Shape, Dying, PCs, Ops, Growing, NoStrong, Max, TryUnwrap,
           Goto
  <1>21. ASSUME NEW t \in Threads, CopyFails(t)
         PROVE  TypeOK'
    BY <1>21, LockedFacts, CountFacts, MaxAssumption
       DEF TypeOK, Shapes, Shape, Dying, PCs, Ops, Growing, NoStrong, Max, CopyFails,
           Return, data
  <1>22. ASSUME NEW t \in Threads, NEW h \in Handles, TryDefault(t, h)
         PROVE  TypeOK'
    BY <1>22, LockedFacts, CountFacts, MaxAssumption
       DEF TypeOK, Shapes, Shape, Dying, PCs, Ops, Growing, NoStrong, Max, TryDefault,
           Goto
  <1>23. ASSUME NEW t \in Threads, NEW o \in Growing, NEW h \in Handles, NEW n \in Handles,
                Begin(t, o, h, n)
         PROVE  TypeOK'
    BY <1>23, LockedFacts, CountFacts, MaxAssumption
       DEF TypeOK, Shapes, Shape, Dying, PCs, Ops, Growing, NoStrong, Max, Begin, Goto
  <1>24. ASSUME NEW t \in Threads, NEW h \in Handles, DropWeak(t, h)
         PROVE  TypeOK'
    BY <1>24, LockedFacts, CountFacts, MaxAssumption
       DEF TypeOK, Shapes, Shape, Dying, PCs, Ops, Growing, NoStrong, Max, DropWeak,
           Lower, Goto, Return
  <1>25. ASSUME NEW t \in Threads, NEW o \in {"get_mut", "unwrap"}, NEW h \in Handles,
                BeginExclusive(t, o, h)
         PROVE  TypeOK'
    BY <1>25, LockedFacts, CountFacts, MaxAssumption
       DEF TypeOK, Shapes, Shape, Dying, PCs, Ops, Growing, NoStrong, Max,
           BeginExclusive, Goto, data
  <1> QED
    BY NextCases, <1>1, <1>2, <1>3, <1>4, <1>5, <1>6, <1>7, <1>8, <1>9, <1>10, <1>11,
       <1>12, <1>13, <1>14, <1>15, <1>16, <1>17, <1>18, <1>19, <1>20, <1>21, <1>22,
       <1>23, <1>24, <1>25

\* Giving one handle another kind moves it between the two sets.
LEMMA SetHandle ==
  ASSUME TypeOK, NEW h \in Handles, \A g \in Handles : g # h => held'[g] = held[g]
  PROVE  /\ Cardinality(StrongHandles') =
              IF held'[h] = "strong" /\ held[h] # "strong" THEN Cardinality(StrongHandles) + 1
              ELSE IF held'[h] # "strong" /\ held[h] = "strong" THEN Cardinality(StrongHandles) - 1
              ELSE Cardinality(StrongHandles)
         /\ Cardinality(WeakHandles') =
              IF held'[h] = "weak" /\ held[h] # "weak" THEN Cardinality(WeakHandles) + 1
              ELSE IF held'[h] # "weak" /\ held[h] = "weak" THEN Cardinality(WeakHandles) - 1
              ELSE Cardinality(WeakHandles)
  <1>1. IsFiniteSet(StrongHandles) /\ IsFiniteSet(WeakHandles)
    BY HandleSets
  <1>3. StrongHandles' = IF held'[h] = "strong" THEN StrongHandles \union {h} ELSE StrongHandles \ {h}
    BY DEF StrongHandles
  <1>4. WeakHandles' = IF held'[h] = "weak" THEN WeakHandles \union {h} ELSE WeakHandles \ {h}
    BY DEF WeakHandles
  <1>5. /\ h \in StrongHandles <=> held[h] = "strong"
        /\ h \in WeakHandles <=> held[h] = "weak"
    BY DEF StrongHandles, WeakHandles
  <1>6. /\ Cardinality(StrongHandles \union {h}) =
             IF h \in StrongHandles THEN Cardinality(StrongHandles) ELSE Cardinality(StrongHandles) + 1
        /\ Cardinality(WeakHandles \union {h}) =
             IF h \in WeakHandles THEN Cardinality(WeakHandles) ELSE Cardinality(WeakHandles) + 1
    BY <1>1, FS_AddElement
  <1>7. /\ Cardinality(StrongHandles \ {h}) =
             IF h \in StrongHandles THEN Cardinality(StrongHandles) - 1 ELSE Cardinality(StrongHandles)
        /\ Cardinality(WeakHandles \ {h}) =
             IF h \in WeakHandles THEN Cardinality(WeakHandles) - 1 ELSE Cardinality(WeakHandles)
    BY <1>1, FS_RemoveElement
  <1> QED
    BY <1>3, <1>4, <1>5, <1>6, <1>7

LEMMA SameHandles ==
  ASSUME held' = held
  PROVE  /\ Cardinality(StrongHandles') = Cardinality(StrongHandles)
         /\ Cardinality(WeakHandles') = Cardinality(WeakHandles)
  BY DEF StrongHandles, WeakHandles

\* CountsMatch, over the sizes of the two sets.
Balance(s, w, dying, counted, counted_weak) ==
  /\ counted = s
  /\ counted_weak = Locked \/ counted_weak = w + (IF s # 0 \/ dying THEN 1 ELSE 0)
  /\ counted_weak = Locked => w = 0 /\ s # 0

SomeDying == \E t \in Threads : Dying(t)

LEMMA BalanceIs ==
  CountsMatch <=>
    Balance(Cardinality(StrongHandles), Cardinality(WeakHandles), SomeDying, strong, weak)
  <1>1. IsFiniteSet(StrongHandles) /\ IsFiniteSet(WeakHandles)
    BY HandlesAssumption, FS_Subset DEF StrongHandles, WeakHandles
  <1>2. /\ Cardinality(StrongHandles) = 0 <=> StrongHandles = {}
        /\ Cardinality(WeakHandles) = 0 <=> WeakHandles = {}
    BY <1>1, FS_EmptySet
  <1> QED
    BY <1>2 DEF CountsMatch, SharedWeak, Balance, SomeDying, Dying

LEMMA BalanceIsNext ==
  CountsMatch' <=>
    Balance(Cardinality(StrongHandles'), Cardinality(WeakHandles'), SomeDying', strong', weak')
  <1>1. IsFiniteSet(StrongHandles') /\ IsFiniteSet(WeakHandles')
    BY HandlesAssumption, FS_Subset DEF StrongHandles, WeakHandles
  <1>2. /\ Cardinality(StrongHandles') = 0 <=> StrongHandles' = {}
        /\ Cardinality(WeakHandles') = 0 <=> WeakHandles' = {}
    BY <1>1, FS_EmptySet
  <1> QED
    BY <1>2 DEF CountsMatch, SharedWeak, Balance, SomeDying, Dying

\* Every step keeps the counts equal to what they count.
LEMMA CountsStep ==
  ASSUME IInv, Next
  PROVE  CountsMatch'
  <1> DEFINE Goal == Balance(Cardinality(StrongHandles'), Cardinality(WeakHandles'), SomeDying', strong', weak')
  <1> USE HandlesAssumption DEF IInv
  <1>a. Balance(Cardinality(StrongHandles), Cardinality(WeakHandles), SomeDying, strong, weak)
    BY BalanceIs
  <1>b. /\ Cardinality(StrongHandles) \in Nat /\ Cardinality(WeakHandles) \in Nat
        /\ Cardinality(StrongHandles) = 0 <=> NoStrong
        /\ Cardinality(WeakHandles) = 0 <=> NoWeak
    BY HandleSets
  <1>1. ASSUME CyclicDone PROVE Goal
    <2>1. building \in Handles /\ held[building] = "weak" /\ NoStrong
      BY <1>1 DEF CyclicDone, TypeOK, Borrows, Life
    <2>2. ~SomeDying /\ weak # Locked
      BY <1>1, <2>1, CountFacts DEF CyclicDone, Life, SomeDying
    <2>3. /\ Cardinality(StrongHandles') = 1
          /\ Cardinality(WeakHandles') = Cardinality(WeakHandles) - 1
      BY <1>1, <2>1, <1>b, SetHandle DEF TypeOK, CyclicDone
    <2> QED
      BY <1>1, <2>1, <2>2, <2>3, <1>a, <1>b DEF CyclicDone, Balance
  <1>2. ASSUME CyclicPanics PROVE Goal
    <2>1. /\ Cardinality(StrongHandles') = Cardinality(StrongHandles)
          /\ Cardinality(WeakHandles') = Cardinality(WeakHandles)
      BY <1>2, SameHandles DEF CyclicPanics
    <2>2. SomeDying' = SomeDying
      BY <1>2 DEF TypeOK, SomeDying, Dying, CyclicPanics
    <2>3. strong' = strong /\ weak' = weak
      BY <1>2 DEF CyclicPanics
    <2> QED
      BY <2>1, <2>2, <2>3, <1>a DEF Balance
  <1>3. ASSUME NEW h \in Handles, TryNew(h)
        PROVE  Goal
    <2>1. NoStrong /\ NoWeak /\ \A u \in Threads : pc[u] = "idle"
      BY <1>3, LentFacts DEF TryNew
    <2>2. Cardinality(StrongHandles') = 1 /\ Cardinality(WeakHandles') = 0
      BY <1>3, <2>1, <1>b, SetHandle DEF TypeOK, TryNew
    <2> QED
      BY <1>3, <2>2, LockedFacts DEF TryNew, Balance
  <1>4. ASSUME NEW h \in Handles, NewCyclic(h)
        PROVE  Goal
    <2>1. NoStrong /\ NoWeak /\ \A u \in Threads : pc[u] = "idle"
      BY <1>4, LentFacts DEF NewCyclic
    <2>2. Cardinality(StrongHandles') = 0 /\ Cardinality(WeakHandles') = 1
      BY <1>4, <2>1, <1>b, SetHandle DEF TypeOK, NewCyclic
    <2>3. ~SomeDying'
      BY <1>4, <2>1 DEF NewCyclic, SomeDying, Dying
    <2> QED
      BY <1>4, <2>2, <2>3, LockedFacts DEF NewCyclic, Balance
  <1>5. ASSUME NEW h \in Handles, WeakNew(h)
        PROVE  Goal
    <2>1. /\ Cardinality(StrongHandles') = Cardinality(StrongHandles)
          /\ Cardinality(WeakHandles') = Cardinality(WeakHandles)
      BY <1>5, SetHandle DEF TypeOK, WeakNew
    <2>2. SomeDying' = SomeDying
      BY <1>5 DEF TypeOK, SomeDying, Dying, WeakNew
    <2>3. strong' = strong /\ weak' = weak
      BY <1>5 DEF WeakNew
    <2> QED
      BY <2>1, <2>2, <2>3, <1>a DEF Balance
  <1>6. ASSUME NEW h \in Handles, DropDangling(h)
        PROVE  Goal
    <2>1. /\ Cardinality(StrongHandles') = Cardinality(StrongHandles)
          /\ Cardinality(WeakHandles') = Cardinality(WeakHandles)
      BY <1>6, SetHandle DEF TypeOK, DropDangling
    <2>2. SomeDying' = SomeDying
      BY <1>6 DEF TypeOK, SomeDying, Dying, DropDangling
    <2>3. strong' = strong /\ weak' = weak
      BY <1>6 DEF DropDangling
    <2> QED
      BY <2>1, <2>2, <2>3, <1>a DEF Balance
  <1>7. ASSUME NEW t \in Threads, Made(t)
        PROVE  Goal
    <2>1. /\ Cardinality(StrongHandles') = Cardinality(StrongHandles)
          /\ Cardinality(WeakHandles') = Cardinality(WeakHandles)
      BY <1>7, SameHandles DEF Made, data
    <2>2. SomeDying' = SomeDying
      BY <1>7 DEF TypeOK, SomeDying, Dying, Made, data, Goto
    <2>3. strong' = strong /\ weak' = weak
      BY <1>7 DEF Made, data
    <2> QED
      BY <2>1, <2>2, <2>3, <1>a DEF Balance
  <1>8. ASSUME NEW t \in Threads, NEW h \in Handles, Giving(t, h)
        PROVE  Goal
    <2>1. /\ Cardinality(StrongHandles') = Cardinality(StrongHandles) - 1
          /\ Cardinality(WeakHandles') = Cardinality(WeakHandles)
      BY <1>8, SetHandle DEF TypeOK, Giving, GiveUp
    <2>2. ~NoStrong /\ ~SomeDying
      BY <1>8 DEF Giving, NoStrong, Life, SomeDying
    <2>3. strong = 1 => SomeDying'
      BY <1>8 DEF Giving, GiveUp, Goto, TypeOK, SomeDying, Dying
    <2>4. ASSUME weak = Locked, strong = 1 PROVE FALSE
      <3>1. PICK u \in Threads : Locking(u)
        BY <2>4 DEF Exclusion
      <3>2. on[u] = h
        BY <1>8, <3>1, <2>4, CountFacts DEF Locking, Shapes, Shape, Sole, Giving
      <3>3. u = t
        BY <1>8, <3>2 DEF Giving
      <3> QED
        BY <1>8, <3>1, <3>3 DEF Giving, Locking
    <2> QED
      BY <1>8, <2>1, <2>2, <2>3, <2>4, <1>a, <1>b DEF Giving, GiveUp, Balance
  <1>9. ASSUME NEW t \in Threads, Load(t)
        PROVE  Goal
    <2>1. /\ Cardinality(StrongHandles') = Cardinality(StrongHandles)
          /\ Cardinality(WeakHandles') = Cardinality(WeakHandles)
      BY <1>9, SameHandles DEF Load, data
    <2>2. SomeDying' = SomeDying
      BY <1>9 DEF TypeOK, SomeDying, Dying, Load, data, Goto
    <2>3. strong' = strong /\ weak' = weak
      BY <1>9 DEF Load, data
    <2> QED
      BY <2>1, <2>2, <2>3, <1>a DEF Balance
  <1>10. ASSUME NEW t \in Threads, Refuse(t)
         PROVE  Goal
    <2>1. /\ Cardinality(StrongHandles') = Cardinality(StrongHandles)
          /\ Cardinality(WeakHandles') = Cardinality(WeakHandles)
      BY <1>10, SetHandle DEF TypeOK, Shapes, Shape, Refuse
    <2>2. SomeDying' = SomeDying
      BY <1>10 DEF TypeOK, SomeDying, Dying, Refuse, Return
    <2>3. strong' = strong /\ weak' = weak
      BY <1>10 DEF Refuse
    <2> QED
      BY <2>1, <2>2, <2>3, <1>a DEF Balance
  <1>11. ASSUME NEW t \in Threads, Retry(t)
         PROVE  Goal
    <2>1. /\ Cardinality(StrongHandles') = Cardinality(StrongHandles)
          /\ Cardinality(WeakHandles') = Cardinality(WeakHandles)
      BY <1>11, SameHandles DEF Retry, data
    <2>2. SomeDying' = SomeDying
      BY <1>11 DEF TypeOK, SomeDying, Dying, Retry, data
    <2>3. strong' = strong /\ weak' = weak
      BY <1>11 DEF Retry, data
    <2> QED
      BY <2>1, <2>2, <2>3, <1>a DEF Balance
  <1>12. ASSUME NEW t \in Threads, Increment(t)
         PROVE  Goal
    <2>1. /\ to[t] \in Handles /\ held[to[t]] = "claimed"
          /\ op[t] \in {"clone", "upgrade"} => ~NoStrong
      BY <1>12, GrowerFacts
    <2>2. SomeDying' = SomeDying
      BY <1>12 DEF Increment, Return, TypeOK, SomeDying, Dying
    <2>3. CASE op[t] \in {"clone", "upgrade"}
      <3>1. /\ Cardinality(StrongHandles') = Cardinality(StrongHandles) + 1
            /\ Cardinality(WeakHandles') = Cardinality(WeakHandles)
            /\ strong' = strong + 1 /\ weak' = weak
        BY <1>12, <2>1, <2>3, SetHandle DEF TypeOK, Increment, Count
      <3> QED
        BY <2>1, <2>2, <2>3, <3>1, <1>a, <1>b DEF Balance
    <2>4. CASE op[t] \notin {"clone", "upgrade"}
      <3>1. /\ Cardinality(StrongHandles') = Cardinality(StrongHandles)
            /\ Cardinality(WeakHandles') = Cardinality(WeakHandles) + 1
            /\ strong' = strong /\ weak' = weak + 1
        BY <1>12, <2>1, <2>4, SetHandle DEF TypeOK, Increment, Count
      <3>2. weak # Locked /\ weak' # Locked
        BY <1>12, IncrementEffect, GrowerFacts, <2>4 DEF Exclusion
      <3> QED
        BY <2>2, <3>1, <3>2, <1>a, <1>b DEF Balance
    <2> QED
      BY <2>3, <2>4
  <1>13. ASSUME NEW t \in Threads, ValueDropped(t)
         PROVE  Goal
    <2>1. /\ Cardinality(StrongHandles') = Cardinality(StrongHandles)
          /\ Cardinality(WeakHandles') = Cardinality(WeakHandles)
      BY <1>13, SameHandles DEF ValueDropped
    <2>2. SomeDying' = SomeDying
      BY <1>13 DEF TypeOK, SomeDying, Dying, ValueDropped, Goto
    <2>3. strong' = strong /\ weak' = weak
      BY <1>13 DEF ValueDropped
    <2> QED
      BY <2>1, <2>2, <2>3, <1>a DEF Balance
  <1>14. ASSUME NEW t \in Threads, Release(t)
         PROVE  Goal
    <2>1. Cardinality(StrongHandles') = 0 /\ Cardinality(WeakHandles') = Cardinality(WeakHandles)
      BY <1>14, <1>b, SameHandles DEF Release, Life, Dying
    <2>2. SomeDying /\ ~SomeDying'
      BY <1>14 DEF Release, Lower, Goto, Return, Life, TypeOK, SomeDying, Dying
    <2>3. strong = 0 /\ weak # Locked
      BY <1>14, CountFacts DEF Release, Life, Dying
    <2> QED
      BY <1>14, <2>1, <2>2, <2>3, <1>a, <1>b, LockedFacts
         DEF Release, Lower, Balance, TypeOK
  <1>15. ASSUME NEW t \in Threads, Dealloc(t)
         PROVE  Goal
    <2>1. /\ Cardinality(StrongHandles') = Cardinality(StrongHandles)
          /\ Cardinality(WeakHandles') = Cardinality(WeakHandles)
      BY <1>15, SameHandles DEF Dealloc
    <2>2. SomeDying' = SomeDying
      BY <1>15 DEF Dealloc, Return, TypeOK, SomeDying, Dying
    <2> QED
      BY <1>15, <2>1, <2>2, <1>a DEF Dealloc, Balance
  <1>16. ASSUME NEW t \in Threads, LockWeak(t)
         PROVE  Goal
    <2>1. /\ Cardinality(StrongHandles') = Cardinality(StrongHandles)
          /\ Cardinality(WeakHandles') = Cardinality(WeakHandles)
      BY <1>16, SameHandles DEF LockWeak
    <2>2. SomeDying' = SomeDying
      BY <1>16 DEF LockWeak, Shared, Goto, Return, TypeOK, SomeDying, Dying
    <2>3. ~NoStrong /\ (weak = 1 => NoWeak)
      BY <1>16, CountFacts DEF LockWeak, Shapes, Shape, NoStrong
    <2> QED
      BY <1>16, <2>1, <2>2, <2>3, <1>a, <1>b DEF LockWeak, Balance
  <1>17. ASSUME NEW t \in Threads, CheckStrong(t)
         PROVE  Goal
    <2>1. /\ Cardinality(StrongHandles') = Cardinality(StrongHandles)
          /\ Cardinality(WeakHandles') = Cardinality(WeakHandles)
      BY <1>17, SameHandles DEF CheckStrong, data
    <2>2. SomeDying' = SomeDying
      BY <1>17 DEF TypeOK, SomeDying, Dying, CheckStrong, data, Goto
    <2>3. strong' = strong /\ weak' = weak
      BY <1>17 DEF CheckStrong, data
    <2> QED
      BY <2>1, <2>2, <2>3, <1>a DEF Balance
  <1>18. ASSUME NEW t \in Threads, UnlockWeak(t)
         PROVE  Goal
    <2>1. /\ Cardinality(StrongHandles') = Cardinality(StrongHandles)
          /\ Cardinality(WeakHandles') = Cardinality(WeakHandles)
      BY <1>18, SameHandles DEF UnlockWeak
    <2>2. ~NoStrong /\ NoWeak
      BY <1>18 DEF UnlockWeak, Shapes, Shape, NoStrong, Exclusion, Locking
    <2> QED
      BY <1>18, <2>1, <2>2, <1>a, <1>b, LockedFacts DEF UnlockWeak, Balance
  <1>19. ASSUME NEW t \in Threads, EndMut(t)
         PROVE  Goal
    <2>1. /\ Cardinality(StrongHandles') = Cardinality(StrongHandles)
          /\ Cardinality(WeakHandles') = Cardinality(WeakHandles)
      BY <1>19, SameHandles DEF EndMut
    <2>2. SomeDying' = SomeDying
      BY <1>19 DEF TypeOK, SomeDying, Dying, EndMut, Return
    <2>3. strong' = strong /\ weak' = weak
      BY <1>19 DEF EndMut
    <2> QED
      BY <2>1, <2>2, <2>3, <1>a DEF Balance
  <1>20. ASSUME NEW t \in Threads, TryUnwrap(t)
         PROVE  Goal
    <2>1. /\ on[t] \in Handles /\ held[on[t]] = "strong" /\ op[t] \notin Growing
          /\ ~NoStrong
      BY <1>20 DEF TryUnwrap, Shapes, Shape, Growing, NoStrong
    <2>2. CASE strong = 1
      <3>1. /\ Cardinality(StrongHandles') = Cardinality(StrongHandles) - 1
            /\ Cardinality(WeakHandles') = Cardinality(WeakHandles)
            /\ strong' = 0 /\ weak' = weak
        BY <1>20, <2>1, <2>2, SetHandle DEF TypeOK, TryUnwrap
      <3>2. SomeDying'
        BY <1>20, <2>2 DEF TryUnwrap, Goto, TypeOK, SomeDying, Dying
      <3>3. ASSUME weak = Locked PROVE FALSE
        <4>1. PICK u \in Threads : Locking(u)
          BY <3>3 DEF Exclusion
        <4>2. on[u] = on[t] /\ on[u] # NoHandle
          BY <2>1, <2>2, <4>1, CountFacts DEF Locking, Shapes, Shape, Sole
        <4>3. u = t
          BY <2>1, <4>2 DEF Borrows
        <4> QED
          BY <1>20, <4>1, <4>3 DEF TryUnwrap, Locking
      <3> QED
        BY <2>1, <2>2, <3>1, <3>2, <3>3, <1>a, <1>b DEF Balance
    <2>3. CASE strong # 1
      <3>1. /\ Cardinality(StrongHandles') = Cardinality(StrongHandles)
            /\ Cardinality(WeakHandles') = Cardinality(WeakHandles)
            /\ strong' = strong /\ weak' = weak
        BY <1>20, <2>3, SameHandles DEF TryUnwrap
      <3>2. SomeDying' = SomeDying
        BY <1>20, <2>3 DEF TryUnwrap, Goto, TypeOK, SomeDying, Dying
      <3> QED
        BY <3>1, <3>2, <1>a DEF Balance
    <2> QED
      BY <2>2, <2>3
  <1>21. ASSUME NEW t \in Threads, CopyFails(t)
         PROVE  Goal
    <2>1. /\ Cardinality(StrongHandles') = Cardinality(StrongHandles)
          /\ Cardinality(WeakHandles') = Cardinality(WeakHandles)
      BY <1>21, SameHandles DEF CopyFails, data
    <2>2. SomeDying' = SomeDying
      BY <1>21 DEF TypeOK, SomeDying, Dying, CopyFails, data, Return
    <2>3. strong' = strong /\ weak' = weak
      BY <1>21 DEF CopyFails, data
    <2> QED
      BY <2>1, <2>2, <2>3, <1>a DEF Balance
  <1>22. ASSUME NEW t \in Threads, NEW h \in Handles, TryDefault(t, h)
         PROVE  Goal
    <2>1. NoStrong /\ NoWeak
      BY <1>22, LentFacts DEF TryDefault
    <2>2. Cardinality(StrongHandles') = 1 /\ Cardinality(WeakHandles') = 0
      BY <1>22, <2>1, <1>b, SetHandle DEF TypeOK, TryDefault
    <2> QED
      BY <1>22, <2>2, LockedFacts DEF TryDefault, Balance
  <1>23. ASSUME NEW t \in Threads, NEW o \in Growing, NEW h \in Handles, NEW n \in Handles,
                Begin(t, o, h, n)
         PROVE  Goal
    <2>1. /\ Cardinality(StrongHandles') = Cardinality(StrongHandles)
          /\ Cardinality(WeakHandles') = Cardinality(WeakHandles)
      BY <1>23, SetHandle DEF TypeOK, Begin
    <2>2. SomeDying' = SomeDying
      BY <1>23 DEF TypeOK, SomeDying, Dying, Begin, Goto
    <2>3. strong' = strong /\ weak' = weak
      BY <1>23 DEF Begin
    <2> QED
      BY <2>1, <2>2, <2>3, <1>a DEF Balance
  <1>24. ASSUME NEW t \in Threads, NEW h \in Handles, DropWeak(t, h)
         PROVE  Goal
    <2>1. /\ Cardinality(StrongHandles') = Cardinality(StrongHandles)
          /\ Cardinality(WeakHandles') = Cardinality(WeakHandles) - 1
      BY <1>24, SetHandle DEF TypeOK, DropWeak
    <2>2. SomeDying' = SomeDying
      BY <1>24 DEF DropWeak, Lower, Goto, Return, TypeOK, SomeDying, Dying
    <2>3. weak # Locked
      BY <1>24, CountFacts DEF DropWeak
    <2> QED
      BY <1>24, <2>1, <2>2, <2>3, <1>a, <1>b, LockedFacts
         DEF DropWeak, Lower, Balance, TypeOK
  <1>25. ASSUME NEW t \in Threads, NEW o \in {"get_mut", "unwrap"}, NEW h \in Handles,
                BeginExclusive(t, o, h)
         PROVE  Goal
    <2>1. /\ Cardinality(StrongHandles') = Cardinality(StrongHandles)
          /\ Cardinality(WeakHandles') = Cardinality(WeakHandles)
      BY <1>25, SameHandles DEF BeginExclusive, data
    <2>2. SomeDying' = SomeDying
      BY <1>25 DEF TypeOK, SomeDying, Dying, BeginExclusive, data, Goto
    <2>3. strong' = strong /\ weak' = weak
      BY <1>25 DEF BeginExclusive, data
    <2> QED
      BY <2>1, <2>2, <2>3, <1>a DEF Balance
  <1> QED
    BY NextCases, BalanceIsNext, <1>1, <1>2, <1>3, <1>4, <1>5, <1>6, <1>7, <1>8, <1>9,
       <1>10, <1>11, <1>12, <1>13, <1>14, <1>15, <1>16, <1>17, <1>18, <1>19, <1>20,
       <1>21, <1>22, <1>23, <1>24, <1>25

LEMMA InitInv ==
  ASSUME Init
  PROVE  IInv
  <1>1. TypeOK
    <2>1. /\ "idle" \in PCs /\ "none" \in Ops /\ 0 \in Nat /\ 0 \in 0..Max
          /\ NoHandle \in Handles \union {NoHandle} /\ FALSE \in BOOLEAN
      BY MaxAssumption DEF Max, Ops, PCs
    <2>2. flavour \in {"arc", "rc"} /\ strong \in 0..Max /\ weak \in 0..Max \union {Locked}
      BY <2>1 DEF Init
    <2>3. /\ held \in [Handles -> {"free", "strong", "weak", "dangling", "claimed"}]
          /\ op \in [Threads -> Ops] /\ pc \in [Threads -> PCs] /\ seen \in [Threads -> Nat]
          /\ on \in [Threads -> Handles \union {NoHandle}]
          /\ to \in [Threads -> Handles \union {NoHandle}]
      BY <2>1 DEF Init
    <2>4. /\ value \in {"none", "raw", "live", "dropped", "taken"}
          /\ memory \in BOOLEAN /\ building \in Handles \union {NoHandle}
      BY <2>1 DEF Init
    <2> QED
      BY <2>2, <2>3, <2>4 DEF TypeOK
  <1>2. StrongHandles = {} /\ WeakHandles = {} /\ Cardinality({}) = 0
    BY FS_EmptySet DEF Init, StrongHandles, WeakHandles
  <1>3. CountsMatch
    BY <1>2, LockedFacts, MaxAssumption DEF Init, CountsMatch, SharedWeak, Locked, Max
  <1>4. Shapes /\ Borrows /\ Life
    BY DEF Init, Shapes, Shape, Borrows, Life, NoStrong, NoWeak, Dying
  <1>5. Exclusion /\ Values
    BY MaxAssumption DEF Init, Exclusion, Values, Locking, NoStrong, Locked, Max
  <1> QED
    BY <1>1, <1>3, <1>4, <1>5 DEF IInv

LEMMA StepInv ==
  ASSUME IInv, [Next]_vars
  PROVE  IInv'
  <1>1. CASE Next
    BY <1>1, TypeStep, CountsStep, ShapesStep, BorrowsStep, LifeStep, ExclusionStep,
       ValuesStep
       DEF IInv
  <1>2. CASE UNCHANGED vars
    <2>1. TypeOK' /\ CountsMatch'
      BY <1>2
         DEF vars, IInv, TypeOK, CountsMatch, StrongHandles, WeakHandles, SharedWeak
    <2>2. Shapes' /\ Borrows'
      BY <1>2 DEF vars, IInv, Shapes, Shape, Borrows
    <2>3. Life' /\ Exclusion'
      BY <1>2 DEF vars, IInv, Life, Exclusion, Dying, Locking, Sole, NoStrong, NoWeak
    <2>4. Values'
      BY <1>2 DEF vars, IInv, Values, NoStrong
    <2> QED
      BY <2>1, <2>2, <2>3, <2>4 DEF IInv
  <1> QED
    BY <1>1, <1>2

LEMMA Invariance == Spec => []IInv
  BY InitInv, StepInv, PTL DEF Spec

\* Whatever runs beside them, the counts that the fallible operations write and
\* raise are the number of handles there are, and stay within their limit.
THEOREM CountsExact == Spec => [](TypeOK /\ CountsMatch)
  <1>1. IInv => TypeOK /\ CountsMatch
    BY DEF IInv
  <1> QED
    BY <1>1, Invariance, PTL

\* Arc::get_mut is granted to a sole handle only, and try_default's unwrap() of
\* it never panics (arc_.rs, rc_.rs: impl TryDefault).
THEOREM ExclusiveAlone == Spec => []ExclusiveIsSole
  <1>1. IInv => ExclusiveIsSole
    BY DEF IInv, Exclusion, ExclusiveIsSole, Sole, NoWeak, Shapes, Shape, StrongHandles,
           WeakHandles
  <1> QED
    BY <1>1, Invariance, PTL

(***************************************************************************)
(* The counts implement SharedValue.                                       *)
(***************************************************************************)

\* Of the threads with a &mut there is at most one.
LEMMA UniqueIs ==
  ASSUME IInv
  PROVE  /\ \A t \in Threads : pc[t] = "mut" => Unique = on[t]
         /\ (\A t \in Threads : pc[t] # "mut") => Unique = NoHandle
         /\ \A t, u \in Threads : pc[t] = "mut" /\ Sole(on[u]) /\ on[u] \in Handles => t = u
  <1>1. ASSUME NEW t \in Threads, NEW u \in Threads, pc[t] = "mut", Sole(on[u]), on[u] \in Handles
        PROVE  t = u
    <2>1. /\ on[t] \in Handles /\ held[on[t]] = "strong" /\ op[t] \notin Growing
          /\ on[t] # NoHandle
      BY <1>1, HandlesAssumption DEF IInv, Shapes, Shape, Growing
    <2>2. on[t] = on[u]
      BY <2>1, <1>1 DEF Sole
    <2> QED
      BY <2>1, <2>2 DEF IInv, Borrows
  <1>2. ASSUME NEW t \in Threads, pc[t] = "mut" PROVE Unique = on[t]
    <2> DEFINE u == CHOOSE u \in Threads : pc[u] = "mut"
    <2>1. u \in Threads /\ pc[u] = "mut"
      BY <1>2
    <2>2. Sole(on[t]) /\ on[t] \in Handles
      BY <1>2 DEF IInv, Exclusion, Shapes, Shape
    <2>3. u = t
      BY <1>1, <2>1, <2>2
    <2> QED
      BY <1>2, <2>3 DEF Unique
  <1>3. (\A t \in Threads : pc[t] # "mut") => Unique = NoHandle
    BY DEF Unique
  <1> QED
    BY <1>1, <1>2, <1>3

\* A step that neither starts nor ends a &mut leaves Unique alone.
LEMMA SameUnique ==
  ASSUME \A t \in Threads : pc'[t] = "mut" <=> pc[t] = "mut",
         \A t \in Threads : pc[t] = "mut" => on'[t] = on[t]
  PROVE  Unique' = Unique
  <1>1. CASE \E t \in Threads : pc[t] = "mut"
    <2>1. (CHOOSE t \in Threads : pc'[t] = "mut") = (CHOOSE t \in Threads : pc[t] = "mut")
      OBVIOUS
    <2> DEFINE u == CHOOSE t \in Threads : pc[t] = "mut"
    <2>2. u \in Threads /\ pc[u] = "mut"
      BY <1>1
    <2> QED
      BY <1>1, <2>1, <2>2 DEF Unique
  <1>2. CASE \A t \in Threads : pc[t] # "mut"
    BY <1>2 DEF Unique
  <1> QED
    BY <1>1, <1>2

LEMMA KindsAre ==
  /\ Promise!Of("strong") = StrongHandles /\ Promise!Of("weak") = WeakHandles
  /\ StrongHandles = {} <=> NoStrong
  /\ WeakHandles = {} <=> NoWeak
  /\ \A h \in Handles : Sole(h) => StrongHandles = {h}
  <1>1. Promise!Of("strong") = StrongHandles /\ Promise!Of("weak") = WeakHandles
    BY DEF Promise!Of, Handed, StrongHandles, WeakHandles
  <1> QED
    BY <1>1 DEF StrongHandles, WeakHandles, NoStrong, NoWeak, Sole

LEMMA PrimedUnique ==
  ASSUME IInv', NEW t \in Threads, pc'[t] = "mut"
  PROVE  Unique' = on'[t]
  <1>1. ASSUME NEW u \in Threads, pc'[u] = "mut" PROVE u = t
    <2>1. /\ on'[t] \in Handles /\ held'[on'[t]] = "strong" /\ op'[t] \notin Growing
          /\ on'[t] # NoHandle /\ on'[u] \in Handles /\ held'[on'[u]] = "strong"
      BY <1>1, HandlesAssumption DEF IInv, Shapes, Shape, Growing
    <2>2. on'[t] = on'[u]
      BY <2>1 DEF IInv, Exclusion, Sole
    <2> QED
      BY <2>1, <2>2 DEF IInv, Borrows
  <1> QED
    BY <1>1 DEF Unique

\* A step of the counts is a step of the promise, or none.
LEMMA PromiseStep ==
  ASSUME IInv, Next
  PROVE  [Promise!Next]_(Promise!svars)
  <1> USE DEF IInv
  <1>1. ASSUME CyclicDone PROVE [Promise!Next]_(Promise!svars)
    <2>0. building \in Handles /\ held[building] = "weak" /\ NoStrong /\ value = "raw"
      BY <1>1 DEF CyclicDone, Borrows, Life, Values, TypeOK
    <2>1. Handed[building] = "weak" /\ Handed' = [Handed EXCEPT ![building] = "strong"]
      BY <1>1, <2>0 DEF Handed, TypeOK, CyclicDone
    <2>2. Unique' = Unique
      BY <1>1, SameUnique DEF TypeOK, CyclicDone
    <2>3. Promise!Complete(building)
      BY <1>1, <2>1, <2>2, KindsAre, <2>0 DEF Promise!Complete, CyclicDone
    <2> QED
      BY <2>0, <2>3 DEF Promise!Next
  <1>2. ASSUME CyclicPanics PROVE [Promise!Next]_(Promise!svars)
    <2>1. Handed' = Handed
      BY <1>2 DEF Handed, TypeOK, CyclicPanics
    <2>2. Unique' = Unique
      BY <1>2, SameUnique DEF TypeOK, CyclicPanics
    <2> QED
      BY <1>2, <2>1, <2>2 DEF Promise!svars, CyclicPanics
  <1>3. ASSUME NEW h \in Handles, TryNew(h)
        PROVE  [Promise!Next]_(Promise!svars)
    <2>1. Handed[h] = "free" /\ Handed' = [Handed EXCEPT ![h] = "strong"]
      BY <1>3 DEF Handed, TypeOK, TryNew
    <2>2. Unique' = Unique
      BY <1>3, SameUnique DEF TypeOK, TryNew
    <2>3. Promise!Create(h)
      BY <1>3, <2>1, <2>2, KindsAre DEF Promise!Create, TryNew
    <2> QED
      BY <2>3, <1>3 DEF Promise!Next
  <1>4. ASSUME NEW h \in Handles, NewCyclic(h)
        PROVE  [Promise!Next]_(Promise!svars)
    <2>1. Handed[h] = "free" /\ Handed' = [Handed EXCEPT ![h] = "weak"]
      BY <1>4 DEF Handed, TypeOK, NewCyclic
    <2>2. Unique' = Unique
      BY <1>4, SameUnique DEF TypeOK, NewCyclic
    <2>3. Promise!Create(h)
      BY <1>4, <2>1, <2>2, KindsAre DEF Promise!Create, NewCyclic
    <2> QED
      BY <2>3, <1>4 DEF Promise!Next
  <1>5. ASSUME NEW h \in Handles, WeakNew(h)
        PROVE  [Promise!Next]_(Promise!svars)
    <2>1. Handed[h] = "free" /\ Handed' = [Handed EXCEPT ![h] = "dangling"]
      BY <1>5 DEF Handed, TypeOK, WeakNew
    <2>2. Unique' = Unique
      BY <1>5, SameUnique DEF TypeOK, WeakNew
    <2>3. Promise!Dangle(h)
      BY <1>5, <2>1, <2>2, KindsAre DEF Promise!Dangle, WeakNew
    <2> QED
      BY <2>3, <1>5 DEF Promise!Next
  <1>6. ASSUME NEW h \in Handles, DropDangling(h)
        PROVE  [Promise!Next]_(Promise!svars)
    <2>0. Unique # h
      <3>1. CASE \E u \in Threads : pc[u] = "mut"
        BY <1>6, <3>1, UniqueIs DEF Shapes, Shape, DropDangling
      <3>2. CASE \A u \in Threads : pc[u] # "mut"
        BY <3>2, UniqueIs, HandlesAssumption
      <3> QED
        BY <3>1, <3>2
    <2>1. Handed[h] = "dangling" /\ Handed' = [Handed EXCEPT ![h] = "free"]
      BY <1>6 DEF Handed, TypeOK, DropDangling
    <2>2. Unique' = Unique
      BY <1>6, SameUnique DEF TypeOK, DropDangling
    <2>3. Promise!Leave(h)
      BY <1>6, <2>1, <2>2, KindsAre, <2>0 DEF Promise!Leave, DropDangling
    <2> QED
      BY <2>3, <1>6 DEF Promise!Next
  <1>7. ASSUME NEW t \in Threads, Made(t)
        PROVE  [Promise!Next]_(Promise!svars)
    <2>1. Handed' = Handed
      BY <1>7 DEF Handed, TypeOK, Made, Goto, data
    <2>2. Unique' = Unique
      BY <1>7, SameUnique DEF TypeOK, Made, Goto, data
    <2> QED
      BY <1>7, <2>1, <2>2 DEF Promise!svars, Made, Goto, data
  <1>8. ASSUME NEW t \in Threads, NEW h \in Handles, Giving(t, h)
        PROVE  [Promise!Next]_(Promise!svars)
    <2>0. Unique # h
      <3>1. CASE \E u \in Threads : pc[u] = "mut"
        BY <1>8, <3>1, UniqueIs DEF Giving
      <3>2. CASE \A u \in Threads : pc[u] # "mut"
        BY <3>2, UniqueIs, HandlesAssumption
      <3> QED
        BY <3>1, <3>2
    <2>1. Handed[h] = "strong" /\ Handed' = [Handed EXCEPT ![h] = "free"]
      BY <1>8 DEF Handed, TypeOK, Giving, GiveUp, Goto, Return
    <2>2. Unique' = Unique
      BY <1>8, SameUnique DEF TypeOK, Giving, GiveUp, Goto, Return
    <2>3. Promise!Leave(h)
      BY <1>8, <2>1, <2>2, KindsAre, <2>0
         DEF Promise!Leave, Giving, GiveUp, Goto, Return
    <2> QED
      BY <2>3, <1>8 DEF Promise!Next
  <1>9. ASSUME NEW t \in Threads, Load(t)
        PROVE  [Promise!Next]_(Promise!svars)
    <2>1. Handed' = Handed
      BY <1>9 DEF Handed, TypeOK, Load, Goto, data
    <2>2. Unique' = Unique
      BY <1>9, SameUnique DEF TypeOK, Load, Goto, data
    <2> QED
      BY <1>9, <2>1, <2>2 DEF Promise!svars, Load, Goto, data
  <1>10. ASSUME NEW t \in Threads, Refuse(t)
         PROVE  [Promise!Next]_(Promise!svars)
    <2>1. Handed' = Handed
      BY <1>10 DEF Handed, TypeOK, Refuse, Return, Shapes, Shape
    <2>2. Unique' = Unique
      BY <1>10, SameUnique DEF TypeOK, Refuse, Return
    <2> QED
      BY <1>10, <2>1, <2>2 DEF Promise!svars, Refuse, Return
  <1>11. ASSUME NEW t \in Threads, Retry(t)
         PROVE  [Promise!Next]_(Promise!svars)
    <2>1. Handed' = Handed
      BY <1>11 DEF Handed, TypeOK, Retry, data
    <2>2. Unique' = Unique
      BY <1>11, SameUnique DEF TypeOK, Retry, data
    <2> QED
      BY <1>11, <2>1, <2>2 DEF Promise!svars, Retry, data
  <1>12. ASSUME NEW t \in Threads, Increment(t)
         PROVE  [Promise!Next]_(Promise!svars)
    <2>0. /\ to[t] \in Handles /\ held[to[t]] = "claimed"
          /\ op[t] \in {"clone", "upgrade"} => ~NoStrong
          /\ ~NoStrong \/ ~NoWeak
          /\ Unique = NoHandle
      BY <1>12, GrowerFacts, UniqueIs
    <2>1. /\ Handed[to[t]] = "free"
          /\ Handed' = [Handed EXCEPT ![to[t]] =
                           IF op[t] \in {"clone", "upgrade"} THEN "strong" ELSE "weak"]
      BY <1>12, <2>0 DEF Handed, TypeOK, Increment, Return
    <2>2. Unique' = Unique
      BY <1>12, SameUnique DEF TypeOK, Increment, Return
    <2>3. Promise!Join(to[t])
      BY <1>12, <2>1, <2>2, KindsAre, <2>0 DEF Promise!Join, Increment, Return
    <2> QED
      BY <2>0, <2>3 DEF Promise!Next
  <1>13. ASSUME NEW t \in Threads, ValueDropped(t)
         PROVE  [Promise!Next]_(Promise!svars)
    <2>1. Handed' = Handed /\ memory' = memory
      BY <1>13 DEF Handed, ValueDropped
    <2>2. Unique' = Unique
      BY <1>13, SameUnique DEF TypeOK, ValueDropped, Goto
    <2>3. NoStrong /\ memory
      BY <1>13 DEF ValueDropped, Life, Dying
    <2>4. value = "live" => Promise!DropValue
      BY <1>13, <2>1, <2>2, <2>3, KindsAre DEF Promise!DropValue, ValueDropped
    <2>5. value # "live" => UNCHANGED Promise!svars
      BY <1>13, <2>1, <2>2 DEF Promise!svars, ValueDropped
    <2> QED
      BY <2>4, <2>5 DEF Promise!Next
  <1>14. ASSUME NEW t \in Threads, Release(t)
         PROVE  [Promise!Next]_(Promise!svars)
    <2>1. Handed' = Handed
      BY <1>14 DEF Handed, TypeOK, Release, Lower, Goto, Return
    <2>2. Unique' = Unique
      BY <1>14, SameUnique DEF TypeOK, Release, Lower, Goto, Return
    <2> QED
      BY <1>14, <2>1, <2>2 DEF Promise!svars, Release, Lower, Goto, Return
  <1>15. ASSUME NEW t \in Threads, Dealloc(t)
         PROVE  [Promise!Next]_(Promise!svars)
    <2>1. Handed' = Handed
      BY <1>15 DEF Handed, Dealloc
    <2>2. Unique' = Unique
      BY <1>15, SameUnique DEF TypeOK, Dealloc, Return
    <2>3. NoStrong /\ NoWeak /\ memory /\ value # "live"
      BY <1>15 DEF Dealloc, Life, Dying, Values
    <2>4. Promise!Free
      BY <1>15, <2>1, <2>2, <2>3, KindsAre DEF Promise!Free, Dealloc
    <2> QED
      BY <2>4 DEF Promise!Next
  <1>16. ASSUME NEW t \in Threads, LockWeak(t)
         PROVE  [Promise!Next]_(Promise!svars)
    <2>1. Handed' = Handed
      BY <1>16 DEF Handed, TypeOK, LockWeak, Shared, Goto, Return
    <2>2. Unique' = Unique
      BY <1>16, SameUnique DEF TypeOK, LockWeak, Shared, Goto, Return
    <2> QED
      BY <1>16, <2>1, <2>2 DEF Promise!svars, LockWeak, Shared, Goto, Return
  <1>17. ASSUME NEW t \in Threads, CheckStrong(t)
         PROVE  [Promise!Next]_(Promise!svars)
    <2>1. Handed' = Handed
      BY <1>17 DEF Handed, TypeOK, CheckStrong, Goto, data
    <2>2. Unique' = Unique
      BY <1>17, SameUnique DEF TypeOK, CheckStrong, Goto, data
    <2> QED
      BY <1>17, <2>1, <2>2 DEF Promise!svars, CheckStrong, Goto, data
  <1>18. ASSUME NEW t \in Threads, UnlockWeak(t)
         PROVE  [Promise!Next]_(Promise!svars)
    <2>1. Handed' = Handed /\ value' = value /\ memory' = memory
      BY <1>18 DEF Handed, UnlockWeak
    <2>2. on[t] \in Handles /\ memory /\ NoWeak
      BY <1>18 DEF UnlockWeak, Shapes, Shape, Life, NoStrong, Exclusion, Locking
    <2>3. CASE seen[t] = 1
      <3>1. Sole(on[t])
        BY <1>18, <2>3 DEF UnlockWeak, Exclusion
      <3>2. Unique = NoHandle
        BY <1>18, <2>2, <3>1, UniqueIs DEF UnlockWeak
      <3>3. pc'[t] = "mut" /\ on'[t] = on[t]
        BY <1>18, <2>3 DEF UnlockWeak, Goto, TypeOK
      <3>4. Unique' = on[t]
        BY <3>3, UniqueIs, StepInv, PrimedUnique
      <3>5. Promise!Isolate(on[t])
        BY <2>1, <2>2, <3>1, <3>2, <3>4, KindsAre DEF Promise!Isolate
      <3> QED
        BY <2>2, <3>5 DEF Promise!Next
    <2>4. CASE seen[t] # 1
      <3>1. Unique' = Unique
        BY <1>18, <2>4, SameUnique DEF UnlockWeak, Shared, Goto, Return, TypeOK
      <3> QED
        BY <2>1, <3>1 DEF Promise!svars
    <2> QED
      BY <2>3, <2>4
  <1>19. ASSUME NEW t \in Threads, EndMut(t)
         PROVE  [Promise!Next]_(Promise!svars)
    <2>1. Handed' = Handed /\ memory' = memory
      BY <1>19 DEF Handed, EndMut
    <2>2. /\ Unique = on[t] /\ on[t] \in Handles /\ Unique # NoHandle
          /\ value \in {"raw", "live"}
      BY <1>19, UniqueIs, HandlesAssumption DEF EndMut, Shapes, Shape, Values, NoStrong
    <2>3. \A u \in Threads : pc'[u] # "mut"
      BY <1>19, <2>2, UniqueIs DEF EndMut, Return, TypeOK, Exclusion
    <2>4. Unique' = NoHandle
      BY <2>3 DEF Unique
    <2>5. op[t] = "default" => value = "raw"
      BY DEF Values
    <2>6. Promise!Write(on[t]) \/ Promise!EndAccess
      BY <1>19, <2>1, <2>2, <2>4, <2>5 DEF Promise!Write, Promise!EndAccess, EndMut
    <2> QED
      BY <2>2, <2>6 DEF Promise!Next
  <1>20. ASSUME NEW t \in Threads, TryUnwrap(t)
         PROVE  [Promise!Next]_(Promise!svars)
    <2>1. Unique' = Unique
      BY <1>20, SameUnique DEF TryUnwrap, Goto, TypeOK
    <2>2. CASE strong = 1
      <3>1. /\ on[t] \in Handles /\ held[on[t]] = "strong" /\ value = "live" /\ memory
        BY <1>20 DEF TryUnwrap, Shapes, Shape, Values, Life, NoStrong
      <3>2. Sole(on[t])
        BY <2>2, <3>1, CountFacts
      <3>3. Unique = NoHandle
        BY <1>20, <3>1, <3>2, UniqueIs DEF TryUnwrap
      <3>4. Handed' = [Handed EXCEPT ![on[t]] = "free"]
        BY <1>20, <2>2, <3>1 DEF TryUnwrap, Handed, TypeOK
      <3>5. Promise!Take(on[t])
        BY <1>20, <2>1, <2>2, <3>1, <3>2, <3>3, <3>4, KindsAre
           DEF Promise!Take, TryUnwrap
      <3> QED
        BY <3>1, <3>5 DEF Promise!Next
    <2>3. CASE strong # 1
      <3>1. Handed' = Handed
        BY <1>20, <2>3 DEF TryUnwrap, Handed
      <3> QED
        BY <1>20, <2>1, <2>3, <3>1 DEF TryUnwrap, Promise!svars
    <2> QED
      BY <2>2, <2>3
  <1>21. ASSUME NEW t \in Threads, CopyFails(t)
         PROVE  [Promise!Next]_(Promise!svars)
    <2>1. Handed' = Handed
      BY <1>21 DEF Handed, TypeOK, CopyFails, Return, data
    <2>2. Unique' = Unique
      BY <1>21, SameUnique DEF TypeOK, CopyFails, Return, data
    <2> QED
      BY <1>21, <2>1, <2>2 DEF Promise!svars, CopyFails, Return, data
  <1>22. ASSUME NEW t \in Threads, NEW h \in Handles, TryDefault(t, h)
         PROVE  [Promise!Next]_(Promise!svars)
    <2>1. Handed[h] = "free" /\ Handed' = [Handed EXCEPT ![h] = "strong"]
      BY <1>22 DEF Handed, TypeOK, TryDefault, Goto
    <2>2. Unique' = Unique
      BY <1>22, SameUnique DEF TypeOK, TryDefault, Goto
    <2>3. Promise!Create(h)
      BY <1>22, <2>1, <2>2, KindsAre DEF Promise!Create, TryDefault, Goto
    <2> QED
      BY <2>3, <1>22 DEF Promise!Next
  <1>23. ASSUME NEW t \in Threads, NEW o \in Growing, NEW h \in Handles, NEW n \in Handles,
                Begin(t, o, h, n)
         PROVE  [Promise!Next]_(Promise!svars)
    <2>1. Handed' = Handed
      BY <1>23 DEF Handed, TypeOK, Begin, Goto
    <2>2. Unique' = Unique
      BY <1>23, SameUnique DEF TypeOK, Begin, Goto
    <2> QED
      BY <1>23, <2>1, <2>2 DEF Promise!svars, Begin, Goto
  <1>24. ASSUME NEW t \in Threads, NEW h \in Handles, DropWeak(t, h)
         PROVE  [Promise!Next]_(Promise!svars)
    <2>0. Unique # h
      <3>1. CASE \E u \in Threads : pc[u] = "mut"
        BY <1>24, <3>1, UniqueIs DEF Shapes, Shape, DropWeak
      <3>2. CASE \A u \in Threads : pc[u] # "mut"
        BY <3>2, UniqueIs, HandlesAssumption
      <3> QED
        BY <3>1, <3>2
    <2>1. Handed[h] = "weak" /\ Handed' = [Handed EXCEPT ![h] = "free"]
      BY <1>24 DEF Handed, TypeOK, DropWeak, Lower, Goto, Return
    <2>2. Unique' = Unique
      BY <1>24, SameUnique DEF TypeOK, DropWeak, Lower, Goto, Return
    <2>3. Promise!Leave(h)
      BY <1>24, <2>1, <2>2, KindsAre, <2>0
         DEF Promise!Leave, DropWeak, Lower, Goto, Return
    <2> QED
      BY <2>3, <1>24 DEF Promise!Next
  <1>25. ASSUME NEW t \in Threads, NEW o \in {"get_mut", "unwrap"}, NEW h \in Handles,
                BeginExclusive(t, o, h)
         PROVE  [Promise!Next]_(Promise!svars)
    <2>1. Handed' = Handed
      BY <1>25 DEF Handed, TypeOK, BeginExclusive, Goto, data
    <2>2. Unique' = Unique
      BY <1>25, SameUnique DEF TypeOK, BeginExclusive, Goto, data
    <2> QED
      BY <1>25, <2>1, <2>2 DEF Promise!svars, BeginExclusive, Goto, data
  <1> QED
    BY NextCases, <1>1, <1>2, <1>3, <1>4, <1>5, <1>6, <1>7, <1>8, <1>9, <1>10, <1>11,
       <1>12, <1>13, <1>14, <1>15, <1>16, <1>17, <1>18, <1>19, <1>20, <1>21, <1>22,
       <1>23, <1>24, <1>25

LEMMA PromiseInit ==
  ASSUME Init
  PROVE  Promise!Init
  BY DEF Init, Promise!Init, Handed, Unique

\* The counts written and raised behind std's back keep every promise of an Arc
\* or Rc: nothing is reached after it was freed, an upgrade succeeds only while
\* a strong handle keeps the value, which is dropped or moved out once.
THEOREM Refinement == Spec => ImplementsSharedValue
  <1>1. IInv /\ [Next]_vars => [Promise!Next]_(Promise!svars)
    <2>1. ASSUME UNCHANGED vars PROVE UNCHANGED Promise!svars
      BY <2>1 DEF vars, Promise!svars, Handed, Unique
    <2> QED
      BY <2>1, PromiseStep
  <1> QED
    BY <1>1, PromiseInit, Invariance, PTL DEF Spec, ImplementsSharedValue, Promise!Spec
===============================================================================
