--------------------------- MODULE CollectionsProofs ---------------------------
(***************************************************************************)
(* Proofs about the fallible insertions into the other collections of alloc *)
(* and std, Collections, for any items, any number of list nodes and any    *)
(* bounds.                                                                  *)
(***************************************************************************)
EXTENDS Collections, FiniteSetTheorems, SequenceTheorems, WellFoundedInduction, TLAPS

\* Sets of numbers have a least one, so counting up reaches every number.
LEMMA LeastNumber ==
  ASSUME NEW T, T \subseteq Nat, T # {}
  PROVE \E x \in T : \A y \in T : x <= y
  <1>1. PICK x \in T : \A y \in T : ~(<<y,x>> \in OpToRel(<,Nat))
    BY NatLessThanWellFounded, WFMin
  <1>2. \A y \in T : <<y,x>> \in OpToRel(<,Nat) <=> y < x
    BY DEF OpToRel
  <1>3. \A y \in T : ~(y < x)
    BY <1>1, <1>2, Zenon
  <1> QED BY <1>3

LEMMA Counting ==
  ASSUME NEW T, 0 \in T, \A n \in Nat : n \in T => n + 1 \in T
  PROVE  Nat \subseteq T
  <1> SUFFICES ASSUME Nat \ T # {} PROVE FALSE
    OBVIOUS
  <1>1. PICK x \in Nat \ T : \A y \in Nat \ T : x <= y
    BY LeastNumber
  <1>2. x # 0 /\ x - 1 \in Nat
    BY <1>1
  <1>3. x - 1 \in T
    BY <1>1, <1>2
  <1> QED BY <1>1, <1>2, <1>3

(***************************************************************************)
(* What a collection holds, and how many.                                   *)
(***************************************************************************)
IsSeq(s) == \E S : s \in Seq(S)

LEMMA PutAtSeq ==
  ASSUME NEW c, IsSeq(c), NEW at \in 0 .. Len(c), NEW e
  PROVE  IsSeq(PutAt(c, at, e)) /\ Len(PutAt(c, at, e)) = Len(c) + 1
  <1>1. PICK S : c \in Seq(S)
    BY DEF IsSeq
  <1> DEFINE T == S \union {e}
             r == SubSeq(c, at + 1, Len(c))
             l == SubSeq(c, 1, at)
  <1>2. c \in Seq(T) /\ <<e>> \in Seq(T) /\ Len(<<e>>) = 1
    BY <1>1
  <1>3. l \in Seq(T) /\ Len(l) = at /\ r \in Seq(T) /\ Len(r) = Len(c) - at /\ Len(c) \in Nat
    BY <1>2
  <1> HIDE DEF T, l, r
  <1>4. l \o <<e>> \in Seq(T) /\ Len(l \o <<e>>) = at + 1
    BY <1>2, <1>3
  <1>5. l \o <<e>> \o r \in Seq(T) /\ Len(l \o <<e>> \o r) = Len(c) + 1
    BY <1>3, <1>4
  <1> QED BY <1>5 DEF PutAt, IsSeq, l, r

\* One more element in a sequence; in a map, at most one more key.
LEMMA PutSeq ==
  ASSUME NEW k, k # "map", NEW c, IsSeq(c), NEW e
  PROVE  IsSeq(Put(k, c, e)) /\ Len(Put(k, c, e)) = Len(c) + 1
  <1>1. CASE k = "heap"
    <2> DEFINE below == {i \in 1 .. Len(c) : c[i] <= e}
    <2>1. Len(c) \in Nat
      BY DEF IsSeq
    <2>2. IsFiniteSet(1 .. Len(c)) /\ Cardinality(1 .. Len(c)) = Len(c)
      <3>1. PICK n \in Nat : n = Len(c)
        BY <2>1
      <3>2. IsFiniteSet(1 .. n) /\ Cardinality(1 .. n) = IF 1 > n THEN 0 ELSE n - 1 + 1
        BY FS_Interval
      <3>3. Cardinality(1 .. n) = n
        BY <3>2
      <3> QED BY <3>1, <3>2, <3>3
    <2>3. Cardinality(below) \in 0 .. Len(c)
      <3>1. below \subseteq 1 .. Len(c)
        OBVIOUS
      <3> HIDE DEF below
      <3>2. IsFiniteSet(below) /\ Cardinality(below) <= Len(c)
        BY <2>2, <3>1, FS_Subset
      <3> QED BY <2>1, <3>2, FS_CardinalityType
    <2> QED BY <1>1, <2>3, PutAtSeq DEF Put
  <1>2. CASE k # "heap"
    <2>1. PICK S : c \in Seq(S)
      BY DEF IsSeq
    <2>2. c \in Seq(S \union {e})
      BY <2>1
    <2>3. Append(c, e) \in Seq(S \union {e}) /\ Len(Append(c, e)) = Len(c) + 1
      BY <2>2
    <2> QED BY <1>2, <2>3 DEF Put, IsSeq
  <1> QED BY <1>1, <1>2

LEMMA PutMap ==
  ASSUME NEW c, IsFiniteSet(DOMAIN c), NEW e
  PROVE  /\ IsFiniteSet(DOMAIN Put("map", c, e))
         /\ Cardinality(DOMAIN Put("map", c, e)) <= Cardinality(DOMAIN c) + 1
  <1>1. DOMAIN Put("map", c, e) = DOMAIN c \union {KeyOf(e)}
    BY DEF Put
  <1>2. Cardinality(DOMAIN c) \in Nat
    BY FS_CardinalityType
  <1> QED BY <1>1, <1>2, FS_AddElement

\* The items put one by one: f[n] holds the first n of them.
Puts(f, n, k, c, xs) == f = [i \in 0 .. n |-> IF i = 0 THEN c ELSE Put(k, f[i - 1], xs[i])]

LEMMA PutsExist == ASSUME NEW k, NEW c, NEW xs PROVE \A n \in Nat : \E f : Puts(f, n, k, c, xs)
  <1> DEFINE T == {n \in Nat : \E f : Puts(f, n, k, c, xs)}
  <1>1. 0 \in T
    <2>1. Puts([i \in 0 .. 0 |-> c], 0, k, c, xs)
      BY DEF Puts
    <2> QED BY <2>1
  <1>2. ASSUME NEW n \in Nat, n \in T PROVE n + 1 \in T
    <2>1. PICK f : Puts(f, n, k, c, xs)
      BY <1>2
    <2> DEFINE g == [i \in 0 .. n + 1 |-> IF i = n + 1 THEN Put(k, f[n], xs[n + 1]) ELSE f[i]]
    <2>2. Puts(g, n + 1, k, c, xs)
      <3>1. \A i \in 0 .. n + 1 : g[i] = IF i = 0 THEN c ELSE Put(k, g[i - 1], xs[i])
        BY <2>1 DEF Puts
      <3>2. g = [i \in 0 .. n + 1 |-> g[i]]
        OBVIOUS
      <3> HIDE DEF g
      <3> QED BY <3>1, <3>2 DEF Puts
    <2> QED BY <2>2
  <1> HIDE DEF T
  <1>3. Nat \subseteq T
    BY <1>1, <1>2, Counting
  <1> QED BY <1>3 DEF T

LEMMA PutAllIs ==
  ASSUME NEW k, NEW c, NEW xs, Len(xs) \in Nat
  PROVE  \E f : Puts(f, Len(xs), k, c, xs) /\ PutAll(k, c, xs) = f[Len(xs)]
  <1> DEFINE put == CHOOSE f : f = [i \in 0 .. Len(xs) |-> IF i = 0 THEN c ELSE Put(k, f[i - 1], xs[i])]
  <1>1. PutAll(k, c, xs) = put[Len(xs)]
    BY DEF PutAll
  <1>2. Puts(put, Len(xs), k, c, xs)
    BY PutsExist DEF Puts
  <1> QED BY <1>1, <1>2

LEMMA PutAllSeq ==
  ASSUME NEW k, k # "map", NEW c, IsSeq(c), NEW xs, Len(xs) \in Nat
  PROVE  IsSeq(PutAll(k, c, xs)) /\ Len(PutAll(k, c, xs)) = Len(c) + Len(xs)
  <1>1. PICK f : Puts(f, Len(xs), k, c, xs) /\ PutAll(k, c, xs) = f[Len(xs)]
    BY PutAllIs
  <1> DEFINE T == {n \in Nat : n <= Len(xs) => IsSeq(f[n]) /\ Len(f[n]) = Len(c) + n}
  <1>2. Len(c) \in Nat
    BY DEF IsSeq
  <1>3. 0 \in T
    BY <1>1, <1>2 DEF Puts
  <1>4. ASSUME NEW n \in Nat, n \in T PROVE n + 1 \in T
    <2> SUFFICES ASSUME n + 1 <= Len(xs) PROVE IsSeq(f[n + 1]) /\ Len(f[n + 1]) = Len(c) + (n + 1)
      OBVIOUS
    <2>1. f[n + 1] = Put(k, f[n], xs[n + 1])
      BY <1>1 DEF Puts
    <2>2. IsSeq(f[n]) /\ Len(f[n]) = Len(c) + n
      BY <1>4
    <2> QED BY <1>2, <2>1, <2>2, PutSeq
  <1> HIDE DEF T
  <1>5. Nat \subseteq T
    BY <1>3, <1>4, Counting
  <1> QED BY <1>1, <1>5 DEF T

(***************************************************************************)
(* No infallible call allocates.                                            *)
(***************************************************************************)
Rows == {"vec", "deque", "heap"}
One == {"push_back", "push_front", "insert"}
Bare == {"append", "shrink", "box"}
CallOK(c) ==
  /\ c.op \in Has(kind)
  /\ c = Request(c.op, c.xs, c.at, c.to)
  /\ c.xs \in Seq(Elems) /\ c.at \in Nat /\ c.to \in Nat
  /\ c.op \in One => Len(c.xs) = 1
  /\ c.op \in Bare => c.xs = <<>>

LEMMA ListsAre == \A n \in Nat : Lists(n) \subseteq Seq(Elems)
  BY DEF Lists

LEMMA RequestShape ==
  ASSUME NEW c \in Requests(kind), c.op \in Has(kind)
  PROVE  CallOK(c)
  <1> DEFINE one == {<<e>> : e \in Elems}
             Shape(d) == /\ d = Request(d.op, d.xs, d.at, d.to)
                         /\ d.xs \in Seq(Elems) /\ d.at \in Nat /\ d.to \in Nat
                         /\ d.op \in One => Len(d.xs) = 1
                         /\ d.op \in Bare => d.xs = <<>>
             named(os) == os \intersect Has(kind)
  <1> SUFFICES Shape(c)
    BY DEF CallOK
  <1>1. one \subseteq Seq(Elems) /\ \A s \in one : Len(s) = 1
    <2>1. ASSUME NEW e \in Elems PROVE <<e>> \in Seq(Elems) /\ Len(<<e>>) = 1
      OBVIOUS
    <2> QED BY <2>1
  <1>2. MaxLen \in Nat /\ MaxCap \in Nat /\ MaxGiven \in Nat /\ Lists(MaxGiven) \subseteq Seq(Elems)
    BY BoundsAssumption, ListsAre
  <1>3. ASSUME NEW o, NEW xs \in Seq(Elems), NEW at \in Nat, NEW to \in Nat,
               o \in One => Len(xs) = 1, o \in Bare => xs = <<>>, c = Request(o, xs, at, to)
        PROVE  Shape(c)
    <2>1. c.op = o /\ c.xs = xs /\ c.at = at /\ c.to = to
      BY <1>3 DEF Request
    <2> QED BY <1>3, <2>1
  <1>4. /\ <<>> \in Seq(Elems) /\ 0 \in Nat
        /\ 0 .. MaxLen \subseteq Nat /\ 1 .. MaxLen \subseteq Nat /\ 0 .. MaxCap \subseteq Nat
    OBVIOUS
  <1> HIDE DEF one, Shape
  <1>5. CASE \E o \in named({"push_back", "push_front"}), xs \in one : c = Request(o, xs, 0, 0)
    BY <1>1, <1>3, <1>4, <1>5 DEF Bare
  <1>6. CASE \E xs \in one, at \in {0, 1, MaxLen + 1} : c = Request("insert", xs, at, 0)
    <2>1. \A at \in {0, 1, MaxLen + 1} : at \in Nat
      BY <1>2
    <2> QED BY <1>1, <1>3, <1>4, <1>6, <2>1 DEF Bare
  <1>7. CASE \E o \in named({"rollback", "slice", "extend"} \union Fresh0), xs \in Lists(MaxGiven) :
               c = Request(o, xs, 0, 0)
    BY <1>2, <1>3, <1>4, <1>7 DEF Fresh0, One, Bare
  <1>8. CASE \E at \in 0 .. MaxLen, to \in 1 .. MaxLen : c = Request("within", <<>>, at, to)
    <2>1. PICK at \in 0 .. MaxLen, to \in 1 .. MaxLen : c = Request("within", <<>>, at, to)
      BY <1>8
    <2> QED BY <1>3, <1>4, <2>1 DEF One
  <1>9. CASE \E o \in named({"resize", "resize_with"}), xs \in one, to \in 0 .. MaxLen :
               c = Request(o, xs, 0, to)
    <2>1. PICK o \in {"resize", "resize_with"}, xs \in one, to \in 0 .. MaxLen : c = Request(o, xs, 0, to)
      BY <1>9
    <2> QED BY <1>1, <1>3, <1>4, <2>1 DEF Bare
  <1>10. CASE c = Request("append", <<>>, 0, 0) \/ c = Request("box", <<>>, 0, 0)
    BY <1>3, <1>4, <1>10 DEF One
  <1>11. CASE \E o \in named({"shrink"}), to \in 0 .. MaxCap : c = Request(o, <<>>, 0, to)
    <2>1. PICK to \in 0 .. MaxCap : c = Request("shrink", <<>>, 0, to)
      BY <1>11
    <2> QED BY <1>3, <1>4, <2>1 DEF One
  <1> QED BY <1>5, <1>6, <1>7, <1>8, <1>9, <1>10, <1>11 DEF Requests, one

\* The inductive invariant.  Which call is where in its steps;
Where ==
  /\ pc \in {"idle", "reserve", "head", "hint", "loop", "splice", "shrink", "swapped", "absorb"}
  /\ pc # "idle" => CallOK(call)
  /\ pc = "head" => call.op = "extend"
  /\ pc = "hint" => call.op = "extend" /\ kind # "list"
  /\ pc = "reserve" => call.op \notin {"extend", "shrink", "box"} /\ kind # "list"
  /\ pc \in {"splice", "swapped", "absorb"} => call.op = "append"
  /\ pc \in {"swapped", "absorb"} => kind = "heap"
  /\ pc = "shrink" => call.op \in {"shrink", "box"}
  /\ pc = "loop" => call.op \notin {"append", "shrink", "box"} /\ ~OutOfBounds(before, call)

\* what the source holds, an item aside only between calls and while it is added;
Source ==
  /\ head \in Seq(Elems) /\ Len(head) <= 1 /\ rest \in Seq(Elems)
  /\ pc \notin {"idle", "head"} => head = <<>>

\* that the contents are finite, and how far a call has come with them;
Filled ==
  /\ kind \in Rows => IsSeq(items) /\ IsSeq(other)
  /\ kind = "map" => IsFiniteSet(DOMAIN items)
Progress ==
  /\ done \in Nat /\ (pc \in {"idle", "reserve"} => done = 0)
  /\ kind \in Rows /\ pc # "idle" => IsSeq(before)
  /\ kind \in Rows /\ pc \in {"reserve", "loop"} /\ ~FromSource => Len(items) = Len(before) + done

\* and, after a reservation, that there is room for everything still to be added.
Room == kind # "list" =>
  /\ Count <= cap
  /\ pc = "loop" /\ call.op \notin Moving => Count + ToAdd <= cap
  /\ pc \in {"splice", "absorb"} => Count + Len(other) <= cap
  /\ pc = "swapped" => cap = Count /\ Len(other) < Count

RoomInv ==
  /\ kind \in Kinds /\ cap \in Int /\ ~aborted
  /\ Where /\ Source /\ Filled /\ Progress /\ Room

\* Numbers are numbers.
LEMMA CountIs ==
  ASSUME kind \in Kinds, Filled
  PROVE  /\ kind # "list" => Count \in Nat
         /\ kind \in Rows => Count = Len(items) /\ Len(other) \in Nat /\ Size(kind, other) = Len(other)
         /\ kind = "map" => Count = Cardinality(DOMAIN items)
  <1>1. CASE kind = "map"
    BY <1>1, FS_CardinalityType DEF Filled, Count, Size, Rows
  <1>2. CASE kind \in Rows
    BY <1>2 DEF Filled, Count, Size, IsSeq, Rows
  <1>3. CASE kind = "list"
    BY <1>3 DEF Rows
  <1> QED BY <1>1, <1>2, <1>3 DEF Kinds, Rows

LEMMA PendingIs ==
  ASSUME Source
  PROVE  /\ Pending \in Seq(Elems) /\ Len(Pending) \in Nat
         /\ head = <<>> => Pending = rest
         /\ head # <<>> => /\ Pending # <<>> /\ Pending[1] = head[1] /\ Len(Pending) = Len(rest) + 1
                           /\ Len(head) = 1
  <1>1. head \in Seq(Elems) /\ rest \in Seq(Elems) /\ Len(head) \in Nat /\ Len(rest) \in Nat
    BY DEF Source
  <1>2. Pending \in Seq(Elems) /\ Len(Pending) \in Nat
    BY <1>1 DEF Pending
  <1>3. head = <<>> => Pending = rest
    BY <1>1 DEF Pending
  <1>4. ASSUME head # <<>>
        PROVE  Pending # <<>> /\ Pending[1] = head[1] /\ Len(Pending) = Len(rest) + 1 /\ Len(head) = 1
    <2>1. Len(head) = 1
      <3>1. Len(head) \in Nat \ {0}
        BY <1>1, <1>4, EmptySeq
      <3>2. Len(head) \in Nat /\ Len(head) <= 1 /\ Len(head) # 0
        BY <3>1 DEF Source
      <3>3. \A n \in Nat : n <= 1 /\ n # 0 => n = 1
        OBVIOUS
      <3> QED BY <3>2, <3>3, Zenon
    <2>2. Len(head \o rest) = Len(head) + Len(rest) /\ (head \o rest)[1] = head[1]
      BY <1>1, <2>1, ConcatProperties
    <2> QED BY <1>1, <2>1, <2>2 DEF Pending
  <1> QED BY <1>2, <1>3, <1>4

LEMMA WantedIs ==
  ASSUME NEW c, IsSeq(c), NEW r, r.xs \in Seq(Elems), r.at \in Nat, r.to \in Nat, ~OutOfBounds(c, r)
  PROVE  IsSeq(Wanted(c, r))
  <1>1. PICK S : c \in Seq(S)
    BY DEF IsSeq
  <1>2. CASE r.op = "within"
    <2>1. Wanted(c, r) = SubSeq(c, r.at + 1, r.to)
      BY <1>2 DEF Wanted
    <2>2. \A i \in r.at + 1 .. r.to : c[i] \in S
      <3>1. r.at < r.to => r.to <= Len(c)
        BY <1>1, <1>2 DEF OutOfBounds
      <3> QED BY <1>1, <3>1
    <2>3. SubSeq(c, r.at + 1, r.to) \in Seq(S)
      BY <1>1, <2>2
    <2> QED BY <2>1, <2>3 DEF IsSeq
  <1>3. CASE r.op \in {"resize", "resize_with"}
    <2> DEFINE n == IF r.to > Len(c) THEN r.to - Len(c) ELSE 0
    <2>1. n \in Nat
      BY <1>1
    <2>2. [i \in 1 .. n |-> r.xs[1]] \in Seq({r.xs[1]})
      BY <2>1
    <2>3. Wanted(c, r) = [i \in 1 .. n |-> r.xs[1]]
      BY <1>3 DEF Wanted
    <2> QED BY <2>2, <2>3 DEF IsSeq
  <1>4. CASE r.op \notin {"within", "resize", "resize_with"}
    BY <1>4 DEF Wanted, IsSeq
  <1> QED BY <1>2, <1>3, <1>4

LEMMA ToAddIs ==
  ASSUME RoomInv, pc # "idle", kind # "list", ~OutOfBounds(before, call)
  PROVE  /\ FromSource => ToAdd = Len(Pending) /\ ToAdd \in Nat
         /\ ~FromSource => /\ Len(Wanted(before, call)) \in Nat /\ ToAdd \in Int
                           /\ ToAdd = Len(Wanted(before, call)) - done
  <1>1. CASE FromSource
    BY <1>1, PendingIs DEF RoomInv, ToAdd
  <1>2. CASE ~FromSource
    <2>1. call.xs \in Seq(Elems) /\ call.at \in Nat /\ call.to \in Nat /\ call.op \in Has(kind) /\ done \in Nat
      BY DEF RoomInv, Where, CallOK, Progress
    <2>2. IsSeq(Wanted(before, call))
      <3>1. CASE kind = "map"
        <4>1. call.op \notin {"within", "resize", "resize_with"}
          BY <2>1, <3>1 DEF Has
        <4> QED BY <2>1, <4>1 DEF Wanted, IsSeq
      <3>2. CASE kind \in Rows
        BY <2>1, <3>2, WantedIs DEF RoomInv, Progress
      <3> QED BY <3>1, <3>2 DEF RoomInv, Kinds, Rows
    <2>3. Len(Wanted(before, call)) \in Nat
      BY <2>2 DEF IsSeq
    <2> QED BY <1>2, <2>1, <2>3 DEF ToAdd
  <1> QED BY <1>1, <1>2

\* A call that ends leaves the contents within the capacity.
LEMMA IdleKeeps ==
  ASSUME kind' \in Kinds, cap' \in Int, ~aborted', pc' = "idle", done' = 0,
         head' \in Seq(Elems), Len(head') <= 1, rest' \in Seq(Elems),
         Filled', (kind # "list" => Count <= cap)'
  PROVE  RoomInv'
  BY DEF RoomInv, Where, Source, Progress, Room

LEMMA SameContents ==
  ASSUME RoomInv, UNCHANGED <<kind, items, cap, other>>
  PROVE  /\ Filled' /\ kind' \in Kinds /\ cap' \in Int /\ (kind # "list" => Count <= cap)'
         /\ Count' = Count
  BY DEF RoomInv, Filled, Room, Count

LEMMA ReturnKeeps ==
  ASSUME RoomInv, Return, UNCHANGED <<kind, items, cap, other, aborted>>,
         head' \in Seq(Elems), Len(head') <= 1, rest' \in Seq(Elems)
  PROVE  RoomInv'
  BY SameContents, IdleKeeps DEF Return, RoomInv

\* Calls that begin.
LEMMA BeginKeeps ==
  ASSUME RoomInv, NEW c \in Requests(kind), Begin(c)
  PROVE  RoomInv'
  <1>1. /\ pc = "idle" /\ Pending = <<>> /\ c.op \in Has(kind) /\ call' = c /\ pc' = FirstStep(c)
        /\ before' = Now /\ rest' = (IF c.op \in {"slice", "extend"} THEN c.xs ELSE <<>>)
        /\ UNCHANGED <<kind, items, cap, done, head, aborted>>
    BY DEF Begin, Callable
  <1>2. CallOK(c)
    BY <1>1, RequestShape
  <1>3. Source
    BY DEF RoomInv
  <1>4. head = <<>>
    BY <1>1, <1>3, PendingIs
  <1>5. /\ pc' \in {"head", "loop", "shrink", "reserve"}
        /\ pc' = "head" => c.op = "extend"
        /\ pc' = "reserve" => c.op \notin {"extend", "shrink", "box"} /\ kind # "list"
        /\ pc' = "shrink" => c.op \in {"shrink", "box"}
        /\ pc' = "loop" => kind = "list"
    BY <1>1 DEF FirstStep
  <1>6. kind = "list" => c.op \notin {"insert", "within", "append", "shrink", "box"}
    BY <1>1 DEF Has
  <1>7. Where'
    <2>1. CallOK(call)'
      BY <1>1, <1>2 DEF CallOK
    <2>2. pc' = "loop" => ~OutOfBounds(before', call') /\ call'.op \notin {"append", "shrink", "box"}
      BY <1>1, <1>5, <1>6 DEF OutOfBounds
    <2> QED BY <1>1, <1>5, <2>1, <2>2 DEF Where
  <1>8. Source'
    <2>1. rest' \in Seq(Elems)
      BY <1>1, <1>2 DEF CallOK
    <2> QED BY <1>1, <1>3, <1>4, <2>1 DEF Source
  <1>9. other' = other \/ \E xs \in Lists(MaxGiven) : other' = PutAll(kind, EmptyOf(kind), xs)
    BY DEF Begin
  <1>10. Filled'
    <2>1. ASSUME kind \in Rows PROVE IsSeq(other')
      <3>1. CASE other' = other
        BY <2>1, <3>1 DEF RoomInv, Filled
      <3>2. CASE \E xs \in Lists(MaxGiven) : other' = PutAll(kind, EmptyOf(kind), xs)
        <4>1. PICK xs \in Seq(Elems) : other' = PutAll(kind, EmptyOf(kind), xs)
          BY <3>2, ListsAre, BoundsAssumption
        <4>2. Len(xs) \in Nat /\ EmptyOf(kind) = <<>> /\ kind # "map" /\ <<>> \in Seq(Elems)
          BY <2>1 DEF EmptyOf, Rows
        <4> QED BY <4>1, <4>2, PutAllSeq DEF IsSeq
      <3> QED BY <1>9, <3>1, <3>2
    <2> QED BY <1>1, <2>1 DEF RoomInv, Filled
  <1>11. kind \in Rows => before' = items /\ IsSeq(before') /\ Len(before') \in Nat
    BY <1>1 DEF Now, Contents, Rows, RoomInv, Filled, IsSeq
  <1>12. done = 0
    BY <1>1 DEF RoomInv, Progress
  <1>13. Progress'
    BY <1>1, <1>5, <1>11, <1>12 DEF Progress, RoomInv, FromSource, Rows
  <1>14. Room'
    <2>1. Count' = Count
      BY <1>1 DEF Count
    <2> QED BY <1>1, <1>5, <2>1 DEF Room, RoomInv
  <1> QED BY <1>1, <1>7, <1>8, <1>10, <1>13, <1>14 DEF RoomInv

LEMMA RetryKeeps ==
  ASSUME RoomInv, NEW o \in {"extend", "slice"}, Retry(o)
  PROVE  RoomInv'
  <1>1. /\ pc = "idle" /\ (o = "slice" => head = <<>>) /\ call' = Request(o, <<>>, 0, 0)
        /\ pc' = FirstStep(call') /\ before' = Now
        /\ UNCHANGED <<kind, items, cap, other, done, head, rest, aborted>>
    BY DEF Retry, Callable
  <1>2. call'.op = o /\ call'.xs = <<>> /\ call'.at = 0 /\ call'.to = 0
    BY <1>1 DEF Request
  <1>3. kind \in Kinds /\ {"extend", "slice"} \subseteq Has(kind)
    BY DEF RoomInv, Has
  <1>4. CallOK(call)'
    <2>1. call' = Request(call'.op, call'.xs, call'.at, call'.to)
      BY <1>1, <1>2
    <2>2. <<>> \in Seq(Elems) /\ o \notin One /\ o \notin Bare /\ call'.op \in Has(kind')
      BY <1>1, <1>2, <1>3 DEF One, Bare
    <2> QED BY <1>2, <2>1, <2>2 DEF CallOK
  <1>5. /\ pc' = "head" \/ (o = "slice" /\ pc' \in {"loop", "reserve"})
        /\ pc' = "head" => o = "extend"
        /\ pc' = "reserve" => kind # "list"
        /\ pc' = "loop" => kind = "list"
    <2>1. CASE o = "extend"
      <3>1. pc' = "head"
        BY <1>1, <1>2, <2>1 DEF FirstStep
      <3> QED BY <2>1, <3>1
    <2>2. CASE o = "slice"
      <3>1. pc' = IF kind = "list" THEN "loop" ELSE "reserve"
        BY <1>1, <1>2, <2>2 DEF FirstStep
      <3> QED BY <2>2, <3>1
    <2> QED BY <2>1, <2>2
  <1>6. Where'
    BY <1>1, <1>2, <1>4, <1>5 DEF Where, OutOfBounds
  <1>7. Source'
    BY <1>1, <1>5 DEF RoomInv, Source
  <1>8. kind \in Rows => before' = items /\ IsSeq(before')
    BY <1>1 DEF Now, Contents, Rows, RoomInv, Filled, IsSeq
  <1>9. FromSource'
    BY <1>2 DEF FromSource
  <1>10. Progress'
    <2>1. done' = 0
      BY <1>1 DEF RoomInv, Progress
    <2> QED BY <1>1, <1>8, <1>9, <2>1 DEF Progress, Rows
  <1>11. Room'
    BY <1>1, <1>5, SameContents DEF Room
  <1> QED BY <1>1, <1>6, <1>7, <1>10, <1>11, SameContents DEF RoomInv
\* Forget, TakeOut and DropIt, between calls.
LEMMA SmallerSeq ==
  ASSUME NEW s, IsSeq(s), NEW n \in 0 .. Len(s)
  PROVE  IsSeq(SubSeq(s, 1, n)) /\ Len(SubSeq(s, 1, n)) = n
  BY DEF IsSeq

LEMMA BetweenKeeps ==
  ASSUME RoomInv, Forget \/ TakeOut \/ DropIt
  PROVE  RoomInv'
  <1>1. pc = "idle" /\ UNCHANGED <<kind, call, pc, done, before, aborted>>
    BY DEF Forget, TakeOut, DropIt, Callable
  <1>2. /\ done' = 0 /\ kind' \in Kinds /\ ~aborted' /\ cap \in Int
        /\ Source /\ Filled /\ (kind # "list" => Count <= cap)
    BY <1>1 DEF RoomInv, Progress, Room
  <1>3. ASSUME Forget PROVE RoomInv'
    <2>1. kind \in Rows => IsSeq(other')
      BY <1>3 DEF Forget, EmptyOf, Rows, IsSeq
    <2>2. Filled' /\ Count' = Count /\ cap' \in Int
      BY <1>1, <1>2, <1>3, <2>1 DEF Forget, Filled, Count
    <2>3. head' = <<>> /\ rest' = <<>> /\ <<>> \in Seq(Elems) /\ Len(<<>>) <= 1 /\ cap' = cap
      BY <1>3 DEF Forget
    <2> QED BY <1>1, <1>2, <2>2, <2>3, IdleKeeps
  <1>4. ASSUME DropIt PROVE RoomInv'
    <2>1. items' = Blank(kind) /\ cap' = 0 /\ UNCHANGED <<kind, other, head, rest>>
      BY <1>4 DEF DropIt
    <2>2. Filled' /\ (kind' # "list" => Count' = 0)
      <3>1. CASE kind \in Rows
        <4>1. items' = <<>> /\ kind # "map"
          BY <2>1, <3>1 DEF Blank, EmptyOf, Rows
        <4> QED BY <1>2, <2>1, <3>1, <4>1 DEF Filled, IsSeq, Count, Size, Rows
      <3>2. CASE kind = "map"
        <4>1. DOMAIN items' = {}
          BY <2>1, <3>2 DEF Blank, EmptyOf
        <4> QED BY <2>1, <3>2, <4>1, FS_EmptySet DEF Filled, Count, Size, Rows
      <3>3. CASE kind = "list"
        BY <2>1, <3>3 DEF Filled, Rows
      <3> QED BY <1>1, <1>2, <3>1, <3>2, <3>3 DEF Kinds, Rows
    <2> QED BY <1>1, <1>2, <2>1, <2>2, IdleKeeps DEF Source
  <1>5. ASSUME TakeOut PROVE RoomInv'
    <2>1. UNCHANGED <<kind, other, head, rest>> /\ Count > 0
      BY <1>5 DEF TakeOut
    <2>2. Filled' /\ cap' \in Int /\ (kind' # "list" => Count' <= cap')
      <3>1. CASE kind \in Rows
        <4>1. items' = SubSeq(items, 1, Len(items) - 1) /\ cap' = cap
          BY <1>5, <3>1 DEF TakeOut, Rows, Front
        <4>2. Count = Len(items) /\ IsSeq(items) /\ Len(items) \in Nat
          BY <1>2, <3>1, CountIs DEF Filled, IsSeq, RoomInv
        <4>3. IsSeq(items') /\ Len(items') = Len(items) - 1
          BY <2>1, <4>1, <4>2, SmallerSeq
        <4>4. Filled' /\ Count' = Len(items')
          BY <1>2, <2>1, <3>1, <4>3 DEF Filled, Count, Size, Rows
        <4> QED BY <1>2, <3>1, <4>1, <4>2, <4>3, <4>4 DEF Rows
      <3>2. CASE kind = "map"
        <4>1. PICK x \in DOMAIN items : items' = [y \in DOMAIN items \ {x} |-> items[y]]
          BY <1>5, <3>2 DEF TakeOut
        <4>2. cap' \in {cap, cap - 1} /\ Count = Cardinality(DOMAIN items) /\ IsFiniteSet(DOMAIN items)
          BY <1>2, <1>5, <3>2, CountIs DEF TakeOut, RoomInv, Filled
        <4>3. DOMAIN items' = DOMAIN items \ {x}
          BY <4>1
        <4>4. IsFiniteSet(DOMAIN items') /\ Cardinality(DOMAIN items') = Cardinality(DOMAIN items) - 1
          BY <4>1, <4>2, <4>3, FS_RemoveElement
        <4>5. Count' = Cardinality(DOMAIN items')
          BY <2>1, <3>2 DEF Count, Size
        <4>6. Cardinality(DOMAIN items) \in Nat
          BY <4>2, FS_CardinalityType
        <4> QED BY <1>2, <2>1, <3>2, <4>2, <4>4, <4>5, <4>6 DEF Filled, Rows
      <3>3. CASE kind = "list"
        BY <1>2, <1>5, <2>1, <3>3 DEF TakeOut, Filled, Rows
      <3> QED BY <1>1, <1>2, <3>1, <3>2, <3>3 DEF Kinds, Rows
    <2> QED BY <1>1, <1>2, <2>1, <2>2, IdleKeeps DEF Source
  <1> QED BY <1>3, <1>4, <1>5

\* Steps that reserve.
LEMMA ReservedRoom ==
  ASSUME RoomInv, kind # "list", NEW n \in Int, Reserved(n)
  PROVE  cap' \in Int /\ cap <= cap' /\ Count + n <= cap'
  <1>1. Count \in Nat /\ cap \in Int /\ Count <= cap
    BY CountIs DEF RoomInv, Room
  <1>2. CASE Count + n <= cap
    BY <1>1, <1>2 DEF Reserved
  <1>3. CASE ~(Count + n <= cap)
    BY <1>1, <1>3, BoundsAssumption DEF Reserved
  <1> QED BY <1>2, <1>3

LEMMA SwapKeeps == ASSUME RoomInv, Swap PROVE RoomInv'
  <1>1. /\ pc = "reserve" /\ kind = "heap" /\ call.op = "append" /\ Count < Size(kind, other)
        /\ items' = other /\ other' = items /\ cap' = Size(kind, other) /\ pc' = "swapped"
        /\ UNCHANGED <<kind, call, done, before, head, rest, aborted>>
    BY DEF Swap, MustSwap
  <1>2. /\ kind \in Rows /\ IsSeq(items) /\ IsSeq(other)
        /\ Count = Len(items) /\ Size(kind, other) = Len(other) /\ Len(other) \in Nat
    BY <1>1, CountIs DEF RoomInv, Filled, Rows
  <1>3. Count' = Len(other) /\ Len(other') = Len(items)
    BY <1>1 DEF Count, Size
  <1>4. Where'
    BY <1>1 DEF RoomInv, Where, CallOK
  <1>5. Source'
    BY <1>1 DEF RoomInv, Source
  <1>6. Filled'
    BY <1>1, <1>2 DEF Filled
  <1>7. Progress'
    BY <1>1 DEF RoomInv, Progress
  <1>8. Room'
    BY <1>1, <1>2, <1>3 DEF Room
  <1> QED BY <1>1, <1>2, <1>4, <1>5, <1>6, <1>7, <1>8 DEF RoomInv

LEMMA HintKeeps == ASSUME RoomInv, Hint PROVE RoomInv'
  <1>1. /\ pc = "hint" /\ pc' = "loop" /\ call.op = "extend" /\ kind # "list"
        /\ UNCHANGED <<kind, items, other, call, done, before, head, rest, aborted>>
    BY DEF Hint, RoomInv, Where
  <1>2. PICK lower \in 0 .. MaxGiven : Reserved(lower)
    BY DEF Hint
  <1>3. cap' \in Int /\ cap <= cap' /\ Count' = Count /\ Count \in Nat /\ Count <= cap /\ cap \in Int
    BY <1>1, <1>2, ReservedRoom, BoundsAssumption, CountIs DEF Count, RoomInv, Room
  <1>4. Where'
    BY <1>1 DEF RoomInv, Where, CallOK, OutOfBounds
  <1>5. Source' /\ Filled'
    BY <1>1 DEF RoomInv, Source, Filled
  <1>6. Progress'
    BY <1>1 DEF RoomInv, Progress, FromSource
  <1>7. Room'
    BY <1>1, <1>3 DEF Room, Moving
  <1> QED BY <1>1, <1>3, <1>4, <1>5, <1>6, <1>7 DEF RoomInv

LEMMA MakeRoomKeeps == ASSUME RoomInv, MakeRoom PROVE RoomInv'
  <1>1. /\ pc \in {"head", "loop"} /\ call.op \in Moving /\ kind # "list" /\ Reserved(1)
        /\ UNCHANGED <<kind, items, other, call, pc, done, before, head, rest, aborted>>
    BY DEF MakeRoom, More, Full
  <1>2. cap' \in Int /\ cap <= cap' /\ Count' = Count /\ Count \in Nat /\ Count <= cap /\ cap \in Int
    BY <1>1, ReservedRoom, CountIs DEF Count, RoomInv, Room
  <1>3. Where' /\ Source' /\ Filled' /\ Progress'
    BY <1>1 DEF RoomInv, Where, CallOK, OutOfBounds, Source, Filled, Progress, FromSource
  <1>4. Room'
    BY <1>1, <1>2 DEF Room
  <1> QED BY <1>1, <1>2, <1>3, <1>4 DEF RoomInv

LEMMA HeadDoneKeeps == ASSUME RoomInv, HeadDone PROVE RoomInv'
  <1>1. /\ pc = "head" /\ head = <<>> /\ pc' = (IF kind = "list" THEN "loop" ELSE "hint") /\ call.op = "extend"
        /\ UNCHANGED <<kind, items, cap, other, call, done, before, head, rest, aborted>>
    BY DEF HeadDone, RoomInv, Where
  <1>2. pc' \in {"loop", "hint"} /\ (pc' = "loop" => kind = "list") /\ (pc' = "hint" => kind # "list")
    BY <1>1
  <1>3. Where'
    BY <1>1, <1>2 DEF RoomInv, Where, CallOK, OutOfBounds
  <1>4. Source' /\ Progress'
    BY <1>1, <1>2 DEF RoomInv, Source, Progress, FromSource
  <1>5. Room'
    BY <1>1, <1>2, SameContents DEF Room
  <1> QED BY <1>1, <1>3, <1>4, <1>5, SameContents DEF RoomInv

LEMMA ReserveKeeps == ASSUME RoomInv, Reserve PROVE RoomInv'
  <1>1. /\ pc \in {"reserve", "swapped"} /\ ~OutOfBounds(before, call)
        /\ pc' = (IF pc = "swapped" THEN "absorb" ELSE IF call.op = "append" THEN "splice" ELSE "loop")
        /\ UNCHANGED <<kind, items, other, call, done, before, head, rest, aborted>>
    BY DEF Reserve, InBounds
  <1>2. /\ CallOK(call) /\ kind # "list" /\ head = <<>>
        /\ pc = "swapped" => call.op = "append" /\ kind = "heap"
        /\ pc = "reserve" => call.op \notin {"extend", "shrink", "box"} /\ done = 0
    BY <1>1 DEF RoomInv, Where, Source, Progress
  <1>3. PICK n \in Needs : Reserved(n)
    BY DEF Reserve
  <1>4. /\ pc' = "absorb" => pc = "swapped" /\ n = Count
        /\ pc' = "splice" => pc = "reserve" /\ call.op = "append" /\ n = Size(kind, other)
        /\ pc' \in {"absorb", "splice", "loop"}
        /\ pc' = "loop" => /\ pc = "reserve" /\ call.op \notin {"append", "extend"}
                           /\ call.op \in One => n = 1
                           /\ call.op \notin One /\ call.op \notin Moving => n = ToAdd
                           /\ call.op = "collect" => n \in 0 .. MaxGiven
    BY <1>1, <1>2 DEF Needs, One, Moving
  <1>5. /\ FromSource => ToAdd = Len(Pending) /\ ToAdd \in Nat
        /\ ~FromSource => ToAdd \in Int /\ ToAdd = Len(Wanted(before, call)) - done
    BY <1>1, <1>2, ToAddIs
  <1>6. Count \in Nat /\ Count' = Count /\ ToAdd' = ToAdd
    BY <1>1, <1>2, CountIs DEF RoomInv, Count, ToAdd, FromSource, Pending
  <1>7. n \in Int
    <2>1. CASE pc' = "loop"
      BY <1>4, <1>5, <2>1, BoundsAssumption DEF Moving
    <2>2. CASE pc' = "absorb"
      BY <1>4, <1>6, <2>2
    <2>3. CASE pc' = "splice"
      <3>1. kind \in Rows
        BY <1>2, <1>4, <2>3 DEF CallOK, Has, RoomInv, Kinds, Rows
      <3> QED BY <1>4, <2>3, <3>1, CountIs DEF RoomInv
    <2> QED BY <1>4, <2>1, <2>2, <2>3
  <1>8. cap' \in Int /\ cap <= cap' /\ Count + n <= cap'
    BY <1>2, <1>3, <1>7, ReservedRoom
  <1>9. Where'
    BY <1>1, <1>2, <1>4 DEF RoomInv, Where, CallOK, OutOfBounds
  <1>10. Source' /\ Filled'
    BY <1>1, <1>2 DEF RoomInv, Source, Filled
  <1>11. Progress'
    BY <1>1, <1>2, <1>4 DEF RoomInv, Progress, FromSource
  <1>12. Room'
    <2>1. Count <= cap /\ cap \in Int /\ (pc = "swapped" => Len(other) < Count)
      BY <1>1, <1>2 DEF RoomInv, Room
    <2>2. CASE pc' = "loop"
      <3>1. ASSUME call.op \notin Moving PROVE Count + ToAdd <= cap'
        <4>1. CASE call.op \in One
          <5>1. ToAdd = 1
            <6>1. Wanted(before, call) = call.xs /\ Len(call.xs) = 1 /\ ~FromSource
              BY <1>2, <4>1 DEF Wanted, One, CallOK, FromSource
            <6> QED BY <1>2, <1>4, <1>5, <2>2, <6>1
          <5> QED BY <1>4, <1>8, <2>2, <4>1, <5>1
        <4>2. CASE call.op \notin One
          BY <1>4, <1>8, <2>2, <3>1, <4>2
        <4> QED BY <4>1, <4>2
      <3> QED BY <1>1, <1>6, <1>8, <2>1, <2>2, <3>1 DEF Room
    <2>3. CASE pc' = "absorb"
      <3>1. kind \in Rows
        BY <1>2, <1>4, <2>3 DEF Rows
      <3>2. Len(other) \in Nat /\ Len(other) < Count /\ n = Count
        BY <1>4, <2>1, <2>3, <3>1, CountIs DEF RoomInv
      <3>3. Count + Len(other) <= cap'
        BY <1>6, <1>8, <3>2
      <3> QED BY <1>1, <1>6, <1>8, <2>1, <2>3, <3>3 DEF Room
    <2>4. CASE pc' = "splice"
      <3>1. kind \in Rows
        BY <1>2, <1>4, <2>4 DEF CallOK, Has, RoomInv, Kinds, Rows
      <3>2. n = Len(other)
        BY <1>4, <2>4, <3>1, CountIs DEF RoomInv
      <3> QED BY <1>1, <1>6, <1>8, <2>1, <2>4, <3>2 DEF Room
    <2> QED BY <1>4, <2>2, <2>3, <2>4
  <1> QED BY <1>1, <1>8, <1>9, <1>10, <1>11, <1>12 DEF RoomInv

\* Adding one item.
LEMMA AddKeeps == ASSUME RoomInv, Add PROVE RoomInv'
  <1>1. /\ pc \in {"head", "loop"} /\ ToAdd > 0 /\ (pc = "head" => head # <<>>) /\ ~Full
        /\ items' = Placed(Item) /\ aborted' = (kind # "list" /\ Count = cap) /\ done' = done + 1
        /\ FromSource => head' = <<>> /\ rest' = (IF pc = "head" THEN rest ELSE Tail(rest))
        /\ ~FromSource => UNCHANGED <<head, rest>>
        /\ UNCHANGED <<kind, cap, other, call, pc, before>>
    BY DEF Add, More
  <1>2. /\ CallOK(call) /\ (pc = "head" => call.op = "extend") /\ ~OutOfBounds(before, call)
        /\ done \in Nat /\ kind \in Kinds /\ cap \in Int
        /\ pc = "loop" => call.op \notin {"append", "shrink", "box"} /\ head = <<>>
    BY <1>1 DEF RoomInv, Where, Progress, Source, OutOfBounds
  <1>3. Where'
    BY <1>1, <1>2 DEF RoomInv, Where, CallOK, OutOfBounds
  <1>4. /\ head' \in Seq(Elems) /\ Len(head') <= 1 /\ rest' \in Seq(Elems)
        /\ (pc = "loop" => head' = <<>>)
        /\ (FromSource => Pending' = rest' /\ Len(rest') = Len(Pending) - 1)
    <2>1. /\ head \in Seq(Elems) /\ Len(head) <= 1 /\ rest \in Seq(Elems) /\ <<>> \in Seq(Elems) /\ Len(<<>>) <= 1
          /\ Len(rest) \in Nat
      BY DEF RoomInv, Source
    <2>2. CASE ~FromSource
      BY <1>1, <1>2, <2>1, <2>2
    <2>3. CASE FromSource /\ pc = "head"
      <3>1. Len(Pending) = Len(rest) + 1
        BY <1>1, <2>3, PendingIs DEF RoomInv
      <3>2. head' = <<>> /\ rest' = rest
        BY <1>1, <2>3
      <3> QED BY <2>1, <2>3, <3>1, <3>2 DEF Pending
    <2>4. CASE FromSource /\ pc # "head"
      <3>1. Pending = rest /\ ToAdd = Len(rest)
        BY <1>1, <1>2, <2>4, PendingIs DEF RoomInv, ToAdd
      <3>2. rest # <<>>
        BY <1>1, <2>1, <3>1
      <3>3. Tail(rest) \in Seq(Elems) /\ Len(Tail(rest)) = Len(rest) - 1
        BY <2>1, <3>2
      <3>4. head' = <<>> /\ rest' = Tail(rest)
        BY <1>1, <2>4
      <3>5. Pending' = rest'
        BY <3>3, <3>4 DEF Pending
      <3> QED BY <2>1, <3>1, <3>3, <3>4, <3>5
    <2> QED BY <2>2, <2>3, <2>4
  <1>5. Source'
    BY <1>1, <1>4 DEF Source, RoomInv
  <1>6. ASSUME kind # "list"
        PROVE  /\ Filled' /\ Count' \in Nat /\ Count' <= Count + 1
               /\ kind \in Rows => Len(items') = Len(items) + 1
    <2>1. CASE kind \in Rows
      <3>1. IsSeq(items) /\ IsSeq(other) /\ Len(items) \in Nat /\ Count = Len(items) /\ kind # "map"
        BY <1>6, <2>1, CountIs DEF RoomInv, Filled, IsSeq, Rows
      <3>2. IsSeq(items') /\ Len(items') = Len(items) + 1
        <4>1. CASE call.op = "push_front"
          <5>1. items' = <<Item>> \o items
            BY <1>1, <1>6, <4>1 DEF Placed
          <5>2. PICK S : items \in Seq(S)
            BY <3>1 DEF IsSeq
          <5>3. items \in Seq(S \union {Item}) /\ <<Item>> \in Seq(S \union {Item}) /\ Len(<<Item>>) = 1
            BY <5>2
          <5>4. items' \in Seq(S \union {Item}) /\ Len(items') = 1 + Len(items)
            BY <5>1, <5>3
          <5> QED BY <3>1, <5>4 DEF IsSeq
        <4>2. CASE call.op = "insert"
          <5>1. items' = PutAt(items, call.at, Item)
            BY <1>1, <1>6, <4>2 DEF Placed
          <5>2. pc = "loop" /\ ~FromSource
            BY <1>1, <1>2, <4>2 DEF FromSource
          <5>3. Len(items) = Len(before) + done /\ IsSeq(before) /\ Len(before) \in Nat
            BY <2>1, <5>2 DEF RoomInv, Progress, IsSeq
          <5>4. call.at \in Nat /\ call.at <= Len(before)
            BY <1>2, <4>2, <5>3 DEF CallOK, OutOfBounds
          <5>5. call.at \in 0 .. Len(items)
            BY <1>2, <3>1, <5>3, <5>4
          <5> QED BY <3>1, <5>1, <5>5, PutAtSeq
        <4>3. CASE call.op \notin {"push_front", "insert"}
          <5>1. items' = Put(kind, items, Item)
            BY <1>1, <1>6, <4>3 DEF Placed
          <5> QED BY <3>1, <5>1, PutSeq
        <4> QED BY <4>1, <4>2, <4>3
      <3>3. Filled' /\ Count' = Len(items')
        BY <1>1, <2>1, <3>1, <3>2 DEF Filled, Count, Size, Rows
      <3> QED BY <3>1, <3>2, <3>3
    <2>2. CASE kind = "map"
      <3>1. IsFiniteSet(DOMAIN items) /\ Count = Cardinality(DOMAIN items)
        BY <2>2, CountIs DEF RoomInv, Filled
      <3>2. call.op \notin {"push_front", "insert"}
        BY <1>2, <2>2 DEF CallOK, Has
      <3>3. items' = Put("map", items, Item)
        BY <1>1, <2>2, <3>2 DEF Placed
      <3>4. IsFiniteSet(DOMAIN items') /\ Cardinality(DOMAIN items') <= Cardinality(DOMAIN items) + 1
        BY <3>1, <3>3, PutMap
      <3>5. Filled' /\ Count' = Cardinality(DOMAIN items') /\ Cardinality(DOMAIN items') \in Nat
        BY <1>1, <2>2, <3>4, FS_CardinalityType DEF Filled, Count, Size, Rows
      <3> QED BY <2>2, <3>1, <3>4, <3>5 DEF Rows
    <2> QED BY <1>2, <1>6, <2>1, <2>2 DEF Kinds, Rows
  <1>7. Filled'
    <2>1. CASE kind = "list"
      BY <1>1, <2>1 DEF Filled, Rows
    <2> QED BY <1>6, <2>1
  <1>8. Progress'
    <2>1. done + 1 \in Nat /\ pc \notin {"idle", "reserve"}
      BY <1>1, <1>2
    <2>2. kind \in Rows => IsSeq(before) /\ Len(before) \in Nat
      BY <2>1 DEF RoomInv, Progress, IsSeq
    <2>3. kind \in Rows /\ pc = "loop" /\ ~FromSource => Len(items') = Len(before) + (done + 1)
      BY <1>2, <1>6, <2>2 DEF RoomInv, Progress, Rows
    <2> QED BY <1>1, <2>1, <2>2, <2>3 DEF Progress, FromSource
  <1>9. ASSUME kind # "list" PROVE Count < cap /\ Count \in Nat
    <2>1. Count <= cap /\ Count \in Nat /\ (pc = "loop" /\ call.op \notin Moving => Count + ToAdd <= cap)
      BY <1>9, CountIs DEF RoomInv, Room
    <2>2. CASE call.op \in Moving
      BY <1>1, <1>2, <1>9, <2>1, <2>2 DEF Full
    <2>3. CASE call.op \notin Moving
      <3>1. pc = "loop"
        BY <1>1, <1>2, <2>3 DEF Moving
      <3>2. ToAdd \in Int
        BY <1>2, <1>9, <3>1, ToAddIs
      <3> QED BY <1>1, <1>2, <2>1, <2>3, <3>1, <3>2
    <2> QED BY <2>2, <2>3
  <1>10. ~aborted'
    <2>1. ~(kind # "list" /\ Count = cap)
      BY <1>2, <1>9
    <2>2. aborted' = (kind # "list" /\ Count = cap)
      BY <1>1
    <2> QED BY <2>1, <2>2
  <1>11. Room'
    <2> SUFFICES ASSUME kind # "list" PROVE Room'
      BY <1>1 DEF Room
    <2>1. Count' <= cap
      BY <1>2, <1>6, <1>9
    <2>2. ASSUME pc = "loop", call.op \notin Moving PROVE Count' + ToAdd' <= cap
      <3>1. Count + ToAdd <= cap
        BY <2>2 DEF RoomInv, Room
      <3>2. ToAdd \in Int /\ ToAdd' = ToAdd - 1
        <4>1. CASE FromSource
          <5>1. ToAdd = Len(Pending) /\ ToAdd \in Nat
            BY <1>2, <2>2, <4>1, ToAddIs
          <5>2. FromSource' /\ ToAdd' = Len(Pending')
            BY <1>1, <4>1 DEF FromSource, ToAdd
          <5>3. Len(Pending') = Len(Pending) - 1
            BY <1>4, <4>1
          <5> QED BY <5>1, <5>2, <5>3
        <4>2. CASE ~FromSource
          <5>1. ToAdd = Len(Wanted(before, call)) - done /\ Len(Wanted(before, call)) \in Nat
            BY <1>2, <2>2, <4>2, ToAddIs
          <5>2. ToAdd' = Len(Wanted(before, call)) - (done + 1)
            BY <1>1, <4>2 DEF FromSource, ToAdd
          <5> QED BY <1>2, <5>1, <5>2
        <4> QED BY <4>1, <4>2
      <3> QED BY <1>2, <1>6, <1>9, <3>1, <3>2
    <2> QED BY <1>1, <2>1, <2>2 DEF Room
  <1> QED BY <1>1, <1>2, <1>3, <1>5, <1>7, <1>8, <1>10, <1>11 DEF RoomInv

\* Steps that end a call with other contents.
LEMMA TruncateKeeps == ASSUME RoomInv, Truncate PROVE RoomInv'
  <1>1. /\ pc = "reserve" /\ call.op \in {"resize", "resize_with"} /\ call.to <= Len(before)
        /\ items' = SubSeq(items, 1, call.to) /\ pc' = "idle" /\ done' = 0
        /\ UNCHANGED <<kind, cap, other, head, rest, aborted>>
    BY DEF Truncate, Truncates, Return
  <1>2. kind \in Rows /\ kind # "list" /\ kind # "map" /\ call.to \in Nat /\ ~FromSource
    BY <1>1 DEF RoomInv, Where, CallOK, Has, Kinds, Rows, FromSource
  <1>3. /\ IsSeq(items) /\ IsSeq(other) /\ Len(items) \in Nat /\ Count = Len(items)
        /\ Len(items) = Len(before) + done /\ done = 0 /\ Count <= cap /\ Len(before) \in Nat /\ cap \in Int
    BY <1>1, <1>2, CountIs DEF RoomInv, Filled, Progress, IsSeq, Room
  <1>4. IsSeq(items') /\ Len(items') = call.to
    BY <1>1, <1>2, <1>3, SmallerSeq
  <1>5. Filled' /\ Count' = call.to
    BY <1>1, <1>2, <1>3, <1>4 DEF Filled, Count, Size
  <1> QED BY <1>1, <1>2, <1>3, <1>5, IdleKeeps DEF RoomInv, Source

LEMMA RollBackKeeps == ASSUME RoomInv, RollBack PROVE RoomInv'
  <1>1. /\ pc \in {"head", "loop"} /\ call.op \in Bulk
        /\ items' = (IF kind = "list" THEN TruncateTo(items, Len(before)) ELSE SubSeq(items, 1, Len(before)))
        /\ pc' = "idle" /\ done' = 0
        /\ UNCHANGED <<kind, cap, other, head, rest, aborted>>
    BY DEF RollBack, ItemFails, More, Return
  <1>2. pc = "loop" /\ ~FromSource /\ kind # "map"
    BY <1>1 DEF RoomInv, Where, CallOK, Has, Bulk, FromSource
  <1>3. Filled' /\ (kind # "list" => Count' <= cap)
    <2>1. CASE kind = "list"
      BY <1>1, <2>1 DEF Filled, Rows
    <2>2. CASE kind # "list"
      <3>1. kind \in Rows
        BY <1>2, <2>2 DEF RoomInv, Kinds, Rows
      <3>2. /\ IsSeq(items) /\ IsSeq(other) /\ Len(items) \in Nat /\ Count = Len(items)
            /\ Len(items) = Len(before) + done /\ done \in Nat /\ Count <= cap /\ Len(before) \in Nat /\ cap \in Int
        BY <1>2, <2>2, <3>1, CountIs DEF RoomInv, Filled, Progress, IsSeq, Room
      <3>3. IsSeq(items') /\ Len(items') = Len(before)
        BY <1>1, <2>2, <3>2, SmallerSeq
      <3>4. Filled' /\ Count' = Len(before)
        BY <1>1, <1>2, <2>2, <3>2, <3>3 DEF Filled, Count, Size
      <3> QED BY <3>2, <3>4
    <2> QED BY <2>1, <2>2
  <1> QED BY <1>1, <1>3, IdleKeeps DEF RoomInv, Source

LEMMA BlankIs ==
  ASSUME RoomInv, items' = Blank(kind), UNCHANGED <<kind, other>>
  PROVE  Filled' /\ (kind # "list" => Count' = 0)
  <1>1. CASE kind \in Rows
    <2>1. items' = <<>> /\ kind # "map" /\ kind # "list"
      BY <1>1 DEF Blank, EmptyOf, Rows
    <2> QED BY <1>1, <2>1 DEF RoomInv, Filled, IsSeq, Count, Size
  <1>2. CASE kind = "map"
    <2>1. DOMAIN items' = {}
      BY <1>2 DEF Blank, EmptyOf
    <2> QED BY <1>2, <2>1, FS_EmptySet DEF Filled, Count, Size, Rows
  <1>3. CASE kind = "list"
    BY <1>3 DEF Filled, Rows
  <1> QED BY <1>1, <1>2, <1>3 DEF RoomInv, Kinds, Rows

LEMMA DropHalfBuiltKeeps == ASSUME RoomInv, DropHalfBuilt PROVE RoomInv'
  <1>1. /\ items' = Blank(kind) /\ cap' = 0 /\ pc' = "idle" /\ done' = 0
        /\ UNCHANGED <<kind, other, head, rest, aborted>>
    BY DEF DropHalfBuilt, Return
  <1> QED BY <1>1, BlankIs, IdleKeeps DEF RoomInv, Source

LEMMA SpliceKeeps == ASSUME RoomInv, Splice PROVE RoomInv'
  <1>1. /\ pc \in {"splice", "absorb"} /\ call.op = "append" /\ kind \in Rows /\ kind # "list" /\ kind # "map"
        /\ items' = PutAll(kind, items, other) /\ other' = EmptyOf(kind)
        /\ aborted' = (Count + Len(other) > cap) /\ pc' = "idle" /\ done' = 0
        /\ UNCHANGED <<kind, cap, head, rest>>
    BY DEF Splice, Return, RoomInv, Where, CallOK, Has, Kinds, Rows
  <1>2. /\ IsSeq(items) /\ IsSeq(other) /\ Len(items) \in Nat /\ Count = Len(items) /\ Len(other) \in Nat
        /\ Count + Len(other) <= cap /\ cap \in Int
    BY <1>1, CountIs DEF RoomInv, Filled, IsSeq, Room
  <1>3. IsSeq(items') /\ Len(items') = Len(items) + Len(other)
    BY <1>1, <1>2, PutAllSeq
  <1>4. IsSeq(other')
    BY <1>1 DEF EmptyOf, IsSeq
  <1>5. Filled' /\ Count' = Len(items')
    BY <1>1, <1>3, <1>4 DEF Filled, Count, Size
  <1>6. ~aborted'
    <2>1. ~(Count + Len(other) > cap)
      BY <1>2
    <2> QED BY <1>1, <2>1
  <1>7. (kind # "list" => Count <= cap)'
    BY <1>1, <1>2, <1>3, <1>5
  <1> QED BY <1>1, <1>5, <1>6, <1>7, IdleKeeps DEF RoomInv, Source

\* Shrinking.
LEMMA TargetIs ==
  ASSUME RoomInv, pc = "shrink"
  PROVE  /\ kind # "list" /\ Count \in Nat /\ Count <= cap /\ cap \in Int
         /\ Target \in Nat /\ Count <= Target
         /\ call.op = "box" => kind = "vec" /\ Target = Count
  <1>1. CallOK(call) /\ call.op \in {"shrink", "box"} /\ kind \in Kinds /\ cap \in Int
    BY DEF RoomInv, Where
  <1>2. kind # "list" /\ (call.op = "box" => kind = "vec") /\ call.to \in Nat
    BY <1>1 DEF CallOK, Has, Kinds, Bulk
  <1>3. Count \in Nat /\ Count <= cap
    BY <1>2, CountIs DEF RoomInv, Room
  <1> QED BY <1>1, <1>2, <1>3 DEF Target

LEMMA ShrinkNothingKeeps == ASSUME RoomInv, ShrinkNothing PROVE RoomInv'
  <1>1. /\ pc = "shrink" /\ cap <= Target /\ aborted' = (call.op = "box" /\ cap # Count) /\ pc' = "idle" /\ done' = 0
        /\ UNCHANGED <<kind, items, cap, other, head, rest>>
    BY DEF ShrinkNothing, Return
  <1>2. ~aborted'
    <2>1. ~(call.op = "box" /\ cap # Count)
      BY <1>1, TargetIs
    <2> QED BY <1>1, <2>1
  <1> QED BY <1>1, <1>2, SameContents, IdleKeeps DEF RoomInv, Source

LEMMA ShrinkKeeps == ASSUME RoomInv, Shrink PROVE RoomInv'
  <1>1. /\ pc = "shrink" /\ cap' \in (IF kind = "map" THEN Target .. MaxCap ELSE {Target})
        /\ aborted' = (Count > cap' \/ (call.op = "box" /\ cap' # Count)) /\ pc' = "idle" /\ done' = 0
        /\ UNCHANGED <<kind, items, other, head, rest>>
    BY DEF Shrink, Return
  <1>2. cap' \in Int /\ Target <= cap' /\ (kind = "vec" => cap' = Target)
    BY <1>1, TargetIs, BoundsAssumption
  <1>3. ~aborted'
    <2>1. ~(Count > cap' \/ (call.op = "box" /\ cap' # Count))
      BY <1>1, <1>2, TargetIs
    <2> QED BY <1>1, <2>1
  <1>4. Filled' /\ Count' = Count /\ Count' <= cap'
    BY <1>1, <1>2, TargetIs DEF RoomInv, Filled, Count
  <1> QED BY <1>1, <1>2, <1>3, <1>4, IdleKeeps DEF RoomInv, Source

\* The calls that fail or finish and leave the collection as it is.
LEMMA EndsKeep ==
  ASSUME RoomInv, Reject \/ ReserveFails \/ HintFails \/ Finish \/ PushFails \/ Strand \/ StopSlice \/ ShrinkFails
  PROVE  RoomInv'
  <1>1. Return /\ UNCHANGED <<kind, items, cap, other, aborted>>
    BY DEF Reject, ReserveFails, HintFails, Finish, PushFails, Strand, StopSlice, ShrinkFails
  <1>2. Source
    BY DEF RoomInv
  <1>3. head' \in Seq(Elems) /\ Len(head') <= 1 /\ rest' \in Seq(Elems)
    <2>1. CASE UNCHANGED <<head, rest>>
      BY <1>2, <2>1 DEF Source
    <2>2. CASE StopSlice
      <3>1. head' = head /\ rest' \in {rest, <<>>} /\ <<>> \in Seq(Elems)
        BY <2>2 DEF StopSlice
      <3> QED BY <1>2, <3>1 DEF Source
    <2>3. CASE Strand
      <3>1. /\ head' = <<Item>> /\ rest' = (IF pc = "head" THEN rest ELSE Tail(rest))
            /\ pc \in {"head", "loop"} /\ ToAdd > 0 /\ (pc = "head" => head # <<>>) /\ FromSource
        BY <2>3 DEF Strand, ItemFails, More, FromSource
      <3>2. Pending \in Seq(Elems) /\ Len(Pending) \in Nat /\ Len(Pending) > 0 /\ Item = Pending[1]
        BY <1>2, <3>1, PendingIs DEF ToAdd, Item
      <3>3. Item \in Elems
        BY <3>2
      <3>4. <<Item>> \in Seq(Elems) /\ Len(<<Item>>) = 1
        BY <3>3
      <3>5. rest' \in Seq(Elems)
        <4>1. CASE pc = "head"
          BY <1>2, <3>1, <4>1 DEF Source
        <4>2. CASE pc = "loop"
          <5>1. Pending = rest /\ Pending # <<>>
            BY <1>2, <3>2, <4>2, PendingIs DEF Source
          <5>2. rest' = Tail(Pending)
            BY <3>1, <4>2, <5>1
          <5> QED BY <3>2, <5>1, <5>2
        <4> QED BY <3>1, <4>1, <4>2
      <3> QED BY <3>1, <3>4, <3>5
    <2> QED BY <2>1, <2>2, <2>3 DEF Reject, ReserveFails, HintFails, Finish, PushFails, ShrinkFails
  <1> QED BY <1>1, <1>3, ReturnKeeps

LEMMA RoomKept == RoomInv /\ [Next]_vars => RoomInv'
  <1> SUFFICES ASSUME RoomInv, [Next]_vars PROVE RoomInv'
    OBVIOUS
  <1>1. CASE Step
    BY <1>1, SwapKeeps, ReserveKeeps, TruncateKeeps, HintKeeps, MakeRoomKeeps, AddKeeps, HeadDoneKeeps, SpliceKeeps,
       RollBackKeeps, DropHalfBuiltKeeps, ShrinkNothingKeeps, ShrinkKeeps, EndsKeep DEF Step
  <1>2. CASE \E c \in Requests(kind) : Begin(c)
    BY <1>2, BeginKeeps
  <1>3. CASE \E o \in {"extend", "slice"} : Retry(o)
    BY <1>3, RetryKeeps
  <1>4. CASE Forget \/ TakeOut \/ DropIt
    BY <1>4, BetweenKeeps
  <1>5. CASE UNCHANGED vars
    BY <1>5 DEF vars, RoomInv, Where, CallOK, OutOfBounds, Source, Filled, Progress, FromSource, Room, Count, ToAdd,
                Pending
  <1> QED BY <1>1, <1>2, <1>3, <1>4, <1>5 DEF Next

LEMMA RoomStarts == Init => RoomInv
  <1> SUFFICES ASSUME Init PROVE RoomInv
    OBVIOUS
  <1>1. /\ kind \in Kinds /\ items = Blank(kind) /\ cap = 0 /\ other = EmptyOf(kind) /\ pc = "idle" /\ done = 0
        /\ head = <<>> /\ rest = <<>> /\ aborted = FALSE
    BY DEF Init
  <1>2. Filled /\ (kind # "list" => Count = 0)
    <2>1. CASE kind \in Rows
      <3>1. items = <<>> /\ other = <<>> /\ kind # "map"
        BY <1>1, <2>1 DEF Blank, EmptyOf, Rows
      <3> QED BY <2>1, <3>1 DEF Filled, IsSeq, Count, Size, Rows
    <2>2. CASE kind = "map"
      <3>1. DOMAIN items = {}
        BY <1>1, <2>2 DEF Blank, EmptyOf
      <3> QED BY <2>2, <3>1, FS_EmptySet DEF Filled, Count, Size, Rows
    <2>3. CASE kind = "list"
      BY <2>3 DEF Filled, Rows
    <2> QED BY <1>1, <2>1, <2>2, <2>3 DEF Kinds, Rows
  <1>3. Where /\ Source /\ Progress
    BY <1>1 DEF Where, Source, Progress
  <1>4. Room
    BY <1>1, <1>2 DEF Room
  <1> QED BY <1>1, <1>2, <1>3, <1>4 DEF RoomInv

\* No infallible std operation has to allocate, whatever the size_hint promised
\* and however the capacity was chosen: what a call reserves covers every item
\* it goes on to add, and collect and try_extend look before each one.
THEOREM RoomReserved == Spec => []NeverAborts
  <1>1. RoomInv => NeverAborts
    BY DEF RoomInv, NeverAborts
  <1> QED BY RoomStarts, RoomKept, <1>1, PTL DEF Spec

(***************************************************************************)
(* The links of a list.                                                     *)
(***************************************************************************)

\* The nodes of l are those at q[1], q[2], ..., no address twice, each linked
\* to the one before and the one after; their elements are e[1], e[2], ...
NodeAt(q, e, n, i) ==
  [next |-> IF i = n THEN Nil ELSE q[i + 1], prev |-> IF i = 1 THEN Nil ELSE q[i - 1], elem |-> e[i]]
Linked(l, q, e) ==
  /\ l.len \in Nat
  /\ q \in [1 .. l.len -> Addrs] /\ e = [i \in 1 .. l.len |-> e[i]]
  /\ \A i, j \in 1 .. l.len : q[i] = q[j] => i = j
  /\ DOMAIN l.nodes = {q[i] : i \in 1 .. l.len} /\ l.nodes = [a \in DOMAIN l.nodes |-> l.nodes[a]]
  /\ \A i \in 1 .. l.len : l.nodes[q[i]] = NodeAt(q, e, l.len, i)
  /\ l.head = IF l.len = 0 THEN Nil ELSE q[1]
  /\ l.tail = IF l.len = 0 THEN Nil ELSE q[l.len]

LEMMA NodeFields ==
  ASSUME NEW q, NEW e, NEW n, NEW i
  PROVE  /\ NodeAt(q, e, n, i).next = (IF i = n THEN Nil ELSE q[i + 1])
         /\ NodeAt(q, e, n, i).prev = (IF i = 1 THEN Nil ELSE q[i - 1])
         /\ NodeAt(q, e, n, i).elem = e[i]
  BY DEF NodeAt

LEMMA EmptyLinked == Linked(EmptyList, <<>>, <<>>)
  <1>1. EmptyList.len = 0 /\ EmptyList.head = Nil /\ EmptyList.tail = Nil /\ EmptyList.nodes = NoNodes
    BY DEF EmptyList
  <1>2. 1 .. 0 = {} /\ DOMAIN NoNodes = {}
    BY DEF NoNodes
  <1> QED BY <1>1, <1>2 DEF Linked, NoNodes

Back(s, n, x) == [i \in 1 .. n + 1 |-> IF i = n + 1 THEN x ELSE s[i]]
Fore(s, n, x) == [i \in 1 .. n + 1 |-> IF i = 1 THEN x ELSE s[i - 1]]

LEMMA PushBackLinked ==
  ASSUME NEW l, NEW q, NEW e, Linked(l, q, e), NEW a \in Unused(l), NEW x
  PROVE  Linked(PushBack(l, a, x), Back(q, l.len, a), Back(e, l.len, x))
  <1> DEFINE n == l.len
             Q == Back(q, n, a)
             E == Back(e, n, x)
             p == PushBack(l, a, x)
             was == SetNext(l.nodes, l.tail, a)
  <1>1. /\ n \in Nat /\ q \in [1 .. n -> Addrs] /\ (\A i, j \in 1 .. n : q[i] = q[j] => i = j)
        /\ DOMAIN l.nodes = {q[i] : i \in 1 .. n}
        /\ \A i \in 1 .. n : l.nodes[q[i]] = NodeAt(q, e, n, i)
        /\ l.head = (IF n = 0 THEN Nil ELSE q[1]) /\ l.tail = (IF n = 0 THEN Nil ELSE q[n])
    BY DEF Linked
  <1>2. a \in Addrs /\ a \notin DOMAIN l.nodes /\ (\A i \in 1 .. n : q[i] # a /\ q[i] \in Addrs /\ q[i] # Nil)
    BY <1>1, NilAssumption DEF Unused
  <1>3. p.len = n + 1 /\ p.tail = a /\ p.head = (IF l.tail = Nil THEN a ELSE l.head)
    BY DEF PushBack
  <1>4. p.nodes = With(was, a, [next |-> Nil, prev |-> l.tail, elem |-> x])
    BY DEF PushBack
  <1>5. Q \in [1 .. n + 1 -> Addrs] /\ Q[n + 1] = a /\ \A i \in 1 .. n : Q[i] = q[i]
    BY <1>1, <1>2 DEF Back
  <1>6. E = [i \in 1 .. n + 1 |-> E[i]] /\ E[n + 1] = x /\ \A i \in 1 .. n : E[i] = e[i]
    BY <1>1 DEF Back
  <1>7. DOMAIN was = DOMAIN l.nodes
    BY DEF SetNext
  <1>8. \A i \in 1 .. n : was[q[i]] = NodeAt(Q, E, n + 1, i)
    <2> SUFFICES ASSUME NEW i \in 1 .. n PROVE was[q[i]] = NodeAt(Q, E, n + 1, i)
      OBVIOUS
    <2>1. l.nodes[q[i]] = NodeAt(q, e, n, i) /\ q[i] \in DOMAIN l.nodes
      BY <1>1
    <2>2. l.tail = q[n] /\ l.tail # Nil /\ n \in 1 .. n
      BY <1>1, <1>2
    <2>3. NodeAt(Q, E, n + 1, i) = [next |-> Q[i + 1], prev |-> IF i = 1 THEN Nil ELSE q[i - 1], elem |-> e[i]]
      <3>1. i # n + 1 /\ (i # 1 => i - 1 \in 1 .. n)
        BY <1>1
      <3> QED BY <1>5, <1>6, <3>1 DEF NodeAt
    <2>4. CASE i = n
      <3>1. was[q[i]] = [l.nodes[q[i]] EXCEPT !.next = a]
        BY <2>1, <2>2, <2>4 DEF SetNext
      <3> QED BY <1>5, <2>1, <2>3, <2>4, <3>1 DEF NodeAt
    <2>5. CASE i # n
      <3>1. q[i] # q[n] /\ i + 1 \in 1 .. n
        BY <1>1, <2>2, <2>5
      <3>2. was[q[i]] = l.nodes[q[i]]
        BY <2>1, <2>2, <3>1 DEF SetNext
      <3> QED BY <1>5, <2>1, <2>3, <2>5, <3>1, <3>2 DEF NodeAt
    <2> QED BY <2>4, <2>5
  <1> HIDE DEF Q, E, was
  <1>9. DOMAIN p.nodes = DOMAIN l.nodes \union {a} /\ p.nodes = [b \in DOMAIN p.nodes |-> p.nodes[b]]
    BY <1>4, <1>7 DEF With
  <1>10. \A i \in 1 .. n + 1 : p.nodes[Q[i]] = NodeAt(Q, E, n + 1, i)
    <2> SUFFICES ASSUME NEW i \in 1 .. n + 1 PROVE p.nodes[Q[i]] = NodeAt(Q, E, n + 1, i)
      OBVIOUS
    <2>1. CASE i = n + 1
      <3>1. p.nodes[a] = [next |-> Nil, prev |-> l.tail, elem |-> x]
        BY <1>4 DEF With
      <3>2. l.tail = IF i = 1 THEN Nil ELSE Q[i - 1]
        BY <1>1, <1>5, <2>1
      <3> QED BY <1>5, <1>6, <2>1, <3>1, <3>2 DEF NodeAt
    <2>2. CASE i # n + 1
      <3>1. i \in 1 .. n
        BY <1>1, <2>2
      <3>2. q[i] # a /\ q[i] \in DOMAIN was
        BY <1>1, <1>2, <1>7, <3>1
      <3>3. p.nodes[q[i]] = was[q[i]]
        BY <1>4, <3>2 DEF With
      <3> QED BY <1>5, <1>8, <3>1, <3>3
    <2> QED BY <2>1, <2>2
  <1>11. DOMAIN p.nodes = {Q[i] : i \in 1 .. n + 1}
    <2>1. \A i \in 1 .. n + 1 : i = n + 1 \/ i \in 1 .. n
      BY <1>1
    <2>2. n + 1 \in 1 .. n + 1 /\ \A i \in 1 .. n : i \in 1 .. n + 1
      BY <1>1
    <2> QED BY <1>1, <1>5, <1>9, <2>1, <2>2
  <1>12. \A i, j \in 1 .. n + 1 : Q[i] = Q[j] => i = j
    <2>1. \A i \in 1 .. n + 1 : i = n + 1 \/ i \in 1 .. n
      BY <1>1
    <2> QED BY <1>1, <1>2, <1>5, <2>1
  <1>13. p.head = Q[1] /\ p.tail = Q[n + 1] /\ n + 1 # 0 /\ n + 1 \in Nat
    <2>1. CASE n = 0
      BY <1>1, <1>3, <1>5, <2>1
    <2>2. CASE n # 0
      <3>1. 1 \in 1 .. n /\ n \in 1 .. n
        BY <1>1, <2>2
      <3> QED BY <1>1, <1>2, <1>3, <1>5, <2>2, <3>1
    <2> QED BY <2>1, <2>2
  <1> HIDE DEF p, n
  <1>14. Linked(p, Q, E)
    BY <1>3, <1>5, <1>6, <1>9, <1>10, <1>11, <1>12, <1>13 DEF Linked
  <1> QED BY <1>14 DEF p, Q, E, n

LEMMA PushFrontLinked ==
  ASSUME NEW l, NEW q, NEW e, Linked(l, q, e), NEW a \in Unused(l), NEW x
  PROVE  Linked(PushFront(l, a, x), Fore(q, l.len, a), Fore(e, l.len, x))
  <1> DEFINE n == l.len
             Q == Fore(q, n, a)
             E == Fore(e, n, x)
             p == PushFront(l, a, x)
             was == SetPrev(l.nodes, l.head, a)
  <1>1. /\ n \in Nat /\ q \in [1 .. n -> Addrs] /\ (\A i, j \in 1 .. n : q[i] = q[j] => i = j)
        /\ DOMAIN l.nodes = {q[i] : i \in 1 .. n}
        /\ \A i \in 1 .. n : l.nodes[q[i]] = NodeAt(q, e, n, i)
        /\ l.head = (IF n = 0 THEN Nil ELSE q[1]) /\ l.tail = (IF n = 0 THEN Nil ELSE q[n])
    BY DEF Linked
  <1>2. a \in Addrs /\ a \notin DOMAIN l.nodes /\ (\A i \in 1 .. n : q[i] # a /\ q[i] \in Addrs /\ q[i] # Nil)
    BY <1>1, NilAssumption DEF Unused
  <1>3. p.len = n + 1 /\ p.head = a /\ p.tail = (IF l.head = Nil THEN a ELSE l.tail)
    BY DEF PushFront
  <1>4. p.nodes = With(was, a, [next |-> l.head, prev |-> Nil, elem |-> x])
    BY DEF PushFront
  <1>5. Q \in [1 .. n + 1 -> Addrs] /\ Q[1] = a /\ \A i \in 1 .. n : Q[i + 1] = q[i]
    BY <1>1, <1>2 DEF Fore
  <1>6. E = [i \in 1 .. n + 1 |-> E[i]] /\ E[1] = x /\ \A i \in 1 .. n : E[i + 1] = e[i]
    BY <1>1 DEF Fore
  <1>7. DOMAIN was = DOMAIN l.nodes
    BY DEF SetPrev
  <1>8. \A i \in 1 .. n : was[q[i]] = NodeAt(Q, E, n + 1, i + 1)
    <2> SUFFICES ASSUME NEW i \in 1 .. n PROVE was[q[i]] = NodeAt(Q, E, n + 1, i + 1)
      OBVIOUS
    <2>1. l.nodes[q[i]] = NodeAt(q, e, n, i) /\ q[i] \in DOMAIN l.nodes
      BY <1>1
    <2>2. l.head = q[1] /\ l.head # Nil /\ 1 \in 1 .. n
      BY <1>1, <1>2
    <2>3. NodeAt(Q, E, n + 1, i + 1) = [next |-> IF i = n THEN Nil ELSE q[i + 1], prev |-> Q[i], elem |-> e[i]]
      <3>1. i + 1 # 1 /\ (i + 1 = n + 1 <=> i = n) /\ (i + 1) - 1 = i /\ (i # n => i + 1 \in 1 .. n)
        BY <1>1
      <3>2. i # n => Q[(i + 1) + 1] = q[i + 1]
        BY <1>5, <3>1
      <3> QED BY <1>6, <3>1, <3>2 DEF NodeAt
    <2>4. CASE i = 1
      <3>1. was[q[i]] = [l.nodes[q[i]] EXCEPT !.prev = a]
        BY <2>1, <2>2, <2>4 DEF SetPrev
      <3> QED BY <1>5, <2>1, <2>3, <2>4, <3>1 DEF NodeAt
    <2>5. CASE i # 1
      <3>1. q[i] # q[1] /\ i - 1 \in 1 .. n /\ (i - 1) + 1 = i
        BY <1>1, <2>2, <2>5
      <3>2. Q[i] = q[i - 1]
        BY <1>5, <3>1
      <3>3. was[q[i]] = l.nodes[q[i]]
        BY <2>1, <2>2, <3>1 DEF SetPrev
      <3> QED BY <2>1, <2>3, <2>5, <3>2, <3>3 DEF NodeAt
    <2> QED BY <2>4, <2>5
  <1> HIDE DEF Q, E, was
  <1>9. DOMAIN p.nodes = DOMAIN l.nodes \union {a} /\ p.nodes = [b \in DOMAIN p.nodes |-> p.nodes[b]]
    BY <1>4, <1>7 DEF With
  <1>10. \A i \in 1 .. n + 1 : i = 1 \/ (i - 1 \in 1 .. n /\ Q[i] = q[i - 1])
    <2> SUFFICES ASSUME NEW i \in 1 .. n + 1, i # 1 PROVE i - 1 \in 1 .. n /\ Q[i] = q[i - 1]
      OBVIOUS
    <2>1. i - 1 \in 1 .. n /\ (i - 1) + 1 = i
      BY <1>1
    <2> QED BY <1>5, <2>1
  <1>11. \A i \in 1 .. n + 1 : p.nodes[Q[i]] = NodeAt(Q, E, n + 1, i)
    <2> SUFFICES ASSUME NEW i \in 1 .. n + 1 PROVE p.nodes[Q[i]] = NodeAt(Q, E, n + 1, i)
      OBVIOUS
    <2>1. CASE i = 1
      <3>1. p.nodes[a] = [next |-> l.head, prev |-> Nil, elem |-> x]
        BY <1>4 DEF With
      <3>2. l.head = IF i = n + 1 THEN Nil ELSE Q[i + 1]
        BY <1>1, <1>5, <2>1
      <3> QED BY <1>5, <1>6, <2>1, <3>1, <3>2 DEF NodeAt
    <2>2. CASE i # 1
      <3>1. i - 1 \in 1 .. n /\ Q[i] = q[i - 1] /\ (i - 1) + 1 = i
        BY <1>1, <1>10, <2>2
      <3>2. q[i - 1] # a /\ q[i - 1] \in DOMAIN was
        BY <1>1, <1>2, <1>7, <3>1
      <3>3. p.nodes[q[i - 1]] = was[q[i - 1]]
        BY <1>4, <3>2 DEF With
      <3> QED BY <1>8, <3>1, <3>3
    <2> QED BY <2>1, <2>2
  <1>12. DOMAIN p.nodes = {Q[i] : i \in 1 .. n + 1}
    <2>1. 1 \in 1 .. n + 1 /\ \A i \in 1 .. n : i + 1 \in 1 .. n + 1
      BY <1>1
    <2> QED BY <1>1, <1>5, <1>9, <1>10, <2>1
  <1>13. \A i, j \in 1 .. n + 1 : Q[i] = Q[j] => i = j
    <2> SUFFICES ASSUME NEW i \in 1 .. n + 1, NEW j \in 1 .. n + 1, Q[i] = Q[j] PROVE i = j
      OBVIOUS
    <2>1. CASE i = 1 \/ j = 1
      BY <1>2, <1>5, <1>10, <2>1
    <2>2. CASE i # 1 /\ j # 1
      <3>1. i - 1 = j - 1
        BY <1>1, <1>10, <2>2
      <3> QED BY <1>1, <3>1
    <2> QED BY <2>1, <2>2
  <1>14. p.head = Q[1] /\ p.tail = Q[n + 1] /\ n + 1 # 0 /\ n + 1 \in Nat
    <2>1. CASE n = 0
      BY <1>1, <1>3, <1>5, <2>1
    <2>2. CASE n # 0
      <3>1. 1 \in 1 .. n /\ n \in 1 .. n
        BY <1>1, <2>2
      <3> QED BY <1>1, <1>2, <1>3, <1>5, <2>2, <3>1
    <2> QED BY <2>1, <2>2
  <1> HIDE DEF p, n
  <1>15. Linked(p, Q, E)
    BY <1>3, <1>5, <1>6, <1>9, <1>11, <1>12, <1>13, <1>14 DEF Linked
  <1> QED BY <1>15 DEF p, Q, E, n

Cut(s, n) == [i \in 1 .. n |-> s[i]]

LEMMA PopBackLinked ==
  ASSUME NEW l, NEW q, NEW e, Linked(l, q, e), l.len > 0
  PROVE  Linked(PopBack(l), Cut(q, l.len - 1), Cut(e, l.len - 1)) /\ PopBack(l).len = l.len - 1
  <1> DEFINE n == l.len
             m == l.len - 1
             Q == Cut(q, m)
             E == Cut(e, m)
             p == PopBack(l)
             last == l.nodes[l.tail]
             rest1 == [a \in DOMAIN l.nodes \ {l.tail} |-> l.nodes[a]]
  <1>1. /\ n \in Nat /\ q \in [1 .. n -> Addrs] /\ (\A i, j \in 1 .. n : q[i] = q[j] => i = j)
        /\ DOMAIN l.nodes = {q[i] : i \in 1 .. n}
        /\ \A i \in 1 .. n : l.nodes[q[i]] = NodeAt(q, e, n, i)
        /\ l.head = q[1] /\ l.tail = q[n]
    BY DEF Linked
  <1>2. m \in Nat /\ n = m + 1 /\ n \in 1 .. n /\ 1 \in 1 .. n /\ 1 .. m \subseteq 1 .. n
    BY <1>1
  <1>3. \A i \in 1 .. n : q[i] \in Addrs /\ q[i] # Nil
    BY <1>1, NilAssumption
  <1>4. last.prev = IF m = 0 THEN Nil ELSE q[m]
    <2>1. last = NodeAt(q, e, n, n)
      BY <1>1, <1>2
    <2>2. last.prev = IF n = 1 THEN Nil ELSE q[n - 1]
      BY <2>1 DEF NodeAt
    <2> QED BY <1>2, <2>2
  <1>5. /\ p.len = m /\ p.tail = last.prev /\ p.head = (IF last.prev = Nil THEN Nil ELSE l.head)
        /\ p.nodes = SetNext(rest1, last.prev, Nil)
    BY DEF PopBack
  <1>6. Q \in [1 .. m -> Addrs] /\ \A i \in 1 .. m : Q[i] = q[i]
    BY <1>1, <1>2 DEF Cut
  <1>7. E = [i \in 1 .. m |-> E[i]] /\ \A i \in 1 .. m : E[i] = e[i]
    BY DEF Cut
  <1>8. DOMAIN rest1 = {q[i] : i \in 1 .. m} /\ \A i \in 1 .. m : rest1[q[i]] = NodeAt(q, e, n, i)
    <2>1. \A i \in 1 .. n : i = n \/ i \in 1 .. m
      BY <1>2
    <2>2. \A i \in 1 .. m : i \in 1 .. n /\ q[i] # q[n]
      BY <1>1, <1>2
    <2>3. DOMAIN rest1 = {q[i] : i \in 1 .. m}
      BY <1>1, <2>1, <2>2
    <2> QED BY <1>1, <2>2, <2>3
  <1> HIDE DEF Q, E, last, rest1
  <1>9. DOMAIN p.nodes = {Q[i] : i \in 1 .. m} /\ p.nodes = [b \in DOMAIN p.nodes |-> p.nodes[b]]
    <2>1. DOMAIN p.nodes = DOMAIN rest1 /\ p.nodes = [b \in DOMAIN p.nodes |-> p.nodes[b]]
      BY <1>5 DEF SetNext, rest1
    <2> QED BY <1>6, <1>8, <2>1
  <1>10. \A i \in 1 .. m : p.nodes[Q[i]] = NodeAt(Q, E, m, i)
    <2> SUFFICES ASSUME NEW i \in 1 .. m PROVE p.nodes[q[i]] = NodeAt(Q, E, m, i)
      BY <1>6
    <2>1. m # 0 /\ m \in 1 .. m /\ last.prev = q[m] /\ last.prev # Nil /\ i \in 1 .. n /\ m \in 1 .. n
      BY <1>2, <1>3, <1>4
    <2>2. rest1[q[i]] = NodeAt(q, e, n, i) /\ q[i] \in DOMAIN rest1
      BY <1>8
    <2>3. NodeAt(Q, E, m, i) = [next |-> IF i = m THEN Nil ELSE q[i + 1],
                               prev |-> IF i = 1 THEN Nil ELSE q[i - 1], elem |-> e[i]]
      <3>1. (i # m => i + 1 \in 1 .. m) /\ (i # 1 => i - 1 \in 1 .. m)
        BY <1>2
      <3> QED BY <1>6, <1>7, <3>1 DEF NodeAt
    <2>4. NodeAt(q, e, n, i) = [next |-> q[i + 1], prev |-> IF i = 1 THEN Nil ELSE q[i - 1], elem |-> e[i]]
      BY <1>2 DEF NodeAt
    <2>5. CASE i = m
      <3>1. p.nodes[q[i]] = [rest1[q[i]] EXCEPT !.next = Nil]
        BY <1>5, <2>1, <2>2, <2>5 DEF SetNext
      <3> QED BY <2>2, <2>3, <2>4, <2>5, <3>1
    <2>6. CASE i # m
      <3>1. q[i] # q[m]
        BY <1>1, <2>1, <2>6
      <3>2. p.nodes[q[i]] = rest1[q[i]]
        BY <1>5, <2>1, <2>2, <3>1 DEF SetNext
      <3> QED BY <2>2, <2>3, <2>4, <2>6, <3>2
    <2> QED BY <2>5, <2>6
  <1>11. \A i, j \in 1 .. m : Q[i] = Q[j] => i = j
    BY <1>1, <1>2, <1>6
  <1>12. p.head = (IF m = 0 THEN Nil ELSE Q[1]) /\ p.tail = (IF m = 0 THEN Nil ELSE Q[m])
    <2>1. CASE m = 0
      BY <1>4, <1>5, <2>1
    <2>2. CASE m # 0
      <3>1. 1 \in 1 .. m /\ m \in 1 .. m /\ m \in 1 .. n
        BY <1>2, <2>2
      <3> QED BY <1>1, <1>3, <1>4, <1>5, <1>6, <2>2, <3>1
    <2> QED BY <2>1, <2>2
  <1> HIDE DEF p, m, n
  <1>13. Linked(p, Q, E)
    BY <1>2, <1>5, <1>6, <1>7, <1>9, <1>10, <1>11, <1>12 DEF Linked
  <1> QED BY <1>5, <1>13 DEF p, Q, E, m

\* TruncateGuard pops until the length it had is back.
LEMMA TruncateToLinked ==
  ASSUME NEW l, NEW q, NEW e, Linked(l, q, e), NEW n \in 0 .. l.len
  PROVE  Linked(TruncateTo(l, n), Cut(q, n), Cut(e, n)) /\ TruncateTo(l, n).len = n
  <1> DEFINE Pops(f, k) == f = [i \in 0 .. k |-> IF i = 0 THEN l ELSE PopBack(f[i - 1])]
             from == CHOOSE f : Pops(f, l.len)
             T == {k \in Nat : \E f : Pops(f, k)}
             V == {k \in Nat : k <= l.len => /\ Linked(from[k], Cut(q, l.len - k), Cut(e, l.len - k))
                                             /\ from[k].len = l.len - k}
  <1>1. l.len \in Nat /\ q = Cut(q, l.len) /\ e = Cut(e, l.len)
    BY DEF Linked, Cut
  <1>2. 0 \in T
    <2>1. Pops([i \in 0 .. 0 |-> l], 0)
      OBVIOUS
    <2> QED BY <2>1
  <1>3. ASSUME NEW k \in Nat, k \in T PROVE k + 1 \in T
    <2>1. PICK f : Pops(f, k)
      BY <1>3
    <2> DEFINE g == [i \in 0 .. k + 1 |-> IF i = k + 1 THEN PopBack(f[k]) ELSE f[i]]
    <2>2. \A i \in 0 .. k + 1 : g[i] = IF i = 0 THEN l ELSE PopBack(g[i - 1])
      BY <2>1
    <2>3. g = [i \in 0 .. k + 1 |-> g[i]]
      OBVIOUS
    <2> HIDE DEF g
    <2>4. Pops(g, k + 1)
      BY <2>2, <2>3
    <2> QED BY <2>4
  <1> HIDE DEF T
  <1>4. Nat \subseteq T
    BY <1>2, <1>3, Counting
  <1>5. Pops(from, l.len)
    BY <1>1, <1>4 DEF T
  <1>6. TruncateTo(l, n) = from[l.len - n]
    BY DEF TruncateTo
  <1> HIDE DEF from
  <1>7. 0 \in V
    BY <1>1, <1>5
  <1>8. ASSUME NEW k \in Nat, k \in V PROVE k + 1 \in V
    <2> SUFFICES ASSUME k + 1 <= l.len
                 PROVE  /\ Linked(from[k + 1], Cut(q, l.len - (k + 1)), Cut(e, l.len - (k + 1)))
                        /\ from[k + 1].len = l.len - (k + 1)
      OBVIOUS
    <2>1. from[k + 1] = PopBack(from[k])
      BY <1>1, <1>5
    <2>2. Linked(from[k], Cut(q, l.len - k), Cut(e, l.len - k)) /\ from[k].len = l.len - k /\ l.len - k > 0
      BY <1>1, <1>8
    <2>3. \A s : Cut(Cut(s, l.len - k), (l.len - k) - 1) = Cut(s, l.len - (k + 1))
      <3>1. \A i \in 1 .. (l.len - (k + 1)) : i \in 1 .. (l.len - k)
        BY <1>1
      <3>2. (l.len - k) - 1 = l.len - (k + 1)
        BY <1>1
      <3> QED BY <3>1, <3>2 DEF Cut
    <2>4. /\ Linked(PopBack(from[k]), Cut(Cut(q, l.len - k), from[k].len - 1), Cut(Cut(e, l.len - k), from[k].len - 1))
          /\ PopBack(from[k]).len = from[k].len - 1
      BY <2>2, PopBackLinked
    <2> QED BY <1>1, <2>1, <2>2, <2>3, <2>4
  <1> HIDE DEF V
  <1>9. Nat \subseteq V
    BY <1>7, <1>8, Counting
  <1>10. l.len - n \in Nat /\ l.len - n <= l.len /\ l.len - (l.len - n) = n
    BY <1>1
  <1> QED BY <1>6, <1>9, <1>10 DEF V

\* Walking the list either way meets the nodes in order.
LEMMA ForwardIs ==
  ASSUME NEW l, NEW q, NEW e, Linked(l, q, e)
  PROVE  Forward(l) = q
  <1> DEFINE n == l.len
             Meets(at) == at = [i \in 1 .. l.len |->
                                  IF i = 1 THEN l.head
                                  ELSE IF at[i - 1] \in DOMAIN l.nodes THEN l.nodes[at[i - 1]].next ELSE Nil]
             walk == CHOOSE at : Meets(at)
             T == {i \in Nat : i + 1 \in 1 .. n => walk[i + 1] = q[i + 1]}
  <1>1. /\ n \in Nat /\ q \in [1 .. n -> Addrs] /\ DOMAIN l.nodes = {q[i] : i \in 1 .. n}
        /\ \A i \in 1 .. n : l.nodes[q[i]] = NodeAt(q, e, n, i)
        /\ l.head = (IF n = 0 THEN Nil ELSE q[1])
    BY DEF Linked
  <1>2. \A i \in 1 .. n : i # 1 => q[i - 1] \in DOMAIN l.nodes /\ l.nodes[q[i - 1]].next = q[i]
    <2> SUFFICES ASSUME NEW i \in 1 .. n, i # 1
                 PROVE  q[i - 1] \in DOMAIN l.nodes /\ l.nodes[q[i - 1]].next = q[i]
      OBVIOUS
    <2>1. i - 1 \in 1 .. n /\ i - 1 # n /\ (i - 1) + 1 = i
      BY <1>1
    <2>2. q[i - 1] \in DOMAIN l.nodes /\ l.nodes[q[i - 1]] = NodeAt(q, e, n, i - 1)
      BY <1>1, <2>1
    <2>3. NodeAt(q, e, n, i - 1).next = q[i]
      BY <2>1, NodeFields
    <2> QED BY <2>2, <2>3
  <1>3. \A i \in 1 .. n : i = 1 => l.head = q[i]
    BY <1>1
  <1>4. Meets(q)
    BY <1>1, <1>2, <1>3
  <1>5. Meets(walk)
    BY <1>4
  <1>6. Forward(l) = walk
    BY DEF Forward
  <1> HIDE DEF walk
  <1>7. 0 \in T
    BY <1>3, <1>5
  <1>8. ASSUME NEW i \in Nat, i \in T PROVE i + 1 \in T
    <2> SUFFICES ASSUME (i + 1) + 1 \in 1 .. n PROVE walk[(i + 1) + 1] = q[(i + 1) + 1]
      OBVIOUS
    <2>1. i + 1 \in 1 .. n /\ (i + 1) + 1 # 1 /\ ((i + 1) + 1) - 1 = i + 1
      BY <1>1
    <2>2. walk[i + 1] = q[i + 1]
      BY <1>8, <2>1
    <2> QED BY <1>2, <1>5, <2>1, <2>2
  <1> HIDE DEF T
  <1>9. Nat \subseteq T
    BY <1>7, <1>8, Counting
  <1>10. \A i \in 1 .. n : walk[i] = q[i]
    <2> SUFFICES ASSUME NEW i \in 1 .. n PROVE walk[i] = q[i]
      OBVIOUS
    <2>1. i - 1 \in Nat /\ (i - 1) + 1 = i
      BY <1>1
    <2>2. i - 1 \in T
      BY <1>9, <2>1
    <2> QED BY <2>1, <2>2 DEF T
  <1>11. walk = [i \in 1 .. n |-> walk[i]] /\ q = [i \in 1 .. n |-> q[i]]
    BY <1>1, <1>5
  <1>12. walk = q
    BY <1>10, <1>11
  <1> QED BY <1>6, <1>12

Mirror(q, n) == [i \in 1 .. n |-> q[(n - i) + 1]]

LEMMA BackwardIs ==
  ASSUME NEW l, NEW q, NEW e, Linked(l, q, e)
  PROVE  Backward(l) = Mirror(q, l.len)
  <1> DEFINE n == l.len
             r == Mirror(q, n)
             Meets(at) == at = [i \in 1 .. l.len |->
                                  IF i = 1 THEN l.tail
                                  ELSE IF at[i - 1] \in DOMAIN l.nodes THEN l.nodes[at[i - 1]].prev ELSE Nil]
             walk == CHOOSE at : Meets(at)
             T == {i \in Nat : i + 1 \in 1 .. n => walk[i + 1] = r[i + 1]}
  <1>1. /\ n \in Nat /\ q \in [1 .. n -> Addrs] /\ DOMAIN l.nodes = {q[i] : i \in 1 .. n}
        /\ \A i \in 1 .. n : l.nodes[q[i]] = NodeAt(q, e, n, i)
        /\ l.tail = (IF n = 0 THEN Nil ELSE q[n])
    BY DEF Linked
  <1>2. \A i \in 1 .. n : i # 1 => r[i - 1] \in DOMAIN l.nodes /\ l.nodes[r[i - 1]].prev = r[i]
    <2> SUFFICES ASSUME NEW i \in 1 .. n, i # 1
                 PROVE  r[i - 1] \in DOMAIN l.nodes /\ l.nodes[r[i - 1]].prev = r[i]
      OBVIOUS
    <2> DEFINE j == (n - i) + 2
    <2>1. i - 1 \in 1 .. n /\ j \in 1 .. n /\ j # 1 /\ j - 1 = (n - i) + 1 /\ (n - (i - 1)) + 1 = j
      BY <1>1
    <2>2. r[i - 1] = q[j] /\ r[i] = q[j - 1]
      BY <2>1 DEF Mirror
    <2> HIDE DEF j, r
    <2>3. q[j] \in DOMAIN l.nodes /\ l.nodes[q[j]] = NodeAt(q, e, n, j)
      BY <1>1, <2>1
    <2>4. NodeAt(q, e, n, j).prev = q[j - 1]
      BY <2>1, NodeFields
    <2> QED BY <2>2, <2>3, <2>4
  <1>3. \A i \in 1 .. n : i = 1 => l.tail = r[i]
    <2> SUFFICES ASSUME n # 0 PROVE l.tail = r[1]
      BY <1>1
    <2>1. 1 \in 1 .. n /\ (n - 1) + 1 = n
      BY <1>1
    <2> QED BY <1>1, <2>1 DEF Mirror
  <1>4. Meets(r)
    <2>1. r = [i \in 1 .. n |-> r[i]]
      BY DEF Mirror
    <2> HIDE DEF r
    <2> QED BY <1>2, <1>3, <2>1
  <1>5. Meets(walk)
    BY <1>4
  <1>6. Backward(l) = walk
    BY DEF Backward
  <1>7. r = [i \in 1 .. n |-> r[i]]
    BY DEF Mirror
  <1> HIDE DEF walk, r
  <1>8. 0 \in T
    BY <1>3, <1>5
  <1>9. ASSUME NEW i \in Nat, i \in T PROVE i + 1 \in T
    <2> SUFFICES ASSUME (i + 1) + 1 \in 1 .. n PROVE walk[(i + 1) + 1] = r[(i + 1) + 1]
      OBVIOUS
    <2>1. i + 1 \in 1 .. n /\ (i + 1) + 1 # 1 /\ ((i + 1) + 1) - 1 = i + 1
      BY <1>1
    <2>2. walk[i + 1] = r[i + 1]
      BY <1>9, <2>1
    <2> QED BY <1>2, <1>5, <2>1, <2>2
  <1> HIDE DEF T
  <1>10. Nat \subseteq T
    BY <1>8, <1>9, Counting
  <1>11. \A i \in 1 .. n : walk[i] = r[i]
    <2> SUFFICES ASSUME NEW i \in 1 .. n PROVE walk[i] = r[i]
      OBVIOUS
    <2>1. i - 1 \in Nat /\ (i - 1) + 1 = i
      BY <1>1
    <2>2. i - 1 \in T
      BY <1>10, <2>1
    <2> QED BY <2>1, <2>2 DEF T
  <1>12. walk = [i \in 1 .. n |-> walk[i]]
    BY <1>1, <1>5
  <1>13. walk = r
    BY <1>7, <1>11, <1>12
  <1> QED BY <1>6, <1>13 DEF r

LEMMA ElementsIs ==
  ASSUME NEW l, NEW q, NEW e, Linked(l, q, e)
  PROVE  Elements(l) = e /\ Len(e) = l.len
  <1>1. /\ l.len \in Nat /\ e = [i \in 1 .. l.len |-> e[i]]
        /\ \A i \in 1 .. l.len : l.nodes[q[i]] = NodeAt(q, e, l.len, i)
    BY DEF Linked
  <1>2. \A i \in 1 .. l.len : l.nodes[q[i]].elem = e[i]
    <2>1. \A i \in 1 .. l.len : l.nodes[q[i]] = NodeAt(q, e, l.len, i)
      BY <1>1
    <2>2. \A i : NodeAt(q, e, l.len, i).elem = e[i]
      BY NodeFields
    <2> QED BY <2>1, <2>2
  <1>3. Elements(l) = [i \in 1 .. l.len |-> l.nodes[q[i]].elem]
    BY ForwardIs DEF Elements
  <1>4. Elements(l) = e
    BY <1>1, <1>2, <1>3
  <1>5. Len(e) = l.len
    BY <1>1
  <1> QED BY <1>4, <1>5

\* The inductive invariant: the list is linked, and a call under way has added
\* to what it began with exactly the items it counted.
LinkInv == kind = "list" =>
  /\ \E q, e : Linked(items, q, e)
  /\ pc # "idle" => Len(before) \in Nat
  /\ pc = "loop" /\ ~FromSource => items.len = Len(before) + done

LEMMA LinkedAgree ==
  ASSUME kind = "list", NEW q, NEW e, Linked(items, q, e)
  PROVE  LinksAgree
  <1> DEFINE n == items.len
  <1>1. /\ n \in Nat /\ q \in [1 .. n -> Addrs] /\ DOMAIN items.nodes = {q[i] : i \in 1 .. n}
        /\ (\A i, j \in 1 .. n : q[i] = q[j] => i = j)
        /\ \A i \in 1 .. n : items.nodes[q[i]] = NodeAt(q, e, n, i)
        /\ items.head = (IF n = 0 THEN Nil ELSE q[1])
        /\ items.tail = (IF n = 0 THEN Nil ELSE q[n])
    BY DEF Linked
  <1>2. Forward(items) = q /\ Backward(items) = Mirror(q, n)
    BY ForwardIs, BackwardIs
  <1>3. n = Cardinality(DOMAIN items.nodes)
    <2>1. q \in Bijection(1 .. n, DOMAIN items.nodes)
      BY <1>1 DEF Bijection, Injection, Surjection, IsInjective
    <2>2. n \in Nat
      BY <1>1
    <2> HIDE DEF n
    <2>3. IsFiniteSet(1 .. n) /\ Cardinality(1 .. n) = n
      BY <2>2, FS_Interval
    <2> QED BY <2>1, <2>3, FS_Bijection DEF ExistsBijection
  <1>4. Range(q) = DOMAIN items.nodes
    BY <1>1 DEF Range
  <1>5. Mirror(q, n) = Reverse(q)
    <2>1. Len(q) = n
      BY <1>1
    <2> QED BY <2>1 DEF Mirror, Reverse
  <1>6. ASSUME n > 0 PROVE items.nodes[items.head].prev = Nil /\ items.nodes[items.tail].next = Nil
    <2>1. n # 0 /\ 1 \in 1 .. n /\ n \in 1 .. n
      BY <1>1, <1>6
    <2>2. items.nodes[q[1]] = NodeAt(q, e, n, 1) /\ items.nodes[q[n]] = NodeAt(q, e, n, n)
      BY <1>1, <2>1
    <2> QED BY <1>1, <2>1, <2>2 DEF NodeAt
  <1>7. n = 0 => items.head = Nil /\ items.tail = Nil
    BY <1>1
  <1> QED BY <1>2, <1>3, <1>4, <1>5, <1>6, <1>7 DEF LinksAgree

LEMMA NowIs ==
  ASSUME kind = "list", NEW q, NEW e, Linked(items, q, e)
  PROVE  Now = e /\ Len(Now) = items.len /\ items.len \in Nat
  <1>1. Now = Elements(items) /\ items.len \in Nat
    BY DEF Now, Contents, Linked
  <1> QED BY <1>1, ElementsIs

LEMMA KindKept == [Next]_vars => kind' = kind
  <1>1. Step => kind' = kind
    BY DEF Step, Swap, Reject, Reserve, ReserveFails, Truncate, Hint, HintFails, MakeRoom, Add, HeadDone, Finish,
           Splice, RollBack, DropHalfBuilt, PushFails, Strand, StopSlice, ShrinkNothing, Shrink, ShrinkFails
  <1> QED BY <1>1 DEF Next, Begin, Retry, Forget, TakeOut, DropIt, vars

LEMMA LinkKept == RoomInv /\ LinkInv /\ [Next]_vars => LinkInv'
  <1> SUFFICES ASSUME RoomInv, LinkInv, [Next]_vars, kind' = "list" PROVE LinkInv'
    BY DEF LinkInv
  <1>1. kind' = kind
    BY KindKept
  <1>2. PICK q, e : Linked(items, q, e)
    BY <1>1 DEF LinkInv
  <1>3. kind = "list" /\ done \in Nat /\ pc \in {"idle", "head", "loop"}
    BY <1>1 DEF RoomInv, Where, CallOK, Has, Progress, Kinds
  <1>4. pc # "idle" => Len(before) \in Nat
    BY <1>3 DEF LinkInv
  <1>5. items.len \in Nat
    BY <1>2 DEF Linked
  <1>6. ASSUME items' = items, pc' = "idle" PROVE LinkInv'
    BY <1>2, <1>6 DEF LinkInv
  <1>7. ASSUME items' = EmptyList, pc' = "idle" PROVE LinkInv'
    BY <1>7, EmptyLinked DEF LinkInv
  <1>8. ASSUME NEW c \in Requests(kind), Begin(c) PROVE LinkInv'
    <2>1. items' = items /\ before' = Now /\ done' = 0
      BY <1>8 DEF Begin, Callable, RoomInv, Progress
    <2> QED BY <1>2, <1>3, <1>5, <2>1, NowIs DEF LinkInv
  <1>9. ASSUME NEW o \in {"extend", "slice"}, Retry(o) PROVE LinkInv'
    <2>1. items' = items /\ before' = Now /\ done' = 0
      BY <1>9 DEF Retry, Callable, RoomInv, Progress
    <2> QED BY <1>2, <1>3, <1>5, <2>1, NowIs DEF LinkInv
  <1>10. ASSUME Add PROVE LinkInv'
    <2>1. /\ pc \in {"head", "loop"} /\ Unused(items) # {} /\ items' = Placed(Item) /\ done' = done + 1
          /\ UNCHANGED <<call, pc, before>>
      BY <1>3, <1>10 DEF Add, More
    <2>2. Fresh(items) \in Unused(items)
      BY <2>1 DEF Fresh
    <2>3. items' = (IF call.op = "push_front" THEN PushFront(items, Fresh(items), Item)
                    ELSE PushBack(items, Fresh(items), Item))
      BY <1>3, <2>1 DEF Placed
    <2>4. (\E s, t : Linked(items', s, t)) /\ items'.len = items.len + 1
      <3>1. CASE call.op = "push_front"
        <4>1. items' = PushFront(items, Fresh(items), Item)
          BY <2>3, <3>1
        <4>2. Linked(items', Fore(q, items.len, Fresh(items)), Fore(e, items.len, Item))
          BY <1>2, <2>2, <4>1, PushFrontLinked
        <4> QED BY <4>1, <4>2 DEF PushFront
      <3>2. CASE call.op # "push_front"
        <4>1. items' = PushBack(items, Fresh(items), Item)
          BY <2>3, <3>2
        <4>2. Linked(items', Back(q, items.len, Fresh(items)), Back(e, items.len, Item))
          BY <1>2, <2>2, <4>1, PushBackLinked
        <4> QED BY <4>1, <4>2 DEF PushBack
      <3> QED BY <3>1, <3>2
    <2>5. ASSUME pc' = "loop", ~FromSource' PROVE items'.len = Len(before') + done'
      <3>1. items.len = Len(before) + done /\ Len(before) \in Nat
        BY <1>3, <1>4, <2>1, <2>5 DEF LinkInv, FromSource
      <3> QED BY <1>3, <2>1, <2>4, <3>1
    <2> QED BY <1>4, <2>1, <2>4, <2>5 DEF LinkInv
  <1>11. ASSUME RollBack PROVE LinkInv'
    <2>1. /\ pc = "loop" /\ ~FromSource /\ items' = TruncateTo(items, Len(before)) /\ pc' = "idle"
      BY <1>3, <1>11 DEF RollBack, ItemFails, More, Return, RoomInv, Where, Bulk, FromSource
    <2>2. items.len = Len(before) + done /\ Len(before) \in Nat
      BY <1>3, <1>4, <2>1 DEF LinkInv
    <2>3. Len(before) \in 0 .. items.len
      BY <1>3, <1>5, <2>2
    <2>4. Linked(items', Cut(q, Len(before)), Cut(e, Len(before)))
      BY <1>2, <2>1, <2>3, TruncateToLinked
    <2> QED BY <2>1, <2>4 DEF LinkInv
  <1>12. ASSUME TakeOut PROVE LinkInv'
    <2>1. items' = PopBack(items) /\ items.len > 0 /\ pc' = "idle"
      BY <1>3, <1>12 DEF TakeOut, Callable, Count
    <2>2. Linked(items', Cut(q, items.len - 1), Cut(e, items.len - 1))
      BY <1>2, <2>1, PopBackLinked
    <2> QED BY <2>1, <2>2 DEF LinkInv
  <1>13. ASSUME DropHalfBuilt \/ DropIt PROVE LinkInv'
    <2>1. items' = EmptyList /\ pc' = "idle"
      BY <1>3, <1>13 DEF DropHalfBuilt, DropIt, Callable, Return, Blank
    <2> QED BY <1>7, <2>1
  <1>14. ASSUME HeadDone PROVE LinkInv'
    <2>1. items' = items /\ before' = before /\ FromSource' /\ pc # "idle"
      BY <1>14 DEF HeadDone, RoomInv, Where, FromSource
    <2> QED BY <1>2, <1>4, <2>1 DEF LinkInv
  <1>15. ASSUME Reject \/ ReserveFails \/ HintFails \/ Finish \/ PushFails \/ Strand \/ StopSlice \/ ShrinkNothing
                \/ Shrink \/ ShrinkFails \/ Forget
         PROVE  LinkInv'
    <2>1. items' = items /\ pc' = "idle"
      BY <1>15 DEF Reject, ReserveFails, HintFails, Finish, PushFails, Strand, StopSlice, ShrinkNothing, Shrink,
                   ShrinkFails, Forget, Return, Callable
    <2> QED BY <1>6, <2>1
  <1>16. ~(Swap \/ Reserve \/ Truncate \/ Hint \/ MakeRoom \/ Splice)
    BY <1>3 DEF Swap, Reserve, Truncate, Hint, MakeRoom, Full, Splice
  <1>17. CASE UNCHANGED vars
    BY <1>2, <1>17 DEF vars, LinkInv, FromSource
  <1> QED BY <1>8, <1>9, <1>10, <1>11, <1>12, <1>13, <1>14, <1>15, <1>16, <1>17 DEF Next, Step

LEMMA LinkStarts == Init => LinkInv
  <1> SUFFICES ASSUME Init, kind = "list" PROVE LinkInv
    BY DEF LinkInv
  <1>1. items = EmptyList /\ pc = "idle"
    BY DEF Init, Blank
  <1> QED BY <1>1, EmptyLinked DEF LinkInv

\* The nodes spliced in by hand always make one list: both walks meet the same
\* nodes, all of them, in opposite orders, and no node is left outside, also
\* after a rollback has popped what was pushed.
THEOREM LinksHold == Spec => []LinksAgree
  <1>1. Init => LinkInv
    BY LinkStarts
  <1>2. LinkInv => LinksAgree
    BY LinkedAgree DEF LinkInv, LinksAgree
  <1> QED BY RoomStarts, RoomKept, <1>1, LinkKept, <1>2, PTL DEF Spec

(***************************************************************************)
(* Collections implements FallibleCollection.                               *)
(***************************************************************************)

\* Sequences, position by position.
InsertedAt(c, at, e) ==
  [i \in 1 .. Len(c) + 1 |-> IF i <= at THEN c[i] ELSE IF i = at + 1 THEN e ELSE c[i - 1]]

LEMMA PutAtIs ==
  ASSUME NEW c, IsSeq(c), NEW at \in 0 .. Len(c), NEW e
  PROVE  PutAt(c, at, e) = InsertedAt(c, at, e)
  <1>1. PICK S : c \in Seq(S)
    BY DEF IsSeq
  <1> DEFINE T == S \union {e}
             r == SubSeq(c, at + 1, Len(c))
             l == SubSeq(c, 1, at)
             m == l \o <<e>>
             p == m \o r
  <1>2. c \in Seq(T) /\ <<e>> \in Seq(T) /\ Len(<<e>>) = 1 /\ <<e>>[1] = e /\ Len(c) \in Nat /\ at \in Nat
    BY <1>1
  <1>3. /\ l \in Seq(T) /\ Len(l) = at /\ r \in Seq(T) /\ Len(r) = Len(c) - at
        /\ (\A i \in 1 .. at : l[i] = c[i]) /\ (\A i \in 1 .. (Len(c) - at) : r[i] = c[at + i])
    BY <1>2
  <1> HIDE DEF T, l, r
  <1>4. /\ m \in Seq(T) /\ Len(m) = at + 1 /\ (\A i \in 1 .. at : m[i] = c[i]) /\ m[at + 1] = e
    BY <1>2, <1>3
  <1> HIDE DEF m
  <1>5. /\ p \in Seq(T) /\ Len(p) = Len(c) + 1
        /\ \A i \in 1 .. Len(c) + 1 : p[i] = IF i <= at + 1 THEN m[i] ELSE r[i - (at + 1)]
    BY <1>2, <1>3, <1>4
  <1> HIDE DEF p
  <1>6. \A i \in 1 .. Len(c) + 1 : p[i] = InsertedAt(c, at, e)[i]
    <2> SUFFICES ASSUME NEW i \in 1 .. Len(c) + 1 PROVE p[i] = InsertedAt(c, at, e)[i]
      OBVIOUS
    <2>1. InsertedAt(c, at, e)[i] = IF i <= at THEN c[i] ELSE IF i = at + 1 THEN e ELSE c[i - 1]
      BY DEF InsertedAt
    <2>2. CASE i <= at + 1
      BY <1>2, <1>4, <1>5, <2>1, <2>2
    <2>3. CASE ~(i <= at + 1)
      <3>1. i - (at + 1) \in 1 .. (Len(c) - at) /\ at + (i - (at + 1)) = i - 1
        BY <1>2, <2>3
      <3>2. p[i] = r[i - (at + 1)] /\ r[i - (at + 1)] = c[at + (i - (at + 1))]
        BY <1>3, <1>5, <2>3, <3>1
      <3>3. InsertedAt(c, at, e)[i] = c[i - 1]
        BY <1>2, <2>1, <2>3
      <3> QED BY <3>1, <3>2, <3>3
    <2> QED BY <2>2, <2>3
  <1>7. p = [i \in 1 .. Len(c) + 1 |-> p[i]]
    BY <1>5
  <1>8. p = InsertedAt(c, at, e)
    BY <1>6, <1>7 DEF InsertedAt
  <1> QED BY <1>8 DEF PutAt, p, m, l, r

\* A heap, kept in order: the position put chooses is the one after every item
\* that is not greater.
LEMMA ItemsAreNumbers ==
  ASSUME NEW c \in Seq(Elems)
  PROVE  Len(c) \in Nat /\ \A i \in 1 .. Len(c) : c[i] \in Elems /\ c[i] \in Nat
  <1>1. Len(c) \in Nat /\ \A i \in 1 .. Len(c) : c[i] \in Elems
    OBVIOUS
  <1>2. \A x \in Elems : x \in Nat
    BY ElemsAssumption
  <1> QED BY <1>1, <1>2

InOrder(s) == s \in Seq(Elems) /\ \A i, j \in 1 .. Len(s) : i <= j => s[i] <= s[j]
NotAbove(c, e) == Cardinality({i \in 1 .. Len(c) : c[i] <= e})

LEMMA NotAboveIs ==
  ASSUME NEW c, InOrder(c), NEW e \in Elems
  PROVE  NotAbove(c, e) \in 0 .. Len(c) /\ \A i \in 1 .. Len(c) : c[i] <= e <=> i <= NotAbove(c, e)
  <1> DEFINE n == Len(c)
             S == {i \in 1 .. Len(c) : c[i] <= e}
             T == {i \in Nat : i \in 1 .. n + 1 /\ i \notin S}
  <1>1. n \in Nat /\ e \in Nat /\ \A i \in 1 .. n : c[i] \in Nat
    BY ItemsAreNumbers, ElemsAssumption DEF InOrder
  <1>2. n + 1 \in T
    BY <1>1
  <1>3. PICK m \in T : \A y \in T : m <= y
    <2> HIDE DEF T
    <2>1. T \subseteq Nat /\ T # {}
      BY <1>2 DEF T
    <2> QED BY <2>1, LeastNumber
  <1>4. \A i \in 1 .. n : i \in S <=> i < m
    <2> SUFFICES ASSUME NEW i \in 1 .. n PROVE i \in S <=> i < m
      OBVIOUS
    <2>1. CASE i < m
      BY <1>1, <1>3, <2>1
    <2>2. CASE ~(i < m)
      <3>1. m \in 1 .. n /\ m \notin S /\ m <= i
        BY <1>1, <1>3, <2>2
      <3>2. c[m] <= c[i] /\ ~(c[m] <= e)
        BY <3>1 DEF InOrder
      <3> QED BY <1>1, <2>2, <3>1, <3>2
    <2> QED BY <2>1, <2>2
  <1>5. m \in 1 .. n + 1
    BY <1>3
  <1>6. S = 1 .. (m - 1)
    <2>1. \A i : i \in S => i \in 1 .. (m - 1)
      BY <1>1, <1>4, <1>5
    <2>2. \A i : i \in 1 .. (m - 1) => i \in S
      BY <1>1, <1>4, <1>5
    <2> QED BY <2>1, <2>2
  <1>7. Cardinality(1 .. (m - 1)) = m - 1
    BY <1>1, <1>5, FS_Interval
  <1>8. NotAbove(c, e) = m - 1
    BY <1>6, <1>7 DEF NotAbove
  <1> QED BY <1>1, <1>4, <1>5, <1>8

\* Put finds the one position where the order is kept.
LEMMA HeapPut ==
  ASSUME NEW c, InOrder(c), NEW e \in Elems
  PROVE  /\ Put("heap", c, e) = InsertedAt(c, NotAbove(c, e), e)
         /\ InOrder(Put("heap", c, e)) /\ Len(Put("heap", c, e)) = Len(c) + 1
  <1> DEFINE k == NotAbove(c, e)
             p == InsertedAt(c, k, e)
  <1>1. c \in Seq(Elems) /\ Len(c) \in Nat /\ IsSeq(c)
    BY DEF InOrder, IsSeq
  <1>2. k \in 0 .. Len(c) /\ \A i \in 1 .. Len(c) : c[i] <= e <=> i <= k
    BY NotAboveIs
  <1>3. Put("heap", c, e) = PutAt(c, k, e)
    BY DEF Put, NotAbove
  <1>4. Put("heap", c, e) = p
    BY <1>1, <1>2, <1>3, PutAtIs
  <1> HIDE DEF k
  <1>5. \A i \in 1 .. Len(c) + 1 : p[i] = IF i <= k THEN c[i] ELSE IF i = k + 1 THEN e ELSE c[i - 1]
    BY DEF InsertedAt
  <1>6. \A i \in 1 .. Len(c) : c[i] \in Elems /\ c[i] \in Nat
    BY <1>1, ItemsAreNumbers
  <1>7. e \in Nat
    BY ElemsAssumption
  <1>8. \A i \in 1 .. Len(c) + 1 : p[i] \in Elems /\ p[i] \in Nat
    <2> SUFFICES ASSUME NEW i \in 1 .. Len(c) + 1 PROVE p[i] \in Elems
      BY ElemsAssumption
    <2>1. (i <= k => i \in 1 .. Len(c)) /\ (~(i <= k) /\ i # k + 1 => i - 1 \in 1 .. Len(c))
      BY <1>1, <1>2
    <2> QED BY <1>5, <1>6, <2>1
  <1>9. p = [i \in 1 .. Len(c) + 1 |-> p[i]]
    BY DEF InsertedAt
  <1> HIDE DEF p
  <1>10. p \in Seq(Elems) /\ Len(p) = Len(c) + 1
    <2>1. Len(c) + 1 \in Nat /\ p \in [1 .. Len(c) + 1 -> Elems]
      BY <1>1, <1>8, <1>9
    <2> QED BY <2>1
  <1>11. ASSUME NEW i \in 1 .. Len(c) + 1, NEW j \in 1 .. Len(c) + 1, i <= j PROVE p[i] <= p[j]
    <2>1. \A x, y \in 1 .. Len(c) : x <= y => c[x] <= c[y]
      BY DEF InOrder
    <2>2. CASE j <= k
      BY <1>1, <1>2, <1>5, <1>11, <2>1, <2>2
    <2>3. CASE j = k + 1
      <3>1. i = j \/ (i <= k /\ i \in 1 .. Len(c))
        BY <1>1, <1>2, <1>11, <2>3
      <3> QED BY <1>2, <1>5, <1>7, <1>8, <2>3, <3>1
    <2>4. CASE j > k + 1
      <3>1. j - 1 \in 1 .. Len(c) /\ ~(j - 1 <= k) /\ p[j] = c[j - 1]
        BY <1>1, <1>2, <1>5, <2>4
      <3>2. CASE i <= k
        BY <1>1, <1>2, <1>5, <1>11, <2>1, <3>1, <3>2
      <3>3. CASE i = k + 1
        <4>1. ~(c[j - 1] <= e)
          BY <1>2, <3>1
        <4> QED BY <1>2, <1>5, <1>6, <1>7, <3>1, <3>3, <4>1
      <3>4. CASE i > k + 1
        <4>1. i - 1 \in 1 .. Len(c) /\ p[i] = c[i - 1] /\ i - 1 <= j - 1
          BY <1>1, <1>2, <1>5, <1>11, <3>4
        <4> QED BY <2>1, <3>1, <4>1
      <3> QED BY <1>2, <3>2, <3>3, <3>4
    <2> QED BY <1>2, <2>2, <2>3, <2>4
  <1>12. InOrder(p)
    BY <1>10, <1>11 DEF InOrder
  <1> QED BY <1>4, <1>10, <1>12 DEF k, p

LEMMA SamePosition ==
  ASSUME NEW c, InOrder(c), NEW e \in Elems, NEW k \in 0 .. Len(c), \A i \in 1 .. Len(c) : c[i] <= e <=> i <= k
  PROVE  NotAbove(c, e) = k
  <1> DEFINE m == NotAbove(c, e)
  <1>1. m \in 0 .. Len(c) /\ \A i \in 1 .. Len(c) : c[i] <= e <=> i <= m
    BY NotAboveIs
  <1>2. Len(c) \in Nat
    BY DEF InOrder
  <1> HIDE DEF m
  <1>3. CASE m < k
    <2>1. k \in 1 .. Len(c) /\ ~(k <= m)
      BY <1>1, <1>2, <1>3
    <2>2. c[k] <= e <=> k <= m
      BY <1>1, <2>1
    <2>3. c[k] <= e
      BY <2>1
    <2> QED BY <2>1, <2>2, <2>3
  <1>4. CASE k < m
    <2>1. m \in 1 .. Len(c) /\ ~(m <= k) /\ m <= m
      BY <1>1, <1>2, <1>4
    <2>2. c[m] <= e
      BY <1>1, <2>1
    <2> QED BY <2>1, <2>2
  <1> QED BY <1>1, <1>2, <1>3, <1>4 DEF m

\* The order in which two items are pushed on a heap does not matter.
LEMMA HeapPutLess ==
  ASSUME NEW c, InOrder(c), NEW x \in Elems, NEW y \in Elems, x < y
  PROVE  Put("heap", Put("heap", c, x), y) = Put("heap", Put("heap", c, y), x)
  <1> DEFINE n == Len(c)
             kx == NotAbove(c, x)
             ky == NotAbove(c, y)
             cx == Put("heap", c, x)
             cy == Put("heap", c, y)
  <1>1. x \in Nat /\ y \in Nat /\ n \in Nat /\ \A i \in 1 .. n : c[i] \in Nat
    BY ElemsAssumption, ItemsAreNumbers DEF InOrder
  <1>2. /\ kx \in 0 .. n /\ (\A i \in 1 .. n : c[i] <= x <=> i <= kx)
        /\ ky \in 0 .. n /\ (\A i \in 1 .. n : c[i] <= y <=> i <= ky)
    BY NotAboveIs
  <1>3. /\ cx = InsertedAt(c, kx, x) /\ InOrder(cx) /\ Len(cx) = n + 1
        /\ cy = InsertedAt(c, ky, y) /\ InOrder(cy) /\ Len(cy) = n + 1
    BY HeapPut
  <1> HIDE DEF kx, ky, cx, cy
  <1>4. kx <= ky
    <2>1. CASE kx = 0
      BY <1>1, <1>2, <2>1
    <2>2. CASE kx # 0
      <3>1. kx \in 1 .. n /\ kx <= kx
        BY <1>1, <1>2, <2>2
      <3>2. c[kx] <= x /\ c[kx] \in Nat
        BY <1>1, <1>2, <3>1
      <3>3. c[kx] <= y
        BY <1>1, <3>2
      <3> QED BY <1>2, <3>1, <3>3
    <2> QED BY <2>1, <2>2
  <1>5. \A i \in 1 .. n + 1 : cx[i] = IF i <= kx THEN c[i] ELSE IF i = kx + 1 THEN x ELSE c[i - 1]
    BY <1>3 DEF InsertedAt
  <1>6. \A i \in 1 .. n + 1 : cy[i] = IF i <= ky THEN c[i] ELSE IF i = ky + 1 THEN y ELSE c[i - 1]
    BY <1>3 DEF InsertedAt
  <1>7. NotAbove(cx, y) = ky + 1
    <2>1. ASSUME NEW i \in 1 .. n + 1 PROVE cx[i] <= y <=> i <= ky + 1
      <3>1. CASE i <= kx
        <4>1. i \in 1 .. n /\ i <= ky
          BY <1>1, <1>2, <1>4, <3>1
        <4> QED BY <1>1, <1>2, <1>5, <3>1, <4>1
      <3>2. CASE i = kx + 1
        BY <1>1, <1>2, <1>4, <1>5, <3>2
      <3>3. CASE i > kx + 1
        <4>1. i - 1 \in 1 .. n /\ cx[i] = c[i - 1] /\ (i - 1 <= ky <=> i <= ky + 1)
          BY <1>1, <1>2, <1>5, <3>3
        <4> QED BY <1>2, <4>1
      <3> QED BY <1>2, <3>1, <3>2, <3>3
    <2>2. ky + 1 \in 0 .. Len(cx)
      BY <1>1, <1>2, <1>3
    <2> QED BY <1>3, <2>1, <2>2, SamePosition
  <1>8. NotAbove(cy, x) = kx
    <2>1. ASSUME NEW i \in 1 .. n + 1 PROVE cy[i] <= x <=> i <= kx
      <3>1. CASE i <= ky
        <4>1. i \in 1 .. n
          BY <1>1, <1>2, <3>1
        <4> QED BY <1>2, <1>6, <3>1, <4>1
      <3>2. CASE i = ky + 1
        BY <1>1, <1>2, <1>4, <1>6, <3>2
      <3>3. CASE i > ky + 1
        <4>1. i - 1 \in 1 .. n /\ cy[i] = c[i - 1] /\ ~(i - 1 <= kx) /\ ~(i <= kx)
          BY <1>1, <1>2, <1>4, <1>6, <3>3
        <4> QED BY <1>2, <4>1
      <3> QED BY <1>2, <3>1, <3>2, <3>3
    <2>2. kx \in 0 .. Len(cy)
      BY <1>1, <1>2, <1>3
    <2> QED BY <1>3, <2>1, <2>2, SamePosition
  <1> DEFINE l == InsertedAt(cx, ky + 1, y)
             r == InsertedAt(cy, kx, x)
  <1>9. Put("heap", cx, y) = l /\ Put("heap", cy, x) = r
    BY <1>3, <1>7, <1>8, HeapPut
  <1>10. /\ l = [i \in 1 .. (n + 1) + 1 |-> IF i <= ky + 1 THEN cx[i] ELSE IF i = (ky + 1) + 1 THEN y ELSE cx[i - 1]]
         /\ r = [i \in 1 .. (n + 1) + 1 |-> IF i <= kx THEN cy[i] ELSE IF i = kx + 1 THEN x ELSE cy[i - 1]]
    BY <1>3 DEF InsertedAt
  <1>11. ASSUME NEW i \in 1 .. (n + 1) + 1
         PROVE  (IF i <= ky + 1 THEN cx[i] ELSE IF i = (ky + 1) + 1 THEN y ELSE cx[i - 1])
                  = (IF i <= kx THEN cy[i] ELSE IF i = kx + 1 THEN x ELSE cy[i - 1])
    <2>1. CASE i <= kx
      <3>1. i \in 1 .. n + 1 /\ i <= ky + 1 /\ i <= ky
        BY <1>1, <1>2, <1>4, <2>1
      <3> QED BY <1>5, <1>6, <2>1, <3>1
    <2>2. CASE i = kx + 1
      <3>1. i \in 1 .. n + 1 /\ i <= ky + 1 /\ ~(i <= kx)
        BY <1>1, <1>2, <1>4, <2>2
      <3> QED BY <1>5, <2>2, <3>1
    <2>3. CASE i > kx + 1 /\ i <= ky + 1
      <3>1. i \in 1 .. n + 1 /\ i - 1 \in 1 .. n + 1 /\ i - 1 <= ky /\ ~(i <= kx) /\ i # kx + 1
        BY <1>1, <1>2, <1>4, <2>3
      <3>2. cx[i] = c[i - 1] /\ cy[i - 1] = c[i - 1]
        BY <1>5, <1>6, <3>1
      <3> QED BY <2>3, <3>1, <3>2
    <2>4. CASE i = (ky + 1) + 1
      <3>1. i - 1 \in 1 .. n + 1 /\ i - 1 = ky + 1 /\ ~(i - 1 <= ky) /\ ~(i <= kx) /\ i # kx + 1 /\ ~(i <= ky + 1)
        BY <1>1, <1>2, <1>4, <2>4
      <3>2. cy[i - 1] = y
        BY <1>6, <3>1
      <3> QED BY <2>4, <3>1, <3>2
    <2>5. CASE i > (ky + 1) + 1
      <3>1. /\ i - 1 \in 1 .. n + 1 /\ ~(i - 1 <= ky) /\ i - 1 # ky + 1 /\ ~(i <= kx) /\ i # kx + 1
            /\ ~(i <= ky + 1) /\ i # (ky + 1) + 1 /\ ~(i - 1 <= kx) /\ i - 1 # kx + 1
        BY <1>1, <1>2, <1>4, <2>5
      <3>2. cx[i - 1] = c[(i - 1) - 1] /\ cy[i - 1] = c[(i - 1) - 1]
        BY <1>5, <1>6, <3>1
      <3> QED BY <3>1, <3>2
    <2> QED BY <1>1, <1>2, <1>4, <2>1, <2>2, <2>3, <2>4, <2>5
  <1>12. l = r
    BY <1>10, <1>11
  <1> QED BY <1>9, <1>12 DEF cx, cy

LEMMA HeapPutCommutes ==
  ASSUME NEW c, InOrder(c), NEW x \in Elems, NEW y \in Elems
  PROVE  Put("heap", Put("heap", c, x), y) = Put("heap", Put("heap", c, y), x)
  <1>1. x \in Nat /\ y \in Nat
    BY ElemsAssumption
  <1>2. x < y \/ y < x \/ x = y
    BY <1>1
  <1>3. CASE x < y
    BY <1>3, HeapPutLess
  <1>4. CASE y < x
    BY <1>4, HeapPutLess
  <1>5. CASE x = y
    BY <1>5
  <1> QED BY <1>2, <1>3, <1>4, <1>5

\* Putting one more, and putting none.
LEMMA PutAllAppend ==
  ASSUME NEW k, NEW c, NEW xs, NEW ys, Len(xs) \in Nat, Len(ys) = Len(xs) + 1,
         \A i \in 1 .. Len(xs) : ys[i] = xs[i]
  PROVE  PutAll(k, c, ys) = Put(k, PutAll(k, c, xs), ys[Len(ys)])
  <1>1. PICK f : Puts(f, Len(xs), k, c, xs) /\ PutAll(k, c, xs) = f[Len(xs)]
    BY PutAllIs
  <1>2. PICK g : Puts(g, Len(ys), k, c, ys) /\ PutAll(k, c, ys) = g[Len(ys)]
    BY PutAllIs
  <1> DEFINE T == {n \in Nat : n <= Len(xs) => g[n] = f[n]}
  <1>3. 0 \in T
    BY <1>1, <1>2 DEF Puts
  <1>4. ASSUME NEW n \in Nat, n \in T PROVE n + 1 \in T
    <2> SUFFICES ASSUME n + 1 <= Len(xs) PROVE g[n + 1] = f[n + 1]
      OBVIOUS
    <2>1. f[n + 1] = Put(k, f[n], xs[n + 1])
      BY <1>1 DEF Puts
    <2>2. g[n + 1] = Put(k, g[n], ys[n + 1])
      BY <1>2 DEF Puts
    <2>3. g[n] = f[n] /\ n + 1 \in 1 .. Len(xs)
      BY <1>4
    <2> QED BY <2>1, <2>2, <2>3
  <1> HIDE DEF T
  <1>5. Nat \subseteq T
    BY <1>3, <1>4, Counting
  <1>6. g[Len(xs)] = f[Len(xs)]
    BY <1>5 DEF T
  <1>7. g[Len(ys)] = Put(k, g[Len(xs)], ys[Len(ys)])
    <2>1. Len(ys) \in 0 .. Len(ys) /\ Len(ys) # 0 /\ Len(ys) - 1 = Len(xs)
      OBVIOUS
    <2>2. g[Len(ys)] = Put(k, g[Len(ys) - 1], ys[Len(ys)])
      BY <1>2, <2>1 DEF Puts
    <2> QED BY <2>1, <2>2
  <1> QED BY <1>1, <1>2, <1>6, <1>7

LEMMA PutAllNone ==
  ASSUME NEW k, NEW c, NEW xs, Len(xs) = 0
  PROVE  PutAll(k, c, xs) = c
  <1>1. PICK f : Puts(f, Len(xs), k, c, xs) /\ PutAll(k, c, xs) = f[Len(xs)]
    BY PutAllIs
  <1> QED BY <1>1 DEF Puts

\* The first n items of w.
LEMMA FirstOnes ==
  ASSUME NEW w, IsSeq(w), NEW n \in 0 .. Len(w)
  PROVE  Len(SubSeq(w, 1, n)) = n /\ \A i \in 1 .. n : SubSeq(w, 1, n)[i] = w[i]
  BY DEF IsSeq

LEMMA FirstNumbers ==
  ASSUME NEW w \in Seq(Elems), NEW n \in 0 .. Len(w)
  PROVE  /\ SubSeq(w, 1, n) \in Seq(Elems) /\ Len(SubSeq(w, 1, n)) = n
         /\ \A i \in 1 .. n : SubSeq(w, 1, n)[i] = w[i]
  <1>1. IsSeq(w)
    BY DEF IsSeq
  <1>2. SubSeq(w, 1, n) \in Seq(Elems)
    OBVIOUS
  <1> QED BY <1>1, <1>2, FirstOnes

LEMMA PutNext ==
  ASSUME NEW k, NEW c, NEW w, IsSeq(w), NEW n \in Nat, n < Len(w)
  PROVE  PutAll(k, c, SubSeq(w, 1, n + 1)) = Put(k, PutAll(k, c, SubSeq(w, 1, n)), w[n + 1])
  <1>1. Len(w) \in Nat /\ n \in 0 .. Len(w) /\ n + 1 \in 0 .. Len(w) /\ n + 1 \in 1 .. n + 1
    BY DEF IsSeq
  <1> DEFINE xs == SubSeq(w, 1, n)
             ys == SubSeq(w, 1, n + 1)
  <1>2. Len(xs) = n /\ \A i \in 1 .. n : xs[i] = w[i]
    BY <1>1, FirstOnes
  <1>3. Len(ys) = n + 1 /\ \A i \in 1 .. n + 1 : ys[i] = w[i]
    BY <1>1, FirstOnes
  <1> HIDE DEF xs, ys
  <1>4. PutAll(k, c, ys) = Put(k, PutAll(k, c, xs), ys[Len(ys)])
    BY <1>2, <1>3, PutAllAppend
  <1> QED BY <1>1, <1>3, <1>4 DEF xs, ys

LEMMA AllOfThem ==
  ASSUME NEW w, IsSeq(w)
  PROVE  SubSeq(w, 1, Len(w)) = w
  BY DEF IsSeq

\* What was in a sequence stays its beginning.
LEMMA PutAllPrefix ==
  ASSUME NEW k, k \notin {"map", "heap"}, NEW c, IsSeq(c), NEW xs, Len(xs) \in Nat
  PROVE  SubSeq(PutAll(k, c, xs), 1, Len(c)) = c
  <1>1. PICK f : Puts(f, Len(xs), k, c, xs) /\ PutAll(k, c, xs) = f[Len(xs)]
    BY PutAllIs
  <1>2. Len(c) \in Nat
    BY DEF IsSeq
  <1> DEFINE T == {n \in Nat : n <= Len(xs) => /\ IsSeq(f[n]) /\ Len(f[n]) = Len(c) + n
                                               /\ \A i \in 1 .. Len(c) : f[n][i] = c[i]}
  <1>3. 0 \in T
    BY <1>1, <1>2 DEF Puts
  <1>4. ASSUME NEW n \in Nat, n \in T PROVE n + 1 \in T
    <2> SUFFICES ASSUME n + 1 <= Len(xs)
                 PROVE  /\ IsSeq(f[n + 1]) /\ Len(f[n + 1]) = Len(c) + (n + 1)
                        /\ \A i \in 1 .. Len(c) : f[n + 1][i] = c[i]
      OBVIOUS
    <2>1. IsSeq(f[n]) /\ Len(f[n]) = Len(c) + n /\ \A i \in 1 .. Len(c) : f[n][i] = c[i]
      BY <1>4
    <2>2. f[n + 1] = Put(k, f[n], xs[n + 1])
      BY <1>1 DEF Puts
    <2>3. f[n + 1] = Append(f[n], xs[n + 1])
      BY <2>2 DEF Put
    <2>4. PICK S : f[n] \in Seq(S)
      BY <2>1 DEF IsSeq
    <2>5. f[n] \in Seq(S \union {xs[n + 1]})
      BY <2>4
    <2>6. /\ f[n + 1] \in Seq(S \union {xs[n + 1]}) /\ Len(f[n + 1]) = Len(f[n]) + 1
          /\ \A i \in 1 .. Len(f[n]) : f[n + 1][i] = f[n][i]
      BY <2>3, <2>5
    <2>7. \A i \in 1 .. Len(c) : i \in 1 .. Len(f[n])
      BY <1>2, <2>1
    <2> QED BY <1>2, <2>1, <2>6, <2>7 DEF IsSeq
  <1> HIDE DEF T
  <1>5. Nat \subseteq T
    BY <1>3, <1>4, Counting
  <1> DEFINE p == f[Len(xs)]
             s == SubSeq(p, 1, Len(c))
  <1>6. IsSeq(p) /\ Len(p) = Len(c) + Len(xs) /\ \A i \in 1 .. Len(c) : p[i] = c[i]
    BY <1>5 DEF T
  <1> HIDE DEF p
  <1>7. Len(c) \in 0 .. Len(p)
    BY <1>2, <1>6
  <1>8. Len(s) = Len(c) /\ IsSeq(s) /\ \A i \in 1 .. Len(c) : s[i] = p[i]
    BY <1>6, <1>7, FirstOnes, SmallerSeq
  <1> HIDE DEF s
  <1>9. s = [i \in 1 .. Len(c) |-> s[i]] /\ c = [i \in 1 .. Len(c) |-> c[i]]
    BY <1>8 DEF IsSeq
  <1>10. s = c
    BY <1>6, <1>8, <1>9
  <1> QED BY <1>1, <1>10 DEF s, p

\* Pushing on a heap: its order, and that one heap into the other gives what
\* the other into the one does.
LEMMA HeapPutAll ==
  ASSUME NEW c, InOrder(c), NEW xs \in Seq(Elems), NEW f, Puts(f, Len(xs), "heap", c, xs)
  PROVE  /\ \A n \in Nat : n <= Len(xs) => InOrder(f[n])
         /\ \A n \in Nat : n + 1 <= Len(xs) => xs[n + 1] \in Elems /\ f[n + 1] = Put("heap", f[n], xs[n + 1])
         /\ f[0] = c
  <1> DEFINE T == {n \in Nat : n <= Len(xs) => InOrder(f[n])}
  <1>1. f[0] = c /\ Len(xs) \in Nat
    BY DEF Puts
  <1>2. 0 \in T
    BY <1>1
  <1>3. ASSUME NEW n \in Nat, n + 1 <= Len(xs) PROVE xs[n + 1] \in Elems /\ f[n + 1] = Put("heap", f[n], xs[n + 1])
    <2>1. n + 1 \in 1 .. Len(xs) /\ n + 1 \in 0 .. Len(xs) /\ (n + 1) - 1 = n /\ n + 1 # 0
      BY <1>1, <1>3
    <2>2. xs[n + 1] \in Elems
      BY <2>1
    <2>3. f[n + 1] = Put("heap", f[(n + 1) - 1], xs[n + 1])
      BY <2>1 DEF Puts
    <2> QED BY <2>1, <2>2, <2>3
  <1>4. ASSUME NEW n \in Nat, n \in T PROVE n + 1 \in T
    <2> SUFFICES ASSUME n + 1 <= Len(xs) PROVE InOrder(f[n + 1])
      OBVIOUS
    <2>1. InOrder(f[n])
      BY <1>1, <1>4
    <2>2. xs[n + 1] \in Elems /\ f[n + 1] = Put("heap", f[n], xs[n + 1])
      BY <1>3
    <2> QED BY <2>1, <2>2, HeapPut
  <1> HIDE DEF T
  <1>5. Nat \subseteq T
    BY <1>2, <1>4, Counting
  <1> QED BY <1>1, <1>3, <1>5 DEF T

LEMMA HeapAllInOrder ==
  ASSUME NEW c, InOrder(c), NEW xs \in Seq(Elems)
  PROVE  InOrder(PutAll("heap", c, xs))
  <1>1. Len(xs) \in Nat
    OBVIOUS
  <1>2. PICK f : Puts(f, Len(xs), "heap", c, xs) /\ PutAll("heap", c, xs) = f[Len(xs)]
    BY <1>1, PutAllIs
  <1> QED BY <1>1, <1>2, HeapPutAll

LEMMA HeapOneEarlier ==
  ASSUME NEW c, InOrder(c), NEW x \in Elems, NEW xs \in Seq(Elems)
  PROVE  PutAll("heap", Put("heap", c, x), xs) = Put("heap", PutAll("heap", c, xs), x)
  <1>1. Len(xs) \in Nat /\ InOrder(Put("heap", c, x))
    BY HeapPut
  <1>2. PICK f : Puts(f, Len(xs), "heap", Put("heap", c, x), xs) /\ PutAll("heap", Put("heap", c, x), xs) = f[Len(xs)]
    BY <1>1, PutAllIs
  <1>3. PICK g : Puts(g, Len(xs), "heap", c, xs) /\ PutAll("heap", c, xs) = g[Len(xs)]
    BY <1>1, PutAllIs
  <1> DEFINE T == {n \in Nat : n <= Len(xs) => f[n] = Put("heap", g[n], x)}
  <1>4. 0 \in T
    BY <1>1, <1>2, <1>3, HeapPutAll
  <1>5. ASSUME NEW n \in Nat, n \in T PROVE n + 1 \in T
    <2> SUFFICES ASSUME n + 1 <= Len(xs) PROVE f[n + 1] = Put("heap", g[n + 1], x)
      OBVIOUS
    <2>1. f[n + 1] = Put("heap", f[n], xs[n + 1]) /\ xs[n + 1] \in Elems
      BY <1>1, <1>2, HeapPutAll
    <2>2. g[n + 1] = Put("heap", g[n], xs[n + 1]) /\ InOrder(g[n])
      BY <1>1, <1>3, HeapPutAll
    <2>3. f[n] = Put("heap", g[n], x)
      BY <1>1, <1>5
    <2> QED BY <2>1, <2>2, <2>3, HeapPutCommutes
  <1> HIDE DEF T
  <1>6. Nat \subseteq T
    BY <1>4, <1>5, Counting
  <1> QED BY <1>1, <1>2, <1>3, <1>6 DEF T

LEMMA HeapAllEarlier ==
  ASSUME NEW c, InOrder(c), NEW xs \in Seq(Elems), NEW ys \in Seq(Elems)
  PROVE  PutAll("heap", PutAll("heap", c, xs), ys) = PutAll("heap", PutAll("heap", c, ys), xs)
  <1> DEFINE d == PutAll("heap", c, ys)
  <1>1. Len(xs) \in Nat /\ InOrder(d)
    BY HeapAllInOrder
  <1>2. PICK f : Puts(f, Len(xs), "heap", c, xs) /\ PutAll("heap", c, xs) = f[Len(xs)]
    BY <1>1, PutAllIs
  <1>3. PICK g : Puts(g, Len(xs), "heap", d, xs) /\ PutAll("heap", d, xs) = g[Len(xs)]
    BY <1>1, PutAllIs
  <1> DEFINE T == {n \in Nat : n <= Len(xs) => PutAll("heap", f[n], ys) = g[n]}
  <1>4. 0 \in T
    BY <1>1, <1>2, <1>3, HeapPutAll
  <1> HIDE DEF d
  <1>5. ASSUME NEW n \in Nat, n \in T PROVE n + 1 \in T
    <2> SUFFICES ASSUME n + 1 <= Len(xs) PROVE PutAll("heap", f[n + 1], ys) = g[n + 1]
      OBVIOUS
    <2>1. f[n + 1] = Put("heap", f[n], xs[n + 1]) /\ xs[n + 1] \in Elems /\ InOrder(f[n])
      BY <1>1, <1>2, HeapPutAll
    <2>2. g[n + 1] = Put("heap", g[n], xs[n + 1])
      BY <1>1, <1>3, HeapPutAll
    <2>3. PutAll("heap", f[n], ys) = g[n]
      BY <1>1, <1>5
    <2>4. PutAll("heap", Put("heap", f[n], xs[n + 1]), ys) = Put("heap", PutAll("heap", f[n], ys), xs[n + 1])
      BY <2>1, HeapOneEarlier
    <2> QED BY <2>1, <2>2, <2>3, <2>4
  <1> HIDE DEF T
  <1>6. Nat \subseteq T
    BY <1>4, <1>5, Counting
  <1> QED BY <1>1, <1>2, <1>3, <1>6 DEF T, d

LEMMA HeapRebuilt ==
  ASSUME NEW s, InOrder(s)
  PROVE  PutAll("heap", <<>>, s) = s
  <1>1. s \in Seq(Elems) /\ Len(s) \in Nat /\ InOrder(<<>>)
    BY DEF InOrder
  <1>2. PICK f : Puts(f, Len(s), "heap", <<>>, s) /\ PutAll("heap", <<>>, s) = f[Len(s)]
    BY <1>1, PutAllIs
  <1> DEFINE T == {n \in Nat : n <= Len(s) => f[n] = Cut(s, n)}
  <1>3. 0 \in T
    BY <1>1, <1>2, HeapPutAll DEF Cut
  <1>4. ASSUME NEW n \in Nat, n \in T PROVE n + 1 \in T
    <2> SUFFICES ASSUME n + 1 <= Len(s) PROVE f[n + 1] = Cut(s, n + 1)
      OBVIOUS
    <2> DEFINE c == Cut(s, n)
               e == s[n + 1]
    <2>1. f[n + 1] = Put("heap", f[n], e) /\ e \in Elems /\ InOrder(f[n])
      BY <1>1, <1>2, HeapPutAll
    <2>2. f[n] = c
      BY <1>1, <1>4
    <2>3. Len(c) = n /\ \A i \in 1 .. n : c[i] = s[i]
      BY DEF Cut
    <2> HIDE DEF c
    <2>4. \A i \in 1 .. n : c[i] <= e
      <3>1. \A i \in 1 .. n : i \in 1 .. Len(s) /\ n + 1 \in 1 .. Len(s) /\ i <= n + 1
        BY <1>1
      <3> QED BY <2>3, <3>1 DEF InOrder
    <2>5. NotAbove(c, e) = n
      <3>1. n \in 0 .. Len(c) /\ \A i \in 1 .. Len(c) : c[i] <= e <=> i <= n
        BY <2>3, <2>4
      <3> QED BY <2>1, <2>2, <3>1, SamePosition
    <2>6. Put("heap", c, e) = InsertedAt(c, n, e)
      BY <2>1, <2>2, <2>5, HeapPut
    <2>7. InsertedAt(c, n, e) = [i \in 1 .. n + 1 |-> s[i]]
      <3>1. \A i \in 1 .. n + 1 : (IF i <= n THEN c[i] ELSE IF i = n + 1 THEN e ELSE c[i - 1]) = s[i]
        BY <2>3
      <3> HIDE DEF e
      <3> QED BY <2>3, <3>1 DEF InsertedAt
    <2> QED BY <2>1, <2>2, <2>6, <2>7 DEF Cut
  <1> HIDE DEF T
  <1>5. Nat \subseteq T
    BY <1>3, <1>4, Counting
  <1>6. Cut(s, Len(s)) = s
    BY <1>1 DEF Cut
  <1> QED BY <1>1, <1>2, <1>5, <1>6 DEF T

\* Appending the smaller heap to the larger is appending the larger to it.
LEMMA HeapAppendEitherWay ==
  ASSUME NEW a, InOrder(a), NEW b, InOrder(b)
  PROVE  PutAll("heap", a, b) = PutAll("heap", b, a)
  <1>1. a \in Seq(Elems) /\ b \in Seq(Elems) /\ InOrder(<<>>)
    BY DEF InOrder
  <1>2. PutAll("heap", PutAll("heap", <<>>, a), b) = PutAll("heap", PutAll("heap", <<>>, b), a)
    BY <1>1, HeapAllEarlier
  <1> QED BY <1>2, HeapRebuilt

\* What the promise sees of a state, and its contents are those of Collections.
Self == IF call # NoCall /\ ~FromSource THEN before ELSE Now
Lent == IF pc \in {"swapped", "absorb"} THEN items ELSE other
Asked == IF call # NoCall /\ ~FromSource THEN call ELSE NoCall

LEMMA PromiseContents ==
  /\ \A k : Promise!EmptyOf(k) = EmptyOf(k)
  /\ \A k, c, e : Promise!Put(k, c, e) = Put(k, c, e)
  /\ \A k, c, xs : Promise!PutAll(k, c, xs) = PutAll(k, c, xs)
  /\ \A k, c, r : Promise!Outcome(k, c, r) = Outcome(k, c, r)
  /\ \A c, r : Promise!OutOfBounds(c, r) = OutOfBounds(c, r)
  <1>1. \A k : Promise!EmptyOf(k) = EmptyOf(k)
    BY DEF Promise!EmptyOf, EmptyOf
  <1>2. \A c, at, e : Promise!PutAt(c, at, e) = PutAt(c, at, e)
    BY DEF Promise!PutAt, PutAt
  <1>3. \A k, c, e : Promise!Put(k, c, e) = Put(k, c, e)
    BY <1>2 DEF Promise!Put, Put
  <1>4. \A k, c, xs : Promise!PutAll(k, c, xs) = PutAll(k, c, xs)
    BY <1>3 DEF Promise!PutAll, PutAll
  <1>5. \A c, r : Promise!Wanted(c, r) = Wanted(c, r)
    BY DEF Promise!Wanted, Wanted
  <1>6. \A k, c, r : Promise!Outcome(k, c, r) = Outcome(k, c, r)
    BY <1>2, <1>4, <1>5 DEF Promise!Outcome, Outcome
  <1>7. \A c, r : Promise!OutOfBounds(c, r) = OutOfBounds(c, r)
    BY DEF Promise!OutOfBounds, OutOfBounds
  <1> QED BY <1>1, <1>3, <1>4, <1>6, <1>7

PromiseStep == [Promise!Next]_(Promise!cvars)

\* The promise's steps, on what it sees.
LEMMA Stutters ==
  ASSUME UNCHANGED <<kind, Self, Lent, Asked, Pending>> PROVE PromiseStep
  BY DEF PromiseStep, Promise!cvars, Self, Lent, Asked

LEMMA Asks ==
  ASSUME Asked = NoCall, Asked' \in Promise!Request, Lent' = Lent \/ Asked'.op = "append",
         UNCHANGED <<kind, Self, Pending>>
  PROVE  PromiseStep
  BY DEF PromiseStep, Promise!Next, Promise!Ask, Self, Lent, Asked

LEMMA Refuses ==
  ASSUME Asked # NoCall, Asked' = NoCall, UNCHANGED <<kind, Pending>>,
         \/ UNCHANGED <<Self, Lent>>
         \/ kind = "heap" /\ Asked.op = "append" /\ Self' = Lent /\ Lent' = Self
  PROVE  PromiseStep
  BY DEF PromiseStep, Promise!Next, Promise!Refuse, Self, Lent, Asked

LEMMA Grants ==
  ASSUME Asked # NoCall, ~OutOfBounds(Self, Asked), Asked' = NoCall, UNCHANGED <<kind, Pending>>,
         IF Asked.op = "append" THEN Self' = PutAll(kind, Self, Lent) /\ Lent' = EmptyOf(kind)
                                ELSE Self' = Outcome(kind, Self, Asked) /\ UNCHANGED Lent
  PROVE  PromiseStep
  <1>1. Promise!Grant
    BY PromiseContents DEF Promise!Grant, Self, Lent, Asked
  <1> QED BY <1>1 DEF PromiseStep, Promise!Next

LEMMA Gives ==
  ASSUME Asked = NoCall, Pending = <<>>, Pending' \in Seq(Elems), UNCHANGED <<kind, Self, Lent, Asked>>
  PROVE  PromiseStep
  BY DEF PromiseStep, Promise!Next, Promise!Give, Self, Lent, Asked

LEMMA Commits ==
  ASSUME Pending # <<>>, Self' = Put(kind, Self, Head(Pending)), Pending' = Tail(Pending),
         UNCHANGED <<kind, Lent, Asked>>
  PROVE  PromiseStep
  <1>1. Promise!Commit
    BY PromiseContents DEF Promise!Commit, Self, Lent, Asked
  <1> QED BY <1>1 DEF PromiseStep, Promise!Next

LEMMA Abandons ==
  ASSUME Asked = NoCall, Pending' = <<>>, Lent' = EmptyOf(kind), UNCHANGED <<kind, Self, Asked>>
  PROVE  PromiseStep
  <1>1. Promise!Abandon
    BY PromiseContents DEF Promise!Abandon, Self, Lent, Asked
  <1> QED BY <1>1 DEF PromiseStep, Promise!Next

LEMMA Leaves ==
  ASSUME Asked = NoCall, UNCHANGED <<kind, Lent, Asked, Pending>>,
         \/ Self' = EmptyOf(kind)
         \/ kind # "map" /\ Self # <<>> /\ Self' = Front(Self)
         \/ /\ kind = "map"
            /\ \E x \in DOMAIN Self : Self' = [y \in DOMAIN Self \ {x} |-> Self[y]]
  PROVE  PromiseStep
  <1>1. Promise!Leave
    BY PromiseContents DEF Promise!Leave, Promise!Front, Front, Self, Lent, Asked
  <1> QED BY <1>1 DEF PromiseStep, Promise!Next

\* The inductive invariant.  A call is in progress off "idle" only, and one that
\* is given its items finds no source waiting;
Calling ==
  /\ pc = "idle" <=> call = NoCall
  /\ pc # "idle" /\ ~FromSource => Pending = <<>>

\* only an append finds something in the other collection;
Owed == Pending # <<>> \/ (pc # "idle" /\ call.op # "append") => other = EmptyOf(kind)

\* the contents after n of its items, for a call that has them all;
Sofar(n) ==
  CASE call.op = "push_front" -> IF n = 0 THEN before ELSE call.xs \o before
    [] call.op = "insert" -> IF n = 0 THEN before ELSE PutAt(before, call.at, call.xs[1])
    [] OTHER -> PutAll(kind, before, SubSeq(Wanted(before, call), 1, n))

\* where the contents at its beginning are, and what it made of them;
Begun ==
  /\ kind # "map" /\ pc # "idle" => IsSeq(before)
  /\ pc \in {"reserve", "shrink", "splice"} => Now = before
  /\ pc \in {"swapped", "absorb"} => other = before
  /\ pc # "idle" /\ call.op \in Fresh0 => before = EmptyOf(kind)
  /\ pc = "loop" /\ ~FromSource => /\ done <= Len(Wanted(before, call)) /\ Now = Sofar(done)
                                   /\ ~Truncates

\* and a heap is kept in order, so that it does not matter which absorbs which.
Ordered == kind = "heap" => InOrder(items) /\ InOrder(other)

PromiseInv == Calling /\ Owed /\ Begun /\ Ordered
AllInv == RoomInv /\ LinkInv /\ PromiseInv

\* What the contents are.
LEMMA NowIsItems == kind # "list" => Now = items
  BY DEF Now, Contents

LEMMA NowIsSeq ==
  ASSUME AllInv, kind # "map"
  PROVE  IsSeq(Now) /\ (kind # "list" => Now = items) /\ Len(Now) = Count /\ Count \in Nat
  <1>1. CASE kind = "list"
    <2>1. PICK q, e : Linked(items, q, e)
      BY <1>1 DEF AllInv, LinkInv
    <2>2. Now = e /\ Len(Now) = items.len /\ items.len \in Nat /\ e = [i \in 1 .. items.len |-> e[i]]
      BY <1>1, <2>1, NowIs DEF Linked
    <2>3. e \in Seq({e[i] : i \in 1 .. items.len})
      BY <2>2
    <2> QED BY <1>1, <2>2, <2>3 DEF IsSeq, Count
  <1>2. CASE kind # "list"
    <2>1. kind \in Rows
      BY <1>2 DEF AllInv, RoomInv, Kinds, Rows
    <2>2. IsSeq(items) /\ Count = Len(items)
      BY <2>1, CountIs DEF AllInv, RoomInv, Filled
    <2> QED BY <1>2, <2>1, <2>2, NowIsItems, CountIs DEF AllInv, RoomInv
  <1> QED BY <1>1, <1>2

LEMMA BlankNow == ASSUME items' = Blank(kind), kind' = kind PROVE Now' = EmptyOf(kind)
  <1>1. CASE kind = "list"
    <2>1. items' = EmptyList /\ Now' = Elements(items')
      BY <1>1 DEF Blank, Now, Contents
    <2> QED BY <1>1, <2>1, EmptyLinked, ElementsIs DEF EmptyOf
  <1>2. CASE kind # "list"
    BY <1>2 DEF Blank, Now, Contents
  <1> QED BY <1>1, <1>2

LEMMA SameNow == ASSUME UNCHANGED <<kind, items>> PROVE Now' = Now
  BY DEF Now, Contents

\* The items a call that has them all adds.
LEMMA WantedSeq ==
  ASSUME AllInv, pc # "idle", ~OutOfBounds(before, call)
  PROVE  IsSeq(Wanted(before, call)) /\ Len(Wanted(before, call)) \in Nat
  <1>1. call.xs \in Seq(Elems) /\ call.at \in Nat /\ call.to \in Nat /\ call.op \in Has(kind)
    BY DEF AllInv, RoomInv, Where, CallOK
  <1>2. IsSeq(Wanted(before, call))
    <2>1. CASE kind = "map"
      <3>1. call.op \notin {"within", "resize", "resize_with"}
        BY <1>1, <2>1 DEF Has
      <3> QED BY <1>1, <3>1 DEF Wanted, IsSeq
    <2>2. CASE kind # "map"
      BY <1>1, <2>2, WantedIs DEF AllInv, PromiseInv, Begun
    <2> QED BY <2>1, <2>2
  <1> QED BY <1>2 DEF IsSeq

\* Before a step that asks for nothing more, and after one that ended a call.
LEMMA AskedIs ==
  ASSUME AllInv
  PROVE  /\ pc = "idle" \/ FromSource => Asked = NoCall /\ Self = Now
         /\ pc # "idle" /\ ~FromSource => Asked = call /\ Asked # NoCall /\ Self = before
         /\ pc \notin {"swapped", "absorb"} => Lent = other
         /\ pc \in {"swapped", "absorb"} => Lent = items
  BY DEF AllInv, PromiseInv, Calling, Asked, Self, Lent

LEMMA Returned ==
  ASSUME Return, kind' = kind, other' = EmptyOf(kind) \/ Pending' = <<>>,
         kind = "heap" => InOrder(items') /\ InOrder(other')
  PROVE  /\ Asked' = NoCall /\ Self' = Now' /\ Lent' = other'
         /\ PromiseInv'
  <1>1. call' = NoCall /\ pc' = "idle"
    BY DEF Return
  <1>2. Asked' = NoCall /\ Self' = Now' /\ Lent' = other'
    BY <1>1 DEF Asked, Self, Lent
  <1>3. Calling' /\ Owed' /\ Begun' /\ Ordered'
    BY <1>1 DEF Calling, Owed, Begun, Ordered
  <1> QED BY <1>2, <1>3 DEF PromiseInv

\* Calls that end with the collection as it is.
LEMMA LeftAlone ==
  ASSUME AllInv, Return, pc # "idle", UNCHANGED <<kind, items, other>>
  PROVE  /\ Asked' = NoCall /\ Self' = Now /\ Lent' = other
         /\ Pending' = Pending \/ (Pending # <<>> /\ Pending' # <<>>) \/ Pending' = <<>> => PromiseInv'
  <1>1. Now' = Now
    BY SameNow
  <1>2. kind = "heap" => InOrder(items') /\ InOrder(other')
    BY DEF AllInv, PromiseInv, Ordered
  <1>3. Asked' = NoCall /\ Self' = Now /\ Lent' = other
    BY <1>1 DEF Return, Asked, Self, Lent
  <1>4. ASSUME Pending' = Pending \/ (Pending # <<>> /\ Pending' # <<>>) \/ Pending' = <<>> PROVE PromiseInv'
    <2>1. other' = EmptyOf(kind) \/ Pending' = <<>>
      BY <1>4 DEF AllInv, PromiseInv, Owed
    <2> QED BY <1>2, <2>1, Returned
  <1> QED BY <1>3, <1>4

LEMMA BeginPromised ==
  ASSUME AllInv, NEW c \in Requests(kind), Begin(c)
  PROVE  PromiseInv' /\ PromiseStep
  <1>1. /\ pc = "idle" /\ call = NoCall /\ Pending = <<>> /\ other = EmptyOf(kind) /\ c.op \in Has(kind)
        /\ (c.op \in Fresh0 => items = Blank(kind)) /\ call' = c /\ pc' = FirstStep(c) /\ before' = Now
        /\ rest' = (IF c.op \in {"slice", "extend"} THEN c.xs ELSE <<>>)
        /\ UNCHANGED <<kind, items, cap, done, head, aborted>>
    BY DEF Begin, Callable
  <1>2. /\ other' = other \/ c.op = "append"
        /\ c.op = "append" => \E xs \in Lists(MaxGiven) : other' = PutAll(kind, EmptyOf(kind), xs)
    BY DEF Begin
  <1>3. CallOK(c) /\ kind \in Kinds /\ Source /\ done = 0
    BY <1>1, RequestShape DEF AllInv, RoomInv, Progress
  <1>4. c # NoCall
    BY <1>3, NoCallAssumption
  <1>5. pc' \in {"head", "loop", "shrink", "reserve"} /\ (pc' = "loop" => kind = "list")
    BY <1>1 DEF FirstStep
  <1>6. head = <<>> /\ Pending' = rest' /\ Now' = Now
    <2>1. head = <<>>
      BY <1>1, <1>3, PendingIs
    <2>2. head' = <<>> /\ rest' \in Seq(Elems)
      BY <1>1, <1>3, <2>1 DEF CallOK
    <2>3. Pending' = rest'
      BY <2>2 DEF Pending
    <2> QED BY <1>1, <2>1, <2>3, SameNow
  <1>7. (FromSource' <=> c.op \in {"extend", "slice"}) /\ Lent = other /\ Lent' = other'
    BY <1>1, <1>5 DEF FromSource, Lent
  <1>8. Asked = NoCall /\ Self = Now
    BY <1>1, AskedIs
  <1>9. Calling' /\ Owed'
    BY <1>1, <1>2, <1>4, <1>5, <1>6, <1>7 DEF Calling, Owed
  <1>10. Begun'
    <2>1. kind # "map" => IsSeq(before')
      BY <1>1, NowIsSeq
    <2>2. c.op \in Fresh0 => before' = EmptyOf(kind)
      <3> SUFFICES ASSUME items = Blank(kind) PROVE Now' = EmptyOf(kind)
        BY <1>1, <1>6
      <3> QED BY <1>1, BlankNow
    <2>3. ASSUME pc' = "loop", ~FromSource'
          PROVE  (done <= Len(Wanted(before, call)) /\ Now = Sofar(done) /\ ~Truncates)'
      <3>1. kind = "list" /\ c.op \notin {"resize", "resize_with", "within", "insert"}
        BY <1>1, <1>5, <2>3 DEF Has, Bulk
      <3>2. Wanted(before', c) = c.xs /\ c.xs \in Seq(Elems)
        BY <1>3, <3>1 DEF Wanted, CallOK
      <3>3. done' = 0 /\ call' = c /\ kind' = kind
        BY <1>1, <1>3
      <3>4. Now' = before'
        BY <1>1, <1>6
      <3>5. 0 <= Len(c.xs)
        BY <3>2
      <3>6. Sofar(done)' = before'
        <4>1. Len(SubSeq(c.xs, 1, 0)) = 0
          BY <3>2
        <4>2. PutAll(kind, before', SubSeq(c.xs, 1, 0)) = before'
          BY <4>1, PutAllNone
        <4>3. CASE c.op = "push_front"
          BY <3>3, <4>3 DEF Sofar
        <4>4. CASE c.op # "push_front"
          <5>1. Sofar(done)' = PutAll(kind', before', SubSeq(Wanted(before', call'), 1, done'))
            BY <3>1, <3>3, <4>4 DEF Sofar
          <5> QED BY <3>2, <3>3, <4>2, <5>1
        <4> QED BY <4>3, <4>4
      <3>7. ~Truncates'
        BY <3>1, <3>3 DEF Truncates
      <3> QED BY <3>2, <3>3, <3>4, <3>5, <3>6, <3>7
    <2> QED BY <1>1, <1>5, <1>6, <2>1, <2>2, <2>3 DEF Begun
  <1>11. Ordered'
    <2> SUFFICES ASSUME kind = "heap" PROVE InOrder(items') /\ InOrder(other')
      BY <1>1 DEF Ordered
    <2>1. InOrder(items) /\ InOrder(other)
      BY DEF AllInv, PromiseInv, Ordered
    <2>2. CASE other' = other
      BY <1>1, <2>1, <2>2
    <2>3. CASE c.op = "append"
      <3>1. PICK xs \in Seq(Elems) : other' = PutAll("heap", EmptyOf(kind), xs)
        BY <1>2, <2>3, ListsAre, BoundsAssumption
      <3>2. EmptyOf(kind) = <<>> /\ InOrder(<<>>)
        BY DEF EmptyOf, InOrder
      <3> QED BY <1>1, <2>1, <3>1, <3>2, HeapAllInOrder
    <2> QED BY <1>2, <2>2, <2>3
  <1>12. CASE c.op \in {"extend", "slice"}
    <2>1. Asked' = NoCall /\ Self' = Now' /\ other' = other
      BY <1>2, <1>7, <1>12 DEF Asked, Self
    <2>2. Pending' \in Seq(Elems)
      BY <1>1, <1>3, <1>6, <1>12 DEF CallOK
    <2>3. PromiseStep
      BY <1>1, <1>6, <1>7, <1>8, <2>1, <2>2, Gives
    <2> QED BY <1>9, <1>10, <1>11, <2>3 DEF PromiseInv
  <1>13. CASE c.op \notin {"extend", "slice"}
    <2>1. Asked' = c /\ Self' = Now
      BY <1>1, <1>4, <1>7, <1>13 DEF Asked, Self
    <2>2. c.op \in Promise!Ops
      BY <1>3, <1>13 DEF CallOK, Has, Kinds, Bulk, Promise!Ops
    <2>3. c \in Promise!Request
      BY <1>3, <2>2 DEF Promise!Request, CallOK, Request
    <2>4. Pending' = Pending
      BY <1>1, <1>6, <1>13
    <2>5. PromiseStep
      BY <1>1, <1>2, <1>7, <1>8, <2>1, <2>3, <2>4, Asks
    <2> QED BY <1>9, <1>10, <1>11, <2>5 DEF PromiseInv
  <1> QED BY <1>12, <1>13

LEMMA RetryPromised ==
  ASSUME AllInv, NEW o \in {"extend", "slice"}, Retry(o)
  PROVE  PromiseInv' /\ PromiseStep
  <1>1. /\ pc = "idle" /\ Pending # <<>> /\ call' = Request(o, <<>>, 0, 0)
        /\ pc' = FirstStep(call') /\ before' = Now
        /\ UNCHANGED <<kind, items, cap, other, done, head, rest, aborted>>
    BY DEF Retry, Callable
  <1>2. call'.op = o /\ FromSource' /\ Now' = Now /\ Pending' = Pending
    BY <1>1, SameNow DEF Request, FromSource, Pending
  <1>3. call' # NoCall
    <2>1. kind \in Kinds /\ o \in Has(kind)
      BY DEF AllInv, RoomInv, Has
    <2>2. <<>> \in Lists(MaxGiven)
      <3>1. <<>> \in [1 .. 0 -> Elems] /\ 0 \in 0 .. MaxGiven
        BY BoundsAssumption
      <3> QED BY <3>1 DEF Lists
    <2>3. Request(o, <<>>, 0, 0) \in Requests(kind)
      BY <2>1, <2>2 DEF Requests
    <2> QED BY <1>1, <2>1, <2>3, NoCallAssumption
  <1>4. pc' \in {"head", "loop", "shrink", "reserve"}
    BY <1>1 DEF FirstStep
  <1>5. /\ Asked = NoCall /\ Self = Now /\ Lent = other
        /\ Asked' = NoCall /\ Self' = Now' /\ Lent' = other'
    BY <1>1, <1>2, <1>4, AskedIs DEF Asked, Self, Lent
  <1>6. Calling' /\ Owed' /\ Ordered'
    BY <1>1, <1>2, <1>3, <1>4 DEF AllInv, PromiseInv, Calling, Owed, Ordered
  <1>7. Begun'
    BY <1>1, <1>2, <1>4, NowIsSeq DEF Begun, Fresh0
  <1>8. PromiseStep
    BY <1>1, <1>2, <1>5, Stutters
  <1> QED BY <1>6, <1>7, <1>8 DEF PromiseInv

\* Reserving shows nothing.
LEMMA ReservePromised ==
  ASSUME AllInv, Swap \/ Reserve
  PROVE  PromiseInv' /\ PromiseStep
  <1>1. /\ pc \in {"reserve", "swapped"} /\ pc' \notin {"idle", "head", "hint", "reserve", "shrink"}
        /\ UNCHANGED <<kind, call, done, before, head, rest>>
    BY DEF Swap, Reserve
  <1>2. Pending' = Pending /\ Asked' = Asked /\ (FromSource' <=> FromSource)
    BY <1>1 DEF Pending, FromSource, Asked
  <1>3. CASE Swap
    <2>1. pc = "reserve" /\ kind = "heap" /\ call.op = "append" /\ items' = other /\ other' = items /\ pc' = "swapped"
      BY <1>3 DEF Swap, MustSwap
    <2>2. ~FromSource /\ before = items /\ Pending = <<>>
      BY <2>1, NowIsItems DEF FromSource, AllInv, PromiseInv, Begun, Calling
    <2>3. Self' = Self /\ Lent' = Lent
      BY <1>1, <1>2, <2>1, <2>2, AskedIs DEF AllInv, PromiseInv, Calling, Self, Lent
    <2>4. PromiseStep
      BY <1>1, <1>2, <2>3, Stutters
    <2>5. Calling' /\ Owed' /\ Begun' /\ Ordered'
      BY <1>1, <1>2, <2>1, <2>2 DEF AllInv, PromiseInv, Calling, Owed, Begun, Ordered, Fresh0
    <2> QED BY <2>4, <2>5 DEF PromiseInv
  <1>4. CASE Reserve
    <2>1. /\ ~OutOfBounds(before, call) /\ ~Truncates /\ UNCHANGED <<items, other>>
          /\ pc' = (IF pc = "swapped" THEN "absorb" ELSE IF call.op = "append" THEN "splice" ELSE "loop")
      BY <1>4 DEF Reserve, InBounds
    <2>2. Now' = Now /\ Truncates' = Truncates
      BY <1>1, <2>1, SameNow DEF Truncates
    <2>3. Self' = Self /\ Lent' = Lent
      BY <1>1, <1>2, <2>1, <2>2 DEF Self, Lent
    <2>4. PromiseStep
      BY <1>1, <1>2, <2>3, Stutters
    <2>5. Calling' /\ Owed' /\ Ordered'
      BY <1>1, <1>2, <2>1 DEF AllInv, PromiseInv, Calling, Owed, Ordered
    <2>6. ASSUME pc' = "loop", ~FromSource' PROVE done' <= Len(Wanted(before', call')) /\ Now' = Sofar(done)'
      <3>1. pc = "reserve" /\ done = 0 /\ Now = before
        BY <1>1, <2>1, <2>6 DEF AllInv, RoomInv, Progress, PromiseInv, Begun
      <3>2. IsSeq(Wanted(before, call)) /\ Len(Wanted(before, call)) \in Nat
        BY <1>1, <2>1, WantedSeq
      <3>3. Sofar(0) = before
        <4>1. Len(SubSeq(Wanted(before, call), 1, 0)) = 0
          BY <3>2, FirstOnes
        <4>2. PutAll(kind, before, SubSeq(Wanted(before, call), 1, 0)) = before
          BY <4>1, PutAllNone
        <4> QED BY <4>2 DEF Sofar
      <3>4. Sofar(done)' = Sofar(done)
        BY <1>1 DEF Sofar
      <3> QED BY <1>1, <2>2, <3>1, <3>2, <3>3, <3>4
    <2>7. Begun'
      BY <1>1, <1>2, <2>1, <2>2, <2>6 DEF AllInv, PromiseInv, Begun
    <2> QED BY <2>4, <2>5, <2>7 DEF PromiseInv
  <1> QED BY <1>3, <1>4

\* So do the steps of an extension between two items.
LEMMA SteppingPromised ==
  ASSUME AllInv, Hint \/ MakeRoom \/ HeadDone
  PROVE  PromiseInv' /\ PromiseStep
  <1>1. /\ pc \in {"hint", "head", "loop"} /\ pc' \in {"hint", "head", "loop"}
        /\ UNCHANGED <<kind, items, other, call, done, before, head, rest>>
        /\ FromSource \/ (pc = "loop" /\ pc' = "loop")
    BY DEF Hint, MakeRoom, More, HeadDone, AllInv, RoomInv, Where, FromSource
  <1>2. /\ Pending' = Pending /\ (FromSource' <=> FromSource) /\ Now' = Now /\ (Truncates' <=> Truncates)
        /\ Sofar(done)' = Sofar(done)
    BY <1>1, SameNow DEF Pending, FromSource, Truncates, Sofar
  <1>3. Self' = Self /\ Lent' = Lent /\ Asked' = Asked
    BY <1>1, <1>2 DEF Self, Lent, Asked
  <1>4. PromiseStep
    BY <1>1, <1>2, <1>3, Stutters
  <1>5. Calling' /\ Owed' /\ Ordered'
    BY <1>1, <1>2 DEF AllInv, PromiseInv, Calling, Owed, Ordered
  <1>6. Begun'
    BY <1>1, <1>2 DEF AllInv, PromiseInv, Begun
  <1> QED BY <1>4, <1>5, <1>6 DEF PromiseInv

\* Calls that fail.
LEMMA RefusedPromised ==
  ASSUME AllInv, Reject \/ ReserveFails \/ HintFails \/ PushFails \/ ShrinkFails
  PROVE  PromiseInv' /\ PromiseStep
  <1>1. Return /\ pc # "idle" /\ UNCHANGED <<kind, items, cap, other, head, rest, aborted>>
    BY DEF Reject, ReserveFails, HintFails, PushFails, ItemFails, More, ShrinkFails
  <1>2. Pending' = Pending
    BY <1>1 DEF Pending
  <1>3. Asked' = NoCall /\ Self' = Now /\ Lent' = other /\ PromiseInv'
    BY <1>1, <1>2, LeftAlone
  <1>4. CASE FromSource
    <2>1. pc \notin {"swapped", "absorb"}
      BY <1>4 DEF AllInv, RoomInv, Where, FromSource
    <2> QED BY <1>1, <1>2, <1>3, <1>4, <2>1, AskedIs, Stutters
  <1>5. CASE ~FromSource /\ pc \in {"swapped", "absorb"}
    <2>1. call.op = "append" /\ kind = "heap" /\ other = before /\ Now = items
      BY <1>5, NowIsItems DEF AllInv, RoomInv, Where, PromiseInv, Begun
    <2>2. Asked # NoCall /\ Asked.op = "append" /\ Self' = Lent /\ Lent' = Self
      BY <1>1, <1>3, <1>5, <2>1, AskedIs
    <2>3. kind' = kind
      BY <1>1
    <2> QED BY <1>2, <1>3, <2>1, <2>2, <2>3, Refuses
  <1>6. CASE ~FromSource /\ pc \notin {"swapped", "absorb"}
    <2>1. Now = before
      <3>1. CASE pc \in {"reserve", "shrink"}
        BY <3>1 DEF AllInv, PromiseInv, Begun
      <3>2. CASE pc \notin {"reserve", "shrink"}
        <4>1. PushFails
          BY <1>6, <3>2 DEF Reject, ReserveFails, HintFails, ShrinkFails, AllInv, RoomInv, Where, FromSource
        <4>2. /\ pc = "loop" /\ ToAdd > 0 /\ call.op \in {"push_back", "push_front"}
          BY <1>6, <4>1 DEF PushFails, ItemFails, More, AllInv, RoomInv, Where, FromSource
        <4>3. Wanted(before, call) = call.xs /\ Len(call.xs) = 1 /\ done \in Nat
          BY <4>2 DEF Wanted, AllInv, RoomInv, Where, CallOK, One, Progress
        <4>4. done = 0
          BY <1>6, <4>2, <4>3 DEF ToAdd
        <4>5. Now = Sofar(0)
          BY <1>6, <4>2, <4>4 DEF AllInv, PromiseInv, Begun
        <4>6. Sofar(0) = before
          <5>1. CASE call.op = "push_front"
            BY <5>1 DEF Sofar
          <5>2. CASE call.op = "push_back"
            <6>1. Len(SubSeq(call.xs, 1, 0)) = 0
              BY <4>3
            <6> QED BY <4>3, <5>2, <6>1, PutAllNone DEF Sofar
          <5> QED BY <4>2, <5>1, <5>2
        <4> QED BY <4>5, <4>6
      <3> QED BY <3>1, <3>2
    <2>2. Asked # NoCall /\ Self' = Self /\ Lent' = Lent
      BY <1>1, <1>3, <1>6, <2>1, AskedIs
    <2>3. kind' = kind
      BY <1>1
    <2> QED BY <1>2, <1>3, <2>2, <2>3, Refuses
  <1> QED BY <1>3, <1>4, <1>5, <1>6

\* A rollback restores what was there.
LEMMA RollBackPromised == ASSUME AllInv, RollBack PROVE PromiseInv' /\ PromiseStep
  <1>1. /\ pc = "loop" /\ ~FromSource /\ call.op \in Bulk /\ Return
        /\ items' = (IF kind = "list" THEN TruncateTo(items, Len(before)) ELSE SubSeq(items, 1, Len(before)))
        /\ UNCHANGED <<kind, cap, other, head, rest, aborted>>
    BY DEF RollBack, ItemFails, More, Bulk, AllInv, RoomInv, Where, FromSource
  <1>2. kind \in {"vec", "deque", "list"} /\ call.op \notin {"append", "push_front", "insert"}
    BY <1>1 DEF AllInv, RoomInv, Where, CallOK, Has, Kinds, Bulk
  <1>3. IsSeq(before) /\ Len(before) \in Nat /\ done \in Nat /\ done <= Len(Wanted(before, call)) /\ Now = Sofar(done)
    BY <1>1, <1>2 DEF AllInv, PromiseInv, Begun, RoomInv, Progress, IsSeq
  <1>4. ~OutOfBounds(before, call) /\ pc # "idle"
    BY <1>1 DEF AllInv, RoomInv, Where
  <1>5. IsSeq(Wanted(before, call)) /\ Len(Wanted(before, call)) \in Nat
    BY <1>4, WantedSeq
  <1>6. SubSeq(Now, 1, Len(before)) = before
    <2> DEFINE xs == SubSeq(Wanted(before, call), 1, done)
    <2>1. Len(xs) = done
      <3>1. done \in 0 .. Len(Wanted(before, call))
        BY <1>3, <1>5
      <3> QED BY <1>5, <3>1, FirstOnes
    <2> HIDE DEF xs
    <2>2. SubSeq(PutAll(kind, before, xs), 1, Len(before)) = before
      BY <1>2, <1>3, <2>1, PutAllPrefix
    <2>3. Now = PutAll(kind, before, xs)
      BY <1>2, <1>3 DEF Sofar, xs
    <2> QED BY <2>2, <2>3
  <1>7. Now' = before
    <2>1. CASE kind = "list"
      <3>1. PICK q, e : Linked(items, q, e)
        BY <2>1 DEF AllInv, LinkInv
      <3>2. items.len = Len(before) + done /\ items.len \in Nat
        BY <1>1, <2>1, <3>1 DEF AllInv, LinkInv, Linked
      <3>3. Len(before) \in 0 .. items.len
        BY <1>3, <3>2
      <3>4. Linked(items', Cut(q, Len(before)), Cut(e, Len(before)))
        BY <1>1, <2>1, <3>1, <3>3, TruncateToLinked
      <3>5. Now' = Cut(e, Len(before))
        BY <1>1, <2>1, <3>4, ElementsIs DEF Now, Contents
      <3>6. Now = e /\ Len(Now) = items.len
        BY <2>1, <3>1, NowIs
      <3>7. SubSeq(e, 1, Len(before)) = Cut(e, Len(before))
        <4>1. \A i \in 1 .. Len(before) : i + 1 - 1 = i
          BY <1>3
        <4> QED BY <1>3, <4>1 DEF Cut
      <3> QED BY <1>6, <3>5, <3>6, <3>7
    <2>2. CASE kind # "list"
      <3>1. Now' = items' /\ Now = items
        BY <1>1, <2>2, NowIsItems DEF Now, Contents
      <3> QED BY <1>1, <1>6, <2>2, <3>1
    <2> QED BY <2>1, <2>2
  <1>8. Pending' = Pending /\ Pending = <<>>
    BY <1>1 DEF Pending, AllInv, PromiseInv, Calling
  <1>9. PromiseInv' /\ Asked' = NoCall /\ Self' = Now' /\ Lent' = other'
    BY <1>1, <1>2, <1>8, Returned
  <1>10. Asked # NoCall /\ Self = before /\ Lent = other
    BY <1>1, AskedIs
  <1> QED BY <1>1, <1>7, <1>8, <1>9, <1>10, Refuses

LEMMA DropHalfBuiltPromised == ASSUME AllInv, DropHalfBuilt PROVE PromiseInv' /\ PromiseStep
  <1>1. /\ pc \in {"head", "loop"} /\ call.op \in Fresh0 /\ Return /\ items' = Blank(kind)
        /\ UNCHANGED <<kind, other, head, rest, aborted>>
    BY DEF DropHalfBuilt, ItemFails, More
  <1>2. ~FromSource
    BY <1>1 DEF FromSource, Fresh0
  <1>3. before = EmptyOf(kind) /\ Pending = <<>> /\ Pending' = Pending
    BY <1>1, <1>2 DEF AllInv, PromiseInv, Begun, Calling, Pending
  <1>4. Now' = EmptyOf(kind)
    BY <1>1, BlankNow
  <1>5. kind = "heap" => InOrder(items') /\ InOrder(other')
    BY <1>1 DEF AllInv, PromiseInv, Ordered, Blank, EmptyOf, InOrder
  <1>6. PromiseInv' /\ Asked' = NoCall /\ Self' = Now' /\ Lent' = other'
    BY <1>1, <1>3, <1>5, Returned
  <1>7. Asked # NoCall /\ Self = before /\ Lent = other
    BY <1>1, <1>2, AskedIs
  <1> QED BY <1>1, <1>3, <1>4, <1>6, <1>7, Refuses

\* What is stranded is what was pending.
LEMMA StrandPromised ==
  ASSUME AllInv, Strand \/ StopSlice
  PROVE  PromiseInv' /\ PromiseStep
  <1>1. /\ pc \in {"head", "loop"} /\ FromSource /\ Return /\ UNCHANGED <<kind, items, cap, other, aborted>>
        /\ ToAdd > 0 /\ (pc = "head" => head # <<>>)
    BY DEF Strand, StopSlice, ItemFails, More, FromSource
  <1>2. Source /\ Pending \in Seq(Elems) /\ Len(Pending) \in Nat /\ Len(Pending) > 0 /\ Pending # <<>>
    BY <1>1, PendingIs DEF AllInv, RoomInv, ToAdd
  <1>3. Asked = NoCall /\ Self = Now /\ Lent = other
    BY <1>1, AskedIs
  <1>4. Asked' = NoCall /\ Self' = Now /\ Lent' = other
    BY <1>1, LeftAlone
  <1>5. CASE Strand
    <2>1. head' = <<Item>> /\ rest' = (IF pc = "head" THEN rest ELSE Tail(rest)) /\ Item = Pending[1]
      BY <1>1, <1>5 DEF Strand, Item
    <2>2. Pending' = Pending
      <3>1. CASE pc = "head"
        <4>1. Pending[1] = head[1] /\ Len(head) = 1 /\ head \in Seq(Elems) /\ rest \in Seq(Elems)
          BY <1>1, <1>2, <3>1, PendingIs DEF Source
        <4>2. head = <<head[1]>>
          BY <4>1
        <4> QED BY <2>1, <3>1, <4>1, <4>2 DEF Pending
      <3>2. CASE pc = "loop"
        <4>1. Pending = rest /\ rest \in Seq(Elems) /\ rest # <<>>
          BY <1>2, <3>2, PendingIs DEF Source
        <4>2. rest = <<rest[1]>> \o Tail(rest)
          BY <4>1
        <4>3. Pending' = <<rest[1]>> \o Tail(rest)
          BY <2>1, <3>2, <4>1 DEF Pending
        <4> QED BY <4>1, <4>2, <4>3
      <3> QED BY <1>1, <3>1, <3>2
    <2>3. PromiseInv'
      BY <1>1, <2>2, LeftAlone
    <2> QED BY <1>1, <1>3, <1>4, <2>2, <2>3, Stutters
  <1>6. CASE StopSlice
    <2>1. head' = head /\ rest' \in {rest, <<>>} /\ pc = "loop" /\ call.op = "slice"
      BY <1>1, <1>6 DEF StopSlice, AllInv, RoomInv, Where
    <2>2. head = <<>> /\ Pending = rest /\ other = EmptyOf(kind)
      BY <1>1, <1>2, <2>1, PendingIs DEF Source, AllInv, PromiseInv, Owed
    <2>3. CASE rest' = rest
      <3>1. Pending' = Pending
        BY <2>1, <2>3 DEF Pending
      <3> QED BY <1>1, <1>3, <1>4, <3>1, LeftAlone, Stutters
    <2>4. CASE rest' = <<>>
      <3>1. Pending' = <<>>
        BY <2>1, <2>2, <2>4 DEF Pending
      <3> QED BY <1>1, <1>3, <1>4, <2>2, <3>1, LeftAlone, Abandons
    <2> QED BY <2>1, <2>3, <2>4
  <1> QED BY <1>5, <1>6

\* Calls that succeed at once.
LEMMA TruncatePromised == ASSUME AllInv, Truncate PROVE PromiseInv' /\ PromiseStep
  <1>1. /\ pc = "reserve" /\ call.op \in {"resize", "resize_with"} /\ call.to <= Len(before) /\ Return
        /\ items' = SubSeq(items, 1, call.to) /\ UNCHANGED <<kind, cap, other, head, rest, aborted>>
    BY DEF Truncate, Truncates
  <1>2. ~FromSource /\ kind \in {"vec", "deque"} /\ Now = before
    BY <1>1 DEF AllInv, RoomInv, Where, CallOK, Has, Kinds, Bulk, FromSource, PromiseInv, Begun
  <1>3. Now' = SubSeq(before, 1, call.to)
    BY <1>1, <1>2, NowIsItems DEF Now, Contents
  <1>4. Pending' = Pending /\ Pending = <<>>
    BY <1>1, <1>2 DEF Pending, AllInv, PromiseInv, Calling
  <1>5. PromiseInv' /\ Asked' = NoCall /\ Self' = Now' /\ Lent' = other'
    BY <1>1, <1>2, <1>4, Returned
  <1>6. Asked = call /\ Asked # NoCall /\ Self = before /\ Lent = other
    BY <1>1, <1>2, AskedIs
  <1>7. Outcome(kind, before, call) = SubSeq(before, 1, call.to) /\ ~OutOfBounds(before, call)
    BY <1>1 DEF Outcome, OutOfBounds
  <1> QED BY <1>1, <1>3, <1>4, <1>5, <1>6, <1>7, Grants

LEMMA ShrinkPromised == ASSUME AllInv, ShrinkNothing \/ Shrink PROVE PromiseInv' /\ PromiseStep
  <1>1. pc = "shrink" /\ Return /\ UNCHANGED <<kind, items, other, head, rest>>
    BY DEF ShrinkNothing, Shrink
  <1>2. call.op \in {"shrink", "box"} /\ call.xs = <<>> /\ ~FromSource /\ Now = before
    BY <1>1 DEF AllInv, RoomInv, Where, CallOK, Bare, FromSource, PromiseInv, Begun
  <1>3. Pending' = Pending /\ Pending = <<>>
    BY <1>1, <1>2 DEF Pending, AllInv, PromiseInv, Calling
  <1>4. PromiseInv' /\ Asked' = NoCall /\ Self' = Now /\ Lent' = other
    BY <1>1, <1>3, LeftAlone
  <1>5. Asked = call /\ Asked # NoCall /\ Self = before /\ Lent = other
    BY <1>1, <1>2, AskedIs
  <1>6. Outcome(kind, before, call) = before /\ ~OutOfBounds(before, call)
    <2>1. Outcome(kind, before, call) = PutAll(kind, before, <<>>)
      BY <1>2 DEF Outcome, Wanted
    <2>2. PutAll(kind, before, <<>>) = before
      BY PutAllNone
    <2> QED BY <1>2, <2>1, <2>2 DEF OutOfBounds
  <1> QED BY <1>1, <1>2, <1>3, <1>4, <1>5, <1>6, Grants

LEMMA SplicePromised == ASSUME AllInv, Splice PROVE PromiseInv' /\ PromiseStep
  <1>1. /\ pc \in {"splice", "absorb"} /\ call.op = "append" /\ Return /\ kind # "list"
        /\ items' = PutAll(kind, items, other) /\ other' = EmptyOf(kind) /\ UNCHANGED <<kind, cap, head, rest>>
    BY DEF Splice, AllInv, RoomInv, Where, CallOK, Has, Kinds
  <1>2. ~FromSource /\ Now = items /\ Now' = items'
    BY <1>1, NowIsItems DEF FromSource, Now, Contents
  <1>3. Pending' = Pending /\ Pending = <<>>
    BY <1>1, <1>2 DEF Pending, AllInv, PromiseInv, Calling
  <1>4. kind = "heap" => InOrder(items') /\ InOrder(other')
    <2> SUFFICES ASSUME kind = "heap" PROVE InOrder(items') /\ InOrder(other')
      OBVIOUS
    <2>1. InOrder(items) /\ InOrder(other) /\ other \in Seq(Elems)
      BY DEF AllInv, PromiseInv, Ordered, InOrder
    <2>2. InOrder(PutAll("heap", items, other))
      BY <2>1, HeapAllInOrder
    <2>3. other' = <<>> /\ InOrder(<<>>)
      BY <1>1 DEF EmptyOf, InOrder
    <2> QED BY <1>1, <2>2, <2>3
  <1>5. PromiseInv' /\ Asked' = NoCall /\ Self' = Now' /\ Lent' = other'
    BY <1>1, <1>3, <1>4, Returned
  <1>6. Asked = call /\ Asked # NoCall /\ Self = before
    BY <1>1, <1>2, AskedIs
  <1>7. PutAll(kind, items, other) = PutAll(kind, Self, Lent)
    <2>1. CASE pc = "splice"
      <3>1. items = before /\ Lent = other
        BY <1>2, <2>1, AskedIs DEF AllInv, PromiseInv, Begun
      <3> QED BY <1>6, <3>1
    <2>2. CASE pc = "absorb"
      <3>1. other = before /\ Lent = items /\ kind = "heap"
        BY <2>2, AskedIs DEF AllInv, PromiseInv, Begun, RoomInv, Where
      <3>2. InOrder(items) /\ InOrder(other)
        BY <3>1 DEF AllInv, PromiseInv, Ordered
      <3> QED BY <1>6, <3>1, <3>2, HeapAppendEitherWay
    <2> QED BY <1>1, <2>1, <2>2
  <1>8. ~OutOfBounds(Self, Asked)
    BY <1>1, <1>6 DEF OutOfBounds
  <1> QED BY <1>1, <1>2, <1>3, <1>5, <1>6, <1>7, <1>8, Grants

\* A loop that is over has added everything.
LEMMA FinishPromised == ASSUME AllInv, Finish PROVE PromiseInv' /\ PromiseStep
  <1>1. pc = "loop" /\ ToAdd = 0 /\ Return /\ UNCHANGED <<kind, items, cap, other, head, rest, aborted>>
    BY DEF Finish
  <1>2. Pending' = Pending
    BY <1>1 DEF Pending
  <1>3. Asked' = NoCall /\ Self' = Now /\ Lent' = other /\ PromiseInv'
    BY <1>1, <1>2, LeftAlone
  <1>4. CASE FromSource
    BY <1>1, <1>2, <1>3, <1>4, AskedIs, Stutters
  <1>5. CASE ~FromSource
    <2> DEFINE w == Wanted(before, call)
    <2>1. /\ call.op \notin {"append"} /\ ~OutOfBounds(before, call) /\ ~Truncates /\ Now = Sofar(done)
          /\ done \in Nat /\ CallOK(call)
      BY <1>1, <1>5 DEF AllInv, RoomInv, Where, Progress, PromiseInv, Begun
    <2>2. IsSeq(w) /\ Len(w) \in Nat
      BY <1>1, <2>1, WantedSeq
    <2>3. done = Len(w)
      BY <1>1, <1>5, <2>1, <2>2 DEF ToAdd
    <2>4. Asked = call /\ Asked # NoCall /\ Self = before /\ Lent = other
      BY <1>1, <1>5, AskedIs
    <2>5. Sofar(done) = Outcome(kind, before, call)
      <3>1. CASE call.op \in {"push_front", "insert"}
        <4>1. w = call.xs /\ Len(call.xs) = 1
          BY <2>1, <3>1 DEF Wanted, CallOK, One
        <4> QED BY <2>3, <3>1, <4>1 DEF Sofar, Outcome
      <3>2. CASE call.op \notin {"push_front", "insert"}
        <4>1. Sofar(done) = PutAll(kind, before, SubSeq(w, 1, Len(w)))
          BY <2>3, <3>2 DEF Sofar
        <4>2. Outcome(kind, before, call) = PutAll(kind, before, w)
          BY <2>1, <3>2 DEF Outcome, Truncates
        <4>3. SubSeq(w, 1, Len(w)) = w
          BY <2>2, AllOfThem
        <4> QED BY <4>1, <4>2, <4>3
      <3> QED BY <3>1, <3>2
    <2> QED BY <1>1, <1>2, <1>3, <2>1, <2>4, <2>5, Grants
  <1> QED BY <1>4, <1>5

\* What adding an item makes of the contents.
LEMMA AddNow ==
  ASSUME AllInv, Add
  PROVE  Now' = CASE call.op = "push_front" -> <<Item>> \o Now
                  [] call.op = "insert" -> PutAt(Now, call.at, Item)
                  [] OTHER -> Put(kind, Now, Item)
  <1>1. items' = Placed(Item) /\ kind' = kind /\ pc \in {"head", "loop"} /\ (kind = "list" => Unused(items) # {})
    BY DEF Add, More
  <1>2. CASE kind # "list"
    BY <1>1, <1>2 DEF Now, Contents, Placed
  <1>3. CASE kind = "list"
    <2>1. PICK q, e : Linked(items, q, e)
      BY <1>3 DEF AllInv, LinkInv
    <2>2. Now = e /\ items.len \in Nat /\ e = [i \in 1 .. items.len |-> e[i]] /\ Len(e) = items.len
      BY <1>3, <2>1, NowIs DEF Linked
    <2>3. Fresh(items) \in Unused(items)
      BY <1>1, <1>3 DEF Fresh
    <2>4. call.op # "insert"
      BY <1>1, <1>3 DEF AllInv, RoomInv, Where, CallOK, Has
    <2> DEFINE n == items.len
               S == {e[i] : i \in 1 .. n} \union {Item}
    <2>5. e \in Seq(S) /\ <<Item>> \in Seq(S) /\ Len(<<Item>>) = 1 /\ <<Item>>[1] = Item /\ Item \in S
      <3>1. Item \in S /\ \A i \in 1 .. n : e[i] \in S
        OBVIOUS
      <3> HIDE DEF S
      <3>2. e \in Seq(S)
        BY <2>2, <3>1
      <3>3. <<Item>> \in Seq(S) /\ Len(<<Item>>) = 1 /\ <<Item>>[1] = Item
        BY <3>1
      <3> QED BY <3>1, <3>2, <3>3
    <2>6. CASE call.op = "push_front"
      <3>1. items' = PushFront(items, Fresh(items), Item)
        BY <1>1, <1>3, <2>6 DEF Placed
      <3>2. Now' = Fore(e, n, Item)
        <4>1. Linked(items', Fore(q, n, Fresh(items)), Fore(e, n, Item))
          BY <2>1, <2>3, <3>1, PushFrontLinked
        <4> HIDE DEF n
        <4> QED BY <1>1, <1>3, <4>1, ElementsIs DEF Now, Contents
      <3> DEFINE s == <<Item>> \o e
      <3>3. /\ s \in Seq(S) /\ Len(s) = n + 1
            /\ \A i \in 1 .. n + 1 : s[i] = IF i <= 1 THEN <<Item>>[i] ELSE e[i - 1]
        <4> HIDE DEF S
        <4> QED BY <2>2, <2>5, ConcatProperties
      <3>4. s = [i \in 1 .. n + 1 |-> s[i]]
        BY <3>3
      <3> HIDE DEF s
      <3>5. \A i \in 1 .. n + 1 : s[i] = IF i = 1 THEN Item ELSE e[i - 1]
        <4>1. \A i \in 1 .. n + 1 : i <= 1 <=> i = 1
          BY <2>2
        <4>2. <<Item>>[1] = Item
          OBVIOUS
        <4> HIDE DEF n
        <4> QED BY <3>3, <4>1, <4>2
      <3>6. s = Fore(e, n, Item)
        BY <3>4, <3>5 DEF Fore
      <3> QED BY <2>2, <2>6, <3>2, <3>6 DEF s
    <2>7. CASE call.op # "push_front"
      <3>1. items' = PushBack(items, Fresh(items), Item)
        BY <1>1, <1>3, <2>7 DEF Placed
      <3>2. Now' = Back(e, n, Item)
        <4>1. Linked(items', Back(q, n, Fresh(items)), Back(e, n, Item))
          BY <2>1, <2>3, <3>1, PushBackLinked
        <4> HIDE DEF n
        <4> QED BY <1>1, <1>3, <4>1, ElementsIs DEF Now, Contents
      <3>3. Append(e, Item) = Back(e, n, Item)
        <4>1. Append(e, Item) = [i \in 1 .. n + 1 |-> IF i <= n THEN e[i] ELSE Item]
          BY <2>2, <2>5
        <4>2. \A i \in 1 .. n + 1 : (i <= n) <=> (i # n + 1)
          BY <2>2
        <4> QED BY <4>1, <4>2 DEF Back
      <3>4. Put(kind, Now, Item) = Append(e, Item)
        BY <1>3, <2>2 DEF Put
      <3> QED BY <2>4, <2>7, <3>2, <3>3, <3>4
    <2> QED BY <2>6, <2>7
  <1> QED BY <1>2, <1>3

LEMMA AddPromised == ASSUME AllInv, Add PROVE PromiseInv' /\ PromiseStep
  <1>1. /\ pc \in {"head", "loop"} /\ ToAdd > 0 /\ (pc = "head" => head # <<>>)
        /\ done' = done + 1 /\ items' = Placed(Item)
        /\ FromSource => head' = <<>> /\ rest' = (IF pc = "head" THEN rest ELSE Tail(rest))
        /\ ~FromSource => UNCHANGED <<head, rest>>
        /\ UNCHANGED <<kind, cap, other, call, pc, before>>
    BY DEF Add, More
  <1>2. /\ (FromSource' <=> FromSource) /\ Asked' = Asked /\ (Truncates' <=> Truncates) /\ done \in Nat
        /\ CallOK(call) /\ ~OutOfBounds(before, call) /\ (pc = "head" => call.op = "extend") /\ kind \in Kinds
    BY <1>1 DEF FromSource, Asked, Truncates, AllInv, RoomInv, Where, Progress, OutOfBounds
  <1>3. Lent' = other /\ Lent = other
    BY <1>1 DEF Lent
  <1>4. ASSUME Item \in Elems PROVE Ordered'
    <2> SUFFICES ASSUME kind = "heap" PROVE InOrder(items') /\ InOrder(other')
      BY <1>1 DEF Ordered
    <2>1. InOrder(items) /\ InOrder(other)
      BY DEF AllInv, PromiseInv, Ordered
    <2>2. call.op \notin {"push_front", "insert"}
      BY <1>2 DEF CallOK, Has
    <2>3. items' = Put("heap", items, Item)
      BY <1>1, <2>2 DEF Placed
    <2> QED BY <1>1, <1>4, <2>1, <2>3, HeapPut
  <1>5. CASE FromSource
    <2>1. /\ Source /\ Pending \in Seq(Elems) /\ Len(Pending) > 0 /\ Pending # <<>> /\ Item = Pending[1]
          /\ Len(Pending) \in Nat
      BY <1>1, <1>5, PendingIs DEF AllInv, RoomInv, ToAdd, Item
    <2>2. Head(Pending) = Item /\ Item \in Elems
      BY <2>1
    <2>3. Pending' = Tail(Pending)
      <3>1. CASE pc = "head"
        <4>1. Pending[1] = head[1] /\ Len(head) = 1 /\ head \in Seq(Elems) /\ rest \in Seq(Elems)
          BY <1>1, <2>1, <3>1, PendingIs DEF Source
        <4>2. head = <<head[1]>>
          BY <4>1
        <4>3. Tail(<<head[1]>> \o rest) = rest
          <5>1. head[1] \in Elems
            BY <4>1
          <5> QED BY <4>1, <5>1, HeadTailAppend
        <4>4. Pending' = rest
          BY <1>1, <1>5, <3>1, <4>1 DEF Pending
        <4> QED BY <4>2, <4>3, <4>4 DEF Pending
      <3>2. CASE pc = "loop"
        <4>1. head = <<>> /\ Pending = rest
          BY <2>1, <3>2, PendingIs DEF Source
        <4>2. head' = <<>> /\ rest' = Tail(rest)
          BY <1>1, <1>5, <3>2
        <4>3. Tail(rest) \in Seq(Elems)
          BY <2>1, <4>1
        <4> QED BY <4>1, <4>2, <4>3 DEF Pending
      <3> QED BY <1>1, <3>1, <3>2
    <2>4. Now' = Put(kind, Now, Item)
      BY <1>5, AddNow DEF FromSource
    <2>5. Self = Now /\ Self' = Now'
      BY <1>2, <1>5 DEF Self
    <2>6. PromiseStep
      BY <1>1, <1>2, <1>3, <2>1, <2>2, <2>3, <2>4, <2>5, Commits
    <2>7. other = EmptyOf(kind)
      BY <2>1 DEF AllInv, PromiseInv, Owed
    <2>8. Calling' /\ Owed'
      BY <1>1, <1>2, <1>5, <2>7 DEF Calling, Owed, AllInv, PromiseInv
    <2>9. Begun'
      BY <1>1, <1>2, <1>5 DEF Begun, AllInv, PromiseInv, FromSource, Fresh0
    <2> QED BY <1>4, <2>2, <2>6, <2>8, <2>9 DEF PromiseInv
  <1>6. CASE ~FromSource
    <2> DEFINE w == Wanted(before, call)
    <2>1. pc = "loop" /\ done <= Len(w) /\ Now = Sofar(done) /\ ~Truncates
      BY <1>1, <1>2, <1>6 DEF FromSource, AllInv, PromiseInv, Begun
    <2>2. IsSeq(w) /\ Len(w) \in Nat
      BY <1>2, <2>1, WantedSeq
    <2>3. Item = w[done + 1] /\ done < Len(w)
      BY <1>1, <1>2, <1>6, <2>2 DEF Item, ToAdd
    <2>4. Now' = Sofar(done + 1)
      <3>1. CASE call.op \in {"push_front", "insert"}
        <4>1. w = call.xs /\ Len(call.xs) = 1 /\ call.xs \in Seq(Elems)
          BY <1>2, <3>1 DEF Wanted, CallOK, One
        <4>2. done = 0 /\ done + 1 # 0
          BY <1>2, <2>3, <4>1
        <4>3. Item = call.xs[1] /\ call.xs = <<Item>>
          BY <2>3, <4>1, <4>2
        <4>4. Now = before
          BY <2>1, <3>1, <4>2 DEF Sofar
        <4>5. CASE call.op = "push_front"
          <5>1. Now' = <<Item>> \o Now
            BY <4>5, AddNow
          <5>2. Sofar(done + 1) = call.xs \o before
            BY <4>2, <4>5 DEF Sofar
          <5> QED BY <4>3, <4>4, <5>1, <5>2
        <4>6. CASE call.op = "insert"
          <5>1. Now' = PutAt(Now, call.at, Item)
            BY <4>6, AddNow
          <5>2. Sofar(done + 1) = PutAt(before, call.at, call.xs[1])
            BY <4>2, <4>6 DEF Sofar
          <5> QED BY <4>3, <4>4, <5>1, <5>2
        <4> QED BY <3>1, <4>5, <4>6
      <3>2. CASE call.op \notin {"push_front", "insert"}
        <4>1. Now' = Put(kind, Now, Item)
          BY <3>2, AddNow
        <4>2. /\ Sofar(done) = PutAll(kind, before, SubSeq(w, 1, done))
              /\ Sofar(done + 1) = PutAll(kind, before, SubSeq(w, 1, done + 1))
          BY <3>2 DEF Sofar
        <4>3. PutAll(kind, before, SubSeq(w, 1, done + 1)) = Put(kind, PutAll(kind, before, SubSeq(w, 1, done)), w[done + 1])
          <5> HIDE DEF w
          <5> QED BY <1>2, <2>2, <2>3, PutNext
        <4> QED BY <2>1, <2>3, <4>1, <4>2, <4>3
      <3> QED BY <3>1, <3>2
    <2>5. Sofar(done)' = Sofar(done + 1) /\ w' = w
      BY <1>1 DEF Sofar
    <2>6. Self' = Self /\ Pending' = Pending
      BY <1>1, <1>2, <1>6, <2>1 DEF Self, Pending, AllInv, PromiseInv, Calling
    <2>7. PromiseStep
      BY <1>1, <1>2, <1>3, <2>6, Stutters
    <2>8. Calling' /\ Owed'
      BY <1>1, <1>2, <2>6 DEF Calling, Owed, AllInv, PromiseInv
    <2>9. Begun'
      <3>1. (done <= Len(w))'
        BY <1>1, <1>2, <2>2, <2>3, <2>5
      <3> QED BY <1>1, <1>2, <2>1, <2>4, <2>5, <3>1 DEF Begun, AllInv, PromiseInv
    <2>10. kind = "heap" => Item \in Elems
      <3> SUFFICES ASSUME kind = "heap" PROVE Item \in Elems
        OBVIOUS
      <3>1. w = call.xs /\ call.xs \in Seq(Elems)
        BY <1>2 DEF Wanted, CallOK, Has
      <3>2. done + 1 \in 1 .. Len(w)
        BY <1>2, <2>2, <2>3
      <3> QED BY <2>3, <3>1, <3>2
    <2>11. Ordered'
      BY <1>1, <1>4, <2>10 DEF Ordered
    <2> QED BY <2>7, <2>8, <2>9, <2>11 DEF PromiseInv
  <1> QED BY <1>5, <1>6

\* The caller, between calls.
LEMMA CallerPromised ==
  ASSUME AllInv, Forget \/ TakeOut \/ DropIt
  PROVE  PromiseInv' /\ PromiseStep
  <1>1. /\ pc = "idle" /\ pc' = "idle" /\ call = NoCall /\ call' = NoCall /\ kind' = kind
    BY DEF Forget, TakeOut, DropIt, Callable
  <1>2. /\ Asked = NoCall /\ Asked' = NoCall /\ Self = Now /\ Self' = Now' /\ Lent = other /\ Lent' = other'
    BY <1>1 DEF Asked, Self, Lent
  <1>3. ASSUME other' = EmptyOf(kind) \/ Pending' = <<>> PROVE Calling' /\ Owed' /\ Begun'
    BY <1>1, <1>3 DEF Calling, Owed, Begun
  <1>4. Ordered
    BY DEF AllInv, PromiseInv
  <1>5. CASE Forget
    <2>1. head' = <<>> /\ rest' = <<>> /\ other' = EmptyOf(kind) /\ items' = items
      BY <1>5 DEF Forget
    <2>2. Pending' = <<>> /\ Now' = Now
      BY <1>1, <2>1, SameNow DEF Pending
    <2>3. Ordered'
      BY <1>1, <1>4, <2>1 DEF Ordered, EmptyOf, InOrder
    <2> QED BY <1>1, <1>2, <1>3, <2>1, <2>2, <2>3, Abandons DEF PromiseInv
  <1>6. CASE DropIt
    <2>1. items' = Blank(kind) /\ UNCHANGED <<other, head, rest>>
      BY <1>6 DEF DropIt
    <2>2. Pending' = Pending /\ Now' = EmptyOf(kind)
      BY <1>1, <2>1, BlankNow DEF Pending
    <2>3. Ordered'
      BY <1>1, <1>4, <2>1 DEF Ordered, Blank, EmptyOf, InOrder
    <2>4. other' = EmptyOf(kind) \/ Pending' = <<>>
      BY <1>1, <2>1, <2>2 DEF AllInv, PromiseInv, Owed
    <2> QED BY <1>1, <1>2, <1>3, <2>1, <2>2, <2>3, <2>4, Leaves DEF PromiseInv
  <1>7. CASE TakeOut
    <2>1. Pending = <<>> /\ Count > 0 /\ UNCHANGED <<other, head, rest>>
      BY <1>7 DEF TakeOut
    <2>2. Pending' = Pending
      BY <2>1 DEF Pending
    <2>3. CASE kind = "map"
      <3>1. \E x \in DOMAIN items : items' = [y \in DOMAIN items \ {x} |-> items[y]]
        BY <1>7, <2>3 DEF TakeOut
      <3>2. Now = items /\ Now' = items'
        BY <1>1, <2>3 DEF Now, Contents
      <3>3. Ordered'
        BY <1>1, <2>3 DEF Ordered
      <3>4. PromiseStep
        BY <1>1, <1>2, <2>1, <2>2, <2>3, <3>1, <3>2, Leaves
      <3> QED BY <1>3, <2>1, <2>2, <3>3, <3>4 DEF PromiseInv
    <2>4. CASE kind = "list"
      <3>1. items' = PopBack(items) /\ items.len > 0
        BY <1>7, <2>1, <2>4 DEF TakeOut, Count
      <3>2. PICK q, e : Linked(items, q, e)
        BY <2>4 DEF AllInv, LinkInv
      <3>3. Now = e /\ Len(e) = items.len /\ items.len \in Nat
        BY <2>4, <3>2, NowIs
      <3>4. Linked(items', Cut(q, items.len - 1), Cut(e, items.len - 1))
        BY <3>1, <3>2, PopBackLinked
      <3>5. Now' = Cut(e, items.len - 1)
        BY <1>1, <2>4, <3>4, ElementsIs DEF Now, Contents
      <3>6. Front(e) = Cut(e, items.len - 1) /\ e # <<>>
        <4>1. \A i \in 1 .. Len(e) - 1 : i + 1 - 1 = i
          BY <3>3
        <4> QED BY <3>1, <3>3, <4>1 DEF Front, Cut
      <3>7. Ordered'
        BY <1>1, <2>4 DEF Ordered
      <3>8. PromiseStep
        BY <1>1, <1>2, <2>1, <2>2, <2>4, <3>3, <3>5, <3>6, Leaves
      <3> QED BY <1>3, <2>1, <2>2, <3>7, <3>8 DEF PromiseInv
    <2>5. CASE kind \notin {"map", "list"}
      <3>1. items' = Front(items)
        BY <1>7, <2>5 DEF TakeOut
      <3>2. Now = items /\ Now' = items' /\ Len(items) = Count /\ IsSeq(items)
        BY <1>1, <2>5, NowIsSeq DEF Now, Contents
      <3>3. items # <<>>
        BY <2>1, <3>2
      <3>4. Ordered'
        <4> SUFFICES ASSUME kind = "heap" PROVE InOrder(items') /\ InOrder(other')
          BY <1>1 DEF Ordered
        <4>1. InOrder(items) /\ InOrder(other)
          BY <1>4 DEF Ordered
        <4>2. /\ items \in Seq(Elems) /\ Len(items) \in Nat /\ Len(items) > 0
              /\ \A i, j \in 1 .. Len(items) : i <= j => items[i] <= items[j]
          BY <2>1, <3>2, <4>1 DEF InOrder
        <4> DEFINE n == Len(items) - 1
        <4>a. n \in 0 .. Len(items) /\ items' = SubSeq(items, 1, n)
          BY <3>1, <4>2 DEF Front
        <4>b. SubSeq(items, 1, n) \in Seq(Elems) /\ Len(SubSeq(items, 1, n)) = n
              /\ \A i \in 1 .. n : SubSeq(items, 1, n)[i] = items[i]
          BY <4>2, <4>a, FirstNumbers
        <4> HIDE DEF n
        <4>3. items' \in Seq(Elems) /\ Len(items') = Len(items) - 1 /\ \A i \in 1 .. Len(items) - 1 : items'[i] = items[i]
          BY <4>a, <4>b DEF n
        <4>4. \A i \in 1 .. Len(items) - 1 : i \in 1 .. Len(items)
          BY <4>2
        <4> QED BY <2>1, <4>1, <4>2, <4>3, <4>4 DEF InOrder
      <3>5. PromiseStep
        BY <1>1, <1>2, <2>1, <2>2, <2>5, <3>1, <3>2, <3>3, Leaves
      <3> QED BY <1>3, <2>1, <2>2, <3>4, <3>5 DEF PromiseInv
    <2> QED BY <2>3, <2>4, <2>5
  <1> QED BY <1>5, <1>6, <1>7

LEMMA PromiseKept == AllInv /\ [Next]_vars => PromiseInv' /\ PromiseStep
  <1> SUFFICES ASSUME AllInv, [Next]_vars PROVE PromiseInv' /\ PromiseStep
    OBVIOUS
  <1>1. CASE Step
    BY <1>1, ReservePromised, SteppingPromised, RefusedPromised, TruncatePromised, AddPromised, FinishPromised,
       SplicePromised, RollBackPromised, DropHalfBuiltPromised, StrandPromised, ShrinkPromised DEF Step
  <1>2. CASE \E c \in Requests(kind) : Begin(c)
    BY <1>2, BeginPromised
  <1>3. CASE \E o \in {"extend", "slice"} : Retry(o)
    BY <1>3, RetryPromised
  <1>4. CASE Forget \/ TakeOut \/ DropIt
    BY <1>4, CallerPromised
  <1>5. CASE UNCHANGED vars
    <2>1. UNCHANGED <<kind, Self, Lent, Asked, Pending>>
      BY <1>5, SameNow DEF vars, Self, Lent, Asked, FromSource, Pending
    <2>2. Now' = Now /\ Sofar(done)' = Sofar(done) /\ (Truncates' <=> Truncates) /\ (FromSource' <=> FromSource)
      BY <1>5, SameNow DEF vars, Sofar, Truncates, FromSource
    <2>3. PromiseInv'
      BY <1>5, <2>1, <2>2 DEF vars, AllInv, PromiseInv, Calling, Owed, Begun, Ordered
    <2> QED BY <2>1, <2>3, Stutters
  <1> QED BY <1>1, <1>2, <1>3, <1>4, <1>5 DEF Next

\* Every call keeps the promise: items the caller brought are added all or not
\* at all, whatever fails or unwinds between two of them, and an extension that
\* stops part way hands back exactly what it did not add, the item it had taken
\* from its source first.
THEOREM PromiseHolds == Spec => ImplementsCollection
  <1>1. Init => LinkInv
    BY LinkStarts
  <1>2. Init => PromiseInv
    <2> SUFFICES ASSUME Init PROVE PromiseInv
      OBVIOUS
    <2>1. pc = "idle" /\ call = NoCall /\ items = Blank(kind) /\ other = EmptyOf(kind)
      BY DEF Init
    <2>2. Ordered
      BY <2>1 DEF Ordered, Blank, EmptyOf, InOrder
    <2> QED BY <2>1, <2>2 DEF PromiseInv, Calling, Owed, Begun
  <1>3. Init => Promise!Init
    <2> SUFFICES ASSUME Init PROVE Promise!Init
      OBVIOUS
    <2>1. /\ pc = "idle" /\ call = NoCall /\ items = Blank(kind) /\ other = EmptyOf(kind) /\ kind \in Kinds
          /\ head = <<>> /\ rest = <<>>
      BY DEF Init
    <2>2. Now = EmptyOf(kind)
      <3>1. CASE kind = "list"
        <4>1. items = EmptyList /\ Now = Elements(items)
          BY <2>1, <3>1 DEF Blank, Now, Contents
        <4> QED BY <3>1, <4>1, EmptyLinked, ElementsIs DEF EmptyOf
      <3>2. CASE kind # "list"
        BY <2>1, <3>2 DEF Blank, Now, Contents
      <3> QED BY <3>1, <3>2
    <2>3. Pending = <<>>
      BY <2>1 DEF Pending
    <2> QED BY <2>1, <2>2, <2>3, PromiseContents DEF Promise!Init, Promise!Kinds, Kinds
  <1>4. RoomInv /\ LinkInv /\ PromiseInv /\ [Next]_vars => PromiseInv' /\ [Promise!Next]_(Promise!cvars)
    BY PromiseKept DEF AllInv, PromiseStep
  <1> QED BY RoomStarts, RoomKept, <1>1, LinkKept, <1>2, <1>3, <1>4, PTL DEF Spec, ImplementsCollection, Promise!Spec

=============================================================================
