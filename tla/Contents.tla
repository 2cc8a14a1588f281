------------------------------ MODULE Contents ------------------------------
(***************************************************************************)
(* What a std collection holds, as far as its fallible extensions can tell: *)
(* a sequence (Vec, VecDeque, LinkedList), a bag kept as a sorted sequence  *)
(* (BinaryHeap), or a map from keys to the last item inserted (HashMap, and *)
(* HashSet as the map that never overwrites).                               *)
(***************************************************************************)
EXTENDS Naturals, FiniteSets, SequencesExt

CONSTANTS Elems, KeyOf(_)    \* items a heap can order, and the key of each

ASSUME ElemsAssumption == Elems \subseteq Nat

Kinds == {"vec", "deque", "list", "heap", "map"}

EmptyOf(k) == IF k = "map" THEN [x \in {} |-> 0] ELSE << >>

Size(k, c) == IF k = "map" THEN Cardinality(DOMAIN c) ELSE Len(c)

\* insert(at, e): at counts from 0.
PutAt(c, at, e) == SubSeq(c, 1, at) \o <<e>> \o SubSeq(c, at + 1, Len(c))

\* push, push_back or insert(k, v).
Put(k, c, e) ==
  CASE k = "map"  -> [x \in DOMAIN c \union {KeyOf(e)} |-> IF x = KeyOf(e) THEN e ELSE c[x]]
    [] k = "heap" -> PutAt(c, Cardinality({i \in 1..Len(c) : c[i] <= e}), e)
    [] OTHER      -> Append(c, e)

PutAll(k, c, xs) ==
  LET put[n \in 0..Len(xs)] == IF n = 0 THEN c ELSE Put(k, put[n - 1], xs[n])
  IN put[Len(xs)]

\* The items an extension appends, when it has them all from the start.
Wanted(c, r) ==
  CASE r.op = "within" -> SubSeq(c, r.at + 1, r.to)
    [] r.op \in {"resize", "resize_with"} ->
         [i \in 1..(IF r.to > Len(c) THEN r.to - Len(c) ELSE 0) |-> r.xs[1]]
    [] OTHER -> r.xs

\* What a call that succeeds makes of contents c.
Outcome(k, c, r) ==
  CASE r.op = "push_front" -> r.xs \o c
    [] r.op = "insert" -> PutAt(c, r.at, r.xs[1])
    [] r.op \in {"resize", "resize_with"} /\ r.to <= Len(c) -> SubSeq(c, 1, r.to)
    [] OTHER -> PutAll(k, c, Wanted(c, r))

OutOfBounds(c, r) ==
  \/ r.op = "insert" /\ r.at > Len(c)
  \/ r.op = "within" /\ r.at < r.to /\ r.to > Len(c)
===============================================================================
