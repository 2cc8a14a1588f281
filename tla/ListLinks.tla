------------------------------ MODULE ListLinks ------------------------------
(***************************************************************************)
(* The doubly linked nodes of a LinkedList, and the pointer surgery by      *)
(* which rustyfill/src/alloc/linked_list splices a node it has allocated    *)
(* itself into the standard library's list.                                 *)
(***************************************************************************)
EXTENDS Naturals, Sequences

CONSTANTS Addrs, Nil   \* node addresses, and the None of an Option<NonNull<Node>>

NoNodes == [a \in {} |-> Nil]
EmptyList == [head |-> Nil, tail |-> Nil, len |-> 0, nodes |-> NoNodes]

ASSUME NilAssumption == Nil \notin Addrs

\* try_alloc_node: any address not in use.
Unused(l) == Addrs \ DOMAIN l.nodes
Fresh(l) == CHOOSE a \in Unused(l) : TRUE
With(nodes, a, node) == [x \in DOMAIN nodes \union {a} |-> IF x = a THEN node ELSE nodes[x]]

\* The Some(mut head) / Some(mut tail) arm: one field of an existing node.
SetPrev(nodes, a, p) == IF a = Nil THEN nodes ELSE [nodes EXCEPT ![a].prev = p]
SetNext(nodes, a, n) == IF a = Nil THEN nodes ELSE [nodes EXCEPT ![a].next = n]

PushFront(l, a, e) ==
  [head |-> a,
   tail |-> IF l.head = Nil THEN a ELSE l.tail,
   len |-> l.len + 1,
   nodes |-> With(SetPrev(l.nodes, l.head, a), a, [next |-> l.head, prev |-> Nil, elem |-> e])]

\* Mutant of PushBack: the None arm of an empty list sets no head.
PushBackHeadless(l, a, e) ==
  [head |-> l.head, tail |-> a, len |-> l.len + 1,
   nodes |-> With(SetNext(l.nodes, l.tail, a), a, [next |-> Nil, prev |-> l.tail, elem |-> e])]

PushBack(l, a, e) ==
  [head |-> IF l.tail = Nil THEN a ELSE l.head,
   tail |-> a,
   len |-> l.len + 1,
   nodes |-> With(SetNext(l.nodes, l.tail, a), a, [next |-> Nil, prev |-> l.tail, elem |-> e])]

\* LinkedList::pop_back of the standard library.
PopBack(l) ==
  LET last == l.nodes[l.tail]
      rest == [a \in DOMAIN l.nodes \ {l.tail} |-> l.nodes[a]]
  IN [head |-> IF last.prev = Nil THEN Nil ELSE l.head,
      tail |-> last.prev,
      len |-> l.len - 1,
      nodes |-> SetNext(rest, last.prev, Nil)]

\* TruncateGuard::drop.
TruncateTo(l, n) ==
  LET from[k \in 0..l.len] == IF k = 0 THEN l ELSE PopBack(from[k - 1])
  IN from[l.len - n]

\* The addresses met from the head by following next, and from the tail by
\* following prev; Nil past a node that is not there.
Forward(l) ==
  LET at[i \in 1..l.len] ==
        IF i = 1 THEN l.head
        ELSE IF at[i - 1] \in DOMAIN l.nodes THEN l.nodes[at[i - 1]].next ELSE Nil
  IN at
Backward(l) ==
  LET at[i \in 1..l.len] ==
        IF i = 1 THEN l.tail
        ELSE IF at[i - 1] \in DOMAIN l.nodes THEN l.nodes[at[i - 1]].prev ELSE Nil
  IN at

Elements(l) == [i \in 1..l.len |-> l.nodes[Forward(l)[i]].elem]
===============================================================================
