----------------------------- MODULE MCBTreeInsert -----------------------------
(***************************************************************************)
(* Starting maps of BTreeInsert: the empty map, an emptied one, and trees    *)
(* of the standard library whose levels are thin or full, with keys 2, 4, .. *)
(* so that an odd key goes into any gap.                                    *)
(***************************************************************************)
EXTENDS BTreeInsert

\* The tree whose nodes have lens[d] entries at depth d - 1, numbered by level.
TreeOf(lens) ==
  LET h == Len(lens)
      width[d \in 1 .. h] == IF d = 1 THEN 1 ELSE width[d - 1] * (lens[d - 1] + 1)
      first[d \in 1 .. h + 1] == IF d = 1 THEN 1 ELSE first[d - 1] + width[d - 1]
      size[d \in 1 .. h + 1] == IF d = h + 1 THEN 0 ELSE lens[d] + (lens[d] + 1) * size[d + 1]
      depth(a) == CHOOSE d \in 1 .. h : first[d] <= a /\ a < first[d + 1]
      place(a) == a - first[depth(a)]
      up(a) == IF depth(a) = 1 THEN Null
               ELSE first[depth(a) - 1] + place(a) \div (lens[depth(a) - 1] + 1)
      nth(a) == IF depth(a) = 1 THEN 0 ELSE place(a) % (lens[depth(a) - 1] + 1)
      before[a \in 1 .. first[h + 1] - 1] ==
        IF a = 1 THEN 0 ELSE before[up(a)] + nth(a) * (size[depth(a)] + 1)
  IN [n |-> size[1], height |-> h - 1, root |-> 1,
      node |-> [a \in 1 .. first[h + 1] - 1 |->
        [kvs |-> [i \in 1 .. lens[depth(a)] |->
                    <<2 * (before[a] + i * (size[depth(a) + 1] + 1)), "old">>],
         edges |-> IF depth(a) = h THEN <<>>
                   ELSE [i \in 1 .. lens[depth(a)] + 1 |->
                           first[depth(a) + 1] + place(a) * (lens[depth(a)] + 1) + i - 1],
         parent |-> up(a), parent_idx |-> nth(a)]]]

StartOf(lens, calls, max_items) ==
  LET t == TreeOf(lens) IN
  [node |-> t.node, root |-> t.root, height |-> t.height, calls |-> calls,
   content |-> [k \in {2 * i : i \in 1 .. t.n} |-> "old"],
   max_key |-> 2 * t.n + 1, max_items |-> max_items]

EmptyStart(calls) ==
  [node |-> <<>>, root |-> Null, height |-> 0, content |-> <<>>, calls |-> calls,
   max_key |-> calls, max_items |-> 1]

MCStarts ==
  {EmptyStart(6), StartOf(<<0>>, 2, 1), StartOf(<<3>>, 2, 2)}
  \union {StartOf(lens, 2, 1) : lens \in {<<1, 3>>, <<3, 3>>}}
  \union {StartOf(<<r, i, 3>>, 1, 1) : r \in {1, 3}, i \in {1, 3}}
=================================================================================
