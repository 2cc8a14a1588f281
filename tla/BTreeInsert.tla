------------------------------ MODULE BTreeInsert ------------------------------
(***************************************************************************)
(* rustyfill::alloc::btrees: try_insert and try_extend on the standard      *)
(* library's B-tree, by direct surgery on its nodes.  An insert into a full *)
(* leaf probes the cascade of splits, reserves every node the cascade needs *)
(* and commits.  The map is borrowed mutably by one caller; every           *)
(* allocation may fail.                                                     *)
(***************************************************************************)
EXTENDS Integers, FiniteSets, Sequences, SequencesExt

CONSTANTS
  B,              \* the standard library's branching factor, 6
  Nodes,          \* addresses of nodes
  Null,           \* no node
  MinCap,         \* smallest capacity of a non-empty Vec, 4
  Starts          \* bound: the maps, and what the client extends each of them by

ASSUME BAssumption == B \in Nat \ {0, 1}
ASSUME NullAssumption == Null \notin Nodes

CAPACITY == 2 * B - 1

(***************************************************************************)
(* The standard library's tree: what it promises of the nodes of a map.     *)
(***************************************************************************)
NodeRecord ==
  [kvs : Seq(Nat \X {"old", "new"}), edges : Seq(Nodes),
   parent : Nodes \union {Null}, parent_idx : Nat]

\* The nodes at depth d below the root.
Depth(nodes, top, h, d) ==
  LET at[n \in 0 .. h] ==
        IF n = 0 THEN {top} ELSE UNION {ToSet(nodes[a].edges) : a \in at[n - 1]}
  IN at[d]

\* All are nodes of one tree: none is over-full, nor less than half full but the
\* root; all leaves are at one depth; parent links agree with the edges.
IsTree(nodes, top, h, all) ==
  /\ all = UNION {Depth(nodes, top, h, d) : d \in 0 .. h}
  /\ nodes[top].parent = Null
  /\ \A d \in 0 .. h : \A a \in Depth(nodes, top, h, d) :
       /\ Len(nodes[a].kvs) <= CAPACITY /\ (a # top => Len(nodes[a].kvs) >= B - 1)
       /\ Len(nodes[a].edges) = IF d = h THEN 0 ELSE Len(nodes[a].kvs) + 1
       /\ \A i \in 1 .. Len(nodes[a].edges) :
            LET c == nodes[a].edges[i] IN nodes[c].parent = a /\ nodes[c].parent_idx = i - 1

\* Of keys, those between the entries on both sides of edge i.
Slot(kvs, keys, i) == {k \in keys : (i > 1 => kvs[i - 1][1] < k) /\ (i <= Len(kvs) => k < kvs[i][1])}
Increasing(s) == \A i, j \in DOMAIN s : i < j => s[i][1] < s[j][1]

\* Entries are in order, each between those above it: a descent finds every key.
IsOrdered(nodes, top, h) ==
  LET span[d \in 0 .. h] == [a \in DOMAIN nodes |->
        IF d = 0 THEN Nat
        ELSE LET up == nodes[a].parent
             IN Slot(nodes[up].kvs, span[d - 1][up], nodes[a].parent_idx + 1)]
  IN \A d \in 0 .. h : \A a \in Depth(nodes, top, h, d) :
       Increasing(nodes[a].kvs) /\ \A i \in DOMAIN nodes[a].kvs : nodes[a].kvs[i][1] \in span[d][a]

Graph(map) == {<<k, map[k]>> : k \in DOMAIN map}

\* A client starts with a map of the standard library's, with this content.
ASSUME StartsAssumption ==
  \A s \in Starts :
    /\ s.height \in Nat /\ s.max_items \in Nat /\ s.max_key \in Nat
    /\ DOMAIN s.node \subseteq Nodes /\ s.node \in [DOMAIN s.node -> NodeRecord]
    /\ IF s.root = Null THEN DOMAIN s.node = {}
       ELSE s.root \in Nodes /\ IsTree(s.node, s.root, s.height, DOMAIN s.node)
                             /\ IsOrdered(s.node, s.root, s.height)
    /\ IsFiniteSet(DOMAIN s.content)
    /\ Graph(s.content) = UNION {ToSet(s.node[a].kvs) : a \in DOMAIN s.node}

VARIABLES
  node,           \* node[a]: each allocated node; a leaf has no edges
  root, height, length,
  phase,          \* where the insert of an item is
  remaining,      \* the items still to insert; when idle, the Resumable's
  item, leaf, edge_idx,      \* the item, and the leaf edge it belongs at
  plan,           \* CommitPlan
  leaf_right,     \* PendingLeaf
  reserve,        \* CachedReserveBuffer: the nodes in it, and its capacity
  level,          \* commit_split: position in plan.internals
  current_kv, current_right, \* commit_split: the promotion carried upward
  probe_buf, reserve_buf,    \* PROBE_BUF, RESERVED_BUF: the capacity cached
  content, given, handle,    \* history: the map, the source, the entry returned
  start           \* bound: what the client may still ask for

tree == <<node, root, height, length>>
arg == <<item, leaf, edge_idx>>
insert == <<arg, plan, leaf_right, reserve, level, current_kv, current_right>>
history == <<content, given, handle, start>>
treeVars == <<tree, phase, remaining, insert, probe_buf, reserve_buf, history>>

NoHandle == [node |-> Null, idx |-> 0, kv |-> <<>>]
NoPlan == [leaf_sp |-> 0, right |-> FALSE, idx |-> 0, internals |-> <<>>, new_root |-> FALSE, cap |-> 0]
NoReserve == [nodes |-> <<>>, cap |-> 0]
FreshNode == [kvs |-> <<>>, edges |-> <<>>, parent |-> Null, parent_idx |-> 0]

LenOf(a) == Len(node[a].kvs)
HasRoom(a) == LenOf(a) < CAPACITY
Free == Nodes \ DOMAIN node

TreeInit ==
  \E s \in Starts :
    /\ node = s.node /\ root = s.root /\ height = s.height
    /\ length = Cardinality(DOMAIN s.content) /\ content = s.content
    /\ start = [calls |-> s.calls, max_key |-> s.max_key, max_items |-> s.max_items]
    /\ phase = "idle" /\ remaining = <<>>
    /\ item = <<>> /\ leaf = Null /\ edge_idx = 0 /\ plan = NoPlan
    /\ leaf_right = Null /\ reserve = NoReserve /\ level = 1
    /\ current_kv = <<>> /\ current_right = Null
    /\ probe_buf = 0 /\ reserve_buf = 0 /\ given = <<>> /\ handle = NoHandle

(***************************************************************************)
(* Node surgery (entry/helpers.rs).  Indices count from 0, as in the code.  *)
(***************************************************************************)
\* splitpoint: which entry of a full node goes up, and in which half, and where,
\* the new one lands.
SplitPoint(e) ==
  IF e < B - 1 THEN [sp |-> B - 2, right |-> FALSE, idx |-> e]
  ELSE IF e = B - 1 THEN [sp |-> B - 1, right |-> FALSE, idx |-> e]
  ELSE IF e = B THEN [sp |-> B - 1, right |-> TRUE, idx |-> 0]
  ELSE [sp |-> B, right |-> TRUE, idx |-> e - (B + 1)]

\* Node a holds these entries and edges from now on.
Refilled(nodes, a, kvs, edges) == [nodes EXCEPT ![a] = [@ EXCEPT !.kvs = kvs, !.edges = edges]]

\* leaf_slice_insert and internal_insert_fit, on a table of nodes.
LeafInsert(nodes, a, i, kv) == Refilled(nodes, a, InsertAt(nodes[a].kvs, i + 1, kv), nodes[a].edges)
InternalInsert(nodes, a, i, kv, child) ==
  Refilled(nodes, a, InsertAt(nodes[a].kvs, i + 1, kv), InsertAt(nodes[a].edges, i + 2, child))

\* copy_right_half_leaf, copy_right_half_internal: a leaf has no edges to move.
MoveRightHalf(nodes, a, right, sp) ==
  LET kvs == nodes[a].kvs
      edges == nodes[a].edges
      left == Refilled(nodes, a, SubSeq(kvs, 1, sp), IF edges = <<>> THEN <<>> ELSE SubSeq(edges, 1, sp + 1))
  IN Refilled(left, right, SubSeq(kvs, sp + 2, Len(kvs)), SubSeq(edges, sp + 2, Len(edges)))

\* correct_parent_links: the children at edges from .. to point back at a.
Relinked(nodes, a, from, to) ==
  LET at(c) == {i \in from .. to : nodes[a].edges[i + 1] = c} IN
  [c \in DOMAIN nodes |->
     IF at(c) = {} THEN nodes[c]
     ELSE [nodes[c] EXCEPT !.parent = a, !.parent_idx = CHOOSE i \in at(c) : TRUE]]

(***************************************************************************)
(* The standard library's entry(): descend to the key, or to its leaf edge. *)
(***************************************************************************)
Below(a, k) == Cardinality({i \in 1 .. LenOf(a) : node[a].kvs[i][1] < k})
Hit(a, k) == Below(a, k) < LenOf(a) /\ node[a].kvs[Below(a, k) + 1][1] = k
Search(k) ==
  LET down[h \in 0 .. height] ==
        IF h = height THEN root
        ELSE LET a == down[h + 1] IN IF Hit(a, k) THEN a ELSE node[a].edges[Below(a, k) + 1]
  IN down[0]

(***************************************************************************)
(* try_extend: the Resumable's head first, then the iterator.  A single     *)
(* insert is a source of one item.                                          *)
(***************************************************************************)
Extend(source) ==
  /\ phase = "idle" /\ start.calls > 0
  /\ phase' = "next"
  /\ remaining' = source /\ given' = source
  /\ start' = [start EXCEPT !.calls = @ - 1]
  /\ handle' = NoHandle
  /\ UNCHANGED <<tree, insert, probe_buf, reserve_buf, content>>

\* The caller passes the Resumable of the error back in.
Resume ==
  /\ phase = "idle" /\ remaining # <<>> /\ start.calls > 0
  /\ phase' = "next"
  /\ start' = [start EXCEPT !.calls = @ - 1]
  /\ handle' = NoHandle
  /\ UNCHANGED <<tree, remaining, insert, probe_buf, reserve_buf, content, given>>

ExtendReturns ==
  /\ phase = "next" /\ remaining = <<>>
  /\ phase' = "idle"
  /\ UNCHANGED <<tree, remaining, insert, probe_buf, reserve_buf, history>>

\* The entry a map holds for kv's key is kv from now on.
Recorded(kv) ==
  content' = [k \in DOMAIN content \union {kv[1]} |-> IF k = kv[1] THEN kv[2] ELSE content[k]]

\* Entry::Occupied: the value is replaced in place.
Occupied ==
  /\ phase = "next" /\ remaining # <<>> /\ root # Null
  /\ LET kv == Head(remaining)
         a == Search(kv[1])
     IN /\ Hit(a, kv[1])
        /\ node' = [node EXCEPT ![a].kvs[Below(a, kv[1]) + 1] = kv]
        /\ Recorded(kv)
  /\ remaining' = Tail(remaining)
  /\ UNCHANGED <<root, height, length, phase, insert, probe_buf, reserve_buf, given, handle, start>>

\* Entry::Vacant.
Vacant ==
  /\ phase = "next" /\ remaining # <<>>
  /\ item' = Head(remaining)
  /\ remaining' = Tail(remaining)
  /\ \/ /\ root = Null
        /\ phase' = "empty"
        /\ UNCHANGED <<leaf, edge_idx>>
     \/ /\ root # Null
        /\ LET k == Head(remaining)[1] IN
             /\ ~Hit(Search(k), k)
             /\ leaf' = Search(k)
             /\ edge_idx' = Below(Search(k), k)
             /\ phase' = IF HasRoom(Search(k)) THEN "fits" ELSE "probe"
  /\ UNCHANGED <<tree, plan, leaf_right, reserve, level, current_kv, current_right,
                 probe_buf, reserve_buf, history>>

\* Inserted: the entry returned is at idx of leaf a.  Failed: the item is handed
\* back as the Resumable's head.  The mutant hands back the remainder alone.
Consumed == item' = <<>> /\ leaf' = Null /\ edge_idx' = 0
Inserted(a, idx) ==
  /\ length' = length + 1
  /\ phase' = "next"
  /\ Recorded(item)
  /\ handle' = [node |-> a, idx |-> idx, kv |-> item]
  /\ Consumed
  /\ UNCHANGED <<remaining, given, start>>
FailedDropsHead ==
  /\ phase' = "idle"
  /\ Consumed
  /\ UNCHANGED <<remaining, root, height, length, history>>
Failed ==
  /\ phase' = "idle"
  /\ remaining' = <<item>> \o remaining
  /\ Consumed
  /\ UNCHANGED <<root, height, length, history>>

(***************************************************************************)
(* try_insert_empty_map, and the leaf that has room.                        *)
(***************************************************************************)
InsertEmpty ==
  /\ phase = "empty"
  /\ \/ \E a \in Free :
          /\ a = CHOOSE x \in Free : TRUE
          /\ node' = [x \in {a} |-> [FreshNode EXCEPT !.kvs = <<item>>]]
          /\ root' = a /\ height' = 0
          /\ Inserted(a, 0)
     \/ Failed /\ UNCHANGED node
  /\ UNCHANGED <<plan, leaf_right, reserve, level, current_kv, current_right,
                 probe_buf, reserve_buf>>

InsertFits ==
  /\ phase = "fits"
  /\ node' = LeafInsert(node, leaf, edge_idx, item)
  /\ Inserted(leaf, edge_idx)
  /\ UNCHANGED <<root, height, plan, leaf_right, reserve, level, current_kv, current_right,
                 probe_buf, reserve_buf>>

(***************************************************************************)
(* Probe: CommitPlan::build walks up to the first ancestor with room.       *)
(***************************************************************************)
Larger(a, b) == IF a >= b THEN a ELSE b

Path ==
  LET up[h \in 0 .. height] ==
        IF h = 0 THEN <<>>
        ELSE LET below == up[h - 1]
                 child == IF below = <<>> THEN leaf ELSE Last(below).ptr
                 a == node[child].parent
             IN IF a = Null \/ (below # <<>> /\ ~Last(below).will_split) THEN below
                ELSE Append(below, [ptr |-> a, child_idx |-> node[child].parent_idx,
                                    will_split |-> ~HasRoom(a)])
  IN up[height]

\* try_new of both buffers: the cached one if it is large enough, else a fresh
\* one (whose allocation may fail).  The thread-local is empty meanwhile.
Capacity(cached, need) ==
  IF cached >= need THEN cached ELSE Larger(need, MinCap)

Probe ==
  /\ phase = "probe"
  /\ probe_buf' = 0
  /\ \/ /\ phase' = "leaf"
        /\ plan' = [leaf_sp |-> SplitPoint(edge_idx).sp,
                    right |-> SplitPoint(edge_idx).right,
                    idx |-> SplitPoint(edge_idx).idx,
                    internals |-> Path,
                    new_root |-> \A i \in 1 .. Len(Path) : Path[i].will_split,
                    cap |-> Capacity(probe_buf, Len(Path))]
        /\ UNCHANGED <<remaining, arg, root, height, length, history>>
     \/ probe_buf < Len(Path) /\ Failed /\ UNCHANGED plan
  /\ UNCHANGED <<node, leaf_right, reserve, level, current_kv,
                 current_right, reserve_buf>>

(***************************************************************************)
(* Reserve.                                                                *)
(***************************************************************************)
NumSplits == Cardinality({i \in 1 .. Len(plan.internals) : plan.internals[i].will_split})
\* The mutant is NumSplits alone: no node for a new root.
NumReserved == NumSplits + (IF plan.new_root THEN 1 ELSE 0)

Allocated(a) ==
  /\ a = CHOOSE x \in Free : TRUE
  /\ node' = [x \in DOMAIN node \union {a} |-> IF x = a THEN FreshNode ELSE node[x]]
Released(S) == node' = [x \in DOMAIN node \ S |-> node[x]]

\* try_new_leaf_box.  Dropping the plan returns its buffer to the thread.
ReserveLeaf ==
  /\ phase = "leaf"
  /\ \/ \E a \in Free :
          /\ Allocated(a)
          /\ leaf_right' = a
          /\ phase' = "buffer"
          /\ UNCHANGED <<remaining, arg, root, height, length, plan, probe_buf, history>>
     \/ /\ Failed
        /\ plan' = NoPlan /\ probe_buf' = plan.cap
        /\ UNCHANGED <<node, leaf_right>>
  /\ UNCHANGED <<reserve, level, current_kv, current_right, reserve_buf>>

\* Everything reserved is freed, the buffers go back to the thread.  The mutant
\* leaks the leaf.
RollbackNodes ==
  /\ Released(ToSet(reserve.nodes))
  /\ Failed
  /\ plan' = NoPlan /\ probe_buf' = plan.cap
  /\ leaf_right' = Null /\ reserve' = NoReserve
Rollback ==
  /\ Released({leaf_right} \union ToSet(reserve.nodes))
  /\ Failed
  /\ plan' = NoPlan /\ probe_buf' = plan.cap
  /\ leaf_right' = Null /\ reserve' = NoReserve

ReserveBuffer ==
  /\ phase = "buffer"
  /\ reserve_buf' = 0
  /\ \/ /\ reserve' = [nodes |-> <<>>, cap |-> Capacity(reserve_buf, NumReserved)]
        /\ phase' = "internals"
        /\ UNCHANGED <<tree, remaining, arg, plan, leaf_right, probe_buf, history>>
     \/ reserve_buf < NumReserved /\ Rollback
  /\ UNCHANGED <<level, current_kv, current_right>>

ReserveInternal ==
  /\ phase = "internals" /\ Len(reserve.nodes) < NumReserved
  /\ \/ \E a \in Free :
          /\ Allocated(a)
          /\ reserve' = [reserve EXCEPT !.nodes = Append(@, a)]
          /\ UNCHANGED <<remaining, arg, phase, root, height, length, plan, leaf_right, probe_buf,
                         reserve_buf, history>>
     \/ Rollback /\ reserve_buf' = reserve.cap
  /\ UNCHANGED <<level, current_kv, current_right>>

\* drain_to_pointers collects the pointers in a Vec::with_capacity, which aborts
\* the process when its allocation fails.
Drain ==
  /\ phase = "internals" /\ Len(reserve.nodes) = NumReserved
  /\ phase' \in {"commit"} \union (IF NumReserved > 0 THEN {"aborted"} ELSE {})
  /\ level' = 1
  /\ UNCHANGED <<tree, remaining, arg, plan, leaf_right, reserve, current_kv,
                 current_right, probe_buf, reserve_buf, history>>

(***************************************************************************)
(* Commit: commit_split.                                                    *)
(***************************************************************************)
Promotion == plan.internals[level]
ReservedNode == Head(reserve.nodes)

\* The mutant reads the entry to promote after the right half has moved.
CommitLeafLate ==
  /\ phase = "commit"
  /\ LET moved == MoveRightHalf(node, leaf, leaf_right, plan.leaf_sp)
         placed == LeafInsert(moved, IF plan.right THEN leaf_right ELSE leaf, plan.idx, item)
     IN node' = placed /\ current_kv' = Last(placed[leaf].kvs)
  /\ current_right' = leaf_right
  /\ phase' = "promote"
  /\ UNCHANGED <<root, height, length, remaining, arg, plan, leaf_right, reserve,
                 level, probe_buf, reserve_buf, history>>
CommitLeaf ==
  /\ phase = "commit"
  /\ LET moved == MoveRightHalf(node, leaf, leaf_right, plan.leaf_sp)
         placed == LeafInsert(moved, IF plan.right THEN leaf_right ELSE leaf, plan.idx, item)
     IN node' = placed /\ current_kv' = node[leaf].kvs[plan.leaf_sp + 1]
  /\ current_right' = leaf_right
  /\ phase' = "promote"
  /\ UNCHANGED <<root, height, length, remaining, arg, plan, leaf_right, reserve,
                 level, probe_buf, reserve_buf, history>>

\* finish_commit; the plan and the emptied reserve buffer are dropped.
Finished ==
  /\ Inserted(IF plan.right THEN leaf_right ELSE leaf, plan.idx)
  /\ probe_buf' = plan.cap /\ reserve_buf' = reserve.cap
  /\ plan' = NoPlan /\ reserve' = NoReserve /\ leaf_right' = Null
  /\ current_kv' = <<>> /\ current_right' = Null
  /\ level' = 1

\* The parent has room.
Absorb ==
  /\ phase = "promote" /\ level <= Len(plan.internals) /\ ~Promotion.will_split
  /\ LET a == Promotion.ptr
         filled == InternalInsert(node, a, Promotion.child_idx, current_kv, current_right)
     IN node' = Relinked(filled, a, Promotion.child_idx + 1, LenOf(a) + 1)
  /\ Finished
  /\ UNCHANGED <<root, height>>

\* The parent is full: it splits too, into the next reserved node.
SplitInternal ==
  /\ phase = "promote" /\ level <= Len(plan.internals) /\ Promotion.will_split
  /\ LET a == Promotion.ptr
         right == ReservedNode
         point == SplitPoint(Promotion.child_idx)
         half == IF point.right THEN right ELSE a
         moved == MoveRightHalf(node, a, right, point.sp)
         linked == Relinked(moved, right, 0, Len(moved[right].kvs))
         filled == InternalInsert(linked, half, point.idx, current_kv, current_right)
     IN /\ node' = Relinked(filled, half, point.idx + 1, Len(filled[half].kvs))
        /\ current_kv' = node[a].kvs[point.sp + 1]
        /\ current_right' = right
  /\ reserve' = [reserve EXCEPT !.nodes = Tail(@)]
  /\ level' = level + 1
  /\ UNCHANGED <<root, height, length, phase, remaining, arg, plan, leaf_right,
                 probe_buf, reserve_buf, history>>

GrowRoot ==
  /\ phase = "promote" /\ level > Len(plan.internals)
  /\ LET top == [kvs |-> <<current_kv>>, edges |-> <<root, current_right>>,
                 parent |-> Null, parent_idx |-> 0]
     IN node' = Relinked([node EXCEPT ![ReservedNode] = top], ReservedNode, 0, 1)
  /\ root' = ReservedNode /\ height' = height + 1
  /\ Finished

Sources ==
  UNION {[1 .. n -> {<<k, "new">> : k \in 1 .. start.max_key}] : n \in 1 .. start.max_items}

TreeNext ==
  \/ \E source \in Sources : Extend(source)
  \/ Resume \/ ExtendReturns \/ Occupied \/ Vacant
  \/ InsertEmpty \/ InsertFits
  \/ Probe \/ ReserveLeaf \/ ReserveBuffer \/ ReserveInternal \/ Drain
  \/ CommitLeaf \/ Absorb \/ SplitInternal \/ GrowRoot

TreeSpec == TreeInit /\ [][TreeNext]_treeVars

(***************************************************************************)
(* Properties.                                                             *)
(***************************************************************************)
BTreeTypeOK ==
  /\ DOMAIN node \subseteq Nodes
  /\ \A a \in DOMAIN node :
       /\ Len(node[a].kvs) <= CAPACITY /\ ToSet(node[a].edges) \subseteq DOMAIN node
       /\ node[a].parent \in DOMAIN node \union {Null} /\ node[a].parent_idx \in 0 .. CAPACITY
  /\ root \in DOMAIN node \union {Null} /\ height \in Nat /\ length \in Nat
  /\ phase \in {"idle", "next", "empty", "fits", "probe", "leaf", "buffer", "internals",
            "commit", "promote", "aborted"}
  /\ leaf \in DOMAIN node \union {Null} /\ edge_idx \in 0 .. CAPACITY
  /\ ToSet(reserve.nodes) \subseteq DOMAIN node
  /\ probe_buf \in Nat /\ reserve_buf \in Nat

\* What is below a node of height h, in the order the map is read in.
Entries ==
  LET flat[h \in 0 .. height] == [a \in DOMAIN node |->
        IF h = 0 THEN node[a].kvs
        ELSE LET join[i \in 0 .. LenOf(a)] ==
                   IF i = 0 THEN flat[h - 1][node[a].edges[1]]
                   ELSE Append(join[i - 1], node[a].kvs[i]) \o flat[h - 1][node[a].edges[i + 1]]
             IN join[LenOf(a)]]
  IN IF root = Null THEN <<>> ELSE flat[height][root]

Committing == phase = "promote"

\* Read in key order, the nodes hold exactly the entries inserted so far, each
\* under its latest value, and the entry an insert returned is where the insert
\* says it is.  Holds up to the commit, after a failed reservation "it remains
\* completely intact" (entry.rs:44-46), and again after it.
TreeIsMap ==
  ~Committing =>
    /\ Increasing(Entries) /\ ToSet(Entries) = Graph(content)
    /\ length = Len(Entries)
    /\ handle # NoHandle /\ phase = "idle" =>
         node[handle.node].kvs[handle.idx + 1] = <<handle.kv[1], content[handle.kv[1]]>>

\* Every allocated node is in the tree once or held by the insert, so a failed
\* insert frees what it reserved (entry.rs:993-1000, scratch.rs:249-262); outside
\* the commit nodes are at least half full, all leaves are at one depth, and
\* parent links, which the next probe climbs, agree with the edges.
NodesInPlace ==
  LET held == {leaf_right, current_right} \union ToSet(reserve.nodes)
      children == UNION {ToSet(node[a].edges) : a \in DOMAIN node}
  IN /\ DOMAIN node = ({root} \union children \union held) \ {Null}
     /\ ~Committing /\ root # Null => IsTree(node, root, height, DOMAIN node \ held)

\* The commit uses up the reserved nodes exactly: it never runs out ("an internal
\* node was reserved per split", entry.rs:1314-1316, 1405-1407) nor drops one.
ReservedExactly ==
  Committing =>
    Len(reserve.nodes) =
      Cardinality({i \in level .. Len(plan.internals) : plan.internals[i].will_split})
      + (IF plan.new_root THEN 1 ELSE 0)

\* try_extend consumes a prefix of its source; on failure the Resumable holds the
\* rest, the stranded item first (entry_try_extend.rs:57-64).
ItemsKept ==
  phase = "idle" =>
    \E n \in 0 .. Len(given) :
      /\ remaining = SubSeq(given, n + 1, Len(given))
      /\ \A j \in 1 .. n : given[j][1] \in DOMAIN content
      /\ \A j \in 1 .. n : (\A l \in j + 1 .. n : given[l][1] # given[j][1]) =>
                            content[given[j][1]] = given[j][2]

\* "Phase 3: commit (infallible - no allocations remain)" (entry.rs:1003).
CommitInfallible == phase # "aborted"
=================================================================================
