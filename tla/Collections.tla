----------------------------- MODULE Collections -----------------------------
(***************************************************************************)
(* The fallible extensions of Vec, VecDeque, LinkedList, BinaryHeap and     *)
(* HashMap, step by step: rustyfill/src/alloc/{vec,vecdeque,linked_list,    *)
(* binary_heap}, rustyfill/src/std/hashmap, rustyfill/src/recovery.         *)
(*                                                                         *)
(* Each call is the same pattern: reserve what it needs, the one step that  *)
(* may fail, then use std's infallible operations on the room reserved.     *)
(* What breaks the pattern is modelled: items are cloned or made by a       *)
(* closure between two pushes, and may fail or unwind; an iterator's        *)
(* size_hint may be wrong; a list has no room to reserve; a shrink takes    *)
(* the buffer out of the collection while it works.                         *)
(***************************************************************************)
EXTENDS Contents, ListLinks

CONSTANTS
  NoCall,
  MaxLen,      \* bound on the collection's length when a call begins
  MaxCap,      \* bound on capacities: past it, "capacity overflow"
  MaxGiven     \* bound on the items one call brings

ASSUME BoundsAssumption == MaxLen \in Nat /\ MaxCap \in Nat /\ MaxGiven \in Nat

VARIABLES
  kind,      \* which collection this is
  items,     \* its contents; for a list, its nodes
  cap,       \* its capacity: what it can hold before it must allocate
  other,     \* contents of the collection an append drains
  call,      \* the call in progress: its name and arguments
  pc,        \* "idle", or where in the call it is
  done,      \* items of the call added so far
  before,    \* contents when the call began (TruncateGuard: their length)
  head,      \* Resumable::head: an item taken from the source and not added
  rest,      \* the source's iterator, or the slice not yet processed
  aborted    \* an infallible operation had to allocate: the process is gone

vars == <<kind, items, cap, other, call, pc, done, before, head, rest, aborted>>

Contents(k, i) == IF k = "list" THEN Elements(i) ELSE i
Now == Contents(kind, items)
Count == IF kind = "list" THEN items.len ELSE Size(kind, items)
Blank(k) == IF k = "list" THEN EmptyList ELSE EmptyOf(k)

Lists(n) == UNION {[1..m -> Elems] : m \in 0..n}

(***************************************************************************)
(* The calls of each collection.                                           *)
(***************************************************************************)
Bulk == {"rollback", "within", "resize", "resize_with"}    \* under a TruncateGuard
Cloning == {"rollback", "within", "resize", "resize_with", "slice", "from_slice"}
Fresh0 == {"collect", "from_slice"}                        \* build a new collection
Moving == {"collect", "extend"}                            \* check room at every item

Has(k) ==
  {"push_back", "slice", "extend", "collect", "from_slice"} \union
  CASE k = "vec"   -> {"insert", "append", "shrink", "box"} \union Bulk
    [] k = "deque" -> {"push_front", "insert", "append", "shrink"} \union Bulk
    [] k = "list"  -> {"push_front", "rollback"}
    [] k = "heap"  -> {"append"}
    [] k = "map"   -> {"shrink"}

Request(o, xs, at, to) == [op |-> o, xs |-> xs, at |-> at, to |-> to]

Requests(k) ==
  LET one == {<<e>> : e \in Elems}
      named(os) == os \intersect Has(k)
  IN {Request(o, xs, 0, 0) : o \in named({"push_back", "push_front"}), xs \in one}
     \union {Request("insert", xs, at, 0) : xs \in one, at \in {0, 1, MaxLen + 1}}
     \union {Request(o, xs, 0, 0) : o \in named({"rollback", "slice", "extend"} \union Fresh0),
                                    xs \in Lists(MaxGiven)}
     \union {Request("within", << >>, at, to) : at \in 0..MaxLen, to \in 1..MaxLen}
     \union {Request(o, xs, 0, to) : o \in named({"resize", "resize_with"}),
                                     xs \in one, to \in 0..MaxLen}
     \union {Request("append", << >>, 0, 0)}
     \union {Request(o, << >>, 0, to) : o \in named({"shrink"}), to \in 0..MaxCap}
     \union {Request("box", << >>, 0, 0)}

ASSUME NoCallAssumption == \A k \in Kinds : NoCall \notin Requests(k)

TypeOK ==
  /\ kind \in Kinds
  /\ cap \in 0..MaxCap
  /\ call = NoCall \/ call \in Requests(kind)
  /\ pc \in {"idle", "reserve", "head", "hint", "loop", "splice", "shrink",
            "swapped", "absorb"}
  /\ done \in 0..(MaxLen + MaxGiven)
  /\ head \in Lists(1) /\ rest \in Lists(MaxGiven)
  /\ aborted \in BOOLEAN

Init ==
  /\ kind \in Kinds
  /\ items = Blank(kind)
  /\ cap = 0
  /\ other = EmptyOf(kind)
  /\ call = NoCall
  /\ pc = "idle"
  /\ done = 0
  /\ before = EmptyOf(kind)
  /\ head = << >> /\ rest = << >>
  /\ aborted = FALSE

Pending == head \o rest

(***************************************************************************)
(* Beginning a call.                                                       *)
(***************************************************************************)

\* The items left to add come from the source, or were all named by the call.
FromSource == call.op \in {"extend", "slice"}
ToAdd == IF FromSource THEN Len(Pending) ELSE Len(Wanted(before, call)) - done

Truncates == call.op \in {"resize", "resize_with"} /\ call.to <= Len(before)

FirstStep(c) ==
  IF c.op = "extend" THEN "head"
  ELSE IF kind = "list" THEN "loop"
  ELSE IF c.op \in {"shrink", "box"} THEN "shrink"
  ELSE "reserve"

Callable == pc = "idle" /\ ~aborted /\ call = NoCall

Begin(c) ==
  /\ Callable /\ Pending = << >> /\ other = EmptyOf(kind)
  /\ c.op \in Has(kind)
  /\ Count <= MaxLen
  /\ c.op \in Fresh0 => items = Blank(kind) /\ cap = 0
  /\ call' = c
  /\ pc' = FirstStep(c)
  /\ before' = Now
  /\ rest' = IF c.op \in {"slice", "extend"} THEN c.xs ELSE << >>
  /\ other' \in IF c.op = "append"
                THEN {PutAll(kind, EmptyOf(kind), xs) : xs \in Lists(MaxGiven)}
                ELSE {other}
  /\ UNCHANGED <<kind, items, cap, done, head, aborted>>

\* The call again, with the Resumable or the slice the failed one returned.
Retry(o) ==
  /\ Callable /\ Pending # << >>
  /\ o = "slice" => head = << >>
  /\ call' = Request(o, << >>, 0, 0)
  /\ pc' = FirstStep(call')
  /\ before' = Now
  /\ UNCHANGED <<kind, items, cap, other, done, head, rest, aborted>>

Return ==
  /\ call' = NoCall
  /\ pc' = "idle"
  /\ done' = 0
  /\ before' = EmptyOf(kind)

(***************************************************************************)
(* Reserving.                                                              *)
(***************************************************************************)

\* try_reserve(n), when it succeeds: any capacity std's growth may choose.
Reserved(n) ==
  IF Count + n <= cap THEN UNCHANGED cap
  ELSE Count + n <= MaxCap /\ cap' \in (Count + n)..MaxCap

\* try_insert and try_extend_from_within check their indices before anything.
InBounds == ~OutOfBounds(before, call)

\* What a call reserves before it adds anything; a collect trusts its
\* iterator's size_hint.
Needs ==
  CASE call.op \in {"push_back", "push_front", "insert"} -> {1}
    [] call.op = "append"  -> {IF pc = "swapped" THEN Count ELSE Size(kind, other)}
    [] call.op = "collect" -> 0..MaxGiven
    [] OTHER -> {ToAdd}

\* BinaryHeap::try_append first exchanges the two heaps, if that makes the
\* larger one absorb the smaller; it goes on to reserve the larger length.
MustSwap == kind = "heap" /\ call.op = "append" /\ Count < Size(kind, other)

Swap ==
  /\ pc = "reserve" /\ MustSwap
  /\ items' = other /\ other' = items
  /\ cap' = Size(kind, other)
  /\ pc' = "swapped"
  /\ UNCHANGED <<kind, call, done, before, head, rest, aborted>>

Reserve ==
  /\ pc \in {"reserve", "swapped"} /\ InBounds /\ ~Truncates
  /\ pc = "reserve" => ~MustSwap
  /\ \E n \in Needs : Reserved(n)
  /\ pc' = IF pc = "swapped" THEN "absorb"
           ELSE IF call.op = "append" THEN "splice" ELSE "loop"
  /\ UNCHANGED <<kind, items, other, call, done, before, head, rest, aborted>>

Reject ==
  /\ pc = "reserve" /\ ~InBounds
  /\ Return
  /\ UNCHANGED <<kind, items, cap, other, head, rest, aborted>>

ReserveFails ==
  /\ pc \in {"reserve", "swapped"} /\ InBounds /\ ~Truncates
  /\ pc = "reserve" => ~MustSwap
  /\ \E n \in Needs : Count + n > cap
  /\ Return
  /\ UNCHANGED <<kind, items, cap, other, head, rest, aborted>>

\* try_resize to a shorter length.
Truncate ==
  /\ pc = "reserve" /\ Truncates
  /\ items' = SubSeq(items, 1, call.to)
  /\ Return
  /\ UNCHANGED <<kind, cap, other, head, rest, aborted>>

\* try_extend: the size_hint's lower bound, which may promise anything.
Hint ==
  /\ pc = "hint"
  /\ \E lower \in 0..MaxGiven : Reserved(lower)
  /\ pc' = "loop"
  /\ UNCHANGED <<kind, items, other, call, done, before, head, rest, aborted>>

HintFails ==
  /\ pc = "hint"
  /\ \E lower \in 1..MaxGiven : Count + lower > cap
  /\ Return
  /\ UNCHANGED <<kind, items, cap, other, head, rest, aborted>>

(***************************************************************************)
(* Adding the items, with std's infallible operations.                     *)
(***************************************************************************)

More == pc \in {"head", "loop"} /\ ToAdd > 0 /\ (pc = "head" => head # << >>)

Item == IF FromSource THEN Pending[1] ELSE Wanted(before, call)[done + 1]

\* Mutant of Full: the size_hint is trusted.
FullTrusting == FALSE

\* collect and try_extend look at the room left before every item.
Full == call.op \in Moving /\ kind # "list" /\ Count = cap

MakeRoom ==
  /\ More /\ Full
  /\ Reserved(1)
  /\ UNCHANGED <<kind, items, other, call, pc, done, before, head, rest, aborted>>

\* push, push_back, push_front, insert, or a node spliced in.
Placed(e) ==
  IF kind = "list"
  THEN IF call.op = "push_front" THEN PushFront(items, Fresh(items), e)
       ELSE PushBack(items, Fresh(items), e)
  ELSE CASE call.op = "push_front" -> <<e>> \o items
         [] call.op = "insert" -> PutAt(items, call.at, e)
         [] OTHER -> Put(kind, items, e)

\* Infallible, unless it meets a full buffer: then it allocates, and aborts the
\* process if it cannot.  (HashMap::insert wants room even to overwrite.)
Add ==
  /\ More /\ ~Full
  /\ kind = "list" => Unused(items) # {}
  /\ items' = Placed(Item)
  /\ aborted' = (kind # "list" /\ Count = cap)
  /\ done' = done + 1
  /\ IF FromSource
     THEN /\ head' = << >>
          /\ rest' = IF pc = "head" THEN rest ELSE Tail(rest)
     ELSE UNCHANGED <<head, rest>>
  /\ UNCHANGED <<kind, cap, other, call, pc, before>>

HeadDone ==
  /\ pc = "head" /\ head = << >>
  /\ pc' = IF kind = "list" THEN "loop" ELSE "hint"
  /\ UNCHANGED <<kind, items, cap, other, call, done, before, head, rest, aborted>>

Finish ==
  /\ pc = "loop" /\ ToAdd = 0
  /\ Return
  /\ UNCHANGED <<kind, items, cap, other, head, rest, aborted>>

\* Vec::append and its like.
Splice ==
  /\ pc \in {"splice", "absorb"}
  /\ items' = PutAll(kind, items, other)
  /\ other' = EmptyOf(kind)
  /\ aborted' = (Count + Len(other) > cap)
  /\ Return
  /\ UNCHANGED <<kind, cap, head, rest>>

(***************************************************************************)
(* The item that cannot be added: a try_clone fails or unwinds, a closure   *)
(* unwinds, a list node or the room for one more cannot be allocated.       *)
(***************************************************************************)
ItemFails == More /\ (call.op \in Cloning \/ kind = "list" \/ Full)

\* TruncateGuard::drop; a list pops what was pushed.
RollBack ==
  /\ ItemFails /\ call.op \in Bulk
  /\ items' = IF kind = "list" THEN TruncateTo(items, Len(before))
              ELSE SubSeq(items, 1, Len(before))
  /\ Return
  /\ UNCHANGED <<kind, cap, other, head, rest, aborted>>

\* The half-built collection is dropped (a list's try_collect hands the items
\* it has not added back to its caller).
DropHalfBuilt ==
  /\ ItemFails /\ call.op \in Fresh0
  /\ items' = Blank(kind) /\ cap' = 0
  /\ Return
  /\ UNCHANGED <<kind, other, head, rest, aborted>>

\* A list's push: the element is handed back.
PushFails ==
  /\ ItemFails /\ call.op \in {"push_back", "push_front"}
  /\ Return
  /\ UNCHANGED <<kind, items, cap, other, head, rest, aborted>>

\* Mutant of Strand: Resumable::from_remainder(iter).
StrandHeadless ==
  /\ ItemFails /\ call.op = "extend"
  /\ head' = << >>
  /\ rest' = IF pc = "head" THEN rest ELSE Tail(rest)
  /\ Return
  /\ UNCHANGED <<kind, items, cap, other, aborted>>

\* try_extend: Resumable::new(item, iter).
Strand ==
  /\ ItemFails /\ call.op = "extend"
  /\ head' = <<Item>>
  /\ rest' = IF pc = "head" THEN rest ELSE Tail(rest)
  /\ Return
  /\ UNCHANGED <<kind, items, cap, other, aborted>>

\* try_extend_from_slice: what was pushed stays, the tail of the slice is
\* returned, or forgotten by a panic.
StopSlice ==
  /\ ItemFails /\ call.op = "slice"
  /\ rest' \in {rest, << >>}
  /\ Return
  /\ UNCHANGED <<kind, items, cap, other, head, aborted>>

(***************************************************************************)
(* Shrinking.                                                              *)
(***************************************************************************)
Target == IF call.op = "box" \/ call.to < Count THEN Count ELSE call.to

\* Nothing to give back; for a box, no infallible shrink is left to do.
ShrinkNothing ==
  /\ pc = "shrink" /\ cap <= Target
  /\ aborted' = (call.op = "box" /\ cap # Count)
  /\ Return
  /\ UNCHANGED <<kind, items, cap, other, head, rest>>

\* A vector's buffer, taken out of it, is reallocated to the target; a map's
\* items are moved into a table that holds at least the target.
Shrink ==
  /\ pc = "shrink" /\ cap > Target
  /\ cap' \in IF kind = "map" THEN Target..MaxCap ELSE {Target}
  /\ aborted' = (Count > cap' \/ (call.op = "box" /\ cap' # Count))
  /\ Return
  /\ UNCHANGED <<kind, items, other, head, rest>>

\* realloc, the new table or the clone of the hasher fails: the vector put back
\* has its old buffer, the map was not touched.
ShrinkFails ==
  /\ pc = "shrink" /\ cap > Target
  /\ kind = "map" \/ Target > 0     \* to nothing: the buffer is just freed
  /\ Return
  /\ UNCHANGED <<kind, items, cap, other, head, rest, aborted>>

(***************************************************************************)
(* The caller, between calls.                                              *)
(***************************************************************************)
Forget ==
  /\ Callable
  /\ head' = << >> /\ rest' = << >> /\ other' = EmptyOf(kind)
  /\ UNCHANGED <<kind, items, cap, call, pc, done, before, aborted>>

\* std's pop or remove; a removal can cost a HashMap capacity (a tombstone).
TakeOut ==
  /\ Callable /\ Pending = << >> /\ other = EmptyOf(kind) /\ Count > 0
  /\ CASE kind = "list" -> items' = PopBack(items) /\ UNCHANGED cap
       [] kind = "map" -> /\ \E x \in DOMAIN items :
                               items' = [y \in DOMAIN items \ {x} |-> items[y]]
                          /\ cap' \in {cap, cap - 1}
       [] OTHER -> items' = Front(items) /\ UNCHANGED cap
  /\ UNCHANGED <<kind, other, call, pc, done, before, head, rest, aborted>>

DropIt ==
  /\ Callable
  /\ items' = Blank(kind) /\ cap' = 0
  /\ UNCHANGED <<kind, other, call, pc, done, before, head, rest, aborted>>

Step ==
  \/ Swap \/ Reject \/ Reserve \/ ReserveFails \/ Truncate \/ Hint \/ HintFails
  \/ MakeRoom \/ Add \/ HeadDone \/ Finish \/ Splice
  \/ RollBack \/ DropHalfBuilt \/ PushFails \/ Strand \/ StopSlice
  \/ ShrinkNothing \/ Shrink \/ ShrinkFails

Next ==
  \/ Step
  \/ \E c \in Requests(kind) : Begin(c)
  \/ \E o \in {"extend", "slice"} : Retry(o)
  \/ Forget \/ TakeOut \/ DropIt

Spec == Init /\ [][Next]_vars

(***************************************************************************)
(* Properties.                                                             *)
(***************************************************************************)

\* No infallible std operation ever has to allocate: whatever the size_hint
\* said and wherever the capacity came from, the room was reserved before.
NeverAborts == ~aborted

\* The nodes spliced in by hand make one list, whichever way it is walked, and
\* none is left outside it, after a rollback too.
LinksAgree == kind = "list" =>
  /\ items.len = Cardinality(DOMAIN items.nodes)
  /\ Range(Forward(items)) = DOMAIN items.nodes
  /\ Backward(items) = Reverse(Forward(items))
  /\ items.len > 0 => /\ items.nodes[items.head].prev = Nil
                      /\ items.nodes[items.tail].next = Nil
  /\ items.len = 0 => items.head = Nil /\ items.tail = Nil

Promise == INSTANCE FallibleCollection WITH
  self <- IF call # NoCall /\ ~FromSource THEN before ELSE Now,
  other <- IF pc \in {"swapped", "absorb"} THEN items ELSE other,
  asked <- IF call # NoCall /\ ~FromSource THEN call ELSE NoCall,
  given <- Pending

\* Every call keeps the promise of FallibleCollection: items the caller brought
\* are added all or not at all, whatever fails or unwinds between two of them,
\* and an extension that stops part way hands back exactly what it did not add,
\* the item it had already taken from its source first.
ImplementsCollection == Promise!Spec
===============================================================================
