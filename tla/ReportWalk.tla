------------------------------ MODULE ReportWalk ------------------------------
(***************************************************************************)
(* Walking a rustyfill_errors::Report: the iterators frames() and           *)
(* frames_chronological(), which go on by hand-made stack and stall when it *)
(* cannot grow, the visitor of frames_mut(), and the order downcast_ref()   *)
(* searches in.  A walk borrows the report, so the report does not change   *)
(* until the walk is dropped.                                              *)
(***************************************************************************)
EXTENDS Report

VARIABLES
  walk,               \* "none", "frames", "chrono" or "mut"
  root_at,            \* the head or peer that comes next
  stack,              \* child iterators: whose children, and which comes next
  stack_room,         \* capacity of the stack's buffer
  pending,            \* pending_frame: its children are still to be pushed
  stalled,
  auto_unstall,
  root_lost_emitted,
  over,               \* "no", "end", "failed" or "broken"
  yielded,            \* history: what came out
  skipped             \* history: the frames whose children were discarded

walkVars == <<walk, root_at, stack, stack_room, pending, stalled, auto_unstall,
              root_lost_emitted, over, yielded, skipped>>

Frame(e, depth) == [frame |-> e, lost |-> 0, depth |-> depth]
LostFrames(n, depth) == [frame |-> NoError, lost |-> n, depth |-> depth]

NoWalk ==
  /\ walk = "none" /\ root_at = 1 /\ stack = <<>> /\ stack_room = 0
  /\ pending = NoError /\ stalled = FALSE /\ auto_unstall = FALSE /\ root_lost_emitted = FALSE
  /\ over = "no" /\ yielded = <<>> /\ skipped = {}

StartWalk(kind, auto) ==
  /\ walk = "none" /\ pc = "idle"
  /\ walk' = kind /\ auto_unstall' = auto
  /\ UNCHANGED <<vars, root_at, stack, stack_room, pending, stalled, root_lost_emitted,
                 over, yielded, skipped>>

DropWalk ==
  /\ walk # "none"
  /\ walk' = "none" /\ root_at' = 1 /\ stack' = <<>> /\ stack_room' = 0
  /\ pending' = NoError /\ stalled' = FALSE /\ auto_unstall' = FALSE /\ root_lost_emitted' = FALSE
  /\ over' = "no" /\ yielded' = <<>> /\ skipped' = {}
  /\ UNCHANGED vars

\* The heads of the tree, in the order they are visited.
Roots == IF walk = "chrono" THEN Reverse(peers) \o <<head>> ELSE <<head>> \o peers

Iterating == walk \in {"frames", "chrono"} /\ over = "no"

(***************************************************************************)
(* Iterator::next.  It first retries the push a stalled frame waits for.    *)
(***************************************************************************)

\* Mutant of Stall: the frame whose push failed is not kept.
StallForgets ==
  /\ Iterating /\ pending # NoError /\ Len(stack) = stack_room
  /\ stalled' = ~auto_unstall
  /\ pending' = NoError
  /\ skipped' = IF auto_unstall THEN skipped \union {pending} ELSE skipped
  /\ UNCHANGED <<vars, walk, root_at, stack, stack_room, auto_unstall, root_lost_emitted,
                 over, yielded>>

\* The stack cannot grow: next yields the error, and keeps or discards the frame.
Stall ==
  /\ Iterating /\ pending # NoError /\ Len(stack) = stack_room
  /\ stalled' = ~auto_unstall
  /\ pending' = IF auto_unstall THEN NoError ELSE pending
  /\ skipped' = IF auto_unstall THEN skipped \union {pending} ELSE skipped
  /\ UNCHANGED <<vars, walk, root_at, stack, stack_room, auto_unstall, root_lost_emitted,
                 over, yielded>>

Resumed == IF pending = NoError THEN stack ELSE Append(stack, [of |-> pending, at |-> 1])

\* Levels at their end are popped, down to one that has something to yield.
AtEnd(entry) == entry.at > Len(children[entry.of])
Settled(s) ==
  SubSeq(s, 1, Max({0} \union
    {i \in 1 .. Len(s) : ~AtEnd(s[i]) \/ (walk # "mut" /\ lost_children[s[i].of] > 0)}))

Emit(e, depth) ==
  /\ yielded' = Append(yielded, Frame(e, depth))
  /\ pending' = IF children[e] = <<>> THEN NoError ELSE e

\* The next child of the frame on top of the stack.
YieldChild(s) ==
  /\ s # <<>> /\ ~AtEnd(Last(s))
  /\ stack' = [s EXCEPT ![Len(s)].at = @ + 1]
  /\ Emit(children[Last(s).of][Last(s).at], Len(s))
  /\ UNCHANGED <<root_at, root_lost_emitted, over>>

\* The children that frame has lost.
YieldLostChildren(s) ==
  /\ s # <<>> /\ AtEnd(Last(s))
  /\ stack' = Front(s)
  /\ yielded' = Append(yielded, LostFrames(lost_children[Last(s).of], Len(s)))
  /\ pending' = NoError
  /\ UNCHANGED <<root_at, root_lost_emitted, over>>

YieldRoot(s) ==
  /\ s = <<>> /\ root_at <= Len(Roots)
  /\ stack' = <<>>
  /\ root_at' = root_at + 1
  /\ Emit(Roots[root_at], 0)
  /\ UNCHANGED <<root_lost_emitted, over>>

RootsDone(s) == s = <<>> /\ root_at > Len(Roots)

YieldLostPeers(s) ==
  /\ RootsDone(s) /\ ~root_lost_emitted /\ lost_peers > 0
  /\ stack' = <<>> /\ pending' = NoError
  /\ root_lost_emitted' = TRUE
  /\ yielded' = Append(yielded, LostFrames(lost_peers, 0))
  /\ UNCHANGED <<root_at, over>>

End(s) ==
  /\ RootsDone(s) /\ (root_lost_emitted \/ lost_peers = 0)
  /\ stack' = <<>> /\ pending' = NoError
  /\ over' = "end"
  /\ UNCHANGED <<root_at, root_lost_emitted, yielded>>

NextItem ==
  /\ Iterating
  /\ stalled' = FALSE
  /\ stack_room' \in IF pending = NoError THEN {stack_room} ELSE RoomToPush(stack, stack_room)
  /\ LET s == Settled(Resumed)
     IN YieldChild(s) \/ YieldLostChildren(s) \/ YieldRoot(s) \/ YieldLostPeers(s) \/ End(s)
  /\ UNCHANGED <<vars, walk, auto_unstall, skipped>>

\* Stallable::unstall does nothing unless the walk is stalled.
Unstall ==
  /\ Iterating /\ stalled
  /\ stalled' = FALSE
  /\ pending' = NoError
  /\ skipped' = skipped \union {pending}
  /\ UNCHANGED <<vars, walk, root_at, stack, stack_room, auto_unstall, root_lost_emitted,
                 over, yielded>>

SetAutoUnstall ==
  /\ Iterating
  /\ auto_unstall' = ~auto_unstall
  /\ UNCHANGED <<vars, walk, root_at, stack, stack_room, pending, stalled, root_lost_emitted,
                 over, yielded, skipped>>

(***************************************************************************)
(* frames_mut: the visitor is called on the head and every peer, and then   *)
(* on what their children, pushed meanwhile, lead to.  It may break off;    *)
(* a push that fails ends the walk.                                        *)
(***************************************************************************)
Visiting == walk = "mut" /\ over = "no"

\* seed_stack_from_deque.
Seed(e, s) ==
  \/ children[e] = <<>> /\ stack' = s /\ UNCHANGED <<stack_room, over>>
  \/ /\ children[e] # <<>>
     /\ stack_room' \in RoomToPush(s, stack_room)
     /\ stack' = Append(s, [of |-> e, at |-> 1])
     /\ UNCHANGED over
SeedFails(e, s) ==
  /\ children[e] # <<>> /\ Len(s) = stack_room
  /\ over' = "failed"
  /\ stack' = <<>> /\ stack_room' = 0
Visited(e) == yielded' = Append(yielded, Frame(e, 0))
Break == over' = "broken" /\ stack' = <<>> /\ stack_room' = 0

VisitRoot ==
  /\ Visiting /\ root_at <= Len(Roots)
  /\ Visited(Roots[root_at])
  /\ Break \/ Seed(Roots[root_at], stack) \/ SeedFails(Roots[root_at], stack)
  /\ root_at' = root_at + 1
  /\ UNCHANGED <<vars, walk, pending, stalled, auto_unstall, root_lost_emitted, skipped>>

\* Here the children are pushed before the visit, which a failure forestalls.
VisitChild ==
  /\ Visiting /\ root_at > Len(Roots)
  /\ LET s == Settled(stack)
         e == children[Last(s).of][Last(s).at]
         rest == [s EXCEPT ![Len(s)].at = @ + 1]
     IN /\ s # <<>>
        /\ \/ Visited(e) /\ (Break \/ Seed(e, rest))
           \/ SeedFails(e, rest) /\ UNCHANGED yielded
  /\ UNCHANGED <<vars, walk, root_at, pending, stalled, auto_unstall, root_lost_emitted, skipped>>

VisitEnds ==
  /\ Visiting /\ RootsDone(Settled(stack))
  /\ over' = "end" /\ stack' = <<>> /\ stack_room' = 0
  /\ UNCHANGED <<vars, walk, root_at, pending, stalled, auto_unstall, root_lost_emitted,
                 yielded, skipped>>

WalkInit == Init /\ NoWalk
WalkNext ==
  \/ walk = "none" /\ Next /\ UNCHANGED walkVars
  \/ \E kind \in {"frames", "chrono"}, auto \in BOOLEAN : StartWalk(kind, auto)
  \/ StartWalk("mut", FALSE)
  \/ NextItem \/ Stall \/ Unstall \/ SetAutoUnstall
  \/ VisitRoot \/ VisitChild \/ VisitEnds
  \/ DropWalk
WalkSpec == WalkInit /\ [][WalkNext]_<<vars, walkVars>> /\ WF_<<vars, walkVars>>(CallStep /\ UNCHANGED walkVars)

(***************************************************************************)
(* Properties.                                                             *)
(***************************************************************************)

\* The tree of the report, each error before its children, without what is below
\* the errors in gone.  Children are older than their error, so that no depth
\* exceeds the range.
LostMarker(n, depth) == IF n > 0 THEN <<LostFrames(n, depth)>> ELSE <<>>
TreeWithout(gone) ==
  LET below[e \in Errors] == [depth \in 0 .. MaxErrors - e |->
        <<Frame(e, depth)>> \o
        IF children[e] = <<>> \/ e \in gone THEN <<>>
        ELSE FlattenSeq([i \in DOMAIN children[e] |-> below[children[e][i]][depth + 1]])
             \o LostMarker(lost_children[e], depth + 1)]
  IN FlattenSeq([i \in DOMAIN Roots |-> below[Roots[i]][0]]) \o LostMarker(lost_peers, 0)
Tree == TreeWithout(skipped)

Frames(s) == {s[i].frame : i \in DOMAIN s} \ {NoError}

\* "no frame is silently skipped" (report.rs:936-937): a walk that stalls, is
\* retried, unstalled or switched between the two comes out with the whole tree,
\* depth first and each frame once, but for what is below a frame it was told
\* to discard.  frames_mut visits every frame once, after its parent.
WalkYieldsTree ==
  /\ walk \in {"frames", "chrono"} =>
       IsPrefix(yielded, Tree) /\ (over = "end" => yielded = Tree)
  /\ walk = "mut" =>
       /\ Cardinality(Frames(yielded)) = Len(yielded)
       /\ over = "end" => Frames(yielded) = Frames(Tree)
       /\ \A i, j \in DOMAIN yielded :
            yielded[i].frame \in Range(children[yielded[j].frame]) => j < i

\* "Synthetic LostFrames markers are yielded where frames were lost to OOM or
\* capacity eviction" (report.rs:930-932).
LossesMarked == over = "end" /\ walk # "mut" /\ skipped = {} =>
  \A i \in DOMAIN yielded :
    LET e == yielded[i].frame IN
      e # NoError /\ lost_children[e] > 0 =>
        LostFrames(lost_children[e], yielded[i].depth + 1) \in Range(yielded)

\* StaticFrame::downcast_ref, DynamicFrame::downcast_ref: children from the back.
SearchOrder(e) == Reverse(children[e])

\* They return "the most recent match" (frame/frame.rs:122-123), so they come to
\* the children newest first.
SearchesNewestFirst == pc = "idle" => \A e \in Errors :
  \A i, j \in DOMAIN children[e] : i < j =>
    \E m, n \in DOMAIN level[e].frames :
      /\ m < n
      /\ level[e].frames[m] = SearchOrder(e)[i]
      /\ level[e].frames[n] = SearchOrder(e)[j]
===============================================================================
