--------------------------------- MODULE Report ---------------------------------
(***************************************************************************)
(* rustyfill_errors::Report: an error stack that gives up context rather    *)
(* than fail when memory runs out.  Errors are numbered in the order they   *)
(* are reported.  Each allocation either succeeds or fails; attachments,    *)
(* segments and locations travel with their frame and are left out.         *)
(***************************************************************************)
EXTENDS Integers, SequencesExt

CONSTANTS
  MaxErrors,  \* bound: errors reported in all
  MaxLost,    \* usize::MAX, where the counters of lost frames saturate
  MaxSpare,   \* bound: spare slots a growing deque may get beyond the one needed
  Caps,       \* the capacities given to with_capacity
  NoCap       \* no capacity was given

ASSUME ErrorsAssumption == MaxErrors \in Nat \ {0} /\ MaxLost \in Nat \ {0} /\ MaxSpare \in Nat
ASSUME CapsAssumption == Caps \subseteq Nat /\ NoCap \notin Nat

VARIABLES
  head,        \* the current error
  peers,       \* the deque of peers, front first
  room,        \* the capacity of its buffer
  lost_peers,
  capacity,
  children,    \* children[e]: the frames demoted below e, front first
  lost_children,
  pc, op,      \* the call that consumes the report, and the error it brings
  new_room,    \* capacity of the children of op
  boxed,       \* try_change_context's intermediates, oldest frame first
  pushed,      \* history: the errors pushed beside head, newest first
  level        \* history: what stood on the level that was demoted below e

reportVars == <<head, peers, room, lost_peers, capacity>>
frameVars == <<children, lost_children>>
callVars == <<pc, op, new_room, boxed>>
vars == <<reportVars, frameVars, callVars, pushed, level>>

Errors == 1 .. MaxErrors
NoError == 0
PCs == {"idle", "evict", "repush", "demote", "box", "panicked"}

TypeOK ==
  /\ head \in Errors
  /\ peers \in Seq(Errors) /\ room \in Nat /\ Len(peers) <= room
  /\ lost_peers \in 0 .. MaxLost
  /\ capacity \in Caps \union {NoCap}
  /\ children \in [Errors -> Seq(Errors)]
  /\ lost_children \in [Errors -> 0 .. MaxLost]
  /\ pc \in PCs /\ op \in Errors \union {NoError} /\ (pc = "idle" <=> op = NoError)
  /\ new_room \in Nat /\ boxed \in Seq(Errors)
  /\ pushed \in Seq(Errors)
  /\ level \in [Errors -> [frames : Seq(Errors), lost : 0 .. MaxLost]]

Nothing == [frames |-> <<>>, lost |-> 0]
\* saturating_add(1)
Count(n) == IF n = MaxLost THEN n ELSE n + 1
PopBack(s) == IF s = <<>> THEN s ELSE Front(s)
PeerCount == 1 + Len(peers)
\* Mutant of AtCapacity: counts the peer to come twice.
AtCapacityEarly == capacity # NoCap /\ PeerCount + 1 >= capacity
AtCapacity == capacity # NoCap /\ PeerCount >= capacity
\* A deque that has to hold n gets a buffer of one of these sizes; one with
\* room for another element keeps its buffer.
Grown(n) == n .. n + MaxSpare
RoomToPush(s, r) == IF Len(s) < r THEN {r} ELSE Grown(Len(s) + 1)

\* Report::new(1).
Init ==
  /\ head = 1 /\ peers = <<>> /\ room = 0 /\ lost_peers = 0 /\ capacity = NoCap
  /\ children = [e \in Errors |-> <<>>]
  /\ lost_children = [e \in Errors |-> 0]
  /\ pc = "idle" /\ op = NoError /\ new_room = 0 /\ boxed = <<>>
  /\ pushed = <<>>
  /\ level = [e \in Errors |-> Nothing]

\* The error the client reports next: one more than any it has reported.
Fresh == 1 + Max({head} \union Range(pushed) \union UNION {Range(level[e].frames) : e \in Errors})
Return == pc' = "idle" /\ op' = NoError

WithCapacity(cap) ==
  /\ pc = "idle"
  /\ capacity' = cap
  /\ UNCHANGED <<head, peers, room, lost_peers, frameVars, callVars, pushed, level>>

(***************************************************************************)
(* push: make room below the capacity, then push; if the deque cannot grow, *)
(* drop the oldest peer and push again.                                     *)
(***************************************************************************)
Push ==
  /\ pc = "idle" /\ Fresh \in Errors
  /\ pc' = "evict" /\ op' = Fresh
  /\ UNCHANGED <<reportVars, frameVars, new_room, boxed, pushed, level>>

\* Mutant of EvictOldest: the wrong end of the deque.
EvictNewest == peers' = SubSeq(peers, 2, Len(peers)) /\ lost_peers' = Count(lost_peers)
EvictOldest == peers' = PopBack(peers) /\ lost_peers' = Count(lost_peers)

PushEvicts ==
  /\ pc = "evict" /\ AtCapacity
  /\ EvictOldest
  /\ UNCHANGED <<head, room, capacity, frameVars, callVars, pushed, level>>

PushFront ==
  /\ room' \in RoomToPush(peers, room)
  /\ peers' = <<op>> \o peers
  /\ pushed' = <<op>> \o pushed
  /\ Return
  /\ UNCHANGED <<head, lost_peers, capacity, frameVars, new_room, boxed, level>>

PushFits == pc = "evict" /\ ~AtCapacity /\ PushFront
PushFails ==
  /\ pc = "evict" /\ ~AtCapacity
  /\ Len(peers) = room
  /\ EvictOldest
  /\ pc' = "repush"
  /\ UNCHANGED <<head, room, capacity, frameVars, op, new_room, boxed, pushed, level>>
Repush == pc = "repush" /\ PushFront
RepushFails ==
  /\ pc = "repush" /\ Len(peers) = room
  /\ pc' = "panicked"
  /\ UNCHANGED <<reportVars, frameVars, op, new_room, boxed, pushed, level>>

\* try_push: an Err gives report and frame back as they were, and is no step.
TryPush ==
  /\ pc = "idle" /\ Fresh \in Errors
  /\ ~AtCapacity
  /\ room' \in RoomToPush(peers, room)
  /\ peers' = <<Fresh>> \o peers
  /\ pushed' = <<Fresh>> \o pushed
  /\ UNCHANGED <<head, lost_peers, capacity, frameVars, callVars, level>>

(***************************************************************************)
(* The changes of context make op the head.  They demote the peers, oldest  *)
(* first, and then the old head; Demoted is the frame they are at.          *)
(***************************************************************************)
Demoted == IF peers # <<>> THEN Last(peers) ELSE head
Begin(step) ==
  /\ pc = "idle" /\ Fresh \in Errors
  /\ pc' = step /\ op' = Fresh
  /\ level' = [level EXCEPT ![Fresh] = [frames |-> <<head>> \o peers, lost |-> lost_peers]]
  /\ UNCHANGED <<reportVars, children, boxed, pushed>>
NewReport ==
  /\ head' = op /\ peers' = <<>> /\ room' = 0 /\ lost_peers' = 0
  /\ new_room' = 0 /\ boxed' = <<>> /\ pushed' = <<>>
  /\ Return
  /\ UNCHANGED <<capacity, level>>

\* change_context; its attempt to reserve may fail.
ChangeContext ==
  /\ Begin("demote")
  /\ new_room' \in {0} \union Grown(PeerCount)
  /\ lost_children' = [lost_children EXCEPT ![Fresh] = lost_peers]

\* demote_and_push is done with Demoted.
NextFrame ==
  \/ peers = <<>> /\ NewReport
  \/ /\ peers # <<>> /\ peers' = Front(peers)
     /\ UNCHANGED <<head, room, lost_peers, capacity, pc, op, boxed, pushed, level>>
PushChild(kept) ==
  /\ children' = [children EXCEPT ![op] = <<Demoted>> \o kept]
  /\ NextFrame
  /\ peers # <<>> => new_room' \in RoomToPush(kept, new_room)
LoseChild == lost_children' = [lost_children EXCEPT ![op] = Count(@)]

Demote == pc = "demote" /\ PushChild(children[op]) /\ UNCHANGED lost_children
\* The deque of children cannot grow.
DemoteEvicts ==
  /\ pc = "demote" /\ Len(children[op]) = new_room
  /\ PushChild(PopBack(children[op]))
  /\ LoseChild
DemotePanics ==
  /\ pc = "demote" /\ children[op] = <<>> /\ new_room = 0
  /\ pc' = "panicked"
  /\ LoseChild
  /\ UNCHANGED <<reportVars, children, op, new_room, boxed, pushed, level>>
\* The context cannot be boxed: drop the oldest child and try again...
BoxFails ==
  /\ pc = "demote" /\ children[op] # <<>>
  /\ children' = [children EXCEPT ![op] = Front(@)]
  /\ LoseChild
  /\ UNCHANGED <<reportVars, callVars, pushed, level>>
\* Mutant of GiveUp: does not count the frame.
GiveUpUncounted ==
  /\ pc = "demote" /\ children[op] = <<>>
  /\ NextFrame
  /\ peers # <<>> => UNCHANGED new_room
  /\ UNCHANGED frameVars
\* ... or the frame itself, when there is no child left.
GiveUp ==
  /\ pc = "demote" /\ children[op] = <<>>
  /\ NextFrame
  /\ peers # <<>> => UNCHANGED new_room
  /\ LoseChild
  /\ UNCHANGED children

(***************************************************************************)
(* try_change_context boxes every frame before it gives up the report.  A   *)
(* failed reservation is no step; after a successful one no push can fail.  *)
(***************************************************************************)
TryChangeContext == Begin("box") /\ UNCHANGED <<lost_children, new_room>>
BoxPeer ==
  /\ pc = "box" /\ peers # <<>>
  /\ boxed' = Append(boxed, Last(peers))
  /\ peers' = Front(peers)
  /\ UNCHANGED <<head, room, lost_peers, capacity, frameVars, pc, op, new_room, pushed, level>>
BoxHead ==
  /\ pc = "box" /\ peers = <<>>
  /\ children' = [children EXCEPT ![op] = Append(boxed, head)]
  /\ lost_children' = [lost_children EXCEPT ![op] = lost_peers]
  /\ NewReport

\* recover_report: the peers not boxed yet, then the boxed ones newest first.
\* The deque of peers has kept its buffer, so every push_back fits.
Recover(boxes) ==
  /\ pc = "box"
  /\ peers' = peers \o boxes
  /\ boxed' = <<>>
  /\ level' = [level EXCEPT ![op] = Nothing]
  /\ Return
  /\ UNCHANGED <<head, room, lost_peers, capacity, frameVars, new_room, pushed>>
\* Mutant of TryBoxFails: forgets that the boxes are oldest first.
TryBoxFailsInOrder == Recover(boxed)
TryBoxFails == Recover(Reverse(boxed))

CallStep ==
  \/ PushEvicts \/ PushFits \/ PushFails \/ Repush \/ RepushFails
  \/ Demote \/ DemoteEvicts \/ DemotePanics \/ BoxFails \/ GiveUp
  \/ BoxPeer \/ BoxHead \/ TryBoxFails
Next ==
  \/ \E cap \in Caps : WithCapacity(cap)
  \/ CallStep \/ Push \/ TryPush \/ ChangeContext \/ TryChangeContext

Spec == Init /\ [][Next]_vars
\* A call that has begun runs on.
FairSpec == Spec /\ WF_vars(CallStep)

(***************************************************************************)
(* Properties                                                               *)
(***************************************************************************)
\* The frames missing from the report are at most those it says it lost: an
\* error is dropped at capacity, when memory runs out and in a change of
\* context, and every one of these places must count it, once passed on to the
\* children of the new head.
NothingLostSilently == pc = "idle" =>
  /\ lost_peers = MaxLost \/ Len(peers) + lost_peers >= Len(pushed)
  /\ \A e \in Errors :
       \/ lost_children[e] = MaxLost
       \/ Len(children[e]) + lost_children[e] >= Len(level[e].frames) + level[e].lost

\* What is given up is always the oldest: the peers are the newest of the errors
\* pushed, and the children of a frame the newest of the level below it, newest
\* first; try_change_context keeps all of them, oldest first.
NewestSurvive ==
  /\ pc \in {"idle", "evict", "repush"} => IsPrefix(peers, pushed)
  /\ \A e \in Errors :
       \/ pc = "demote" /\ e = op
       \/ IsPrefix(children[e], level[e].frames)
       \/ children[e] = Reverse(level[e].frames)

\* "giving back the original report on any allocation failure": whichever box
\* failed, the report that comes back has the head, the peers, their order and
\* the count of lost ones that went in.
TryChangeRestores ==
  [][pc = "box" /\ pc' = "idle" /\ head' # op =>
       /\ <<head'>> \o peers' = level[op].frames
       /\ lost_peers' = level[op].lost]_vars

\* With a capacity for the head and one more peer, every call comes to an end,
\* however often allocation fails: push's loop drops peers until one fits, and
\* change_context gives up a child or a frame at every failure.
CallsReturn == pc # "idle" ~> pc \in {"idle", "panicked"}

\* push's doc: "If a capacity cap is set and exceeded, the oldest peer (back of
\* deque) is evicted and lost_peers is incremented".
PushReturns == pc = "evict" ~> pc \in {"idle", "panicked"}

\* The expectations "pop_back followed by push_front should succeed" of push and
\* "eviction guarantees space" of change_context: no call panics.
NeverPanics == pc # "panicked"
=================================================================================
