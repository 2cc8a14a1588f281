------------------------------ MODULE SecondaryMap ------------------------------
(***************************************************************************)
(* rustyfill::collections::slotmap::SecondaryMap beside the SlotMap whose   *)
(* keys it is indexed by.  The two maps share no state: the secondary map   *)
(* tells a stale key from a live one by comparing versions modulo their     *)
(* width.                                                                   *)
(***************************************************************************)
EXTENDS SlotMap

CONSTANT NoValue

VARIABLES
  sec,        \* sec[i]: the slot, Vacant or the value with its version
  sec_len,    \* slots.len()
  sec_num,    \* num_elems
  sec_sweep,  \* the retain or drain that borrows the secondary map
  put         \* history: put[k], what the client last put under k and kept

secVars == <<sec, sec_len, sec_num, sec_sweep, put>>
allVars == <<vars, secVars>>

Vacant == [version |-> 0, value |-> NoValue]
SecSlot == {Vacant} \union [version : {w \in 0 .. VMod - 1 : w % 2 = 1}, value : Values]

SecTypeOK ==
  /\ sec \in [Idx -> SecSlot]
  /\ sec_len \in 1 .. MaxSlotsLen
  /\ sec_num \in Int
  /\ sec_sweep \in [kind : {"none", "retain", "drain"}, cur : 0 .. MaxSlotsLen]
  /\ put \in [Keys -> Values \union {NoValue}]

SecInit ==
  /\ sec = [i \in Idx |-> Vacant]
  /\ sec_len = 1
  /\ sec_num = 0
  /\ sec_sweep = NoSweep
  /\ put = [k \in Keys |-> NoValue]

\* is_older_version: a is behind b by the wrapping difference.  The mutant has
\* the operands of the subtraction swapped.
SwappedOlder(a, b) == (b + VMod - a) % VMod >= Half
IsOlderVersion(a, b) == (a + VMod - b) % VMod >= Half

SecIdle == sec_sweep = NoSweep
SecContains(k) == k.idx < sec_len /\ sec[k.idx].version = k.version

(***************************************************************************)
(* try_entry, and insertion through it.                                     *)
(***************************************************************************)
Accepts(k) == k.idx < MaxSlotsLen - 1
Resized(k) == sec_len' = Larger(sec_len, k.idx + 1)

\* An entry that is looked at and dropped has grown the slots.
SecEntry(k) ==
  /\ SecIdle /\ Accepts(k) /\ Resized(k)
  /\ UNCHANGED <<sec, sec_num, sec_sweep, put>>

\* Mutant of FillVacant: counts the element it replaces once more.
FillVacantCounts(k, v) ==
  /\ sec' = [sec EXCEPT ![k.idx] = [version |-> k.version, value |-> v]]
  /\ sec_num' = sec_num + 1

\* Mutant of FillVacant: the replaced element's version stays.
FillVacantKeepsVersion(k, v) ==
  /\ sec' = [sec EXCEPT ![k.idx] =
               [version |-> IF @ = Vacant THEN k.version ELSE @.version, value |-> v]]
  /\ sec_num' = IF sec[k.idx] = Vacant THEN sec_num + 1 ELSE sec_num

\* VacantEntry::insert: the slot may hold the element of an older key.
FillVacant(k, v) ==
  /\ sec' = [sec EXCEPT ![k.idx] = [version |-> k.version, value |-> v]]
  /\ sec_num' = IF sec[k.idx] = Vacant THEN sec_num + 1 ELSE sec_num

\* try_insert; an insert that returns an error (index or allocation) does nothing.
SecInsert(k, v) ==
  /\ SecIdle /\ Accepts(k) /\ Resized(k)
  /\ \/ /\ k.version = sec[k.idx].version
        /\ sec' = [sec EXCEPT ![k.idx].value = v]
        /\ UNCHANGED sec_num
     \/ /\ k.version # sec[k.idx].version
        /\ IsOlderVersion(k.version, sec[k.idx].version)
        /\ UNCHANGED <<sec, sec_num>>
     \/ /\ k.version # sec[k.idx].version
        /\ ~IsOlderVersion(k.version, sec[k.idx].version)
        /\ FillVacant(k, v)
  /\ put' = [put EXCEPT ![k] = v]
  /\ UNCHANGED sec_sweep

(***************************************************************************)
(* Removal, retain and drain.                                               *)
(***************************************************************************)

Vacate(k) ==
  /\ sec' = [sec EXCEPT ![k.idx] = Vacant]
  /\ sec_num' = sec_num - 1
  /\ put' = [put EXCEPT ![k] = NoValue]

SecRemove(k) ==
  /\ SecIdle /\ SecContains(k)
  /\ Vacate(k)
  /\ UNCHANGED <<sec_len, sec_sweep>>

StartSecSweep(kind) ==
  /\ SecIdle
  /\ sec_sweep' = [kind |-> kind, cur |-> 1]
  /\ UNCHANGED <<sec, sec_len, sec_num, put>>

SecSweepOver == sec_sweep.cur >= sec_len
SecAdvance == sec_sweep' = [sec_sweep EXCEPT !.cur = @ + 1]

SecSweepRemove ==
  /\ ~SecIdle /\ ~SecSweepOver /\ sec[sec_sweep.cur] # Vacant
  /\ Vacate([idx |-> sec_sweep.cur, version |-> sec[sec_sweep.cur].version])
  /\ SecAdvance
  /\ UNCHANGED sec_len

SecSweepSkip ==
  /\ ~SecIdle /\ ~SecSweepOver
  /\ sec[sec_sweep.cur] # Vacant => sec_sweep.kind = "retain"
  /\ SecAdvance
  /\ UNCHANGED <<sec, sec_len, sec_num, put>>

EndSecSweep ==
  /\ ~SecIdle
  /\ sec_sweep' = NoSweep
  /\ UNCHANGED <<sec, sec_len, sec_num, put>>

(***************************************************************************)
(* The two maps side by side: a secondary borrow leaves the primary usable. *)
(***************************************************************************)
Secondary ==
  \/ \E k \in IssuedKeys : SecEntry(k) \/ SecRemove(k) \/ \E v \in Values : SecInsert(k, v)
  \/ \E kind \in {"retain", "drain"} : StartSecSweep(kind)
  \/ SecSweepRemove \/ SecSweepSkip \/ EndSecSweep

PairNext == (Next /\ UNCHANGED secVars) \/ (Secondary /\ UNCHANGED vars)
PairInit == Init /\ SecInit
PairSpec == PairInit /\ [][PairNext]_allVars

(***************************************************************************)
(* Properties.                                                             *)
(***************************************************************************)

\* num_elems counts the occupied slots also when a newer key takes over the slot
\* of a removed one (secondary.rs:715-730).
SecCounts == sec_num = Cardinality({i \in 1 .. sec_len - 1 : sec[i] # Vacant})

\* The map returns under a key only what was put under that very key, never what
\* an earlier or later user of the slot put (secondary.rs:343-349).
NoForeignValue == \A k \in IssuedKeys : SecContains(k) => sec[k.idx].value = put[k]

\* What was put under a key that is still in the primary map is there, although
\* stale keys of the same slot keep inserting: an insert is dropped only "if the
\* key was removed from the originating slot map and its slot has been reused
\* with a newer version" (secondary.rs:245-247, 262-264).  So it is until a slot
\* has gone through half of its versions: from there on a vacant slot, version 0,
\* looks newer than a live key.
LiveKeysReadBack ==
  \A k \in IssuedKeys :
    ContainsKey(k) /\ put[k] # NoValue /\ 2 * Len(issued[k.idx]) <= Half => SecContains(k)
===============================================================================
