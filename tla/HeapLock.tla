------------------------------- MODULE HeapLock -------------------------------
(***************************************************************************)
(* std::sync::Mutex on the backends that allocate their locking object on   *)
(* first use (pthread, sgx), as rustyfill/src/std/sync/mutex_ drives it:    *)
(* arm_once_box publishes a heap payload into the mutex's OnceBox slot with *)
(* an acquire load, a fallible allocation and a release CAS, racing other   *)
(* armers and the standard library's own lazy initialisation in lock().     *)
(*                                                                         *)
(* One mutex is modelled through its life: built lazily (Mutex::new) or     *)
(* armed (try_new), shared, armed again or locked by any thread, formatted *)
(* by TryDebug, dropped, and built anew.                                    *)
(***************************************************************************)
EXTENDS Naturals, FiniteSets

CONSTANTS
  Threads,
  Boxes,      \* heap addresses a payload can be allocated at
  Null,       \* the null pointer of the OnceBox slot
  NoOne

ASSUME NullAssumption == Null \notin Boxes
ASSUME NoOneAssumption == NoOne \notin Threads

VARIABLES
  phase,     \* "none", "private" (inside a constructor), "shared"
  slot,      \* the OnceBox pointer cell
  box,       \* state of each heap address
  held,      \* held[b]: the thread that has locked the payload at b
  op,        \* the call each thread is in
  pc,        \* where in that call it is
  mine,      \* the pointer a thread's slow path works on
  sawArmed,  \* the threads whose call began when the slot was populated
  aborted    \* an infallible allocation failed: the process is gone

lockVars == <<phase, slot, box, held, op, pc, mine, sawArmed, aborted>>

Ops == {"none", "arm", "new", "fmt", "lock", "inspect"}
PCs == {"idle", "load", "alloc", "activate", "cas", "reclaim", "got", "crit"}

(***************************************************************************)
(* "arm" is try_arm, "new" a try_new* constructor, "fmt" the arming half of *)
(* TryDebug: they go through arm_once_box.  "lock" is Mutex::lock and       *)
(* "inspect" the try_lock of std's Debug: the standard library's            *)
(* OnceBox::get_or_init, whose allocation aborts instead of failing.        *)
(***************************************************************************)
Fallible == {"arm", "new", "fmt"}

LockTypeOK ==
  /\ phase \in {"none", "private", "shared"}
  /\ slot \in Boxes \union {Null}
  /\ box \in [Boxes -> {"free", "placeholder", "active"}]
  /\ held \in [Boxes -> Threads \union {NoOne}]
  /\ op \in [Threads -> Ops]
  /\ pc \in [Threads -> PCs]
  /\ mine \in [Threads -> Boxes \union {Null}]
  /\ sawArmed \in SUBSET Threads
  /\ aborted \in BOOLEAN

LockInit ==
  /\ phase = "none"
  /\ slot = Null
  /\ box = [b \in Boxes |-> "free"]
  /\ held = [b \in Boxes |-> NoOne]
  /\ op = [t \in Threads |-> "none"]
  /\ pc = [t \in Threads |-> "idle"]
  /\ mine = [t \in Threads |-> Null]
  /\ sawArmed = {}
  /\ aborted = FALSE

Quiet == \A t \in Threads : op[t] = "none"

Goto(t, where) == pc' = [pc EXCEPT ![t] = where]
Return(t) == op' = [op EXCEPT ![t] = "none"] /\ Goto(t, "idle")

(***************************************************************************)
(* Calls.                                                                  *)
(***************************************************************************)

\* Mutex::new: no allocation, the slot is null.
NewLazy ==
  /\ phase = "none" /\ ~aborted
  /\ phase' = "shared"
  /\ UNCHANGED <<slot, box, held, op, pc, mine, sawArmed, aborted>>

\* try_new, try_new_give_back, try_new_uninit, try_new_zeroed: the fresh mutex
\* is armed before anyone else can see it.
TryNew(t) ==
  /\ phase = "none" /\ ~aborted
  /\ phase' = "private"
  /\ op' = [op EXCEPT ![t] = "new"]
  /\ sawArmed' = sawArmed \ {t}
  /\ Goto(t, "load")
  /\ UNCHANGED <<slot, box, held, mine, aborted>>

\* try_arm, lock() or TryDebug::try_fmt on the shared mutex.  sawArmed
\* remembers whether the mutex was armed by then.
Begin(t, o) ==
  /\ phase = "shared" /\ ~aborted
  /\ op[t] = "none"
  /\ op' = [op EXCEPT ![t] = o]
  /\ sawArmed' = IF slot # Null THEN sawArmed \union {t} ELSE sawArmed \ {t}
  /\ Goto(t, "load")
  /\ UNCHANGED <<phase, slot, box, held, mine, aborted>>

(***************************************************************************)
(* arm_once_box, and std's OnceBox::initialize which it mirrors.            *)
(***************************************************************************)

\* What a call does once the slot is known to be populated (with pointer p).
Populated(t, p) ==
  \/ /\ op[t] \in {"arm", "new"}          \* Ok(())
     /\ Return(t)
     /\ phase' = "shared"
     /\ mine' = [mine EXCEPT ![t] = Null]
     /\ UNCHANGED sawArmed
  \/ /\ op[t] = "fmt"                     \* armed: delegate to std's Debug
     /\ op' = [op EXCEPT ![t] = "inspect"]
     /\ sawArmed' = sawArmed \union {t}
     /\ Goto(t, "load")
     /\ mine' = [mine EXCEPT ![t] = Null]
     /\ UNCHANGED phase
  \/ /\ op[t] \in {"lock", "inspect"}     \* the reference get_or_init returns
     /\ Goto(t, "got")
     /\ mine' = [mine EXCEPT ![t] = p]
     /\ UNCHANGED <<phase, op, sawArmed>>

\* The acquire load of the fast path.
Load(t) ==
  /\ pc[t] = "load" /\ ~aborted
  /\ \/ /\ slot # Null
        /\ Populated(t, slot)
     \/ /\ slot = Null
        /\ Goto(t, "alloc")
        /\ UNCHANGED <<phase, op, mine, sawArmed>>
  /\ UNCHANGED <<slot, box, held, aborted>>

\* Mutant of Alloc: a box whose payload was never constructed.
AllocUninit(t) ==
  /\ pc[t] = "alloc" /\ ~aborted
  /\ \E b \in Boxes :
       /\ box[b] = "free"
       /\ box' = [box EXCEPT ![b] = "uninit"]
       /\ mine' = [mine EXCEPT ![t] = b]
  /\ Goto(t, "activate")
  /\ UNCHANGED <<phase, slot, held, op, sawArmed, aborted>>

\* Box::try_pin(P::new()) / Box::pin succeeds.
Alloc(t) ==
  /\ pc[t] = "alloc" /\ ~aborted
  /\ \E b \in Boxes :
       /\ box[b] = "free"
       /\ box' = [box EXCEPT ![b] = "placeholder"]
       /\ mine' = [mine EXCEPT ![t] = b]
  /\ Goto(t, "activate")
  /\ UNCHANGED <<phase, slot, held, op, sawArmed, aborted>>

\* Mutants of AllocFail: TryDebug ignores the error of try_arm; a constructor
\* returns its unarmed mutex.
AllocFailIgnored(t) ==
  /\ pc[t] = "alloc" /\ ~aborted /\ op[t] = "fmt"
  /\ Populated(t, slot)
  /\ UNCHANGED <<slot, box, held, aborted>>
AllocFailKeeps(t) ==
  /\ pc[t] = "alloc" /\ ~aborted /\ op[t] \in Fallible
  /\ phase' = "shared"
  /\ Return(t)
  /\ UNCHANGED <<slot, box, held, mine, sawArmed, aborted>>

\* The allocation fails.  arm_once_box returns Err and leaves the slot null;
\* the constructors drop the fresh mutex; TryDebug prints its placeholder.
\* std's allocation calls handle_alloc_error: abort.
AllocFail(t) ==
  /\ pc[t] = "alloc" /\ ~aborted
  /\ \/ /\ op[t] \in Fallible
        /\ phase' = IF op[t] = "new" THEN "none" ELSE phase
        /\ Return(t)
        /\ UNCHANGED aborted
     \/ /\ op[t] \notin Fallible
        /\ aborted' = TRUE
        /\ UNCHANGED <<phase, op, pc>>
  /\ UNCHANGED <<slot, box, held, mine, sawArmed>>

\* PalMutex::activate (pthread_mutex_init), in place, before publication.
Activate(t) ==
  /\ pc[t] = "activate" /\ ~aborted
  /\ box' = [box EXCEPT ![mine[t]] = "active"]
  /\ Goto(t, "cas")
  /\ UNCHANGED <<phase, slot, held, op, mine, sawArmed, aborted>>

\* Mutants of Cas: a swap instead of a compare-and-exchange; a retry loop.
CasSwap(t) ==
  /\ pc[t] = "cas" /\ ~aborted
  /\ slot' = mine[t]
  /\ Populated(t, mine[t])
  /\ UNCHANGED <<box, held, aborted>>
CasRetry(t) ==
  /\ pc[t] = "cas" /\ ~aborted
  /\ slot = Null /\ slot' = mine[t]
  /\ Populated(t, mine[t])
  /\ UNCHANGED <<box, held, aborted>>

\* slot.compare_exchange(null, new_ptr, Release, Acquire)
Cas(t) ==
  /\ pc[t] = "cas" /\ ~aborted
  /\ \/ /\ slot = Null
        /\ slot' = mine[t]
        /\ Populated(t, mine[t])
     \/ /\ slot # Null
        /\ Goto(t, "reclaim")
        /\ UNCHANGED <<phase, slot, op, mine, sawArmed>>
  /\ UNCHANGED <<box, held, aborted>>

\* Mutant of Reclaim: Box::into_raw without the from_raw.
ReclaimLeak(t) ==
  /\ pc[t] = "reclaim" /\ ~aborted
  /\ Populated(t, slot)
  /\ UNCHANGED <<slot, box, held, aborted>>

\* The lost race: Box::from_raw, deactivate in place, drop.
Reclaim(t) ==
  /\ pc[t] = "reclaim" /\ ~aborted
  /\ box' = [box EXCEPT ![mine[t]] = "free"]
  /\ Populated(t, slot)
  /\ UNCHANGED <<slot, held, aborted>>

(***************************************************************************)
(* The lock itself: external code, modelled from what std promises of it.   *)
(***************************************************************************)
LockAcquire(t) ==
  /\ pc[t] = "got" /\ op[t] \in {"lock", "inspect"} /\ ~aborted
  /\ held[mine[t]] = NoOne
  /\ held' = [held EXCEPT ![mine[t]] = t]
  /\ Goto(t, "crit")
  /\ UNCHANGED <<phase, slot, box, op, mine, sawArmed, aborted>>

\* std's Debug does not wait: it prints "<locked>".
InspectBusy(t) ==
  /\ pc[t] = "got" /\ op[t] = "inspect" /\ ~aborted
  /\ held[mine[t]] # NoOne
  /\ Return(t)
  /\ mine' = [mine EXCEPT ![t] = Null]
  /\ UNCHANGED <<phase, slot, box, held, sawArmed, aborted>>

Unlock(t) ==
  /\ pc[t] = "crit" /\ ~aborted
  /\ held' = [held EXCEPT ![mine[t]] = NoOne]
  /\ mine' = [mine EXCEPT ![t] = Null]
  /\ Return(t)
  /\ UNCHANGED <<phase, slot, box, sawArmed, aborted>>

\* Dropping the mutex: no borrow is left, so no call is in progress.
Drop ==
  /\ phase = "shared" /\ Quiet /\ ~aborted
  /\ phase' = "none"
  /\ slot' = Null
  /\ box' = [b \in Boxes |-> IF b = slot THEN "free" ELSE box[b]]
  /\ UNCHANGED <<held, op, pc, mine, sawArmed, aborted>>

ProcessGone == aborted /\ UNCHANGED lockVars

ArmStep(t) ==
  Load(t) \/ Alloc(t) \/ AllocFail(t) \/ Activate(t) \/ Cas(t) \/ Reclaim(t)
LockStep(t) == LockAcquire(t) \/ InspectBusy(t) \/ Unlock(t)
Call(t) == TryNew(t) \/ \E o \in {"arm", "fmt", "lock"} : Begin(t, o)

LockNext ==
  \/ NewLazy \/ Drop \/ ProcessGone
  \/ \E t \in Threads : Call(t) \/ ArmStep(t) \/ LockStep(t)

LockSpec == LockInit /\ [][LockNext]_lockVars

\* A running thread is scheduled again and again; nobody is bound to call.
FairLockSpec == LockSpec /\ \A t \in Threads : WF_lockVars(ArmStep(t)) /\ WF_lockVars(LockStep(t))

(***************************************************************************)
(* Properties.                                                             *)
(***************************************************************************)

\* Every live payload has exactly one owner: the slot, or the one thread still
\* working on it in arm_once_box.  A payload without an owner is a leak, one
\* with two is freed twice or freed while published (heap_lock.rs:126-146).
Working(t) == pc[t] \in {"activate", "cas", "reclaim"}
OneOwner ==
  \A b \in Boxes :
    /\ box[b] # "free" => b = slot \/ \E t \in Threads : Working(t) /\ mine[t] = b
    /\ \A t \in Threads : Working(t) /\ mine[t] = b => /\ b # slot
                                                      /\ box[b] # "free"
    /\ \A t, u \in Threads :
         Working(t) /\ Working(u) /\ mine[t] = b /\ mine[u] = b => t = u
    /\ b = slot => box[b] # "free"

\* Whoever gets the backend gets the one the slot publishes, activated before it
\* was published; so at most one thread is in the critical section although
\* several payloads were raced for it (heap_lock.rs:112-131).
MutualExclusion ==
  /\ \A t \in Threads : pc[t] \in {"got", "crit"} => mine[t] = slot /\ box[slot] = "active"
  /\ \A t, u \in Threads : pc[t] = "crit" /\ pc[u] = "crit" => t = u

\* "After a successful return, the mutex is armed and .lock() is guaranteed
\* infallible" (mutex_/mod.rs:243-244): a call that starts on an armed mutex,
\* in particular the inspection TryDebug delegates to, never reaches the
\* standard library's aborting allocation.
ArmedNeverAllocates ==
  \A t \in Threads : t \in sawArmed /\ op[t] # "none" => pc[t] \notin {"alloc", "activate", "cas", "reclaim"}

\* A try_new* constructor hands out an armed mutex or none at all, and its
\* mutex is private until then (pthread.rs:165-185).
ConstructorsArm ==
  [][phase = "private" /\ phase' = "shared" => slot' # Null]_lockVars

\* try_arm is wait-free: it ends under any interleaving, with no help from the
\* holder of the lock, unless the process is gone (heap_lock.rs:73-77).
ArmTerminates ==
  \A t \in Threads : (op[t] = "arm") ~> (op[t] # "arm" \/ aborted)

\* The race of armers and lazy lockers implements one mutex.
Holder == IF \E t \in Threads : pc[t] = "crit" THEN CHOOSE t \in Threads : pc[t] = "crit" ELSE NoOne
Abs == INSTANCE ArmedMutex WITH armed <- slot # Null, holder <- Holder
ImplementsArmedMutex == Abs!Spec
===============================================================================
