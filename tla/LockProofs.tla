------------------------------ MODULE LockProofs ------------------------------
(***************************************************************************)
(* Proofs about what threads share under locks: HeapLock, for any number of *)
(* threads and heap addresses, SystemRandom, for any number of threads, any *)
(* buffer and any kernel, and CHashMapIter, for any set of keys, any number *)
(* of shards and whatever other threads do.                                 *)
(***************************************************************************)
EXTENDS HeapLock, SystemRandom, CHashMapIter, FiniteSetTheorems, TLAPS

(***************************************************************************)
(* HeapLock.  OneOwner and MutualExclusion are not inductive by themselves: *)
(* they need to know what each program counter says about the pointer the   *)
(* thread works on, and that a constructor is alone.                        *)
(***************************************************************************)

\* A program counter belongs to a call that can have it.
Calls ==
  \A t \in Threads :
    /\ op[t] = "none" <=> pc[t] = "idle"
    /\ pc[t] \in {"got", "crit"} => op[t] \in {"lock", "inspect"}

\* What a slow path knows about its payload.
Payloads ==
  \A t \in Threads :
    /\ Working(t) => mine[t] \in Boxes /\ mine[t] # slot
    /\ pc[t] = "activate" => box[mine[t]] = "placeholder"
    /\ pc[t] \in {"cas", "reclaim"} => box[mine[t]] = "active"
    /\ pc[t] = "reclaim" => slot # Null

\* No two slow paths share a payload, and every live payload is accounted for.
Owners ==
  /\ \A t, u \in Threads : Working(t) /\ Working(u) /\ mine[t] = mine[u] => t = u
  /\ \A b \in Boxes : box[b] # "free" => b = slot \/ \E t \in Threads : Working(t) /\ mine[t] = b

\* The slot publishes an active payload, and the lock's users hold that one.
Published ==
  /\ slot # Null => box[slot] = "active"
  /\ \A t \in Threads : pc[t] \in {"got", "crit"} => mine[t] = slot /\ slot # Null
  /\ \A t \in Threads : pc[t] = "crit" => held[slot] = t
  /\ \A t \in Threads : t \in sawArmed /\ op[t] # "none" => slot # Null

\* The states that count as armed do not allocate.
Armed ==
  \A t \in Threads : t \in sawArmed /\ op[t] # "none" => pc[t] \in {"load", "got", "crit"}

\* Before a mutex is shared its slot is null, and only its constructor runs.
Private ==
  /\ phase # "shared" => slot = Null
  /\ phase = "none" => Quiet
  /\ phase = "private" => \E t \in Threads : /\ op[t] = "new"
                                             /\ \A u \in Threads : op[u] # "none" => u = t
  /\ phase = "shared" => \A t \in Threads : op[t] # "new"

LockIInv == LockTypeOK /\ Calls /\ Payloads /\ Owners /\ Published /\ Armed /\ Private

-------------------------------------------------------------------------------

\* The mutex starts unarmed, with no call in progress.
LEMMA LockInitInv == LockInit => LockIInv
  BY NullAssumption
     DEF LockInit, LockIInv, LockTypeOK, Calls, Payloads, Owners, Published, Armed, Private,
         Working, Quiet, Ops, PCs

\* Every step of every call keeps the invariant, one step per action.
LEMMA LockStepInv == LockIInv /\ [LockNext]_lockVars => LockIInv'
  <1> SUFFICES ASSUME LockIInv, [LockNext]_lockVars PROVE LockIInv'
    OBVIOUS
  <1> USE NullAssumption, NoOneAssumption
      DEF LockIInv, LockTypeOK, Calls, Payloads, Owners, Published, Armed, Private,
          Working, Quiet, Ops, PCs, Goto, Return
  <1>1. CASE NewLazy
    BY <1>1 DEF NewLazy
  <1>2. ASSUME NEW t \in Threads, TryNew(t) PROVE LockIInv'
    BY <1>2 DEF TryNew
  <1>3. ASSUME NEW t \in Threads, NEW o \in {"arm", "fmt", "lock"}, Begin(t, o) PROVE LockIInv'
    BY <1>3 DEF Begin
  <1>4. ASSUME NEW t \in Threads, Load(t) PROVE LockIInv'
    BY <1>4 DEF Load, Populated
  <1>5. ASSUME NEW t \in Threads, Alloc(t) PROVE LockIInv'
    BY <1>5 DEF Alloc
  <1>6. ASSUME NEW t \in Threads, AllocFail(t) PROVE LockIInv'
    <2>1. CASE op[t] \in Fallible
      BY <1>6, <2>1 DEF AllocFail, Fallible
    <2>2. CASE op[t] \notin Fallible
      <3>1. aborted' = TRUE /\ UNCHANGED <<phase, slot, box, held, op, pc, mine, sawArmed>>
        BY <1>6, <2>2 DEF AllocFail
      <3> QED
        BY <3>1
    <2> QED
      BY <2>1, <2>2
  <1>7. ASSUME NEW t \in Threads, Activate(t) PROVE LockIInv'
    BY <1>7 DEF Activate
  <1>8. ASSUME NEW t \in Threads, Cas(t) PROVE LockIInv'
    BY <1>8 DEF Cas, Populated
  <1>9. ASSUME NEW t \in Threads, Reclaim(t) PROVE LockIInv'
    <2>1. /\ pc[t] = "reclaim" /\ mine[t] \in Boxes /\ mine[t] # slot /\ slot # Null
          /\ box' = [box EXCEPT ![mine[t]] = "free"]
          /\ UNCHANGED <<slot, held, aborted>>
      BY <1>9 DEF Reclaim
    <2>2. \A u \in Threads : u # t /\ Working(u) => mine[u] # mine[t]
      BY <2>1
    <2>3. /\ pc'[t] \in {"idle", "load", "got"}
          /\ pc'[t] = "got" => mine'[t] = slot
          /\ \A u \in Threads : u # t => /\ pc'[u] = pc[u] /\ op'[u] = op[u]
                                         /\ mine'[u] = mine[u] /\ (u \in sawArmed' <=> u \in sawArmed)
      BY <1>9 DEF Reclaim, Populated
    <2>4. LockTypeOK' /\ Calls' /\ Armed' /\ Private'
      BY <1>9 DEF Reclaim, Populated
    <2>5. Published' 
      BY <2>1, <2>3
    <2>6. Payloads'
      BY <2>1, <2>2, <2>3
    <2>7. Owners'
      BY <2>1, <2>2, <2>3
    <2> QED
      BY <2>4, <2>5, <2>6, <2>7
  <1>10. ASSUME NEW t \in Threads, LockAcquire(t) PROVE LockIInv'
    BY <1>10 DEF LockAcquire
  <1>11. ASSUME NEW t \in Threads, InspectBusy(t) PROVE LockIInv'
    BY <1>11 DEF InspectBusy
  <1>12. ASSUME NEW t \in Threads, Unlock(t) PROVE LockIInv'
    BY <1>12 DEF Unlock
  <1>13. CASE Drop
    BY <1>13 DEF Drop
  <1>14. CASE UNCHANGED lockVars
    BY <1>14 DEF lockVars
  <1>15. QED
    BY <1>1, <1>2, <1>3, <1>4, <1>5, <1>6, <1>7, <1>8, <1>9, <1>10, <1>11, <1>12,
       <1>13, <1>14 DEF LockNext, Call, ArmStep, LockStep, ProcessGone

\* LockIInv holds in every reachable state of the arming race.
THEOREM LockInvariance == LockSpec => []LockIInv
  BY LockInitInv, LockStepInv, PTL DEF LockSpec

-------------------------------------------------------------------------------
(* What the invariant gives. *)

\* The variables of the arming race keep their types.
THEOREM TypeCorrect == LockSpec => []LockTypeOK
  <1>1. LockIInv => LockTypeOK
    BY DEF LockIInv
  <1> QED
    BY <1>1, LockInvariance, PTL

\* No interleaving of armers and lazy lockers leaks a payload or frees one that
\* somebody else owns.
THEOREM NoLeakNoDoubleFree == LockSpec => []OneOwner
  <1>1. LockIInv => OneOwner
    <2> SUFFICES ASSUME LockIInv PROVE OneOwner
      OBVIOUS
    <2> USE DEF LockIInv, Owners, Payloads, Working
    <2>1. \A t \in Threads : Working(t) => mine[t] # slot /\ box[mine[t]] # "free"
      OBVIOUS
    <2>2. \A b \in Boxes : b = slot => box[b] # "free"
      BY NullAssumption DEF Published
    <2> QED
      BY <2>1, <2>2 DEF OneOwner
  <1> QED
    BY <1>1, LockInvariance, PTL

\* Everyone who locks, locks the published payload: one thread at a time.
THEOREM Exclusion == LockSpec => []MutualExclusion
  <1>1. LockIInv => MutualExclusion
    BY DEF LockIInv, Published, MutualExclusion
  <1> QED
    BY <1>1, LockInvariance, PTL

\* A call that starts on an armed mutex never reaches an aborting allocation.
THEOREM ArmedInfallible == LockSpec => []ArmedNeverAllocates
  <1>1. LockIInv => ArmedNeverAllocates
    BY DEF LockIInv, Armed, ArmedNeverAllocates
  <1> QED
    BY <1>1, LockInvariance, PTL

-------------------------------------------------------------------------------
(* The refinement of ArmedMutex. *)

\* The critical section has at most one thread, so Holder names it.
LEMMA HolderIs ==
  ASSUME LockIInv
  PROVE  /\ \A t \in Threads : pc[t] = "crit" => Holder = t
         /\ (\A t \in Threads : pc[t] # "crit") => Holder = NoOne
  BY DEF LockIInv, Published, Holder

\* Holder depends on who is in the critical section only.
LEMMA HolderFrame ==
  ASSUME \A t \in Threads : pc'[t] = "crit" <=> pc[t] = "crit"
  PROVE  Holder' = Holder
  BY DEF Holder

\* The step of a thread that enters or leaves no critical section and keeps the
\* slot is a stutter.
LEMMA Stutter ==
  ASSUME \A t \in Threads : pc'[t] = "crit" <=> pc[t] = "crit", slot' = slot
  PROVE  UNCHANGED Abs!avars
  BY HolderFrame DEF Abs!avars

LEMMA StepRefines ==
  ASSUME LockIInv, LockIInv', [LockNext]_lockVars
  PROVE  [Abs!Next]_(Abs!avars)
  <1> USE DEF Goto, Return, LockIInv, LockTypeOK
  <1>1. CASE NewLazy
    BY <1>1, Stutter DEF NewLazy
  <1>2. ASSUME NEW t \in Threads, TryNew(t) PROVE UNCHANGED Abs!avars
    BY <1>2, Stutter DEF TryNew, Private, Quiet, Calls
  <1>3. ASSUME NEW t \in Threads, NEW o \in {"arm", "fmt", "lock"}, Begin(t, o) PROVE UNCHANGED Abs!avars
    BY <1>3, Stutter DEF Begin, Calls
  <1>4. ASSUME NEW t \in Threads, Load(t) PROVE UNCHANGED Abs!avars
    BY <1>4, Stutter DEF Load, Populated
  <1>5. ASSUME NEW t \in Threads, Alloc(t) PROVE UNCHANGED Abs!avars
    BY <1>5, Stutter DEF Alloc
  <1>6. ASSUME NEW t \in Threads, AllocFail(t) PROVE UNCHANGED Abs!avars
    BY <1>6, Stutter DEF AllocFail
  <1>7. ASSUME NEW t \in Threads, Activate(t) PROVE UNCHANGED Abs!avars
    BY <1>7, Stutter DEF Activate
  <1>8. ASSUME NEW t \in Threads, Cas(t) PROVE [Abs!Next]_(Abs!avars)
    <2>1. \A u \in Threads : pc'[u] = "crit" <=> pc[u] = "crit"
      BY <1>8 DEF Cas, Populated
    <2>2. CASE slot # Null
      BY <1>8, <2>1, <2>2, Stutter DEF Cas
    <2>3. CASE slot = Null
      <3>1. slot' # Null
        BY <1>8, <2>3, NullAssumption DEF Cas, Payloads, Working
      <3> QED
        BY <2>1, <2>3, <3>1, HolderFrame DEF Abs!Next, Abs!Arm
    <2> QED
      BY <2>2, <2>3
  <1>9. ASSUME NEW t \in Threads, Reclaim(t) PROVE UNCHANGED Abs!avars
    BY <1>9, Stutter DEF Reclaim, Populated
  <1>10. ASSUME NEW t \in Threads, LockAcquire(t) PROVE Abs!Acquire(t)
    <2>1. slot # Null /\ slot' = slot /\ held[slot] = NoOne
      BY <1>10 DEF LockAcquire, Published
    <2>2. \A u \in Threads : pc[u] # "crit"
      BY <2>1, NoOneAssumption DEF Published
    <2>3. pc'[t] = "crit"
      BY <1>10 DEF LockAcquire
    <2>4. Holder = NoOne
      BY <2>2, HolderIs
    <2>5. Holder' = t
      <3>1. \A u \in Threads : pc'[u] = "crit" => u = t
        BY <1>10, <2>2 DEF LockAcquire
      <3> QED
        BY <2>3, <3>1 DEF Holder
    <2> QED
      BY <2>1, <2>4, <2>5 DEF Abs!Acquire
  <1>11. ASSUME NEW t \in Threads, InspectBusy(t) PROVE UNCHANGED Abs!avars
    BY <1>11, Stutter DEF InspectBusy
  <1>12. ASSUME NEW t \in Threads, Unlock(t) PROVE Abs!Release(t)
    <2>1. slot' = slot /\ pc[t] = "crit"
      BY <1>12 DEF Unlock
    <2>2. Holder = t
      BY <2>1, HolderIs
    <2>3. \A u \in Threads : pc[u] = "crit" => u = t
      BY <2>1 DEF Published
    <2>4. \A u \in Threads : pc'[u] # "crit"
      BY <1>12, <2>3 DEF Unlock
    <2>5. Holder' = NoOne
      BY <2>4 DEF Holder
    <2> QED
      BY <2>1, <2>2, <2>5 DEF Abs!Release
  <1>13. CASE Drop
    <2>1. Holder = NoOne /\ Holder' = NoOne
      BY <1>13 DEF Drop, Quiet, Calls, Holder
    <2>2. slot' = Null
      BY <1>13 DEF Drop
    <2> QED
      BY <2>1, <2>2 DEF Abs!Next, Abs!Disarm, Abs!avars
  <1>14. CASE UNCHANGED lockVars
    BY <1>14, Stutter DEF lockVars
  <1>15. QED
    BY <1>1, <1>2, <1>3, <1>4, <1>5, <1>6, <1>7, <1>8, <1>9, <1>10, <1>11, <1>12,
       <1>13, <1>14 DEF LockNext, Call, ArmStep, LockStep, ProcessGone, Abs!Next

\* The whole race - armers, lazy lockers, inspectors, constructors - implements
\* one mutex whose backend appears once and is held by one thread at a time.
THEOREM Refinement == LockSpec => ImplementsArmedMutex
  <1>1. LockInit => Abs!Init
    BY DEF LockInit, Abs!Init, Holder
  <1>2. LockIInv /\ LockIInv' /\ [LockNext]_lockVars => [Abs!Next]_(Abs!avars)
    BY StepRefines
  <1> QED
    BY <1>1, <1>2, LockInvariance, PTL DEF LockSpec, ImplementsArmedMutex, Abs!Spec


(***************************************************************************)
(* SystemRandom.  SecureIsSeeded speaks of answers, which come long after   *)
(* the byte was drawn: what carries it is that a secure call draws nothing  *)
(* before the pool is ready, by either road.                                *)
(***************************************************************************)

\* The flag all threads trust means what it says.
ReadyMeansPool == urandom_ready => pool

\* A secure call asks the system call to wait, and reads the device only when
\* it has waited.
SecureWaits == \A t \in Callers : mode[t] = "secure" =>
  /\ at[t] = "call" => flags[t] = "none"
  /\ at[t] = "read" => pool
  /\ ~early[t]

RandomInv == RandomTypeOK /\ ReadyMeansPool /\ SecureWaits /\ ErrorsHaveCause

-------------------------------------------------------------------------------

\* Nothing has been called, and URANDOM_READY is false.
LEMMA RandomInitInv == RandomInit => RandomInv
<1> SUFFICES ASSUME RandomInit PROVE RandomInv
  OBVIOUS
<1> USE DEF RandomInit
<1>1. 0 \in 0..Length
  BY LengthAssumption
<1>2. RandomTypeOK
  BY <1>1, Zenon DEF RandomTypeOK, Modes
<1>3. ReadyMeansPool /\ SecureWaits /\ ErrorsHaveCause
  BY DEF ReadyMeansPool, SecureWaits, ErrorsHaveCause
<1> QED
  BY <1>2, <1>3 DEF RandomInv

\* Every step of getrandom_impl, and what the kernel does, keeps the types.
LEMMA RandomTypeInductive == RandomTypeOK /\ [RandomNext]_randomVars => RandomTypeOK'
<1> SUFFICES ASSUME RandomTypeOK, [RandomNext]_randomVars PROVE RandomTypeOK'
  OBVIOUS
<1> USE LengthAssumption DEF RandomTypeOK, Modes, Proceed, kvars, shared
<1>1. CASE PoolReady
  BY <1>1 DEF PoolReady
<1>2. ASSUME NEW t \in Callers, GetRandom(t) PROVE RandomTypeOK'
  BY <1>2 DEF GetRandom
<1>3. ASSUME NEW t \in Callers,
             Resolve(t) \/ SyscallDone(t) \/ PickFlags(t) \/ CheckReady(t)
               \/ OpenRandom(t) \/ PollLoop(t) \/ Polled(t)
      PROVE RandomTypeOK'
  BY <1>3 DEF Resolve, SyscallDone, PickFlags, CheckReady, OpenRandom, PollLoop,
              Polled, Filled
<1>4. ASSUME NEW t \in Callers, Bytes(t) PROVE RandomTypeOK'
  BY <1>4 DEF Bytes
<1>5. ASSUME NEW t \in Callers, InvalidFlags(t) \/ FallBack(t)
      PROVE RandomTypeOK'
  BY <1>5 DEF InvalidFlags, FallBack, Failed
<1>6. ASSUME NEW t \in Callers, Fault(t) \/ Interrupted(t) \/ PollInterrupted(t)
      PROVE RandomTypeOK'
  BY <1>6 DEF Fault, SyscallFails, PollFails, ReadFails, Broken, Failed, Interrupted,
              PollInterrupted
<1>7. ASSUME NEW t \in Callers, Read(t) PROVE RandomTypeOK'
  <2>1. early' \in [Callers -> BOOLEAN]
    BY <1>7, Zenon DEF Read
  <2>2. rest' \in [Callers -> 0..Length]
    BY <1>7 DEF Read
  <2> QED
    BY <1>7, <2>1, <2>2 DEF Read, Filled
<1>8. CASE UNCHANGED randomVars
  BY <1>8 DEF randomVars
<1> QED
  BY <1>1, <1>2, <1>3, <1>4, <1>5, <1>6, <1>7, <1>8 DEF RandomNext, Progress

\* Only poll(/dev/random) sets URANDOM_READY, and the pool stays ready.
LEMMA ReadyInductive == ReadyMeansPool /\ [RandomNext]_randomVars => ReadyMeansPool'
  BY DEF ReadyMeansPool, RandomNext, randomVars, kvars, shared, PoolReady, GetRandom, Progress, Fault,
         Resolve, SyscallDone, PickFlags, Bytes, InvalidFlags, FallBack, CheckReady,
         OpenRandom, PollLoop, Polled, Read, SyscallFails, PollFails, ReadFails,
         Interrupted, PollInterrupted

\* A secure call draws from a seeded pool, whichever step of whichever thread
\* is taken: the step moves one thread, and only makes the pool ready.
LEMMA SecureInductive ==
  RandomTypeOK /\ ReadyMeansPool /\ SecureWaits /\ [RandomNext]_randomVars => SecureWaits'
<1> SUFFICES ASSUME RandomTypeOK, ReadyMeansPool, SecureWaits, [RandomNext]_randomVars,
                    NEW u \in Callers, mode'[u] = "secure"
             PROVE /\ at'[u] = "call" => flags'[u] = "none"
                   /\ at'[u] = "read" => pool'
                   /\ ~early'[u]
  BY DEF SecureWaits
<1> USE DEF RandomTypeOK, SecureWaits, Modes, Proceed, kvars, shared
<1>1. CASE PoolReady
  BY <1>1 DEF PoolReady
<1>2. ASSUME NEW t \in Callers, GetRandom(t)
      PROVE /\ at'[u] = "call" => flags'[u] = "none"
            /\ at'[u] = "read" => pool'
            /\ ~early'[u]
  <2>1. CASE u = t
    BY <1>2, <2>1 DEF GetRandom
  <2>2. CASE u # t
    BY <1>2, <2>2 DEF GetRandom
  <2> QED
    BY <2>1, <2>2
<1>3. ASSUME NEW t \in Callers, Progress(t) \/ Fault(t) \/ Interrupted(t) \/ PollInterrupted(t)
      PROVE /\ at'[u] = "call" => flags'[u] = "none"
            /\ at'[u] = "read" => pool'
            /\ ~early'[u]
  <2>1. CASE Resolve(t) \/ SyscallDone(t) \/ PickFlags(t)
    BY <2>1 DEF Resolve, SyscallDone, PickFlags, Filled, Insecure
  <2>2. CASE Bytes(t) \/ Interrupted(t) \/ FallBack(t)
    BY <2>2 DEF Bytes, Interrupted, FallBack, Served
  <2>3. CASE InvalidFlags(t) \/ SyscallFails(t)
    BY <2>3 DEF InvalidFlags, SyscallFails, Broken, Failed
  <2>4. CASE CheckReady(t) \/ OpenRandom(t) \/ PollLoop(t) \/ Polled(t) \/ PollInterrupted(t)
    BY <2>4 DEF CheckReady, OpenRandom, PollLoop, Polled, PollInterrupted, NeedNotWait,
                Insecure, ReadyMeansPool
  <2>5. CASE Read(t) \/ ReadFails(t) \/ PollFails(t)
    BY <2>5 DEF Read, ReadFails, PollFails, Filled, Broken, Failed
  <2> QED
    BY <1>3, <2>1, <2>2, <2>3, <2>4, <2>5 DEF Progress, Fault
<1>4. CASE UNCHANGED randomVars
  BY <1>4 DEF randomVars
<1> QED
  BY <1>1, <1>2, <1>3, <1>4 DEF RandomNext

\* An error is returned by a step that records its cause: EINVAL comes only for
\* the flags this call passed, so it is always retried.
LEMMA CauseInductive ==
  RandomTypeOK /\ ErrorsHaveCause /\ [RandomNext]_randomVars => ErrorsHaveCause'
<1> SUFFICES ASSUME RandomTypeOK, ErrorsHaveCause, [RandomNext]_randomVars,
                    NEW u \in Callers, answer'[u] \in {"error", "mixed"}
             PROVE fault'[u]
  BY DEF ErrorsHaveCause
<1> USE DEF RandomTypeOK, ErrorsHaveCause, Modes, Proceed, kvars, shared
<1>1. CASE PoolReady
  BY <1>1 DEF PoolReady
<1>2. ASSUME NEW t \in Callers, GetRandom(t) PROVE fault'[u]
  BY <1>2 DEF GetRandom
<1>3. ASSUME NEW t \in Callers, Progress(t) PROVE fault'[u]
  <2>1. CASE InvalidFlags(t)
    BY <2>1 DEF InvalidFlags, Unsupported, InsecureRejected
  <2>2. CASE SyscallDone(t) \/ Read(t)
    BY <2>2 DEF SyscallDone, Read, Filled
  <2>3. CASE ~InvalidFlags(t) /\ ~SyscallDone(t) /\ ~Read(t)
    BY <1>3, <2>3 DEF Progress, Resolve, PickFlags, Bytes, FallBack, CheckReady, OpenRandom,
                      PollLoop, Polled
  <2> QED
    BY <2>1, <2>2, <2>3
<1>4. ASSUME NEW t \in Callers, Fault(t) PROVE fault'[u]
  <2>1. Broken(t)
    BY <1>4 DEF Fault, SyscallFails, PollFails, ReadFails
  <2> QED
    BY <2>1 DEF Broken, Failed
<1>5. ASSUME NEW t \in Callers, Interrupted(t) \/ PollInterrupted(t) PROVE fault'[u]
  BY <1>5 DEF Interrupted, PollInterrupted
<1>6. CASE UNCHANGED randomVars
  BY <1>6 DEF randomVars
<1> QED
  BY <1>1, <1>2, <1>3, <1>4, <1>5, <1>6 DEF RandomNext

\* What holds of every reachable state, with no fairness assumed.
THEOREM RandomInvariance == RandomSpec => []RandomInv
<1>1. RandomInv /\ [RandomNext]_randomVars => RandomInv'
  BY RandomTypeInductive, ReadyInductive, SecureInductive, CauseInductive DEF RandomInv
<1> QED
  BY RandomInitInv, <1>1, PTL DEF RandomSpec

\* No byte that fill_bytes returns was drawn before the pool was seeded.
THEOREM Seeded == RandomSpec => []SecureIsSeeded
<1>1. RandomInv => SecureIsSeeded
  BY DEF RandomInv, SecureWaits, SecureIsSeeded
<1> QED
  BY RandomInvariance, <1>1, PTL

\* No call fails for what another thread found out about the kernel.
THEOREM Justified == RandomSpec => []ErrorsHaveCause
<1>1. RandomInv => ErrorsHaveCause
  BY DEF RandomInv
<1> QED
  BY RandomInvariance, <1>1, PTL

(***************************************************************************)
(* The inductive invariant.                                                *)
(***************************************************************************)

\* The guard's count: the items of the shard, and the iterator while it is there.
Sharers(s) == {k \in items : ShardOf[k] = s}
Counted ==
  /\ IsFiniteSet(items)
  /\ \A s \in Shards :
       strong[s] = Cardinality(Sharers(s)) + (IF open /\ idx = s THEN 1 ELSE 0)

\* A shard that is guarded is not changed by others.
Protected ==
  /\ \A s \in Shards : Guarded(s) => other[s] # "write" /\ (mutable => other[s] = "none")
  /\ items \subseteq table

\* What is left of the open shard is still in it.
Cursor ==
  /\ open => /\ idx \in Shards
             /\ left \subseteq Elements(idx) /\ pending \notin left
             /\ pending # NoKey => pending \in Elements(idx)
  /\ ~open => left = {} /\ pending = NoKey
  /\ last = "dropped" => ~running /\ ~open
  /\ last = "end" => idx = ShardCount

\* The keys the iterator is done with.
Passed(k) ==
  \/ ShardOf[k] < idx
  \/ ShardOf[k] = idx /\ open /\ k \notin left /\ k # pending

\* Only those were yielded, each once; only what was yielded is held.
Given ==
  /\ \A k \in Keys : yields[k] <= 1
  /\ \A k \in Keys : yields[k] > 0 => last = "dropped" \/ Passed(k)
  /\ \A k \in items : yields[k] > 0

\* A caller that only retries and unstalls gives up what an error was about.
Accounted ==
  /\ pending # NoKey => pending \in blamed
  /\ opted # "rudely" => ~auto
  /\ opted # "rudely" /\ last = "error" /\ ~running /\ ~open =>
       \A k \in stayed : ShardOf[k] = idx => k \in blamed
  /\ opted # "rudely" /\ last # "dropped" =>
       \A k \in stayed : Passed(k) => yields[k] = 1 \/ (opted = "unstall" /\ k \in blamed)

IInv == TypeOK /\ Counted /\ Protected /\ Cursor /\ Given /\ Accounted

-------------------------------------------------------------------------------

\* Whoever shares the guard keeps the shard locked.
LEMMA GuardFacts ==
  ASSUME IInv
  PROVE  /\ \A s \in Shards : strong[s] \in Nat /\ Cardinality(Sharers(s)) \in Nat
         /\ open => Guarded(idx)
         /\ \A k \in items : ShardOf[k] \in Shards /\ Guarded(ShardOf[k])
  <1>1. ASSUME NEW s \in Shards
        PROVE  /\ IsFiniteSet(Sharers(s)) /\ Cardinality(Sharers(s)) \in Nat
               /\ Cardinality(Sharers(s)) = 0 <=> Sharers(s) = {}
    <2>1. IsFiniteSet(Sharers(s))
      BY FS_Subset DEF IInv, Counted, Sharers
    <2> QED
      BY <2>1, FS_CardinalityType, FS_EmptySet
  <1>2. \A s \in Shards : strong[s] \in Nat
    BY <1>1 DEF IInv, Counted
  <1>3. open => Guarded(idx)
    BY <1>1 DEF IInv, Counted, Cursor, Guarded
  <1>4. ASSUME NEW k \in items
        PROVE  ShardOf[k] \in Shards /\ Guarded(ShardOf[k])
    <2>1. ShardOf[k] \in Shards
      BY ShardsAssumption DEF IInv, TypeOK
    <2>2. Sharers(ShardOf[k]) # {}
      BY DEF Sharers
    <2>3. Cardinality(Sharers(ShardOf[k])) > 0
      BY <1>1, <2>1, <2>2
    <2>4. strong[ShardOf[k]] >= Cardinality(Sharers(ShardOf[k]))
      BY <1>1, <2>1 DEF IInv, Counted
    <2> QED
      BY <1>1, <1>2, <2>1, <2>3, <2>4 DEF Guarded
  <1> QED
    BY <1>1, <1>2, <1>3, <1>4

\* Types.
LEMMA TypeStep ==
  ASSUME IInv, Next
  PROVE  TypeOK'
  <1> USE ShardsAssumption, NamesAssumption DEF IInv, Shards
  <1>1. ASSUME NEW s \in Shards, NEW how \in {"read", "write"}, OtherLock(s, how) PROVE TypeOK'
    BY <1>1 DEF TypeOK, Cursor, Elements, OtherLock, iterVars
  <1>2. ASSUME NEW s \in Shards, OtherUnlock(s) PROVE TypeOK'
    BY <1>2 DEF TypeOK, Cursor, Elements, OtherUnlock, iterVars
  <1>3. ASSUME NEW k \in Keys, OtherInsert(k) PROVE TypeOK'
    BY <1>3 DEF TypeOK, Cursor, Elements, OtherInsert, iterVars
  <1>4. ASSUME NEW k \in Keys, OtherRemove(k) PROVE TypeOK'
    BY <1>4 DEF TypeOK, Cursor, Elements, OtherRemove, iterVars
  <1>5. ASSUME CallNext PROVE TypeOK'
    BY <1>5 DEF TypeOK, Cursor, Elements, CallNext, otherVars, iterVars
  <1>6. ASSUME Finished PROVE TypeOK'
    BY <1>6 DEF TypeOK, Cursor, Elements, Finished, otherVars, iterVars, Returns
  <1>7. ASSUME SkipEmpty PROVE TypeOK'
    BY <1>7 DEF TypeOK, Cursor, Elements, SkipEmpty, otherVars, Locked, Loops
  <1>8. ASSUME ArcFails PROVE TypeOK'
    <2>1. CASE auto
      BY <1>8, <2>1 DEF TypeOK, ArcFails, otherVars, Locked, Loops
    <2>2. CASE ~auto
      <3>1. Elements(idx) \subseteq Keys
        BY DEF TypeOK, Elements
      <3> QED
        BY <1>8, <2>2, <3>1 DEF TypeOK, ArcFails, otherVars, Locked, Returns
    <2> QED
      BY <2>1, <2>2
  <1>9. ASSUME ArcNew PROVE TypeOK'
    BY <1>9 DEF TypeOK, Cursor, Elements, ArcNew, otherVars, Locked, Loops
  <1>10. ASSUME NEW k \in Keys, Yield(k) PROVE TypeOK'
    <2>1. yields' \in [Keys -> 0 .. 2] /\ strong' \in [Shards -> Int]
      BY <1>10 DEF TypeOK, Cursor, Yield, Popped
    <2> QED
      BY <1>10, <2>1 DEF TypeOK, Yield, otherVars, Popped, Returns
  <1>11. ASSUME NEW k \in Keys, CloneFails(k) PROVE TypeOK'
    BY <1>11 DEF TypeOK, Cursor, Elements, CloneFails, otherVars, Popped, Loops, Returns
  <1>12. ASSUME Exhausted PROVE TypeOK'
    <2>1. idx' \in 0 .. ShardCount /\ strong' \in [Shards -> Int]
      BY <1>12 DEF TypeOK, Cursor, Exhausted
    <2> QED
      BY <1>12, <2>1 DEF TypeOK, Exhausted, otherVars, Loops
  <1>13. ASSUME Unstall PROVE TypeOK'
    BY <1>13 DEF TypeOK, Cursor, Elements, Unstall, otherVars, Stalled
  <1>14. ASSUME NEW b \in BOOLEAN, SetAutoUnstall(b) PROVE TypeOK'
    BY <1>14 DEF TypeOK, Cursor, Elements, SetAutoUnstall, otherVars, iterVars
  <1>15. ASSUME NEW k \in Keys, DropItem(k) PROVE TypeOK'
    BY <1>15 DEF TypeOK, Cursor, Elements, DropItem, otherVars, iterVars
  <1>16. ASSUME DropIter PROVE TypeOK'
    <2>1. strong' \in [Shards -> Int]
      BY <1>16 DEF TypeOK, Cursor, DropIter
    <2> QED
      BY <1>16, <2>1 DEF TypeOK, DropIter, otherVars
  <1> QED
    BY <1>1, <1>2, <1>3, <1>4, <1>5, <1>6, <1>7, <1>8, <1>9, <1>10, <1>11, <1>12, <1>13,
       <1>14, <1>15, <1>16
       DEF Next, Others, Locks, Works, Caller

\* No step unlocks a shard that items point into.
LEMMA ProtectedStep ==
  ASSUME IInv, Next
  PROVE  Protected'
  <1> USE ShardsAssumption, NamesAssumption DEF IInv, Shards
  <1>1. ASSUME NEW s \in Shards, NEW how \in {"read", "write"}, OtherLock(s, how) PROVE Protected'
    BY <1>1, GuardFacts
       DEF TypeOK, Protected, Guarded, Cursor, Elements, OtherLock, iterVars
  <1>2. ASSUME NEW s \in Shards, OtherUnlock(s) PROVE Protected'
    BY <1>2, GuardFacts
       DEF TypeOK, Protected, Guarded, Cursor, Elements, OtherUnlock, iterVars
  <1>3. ASSUME NEW k \in Keys, OtherInsert(k) PROVE Protected'
    BY <1>3, GuardFacts
       DEF TypeOK, Protected, Guarded, Cursor, Elements, OtherInsert, iterVars
  <1>4. ASSUME NEW k \in Keys, OtherRemove(k) PROVE Protected'
    BY <1>4, GuardFacts
       DEF TypeOK, Protected, Guarded, Cursor, Elements, OtherRemove, iterVars
  <1>5. ASSUME CallNext PROVE Protected'
    BY <1>5, GuardFacts
       DEF TypeOK, Protected, Guarded, Cursor, Elements, CallNext, otherVars, iterVars
  <1>6. ASSUME Finished PROVE Protected'
    BY <1>6, GuardFacts
       DEF TypeOK, Protected, Guarded, Cursor, Elements, Finished, otherVars, iterVars,
           Returns
  <1>7. ASSUME SkipEmpty PROVE Protected'
    BY <1>7, GuardFacts
       DEF TypeOK, Protected, Guarded, Cursor, Elements, SkipEmpty, otherVars, Locked,
           Loops
  <1>8. ASSUME ArcFails PROVE Protected'
    BY <1>8, GuardFacts
       DEF TypeOK, Protected, Guarded, Cursor, Elements, ArcFails, otherVars, Locked,
           Loops, Returns
  <1>9. ASSUME ArcNew PROVE Protected'
    BY <1>9, GuardFacts
       DEF TypeOK, Protected, Guarded, Cursor, Elements, ArcNew, otherVars, Locked,
           Loops
  <1>10. ASSUME NEW k \in Keys, Yield(k) PROVE Protected'
    BY <1>10, GuardFacts
       DEF TypeOK, Protected, Guarded, Cursor, Elements, Yield, otherVars, Popped,
           Returns
  <1>11. ASSUME NEW k \in Keys, CloneFails(k) PROVE Protected'
    BY <1>11, GuardFacts
       DEF TypeOK, Protected, Guarded, Cursor, Elements, CloneFails, otherVars, Popped,
           Loops, Returns
  <1>12. ASSUME Exhausted PROVE Protected'
    BY <1>12, GuardFacts
       DEF TypeOK, Protected, Guarded, Cursor, Elements, Exhausted, otherVars, Loops
  <1>13. ASSUME Unstall PROVE Protected'
    BY <1>13, GuardFacts
       DEF TypeOK, Protected, Guarded, Cursor, Elements, Unstall, otherVars, Stalled
  <1>14. ASSUME NEW b \in BOOLEAN, SetAutoUnstall(b) PROVE Protected'
    BY <1>14, GuardFacts
       DEF TypeOK, Protected, Guarded, Cursor, Elements, SetAutoUnstall, otherVars,
           iterVars
  <1>15. ASSUME NEW k \in Keys, DropItem(k) PROVE Protected'
    BY <1>15, GuardFacts
       DEF TypeOK, Protected, Guarded, Cursor, Elements, DropItem, otherVars, iterVars
  <1>16. ASSUME DropIter PROVE Protected'
    BY <1>16, GuardFacts
       DEF TypeOK, Protected, Guarded, Cursor, Elements, DropIter, otherVars
  <1> QED
    BY <1>1, <1>2, <1>3, <1>4, <1>5, <1>6, <1>7, <1>8, <1>9, <1>10, <1>11, <1>12, <1>13,
       <1>14, <1>15, <1>16
       DEF Next, Others, Locks, Works, Caller

\* The open shard is as the iterator found it.
LEMMA CursorStep ==
  ASSUME IInv, Next
  PROVE  Cursor'
  <1> USE ShardsAssumption, NamesAssumption DEF IInv, Shards
  <1>1. ASSUME NEW s \in Shards, NEW how \in {"read", "write"}, OtherLock(s, how) PROVE Cursor'
    BY <1>1, GuardFacts
       DEF TypeOK, Cursor, Protected, Guarded, Elements, OtherLock, iterVars
  <1>2. ASSUME NEW s \in Shards, OtherUnlock(s) PROVE Cursor'
    BY <1>2, GuardFacts
       DEF TypeOK, Cursor, Protected, Guarded, Elements, OtherUnlock, iterVars
  <1>3. ASSUME NEW k \in Keys, OtherInsert(k) PROVE Cursor'
    BY <1>3, GuardFacts
       DEF TypeOK, Cursor, Protected, Guarded, Elements, OtherInsert, iterVars
  <1>4. ASSUME NEW k \in Keys, OtherRemove(k) PROVE Cursor'
    BY <1>4, GuardFacts
       DEF TypeOK, Cursor, Protected, Guarded, Elements, OtherRemove, iterVars
  <1>5. ASSUME CallNext PROVE Cursor'
    BY <1>5, GuardFacts
       DEF TypeOK, Cursor, Protected, Guarded, Elements, CallNext, otherVars, iterVars
  <1>6. ASSUME Finished PROVE Cursor'
    BY <1>6, GuardFacts
       DEF TypeOK, Cursor, Protected, Guarded, Elements, Finished, otherVars, iterVars,
           Returns
  <1>7. ASSUME SkipEmpty PROVE Cursor'
    BY <1>7, GuardFacts
       DEF TypeOK, Cursor, Protected, Guarded, Elements, SkipEmpty, otherVars, Locked,
           Loops
  <1>8. ASSUME ArcFails PROVE Cursor'
    <2>1. UNCHANGED <<table, open, left, pending>> /\ ~open /\ running
      BY <1>8 DEF ArcFails, Locked, otherVars
    <2>2. last' # "dropped" /\ last' # "end"
      <3>1. last # "dropped" /\ (last = "end" => idx = ShardCount)
        BY <2>1 DEF Cursor
      <3>2. idx # ShardCount
        BY <1>8 DEF ArcFails, Locked, TypeOK
      <3> QED
        BY <1>8, <3>1, <3>2 DEF ArcFails, Loops, Returns
    <2> QED
      BY <2>1, <2>2 DEF Cursor
  <1>9. ASSUME ArcNew PROVE Cursor'
    BY <1>9, GuardFacts
       DEF TypeOK, Cursor, Protected, Guarded, Elements, ArcNew, otherVars, Locked,
           Loops
  <1>10. ASSUME NEW k \in Keys, Yield(k) PROVE Cursor'
    BY <1>10, GuardFacts
       DEF TypeOK, Cursor, Protected, Guarded, Elements, Yield, otherVars, Popped,
           Returns
  <1>11. ASSUME NEW k \in Keys, CloneFails(k) PROVE Cursor'
    BY <1>11, GuardFacts
       DEF TypeOK, Cursor, Protected, Guarded, Elements, CloneFails, otherVars, Popped,
           Loops, Returns
  <1>12. ASSUME Exhausted PROVE Cursor'
    BY <1>12, GuardFacts
       DEF TypeOK, Cursor, Protected, Guarded, Elements, Exhausted, otherVars, Loops
  <1>13. ASSUME Unstall PROVE Cursor'
    BY <1>13, GuardFacts
       DEF TypeOK, Cursor, Protected, Guarded, Elements, Unstall, otherVars, Stalled
  <1>14. ASSUME NEW b \in BOOLEAN, SetAutoUnstall(b) PROVE Cursor'
    BY <1>14, GuardFacts
       DEF TypeOK, Cursor, Protected, Guarded, Elements, SetAutoUnstall, otherVars,
           iterVars
  <1>15. ASSUME NEW k \in Keys, DropItem(k) PROVE Cursor'
    BY <1>15, GuardFacts
       DEF TypeOK, Cursor, Protected, Guarded, Elements, DropItem, otherVars, iterVars
  <1>16. ASSUME DropIter PROVE Cursor'
    BY <1>16, GuardFacts
       DEF TypeOK, Cursor, Protected, Guarded, Elements, DropIter, otherVars
  <1> QED
    BY <1>1, <1>2, <1>3, <1>4, <1>5, <1>6, <1>7, <1>8, <1>9, <1>10, <1>11, <1>12, <1>13,
       <1>14, <1>15, <1>16
       DEF Next, Others, Locks, Works, Caller

\* Nothing is yielded that the iterator had passed.
LEMMA GivenStep ==
  ASSUME IInv, Next
  PROVE  Given'
  <1> USE ShardsAssumption, NamesAssumption DEF IInv, Shards
  <1>1. ASSUME NEW s \in Shards, NEW how \in {"read", "write"}, OtherLock(s, how) PROVE Given'
    BY <1>1 DEF TypeOK, Given, Cursor, Passed, Elements, OtherLock, iterVars
  <1>2. ASSUME NEW s \in Shards, OtherUnlock(s) PROVE Given'
    BY <1>2 DEF TypeOK, Given, Cursor, Passed, Elements, OtherUnlock, iterVars
  <1>3. ASSUME NEW k \in Keys, OtherInsert(k) PROVE Given'
    BY <1>3 DEF TypeOK, Given, Cursor, Passed, Elements, OtherInsert, iterVars
  <1>4. ASSUME NEW k \in Keys, OtherRemove(k) PROVE Given'
    BY <1>4 DEF TypeOK, Given, Cursor, Passed, Elements, OtherRemove, iterVars
  <1>5. ASSUME CallNext PROVE Given'
    BY <1>5 DEF TypeOK, Given, Cursor, Passed, Elements, CallNext, otherVars, iterVars
  <1>6. ASSUME Finished PROVE Given'
    BY <1>6
       DEF TypeOK, Given, Cursor, Passed, Elements, Finished, otherVars, iterVars,
           Returns
  <1>7. ASSUME SkipEmpty PROVE Given'
    BY <1>7
       DEF TypeOK, Given, Cursor, Passed, Elements, SkipEmpty, otherVars, Locked, Loops
  <1>8. ASSUME ArcFails PROVE Given'
    <2>1. UNCHANGED <<open, left, pending, items, yields>> /\ ~open /\ running /\ last # "dropped"
      BY <1>8 DEF ArcFails, Locked, Cursor
    <2>2. idx' \in {idx, idx + 1}
      BY <1>8 DEF ArcFails
    <2>3. ASSUME NEW k \in Keys, Passed(k)
          PROVE  Passed(k)'
      BY <2>1, <2>2, <2>3 DEF Passed, TypeOK
    <2> QED
      BY <2>1, <2>3 DEF Given, TypeOK
  <1>9. ASSUME ArcNew PROVE Given'
    BY <1>9
       DEF TypeOK, Given, Cursor, Passed, Elements, ArcNew, otherVars, Locked, Loops
  <1>10. ASSUME NEW k \in Keys, Yield(k) PROVE Given'
    <2>1. /\ running /\ open /\ k \notin left' /\ pending' = NoKey /\ ShardOf[k] = idx
          /\ UNCHANGED <<idx, open>> /\ last # "dropped"
      BY <1>10 DEF Yield, Popped, Cursor, Elements
    <2>2. ~Passed(k) /\ Passed(k)'
      BY <1>10, <2>1 DEF Passed, TypeOK, Cursor, Yield, Popped
    <2>3. yields[k] = 0
      BY <2>1, <2>2 DEF Given, TypeOK
    <2>4. yields' = [yields EXCEPT ![k] = 1]
      BY <1>10, <2>3 DEF Yield, TypeOK
    <2>5. ASSUME NEW j \in Keys, Passed(j)
          PROVE  Passed(j)'
      BY <1>10, <2>1, <2>5 DEF Passed, TypeOK, Yield, Popped
    <2> QED
      BY <1>10, <2>1, <2>2, <2>4, <2>5 DEF Given, TypeOK, Yield
  <1>11. ASSUME NEW k \in Keys, CloneFails(k) PROVE Given'
    BY <1>11
       DEF TypeOK, Given, Cursor, Passed, Elements, CloneFails, otherVars, Popped,
           Loops, Returns
  <1>12. ASSUME Exhausted PROVE Given'
    BY <1>12 DEF TypeOK, Given, Cursor, Passed, Elements, Exhausted, otherVars, Loops
  <1>13. ASSUME Unstall PROVE Given'
    BY <1>13 DEF TypeOK, Given, Cursor, Passed, Elements, Unstall, otherVars, Stalled
  <1>14. ASSUME NEW b \in BOOLEAN, SetAutoUnstall(b) PROVE Given'
    BY <1>14
       DEF TypeOK, Given, Cursor, Passed, Elements, SetAutoUnstall, otherVars, iterVars
  <1>15. ASSUME NEW k \in Keys, DropItem(k) PROVE Given'
    BY <1>15 DEF TypeOK, Given, Cursor, Passed, Elements, DropItem, otherVars, iterVars
  <1>16. ASSUME DropIter PROVE Given'
    BY <1>16 DEF TypeOK, Given, Cursor, Passed, Elements, DropIter, otherVars
  <1> QED
    BY <1>1, <1>2, <1>3, <1>4, <1>5, <1>6, <1>7, <1>8, <1>9, <1>10, <1>11, <1>12, <1>13,
       <1>14, <1>15, <1>16
       DEF Next, Others, Locks, Works, Caller

\* What is passed without being yielded was given up.
LEMMA AccountedStep ==
  ASSUME IInv, Next
  PROVE  Accounted'
  <1> USE ShardsAssumption, NamesAssumption DEF IInv, Shards
  <1>1. ASSUME NEW s \in Shards, NEW how \in {"read", "write"}, OtherLock(s, how) PROVE Accounted'
    BY <1>1 DEF TypeOK, Accounted, Given, Cursor, Passed, Elements, OtherLock, iterVars
  <1>2. ASSUME NEW s \in Shards, OtherUnlock(s) PROVE Accounted'
    BY <1>2
       DEF TypeOK, Accounted, Given, Cursor, Passed, Elements, OtherUnlock, iterVars
  <1>3. ASSUME NEW k \in Keys, OtherInsert(k) PROVE Accounted'
    BY <1>3
       DEF TypeOK, Accounted, Given, Cursor, Passed, Elements, OtherInsert, iterVars
  <1>4. ASSUME NEW k \in Keys, OtherRemove(k) PROVE Accounted'
    BY <1>4
       DEF TypeOK, Accounted, Given, Cursor, Passed, Elements, OtherRemove, iterVars
  <1>5. ASSUME CallNext PROVE Accounted'
    BY <1>5
       DEF TypeOK, Accounted, Given, Cursor, Passed, Elements, CallNext, otherVars,
           iterVars
  <1>6. ASSUME Finished PROVE Accounted'
    BY <1>6
       DEF TypeOK, Accounted, Given, Cursor, Passed, Elements, Finished, otherVars,
           iterVars, Returns
  <1>7. ASSUME SkipEmpty PROVE Accounted'
    BY <1>7
       DEF TypeOK, Accounted, Given, Cursor, Passed, Elements, SkipEmpty, otherVars,
           Locked, Loops
  <1>8. ASSUME ArcFails PROVE Accounted'
    BY <1>8
       DEF TypeOK, Accounted, Given, Cursor, Passed, Elements, ArcFails, otherVars,
           Locked, Loops, Returns
  <1>9. ASSUME ArcNew PROVE Accounted'
    BY <1>9
       DEF TypeOK, Accounted, Given, Cursor, Passed, Elements, ArcNew, otherVars,
           Locked, Loops
  <1>10. ASSUME NEW k \in Keys, Yield(k) PROVE Accounted'
    BY <1>10
       DEF TypeOK, Accounted, Given, Cursor, Passed, Elements, Yield, otherVars, Popped,
           Returns
  <1>11. ASSUME NEW k \in Keys, CloneFails(k) PROVE Accounted'
    BY <1>11
       DEF TypeOK, Accounted, Given, Cursor, Passed, Elements, CloneFails, otherVars,
           Popped, Loops, Returns
  <1>12. ASSUME Exhausted PROVE Accounted'
    BY <1>12
       DEF TypeOK, Accounted, Given, Cursor, Passed, Elements, Exhausted, otherVars,
           Loops
  <1>13. ASSUME Unstall PROVE Accounted'
    BY <1>13
       DEF TypeOK, Accounted, Given, Cursor, Passed, Elements, Unstall, otherVars,
           Stalled
  <1>14. ASSUME NEW b \in BOOLEAN, SetAutoUnstall(b) PROVE Accounted'
    BY <1>14
       DEF TypeOK, Accounted, Given, Cursor, Passed, Elements, SetAutoUnstall,
           otherVars, iterVars
  <1>15. ASSUME NEW k \in Keys, DropItem(k) PROVE Accounted'
    BY <1>15
       DEF TypeOK, Accounted, Given, Cursor, Passed, Elements, DropItem, otherVars,
           iterVars
  <1>16. ASSUME DropIter PROVE Accounted'
    BY <1>16 DEF TypeOK, Accounted, Given, Cursor, Passed, Elements, DropIter, otherVars
  <1> QED
    BY <1>1, <1>2, <1>3, <1>4, <1>5, <1>6, <1>7, <1>8, <1>9, <1>10, <1>11, <1>12, <1>13,
       <1>14, <1>15, <1>16
       DEF Next, Others, Locks, Works, Caller

\* The count of the shares of a shard, as an item is added or dropped.
LEMMA SharersMore ==
  ASSUME IInv, NEW k \in Keys, k \notin items, items' = items \union {k}
  PROVE  \A s \in Shards : Cardinality(Sharers(s))' = Cardinality(Sharers(s)) + (IF ShardOf[k] = s THEN 1 ELSE 0)
  <1> SUFFICES ASSUME NEW s \in Shards
               PROVE  Cardinality(Sharers(s))' = Cardinality(Sharers(s)) + (IF ShardOf[k] = s THEN 1 ELSE 0)
    OBVIOUS
  <1>1. IsFiniteSet(Sharers(s)) /\ Cardinality(Sharers(s)) \in Nat
    BY FS_Subset, FS_CardinalityType DEF IInv, Counted, Sharers
  <1>2. CASE ShardOf[k] = s
    <2>1. Sharers(s)' = Sharers(s) \union {k} /\ k \notin Sharers(s)
      BY <1>2 DEF Sharers
    <2> QED
      BY <1>1, <1>2, <2>1, FS_AddElement
  <1>3. CASE ShardOf[k] # s
    <2>1. Sharers(s)' = Sharers(s)
      BY <1>3 DEF Sharers
    <2> QED
      BY <1>1, <1>3, <2>1
  <1> QED
    BY <1>2, <1>3

LEMMA SharersLess ==
  ASSUME IInv, NEW k \in items, items' = items \ {k}
  PROVE  \A s \in Shards : Cardinality(Sharers(s))' = Cardinality(Sharers(s)) - (IF ShardOf[k] = s THEN 1 ELSE 0)
  <1> SUFFICES ASSUME NEW s \in Shards
               PROVE  Cardinality(Sharers(s))' = Cardinality(Sharers(s)) - (IF ShardOf[k] = s THEN 1 ELSE 0)
    OBVIOUS
  <1>1. IsFiniteSet(Sharers(s)) /\ Cardinality(Sharers(s)) \in Nat
    BY FS_Subset, FS_CardinalityType DEF IInv, Counted, Sharers
  <1>2. CASE ShardOf[k] = s
    <2>1. Sharers(s)' = Sharers(s) \ {k} /\ k \in Sharers(s)
      BY <1>2 DEF Sharers
    <2> QED
      BY <1>1, <1>2, <2>1, FS_RemoveElement
  <1>3. CASE ShardOf[k] # s
    <2>1. Sharers(s)' = Sharers(s)
      BY <1>3 DEF Sharers
    <2> QED
      BY <1>1, <1>3, <2>1
  <1> QED
    BY <1>2, <1>3

LEMMA SharersSame ==
  ASSUME UNCHANGED items
  PROVE  \A s \in Shards : Cardinality(Sharers(s))' = Cardinality(Sharers(s))
  BY DEF Sharers

\* The count is that of the handles that share the guard.
LEMMA CountedStep ==
  ASSUME IInv, Next
  PROVE  Counted'
  <1> USE ShardsAssumption, NamesAssumption DEF IInv, Shards
  <1>1. ASSUME NEW s \in Shards, NEW how \in {"read", "write"}, OtherLock(s, how) PROVE Counted'
    <2>1. UNCHANGED <<strong, open, items>> /\ (open => UNCHANGED idx)
      BY <1>1 DEF OtherLock, iterVars
    <2> QED
      BY <2>1, SharersSame DEF Counted
  <1>2. ASSUME NEW s \in Shards, OtherUnlock(s) PROVE Counted'
    <2>1. UNCHANGED <<strong, open, items>> /\ (open => UNCHANGED idx)
      BY <1>2 DEF OtherUnlock, iterVars
    <2> QED
      BY <2>1, SharersSame DEF Counted
  <1>3. ASSUME NEW k \in Keys, OtherInsert(k) PROVE Counted'
    <2>1. UNCHANGED <<strong, open, items>> /\ (open => UNCHANGED idx)
      BY <1>3 DEF OtherInsert, iterVars
    <2> QED
      BY <2>1, SharersSame DEF Counted
  <1>4. ASSUME NEW k \in Keys, OtherRemove(k) PROVE Counted'
    <2>1. UNCHANGED <<strong, open, items>> /\ (open => UNCHANGED idx)
      BY <1>4 DEF OtherRemove, iterVars
    <2> QED
      BY <2>1, SharersSame DEF Counted
  <1>5. ASSUME CallNext PROVE Counted'
    <2>1. UNCHANGED <<strong, open, items>> /\ (open => UNCHANGED idx)
      BY <1>5 DEF CallNext, otherVars, iterVars
    <2> QED
      BY <2>1, SharersSame DEF Counted
  <1>6. ASSUME Finished PROVE Counted'
    <2>1. UNCHANGED <<strong, open, items>> /\ (open => UNCHANGED idx)
      BY <1>6 DEF Finished, otherVars, iterVars, Returns
    <2> QED
      BY <2>1, SharersSame DEF Counted
  <1>7. ASSUME SkipEmpty PROVE Counted'
    <2>1. UNCHANGED <<strong, open, items>> /\ (open => UNCHANGED idx)
      BY <1>7 DEF SkipEmpty, otherVars, Locked, Loops
    <2> QED
      BY <2>1, SharersSame DEF Counted
  <1>8. ASSUME ArcFails PROVE Counted'
    <2>1. UNCHANGED <<strong, open, items>> /\ (open => UNCHANGED idx)
      BY <1>8 DEF ArcFails, otherVars, Locked, Loops, Returns
    <2> QED
      BY <2>1, SharersSame DEF Counted
  <1>9. ASSUME ArcNew PROVE Counted'
    <2>1. /\ idx \in Shards /\ ~open /\ open' /\ UNCHANGED <<items, idx>>
          /\ strong' = [strong EXCEPT ![idx] = 1]
      BY <1>9 DEF TypeOK, ArcNew, Locked
    <2>2. Cardinality(Sharers(idx)) = 0
      <3>1. Sharers(idx) = {}
        <4>1. last # "dropped"
          BY <1>9 DEF ArcNew, Locked, Cursor
        <4>2. \A k \in items : ShardOf[k] < idx
          BY <2>1, <4>1 DEF Given, Passed, TypeOK
        <4> QED
          BY <2>1, <4>2 DEF Sharers, TypeOK
      <3> QED
        BY <3>1, FS_EmptySet
    <2>3. ASSUME NEW s \in Shards
          PROVE  strong'[s] = Cardinality(Sharers(s)) + (IF open' /\ idx' = s THEN 1 ELSE 0)
      <3>1. CASE s = idx
        BY <2>1, <2>2, <3>1 DEF TypeOK
      <3>2. CASE s # idx
        BY <2>1, <3>2 DEF TypeOK, Counted
      <3> QED
        BY <3>1, <3>2
    <2> QED
      BY <2>1, <2>3, SharersSame DEF Counted
  <1>10. ASSUME NEW k \in Keys, Yield(k) PROVE Counted'
    <2>1. k \notin items /\ items' = items \union {k} /\ open /\ ShardOf[k] = idx /\ idx \in Shards
      <3>1. open /\ ShardOf[k] = idx /\ idx \in Shards /\ last # "dropped" /\ running
        BY <1>10 DEF Yield, Popped, Cursor, Elements
      <3>2. ~Passed(k)
        BY <1>10, <3>1 DEF Passed, TypeOK, Cursor, Yield, Popped
      <3>3. k \notin items
        BY <3>1, <3>2 DEF Given
      <3> QED
        BY <1>10, <3>1, <3>3 DEF Yield
    <2>2. IsFiniteSet(items')
      BY <2>1, FS_AddElement DEF Counted
    <2>3. strong' = [strong EXCEPT ![idx] = strong[idx] + 1] /\ UNCHANGED <<open, idx>>
      BY <1>10 DEF Yield
    <2>4. ASSUME NEW s \in Shards
          PROVE  Cardinality(Sharers(s))' = Cardinality(Sharers(s)) + (IF idx = s THEN 1 ELSE 0)
      BY <2>1, SharersMore
    <2> QED
      BY <2>1, <2>2, <2>3, <2>4, GuardFacts DEF Counted, TypeOK
  <1>11. ASSUME NEW k \in Keys, CloneFails(k) PROVE Counted'
    <2>1. UNCHANGED <<strong, open, items>> /\ (open => UNCHANGED idx)
      BY <1>11 DEF CloneFails, otherVars, Popped, Loops, Returns
    <2> QED
      BY <2>1, SharersSame DEF Counted
  <1>12. ASSUME Exhausted PROVE Counted'
    <2>1. /\ idx \in Shards /\ open /\ ~open' /\ UNCHANGED items
          /\ strong' = [strong EXCEPT ![idx] = strong[idx] - 1]
      BY <1>12 DEF Cursor, Exhausted
    <2> QED
      BY <2>1, SharersSame, GuardFacts DEF Counted, TypeOK
  <1>13. ASSUME Unstall PROVE Counted'
    <2>1. UNCHANGED <<strong, open, items>> /\ (open => UNCHANGED idx)
      BY <1>13 DEF Unstall, otherVars, Stalled
    <2> QED
      BY <2>1, SharersSame DEF Counted
  <1>14. ASSUME NEW b \in BOOLEAN, SetAutoUnstall(b) PROVE Counted'
    <2>1. UNCHANGED <<strong, open, items>> /\ (open => UNCHANGED idx)
      BY <1>14 DEF SetAutoUnstall, otherVars, iterVars
    <2> QED
      BY <2>1, SharersSame DEF Counted
  <1>15. ASSUME NEW k \in Keys, DropItem(k) PROVE Counted'
    <2>1. /\ k \in items /\ items' = items \ {k} /\ ShardOf[k] \in Shards /\ UNCHANGED <<open, idx>>
          /\ strong' = [strong EXCEPT ![ShardOf[k]] = strong[ShardOf[k]] - 1]
      BY <1>15 DEF DropItem, iterVars, TypeOK
    <2>2. IsFiniteSet(items')
      BY <2>1, FS_RemoveElement DEF Counted
    <2>3. ASSUME NEW s \in Shards
          PROVE  Cardinality(Sharers(s))' = Cardinality(Sharers(s)) - (IF ShardOf[k] = s THEN 1 ELSE 0)
      BY <2>1, SharersLess
    <2> QED
      BY <2>1, <2>2, <2>3, GuardFacts DEF Counted, TypeOK
  <1>16. ASSUME DropIter PROVE Counted'
    <2>1. ~open' /\ UNCHANGED <<items, idx>> /\ (open => idx \in Shards)
      BY <1>16 DEF Cursor, DropIter
    <2>2. CASE open
      BY <1>16, <2>1, <2>2, SharersSame, GuardFacts DEF Counted, TypeOK, DropIter
    <2>3. CASE ~open
      BY <1>16, <2>1, <2>3, SharersSame DEF Counted, DropIter
    <2> QED
      BY <2>2, <2>3
  <1> QED
    BY <1>1, <1>2, <1>3, <1>4, <1>5, <1>6, <1>7, <1>8, <1>9, <1>10, <1>11, <1>12, <1>13,
       <1>14, <1>15, <1>16
       DEF Next, Others, Locks, Works, Caller

\* The invariant holds at the start and every step keeps it.
LEMMA InitInv == Init => IInv
  <1> SUFFICES ASSUME Init PROVE IInv
    OBVIOUS
  <1> USE ShardsAssumption, NamesAssumption DEF Init, Shards
  <1>1. TypeOK
    <2>1. idx \in 0 .. ShardCount
      OBVIOUS
    <2>2. yields \in [Keys -> 0 .. 2] /\ strong \in [Shards -> Int]
      OBVIOUS
    <2>3. other \in [Shards -> {"none", "read", "write"}]
      OBVIOUS
    <2> QED
      BY <2>1, <2>2, <2>3 DEF TypeOK
  <1>2. Counted
    <2>1. \A s \in Shards : Sharers(s) = {}
      BY DEF Sharers
    <2>2. \A s \in Shards : Cardinality(Sharers(s)) = 0
      BY <2>1, FS_EmptySet
    <2>3. IsFiniteSet(items)
      BY FS_EmptySet
    <2> QED
      BY <2>2, <2>3 DEF Counted
  <1>3. Protected /\ Cursor
    BY DEF Protected, Cursor, Guarded
  <1>4. Given
    BY DEF Given
  <1>5. Accounted
    BY DEF Accounted, Passed
  <1> QED
    BY <1>1, <1>2, <1>3, <1>4, <1>5 DEF IInv

LEMMA StepInv == IInv /\ [Next]_vars => IInv'
  <1> SUFFICES ASSUME IInv, [Next]_vars PROVE IInv'
    OBVIOUS
  <1>1. CASE Next
    BY <1>1, TypeStep, CountedStep, ProtectedStep, CursorStep, GivenStep, AccountedStep
       DEF IInv
  <1>2. CASE UNCHANGED vars
    BY <1>2
       DEF vars, IInv, TypeOK, Counted, Sharers, Protected, Guarded, Cursor, Elements,
           Given, Passed, Accounted
  <1> QED
    BY <1>1, <1>2

LEMMA Invariance == Spec => []IInv
  BY InitInv, StepInv, PTL DEF Spec

(***************************************************************************)
(* The theorems.                                                           *)
(***************************************************************************)

\* Every item the caller holds points at an element that is in the map and
\* whose shard stays locked, whatever became of the iterator (iter.rs:1-9).
THEOREM ItemsValid == Spec => []ItemsStayValid
  <1>1. IInv => ItemsStayValid
    BY DEF IInv, Protected, ItemsStayValid
  <1> QED
    BY <1>1, Invariance, PTL

\* No element is given out twice, so no two RefMutMulti alias (iter.rs:331-346).
THEOREM YieldedOnce == Spec => []YieldsOnce
  <1>1. IInv => YieldsOnce
    BY DEF IInv, Given, YieldsOnce
  <1> QED
    BY <1>1, Invariance, PTL

\* An iteration that ends has yielded every element that was there all along,
\* but for those an error was about and the caller gave up (recovery.rs:42-47).
THEOREM LosesNothing == Spec => []NothingLost
  <1>1. IInv => NothingLost
    <2> SUFFICES ASSUME IInv, last = "end", opted # "rudely", NEW k \in stayed
                 PROVE  yields[k] = 1 \/ (opted = "unstall" /\ k \in blamed)
      BY DEF NothingLost
    <2>1. Passed(k)
      BY ShardsAssumption DEF IInv, Cursor, Passed, TypeOK, Shards
    <2> QED
      BY <2>1 DEF IInv, Accounted
  <1> QED
    BY <1>1, Invariance, PTL
===============================================================================
