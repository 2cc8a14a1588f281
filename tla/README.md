# Verification of rustyfill

rustyfill is a Rust workspace of fallible-allocation counterparts of the standard
library: every operation that allocates returns an error instead of aborting, and
promises that a failed operation leaves its data structure as it was, hands back
what it was given, or can be resumed. This directory holds TLA+ models of the
stateful parts of the workspace, the TLC runs that check them, and the TLAPS proofs
about them. In every model an allocation is a choice between success and failure,
so a run covers every way in which memory may run out.

Run `tlc -config <cfg> <module>` for the runs and `tlapm <module>` for the proofs.
`PROJECT.json` maps each definition to the lines it models, and lists the runs, the
mutated definitions each property catches, the hazards and the theorems.

## 1. The system

### Parts with state of their own

| Part | Source | State | Operations |
|---|---|---|---|
| mutex arming | `rustyfill/src/std/sync/mutex_` | the OnceBox slot of a `std::sync::Mutex`, heap payloads, the lock in them | `try_new*`, `try_arm`, `TryDebug`, `lock`, drop |
| SlotMap | `collections/slotmap/basic.rs`, `key.rs` | slots with version counters, an intrusive freelist, the element count | insert, remove, detach, reattach, `try_reserve`, retain, drain, `get_disjoint_mut` |
| SecondaryMap | `collections/slotmap/secondary.rs` | values tagged with the version of a primary map's key | `try_entry`, insert, remove, retain, drain |
| CHashMap | `collections/chashmap/{map,entry,shard}.rs`, `refs/one.rs` | a raw table and a reader-writer lock per shard | get, get_mut, entry, insert, remove, downgrade, `try_reserve`, `try_shrink_to_fit`, len, visit_all, `try_clone` |
| CHashMap iterators | `chashmap/iter.rs`, `refs/multi.rs` | the shard at hand, an `Arc` of its guard, a pending bucket | `next`, `unstall`, `set_auto_unstall`, drop of items and iterator |
| interner | `collections/interner/mod.rs` | sharded tables of weak references, keyed by hash | intern, promote, pruning, clone and drop of handles |
| B-tree insertion | `alloc/btrees` | the standard library's nodes, thread-local scratch buffers | `try_insert`, `VacantEntry::try_insert`, `try_extend` |
| error reports | `rustyfill-errors` | the head, a deque of peers, children per frame, counters of what was lost | push, try_push, `with_capacity`, `change_context`, `try_change_context` |
| walks of a report | `rustyfill-errors/report.rs`, `frame` | a hand-made stack, the frame whose children wait to be pushed | `frames`, `frames_chronological`, `frames_mut`, `unstall`, `set_auto_unstall`, `downcast_ref` |
| reference counts | `alloc/arc`, `alloc/rc` | strong and weak counters written behind std's back | `try_new`, `try_default`, `try_clone`, `try_downgrade`, `try_upgrade`, `unwrap_or_try_clone` |
| vectors, deques, lists, heaps | `alloc/{vec,vecdeque,linked_list,binary_heap}` | std's collection, a guard that truncates it, a list's nodes | push, insert, append, bulk extensions with rollback, resize, collect, shrink, box |
| std maps and sets | `std/{hashmap,hashset}` | std's table | insert, extend, collect, shrink |
| resumable iteration | `recovery.rs`, `try_extend.rs` | a stranded item and the rest of the source | `try_extend`, retry, `unstall` |
| random bytes | `sys/random` | process-wide flags, an open device | fill bytes, keys of hash maps |

The rest keeps no state between two steps that another actor could see: boxes, strings
and paths (one reservation, then one infallible call), locks and cells, traits and
their element-wise implementations (`try_fmt`, `try_clone`, `try_default`), hashers,
error types, the macros, the layout mirrors (`rustyfill-sys`,
`rustyfill-sys-bindings`), the test allocator and the developer tools.

### How the parts interact

* The mutex arming races the standard library's own lazy initialisation in `lock()`
  over the same pointer cell.
* A SecondaryMap shares nothing with its SlotMap but the keys: it tells a stale key
  from a live one by a modular comparison of versions.
* CHashMap's entries, references and iterator items carry the lock guard of a shard
  out of the call that took it. The iterator shares the guard with its items by an
  `Arc` whose allocation may fail.
* The interner holds weak references, and clients drop the strong ones without a
  lock. It uses CHashMap's shards and `Arc::try_upgrade`.
* The B-tree code changes the standard library's nodes in place, so what one insert
  leaves behind is what the next one, and all of `std`'s own code, reads.
* A Report keeps frames in fallible deques and boxes; it decides what to give up
  when they fail. Its walks push child iterators on a fallible vector, and stall like
  CHashMap's iterators when it cannot grow.
* The fallible operations of `Arc` and `Rc` change the counts that std's own `Drop`,
  `get_mut` and `try_unwrap` change too, on other threads.
* Every bulk operation of a collection runs code of its caller, a `try_clone` or an
  iterator, between two pushes; `try_extend` hands what it could not add to
  `recovery.rs`, which gives it to the next call.
* Hash maps draw their keys from the random source, which must answer before the
  kernel's pool is ready; secure bytes must not.

### Hard behaviours

Threads that race for one pointer cell; a lookup whose answer is used under a lock
taken earlier, or after another lock was taken; references that outlive the call and
the iterator that made them; an allocation that fails between two steps of a change
(a node of a cascade of splits, a box of a context change, the `Arc` of a guard);
retries after such a failure; counters that wrap; freelists and caches that survive
many calls; a compare-and-swap on a count that was right a moment ago; user code that
fails or unwinds between two pushes; flags that threads share without a lock. `PROJECT.json` lists 40 such hazards at their lines.

### What makes each part correct

* arming: one payload is published, none leaks or is freed twice, a lock is held by
  one thread, an armed mutex never allocates, arming ends without waiting.
* SlotMap: the freelist is exact, counts agree, a removed key stays invalid, a
  reservation is honoured, `get_disjoint_mut` restores what it flips.
* SecondaryMap: a live key reads back what was put under it, and nothing else.
* CHashMap: it is one map, seen through exclusive and shared references; entries stay
  true until used; no vacant entry allocates; walks over the shards are sound; every
  call returns.
* iterators: items stay valid, none is yielded twice, nothing is lost unless given up.
* interner: one live copy of each value; live values stay listed.
* B-tree: after any insert, failed ones included, the nodes are a B-tree of exactly
  the entries of the map; the commit takes what was reserved.
* reports: losses are counted and hit the oldest frames; a failed context change
  restores the report; calls return and do not panic; a walk yields the whole tree,
  whatever fails on the way.
* reference counts: each count is the number of handles; the value is dropped or moved
  out once, and nothing is reached after it was freed.
* collections: a call that fails adds nothing, or hands back exactly what it did not
  add; no infallible call of std ever has to allocate; a list stays one list.
* random bytes: secure bytes are drawn after the pool was seeded; a call fails only
  when the kernel or a file refused; hash-map keys never wait.

## 2. Modules

| Module | Models | Abstract specification | Proofs |
|---|---|---|---|
| `HeapLock` | `arm_once_box` and its callers beside `lock()` | `ArmedMutex` | `LockProofs` |
| `SlotMap` | the slot map | | `SlotMapProofs` |
| `SecondaryMap` (extends `SlotMap`) | both maps side by side | | `SlotMapProofs` |
| `CHashMap` | shards, entries, references, walks | `KeyedMap` | `CHashMapProofs` |
| `CHashMapIter` | `Iter` and `IterMut` beside other threads | | `LockProofs` |
| `Interner` | one interner map | | `InternerProofs` |
| `BTreeInsert` | insertion and extension of the B-tree | | `BTreeProofs` |
| `Report` | error reports | | `ReportProofs` |
| `ReportWalk` (extends `Report`) | the walks over a report, beside what makes it | | `ReportProofs` |
| `ArcCounts` | the counts of an `Arc` or `Rc` beside std's operations | `SharedValue` | `ArcCountsProofs` |
| `Collections` (extends `Contents`, `ListLinks`) | the five collections, step by step | `FallibleCollection` | `CollectionsProofs` |
| `SystemRandom` | random bytes from Linux | | `LockProofs` |

`Contents` says what a collection holds and what a call makes of it, for `Collections`
and `FallibleCollection` both; `ListLinks` is the pointer surgery on a list's nodes. Recursion
over data is written as recursive functions throughout, so that every module
can be proved about. `LockProofs` extends three of the modules, whose names therefore
differ (`LockSpec` and `RandomSpec` beside `Spec`).
`MC*` modules hold the values of constants that a configuration file cannot write.

### How actions correspond to code

**HeapLock.** One mutex through its life. `Begin` and `TryNew` enter a call; `Load`,
`Alloc`/`AllocFail`, `Activate`, `Cas` and `Reclaim` are the steps of
`heap_lock.rs:100-146`, each atomic step of the code one action, so that two armers
and the standard library's lockers interleave at every point. `op` tells the callers
apart: `try_arm`, `try_new` and `TryDebug` get an error when the allocation fails,
`lock` and the inspection in `std`'s `Debug` abort (`aborted`). The lock itself is
external: a thread gets the payload when nobody holds it.

**SlotMap.** `version`, `u`, `len`, `cap`, `free_head`, `num_elems` are the fields.
A slot's word `u[i]` is its value, its freelist link or `DANGLING_SENTINEL`, by the
parity of its version, as in the union of the code. One action per method; a drain or
retain (`sweep`) is one action per element, and it may be dropped or forgotten halfway.
`issued` and `credit` are histories: the versions a slot handed out, and the
elements the last `try_reserve` still promises to take.

**SecondaryMap.** Its actions leave the primary map alone and the other way round. It
is used with every key the primary ever issued, in any order.

**CHashMap.** A call is a sequence of actions: it begins, waits for its shard's
lock (`LockRead`, or `ClaimWrite` then `GrantWrite`, as a parking_lot writer first
bars new readers and then waits for the old ones), runs its body, and returns, or hands
its caller an entry or a reference that keeps the lock. `table` and `spare` are
hashbrown's table and its `growth_left`. Walks (`len`, `visit_all`, `try_clone`,
`try_reserve`, `try_shrink_to_fit`) take one shard's lock after the other. `stayed` and
`ever` are histories of what was in the map while a walk ran.

**CHashMapIter.** `open`, `left` and `pending` are `current`, its raw iterator and its
pending bucket; `strong[s]` counts the shares of the guard of shard `s`, kept by the
iterator and the items. `mutable` tells `IterMut` from `Iter`. Other threads are the locks
they hold and the inserts and removals those allow.

**Interner.** `intern`: prune unlocked shards, find under the read lock, upgrade, take
the write lock, reserve, look again, create. Between any two steps clients clone and
drop handles, and other threads run. An entry records where it is probed for (`at`)
apart from its key, because a rehash places it by another hash.

**BTreeInsert.** `node` is the heap: entries, edges, parent and index in it. An insert
descends (external: `std`'s search), probes the cascade (`Probe` builds `CommitPlan`),
reserves the leaf, the buffer and the internal nodes, drains the buffer and commits
level by level (`CommitLeaf`, `Absorb`, `SplitInternal`, `GrowRoot`); `Rollback` frees
what was reserved. `try_extend` runs inserts over `items`, which on failure becomes the
`Resumable`. `given`, `content` and `handle` are histories.

**Report.** Errors are numbered in the order they are reported. `room` is the deque's
capacity; only a full deque allocates. `demote` and `box` are the loops of the two
context changes, one frame per action. `pushed` and `level` are histories: the peers
pushed since the last change, and what stood on the level that was demoted. The
`usize::MAX` guard on the deque's length is left out: no deque of frames gets there.

**ReportWalk.** A walk borrows the report, so `Report`'s actions run only between walks.
`stack` and `stack_room` are the iterator's vector, `pending` its `pending_frame`: the
push that fails in one call of `next` is the first thing the next call retries.
`frames_mut` has no way to stall: a failed push ends it. `yielded` and `skipped` are
histories.

**ArcCounts.** One allocation through its life, and then anew. `Load`, `Retry` and
`Increment` are the iterations of `fetch_update`; `LockWeak`, `CheckStrong` and
`UnlockWeak` are std's `is_unique`, which holds the weak count at `usize::MAX`
(`Locked`) meanwhile. A strong handle's drop is the decrement, the value's `Drop`, the
release of the weak reference the strong ones share, and the deallocation. For an
`Rc`, `flavour = "rc"`, and `Turn` lets a call run only inside the user code of another.
Atomic operations are sequentially consistent in the model; their orderings
are not.

**Collections.** A call is a sequence of steps: `Reserve` or `Hint`, then one `Add` per
item, and between two of them the item's clone, closure, node or room may fail. `cap` is
what the collection holds without allocating, and std may choose any capacity that
is large enough. `rest` and `head` are the `Resumable` or the remaining slice, and
`Retry` calls again with them. `aborted` is what std's infallible methods do when they
meet a full buffer. A heap is a bag, written
as its items in order, a set the map from items to themselves.

**SystemRandom.** `resolved`, `grnd_insecure_available`, `urandom_ready` and `device` are
the statics of `linux.rs`. Each read and write of one is an action of its own, and the
kernel's answers are chosen by what it supports (`kernel`), whether its pool is
ready, and faults. `early` and `fault` are histories.

## 3. Runs

| Run | Checks | Instance | Distinct states |
|---|---|---|---|
| `heap_lock` | `OneOwner`, `ArmedNeverAllocates`, `ImplementsArmedMutex`, `ArmTerminates` | 3 threads, 3 heap addresses | 97 thousand |
| `slot_maps` | `FreeChain`, `StaleKeysStayInvalid`, `ReservedOrDetached`, `DisjointKeys`, `NoForeignValue`, `LiveKeysReadBack` | 3 slots and the sentinel, versions of three bits, 5 keys per slot, 2 values | 46 thousand |
| `chashmap` | `EntryStaysTrue`, `InsertHasRoom`, `RefsStayValid`, `ScanSandwich`, `CallsReturn`, `ImplementsKeyedMap` | 2 threads, 2 keys in one shard and 1 in the other | 365 thousand |
| `iter` | `ItemsStayValid`, `YieldsOnce`, `NothingLost`, `NextReturns` | 2 keys in one shard and 1 in the other | 1.3 million |
| `interner` | `OneCopyUntilRehash`, `LiveValuesListed`, `RoomForInsert` | 2 threads, 2 values in one shard, 3 allocations | 248 thousand |
| `btree` | `TreeIsMap`, `NodesInPlace`, `ReservedExactly`, `ItemsKept` | branching factor 2, trees of up to 3 levels | 33 thousand |
| `report` | `NothingLostSilently`, `NewestSurvive`, `WalkYieldsTree`, `TryChangeRestores`, `CallsReturn` | 6 errors; capacities 2, 3 or none; walks of up to 5 errors | 504 thousand |
| `arc_counts` | `CountsMatch`, `ImplementsSharedValue` | 3 threads, 5 handles, counts up to 3 | 11 thousand |
| `collections` | `NeverAborts`, `LinksAgree`, `ImplementsCollection` | 3 items of 2 keys, up to 2 in the collection and 2 more per call | 68 thousand |
| `system_random` | `SecureIsSeeded`, `ErrorsHaveCause`, `CallsReturn` | 2 threads, buffers of up to 2 bytes | 58 thousand |
| `interner_copies` | `OneCopy`, violated | as `interner` | |
| `btree_abort` | `CommitInfallible`, violated | as `btree` | |

The type invariants (`TypeOK`, `SecTypeOK`, `BTreeTypeOK`) state the range of each
variable; those of the modules with proofs are proved. Four more configurations,
`ReportPanic.cfg`, `ReportHang.cfg` (module `Report`), `ReportLost.cfg` and
`ReportSearch.cfg` (module `MCReportWalk`), reproduce divergences of section 5.

### Bounds, and why they are enough

* `heap_lock`: a race needs a winner, a loser that has allocated, and a third thread
  that arrives in between; each needs an address.
* `slot_maps`: `Half = 4` gives a version counter of three bits, so the fifth key a slot
  issues wraps it. Three slots let the freelist have a head, a middle and an end, with
  a detached slot among them. `MaxIssues` and `MaxCapacity` bound the histories and
  the allocator. The constraint `Bounded` lets one slot go through all its versions while
  the secondary map is not used; once it is, `Interleaved` leaves the primary map the
  operations that change which keys are live, and one slot is used a second time, so
  that versions stay below half of their range, as `LiveKeysReadBack` demands.
* `chashmap`: two threads are one reader or writer and one that waits, walks or
  changes the shard behind or ahead of it. The invariants and the refinement are proved
  for any number of threads, keys and shards; the run adds liveness.
* `iter`: one shard with two keys has a pending bucket and one after it; a second shard
  is where the iterator goes on. `yields` saturates at two.
* `interner`: two values in a shard, so that one entry is replaced, pruned or rehashed
  beside another; three allocations, so that one can die while its successor and
  another live. `MaxHandles` bounds clones, `MaxSpare` the table's growth.
* `btree`: with `B = 2` a full node has three entries, so every edge of `splitpoint`
  occurs. The starts are the empty tree, an emptied one, and trees whose root, inner
  nodes and leaves are each thin or full: a leaf with room, a split that stops at its
  parent, one that passes an inner node, and one that grows the root. Keys are
  placed so that an insert can go into every gap. The same properties also hold
  with `B = 3`, which takes too long for a regular run. A client stops when its calls are
  used up, so deadlock is not checked.
* `arc_counts`: the limit is three, so that it is reached while another handle exists; three
  threads are one that changes a count, one whose loaded value grows stale, and one
  in std's `is_unique` or `drop`; the fifth handle is one more than the limit. The run
  uses symmetry, and the theorems hold without these bounds.
* `collections`: two items in the collection and two more of a call put a failure before,
  between and after them, at a full and at a roomy buffer (`MaxCap` is what both need);
  two of the three items share a key, so that a map overwrites; a node needs an address.
* `system_random`: a flag is written by one thread and read by the other; two bytes are
  a short read or an interrupted call halfway. The theorems hold for any number.
* `report`: six errors give every interleaving of a push and two nested context changes
  over peers; `MaxLost = 3` lets the counters saturate. A client may have
  no more errors to report, and a panic ends the program, so deadlock is not checked.
  Only reports of at most five errors are walked (`SmallWalks`): that gives a head, a
  peer, and children two levels deep.

### Fairness, and the code that justifies it

* `HeapLock!FairLockSpec`: a thread inside `arm_once_box` or a critical section is scheduled
  again. Nothing makes a thread call, and `ArmTerminates` needs no help from the
  holder of the lock.
* `CHashMap!FairSpec`: bodies of calls run on, holders of entries and references drop
  them (their types release the lock in `Drop`), and waiters get a lock that is free
  again and again: parking_lot hands locks over fairly (its eventual fairness), which
  the strong fairness of `LockRead` and `ClaimWrite` states. A thread of the model holds
  one guard at a time: a thread that calls the map while it holds a guard of the same
  shard waits for itself, as with any parking_lot lock.
* `CHashMapIter!FairSpec`: `next` runs on, other threads drop their guards, a lock
  that is free again and again is got.
* `SystemRandom!Fairness`: a call's steps run on (`Progress`); a system call or a `poll` that
  keeps being interrupted by signals is answered in the end if it again and again could
  be (strong fairness of `Bytes` and `Polled`). Nothing makes the pool ready, so a
  secure call may wait for ever, and `CallsReturn` says only that no other does; nothing
  makes a fault happen or not.
* `Report!FairSpec`: a call that has begun runs on; there is one thread. It does not
  assume that an allocation ever succeeds.

## 4. Proofs

`LockProofs`, of `HeapLock` (any set of threads and addresses). `LockIInv` says where each thread's
pointer points at each program point: between the allocation and the CAS a thread
owns its payload alone and nobody has published it, after a lost CAS the slot is not empty,
a holder is in its critical section. From it follow `TypeCorrect`,
`NoLeakNoDoubleFree` (`OneOwner`), `Exclusion` (`MutualExclusion`), `ArmedInfallible`
(`ArmedNeverAllocates`), and `Refinement`: every step is one of `ArmedMutex` or a
stutter, under `armed <- slot # Null`. The only assumptions are that `Null` is no
address and `NoOne` no thread.

`SlotMapProofs` (any `MAX_SLOTS_LEN > 1`, any version width, any bounds). `IInv` adds to
the types and counts that freelist links stay inside the slots (`Shape`, `Links`) and
how far each slot's counter is ahead of each version it issued (`Ages`): a slot's n-th
version before the last is exactly `2n` or `2n + 1` steps behind, so it cannot be equal to
the counter until `Half` reuses. This is why `StaleKeysStayInvalid` is inductive
only together with the exact distance. `TypeCorrect`, `CountExact` (`CountsLive`),
`StaleKeys`, `DrainComplete` (`DrainClears`: a drain leaves nothing behind its cursor),
`DetachedReserved` (`DetachedStayReserved`) and `ReservationsKept`
(`ReservedOrDetached`) follow. `FreelistComplete` (`FreeChain`: following the links from
`free_head` visits every vacant slot once and ends at the sentinel) carries the chain
as a sequence: insert drops its first slot, remove puts one in front, and a `retain` or
`drain` that vacates a slot does the same. `DisjointAccess` (`DisjointKeys`) is an induction over
the marks `get_disjoint_mut` sets: after any prefix of the keys, exactly the slots of
that prefix are flipped, so a key given twice is noticed and all are restored.

The same module proves of `SecondaryMap` that no value is read under a key it was
not put under (`SecondaryOwn`, `NoForeignValue`), and that a live key reads back its value
(`SecondaryReadsBack`, `LiveKeysReadBack`). What is added to `IInv` is that a slot of the secondary
map is tagged with a version the primary issued, never a later one than the live key's; below
half of the range of versions, the modular comparison of `try_entry` is then the order in
which they were issued.

`CHashMapProofs` (any set of threads, keys and values, any number of shards). `IInv` is
per thread: the shape of its call (`LocalOK`), the lock its program point implies
(`LockOK`), and what it knows of the table (`DataOK`). A step of one thread keeps the
facts of another because it changes only the shard it has locked exclusively
(`TableFrame`, `SpareFrame`, `LockFrame`). From it follow `TypeCorrect`, `EntriesTrue`,
`InsertInfallible`, `RefsValid`, and `Refinement`: the map implements `KeyedMap`, in
which there are no shards. `ScansSandwiched` adds `ScanOK`: a walk has collected, of the
shards behind it, every element that stayed and none that never was.

`BTreeProofs` (any branching factor `B > 1`, any map to start from whose
nodes form a tree of std's, are in order and hold its content, which is `StartsAssumption`, any source): `SplitBalanced`, the halves
`splitpoint` leaves are big and small enough; `SplitKeepsPlace`, the new entry
lands at the edge it belongs at; `ReservedUsed` (`ReservedExactly`), each split of the commit
finds a node that was reserved for it, and none is left over; `NothingLost` (`ItemsKept`),
`try_extend` hands back the rest of its source. The commit takes the splits that the
probe counted because it meets the same full nodes in the same order: the number of full
ancestors above a level, taken when the probe begins, is the number of reserved nodes left
when the commit reaches that level. Where this climbs a path of any length the
induction is on a number, through the least one that fails.

`NodesStay` (`NodesInPlace`) says where every node is. Its invariant `TreeInv` describes a
half-committed cascade without recursion: some function gives each node a rank, its height
above the leaves, such that the children a node lists are in the tree, one rank lower, and
point back at it (`Shaped`), and every node but a few `Tops` is listed by its parent. Between
inserts the root is the only top; during a commit the right half still to be promoted is
another, at the rank of the level the commit has reached. Nodes not in the tree are the
reserved ones, still empty, and all different (`SpareOK`). The plan keeps naming the tree's
nodes at the right ranks above the commit (`Planning`), because a split only touches the node
it splits and those below. `SplitLeafIs`, `SplitInnerIs` and `InsertIs` say what the surgery does
to one node and to the links of its children; `ShapeTree` and `TreeShape` go between ranks and the
depths of `IsTree`, `SearchIs` and `PathIs` between the tree and the code's two walks through
it. `LeafSplit`, `InnerSplit`, `AbsorbIs` and `RootIs` are the four steps of a commit.

`MapStays` (`TreeIsMap`) says what those nodes hold. `MapInv` gives each node two sets of keys: what
the edge above leaves it (`place`) and what its own entries divide among its edges (`own`). They
are the same, but for the two halves of a split on its way up, which share the place of the
node that was split at the entry that is promoted (`KeysAt`, `PartedAt`). The nodes and the entry carried upward
hold the content and the entry that comes in (`ContentHeld`); each stop of the plan lists the one
before it at the edge the plan names (`StopsClimb`), so that a promoted entry goes where the split node hung; and
a leaf, once split, is left alone, so that the handle returned is at its entry (`EntryReturned`).
`LeafSplitSpans`, `InnerSplitSpans`, `AbsorbSpans` and `RootSpans` are the steps of a commit again, for keys.
A key fits one node of each height (`OnePlace`) and is no key of a node above (`KeyOnce`), so a descent that
does not find it ends at the one leaf edge where it belongs (`SearchSpan`, `SearchMisses`). That `Entries`,
a recursive function within a recursive function, reads the nodes in order, all of them and
none twice (`EntriesHeld`, `ReadOnce`), is proved by induction on heights and positions, which are
numbers, after the functions have been shown to exist (`FlatsExist`, `JoinsExist`).

`CollectionsProofs` (any items that are numbers, any addresses, any bounds, any
capacity std may choose). `RoomReserved` (`NeverAborts`): `RoomInv` says for each program point what
is still to be added and that the room for it is there (`Source`, `Filled`, `Room`), and how
far a call has got (`Progress`). `LinksHold` (`LinksAgree`): a list is `Linked` along some sequence of
addresses with some sequence of elements; each push, pop, truncation and splice makes the same
change to the two sequences. `PromiseHolds` (`ImplementsCollection`): every step of `Collections` is a
step of `FallibleCollection` or a stutter. `PromiseInv` adds what the refinement mapping needs: between the
first and the last item of a call the collection holds what it held `before` and the first
`done` items (`Begun`), what a stopped extension owes (`Owed`), and that heaps are in order
(`Ordered`), whence the order in which items are pushed, and which of two heaps is
drained into the other, does not matter. Assumed are `NilAssumption` (no node is at nil),
`BoundsAssumption`, `ElemsAssumption` (items are numbers) and `NoCallAssumption` (no call is the constant
that stands for none). Overlapping arms of three CASE expressions, of which TLC takes the first
and TLA+ any, were found by these proofs and made disjoint.

`ReportProofs` (any number of errors, any capacities, any saturation bound). `LossesCounted` (`NothingLostSilently`),
`OldestGoFirst` (`NewestSurvive`), `FailedChangeRestores` (`TryChangeRestores`) and the types (`ReportTypes`).
`ReportInv` ties the frames in the report to the errors ever reported (`Known`, `Fresh`): the peers are
the newest of those pushed (`PeersKept`), what a context change has still to move is a suffix of the
level it demotes (`Remaining`, `Demoting`, `Boxing`), and between calls every error that is nowhere in the
report is in a counter (`Settled`). A failed `try_change_context` restores the report because its
level, put together again, is the one recorded when it began.

`WalksYieldTree` (`WalkYieldsTree`, of `ReportWalk`) needs one more fact of a report,
`Lineage`: every error but a root stands on exactly one level, one that a younger error
demoted, so the frames are a forest (`SeenForest`) and a walk meets none twice. The
invariant of an iterator, `IterAt`, has two parts. `Placed`: what came out is a root
before `root_at`, or a child, of an error opened before, that its iterator has passed;
hence what comes next is new. `Leading`: what came out, then what is below the pending
frame, then the rest of each level on the stack and of the roots (`Trail`), is the tree.
It says so of every set of frames that may yet be discarded, among those not opened: a
frame is discarded long after it was yielded, so no one set would be inductive. The tree
is recursive; the functions it is built from are shown to exist by induction on errors,
since children are older than their error (`SubtreesExist`), and a flattened sequence by
induction on its length (`SuffixExists`), so that `Left` may name what remains of it from
each child on. For `frames_mut`, `VisitAt` has `Placed` and `Comes`, whatever is below an
error that was visited has been visited or is under an iterator on the stack: when both
run out, what was visited is closed under children (`AllVisited`).

`ArcCountsProofs` (any sets of threads and handles, any limit from 2 on). `CountsMatch` is
far from inductive. `IInv` says what each thread holds at each program point
(`Shapes`), that a handle being dropped or lent exclusively is nobody else's
(`Borrows`, `Exclusion`), what remains of the value and its memory as the last
handles go (`Life`, `Values`), and that only one thread is between the last decrement
and the deallocation. The counting itself is `CountsStep`, over cardinalities
(`HandleSets` says what one handle's change does to them). `CountsExact` and
`ExclusiveAlone` follow, the latter also for the `unwrap()` in `try_default`;
`Refinement` maps every step to one of `SharedValue` or to a stutter. It assumes a finite
set of handles.

`LockProofs`, of `CHashMapIter` (any set of keys, any number of shards, whatever other threads do).
`IInv` counts the shares of each guard (`Counted`), and hence no other thread writes to a
shard that an item points into (`Protected`); `Cursor` ties what is left to what is in
the open shard; `Given` and `Accounted` say which keys the iterator has passed, and
that those not yielded were given up. `ItemsValid`, `YieldedOnce` and `LosesNothing` follow.

`InternerProofs` (any number of threads, values, shards and allocations, any hash
functions). What step 2 of `intern` found out holds until it acts on it (`Known`), because
it has the shard's lock (`Exclusive`), pruning removes only what has expired
(`PruneEffect`), a rehash keeps what entries stand for (`GrowEffect`), and nothing revives an
expired weak (`QuietStep`); tables list exactly one entry per live allocation
(`Listed`). `RoomKept`, `OneCopyKept` and `LiveListed` follow.

`LockProofs`, of `SystemRandom` (any number of threads and bytes): `Seeded` (`SecureIsSeeded`) from
the fact that `urandom_ready` is set only after the pool is, and `Justified`
(`ErrorsHaveCause`) from which program points each answer of the kernel leads to.

Proved, though no run lists them: the type invariants of `HeapLock`, `SlotMap`,
`CHashMap`, `ArcCounts`, and `MutualExclusion`, `CountsLive`, `DrainClears`,
`DetachedStayReserved`, `ExclusiveIsSole`.

Only model-checked: liveness (`ArmTerminates`, `CallsReturn`, `NextReturns`), which the
prover cannot do. Every other property of the passing runs is proved for all values of
the constants.

## 5. Findings

Shown by runs:

* `interner_copies`: `try_reserve` is given a hasher that hashes the key again, though
  the key is the hash already (`interner/mod.rs:397`). Once a shard grows, lookups do
  not find its older entries, and `intern` makes a second copy of a live value. Until a
  shard is rehashed there is one copy (`OneCopyUntilRehash`).
* `btree_abort`: `drain_to_pointers` (`scratch.rs:238`) collects into
  `Vec::with_capacity`, which aborts on failure, in the phase the code calls
  infallible (`entry.rs:1003`).

Reproduced by a configuration kept beside the runs:

* `ReportPanic.cfg` (module `Report`, `NeverPanics`): `change_context` panics
  (`report.rs:530`) when neither its reservation nor a push can allocate and there is
  no child to evict; `push` does so at `report.rs:350` on an empty deque.
* `ReportHang.cfg` (module `Report`, `PushReturns`): with `with_capacity(1)` or `(0)`, `push`
  never returns (`report.rs:324`): the head counts as a peer and is never evicted.
  With any larger capacity, or none, every call returns (`CallsReturn`).
* `ReportLost.cfg` (module `MCReportWalk`, `LossesMarked`): "synthetic `LostFrames` markers are
  yielded where frames were lost" (`report.rs:930-932`), but for a frame that has lost
  all its children there is none: only a frame with children left is ever pushed on the
  stack that yields the marker.
* `ReportSearch.cfg` (module `MCReportWalk`, `SearchesNewestFirst`): `downcast_ref` returns "the
  most recent match" (`frame/frame.rs:122-123`) and searches children from the back, but
  `change_context` puts the newest in front (`report.rs:555-560`); only
  `try_change_context` stores them oldest first (`report.rs:729`).

Met while modelling:

* `SlotMap::try_reserve` counts a detached slot as one that insert can use
  (`basic.rs:326`), so after `detach` the promise "callers can rely on subsequent
  try_insert calls succeeding" (`basic.rs:311-315`) can fail for want of
  memory. What does hold is `ReservedOrDetached`. It also refuses a total
  of `MAX_SLOTS_LEN - 1` (`basic.rs:321`), which the same comment grants.
* `SecondaryMap::try_entry` compares a vacant slot as if it held version 0
  (`secondary.rs:412`), so once a slot was reused 2^30 times an insert under its
  live key is silently dropped. `LiveKeysReadBack` is stated below that. Keys
  with index `MAX_SLOTS_LEN - 1` are refused (`secondary.rs:390`). A stale key whose
  slot is vacant in the secondary map is accepted.
* `Iter::unstall` on an iterator that is not stalled, for instance a new one,
  skips a whole shard and returns true (`iter.rs:227`), though the comment calls it
  harmless (`iter.rs:223-225`) and `recovery.rs:63` says true means a pending
  item was discarded. With auto-unstall a shard whose guard cannot be shared is
  skipped without the error that `recovery.rs:51-53` promises (`iter.rs:155`).
  `NothingLost` is stated for callers that unstall after an error only.
* Reports: a failed push on an empty deque, and on empty children, counts one frame
  as lost though none was (`report.rs:346`, `:525`), so `NothingLostSilently` is an
  inequality. `frames_mut` is documented as depth-first; it visits the head and every peer before any
  child, and goes on with the children of the last peer.
* `Arc::try_downgrade` fails at `usize::MAX` (`arc_.rs:303-308`), the value with which
  the standard library locks the weak count for a moment, where `Arc::downgrade` spins.
* `BinaryHeap::try_append` exchanges the two heaps before it reserves
  (`binary_heap/mod.rs:297-301`), where its comment promises no mutation until the
  allocation has succeeded: a failed call may leave them exchanged, which
  `FallibleCollection!Refuse` admits.
* The examples of `try_extend.rs:30-41` and `recovery.rs:120-142` resume from
  `into_remainder()`, which drops the item that was stranded; `safe_into_iter`,
  which `Retry` models, yields it first.

## 6. Not modelled, and why

* Boxes, strings, paths and OS strings: a reservation followed by one infallible call on
  one buffer, whose bytes no property here tells apart.
* dashmap wrappers: each takes a shard's lock, reserves one slot, probes and hands the
  lock to an entry, in one step under that lock, as `CHashMap`'s `entry` does; the shards,
  entries and iterators are the dashmap crate's.
* Formatting, cloning, defaults, hashers, error types, macros, the layout mirrors
  and the tools: no state that survives a call, or build-time code. The test
  allocator's policies are a subset of "any allocation may fail".
* Memory orderings: atomics are sequentially consistent in `ArcCounts` and
  `SystemRandom`, whose flags are relaxed but guard no other data.
* Panics of a user's `Hash` and `Eq`; a `Drop` or `try_clone` of a collection's item
  that unwinds is modelled.
* hashbrown, parking_lot, the standard library's lock and B-tree search are external:
  modelled as the code uses them.
* In `BTreeInsert`, `try_extend_from_slice`; in `Report`, attachments with their lost
  counters, segments and rendering; in `SlotMap` and `SecondaryMap`, cloning, equality and
  shared iterators; in `CHashMap`, drop of the whole map, which needs exclusive access;
  in `Collections`, a map's `try_entry` and `try_insert_unique` and its hasher; in
  `SystemRandom`, the assertion on `poll`'s `POLLERR` and the mixing of fallback keys.

## 7. Plan

The order followed puts the code with most interleaving and surgery first: mutex
arming, the slot maps, the concurrent map with its iterators and its abstract
specification, the interner, the B-tree and reports; then reference counts, the
collections with resumable extension, random bytes, and the walks over a report. What
is left:

1. The dashmap wrappers as a second implementation of `KeyedMap`.
2. Attachments of a report, with their lost counters.
