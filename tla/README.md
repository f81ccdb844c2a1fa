# PETRA: specifications and proofs

PETRA (`src/dev/src`) is a C++ library of persistent, lock-free containers whose
operations are grouped into transactions. A client hands an array of operations
to `ExecuteOps`; all of them take effect, or none. This directory models the
code in TLA+, checks the models with TLC and proves theorems about them with
TLAPS. The definitions are written from the code; `PROJECT.json` names the lines
behind each of them.

## The system

### Components

| Component | Code | State | Operations |
|---|---|---|---|
| Transactional list | `lftt/list/translist.{cc,h}` | sorted linked list of `Node`s, each with a `NodeDesc` (descriptor, operation) and a mark on both pointers; `Desc` with `ops`, `status`, `persistStatus`, `txid`; `lastTxId`; a help stack per thread | `ExecuteOps`, `HelpOps`, `Insert`, `Delete`, `Find`, `LocatePred`, `MarkForDeletion`, `persistDesc`, `validate_and_recovery` |
| Transactional skiplist | `lftt/skiplist/transskip.{cc,h}` | the same descriptors on Fraser's skiplist, one pointer per level | `execute_ops`, `help_ops`, `transskip_insert`, `transskip_delete`, `transskip_find`, the two searches; nodes are never removed |
| Transactional MDList | `lftt/mdlist/txmdlist.{cc,h}` | the same descriptors on a tree of nodes with one child per dimension; two bits on each pointer; a pending adoption per node | the same as the list, and `FillNewNode`, `FinishInserting` |
| Transactional hash map | `lftt/map/transmap.{cc,h}` | the same descriptors on a trie of arrays indexed by bits of the hash, a slot with a mark bit, a value per node | the same, `Update`, `Allocate_Spine`, `forceExpandTable` |
| Persistent allocator | `common/allocator.h` | one bump region per ticket, `mg_freeIndex` in the pool's file, the addresses of this and of the first mapping | `Init`, `Alloc`, `reload_pmem`, iteration over a region, `getNewPointer` |
| Durability primitives | `durabletxn/dtx.h` | none | flush and fence wrappers, `PERSIST_CODE` |
| Boosting list | `boostinglist/*` | a lock per key, an undo log per thread | `Insert`, `Delete`, `Find`, `OnAbort`, `OnCommit` |
| Lock-free list | `lockfreelist/*` | Harris's list | `Insert`, `Delete`, `Find`, `LocatePred` |
| Driver | `bench/main.cc`, `bench/setadaptor.h`, `common/threadbarrier.h` | the barrier's counter | construction or recovery, prefill, then worker threads with random transactions |
| History checker | `common/vsv.{cc,h}` | recorded histories | sequential replay; not linked into `trans` |
| OneFile, Romulus, Fraser's memory code | `OneFile/`, `romulus/`, `common/fraser/` | third-party | built for comparison |

### How they interact

The driver calls one container through an adaptor. A container takes nodes,
`NodeDesc`s and descriptors from the allocator, whose regions survive a restart.
Threads never exchange messages: they meet on the pointers of nodes and on the
status of descriptors, which they change with compare-and-swap. A thread that
finds a node of an undecided transaction runs the rest of that transaction
itself (`FinishPendingTxn` calls `HelpOps`, which may meet a third transaction
and recurse), so the call stack of one thread holds frames for several
descriptors. A descriptor that is already on the thread's stack means a cycle,
and is aborted. With persistence on, whoever decides a transaction flushes its
descriptor and only then sets `persistStatus` to `PERSISTED`; readers count a
transaction as committed only from that moment. The boosting list sits on the
lock-free list and adds a lock per key with a timeout.

### What is hard here, and what makes a component correct

- *Transactional list*: many threads run the same operation; a helper lags
  behind the transaction it helps; nodes are unlinked while others insert next
  to them; status, persistence and removal are three steps. Correct means: each
  committed transaction acts on the set in one step and an aborted one not at
  all; marks freeze a node before it is unlinked and no unmarked node drops out;
  a transaction that is helped is decided when the helper returns; a descriptor
  is made durable only once decided, with a txid of its own; no thread waits for
  another.
- *Skiplist, MDList, map*: the same promise on structures with several pointers
  per node, with child adoption and with table expansion. A skiplist link on one
  level must not cut off what another thread has linked; a child that changes
  its parent must be found by every search in between; a node that is pushed down
  the trie must lie where the search for its key ends.
- *Allocator and recovery*: no byte is handed out twice, by two threads or two
  processes; after a crash the next process finds every cell that was handed
  out, and the list as it was linked, at whatever address the pool is, but for
  the nodes that were about to be removed; the order of the txids is that of the
  transactions.
- *Boosting list*: two-phase locking, so committed transactions are
  serializable, an abort leaves no trace, and a cycle of locks is broken by the
  timeout.
- *Lock-free list*: linearizable set operations, no node lost by a link that
  races with an unlink.

Every hazard is listed at its line in `PROJECT.json` with the properties that
cover it.

## Modules

| Module | What it is |
|---|---|
| `TransList` | the list: state, one action per access to shared memory, properties of states and steps |
| `TxSet` | abstract specification: a set on which a committed transaction runs in one step |
| `TransListAbs` | the set a list state stands for, the refinement `Atomic == Abstract!Spec`, and the consistency check of the code as `NetEffect` |
| `TransListInv`, `TransListSafety` | the inductive invariants: `IInv` of the frames, and `SafetyInv`, which adds the shape of the list, the marks and the txids |
| `TransListProofs` | theorems that follow from the two, checked by TLAPS |
| `MCTransList` | workloads, prefills, symmetry and fairness for TLC |
| `LockfreeList` | Harris's list: state and one action per access to shared memory |
| `LinSet` | abstract specification: a linearizable set |
| `LockfreeListAbs` | the refinement `Linearizable == Abstract!Spec` with its history variable and what a call relies on there (`SeenInv`), and `NothingLost` |
| `LockfreeListInv`, `LockfreeListProofs` | inductive invariant, properties of the links, theorems |
| `MCLockfreeList` | instances for TLC |
| `BoostingList` | key locks, undo log, commit and abort over an atomic set |
| `BoostingListAbs` | its properties, the refinement of `TxSet`, the inductive invariant |
| `BoostingListProofs`, `MCBoostingList` | theorems, instances for TLC |
| `TransSkip` | the skiplist: descriptors as in `TransList`, searches over levels, the link of a node level by level |
| `TransSkipAbs`, `TransSkipInv`, `MCTransSkip` | the set a state stands for and its properties; the inductive invariants `IInv` (frames) and `SafetyInv` (frames and levels); instances |
| `TransSkipProofs` | theorems about the frames, the descriptors and the levels of the skiplist |
| `TxMdList` | the multi-dimensional list: coordinates, adoption, the bits of a pointer |
| `TxMdListAbs`, `MCTxMdList` | the set a state stands for, the steps that depart from the protocol, properties; instances |
| `TxMdListInv`, `TxMdListProofs` | the inductive invariant `IInv` of the nodes, the tasks of adoption and the frames; theorems |
| `TransMap` | the hash map: slots, spines, splitting and expansion, values |
| `TransMapAbs`, `MCTransMap` | the set a state stands for, the steps that depart from the protocol, properties; instances |
| `TransMapInv`, `TransMapProofs` | the inductive invariant `IInv` of the slots, the frames and the place of every array in the trie; theorems |
| `Allocator` | regions, cells, reload of the pool, iteration, relocation; its specification `ASpec` |
| `Recovery` | composes the allocator with the construction of a list, the threads of the driver that link and remove nodes, a crash, and the recovery by the next process |
| `RecoveryInv` | the inductive invariant `RecInv` of both, and the hypothesis `PoolsApart` |
| `RecoveryProofs`, `MCRecovery` | theorems on both; a small pool for TLC |
| `Paths` | the nodes that a walk along pointers meets, as a least closed set; that the recursive `Chain` of the lists computes it; lemmas on least numbers, on division, and on walks that keep, gain or cannot meet a node |

The boosting list composes with the lock-free list through its abstraction:
`BoostingList` applies an operation to `keys` in one step, which `Linearizable`
of the list below justifies (theorem `Linearizes`). `TxSet` is the promise of the
transactional list, the skiplist, the multi-dimensional list, the hash map and the
boosting list alike. `Recovery` extends `Allocator` and calls its operations inside its
own actions; that it never uses it otherwise is the theorem
`RecoveryUsesAllocator`.

### How `TransList` corresponds to the code

*State.* `next`/`marked` are the pointer and the mark bit of `Node::next`,
`nd`/`ndmark` those of `Node::nodeDesc`. `ops`, `status`, `pstatus`, `txid` are
the fields of `Desc`. `stack[t]` is the help stack of thread `t` and `fr[t][d]`
the locals of its `HelpOps` frame for descriptor `d`; `pc` names the next access
to shared memory. A thread runs an operation of a descriptor at most once, so
`<thread, descriptor, operation>` names both the `NodeDesc` and the `Node` that
the run allocates, and pointers are compared as these records. `PreDesc` stands
for the transactions of the prefill, which the main thread runs one by one
before the workers start.

*Actions.* One action is one access to shared memory together with the local
steps around it. `HelpLoop`, `LocateNext`, `LocateSkip`, `LocateUnlink`,
`InsertAbsent`, `InsertLink`, `ReadNodeDesc`, `HelpMark`, `FinishPendingTxn`,
`CycleAbort`, `CheckKeyExist`, `CheckActive` and `UpdateDesc` are the code of
one operation (`Insert`, `Delete` and `Find` share it, as far as they are
equal); `DecideTxn`, `PersistClaim` to `PersistDone` and `MarkNext` to
`UnlinkNode` are the end of `HelpOps`. Guards that matter have operators of
their own (`CanSwing`, `CanTake`, `Settled`, `IsKeyExist_mod`, `Arrived`,
`Verdict`, `Doomed`).

*Abstractions.* Memory is sequentially consistent (x86, and every contended
write is a `__sync` operation). Two accesses are one action where no other
thread can tell: the status and the persistStatus of the same descriptor in
`FinishPendingTxn` and in `IsNodeActive` are read in one step (persistStatus only moves forward after
the status is fixed); a walk reads pointer and mark together, as they are one
word. The metrics `g_count_*`, `Print` and the contents of unlinked fresh nodes
are left out. Read-only descriptors are off in the build (`NO_READ_ONLY_OPT_CODE`).

*Persist.* `dtx.h` wraps everything about durability in `PERSIST_CODE`.
`Persist = TRUE` is the build of the repository (`ENABLE_PERSISTENCE` is defined
in `dtx.h`); `Persist = FALSE` is the same source with `PERSIST_CODE` expanding
to nothing, the transactional protocol alone. Atomicity for several threads is
checked with `FALSE`, because with `TRUE` the code breaks it (see the findings).

### How `LockfreeList` corresponds to the code

`next`/`marked` are the pointer and the mark bit of `Node::next`; `fr[t]` holds
the locals of thread `t`'s call (`left`, `left_next`, `i`/`right`) and the label
of its next access. A call allocates at most one node, named by thread, call
number and key. `Search`, `Recheck` and `Unlink` are `LocatePred`; `Located` is
what the three callers make of its result; `Link` is the rest of `Insert`, and
`ReadNext`, `Mark`, `Reread` and `Swing` that of `Delete`. The node `n` of an
`Insert` is private until it is linked, so its fields are written in `Link`.
The fields are plain variables that threads race on; what the machine reads
depends on the compiler. `Optimised` distinguishes what GCC makes of the source:
with `-O3` (`configure.ac:15`) the two reads of `right->next` in the arguments
of Delete's compare-and-swap (line 195) become one, and the second look at
`right->next` (line 66) reuses the value of the traversal; without optimisation
(`configure.ac:14`) both are performed, the last argument first. Keys are
compared only with each other, never with the head's.

### How `BoostingList` corresponds to the code

`owner[k]` is the mutex of key `k`, `m_lockSet[t]` and `m_log[t]` the
thread-local lock set and undo log. There are two locks on a key: `entry[k]` is the
thread whose accessor holds the entry of `k` in `m_lockMap`
(`tbb::concurrent_hash_map`), from `m_lockMap.insert` (`lockkey.h:42`), which waits
for it without a timeout, to the return of `Lock`. `FindLock` is `Lock` up to
`m_lockSet->insert`; `Acquire`, `LockHeld` and `LockTimeout` are its three ends
(`LeaveLock`), which let go of the entry (`LeaveEntry`). `OpFails` and `OpSucceeds` are
the rest of `Insert`, `Delete` and `Find`, `Undo` one turn of the loop in `OnAbort`,
`Unlock` one turn of the loop in `LockKey::Unlock`, `Finish` its end. The
caller is the one of `main.cc`: it aborts on any result but `OK` and commits
after the last operation; the model lets a thread run one transaction after
another.

### How `TransSkip` corresponds to the code

The descriptors, the stack and the frames are those of `TransList`. `next[i][n]`
is the pointer of node `n` on level `i`. The skiplist keeps its nodes for ever
(the removal is commented out), so no pointer is ever marked, the two searches
of the code become the same walk (`Search`, one pointer per step), and the code
for marked pointers does nothing. `InsertAbsent` and `InsertLink` are the
insertion on level 0 with a height of any size, `RaiseNode` one turn of the loop
over the upper levels, which starts a new search when its compare-and-swap fails
or finds the key itself. `FinishPendingTxn` looks at the status of the
descriptor of its *caller* (`transskip.cc:152`), not of the one it is to finish;
the model does the same. `help_ops` runs also for decided transactions and
persists only what it decides. Epochs of Fraser's collector are left out: no
linked node is freed.

### How `TxMdList` corresponds to the code

A key is a number with `DIMENSION` digits in `Base`, and its coordinates are those
digits (`KeyToCoord`; `Shifted` is the number that its loop has left over, and
`KeyAssumption` says that nothing is left after the last digit). `child[n][i]` is `m_child[i]` with the bits ADPINV (`adp`) and
DELINV (`del`), `pending[n]` the `AdoptDesc` of `m_pending`. `Locating` is
`LocatePred` between two accesses; `ReadPending` and `ReadChild` are its reads;
`GiveChild`, `RereadChild`, `CopyChild` and `ClearPending` are one turn of
`FinishInserting`, whoever runs it: a search that passes the node, an Insert
for the node below (`AdoptBelow`), or the Insert of the node itself.
`NewChildren` and `OwnTask` are `FillNewNode`, `Retry` is what follows a slot
that has changed. `Invalidate` is the fetch-or that Insert applies to the slot of
a marked node. `ins` and `del` are the two vectors in which `HelpOps` notes
the nodes and their predecessors, `todo` is what `MarkForDeletion` has left of the one
that it is given. An Insert that goes on from `Invalidate` keeps its dimension
(`txmdlist.cc:385`) and can arrive at the head as if it were the node of its key;
the head has no `nodeDesc`, so the process ends there (`Died`).

### How `TransMap` corresponds to the code

`spine[1]` is the array `head`, `spine[i]` the i-th array that entered the trie; a
slot is a pointer (null, `DataNode`, spine) and the mark bit. The hash of a key is the
key (`std::hash` of an integer). `Cell` is the slot a thread looks at, by the array
(`local`) and the number of bits used (`right`, 0 in `head`); `Shifted` is what the
loops have left of a hash behind these bits, `Digit` the index it gives. The main and the sub
version of `putIfAbsent`, `putUpdate`, `get` and `remove` become one walk: `ReadSlot`
and `Look` decide by what lies in the slot, and keep the differences (who looks at a
mark first, who gives up behind the last bits, `LastFind`). `Place` and `Split` are
`replace_node` with the new node and `Allocate_Spine`; `MarkSlot` and `Expand` are
`mark_data_node` and `forceExpandTable`. `Restart` is each `goto insert_main`,
`insert_sub`, ...: in the sub versions the label lies behind the parameter `local`,
so the bits start again and the array does not. From `ReadNodeDesc` on an operation
works as in the list, with the values on top: `CheckUnsaved` and `SaveUpdate` (an
UPDATE keeps its value in its descriptor until the next operation on the key moves it
into the node), `CompareValue` and `SwapValue` (INSERT on a node that is there
already), `FindResult` and `StoreAnswer` (FIND writes its answer into its operation).
Where the code has no defined next step (the end of `putUpdate_sub`, a spine that is
read as a node) the thread is `wild`; no run gets there. Behind the last bits of a
hash `Shifted` leaves nothing, where the code shifts by 32 bits or more, which C++ leaves
undefined: `Split` and `Expand` come there only after an operation has lost its way. Keys
are not 0, as the keys of the map driver are; the driver for TATP, whose copies of the
operations are not modelled, may use 0.

### How `Allocator` and `Recovery` correspond to the code

Addresses are numbers; a process maps the pool at one of `Pools`. `m_ticket`,
`m_pool`, `prev_m_pool`, `mg_freeIndex` and the thread-local `threadId`, `m_base`,
`m_freeIndex` are the fields of `Allocator`. `Offset` is the integer division that
places a region. A crash ends the process and keeps every store to the mapped
file (`Reload`). `given` is a history variable: what `Alloc` has ever returned.

The restart is that of the build with `USE_PMEM_ALLOCATOR`: in the one with
`USE_MMAP_ALLOCATOR` `reload_pmem` is empty, and no process finds an old pool.

`Recovery` follows `main.cc`, `SetAdaptor<TransList>` and `TransList`: the main
thread calls `Init`, allocates tail and head, calls `Init` again and fills the
list, the workers call `Init`, meet at the barrier, allocate and link nodes and
take them out again. Between the cell of the head and the store of its successor by
the constructor (`NewHead`, `ConstructHead`) a crash can come. `LinkNode` is the
constructor of a node that nobody else has seen together with the compare-and-swap that
links it, behind any node whose `next` has no mark. `MarkDesc`, `MarkNext` and `Unlink`
are the three stores of `MarkForDeletion`: `deleted` are the nodes whose `nodeDesc` has
the mark, `marked` those whose `next` has it, both still in the list until `Unlink`,
which stands for the search of `LocatePred`, too. Which node is linked where, and which
one is taken out, is left open.

A crash may come between any two of these steps, `MaxRestarts` times. The second process
finds the sentinels by their place (`FindSentinels`), walks over the regions
descriptor by descriptor (`VisitDesc`, `NextRegion`, the loop of
`validate_and_recovery`), relocates the successors (`FixPointer`, the loop of
`fixPointers`) and goes through the list (`CheckList`, the last loop of
`validate_and_recovery`). Neither loop looks for a null pointer behind the head, and
`fixPointers` masks no mark. Where the code would read through such a pointer the model
ends, in the phase `fault`: at a node with `next` marked, because the next round reads
an odd address; at one with `nodeDesc` marked, because `desc` is relocated at an odd
address, unless the pool has not moved and nothing is changed; behind the loop, when the
head has no successor (`GoesAstray`, `CheckList`).

One pool stands for the three of the code (nodes, descriptors, NodeDescs): the cells are
nodes for `fixPointers` and descriptors for the walk, and the three are taken to move
together. `reload_pmem` never updates `prev_m_pool`, so a pool that moves a second time,
or whose recovery was interrupted, cannot be relocated: the model ends such a
history in the phase `unusable`.

## Runs

`Thread`, `Desc` and keys are small sets; a transaction has at most `MaxOps`
operations. `Symmetry` permutes threads and descriptors in the runs without
liveness. Every run starts from every listed prefill.

| Run | Instance | Shows |
|---|---|---|
| `list_atomic` | 2 threads, 2 keys; 2 transactions of 2 operations (INSERT only in first place, or no DELETE), or 3 transactions that hand the keys on | the list implements `TxSet` (`Atomic`), with cycles that abort and helpers that lag behind by a transaction |
| `list_structure` | 2 threads, all pairs on two keys, persisted | shape, marks, helping, persistence: all invariants and action properties |
| `list_live` | 2 threads, transactions that wait for each other or meet their own node, persisted | the inductive invariant `SafetyInv` of the proofs; a thread that runs finishes though the other may stop for ever anywhere (non-blocking); with both running, each transaction is decided and persisted |
| `list_relink` | violated | finding 1 |
| `list_txid_order` | violated | finding 2 |
| `lockfree_calls` | 3 threads, 4 calls among them (at most 3 each), 2 keys, `-O3` | `Linearizable`, `NothingLost` |
| `lockfree_links` | 2 threads, 2 calls each, all prefills, `-O0` | `IInv`, ordered links, frozen marks; a thread that runs returns though the other may stop for ever (non-blocking) |
| `boosting_contended` | 3 threads, 3 transactions, 2 keys in opposite orders, failures half-way, a key twice | locking discipline, `m_lockSet` exact, undo, `Atomic`, no trace of aborts; a thread that runs finishes though the others may stop for ever with their locks taken, but not inside `Lock` |
| `skip_shared` | 2 threads, 2 levels, 2 transactions that wait for each other or delete what the other looks for, persisted | the inductive invariant `SafetyInv` of the proofs, levels nested, no node lost, helping is sound; transactions are atomic as long as nobody reads a commit before it is durable; a thread that runs finishes |
| `recovery_restart` | main and 2 workers, 4 regions of 5 or 6 bytes, cells of 2, at most 5 cells in use, 2 addresses, 2 crashes | the inductive invariant `RecInv` of the proofs, no byte twice, the walk meets every cell, the list is restored unless the crash has left the head half-built or a marked node in it |
| `mdlist_adopt` | 2 threads, 2 dimensions, 4 keys, 2 transactions of 2 operations where one node adopts another's child | coordinates ordered, takeovers sound; atomic unless a step departs from the protocol; a thread that runs finishes |
| `map_shared` | 2 threads, 4 keys of 4 bits, one bit per array, 2 transactions of 2 operations that collide | types; no node is lost or out of sight and no slot is marked, as long as no operation loses its way; atomic unless a step departs from the protocol; a thread that runs finishes |

*Why the bounds are enough to be interesting.* Two operations on two keys are
the least with which transactions can wait for each other, abort half-way and
help in a cycle; three threads on one key give owner, helper and a third party;
three transactions let a helper of the first one meet the effects of the second.
The mutants in `PROJECT.json` confirm it: each property fails in its run when
one guard or step of the model is changed the way a plausible bug would.

*Why atomicity is split into families of workloads.* The findings and
observations below are real ways to lose atomicity. The families are the largest
we know that exclude them: no key twice in a transaction, and no helper that
inserts a node which somebody can delete again (finding 1): either an INSERT is
the first operation, which only its owner runs, or nothing is deleted. The
skiplist, the multi-dimensional list and the hash map take the other way: a history
variable (`early`, `flawed`, `flaws`) records whether a step has departed from the
protocol, and atomicity is asserted up to that step. All other
properties are checked for all pairs of operations.

`list_atomic` restricts the arrays and the number of transactions by family
(`InFamily`); a family may have used up its transactions while descriptors are
left, so the deadlock check is off there. The other runs of the list keep it.

*Bounds of the lists below.* In the lock-free list `MaxCalls` bounds the calls
of a thread and `AllCalls` those of all threads: three calls let a thread
insert, delete and insert a key again while another stands still inside its
only one, which is where a pointer read earlier comes back; 2+1+1 is a race of
three. Two keys give a node in front of and behind a marked one. In the boosting list
two keys and two operations are the least for a cycle of locks; a key twice in one transaction meets `LockHeld`. Calls and
transactions are used up in these instances, so the system may stop and the
deadlock check is off; the liveness runs show that it does not stop early.

*Bounds of the other containers.* Two levels are the least on which a link can be
overtaken on an upper level; the height of a node is chosen freely. Four keys in
two dimensions give a node that takes the place of another and adopts its child
while the second thread inserts, finds and deletes at both. Shares of five or
six bytes and cells of two make every region boundary an odd one; five cells are the
sentinels and three nodes of two or three threads, so that a marked node has neighbours
on both sides; two crashes let a recovery be interrupted or follow another. Arrays of two slots make keys 1, 5
and 9 collide three levels deep, where the first insertion hangs a chain of spines
in and the next one goes through it. Four bits are the least with which an
operation can lose its way. A slot changes at most twice (null, node, spine) as
long as that does not happen, so no thread reaches a third failure at a slot, and a
`MAX_CAS_FAILURE` of 3 stands for the 10 of the code: `NeverMarked` says so. The
marks and `forceExpandTable` come into play only for an operation that has lost its
way. The multi-dimensional list may
die, and a recovery may fail or find the pool unusable, which are ends of their own
(`Terminated`, `Ended`), so the deadlock check stays on.

*Fairness.* Only `LiveSpec` (one per MC module) uses fairness: weak fairness of
`Step(t)` for the threads in `Running`, that is, the operating system keeps
scheduling these threads. No fairness is assumed of a single branch, and none
that a compare-and-swap succeeds. Every `LiveSpec` is checked with one thread
in `Running`, the others may stop for ever: for the lock-free containers this is
what non-blocking means. The boosting list is not non-blocking. A thread that waits for
the lock of a key gives up after a millisecond whatever its owner does, but one that
stopped inside `Lock` would keep the key's entry of `m_lockMap`, for which others wait
without a timeout. So its `LiveSpec` adds weak fairness of `LeaveLock` for all threads:
they may stop anywhere but there, with any locks taken. That the running thread gets the
entry in the end is no assumption of strong fairness: there are finitely many
transactions, so the others stop asking for it.
`EventuallyDurable` states in its premise that all threads are scheduled.

## Findings

1. *A stale link* (`list_relink`, `translist.cc:390` and `:403`). The status is
   checked before the link, not at the link. An owner that stalls in between
   links a second node for an INSERT that a helper has done and committed and
   another transaction has deleted. The deleted key comes back.
2. *The order of txids* (`list_txid_order`, `translist.cc:158`). A transaction
   draws its txid after it has committed, and `HelpOps` of another thread returns
   from a committed descriptor without persisting it. The later of two
   transactions on a key can draw the smaller txid; recovery then takes the
   earlier one for the last.

The models also show the following, which no line of the repository contradicts.

- *Committed but not persisted* (`translist.cc:650`; `ReadsEarly` in the other
  containers). Until `persistStatus` is `PERSISTED` a reader takes a committed
  DELETE for ineffective and a committed INSERT for absent. An operation in this
  window acts on the old value, and both transactions commit.
- *A key twice in a transaction* (`translist.cc:129`). `MarkForDeletion` removes a
  node of the transaction without asking which operation touched it last, so
  DELETE then INSERT of one key loses the key. The driver generates such
  transactions.
- *The early return* (`translist.cc:302`). When a helper commits a transaction,
  its owner returns TRUE without waiting for the helper to persist the
  descriptor; a crash may lose a transaction that was reported committed.
- *Two reads* (`lockfreelist.cc:195`). Delete passes `right->next` twice to one
  compare-and-swap. Where the new value is read first, as GCC does without
  optimisation, an Insert behind `right` between the two reads is overwritten.
  The `-O3` build reads the field once, and there `NothingLost` holds.
- *The wrong edge* (`txmdlist.cc:383`, `InvalidatesOther`). The fetch-or that
  invalidates the edge to a marked node does not compare the edge; when another
  Insert has replaced the node, its new node is declared deleted.
- *A stale dimension* (`txmdlist.cc:385`). After that fetch-or `Insert` starts from
  the head and keeps `dim`; it can take the head for the node of its key and read
  its null `nodeDesc`.
- *An orphan* (`txmdlist.cc:866`, `GivesTooEarly`). Three nodes of one coordinate
  stack up; the top one adopts from the middle one, which has not adopted from the
  bottom one yet. `Insert` finishes the lower adoption first (`txmdlist.cc:475`); a
  search that helps does not. It closes an empty slot of the middle node, and the
  child that would come there is not found any more.
- *A lost way* (`transmap.h:730`, `LosesItsWay`). After a failed compare-and-swap of a
  nodeDesc below the second level, `goto insert_sub` (`update_sub`, `find_sub`,
  `delete_sub`) takes the first bits of the hash in an array for later bits. The
  operation can miss the key or give it a second node.
- *UPDATE inserts* (`transmap.h:897`, `UpdateInserts`). An UPDATE whose key is absent
  returns false when the slot is null, and puts a node there when another key is in
  the slot. The map driver takes `MAIN_SIZE` large enough that its keys never share
  a slot, so there neither this nor a split happens.
- *The values of aborted updates* (`transmap.h:2017`). `IsLiveUpdate` does not ask for
  the status, so FIND answers with the value of an UPDATE that aborted; the comment
  at `transmap.cc:610` expects that it is "interpreted correctly". INSERT writes its
  value after it has taken the node (`transmap.h:510`); a helper may commit the
  transaction before.
- *FIND and its helper* (`transmap.h:1099`). A FIND that a helper has done already
  answers 0 in the main array, which `HelpOps` takes for "not found", and 1 in a
  spine, which it stores as the value.
- *A key twice in the map* (`transmap.h:2004`, `AbortsOwnChange`). When a transaction
  with two operations on a key aborts, its last one no longer tells whether the key
  was there before.
- *A marked spine* (`transmap.h:1381`). A mark on a spine is said to do no harm;
  DELETE asks for the mark first and expands the spine as if it were a node.
- *A second recovery* (`allocator.h:333`, `Recovery`). `prev_m_pool` keeps the
  first address, so pointers are relocated once too often after a second move,
  and a crash inside `fixPointers` leaves pointers of two mappings.
- *Overlapping mappings* (`translist.cc:748`). The loop of `fixPointers` compares
  `curr->next`, which is still a pointer of the old mapping, with `m_tail` of the new
  one. If the new mapping lies partly over the old one, so that a node had the address
  that the tail has now, the loop ends there and the rest of the list keeps its old
  pointers. Nothing excludes it: the addresses are those that `mmap` returns. With
  `Pools = {100, 105}` TLC finds `ChainRestored` violated; the run and the theorems
  take mappings that are apart (`PoolsApart`).
- *Marked nodes at the crash* (`translist.cc:751`, `GoesAstray`). Between the marks of
  `MarkForDeletion` and the unlinking, a node is in the list with odd pointers. When the
  process is killed there, `fixPointers` of the next one takes `next` as it is and goes
  on one byte behind the node, or writes `desc` one byte behind the `NodeDesc`; the last
  loop of `validate_and_recovery` does mask the marks.
- *A half-built head* (`allocator.h:495`, `translist.cc:32`). The free index is stored
  before the constructor of the head has run. When the process is killed in between,
  `getNext` of the next one finds a head, and the last loop of `validate_and_recovery`
  reads through its null successor. The comment on `ChainRestored` names both cases.
- *Recovery is written, not used.* `SetAdaptor::Uninit` carries its calls as
  comments, the one for the list with one thread too many; the count of main.cc
  is right. The capacity assertion of `Alloc` is compiled out, and `mg_freeIndex`
  is never flushed on persistent memory.

## Proofs

`TransListProofs` proves, for all values of the constants that satisfy
`ConstantsAssumption` and `NullAssumption` (positive bounds, operation arrays of
at most `MaxOps` operations, prefills of keys, distinct sentinels):

| Theorem | Statement |
|---|---|
| `Invariance` | `Spec => []IInv` |
| `TypeCorrect` | `Spec => []TypeOK` |
| `HelpDecides` | `Spec => []FinishedIsDecided` |
| `Isolation` | `Spec => TakenWhenDecided` |
| `DecisionBeforePersistence` | `Spec => []PersistAfterDecision` |
| `ReturnDecided` | `Spec => ReturnIsDecided` |

*The argument.* That a helped transaction is decided when `FinishPendingTxn`
returns is not inductive: the return is a step of the frame above, which knows
only its own descriptor. `IInv` adds what ties frames together (`StackInv`): no
descriptor is on a stack twice, and every frame below the top waits at `exist`
for exactly the descriptor of the frame above it. A frame returns only when its
descriptor is decided, because it lost the compare-and-swap on `status` or
removed nodes after winning it (`FrameInv`, `Won`); then the caller may rely on
it (`Resolved`). Decisions are never taken back (`Monotone`), so steps of other
threads keep all of this. `FrameInv` also carries what the types need: an
operation number within the array, a node where a node is expected. `FrameStep`
and `StackStep` state once what a step must show; each action then has its own
lemma. `Isolation` follows from `Resolved` at the compare-and-swap of
`UpdateDesc`, `ReturnDecided` from `Won` and the guard of `DecideTxn`.

On the links, the marks and the txids, from the same assumptions:

| Theorem | Statement |
|---|---|
| `SafetyInvariance` | `Spec => []SafetyInv` |
| `LinksSorted` | `Spec => []Sorted` |
| `MarksInOrder` | `Spec => []MarkOrder` |
| `MarksFreeze` | `Spec => MarkedIsFrozen` |
| `TxidsDiffer` | `Spec => []TxidUnique` |
| `FreshNodes` | `Spec => LinksFreshNodes` |
| `RemovalIsFinal` | `DistinctKeys => (Spec => []RemovedIsGone)` |
| `NodesStay` | `Spec => NoLostNode` |

*The argument.* No conjunct of `Sorted` or `MarkOrder` says why a
compare-and-swap in one thread keeps what another thread knows. `SafetyInv` adds,
to `IInv`:

- *Which pointers exist.* A node is named by the run that allocates it, long
  before that run starts. `Unborn` says from the frames alone that the run is
  still to come; `Ready` nodes are all that the heap and the locals of any frame
  can point to (`HeapInv`, `RefInv`), so what `InsertLink` writes into its node
  nobody has seen before (`FreshNodes`), and a node that is not ready is neither
  marked nor taken. A frame moves on to its next operation only after its node
  stopped being `Unborn`, and an idle frame is a new one (`IdleInv`).
- *Where a walk stands.* `WalkInv` relates `pred` and `curr` of each frame to the
  key of its operation at each label. A stale `pred` is harmless because keys of
  nodes never change and a compare-and-swap that succeeds replaces the successor
  that was read by one with a larger key.
- *Who may mark.* The lists of nodes to insert and to delete hold nodes of the
  transaction's own keys (`EntryOf`), and what is on the list to remove fits the
  outcome (`Undone`). `next` is marked only by a frame that has seen or set the
  mark on `nodeDesc` (`MarkInv`).
- *Tickets.* Several threads persist one descriptor, and the last store wins:
  `TicketInv` says that a ticket which is drawn and not stored yet is in no
  descriptor and in no other frame, and that what is `PERSISTED` holds one.
- *What an unlink skips.* `WaysInv`: between the successor that a frame has read
  and the node it stands on lie only marked nodes, whose pointers no longer change
  (`MarksFreeze`). So a compare-and-swap over them drops marked nodes only
  (`SwingKeeps`), and one that links a node which nobody has seen drops none
  (`LinkKeeps`); `NodesStay` is both, put on the `Chain` of the states by
  `PathKept`.

`RemovalIsFinal` names a hypothesis on the workload: a transaction that names a
key twice can remove a node that its later operation has put back (see the
observations above), so without `DistinctKeys` the statement is false. The other
theorems hold for all operation arrays.

`LockfreeListProofs`, from `ListAssumption` (distinct sentinels, prefills of
keys), for any number of threads, keys and calls and for both builds:

| Theorem | Statement |
|---|---|
| `ListInvariance` | `Spec => []IInv` |
| `ListTypeCorrect` | `Spec => []TypeOK` |
| `LinksOrdered` | `Spec => []OrderedLinks` |
| `MarkFreezes` | `Spec => MarkedIsFrozen` |
| `ReachInvariance` | `Optimised => (Spec => []ReachInv)` |
| `NodesAreKept` | `Optimised => (Spec => []NothingLost)` |
| `Linearizes` | `Optimised => (HSpec => Linearizable)` |

*The argument.* `OrderedLinks` must speak about all nodes that were ever linked,
as traversals stand on unlinked ones. A compare-and-swap keeps it only because
of what the frame knows (`FrameInv`): `left` lies below the key, `right` at or
above it, and the value that Delete writes back lies above it. `MarkFreezes`
needs that the node of a running `Insert` is not linked yet and hence not marked
(`FreshInv`), which numbers the calls of a thread.

`Optimised` names the build that reads `right->next` once (`-O3`); in the other
build a node can be lost (see the observations), and the three theorems fail.
`ReachInv` says that only marked nodes lie between the two pointers a call is about
to compare (`WayInv`), and that every set of nodes which a walk from the head does
not leave holds all linked nodes without a mark (`KeptInv`): reachability as an
invariant that a single link or unlink keeps. `Linearizes` follows from it. The
keys of a state are those of its unmarked linked nodes; keys rise along links, so
two neighbours with nothing in between prove a key absent; a link adds one key, a
mark takes one away, and no other step changes the set. `SeenInv` says of the
history variable `seen` what each label knows: a traversal that has read a
successor beyond its key has been at a moment at which the key was absent, and one
that finds an unmarked node with its key at a moment at which it was present.

`BoostingListProofs`, from `BoostingAssumption` (`None` is no thread and no
transaction, operation arrays are non-empty):

| Theorem | Statement |
|---|---|
| `BoostingInvariance` | `Spec => []IInv` |
| `BoostingTypeCorrect` | `Spec => []TypeOK` |
| `TwoPhaseLocking` | `Spec => []LoggedIsLocked` |
| `UndoWorks` | `Spec => []UndoApplies` |
| `UnlockIsComplete` | `Spec => []LockSetExact` |
| `Invisible` | `Spec => OnlyCommitsShow` |
| `Transactions` | `Spec => Atomic` |

*The argument.* No property here is inductive alone. `CoreInv` says that a
logged key is in the lock set, that every lock in the set is owned until the
release begins, but for one that the thread is trying to take (`HoldsItsLocks`), and that a transaction logs a key at most once; so two threads
never log the same key, and `UndoApplies` survives the steps of the others. For
`Invisible` the set is described key by key (`RestoredKey`): a key is restored
when its presence differs from being logged, so an operation and its undo flip
both (`FlipBoth`). `TxnInv` adds that a running transaction is open and belongs
to one thread, so the last operation of a transaction is a commit. `EntryInv`
says that the entry of a key is held by the one thread that is in `Lock` for it.

`Transactions` is the refinement of `TxSet`. `RunningInv` keeps what a transaction
has done so far (`Progress`): its lock set are the keys of its operations, none
occurs twice (a second operation on a key fails at `LockHeld`), and the keys are as
these operations have left them, because nobody else holds the locks. At a commit
every operation therefore succeeds on `Restored`, the set without the transactions
that are still open, and the set after it is `Restored` with each of its keys set by
the one operation on it. `TxSet` runs the operations by a recursive function: as no
key comes twice, each prefix of the run is a set expression, which is shown for
all prefixes with the least prefix that would differ (`LeastNumber`).

`TransSkipProofs`, from `ConstantsAssumption` and `NullAssumption` of `TransSkip`,
for any number of threads, descriptors, keys and levels:

| Theorem | Statement |
|---|---|
| `SkipInvariance` | `Spec => []IInv` |
| `SkipDecisionBeforePersistence` | `Spec => []DecidedBeforePersist` |
| `SkipIsolation` | `Spec => TakenWhenDecided` |
| `SkipSafety` | `Spec => []SafetyInv` |
| `LevelsKept` | `Spec => []LevelsNested` |
| `SkipNodesStay` | `Spec => NoLostNode` |

*The argument.* The stack and the frames hang together as in the list, but
`FinishPendingTxn` does nothing when the transaction of its *caller* is decided, so
a frame that returns from it knows less: `Resolved` promises a decided transaction
only while the caller is live, and, at `update`, always, as the frame has been live
at `CheckActive` after the help. That `update` needs this without the condition, and
that nothing weaker is inductive, is what makes `SkipIsolation` true although the
helper asks for the wrong status. `FrameInv` also says that only a decided
transaction is persisted in mid-operation (`back = "exist"`, after a cycle).

`LevelsNested` and `NoLostNode` need to know what a search has noted long before
its compare-and-swap. `SafetyInv` adds `ShapeInv` to `IInv`:

- *Which pointers exist.* As in the list, a node that its `Insert` has not linked
  yet is `Unborn`, and nothing points to it (`LinkInv`); idle frames are new ones
  (`IdleInv`). So the node that `link` puts on level 0 is on no level before.
- *What a search has noted.* `WalksInv`: `preds[i]` and `succs[i]` are on level `i`
  and enclose the key (`Noted`). This stays true while others link nodes, because
  no step takes a node off a level or changes a key; it does not say that the two
  are still neighbours. That is what the compare-and-swap finds out: if it
  succeeds, they are, and level `i` gains exactly the node (`PathGrows`) and loses
  none.
- *Where an Insert stands.* While a node is raised, it is on exactly the levels
  below `rise`; a new search in between returns to the same `rise`. So the next
  link does not put it on a level twice, and `Nested` holds: what is on a level is
  on every level below.
- *That an absent key is absent everywhere.* `succs[0]` beyond the key shows that
  level 0 does not hold it. No level passes over a key that lies on it
  (`PathGap`), and by `Nested` no higher level can hold it either: so all the
  successors lie beyond the key, which the keys of the new node need.

The prefill is shown to be well formed as the initial state (`LinkedNext`): the
next prefilled key of a level is the least above the last one.

`TxMdListProofs`, from `ConstantsAssumption`, `NullAssumption` and `KeyAssumption` of
`TxMdList`, for any number of dimensions, digits, threads, descriptors and keys:

| Theorem | Statement |
|---|---|
| `MdInvariance` | `Spec => []IInv` |
| `CoordinatesKept` | `Spec => []WellFormed` |
| `SearchesDescend` | `Spec => []KeysGrow` |
| `PrivateUntilLinked` | `Spec => []NobodyEarly` |

*The argument.* That a slot may be filled is decided from what a search has seen long
ago, on nodes whose children are being moved by others. `IInv` (`TxMdListInv`; TLC
checks it on the instance of `mdlist_adopt` when it takes the place of `WellFormed` in
the configuration) says why it still fits:

- *Coordinates are enough.* `Below(k, l, i)` says that keys `k` and `l` share the
  coordinates before `i` and that `l` is larger at `i`. It depends on keys alone, so once
  a frame has established it for `pred` and its key, nothing that happens to the slots
  can take it back. `HeapInv` asks it of every slot and its owner, `PredInv` of `pred`
  and the key of the operation, and the compare-and-swap that links a node only has to
  show it for the two slots that change.
- *Where a search stands.* `PlaceInv` relates `curr` and the two dimensions of the search
  to the key. `Leads` is weaker than equality in the last dimension, because
  `InsertAbsent` takes over a deleted node there as if it were the next dimension's, and
  nothing stronger is inductive. After `Invalidate` `curr` may be the head; the invariant
  carries that case up to the access at which the process ends.
- *What is adopted.* A task of adoption names a node and a range of dimensions
  (`Adopts`). Every helper copies a child of `task.curr` from a dimension of that range
  (`AdoptInv`), where by `Leads` the two nodes share the coordinates; so the copy fits
  the adopting node (`Hangs`), however many helpers work on the task, late or twice.
- *Which nodes there are.* As in the list, a node is named by the run that allocates it.
  `Unborn` says from the frames that it is still to be linked, `Ready` nodes are all that
  slots, tasks and locals lead to. So the slots that `FillNewNode` writes are those of a
  node that nobody has seen, which `PrivateUntilLinked` states on its own.
- *Digits.* That coordinates order the keys (`SmallerKey`), and that two keys which share
  all coordinates are equal, is shown digit by digit with the least number principle.

`KeysGrow` follows: a child has a larger key than its parent, so a search visits a node
at most once and no adoption can close a cycle.

`TransMapProofs`, from `ConstantsAssumption`, `NullAssumption`, `SizesAssumption` (an
array has a slot) and `KeyAssumption` (a hash has `KEY_SIZE` bits: nothing is left of it
behind them), for any number of threads, descriptors, keys, bits and sizes of arrays:

| Theorem | Statement |
|---|---|
| `MapTypes` | `Spec => []TypeOK` |
| `MapInvariance` | `Patient => (HSpec => []IInv)` |
| `MapRouted` | `Patient => (HSpec => []RoutedUnlessLost)` |

`Patient` is `MAX_CAS_FAILURE > 2`; the code has 10 (`transmap.h:27`).

*The argument.* A node is where the search for its key ends, and the search is a
recursion over the trie, which changes under the feet of all. `IInv` (`TransMapInv`) says
it without recursion: there is a function `at` that gives every array its *place*, the
bits used before it and a key that comes to it (`Places`), and

- *Every slot agrees with its place* (`TrieInv`). A node in slot `j` of an array has a
  key that comes to the array (`Same`: it has the same digits as the array's key so far)
  and whose next digit is `j`; a spine there has the place one level down. Every array
  but the first is in some slot, so its place is not invented.
- *An operation is where its key comes to* (`WayInv`). Its array has the place that its
  `right` says. Arrays stay for ever and keep their place, so this needs no look at what
  the slots hold by now. A `goto` that starts again with the wrong bits breaks exactly
  this: hence `"way" \notin flaws`.
- *A slot changes hands twice.* `fails` counts the failed compare-and-swaps at a slot:
  after one the slot is no longer null, after two it holds a spine, and a third look
  goes down. So no thread ever has the patience to mark a slot, and `forceExpandTable`
  does not run.

A split hangs in a chain of arrays, as many as the two keys have digits in common
(`SpinesFacts`): the place of each is its level and the key of either node. The chain
ends because keys that agree in all digits are equal (`KeysDiffer`, from the digits by
the least number principle, as `Levels` has a last one below `KEY_SIZE`). The prefilled
trie is shown to satisfy the invariant as the initial state: its arrays are the sets of
keys that share their first digits (`Crowds`), and the array before such a set is found
one level up (`ParentFacts`).

`RoutedUnlessLost` follows: for each station of a way (`Stations`) the recursion behind
`EndOfRoute` exists, because `right` grows up to `KEY_SIZE` (`EndsExist`), and a slot that
holds the key's node is the end of every way that meets it. Two nodes of a key would be
in the same slot.

TLC cannot try all functions `at`; `IInvSeen` of `MCTransMap` is `IInv` with the places
read off the ways of the keys, and holds on the instance of `map_shared` when it takes
the place of `RoutedUnlessLost` in the configuration.

`MapTypes` needs no such history: after a lost way, with marks and expansions, the slots
still lead to nodes and arrays that are there. `OpInv` says for it what a frame has read
(a node, at `read` and after; a marked slot, at `expand`).

`RecoveryProofs`, from `SizesAssumption` (sizes are natural numbers, at least one
region, no pool at address 0) and `MainAssumption`, for any number of threads,
cells, restarts and addresses:

| Theorem | Statement |
|---|---|
| `AllocatorInvariant` | `ASpec => []AInv` |
| `RecoveryUsesAllocator` | `RSpec => ASpec` |
| `RecoveryInvariant` | `RSpec => []AInv` |
| `DisjointCells` | `RSpec => []Disjoint` |
| `RecoveryVisits` | `RSpec => []VisitsAll` |
| `RecoverySafety` | `PoolsApart => (RSpec => []RecInv)` |
| `RecoveryRestores` | `PoolsApart => (RSpec => []ChainRestored)` |

*The argument.* Each step of `Recovery` is a step of the allocator or leaves it
alone (`RecoveryUsesAllocator`), so what holds of `ASpec` holds of `RSpec`. `AInv`
carries over a crash because it compares the file's free index with the cells
that were ever handed out, not with the variables of a process. Cells of one
region are apart because each lies behind all earlier ones; cells of two regions
because the integer division that cuts the pool leaves every region its share
(`RegionsApart`), which is arithmetic over all sizes (`Division`, `Cancel`).

The walk and the list need more than the allocator knows, which `RecInv` adds
(`RecoveryInv`):

- *Cells side by side* (`PackedInv`). A region that has handed out anything has a cell
  at its start, and behind every cell is another one or the free index. It is what the
  iteration (`getFirstForThread`, `getNextForThread`) relies on: a step of `Size` from
  a cell is a cell or past the end, so the walk skips none.
- *What the walk has met* (`VisitInv`): everything in the regions below `region`, and in
  `region` what lies below `curr`. The local `following` is read one step early, and
  stays right because nobody allocates during recovery. These two need no assumption
  on the addresses (`RecoveryVisits`).
- *Where the main thread is* (`PhaseInv`): the sentinels are the first two cells of
  region 0, which is why the next process finds them by place, and a process that was
  killed before the head was allocated is seen to have no list. One that was killed
  before its constructor had run leaves `HeadGiven` without `Built`.
- *What the list is* (`Line`): a function from places to places that begins at the head,
  ends at the tail, never goes round, and meets all its places. An insertion between two
  places makes a line of a line (`LineGrows`) because the cell is fresh (`MineInv`: on
  no list, and in no other thread's hands), and so does the removal of a node behind
  another (`LineShrinks`), as no two places lead to the same one. `ChainIs` shows that the recursive `Chain`
  computes it, by `WalkWhole` of `Paths`, so `ChainRestored` speaks of the list that a
  traversal meets.
- *Which nodes have a mark* (`MarkInv`): `next` is marked after `nodeDesc`, and the
  sentinels never are. So a recovery that comes to `fault` inside of the loop stands at a
  node of the list that was `deleted`, and one that comes there behind it has no list
  (`~Built`): the second half of `ChainRestored`.
- *Whose pointers they are* (`Pointers`, `FixInv`). After a crash all pointers are
  those of the process that wrote them (`base`). While `fixPointers` runs, the
  relocated ones are a front part of the list that ends at `curr`; its loop stops
  at the tail and nowhere before, since no pointer of the old mapping equals an address
  of the new one: here `PoolsApart` is used (`AllFixed`), and only here.

The part on the list is under `Within`: once a thread exceeds its share, its cells lie in
the next region, and what its nodes hold is overwritten. The free indices never fall, so
`Within` never comes back (`IndexGrows`).

`Paths` holds what these proofs share. What a recursive definition computes for
every input asks for an induction that the provers lack; instead, `Path` is the
least set that a walk does not leave, and the set of inputs on which the recursive
definition and `Path` differ has no element of least rank (`LeastNumber`, from the
well-foundedness of the numbers). Lemma `WalkIsPath` states it: the recursive `Chain` is
`Path` wherever each link leads to a node of a smaller rank, which the order of the
keys provides. The nodes of recovery have no keys: there `WalkGrounded` and `WalkWhole`
ask only that no set of nodes holds all its successors. `PathKept` turns a statement about one changed link into one about
paths; `PathGrows` says which node a level gains by it, and `PathGap` that no node
lies between the keys of two neighbours.

*Model-checked only.*

- Of the transactional list the refinement `Atomic`. It holds for the workloads of
  `list_atomic`, not for all (finding 1 and the observations), and no condition on
  the states is known that separates them.
- Of the lock-free list the liveness properties, and for the build without
  optimisation everything about reachability, which is false there.
- Of the skiplist the refinement `AtomicUnlessEarly`.
- Of the multi-dimensional list the refinement `AtomicUnlessFlawed`.
- Of the hash map the refinement `AtomicUnlessFlawed`, and what becomes of the trie
  after an operation has lost its way, apart from the types.
- Liveness under fairness and `ENABLED`, which are out of reach of the prover.

## Plan

1. Done: `TransList`, `TxSet`, `TransListAbs`, `TransListInv`, first theorems.
2. Done: `LockfreeList` (Harris's list) refining `LinSet`, and `BoostingList`
   on top of an atomic set, refining `TxSet`, each with theorems.
3. Done: `Allocator` and `Recovery`, with theorems on both.
4. Done: `TransSkip`, `TxMdList` and `TransMap`: the protocol where it differs.
5. Done: `SafetyInv` of the list and the theorems that follow from it.
6. Done: the refinements of the lock-free list and of the boosting list, and that
   the list loses no node, with the recursive definitions they rest on (`Paths`).
7. Done: the inductive invariants of the skiplist, its isolation and its levels.
8. Done: what recovery visits, and the list that it restores (`RecoveryInv`).
9. Done: the shape of the multi-dimensional list (`TxMdListInv`).
10. Done: the ways of the hash map (`TransMapInv`).

## Not modelled

Of the hash map: `ExecuteOpsDBBenchmark`, `ExecuteOpsTATPBenchmark` and their copies of
`HelpOps`, which run the same operations for other benchmarks; the pool of nodes
(`Allocate_Node` reuses only nodes that never entered the trie); the builds with a
thread watch list or a vector pool; the values, in the properties. Its nodes and
spines come from `calloc` and not from the persistent pools, so there is no recovery
to model. `translist_original.cc` and `transmap_original.h`: older versions that the
build leaves out. `dtx.h`: wrappers around flush and fence without control of their
own; the order of write-backs of a cache is not modelled, and a crash keeps all
stores. The transactions of a process after a recovery: the driver ends there.
Third-party code (OneFile, Romulus, Fraser's allocator and epochs), `vsv`, the
driver's random generator and timers, printing and metrics. The driver enters
through the initial states and the operation arrays only.
