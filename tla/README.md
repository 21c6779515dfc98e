# Verification of GRE's indexes

GRE is a benchmark for learned indexes: one driver (`src/src/benchmark`), an
interface every index implements (`indexInterface.h`), and the indexes
themselves (`src/src/competitor`). Most indexes are git submodules or vendored
code. The ones whose source is in this repository are XIndex, LIPP-Hybrid and
ALEX+. This directory holds TLA+ models of them, TLC configurations, and proofs
checked by TLAPS. Line numbers of every modelled definition are in
`PROJECT.json` under `map`.

## Inventory

| Component | State | Operations | Hard behaviour | Status |
|---|---|---|---|---|
| XIndex RCU (`xindex_util.h`, `xindex_impl.h`) | global `config`: `worker_n`, `rcu_status[]`, `exited` | `rcu_init`, `rcu_progress`, `rcu_barrier`, construction, `terminate_bg` | two loops over counters that move meanwhile; a global that outlives the index | modelled |
| XIndex records (`AtomicVal`) | status word (version, lock, removed, is_ptr), value or pointer | `read`, `update`, `remove`, `replace_pointer`, `*_ignoring_ptr` | optimistic reads; two records for one key during compaction | modelled |
| XIndex groups and root | root array of (pivot, group), group chains, per group: array, models, `buffer`, `buffer_temp`, `buf_frozen` | `get`, `put`, `remove`, `scan`; `do_adjustment`, `split_model`, `merge_model`, `compact_phase_1/2`, `split_group_pt1/2`, `merge_group`, `create_new_root`, `trim_root` | structure replaced under readers that hold no lock, in several published steps with barriers between them | partly |
| XIndex insert buffer (`AltBtreeBuffer`) | B-link tree: per node lock, version, keys, parent; leaf chain | `get`, `update`, `insert`, `remove`, `scan`, `RefSource` | lock-free descent and leaf reads; splits that lock their way up | modelled |
| XIndex linear models and searches | weights and error of each model | `prepare`, `predict`, `exponential_search_key`, `locate_group_pt1` | floating point; searches that start from any position | partly |
| LIPP-Hybrid | tree of nodes with none/child bitmaps, slots, sizes; compact (sorted) nodes | `bulk_load`, `insert`, `remove`, `update`, `at`, `exists`, range query | sequential; collisions, rebuilds, bookkeeping of sizes along a path | modelled |
| ALEX+ reclamation | global epoch, per thread epoch and three free lists | enter, leave, retire, advance | announcing an epoch is not atomic with reading it | modelled |
| ALEX+ tree | data nodes (lock, version), model nodes (readers-writer lock), sibling links; gapped arrays with bitmaps | `insert`, `get_payload`, `update`, `erase`, scan, resize, split, root expansion | lock promotion, replaced nodes, link locks; shifts and gaps | partly |
| Benchmark driver | keys, `operations`, one index per thread count | `load_keys`, `generate_operations`, `run`, `run_benchmark` | several indexes in one process | not modelled on its own |
| Interface and registry | which index was chosen | `get_index`, forwarded calls | none | partly |
| Adapters, submodule indexes, Masstree, `tscns.h`, generators, scripts, PGM metric | outside the scope | | | not modelled |

How they interact. The driver bulk-loads an index, starts `thread_num` OpenMP
workers that share the operations, joins them, deletes the index and goes on
with the next thread count. An XIndex worker calls `rcu_progress` at the start
of each operation and then uses root, group, array and buffer pointers without
locks. XIndex's background master starts rounds of `do_adjustment`, and
installs a new root when a group was split or merged. All communication between
workers and background threads is shared memory; RCU barriers separate the
background's steps. ALEX+ has no background thread: the insert or erase that
finds a leaf too full or too empty replaces it, under the leaf's lock and locks
of its parent and neighbours, and gives the old node to epoch based reclamation.
LIPP-Hybrid is used by one thread and does the same inside the call.

What makes each part correct: an index is a linearizable map (`LinearMap`), or,
used by one thread, a map (`OrderedMap`); nothing is freed while a worker can
reach it; at most one live record per key is reachable outside a published
transition; scans return what was there, once and in order; every operation and
every maintenance round ends; searches are exact wherever a model sends them;
redundant data (bitmaps, sizes, gap keys, two copies of the root pointer) agree.
The hazards that could break these are listed in `PROJECT.json`, each at its
line, with the properties aimed at it, or a note why none covers it.

## Modules

### XIndex

* `XIndexRcu` models `rcu_init`, `rcu_progress` and both loops of `rcu_barrier`
  one worker entry at a time, and the construction and destruction of the
  indexes of `run_benchmark`'s thread list. Pointers are abstracted to one
  counter per background thread: the n-th object it has published. `refs[w]` is
  what worker `w` has loaded since its last `rcu_progress`. Only the ordering
  that `std::atomic` and the fences give is assumed.

* `XIndexAtomicVal` follows one key through a compaction, when a record in the
  old array or buffer and a pointer record in the new array stand for it. Every
  load and store of a status word or value is a step. Workers that entered
  before the new group was published use the old record directly
  (`*_ignoring_ptr` if it is a buffer record), the others go through the
  pointer; `replace_pointer` runs among them.

* `XIndexGroup` models the structure. Arrays and buffers ("containers") map keys
  to no record, a value, or a pointer to another container; groups, roots and
  containers are numbered as they are allocated. Worker steps are those of
  `locate_group_pt1/pt2` and `Group::get/put/remove` (array, buffer,
  `buffer_temp`, frozen test, retry), and of `Root::scan` and `Group::scan`,
  whose sources each read one record ahead and are merged; background steps are
  those of `do_adjustment` and `background` between two barriers, with the merge
  of records and `compact_phase_2` one record and `create_new_root` one group at
  a time. The outcome of the test of `mean_error` is an input (`Errors`, `error`),
  since it depends on floating point.

* `XIndexBuffer` models the B-link tree: descent with version validation, the
  walk to the next leaf, leaf locking, in-place writes, shifting inserts, leaf
  and internal splits, new roots, scans. The stores that rearrange one node are
  one step; from then until `version++` the node is `torn`, and a read of it
  returns `Garbage` (or any child), which stands for everything a read that
  overlaps those stores can return. The order of the stores is the program's:
  reordering by the compiler of the plain stores between two fences matters only
  inside that interval.

* `XIndexSearch` is the layout seen by one thread: the start-up partition of
  `Root::init`, the exponential searches of the root array and of a group's
  array with their galloping steps, clamps and rounding, `put`, `get`, `remove`,
  and each visit of `do_adjustment` to a group (split, merge along a chain or
  into the next slot, compaction, nothing) as one step, then `create_new_root`.
  Predictions are arbitrary, and a visit may do whatever sizes and errors could
  make it do. Its calls come between visits; what happens during one is the
  subject of `XIndexGroup`, which in turn looks keys up exactly.

Four abstractions tie these together. `XIndexGroup` treats an access to a record
as atomic because `XIndexAtomicVal` shows it to be linearizable, also while the
record is being replaced. It treats a buffer operation as atomic because
`XIndexBuffer` shows that. It finds keys exactly because `XIndexSearch` shows
that. And `XIndexGroup` and `XIndexAtomicVal` let a barrier take its snapshot in
one step (`bwait`), where `XIndexRcu` reads the counters one by one; a worker
that calls `rcu_progress` between the loop's start and the read of its counter is
then waited for by the code and not by the model, so the model's barriers return
earlier than the code's, never later.

### ALEX+

* `AlexEbr` models the epochs: `enterCriticalSection` as a load and a later
  store of the epoch, the free list it empties, `scheduleForDeletion`,
  `canAdvance` thread by thread, `leaveCriticialSection`. The tree is one
  pointer that operations follow and replace.

* `AlexTree` models the tree under several threads: `get_leaf`, the leaf's lock
  and version, `lock_parent_node` with the read lock of a model node and its
  promotion, resizes and contractions, splits sideways and downwards, expansion
  of a model node, the link locks of neighbours, and `range_scan_by_size`. Which
  insert resizes and which splits is the cost model's choice: here it may be
  either. Models are exact.

* `AlexDataNode` is the inside of a leaf, as the thread that holds its lock
  changes it: bulk load with gaps, exponential and binary searches over gaps
  that repeat the next key, `closest_gap` over the words of the bitmap, shifts,
  erases, resizes, `erase_range`. Densities are those of the code, in tenths.

### LIPP-Hybrid and the interface

* `LippHybrid` models the tree by paths: exact nodes with a slot per key, nodes
  made by conflicts, compact leaves with their three searches, sizes and counts
  along the path, rebuilds, `remove` with the clean-up of an emptied node,
  range queries. The model of a node with two keys is the code's; any other may
  be any nondecreasing function that does not send all keys to one slot.

* `LinearMap` is what an index promises to several threads: a map whose
  operations are pending from `Invoke` to `Respond`. A mutation takes effect in
  one step between; `seen[p]` collects the values the key has had since the
  invocation, and a get or a failing mutation answers with one of them.
  `XIndexAtomicVal`, `XIndexGroup`, `XIndexBuffer` and `AlexTree` instantiate it
  with the map replaced by a state function of their own (`Logical`), and check
  it as the property `Linearizable`.

* `OrderedMap` is what one thread sees. `SequentialIndex` composes
  `AlexDataNode`, `LippHybrid` and `XIndexSearch` behind the choice of
  `get_index` and checks the refinement (`ImplementsMap`). What an insert of a
  present key does differs and is a parameter: ALEX+ refuses, LIPP-Hybrid
  overwrites it and answers no, XIndex overwrites it.

The `MC...` modules give constants their values; no configuration replaces a
definition.

## Runs

| Run | Checks | Bounds |
|---|---|---|
| `rcu` | `TypeOK`, `NoUseAfterFree`, `ExitReleasesBarriers` | one index, 2 workers, 2 background threads, 2 `rcu_progress` each, 2 objects per pointer: both loops run over both workers while both move |
| `record` | `TypeOK`, `PointerSafe`, `NoUseAfterFree`, `Linearizable`, `OperationsEnd` | 2 workers, 2 operations, 2 values: any two operations meet each other and every step of the compaction, with the old record in an array or in a buffer |
| `group_compact_merge` | `NoDuplicateKey`, `NoUseAfterFree`, `Linearizable` | two groups, 2 workers that both put, 3 operations on one key: compaction or merge of the groups, the nullified slot, the new root, trim |
| `group_split_models` | `TypeOK`, `PointersResolve`, `ScanSound`, `Linearizable` | one group, one putting worker and one that gets, removes and scans, 3 operations, all outcomes of the error test: model split and merge, group split, new root, trim |
| `group_live` | `ReadsEnd`, `PutsEnd`, `RoundsEnd` | two groups, 2 operations shared by a worker that gets, puts and removes and one that scans as well, then the join |
| `buffer` | `TypeOK`, `ChainSorted`, `Separated`, `QuietTree`, `ScanExact`, `Linearizable`, `OperationsEnd` | node capacity 3 (odd, as the code's 15), a full root leaf or a full root over four full leaves, any two operations or an operation and a scan: every kind of split, and two splits that meet in the same parent |
| `alex_ebr` | `TypeOK`, `SafeUnlessLate`, `RetiredOnce`, `SkewUnlessLate` | 2 threads, 6 nodes, a batch of 1 (64 in the code): the epoch goes round all three values and lists are reused |
| `alex_tree` | `RetiredUnreachable`, `QuietTree`, `Domains`, `ScanSound`, `Linearizable`, `OperationsEnd` | 2 threads, 2 operations on the smallest and the largest of 4 keys, and a scanner that asks for 3 from the smallest on; the root a leaf, or two leaves below a parent that must grow: two replacements of neighbours, or of nodes with one parent, at once; a leaf with no record at or before the start key |
| `sequential_indexes` | `StructuresValid`, `AlexRoomToInsert`, `SearchesExact`, `LippScanExact`, `ImplementsMap` | any sequence of calls with any key: ALEX+ with 5 keys, words of 2 bits and any content of unwritten memory; LIPP-Hybrid with 4 keys, 3 slots, its thresholds scaled to sizes 1 to 4; XIndex with 4 keys of which 2 are operated on |
| `group_split_two_writers` | `NoDuplicateKey` is violated | one group, two putting workers |
| `alex_root_leaf_resized` | `SuperrootAboveRoot` is violated | a tree of one leaf |
| `xindex_first_pivot` | `FirstPivotIsMinusInf` is violated | 3 keys, groups split also below the first pivot |

What holds. XIndex: gets, puts and removes are linearizable through compaction,
merge, model changes and root replacement with two writers, and through group
splits with one; the insert buffer is linearizable, stays sorted and its scans
are exact; records are never lost when pointers are replaced; nothing is freed
under a worker while a single index is used; scans return values their keys had,
and all of them in order if no group is being split or merged; gets, removes and
scans end, and so do puts and rounds but in the hang below; keys are found from
every prediction. ALEX+: point operations are linearizable and return, through
every replacement of nodes; the leaf chain and the tree agree when nothing is
under way; a retired node cannot be reached; no node is freed twice, and none
early before some thread announces an epoch too late; scans return records as
they were, in order, miss only those of leaves the iterator passes over, and end
unless they stand at a replaced leaf. A leaf's array keeps its order and its
gaps, and there is always a gap when an insert shifts. LIPP-Hybrid keeps its
sizes and its records through conflicts, rebuilds and compact leaves. For one
thread all three implement a map, with three exceptions in the code which
`ImplementsMap` writes out, each for the calls it is about: the unwritten slot
of an emptied ALEX+ leaf (`UnwrittenSlot`), LIPP-Hybrid's `remove` and `update`
of a key that is not there (`OthersRecord`), and its calls that end the process
(`ProcessExits`). The answer in `ret` names its call, so that nothing else
passes as one of them.

Two operations at a time are the interesting bound for the protocols with
validation, since each validation can be broken by one concurrent writer; a
third operation is needed where an effect shows only to a later get, and the
group runs have it; in `alex_tree` the third thread is a scanner. One pass of the
background thread visits every group once and may end in a new root. A second pass would start from a state of the same
shape; `sequential_indexes` goes through any number of passes. There the bounds
are on keys only, and sequences of calls are unbounded (LIPP-Hybrid's count of
inserts is cut at 3, which allows several rebuilds). Constants of the code are
scaled so that each threshold lies inside the sizes that occur: words of 2 bits
give leaves of several words and a partial last one, three or four groups make
the searches gallop by 1 and by 2 in both directions, and the three ways a
compact leaf is searched each have a size. The largest state spaces have one to two
million states.

`CHECK_DEADLOCK FALSE` is set in all runs but `sequential_indexes`: when the
operations are used up, all threads may be idle for good.

### Findings

Runs that expect a violation:

* `group_split_two_writers`: `split_group_pt1` does not freeze the old group. A
  put that is still inside it and a put through an intermediate group can leave
  one key in `buffer` and `buffer_temp`, which `split_group_pt2` asserts cannot
  be. This is why `group_split_models` has one putting worker.
* `alex_root_leaf_resized`: when the root is a leaf and is resized (not split),
  the new leaf is stored in the superroot only. `root_node_` keeps the old one,
  locked for good, and every later operation starts there and retries for ever.
* `xindex_first_pivot`: keys below every loaded key go to the first group. A
  split may give its upper half a pivot below its own: say the groups start at
  100, 200 and 300, and the first is split at 50. The next root array has the
  pivots 100, 50, 200, 300. A search for 60 that starts at slot 0, as a
  regression through these points makes likely, sees 100 above 60, ends at the
  first slot and does not find the record in the second.

More configurations show what the exceptions in the properties of the passing
runs are about. TLC finds each of these properties violated (`tlc -config
MCAlexEbrLate.cfg MCAlexEbr` and so on, a few seconds each):

| Configuration, module | Violated | Stated by the passing run as |
|---|---|---|
| `MCXIndexRcuSecond.cfg`, `MCXIndexRcu` | `NoUseAfterFree` | `rcu`: one index per process (`ThreadNums <- OneIndex`) |
| `MCXIndexRcuGrowing.cfg`, `MCXIndexRcu` | `StatusInBounds` | the same |
| `MCXIndexGroupJoin.cfg`, `MCXIndexGroup` | `ThreadsJoin` | `Hung` in `PutsEnd` and `RoundsEnd` |
| `MCAlexEbrLate.cfg`, `MCAlexEbr` | `NoUseAfterFree` | `late` in `SafeUnlessLate` and `SkewUnlessLate` |
| `MCAlexTreeSkip.cfg`, `MCAlexTree` | `ScanComplete` | `skipped` in `ScanSound` |
| `MCAlexEmptiedLeaf.cfg`, `MCSequentialIndex` | `LastSlotReal` | `OneEmptySlot` in `StructuresValid` |
| `MCAlexEmptiedInsert.cfg`, `MCSequentialIndex` | `RefusedIsThere` | `UnwrittenSlot` in `ImplementsMap` |
| `MCLippOthersRecord.cfg`, `MCSequentialIndex` | `RemovedWasThere` | `OthersRecord` in `ImplementsMap` |

* `MCXIndexRcuSecond.cfg`, `MCXIndexRcuGrowing.cfg`: `config` outlives the
  index. `exited` stays set after the first one is deleted, so that in every
  later one barriers wait for nobody and free what workers use, against the
  comment "wait for all workers" (`xindex_util.h:95`); and `rcu_status` keeps the
  length it had for the first one.
* `MCXIndexGroupJoin.cfg`: a put retries while its buffer is frozen; the freeze
  ends after a barrier; the barrier waits for a worker that has found no
  operation left and waits for the others at the end of the loop ("all thread
  join here", `benchmark.h:458`). `exited` would release the barrier and is set
  after the join. `PutsEnd` and `RoundsEnd` say that this (`Hung`) is the only way
  in which puts and rounds fail to end.
* `MCAlexEbrLate.cfg`: a thread is delayed between loading the epoch
  (`alex.h:274`) and announcing it (`alex.h:207`). Nothing it has announced holds
  the epoch back, which moves twice; what it retires goes into the list that is
  freed at the next advance, while a reader that entered in time may hold it.
* `MCAlexTreeSkip.cfg`: a scan whose key is below every record of the leaf it
  looks in gives its iterator the position -1 (`alex_nodes.h:1818`). `initialize`
  reads `bitmap_[-1]`, and if the highest bit of that word is set the iterator
  is at -1 again, which means its end: the whole leaf is passed over. In the
  models the content of that word is free (`Firsts`). A scan gets there with a
  start key below the loaded ones, or along the chain, if the first key of the
  next leaf is erased between `first_key()` and the search for it.
* `MCAlexEmptiedLeaf.cfg`, `MCAlexEmptiedInsert.cfg`: when the last key of a leaf
  is erased, `resize_from_existing` allocates one slot and writes nothing to it
  (`alex_nodes.h:2069-2073`). Lookups compare that slot without its bit. If it
  reads as a key, `validate_structure` fails, an insert of the key is refused, an
  update of it succeeds and a get returns what lies in the payload slot.
* `MCLippOthersRecord.cfg`: in an exact slot `remove` and `update` do not compare
  keys (`lipphybrid.h:966` and `999`). A delete of a key that was never loaded,
  which the driver issues, removes the record that has its slot and reports
  success.

### Assumptions of the passing runs, and what happens without them

| Assumption | Without it |
|---|---|
| `rcu`: the first XIndex of a process | `MCXIndexRcuSecond.cfg` and `MCXIndexRcuGrowing.cfg` |
| `group_compact_merge` has two putting workers and splits no group (no error is "high"), `group_split_models` splits and has one | `group_split_two_writers` |
| `group_split_models`: scans are complete if `calm` (no split or merge under way) | without that conjunct `ScanSound` fails: a scan during a split returns records twice; after a merge (add a scanner to `group_compact_merge`) it may miss the second group |
| `alex_tree`: `RootLeafResizes = FALSE` | `alex_root_leaf_resized` |
| `sequential_indexes`: `FirstExempt = FALSE`: XIndex's groups are split above their pivots | `StructuresValid` fails first; `xindex_first_pivot` shows the effect |

XIndex's keys exclude `key_t::min()`, on which `Root::scan`'s test for the first
group fails. Groups are split only if their arrays are not empty: with an empty
one `split_group_pt1` reads a pivot that is not there. If all records from the
pivot on are removed before the split merges them, the upper half is empty; the
models let it be, as the code does without asserts.

### Fairness

Threads are scheduled by the operating system, so a thread that can take a step
eventually takes one: weak fairness of each thread's steps. Spin locks need no
more, because operations are bounded and each releases its locks; ALEX+'s
replaced nodes keep theirs, and `OperationsEnd` of `alex_tree` shows that
no point operation waits for them. A scan may, and the same property says that
it ends unless it is at such a node for good. No fairness makes a worker start an
operation in `XIndexRcu`, `XIndexAtomicVal`, `XIndexBuffer` and `AlexTree`. In
`XIndexRcu` only the background threads are scheduled: a worker need not return
from its operation, since a put may retry for ever, and so a barrier need not
return while the index lives; what is checked is that `exited`, once set,
releases it (`ExitReleasesBarriers`). `XIndexGroup`'s `FairSpec` is the driver's
loop: the workers take operations while there are any (`MaxOps` for all of them
together) and finish; when all have (`AllFinished`) the index is deleted and
barriers no longer wait (`Exited`). Operations on other keys (`Elsewhere`) may
happen but need not. `AlexEbr` and the sequential modules state safety only.

## Proofs

The theorems hold for every value of the constants: any number of threads,
keys, values, operations, nodes and passes. TLC checked each inductive
invariant as an invariant of a run before it was proved.

### RCU (`XIndexRcuProofs`)

* `RcuTypeCorrect`: `TypeOK`, for any list of indexes;
* `RcuNoUseAfterFree`: `NoUseAfterFree`, if one index is built
  (`Len(ThreadNums) = 1`); without that the statement is false, which
  `MCXIndexRcuSecond.cfg` shows.

`NoUseAfterFree` speaks only of the moment of deletion; `RcuInv` follows an
unpublished object through the barrier. `Lifetime` says when `exited` can be set
and that only workers of the living index hold anything; `Held` bounds what a
worker holds; `Grace` is the argument: a worker that holds an object the pointer
no longer names has made no progress since the barrier read its counter, so the
barrier is still before or at that worker in its second loop.

### Reclamation in ALEX+ (`AlexEbrProofs`)

* `EbrTypeCorrect`, `EbrRetiredOnce`: for any scheduling. A node is in use, in
  one list, or freed, and is freed once (`ListsInv`).
* `EbrSkewUnlessLate`, `EbrSafeUnlessLate`: for any scheduling, too. `late` is a
  history variable, set when a thread announces an epoch that is no longer the
  current one. Until that happens every thread in a critical section is at most
  one epoch behind, and no operation holds a freed node. After it, neither is
  true (`MCAlexEbrLate.cfg`): a late announcement is the only way reclamation fails.

`Timely`, the part of the invariant that holds until then, adds what a scan of `canAdvance` has established about the threads it
has read (`Scanned`) and `Pinned`, which ties each holder of a retired node to an
announcement: the list the node waits in is not the next one its owner frees,
and the epoch cannot go round while the holder stays in.

### Records (`XIndexAtomicValProofs`)

* `RecTypeCorrect`, `RecPointerSafe`, `RecNoUseAfterFree`;
* `RecLinearizable`: `Spec => Linearizable`, the refinement of `LinearMap` step
  by step: reads, updates and removes, load by load, implement an atomic map
  through the whole compaction.

`RecInv` has the two record locks and who holds them (`Locks`), the two grace
periods (`Grace`), what `replace_pointer` has copied so far (`Copied`), what an
optimistic read knows (`Reads`: an unchanged version means that what was loaded
is still there, unless the record is between its write and its `version++`), and
`SeenOK`: what a read may answer has been the value since its invocation.

### Groups under maintenance (`XIndexGroupProofs`, `LinkedLists`)

* `GroupTypeCorrect`: `TypeOK`; in particular the walk back over null slots in
  `locate_group_pt1` never leaves the root array;
* `GroupPointersResolve`: `PointersResolve`;
* `GroupNoUseAfterFree`: `NoUseAfterFree`, for roots, groups, arrays and buffers.

All three follow from one invariant, `GroupInvariant`, because they are
entangled: a group is safe to delete since no list leads to it, and the lists
keep their shape because groups that are still linked are not deleted. Its parts:

* `Standing`, `Named`: the reference `do_adjustment` is at lies in the list of
  its slot, and its locals (`old`, `other`, `nref`, `next`) name the groups they
  should in each phase.
* `Unlinked`, `Linked`: `Reach` is the least set of groups reachable from the
  root, `Doomed` the replaced groups waiting for a barrier. They are disjoint,
  every reachable group is referenced once, and what leads out of a doomed group
  leads to something alive. Between `*group = new_group` and `*next_group =
  nullptr` of a merge the new group is referenced twice on purpose; the slot of
  the second group then counts as empty (`Nulled`).
* `FirstSlot`, `Flattening`, `NewRoot`: the new root array lists the groups
  copied so far in the order of the chains; while `trim_root` cuts the chains,
  old and new root both lead to all groups.
* `Owned`, `Fresh`, `Pointers`: which group owns which array and buffer, that the
  arrays under construction are nobody's, and that pointers lead from them into
  the sources of the merge in progress only.
* `Doings`, `Places`, `Grace`: where each worker stands. `Grace` is the barrier's
  contract: a worker that holds a doomed group is still waited for.

`LinkedLists` proves what replacing, joining and cutting nodes does to such
lists (`Splice`, `Join`, `ChainKeeps`). Reachability is defined as a least closed
set and not by recursion, so that these are first-order arguments. The
assumptions are those of `GroupConstants`; that there are finitely many keys is
one, as every array and buffer is finite.

What is not proved about groups: `NoDuplicateKey` is false with two putting
workers (the first finding), and `ScanSound` and `Linearizable`, which need the
contents of arrays and buffers related to the order of the pivots.

### Insert buffer (`XIndexBufferProofs`, `XIndexBufferOrder`, `XIndexBufferMap`)

All six safety properties the run `buffer` checks are theorems, in three modules
that build on one another.

`XIndexBufferProofs`:

* `BufferTypeCorrect`: `TypeOK`;
* `BufferStructure`: `LocksOK` and `ShapeOK`, the discipline the splits rely on.

Both follow from `Core`. `TypesOK` has the form of nodes and of each thread's
locals by where the thread is. `LocksOK` says which nodes a writer owns at each
point of its climb (`Owns`), that a locked node has exactly one owner, and that
a node being changed is locked by the writer that still has to increment its
version (`Tearing`). `ShapeOK` ties children to parents: a writer that has
compared `parent_ptr` under the lock inserts into the node its child hangs from,
and the right half of a split is in no node's children until then. Each action
has its effect on nodes (`...Facts`) and its preservation of `Core` (`...Core`)
as lemmas. Assumed of the constants, besides an odd `Capacity` of at least 3:
there are finitely many writers and operation keys, and keys are numbers.

`XIndexBufferOrder`:

* `BufferChainSorted`, `BufferSeparated`: `ChainSorted` and `Separated`;
* `BufferQuietTree`: `QuietTree`.

`ChainSorted` and `Separated` are not inductive: whether an insert keeps a leaf in
order depends on its being the right leaf, which depends on what its thread saw on
the way down, perhaps several splits ago. The invariant is `Ordered`. It gives every
node a range of keys, `R[n]`. The ranges of the leaves are read off the chain
(`LeavesDivide`: from a leaf's first key up to the next leaf's), those of internal
nodes are divided among their children. A split whose right half is not yet in the
parent is the case that makes this delicate: the parent still leads to the left
half for the keys of both (`HalvesOK`), so an internal node covers its range only
with the help of splits under way (`Covered`). `Known` says what a thread has
learned: in the descent (`Descent`) that its key is in the range of the node it
came to, if the node is still at the version it remembers and is not torn
(`Fresh`); at a leaf (`Arrival`) that the key is not below the leaf at all, which
is why walking to the right finds it. The ranges are a witness, not a variable of
the model: `Ordered` says that some `R` exists, and each step takes one to the next
(`Advance`: a node whose range shrinks is torn, and gets another version). For
`QuietTree`, `CountOK` counts `size_est` together with the writers that have
inserted a key and not yet incremented it.

`XIndexBufferMap`:

* `BufferLinearizable`: `Spec => Linearizable`, the refinement of `LinearMap`;
* `BufferScanExact`: `ScanExact`.

Since leaves divide the keys, the leaf a key's range is in tells its value
(`LogicalIs`), so each of the four writing steps changes the map at the key of its
operation and nowhere else (`Mapped`), also when a split moves half of a leaf.
`SeenOK` then says that what a get has read of a leaf is a value the key has had
since its invocation, provided that the version it will compare has not changed.

For scans the invariant is `ScansOK`. A scan that has left its first leaf does not
descend again: it is at a leaf it was led to by a next pointer, and knows of it
only that its first key never changes (`HeadsStay`). So what the scan has returned
is described relative to that key: it is all below it, and every key below it that
has been there all the time is among it (`Reached`). The records and the next
pointer it then reads belong to one version of the leaf (`BufOK`, if the version
still matches), and reach from the leaf's first key exactly to the first key of that
next leaf; a split that happens later moves records to the right of a leaf that has
been returned already, or changes the version. `ScanExact` alone says nothing about
the leaf a scan is at or the buffer it has filled, and is not inductive. A scan from
a key that is not a number would have no meaning: `ScanAssumption`.

### Only model-checked

Liveness (fairness is out of the prover's reach); the refinements of `LinearMap`
by `XIndexGroup` and `AlexTree`, and of `OrderedMap` by `SequentialIndex`;
`NoDuplicateKey` and `ScanSound` of `XIndexGroup`; and the invariants of `AlexTree`, `XIndexSearch`, `AlexDataNode` and `LippHybrid`. The searches of the
sequential modules are recursive functions over arrays and trees; what they
return for every input would need an induction the installed provers cannot
instantiate.

## Plan

1. Done: the modules above; the proofs about RCU, records, reclamation, the
   memory safety of groups, and the whole of the insert buffer.
2. Proofs next: `XIndexGroup` with one putting worker (`NoDuplicateKey`, then
   `Linearizable`), and `AlexTree`'s locks (`RetiredUnreachable`), for which its
   recursive search of the tree has to be stated as a function first.
3. Models left: several background threads and their handshake with the master;
   keys outside the loaded domain of ALEX+ (`expand_root`).

## Not modelled

* Floating point: least squares, FMCD, cost models and the fanout tree,
  kernel fitting, prediction errors, the PGM metric. Where their results choose
  between actions the models allow every choice; two consequences of rounding
  in LIPP-Hybrid are hazards in the list.
* ALEX+: `expand_root`, rounding corrections in `get_leaf`, iterators,
  statistics, the map classes, which nothing uses.
* XIndex: the `seq` mode, which `Root::init` refuses (`INVARIANT(seq == false)`);
  `binary_search_key` and `range_scan`, which are not called or not implemented;
  several background threads (each stays in its own range of slots); the models
  of the second stage, which `create_new_root` deletes under readers (a hazard
  without a property); the destruction order of index and background master.
* Memory layout, allocation failure, compaction of pools, statistics.
* The driver, key files, generators, plots, adapters: no state the indexes'
  properties depend on.
* The vendored Masstree, more than half of the repository's lines, and the
  submodules, which are not in the repository. With them left out the models
  cover most of the core of XIndex and LIPP-Hybrid and the concurrent part of
  ALEX+.
