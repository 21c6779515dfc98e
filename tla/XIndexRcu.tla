----------------------------- MODULE XIndexRcu -----------------------------
(***************************************************************************)
(* The quiescent-state RCU of XIndex (xindex_util.h) as XIndex uses it.     *)
(*                                                                         *)
(* A worker calls rcu_progress at the start of every operation, and again   *)
(* each time put retries; the pointers it loads afterwards (root, groups,   *)
(* arrays, buffers) stay in use until the operation returns.  A background  *)
(* thread replaces a pointer, calls rcu_barrier and deletes what the        *)
(* pointer used to name.  run_benchmark builds and destroys one XIndex per  *)
(* entry of its thread_num list; `config', with the rcu_status array and    *)
(* the `exited' flag, is global and outlives every XIndex.                  *)
(*                                                                         *)
(* status is a std::atomic<int64_t>, so an increment is one step that later *)
(* loads of the same worker do not overtake.  The n-th object that the      *)
(* pointer of background thread b has named is <<b, n>>.                    *)
(***************************************************************************)
EXTENDS Integers, Sequences

CONSTANTS
  ThreadNums,   \* the benchmark's thread_num list, one entry per XIndex
  MaxThreads,   \* bound of the entries of ThreadNums
  Bgs,          \* background threads, each adjusting its own group range
  MaxOps,       \* bound: rcu_progress calls of one worker
  MaxPublish    \* bound: objects that one pointer names during the run

ASSUME ThreadsAssumption ==
  /\ MaxThreads \in Nat
  /\ ThreadNums \in Seq(1..MaxThreads)
ASSUME BoundsAssumption == MaxOps \in Nat /\ MaxPublish \in Nat

VARIABLES
  inst,         \* number of XIndex objects constructed so far
  live,         \* the latest XIndex has not been destroyed
  worker_n,     \* config.worker_n
  slots,        \* entries allocated in config.rcu_status, 0 when it is null
  exited,       \* config.exited
  status,       \* config.rcu_status[w].status
  inop,         \* worker w is inside an operation
  refs,         \* objects worker w has reached in its operation
  cur,          \* <<b, cur[b]>> is the object b's pointer names now
  freed,        \* <<b, n>> has been deleted if n < freed[b]
  bpc,          \* where background thread b is
  w_i,          \* loop index of b in rcu_barrier
  prev_status   \* prev_status array of b in rcu_barrier

cvars == <<inst, live, worker_n, slots, exited>>
wvars == <<status, inop, refs>>
bvars == <<cur, freed, bpc, w_i, prev_status>>
vars == <<cvars, wvars, bvars>>

Workers == 0..(MaxThreads - 1)

\* The workers of the current instance: OpenMP numbers threads from 0.
Running(w) == live /\ w < worker_n

Init ==
  /\ inst = 0 /\ live = FALSE /\ worker_n = 0 /\ slots = 0 /\ exited = FALSE
  /\ status = [w \in Workers |-> 0]
  /\ inop = [w \in Workers |-> FALSE]
  /\ refs = [w \in Workers |-> {}]
  /\ cur = [b \in Bgs |-> 0]
  /\ freed = [b \in Bgs |-> 0]
  /\ bpc = [b \in Bgs |-> "off"]
  /\ w_i = [b \in Bgs |-> 0]
  /\ prev_status = [b \in Bgs |-> [w \in Workers |-> 0]]

-----------------------------------------------------------------------------
(* The XIndex object.                                                      *)

\* rcu_init: the array is allocated once, for the worker_n of that moment.
rcu_init(n) ==
  IF slots = 0
  THEN /\ slots' = n
       /\ status' = [w \in Workers |-> IF w < n THEN 0 ELSE status[w]]
  ELSE UNCHANGED <<slots, status>>

\* XIndex::XIndex, with start_bg.  The new index has pointers of its own.
Construct ==
  /\ ~live /\ inst < Len(ThreadNums)
  /\ \A b \in Bgs : bpc[b] = "off"
  /\ inst' = inst + 1 /\ live' = TRUE
  /\ worker_n' = ThreadNums[inst + 1]
  /\ rcu_init(ThreadNums[inst + 1])
  /\ cur' = [b \in Bgs |-> cur[b] + 1]
  /\ bpc' = [b \in Bgs |-> "run"]
  /\ UNCHANGED <<exited, inop, refs, freed, w_i, prev_status>>

\* XIndex::~XIndex and terminate_bg.  run_benchmark deletes the index once
\* every worker has left the parallel region.
Destroy ==
  /\ live /\ \A w \in Workers : ~inop[w]
  /\ live' = FALSE
  /\ exited' = TRUE
  /\ UNCHANGED <<inst, worker_n, slots, wvars, bvars>>

-----------------------------------------------------------------------------
(* Workers.                                                                *)

\* get, put, remove, scan: rcu_progress, then the operation proper.  The same
\* step is the rcu_progress of put's retry loop, which starts again from root.
rcu_progress(w) ==
  /\ Running(w) /\ status[w] < MaxOps
  /\ status' = [status EXCEPT ![w] = @ + 1]
  /\ inop' = [inop EXCEPT ![w] = TRUE]
  /\ refs' = [refs EXCEPT ![w] = {}]
  /\ UNCHANGED <<cvars, bvars>>

\* The operation loads a pointer that background thread b maintains.
Load(w, b) ==
  /\ inop[w]
  /\ refs' = [refs EXCEPT ![w] = @ \union {<<b, cur[b]>>}]
  /\ UNCHANGED <<cvars, status, inop, bvars>>

Return(w) ==
  /\ inop[w]
  /\ inop' = [inop EXCEPT ![w] = FALSE]
  /\ refs' = [refs EXCEPT ![w] = {}]
  /\ UNCHANGED <<cvars, status, bvars>>

-----------------------------------------------------------------------------
(* Background threads: *group = new; memory_fence(); rcu_barrier();         *)
(* delete old.                                                             *)

Publish(b) ==
  /\ bpc[b] = "run" /\ cur[b] < MaxPublish
  /\ cur' = [cur EXCEPT ![b] = @ + 1]
  /\ bpc' = [bpc EXCEPT ![b] = "snap"]
  /\ w_i' = [w_i EXCEPT ![b] = 0]
  /\ UNCHANGED <<cvars, wvars, freed, prev_status>>

\* First loop of rcu_barrier, and its end.
Snap(b) ==
  /\ bpc[b] = "snap" /\ w_i[b] < worker_n
  /\ prev_status' = [prev_status EXCEPT ![b][w_i[b]] = status[w_i[b]]]
  /\ w_i' = [w_i EXCEPT ![b] = @ + 1]
  /\ UNCHANGED <<cvars, wvars, cur, freed, bpc>>

SnapDone(b) ==
  /\ bpc[b] = "snap" /\ w_i[b] = worker_n
  /\ bpc' = [bpc EXCEPT ![b] = "wait"]
  /\ w_i' = [w_i EXCEPT ![b] = 0]
  /\ UNCHANGED <<cvars, wvars, cur, freed, prev_status>>

\* Mutants: the spin tests < instead of <=; the spin ignores exited.
PassedEqual(b, w) == status[w] >= prev_status[b][w] \/ exited
PassedNoExit(b, w) == status[w] > prev_status[b][w]

\* The spin on worker w ends.
Passed(b, w) == status[w] > prev_status[b][w] \/ exited

\* Mutant: the loop runs to w_i = worker_n; the entry past the end is garbage.
WaitPastEnd(b) ==
  /\ bpc[b] = "wait" /\ w_i[b] <= worker_n
  /\ w_i[b] < worker_n => Passed(b, w_i[b])
  /\ w_i' = [w_i EXCEPT ![b] = @ + 1]
  /\ UNCHANGED <<cvars, wvars, cur, freed, bpc, prev_status>>

\* Second loop of rcu_barrier, and its end.
Wait(b) ==
  /\ bpc[b] = "wait" /\ w_i[b] < worker_n
  /\ Passed(b, w_i[b])
  /\ w_i' = [w_i EXCEPT ![b] = @ + 1]
  /\ UNCHANGED <<cvars, wvars, cur, freed, bpc, prev_status>>

WaitDone(b) ==
  /\ bpc[b] = "wait" /\ w_i[b] = worker_n
  /\ bpc' = [bpc EXCEPT ![b] = "free"]
  /\ UNCHANGED <<cvars, wvars, cur, freed, w_i, prev_status>>

Free(b) ==
  /\ bpc[b] = "free"
  /\ freed' = [freed EXCEPT ![b] = cur[b]]
  /\ bpc' = [bpc EXCEPT ![b] = "run"]
  /\ UNCHANGED <<cvars, wvars, cur, w_i, prev_status>>

\* The background thread sees bg_running false and ends.
Stop(b) ==
  /\ bpc[b] = "run" /\ ~live
  /\ bpc' = [bpc EXCEPT ![b] = "off"]
  /\ UNCHANGED <<cvars, wvars, cur, freed, w_i, prev_status>>

\* A thread that is in rcu_barrier, or past it, or has been told to end.
BgStep(b) ==
  \/ Snap(b) \/ SnapDone(b) \/ Wait(b) \/ WaitDone(b)
  \/ Free(b) \/ Stop(b)

Next ==
  \/ Construct
  \/ Destroy
  \/ \E w \in Workers : rcu_progress(w) \/ Return(w)
  \/ \E w \in Workers, b \in Bgs : Load(w, b)
  \/ \E b \in Bgs : Publish(b) \/ BgStep(b)

Spec == Init /\ [][Next]_vars

\* Background threads are scheduled.  Nothing makes a worker return: a put
\* retries for as long as a buffer is frozen (module XIndexGroup).
FairSpec == Spec /\ \A b \in Bgs : WF_vars(BgStep(b))

-----------------------------------------------------------------------------
\* Type invariant; the loops of rcu_barrier stay within worker_n.
TypeOK ==
  /\ inst \in 0..Len(ThreadNums)
  /\ live \in BOOLEAN /\ exited \in BOOLEAN
  /\ worker_n \in 0..MaxThreads /\ slots \in 0..MaxThreads
  /\ status \in [Workers -> Nat]
  /\ inop \in [Workers -> BOOLEAN]
  /\ refs \in [Workers -> SUBSET (Bgs \X Nat)]
  /\ cur \in [Bgs -> Nat] /\ freed \in [Bgs -> Nat]
  /\ bpc \in [Bgs -> {"off", "run", "snap", "wait", "free"}]
  /\ w_i \in [Bgs -> 0..MaxThreads]
  /\ \A b \in Bgs : bpc[b] \in {"snap", "wait"} => w_i[b] <= worker_n
  /\ prev_status \in [Bgs -> [Workers -> Nat]]

\* No worker can reach an object that a background thread has deleted: what
\* the comments on the barriers of do_adjustment promise ("make sure no one is
\* accessing the old data").
NoUseAfterFree == \A w \in Workers : \A r \in refs[w] : r[2] >= freed[r[1]]

\* Every worker of the index has its own entry in rcu_status, so that
\* rcu_progress and rcu_barrier ("wait for all workers") stay in the array.
StatusInBounds == live => worker_n <= slots

\* Once terminate_bg has set exited, a background thread that is in rcu_barrier
\* leaves it, though no worker makes progress any more.
ExitReleasesBarriers ==
  \A b \in Bgs : exited /\ bpc[b] \in {"snap", "wait"} ~> bpc[b] = "free"
=============================================================================
