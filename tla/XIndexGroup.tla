----------------------------- MODULE XIndexGroup ---------------------------
(***************************************************************************)
(* XIndex's groups under concurrent maintenance (xindex_group_impl.h and    *)
(* xindex_root_impl.h): workers get, put and remove keys while the           *)
(* background thread splits and merges models, compacts, splits and merges   *)
(* groups, and the master installs a new root.                              *)
(*                                                                         *)
(* A container (an array `data' or a buffer) maps each key to a cell: no     *)
(* record, a record with its value (None when removed), or a pointer to the  *)
(* record of that key in another container.  One access to one record is     *)
(* one step: XIndexAtomicVal shows that record accesses are linearizable.    *)
(* Every other load and store of a shared field is a step of its own.        *)
(*                                                                         *)
(* rcu_barrier waits until every worker has called rcu_progress since it     *)
(* began; XIndexRcu models its loops.                                       *)
(***************************************************************************)
EXTENDS Integers, Sequences, FiniteSets

CONSTANTS
  Procs,             \* workers
  Putters,           \* the workers that put
  Scanners,          \* the workers that scan
  Values, None,
  OpKeys,            \* keys the operations use
  ScanFrom, to_scan, \* where scans begin, and how many records they ask for
  Layout,            \* key sets of the arrays of Root::init, one per group
  Buffered,          \* keys put into the buffers before the model starts
  Errors,            \* how mean_error may compare: "high", "ok", "low"
  MaxModelN,         \* max_model_n
  BufferSizeBound, MergeBound, CompactThreshold,  \* buffer_size_bound, that
                     \* over buffer_size_tolerance, buffer_compact_threshold
  MaxOps,            \* bound: operations of all workers together
  MaxPass            \* bound: passes of the background thread

ASSUME GroupConstants ==
  /\ Putters \subseteq Procs /\ Scanners \subseteq Procs /\ None \notin Values
  /\ OpKeys \subseteq Nat /\ Errors \subseteq {"high", "ok", "low"}
  /\ Layout \in Seq(SUBSET Nat) /\ Len(Layout) > 0
  /\ \A i \in DOMAIN Layout : Layout[i] # {} /\ IsFiniteSet(Layout[i])
  /\ \A i, j \in DOMAIN Layout :
       i < j => \A a \in Layout[i], b \in Layout[j] : a < b
  /\ Buffered \subseteq Nat /\ IsFiniteSet(OpKeys) /\ IsFiniteSet(Buffered)
  /\ \A i \in DOMAIN Layout : Buffered \intersect Layout[i] = {}
  /\ MaxModelN \in Nat \ {0} /\ MergeBound <= BufferSizeBound
  /\ BufferSizeBound \in Nat \ {0} /\ CompactThreshold \in Nat \ {0}
  /\ MaxOps \in Nat /\ MaxPass \in Nat
  /\ ScanFrom \subseteq Nat \ {0} /\ to_scan \in Nat \ {0}

VARIABLES
  root,              \* index.root: position in roots
  roots,             \* the root arrays: pivot and group of each slot
  groups,            \* Group objects; 0 stands for nullptr
  cont,              \* contents of the arrays and buffers
  freed,             \* deleted groups, containers and roots
  bg,                \* program counter and locals of do_adjustment/background
  bwait,             \* workers the rcu_barrier under way waits for
  pc, rt, sl, gr,    \* step of worker p; its root, slot and group
  op, seen, res,     \* the operations, as in LinearMap
  scan,              \* scan[p]: locals and result of p's scan
  count              \* operations and scans started

index == <<root, roots, groups, cont>>
bgvars == <<freed, bg>>
locals == <<pc, rt, sl, gr>>
opvars == <<op, seen, res, scan, count>>
vars == <<index, bgvars, bwait, locals, opvars>>

Keys == OpKeys \union Buffered \union UNION {Layout[i] : i \in DOMAIN Layout}
LastKey == CHOOSE k \in Keys : \A j \in Keys : j <= k
Least(S) == CHOOSE k \in S : \A j \in S : k <= j

NoRec == [kind |-> "none"]
Val(v) == [kind |-> "val", val |-> v]
PtrTo(c) == [kind |-> "ptr", to |-> c]
Empty == [k \in Keys |-> NoRec]

-----------------------------------------------------------------------------
(* Reading the structure.                                                  *)

\* The container whose record stands for key k of c, through a pointer.
Rec(c, k) == IF cont[c][k].kind = "ptr" THEN cont[c][k].to ELSE c

\* AtomicVal::read: the value, None when there is no record or it is removed.
Read(c, k) ==
  LET cell == cont[Rec(c, k)][k]
  IN  IF c # 0 /\ cell.kind = "val" THEN cell.val ELSE None
Live(c, k) == c # 0 /\ Read(c, k) # None

\* The number of records, removed ones included: array_size, buffer->size().
Size(c) == Cardinality({k \in Keys : cont[c][k] # NoRec})

\* locate_group_pt1: the last slot whose pivot is <= key, the first if none is.
SlotOf(r, k) ==
  LET S == {i \in DOMAIN roots[r] : roots[r][i].pivot <= k}
  IN  IF S = {} THEN 1 ELSE CHOOSE i \in S : \A j \in S : j <= i

\* The group a worker that runs alone from root reaches: pt1, then pt2.
Located(k) ==
  LET head == CHOOSE i \in 1..SlotOf(root, k) :
                /\ roots[root][i].group # 0
                /\ \A j \in i + 1..SlotOf(root, k) : roots[root][j].group = 0
      walk[g \in DOMAIN groups] ==
        LET n == groups[g].next
        IN  IF n # 0 /\ groups[n].pivot <= k THEN walk[n] ELSE g
  IN  walk[roots[root][head].group]

\* What the index holds for k.
Logical(k) ==
  LET g == groups[Located(k)]
  IN  IF Live(g.data, k) THEN Read(g.data, k)
      ELSE IF Live(g.buffer, k) THEN Read(g.buffer, k)
      ELSE IF g.temp # 0 THEN Read(g.temp, k) ELSE None

Abs == INSTANCE LinearMap WITH
  Keys <- OpKeys, Kinds <- {"get", "put", "remove"},
  map <- [k \in OpKeys |-> Logical(k)]

-----------------------------------------------------------------------------
NoScan == [on |-> FALSE, from |-> 0, begin |-> 0, latest |-> 0, out |-> <<>>, buf |-> <<>>,
           temp |-> <<>>, pos |-> 0, seen |-> <<>>, calm |-> FALSE]
NoRef == [in |-> "none", i |-> 0]
BgIdle == [pc |-> "idle", pass |-> 0, slot |-> 0, ref |-> NoRef,
           nref |-> NoRef, act |-> "none", trial |-> 0, error |-> "ok",
           old |-> 0, other |-> 0, new |-> 0, next |-> 0,
           k |-> 0, update |-> FALSE]

\* The group of Root::init that key k belongs to.
InitGroup(k) ==
  LET S == {i \in DOMAIN Layout : Least(Layout[i]) <= k}
  IN  IF S = {} THEN 1 ELSE CHOOSE i \in S : \A j \in S : j <= i

\* Group::init gives each group an array, one model and a buffer: container
\* 2i-1 is the array of group i and container 2i its buffer, into which the
\* keys of Buffered have been put since.
Init ==
  /\ root = 1
  /\ roots = <<[i \in DOMAIN Layout |->
                  [pivot |-> Least(Layout[i]), group |-> i]]>>
  /\ groups = [i \in DOMAIN Layout |->
                [pivot |-> Least(Layout[i]), data |-> 2 * i - 1,
                 buffer |-> 2 * i, temp |-> 0, frozen |-> FALSE,
                 next |-> 0, model_n |-> 1]]
  /\ \E v \in Values :
       cont = [c \in 1..2 * Len(Layout) |->
                [k \in Keys |->
                  IF IF c % 2 = 1 THEN k \in Layout[(c + 1) \div 2]
                     ELSE k \in Buffered /\ InitGroup(k) = c \div 2
                  THEN Val(v) ELSE NoRec]]
  /\ freed = [groups |-> {}, conts |-> {}, roots |-> {}]
  /\ bg = BgIdle /\ bwait = {}
  /\ pc = [p \in Procs |-> "idle"]
  /\ rt = [p \in Procs |-> 0]
  /\ sl = [p \in Procs |-> 0]
  /\ gr = [p \in Procs |-> 0]
  /\ op = [p \in Procs |-> Abs!Idle]
  /\ seen = [p \in Procs |-> {}]
  /\ res = [p \in Procs |-> Abs!Undecided]
  /\ scan = [p \in Procs |-> NoScan]
  /\ count = 0

-----------------------------------------------------------------------------
(* Workers.                                                                *)

Goto(p, l) == pc' = [pc EXCEPT ![p] = l]
Key(p) == IF scan[p].on THEN scan[p].begin ELSE op[p].key
G(p) == groups[gr[p]]

\* rcu_progress(worker_id), then root is loaded and its pivots are searched.
Enter(p, k) ==
  /\ bwait' = bwait \ {p}
  /\ rt' = [rt EXCEPT ![p] = root]
  /\ sl' = [sl EXCEPT ![p] = SlotOf(root, k)]
  /\ Goto(p, "slot")

Start(p) ==
  /\ pc[p] = "idle" /\ count < MaxOps
  /\ UNCHANGED index
  /\ Abs!Invoke(p)
  /\ op'[p].kind = "put" => p \in Putters
  /\ count' = count + 1
  /\ Enter(p, op'[p].key)
  /\ UNCHANGED <<bgvars, gr, scan>>

\* The worker runs an operation on keys the model leaves out.
Elsewhere(p) ==
  /\ pc[p] = "idle" /\ p \in bwait
  /\ bwait' = bwait \ {p}
  /\ UNCHANGED <<index, bgvars, locals, opvars>>

\* Mutant: a null slot is loaded again instead of the one before it.
LoadSlotAgain(p) ==
  /\ pc[p] = "slot" /\ roots[rt[p]][sl[p]].group # 0
  /\ gr' = [gr EXCEPT ![p] = roots[rt[p]][sl[p]].group]
  /\ Goto(p, "chain")
  /\ UNCHANGED <<index, bgvars, bwait, rt, sl, opvars>>

\* group = groups[group_i].second; one slot back while it is null.
LoadSlot(p) ==
  /\ pc[p] = "slot"
  /\ LET g == roots[rt[p]][sl[p]].group
     IN  IF g = 0
         THEN sl' = [sl EXCEPT ![p] = @ - 1] /\ UNCHANGED <<pc, gr>>
         ELSE gr' = [gr EXCEPT ![p] = g] /\ Goto(p, "chain") /\ UNCHANGED sl
  /\ UNCHANGED <<index, bgvars, bwait, rt, opvars>>

\* One turn of the loop of locate_group_pt2.
WalkChain(p) ==
  /\ pc[p] = "chain"
  /\ LET n == G(p).next
     IN  IF n # 0 /\ groups[n].pivot <= Key(p)
         THEN gr' = [gr EXCEPT ![p] = n] /\ UNCHANGED pc
         ELSE Goto(p, IF scan[p].on THEN "scangroup" ELSE "array") /\ UNCHANGED gr
  /\ UNCHANGED <<index, bgvars, bwait, rt, sl, opvars>>

\* The record of p's key in c becomes v; p's put or remove has succeeded.
Write(p, c, v) ==
  /\ cont' = [cont EXCEPT ![Rec(c, Key(p))][Key(p)] = Val(v)]
  /\ UNCHANGED <<root, roots, groups>>
  /\ res' = [res EXCEPT ![p] = Abs!Ok]
  /\ seen' = Abs!See(Key(p), v)
  /\ scan' = [q \in Procs |-> IF scan[q].on
                              THEN [scan[q] EXCEPT !.seen[Key(p)] = @ \union {v}]
                              ELSE scan[q]]

\* read, update or remove of a record of c that is not removed succeeds.
Apply(p, c) ==
  /\ Live(c, Key(p))
  /\ IF op[p].kind = "get"
     THEN /\ res' = [res EXCEPT ![p] = Abs!Got(Read(c, Key(p)))]
          /\ UNCHANGED <<index, seen, scan>>
     ELSE Write(p, c, Abs!Result(op[p]))
  /\ Goto(p, "done")
  /\ UNCHANGED <<bgvars, bwait, rt, sl, gr, op, count>>

\* Nothing there: the operation goes on at l.
Miss(p, c, l) ==
  /\ ~Live(c, Key(p))
  /\ Goto(p, l)
  /\ UNCHANGED <<index, bgvars, bwait, rt, sl, gr, opvars>>

\* get_from_array, update_to_array (seq is false), remove_from_array
Array(p) ==
  /\ pc[p] = "array"
  /\ \/ Apply(p, G(p).data)
     \/ Miss(p, G(p).data, IF op[p].kind = "put" THEN "loadtemp" ELSE "buffer")

\* get_from_buffer, update_to_buffer, remove_from_buffer on `buffer'
Buffer(p) ==
  /\ pc[p] = "buffer"
  /\ \/ Apply(p, G(p).buffer)
     \/ Miss(p, G(p).buffer, IF op[p].kind = "put" THEN "inserttemp" ELSE "temp")

\* if (buffer_temp && get_from_buffer(key, val, buffer_temp)), and remove
TempHit(p) == pc[p] = "temp" /\ Apply(p, G(p).temp)

TempMiss(p) ==
  /\ pc[p] = "temp" /\ ~Live(G(p).temp, Key(p))
  /\ res' = [res EXCEPT ![p] = IF op[p].kind = "get" THEN Abs!Got(None)
                               ELSE Abs!Failed]
  /\ Goto(p, "done")
  /\ UNCHANGED <<index, bgvars, bwait, rt, sl, gr, op, seen, scan, count>>

\* Mutant: put does not try update_to_buffer before it uses buffer_temp.
PutLoadTempNoUpdate(p) ==
  /\ pc[p] = "loadtemp"
  /\ Goto(p, IF G(p).temp = 0 THEN "frozen" ELSE "inserttemp")
  /\ UNCHANGED <<index, bgvars, bwait, rt, sl, gr, opvars>>

\* if (likely(buffer_temp == nullptr))
PutLoadTemp(p) ==
  /\ pc[p] = "loadtemp"
  /\ Goto(p, IF G(p).temp = 0 THEN "frozen" ELSE "buffer")
  /\ UNCHANGED <<index, bgvars, bwait, rt, sl, gr, opvars>>

\* if (buf_frozen), not set: on to insert_to_buffer
PutNotFrozen(p) ==
  /\ pc[p] = "frozen" /\ ~G(p).frozen
  /\ Goto(p, "insert")
  /\ UNCHANGED <<index, bgvars, bwait, rt, sl, gr, opvars>>

\* Mutant: the retry loop of XIndex::put does not call rcu_progress.
PutRetryNoProgress(p) ==
  /\ pc[p] = "frozen" /\ G(p).frozen
  /\ rt' = [rt EXCEPT ![p] = root]
  /\ sl' = [sl EXCEPT ![p] = SlotOf(root, Key(p))]
  /\ Goto(p, "slot")
  /\ UNCHANGED <<index, bgvars, bwait, gr, opvars>>

\* return result_t::retry; XIndex::put progresses and tries again.
PutRetry(p) ==
  /\ pc[p] = "frozen" /\ G(p).frozen
  /\ Enter(p, Key(p))
  /\ UNCHANGED <<index, bgvars, gr, opvars>>

\* insert_to_buffer: in place when the buffer has a record of the key.
Insert(p) ==
  /\ pc[p] \in {"insert", "inserttemp"}
  /\ Write(p, IF pc[p] = "insert" THEN G(p).buffer ELSE G(p).temp, op[p].val)
  /\ Goto(p, "done")
  /\ UNCHANGED <<bgvars, bwait, rt, sl, gr, op, count>>

Leave(p) ==
  /\ Goto(p, "idle")
  /\ rt' = [rt EXCEPT ![p] = 0]
  /\ sl' = [sl EXCEPT ![p] = 0]
  /\ gr' = [gr EXCEPT ![p] = 0]

Return(p) ==
  /\ pc[p] = "done"
  /\ UNCHANGED index
  /\ Abs!Respond(p)
  /\ Leave(p)
  /\ UNCHANGED <<bgvars, bwait, scan, count>>

-----------------------------------------------------------------------------
(* Scans: Root::scan goes through the groups, Group::scan merges the array    *)
(* and the one or two buffers of each.  A source reads ahead: the records of a *)
(* buffer are those of a leaf (with up to 15 keys, the only one), read when the *)
(* group is entered; the array is read record by record.                     *)

\* Whether a group is being split or merged is noted for ScanSound.
ScanFromKey(k) ==
  [NoScan EXCEPT !.on = TRUE, !.from = k, !.begin = k,
                 !.calm = bg.act \notin {"split", "merge"},
                 !.seen = [j \in Keys |-> {Logical(j)}]]

\* XIndex::scan
StartScan(p) ==
  /\ pc[p] = "idle" /\ count < MaxOps /\ p \in Scanners
  /\ \E k \in ScanFrom : scan' = [scan EXCEPT ![p] = ScanFromKey(k)] /\ Enter(p, k)
  /\ count' = count + 1
  /\ UNCHANGED <<index, bgvars, gr, op, seen, res>>

ScanMoves(p, l, s) ==
  /\ Goto(p, l)
  /\ scan' = [scan EXCEPT ![p] = s]
  /\ UNCHANGED <<index, bgvars, bwait, rt, op, seen, res, count>>

Full(p) == Len(scan[p].out) = to_scan

\* The inner loop enters groups with a pivot above the last one's only; then
\* buffer_temp decides between scan_2_way and scan_3_way.
ScanGroup(p) ==
  /\ pc[p] = "scangroup"
  /\ ScanMoves(p, IF G(p).pivot <= scan[p].latest THEN "scanslot"
                  ELSE IF G(p).temp = 0 THEN "scan2" ELSE "scan3",
               [scan[p] EXCEPT !.pos = scan[p].begin])
  /\ UNCHANGED <<sl, gr>>

\* The records of c from a key on that are not removed, in order.
Records(c, from) ==
  LET S == {k \in Keys : k >= from /\ Live(c, k)}
  IN  [i \in 1 .. Cardinality(S) |->
         LET k == CHOOSE k \in S : Cardinality({j \in S : j < k}) = i - 1
         IN  [key |-> k, val |-> Read(c, k)]]

\* The constructors of buffer_source and temp_buffer_source.
ScanBuffer(p) ==
  /\ pc[p] \in {"scan2", "scan3"}
  /\ ScanMoves(p, IF pc[p] = "scan3" THEN "scantemp" ELSE "scanarray",
               [scan[p] EXCEPT !.buf = Records(G(p).buffer, scan[p].begin)])
  /\ UNCHANGED <<sl, gr>>

ScanTemp(p) ==
  /\ pc[p] = "scantemp"
  /\ ScanMoves(p, "scanarray",
               [scan[p] EXCEPT !.temp = Records(G(p).temp, scan[p].begin)])
  /\ UNCHANGED <<sl, gr>>

\* Which source the loops take the next record from: the one whose key is below
\* the others', or else the last that has any.
Chosen(src) ==
  LET present == {i \in DOMAIN src : src[i] # <<>>}
      below == {i \in present : \A j \in present \ {i} : src[i][1].key < src[j][1].key}
  IN  IF below # {} THEN CHOOSE i \in below : TRUE
      ELSE CHOOSE i \in present : \A j \in present : j <= i

\* Mutant: no loop for what the buffers have left after the array.
MergedNoTrailing(array, buf, temp) ==
  LET from[i \in 1 .. Len(buf) + 1, j \in 1 .. Len(temp) + 1] ==
        LET src == <<array, SubSeq(buf, i, Len(buf)), SubSeq(temp, j, Len(temp))>>
            taken == [out |-> array, buf |-> src[2], temp |-> src[3]]
        IN  IF array = <<>> \/ Chosen(src) = 1 THEN taken
            ELSE IF Chosen(src) = 2
            THEN [from[i + 1, j] EXCEPT !.out = <<buf[i]>> \o @]
            ELSE [from[i, j + 1] EXCEPT !.out = <<temp[j]>> \o @]
  IN  from[1, 1]

\* The records the loops give until they have used the one from the array, or,
\* when the array has no more, all of them; and what the buffers have left.
Merged(array, buf, temp) ==
  LET from[i \in 1 .. Len(buf) + 1, j \in 1 .. Len(temp) + 1] ==
        LET src == <<array, SubSeq(buf, i, Len(buf)), SubSeq(temp, j, Len(temp))>>
            taken == [out |-> array, buf |-> src[2], temp |-> src[3]]
        IN  IF src = <<<<>>, <<>>, <<>>>> \/ Chosen(src) = 1 THEN taken
            ELSE IF Chosen(src) = 2
            THEN [from[i + 1, j] EXCEPT !.out = <<buf[i]>> \o @]
            ELSE [from[i, j + 1] EXCEPT !.out = <<temp[j]>> \o @]
  IN  from[1, 1]

UpTo(s, n) == SubSeq(s, 1, IF Len(s) < n THEN Len(s) ELSE n)

\* array_source.advance_to_next_valid(), and the loops up to its next call.
ScanArray(p) ==
  /\ pc[p] = "scanarray"
  /\ LET rest == {k \in Keys : k >= scan[p].pos /\ Live(G(p).data, k)}
         array == IF rest = {} THEN <<>>
                  ELSE <<[key |-> Least(rest), val |-> Read(G(p).data, Least(rest))]>>
     IN  \E m \in {Merged(array, scan[p].buf, scan[p].temp)} :
           LET all == scan[p].out \o m.out IN
           IF rest = {} \/ Len(all) >= to_scan
           THEN ScanMoves(p, "scannext",
                  [scan[p] EXCEPT !.out = UpTo(all, to_scan),
                                  !.buf = <<>>, !.temp = <<>>, !.pos = 0])
           ELSE ScanMoves(p, "scanarray",
                  [scan[p] EXCEPT !.out = all, !.buf = m.buf, !.temp = m.temp,
                                  !.pos = Least(rest) + 1])
  /\ UNCHANGED <<sl, gr>>

\* latest_group_pivot, next_begin and group = group->next.
ScanNext(p) ==
  /\ pc[p] = "scannext"
  /\ ScanMoves(p, IF Full(p) \/ G(p).next = 0 THEN "scanslot" ELSE "scangroup",
               [scan[p] EXCEPT !.latest = G(p).pivot, !.begin = 0])
  /\ gr' = [gr EXCEPT ![p] = IF Full(p) \/ G(p).next = 0 THEN @ ELSE G(p).next]
  /\ UNCHANGED sl

\* group_i++, group = groups[group_i].second; behind the last slot the loop ends
\* before that value is used.
ScanSlot(p) ==
  /\ pc[p] = "scanslot"
  /\ IF Full(p) \/ sl[p] = Len(roots[rt[p]])
     THEN /\ ScanMoves(p, "scanned",
                       [scan[p] EXCEPT !.calm = @ /\ bg.act \notin {"split", "merge"}])
          /\ UNCHANGED <<sl, gr>>
     ELSE LET g == roots[rt[p]][sl[p] + 1].group IN
          /\ ScanMoves(p, IF g = 0 THEN "scanslot" ELSE "scangroup", scan[p])
          /\ sl' = [sl EXCEPT ![p] = @ + 1]
          /\ gr' = [gr EXCEPT ![p] = IF g = 0 THEN @ ELSE g]

ScanReturn(p) ==
  /\ pc[p] = "scanned"
  /\ Leave(p)
  /\ scan' = [scan EXCEPT ![p] = NoScan]
  /\ UNCHANGED <<index, bgvars, bwait, op, seen, res, count>>

Scan(p) ==
  \/ ScanGroup(p) \/ ScanBuffer(p) \/ ScanTemp(p) \/ ScanArray(p) \/ ScanNext(p)
  \/ ScanSlot(p) \/ ScanReturn(p)

Step(p) ==
  \/ LoadSlot(p) \/ WalkChain(p) \/ Array(p) \/ Buffer(p) \/ TempHit(p)
  \/ TempMiss(p) \/ PutLoadTemp(p) \/ PutNotFrozen(p) \/ PutRetry(p)
  \/ Insert(p) \/ Return(p) \/ Scan(p)

-----------------------------------------------------------------------------
(* The background thread: do_adjustment, and the master's new root.         *)

\* group_t *volatile *: a slot of the root array or the next field of a group.
Slot(i) == [in |-> "slot", i |-> i]
NextOf(g) == [in |-> "next", i |-> g]
Target(ref) ==
  IF ref.in = "slot" THEN roots[root][ref.i].group ELSE groups[ref.i].next

\* *ref = g, where gs is the group table after this step's other changes.
Assign(ref, g, gs) ==
  /\ roots' = IF ref.in = "slot"
              THEN [roots EXCEPT ![root][ref.i].group = g] ELSE roots
  /\ groups' = IF ref.in = "next" THEN [gs EXCEPT ![ref.i].next = g] ELSE gs

Cur == groups[Target(bg.ref)]
Old == groups[bg.old]
Other == groups[bg.other]
At(l) == bg.pc = l
Workers == <<locals, opvars>>

\* Two halves of rcu_barrier(): it begins; it returns.
Barrier(b) == bg' = b /\ bwait' = Procs
Passed(l) == At(l) /\ bwait = {} /\ UNCHANGED bwait

BeginPass ==
  /\ At("idle") /\ bg.pass < MaxPass
  /\ bg' = [bg EXCEPT !.pc = "visit", !.pass = @ + 1, !.slot = 1,
                      !.ref = Slot(1), !.update = FALSE]
  /\ UNCHANGED <<index, freed, bwait, Workers>>

NextSlot ==
  /\ At("visit") /\ Target(bg.ref) = 0 /\ bg.slot < Len(roots[root])
  /\ bg' = [bg EXCEPT !.slot = @ + 1, !.ref = Slot(bg.slot + 1)]
  /\ UNCHANGED <<index, freed, bwait, Workers>>

VisitGroup ==
  /\ At("visit") /\ Target(bg.ref) # 0
  /\ bg' = [bg EXCEPT !.pc = "model", !.trial = 0, !.error = "ok"]
  /\ UNCHANGED <<index, freed, bwait, Workers>>

\* Mutant: the model limit max_model_n is not tested.
AdjustModelsNoLimit ==
  /\ At("model") /\ bg.trial < MaxModelN
  /\ Assign(bg.ref, Len(groups) + 1,
            Append(groups, [Cur EXCEPT !.model_n = @ + 1, !.frozen = FALSE]))
  /\ Barrier([bg EXCEPT !.pc = "models", !.old = Target(bg.ref)])
  /\ UNCHANGED <<root, cont, freed, Workers>>

\* *group = old_group->split_model() or merge_model(); rcu_barrier();
AdjustModels ==
  /\ At("model") /\ bg.trial < MaxModelN
  /\ \E e \in Errors \ {"ok"} :
       /\ Cur.model_n # (IF e = "high" THEN MaxModelN ELSE 1)
       /\ Assign(bg.ref, Len(groups) + 1,
                 Append(groups, [Cur EXCEPT
                   !.model_n = IF e = "high" THEN @ + 1 ELSE @ - 1,
                   !.frozen = FALSE]))
  /\ Barrier([bg EXCEPT !.pc = "models", !.old = Target(bg.ref)])
  /\ UNCHANGED <<root, cont, freed, Workers>>

\* delete old_group; the next trial.
ModelsAdjusted ==
  /\ Passed("models")
  /\ freed' = [freed EXCEPT !.groups = @ \union {bg.old}]
  /\ bg' = [bg EXCEPT !.pc = "model", !.trial = @ + 1, !.old = 0]
  /\ UNCHANGED <<index, Workers>>

\* The loop over the trials ends: should_split_group when the mean error is
\* still high, might_merge_group when it is low.
KeepModels ==
  /\ At("model")
  /\ \E e \in IF bg.trial = MaxModelN THEN {"ok"} ELSE Errors :
       /\ e = "high" => Cur.model_n = MaxModelN
       /\ e = "low" => Cur.model_n = 1
       /\ bg' = [bg EXCEPT !.pc = "decide", !.error = e]
  /\ UNCHANGED <<index, freed, bwait, Workers>>

\* next_group: where the group to merge with is referenced from.
NextGroup ==
  IF Cur.next # 0 THEN NextOf(Target(bg.ref))
  ELSE IF bg.slot < Len(roots[root]) /\ roots[root][bg.slot + 1].group # 0
  THEN Slot(bg.slot + 1) ELSE NoRef

WantsSplit == bg.error = "high" \/ Size(Cur.buffer) > BufferSizeBound
WantsMerge == bg.error = "low" /\ Size(Cur.buffer) < MergeBound /\ NextGroup # NoRef

\* data[array_size / 2].first; a new array is zero where it has no record.
Median(c) ==
  LET S == {k \in Keys : cont[c][k] # NoRec}
  IN  IF S = {} THEN 0
      ELSE CHOOSE k \in S : Cardinality({j \in S : j < k}) = Cardinality(S) \div 2

\* split_group_pt1: two groups on the same array and buffer, buffer frozen,
\* each with its own buffer_temp.  The old group is not frozen.
SplitPt1 ==
  /\ At("decide") /\ WantsSplit
  /\ LET n == Len(groups) + 1
         c == Len(cont) + 1
         half == [Cur EXCEPT !.frozen = TRUE, !.model_n = (@ + 1) \div 2]
     IN  /\ Assign(bg.ref, n, groups \o
             <<[half EXCEPT !.temp = c, !.next = n + 1],
               [half EXCEPT !.temp = c + 1, !.pivot = Median(Cur.data)]>>)
         /\ Barrier([bg EXCEPT !.pc = "split", !.act = "split", !.other = n,
                               !.old = Target(bg.ref)])
  /\ cont' = cont \o <<Empty, Empty>>
  /\ UNCHANGED <<root, freed, Workers>>

\* merge_group freezes both buffers, then rcu_barrier();
FreezeMerge ==
  /\ At("decide") /\ ~WantsSplit /\ WantsMerge
  /\ groups' = [groups EXCEPT ![Target(bg.ref)].frozen = TRUE,
                              ![Target(NextGroup)].frozen = TRUE]
  /\ Barrier([bg EXCEPT !.pc = "frozen", !.act = "merge", !.nref = NextGroup,
                        !.old = Target(bg.ref), !.other = Target(NextGroup)])
  /\ UNCHANGED <<root, roots, cont, freed, Workers>>

\* compact_phase_1: buf_frozen = true; rcu_barrier();
FreezeCompact ==
  /\ At("decide") /\ ~WantsSplit /\ ~WantsMerge
  /\ Size(Cur.buffer) > CompactThreshold
  /\ groups' = [groups EXCEPT ![Target(bg.ref)].frozen = TRUE]
  /\ Barrier([bg EXCEPT !.pc = "frozen", !.act = "compact",
                        !.old = Target(bg.ref)])
  /\ UNCHANGED <<root, roots, cont, freed, Workers>>

\* Mutant: the loop does not go on to the next group.
NothingToDoStay ==
  /\ At("decide") /\ ~WantsSplit /\ ~WantsMerge
  /\ bg' = [bg EXCEPT !.pc = "visit"]
  /\ UNCHANGED <<index, freed, bwait, Workers>>

NothingToDo ==
  /\ At("decide") /\ ~WantsSplit /\ ~WantsMerge
  /\ Size(Cur.buffer) <= CompactThreshold
  /\ bg' = [bg EXCEPT !.pc = "visit", !.ref = NextOf(Target(bg.ref))]
  /\ UNCHANGED <<index, freed, bwait, Workers>>

\* The groups whose records go into the new array.
Merging == {bg.old} \union (IF bg.act = "merge" THEN {bg.other} ELSE {})

\* Mutant: buffer_temp is set without the barrier after the freeze.
SetTempNoBarrier ==
  /\ At("frozen")
  /\ cont' = cont \o <<Empty, Empty>>
  /\ groups' = [g \in DOMAIN groups |->
                 IF g \in Merging
                 THEN [groups[g] EXCEPT !.temp = Len(cont) + 1]
                 ELSE groups[g]]
  /\ bg' = [bg EXCEPT !.pc = "refs", !.new = Len(cont) + 2, !.k = Least(Keys)]
  /\ UNCHANGED <<root, roots, freed, bwait, Workers>>

\* buffer_temp = new buffer_t(), shared by both groups of a merge; the new
\* array is allocated.
SetTemp ==
  /\ Passed("frozen")
  /\ cont' = cont \o <<Empty, Empty>>
  /\ groups' = [g \in DOMAIN groups |->
                 IF g \in Merging
                 THEN [groups[g] EXCEPT !.temp = Len(cont) + 1]
                 ELSE groups[g]]
  /\ bg' = [bg EXCEPT !.pc = "refs", !.new = Len(cont) + 2, !.k = Least(Keys)]
  /\ UNCHANGED <<root, roots, freed, Workers>>

\* Mutant: split_group_pt2 without the barrier after pt1.
SplitPt2NoBarrier ==
  /\ At("split")
  /\ cont' = cont \o <<Empty, Empty>>
  /\ bg' = [bg EXCEPT !.pc = "refs", !.new = Len(cont) + 1, !.k = Least(Keys)]
  /\ UNCHANGED <<root, roots, groups, freed, bwait, Workers>>

\* split_group_pt2 allocates the two new arrays.
SplitPt2 ==
  /\ Passed("split")
  /\ cont' = cont \o <<Empty, Empty>>
  /\ bg' = [bg EXCEPT !.pc = "refs", !.new = Len(cont) + 1, !.k = Least(Keys)]
  /\ UNCHANGED <<root, roots, groups, freed, Workers>>

\* The key after bg.k, or on to l.
NextKey(l) ==
  IF bg.k = LastKey THEN [bg EXCEPT !.pc = l, !.k = 0]
  ELSE [bg EXCEPT !.k = Least({j \in Keys : j > bg.k})]

\* The containers merge_refs, merge_refs_with or merge_refs_n_split reads, and
\* the array key k goes to.
Sources == UNION {{groups[g].data, groups[g].buffer} : g \in Merging}
NewArray(k) ==
  IF bg.act = "split" /\ k >= groups[Other.next].pivot THEN bg.new + 1 ELSE bg.new

\* merge_refs_internal: a pointer to the record of the key, if it has one that
\* is not removed.
MergeRef ==
  /\ At("refs")
  /\ LET S == {c \in Sources : Live(c, bg.k)}
     IN  IF S = {} THEN UNCHANGED cont
         ELSE \E c \in S : cont' = [cont EXCEPT ![NewArray(bg.k)][bg.k] = PtrTo(c)]
  /\ bg' = NextKey("publish")
  /\ UNCHANGED <<root, roots, groups, freed, bwait, Workers>>

\* The rest of compact_phase_1 and *group = new_group; rcu_barrier();
PublishCompact ==
  /\ At("publish") /\ bg.act = "compact"
  /\ Assign(bg.ref, Len(groups) + 1,
            Append(groups, [Old EXCEPT !.data = bg.new, !.buffer = Old.temp,
                                       !.temp = 0, !.frozen = FALSE]))
  /\ Barrier([bg EXCEPT !.pc = "published", !.next = Len(groups) + 1])
  /\ UNCHANGED <<root, cont, freed, Workers>>

\* The rest of split_group_pt2 and *group = new_group; rcu_barrier();
PublishSplit ==
  /\ At("publish") /\ bg.act = "split"
  /\ LET n == Len(groups) + 1
         mid == groups[Other.next]
     IN  /\ Assign(bg.ref, n, groups \o
             <<[Other EXCEPT !.data = bg.new, !.buffer = Other.temp,
                             !.temp = 0, !.frozen = FALSE, !.next = n + 1],
               [mid EXCEPT !.data = bg.new + 1, !.buffer = mid.temp,
                           !.temp = 0, !.frozen = FALSE,
                           !.model_n = Other.model_n]>>)
         /\ Barrier([bg EXCEPT !.pc = "published", !.next = n])
  /\ UNCHANGED <<root, cont, freed, Workers>>

\* The rest of merge_group and *group = new_group;
PublishMerge ==
  /\ At("publish") /\ bg.act = "merge"
  /\ LET sum == Old.model_n + Other.model_n
     IN  Assign(bg.ref, Len(groups) + 1,
           Append(groups, [Old EXCEPT !.data = bg.new, !.buffer = Old.temp,
             !.temp = 0, !.frozen = FALSE, !.next = Other.next,
             !.model_n = IF sum > MaxModelN THEN MaxModelN ELSE sum]))
  /\ bg' = [bg EXCEPT !.pc = "publishnext", !.next = Len(groups) + 1]
  /\ UNCHANGED <<root, cont, freed, bwait, Workers>>

\* *next_group = new_group; rcu_barrier();
PublishNext ==
  /\ At("publishnext")
  /\ Assign(bg.nref, bg.next, groups)
  /\ Barrier([bg EXCEPT !.pc = "published"])
  /\ UNCHANGED <<root, cont, freed, Workers>>

\* rcu_barrier() returns; *next_group = nullptr after a merge.
Published ==
  /\ Passed("published")
  /\ IF bg.act = "merge" THEN Assign(bg.nref, 0, groups)
     ELSE UNCHANGED <<roots, groups>>
  /\ bg' = [bg EXCEPT !.pc = "phase2", !.k = Least(Keys)]
  /\ UNCHANGED <<root, cont, freed, Workers>>

\* Mutant: the loop of compact_phase_2 stops one record short.
CompactPhase2Short ==
  /\ At("phase2")
  /\ LET c == NewArray(bg.k)
     IN  cont' = IF cont[c][bg.k].kind = "ptr" /\ bg.k # LastKey
                 THEN [cont EXCEPT ![c][bg.k] = Val(Read(c, bg.k))] ELSE cont
  /\ IF bg.k = LastKey THEN Barrier(NextKey("free"))
     ELSE bg' = NextKey("free") /\ UNCHANGED bwait
  /\ UNCHANGED <<root, roots, groups, freed, Workers>>

\* compact_phase_2: replace_pointer on the record of one key; after the last
\* one, rcu_barrier();
CompactPhase2 ==
  /\ At("phase2")
  /\ LET c == NewArray(bg.k)
     IN  cont' = IF cont[c][bg.k].kind = "ptr"
                 THEN [cont EXCEPT ![c][bg.k] = Val(Read(c, bg.k))] ELSE cont
  /\ IF bg.k = LastKey THEN Barrier(NextKey("free"))
     ELSE bg' = NextKey("free") /\ UNCHANGED bwait
  /\ UNCHANGED <<root, roots, groups, freed, Workers>>

\* rcu_barrier() returns; free_data(), free_buffer(), delete; the next group
\* of the chain is visited, after a split the one after both halves.
FreeOld ==
  /\ Passed("free")
  /\ freed' = [freed EXCEPT
       !.groups = @ \union {bg.old} \union
         CASE bg.act = "split" -> {bg.other, Other.next}
           [] bg.act = "merge" -> {bg.other}
           [] OTHER -> {},
       !.conts = @ \union Sources]
  /\ cont' = [c \in DOMAIN cont |-> IF c \in Sources THEN Empty ELSE cont[c]]
  /\ bg' = [bg EXCEPT !.pc = "visit", !.update = @ \/ bg.act # "compact",
                      !.ref = NextOf(IF bg.act = "split" THEN bg.next + 1
                                     ELSE bg.next),
                      !.old = 0, !.other = 0, !.next = 0, !.new = 0,
                      !.nref = NoRef, !.act = "none"]
  /\ UNCHANGED <<root, roots, groups, Workers>>

EndOfSlots ==
  At("visit") /\ Target(bg.ref) = 0 /\ bg.slot = Len(roots[root])

\* finished; no group was split or merged: the round ends with rcu_barrier().
EndPass ==
  /\ EndOfSlots /\ ~bg.update
  /\ Barrier([bg EXCEPT !.pc = "round"])
  /\ UNCHANGED <<index, freed, Workers>>

\* create_new_root(): an empty array, to be filled slot by slot, chain by chain.
BeginNewRoot ==
  /\ EndOfSlots /\ bg.update
  /\ roots' = Append(roots, <<>>)
  /\ bg' = [bg EXCEPT !.pc = "flatten", !.slot = 1, !.ref = Slot(1)]
  /\ UNCHANGED <<root, groups, cont, freed, bwait, Workers>>

\* new_root->groups[new_group_i] = (pivot, group); group = group->next;
CopyGroup ==
  /\ At("flatten") /\ Target(bg.ref) # 0
  /\ roots' = [roots EXCEPT ![root + 1] =
                 Append(@, [pivot |-> Cur.pivot, group |-> Target(bg.ref)])]
  /\ bg' = [bg EXCEPT !.ref = NextOf(Target(bg.ref))]
  /\ UNCHANGED <<root, groups, cont, freed, bwait, Workers>>

CopyNextSlot ==
  /\ At("flatten") /\ Target(bg.ref) = 0 /\ bg.slot < Len(roots[root])
  /\ bg' = [bg EXCEPT !.slot = @ + 1, !.ref = Slot(bg.slot + 1)]
  /\ UNCHANGED <<index, freed, bwait, Workers>>

\* index.root = new_root; rcu_barrier();
InstallRoot ==
  /\ At("flatten") /\ Target(bg.ref) = 0 /\ bg.slot = Len(roots[root])
  /\ root' = root + 1
  /\ Barrier([bg EXCEPT !.pc = "newroot", !.slot = 0, !.ref = NoRef])
  /\ UNCHANGED <<roots, groups, cont, freed, Workers>>

\* Mutant: trim_root does not wait for the workers in the old root.
TrimRootNoBarrier ==
  /\ At("newroot")
  /\ bg' = [bg EXCEPT !.slot = @ + 1, !.pc = "trim"]
  /\ groups' = [groups EXCEPT ![roots[root][bg.slot + 1].group].next = 0]
  /\ UNCHANGED <<root, roots, cont, freed, bwait, Workers>>

\* rcu_barrier() returns; trim_root() starts at the first group.
TrimFirst ==
  /\ Passed("newroot")
  /\ bg' = [bg EXCEPT !.slot = @ + 1, !.pc = "trim"]
  /\ groups' = [groups EXCEPT ![roots[root][bg.slot + 1].group].next = 0]
  /\ UNCHANGED <<root, roots, cont, freed, Workers>>

\* trim_root(): group->next = nullptr for one more group.
TrimNext ==
  /\ At("trim") /\ bg.slot < Len(roots[root])
  /\ bg' = [bg EXCEPT !.slot = @ + 1]
  /\ groups' = [groups EXCEPT ![roots[root][bg.slot + 1].group].next = 0]
  /\ UNCHANGED <<root, roots, cont, freed, bwait, Workers>>

\* delete old_root; the round ends with rcu_barrier().
DeleteRoot ==
  /\ At("trim") /\ bg.slot = Len(roots[root])
  /\ freed' = [freed EXCEPT !.roots = @ \union {root - 1}]
  /\ roots' = [roots EXCEPT ![root - 1] = <<>>]
  /\ Barrier([bg EXCEPT !.pc = "round"])
  /\ UNCHANGED <<root, groups, cont, Workers>>

EndRound ==
  /\ Passed("round")
  /\ bg' = [BgIdle EXCEPT !.pass = bg.pass]
  /\ UNCHANGED <<index, freed, Workers>>

BgNext ==
  \/ BeginPass \/ NextSlot \/ VisitGroup \/ AdjustModels \/ ModelsAdjusted
  \/ KeepModels \/ SplitPt1 \/ FreezeMerge \/ FreezeCompact \/ NothingToDo
  \/ SetTemp \/ SplitPt2 \/ MergeRef \/ PublishCompact \/ PublishSplit
  \/ PublishMerge \/ PublishNext \/ Published \/ CompactPhase2 \/ FreeOld
  \/ EndPass \/ BeginNewRoot \/ CopyGroup \/ CopyNextSlot \/ InstallRoot
  \/ TrimFirst \/ TrimNext \/ DeleteRoot \/ EndRound

Next == BgNext \/ \E p \in Procs : Start(p) \/ StartScan(p) \/ Elsewhere(p) \/ Step(p)

Spec == Init /\ [][Next]_vars

\* The benchmark's operations are shared out to the workers; a worker that
\* finds none left has finished, and waits for the others at the end of the loop.
Finished(p) == pc[p] = "idle" /\ count = MaxOps
AllFinished == \A p \in Procs : Finished(p)

\* The workers have joined and the index is deleted: terminate_bg sets
\* config.exited, and rcu_barrier waits for nobody.
Exited(p) == AllFinished /\ Elsewhere(p)

\* Threads are scheduled, and workers take operations while there are any.
FairSpec ==
  /\ Spec /\ WF_vars(BgNext)
  /\ \A p \in Procs : WF_vars(Start(p)) /\ WF_vars(Step(p)) /\ WF_vars(Exited(p))

-----------------------------------------------------------------------------
Cells == {NoRec} \union [kind : {"val"}, val : Values \union {None}]
           \union [kind : {"ptr"}, to : DOMAIN cont]

TypeOK ==
  /\ root \in DOMAIN roots
  /\ \A r \in DOMAIN roots : \A i \in DOMAIN roots[r] :
       roots[r][i].group \in DOMAIN groups \union {0}
  /\ \A g \in DOMAIN groups :
       /\ groups[g].data \in DOMAIN cont /\ groups[g].buffer \in DOMAIN cont
       /\ groups[g].temp \in DOMAIN cont \union {0}
       /\ groups[g].next \in DOMAIN groups \union {0}
       /\ groups[g].model_n \in 1..MaxModelN
  /\ \A c \in DOMAIN cont : cont[c] \in [Keys -> Cells]
  /\ freed.groups \subseteq DOMAIN groups /\ freed.conts \subseteq DOMAIN cont
  /\ bwait \subseteq Procs /\ bg.pass \in 0..MaxPass
  /\ \A p \in Procs :
       /\ pc[p] # "idle" => rt[p] \in DOMAIN roots /\ sl[p] >= 1
       /\ pc[p] \notin {"idle", "slot"} => gr[p] \in DOMAIN groups
  /\ count \in 0..MaxOps

\* Gets, puts and removes are linearizable while groups are compacted, split
\* and merged and the root is replaced: no record is lost, none comes back.
Linearizable == Abs!AbsSpec

\* "since update are inplaced", "and removed values are skipped" (the asserts
\* of merge_refs_internal, scan_2_way and scan_3_way): in the groups workers
\* can reach, at most one of array, buffer and buffer_temp holds a record of a
\* key that is not removed.
NoDuplicateKey ==
  \A i \in DOMAIN roots[root] :
    LET g == roots[root][i].group
    IN  g # 0 => \A k \in Keys :
          Cardinality({c \in {groups[g].data, groups[g].buffer, groups[g].temp} :
                         Live(c, k)}) <= 1

\* What worker p's next step reads.
Reads(p) ==
  CASE pc[p] = "slot"  -> [roots |-> {rt[p]}, groups |-> {}, conts |-> {}]
    [] pc[p] = "chain" -> [roots |-> {}, conts |-> {},
                           groups |-> {gr[p], G(p).next} \ {0}]
    [] pc[p] = "scanslot" -> [roots |-> {rt[p]}, groups |-> {}, conts |-> {}]
    [] pc[p] = "scanarray" -> [roots |-> {}, groups |-> {gr[p]},
                               conts |-> {G(p).data} \union {Rec(G(p).data, k) : k \in Keys}]
    [] pc[p] \in {"idle", "done", "scanned"} -> [roots |-> {}, groups |-> {}, conts |-> {}]
    [] OTHER -> LET c == CASE pc[p] = "array" -> {G(p).data}
                           [] pc[p] \in {"buffer", "insert", "scan2", "scan3"} -> {G(p).buffer}
                           [] pc[p] \in {"temp", "inserttemp", "scantemp"} -> {G(p).temp} \ {0}
                           [] OTHER -> {}
                IN  [roots |-> {}, groups |-> {gr[p]},
                     conts |-> c \union IF scan[p].on THEN {}
                                        ELSE {Rec(d, Key(p)) : d \in c}]

\* "make sure no one is accessing the old data" and "no one is using
\* old/intermedia groups" (do_adjustment): workers read nothing deleted.
NoUseAfterFree ==
  \A p \in Procs :
    /\ Reads(p).roots \intersect freed.roots = {}
    /\ Reads(p).groups \intersect freed.groups = {}
    /\ Reads(p).conts \intersect freed.conts = {}

\* A pointer leads to a record, never to a second pointer or to nothing: what
\* compact_phase_2 promises the next compaction (the status assert of
\* merge_refs_internal).
PointersResolve ==
  \A c \in DOMAIN cont : \A k \in Keys :
    cont[c][k].kind = "ptr" => cont[cont[c][k].to][k].kind = "val"

\* A scan returns no value that its key did not have while it ran.  If no group
\* was being split or merged when it began or ended, each record that was there
\* all the time comes once, and in order, as far as the scan got.
ScanSound ==
  \A p \in Procs : pc[p] = "scanned" =>
    LET out == scan[p].out
        Stable(k) == None \notin scan[p].seen[k]
        Places(k) == {i \in DOMAIN out : out[i].key = k}
        last == out[Len(out)].key
    IN  /\ \A i \in DOMAIN out : out[i].val \in scan[p].seen[out[i].key]
        /\ scan[p].calm =>
             /\ \A k \in Keys : k >= scan[p].from /\ Stable(k) =>
                  \/ Cardinality(Places(k)) = 1
                  \/ Full(p) /\ k > last /\ Places(k) = {}
             /\ \A i, j \in DOMAIN out :
                  i < j /\ Stable(out[i].key) /\ Stable(out[j].key) => out[i].key < out[j].key

\* A put retries on a frozen buffer, and the barrier that is to end the freeze
\* waits for a worker that has no operation left.
Hung ==
  /\ \E p \in Procs : pc[p] # "idle" /\ op[p].kind = "put"
  /\ \E q \in bwait : Finished(q)

\* Gets, removes and scans end, whatever the maintenance does under them, and
\* whether puts and rounds hang or not: operations and passes are finite, and in
\* the end none of these is under way.
ReadsEnd == <>[](\A p \in Procs : pc[p] # "idle" => op[p].kind = "put" /\ ~scan[p].on)

\* The retry loop of XIndex::put ends, unless everything hangs in that one way:
\* rcu_progress in the loop keeps the put itself from holding up the barrier.
PutsEnd == <>[](Hung \/ \A p \in Procs : pc[p] = "idle")

\* Every round of the background threads ends, up to that same hang.
RoundsEnd == <>[](Hung \/ At("idle"))

\* "all thread join here": the parallel region of the benchmark is left.
ThreadsJoin == <>AllFinished
=============================================================================
