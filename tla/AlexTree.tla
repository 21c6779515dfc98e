------------------------------ MODULE AlexTree -----------------------------
(***************************************************************************)
(* The concurrent tree of ALEX+ (alexol/src/alex.h, alex_nodes.h).  Model   *)
(* nodes route a key to one of their buckets; data nodes (leaves) hold the   *)
(* records and are chained with prev_leaf_ and next_leaf_.  A writer locks    *)
(* the leaf; a resize or a split replaces the leaf by new ones, which takes    *)
(* the parent's read lock (its write lock, if the parent must grow) and the   *)
(* link locks of its neighbours.  The lock of a replaced node is never        *)
(* released: whoever still finds the node starts again from the root.        *)
(*                                                                         *)
(* Nodes are numbered in the order of their allocation.  Keys are 0..N-1 and *)
(* models are exact: a node with domain [lo, lo + width) sends key k to the   *)
(* bucket that holds it.  Which inserts and erases end in a resize or a split *)
(* is decided by cost models in floating point; here each of them may.        *)
(* Where a leaf keeps its records is the subject of AlexDataNode, when memory *)
(* of replaced nodes is reused that of AlexEbr.                             *)
(***************************************************************************)
EXTENDS Integers, FiniteSets, SequencesExt

CONSTANTS
  Procs, Scanners,  \* threads that call get, insert, update, erase; and scan
  Values, None,
  NewValues,        \* the values that operations write; the loaded ones differ
  NumKeys,          \* a power of 2
  OpKeys,           \* keys of the operations
  ScanFrom, to_scan,\* arguments of scans
  Loaded,           \* keys present at the start
  Shapes,           \* trees to start with, and derived_params_.max_fanout
  RootLeafResizes,  \* whether a leaf that is the root may be resized
  MaxNodes, MaxOps  \* bounds; a scanner scans once

ASSUME ShapesAssumption ==
  Shapes \subseteq [buckets : {1, 2, 4}, leaves : {1, 2}, max_fanout : {2, 4}]

VARIABLES
  node,             \* the nodes allocated so far
  root_node_, max_fanout,
  retired,          \* nodes given to safe_delete_node
  op, seen, res,    \* the operations of Procs, as in LinearMap
  count,            \* operations started
  scan,             \* scan[s]: what s has returned, what each key has been, and
                    \* the records of leaves that s has passed over (skipped)
  t                 \* t[p]: program counter and locals of thread p

opvars == <<op, seen, res, count>>
tree == <<node, root_node_, max_fanout, retired>>
vars == <<tree, opvars, scan, t>>

Threads == Procs \union Scanners
Keys == 0 .. (NumKeys - 1)
Null == 0
Superroot == 1

DataNode(lo, width, depth, data) ==
  [leaf |-> TRUE, lo |-> lo, width |-> width, depth |-> depth, data |-> data,
   locked |-> FALSE, version |-> 0, link |-> FALSE, prev |-> Null, next |-> Null]
ModelNode(lo, width, depth, children) ==
  [leaf |-> FALSE, lo |-> lo, width |-> width, depth |-> depth, children |-> children,
   locked |-> FALSE, readers |-> 0, obsolete |-> FALSE]

\* The bucket of a model node for a key (1 is bucketID 0).
Bucket(n, k) == 1 + ((k - node[n].lo) * Len(node[n].children)) \div node[n].width
Child(n, k) == node[n].children[Bucket(n, k)]

\* The leaf that get_leaf finds for a key when nothing moves.
LeafOf(k) ==
  LET Down[n \in DOMAIN node] == IF node[n].leaf THEN n ELSE Down[Child(n, k)]
  IN  Down[root_node_]

Logical(k) == node[LeafOf(k)].data[k]

Abs == INSTANCE LinearMap WITH
  Keys <- OpKeys, Kinds <- {"get", "insert", "update", "remove"},
  map <- [k \in OpKeys |-> Logical(k)]

-----------------------------------------------------------------------------
NoOp == [pc |-> "idle", cur |-> Null, leaf |-> Null, version |-> 0, val |-> None,
         child |-> Null, after |-> "done", parent |-> Null, bucket |-> 0,
         left |-> Null, right |-> Null, model |-> Null, writer |-> FALSE,
         prev |-> Null, from |-> 0, buf |-> <<>>, lost |-> {}]

\* Bulk loaded trees: one leaf, or a root model node over one or two leaves.
Content(v, lo, width) ==
  [k \in Keys |-> IF k \in Loaded /\ lo <= k /\ k < lo + width THEN v ELSE None]
Tree(shape, v) ==
  LET m == shape.leaves
      w == NumKeys \div m
      Id(i) == IF shape.buckets = 1 THEN 2 ELSE i + 2
      Leaf(i) == [DataNode((i - 1) * w, w, m - 1, Content(v, (i - 1) * w, w))
                    EXCEPT !.prev = IF i > 1 THEN Id(i - 1) ELSE Null,
                           !.next = IF i < m THEN Id(i + 1) ELSE Null]
      Root == ModelNode(0, NumKeys, 0,
                [b \in 1 .. shape.buckets |-> Id(1 + ((b - 1) * m) \div shape.buckets)])
  IN  <<ModelNode(0, NumKeys, 0, <<2>>)>>
        \o (IF shape.buckets = 1 THEN <<>> ELSE <<Root>>)
        \o [i \in 1 .. m |-> Leaf(i)]

NotBegun == [begun |-> FALSE, from |-> 0, out |-> <<>>, skipped |-> {},
             seen |-> [k \in Keys |-> {}]]

Init ==
  /\ \E shape \in Shapes, v \in Values \ NewValues :
       node = Tree(shape, v) /\ max_fanout = shape.max_fanout
  /\ root_node_ = 2
  /\ retired = {}
  /\ op = [p \in Procs |-> Abs!Idle]
  /\ seen = [p \in Procs |-> {}]
  /\ res = [p \in Procs |-> Abs!Undecided]
  /\ count = 0
  /\ scan = [s \in Scanners |-> NotBegun]
  /\ t = [p \in Threads |-> NoOp]

Key(p) == IF p \in Scanners THEN t[p].from ELSE op[p].key
At(p, l) == t[p].pc = l
Goto(p, l) == t' = [t EXCEPT ![p].pc = l]

\* Steps that change only thread locals, only nodes, or only the chain.
Local == UNCHANGED <<tree, opvars, scan>>
Rest == UNCHANGED <<root_node_, max_fanout, retired, opvars, scan>>

Start(p) ==
  /\ At(p, "idle") /\ count < MaxOps
  /\ UNCHANGED tree
  /\ Abs!Invoke(p)
  /\ op'[p].kind \in {"insert", "update"} => op'[p].val \in NewValues
  /\ count' = count + 1
  /\ Goto(p, "root")
  /\ UNCHANGED scan

Finish(p) ==
  /\ At(p, "done")
  /\ t' = [t EXCEPT ![p] = NoOp]
  /\ UNCHANGED <<tree, scan>>
  /\ Abs!Respond(p)
  /\ UNCHANGED count

-----------------------------------------------------------------------------
(* get_leaf *)

Arrive(p, n) ==
  t' = [t EXCEPT ![p].cur = n,
                 ![p].pc = IF ~node[n].leaf THEN "walk"
                           ELSE IF p \in Scanners THEN "scan"
                           ELSE IF op[p].kind = "get" THEN "version" ELSE "lock"]

Root(p) ==
  /\ At(p, "root")
  /\ Arrive(p, root_node_)
  /\ Local

Walk(p) ==
  /\ At(p, "walk")
  /\ Arrive(p, Child(t[p].cur, Key(p)))
  /\ Local

-----------------------------------------------------------------------------
(* get_payload: AlexDataNode::find_payload between two looks at the lock *)

TestLockSet(p) ==
  /\ At(p, "version")
  /\ LET n == node[t[p].cur] IN
     t' = IF n.locked THEN [t EXCEPT ![p].pc = "root"]
          ELSE [t EXCEPT ![p].pc = "read", ![p].version = n.version]
  /\ Local

\* A leaf whose lock is held may be in any state.
Slots(n, k) == IF node[n].locked THEN Values \union {None} ELSE {node[n].data[k]}

FindPayload(p) ==
  /\ At(p, "read")
  /\ \E v \in Slots(t[p].cur, Key(p)) :
       t' = [t EXCEPT ![p].pc = "check", ![p].val = v]
  /\ Local

ChangedIgnoringLock(p) == node[t[p].cur].version # t[p].version
Changed(p) == node[t[p].cur].locked \/ node[t[p].cur].version # t[p].version

TestVersionChange(p) ==
  /\ At(p, "check")
  /\ IF Changed(p)
     THEN Goto(p, "root") /\ UNCHANGED res
     ELSE Goto(p, "done") /\ res' = [res EXCEPT ![p] = Abs!Got(t[p].val)]
  /\ UNCHANGED <<tree, op, seen, count, scan>>

-----------------------------------------------------------------------------
(* AlexDataNode::insert, update, erase *)

\* Every operation and every scan under way sees the new value.
Witness(k, v) ==
  /\ seen' = Abs!See(k, v)
  /\ scan' = [s \in Scanners |-> IF scan[s].begun
                                 THEN [scan[s] EXCEPT !.seen[k] = @ \union {v}]
                                 ELSE scan[s]]

\* Whether the operation applies to a key with value v.
Applies(p, v) == (op[p].kind = "insert") = (v = None)

try_get_lock(n) == ~node[n].locked

\* try_get_lock, and the operation under the lock.
Modify(p) ==
  LET n == t[p].cur
      k == Key(p)
  IN
  /\ At(p, "lock")
  /\ IF ~try_get_lock(n)
     THEN Goto(p, "root") /\ UNCHANGED <<node, seen, res, scan>>
     ELSE IF Applies(p, node[n].data[k])
     THEN /\ node' = [node EXCEPT ![n].locked = TRUE, ![n].data[k] = Abs!Result(op[p])]
          /\ Witness(k, Abs!Result(op[p]))
          /\ res' = [res EXCEPT ![p] = Abs!Ok]
          /\ t' = [t EXCEPT ![p].leaf = n,
                            ![p].pc = IF op[p].kind = "update" THEN "unlock" ELSE "changed"]
     ELSE /\ node' = [node EXCEPT ![n].locked = TRUE]
          /\ res' = [res EXCEPT ![p] = Abs!Failed]
          /\ t' = [t EXCEPT ![p].leaf = n, ![p].pc = "unlock"]
          /\ UNCHANGED <<seen, scan>>
  /\ UNCHANGED <<root_node_, max_fanout, retired, op, count>>

\* release_lock: the version goes up by one.
Released(n) == [n EXCEPT !.locked = FALSE, !.version = @ + 1]

\* Mutant: an operation that does not apply returns with the leaf locked.
UnlockApplied(p) ==
  /\ t[p].pc \in {"unlock", "changed"}
  /\ node' = IF res[p] = Abs!Failed THEN node
             ELSE [node EXCEPT ![t[p].leaf] = Released(@)]
  /\ Goto(p, "done")
  /\ Rest

Unlock(p) ==
  /\ t[p].pc \in {"unlock", "changed"}
  /\ node' = [node EXCEPT ![t[p].leaf] = Released(@)]
  /\ Goto(p, "done")
  /\ Rest

-----------------------------------------------------------------------------
(* New leaves, not yet reachable.  Splits that may still need a model node    *)
(* have it set aside.                                                        *)

Reserved == Cardinality({q \in Procs : t[q].left # t[q].right /\ t[q].model = Null})
Room(n) == Len(node) + Reserved + n <= MaxNodes

\* New_from_existing and resize_from_existing, for fail 5, for retraining and
\* for contraction: a copy, with the neighbours the leaf has now.
Resize(p) ==
  LET new == Len(node) + 1 IN
  /\ At(p, "changed") /\ Room(1)
  /\ t[p].leaf = root_node_ => RootLeafResizes
  /\ node' = Append(node, [node[t[p].leaf] EXCEPT !.link = FALSE])
  /\ t' = [t EXCEPT ![p].left = new, ![p].right = new, ![p].child = t[p].leaf,
                    ![p].after = "install", ![p].pc = "parent"]
  /\ Rest

\* The records of one half of a leaf.
HalfAndOne(data, lo, width) ==
  [k \in Keys |-> IF lo <= k /\ k <= lo + width THEN data[k] ELSE None]

Half(data, lo, width) ==
  [k \in Keys |-> IF lo <= k /\ k < lo + width THEN data[k] ELSE None]

\* create_two_new_data_nodes_without_parent: two halves, locked and chained.
Split(p) ==
  LET old == node[t[p].leaf]
      w == old.width \div 2
      left == Len(node) + 1
      right == Len(node) + 2
      New(lo) == [DataNode(lo, w, 0, Half(old.data, lo, w)) EXCEPT !.locked = TRUE]
  IN
  /\ At(p, "changed") /\ op[p].kind = "insert"
  /\ old.width > 1 /\ Room(3)
  /\ node' = node \o << [New(old.lo) EXCEPT !.next = right],
                        [New(old.lo + w) EXCEPT !.prev = left] >>
  /\ t' = [t EXCEPT ![p].left = left, ![p].right = right, ![p].child = t[p].leaf,
                    ![p].after = "plan", ![p].pc = "parent"]
  /\ Rest

-----------------------------------------------------------------------------
(* lock_parent_node(key, path, child): the callers repeat it until it succeeds *)

ParentRoot(p) ==
  /\ At(p, "parent")
  /\ t' = [t EXCEPT ![p].cur = root_node_,
                    ![p].pc = IF root_node_ = t[p].child THEN "superroot"
                              ELSE IF node[root_node_].leaf THEN "parent" ELSE "descend"]
  /\ Local

\* The child was the root: the superroot's pointer is tested under its lock.
LockSuperroot(p) ==
  /\ At(p, "superroot")
  /\ IF /\ ~node[Superroot].locked
        /\ t[p].child = root_node_ /\ node[Superroot].children[1] = t[p].child
     THEN /\ node' = [node EXCEPT ![Superroot].readers = @ + 1]
          /\ t' = [t EXCEPT ![p].parent = Superroot, ![p].bucket = 1, ![p].pc = t[p].after]
     ELSE Goto(p, "parent") /\ UNCHANGED node
  /\ Rest

\* A leaf other than the child at the end of the path "should not occur".
Descend(p) ==
  LET next == Child(t[p].cur, Key(p)) IN
  /\ At(p, "descend")
  /\ t' = IF next = t[p].child THEN [t EXCEPT ![p].pc = "found"]
          ELSE IF node[next].leaf THEN [t EXCEPT ![p].pc = "lost"]
          ELSE [t EXCEPT ![p].cur = next]
  /\ Local

get_read_lock(n) == ~node[n].locked /\ ~node[n].obsolete

LockParent(p) ==
  LET n == t[p].cur
      b == Bucket(n, Key(p))
  IN
  /\ At(p, "found")
  /\ IF node[n].children[b] = t[p].child /\ get_read_lock(n)
     THEN /\ node' = [node EXCEPT ![n].readers = @ + 1]
          /\ t' = [t EXCEPT ![p].parent = n, ![p].bucket = b, ![p].pc = t[p].after]
     ELSE Goto(p, "parent") /\ UNCHANGED node
  /\ Rest

-----------------------------------------------------------------------------
(* New pointers in the parent *)

\* How many buckets of a model node hold a child of this depth, and the first
\* of them.
Repeats(n, depth) == Len(n.children) \div 2 ^ depth
FirstBucket(b, repeats) == b - ((b - 1) % repeats)

\* children_ with the buckets of a child replaced by left and right halves.
Replaced(n, b, repeats, left, right) ==
  LET first == FirstBucket(b, repeats) IN
  [i \in DOMAIN n.children |->
     IF first <= i /\ i < first + repeats
     THEN IF 2 * (i - first) < repeats THEN left ELSE right
     ELSE n.children[i]]

Install(p) ==
  LET n == node[t[p].parent] IN
  /\ At(p, "install")
  /\ node' = [node EXCEPT ![t[p].parent].children =
                Replaced(n, t[p].bucket, Repeats(n, node[t[p].leaf].depth),
                         t[p].left, t[p].left)]
  /\ Goto(p, "prev")
  /\ Rest

\* The two ways of split_sideways_downwards_without_parent.
Downwards(p) ==
  LET n == node[t[p].parent] IN
  \/ (Len(n.children) * 2) \div Repeats(n, node[t[p].leaf].depth) > max_fanout
  \/ t[p].parent = Superroot

\* A new model node with the two halves takes the place of the leaf; the
\* splitter holds its read lock.
SplitDownwards(p) ==
  LET n == node[t[p].parent]
      old == node[t[p].leaf]
      new == Len(node) + 1
  IN
  /\ At(p, "plan") /\ Downwards(p)
  /\ node' = Append([node EXCEPT
                ![t[p].left].depth = 1, ![t[p].right].depth = 1,
                ![t[p].parent].children =
                   Replaced(n, t[p].bucket, Repeats(n, old.depth), new, new)],
                [ModelNode(old.lo, old.width, old.depth, <<t[p].left, t[p].right>>)
                   EXCEPT !.readers = 1])
  /\ t' = [t EXCEPT ![p].model = new, ![p].pc = "prev"]
  /\ Rest

\* The leaf has several buckets: each half gets its share.
SplitSideways(p) ==
  LET n == node[t[p].parent]
      depth == node[t[p].leaf].depth
  IN
  /\ \/ At(p, "plan") /\ ~Downwards(p) /\ Repeats(n, depth) > 1
     \/ At(p, "halves")
  /\ node' = [node EXCEPT
                ![t[p].left].depth = depth + 1, ![t[p].right].depth = depth + 1,
                ![t[p].parent].children =
                   Replaced(n, t[p].bucket, Repeats(n, depth), t[p].left, t[p].right)]
  /\ Goto(p, "prev")
  /\ Rest

\* The leaf has one bucket: the parent must grow.  If another thread is
\* promoting its lock, the read lock goes back and the parent is sought again.
promote_from_read_to_write(p) ==
  LET n == t[p].parent IN
  /\ At(p, "plan") /\ ~Downwards(p) /\ Repeats(node[n], node[t[p].leaf].depth) = 1
  /\ node' = [node EXCEPT ![n].readers = @ - 1, ![n].locked = TRUE]
  /\ Goto(p, IF node[n].locked \/ node[n].obsolete THEN "parent" ELSE "drain")
  /\ Rest

\* Once the readers are gone: AlexModelNode::expand, a locked copy with every
\* pointer twice.
ExpandEarly(p) ==
  LET n == node[t[p].parent] IN
  /\ At(p, "drain")
  /\ node' = Append(node, [n EXCEPT !.readers = 0, !.children =
                [i \in 1 .. 2 * Len(n.children) |-> n.children[(i + 1) \div 2]]])
  /\ t' = [t EXCEPT ![p].model = Len(node) + 1, ![p].child = t[p].parent,
                    ![p].after = "grandparent", ![p].pc = "parent"]
  /\ Rest

Expand(p) ==
  /\ At(p, "drain") /\ node[t[p].parent].readers = 0
  /\ ExpandEarly(p)

\* The grandparent, locked for reading, gets the new model node; the old one is
\* obsolete and retired.
InstallParent(p) ==
  LET old == t[p].child
      grand == t[p].parent
      n == node[grand]
  IN
  /\ At(p, "grandparent")
  /\ node' = [node EXCEPT
                ![grand].children = Replaced(n, t[p].bucket, Repeats(n, node[old].depth),
                                             t[p].model, t[p].model),
                ![grand].readers = @ - 1,
                ![old].obsolete = TRUE]
  /\ root_node_' = IF grand = Superroot THEN t[p].model ELSE root_node_
  /\ retired' = retired \union {old}
  /\ t' = [t EXCEPT ![p].parent = t[p].model, ![p].writer = TRUE, ![p].pc = "halves",
                    ![p].bucket = 2 * Bucket(old, Key(p)) - 1]
  /\ UNCHANGED <<max_fanout, opvars, scan>>

-----------------------------------------------------------------------------
(* link_data_nodes and link_resizing_data_nodes *)

LinkPrev(p) ==
  LET prev == node[t[p].leaf].prev IN
  /\ At(p, "prev")
  /\ t' = [t EXCEPT ![p].prev = prev, ![p].pc = IF prev = Null THEN "next" ELSE "try"]
  /\ Local

try_get_link_lock(p) ==
  /\ At(p, "try")
  /\ IF node[t[p].prev].link
     THEN Goto(p, "prev") /\ UNCHANGED node
     ELSE Goto(p, "confirm") /\ node' = [node EXCEPT ![t[p].prev].link = TRUE]
  /\ Rest

\* If the locked node has been replaced meanwhile, the next one is tried.
LinkConfirm(p) ==
  /\ At(p, "confirm")
  /\ IF node[t[p].leaf].prev = t[p].prev
     THEN /\ node' = [node EXCEPT ![t[p].prev].next = t[p].left, ![t[p].left].prev = t[p].prev]
          /\ Goto(p, "next")
     ELSE /\ node' = [node EXCEPT ![t[p].prev].link = FALSE]
          /\ Goto(p, "prev")
  /\ Rest

\* With the old leaf's link lock, taken for good, and the new one's, the
\* right neighbour is read and pointed back.
LinkNext(p) ==
  LET old == t[p].leaf
      next == node[old].next
      new == [node EXCEPT ![old].link = TRUE, ![t[p].right].link = TRUE]
  IN
  /\ At(p, "next") /\ ~node[old].link
  /\ node' = IF next = Null THEN new
             ELSE [new EXCEPT ![t[p].right].next = next, ![next].prev = t[p].right]
  /\ Goto(p, "release")
  /\ Rest

-----------------------------------------------------------------------------
(* Locks are given back, in the order of the code *)

UnlinkedRight(n, p) == [n EXCEPT ![t[p].right].link = FALSE]

Unlinked(n, p) ==
  [i \in DOMAIN n |-> IF i \in {n[t[p].left].prev, t[p].right}
                      THEN [n[i] EXCEPT !.link = FALSE] ELSE n[i]]

ReadLockReleased(n, p) == [n EXCEPT ![t[p].parent].readers = @ - 1]

\* The parent's lock: the write lock if the parent was expanded.
ParentReleased(n, p) ==
  IF t[p].writer THEN [n EXCEPT ![t[p].parent].locked = FALSE, ![t[p].parent].readers = 0]
  ELSE ReadLockReleased(n, p)

\* A resize: the new leaf, the parent, the link locks; then the old leaf is
\* retired.
ReleaseResized(p) ==
  /\ t[p].left = t[p].right
  /\ \/ /\ At(p, "release")
        /\ node' = [node EXCEPT ![t[p].left] = Released(@)]
        /\ Goto(p, "release2")
        /\ Rest
     \/ /\ At(p, "release2")
        /\ node' = ReadLockReleased(node, p)
        /\ Goto(p, "release3")
        /\ Rest
     \/ /\ At(p, "release3")
        /\ node' = Unlinked(node, p)
        /\ retired' = retired \union {t[p].leaf}
        /\ Goto(p, "done")
        /\ UNCHANGED <<root_node_, max_fanout, opvars, scan>>

\* A split: the root pointer if the root was the leaf, retirement of the old
\* leaf, the model node and the parent, the link locks, the two halves.
ReleaseSplit(p) ==
  LET down == t[p].model # Null /\ ~t[p].writer IN
  /\ t[p].left # t[p].right
  /\ \/ /\ At(p, "release")
        /\ root_node_' = IF down /\ t[p].parent = Superroot THEN t[p].model ELSE root_node_
        /\ retired' = retired \union {t[p].leaf}
        /\ node' = IF down THEN [node EXCEPT ![t[p].model].readers = @ - 1] ELSE node
        /\ Goto(p, "release2")
        /\ UNCHANGED <<max_fanout, opvars, scan>>
     \/ /\ At(p, "release2")
        /\ node' = ParentReleased(node, p)
        /\ Goto(p, "release3")
        /\ Rest
     \/ /\ At(p, "release3")
        /\ node' = [Unlinked(node, p) EXCEPT ![t[p].left] = Released(@), ![t[p].right] = Released(@)]
        /\ Goto(p, "done")
        /\ Rest

-----------------------------------------------------------------------------
(* range_scan_by_size: the whole leaf between two looks at its version, then  *)
(* on to next_leaf_.  A scanner whose leaf is locked looks again at the same   *)
(* leaf.                                                                     *)

StartScan(s) ==
  /\ At(s, "idle") /\ ~scan[s].begun
  /\ \E k \in ScanFrom :
       /\ t' = [t EXCEPT ![s].pc = "root", ![s].from = k]
       /\ scan' = [scan EXCEPT ![s].begun = TRUE, ![s].from = k,
                               ![s].seen = [j \in Keys |-> {Logical(j)}]]
  /\ UNCHANGED <<tree, opvars>>

ScanTest(s) ==
  /\ At(s, "scan") /\ ~node[t[s].cur].locked
  /\ t' = [t EXCEPT ![s].pc = "collect", ![s].version = node[t[s].cur].version]
  /\ Local

Present(n) == {k \in Keys : node[n].data[k] # None}

\* At most m records of leaf n, from key first on.
Collected(n, first, m) ==
  LET ks == SetToSortSeq({k \in Present(n) : k >= first}, LAMBDA a, b : a < b)
  IN  [i \in 1 .. Min({m, Len(ks)}) |-> [key |-> ks[i], val |-> node[n].data[ks[i]]]]

\* Mutant: the search finds the slot after the start key's.
FirstsAfter(n, from) == {Min({k \in Present(n) : k > from} \union {NumKeys})}

\* Where the iterator starts: at the last record at or before the start key.  If
\* there is none, its position is -1, which is also how it says that it is at
\* the end; it reads the word before bitmap_, and whatever that memory holds
\* decides whether it goes on to the first record or passes over the leaf.
Firsts(n, from) ==
  LET below == {k \in Present(n) : k <= from}
  IN  IF below = {} THEN {0, NumKeys} ELSE {Max(below)}

\* What is read from a locked leaf is thrown away with it.
ScanRead(s) ==
  LET n == t[s].cur IN
  /\ At(s, "collect")
  /\ IF Changed(s) THEN t' = [t EXCEPT ![s].pc = "validate"]
     ELSE \E first \in Firsts(n, t[s].from) :
            t' = [t EXCEPT
                   ![s].pc = "validate",
                   ![s].buf = Collected(n, first, to_scan - Len(scan[s].out)),
                   ![s].lost = IF first = NumKeys THEN Present(n) ELSE {}]
  /\ Local

ScanValidateKeeping(s) ==
  /\ At(s, "validate")
  /\ Goto(s, IF Changed(s) THEN "scan" ELSE "advance")
  /\ scan' = [scan EXCEPT ![s].out = @ \o t[s].buf, ![s].skipped = @ \union t[s].lost]
  /\ UNCHANGED <<tree, opvars>>

ScanValidate(s) ==
  /\ At(s, "validate")
  /\ t' = [t EXCEPT ![s].pc = IF Changed(s) THEN "scan" ELSE "advance",
                    ![s].buf = <<>>, ![s].lost = {}]
  /\ scan' = IF Changed(s) THEN scan
             ELSE [scan EXCEPT ![s].out = @ \o t[s].buf, ![s].skipped = @ \union t[s].lost]
  /\ UNCHANGED <<tree, opvars>>

\* next_leaf_ is followed without a look at the lock, first_key() likewise: an
\* empty leaf gives the largest key.
ScanNext(s) ==
  LET next == node[t[s].cur].next
      first == IF Present(next) = {} THEN NumKeys ELSE Min(Present(next))
  IN
  /\ At(s, "advance")
  /\ t' = IF next = Null \/ Len(scan[s].out) = to_scan THEN [t EXCEPT ![s] = NoOp]
          ELSE [t EXCEPT ![s].pc = "scan", ![s].cur = next, ![s].from = first]
  /\ Local

-----------------------------------------------------------------------------
Operation(p) ==
  \/ Start(p) \/ Finish(p)
  \/ TestLockSet(p) \/ FindPayload(p) \/ TestVersionChange(p)
  \/ Modify(p) \/ Unlock(p) \/ Resize(p) \/ Split(p)
  \/ ParentRoot(p) \/ LockSuperroot(p) \/ Descend(p) \/ LockParent(p)
  \/ Install(p) \/ SplitDownwards(p) \/ SplitSideways(p)
  \/ promote_from_read_to_write(p) \/ Expand(p) \/ InstallParent(p)
  \/ LinkPrev(p) \/ try_get_link_lock(p) \/ LinkConfirm(p) \/ LinkNext(p)
  \/ ReleaseResized(p) \/ ReleaseSplit(p)

Scan(s) ==
  StartScan(s) \/ ScanTest(s) \/ ScanRead(s) \/ ScanValidate(s) \/ ScanNext(s)

Next ==
  \/ \E p \in Threads : Root(p) \/ Walk(p)
  \/ \E p \in Procs : Operation(p)
  \/ \E s \in Scanners : Scan(s)

Spec == Init /\ [][Next]_vars

\* Threads run: a thread that can go on in the middle of an operation does.
Busy(p) == t[p].pc # "idle" /\ (Root(p) \/ Walk(p) \/ (p \in Procs /\ Operation(p))
                                 \/ (p \in Scanners /\ Scan(p)))
FairSpec == Spec /\ \A p \in Threads : WF_vars(Busy(p))
-----------------------------------------------------------------------------
\* get, insert, update and erase are those of one map, whatever resizes and
\* splits happen meanwhile.
Linearizable == Abs!AbsSpec

InTree == {LeafOf(k) : k \in Keys}

\* What safe_delete_node needs: a retired node is reached neither through the
\* root nor along the chain from a leaf that can be read.
RetiredUnreachable ==
  /\ root_node_ \notin retired
  /\ \A n \in InTree :
       /\ n \notin retired
       /\ ~node[n].locked => node[n].prev \notin retired /\ node[n].next \notin retired

\* No thread is in the middle of an insert, update or erase.
Quiet == \A p \in Procs : t[p].leaf = Null

\* Between operations no lock is left set, and the chain of leaves is the
\* order of the tree.
QuietTree ==
  Quiet =>
    /\ \A n \in InTree :
         /\ ~node[n].locked /\ ~node[n].link
         /\ \A m \in InTree :
              /\ (node[n].next = m) = (node[m].lo = node[n].lo + node[n].width)
              /\ (node[n].next = m) = (node[m].prev = n)
    /\ \A n \in DOMAIN node \ retired :
         ~node[n].leaf => ~node[n].locked /\ node[n].readers = 0

\* A leaf holds records of its own domain only, and is where the tree sends
\* them: lock_parent_node never ends at another leaf ("This should not occur in
\* locking parent").
Domains ==
  /\ \A n \in InTree : \A k \in Present(n) : LeafOf(k) = n
  /\ \A p \in Procs : ~At(p, "lost")

\* The records from the start key on that were there all the time a scan ran,
\* up to the last one it returned if it has returned as many as asked for.
Due(s) ==
  LET out == scan[s].out
      full == Len(out) = to_scan
  IN  {k \in Keys : /\ k >= scan[s].from /\ None \notin scan[s].seen[k]
                    /\ full => k <= out[to_scan].key}

Ended(s) == scan[s].begun /\ At(s, "idle")
Returned(s) == {scan[s].out[i].key : i \in DOMAIN scan[s].out}

\* A scan returns records in order, each of them as it was at some moment of
\* the scan, and misses none that was there all the time but those of leaves in
\* which no record was at or before the key it looked for.
ScanSound ==
  \A s \in Scanners :
    LET out == scan[s].out IN
    /\ \A i \in DOMAIN out : out[i].val \in scan[s].seen[out[i].key]
    /\ \A i, j \in DOMAIN out : i < j => out[i].key < out[j].key
    /\ Ended(s) => Due(s) \subseteq Returned(s) \union scan[s].skipped

\* "First locate this position": the scan begins where the start key is or would
\* be, and gives every record from there on.
ScanComplete == \A s \in Scanners : Ended(s) => Due(s) \subseteq Returned(s)

\* Every operation returns, and every scan but one that looks at a locked leaf
\* again and again and has come to a leaf that was replaced, whose lock is never
\* released: operations are MaxOps at most, and in the end none is under way,
\* however often leaves and links were locked and splits repeated.
OperationsEnd ==
  <>[](\A p \in Threads :
         At(p, "idle") \/ (p \in Scanners /\ At(p, "scan") /\ t[p].cur \in retired))

\* The superroot is "the root's parent": between operations its child is the
\* root the next operation starts from.
SuperrootAboveRoot == Quiet => node[Superroot].children[1] = root_node_
=============================================================================
