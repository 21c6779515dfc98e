---------------------------- MODULE XIndexBuffer ----------------------------
(***************************************************************************)
(* AltBtreeBuffer (xindex_buffer_impl.h): the B-link tree that takes the     *)
(* inserts of a group.  Readers take no lock: they remember a node's version *)
(* before they read it and look at its lock and version afterwards; writers *)
(* lock the leaf, and a split locks its way up through the parents.          *)
(*                                                                         *)
(* Nodes are numbered in the order of their allocation.  The stores with    *)
(* which a writer changes keys, values and children are one step that marks *)
(* the node torn until its version is incremented: whoever reads a torn      *)
(* node gets Garbage, or any child.  Records are atomic (XIndexAtomicVal);   *)
(* None stands for the value of a removed one.                              *)
(***************************************************************************)
EXTENDS Integers, FiniteSets, SequencesExt

CONSTANTS
  Procs, Scanners,  \* threads that call get, insert, update, remove; and scan
  Values, None,
  Garbage,          \* what a read of a torn leaf returns
  Capacity,         \* node_capacity
  OpKeys, ScanFrom, \* arguments of the operations
  Loads,            \* contents to start with: n records, of which gone are removed
  MaxOps            \* bound: operations and scans of all threads together

ASSUME ThreadsAssumption == Procs \intersect Scanners = {} /\ IsFiniteSet(Procs)
ASSUME ValuesAssumption ==
  None \notin Values /\ Garbage \notin Values \union {None}
\* alt_buf_fanout is even: node_capacity is odd, and a split leaves no node empty.
ASSUME CapacityAssumption == Capacity \in Nat /\ Capacity >= 3 /\ Capacity % 2 = 1
ASSUME KeysAssumption == OpKeys \subseteq Nat /\ IsFiniteSet(OpKeys)
ASSUME ScanAssumption == ScanFrom \subseteq Nat
ASSUME LoadsAssumption ==
  Loads \subseteq [n : 1..(Capacity * (Capacity + 1)), gone : SUBSET OpKeys]

VARIABLES
  node,           \* the nodes, allocated so far
  root, size_est,
  op, seen, res,  \* the operations of Procs, as in LinearMap
  count,          \* operations and scans started
  scan,           \* scan[s]: what scanner s has returned, and the values
                  \* each key has had since it began
  t               \* t[p]: program counter and locals of thread p

opvars == <<op, seen, res, count>>
tree == <<node, root, size_est>>
vars == <<tree, opvars, scan, t>>

Threads == Procs \union Scanners
Begin == 1        \* the first leaf
Nil == 0

\* Records loaded in ascending order have even keys.
Keys == OpKeys \union {2 * i : i \in 1..(Capacity * (Capacity + 1))}

Leaves == {n \in DOMAIN node : node[n].leaf}

\* find_first_larger_than_or_equal_to and find_first_larger_than: as many keys
\* lie before the slot they return.
Slot(n, k) == Cardinality({i \in DOMAIN node[n].keys : node[n].keys[i] < k})
SlotAfter(n, k) == Cardinality({i \in DOMAIN node[n].keys : node[n].keys[i] <= k})

Holds(n, k) == \E i \in DOMAIN node[n].keys : node[n].keys[i] = k
ValueIn(n, k) == IF Holds(n, k) THEN node[n].vals[Slot(n, k) + 1] ELSE None

\* The map the buffer stands for.
Logical(k) ==
  LET in == {n \in Leaves : Holds(n, k)}
  IN  IF in = {} THEN None ELSE ValueIn(CHOOSE n \in in : TRUE, k)

Abs == INSTANCE LinearMap WITH
  Keys <- OpKeys, Kinds <- {"get", "put", "update", "remove"},
  map <- [k \in OpKeys |-> Logical(k)]

-----------------------------------------------------------------------------
Leaf(ks, vs, nx) ==
  [leaf |-> TRUE, keys |-> ks, vals |-> vs, kids |-> <<>>, next |-> nx,
   parent |-> Nil, locked |-> FALSE, version |-> 0, torn |-> FALSE]
Internal(ks, cs) ==
  [leaf |-> FALSE, keys |-> ks, vals |-> <<>>, kids |-> cs, next |-> Nil,
   parent |-> Nil, locked |-> FALSE, version |-> 0, torn |-> FALSE]

NoOp == [pc |-> "idle", cur |-> Nil, ver |-> 0, nxt |-> Nil, nver |-> 0,
         val |-> None, left |-> Nil, right |-> Nil, sep |-> 0, par |-> Nil,
         todo |-> <<>>, held |-> <<>>, after |-> "done", from |-> 0, moved |-> FALSE,
         buf |-> <<>>]

\* The tree after inserting n records in ascending order and removing those in
\* gone: every leaf but the last is full, since a split at the end leaves the
\* old leaf as it is.
Ascending(n, v, gone) ==
  LET m == (n + Capacity - 1) \div Capacity
      Nth(i, j) == 2 * ((i - 1) * Capacity + j)
      Width(i) == IF i < m THEN Capacity ELSE n - (m - 1) * Capacity
      L(i) == [Leaf([j \in 1..Width(i) |-> Nth(i, j)],
                    [j \in 1..Width(i) |-> IF Nth(i, j) \in gone THEN None ELSE v],
                    IF i < m THEN i + 1 ELSE Nil)
               EXCEPT !.parent = IF m > 1 THEN m + 1 ELSE Nil]
      R == Internal([i \in 1..(m - 1) |-> Nth(i + 1, 1)], [i \in 1..m |-> i])
  IN  [i \in 1..m |-> L(i)] \o (IF m > 1 THEN <<R>> ELSE <<>>)

NotBegun == [out |-> <<>>, seen |-> [k \in Keys |-> {}]]

Init ==
  /\ \E load \in Loads, v \in Values :
       node = Ascending(load.n, v, load.gone) /\ size_est = load.n
  /\ root = Len(node)
  /\ op = [p \in Procs |-> Abs!Idle]
  /\ seen = [p \in Procs |-> {}]
  /\ res = [p \in Procs |-> Abs!Undecided]
  /\ count = 0
  /\ scan = [s \in Scanners |-> NotBegun]
  /\ t = [p \in Threads |-> NoOp]

Key(p) == IF p \in Scanners THEN t[p].from ELSE op[p].key
At(p, l) == t[p].pc = l
Goto(p, l) == t' = [t EXCEPT ![p].pc = l]
N(p) == node[t[p].cur]

\* A local step: it changes t only.
Local == UNCHANGED <<tree, opvars, scan>>

Start(p) ==
  /\ At(p, "idle") /\ count < MaxOps
  /\ UNCHANGED tree
  /\ Abs!Invoke(p)
  /\ count' = count + 1
  /\ Goto(p, "root")
  /\ UNCHANGED scan

StartScan(s) ==
  /\ At(s, "idle") /\ scan[s] = NotBegun /\ count < MaxOps
  /\ count' = count + 1
  /\ \E k \in ScanFrom : t' = [t EXCEPT ![s].pc = "root", ![s].from = k]
  /\ scan' = [scan EXCEPT ![s].seen = [k \in Keys |-> {Logical(k)}]]
  /\ UNCHANGED <<tree, op, seen, res>>

Finish(p) ==
  /\ At(p, "done")
  /\ t' = [t EXCEPT ![p] = NoOp]
  /\ UNCHANGED <<tree, scan>>
  /\ IF p \in Procs THEN Abs!Respond(p) /\ UNCHANGED count ELSE UNCHANGED opvars

-----------------------------------------------------------------------------
(* locate_leaf                                                              *)

\* node_t *node_ptr = root;
LoadRoot(p) ==
  /\ At(p, "root")
  /\ t' = [t EXCEPT ![p].pc = "rootver", ![p].cur = root]
  /\ Local

\* uint64_t node_ver = node_ptr->version;
LoadRootVersion(p) ==
  /\ At(p, "rootver")
  /\ t' = [t EXCEPT ![p].pc = "rootparent", ![p].ver = N(p).version]
  /\ Local

\* A leaf is found: readers read it, writers lock it.
Arrive(p) ==
  IF p \in Scanners \/ op[p].kind = "get" THEN "read" ELSE "lock"

CheckRoot(p) ==
  /\ At(p, "rootparent")
  /\ Goto(p, IF N(p).parent # Nil THEN "root"
             ELSE IF N(p).leaf THEN Arrive(p) ELSE "child")
  /\ Local

\* next_ptr = node_ptr->find_child(key)
FindChild(p) ==
  /\ At(p, "child")
  /\ \E c \in IF N(p).torn THEN ToSet(N(p).kids)
              ELSE {N(p).kids[SlotAfter(t[p].cur, Key(p)) + 1]} :
       t' = [t EXCEPT ![p].pc = "childver", ![p].nxt = c]
  /\ Local

\* next_ver = next_ptr->version
LoadChildVersion(p) ==
  /\ At(p, "childver")
  /\ t' = [t EXCEPT ![p].pc = "childlocked", ![p].nver = node[t[p].nxt].version]
  /\ Local

\* locked = node_ptr->locked == 1
CheckChildLocked(p) ==
  /\ At(p, "childlocked")
  /\ Goto(p, IF N(p).locked THEN "root" ELSE "childvalid")
  /\ Local

\* version_changed = node_ver != node_ptr->version
CheckChildVersion(p) ==
  /\ At(p, "childvalid")
  /\ IF N(p).version # t[p].ver THEN Goto(p, "root")
     ELSE t' = [t EXCEPT
                 ![p].pc = IF node[t[p].nxt].leaf THEN Arrive(p) ELSE "child",
                 ![p].cur = t[p].nxt, ![p].ver = t[p].nver]
  /\ Local

-----------------------------------------------------------------------------
(* The leaf has changed, perhaps it was split: look at its next ones.        *)

\* Mutant: the walk keeps the version of the first read.
WalkVersionKeep(p) ==
  /\ At(p, "walkver")
  /\ Goto(p, "walknext")
  /\ Local

\* leaf_ver = leaf_ptr->version
WalkVersion(p) ==
  /\ At(p, "walkver")
  /\ t' = [t EXCEPT ![p].pc = "walknext", ![p].ver = N(p).version]
  /\ Local

\* while (next_ptr && next_ptr->keys[0] <= key).  keys[0] of a leaf that is some
\* leaf's next never changes.
WalkNext(p) ==
  /\ At(p, "walknext")
  /\ IF N(p).next # Nil /\ node[N(p).next].keys[1] <= Key(p)
     THEN t' = [t EXCEPT ![p].pc = "walkver", ![p].cur = N(p).next]
     ELSE Goto(p, Arrive(p))
  /\ Local

-----------------------------------------------------------------------------
(* get and scan                                                             *)

ReadLeaf(p) ==
  /\ At(p, "read") /\ p \in Procs
  /\ t' = [t EXCEPT ![p].pc = "locked",
                    ![p].val = IF N(p).torn THEN Garbage
                               ELSE ValueIn(t[p].cur, op[p].key)]
  /\ Local

\* The slots of a leaf whose records are not removed.
Valid(n) == {i \in DOMAIN n.keys : n.vals[i] # None}

\* The records in some slots of a leaf, one after the other.
Records(n, slots) ==
  LET Nth(j) == CHOOSE i \in slots : Cardinality({x \in slots : x <= i}) = j
  IN  [j \in 1..Cardinality(slots) |-> [key |-> n.keys[Nth(j)], val |-> n.vals[Nth(j)]]]

\* DataSource copies the leaf, the first one from key_begin on, and its next.
ScanLeaf(s) ==
  /\ At(s, "read") /\ s \in Scanners
  /\ t' = [t EXCEPT ![s].pc = "locked", ![s].nxt = N(s).next,
                    ![s].buf =
                      IF N(s).torn THEN <<[key |-> t[s].from, val |-> Garbage]>>
                      ELSE Records(N(s), {i \in Valid(N(s)) :
                                            t[s].moved \/ N(s).keys[i] >= t[s].from})]
  /\ Local

\* After its first leaf a scan does not follow splits: it reads the leaf again.
CheckLocked(p) ==
  /\ At(p, "locked")
  /\ Goto(p, IF ~N(p).locked THEN "valid"
             ELSE IF t[p].moved THEN "again" ELSE "walkver")
  /\ Local

Unchanged(p) == N(p).version = t[p].ver

CheckChanged(p) ==
  /\ At(p, "valid") /\ ~Unchanged(p)
  /\ Goto(p, IF t[p].moved THEN "again" ELSE "walkver")
  /\ Local

\* leaf_ver = leaf_ptr->version
ScanVersion(s) ==
  /\ At(s, "again")
  /\ t' = [t EXCEPT ![s].pc = "read", ![s].ver = N(s).version]
  /\ Local

\* Mutant: get does not compare versions.
AcceptChanged(p) ==
  /\ At(p, "valid") /\ p \in Procs
  /\ res' = [res EXCEPT ![p] = Abs!Got(t[p].val)]
  /\ Goto(p, "done")
  /\ UNCHANGED <<tree, op, seen, count, scan>>

\* get returns.
Accept(p) ==
  /\ At(p, "valid") /\ p \in Procs /\ Unchanged(p)
  /\ res' = [res EXCEPT ![p] = Abs!Got(t[p].val)]
  /\ Goto(p, "done")
  /\ UNCHANGED <<tree, op, seen, count, scan>>

\* Mutant: the scan takes the next pointer after validating the leaf.
ScanAcceptReload(s) ==
  /\ At(s, "valid") /\ s \in Scanners /\ Unchanged(s)
  /\ scan' = [scan EXCEPT ![s].out = @ \o t[s].buf]
  /\ t' = IF N(s).next = Nil THEN [t EXCEPT ![s].pc = "done"]
          ELSE [t EXCEPT ![s].pc = "again", ![s].moved = TRUE,
                         ![s].cur = N(s).next]
  /\ UNCHANGED <<tree, opvars>>

\* The leaf's records are returned one by one, then the next leaf is read.
ScanAccept(s) ==
  /\ At(s, "valid") /\ s \in Scanners /\ Unchanged(s)
  /\ scan' = [scan EXCEPT ![s].out = @ \o t[s].buf]
  /\ t' = IF t[s].nxt = Nil THEN [t EXCEPT ![s].pc = "done"]
          ELSE [t EXCEPT ![s].pc = "again", ![s].moved = TRUE,
                         ![s].cur = t[s].nxt]
  /\ UNCHANGED <<tree, opvars>>

-----------------------------------------------------------------------------
(* locate_leaf_locked, update, remove, insert_leaf                          *)

\* leaf_ptr->lock()
LockLeaf(p) ==
  /\ At(p, "lock") /\ ~N(p).locked
  /\ node' = [node EXCEPT ![t[p].cur].locked = TRUE]
  /\ Goto(p, "lockver")
  /\ UNCHANGED <<root, size_est, opvars, scan>>

\* Mutant: the version is not compared under the lock.
LockedStaleOk(p) ==
  /\ At(p, "lockver")
  /\ Goto(p, "act")
  /\ Local

LockedStale(p) ==
  /\ At(p, "lockver")
  /\ IF Unchanged(p)
     THEN Goto(p, "act") /\ UNCHANGED node
     ELSE /\ node' = [node EXCEPT ![t[p].cur].locked = FALSE]
          /\ Goto(p, "walkver")
  /\ UNCHANGED <<root, size_est, opvars, scan>>

\* p's mutation takes effect.
Effect(p) ==
  /\ seen' = Abs!See(op[p].key, Abs!Result(op[p]))
  /\ scan' = [s \in Scanners |->
               IF At(s, "idle") THEN scan[s]
               ELSE [scan[s] EXCEPT !.seen[op[p].key] = @ \union {Abs!Result(op[p])}]]
  /\ res' = [res EXCEPT ![p] = Abs!Ok]
  /\ UNCHANGED <<op, count>>

Present(p) == ValueIn(t[p].cur, op[p].key) # None
ThenUnlock(p, nodes) ==
  t' = [t EXCEPT ![p].pc = "unlock", ![p].held = nodes]
ThenBump(p, nodes, after) ==
  t' = [t EXCEPT ![p].pc = "bump", ![p].todo = nodes, ![p].held = nodes,
                 ![p].after = after]

\* update_ignoring_ptr or remove_ignoring_ptr on the record; "no version changed".
\* insert_leaf does the same to a key that is there.
WriteInPlace(p) ==
  /\ At(p, "act") /\ Present(p)
  /\ node' = [node EXCEPT ![t[p].cur].vals[Slot(t[p].cur, op[p].key) + 1] =
                             Abs!Result(op[p])]
  /\ Effect(p)
  /\ ThenUnlock(p, <<t[p].cur>>)
  /\ UNCHANGED <<root, size_est>>

\* update and remove find no record, or a removed one.
NotFound(p) ==
  /\ At(p, "act") /\ ~Present(p) /\ op[p].kind # "put"
  /\ res' = [res EXCEPT ![p] = Abs!Failed]
  /\ ThenUnlock(p, <<t[p].cur>>)
  /\ UNCHANGED <<tree, op, seen, count, scan>>

\* Mutant: the record written over a removed one is counted again.
OverwriteCounted(p) ==
  /\ At(p, "act") /\ ~Present(p) /\ op[p].kind = "put"
  /\ Holds(t[p].cur, op[p].key)
  /\ node' = [node EXCEPT ![t[p].cur].vals[Slot(t[p].cur, op[p].key) + 1] = op[p].val,
                          ![t[p].cur].torn = TRUE]
  /\ Effect(p)
  /\ ThenBump(p, <<t[p].cur>>, "count")
  /\ UNCHANGED <<root, size_est>>

\* insert_leaf overwrites a removed record: vals[slot] = atomic_val_t(val)
Overwrite(p) ==
  /\ At(p, "act") /\ ~Present(p) /\ op[p].kind = "put"
  /\ Holds(t[p].cur, op[p].key)
  /\ node' = [node EXCEPT ![t[p].cur].vals[Slot(t[p].cur, op[p].key) + 1] = op[p].val,
                          ![t[p].cur].torn = TRUE]
  /\ Effect(p)
  /\ ThenBump(p, <<t[p].cur>>, "done")
  /\ UNCHANGED <<root, size_est>>

\* Mutant: is_full one record too late.
FullLate(n) == Len(node[n].keys) = Capacity + 1

Full(n) == Len(node[n].keys) = Capacity
Inserts(p) ==
  At(p, "act") /\ op[p].kind = "put" /\ ~Holds(t[p].cur, op[p].key)

\* insert_leaf moves the records from slot on by one.
Shift(p) ==
  LET n == t[p].cur
      slot == Slot(n, op[p].key)
  IN  /\ Inserts(p) /\ ~Full(n)
      /\ node' = [node EXCEPT ![n].keys = InsertAt(@, slot + 1, op[p].key),
                              ![n].vals = InsertAt(@, slot + 1, op[p].val),
                              ![n].torn = TRUE]
      /\ Effect(p)
      /\ ThenBump(p, <<n>>, "count")
      /\ UNCHANGED <<root, size_est>>

-----------------------------------------------------------------------------
(* split_n_insert_leaf                                                      *)

\* How many of the Capacity + 1 records stay in the old leaf.
LeafCut(slot) ==
  LET half == Capacity \div 2
      mid == IF slot = Capacity THEN Capacity
             ELSE IF slot >= half /\ half < Capacity - half THEN half + 1
             ELSE half
  IN  IF slot >= mid THEN mid ELSE mid + 1

\* The leaf is full: a new sibling, locked, takes its upper half.
SplitLeaf(p) ==
  LET n == t[p].cur
      slot == Slot(n, op[p].key)
      keys == InsertAt(node[n].keys, slot + 1, op[p].key)
      vals == InsertAt(node[n].vals, slot + 1, op[p].val)
      cut == LeafCut(slot)
      sib == Len(node) + 1
      right == Leaf(SubSeq(keys, cut + 1, Len(keys)),
                    SubSeq(vals, cut + 1, Len(keys)), node[n].next)
  IN  /\ Inserts(p) /\ Full(n)
      /\ node' = Append([node EXCEPT ![n].keys = SubSeq(keys, 1, cut),
                                     ![n].vals = SubSeq(vals, 1, cut),
                                     ![n].next = sib, ![n].torn = TRUE],
                        [right EXCEPT !.locked = TRUE])
      /\ Effect(p)
      /\ t' = [t EXCEPT ![p].pc = "parent", ![p].left = n, ![p].right = sib,
                        ![p].sep = keys[cut + 1]]
      /\ UNCHANGED <<root, size_est>>

\* parent_ptr = node_ptr->parent
LoadParent(p) ==
  LET par == node[t[p].left].parent
  IN  /\ At(p, "parent")
      /\ t' = [t EXCEPT ![p].par = par,
                        ![p].pc = IF par = Nil THEN "newroot" ELSE "lockparent"]
      /\ Local

LockParent(p) ==
  /\ At(p, "lockparent") /\ ~node[t[p].par].locked
  /\ node' = [node EXCEPT ![t[p].par].locked = TRUE]
  /\ Goto(p, "checkparent")
  /\ UNCHANGED <<root, size_est, opvars, scan>>

\* Mutant: the parent is not compared again once it is locked.
CheckParentStale(p) ==
  /\ At(p, "checkparent")
  /\ Goto(p, IF Full(t[p].par) THEN "splitparent" ELSE "insertparent")
  /\ Local

\* when parent is split by others
CheckParent(p) ==
  /\ At(p, "checkparent")
  /\ IF t[p].par # node[t[p].left].parent
     THEN /\ node' = [node EXCEPT ![t[p].par].locked = FALSE]
          /\ Goto(p, "parent")
     ELSE /\ Goto(p, IF Full(t[p].par) THEN "splitparent" ELSE "insertparent")
          /\ UNCHANGED node
  /\ UNCHANGED <<root, size_est, opvars, scan>>

\* parent_ptr == nullptr: the tree grows by a level.
NewRoot(p) ==
  LET new == Len(node) + 1
      parent == Internal(<<t[p].sep>>, <<t[p].left, t[p].right>>)
  IN  /\ At(p, "newroot")
      /\ node' = Append([node EXCEPT ![t[p].left].parent = new,
                                     ![t[p].right].parent = new],
                        [parent EXCEPT !.locked = TRUE])
      /\ root' = new
      /\ ThenBump(p, <<new, t[p].left, t[p].right>>, "count")
      /\ UNCHANGED <<size_est, opvars, scan>>

InsertParent(p) ==
  LET par == t[p].par
      slot == SlotAfter(par, t[p].sep)
  IN  /\ At(p, "insertparent")
      /\ node' = [node EXCEPT ![par].keys = InsertAt(@, slot + 1, t[p].sep),
                              ![par].kids = InsertAt(@, slot + 2, t[p].right),
                              ![par].torn = TRUE,
                              ![t[p].right].parent = par]
      /\ ThenBump(p, <<par, t[p].left, t[p].right>>, "count")
      /\ UNCHANGED <<root, size_est, opvars, scan>>

\* How many of the Capacity + 1 separators stay in the old internal node; the
\* one after them goes up.
InternalCut(slot) ==
  LET half == Capacity \div 2
      mid == IF slot = Capacity THEN Capacity - 1
             ELSE IF slot < half /\ half > Capacity - (half + 1) THEN half - 1
             ELSE half
  IN  IF slot >= mid THEN mid ELSE mid + 1

\* recursive split, knock the parent as the new node to split
SplitParent(p) ==
  LET par == t[p].par
      slot == SlotAfter(par, t[p].sep)
      keys == InsertAt(node[par].keys, slot + 1, t[p].sep)
      kids == InsertAt(node[par].kids, slot + 2, t[p].right)
      cut == InternalCut(slot)
      sib == Len(node) + 1
      moved == SubSeq(kids, cut + 2, Len(kids))
  IN  /\ At(p, "splitparent")
      /\ node' =
           Append([n \in DOMAIN node |->
                    IF n = par THEN [node[n] EXCEPT !.keys = SubSeq(keys, 1, cut),
                                       !.kids = SubSeq(kids, 1, cut + 1),
                                       !.torn = TRUE]
                    ELSE IF n \in ToSet(moved)
                    THEN [node[n] EXCEPT !.parent = sib]
                    ELSE IF n = t[p].right THEN [node[n] EXCEPT !.parent = par]
                    ELSE node[n]],
                  [Internal(SubSeq(keys, cut + 2, Len(keys)), moved)
                     EXCEPT !.locked = TRUE])
      /\ t' = [t EXCEPT ![p].pc = "bump", ![p].todo = <<t[p].left, t[p].right>>,
                        ![p].held = <<t[p].left, t[p].right>>, ![p].after = "parent",
                        ![p].left = par, ![p].right = sib, ![p].sep = keys[cut + 1]]
      /\ UNCHANGED <<root, size_est, opvars, scan>>

-----------------------------------------------------------------------------
(* The end of every change: version++ of the nodes held, then their unlock.  *)

Bump(p) ==
  LET todo == t[p].todo
  IN  /\ At(p, "bump")
      /\ node' = [node EXCEPT ![Head(todo)].version = @ + 1, ![Head(todo)].torn = FALSE]
      /\ t' = [t EXCEPT ![p].todo = Tail(todo),
                        ![p].pc = IF Len(todo) = 1 THEN "unlock" ELSE "bump"]
      /\ UNCHANGED <<root, size_est, opvars, scan>>

Unlock(p) ==
  LET held == t[p].held
  IN  /\ At(p, "unlock")
      /\ node' = [node EXCEPT ![Head(held)].locked = FALSE]
      /\ t' = [t EXCEPT ![p].held = Tail(held),
                        ![p].pc = IF Len(held) = 1 THEN t[p].after ELSE "unlock"]
      /\ UNCHANGED <<root, size_est, opvars, scan>>

\* size_est++
Count(p) ==
  /\ At(p, "count")
  /\ size_est' = size_est + 1
  /\ Goto(p, "done")
  /\ UNCHANGED <<node, root, opvars, scan>>

Step(p) ==
  \/ LoadRoot(p) \/ LoadRootVersion(p) \/ CheckRoot(p)
  \/ FindChild(p) \/ LoadChildVersion(p) \/ CheckChildLocked(p) \/ CheckChildVersion(p)
  \/ WalkVersion(p) \/ WalkNext(p)
  \/ ReadLeaf(p) \/ ScanLeaf(p) \/ CheckLocked(p) \/ CheckChanged(p)
  \/ ScanVersion(p) \/ Accept(p) \/ ScanAccept(p)
  \/ LockLeaf(p) \/ LockedStale(p)
  \/ WriteInPlace(p) \/ NotFound(p) \/ Overwrite(p) \/ Shift(p) \/ SplitLeaf(p)
  \/ LoadParent(p) \/ LockParent(p) \/ CheckParent(p)
  \/ NewRoot(p) \/ InsertParent(p) \/ SplitParent(p)
  \/ Bump(p) \/ Unlock(p) \/ Count(p) \/ Finish(p)

Next ==
  \/ \E p \in Procs : Start(p)
  \/ \E s \in Scanners : StartScan(s)
  \/ \E p \in Threads : Step(p)

Spec == Init /\ [][Next]_vars

\* A thread that can take a step takes one; none has to start an operation.
FairSpec == Spec /\ \A p \in Threads : WF_vars(Step(p))

-----------------------------------------------------------------------------
\* Leaves and internal nodes have the shape their kind calls for.
TypeOK ==
  /\ root \in DOMAIN node /\ size_est \in Nat
  /\ \A n \in DOMAIN node :
       /\ Len(node[n].keys) \in 1..Capacity
       /\ node[n].parent \in {Nil} \union (DOMAIN node \ Leaves)
       /\ IF node[n].leaf
          THEN /\ node[n].vals \in [DOMAIN node[n].keys -> Values \union {None}]
               /\ node[n].next \in {Nil} \union Leaves
          ELSE /\ Len(node[n].kids) = Len(node[n].keys) + 1
               /\ ToSet(node[n].kids) \subseteq DOMAIN node

\* Gets, inserts, updates and removes are linearizable: no get accepts a torn
\* leaf or one that a split has taken its key from, no writer changes the
\* wrong leaf.
Linearizable == Abs!AbsSpec

\* The leaf chain RefSource and scans follow visits all keys in ascending
\* order, each once, from `begin' on: assert(sib_ptr->keys[0] >
\* node_ptr->keys[node_ptr->key_n - 1]).
ChainSorted ==
  /\ \A n \in Leaves :
       /\ \A i \in 1..(Len(node[n].keys) - 1) : node[n].keys[i] < node[n].keys[i + 1]
       /\ node[n].next # Nil =>
            Last(node[n].keys) < Head(node[node[n].next].keys)
  /\ \A n \in Leaves \ {Begin} :
       Cardinality({l \in Leaves : node[l].next = n}) = 1

\* The separators divide the keys of the children, and every child names its
\* parent, so that a split climbs to the node it hangs from: the asserts at the
\* end of each branch of split_n_insert_leaf.
Separated ==
  \A n \in DOMAIN node \ Leaves : \A i \in DOMAIN node[n].kids :
    LET kid == node[node[n].kids[i]]
    IN  /\ kid.parent = n
        /\ i > 1 => Head(kid.keys) >= node[n].keys[i - 1]
        /\ i <= Len(node[n].keys) => Last(kid.keys) < node[n].keys[i]

\* Every leaf hangs in the tree once the splits are through, size_est counts
\* the records, and no node stays locked.
QuietTree ==
  (\A p \in Procs : At(p, "idle")) =>
     /\ \A n \in DOMAIN node :
          ~node[n].locked /\ ~node[n].torn /\ (node[n].parent = Nil <=> n = root)
     /\ size_est = Cardinality({k \in Keys : \E n \in Leaves : Holds(n, k)})

\* What a scan has returned so far is in ascending order, is from key_begin on,
\* was there at some moment of the scan, and leaves out no key that was there
\* all the time.
ScanExact ==
  \A s \in Scanners :
    LET out == scan[s].out
        ended == At(s, "done")
    IN  /\ \A i \in 1..(Len(out) - 1) : out[i].key < out[i + 1].key
        /\ \A i \in DOMAIN out : out[i].val \in scan[s].seen[out[i].key]
        /\ ~At(s, "idle") => \A i \in DOMAIN out : out[i].key >= t[s].from
        /\ \A k \in Keys :
             /\ ~At(s, "idle") /\ k >= t[s].from /\ None \notin scan[s].seen[k]
             /\ ended \/ (out # <<>> /\ k <= Last(out).key)
             => \E i \in DOMAIN out : out[i].key = k

\* Every operation and every scan ends: locks taken on the way up are all
\* released, and no validation fails for ever.
OperationsEnd == \A p \in Threads : ~At(p, "idle") ~> At(p, "idle")
=============================================================================
