----------------------------- MODULE LippHybrid ----------------------------
(***************************************************************************)
(* The LIPP-Hybrid index (lipphybrid/src/src/core/lipphybrid.h), used by one   *)
(* thread.  An exact node has a model and an array of items; the model gives   *)
(* the one slot where a key may be, and two keys with one slot go to a child.  *)
(* A compact leaf is a sorted array.  A node that has doubled, partly through *)
(* such conflicts, is rebuilt with everything below it.                      *)
(*                                                                         *)
(* A node is named by its path, the slots that lead to it from the root, so    *)
(* that tree is a function of paths.  Models: those of nodes with two keys are *)
(* computed as in the code; any other may be any monotone function of the keys *)
(* that does not put all keys of its node into one slot (one that did would     *)
(* make the build endless).  The pool of nodes with two keys is left out: nodes *)
(* taken from it are as new.                                                  *)
(***************************************************************************)
EXTENDS Integers, FiniteSets, SequencesExt

CONSTANTS
  Keys, Payloads, None,
  Slots,                            \* slots of a bulk loaded exact node
  compact_policy,                   \* "DISABLED", "FORCE" or "ADAPTIVE"
  COMPACT_LEAF_MAX_SIZE,
  COMPACT_LINEAR_SCAN_MAX_SIZE,
  COMPACT_SEGMENT_SCAN_MAX_SIZE,
  COMPACT_SEGMENT_SIZE,
  MinCapacity,                      \* of a compact leaf (8 in the code)
  CapacityFactor,                   \* slots of a new compact leaf per key (2)
  RebuildSize,                      \* the least size that is rebuilt (64)
  RebuildRatio,                     \* inserts per conflict, at most (10)
  MaxInserts                        \* bound on the inserts a root counts

VARIABLES
  tree,                             \* nodes by their paths
  ret                               \* the answer to the last call

vars == <<tree, ret>>

NoKey == -1
NoItem == [kind |-> "none", key |-> NoKey, value |-> None]
Child == [kind |-> "child", key |-> NoKey, value |-> None]
Data(key, value) == [kind |-> "data", key |-> key, value |-> value]

Root == <<>>

\* A set of keys in order.
InOrder(S) == [i \in 1 .. Cardinality(S) |->
                 CHOOSE x \in S : Cardinality({y \in S : y < x}) = i - 1]

-----------------------------------------------------------------------------
(* Nodes *)

Node(is_compact, size, num_items, predict, item) ==
  [is_compact |-> is_compact, build_size |-> size, size |-> size,
   num_inserts |-> 0, num_insert_to_data |-> 0,
   num_items |-> num_items, predict |-> predict, item |-> item]

build_tree_none == Node(FALSE, 0, 1, [k \in Keys |-> 0], [i \in {0} |-> NoItem])

\* Two keys: the model sends them to slots 2 and 5 of 8.
build_tree_two(a, b) ==
  LET low == IF a.key < b.key THEN a ELSE b
      high == IF a.key < b.key THEN b ELSE a
      Predicted(k) == 2 + (3 * (k - low.key)) \div (high.key - low.key)
      predict == [k \in Keys |-> Min({Max({Predicted(k), 0}), 7})]
  IN  Node(FALSE, 2, 8, predict,
           [i \in 0 .. 7 |-> CASE i = predict[low.key] -> low
                               [] i = predict[high.key] -> high
                               [] OTHER -> NoItem])

compact_leaf_capacity_for_size(size) == Max({MinCapacity, CapacityFactor * size})

init_compact_leaf(S) ==
  LET ks == InOrder(S) IN
  Node(TRUE, Len(ks), compact_leaf_capacity_for_size(Len(ks)), <<>>,
       [i \in 1 .. Len(ks) |-> Data(ks[i], None)])

\* What the policies may decide: the cost estimates can go either way.
should_use_compact_leaf(size) ==
  IF size > COMPACT_LEAF_MAX_SIZE THEN {FALSE}
  ELSE CASE compact_policy = "FORCE" -> {TRUE}
         [] compact_policy = "ADAPTIVE" -> IF size < 3 THEN {FALSE} ELSE BOOLEAN
         [] OTHER -> {FALSE}

-----------------------------------------------------------------------------
(* Bulk build *)

ModelsInAnyOrder(S) ==
  {f \in [Keys -> 0 .. (Slots - 1)] : \E j, k \in S : f[j] # f[k]}

\* The models of a node with these keys, whatever kernel they use.
Models(S) ==
  {f \in [Keys -> 0 .. (Slots - 1)] :
     /\ \A j, k \in Keys : j < k => f[j] <= f[k]
     /\ \E j, k \in S : f[j] # f[k]}

Bucket(S, predict, i) == {k \in S : predict[k] = i}

\* A node with single keys in its slots and children for the crowded ones.
Joined(S, predict, below) ==
  LET Single(i) == CHOOSE k \in Keys : Bucket(S, predict, i) = {k}
      node == Node(FALSE, Cardinality(S), Slots, predict,
                   [i \in 0 .. (Slots - 1) |->
                      CASE i \in DOMAIN below -> Child
                        [] Bucket(S, predict, i) = {} -> NoItem
                        [] OTHER -> Data(Single(i), None)])
      paths == UNION {{<<i>> \o p : p \in DOMAIN below[i]} : i \in DOMAIN below}
  IN  [p \in {Root} \union paths |-> IF p = Root THEN node ELSE below[Head(p)][Tail(p)]]

\* The trees that build_tree_bulk may make of two or more keys, without payloads.
build_tree_bulk[S \in SUBSET Keys] ==
  LET compact == should_use_compact_leaf(Cardinality(S))
      Leaf(node) == [p \in {Root} |-> node]
      Crowded(f) == {i \in 0 .. (Slots - 1) : Cardinality(Bucket(S, f, i)) > 1}
      Below(f) == {g \in [Crowded(f) -> UNION {build_tree_bulk[Bucket(S, f, i)] : i \in Crowded(f)}] :
                     \A i \in Crowded(f) : g[i] \in build_tree_bulk[Bucket(S, f, i)]}
      Exact == IF Cardinality(S) = 2
               THEN {Leaf(build_tree_two(Data(InOrder(S)[1], None), Data(InOrder(S)[2], None)))}
               ELSE UNION {{Joined(S, f, g) : g \in Below(f)} : f \in Models(S)}
  IN  (IF TRUE \in compact THEN {Leaf(init_compact_leaf(S))} ELSE {})
        \union (IF FALSE \in compact THEN Exact ELSE {})

Trees == [S \in {S \in SUBSET Keys : Cardinality(S) > 1} |-> build_tree_bulk[S]]

WithPayloads(t, payload) ==
  [p \in DOMAIN t |->
     [t[p] EXCEPT !.item = [i \in DOMAIN @ |->
        IF @[i].kind = "data" THEN Data(@[i].key, payload[@[i].key]) ELSE @[i]]]]

-----------------------------------------------------------------------------
(* Searches and scans *)

\* The first of items b .. e - 1 that is not below key, or e.
First(n, key, b, e) == Min({i \in b .. (e - 1) : n.item[i + 1].key >= key} \union {e})

\* Linear, by segments, or binary, according to the size.
compact_lower_bound(n, key) ==
  LET size == Len(n.item)
      Segment[b \in 0 .. size] ==
        IF b = size THEN size
        ELSE LET e == Min({size, b + COMPACT_SEGMENT_SIZE}) IN
             IF n.item[e].key >= key THEN First(n, key, b, e) ELSE Segment[e]
      Binary[l \in 0 .. size, r \in 0 .. size] ==
        IF l >= r THEN l
        ELSE LET m == l + (r - l) \div 2 IN
             IF n.item[m + 1].key < key THEN Binary[m + 1, r] ELSE Binary[l, m]
  IN  CASE size <= COMPACT_LINEAR_SCAN_MAX_SIZE -> First(n, key, 0, size)
        [] size > COMPACT_LINEAR_SCAN_MAX_SIZE /\ size <= COMPACT_SEGMENT_SCAN_MAX_SIZE -> Segment[0]
        [] OTHER -> Binary[0, size]

\* The path to the node where the search for a key ends.
PathTo(t, key) ==
  LET down[p \in DOMAIN t] ==
        IF ~t[p].is_compact /\ t[p].item[t[p].predict[key]].kind = "child"
        THEN down[Append(p, t[p].predict[key])] ELSE p
  IN  down[Root]

\* The index of the key, or of its place, in the node where its search ends.
Place(n, key) == IF n.is_compact THEN compact_lower_bound(n, key) + 1 ELSE n.predict[key]

\* What the search for the key finds there.
Item(n, key) ==
  IF Place(n, key) \in DOMAIN n.item THEN n.item[Place(n, key)] ELSE NoItem

\* All records below each node, in the order a scan gives them.
Records(t) ==
  LET all[p \in DOMAIN t] ==
        IF t[p].is_compact THEN t[p].item
        ELSE FlattenSeq([i \in 1 .. t[p].num_items |->
               LET item == t[p].item[i - 1] IN
               CASE item.kind = "none" -> <<>>
                 [] item.kind = "data" -> <<item>>
                 [] item.kind = "child" -> all[Append(p, i - 1)]])
  IN  all

\* range_query_len without its limit: from the slot of the lower bound on.
RecordsFrom(t, lower) ==
  LET from[p \in DOMAIN t] ==
        LET n == t[p]
            pos == n.predict[lower]
            At(i) == CASE n.item[i].kind = "none" -> <<>>
                       [] n.item[i].kind = "data" ->
                            IF i > pos \/ n.item[i].key >= lower THEN <<n.item[i]>> ELSE <<>>
                       [] n.item[i].kind = "child" ->
                            IF i > pos THEN Records(t)[Append(p, i)] ELSE from[Append(p, i)]
        IN  IF n.is_compact
            THEN SubSeq(n.item, compact_lower_bound(n, lower) + 1, Len(n.item))
            ELSE FlattenSeq([j \in 1 .. (n.num_items - pos) |-> At(pos + j - 1)])
  IN  from[Root]

\* The records in the tree, wherever they are.
Contents(t) ==
  LET found == ToSet(Records(t)[Root]) IN
  [k \in Keys |-> IF \E r \in found : r.key = k
                  THEN (CHOOSE r \in found : r.key = k).value ELSE None]

Abs == INSTANCE OrderedMap WITH map <- Contents(tree)

-----------------------------------------------------------------------------
(* insert *)

\* The nodes on the way to p, which is among them.
Path(p) == {SubSeq(p, 1, i) : i \in 0 .. Len(p)}

ResizedNodeOnly(t, p, change) == [t EXCEPT ![p].size = @ + change]

Resized(t, p, change) ==
  [q \in DOMAIN t |-> IF q \in Path(p) THEN [t[q] EXCEPT !.size = @ + change] ELSE t[q]]

Counted(t, p, conflict) ==
  [q \in DOMAIN t |-> IF q \in Path(p)
                      THEN [t[q] EXCEPT !.num_inserts = @ + 1, !.num_insert_to_data = @ + conflict]
                      ELSE t[q]]

WithoutNodeOnly(t, p) == [q \in DOMAIN t \ {p} |-> t[q]]

\* t without the node at p and those below it.
Without(t, p) == [q \in {q \in DOMAIN t : p \notin Path(q)} |-> t[q]]

\* t with the tree s at path p.
Grafted(t, p, s) ==
  LET rest == Without(t, p)
      new == {p \o q : q \in DOMAIN s}
  IN  [q \in DOMAIN rest \union new |->
         IF q \in new THEN s[SubSeq(q, Len(p) + 1, Len(q))] ELSE rest[q]]

need_rebuild(n) ==
  /\ n.size >= 2 * n.build_size
  /\ n.size >= RebuildSize
  /\ n.num_insert_to_data * RebuildRatio >= n.num_inserts

\* The topmost node on the path that needs it is rebuilt from its records.
Rebuilt(t, p) ==
  LET due == {q \in Path(p) : need_rebuild(t[q])}
      top == CHOOSE q \in due : \A r \in due : Len(q) <= Len(r)
      records == ToSet(Records(t)[top])
      payload == [k \in {r.key : r \in records} |-> (CHOOSE r \in records : r.key = k).value]
  IN  IF due = {} THEN {t}
      ELSE {Grafted(t, top, WithPayloads(s, payload)) : s \in Trees[DOMAIN payload]}

\* The trees after a key that was not there has been put at its place.
Inserted(t, p, key, value) ==
  LET n == t[p]
      i == Place(n, key)
      larger == Resized(Counted(t, p, 0), p, 1)
  IN
  CASE n.is_compact ->
         Rebuilt([larger EXCEPT
                    ![p].item = InsertAt(@, i, Data(key, value)),
                    ![p].num_items = IF n.size + 1 > @ THEN Max({2 * @, n.size + 1}) ELSE @], p)
    [] ~n.is_compact /\ n.item[i].kind = "none" ->
         Rebuilt([larger EXCEPT ![p].item[i] = Data(key, value)], p)
    [] OTHER ->
         Rebuilt(Grafted([Resized(Counted(t, p, 1), p, 1) EXCEPT ![p].item[i] = Child],
                         Append(p, i),
                         [q \in {Root} |-> build_tree_two(Data(key, value), n.item[i])]), p)

\* A key that is there already is overwritten in a compact leaf, and ends the
\* process in an exact slot.
insert(key, value) ==
  LET call == <<"insert", key, value>>
      p == PathTo(tree, key)
      n == tree[p]
      i == Place(n, key)
  IN
  IF Item(n, key).key # key
  THEN tree' \in Inserted(tree, p, key, value) /\ ret' = Abs!Answer(call, TRUE, None)
  ELSE IF n.is_compact
  THEN /\ tree' = [Counted(tree, p, 0) EXCEPT ![p].item[i] = Data(key, value)]
       /\ ret' = Abs!Answer(call, FALSE, None)
  ELSE UNCHANGED tree /\ ret' = Abs!Exit(call)

-----------------------------------------------------------------------------
(* at, update, remove *)

at(key) ==
  LET call == <<"get", key>>
      n == tree[PathTo(tree, key)]
      item == Item(n, key)
  IN
  /\ UNCHANGED tree
  /\ ret' = CASE item.key = key -> Abs!Answer(call, TRUE, item.value)
              [] item.key # key /\ ~n.is_compact /\ item.kind = "data" -> Abs!Exit(call)
              [] OTHER -> Abs!Answer(call, FALSE, None)

\* In an exact slot the key is not compared.
Hit(n, key) ==
  LET item == Item(n, key) IN item.kind = "data" /\ (n.is_compact => item.key = key)

update(key, value) ==
  LET p == PathTo(tree, key) IN
  /\ tree' = IF Hit(tree[p], key)
             THEN [tree EXCEPT ![p].item[Place(tree[p], key)].value = value] ELSE tree
  /\ ret' = Abs!Answer(<<"update", key, value>>, Hit(tree[p], key), None)

\* An exact node that is left without keys is freed, with its parent's item; the
\* root has no parent.  An empty compact leaf stays.
remove(key) ==
  LET call == <<"erase", key>>
      p == PathTo(tree, key)
      n == tree[p]
      smaller == Resized(tree, p, -1)
      emptied == ~n.is_compact /\ n.size = 1
  IN
  IF Hit(n, key) /\ emptied /\ p = Root THEN UNCHANGED tree /\ ret' = Abs!Exit(call)
  ELSE /\ tree' = CASE ~Hit(n, key) -> tree
                   [] Hit(n, key) /\ n.is_compact ->
                        [smaller EXCEPT ![p].item = RemoveAt(@, Place(n, key))]
                   [] Hit(n, key) /\ emptied ->
                        [Without(smaller, p) EXCEPT ![Front(p)].item[Last(p)] = NoItem]
                   [] OTHER -> [smaller EXCEPT ![p].item[n.predict[key]] = NoItem]
       /\ ret' = Abs!Answer(call, Hit(n, key), None)

-----------------------------------------------------------------------------
\* The constructor's tree, after bulk_load of some keys.
Init ==
  /\ \E S \in SUBSET Keys :
       LET payload == [k \in S |-> CHOOSE v \in Payloads[k] : TRUE]
           none == [p \in {Root} |-> build_tree_none]
           k == CHOOSE k \in S : TRUE
       IN  CASE S = {} -> tree = none
             [] Cardinality(S) = 1 -> tree \in Inserted(none, Root, k, payload[k])
             [] Cardinality(S) = 2 ->
                  tree = [p \in {Root} |-> build_tree_two(Data(InOrder(S)[1], payload[InOrder(S)[1]]),
                                                         Data(InOrder(S)[2], payload[InOrder(S)[2]]))]
             [] OTHER -> \E s \in Trees[S] : tree = WithPayloads(s, payload)
  /\ ret = Abs!NoCall

\* The search for the key ends at it.
Present(key) == Item(tree[PathTo(tree, key)], key).key = key

Call ==
  \E key \in Keys :
    \/ /\ tree[Root].num_inserts < MaxInserts
       /\ \E value \in Payloads[key] : insert(key, value)
    \/ at(key) \/ remove(key) \/ \E value \in Payloads[key] : update(key, value)

Return == ret' = Abs!NoCall /\ UNCHANGED tree

Next ==
  \/ ret = Abs!NoCall /\ Call
  \/ ret.ok \in {"yes", "no"} /\ Return
  \/ ret.ok = "exit" /\ UNCHANGED vars

Spec == Init /\ [][Next]_vars
-----------------------------------------------------------------------------
\* Paths lead to nodes through child items, and nodes are well formed.
TypeOK ==
  /\ Root \in DOMAIN tree
  /\ \A p \in DOMAIN tree \ {Root} :
       Front(p) \in DOMAIN tree /\ tree[Front(p)].item[Last(p)] = Child
  /\ \A p \in DOMAIN tree : LET n == tree[p] IN
       /\ n.size \in Nat /\ n.build_size \in Nat
       /\ n.is_compact => n.item \in Seq({Data(k, v) : k \in Keys, v \in UNION {Payloads[j] : j \in Keys}})
       /\ ~n.is_compact => /\ DOMAIN n.item = 0 .. (n.num_items - 1)
                           /\ \A i \in DOMAIN n.item :
                                (n.item[i].kind = "child") <=> Append(p, i) \in DOMAIN tree

\* What verify asserts: sizes add up, and compact leaves are sorted and within
\* their arrays.
Verify ==
  \A p \in DOMAIN tree :
    LET n == tree[p] IN
    IF n.is_compact
    THEN /\ n.size = Len(n.item) /\ n.size <= n.num_items
         /\ \A i \in 2 .. n.size : n.item[i - 1].key < n.item[i].key
    ELSE n.size = MapThenSumSet(LAMBDA i : CASE n.item[i].kind = "none" -> 0
                                             [] n.item[i].kind = "data" -> 1
                                             [] n.item[i].kind = "child" -> tree[Append(p, i)].size,
                                DOMAIN n.item)

\* A range query gives the keys from its lower bound on, in order, each once.
ScanExact ==
  \A lower \in Keys :
    LET found == RecordsFrom(tree, lower) IN
    [i \in 1 .. Len(found) |-> found[i].key] = InOrder({k \in Keys : k >= lower /\ Present(k)})
=============================================================================
