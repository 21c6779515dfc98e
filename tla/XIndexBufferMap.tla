--------------------------- MODULE XIndexBufferMap ---------------------------
(***************************************************************************)
(* The insert buffer is a map, for any number of threads, operations and    *)
(* keys and any node capacity.  Each key is in the one leaf whose range it  *)
(* is in, so that leaf alone tells its value; what a reader has read of a    *)
(* leaf that did not change meanwhile is a value the key had during the     *)
(* call; and a writer changes the value of its key at one moment.  A scan    *)
(* has returned what is before the leaf it is at, whose first key never      *)
(* changes.                                                                *)
(***************************************************************************)
EXTENDS XIndexBufferOrder

-----------------------------------------------------------------------------
(* Which values the keys have                                               *)

\* A key and its value, in the sequences of a leaf and in the tree.
Paired(ks, vs, k, v) == \E i \in DOMAIN ks : ks[i] = k /\ vs[i] = v
Entry(k, v) == \E n \in Leaves : Paired(node[n].keys, node[n].vals, k, v)

\* all and allv are ks and vs with k and v at slot i.
PairInserted(ks, vs, i, k, v, all, allv) ==
  /\ ks \in Seq(Keys) /\ vs \in Seq(Maybe) /\ Len(ks) = Len(vs) /\ i \in 1..(Len(ks) + 1)
  /\ Inserted(Keys, ks, i, k, all) /\ Inserted(Maybe, vs, i, v, allv)

LEMMA PairsInserted ==
  ASSUME NEW ks, NEW vs, NEW i, NEW k, NEW v, NEW all, NEW allv,
         PairInserted(ks, vs, i, k, v, all, allv)
  PROVE  /\ Paired(all, allv, k, v)
         /\ \A x, w : x # k => (Paired(all, allv, x, w) <=> Paired(ks, vs, x, w))
<1>1. /\ DOMAIN ks = 1..Len(ks) /\ DOMAIN vs = 1..Len(ks) /\ DOMAIN all = 1..(Len(ks) + 1)
      /\ Len(ks) \in Nat /\ i \in Nat
  BY DEF PairInserted, Inserted
<1>2. /\ all[i] = k /\ allv[i] = v
      /\ \A j \in 1..(i - 1) : all[j] = ks[j] /\ allv[j] = vs[j]
      /\ \A j \in (i + 1)..(Len(ks) + 1) : all[j] = ks[j - 1] /\ allv[j] = vs[j - 1]
  BY DEF PairInserted, Inserted
<1>a. i \in 1..(Len(ks) + 1) /\ i >= 1 /\ i <= Len(ks) + 1
  BY <1>1 DEF PairInserted
<1>3. Paired(all, allv, k, v)
  <2>1. i \in DOMAIN all
    BY <1>1, <1>a
  <2>2. QED
    BY <1>2, <2>1 DEF Paired
<1>4. ASSUME NEW x, NEW w, x # k, NEW j \in DOMAIN all, all[j] = x, allv[j] = w
      PROVE  \E m \in DOMAIN ks : ks[m] = x /\ vs[m] = w
  <2>1. j # i /\ j \in Nat /\ j >= 1 /\ j <= Len(ks) + 1
    BY <1>1, <1>2, <1>4
  <2>2. CASE j < i
    <3>1. j \in 1..(i - 1) /\ j \in DOMAIN ks
      BY <1>1, <1>a, <2>1, <2>2
    <3>2. QED
      BY <1>2, <1>4, <3>1
  <2>3. CASE j > i
    <3>1. j \in (i + 1)..(Len(ks) + 1) /\ j - 1 \in DOMAIN ks
      BY <1>1, <1>a, <2>1, <2>3
    <3>2. QED
      BY <1>2, <1>4, <3>1
  <2>4. QED
    BY <1>1, <2>1, <2>2, <2>3
<1>5. ASSUME NEW x, NEW w, NEW m \in DOMAIN ks, ks[m] = x, vs[m] = w
      PROVE  \E j \in DOMAIN all : all[j] = x /\ allv[j] = w
  <2>1. m \in Nat
    BY <1>1
  <2>2. CASE m < i
    <3>1. m \in 1..(i - 1) /\ m \in DOMAIN all
      BY <1>1, <2>1, <2>2
    <3>2. QED
      BY <1>2, <1>5, <3>1
  <2>3. CASE m >= i
    <3>1. m + 1 \in (i + 1)..(Len(ks) + 1) /\ m + 1 \in DOMAIN all /\ (m + 1) - 1 = m
      BY <1>1, <2>1, <2>3
    <3>2. all[m + 1] = ks[m] /\ allv[m + 1] = vs[m]
      BY <1>2, <3>1
    <3>3. QED
      BY <1>5, <3>1, <3>2
  <2>4. QED
    BY <1>1, <2>1, <2>2, <2>3
<1>6. QED
  BY <1>3, <1>4, <1>5 DEF Paired

\* a and d are the first c of s and u, and b and e the others.
PairCut(s, u, c, a, b, d, e) ==
  /\ s \in Seq(Keys) /\ u \in Seq(Maybe) /\ Len(s) = Len(u) /\ c \in 1..Len(s)
  /\ CutAt(Keys, s, c, a, b) /\ CutAt(Maybe, u, c, d, e)

LEMMA PairsCut ==
  ASSUME NEW s, NEW u, NEW c, NEW a, NEW b, NEW d, NEW e, PairCut(s, u, c, a, b, d, e)
  PROVE  \A x, w : Paired(s, u, x, w) <=> Paired(a, d, x, w) \/ Paired(b, e, x, w)
<1>1. /\ DOMAIN s = 1..Len(s) /\ DOMAIN a = 1..c /\ DOMAIN b = 1..(Len(s) - c)
      /\ Len(s) \in Nat /\ c \in Nat /\ c <= Len(s)
  BY DEF PairCut, CutAt
<1>2. /\ \A j \in 1..c : a[j] = s[j] /\ d[j] = u[j]
      /\ \A j \in 1..(Len(s) - c) : b[j] = s[c + j] /\ e[j] = u[c + j]
  BY DEF PairCut, CutAt
<1>3. ASSUME NEW x, NEW w, NEW i \in DOMAIN s, s[i] = x, u[i] = w
      PROVE  Paired(a, d, x, w) \/ Paired(b, e, x, w)
  <2>1. i \in Nat
    BY <1>1
  <2>2. CASE i <= c
    <3>1. i \in 1..c
      BY <1>1, <2>1, <2>2
    <3>2. QED
      BY <1>1, <1>2, <1>3, <3>1 DEF Paired
  <2>3. CASE i > c
    <3>1. i - c \in 1..(Len(s) - c) /\ c + (i - c) = i
      BY <1>1, <2>1, <2>3
    <3>2. b[i - c] = s[i] /\ e[i - c] = u[i]
      BY <1>2, <3>1
    <3>3. QED
      BY <1>1, <1>3, <3>1, <3>2 DEF Paired
  <2>4. QED
    BY <1>1, <2>1, <2>2, <2>3
<1>4. ASSUME NEW x, NEW w, Paired(a, d, x, w) PROVE Paired(s, u, x, w)
  <2>1. PICK i \in 1..c : a[i] = x /\ d[i] = w
    BY <1>1, <1>4 DEF Paired
  <2>2. i \in DOMAIN s
    BY <1>1
  <2>3. QED
    BY <1>2, <2>1, <2>2 DEF Paired
<1>5. ASSUME NEW x, NEW w, Paired(b, e, x, w) PROVE Paired(s, u, x, w)
  <2>1. PICK i \in 1..(Len(s) - c) : b[i] = x /\ e[i] = w
    BY <1>1, <1>5 DEF Paired
  <2>2. c + i \in DOMAIN s
    BY <1>1
  <2>3. QED
    BY <1>2, <2>1, <2>2 DEF Paired
<1>6. QED
  BY <1>3, <1>4, <1>5 DEF Paired

\* us is vs with v at slot i, which is that of k.
PairWritten(ks, vs, i, k, v, us) ==
  /\ i \in DOMAIN ks /\ ks[i] = k /\ us[i] = v
  /\ \A j \in DOMAIN ks : j # i => us[j] = vs[j]

LEMMA PairsWritten ==
  ASSUME NEW ks, NEW vs, NEW i, NEW k, NEW v, NEW us, PairWritten(ks, vs, i, k, v, us)
  PROVE  /\ Paired(ks, us, k, v)
         /\ \A x, w : x # k => (Paired(ks, us, x, w) <=> Paired(ks, vs, x, w))
  BY DEF Paired, PairWritten

\* A key is at its slot.
LEMMA SlotOf ==
  ASSUME TreeOK, NEW n \in Leaves, Sorted(node[n].keys), NEW i \in DOMAIN node[n].keys,
         NEW k, k = node[n].keys[i]
  PROVE  Slot(n, k) + 1 = i /\ ValueIn(n, k) = node[n].vals[i] /\ Holds(n, k) /\ k \in Nat
<1>1. PICK s : s = node[n].keys
  OBVIOUS
<1>2. s \in Seq(Keys)
  BY <1>1, LeafNext, LeafFacts
<1>3. s \in Seq(Nat) /\ DOMAIN s = 1..Len(s) /\ Len(s) \in Nat /\ \A j \in DOMAIN s : s[j] \in Nat
  BY <1>2, KeySeq
<1>4. SlotsAt(s, k) /\ k \in Nat
  BY <1>1, <1>3, SlotIs
<1>5. PICK m : m = SlotLess(s, k)
  OBVIOUS
<1>6. m \in 0..Len(s) /\ \A j \in DOMAIN s : s[j] < k <=> j <= m
  BY <1>4, <1>5 DEF SlotsAt
<1>7. m \in Nat /\ i \in Nat /\ i >= 1 /\ i <= Len(s)
  BY <1>1, <1>3, <1>6
<1>8. i > m
  <2>1. ~(s[i] < k)
    BY <1>1, <1>3
  <2>2. QED
    BY <1>1, <1>6, <1>7, <2>1
<1>9. m >= i - 1
  <2>1. CASE i = 1
    BY <1>7, <2>1
  <2>2. CASE i > 1
    <3>1. i - 1 \in DOMAIN s /\ i - 1 < i
      BY <1>3, <1>7, <2>2
    <3>2. s[i - 1] < k
      BY <1>1, <3>1 DEF Sorted
    <3>3. QED
      BY <1>6, <3>1, <3>2
  <2>3. QED
    BY <1>7, <2>1, <2>2
<1>10. m + 1 = i
  BY <1>7, <1>8, <1>9
<1>11. Slot(n, k) = m
  BY <1>1, <1>5 DEF Slot, SlotLess
<1>12. Holds(n, k)
  BY DEF Holds
<1>13. QED
  BY <1>4, <1>10, <1>11, <1>12 DEF ValueIn

\* No two leaves hold the same key.
LEMMA HolderIs ==
  ASSUME Core, NEW R, RangesOK(R), NEW n \in Leaves, NEW k, Holds(n, k)
  PROVE  Logical(k) = ValueIn(n, k)
<1>1. \A m \in Leaves : Holds(m, k) => m = n
  <2> SUFFICES ASSUME NEW m \in Leaves, Holds(m, k), m # n PROVE FALSE
    OBVIOUS
  <2>1. m \in DOMAIN node /\ n \in DOMAIN node
    BY DEF Leaves
  <2>2. k \in R[m] /\ k \in R[n]
    BY <2>1 DEF RangesOK, KeysIn, Holds
  <2>3. QED
    BY <2>2 DEF RangesOK, LeavesDivide
<1>2. {m \in Leaves : Holds(m, k)} = {n}
  BY <1>1
<1>3. (CHOOSE m \in {n} : TRUE) = n /\ {n} # {}
  OBVIOUS
<1>4. QED
  BY <1>2, <1>3 DEF Logical

\* The leaf for a key tells whether there is one.
LEMMA LogicalIs ==
  ASSUME Core, NEW R, RangesOK(R), NEW n \in Leaves, NEW k \in R[n], k \in Nat
  PROVE  Logical(k) = ValueIn(n, k)
<1>1. CASE Holds(n, k)
  BY <1>1, HolderIs
<1>2. CASE ~Holds(n, k)
  <2>1. ASSUME NEW m \in Leaves, Holds(m, k) PROVE FALSE
    <3>1. m # n /\ m \in DOMAIN node
      BY <1>2, <2>1 DEF Leaves
    <3>2. k \in R[m]
      BY <2>1, <3>1 DEF RangesOK, KeysIn, Holds
    <3>3. QED
      BY <3>1, <3>2 DEF RangesOK, LeavesDivide
  <2>2. {m \in Leaves : Holds(m, k)} = {}
    BY <2>1
  <2>3. QED
    BY <1>2, <2>2 DEF Logical, ValueIn
<1>3. QED
  BY <1>1, <1>2

LEMMA EntryIs ==
  ASSUME Core, Ordered, NEW k, NEW v, Entry(k, v)
  PROVE  Logical(k) = v
<1>1. PICK R : Known(R)
  BY DEF Ordered
<1>2. PICK n \in Leaves : Paired(node[n].keys, node[n].vals, k, v)
  BY DEF Entry
<1>3. PICK i \in DOMAIN node[n].keys : node[n].keys[i] = k /\ node[n].vals[i] = v
  BY <1>2 DEF Paired
<1>4. TreeOK /\ Sorted(node[n].keys) /\ RangesOK(R)
  BY <1>1 DEF Core, TypesOK, Ordered, ChainOK, Known, Leaves
<1>5. ValueIn(n, k) = v /\ Holds(n, k)
  BY <1>3, <1>4, SlotOf
<1>6. QED
  BY <1>4, <1>5, HolderIs

LEMMA NoEntry ==
  ASSUME NEW k, \A v : ~Entry(k, v)
  PROVE  Logical(k) = None
<1>1. {n \in Leaves : Holds(n, k)} = {}
  BY DEF Entry, Paired, Holds
<1>2. QED
  BY <1>1 DEF Logical

\* The entries of the leaves are the map.
EntriesTell ==
  /\ \A k, v : Entry(k, v) => Logical(k) = v
  /\ \A k : (\A v : ~Entry(k, v)) => Logical(k) = None

LEMMA EntriesAre == Core /\ Ordered => EntriesTell
  BY EntryIs, NoEntry DEF EntriesTell

\* A step gives k the value v, and other keys keep theirs.
Mapped(k, v) == \A x \in Keys : Logical(x)' = IF x = k THEN v ELSE Logical(x)

LEMMA MappedIf ==
  ASSUME Core, Ordered, Core', Ordered', NEW k, NEW v, Entry(k, v)',
         \A w : \A x \in Keys : x # k => (Entry(x, w)' <=> Entry(x, w))
  PROVE  Mapped(k, v)
<1>1. EntriesTell
  BY EntriesAre
<1>2. (Core /\ Ordered => EntriesTell)'
  BY EntriesAre, PTL
<1>3. EntriesTell'
  BY <1>2
<1>4. Logical(k)' = v
  BY <1>3 DEF EntriesTell
<1>5. ASSUME NEW x \in Keys, x # k PROVE Logical(x)' = Logical(x)
  <2>1. CASE \E w : Entry(x, w)
    <3>1. PICK w : Entry(x, w)
      BY <2>1
    <3>2. Entry(x, w)'
      BY <1>5, <3>1
    <3>3. QED
      BY <1>1, <1>3, <3>1, <3>2 DEF EntriesTell
  <2>2. CASE \A w : ~Entry(x, w)
    <3>1. \A w : ~Entry(x, w)'
      BY <1>5, <2>2
    <3>2. QED
      BY <1>1, <1>3, <2>2, <3>1 DEF EntriesTell
  <2>3. QED
    BY <2>1, <2>2
<1>6. QED
  BY <1>4, <1>5 DEF Mapped

LEMMA SameLogical ==
  ASSUME LeavesSame, NEW k
  PROVE  Logical(k)' = Logical(k)
<1>1. Leaves' = Leaves /\ \A n \in Leaves : node'[n].keys = node[n].keys /\ node'[n].vals = node[n].vals
  BY DEF LeavesSame
<1>2. \A n \in Leaves : (Holds(n, k)' <=> Holds(n, k)) /\ ValueIn(n, k)' = ValueIn(n, k)
  BY <1>1 DEF Holds, ValueIn, Slot
<1>3. PICK in : in = {n \in Leaves : Holds(n, k)}
  OBVIOUS
<1>4. {n \in Leaves : Holds(n, k)}' = in
  BY <1>1, <1>2, <1>3
<1>5. CASE in = {}
  BY <1>3, <1>4, <1>5 DEF Logical
<1>6. CASE in # {}
  <2>1. PICK c : c = CHOOSE n \in in : TRUE
    OBVIOUS
  <2>2. c \in in
    BY <1>6, <2>1
  <2>3. Logical(k) = ValueIn(c, k) /\ Logical(k)' = ValueIn(c, k)'
    BY <1>3, <1>4, <1>6, <2>1 DEF Logical
  <2>4. QED
    BY <1>2, <1>3, <2>2, <2>3
<1>7. QED
  BY <1>5, <1>6

LEMMA WriteMapped ==
  ASSUME Core, Ordered, Core', Ordered', NEW p \in Threads, WriteInPlace(p) \/ Overwrite(p)
  PROVE  Mapped(op[p].key, Abs!Result(op[p]))
<1>0. TreeOK
  BY DEF Core, TypesOK
<1>1. PICK n, k, v, i : /\ n = t[p].cur /\ k = op[p].key /\ v = Abs!Result(op[p])
                        /\ i = Slot(n, k) + 1
  OBVIOUS
<1>2. t[p].pc = "act" /\ Holds(n, k) /\ i \in DOMAIN node[n].vals /\ \E b : WriteEffect(n, i, v, b)
  BY <1>1, WriteInPlaceFacts, OverwriteFacts
<1>3. n \in DOMAIN node /\ node[n].leaf /\ n \in Leaves
  BY <1>1, <1>2, ActFacts DEF Leaves
<1>4. /\ DOMAIN node' = DOMAIN node /\ \A m \in DOMAIN node : m # n => node'[m] = node[m]
      /\ node'[n].leaf = node[n].leaf /\ node'[n].keys = node[n].keys
      /\ node'[n].vals = [node[n].vals EXCEPT ![i] = v]
  BY <1>2 DEF WriteEffect, SameTree
<1>5. i \in DOMAIN node[n].keys /\ node[n].keys[i] = k
  <2>1. PICK j \in DOMAIN node[n].keys : node[n].keys[j] = k
    BY <1>2 DEF Holds
  <2>2. Sorted(node[n].keys)
    BY <1>3 DEF Ordered, ChainOK
  <2>3. i = j
    BY <1>0, <1>1, <1>3, <2>1, <2>2, SlotOf
  <2>4. QED
    BY <2>1, <2>3
<1>6. node'[n].vals[i] = v /\ \A j \in DOMAIN node[n].keys : j # i => node'[n].vals[j] = node[n].vals[j]
  <2>1. DOMAIN node[n].vals = DOMAIN node[n].keys
    BY <1>0, <1>3, LeafFacts
  <2>2. QED
    BY <1>2, <1>4, <2>1
<1>7. /\ Paired(node'[n].keys, node'[n].vals, k, v)
      /\ \A x, w : x # k => (Paired(node'[n].keys, node'[n].vals, x, w) <=> Paired(node[n].keys, node[n].vals, x, w))
  <2>1. PairWritten(node[n].keys, node[n].vals, i, k, v, node'[n].vals)
    BY <1>5, <1>6 DEF PairWritten
  <2>2. QED
    BY <1>4, <2>1, PairsWritten
<1>8. Leaves' = Leaves /\ Leaves \subseteq DOMAIN node
  BY <1>4 DEF Leaves
<1>9. Entry(k, v)'
  BY <1>3, <1>7, <1>8 DEF Entry
<1>10. ASSUME NEW x \in Keys, NEW w, x # k PROVE Entry(x, w)' <=> Entry(x, w)
  <2>1. \A m \in Leaves : Paired(node'[m].keys, node'[m].vals, x, w) <=> Paired(node[m].keys, node[m].vals, x, w)
    BY <1>4, <1>7, <1>8, <1>10
  <2>2. QED
    BY <1>8, <2>1 DEF Entry
<1>11. Mapped(k, v)
  BY <1>9, <1>10, MappedIf
<1>12. QED
  BY <1>1, <1>11

LEMMA ShiftMapped ==
  ASSUME Core, Ordered, Core', Ordered', NEW p \in Threads, Shift(p)
  PROVE  Mapped(op[p].key, Abs!Result(op[p]))
<1>0. TreeOK
  BY DEF Core, TypesOK
<1>1. PICK n, k, v, i : n = t[p].cur /\ k = op[p].key /\ v = op[p].val /\ i = Slot(n, k) + 1
  OBVIOUS
<1>2. t[p].pc = "act" /\ op[p].kind = "put" /\ ShiftEffect(n, i, k, v)
  BY <1>1, ShiftFacts
<1>3. /\ n \in DOMAIN node /\ node[n].leaf /\ n \in Leaves /\ k \in Keys /\ k \in Nat /\ v \in Maybe
      /\ Abs!Result(op[p]) = v
  BY <1>1, <1>2, ActFacts DEF Leaves
<1>4. PICK ks, vs : ks = node[n].keys /\ vs = node[n].vals
  OBVIOUS
<1>5. PICK all, allv : all = InsertAt(ks, i, k) /\ allv = InsertAt(vs, i, v)
  OBVIOUS
<1>6. /\ ks \in Seq(Keys) /\ vs \in Seq(Maybe) /\ Len(ks) = Len(vs) /\ i \in 1..(Len(ks) + 1)
  <2>1. i \in 1..(Len(ks) + 1)
    BY <1>0, <1>1, <1>3, <1>4, InsertTypes
  <2>2. QED
    BY <1>0, <1>3, <1>4, <2>1, LeafFacts
<1>7. Inserted(Keys, ks, i, k, all) /\ Inserted(Maybe, vs, i, v, allv)
  BY <1>3, <1>5, <1>6, InsertFacts
<1>8. /\ Paired(all, allv, k, v)
      /\ \A x, w : x # k => (Paired(all, allv, x, w) <=> Paired(ks, vs, x, w))
  <2>1. PairInserted(ks, vs, i, k, v, all, allv)
    BY <1>6, <1>7 DEF PairInserted
  <2>2. QED
    BY <2>1, PairsInserted
<1>9. /\ DOMAIN node' = DOMAIN node /\ \A m \in DOMAIN node : m # n => node'[m] = node[m]
      /\ node'[n].leaf = node[n].leaf /\ node'[n].keys = all /\ node'[n].vals = allv
  BY <1>2, <1>4, <1>5 DEF ShiftEffect
<1>10. Leaves' = Leaves /\ Leaves \subseteq DOMAIN node
  BY <1>9 DEF Leaves
<1>11. Entry(k, v)'
  BY <1>3, <1>8, <1>9, <1>10 DEF Entry
<1>12. ASSUME NEW x \in Keys, NEW w, x # k PROVE Entry(x, w)' <=> Entry(x, w)
  <2>1. \A m \in Leaves : Paired(node'[m].keys, node'[m].vals, x, w) <=> Paired(node[m].keys, node[m].vals, x, w)
    BY <1>4, <1>8, <1>9, <1>10, <1>12
  <2>2. QED
    BY <1>10, <2>1 DEF Entry
<1>13. Mapped(k, v)
  BY <1>11, <1>12, MappedIf
<1>14. QED
  BY <1>1, <1>3, <1>13

LEMMA SplitLeafMapped ==
  ASSUME Core, Ordered, Core', Ordered', NEW p \in Threads, SplitLeaf(p)
  PROVE  Mapped(op[p].key, Abs!Result(op[p]))
<1>0. TreeOK
  BY DEF Core, TypesOK
<1>1. PICK n, k, v, sib : n = t[p].cur /\ k = op[p].key /\ v = op[p].val /\ sib = Len(node) + 1
  OBVIOUS
<1>2. t[p].pc = "act" /\ op[p].kind = "put"
  BY SplitLeafFacts
<1>3. /\ n \in DOMAIN node /\ node[n].leaf /\ n \in Leaves /\ k \in Keys /\ k \in Nat /\ v \in Maybe
      /\ Abs!Result(op[p]) = v
  BY <1>1, <1>2, ActFacts DEF Leaves
<1>4. PICK i, cut, all, allv, ks, vs, rks, rvs : LeafSplit(p, n, i, cut, all, allv, ks, vs, rks, rvs)
  BY <1>1, SplitLeafFacts
<1>5. PICK oks, ovs : oks = node[n].keys /\ ovs = node[n].vals
  OBVIOUS
<1>6. /\ Inserted(Keys, oks, i, k, all) /\ Inserted(Maybe, ovs, i, v, allv)
      /\ CutAt(Keys, all, cut, ks, rks) /\ CutAt(Maybe, allv, cut, vs, rvs)
      /\ i \in 1..(Len(oks) + 1) /\ cut \in 1..Capacity
      /\ SplitEffect(n, ks, vs, rks, rvs)
  BY <1>1, <1>4, <1>5 DEF LeafSplit
<1>7. oks \in Seq(Keys) /\ ovs \in Seq(Maybe) /\ Len(oks) = Len(ovs) /\ Len(oks) = Capacity
  <2>1. Len(oks) = Capacity
    BY <1>1, <1>5, SplitLeafFacts DEF Full
  <2>2. QED
    BY <1>0, <1>3, <1>5, <2>1, LeafFacts
<1>8. /\ Paired(all, allv, k, v)
      /\ \A x, w : x # k => (Paired(all, allv, x, w) <=> Paired(oks, ovs, x, w))
  <2>1. PairInserted(oks, ovs, i, k, v, all, allv)
    BY <1>6, <1>7 DEF PairInserted
  <2>2. QED
    BY <2>1, PairsInserted
<1>9. \A x, w : Paired(all, allv, x, w) <=> Paired(ks, vs, x, w) \/ Paired(rks, rvs, x, w)
  <2>1. /\ all \in Seq(Keys) /\ allv \in Seq(Maybe) /\ Len(all) = Capacity + 1 /\ Len(allv) = Capacity + 1
    BY <1>6, <1>7 DEF Inserted
  <2>2. cut \in 1..Len(all)
    BY <1>6, <2>1, KeyFacts
  <2>3. PairCut(all, allv, cut, ks, rks, vs, rvs)
    BY <1>6, <2>1, <2>2 DEF PairCut
  <2>4. QED
    BY <2>3, PairsCut
<1>10. /\ DOMAIN node' = DOMAIN node \union {sib} /\ sib \notin DOMAIN node
       /\ \A m \in DOMAIN node : m # n => node'[m] = node[m]
       /\ node'[n].leaf = node[n].leaf /\ node'[n].keys = ks /\ node'[n].vals = vs
       /\ node'[sib].leaf = TRUE /\ node'[sib].keys = rks /\ node'[sib].vals = rvs
  BY <1>1, <1>6 DEF SplitEffect
<1>11. Leaves' = Leaves \union {sib} /\ Leaves \subseteq DOMAIN node
  BY <1>10 DEF Leaves
<1>12. Entry(k, v)'
  <2>1. Paired(node'[n].keys, node'[n].vals, k, v) \/ Paired(node'[sib].keys, node'[sib].vals, k, v)
    BY <1>8, <1>9, <1>10
  <2>2. QED
    BY <1>3, <1>11, <2>1 DEF Entry
<1>13. ASSUME NEW x \in Keys, NEW w, x # k PROVE Entry(x, w)' <=> Entry(x, w)
  <2>1. /\ Paired(node'[n].keys, node'[n].vals, x, w) \/ Paired(node'[sib].keys, node'[sib].vals, x, w)
             <=> Paired(node[n].keys, node[n].vals, x, w)
        /\ \A m \in Leaves : m # n => node'[m] = node[m]
    BY <1>5, <1>8, <1>9, <1>10, <1>11, <1>13
  <2>2. QED
    BY <1>3, <1>11, <2>1 DEF Entry
<1>14. Mapped(k, v)
  BY <1>12, <1>13, MappedIf
<1>15. QED
  BY <1>1, <1>3, <1>14

-----------------------------------------------------------------------------
(* What threads have seen                                                   *)

\* A node at work stays at work as long as its version does not change.
Aged ==
  /\ DOMAIN node \subseteq DOMAIN node'
  /\ \A n \in DOMAIN node :
       /\ node[n].version <= node'[n].version
       /\ node'[n].version = node[n].version /\ ~node'[n].torn => ~node[n].torn

LEMMA AgedSame ==
  ASSUME node \in Seq(Node), DOMAIN node \subseteq DOMAIN node',
         \A m \in DOMAIN node : node'[m].version = node[m].version /\ (node[m].torn => node'[m].torn)
  PROVE  Aged
<1>1. \A m \in DOMAIN node : node[m].version \in Nat
  BY NodeFacts
<1>2. QED
  BY <1>1 DEF Aged

LEMMA AgedLock ==
  ASSUME node \in Seq(Node), NEW n, NEW b, SetLock(n, b) \/ node' = node
  PROVE  Aged
<1>1. CASE node' = node
  BY <1>1, AgedSame
<1>2. CASE SetLock(n, b)
  <2>1. /\ DOMAIN node' = DOMAIN node /\ \A m \in DOMAIN node : m # n => node'[m] = node[m]
        /\ node'[n].version = node[n].version /\ node'[n].torn = node[n].torn
    BY <1>2 DEF SetLock
  <2>2. QED
    BY <2>1, AgedSame
<1>3. QED
  BY <1>1, <1>2

LEMMA AgedWrite ==
  ASSUME Core, NEW p \in Threads, WriteInPlace(p) \/ Overwrite(p) \/ Shift(p) \/ SplitLeaf(p)
  PROVE  Aged
<1>0. node \in Seq(Node)
  BY DEF Core, TypesOK, TreeOK
<1>1. PICK n : n = t[p].cur
  OBVIOUS
<1>2. /\ DOMAIN node \subseteq DOMAIN node' /\ \A m \in DOMAIN node : m # n => node'[m] = node[m]
      /\ node'[n].version = node[n].version
      /\ node'[n].torn = node[n].torn \/ node'[n].torn = TRUE
  <2>1. CASE WriteInPlace(p)
    BY <1>1, <2>1, WriteInPlaceFacts DEF WriteEffect
  <2>2. CASE Overwrite(p)
    BY <1>1, <2>2, OverwriteFacts DEF WriteEffect
  <2>3. CASE Shift(p)
    BY <1>1, <2>3, ShiftFacts DEF ShiftEffect
  <2>4. CASE SplitLeaf(p)
    <3>1. PICK i, cut, all, allv, ks, vs, rks, rvs : LeafSplit(p, n, i, cut, all, allv, ks, vs, rks, rvs)
      BY <1>1, <2>4, SplitLeafFacts
    <3>2. SplitEffect(n, ks, vs, rks, rvs)
      BY <3>1 DEF LeafSplit
    <3>3. QED
      BY <3>2 DEF SplitEffect
  <2>5. QED
    BY <2>1, <2>2, <2>3, <2>4
<1>3. QED
  BY <1>0, <1>2, AgedSame

LEMMA AgedInner ==
  ASSUME Core, NEW p \in Threads, NewRoot(p) \/ InsertParent(p) \/ SplitParent(p)
  PROVE  Aged
<1>0. node \in Seq(Node)
  BY DEF Core, TypesOK, TreeOK
<1>1. PICK l, r, q : l = t[p].left /\ r = t[p].right /\ q = t[p].par
  OBVIOUS
<1>2. CASE NewRoot(p)
  <2>1. GrowEffect(l, r, t[p].sep)
    BY <1>1, <1>2, NewRootFacts
  <2>2. /\ DOMAIN node \subseteq DOMAIN node' /\ \A m \in DOMAIN node : m # l /\ m # r => node'[m] = node[m]
        /\ node'[l].version = node[l].version /\ node'[l].torn = node[l].torn
        /\ node'[r].version = node[r].version /\ node'[r].torn = node[r].torn
    BY <2>1 DEF GrowEffect, Reparent
  <2>3. QED
    BY <1>0, <2>2, AgedSame
<1>3. CASE InsertParent(p)
  <2>1. PICK ks, cs : Hung(q, r, ks, cs)
    BY <1>1, <1>3, InsertParentFacts
  <2>2. /\ DOMAIN node' = DOMAIN node /\ \A m \in DOMAIN node : m # q /\ m # r => node'[m] = node[m]
        /\ node'[q].version = node[q].version /\ node'[q].torn = TRUE
        /\ node'[r].version = node[r].version /\ node'[r].torn = node[r].torn
    BY <2>1 DEF Hung, Reparent
  <2>3. QED
    BY <1>0, <2>2, AgedSame
<1>4. CASE SplitParent(p)
  <2>1. PICK k2, i, j, cut, all, kids, ks, cs, rks, rcs :
          NodeSplit(q, r, t[p].sep, k2, i, j, cut, all, kids, ks, cs, rks, rcs)
    BY <1>1, <1>4, SplitParentFacts
  <2>2. PartEffect(q, r, ks, cs, rks, rcs)
    BY <2>1 DEF NodeSplit
  <2>3. /\ DOMAIN node \subseteq DOMAIN node'
        /\ \A m \in DOMAIN node : m # q => node'[m].version = node[m].version /\ node'[m].torn = node[m].torn
        /\ node'[q].version = node[q].version /\ node'[q].torn = TRUE
    BY <2>2 DEF PartEffect, Reparent
  <2>4. QED
    BY <1>0, <2>3, AgedSame
<1>5. QED
  BY <1>2, <1>3, <1>4

LEMMA AgedEnd ==
  ASSUME Core, NEW p \in Threads, Bump(p) \/ Unlock(p)
  PROVE  Aged
<1>0. node \in Seq(Node)
  BY DEF Core, TypesOK, TreeOK
<1>1. CASE Bump(p)
  <2>1. PICK n : n = Head(t[p].todo)
    OBVIOUS
  <2>2. n \in DOMAIN node /\ BumpEffect(n)
    BY <1>1, <2>1, BumpFacts
  <2>3. /\ DOMAIN node' = DOMAIN node /\ \A m \in DOMAIN node : m # n => node'[m] = node[m]
        /\ node'[n].version = node[n].version + 1
    BY <2>2 DEF BumpEffect
  <2>4. \A m \in DOMAIN node : node[m].version \in Nat
    BY <1>0, NodeFacts
  <2>5. QED
    BY <2>2, <2>3, <2>4 DEF Aged
<1>2. CASE Unlock(p)
  BY <1>0, <1>2, UnlockFacts, AgedLock
<1>3. QED
  BY <1>1, <1>2

\* What the threads have seen stays so.
LEMMA SeenStep ==
  ASSUME Core, Core', NEW R, Known(R), SeenOK, NEW p \in Threads, Alone(p), Aged,
         \A q \in Procs : q # p => seen[q] \subseteq seen'[q],
         \A q \in Procs : KeySeen(q)',
         p \in Procs =>
           /\ t'[p].pc = "locked" => (Fresh(t[p].cur, t[p].ver)' => t'[p].val \in seen'[p])
           /\ t'[p].pc = "valid" => (node'[t'[p].cur].version = t'[p].ver => t'[p].val \in seen'[p])
  PROVE  SeenOK'
<1>1. ASSUME NEW q \in Procs, q # p PROVE SeenBy(q)'
  <2>1. t'[q] = t[q] /\ SeenBy(q) /\ ThreadOK(q) /\ seen[q] \subseteq seen'[q]
    BY <1>1 DEF Alone, Threads, SeenOK, Core, TypesOK
  <2>2. PICK c, v : c = t[q].cur /\ v = t[q].ver
    OBVIOUS
  <2>3. ASSUME t[q].pc \in {"locked", "valid"}
        PROVE  /\ c \in DOMAIN node /\ v \in Nat /\ v <= node[c].version
               /\ node[c].version \in Nat /\ node'[c].version \in Nat /\ node[c].version <= node'[c].version
               /\ node'[c].version = node[c].version /\ ~node'[c].torn => ~node[c].torn
    <3>1. /\ c \in DOMAIN node /\ v \in Nat /\ node[c].version \in Nat /\ v <= node[c].version
      BY <2>2, <2>3, AtALeaf DEF AtLeaf, Reading
    <3>2. c \in DOMAIN node'
      BY <3>1 DEF Aged
    <3>3. node'[c].version \in Nat
      <4>1. (node \in Seq(Node))'
        BY DEF Core, TypesOK, TreeOK
      <4>2. node'[c] \in Node
        BY <3>2, <4>1
      <4>3. QED
        BY <4>2 DEF Node
    <3>4. QED
      BY <3>1, <3>3 DEF Aged
  <2>4. t[q].pc = "locked" => (Fresh(c, v)' => t[q].val \in seen'[q])
    BY <2>1, <2>2, <2>3 DEF SeenBy, Fresh
  <2>5. t[q].pc = "valid" => (node'[c].version = v => t[q].val \in seen'[q])
    BY <2>1, <2>2, <2>3 DEF SeenBy
  <2>6. QED
    BY <2>1, <2>2, <2>4, <2>5 DEF SeenBy, Fresh
<1>2. ASSUME p \in Procs PROVE SeenBy(p)'
  BY <1>2 DEF SeenBy, Fresh
<1>3. \A q \in Procs : SeenBy(q)'
  BY <1>1, <1>2
<1>4. QED
  BY <1>3 DEF SeenOK

LEMMA LogicalAt ==
  ASSUME NEW q, NEW k, op'[q].key = k
  PROVE  Logical(op[q].key)' = Logical(k)'
  BY DEF Logical, Holds, ValueIn, Slot

LEMMA KeysStaySeen ==
  ASSUME Core, SeenOK, LeavesSame, op' = op, seen' = seen
  PROVE  \A q \in Procs : KeySeen(q)'
<1> SUFFICES ASSUME NEW q \in Procs, op[q] # Abs!Idle PROVE Logical(op[q].key)' \in seen[q]
  BY DEF KeySeen
<1>1. PICK k : k = op[q].key
  OBVIOUS
<1>2. Logical(op[q].key)' = Logical(k)'
  BY <1>1, LogicalAt
<1>3. Logical(k)' = Logical(k)
  BY SameLogical
<1>4. QED
  BY <1>1, <1>2, <1>3 DEF SeenOK, SeenBy, KeySeen

\* Steps after which p has not read anything.
LEMMA SeenKept ==
  ASSUME Core, Core', NEW R, Known(R), SeenOK, NEW p \in Threads, Alone(p), LeavesSame, Aged,
         op' = op, seen' = seen, p \in Procs => t'[p].pc \notin {"locked", "valid"}
  PROVE  SeenOK'
<1>1. \A q \in Procs : KeySeen(q)'
  BY KeysStaySeen
<1>2. \A q \in Procs : q # p => seen[q] \subseteq seen'[q]
  OBVIOUS
<1>3. p \in Procs => t'[p].pc # "locked" /\ t'[p].pc # "valid"
  OBVIOUS
<1>4. QED
  BY <1>1, <1>2, <1>3, SeenStep

LEMMA ReadLeafSeen ==
  ASSUME Core, Core', NEW R, Known(R), SeenOK, NEW p \in Threads, ReadLeaf(p)
  PROVE  SeenOK'
<1>1. PICK c, v, k : c = t[p].cur /\ v = t[p].ver /\ k = op[p].key
  OBVIOUS
<1>2. /\ Walked(p) /\ KeepPlace(p) /\ p \in Procs /\ t[p].pc = "read" /\ t'[p].pc = "locked"
      /\ t'[p].val = IF node[c].torn THEN Garbage ELSE ValueIn(c, k)
  BY <1>1, ReadLeafFacts
<1>3. /\ Alone(p) /\ node' = node /\ op' = op /\ seen' = seen /\ t'[p].cur = c /\ t'[p].ver = v
  BY <1>1, <1>2 DEF Walked, Still, KeepPlace
<1>4. c \in Leaves /\ k \in Nat /\ (Fresh(c, v) => k \in R[c])
  BY <1>1, <1>2, AtALeaf DEF AtLeaf, Reading
<1>5. RangesOK(R) /\ node \in Seq(Node)
  BY DEF Known, Core, TypesOK, TreeOK
<1>6. Fresh(c, v) => t'[p].val = Logical(k)
  <2>1. ASSUME Fresh(c, v) PROVE t'[p].val = Logical(k)
    <3>1. k \in R[c]
      BY <1>4, <2>1
    <3>2. Logical(k) = ValueIn(c, k)
      BY <1>4, <1>5, <3>1, LogicalIs
    <3>3. QED
      BY <1>2, <2>1, <3>2 DEF Fresh
  <2>2. QED
    BY <2>1
<1>7. Logical(k) \in seen[p]
  <2>1. op[p] # Abs!Idle
    BY <1>2 DEF Core, TypesOK, OpOK
  <2>2. QED
    BY <1>1, <1>2, <2>1 DEF SeenOK, SeenBy, KeySeen
<1>8. Fresh(t[p].cur, t[p].ver)' => t'[p].val \in seen'[p]
  BY <1>3, <1>6, <1>7 DEF Fresh
<1>9. LeavesSame /\ Aged
  BY <1>3, <1>5, LockLeaves, AgedLock
<1>10. \A q \in Procs : KeySeen(q)'
  BY <1>3, <1>9, KeysStaySeen
<1>11. QED
  BY <1>2, <1>3, <1>8, <1>9, <1>10, SeenStep

LEMMA CheckLockedSeen ==
  ASSUME Core, Core', NEW R, Known(R), SeenOK, NEW p \in Threads, CheckLocked(p)
  PROVE  SeenOK'
<1>1. PICK c, v : c = t[p].cur /\ v = t[p].ver
  OBVIOUS
<1>2. /\ Walked(p) /\ KeepPlace(p) /\ t[p].pc = "locked" /\ t'[p].val = t[p].val
      /\ t'[p].pc # "locked"
      /\ t'[p].pc = "valid" => ~node[c].locked
  BY <1>1, CheckLockedFacts
<1>3. /\ Alone(p) /\ node' = node /\ op' = op /\ seen' = seen /\ t'[p].cur = c /\ t'[p].ver = v
  BY <1>1, <1>2 DEF Walked, Still, KeepPlace
<1>4. LeavesSame /\ Aged
  BY <1>3, LockLeaves, AgedLock DEF Core, TypesOK, TreeOK
<1>5. \A q \in Procs : KeySeen(q)'
  BY <1>3, <1>4, KeysStaySeen
<1>6. ASSUME p \in Procs, t'[p].pc = "valid", node[c].version = v
      PROVE  t[p].val \in seen[p]
  <2>1. c \in DOMAIN node
    BY <1>1, <1>2, <1>6, AtALeaf DEF AtLeaf, Reading
  <2>2. ~node[c].torn
    <3>1. ASSUME node[c].torn PROVE FALSE
      <4>1. PICK q \in Procs : Tearing(q, c)
        BY <2>1, <3>1 DEF Core, LocksOK
      <4>2. Owns(q, c)
        BY <4>1, Tears DEF Core
      <4>3. node[c].locked
        BY <2>1, <4>2 DEF Core, LocksOK
      <4>4. QED
        BY <1>2, <1>6, <4>3
    <3>2. QED
      BY <3>1
  <2>3. Fresh(c, v)
    BY <1>6, <2>2 DEF Fresh
  <2>4. QED
    BY <1>1, <1>2, <1>6, <2>3 DEF SeenOK, SeenBy
<1>7. QED
  BY <1>2, <1>3, <1>4, <1>5, <1>6, SeenStep

\* The map takes v for k, and every operation on k sees it.
LEMMA EffectSeen ==
  ASSUME Core, Core', NEW R, Known(R), SeenOK, NEW p \in Threads, Alone(p), Aged, p \in Procs,
         t'[p].pc \notin {"locked", "valid"}, Effect(p), Mapped(op[p].key, Abs!Result(op[p]))
  PROVE  SeenOK'
<1>1. PICK k, v : k = op[p].key /\ v = Abs!Result(op[p])
  OBVIOUS
<1>2. op' = op /\ seen' = Abs!See(k, v) /\ Mapped(k, v)
  BY <1>1 DEF Effect
<1>3. \A q \in Procs : seen'[q] = IF op[q] # Abs!Idle /\ op[q].key = k THEN seen[q] \union {v} ELSE seen[q]
  BY <1>2 DEF Abs!See
<1>4. \A q \in Procs : seen[q] \subseteq seen'[q]
  BY <1>3
<1>5. ASSUME NEW q \in Procs, op[q] # Abs!Idle PROVE Logical(op[q].key)' \in seen'[q]
  <2>1. PICK x : x = op[q].key
    OBVIOUS
  <2>2. x \in Keys
    <3>1. t[q].pc # "idle"
      BY <1>5 DEF Core, TypesOK, OpOK
    <3>2. QED
      BY <2>1, <3>1, ActiveFacts DEF Core
  <2>3. Logical(op[q].key)' = Logical(x)'
    BY <1>2, <2>1, LogicalAt
  <2>4. Logical(x)' = IF x = k THEN v ELSE Logical(x)
    BY <1>2, <2>2 DEF Mapped
  <2>5. CASE x = k
    BY <1>3, <1>5, <2>1, <2>3, <2>4, <2>5
  <2>6. CASE x # k
    <3>1. Logical(x) \in seen[q]
      BY <1>5, <2>1 DEF SeenOK, SeenBy, KeySeen
    <3>2. QED
      BY <1>4, <2>3, <2>4, <2>6, <3>1
  <2>7. QED
    BY <2>5, <2>6
<1>6. \A q \in Procs : KeySeen(q)'
  BY <1>2, <1>5 DEF KeySeen
<1>7. t'[p].pc # "locked" /\ t'[p].pc # "valid"
  OBVIOUS
<1>8. QED
  BY <1>4, <1>6, <1>7, SeenStep

\* The searches of the others, and the scans.
LEMMA SearchSeen ==
  ASSUME Core, Core', NEW R, Known(R), SeenOK, NEW p \in Threads,
         \/ LoadRoot(p) \/ LoadRootVersion(p) \/ CheckRoot(p)
         \/ FindChild(p) \/ LoadChildVersion(p) \/ CheckChildLocked(p) \/ CheckChildVersion(p)
         \/ WalkVersion(p) \/ WalkNext(p) \/ ScanLeaf(p) \/ CheckChanged(p) \/ ScanVersion(p)
  PROVE  SeenOK'
<1>1. Walked(p)
  BY SearchPcs
<1>2. Alone(p) /\ node' = node /\ op' = op /\ seen' = seen
  BY <1>1 DEF Walked, Still
<1>3. Arrive(p) \in {"read", "lock"}
  BY Arrives
<1>4. p \in Procs => t'[p].pc \notin {"locked", "valid"}
  <2>1. CASE LoadRoot(p) \/ LoadRootVersion(p)
    BY <2>1, LoadRootFacts, LoadRootVersionFacts
  <2>2. CASE CheckRoot(p)
    BY <1>3, <2>2, CheckRootFacts
  <2>3. CASE FindChild(p) \/ LoadChildVersion(p) \/ CheckChildLocked(p)
    BY <2>3, FindChildFacts, LoadChildVersionFacts, CheckChildLockedFacts
  <2>4. CASE CheckChildVersion(p)
    BY <1>3, <2>4, CheckChildVersionFacts
  <2>5. CASE WalkVersion(p)
    BY <2>5, WalkVersionFacts
  <2>6. CASE WalkNext(p)
    BY <1>3, <2>6, WalkNextFacts
  <2>7. CASE ScanLeaf(p)
    BY <2>7, ScanLeafFacts, ThreadsAssumption
  <2>8. CASE CheckChanged(p)
    BY <2>8, CheckChangedFacts
  <2>9. CASE ScanVersion(p)
    BY <2>9, ScanVersionFacts
  <2>10. QED
    BY <2>1, <2>2, <2>3, <2>4, <2>5, <2>6, <2>7, <2>8, <2>9
<1>5. LeavesSame /\ Aged
  BY <1>2, LockLeaves, AgedLock DEF Core, TypesOK, TreeOK
<1>6. QED
  BY <1>2, <1>4, <1>5, SeenKept

\* An operation begins with the value its key has.
LEMMA StartSeen ==
  ASSUME Core, Core', NEW R, Known(R), SeenOK, NEW p \in Procs, Start(p)
  PROVE  SeenOK'
<1>0. p \in Threads
  BY DEF Threads
<1>1. PICK c \in Abs!Calls : /\ op' = [op EXCEPT ![p] = c]
                             /\ seen' = [seen EXCEPT ![p] = {Logical(c.key)}]
  BY StartFacts
<1>2. Alone(p) /\ node' = node /\ t'[p].pc = "root"
  BY StartFacts
<1>3. LeavesSame /\ Aged
  BY <1>2, LockLeaves, AgedLock DEF Core, TypesOK, TreeOK
<1>4. DOMAIN op = Procs /\ DOMAIN seen = Procs
  BY DEF Core, TypesOK
<1>5. /\ op'[p] = c /\ seen'[p] = {Logical(c.key)}
      /\ \A q \in Procs : q # p => op'[q] = op[q] /\ seen'[q] = seen[q]
  BY <1>1, <1>4
<1>6. ASSUME NEW q \in Procs PROVE KeySeen(q)'
  <2> SUFFICES ASSUME op'[q] # Abs!Idle PROVE Logical(op[q].key)' \in seen'[q]
    BY DEF KeySeen
  <2>1. PICK k : k = op'[q].key
    OBVIOUS
  <2>2. Logical(op[q].key)' = Logical(k)'
    BY <2>1, LogicalAt
  <2>3. Logical(k)' = Logical(k)
    BY <1>3, SameLogical
  <2>4. CASE q = p
    BY <1>5, <2>1, <2>2, <2>3, <2>4
  <2>5. CASE q # p
    <3>1. op[q] # Abs!Idle /\ k = op[q].key
      BY <1>5, <2>1, <2>5
    <3>2. Logical(k) \in seen[q]
      BY <3>1 DEF SeenOK, SeenBy, KeySeen
    <3>3. QED
      BY <1>5, <2>2, <2>3, <2>5, <3>2
  <2>6. QED
    BY <2>4, <2>5
<1>7. \A q \in Procs : q # p => seen[q] \subseteq seen'[q]
  BY <1>5
<1>8. \A q \in Procs : KeySeen(q)'
  BY <1>6
<1>9. t'[p].pc # "locked" /\ t'[p].pc # "valid"
  BY <1>2
<1>10. QED
  BY <1>0, <1>2, <1>3, <1>7, <1>8, <1>9, SeenStep

\* Calls that return, and scans.
LEMMA CallSeen ==
  ASSUME Core, Core', NEW R, Known(R), SeenOK, NEW p \in Threads,
         \/ p \in Scanners /\ StartScan(p)
         \/ Finish(p) \/ Accept(p) \/ ScanAccept(p)
  PROVE  SeenOK'
<1>1. Alone(p) /\ LeavesSame
  BY CallRecords DEF SameRecords
<1>2. ASSUME node' = node PROVE Aged
  BY <1>2, AgedLock DEF Core, TypesOK, TreeOK
<1>3. CASE p \in Scanners /\ StartScan(p)
  <2>1. node' = node /\ op' = op /\ seen' = seen /\ p \notin Procs
    BY <1>3, ThreadsAssumption DEF StartScan, tree
  <2>2. QED
    BY <1>1, <1>2, <2>1, SeenKept
<1>4. CASE Accept(p)
  <2>1. node' = node /\ op' = op /\ seen' = seen /\ t'[p].pc = "done"
    BY <1>4, AcceptFacts
  <2>2. QED
    BY <1>1, <1>2, <2>1, SeenKept
<1>5. CASE ScanAccept(p)
  <2>1. node' = node /\ op' = op /\ seen' = seen /\ p \notin Procs
    BY <1>5, ScanAcceptFacts, ThreadsAssumption
  <2>2. QED
    BY <1>1, <1>2, <2>1, SeenKept
<1>6. CASE Finish(p)
  <2>1. node' = node /\ t'[p] = NoOp
    BY <1>6, FinishFacts
  <2>2. t'[p].pc = "idle"
    BY <2>1 DEF NoOp
  <2>3. CASE p \notin Procs
    <3>1. op' = op /\ seen' = seen
      BY <1>6, <2>3, FinishFacts
    <3>2. QED
      BY <1>1, <1>2, <2>1, <2>3, <3>1, SeenKept
  <2>4. CASE p \in Procs
    <3>1. op' = [op EXCEPT ![p] = Abs!Idle] /\ seen' = [seen EXCEPT ![p] = {}]
      BY <1>6, <2>4, FinishFacts
    <3>2. /\ op'[p] = Abs!Idle
          /\ \A q \in Procs : q # p => op'[q] = op[q] /\ seen'[q] = seen[q]
      BY <2>4, <3>1 DEF Core, TypesOK
    <3>3. ASSUME NEW q \in Procs PROVE KeySeen(q)'
      <4> SUFFICES ASSUME op'[q] # Abs!Idle PROVE Logical(op[q].key)' \in seen'[q]
        BY DEF KeySeen
      <4>1. PICK k : k = op'[q].key
        OBVIOUS
      <4>2. Logical(op[q].key)' = Logical(k)'
        BY <4>1, LogicalAt
      <4>3. Logical(k)' = Logical(k)
        BY <1>1, SameLogical
      <4>4. q # p /\ op[q] # Abs!Idle /\ k = op[q].key
        BY <3>2, <4>1
      <4>5. Logical(k) \in seen[q]
        BY <4>4 DEF SeenOK, SeenBy, KeySeen
      <4>6. QED
        BY <3>2, <4>2, <4>3, <4>4, <4>5
    <3>4. \A q \in Procs : q # p => seen[q] \subseteq seen'[q]
      BY <3>2
    <3>5. \A q \in Procs : KeySeen(q)'
      BY <3>3
    <3>6. t'[p].pc # "locked" /\ t'[p].pc # "valid"
      BY <2>2
    <3>7. QED
      BY <1>1, <1>2, <2>1, <3>4, <3>5, <3>6, SeenStep
  <2>5. QED
    BY <2>3, <2>4
<1>7. QED
  BY <1>3, <1>4, <1>5, <1>6

\* Locks, splits and the end of a change.
LEMMA WorkSeen ==
  ASSUME Core, Core', NEW R, Known(R), SeenOK, NEW p \in Threads,
         \/ LockLeaf(p) \/ LockedStale(p) \/ NotFound(p)
         \/ LoadParent(p) \/ LockParent(p) \/ CheckParent(p)
         \/ NewRoot(p) \/ InsertParent(p) \/ SplitParent(p)
         \/ Bump(p) \/ Unlock(p) \/ Count(p)
  PROVE  SeenOK'
<1>0. node \in Seq(Node)
  BY DEF Core, TypesOK, TreeOK
<1>1. CASE LockLeaf(p) \/ LockedStale(p) \/ NotFound(p)
  <2>1. Alone(p) /\ LeavesSame
    BY <1>1, LockRecords DEF SameRecords
  <2>2. /\ op' = op /\ seen' = seen /\ t'[p].pc \in {"lockver", "act", "walkver", "unlock"}
        /\ (\E b : SetLock(t[p].cur, b)) \/ node' = node
    BY <1>1, LockLeafFacts, LockedStaleFacts, NotFoundFacts
  <2>3. Aged
    BY <1>0, <2>2, AgedLock
  <2>4. QED
    BY <2>1, <2>2, <2>3, SeenKept
<1>2. CASE LoadParent(p) \/ LockParent(p) \/ CheckParent(p)
  <2>1. Alone(p) /\ LeavesSame
    BY <1>2, ClimbRecords DEF SameRecords
  <2>2. /\ op' = op /\ seen' = seen /\ t'[p].pc \in Climbing
        /\ (\E b : SetLock(t[p].par, b)) \/ node' = node
    <3>1. CASE LoadParent(p)
      BY <3>1, LoadParentFacts DEF Still, Climbing, Parents
    <3>2. CASE LockParent(p)
      BY <3>2, LockParentFacts DEF Climbing, Parents
    <3>3. CASE CheckParent(p)
      BY <3>3, CheckParentFacts DEF Climbing, Parents
    <3>4. QED
      BY <1>2, <3>1, <3>2, <3>3
  <2>3. Aged
    BY <1>0, <2>2, AgedLock
  <2>4. t'[p].pc \notin {"locked", "valid"}
    BY <2>2 DEF Climbing, Parents
  <2>5. QED
    BY <2>1, <2>2, <2>3, <2>4, SeenKept
<1>3. CASE NewRoot(p) \/ InsertParent(p) \/ SplitParent(p)
  <2>1. Alone(p) /\ LeavesSame
    BY <1>3, InnerRecords DEF SameRecords
  <2>2. op' = op /\ seen' = seen /\ t'[p].pc = "bump"
    BY <1>3, NewRootFacts, InsertParentFacts, SplitParentFacts
  <2>3. Aged
    BY <1>3, AgedInner
  <2>4. QED
    BY <2>1, <2>2, <2>3, SeenKept
<1>4. CASE Bump(p) \/ Unlock(p)
  <2>1. Alone(p) /\ LeavesSame
    BY <1>4, EndRecords DEF SameRecords
  <2>2. op' = op /\ seen' = seen /\ t'[p].pc \in {"bump", "unlock", "done", "count", "parent"}
    <3>1. CASE Bump(p)
      BY <3>1, BumpFacts
    <3>2. CASE Unlock(p)
      <4>1. op' = op /\ seen' = seen /\ t[p].pc = "unlock" /\ (t'[p].pc = "unlock" \/ t'[p].pc = t[p].after)
        BY <3>2, UnlockFacts
      <4>2. t[p].after \in {"done", "count", "parent"}
        BY <4>1, EndFacts DEF Ending, ThreadOK
      <4>3. QED
        BY <4>1, <4>2
    <3>3. QED
      BY <1>4, <3>1, <3>2
  <2>3. Aged
    BY <1>4, AgedEnd
  <2>4. QED
    BY <2>1, <2>2, <2>3, SeenKept
<1>5. CASE Count(p)
  <2>1. Alone(p) /\ node' = node /\ op' = op /\ seen' = seen /\ t'[p].pc = "done"
    BY <1>5, CountFacts
  <2>2. LeavesSame /\ Aged
    BY <1>0, <2>1, LockLeaves, AgedLock
  <2>3. QED
    BY <2>1, <2>2, SeenKept
<1>6. QED
  BY <1>1, <1>2, <1>3, <1>4, <1>5

\* What a writer does to the map, and from where.
LEMMA WritesMap ==
  ASSUME Core, Ordered, Core', Ordered', NEW p \in Threads,
         WriteInPlace(p) \/ Overwrite(p) \/ Shift(p) \/ SplitLeaf(p)
  PROVE  /\ p \in Procs /\ Alone(p) /\ t[p].pc = "act"
         /\ t'[p].pc \in {"unlock", "bump", "parent"}
         /\ Effect(p) /\ Mapped(op[p].key, Abs!Result(op[p]))
<1>1. Mapped(op[p].key, Abs!Result(op[p]))
  BY WriteMapped, ShiftMapped, SplitLeafMapped
<1>2. Alone(p) /\ t[p].pc = "act" /\ t'[p].pc \in {"unlock", "bump", "parent"} /\ Effect(p)
  BY WriteInPlaceFacts, OverwriteFacts, ShiftFacts, SplitLeafFacts
<1>3. p \in Procs
  BY <1>2, ActFacts
<1>4. QED
  BY <1>1, <1>2, <1>3

LEMMA NextSeen ==
  ASSUME Core, Ordered, Core', Ordered', SeenOK, Next
  PROVE  SeenOK'
<1>0. PICK R : Known(R)
  BY DEF Ordered
<1>1. CASE \E p \in Procs : Start(p)
  BY <1>0, <1>1, StartSeen
<1>2. CASE \E s \in Scanners : StartScan(s)
  BY <1>0, <1>2, CallSeen DEF Threads
<1>3. CASE \E p \in Threads : Step(p)
  <2> SUFFICES ASSUME NEW p \in Threads, Step(p) PROVE SeenOK'
    BY <1>3
  <2>1. CASE WriteInPlace(p) \/ Overwrite(p) \/ Shift(p) \/ SplitLeaf(p)
    <3>1. /\ p \in Procs /\ Alone(p) /\ t'[p].pc \in {"unlock", "bump", "parent"}
          /\ Effect(p) /\ Mapped(op[p].key, Abs!Result(op[p]))
      BY <2>1, WritesMap
    <3>2. Aged
      BY <2>1, AgedWrite
    <3>3. t'[p].pc \notin {"locked", "valid"}
      BY <3>1
    <3>4. QED
      BY <1>0, <3>1, <3>2, <3>3, EffectSeen
  <2>2. CASE ReadLeaf(p) \/ CheckLocked(p)
    BY <1>0, <2>2, ReadLeafSeen, CheckLockedSeen
  <2>3. CASE \/ LoadRoot(p) \/ LoadRootVersion(p) \/ CheckRoot(p)
             \/ FindChild(p) \/ LoadChildVersion(p) \/ CheckChildLocked(p) \/ CheckChildVersion(p)
             \/ WalkVersion(p) \/ WalkNext(p) \/ ScanLeaf(p) \/ CheckChanged(p) \/ ScanVersion(p)
    BY <1>0, <2>3, SearchSeen
  <2>4. CASE Finish(p) \/ Accept(p) \/ ScanAccept(p)
    BY <1>0, <2>4, CallSeen
  <2>5. CASE \/ LockLeaf(p) \/ LockedStale(p) \/ NotFound(p)
             \/ LoadParent(p) \/ LockParent(p) \/ CheckParent(p)
             \/ NewRoot(p) \/ InsertParent(p) \/ SplitParent(p)
             \/ Bump(p) \/ Unlock(p) \/ Count(p)
    BY <1>0, <2>5, WorkSeen
  <2>6. QED
    BY <2>1, <2>2, <2>3, <2>4, <2>5 DEF Step
<1>4. QED
  BY <1>1, <1>2, <1>3 DEF Next

LEMMA IdleSeen ==
  ASSUME Core, SeenOK, UNCHANGED vars
  PROVE  SeenOK'
<1>1. node' = node /\ t' = t /\ op' = op /\ seen' = seen
  BY DEF vars, tree, opvars
<1>2. LeavesSame
  BY <1>1, LockLeaves
<1>3. \A q \in Procs : KeySeen(q)'
  BY <1>1, <1>2, KeysStaySeen
<1>4. ASSUME NEW q \in Procs PROVE SeenBy(q)'
  <2>1. SeenBy(q) /\ KeySeen(q)'
    BY <1>3 DEF SeenOK
  <2>2. QED
    BY <1>1, <2>1 DEF SeenBy, Fresh
<1>5. \A q \in Procs : SeenBy(q)'
  BY <1>4
<1>6. QED
  BY <1>5 DEF SeenOK

LEMMA InitSeen ==
  ASSUME Init
  PROVE  SeenOK
<1>1. ASSUME NEW p \in Procs PROVE SeenBy(p)
  <2>1. op[p] = Abs!Idle /\ t[p].pc = "idle"
    BY DEF Init, NoOp, Threads
  <2>2. QED
    BY <2>1 DEF SeenBy, KeySeen
<1>2. QED
  BY <1>1 DEF SeenOK

LEMMA SeenInvariant == Spec => [](Core /\ Ordered /\ SeenOK)
<1>1. Init => SeenOK
  BY InitSeen
<1>2. Core /\ Ordered /\ Core' /\ Ordered' /\ SeenOK /\ [Next]_vars => SeenOK'
  BY NextSeen, IdleSeen
<1>3. QED
  BY <1>1, <1>2, OrderInvariant, PTL DEF Spec

-----------------------------------------------------------------------------
(* Refinement of the linearizable map                                       *)

Content == [k \in OpKeys |-> Logical(k)]

LEMMA SameContent ==
  ASSUME LeavesSame
  PROVE  Content' = Content
<1>1. \A k \in OpKeys : Logical(k)' = Logical(k)
  BY SameLogical
<1>2. QED
  BY <1>1 DEF Content

LEMMA ContentMapped ==
  ASSUME NEW k \in OpKeys, NEW v, Mapped(k, v)
  PROVE  Content' = [Content EXCEPT ![k] = v]
<1>1. \A x \in OpKeys : Logical(x)' = IF x = k THEN v ELSE Logical(x)
  BY KeyFacts DEF Mapped
<1>2. QED
  BY <1>1 DEF Content

LEMMA LinearizableInit ==
  ASSUME Init
  PROVE  Abs!AbsInit
<1>1. TreeOK
  BY InitCore DEF Core, TypesOK
<1>2. \A k \in OpKeys : Logical(k) \in Values \union {None}
  BY <1>1, LogicalType, KeyFacts DEF Maybe
<1>3. [k \in OpKeys |-> Logical(k)] \in [OpKeys -> Values \union {None}]
  BY <1>2
<1>4. op = [p \in Procs |-> Abs!Idle] /\ seen = [p \in Procs |-> {}] /\ res = [p \in Procs |-> Abs!Undecided]
  BY DEF Init
<1>5. QED
  BY <1>3, <1>4 DEF Abs!AbsInit

\* A get answers with a value it has seen: the leaf is as it was when the get read it.
LEMMA AcceptAnswers ==
  ASSUME Core, SeenOK, NEW p \in Threads, Accept(p)
  PROVE  Abs!AbsNext
<1>1. /\ p \in Procs /\ t[p].pc = "valid" /\ node[t[p].cur].version = t[p].ver
      /\ UNCHANGED <<node, op, seen>> /\ res' = [res EXCEPT ![p] = Abs!Got(t[p].val)]
  BY AcceptFacts
<1>2. op[p] # Abs!Idle /\ op[p].kind = "get" /\ res[p] = Abs!Undecided
  BY <1>1 DEF Core, TypesOK, OpOK, Reading
<1>3. t[p].val \in seen[p]
  BY <1>1 DEF SeenOK, SeenBy
<1>4. Content' = Content
  <2>1. LeavesSame
    BY <1>1, LockLeaves
  <2>2. QED
    BY <2>1, SameContent
<1>5. Abs!Answer(p)
  BY <1>1, <1>2, <1>3, <1>4 DEF Abs!Answer, Abs!Pending, Content
<1>6. QED
  BY <1>1, <1>5 DEF Abs!AbsNext

\* Update and remove fail on a key that is absent as they look, in the leaf that
\* is for it.
LEMMA NotFoundFails ==
  ASSUME Core, Ordered, SeenOK, NEW p \in Threads, NotFound(p)
  PROVE  Abs!AbsNext
<1>0. PICK R : Known(R)
  BY DEF Ordered
<1>1. PICK n, k : n = t[p].cur /\ k = op[p].key
  OBVIOUS
<1>2. /\ t[p].pc = "act" /\ UNCHANGED <<node, op, seen>> /\ res' = [res EXCEPT ![p] = Abs!Failed]
      /\ op[p].kind \in {"update", "remove"} /\ ValueIn(n, k) = None
  BY <1>1, NotFoundFacts
<1>3. p \in Procs /\ k \in Nat /\ n \in Leaves
  BY <1>1, <1>2, ActFacts DEF Leaves
<1>4. op[p] # Abs!Idle /\ res[p] = Abs!Undecided
  BY <1>2, <1>3 DEF Core, TypesOK, OpOK
<1>5. RangesOK(R) /\ k \in R[n]
  BY <1>0, <1>1, <1>2, <1>3, AtALeaf DEF Known, AtLeaf
<1>6. Logical(k) = None
  BY <1>2, <1>3, <1>5, LogicalIs
<1>7. None \in seen[p]
  BY <1>1, <1>3, <1>4, <1>6 DEF SeenOK, SeenBy, KeySeen
<1>8. Content' = Content
  <2>1. LeavesSame
    BY <1>2, LockLeaves
  <2>2. QED
    BY <2>1, SameContent
<1>9. Abs!Fail(p)
  BY <1>2, <1>4, <1>7, <1>8 DEF Abs!Fail, Abs!Pending, Content
<1>10. QED
  BY <1>3, <1>9 DEF Abs!AbsNext

\* A writer's change takes effect at once, while it holds the leaf.
LEMMA WriteMutates ==
  ASSUME Core, Ordered, Core', Ordered', SeenOK, NEW p \in Threads,
         WriteInPlace(p) \/ Overwrite(p) \/ Shift(p) \/ SplitLeaf(p)
  PROVE  Abs!AbsNext
<1>0. PICK R : Known(R)
  BY DEF Ordered
<1>1. PICK n, k, v : n = t[p].cur /\ k = op[p].key /\ v = Abs!Result(op[p])
  OBVIOUS
<1>2. p \in Procs /\ t[p].pc = "act" /\ Effect(p) /\ Mapped(k, v)
  BY <1>1, WritesMap
<1>3. k \in OpKeys /\ k \in Nat /\ n \in Leaves /\ op[p].kind \in {"put", "update", "remove"}
  <2>1. n \in Leaves
    BY <1>1, <1>2, ActFacts DEF Leaves
  <2>2. k \in OpKeys /\ k \in Nat /\ op[p].kind \in {"get", "put", "update", "remove"}
    BY <1>1, <1>2, ActiveFacts DEF Core
  <2>3. op[p].kind # "get"
    BY <1>2, ActFacts
  <2>4. QED
    BY <2>1, <2>2, <2>3
<1>4. op[p] # Abs!Idle /\ res[p] = Abs!Undecided
  BY <1>2 DEF Core, TypesOK, OpOK
<1>5. op[p].kind = "put" \/ Content[k] # None
  <2>1. CASE Overwrite(p) \/ Shift(p) \/ SplitLeaf(p)
    BY <2>1, OverwriteFacts, ShiftFacts, SplitLeafFacts
  <2>2. CASE WriteInPlace(p)
    <3>1. ValueIn(n, k) # None
      BY <1>1, <2>2, WriteInPlaceFacts
    <3>2. RangesOK(R) /\ k \in R[n]
      BY <1>0, <1>1, <1>2, AtALeaf DEF Known, AtLeaf
    <3>3. Logical(k) # None
      BY <1>3, <3>1, <3>2, LogicalIs
    <3>4. QED
      BY <1>3, <3>3 DEF Content
  <2>3. QED
    BY <2>1, <2>2
<1>6. Content' = [Content EXCEPT ![k] = v]
  BY <1>2, <1>3, ContentMapped
<1>7. seen' = Abs!See(k, v) /\ res' = [res EXCEPT ![p] = Abs!Ok] /\ op' = op
  BY <1>1, <1>2 DEF Effect
<1>8. Abs!Mutate(p)
  BY <1>1, <1>3, <1>4, <1>5, <1>6, <1>7 DEF Abs!Mutate, Abs!Pending, Content
<1>9. QED
  BY <1>2, <1>8 DEF Abs!AbsNext

\* Other steps change nothing a caller could see.
LEMMA StepHidden ==
  ASSUME Core, NEW p \in Threads,
         \/ LoadRoot(p) \/ LoadRootVersion(p) \/ CheckRoot(p)
         \/ FindChild(p) \/ LoadChildVersion(p) \/ CheckChildLocked(p) \/ CheckChildVersion(p)
         \/ WalkVersion(p) \/ WalkNext(p) \/ ReadLeaf(p) \/ ScanLeaf(p)
         \/ CheckLocked(p) \/ CheckChanged(p) \/ ScanVersion(p)
         \/ ScanAccept(p) \/ (p \notin Procs /\ Finish(p)) \/ LockLeaf(p) \/ LockedStale(p)
         \/ LoadParent(p) \/ LockParent(p) \/ CheckParent(p)
         \/ NewRoot(p) \/ InsertParent(p) \/ SplitParent(p)
         \/ Bump(p) \/ Unlock(p) \/ Count(p)
  PROVE  UNCHANGED Abs!absvars
<1>1. CASE \/ LoadRoot(p) \/ LoadRootVersion(p) \/ CheckRoot(p)
           \/ FindChild(p) \/ LoadChildVersion(p) \/ CheckChildLocked(p) \/ CheckChildVersion(p)
           \/ WalkVersion(p) \/ WalkNext(p) \/ ReadLeaf(p) \/ ScanLeaf(p)
           \/ CheckLocked(p) \/ CheckChanged(p) \/ ScanVersion(p)
  <2>1. Walked(p)
    BY <1>1, SearchPcs
  <2>2. node' = node /\ op' = op /\ seen' = seen /\ res' = res
    BY <2>1 DEF Walked, Still
  <2>3. Content' = Content
    BY <2>2, LockLeaves, SameContent
  <2>4. QED
    BY <2>2, <2>3 DEF Abs!absvars, Content
<1>2. CASE ScanAccept(p) \/ (p \notin Procs /\ Finish(p)) \/ Count(p)
  <2>1. node' = node /\ op' = op /\ seen' = seen /\ res' = res
    BY <1>2, ScanAcceptFacts, FinishFacts, CountFacts
  <2>2. Content' = Content
    BY <2>1, LockLeaves, SameContent
  <2>3. QED
    BY <2>1, <2>2 DEF Abs!absvars, Content
<1>3. CASE LockLeaf(p) \/ LockedStale(p) \/ LoadParent(p) \/ LockParent(p) \/ CheckParent(p)
  <2>1. LeavesSame
    BY <1>3, LockRecords, ClimbRecords DEF SameRecords
  <2>2. op' = op /\ seen' = seen /\ res' = res
    BY <1>3 DEF LockLeaf, LockedStale, LoadParent, LockParent, CheckParent, Local, opvars
  <2>3. Content' = Content
    BY <2>1, SameContent
  <2>4. QED
    BY <2>2, <2>3 DEF Abs!absvars, Content
<1>4. CASE NewRoot(p) \/ InsertParent(p) \/ SplitParent(p) \/ Bump(p) \/ Unlock(p)
  <2>1. LeavesSame
    BY <1>4, InnerRecords, EndRecords DEF SameRecords
  <2>2. op' = op /\ seen' = seen /\ res' = res
    BY <1>4 DEF NewRoot, InsertParent, SplitParent, Bump, Unlock, opvars
  <2>3. Content' = Content
    BY <2>1, SameContent
  <2>4. QED
    BY <2>2, <2>3 DEF Abs!absvars, Content
<1>5. QED
  BY <1>1, <1>2, <1>3, <1>4

LEMMA LinearizableStep ==
  ASSUME Core, Ordered, Core', Ordered', SeenOK, [Next]_vars
  PROVE  [Abs!AbsNext]_(Abs!absvars)
<1>1. CASE \E p \in Procs : Start(p)
  <2>1. PICK p \in Procs : Start(p)
    BY <1>1
  <2>2. Abs!Invoke(p)
    BY <2>1 DEF Start
  <2>3. QED
    BY <2>2 DEF Abs!AbsNext
<1>2. CASE \E s \in Scanners : StartScan(s)
  <2>1. node' = node /\ op' = op /\ seen' = seen /\ res' = res
    BY <1>2 DEF StartScan, tree
  <2>2. Content' = Content
    BY <2>1, LockLeaves, SameContent
  <2>3. QED
    BY <2>1, <2>2 DEF Abs!absvars, Content
<1>3. CASE \E p \in Threads : Step(p)
  <2>1. PICK p \in Threads : Step(p)
    BY <1>3
  <2>2. CASE WriteInPlace(p) \/ Overwrite(p) \/ Shift(p) \/ SplitLeaf(p)
    BY <2>2, WriteMutates
  <2>3. CASE Accept(p)
    BY <2>3, AcceptAnswers
  <2>4. CASE NotFound(p)
    BY <2>4, NotFoundFails
  <2>5. CASE p \in Procs /\ Finish(p)
    <3>1. Abs!Respond(p)
      BY <2>5 DEF Finish
    <3>2. QED
      BY <2>5, <3>1 DEF Abs!AbsNext
  <2>6. CASE \/ LoadRoot(p) \/ LoadRootVersion(p) \/ CheckRoot(p)
             \/ FindChild(p) \/ LoadChildVersion(p) \/ CheckChildLocked(p) \/ CheckChildVersion(p)
             \/ WalkVersion(p) \/ WalkNext(p) \/ ReadLeaf(p) \/ ScanLeaf(p)
             \/ CheckLocked(p) \/ CheckChanged(p) \/ ScanVersion(p)
             \/ ScanAccept(p) \/ (p \notin Procs /\ Finish(p)) \/ LockLeaf(p) \/ LockedStale(p)
             \/ LoadParent(p) \/ LockParent(p) \/ CheckParent(p)
             \/ NewRoot(p) \/ InsertParent(p) \/ SplitParent(p)
             \/ Bump(p) \/ Unlock(p) \/ Count(p)
    BY <2>6, StepHidden
  <2>7. QED
    BY <2>1, <2>2, <2>3, <2>4, <2>5, <2>6 DEF Step
<1>4. CASE UNCHANGED vars
  <2>1. node' = node /\ op' = op /\ seen' = seen /\ res' = res
    BY <1>4 DEF vars, tree, opvars
  <2>2. Content' = Content
    BY <2>1, LockLeaves, SameContent
  <2>3. QED
    BY <2>1, <2>2 DEF Abs!absvars, Content
<1>5. QED
  BY <1>1, <1>2, <1>3, <1>4 DEF Next

\* get, insert, update and remove behave as if each acted at once, at some moment
\* of its call: a get that returns has read its leaf whole and before any split
\* took the key away, and a writer that has locked a leaf has locked the one its
\* key belongs in.
THEOREM BufferLinearizable == Spec => Linearizable
<1>1. Core /\ Ordered /\ Core' /\ Ordered' /\ SeenOK /\ [Next]_vars => [Abs!AbsNext]_(Abs!absvars)
  BY LinearizableStep
<1>2. Init => Abs!AbsInit
  BY LinearizableInit
<1>3. QED
  BY <1>1, <1>2, SeenInvariant, PTL DEF Spec, Linearizable, Abs!AbsSpec

-----------------------------------------------------------------------------
(* What scans have returned                                                 *)

Record == [key : Keys, val : Maybe]
Rising(q) == \A i, j \in DOMAIN q : i < j => q[i].key < q[j].key
Lists(q, k) == \E i \in DOMAIN q : q[i].key = k

\* Key k is one scan s is to return: it has had a value since the scan began.
Lasting(s, k) == k >= t[s].from /\ None \notin scan[s].seen[k]

\* Records that scan s may return.
Returnable(s, q) ==
  /\ q \in Seq(Record) /\ Rising(q)
  /\ \A i \in DOMAIN q : q[i].val \in scan[s].seen[q[i].key] /\ q[i].key >= t[s].from

\* The first key of a leaf other than Begin, which never changes.
First(n) == Head(node[n].keys)

\* What a scan has read of its leaf: the records up to the next leaf's first key.
BufOK(s) ==
  LET cur == t[s].cur
      nxt == t[s].nxt
      q == t[s].buf
  IN  /\ Returnable(s, q)
      /\ t[s].moved => \A i \in DOMAIN q : First(cur) <= q[i].key
      /\ nxt # Nil => /\ nxt \in Leaves \ {Begin} /\ t[s].from < First(nxt)
                      /\ t[s].moved => First(cur) < First(nxt)
                      /\ \A i \in DOMAIN q : q[i].key < First(nxt)
      /\ \A k \in Keys : /\ Lasting(s, k)
                         /\ t[s].moved => First(cur) <= k
                         /\ nxt # Nil => k < First(nxt)
                         => Lists(q, k)

OutOK(s) ==
  /\ scan[s].seen \in [Keys -> SUBSET Maybe]
  /\ Returnable(s, scan[s].out)
  /\ ~t[s].moved /\ t[s].pc \notin {"idle", "done"} => scan[s].out = <<>>
SeenSoFar(s) == t[s].pc # "idle" => \A k \in Keys : Logical(k) \in scan[s].seen[k]
\* A scan that has left its first leaf has returned what is before the leaf it is at.
Reached(s) ==
  LET cur == t[s].cur
  IN  t[s].moved /\ t[s].pc \in {"again", "read", "locked", "valid"} =>
        /\ cur \in Leaves \ {Begin} /\ t[s].from < First(cur)
        /\ t[s].pc # "again" => t[s].ver <= node[cur].version
        /\ \A i \in DOMAIN scan[s].out : scan[s].out[i].key < First(cur)
        /\ \A k \in Keys : Lasting(s, k) /\ k < First(cur) => Lists(scan[s].out, k)
PageOK(s) ==
  /\ t[s].pc = "locked" => (Fresh(t[s].cur, t[s].ver) => BufOK(s))
  /\ t[s].pc = "valid" => (node[t[s].cur].version = t[s].ver => BufOK(s))
Ended(s) == t[s].pc = "done" => \A k \in Keys : Lasting(s, k) => Lists(scan[s].out, k)

ScanOK(s) == OutOK(s) /\ SeenSoFar(s) /\ Reached(s) /\ PageOK(s) /\ Ended(s)
ScansOK == DOMAIN scan = Scanners /\ \A s \in Scanners : ScanOK(s)

-----------------------------------------------------------------------------
(* The records of a leaf                                                    *)

\* How many of S come up to i.
Rank(S, i) == Cardinality({x \in S : x <= i})

LEMMA RankIs ==
  ASSUME NEW n \in Nat, NEW S \in SUBSET (1..n)
  PROVE  /\ IsFiniteSet(S) /\ Cardinality(S) \in Nat
         /\ \A i \in S : Rank(S, i) \in 1..Cardinality(S)
         /\ \A i, j \in S : i < j => Rank(S, i) < Rank(S, j)
<1>1. IsFiniteSet(S) /\ Cardinality(S) \in Nat
  <2>1. IsFiniteSet(1..n)
    BY FS_Interval
  <2>2. IsFiniteSet(S)
    BY <2>1, FS_Subset
  <2>3. QED
    BY <2>2, FS_CardinalityType
<1>2. ASSUME NEW i \in S
      PROVE  /\ IsFiniteSet({x \in S : x <= i}) /\ Rank(S, i) \in Nat
             /\ Rank(S, i) <= Cardinality(S) /\ Rank(S, i) >= 1
  <2>1. {x \in S : x <= i} \subseteq S
    OBVIOUS
  <2>2. IsFiniteSet({x \in S : x <= i}) /\ Rank(S, i) <= Cardinality(S) /\ Rank(S, i) \in Nat
    BY <1>1, <2>1, FS_Subset, FS_CardinalityType DEF Rank
  <2>3. i \in {x \in S : x <= i}
    BY <1>2
  <2>4. Rank(S, i) # 0
    BY <2>2, <2>3, FS_EmptySet DEF Rank
  <2>5. QED
    BY <2>2, <2>4
<1>3. ASSUME NEW i \in S, NEW j \in S, i < j PROVE Rank(S, i) < Rank(S, j)
  <2>1. {x \in S : x <= i} \subseteq {x \in S : x <= j}
    <3>1. i \in Nat /\ j \in Nat /\ \A x \in S : x \in Nat
      OBVIOUS
    <3>2. \A x \in S : x <= i => x <= j
      BY <1>3, <3>1
    <3>3. QED
      BY <3>2
  <2>2. j \in {x \in S : x <= j} /\ j \notin {x \in S : x <= i}
    BY <1>3
  <2>3. {x \in S : x <= i} # {x \in S : x <= j}
    BY <2>2
  <2>4. IsFiniteSet({x \in S : x <= j})
    BY <1>2
  <2>5. Rank(S, i) <= Rank(S, j) /\ Rank(S, i) # Rank(S, j)
    BY <2>1, <2>3, <2>4, FS_Subset DEF Rank
  <2>6. Rank(S, i) \in Nat /\ Rank(S, j) \in Nat
    BY <1>2
  <2>7. QED
    BY <2>5, <2>6
<1>4. ASSUME NEW i \in S PROVE Rank(S, i) \in 1..Cardinality(S)
  <2>1. PICK a, c : a = Rank(S, i) /\ c = Cardinality(S)
    OBVIOUS
  <2>2. a \in Nat /\ c \in Nat /\ a <= c /\ a >= 1
    BY <1>1, <1>2, <2>1
  <2>3. QED
    BY <2>1, <2>2
<1>5. QED
  BY <1>1, <1>3, <1>4

\* Every number up to that of S is the rank of one of S.
LEMMA RankOnto ==
  ASSUME NEW n \in Nat, NEW S \in SUBSET (1..n), NEW j \in 1..Cardinality(S)
  PROVE  \E i \in S : Rank(S, i) = j
<1>1. /\ IsFiniteSet(S) /\ Cardinality(S) \in Nat
      /\ \A i \in S : Rank(S, i) \in 1..Cardinality(S)
      /\ \A i, k \in S : i < k => Rank(S, i) < Rank(S, k)
  BY RankIs
<1>2. PICK m : m = Cardinality(S) /\ m \in Nat
  BY <1>1
<1>3. PICK f : f = [i \in S |-> Rank(S, i)]
  OBVIOUS
<1>4. f \in Injection(S, 1..m)
  <2>1. f \in [S -> 1..m]
    BY <1>1, <1>2, <1>3
  <2>2. ASSUME NEW a \in S, NEW b \in S, f[a] = f[b] PROVE a = b
    <3>1. a \in Nat /\ b \in Nat
      OBVIOUS
    <3>2. Rank(S, a) = Rank(S, b) /\ Rank(S, a) \in Nat
      BY <1>1, <1>3, <2>2
    <3>3. ~(a < b) /\ ~(b < a)
      BY <1>1, <3>2
    <3>4. QED
      BY <3>1, <3>3
  <2>3. QED
    BY <2>1, <2>2 DEF Injection, IsInjective
<1>5. IsFiniteSet(1..m) /\ Cardinality(1..m) = m
  BY <1>2, FS_Interval, FirstCount
<1>6. f \in Surjection(S, 1..m)
  BY <1>2, <1>4, <1>5, FS_Injection
<1>7. QED
  BY <1>2, <1>3, <1>6 DEF Surjection

\* q lists the records of leaf n in slots S.
IsRecords(n, S, q) ==
  /\ q \in Seq(Record) /\ Rising(q)
  /\ \A j \in DOMAIN q : \E i \in S : q[j].key = node[n].keys[i] /\ q[j].val = node[n].vals[i]
  /\ \A i \in S : Lists(q, node[n].keys[i])

LEMMA RecordsAre ==
  ASSUME TreeOK, NEW n \in Leaves, Sorted(node[n].keys), NEW S \in SUBSET (DOMAIN node[n].keys)
  PROVE  IsRecords(n, S, Records(node[n], S))
<1>1. PICK ks, vs : ks = node[n].keys /\ vs = node[n].vals
  OBVIOUS
<1>2. PICK c : c = Cardinality(S)
  OBVIOUS
<1>3. PICK nth : nth = [j \in 1..c |-> CHOOSE i \in S : Rank(S, i) = j]
  OBVIOUS
<1>4. PICK q : q = Records(node[n], S)
  OBVIOUS
<1>5. /\ ks \in Seq(Keys) /\ vs \in Seq(Maybe) /\ DOMAIN ks = 1..Len(ks) /\ DOMAIN vs = 1..Len(ks)
      /\ Len(ks) \in Nat /\ Sorted(ks) /\ S \in SUBSET (1..Len(ks))
  <2>1. n \in DOMAIN node /\ node[n].leaf
    BY LeafNext
  <2>2. ks \in Seq(Keys) /\ vs \in Seq(Maybe) /\ DOMAIN ks = 1..Len(ks) /\ DOMAIN vs = 1..Len(ks) /\ Len(ks) \in Nat
    BY <1>1, <2>1, LeafFacts, KeyFacts
  <2>3. QED
    BY <1>1, <2>2
<1>6. /\ c \in Nat /\ \A i \in S : Rank(S, i) \in 1..c
      /\ \A i, j \in S : i < j => Rank(S, i) < Rank(S, j)
  BY <1>2, <1>5, RankIs
<1>7. ASSUME NEW j \in 1..c PROVE nth[j] \in S /\ Rank(S, nth[j]) = j
  <2>1. \E i \in S : Rank(S, i) = j
    BY <1>2, <1>5, <1>7, RankOnto
  <2>2. nth[j] = CHOOSE i \in S : Rank(S, i) = j
    BY <1>3, <1>7
  <2>3. QED
    BY <2>1, <2>2
<1>8. q = [j \in 1..c |-> [key |-> ks[nth[j]], val |-> vs[nth[j]]]]
  <2>1. \A i : Rank(S, i) = Cardinality({x \in S : x <= i})
    BY DEF Rank
  <2>2. q = [j \in 1..c |-> [key |-> ks[CHOOSE i \in S : Rank(S, i) = j], val |-> vs[CHOOSE i \in S : Rank(S, i) = j]]]
    BY <1>1, <1>2, <1>4 DEF Records, Rank
  <2>3. QED
    BY <1>3, <2>2
<1>9. \A j \in 1..c : /\ q[j] \in Record /\ q[j].key = ks[nth[j]] /\ q[j].val = vs[nth[j]]
                      /\ nth[j] \in S /\ nth[j] \in 1..Len(ks)
  <2> SUFFICES ASSUME NEW j \in 1..c
               PROVE  /\ q[j] \in Record /\ q[j].key = ks[nth[j]] /\ q[j].val = vs[nth[j]]
                      /\ nth[j] \in S /\ nth[j] \in 1..Len(ks)
    OBVIOUS
  <2>1. nth[j] \in S /\ nth[j] \in 1..Len(ks)
    BY <1>5, <1>7
  <2>2. ks[nth[j]] \in Keys /\ vs[nth[j]] \in Maybe
    BY <1>5, <2>1
  <2>3. q[j] = [key |-> ks[nth[j]], val |-> vs[nth[j]]]
    BY <1>8
  <2>4. QED
    BY <2>1, <2>2, <2>3 DEF Record
<1>10. DOMAIN q = 1..c /\ q \in Seq(Record)
  BY <1>6, <1>8, <1>9
<1>11. Rising(q)
  <2> SUFFICES ASSUME NEW a \in 1..c, NEW b \in 1..c, a < b PROVE q[a].key < q[b].key
    BY <1>10 DEF Rising
  <2>1. nth[a] \in S /\ nth[b] \in S /\ Rank(S, nth[a]) = a /\ Rank(S, nth[b]) = b
    BY <1>7
  <2>2. nth[a] \in Nat /\ nth[b] \in Nat
    BY <1>5, <2>1
  <2>3. nth[a] < nth[b]
    <3>1. nth[a] # nth[b]
      BY <2>1
    <3>2. ~(nth[b] < nth[a])
      BY <1>6, <2>1
    <3>3. QED
      BY <2>2, <3>1, <3>2
  <2>4. ks[nth[a]] < ks[nth[b]]
    BY <1>5, <2>1, <2>3 DEF Sorted
  <2>5. QED
    BY <1>9, <2>4
<1>12. ASSUME NEW i \in S PROVE Lists(q, ks[i])
  <2>1. PICK j : j = Rank(S, i)
    OBVIOUS
  <2>2. j \in 1..c
    BY <1>6, <2>1
  <2>3. nth[j] = i
    <3>1. nth[j] \in S /\ Rank(S, nth[j]) = Rank(S, i)
      BY <1>7, <2>1, <2>2
    <3>2. nth[j] \in Nat /\ i \in Nat /\ Rank(S, i) \in Nat
      BY <1>5, <1>6, <3>1
    <3>3. ~(nth[j] < i) /\ ~(i < nth[j])
      BY <1>6, <3>1, <3>2
    <3>4. QED
      BY <3>2, <3>3
  <2>4. QED
    BY <1>9, <1>10, <2>2, <2>3 DEF Lists
<1>13. QED
  BY <1>1, <1>4, <1>9, <1>10, <1>11, <1>12 DEF IsRecords

-----------------------------------------------------------------------------
(* The first keys of leaves                                                 *)

\* A leaf is there for good, and so is its first key.
HeadsStay ==
  \A m \in Leaves \ {Begin} : m \in Leaves' /\ Head(node'[m].keys) = Head(node[m].keys)

LEMMA HeadsSame ==
  ASSUME LeavesSame
  PROVE  HeadsStay
  BY DEF LeavesSame, HeadsStay

LEMMA WriteHeads ==
  ASSUME Core, NEW p \in Threads, WriteInPlace(p) \/ Overwrite(p)
  PROVE  HeadsStay
<1>1. PICK n, i, v, b : WriteEffect(n, i, v, b)
  BY WriteInPlaceFacts, OverwriteFacts
<1>2. DOMAIN node' = DOMAIN node /\ \A m \in DOMAIN node : node'[m].leaf = node[m].leaf /\ node'[m].keys = node[m].keys
  BY <1>1 DEF WriteEffect, SameTree
<1>3. QED
  BY <1>2 DEF HeadsStay, Leaves

LEMMA ShiftHeads ==
  ASSUME Core, ChainOK, NEW R, Known(R), NEW p \in Threads, Shift(p)
  PROVE  HeadsStay
<1>0. TreeOK
  BY DEF Core, TypesOK
<1>1. PICK n, k, i : n = t[p].cur /\ k = op[p].key /\ i = Slot(n, k) + 1
  OBVIOUS
<1>2. /\ t[p].pc = "act" /\ ~Holds(n, k) /\ ShiftEffect(n, i, k, op[p].val) /\ op[p].kind = "put"
  BY <1>1, ShiftFacts
<1>3. p \in Procs /\ k \in Keys
  BY <1>1, <1>2, ActFacts
<1>4. n \in Leaves /\ n \in DOMAIN node /\ node[n].leaf /\ Low(n, k)
  BY <1>1, <1>2, <1>3, AtALeaf DEF AtLeaf
<1>5. PICK all : all = InsertAt(node[n].keys, i, k)
  OBVIOUS
<1>6. Inserted(Keys, node[n].keys, i, k, all)
  <2>1. i \in 1..(Len(node[n].keys) + 1) /\ node[n].keys \in Seq(Keys)
    <3>1. op[p].val \in Maybe
      BY <1>2, ActFacts
    <3>2. i = Slot(n, k) + 1
      BY <1>1
    <3>3. i \in 1..(Len(node[n].keys) + 1)
      BY <1>0, <1>3, <1>4, <3>1, <3>2, InsertTypes
    <3>4. QED
      BY <1>0, <1>4, <3>3, LeafFacts
  <2>2. QED
    BY <1>3, <1>5, <2>1, InsertFacts
<1>7. Sorted(node[n].keys)
  BY <1>4 DEF ChainOK
<1>8. all \in Seq(Keys) /\ Len(all) = Len(node[n].keys) + 1 /\ (Head(node[n].keys) <= k => all[1] = Head(node[n].keys))
  BY <1>0, <1>1, <1>2, <1>3, <1>4, <1>6, <1>7, InsertSorted
<1>9. Head(all) = all[1]
  BY <1>8
<1>10. /\ DOMAIN node' = DOMAIN node /\ node'[n].keys = all /\ node'[n].leaf
       /\ \A m \in DOMAIN node : m # n => node'[m] = node[m]
  BY <1>2, <1>4, <1>5 DEF ShiftEffect
<1>11. ASSUME NEW m \in Leaves, m # Begin
       PROVE  m \in Leaves' /\ Head(node'[m].keys) = Head(node[m].keys)
  <2>1. m \in DOMAIN node /\ m \in DOMAIN node' /\ node[m].leaf
    BY <1>10, <1>11 DEF Leaves
  <2>2. CASE m = n
    BY <1>4, <1>8, <1>9, <1>10, <1>11, <2>1, <2>2 DEF Low, Leaves
  <2>3. CASE m # n
    BY <1>10, <2>1, <2>3 DEF Leaves
  <2>4. QED
    BY <2>2, <2>3
<1>12. QED
  BY <1>11 DEF HeadsStay

LEMMA SplitLeafHeads ==
  ASSUME Core, ChainOK, NEW R, Known(R), NEW p \in Threads, SplitLeaf(p)
  PROVE  HeadsStay
<1>1. PICK n, k : n = t[p].cur /\ k = op[p].key
  OBVIOUS
<1>2. PICK sib, s : LeafParted(p, n, sib, k, s)
  BY <1>1, LeafParts
<1>3. /\ p \in Procs /\ t[p].pc = "act" /\ DOMAIN node' = DOMAIN node \union {sib}
      /\ \A m \in DOMAIN node : m # n => node'[m] = node[m]
      /\ node'[n].leaf /\ (Head(node[n].keys) <= k => Head(node'[n].keys) = Head(node[n].keys))
  BY <1>2 DEF LeafParted
<1>4. Low(n, k)
  BY <1>1, <1>3, AtALeaf DEF AtLeaf
<1>5. ASSUME NEW m \in Leaves, m # Begin
       PROVE  m \in Leaves' /\ Head(node'[m].keys) = Head(node[m].keys)
  <2>1. m \in DOMAIN node /\ m \in DOMAIN node' /\ node[m].leaf
    BY <1>3, <1>5 DEF Leaves
  <2>2. CASE m = n
    BY <1>3, <1>4, <1>5, <2>1, <2>2 DEF Low, Leaves
  <2>3. CASE m # n
    BY <1>3, <2>1, <2>3 DEF Leaves
  <2>4. QED
    BY <2>2, <2>3
<1>6. QED
  BY <1>5 DEF HeadsStay

-----------------------------------------------------------------------------
(* What a scan knows stays true                                             *)

\* Scan s is where it was, and keys may have had more values.
ScanFrame(s) ==
  /\ t'[s] = t[s] /\ scan'[s].out = scan[s].out
  /\ scan'[s].seen \in [Keys -> SUBSET Maybe]
  /\ \A k \in Keys : scan[s].seen[k] \subseteq scan'[s].seen[k]

LEMMA ReturnableStays ==
  ASSUME NEW s, NEW q, Returnable(s, q), ScanFrame(s)
  PROVE  Returnable(s, q)'
<1>1. \A i \in DOMAIN q : q[i].key \in Keys
  <2>1. q \in Seq(Record)
    BY DEF Returnable
  <2>2. \A i \in DOMAIN q : q[i] \in Record
    BY <2>1, SeqFacts
  <2>3. QED
    BY <2>2 DEF Record
<1>2. QED
  BY <1>1 DEF Returnable, ScanFrame

LEMMA LastingThen ==
  ASSUME NEW s, ScanFrame(s), NEW k \in Keys, Lasting(s, k)'
  PROVE  Lasting(s, k)
  BY DEF ScanFrame, Lasting

LEMMA PageStays ==
  ASSUME NEW s, BufOK(s), ScanFrame(s), HeadsStay, t[s].moved => t[s].cur \in Leaves \ {Begin}
  PROVE  BufOK(s)'
<1>1. PICK c, x, q : c = t[s].cur /\ x = t[s].nxt /\ q = t[s].buf
  OBVIOUS
<1>2. t'[s].cur = c /\ t'[s].nxt = x /\ t'[s].buf = q /\ t'[s].moved = t[s].moved /\ t'[s].from = t[s].from
  BY <1>1 DEF ScanFrame
<1>3. Returnable(s, q)'
  BY <1>1, ReturnableStays DEF BufOK
<1>4. t[s].moved => First(c)' = First(c)
  BY <1>1 DEF HeadsStay, First
<1>5. x # Nil => x \in Leaves \ {Begin} /\ x \in (Leaves \ {Begin})' /\ First(x)' = First(x)
  <2>1. x # Nil => x \in Leaves \ {Begin}
    BY <1>1 DEF BufOK
  <2>2. QED
    BY <2>1 DEF HeadsStay, First, Begin
<1>6. t[s].moved => \A i \in DOMAIN q : First(c)' <= q[i].key
  BY <1>1, <1>4 DEF BufOK
<1>7. x # Nil => /\ t[s].from < First(x)' /\ (t[s].moved => First(c)' < First(x)')
                 /\ \A i \in DOMAIN q : q[i].key < First(x)'
  BY <1>1, <1>4, <1>5 DEF BufOK
<1>8. ASSUME NEW k \in Keys, Lasting(s, k)', t[s].moved => First(c)' <= k, x # Nil => k < First(x)'
      PROVE  Lists(q, k)
  <2>1. Lasting(s, k)
    BY <1>8, LastingThen
  <2>2. t[s].moved => First(c) <= k
    BY <1>4, <1>8
  <2>3. x # Nil => k < First(x)
    BY <1>5, <1>8
  <2>4. QED
    BY <1>1, <2>1, <2>2, <2>3 DEF BufOK
<1>9. QED
  <2>1. /\ x # Nil => x \in (Leaves \ {Begin})' /\ t'[s].from < First(x)' /\ \A i \in DOMAIN q : q[i].key < First(x)'
        /\ x # Nil => (t'[s].moved => First(c)' < First(x)')
        /\ t'[s].moved => \A i \in DOMAIN q : First(c)' <= q[i].key
    BY <1>2, <1>5, <1>6, <1>7
  <2>2. \A k \in Keys : Lasting(s, k)' /\ (t'[s].moved => First(c)' <= k) /\ (x # Nil => k < First(x)') => Lists(q, k)
    BY <1>2, <1>8
  <2>3. QED
    BY <1>2, <1>3, <2>1, <2>2 DEF BufOK, Returnable, Lists, Lasting, First

LEMMA OutStays ==
  ASSUME NEW s, OutOK(s), ScanFrame(s)
  PROVE  OutOK(s)'
<1>1. PICK q : q = scan[s].out
  OBVIOUS
<1>2. scan'[s].out = q /\ t'[s] = t[s] /\ scan'[s].seen \in [Keys -> SUBSET Maybe]
  BY <1>1 DEF ScanFrame
<1>3. Returnable(s, q)'
  BY <1>1, ReturnableStays DEF OutOK
<1>4. Returnable(s, scan[s].out)'
  BY <1>2, <1>3 DEF Returnable
<1>5. QED
  BY <1>1, <1>2, <1>4 DEF OutOK, Maybe

LEMMA ReachedStays ==
  ASSUME NEW s, Reached(s), ScanFrame(s), HeadsStay, Aged, Core, Core', ThreadOK(s)
  PROVE  Reached(s)'
<1> SUFFICES ASSUME t'[s].moved, t'[s].pc \in {"again", "read", "locked", "valid"}
             PROVE  /\ t'[s].cur \in Leaves' /\ t'[s].cur # Begin /\ t'[s].from < First(t[s].cur)'
                    /\ t'[s].pc # "again" => t'[s].ver <= node'[t'[s].cur].version
                    /\ \A i \in DOMAIN scan'[s].out : scan'[s].out[i].key < First(t[s].cur)'
                    /\ \A k \in Keys : Lasting(s, k)' /\ k < First(t[s].cur)' => Lists(scan'[s].out, k)
  BY DEF Reached, Lists, Begin
<1>1. PICK c, v, q : c = t[s].cur /\ v = t[s].ver /\ q = scan[s].out
  OBVIOUS
<1>2. t'[s] = t[s] /\ t'[s].cur = c /\ t'[s].ver = v /\ scan'[s].out = q
  BY <1>1 DEF ScanFrame
<1>3. /\ c \in Leaves \ {Begin} /\ t[s].from < First(c)
      /\ t[s].pc # "again" => v <= node[c].version
      /\ \A i \in DOMAIN q : q[i].key < First(c)
      /\ \A k \in Keys : Lasting(s, k) /\ k < First(c) => Lists(q, k)
  BY <1>1, <1>2 DEF Reached
<1>4. c \in Leaves' /\ c # Begin /\ First(c)' = First(c)
  BY <1>3 DEF HeadsStay, First
<1>5. First(t[s].cur)' = First(c)
  BY <1>2, <1>4 DEF First
<1>6. t[s].pc # "again" => v <= node'[c].version
  <2>1. c \in DOMAIN node /\ c \in DOMAIN node'
    BY <1>3, <1>4 DEF Leaves
  <2>2. node[c].version \in Nat /\ node'[c].version \in Nat /\ node[c].version <= node'[c].version
    <3>1. node \in Seq(Node) /\ node' \in Seq(Node)
      BY DEF Core, TypesOK, TreeOK, Node, Maybe
    <3>2. node[c] \in Node /\ node'[c] \in Node
      BY <2>1, <3>1
    <3>3. QED
      BY <2>1, <3>2 DEF Node, Aged
  <2>3. v \in Nat
    BY <1>1 DEF ThreadOK
  <2>4. QED
    BY <1>3, <2>2, <2>3
<1>7. ASSUME NEW k \in Keys, Lasting(s, k)', k < First(c) PROVE Lists(q, k)
  BY <1>3, <1>7, LastingThen
<1>8. QED
  BY <1>2, <1>3, <1>4, <1>5, <1>6, <1>7

\* The version a scan that reads a leaf has is not from the future.
LEMMA PageAge ==
  ASSUME Core, NEW R, Known(R), NEW s \in Scanners, Reached(s), t[s].pc \in {"locked", "valid"},
         NEW c, c = t[s].cur, NEW v, v = t[s].ver
  PROVE  /\ c \in Leaves /\ c \in DOMAIN node /\ v \in Nat /\ node[c].version \in Nat
         /\ v <= node[c].version /\ (t[s].moved => c \in Leaves \ {Begin})
<1>1. ThreadOK(s) /\ node \in Seq(Node) /\ s \in Threads
  BY DEF Core, TypesOK, TreeOK, Threads
<1>2. c \in Leaves /\ c \in DOMAIN node /\ v \in Nat
  BY <1>1 DEF ThreadOK, AtLeaf, Reading, Leaves
<1>3. node[c].version \in Nat
  BY <1>1, <1>2, NodeFacts
<1>4. v <= node[c].version
  <2>1. CASE t[s].moved
    BY <2>1 DEF Reached
  <2>2. CASE ~t[s].moved
    BY <1>1, <2>2 DEF Known, Arrival, AtLeaf, Reading
  <2>3. QED
    BY <2>1, <2>2
<1>5. t[s].moved => c \in Leaves \ {Begin}
  BY DEF Reached
<1>6. QED
  BY <1>2, <1>3, <1>4, <1>5

LEMMA PagesStay ==
  ASSUME Core, Core', NEW R, Known(R), NEW s \in Scanners, Reached(s), PageOK(s), ScanFrame(s),
         HeadsStay, Aged
  PROVE  PageOK(s)'
<1>1. PICK c, v : c = t[s].cur /\ v = t[s].ver
  OBVIOUS
<1>2. t'[s].pc = t[s].pc /\ t'[s].cur = c /\ t'[s].ver = v
  BY <1>1 DEF ScanFrame
<1>3. ASSUME t[s].pc \in {"locked", "valid"}, node'[c].version = v
      PROVE  /\ node[c].version = v /\ (~node'[c].torn => ~node[c].torn)
             /\ (BufOK(s) => BufOK(s)')
  <2>1. /\ c \in DOMAIN node /\ v \in Nat /\ node[c].version \in Nat /\ v <= node[c].version
        /\ t[s].moved => t[s].cur \in Leaves \ {Begin}
    BY <1>1, <1>3, PageAge
  <2>2. node[c].version <= node'[c].version
    BY <2>1 DEF Aged
  <2>3. node[c].version = v
    BY <1>3, <2>1, <2>2
  <2>4. ~node'[c].torn => ~node[c].torn
    BY <1>3, <2>1, <2>3 DEF Aged
  <2>5. BufOK(s) => BufOK(s)'
    BY <2>1, PageStays
  <2>6. QED
    BY <2>3, <2>4, <2>5
<1>4. ASSUME t[s].pc = "locked", node'[c].version = v, ~node'[c].torn PROVE BufOK(s)'
  BY <1>1, <1>3, <1>4 DEF PageOK, Fresh
<1>5. ASSUME t[s].pc = "valid", node'[c].version = v PROVE BufOK(s)'
  BY <1>1, <1>3, <1>5 DEF PageOK
<1>6. QED
  BY <1>2, <1>4, <1>5 DEF PageOK, Fresh

LEMMA EndedStays ==
  ASSUME NEW s, Ended(s), ScanFrame(s)
  PROVE  Ended(s)'
<1>1. ASSUME t[s].pc = "done", NEW k \in Keys, Lasting(s, k)' PROVE Lists(scan[s].out, k)
  BY <1>1, LastingThen DEF Ended
<1>2. QED
  BY <1>1 DEF Ended, ScanFrame, Lists

LEMMA ScanStays ==
  ASSUME Core, Core', NEW R, Known(R), NEW s \in Scanners, ScanOK(s), ScanFrame(s),
         HeadsStay, Aged, SeenSoFar(s)'
  PROVE  ScanOK(s)'
<1>1. ThreadOK(s)
  BY DEF Core, TypesOK, Threads
<1>2. OutOK(s)' /\ Ended(s)'
  BY OutStays, EndedStays DEF ScanOK
<1>3. Reached(s)'
  BY <1>1, ReachedStays DEF ScanOK
<1>4. PageOK(s)'
  BY PagesStay DEF ScanOK
<1>5. QED
  BY <1>2, <1>3, <1>4 DEF ScanOK

\* A step of p: the other scans are where they were.
LEMMA ScansStay ==
  ASSUME Core, Core', NEW R, Known(R), ScansOK, NEW p, Alone(p), HeadsStay, Aged,
         DOMAIN scan' = Scanners,
         \A s \in Scanners : s # p =>
           /\ scan'[s].out = scan[s].out /\ scan'[s].seen \in [Keys -> SUBSET Maybe]
           /\ \A k \in Keys : scan[s].seen[k] \subseteq scan'[s].seen[k]
           /\ SeenSoFar(s)',
         p \in Scanners => ScanOK(p)'
  PROVE  ScansOK'
<1>1. ASSUME NEW s \in Scanners, s # p PROVE ScanOK(s)'
  <2>1. ScanFrame(s)
    BY <1>1 DEF ScanFrame, Alone, Threads
  <2>2. ScanOK(s) /\ SeenSoFar(s)'
    BY <1>1 DEF ScansOK
  <2>3. QED
    BY <2>1, <2>2, ScanStays
<1>2. \A s \in Scanners : ScanOK(s)'
  BY <1>1
<1>3. QED
  BY <1>2 DEF ScansOK

-----------------------------------------------------------------------------
(* The steps of writers                                                     *)

\* The records are the same, and so are the scans.
LEMMA SameSeen ==
  ASSUME NEW s, SeenSoFar(s), LeavesSame, scan'[s] = scan[s], t'[s].pc = t[s].pc
  PROVE  SeenSoFar(s)'
<1>1. \A k \in Keys : Logical(k)' = Logical(k)
  BY SameLogical
<1>2. QED
  BY <1>1 DEF SeenSoFar

LEMMA ScansKept ==
  ASSUME Core, Core', NEW R, Known(R), ScansOK, NEW p, Alone(p), LeavesSame, Aged,
         DOMAIN scan' = Scanners, \A s \in Scanners : s # p => scan'[s] = scan[s],
         p \in Scanners => ScanOK(p)'
  PROVE  ScansOK'
<1>1. HeadsStay
  BY HeadsSame
<1>2. ASSUME NEW s \in Scanners, s # p
      PROVE  /\ scan'[s].out = scan[s].out /\ scan'[s].seen \in [Keys -> SUBSET Maybe]
             /\ \A k \in Keys : scan[s].seen[k] \subseteq scan'[s].seen[k]
             /\ SeenSoFar(s)'
  <2>1. ScanOK(s) /\ scan'[s] = scan[s] /\ t'[s] = t[s]
    BY <1>2 DEF ScansOK, Alone, Threads
  <2>2. SeenSoFar(s)'
    BY <2>1, SameSeen DEF ScanOK
  <2>3. scan[s].seen \in [Keys -> SUBSET Maybe]
    BY <2>1 DEF ScanOK, OutOK
  <2>4. QED
    BY <2>1, <2>2, <2>3
<1>3. QED
  BY <1>1, <1>2, ScansStay

\* A scan sees the values keys get.
LEMMA EffectScans ==
  ASSUME Core, Core', NEW R, Known(R), ScansOK, NEW p \in Procs, Alone(p), HeadsStay, Aged,
         Effect(p), op[p].key \in Keys, Abs!Result(op[p]) \in Maybe,
         Mapped(op[p].key, Abs!Result(op[p]))
  PROVE  ScansOK'
<1>1. PICK k, v : k = op[p].key /\ v = Abs!Result(op[p])
  OBVIOUS
<1>2. p \notin Scanners /\ k \in Keys /\ v \in Maybe
  BY <1>1, ThreadsAssumption
<1>3. scan' = [s \in Scanners |-> IF t[s].pc = "idle" THEN scan[s]
                                  ELSE [scan[s] EXCEPT !.seen[k] = @ \union {v}]]
  BY <1>1 DEF Effect, At
<1>4. \A x \in Keys : Logical(x)' = IF x = k THEN v ELSE Logical(x)
  BY <1>1 DEF Mapped
<1>5. ASSUME NEW s \in Scanners
      PROVE  /\ scan'[s].out = scan[s].out /\ scan'[s].seen \in [Keys -> SUBSET Maybe]
             /\ \A x \in Keys : scan[s].seen[x] \subseteq scan'[s].seen[x]
             /\ SeenSoFar(s)'
  <2>1. ScanOK(s) /\ t'[s] = t[s] /\ scan[s].seen \in [Keys -> SUBSET Maybe]
    BY <1>2, <1>5 DEF ScansOK, Alone, Threads, ScanOK, OutOK
  <2>2. CASE t[s].pc = "idle"
    <3>1. scan'[s] = scan[s]
      BY <1>3, <1>5, <2>2
    <3>2. QED
      BY <2>1, <2>2, <3>1 DEF SeenSoFar
  <2>3. CASE t[s].pc # "idle"
    <3>1. scan'[s] = [scan[s] EXCEPT !.seen[k] = @ \union {v}]
      BY <1>3, <1>5, <2>3
    <3>2. PICK a : a = scan[s].seen
      OBVIOUS
    <3>3. scan'[s].out = scan[s].out
      BY <3>1
    <3>4. scan'[s].seen = [a EXCEPT ![k] = a[k] \union {v}]
      BY <3>1, <3>2
    <3>5. a \in [Keys -> SUBSET Maybe]
      BY <2>1, <3>2
    <3>6. scan'[s].seen \in [Keys -> SUBSET Maybe]
      BY <1>2, <3>4, <3>5
    <3>7. \A x \in Keys : scan'[s].seen[x] = IF x = k THEN a[x] \union {v} ELSE a[x]
      BY <1>2, <3>4, <3>5
    <3>8. \A x \in Keys : Logical(x) \in a[x]
      BY <2>1, <2>3, <3>2 DEF ScanOK, SeenSoFar
    <3>9. \A x \in Keys : Logical(x)' \in scan'[s].seen[x]
      BY <1>4, <3>7, <3>8
    <3>10. QED
      BY <2>1, <3>2, <3>3, <3>6, <3>7, <3>9 DEF SeenSoFar
  <2>4. QED
    BY <2>2, <2>3
<1>6. DOMAIN scan' = Scanners
  BY <1>3
<1>7. QED
  BY <1>2, <1>5, <1>6, ScansStay

LEMMA WriterScans ==
  ASSUME Core, Ordered, Core', Ordered', NEW R, Known(R), ScansOK, NEW p \in Threads,
         WriteInPlace(p) \/ Overwrite(p) \/ Shift(p) \/ SplitLeaf(p)
  PROVE  ScansOK'
<1>1. /\ p \in Procs /\ Alone(p) /\ t[p].pc = "act" /\ Effect(p) /\ Mapped(op[p].key, Abs!Result(op[p]))
  BY WritesMap
<1>2. Aged
  BY AgedWrite
<1>3. ChainOK
  BY DEF Ordered
<1>4. HeadsStay
  BY <1>3, WriteHeads, ShiftHeads, SplitLeafHeads
<1>5. op[p].key \in Keys /\ Abs!Result(op[p]) \in Maybe
  BY <1>1, ActFacts
<1>6. QED
  BY <1>1, <1>2, <1>4, <1>5, EffectScans

\* Steps of writers, and of readers, that change no record.
LEMMA QuietScans ==
  ASSUME Core, Core', NEW R, Known(R), ScansOK, NEW p \in Procs, Alone(p), LeavesSame, Aged, scan' = scan
  PROVE  ScansOK'
<1>1. p \notin Scanners
  BY ThreadsAssumption
<1>2. DOMAIN scan' = Scanners
  BY DEF ScansOK
<1>3. QED
  BY <1>1, <1>2, ScansKept

LEMMA WorkScans ==
  ASSUME Core, Core', NEW R, Known(R), ScansOK, NEW p \in Threads,
         \/ LockLeaf(p) \/ LockedStale(p) \/ NotFound(p)
         \/ LoadParent(p) \/ LockParent(p) \/ CheckParent(p)
         \/ NewRoot(p) \/ InsertParent(p) \/ SplitParent(p)
         \/ Bump(p) \/ Unlock(p) \/ Count(p)
  PROVE  ScansOK'
<1>0. node \in Seq(Node)
  BY DEF Core, TypesOK, TreeOK
<1>1. CASE LockLeaf(p) \/ LockedStale(p) \/ NotFound(p)
  <2>1. Alone(p) /\ LeavesSame
    BY <1>1, LockRecords DEF SameRecords
  <2>2. scan' = scan /\ p \in Procs /\ ((\E b : SetLock(t[p].cur, b)) \/ node' = node)
    BY <1>1, LockLeafFacts, LockedStaleFacts, NotFoundFacts, ActFacts
  <2>3. Aged
    BY <1>0, <2>2, AgedLock
  <2>4. QED
    BY <2>1, <2>2, <2>3, QuietScans
<1>2. CASE LoadParent(p) \/ LockParent(p) \/ CheckParent(p)
  <2>1. Alone(p) /\ LeavesSame
    BY <1>2, ClimbRecords DEF SameRecords
  <2>2. /\ scan' = scan /\ t[p].pc \in Climbing
        /\ (\E b : SetLock(t[p].par, b)) \/ node' = node
    <3>1. CASE LoadParent(p)
      BY <3>1, LoadParentFacts DEF Still, Climbing, Parents
    <3>2. CASE LockParent(p)
      BY <3>2, LockParentFacts DEF Climbing, Parents
    <3>3. CASE CheckParent(p)
      BY <3>3, CheckParentFacts DEF Climbing, Parents
    <3>4. QED
      BY <1>2, <3>1, <3>2, <3>3
  <2>3. Aged /\ p \in Procs
    BY <1>0, <2>2, AgedLock, ClimbFacts
  <2>4. QED
    BY <2>1, <2>2, <2>3, QuietScans
<1>3. CASE NewRoot(p) \/ InsertParent(p) \/ SplitParent(p)
  <2>1. Alone(p) /\ LeavesSame
    BY <1>3, InnerRecords DEF SameRecords
  <2>2. scan' = scan /\ t[p].pc \in {"newroot", "insertparent", "splitparent"}
    BY <1>3, NewRootFacts, InsertParentFacts, SplitParentFacts
  <2>3. Aged /\ p \in Procs
    BY <1>3, <2>2, AgedInner, ClimbFacts DEF Climbing, Parents
  <2>4. QED
    BY <2>1, <2>2, <2>3, QuietScans
<1>4. CASE Bump(p) \/ Unlock(p)
  <2>1. Alone(p) /\ LeavesSame
    BY <1>4, EndRecords DEF SameRecords
  <2>2. scan' = scan /\ t[p].pc \in {"bump", "unlock"}
    BY <1>4, BumpFacts, UnlockFacts
  <2>3. Aged /\ p \in Procs
    BY <1>4, <2>2, AgedEnd, EndFacts DEF Ending
  <2>4. QED
    BY <2>1, <2>2, <2>3, QuietScans
<1>5. CASE Count(p)
  <2>1. Alone(p) /\ node' = node /\ scan' = scan /\ p \in Procs
    BY <1>5, CountFacts
  <2>2. LeavesSame /\ Aged
    BY <1>0, <2>1, LockLeaves, AgedLock
  <2>3. QED
    BY <2>1, <2>2, QuietScans
<1>6. QED
  BY <1>1, <1>2, <1>3, <1>4, <1>5

\* What readers and writers do before they reach their leaf.
LEMMA ProcScans ==
  ASSUME Core, Core', NEW R, Known(R), ScansOK, NEW p \in Procs,
         \/ LoadRoot(p) \/ LoadRootVersion(p) \/ CheckRoot(p)
         \/ FindChild(p) \/ LoadChildVersion(p) \/ CheckChildLocked(p) \/ CheckChildVersion(p)
         \/ WalkVersion(p) \/ WalkNext(p) \/ ReadLeaf(p) \/ ScanLeaf(p)
         \/ CheckLocked(p) \/ CheckChanged(p) \/ ScanVersion(p)
         \/ Start(p) \/ Finish(p) \/ Accept(p)
  PROVE  ScansOK'
<1>0. node \in Seq(Node) /\ p \in Threads
  BY DEF Core, TypesOK, TreeOK, Threads
<1>1. Alone(p) /\ node' = node /\ scan' = scan
  <2>1. CASE Start(p)
    BY <2>1, StartFacts
  <2>2. CASE Finish(p)
    BY <1>0, <2>2, FinishFacts
  <2>3. CASE Accept(p)
    BY <1>0, <2>3, AcceptFacts
  <2>4. CASE ~Start(p) /\ ~Finish(p) /\ ~Accept(p)
    <3>1. Walked(p)
      BY <1>0, <2>4, SearchPcs
    <3>2. QED
      BY <3>1 DEF Walked, Still
  <2>5. QED
    BY <2>1, <2>2, <2>3, <2>4
<1>2. LeavesSame /\ Aged
  BY <1>0, <1>1, LockLeaves, AgedLock
<1>3. QED
  BY <1>1, <1>2, QuietScans

-----------------------------------------------------------------------------
(* The steps of scans                                                       *)

\* A step of scan s after which it is as it should be.
LEMMA OneScan ==
  ASSUME Core, Core', NEW R, Known(R), ScansOK, NEW s \in Scanners, Alone(s), node' = node,
         DOMAIN scan' = Scanners, \A z \in Scanners : z # s => scan'[z] = scan[z],
         ScanOK(s)'
  PROVE  ScansOK'
<1>1. LeavesSame /\ Aged
  BY LockLeaves, AgedLock DEF Core, TypesOK, TreeOK
<1>2. QED
  BY <1>1, ScansKept

\* A scan on its way.
OnItsWay(s) ==
  /\ Walked(s) /\ KeepScan(s) /\ t[s].pc \notin {"idle", "done"} /\ t'[s].pc \notin {"idle", "done"}

LEMMA WayOut ==
  ASSUME NEW s, OnItsWay(s), ScanOK(s)
  PROVE  /\ OutOK(s)' /\ SeenSoFar(s)' /\ Ended(s)'
         /\ node' = node /\ scan' = scan /\ Alone(s)
<1>1. node' = node /\ scan' = scan /\ Alone(s) /\ t'[s].from = t[s].from /\ t'[s].moved = t[s].moved
  BY DEF OnItsWay, Walked, Still, KeepScan
<1>2. LeavesSame
  BY <1>1, LockLeaves
<1>3. \A k \in Keys : Logical(k)' = Logical(k)
  BY <1>2, SameLogical
<1>4. SeenSoFar(s)'
  BY <1>1, <1>3 DEF OnItsWay, ScanOK, SeenSoFar
<1>5. OutOK(s)'
  BY <1>1 DEF OnItsWay, ScanOK, OutOK, Returnable, Maybe
<1>6. Ended(s)'
  BY DEF OnItsWay, Ended
<1>7. QED
  BY <1>1, <1>4, <1>5, <1>6

\* On the way to its first leaf, and at the leaf before it has read it.
LEMMA WanderScans ==
  ASSUME Core, Core', NEW R, Known(R), ScansOK, NEW s \in Scanners, OnItsWay(s), ~t[s].moved,
         t'[s].pc \notin {"locked", "valid"}
  PROVE  ScansOK'
<1>1. OutOK(s)' /\ SeenSoFar(s)' /\ Ended(s)' /\ node' = node /\ scan' = scan /\ Alone(s)
  BY WayOut DEF ScansOK
<1>2. ~t'[s].moved
  BY DEF OnItsWay, KeepScan
<1>3. Reached(s)' /\ PageOK(s)'
  BY <1>2 DEF Reached, PageOK
<1>4. ScanOK(s)'
  BY <1>1, <1>3 DEF ScanOK
<1>5. QED
  BY <1>1, <1>4, OneScan DEF ScansOK

\* At a later leaf: it stays there.
Stays(s) ==
  /\ OnItsWay(s) /\ t[s].moved /\ t[s].pc \in {"again", "read", "locked", "valid"}
  /\ t'[s].pc \in {"again", "read", "locked", "valid"} /\ t'[s].cur = t[s].cur
  /\ t'[s].pc # "again" => t'[s].ver <= node[t[s].cur].version

LEMMA StayReached ==
  ASSUME NEW s, Stays(s), Reached(s)
  PROVE  Reached(s)'
<1>1. PICK c, q : c = t[s].cur /\ q = scan[s].out
  OBVIOUS
<1>2. /\ node' = node /\ scan'[s] = scan[s] /\ t'[s].cur = c /\ t'[s].from = t[s].from /\ scan'[s].out = q
      /\ t'[s].pc # "again" => t'[s].ver <= node[c].version
  BY <1>1 DEF Stays, OnItsWay, Walked, Still, KeepScan
<1>3. /\ c \in Leaves \ {Begin} /\ t[s].from < First(c)
      /\ \A i \in DOMAIN q : q[i].key < First(c)
      /\ \A k \in Keys : Lasting(s, k) /\ k < First(c) => Lists(q, k)
  BY <1>1 DEF Stays, Reached
<1>4. Leaves' = Leaves /\ First(c)' = First(c)
  BY <1>2 DEF Leaves, First
<1>5. \A k \in Keys : Lasting(s, k)' => Lasting(s, k)
  BY <1>2 DEF Lasting
<1>6. QED
  BY <1>2, <1>3, <1>4, <1>5 DEF Reached, Lists, First, Begin

LEMMA RereadScans ==
  ASSUME Core, Core', NEW R, Known(R), ScansOK, NEW s \in Scanners, Stays(s), t'[s].pc \in {"again", "read"}
  PROVE  ScansOK'
<1>1. ScanOK(s) /\ OnItsWay(s)
  BY DEF ScansOK, Stays
<1>2. OutOK(s)' /\ SeenSoFar(s)' /\ Ended(s)' /\ node' = node /\ scan' = scan /\ Alone(s)
  BY <1>1, WayOut
<1>3. Reached(s)'
  BY <1>1, StayReached DEF ScanOK
<1>4. PageOK(s)'
  BY DEF PageOK
<1>5. ScanOK(s)'
  BY <1>2, <1>3, <1>4 DEF ScanOK
<1>6. QED
  BY <1>2, <1>5, OneScan DEF ScansOK

\* On its way to its first leaf.
LEMMA WanderSteps ==
  ASSUME Core, Aims, Core', NEW R, Known(R), ScansOK, NEW s \in Scanners,
         \/ LoadRoot(s) \/ LoadRootVersion(s) \/ CheckRoot(s)
         \/ FindChild(s) \/ LoadChildVersion(s) \/ CheckChildLocked(s) \/ CheckChildVersion(s)
         \/ WalkVersion(s) \/ WalkNext(s)
  PROVE  ScansOK'
<1>0. s \in Threads /\ Arrive(s) \in {"read", "lock"}
  BY Arrives DEF Threads
<1>1. /\ Walked(s) /\ KeepScan(s)
      /\ t[s].pc \in {"root", "walkver", "walknext"} \union AtRoot \union AtInner
      /\ t'[s].pc \in {"root", "walkver", "walknext", "read", "lock"} \union AtRoot \union AtInner
  <2>1. CASE LoadRoot(s) \/ LoadRootVersion(s)
    BY <1>0, <2>1, LoadRootFacts, LoadRootVersionFacts DEF AtRoot
  <2>2. CASE CheckRoot(s)
    BY <1>0, <2>2, CheckRootFacts DEF AtRoot, AtInner
  <2>3. CASE FindChild(s)
    BY <1>0, <2>3, FindChildFacts DEF AtInner
  <2>4. CASE LoadChildVersion(s)
    BY <1>0, <2>4, LoadChildVersionFacts DEF AtInner
  <2>5. CASE CheckChildLocked(s)
    BY <1>0, <2>5, CheckChildLockedFacts DEF AtInner
  <2>6. CASE CheckChildVersion(s)
    BY <1>0, <2>6, CheckChildVersionFacts DEF AtInner
  <2>7. CASE WalkVersion(s)
    BY <1>0, <2>7, WalkVersionFacts
  <2>8. CASE WalkNext(s)
    BY <1>0, <2>8, WalkNextFacts
  <2>9. QED
    BY <2>1, <2>2, <2>3, <2>4, <2>5, <2>6, <2>7, <2>8
<1>2. ~t[s].moved
  BY <1>1 DEF Aims, Aimed, AtRoot, AtInner
<1>3. OnItsWay(s) /\ t'[s].pc \notin {"locked", "valid"}
  BY <1>1 DEF OnItsWay, AtRoot, AtInner
<1>4. QED
  BY <1>2, <1>3, WanderScans

\* A leaf that changed, or may change, is read again, or left for its next.
LEMMA AgainSteps ==
  ASSUME Core, Aims, Core', NEW R, Known(R), ScansOK, NEW s \in Scanners,
         (CheckLocked(s) /\ t'[s].pc # "valid") \/ CheckChanged(s) \/ ScanVersion(s)
  PROVE  ScansOK'
<1>0. s \in Threads /\ ThreadOK(s) /\ Aimed(s)
  BY DEF Threads, Core, TypesOK, Aims
<1>1. /\ Walked(s) /\ KeepScan(s) /\ t[s].pc \in {"locked", "valid", "again"} /\ t'[s].cur = t[s].cur
      /\ t'[s].pc \in {"again", "walkver", "read"}
      /\ t'[s].pc = "again" => t[s].moved
      /\ t'[s].pc = "walkver" => ~t[s].moved
      /\ t'[s].pc = "read" => t[s].moved /\ t'[s].ver = node[t[s].cur].version
  <2>1. CASE CheckLocked(s) /\ t'[s].pc # "valid"
    BY <1>0, <2>1, CheckLockedFacts DEF KeepPlace
  <2>2. CASE CheckChanged(s)
    BY <1>0, <2>2, CheckChangedFacts DEF KeepPlace
  <2>3. CASE ScanVersion(s)
    BY <1>0, <2>3, ScanVersionFacts DEF Aimed
  <2>4. QED
    BY <2>1, <2>2, <2>3
<1>2. OnItsWay(s)
  BY <1>1 DEF OnItsWay
<1>3. CASE ~t[s].moved
  BY <1>1, <1>2, <1>3, WanderScans
<1>4. CASE t[s].moved
  <2>1. node[t[s].cur].version \in Nat
    <3>1. t[s].cur \in DOMAIN node /\ node \in Seq(Node)
      BY <1>0, <1>1 DEF ThreadOK, AtLeaf, Reading, Core, TypesOK, TreeOK
    <3>2. QED
      BY <3>1, NodeFacts
  <2>2. t'[s].pc # "again" => t'[s].ver <= node[t[s].cur].version
    BY <1>1, <1>4, <2>1
  <2>3. Stays(s)
    BY <1>1, <1>2, <1>4, <2>2 DEF Stays
  <2>4. QED
    BY <1>1, <1>4, <2>3, RereadScans
<1>5. QED
  BY <1>3, <1>4

\* BufOK for the leaf, its next and the records themselves.
PageIs(s, c, x, q) ==
  /\ Returnable(s, q)
  /\ t[s].moved => \A i \in DOMAIN q : First(c) <= q[i].key
  /\ x # Nil => /\ x \in Leaves \ {Begin} /\ t[s].from < First(x)
                /\ t[s].moved => First(c) < First(x)
                /\ \A i \in DOMAIN q : q[i].key < First(x)
  /\ \A k \in Keys : Lasting(s, k) /\ (t[s].moved => First(c) <= k) /\ (x # Nil => k < First(x)) => Lists(q, k)

LEMMA PageNow ==
  ASSUME NEW s, NEW c, c = t[s].cur, NEW x, x = t[s].nxt, NEW q, q = t[s].buf, BufOK(s)
  PROVE  PageIs(s, c, x, q)
  BY DEF BufOK, PageIs

LEMMA PageThen ==
  ASSUME NEW s, NEW c, NEW x, NEW q, PageIs(s, c, x, q), node' = node, scan' = scan,
         t'[s].from = t[s].from, t'[s].moved = t[s].moved,
         t'[s].cur = c, t'[s].nxt = x, t'[s].buf = q
  PROVE  BufOK(s)'
<1>1. Leaves' = Leaves /\ First(c)' = First(c) /\ First(x)' = First(x)
  BY DEF Leaves, First
<1>2. \A k \in Keys : Lasting(s, k)' <=> Lasting(s, k)
  BY DEF Lasting
<1>3. Returnable(s, q)'
  BY DEF PageIs, Returnable
<1>4. /\ t'[s].moved => \A i \in DOMAIN q : First(c)' <= q[i].key
      /\ x # Nil => /\ x \in (Leaves \ {Begin})' /\ t'[s].from < First(x)'
                    /\ t'[s].moved => First(c)' < First(x)'
                    /\ \A i \in DOMAIN q : q[i].key < First(x)'
  BY <1>1 DEF PageIs, Begin
<1>5. \A k \in Keys : Lasting(s, k)' /\ (t'[s].moved => First(c)' <= k) /\ (x # Nil => k < First(x)') => Lists(q, k)
  BY <1>1, <1>2 DEF PageIs
<1>6. QED
  BY <1>3, <1>4, <1>5 DEF BufOK, Returnable, Lists, Lasting, First

\* The leaf is not locked: if its version has not changed, neither has the leaf.
LEMMA ValidStep ==
  ASSUME Core, Aims, Core', NEW R, Known(R), ScansOK, NEW s \in Scanners,
         CheckLocked(s), t'[s].pc = "valid"
  PROVE  ScansOK'
<1>0. s \in Threads /\ ThreadOK(s) /\ ScanOK(s) /\ LocalsOK(s)
  BY LocalFacts DEF Threads, Core, TypesOK, ScansOK
<1>1. PICK c, v, x, q : c = t[s].cur /\ v = t[s].ver /\ x = t[s].nxt /\ q = t[s].buf
  OBVIOUS
<1>2. /\ Walked(s) /\ KeepScan(s) /\ t[s].pc = "locked" /\ t'[s].cur = c /\ t'[s].ver = v /\ t'[s].nxt = x
      /\ ~node[c].locked
  BY <1>0, <1>1, CheckLockedFacts DEF KeepPlace
<1>3. t'[s].buf = q
  BY <1>0, <1>1 DEF CheckLocked, Goto, LocalsOK, NoOp
<1>4. OnItsWay(s)
  BY <1>2 DEF OnItsWay
<1>5. OutOK(s)' /\ SeenSoFar(s)' /\ Ended(s)' /\ node' = node /\ scan' = scan /\ Alone(s)
  BY <1>0, <1>4, WayOut
<1>6. Reached(s)'
  <2>1. CASE ~t[s].moved
    BY <1>2, <2>1 DEF KeepScan, Reached
  <2>2. CASE t[s].moved
    <3>1. t'[s].ver <= node[t[s].cur].version
      BY <1>0, <1>1, <1>2, <2>2 DEF ScanOK, Reached
    <3>2. Stays(s)
      BY <1>1, <1>2, <1>4, <2>2, <3>1 DEF Stays
    <3>3. QED
      BY <1>0, <3>2, StayReached DEF ScanOK
  <2>3. QED
    BY <2>1, <2>2
<1>7. ASSUME node[c].version = v PROVE BufOK(s)'
  <2>1. c \in DOMAIN node
    BY <1>0, <1>1, <1>2 DEF ThreadOK, AtLeaf, Reading
  <2>2. ~node[c].torn
    <3>1. ASSUME node[c].torn PROVE FALSE
      <4>1. PICK q1 \in Procs : Tearing(q1, c)
        BY <2>1, <3>1 DEF Core, LocksOK
      <4>2. Owns(q1, c)
        BY <4>1, Tears DEF Core
      <4>3. node[c].locked
        BY <2>1, <4>2 DEF Core, LocksOK
      <4>4. QED
        BY <1>2, <4>3
    <3>2. QED
      BY <3>1
  <2>3. BufOK(s)
    BY <1>0, <1>1, <1>2, <1>7, <2>2 DEF ScanOK, PageOK, Fresh
  <2>4. PageIs(s, c, x, q)
    BY <1>1, <2>3, PageNow
  <2>5. t'[s].from = t[s].from /\ t'[s].moved = t[s].moved
    BY <1>2 DEF KeepScan
  <2>6. QED
    BY <1>2, <1>3, <1>5, <2>4, <2>5, PageThen
<1>8. PageOK(s)'
  BY <1>2, <1>5, <1>7 DEF PageOK
<1>9. ScanOK(s)'
  BY <1>5, <1>6, <1>8 DEF ScanOK
<1>10. QED
  BY <1>5, <1>9, OneScan DEF ScansOK

\* A leaf that did not change since the scan came to it, nor is being changed: its
\* records from key_begin on are those of its range.
LEMMA LeafPage ==
  ASSUME Core, ChainOK, NEW R, Known(R), NEW s \in Scanners, ScanOK(s), Aimed(s), t[s].pc = "read",
         NEW c, c = t[s].cur, Fresh(c, t[s].ver), NEW S,
         S = {i \in Valid(node[c]) : t[s].moved \/ node[c].keys[i] >= t[s].from},
         NEW q, q = Records(node[c], S), NEW x, x = node[c].next
  PROVE  PageIs(s, c, x, q)
<1>0. s \in Threads /\ ThreadOK(s) /\ TreeOK /\ RangesOK(R)
  BY DEF Threads, Core, TypesOK, Known
<1>1. PICK ks, vs, f, m : ks = node[c].keys /\ vs = node[c].vals /\ f = t[s].from /\ m = t[s].moved
  OBVIOUS
<1>2. /\ c \in Leaves /\ c \in DOMAIN node /\ node[c].leaf /\ f \in Nat
      /\ x # Nil => x \in Leaves \ {Begin} /\ x \in DOMAIN node
  <2>1. c \in DOMAIN node /\ node[c].leaf
    BY <1>0 DEF ThreadOK, AtLeaf, Reading
  <2>2. c \in Leaves
    BY <2>1 DEF Leaves
  <2>3. x # Begin
    BY <2>2 DEF ChainOK
  <2>4. x # Nil => x \in Leaves /\ x \in DOMAIN node
    BY <1>0, <2>2, LeafNext
  <2>5. QED
    BY <1>1, <2>1, <2>2, <2>3, <2>4 DEF Aimed
<1>3. /\ ks \in Seq(Keys) /\ ks \in Seq(Nat) /\ Sorted(ks) /\ ks # <<>> /\ vs \in Seq(Maybe)
      /\ DOMAIN vs = DOMAIN ks
  <2>1. /\ ks \in Seq(Keys) /\ vs \in Seq(Maybe) /\ Len(ks) \in 1..Capacity /\ DOMAIN vs = DOMAIN ks
    BY <1>0, <1>1, <1>2, LeafFacts
  <2>2. QED
    BY <1>1, <1>2, <2>1, KeySeq, KeyFacts DEF ChainOK
<1>4. /\ S \in SUBSET (DOMAIN ks)
      /\ \A i \in DOMAIN ks : i \in S <=> vs[i] # None /\ (m \/ ks[i] >= f)
  BY <1>1, <1>3 DEF Valid
<1>5. IsRecords(c, S, q)
  BY <1>0, <1>1, <1>2, <1>3, <1>4, RecordsAre
<1>6. /\ First(c) = Head(ks) /\ First(c) \in Nat
      /\ \A i \in DOMAIN ks : ks[i] \in Nat /\ First(c) <= ks[i]
      /\ 1 \in DOMAIN ks /\ First(c) = ks[1]
  BY <1>1, <1>3, SortedEnds DEF First
<1>7. x # Nil => First(x) \in Nat
  <2>1. ASSUME x # Nil PROVE First(x) \in Nat
    <3>1. node[x].keys \in Seq(Keys) /\ Len(node[x].keys) \in 1..Capacity /\ Sorted(node[x].keys)
      BY <1>0, <1>2, <2>1, LeafFacts DEF Leaves, ChainOK
    <3>2. node[x].keys \in Seq(Nat) /\ node[x].keys # <<>>
      BY <3>1, KeySeq, KeyFacts
    <3>3. QED
      BY <3>1, <3>2, SortedEnds DEF First
  <2>2. QED
    BY <2>1
<1>8. ASSUME NEW k \in R[c], k \in Nat PROVE Logical(k) = ValueIn(c, k) /\ (x # Nil => k < First(x))
  <2>1. InRange(c, k)
    BY <1>0, <1>2, <1>8 DEF RangesOK, LeavesDivide
  <2>2. Logical(k) = ValueIn(c, k)
    BY <1>0, <1>2, <1>8, LogicalIs
  <2>3. QED
    BY <2>1, <2>2 DEF InRange, High, First
<1>9. ASSUME NEW i \in DOMAIN ks
      PROVE  /\ ks[i] \in R[c] /\ ks[i] \in Nat /\ ks[i] \in Keys /\ Logical(ks[i]) = vs[i]
             /\ (x # Nil => ks[i] < First(x))
  <2>1. ks[i] \in R[c]
    BY <1>0, <1>1, <1>2, <1>9 DEF RangesOK, KeysIn
  <2>2. PICK k : k = ks[i]
    OBVIOUS
  <2>3. k \in Nat /\ k \in Keys
    BY <1>3, <1>9, <2>2
  <2>4. ValueIn(c, k) = vs[i]
    <3>1. Sorted(node[c].keys) /\ i \in DOMAIN node[c].keys /\ k = node[c].keys[i]
      BY <1>1, <1>3, <1>9, <2>2
    <3>2. ValueIn(c, k) = node[c].vals[i]
      BY <1>0, <1>2, <3>1, SlotOf
    <3>3. QED
      BY <1>1, <3>2
  <2>5. QED
    BY <1>8, <2>1, <2>2, <2>3, <2>4
<1>10. \A k \in Keys : Logical(k) \in scan[s].seen[k]
  BY DEF ScanOK, SeenSoFar
<1>11. m => c # Begin /\ f < First(c)
  BY <1>1 DEF ScanOK, Reached
<1>12. ~m => f \in R[c] /\ Low(c, f)
  <2>1. ASSUME ~m PROVE f \in R[c] /\ Low(c, f)
    <3>1. Arrival(R, s)
      BY <1>0, <1>1, <2>1 DEF Known
    <3>2. Key(s) = f
      BY <1>1 DEF Key
    <3>3. QED
      BY <3>1, <3>2 DEF Arrival, AtLeaf, Reading
  <2>2. QED
    BY <2>1
<1>13. ASSUME NEW j \in DOMAIN q
       PROVE  /\ q[j].val \in scan[s].seen[q[j].key] /\ q[j].key >= f
              /\ First(c) <= q[j].key /\ (x # Nil => q[j].key < First(x))
  <2>1. PICK i \in S : q[j].key = node[c].keys[i] /\ q[j].val = node[c].vals[i]
    BY <1>5, <1>13 DEF IsRecords
  <2>2. PICK k : k = ks[i]
    OBVIOUS
  <2>3. q[j].key = k /\ q[j].val = vs[i] /\ i \in DOMAIN ks /\ (m \/ k >= f)
    BY <1>1, <1>4, <2>1, <2>2
  <2>4. k \in Nat /\ k \in Keys /\ Logical(k) = vs[i] /\ (x # Nil => k < First(x)) /\ First(c) <= k
    BY <1>6, <1>9, <2>2, <2>3
  <2>5. k >= f
    BY <1>2, <1>6, <1>11, <2>3, <2>4
  <2>6. vs[i] \in scan[s].seen[k]
    BY <1>10, <2>4
  <2>7. QED
    BY <2>3, <2>4, <2>5, <2>6
<1>14. Returnable(s, q)
  <2>1. q \in Seq(Record) /\ Rising(q)
    BY <1>5 DEF IsRecords
  <2>2. \A i \in DOMAIN q : q[i].val \in scan[s].seen[q[i].key] /\ q[i].key >= t[s].from
    BY <1>1, <1>13
  <2>3. QED
    BY <2>1, <2>2 DEF Returnable
<1>15. x # Nil => f < First(x)
  <2>1. CASE m
    <3>1. x # Nil => First(c) < First(x)
      BY <1>6, <1>9
    <3>2. QED
      BY <1>2, <1>6, <1>7, <1>11, <2>1, <3>1
  <2>2. CASE ~m
    BY <1>2, <1>8, <1>12, <2>2
  <2>3. QED
    BY <2>1, <2>2
<1>16. ASSUME NEW k \in Keys, Lasting(s, k), m => First(c) <= k, x # Nil => k < First(x)
       PROVE  Lists(q, k)
  <2>1. k \in Nat /\ k >= f /\ None \notin scan[s].seen[k]
    BY <1>1, <1>16, KeyFacts DEF Lasting
  <2>2. Low(c, k)
    <3>1. CASE m
      BY <1>6, <1>16, <3>1, <1>1 DEF Low, First
    <3>2. CASE ~m
      <4>1. c = Begin \/ First(c) <= f
        BY <1>12, <3>2 DEF Low, First
      <4>2. c = Begin \/ First(c) <= k
        BY <1>2, <1>6, <2>1, <4>1
      <4>3. QED
        BY <4>2 DEF Low, First
    <3>3. QED
      BY <3>1, <3>2
  <2>3. InRange(c, k)
    BY <1>16, <2>2 DEF InRange, High, First
  <2>4. k \in R[c]
    BY <1>0, <1>2, <2>1, <2>3 DEF RangesOK, LeavesDivide
  <2>5. ValueIn(c, k) # None
    BY <1>8, <1>10, <2>1, <2>4
  <2>6. PICK i \in DOMAIN ks : ks[i] = k
    BY <1>1, <2>5 DEF ValueIn, Holds
  <2>7. vs[i] # None
    BY <1>8, <1>9, <2>1, <2>4, <2>5, <2>6
  <2>8. i \in S
    BY <1>4, <2>1, <2>6, <2>7
  <2>9. QED
    BY <1>1, <1>5, <2>6, <2>8 DEF IsRecords
<1>17. QED
  <2>1. x # Nil => First(c) < First(x)
    BY <1>6, <1>9
  <2>2. QED
    BY <1>1, <1>2, <1>13, <1>14, <1>15, <1>16, <2>1 DEF PageIs

LEMMA ScanLeafStep ==
  ASSUME Core, Ordered, Core', NEW R, Known(R), ScansOK, NEW s \in Scanners, ScanLeaf(s)
  PROVE  ScansOK'
<1>0. s \in Threads /\ ThreadOK(s) /\ ScanOK(s) /\ LocalsOK(s) /\ Aimed(s) /\ ChainOK
  BY LocalFacts DEF Threads, Core, TypesOK, ScansOK, Ordered, Aims
<1>1. PICK c, v, x : c = t[s].cur /\ v = t[s].ver /\ x = node[c].next
  OBVIOUS
<1>2. /\ Walked(s) /\ KeepScan(s) /\ t[s].pc = "read" /\ t'[s].pc = "locked"
      /\ t'[s].cur = c /\ t'[s].ver = v /\ t'[s].nxt = x
  BY <1>0, <1>1, ScanLeafFacts
<1>3. PICK S : S = {i \in Valid(node[c]) : t[s].moved \/ node[c].keys[i] >= t[s].from}
  OBVIOUS
<1>4. PICK q : q = IF node[c].torn THEN <<[key |-> t[s].from, val |-> Garbage]>> ELSE Records(node[c], S)
  OBVIOUS
<1>5. t'[s].buf = q
  <2>1. SetBuf(s, "locked", x, q)
    BY <1>1, <1>3, <1>4 DEF ScanLeaf, SetBuf, N
  <2>2. QED
    BY <1>0, <2>1, ScanLeafDoes
<1>6. OnItsWay(s)
  BY <1>2 DEF OnItsWay
<1>7. OutOK(s)' /\ SeenSoFar(s)' /\ Ended(s)' /\ node' = node /\ scan' = scan /\ Alone(s)
  BY <1>0, <1>6, WayOut
<1>8. Reached(s)'
  <2>1. CASE ~t[s].moved
    BY <1>2, <2>1 DEF KeepScan, Reached
  <2>2. CASE t[s].moved
    <3>1. t'[s].ver <= node[t[s].cur].version
      BY <1>0, <1>1, <1>2, <2>2 DEF ScanOK, Reached
    <3>2. Stays(s)
      BY <1>1, <1>2, <1>6, <2>2, <3>1 DEF Stays
    <3>3. QED
      BY <1>0, <3>2, StayReached DEF ScanOK
  <2>3. QED
    BY <2>1, <2>2
<1>9. ASSUME Fresh(c, v) PROVE BufOK(s)'
  <2>1. q = Records(node[c], S)
    BY <1>4, <1>9 DEF Fresh
  <2>2. PageIs(s, c, x, q)
    BY <1>0, <1>1, <1>2, <1>3, <1>9, <2>1, LeafPage
  <2>3. t'[s].from = t[s].from /\ t'[s].moved = t[s].moved
    BY <1>2 DEF KeepScan
  <2>4. QED
    BY <1>2, <1>5, <1>7, <2>2, <2>3, PageThen
<1>10. PageOK(s)'
  BY <1>2, <1>7, <1>9 DEF PageOK, Fresh
<1>11. ScanOK(s)'
  BY <1>7, <1>8, <1>10 DEF ScanOK
<1>12. QED
  BY <1>7, <1>11, OneScan DEF ScansOK

\* Records and the records after them.
LEMMA Joined ==
  ASSUME NEW a \in Seq(Record), NEW b \in Seq(Record), NEW q, q = a \o b
  PROVE  /\ q \in Seq(Record)
         /\ \A i \in DOMAIN q : (\E j \in DOMAIN a : q[i] = a[j]) \/ (\E j \in DOMAIN b : q[i] = b[j])
         /\ \A k : Lists(a, k) \/ Lists(b, k) => Lists(q, k)
         /\ Rising(a) /\ Rising(b) /\ (\A i \in DOMAIN a, j \in DOMAIN b : a[i].key < b[j].key) => Rising(q)
<1>1. PICK m, n : m = Len(a) /\ n = Len(b)
  OBVIOUS
<1>2. m \in Nat /\ n \in Nat /\ DOMAIN a = 1..m /\ DOMAIN b = 1..n
  BY <1>1, SeqFacts
<1>3. /\ q \in Seq(Record) /\ DOMAIN q = 1..(m + n)
      /\ \A i \in 1..m : q[i] = a[i]
      /\ \A i \in (m + 1)..(m + n) : q[i] = b[i - m]
  BY <1>1, <1>2
<1>4. ASSUME NEW i \in DOMAIN q
      PROVE  (i \in 1..m /\ q[i] = a[i]) \/ (i > m /\ i - m \in 1..n /\ q[i] = b[i - m])
  BY <1>2, <1>3, <1>4
<1>5. ASSUME NEW i \in 1..n PROVE m + i \in DOMAIN q /\ q[m + i] = b[i]
  <2>1. m + i \in (m + 1)..(m + n) /\ (m + i) - m = i
    BY <1>2, <1>5
  <2>2. m + i \in DOMAIN q
    BY <1>2, <1>3, <2>1
  <2>3. QED
    BY <1>3, <2>1, <2>2
<1>6. \A i \in DOMAIN q : (\E j \in DOMAIN a : q[i] = a[j]) \/ (\E j \in DOMAIN b : q[i] = b[j])
  BY <1>2, <1>4
<1>7. ASSUME NEW k, Lists(a, k) \/ Lists(b, k) PROVE Lists(q, k)
  <2>1. CASE Lists(a, k)
    <3>1. PICK i \in 1..m : a[i].key = k
      BY <1>2, <2>1 DEF Lists
    <3>2. i \in DOMAIN q /\ q[i] = a[i]
      BY <1>2, <1>3
    <3>3. QED
      BY <3>1, <3>2 DEF Lists
  <2>2. CASE Lists(b, k)
    <3>1. PICK i \in 1..n : b[i].key = k
      BY <1>2, <2>2 DEF Lists
    <3>2. QED
      BY <1>5, <3>1 DEF Lists
  <2>3. QED
    BY <1>7, <2>1, <2>2
<1>8. ASSUME Rising(a), Rising(b), \A i \in DOMAIN a, j \in DOMAIN b : a[i].key < b[j].key
      PROVE  Rising(q)
  <2> SUFFICES ASSUME NEW i \in DOMAIN q, NEW j \in DOMAIN q, i < j PROVE q[i].key < q[j].key
    BY DEF Rising
  <2>1. i \in Nat /\ j \in Nat
    BY <1>3
  <2>2. CASE j \in 1..m /\ q[j] = a[j]
    <3>1. i \in 1..m /\ q[i] = a[i]
      BY <1>2, <1>4, <2>1, <2>2
    <3>2. QED
      BY <1>2, <1>8, <2>2, <3>1 DEF Rising
  <2>3. CASE j > m /\ j - m \in 1..n /\ q[j] = b[j - m]
    <3>1. CASE i \in 1..m /\ q[i] = a[i]
      BY <1>2, <1>8, <2>3, <3>1
    <3>2. CASE i > m /\ i - m \in 1..n /\ q[i] = b[i - m]
      <4>1. PICK x, y : x = i - m /\ y = j - m
        OBVIOUS
      <4>2. x \in DOMAIN b /\ y \in DOMAIN b /\ x < y
        BY <1>2, <2>1, <2>3, <3>2, <4>1
      <4>3. b[x].key < b[y].key
        BY <1>8, <4>2 DEF Rising
      <4>4. QED
        BY <2>3, <3>2, <4>1, <4>3
    <3>3. QED
      BY <1>4, <3>1, <3>2
  <2>4. QED
    BY <1>4, <2>2, <2>3
<1>9. QED
  BY <1>3, <1>6, <1>7, <1>8

LEMMA FirstNat ==
  ASSUME Core, NEW c \in Leaves
  PROVE  First(c) \in Nat
<1>1. TreeOK /\ c \in DOMAIN node /\ node[c].leaf
  BY DEF Core, TypesOK, Leaves
<1>2. node[c].keys \in Seq(Keys) /\ Len(node[c].keys) \in 1..Capacity
  BY <1>1, LeafFacts
<1>3. node[c].keys # <<>> /\ Head(node[c].keys) \in Keys
  BY <1>2, KeyFacts
<1>4. QED
  BY <1>3, KeyFacts DEF First

\* What a scan has returned, with the records of a leaf it has validated.
LEMMA JoinedOut ==
  ASSUME Core, NEW R, Known(R), NEW s \in Scanners, ScanOK(s), BufOK(s), t[s].pc = "valid",
         t[s].from \in Nat, NEW o, o = scan[s].out \o t[s].buf
  PROVE  /\ Returnable(s, o)
         /\ t[s].nxt # Nil => \A i \in DOMAIN o : o[i].key < First(t[s].nxt)
         /\ \A k \in Keys : Lasting(s, k) /\ (t[s].nxt # Nil => k < First(t[s].nxt)) => Lists(o, k)
<1>1. PICK a, b, c, x, m : a = scan[s].out /\ b = t[s].buf /\ c = t[s].cur /\ x = t[s].nxt /\ m = t[s].moved
  OBVIOUS
<1>2. /\ a \in Seq(Record) /\ Rising(a) /\ b \in Seq(Record) /\ Rising(b)
      /\ \A i \in DOMAIN a : a[i].val \in scan[s].seen[a[i].key] /\ a[i].key >= t[s].from
      /\ \A i \in DOMAIN b : b[i].val \in scan[s].seen[b[i].key] /\ b[i].key >= t[s].from
  BY <1>1 DEF ScanOK, OutOK, BufOK, Returnable
<1>3. \A i \in DOMAIN a : a[i].key \in Nat
  <2>1. \A i \in DOMAIN a : a[i] \in Record
    BY <1>2, SeqFacts
  <2>2. QED
    BY <2>1, KeyFacts DEF Record
<1>4. \A i \in DOMAIN b : b[i].key \in Nat
  <2>1. \A i \in DOMAIN b : b[i] \in Record
    BY <1>2, SeqFacts
  <2>2. QED
    BY <2>1, KeyFacts DEF Record
<1>5. ~m => a = <<>>
  BY <1>1 DEF ScanOK, OutOK
<1>6. m => /\ c \in Leaves /\ First(c) \in Nat
           /\ \A i \in DOMAIN a : a[i].key < First(c)
           /\ \A i \in DOMAIN b : First(c) <= b[i].key
           /\ \A k \in Keys : Lasting(s, k) /\ k < First(c) => Lists(a, k)
  <2>1. ASSUME m
        PROVE  /\ c \in Leaves
               /\ \A i \in DOMAIN a : a[i].key < First(c)
               /\ \A i \in DOMAIN b : First(c) <= b[i].key
               /\ \A k \in Keys : Lasting(s, k) /\ k < First(c) => Lists(a, k)
    <3>1. Reached(s)
      BY DEF ScanOK
    <3>2. QED
      BY <1>1, <2>1, <3>1 DEF Reached, BufOK
  <2>2. ASSUME m PROVE First(c) \in Nat
    BY <2>1, <2>2, FirstNat
  <2>3. QED
    BY <2>1, <2>2
<1>7. \A i \in DOMAIN a, j \in DOMAIN b : a[i].key < b[j].key
  <2> SUFFICES ASSUME NEW i \in DOMAIN a, NEW j \in DOMAIN b PROVE a[i].key < b[j].key
    OBVIOUS
  <2>1. m
    BY <1>5
  <2>2. QED
    BY <1>3, <1>4, <1>6, <2>1
<1>8. /\ o \in Seq(Record) /\ Rising(o)
      /\ \A i \in DOMAIN o : (\E j \in DOMAIN a : o[i] = a[j]) \/ (\E j \in DOMAIN b : o[i] = b[j])
      /\ \A k : Lists(a, k) \/ Lists(b, k) => Lists(o, k)
  <2>1. o = a \o b
    BY <1>1
  <2>2. a \in Seq(Record) /\ b \in Seq(Record)
    BY <1>2
  <2>3. /\ o \in Seq(Record)
        /\ \A i \in DOMAIN o : (\E j \in DOMAIN a : o[i] = a[j]) \/ (\E j \in DOMAIN b : o[i] = b[j])
        /\ \A k : Lists(a, k) \/ Lists(b, k) => Lists(o, k)
        /\ Rising(a) /\ Rising(b) /\ (\A i \in DOMAIN a, j \in DOMAIN b : a[i].key < b[j].key) => Rising(o)
    BY <2>1, <2>2, Joined
  <2>4. QED
    BY <1>2, <1>7, <2>3
<1>9. Returnable(s, o)
  BY <1>2, <1>8 DEF Returnable
<1>10. ASSUME x # Nil PROVE \A i \in DOMAIN o : o[i].key < First(x)
  <2>1. \A i \in DOMAIN b : b[i].key < First(x)
    BY <1>1, <1>10 DEF BufOK
  <2>2. \A i \in DOMAIN a : a[i].key < First(x)
    <3> SUFFICES ASSUME NEW i \in DOMAIN a PROVE a[i].key < First(x)
      OBVIOUS
    <3>1. m
      BY <1>5
    <3>2. x \in Leaves /\ First(c) < First(x)
      BY <1>1, <1>10, <3>1 DEF BufOK
    <3>3. First(x) \in Nat
      BY <3>2, FirstNat
    <3>4. QED
      BY <1>3, <1>6, <3>1, <3>2, <3>3
  <2>3. QED
    BY <1>8, <2>1, <2>2
<1>11. ASSUME NEW k \in Keys, Lasting(s, k), x # Nil => k < First(x) PROVE Lists(o, k)
  <2>1. CASE m => First(c) <= k
    <3>1. Lists(b, k)
      BY <1>1, <1>11, <2>1 DEF BufOK
    <3>2. QED
      BY <1>8, <3>1
  <2>2. CASE m /\ ~(First(c) <= k)
    <3>1. k < First(c)
      BY <1>6, <2>2, KeyFacts
    <3>2. QED
      BY <1>6, <1>8, <1>11, <2>2, <3>1
  <2>3. QED
    BY <2>1, <2>2
<1>12. QED
  BY <1>1, <1>9, <1>10, <1>11

\* The records of the leaf are returned: the scan ends, or goes on at the next leaf.
LEMMA ScanAcceptStep ==
  ASSUME Core, Ordered, Core', NEW R, Known(R), ScansOK, NEW s \in Scanners, ScanAccept(s)
  PROVE  ScansOK'
<1>0. s \in Threads /\ ScanOK(s) /\ Aimed(s) /\ DOMAIN scan = Scanners
  BY DEF Threads, ScansOK, Ordered, Aims
<1>1. PICK x, f, o : x = t[s].nxt /\ f = t[s].from /\ o = scan[s].out \o t[s].buf
  OBVIOUS
<1>2. /\ Alone(s) /\ node' = node /\ t[s].pc = "valid" /\ t'[s].from = f /\ f \in Nat
      /\ \/ t'[s].pc = "done" /\ x = Nil
         \/ t'[s].pc = "again" /\ t'[s].cur = x /\ x # Nil
  BY <1>0, <1>1, ScanAcceptFacts DEF Aimed
<1>3. BufOK(s)
  BY <1>0, <1>2 DEF ScanAccept, Unchanged, N, ScanOK, PageOK
<1>4. /\ DOMAIN scan' = Scanners /\ \A z \in Scanners : z # s => scan'[z] = scan[z]
      /\ scan'[s].out = o /\ scan'[s].seen = scan[s].seen
  <2>1. scan' = [scan EXCEPT ![s].out = o]
    BY <1>1 DEF ScanAccept
  <2>2. scan'[s] = [scan[s] EXCEPT !.out = o]
    BY <1>0, <2>1
  <2>3. QED
    BY <1>0, <2>1, <2>2
<1>5. /\ Returnable(s, o)
      /\ x # Nil => \A i \in DOMAIN o : o[i].key < First(x)
      /\ \A k \in Keys : Lasting(s, k) /\ (x # Nil => k < First(x)) => Lists(o, k)
  BY <1>0, <1>1, <1>2, <1>3, JoinedOut
<1>6. \A k \in Keys : Lasting(s, k)' => Lasting(s, k)
  BY <1>1, <1>2, <1>4 DEF Lasting
<1>7. OutOK(s)'
  <2>1. t'[s].pc = "done" \/ t'[s].moved
    BY <1>0, <1>2, ScanAcceptFacts
  <2>2. scan'[s].seen \in [Keys -> SUBSET Maybe]
    BY <1>0, <1>4 DEF ScanOK, OutOK
  <2>3. Returnable(s, o)'
    BY <1>1, <1>2, <1>4, <1>5 DEF Returnable
  <2>4. QED
    BY <1>4, <2>1, <2>2, <2>3 DEF OutOK, Returnable, Maybe
<1>8. SeenSoFar(s)'
  <2>1. \A k \in Keys : Logical(k)' = Logical(k)
    BY <1>2, LockLeaves, SameLogical
  <2>2. QED
    BY <1>0, <1>2, <1>4, <2>1 DEF ScanOK, SeenSoFar
<1>9. Ended(s)'
  BY <1>2, <1>4, <1>5, <1>6 DEF Ended, Lists
<1>10. PageOK(s)'
  BY <1>2 DEF PageOK
<1>11. Reached(s)'
  <2>1. CASE x = Nil
    BY <1>2, <2>1 DEF Reached
  <2>2. CASE x # Nil
    <3>1. x \in Leaves \ {Begin} /\ f < First(x)
      BY <1>1, <1>3, <2>2 DEF BufOK
    <3>2. Leaves' = Leaves /\ First(x)' = First(x)
      BY <1>2 DEF Leaves, First
    <3>3. /\ x \in Leaves' /\ x # Begin /\ f < First(x)'
          /\ \A i \in DOMAIN o : o[i].key < First(x)'
          /\ \A k \in Keys : Lasting(s, k)' /\ k < First(x)' => Lists(o, k)
      BY <1>5, <1>6, <2>2, <3>1, <3>2
    <3>4. t'[s].pc = "again" /\ t'[s].cur = x
      BY <1>2, <2>2
    <3>5. QED
      BY <1>2, <1>4, <3>3, <3>4 DEF Reached, First, Lists, Begin
  <2>3. QED
    BY <2>1, <2>2
<1>12. ScanOK(s)'
  BY <1>7, <1>8, <1>9, <1>10, <1>11 DEF ScanOK
<1>13. QED
  BY <1>2, <1>4, <1>12, OneScan

\* A scan begins: the values keys have are the first it may return.
LEMMA StartScanStep ==
  ASSUME Core, Ordered, Core', NEW R, Known(R), ScansOK, NEW s \in Scanners, StartScan(s)
  PROVE  ScansOK'
<1>0. ScanOK(s) /\ Aimed(s) /\ DOMAIN scan = Scanners /\ s \in Threads
  BY DEF Threads, ScansOK, Ordered, Aims
<1>1. PICK now : now = [k \in Keys |-> {Logical(k)}]
  OBVIOUS
<1>2. /\ Alone(s) /\ node' = node /\ t[s].pc = "idle" /\ t'[s].pc = "root" /\ ~t'[s].moved
      /\ scan[s] = NotBegun /\ scan' = [scan EXCEPT ![s].seen = now]
  BY <1>0, <1>1, StartScanFacts DEF Aimed
<1>3. /\ DOMAIN scan' = Scanners /\ \A z \in Scanners : z # s => scan'[z] = scan[z]
      /\ scan'[s].out = <<>> /\ scan'[s].seen = now
  <2>1. scan'[s] = [NotBegun EXCEPT !.seen = now]
    BY <1>0, <1>2
  <2>2. QED
    BY <1>0, <1>2, <2>1 DEF NotBegun
<1>4. \A k \in Keys : Logical(k)' = Logical(k) /\ Logical(k) \in Maybe
  <2>1. \A k \in Keys : Logical(k)' = Logical(k)
    BY <1>2, LockLeaves, SameLogical
  <2>2. \A k \in Keys : Logical(k) \in Maybe
    <3>1. TreeOK /\ \A k \in Keys : k \in Nat
      BY KeyFacts DEF Core, TypesOK
    <3>2. QED
      BY <3>1, LogicalType
  <2>3. QED
    BY <2>1, <2>2
<1>5. SeenSoFar(s)'
  BY <1>1, <1>3, <1>4 DEF SeenSoFar
<1>6. OutOK(s)'
  <2>1. now \in [Keys -> SUBSET Maybe]
    BY <1>1, <1>4
  <2>2. Returnable(s, <<>>)'
    BY DEF Returnable, Rising
  <2>3. QED
    BY <1>3, <2>1, <2>2 DEF OutOK, Returnable, Rising, Maybe
<1>7. Reached(s)' /\ PageOK(s)' /\ Ended(s)'
  BY <1>2 DEF Reached, PageOK, Ended
<1>8. ScanOK(s)'
  BY <1>5, <1>6, <1>7 DEF ScanOK
<1>9. QED
  BY <1>2, <1>3, <1>8, OneScan

LEMMA FinishScanStep ==
  ASSUME Core, Ordered, Core', NEW R, Known(R), ScansOK, NEW s \in Scanners, Finish(s)
  PROVE  ScansOK'
<1>0. ScanOK(s) /\ s \in Threads
  BY DEF Threads, ScansOK
<1>1. /\ Alone(s) /\ node' = node /\ scan' = scan
      /\ t'[s].pc = "idle" /\ t'[s].from = 0 /\ ~t'[s].moved
  BY <1>0, FinishFacts DEF NoOp
<1>2. OutOK(s)'
  <2>1. PICK q : q = scan[s].out
    OBVIOUS
  <2>2. Returnable(s, q)
    BY <1>0, <2>1 DEF ScanOK, OutOK
  <2>3. \A i \in DOMAIN q : q[i].key \in Nat
    <3>1. \A i \in DOMAIN q : q[i] \in Record
      BY <2>2, SeqFacts DEF Returnable
    <3>2. QED
      BY <3>1, KeyFacts DEF Record
  <2>4. Returnable(s, q)'
    BY <1>1, <2>2, <2>3 DEF Returnable
  <2>5. scan'[s].seen \in [Keys -> SUBSET Maybe]
    BY <1>0, <1>1 DEF ScanOK, OutOK
  <2>6. QED
    BY <1>1, <2>1, <2>4, <2>5 DEF OutOK, Returnable, Maybe
<1>3. SeenSoFar(s)' /\ Reached(s)' /\ PageOK(s)' /\ Ended(s)'
  BY <1>1 DEF SeenSoFar, Reached, PageOK, Ended
<1>4. ScanOK(s)'
  BY <1>2, <1>3 DEF ScanOK
<1>5. QED
  BY <1>1, <1>4, OneScan DEF ScansOK

LEMMA ScannerSteps ==
  ASSUME Core, Ordered, Core', NEW R, Known(R), ScansOK, NEW s \in Scanners,
         \/ LoadRoot(s) \/ LoadRootVersion(s) \/ CheckRoot(s)
         \/ FindChild(s) \/ LoadChildVersion(s) \/ CheckChildLocked(s) \/ CheckChildVersion(s)
         \/ WalkVersion(s) \/ WalkNext(s) \/ ReadLeaf(s) \/ ScanLeaf(s)
         \/ CheckLocked(s) \/ CheckChanged(s) \/ ScanVersion(s)
         \/ Finish(s) \/ Accept(s) \/ ScanAccept(s)
  PROVE  ScansOK'
<1>0. Aims /\ s \notin Procs
  BY ThreadsAssumption DEF Ordered
<1>1. CASE \/ LoadRoot(s) \/ LoadRootVersion(s) \/ CheckRoot(s)
           \/ FindChild(s) \/ LoadChildVersion(s) \/ CheckChildLocked(s) \/ CheckChildVersion(s)
           \/ WalkVersion(s) \/ WalkNext(s)
  BY <1>0, <1>1, WanderSteps
<1>2. CASE CheckLocked(s)
  BY <1>0, <1>2, ValidStep, AgainSteps
<1>3. CASE CheckChanged(s) \/ ScanVersion(s)
  BY <1>0, <1>3, AgainSteps
<1>4. CASE ScanLeaf(s) \/ ScanAccept(s) \/ Finish(s)
  BY <1>4, ScanLeafStep, ScanAcceptStep, FinishScanStep
<1>5. CASE ReadLeaf(s) \/ Accept(s)
  BY <1>0, <1>5 DEF ReadLeaf, Accept
<1>6. QED
  BY <1>1, <1>2, <1>3, <1>4, <1>5

LEMMA NextScans ==
  ASSUME Core, Ordered, Core', Ordered', ScansOK, Next
  PROVE  ScansOK'
<1>0. PICK R : Known(R)
  BY DEF Ordered
<1>1. CASE \E p \in Procs : Start(p)
  BY <1>0, <1>1, ProcScans
<1>2. CASE \E s \in Scanners : StartScan(s)
  BY <1>0, <1>2, StartScanStep
<1>3. CASE \E p \in Threads : Step(p)
  <2> SUFFICES ASSUME NEW p \in Threads, Step(p) PROVE ScansOK'
    BY <1>3
  <2>1. CASE WriteInPlace(p) \/ Overwrite(p) \/ Shift(p) \/ SplitLeaf(p)
    BY <1>0, <2>1, WriterScans
  <2>2. CASE \/ LockLeaf(p) \/ LockedStale(p) \/ NotFound(p)
             \/ LoadParent(p) \/ LockParent(p) \/ CheckParent(p)
             \/ NewRoot(p) \/ InsertParent(p) \/ SplitParent(p)
             \/ Bump(p) \/ Unlock(p) \/ Count(p)
    BY <1>0, <2>2, WorkScans
  <2>3. CASE \/ LoadRoot(p) \/ LoadRootVersion(p) \/ CheckRoot(p)
             \/ FindChild(p) \/ LoadChildVersion(p) \/ CheckChildLocked(p) \/ CheckChildVersion(p)
             \/ WalkVersion(p) \/ WalkNext(p) \/ ReadLeaf(p) \/ ScanLeaf(p)
             \/ CheckLocked(p) \/ CheckChanged(p) \/ ScanVersion(p)
             \/ Finish(p) \/ Accept(p)
    <3>1. CASE p \in Procs
      BY <1>0, <2>3, <3>1, ProcScans
    <3>2. CASE p \in Scanners
      BY <1>0, <2>3, <3>2, ScannerSteps
    <3>3. QED
      BY <3>1, <3>2 DEF Threads
  <2>4. CASE ScanAccept(p)
    <3>1. p \in Scanners
      BY <2>4 DEF ScanAccept
    <3>2. QED
      BY <1>0, <2>4, <3>1, ScannerSteps
  <2>5. QED
    BY <2>1, <2>2, <2>3, <2>4 DEF Step
<1>4. QED
  BY <1>1, <1>2, <1>3 DEF Next

LEMMA IdleScans ==
  ASSUME Core, Core', Ordered, ScansOK, UNCHANGED vars
  PROVE  ScansOK'
<1>1. node' = node /\ t' = t /\ scan' = scan
  BY DEF vars, tree, opvars
<1>2. LeavesSame /\ HeadsStay
  BY <1>1, LockLeaves, HeadsSame
<1>3. Aged
  BY <1>1, AgedLock DEF Core, TypesOK, TreeOK
<1>4. PICK R : Known(R)
  BY DEF Ordered
<1>5. ASSUME NEW s \in Scanners PROVE ScanOK(s)'
  <2>1. ScanOK(s) /\ scan'[s] = scan[s] /\ t'[s].pc = t[s].pc
    BY <1>1, <1>5 DEF ScansOK
  <2>2. SeenSoFar(s)'
    BY <1>2, <2>1, SameSeen DEF ScanOK
  <2>3. ScanFrame(s)
    BY <1>1, <2>1 DEF ScanFrame, ScanOK, OutOK
  <2>4. QED
    BY <1>2, <1>3, <1>4, <2>1, <2>2, <2>3, ScanStays
<1>6. \A s \in Scanners : ScanOK(s)'
  BY <1>5
<1>7. QED
  BY <1>1, <1>6 DEF ScansOK

LEMMA InitScans ==
  ASSUME Init
  PROVE  ScansOK
<1>1. scan = [s \in Scanners |-> NotBegun] /\ t = [p \in Threads |-> NoOp]
  BY DEF Init
<1>2. ASSUME NEW s \in Scanners PROVE ScanOK(s)
  <2>1. /\ scan[s].out = <<>> /\ scan[s].seen = [k \in Keys |-> {}]
        /\ t[s].pc = "idle" /\ ~t[s].moved
    BY <1>1 DEF NotBegun, NoOp, Threads
  <2>2. OutOK(s)
    BY <2>1 DEF OutOK, Returnable, Rising
  <2>3. SeenSoFar(s) /\ Reached(s) /\ PageOK(s) /\ Ended(s)
    BY <2>1 DEF SeenSoFar, Reached, PageOK, Ended
  <2>4. QED
    BY <2>2, <2>3 DEF ScanOK
<1>3. QED
  BY <1>1, <1>2 DEF ScansOK

LEMMA ScanInvariant == Spec => [](Core /\ Ordered /\ ScansOK)
<1>1. Init => ScansOK
  BY InitScans
<1>2. Core /\ Ordered /\ Core' /\ Ordered' /\ ScansOK /\ [Next]_vars => ScansOK'
  BY NextScans, IdleScans
<1>3. QED
  BY <1>1, <1>2, OrderInvariant, PTL DEF Spec

\* ScanExact for one scan, which has returned o.
Exact(s, o) ==
  /\ \A i \in 1..(Len(o) - 1) : o[i].key < o[i + 1].key
  /\ \A i \in DOMAIN o : o[i].val \in scan[s].seen[o[i].key]
  /\ ~At(s, "idle") => \A i \in DOMAIN o : o[i].key >= t[s].from
  /\ \A k \in Keys :
       /\ ~At(s, "idle") /\ k >= t[s].from /\ None \notin scan[s].seen[k]
       /\ At(s, "done") \/ (o # <<>> /\ k <= Last(o).key)
       => \E i \in DOMAIN o : o[i].key = k

LEMMA ScanExactIs ==
  ASSUME Core, Ordered, ScansOK
  PROVE  ScanExact
<1>1. ASSUME NEW s \in Scanners, NEW o, o = scan[s].out PROVE Exact(s, o)
  <2>1. ScanOK(s) /\ Returnable(s, o) /\ Aimed(s) /\ ThreadOK(s)
    BY <1>1 DEF ScansOK, ScanOK, OutOK, Ordered, Aims, Core, TypesOK, Threads
  <2>2. o \in Seq(Record) /\ Rising(o) /\ Len(o) \in Nat /\ DOMAIN o = 1..Len(o)
    BY <2>1, SeqFacts DEF Returnable
  <2>3. ASSUME NEW i \in 1..(Len(o) - 1) PROVE o[i].key < o[i + 1].key
    <3>1. i \in DOMAIN o /\ i + 1 \in DOMAIN o /\ i < i + 1
      BY <2>2, <2>3
    <3>2. QED
      BY <2>2, <3>1 DEF Rising
  <2>4. ASSUME NEW k \in Keys, ~At(s, "idle"), k >= t[s].from, None \notin scan[s].seen[k],
               At(s, "done") \/ (o # <<>> /\ k <= Last(o).key)
        PROVE  Lists(o, k)
    <3>1. Lasting(s, k)
      BY <2>4 DEF Lasting
    <3>2. CASE At(s, "done")
      BY <1>1, <2>1, <3>1, <3>2 DEF ScanOK, Ended, At
    <3>3. CASE ~At(s, "done") /\ o # <<>> /\ k <= Last(o).key
      <4>1. t[s].moved
        BY <1>1, <2>1, <2>4, <3>3 DEF ScanOK, OutOK, At
      <4>2. t[s].pc \in {"again", "read", "locked", "valid"}
        BY <2>1, <3>3, <4>1 DEF Aimed, At
      <4>3. PICK c : c = t[s].cur
        OBVIOUS
      <4>4. /\ c \in Leaves /\ \A i \in DOMAIN o : o[i].key < First(c)
            /\ \A x \in Keys : Lasting(s, x) /\ x < First(c) => Lists(o, x)
        BY <1>1, <2>1, <4>1, <4>2, <4>3 DEF ScanOK, Reached
      <4>5. Len(o) \in DOMAIN o /\ Last(o) = o[Len(o)]
        BY <2>2, <3>3 DEF Last
      <4>6. Last(o).key < First(c) /\ Last(o).key \in Nat
        <5>1. o[Len(o)] \in Record
          BY <2>2, <4>5
        <5>2. QED
          BY <4>4, <4>5, <5>1, KeyFacts DEF Record
      <4>7. First(c) \in Nat /\ k \in Nat
        BY <4>4, FirstNat, KeyFacts
      <4>8. k < First(c)
        BY <3>3, <4>6, <4>7
      <4>9. QED
        BY <3>1, <4>4, <4>8
    <3>4. QED
      BY <2>4, <3>2, <3>3
  <2>5. QED
    BY <2>1, <2>3, <2>4 DEF Returnable, Lists, Exact
<1>2. \A s \in Scanners : Exact(s, scan[s].out)
  BY <1>1
<1>3. QED
  BY <1>2 DEF ScanExact, Exact

\* A scan returns keys in ascending order, from key_begin on, with values they had
\* during the scan, and none is left out that was there all the time: the records
\* of a leaf and its next pointer are those of one version, and what a split moves
\* to the right of a leaf a scan has passed had been returned.
THEOREM BufferScanExact == Spec => []ScanExact
<1>1. Core /\ Ordered /\ ScansOK => ScanExact
  BY ScanExactIs
<1>2. QED
  BY <1>1, ScanInvariant, PTL
=============================================================================
