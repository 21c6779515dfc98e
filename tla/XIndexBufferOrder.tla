-------------------------- MODULE XIndexBufferOrder --------------------------
(***************************************************************************)
(* The insert buffer holds its keys in order, for any number of threads,     *)
(* operations and keys and any node capacity.  Every node has a range of     *)
(* keys: those of the leaves follow from the chain, an internal node divides *)
(* its own among its children, and a split divides a node's between its two  *)
(* halves.  What a thread has seen of a node holds as long as the node's     *)
(* version has not changed and no writer is at work on it.  size_est and the *)
(* writers that have still to increment it count the keys.                  *)
(***************************************************************************)
EXTENDS XIndexBufferProofs

-----------------------------------------------------------------------------
(* The order of the keys                                                    *)

Sorted(s) == \A i, j \in DOMAIN s : i < j => s[i] < s[j]

\* The leaves are a chain from Begin on.
ChainOK ==
  /\ \A n \in DOMAIN node : Sorted(node[n].keys)
  /\ Begin \in Leaves
  /\ \A n \in Leaves : node[n].next # Begin
  /\ \A n \in Leaves \ {Begin} : \E l \in Leaves :
       node[l].next = n /\ \A m \in Leaves : node[m].next = n => m = l

\* The keys a leaf is for.
Low(n, k) == n = Begin \/ Head(node[n].keys) <= k
High(n, k) == node[n].next = Nil \/ k < Head(node[node[n].next].keys)
InRange(n, k) == Low(n, k) /\ High(n, k)

\* Node q leads to node n for key k, and k is in its range.
Leads(R, q, n, k) == k \in R[q] /\ ChildFor(q, k) = n

\* k is in the range of n, or in that of the half split off n.
Covered(R, n, k) ==
  k \in R[n] \/ \E p \in Procs : Splitting(p) /\ t[p].left = n /\ k \in R[t[p].right]

\* The halves of a split lie on either side of its separator, and the parent
\* still leads to the left one for the keys of both.
HalvesOK(R, p) ==
  /\ t[p].sep \in R[t[p].right]
  /\ \A k \in R[t[p].left] : k < t[p].sep
  /\ \A k \in R[t[p].right] : t[p].sep <= k
  /\ node[t[p].left].parent # Nil =>
       \A k \in R[t[p].right] : Leads(R, node[t[p].left].parent, t[p].left, k)

\* R[n]: the range of node n.
LeavesDivide(R) ==
  /\ \A n \in Leaves : \A k \in Nat : k \in R[n] <=> InRange(n, k)
  /\ \A n, m \in Leaves : n # m => \A k \in R[n] : k \notin R[m]
KeysIn(R) == \A n \in DOMAIN node : \A i \in DOMAIN node[n].keys : node[n].keys[i] \in R[n]
ParentsLead(R) ==
  \A n \in DOMAIN node : node[n].parent # Nil => \A k \in R[n] : Leads(R, node[n].parent, n, k)
ChildrenCover(R) == \A n \in DOMAIN node \ Leaves : \A k \in R[n] : Covered(R, ChildFor(n, k), k)
RootCovers(R) == \A k \in Nat : Covered(R, root, k)
SplitsDivide(R) == \A p \in Procs : Splitting(p) => HalvesOK(R, p)

RangesOK(R) ==
  /\ R \in [DOMAIN node -> SUBSET Nat]
  /\ LeavesDivide(R) /\ KeysIn(R) /\ ParentsLead(R) /\ ChildrenCover(R) /\ RootCovers(R)
  /\ SplitsDivide(R)

-----------------------------------------------------------------------------
(* What threads know                                                        *)

\* Node n is as it was at version v.
Fresh(n, v) == node[n].version = v /\ ~node[n].torn

Descent(R, p) ==
  LET cur == t[p].cur
      nxt == t[p].nxt
      k == Key(p)
  IN  /\ t[p].pc \in AtRoot => \A q \in Procs : Splitting(q) => t[q].right # cur
      /\ t[p].pc \in {"rootparent"} \union AtInner => t[p].ver <= node[cur].version
      /\ t[p].pc \in {"child", "childver", "childlocked"} =>
           (Fresh(cur, t[p].ver) => k \in R[cur])
      /\ t[p].pc \in {"childver", "childlocked"} =>
           (Fresh(cur, t[p].ver) => nxt = ChildFor(cur, k))
      /\ t[p].pc \in {"childlocked", "childvalid"} => t[p].nver <= node[nxt].version
      /\ t[p].pc = "childvalid" =>
           (node[cur].version = t[p].ver =>
              /\ Fresh(nxt, t[p].nver) => k \in R[nxt]
              /\ node[nxt].leaf => Low(nxt, k))

Arrival(R, p) ==
  LET cur == t[p].cur
      k == Key(p)
  IN  /\ t[p].pc \in AtLeaf => Low(cur, k)
      /\ t[p].pc \in AtLeaf \ {"walkver"} => t[p].ver <= node[cur].version
      /\ t[p].pc \in {"read", "lock", "lockver"} => (Fresh(cur, t[p].ver) => k \in R[cur])
      /\ t[p].pc = "act" => k \in R[cur]

\* A scan that has left its first leaf follows the chain.
Known(R) ==
  /\ RangesOK(R)
  /\ \A p \in Threads : ~t[p].moved => Descent(R, p) /\ Arrival(R, p)

Aimed(s) ==
  /\ t[s].from \in Nat /\ t[s].moved \in BOOLEAN
  /\ t[s].pc = "again" => t[s].moved
  /\ t[s].moved => t[s].pc \in {"again", "read", "locked", "valid", "done"}
Aims == \A s \in Scanners : Aimed(s)

-----------------------------------------------------------------------------
(* What the tree stands for                                                 *)

WillCount(p) ==
  Splitting(p) \/ t[p].pc = "count" \/ (t[p].pc \in Ending /\ t[p].after = "count")
Counters == {p \in Procs : WillCount(p)}
HeldKeys == {k \in Keys : \E n \in Leaves : Holds(n, k)}

CountOK == size_est + Cardinality(Counters) = Cardinality(HeldKeys)

\* The key of p's operation has a value p has seen, and what p has read of a leaf
\* that did not change meanwhile is one.
KeySeen(p) == op[p] # Abs!Idle => Logical(op[p].key) \in seen[p]
SeenBy(p) ==
  /\ KeySeen(p)
  /\ t[p].pc = "locked" => (Fresh(t[p].cur, t[p].ver) => t[p].val \in seen[p])
  /\ t[p].pc = "valid" => (node[t[p].cur].version = t[p].ver => t[p].val \in seen[p])

SeenOK == \A p \in Procs : SeenBy(p)

-----------------------------------------------------------------------------
(* Sorted sequences                                                         *)

\* A set of the first numbers.
LEMMA FirstNumbers ==
  ASSUME NEW n \in Nat, NEW S \in SUBSET (1..n),
         \A i \in S : \A j \in 1..n : j <= i => j \in S
  PROVE  Cardinality(S) \in 0..n /\ S = 1..Cardinality(S)
<1>1. CASE S = {}
  <2>1. Cardinality(S) = 0
    BY <1>1, FS_EmptySet
  <2>2. QED
    BY <1>1, <2>1
<1>2. CASE S # {}
  <2>1. PICK k \in S : \A j \in S : j <= k
    BY <1>2, GreatestUpTo
  <2>2. k \in 1..n /\ k \in Nat /\ k \in 0..n
    BY <2>1
  <2>6. \A j \in 1..n : j \in S <=> j <= k
    BY <2>1, <2>2
  <2>8. \A j \in 1..k : j \in 1..n /\ j <= k
    BY <2>2
  <2>9. \A j \in 1..n : j <= k => j \in 1..k
    BY <2>2
  <2>7. S = 1..k
    BY <2>6, <2>8, <2>9
  <2>3. Cardinality(1..k) = IF 1 > k THEN 0 ELSE k - 1 + 1
    BY <2>2, FS_Interval
  <2>4. Cardinality(S) = k
    BY <2>2, <2>3, <2>7
  <2>5. QED
    BY <2>2, <2>4, <2>7
<1>3. QED
  BY <1>1, <1>2

LEMMA FirstCount ==
  ASSUME NEW n \in Nat
  PROVE  Cardinality(1..n) = n
<1>1. Cardinality(1..n) = IF 1 > n THEN 0 ELSE n - 1 + 1
  BY FS_Interval
<1>2. QED
  BY <1>1

\* How many of s are not after k, and how many before it.
SlotIn(s, k) == Cardinality({i \in DOMAIN s : s[i] <= k})
SlotLess(s, k) == Cardinality({i \in DOMAIN s : s[i] < k})

SlotsAt(s, k) ==
  /\ SlotIn(s, k) \in 0..Len(s) /\ SlotLess(s, k) \in 0..Len(s)
  /\ \A j \in DOMAIN s : (s[j] <= k <=> j <= SlotIn(s, k)) /\ (s[j] < k <=> j <= SlotLess(s, k))

LEMMA SlotIs ==
  ASSUME NEW s \in Seq(Nat), Sorted(s), NEW k \in Nat
  PROVE  SlotsAt(s, k)
<1>0. DOMAIN s = 1..Len(s) /\ Len(s) \in Nat /\ \A j \in DOMAIN s : s[j] \in Nat
  OBVIOUS
<1>1. \A i, j \in DOMAIN s : j <= i => s[j] <= s[i]
  BY <1>0 DEF Sorted
<1>2. PICK A : A = {i \in DOMAIN s : s[i] <= k}
  OBVIOUS
<1>3. PICK B : B = {i \in DOMAIN s : s[i] < k}
  OBVIOUS
<1>4. Cardinality(A) \in 0..Len(s) /\ A = 1..Cardinality(A)
  <2>1. ASSUME NEW i \in A, NEW j \in 1..Len(s), j <= i PROVE j \in A
    <3>1. i \in DOMAIN s /\ j \in DOMAIN s /\ s[i] <= k
      BY <1>0, <1>2
    <3>2. s[j] <= s[i] /\ s[i] \in Nat /\ s[j] \in Nat
      BY <1>0, <1>1, <2>1, <3>1
    <3>3. s[j] <= k
      BY <3>1, <3>2
    <3>4. QED
      BY <1>2, <3>1, <3>3
  <2>2. A \in SUBSET (1..Len(s))
    BY <1>0, <1>2
  <2>3. QED
    BY <1>0, <2>1, <2>2, FirstNumbers
<1>5. Cardinality(B) \in 0..Len(s) /\ B = 1..Cardinality(B)
  <2>1. ASSUME NEW i \in B, NEW j \in 1..Len(s), j <= i PROVE j \in B
    <3>1. i \in DOMAIN s /\ j \in DOMAIN s /\ s[i] < k
      BY <1>0, <1>3
    <3>2. s[j] <= s[i] /\ s[i] \in Nat /\ s[j] \in Nat
      BY <1>0, <1>1, <2>1, <3>1
    <3>3. s[j] < k
      BY <3>1, <3>2
    <3>4. QED
      BY <1>3, <3>1, <3>3
  <2>2. B \in SUBSET (1..Len(s))
    BY <1>0, <1>3
  <2>3. QED
    BY <1>0, <2>1, <2>2, FirstNumbers
<1>6. \A j \in DOMAIN s : (s[j] <= k <=> j <= Cardinality(A)) /\ (s[j] < k <=> j <= Cardinality(B))
  <2> SUFFICES ASSUME NEW j \in DOMAIN s
               PROVE  /\ s[j] <= k <=> j <= Cardinality(A)
                      /\ s[j] < k <=> j <= Cardinality(B)
    OBVIOUS
  <2>1. (s[j] <= k <=> j \in A) /\ (s[j] < k <=> j \in B)
    BY <1>2, <1>3
  <2>2. (j \in A <=> j <= Cardinality(A)) /\ (j \in B <=> j <= Cardinality(B))
    BY <1>0, <1>4, <1>5
  <2>3. QED
    BY <2>1, <2>2
<1>7. QED
  BY <1>2, <1>3, <1>4, <1>5, <1>6 DEF SlotIn, SlotLess, SlotsAt

LEMMA SlotOnly ==
  ASSUME NEW s \in Seq(Nat), NEW k \in Nat, NEW m \in 0..Len(s),
         \A j \in DOMAIN s : s[j] <= k <=> j <= m
  PROVE  SlotIn(s, k) = m
<1>1. {i \in DOMAIN s : s[i] <= k} = 1..m
  <2>1. DOMAIN s = 1..Len(s) /\ Len(s) \in Nat
    OBVIOUS
  <2>2. QED
    BY <2>1
<1>2. m \in Nat
  OBVIOUS
<1>3. QED
  BY <1>1, <1>2, FirstCount DEF SlotIn

LEMMA SortedEnds ==
  ASSUME NEW s \in Seq(Nat), Sorted(s), s # <<>>
  PROVE  /\ Head(s) = s[1] /\ Last(s) = s[Len(s)] /\ Len(s) \in Nat /\ Len(s) >= 1
         /\ 1 \in DOMAIN s /\ Len(s) \in DOMAIN s
         /\ Head(s) \in Nat /\ Last(s) \in Nat /\ Head(s) <= Last(s)
         /\ \A i \in DOMAIN s : s[i] \in Nat /\ Head(s) <= s[i] /\ s[i] <= Last(s)
<1>1. /\ Head(s) = s[1] /\ Last(s) = s[Len(s)] /\ DOMAIN s = 1..Len(s) /\ Len(s) \in Nat
      /\ Len(s) >= 1 /\ \A i \in DOMAIN s : s[i] \in Nat
  BY DEF Last
<1>2. \A i, j \in DOMAIN s : j <= i => s[j] <= s[i]
  BY <1>1 DEF Sorted
<1>3. 1 \in DOMAIN s /\ Len(s) \in DOMAIN s
  BY <1>1
<1>4. \A i \in DOMAIN s : 1 <= i /\ i <= Len(s)
  BY <1>1
<1>5. QED
  BY <1>1, <1>2, <1>3, <1>4

LEMMA SeqSub ==
  ASSUME NEW S, NEW T, S \subseteq T, NEW s \in Seq(S)
  PROVE  s \in Seq(T) /\ DOMAIN s = 1..Len(s) /\ Len(s) \in Nat /\ \A j \in DOMAIN s : s[j] \in T
<1>1. DOMAIN s = 1..Len(s) /\ Len(s) \in Nat /\ \A j \in DOMAIN s : s[j] \in S
  OBVIOUS
<1>2. s \in [1..Len(s) -> T]
  BY <1>1
<1>3. QED
  BY <1>1, <1>2

LEMMA KeySeq ==
  ASSUME NEW s \in Seq(Keys)
  PROVE  s \in Seq(Nat) /\ DOMAIN s = 1..Len(s) /\ Len(s) \in Nat /\ \A j \in DOMAIN s : s[j] \in Nat
  BY KeyFacts, SeqSub

\* An element in its place leaves a sequence sorted.
LEMMA SortedInserted ==
  ASSUME NEW s \in Seq(Keys), Sorted(s), NEW e \in Keys, NEW i \in 1..(Len(s) + 1), NEW u,
         Inserted(Keys, s, i, e, u),
         \A j \in DOMAIN s : (j < i => s[j] < e) /\ (j >= i => e < s[j])
  PROVE  Sorted(u)
<1>1. /\ DOMAIN u = 1..(Len(s) + 1) /\ DOMAIN s = 1..Len(s) /\ Len(s) \in Nat /\ u[i] = e
      /\ \A j \in DOMAIN u : j # i =>
           /\ j < i => j \in DOMAIN s /\ u[j] = s[j]
           /\ j > i => j - 1 \in DOMAIN s /\ u[j] = s[j - 1]
  BY InsertedFrom
<1>2. \A j \in DOMAIN s : s[j] \in Nat
  BY KeySeq
<1>3. e \in Nat
  BY KeyFacts
<1> SUFFICES ASSUME NEW a \in DOMAIN u, NEW b \in DOMAIN u, a < b PROVE u[a] < u[b]
  BY DEF Sorted
<1>4. a \in Nat /\ b \in Nat /\ i \in Nat
  BY <1>1
<1>5. PICK d : d = b - 1
  OBVIOUS
<1>6. PICK c : c = a - 1
  OBVIOUS
<1>7. CASE b < i
  <2>1. u[a] = s[a] /\ u[b] = s[b] /\ a \in DOMAIN s /\ b \in DOMAIN s
    BY <1>1, <1>4, <1>7
  <2>2. QED
    BY <2>1 DEF Sorted
<1>8. CASE b = i
  <2>1. u[a] = s[a] /\ a \in DOMAIN s /\ a < i
    BY <1>1, <1>4, <1>8
  <2>2. QED
    BY <1>1, <1>8, <2>1
<1>9. CASE b > i
  <2>1. u[b] = s[d] /\ d \in DOMAIN s /\ d >= i
    <3>1. b - 1 \in DOMAIN s /\ u[b] = s[b - 1]
      BY <1>1, <1>4, <1>9
    <3>2. QED
      BY <1>4, <1>5, <1>9, <3>1
  <2>2. CASE a < i
    <3>1. u[a] = s[a] /\ a \in DOMAIN s
      BY <1>1, <1>4, <2>2
    <3>2. s[a] < e /\ e < s[d]
      BY <2>1, <2>2, <3>1
    <3>3. QED
      BY <1>2, <1>3, <2>1, <3>1, <3>2
  <2>3. CASE a = i
    BY <1>1, <2>1, <2>3
  <2>4. CASE a > i
    <3>1. u[a] = s[c] /\ c \in DOMAIN s
      <4>1. a - 1 \in DOMAIN s /\ u[a] = s[a - 1]
        BY <1>1, <1>4, <2>4
      <4>2. QED
        BY <1>6, <4>1
    <3>2. c < d
      BY <1>4, <1>5, <1>6
    <3>3. QED
      BY <2>1, <3>1, <3>2 DEF Sorted
  <2>5. QED
    BY <1>4, <2>2, <2>3, <2>4
<1>10. QED
  BY <1>4, <1>7, <1>8, <1>9

LEMMA SortedCut ==
  ASSUME NEW S, NEW s \in Seq(S), Sorted(s), NEW c \in Nat, c <= Len(s), NEW a, NEW b, CutAt(S, s, c, a, b)
  PROVE  Sorted(a) /\ Sorted(b)
<1>1. /\ DOMAIN a = 1..c /\ DOMAIN b = 1..(Len(s) - c) /\ DOMAIN s = 1..Len(s) /\ Len(s) \in Nat
      /\ \A j \in 1..c : a[j] = s[j]
      /\ \A j \in 1..(Len(s) - c) : b[j] = s[c + j]
  BY DEF CutAt
<1>2. Sorted(a)
  <2> SUFFICES ASSUME NEW i \in DOMAIN a, NEW j \in DOMAIN a, i < j PROVE a[i] < a[j]
    BY DEF Sorted
  <2>1. i \in DOMAIN s /\ j \in DOMAIN s /\ a[i] = s[i] /\ a[j] = s[j]
    BY <1>1
  <2>2. QED
    BY <2>1 DEF Sorted
<1>3. Sorted(b)
  <2> SUFFICES ASSUME NEW i \in DOMAIN b, NEW j \in DOMAIN b, i < j PROVE b[i] < b[j]
    BY DEF Sorted
  <2>1. PICK x : x = c + i
    OBVIOUS
  <2>2. PICK y : y = c + j
    OBVIOUS
  <2>3. x \in DOMAIN s /\ y \in DOMAIN s /\ x < y
    BY <1>1, <2>1, <2>2
  <2>4. b[i] = s[x] /\ b[j] = s[y]
    BY <1>1, <2>1, <2>2
  <2>5. QED
    BY <2>3, <2>4 DEF Sorted
<1>4. QED
  BY <1>2, <1>3

-----------------------------------------------------------------------------
(* Which child is for a key                                                 *)

ChildIn(ks, cs, k) == cs[SlotIn(ks, k) + 1]

\* Child r, from separator e on, takes over from the child that was for e.
LEMMA ChildInserted ==
  ASSUME NEW ks \in Seq(Keys), Sorted(ks), NEW cs \in Seq(Nat), Len(cs) = Len(ks) + 1,
         NEW e \in Keys, NEW r, NEW i, i = SlotIn(ks, e) + 1, NEW j, j = i + 1, NEW us, NEW ds,
         Inserted(Keys, ks, i, e, us), Inserted(Nat, cs, j, r, ds),
         NEW k \in Nat
  PROVE  /\ SlotIn(us, k) = IF e <= k THEN SlotIn(ks, k) + 1 ELSE SlotIn(ks, k)
         /\ e <= k /\ SlotIn(ks, k) = SlotIn(ks, e) => ChildIn(us, ds, k) = r
         /\ ~(e <= k /\ SlotIn(ks, k) = SlotIn(ks, e)) => ChildIn(us, ds, k) = ChildIn(ks, cs, k)
<1>0. ks \in Seq(Nat) /\ e \in Nat
  BY KeyFacts, KeySeq
<1>1. PICK s : s = SlotIn(ks, k)
  OBVIOUS
<1>2. PICK z : z = SlotIn(ks, e)
  OBVIOUS
<1>3. /\ s \in 0..Len(ks) /\ z \in 0..Len(ks) /\ Len(ks) \in Nat /\ DOMAIN ks = 1..Len(ks)
      /\ \A x \in DOMAIN ks : ks[x] \in Nat /\ (ks[x] <= k <=> x <= s) /\ (ks[x] <= e <=> x <= z)
  <2>1. SlotIn(ks, k) \in 0..Len(ks) /\ \A x \in DOMAIN ks : ks[x] <= k <=> x <= SlotIn(ks, k)
    <3>1. SlotsAt(ks, k)
      BY <1>0, SlotIs
    <3>2. QED
      BY <3>1 DEF SlotsAt
  <2>2. SlotIn(ks, e) \in 0..Len(ks) /\ \A x \in DOMAIN ks : ks[x] <= e <=> x <= SlotIn(ks, e)
    <3>1. SlotsAt(ks, e)
      BY <1>0, SlotIs
    <3>2. QED
      BY <3>1 DEF SlotsAt
  <2>3. QED
    BY <1>1, <1>2, <2>1, <2>2, KeySeq
<1>4. i = z + 1 /\ j = z + 2 /\ i \in 1..(Len(ks) + 1) /\ j \in 1..(Len(cs) + 1)
  BY <1>2, <1>3
<1>5. /\ DOMAIN us = 1..(Len(ks) + 1) /\ us[i] = e
      /\ \A x \in DOMAIN us : x # i =>
           /\ x < i => x \in DOMAIN ks /\ us[x] = ks[x]
           /\ x > i => x - 1 \in DOMAIN ks /\ us[x] = ks[x - 1]
  BY <1>4, InsertedFrom
<1>6. /\ DOMAIN ds = 1..(Len(ks) + 2) /\ ds[j] = r
      /\ \A x \in DOMAIN ds : x # j =>
           /\ x < j => ds[x] = cs[x]
           /\ x > j => ds[x] = cs[x - 1]
  <2>1. /\ DOMAIN ds = 1..(Len(cs) + 1) /\ ds[j] = r
        /\ \A x \in DOMAIN ds : x # j =>
             /\ x < j => x \in DOMAIN cs /\ ds[x] = cs[x]
             /\ x > j => x - 1 \in DOMAIN cs /\ ds[x] = cs[x - 1]
    <3>1. /\ ds \in Seq(Nat) /\ Len(ds) = Len(cs) + 1 /\ ds[j] = r
          /\ \A x \in 1..(j - 1) : ds[x] = cs[x]
          /\ \A x \in (j + 1)..(Len(cs) + 1) : ds[x] = cs[x - 1]
      BY DEF Inserted
    <3>2. j \in Nat /\ Len(cs) \in Nat /\ DOMAIN ds = 1..(Len(cs) + 1) /\ DOMAIN cs = 1..Len(cs)
      BY <1>4, <3>1
    <3>5. Len(ks) \in Nat
      BY <1>3
    <3>6. ASSUME NEW x \in DOMAIN ds, x < j
          PROVE  x \in DOMAIN cs /\ ds[x] = cs[x]
      <4>1. x \in 1..(j - 1) /\ x \in DOMAIN cs
        BY <1>4, <3>2, <3>6
      <4>2. QED
        BY <3>1, <4>1
    <3>7. ASSUME NEW x \in DOMAIN ds, x > j
          PROVE  x - 1 \in DOMAIN cs /\ ds[x] = cs[x - 1]
      <4>1. x \in (j + 1)..(Len(cs) + 1) /\ x - 1 \in DOMAIN cs
        BY <1>4, <3>2, <3>7
      <4>2. QED
        BY <3>1, <4>1
    <3>3. \A x \in DOMAIN ds : x # j =>
             /\ x < j => x \in DOMAIN cs /\ ds[x] = cs[x]
             /\ x > j => x - 1 \in DOMAIN cs /\ ds[x] = cs[x - 1]
      BY <3>6, <3>7
    <3>4. QED
      BY <3>1, <3>2, <3>3
  <2>2. (Len(ks) + 1) + 1 = Len(ks) + 2
    BY <1>3
  <2>3. QED
    BY <2>1, <2>2
<1>7. us \in Seq(Nat) /\ Len(us) = Len(ks) + 1
  <2>1. us \in Seq(Keys) /\ Len(us) = Len(ks) + 1
    BY DEF Inserted
  <2>2. QED
    BY <2>1, KeySeq
<1>8. e <= k => z <= s
  <2> SUFFICES ASSUME e <= k, ~(z <= s) PROVE FALSE
    OBVIOUS
  <2>1. z \in DOMAIN ks
    BY <1>3
  <2>2. QED
    BY <1>0, <1>3, <2>1
<1>9. ~(e <= k) => s <= z
  <2> SUFFICES ASSUME ~(e <= k), ~(s <= z) PROVE FALSE
    OBVIOUS
  <2>1. s \in DOMAIN ks
    BY <1>3
  <2>2. QED
    BY <1>0, <1>3, <2>1
<1>10. PICK m : m = IF e <= k THEN s + 1 ELSE s
  OBVIOUS
<1>11. m \in 0..Len(us)
  BY <1>3, <1>7, <1>10
<1>12. ASSUME NEW x \in DOMAIN us PROVE us[x] <= k <=> x <= m
  <2>1. x \in Nat
    BY <1>5
  <2>2. CASE x = i
    BY <1>3, <1>4, <1>5, <1>8, <1>9, <1>10, <2>2
  <2>3. CASE x < i
    <3>1. us[x] = ks[x] /\ x \in DOMAIN ks
      BY <1>5, <2>3
    <3>2. ks[x] <= k <=> x <= s
      BY <1>3, <3>1
    <3>3. x <= s <=> x <= m
      <4>1. x \in Nat /\ s \in Nat /\ z \in Nat /\ x <= z
        BY <1>3, <1>4, <2>1, <2>3
      <4>2. CASE e <= k
        <5>1. z <= s /\ m = s + 1
          BY <1>8, <1>10, <4>2
        <5>2. QED
          BY <4>1, <5>1
      <4>3. CASE ~(e <= k)
        BY <1>10, <4>3
      <4>4. QED
        BY <4>2, <4>3
    <3>4. QED
      BY <3>1, <3>2, <3>3
  <2>4. CASE x > i
    <3>0. PICK y : y = x - 1
      OBVIOUS
    <3>1. us[x] = ks[y] /\ y \in DOMAIN ks
      BY <1>5, <2>4, <3>0
    <3>2. ks[y] <= k <=> y <= s
      BY <1>3, <3>1
    <3>3. y <= s <=> x <= m
      <4>1. x \in Nat /\ y \in Nat /\ s \in Nat /\ z \in Nat /\ y = x - 1 /\ z < y
        BY <1>3, <1>4, <2>1, <2>4, <3>0
      <4>2. CASE e <= k
        BY <1>10, <4>1, <4>2
      <4>3. CASE ~(e <= k)
        <5>1. s <= z /\ m = s
          BY <1>9, <1>10, <4>3
        <5>2. QED
          BY <4>1, <5>1
      <4>4. QED
        BY <4>2, <4>3
    <3>4. QED
      BY <3>1, <3>2, <3>3
  <2>5. QED
    BY <1>4, <2>1, <2>2, <2>3, <2>4
<1>13. SlotIn(us, k) = m
  BY <1>7, <1>11, <1>12, SlotOnly
<1>14. PICK x : x = m + 1
  OBVIOUS
<1>15. ChildIn(us, ds, k) = ds[x] /\ x \in DOMAIN ds
  <2>1. ChildIn(us, ds, k) = ds[x]
    BY <1>13, <1>14 DEF ChildIn
  <2>2. x \in DOMAIN ds
    BY <1>3, <1>6, <1>10, <1>14
  <2>3. QED
    BY <2>1, <2>2
<1>16. PICK y : y = s + 1
  OBVIOUS
<1>17. ChildIn(ks, cs, k) = cs[y]
  BY <1>1, <1>16 DEF ChildIn
<1>18. e <= k /\ s = z => ds[x] = r
  <2>1. e <= k /\ s = z => x = j
    BY <1>3, <1>4, <1>10, <1>14
  <2>2. QED
    BY <1>6, <2>1
<1>19. ~(e <= k /\ s = z) => ds[x] = cs[y]
  <2>1. CASE e <= k /\ s # z
    <3>1. x > j /\ x - 1 = y
      BY <1>3, <1>4, <1>8, <1>10, <1>14, <1>16, <2>1
    <3>2. QED
      BY <1>6, <1>15, <3>1
  <2>2. CASE ~(e <= k)
    <3>1. x < j /\ x = y
      BY <1>3, <1>4, <1>9, <1>10, <1>14, <1>16, <2>2
    <3>2. QED
      BY <1>6, <1>15, <3>1
  <2>3. QED
    BY <2>1, <2>2
<1>20. QED
  BY <1>1, <1>2, <1>10, <1>13, <1>15, <1>17, <1>18, <1>19

\* A node cut at separator c + 1: the smaller keys keep their children, the
\* others have them in the second half.
CutNode(us, ds, c, d, ks, rks, cs, rcs) ==
  /\ us \in Seq(Keys) /\ Sorted(us) /\ ds \in Seq(Nat) /\ Len(ds) = Len(us) + 1
  /\ c \in Nat /\ c + 1 <= Len(us) /\ d = c + 1
  /\ \E x : CutAt(Keys, us, c, ks, x)
  /\ \E x : CutAt(Keys, us, d, x, rks)
  /\ CutAt(Nat, ds, d, cs, rcs)

LEMMA ChildCut ==
  ASSUME NEW us, NEW ds, NEW c, NEW d, NEW ks, NEW rks, NEW cs, NEW rcs,
         CutNode(us, ds, c, d, ks, rks, cs, rcs), NEW k \in Nat
  PROVE  /\ ~(us[d] <= k) => ChildIn(ks, cs, k) = ChildIn(us, ds, k)
         /\ us[d] <= k => ChildIn(rks, rcs, k) = ChildIn(us, ds, k)
<1>a. /\ us \in Seq(Keys) /\ Sorted(us) /\ ds \in Seq(Nat) /\ Len(ds) = Len(us) + 1
      /\ c \in Nat /\ c + 1 <= Len(us) /\ d = c + 1
      /\ CutAt(Nat, ds, d, cs, rcs)
  BY DEF CutNode
<1>b. PICK x1 : CutAt(Keys, us, c, ks, x1)
  BY DEF CutNode
<1>c. PICK x2 : CutAt(Keys, us, d, x2, rks)
  BY DEF CutNode
<1>0. us \in Seq(Nat)
  BY <1>a, KeySeq
<1>1. PICK s : s = SlotIn(us, k)
  OBVIOUS
<1>2. /\ s \in 0..Len(us) /\ Len(us) \in Nat /\ DOMAIN us = 1..Len(us)
      /\ \A x \in DOMAIN us : us[x] \in Nat /\ (us[x] <= k <=> x <= s)
  <2>1. SlotIn(us, k) \in 0..Len(us) /\ \A x \in DOMAIN us : us[x] <= k <=> x <= SlotIn(us, k)
    <3>1. SlotsAt(us, k)
      BY <1>a, <1>0, SlotIs
    <3>2. QED
      BY <3>1 DEF SlotsAt
  <2>2. QED
    BY <1>a, <1>1, <2>1, KeySeq
<1>3. d \in DOMAIN us /\ d \in Nat
  BY <1>a, <1>2
<1>4. us[d] <= k <=> d <= s
  BY <1>2, <1>3
<1>5. /\ ks \in Seq(Nat) /\ rks \in Seq(Nat) /\ Len(ks) = c /\ Len(rks) = Len(us) - d
      /\ DOMAIN ks = 1..c /\ DOMAIN rks = 1..(Len(us) - d)
      /\ \A j \in 1..c : ks[j] = us[j]
      /\ \A j \in 1..(Len(us) - d) : rks[j] = us[d + j]
  <2>1. /\ ks \in Seq(Keys) /\ rks \in Seq(Keys) /\ Len(ks) = c /\ Len(rks) = Len(us) - d
        /\ \A j \in 1..c : ks[j] = us[j]
        /\ \A j \in 1..(Len(us) - d) : rks[j] = us[d + j]
    BY <1>a, <1>b, <1>c DEF CutAt
  <2>2. /\ ks \in Seq(Nat) /\ DOMAIN ks = 1..Len(ks)
        /\ rks \in Seq(Nat) /\ DOMAIN rks = 1..Len(rks)
    BY <2>1, KeySeq
  <2>3. QED
    BY <1>a, <2>1, <2>2
<1>6. /\ \A j \in 1..d : cs[j] = ds[j]
      /\ \A j \in 1..(Len(us) + 1 - d) : rcs[j] = ds[d + j]
  <2>1. /\ \A j \in 1..d : cs[j] = ds[j]
        /\ \A j \in 1..(Len(ds) - d) : rcs[j] = ds[d + j]
    BY <1>a DEF CutAt
  <2>2. Len(ds) = Len(us) + 1 /\ Len(us) \in Nat /\ Len(ds) \in Nat /\ d \in Nat
    BY <1>a, <1>2
  <2>3. ASSUME NEW j \in 1..(Len(us) + 1 - d) PROVE rcs[j] = ds[d + j]
    <3>1. j \in 1..(Len(ds) - d)
      BY <2>2
    <3>2. QED
      BY <2>1, <3>1
  <2>4. QED
    BY <2>1, <2>3
<1>7. ASSUME ~(us[d] <= k) PROVE ChildIn(ks, cs, k) = ChildIn(us, ds, k)
  <2>1. s \in 0..Len(ks)
    BY <1>a, <1>2, <1>3, <1>4, <1>5, <1>7
  <2>2. ASSUME NEW j \in DOMAIN ks PROVE ks[j] <= k <=> j <= s
    <3>1. j \in 1..c /\ ks[j] = us[j]
      BY <1>5
    <3>2. j \in DOMAIN us
      <4>1. c \in Nat /\ c + 1 <= Len(us) /\ Len(us) \in Nat
        BY <1>a, <1>2
      <4>2. QED
        BY <1>2, <3>1, <4>1
    <3>3. QED
      BY <1>2, <3>1, <3>2
  <2>3. SlotIn(ks, k) = s
    BY <1>5, <2>1, <2>2, SlotOnly
  <2>4. PICK y : y = s + 1
    OBVIOUS
  <2>5. y \in 1..d
    BY <1>a, <1>2, <1>3, <1>4, <1>7, <2>4
  <2>6. QED
    BY <1>1, <1>6, <2>3, <2>4, <2>5 DEF ChildIn
<1>8. ASSUME us[d] <= k PROVE ChildIn(rks, rcs, k) = ChildIn(us, ds, k)
  <2>0. PICK z : z = s - d
    OBVIOUS
  <2>1. z \in 0..Len(rks)
    BY <1>a, <1>2, <1>3, <1>4, <1>5, <1>8, <2>0
  <2>2. ASSUME NEW j \in DOMAIN rks PROVE rks[j] <= k <=> j <= z
    <3>1. PICK x : x = d + j
      OBVIOUS
    <3>0. j \in Nat /\ 1 <= j /\ j <= Len(us) - d
      BY <1>a, <1>2, <1>3, <1>5
    <3>2. rks[j] = us[x] /\ x \in DOMAIN us
      <4>1. rks[j] = us[d + j]
        BY <1>5
      <4>2. x \in 1..Len(us)
        BY <1>2, <1>3, <3>0, <3>1
      <4>3. QED
        BY <1>2, <3>1, <4>1, <4>2
    <3>3. us[x] <= k <=> x <= s
      BY <1>2, <3>2
    <3>4. x <= s <=> j <= z
      <4>1. s \in Nat /\ d \in Nat /\ j \in Nat
        BY <1>2, <1>3, <3>0
      <4>2. QED
        BY <2>0, <3>1, <4>1
    <3>5. QED
      BY <3>2, <3>3, <3>4
  <2>3. SlotIn(rks, k) = z
    BY <1>5, <2>1, <2>2, SlotOnly
  <2>4. PICK y : y = z + 1
    OBVIOUS
  <2>5. y \in 1..(Len(us) + 1 - d) /\ d + y = s + 1
    BY <1>a, <1>2, <1>3, <1>4, <1>5, <1>8, <2>0, <2>1, <2>4
  <2>6. rcs[y] = ds[s + 1]
    BY <1>6, <2>5
  <2>7. QED
    BY <1>1, <2>3, <2>4, <2>6 DEF ChildIn
<1>9. QED
  BY <1>7, <1>8

-----------------------------------------------------------------------------
(* Steps that leave the tree as it is                                       *)

SameSplits ==
  \A q \in Procs :
    /\ Splitting(q)' <=> Splitting(q)
    /\ Splitting(q) => t'[q].left = t[q].left /\ t'[q].right = t[q].right /\ t'[q].sep = t[q].sep

SameKeys == DOMAIN node' = DOMAIN node /\ \A n \in DOMAIN node : SameTree(n)

LEMMA LeafNext ==
  ASSUME TreeOK, NEW n \in Leaves
  PROVE  /\ n \in DOMAIN node /\ node[n].leaf
         /\ node[n].next # Nil => node[n].next \in Leaves /\ node[n].next \in DOMAIN node
<1>1. n \in DOMAIN node /\ node[n].leaf
  BY DEF Leaves
<1>2. QED
  BY <1>1, LeafFacts DEF Leaves

LEMMA ChildIsIn ==
  ASSUME NEW n, NEW k
  PROVE  ChildFor(n, k) = ChildIn(node[n].keys, node[n].kids, k)
  BY DEF ChildFor, ChildIn, SlotAfter, SlotIn

LEMMA SameChild ==
  ASSUME NEW n, node'[n].keys = node[n].keys, node'[n].kids = node[n].kids, NEW k
  PROVE  ChildFor(n, k)' = ChildFor(n, k)
  BY DEF ChildFor, SlotAfter

LEMMA SameRange ==
  ASSUME TreeOK, SameKeys, NEW n \in Leaves, NEW k
  PROVE  (Low(n, k)' <=> Low(n, k)) /\ (High(n, k)' <=> High(n, k)) /\ (InRange(n, k)' <=> InRange(n, k))
<1>1. n \in DOMAIN node /\ node'[n].keys = node[n].keys /\ node'[n].next = node[n].next
  BY DEF Leaves, SameKeys, SameTree
<1>2. node[n].next # Nil => node'[node[n].next].keys = node[node[n].next].keys
  BY LeafNext DEF SameKeys, SameTree
<1>3. Low(n, k)' <=> Low(n, k)
  BY <1>1 DEF Low
<1>4. High(n, k)' <=> High(n, k)
  BY <1>1, <1>2 DEF High
<1>5. QED
  BY <1>3, <1>4 DEF InRange

LEMMA ChainStill ==
  ASSUME ChainOK, SameKeys
  PROVE  ChainOK' /\ Leaves' = Leaves
<1>1. Leaves' = Leaves
  BY DEF Leaves, SameKeys, SameTree
<1>2. \A n \in DOMAIN node : node'[n].keys = node[n].keys /\ node'[n].next = node[n].next
  BY DEF SameKeys, SameTree
<1>3. \A n \in DOMAIN node' : Sorted(node'[n].keys)
  BY <1>2 DEF ChainOK, SameKeys
<1>4. Leaves \subseteq DOMAIN node
  BY DEF Leaves
<1>5. \A n \in Leaves : node'[n].next # Begin
  BY <1>2, <1>4 DEF ChainOK
<1>6. \A n \in Leaves \ {Begin} : \E l \in Leaves :
        node'[l].next = n /\ \A m \in Leaves : node'[m].next = n => m = l
  BY <1>2, <1>4 DEF ChainOK
<1>7. Begin \in Leaves
  BY DEF ChainOK
<1>8. QED
  BY <1>1, <1>3, <1>5, <1>6, <1>7 DEF ChainOK, Begin

LEMMA SameCovered ==
  ASSUME SameSplits, NEW R, NEW n, NEW k
  PROVE  Covered(R, n, k)' <=> Covered(R, n, k)
<1>1. \A p \in Procs : (Splitting(p)' /\ t'[p].left = n /\ k \in R[t'[p].right]) <=> (Splitting(p) /\ t[p].left = n /\ k \in R[t[p].right])
  BY DEF SameSplits
<1>2. QED
  BY <1>1 DEF Covered

\* The inner nodes and the splits stay, and so does what the leaves are for.
LEMMA RangesKept ==
  ASSUME Core, NEW R, RangesOK(R), SameSplits, root' = root, DOMAIN node' = DOMAIN node,
         \A n \in DOMAIN node : /\ SameLinks(n)
                                /\ ~node[n].leaf => node'[n].keys = node[n].keys,
         LeavesDivide(R)', KeysIn(R)'
  PROVE  RangesOK(R)'
<1>0. /\ ParentsLead(R) /\ ChildrenCover(R) /\ RootCovers(R)
      /\ SplitsDivide(R) /\ R \in [DOMAIN node -> SUBSET Nat]
  BY DEF RangesOK
<1>1. Leaves' = Leaves /\ TreeOK
  BY DEF Leaves, SameLinks, Core, TypesOK
<1>3. ASSUME NEW q \in DOMAIN node \ Leaves, NEW k PROVE ChildFor(q, k)' = ChildFor(q, k)
  <2>1. node'[q].keys = node[q].keys /\ node'[q].kids = node[q].kids
    BY DEF SameLinks, Leaves
  <2>2. QED
    BY <2>1, SameChild
<1>10. ASSUME NEW n \in DOMAIN node, node[n].parent # Nil PROVE node[n].parent \in DOMAIN node \ Leaves
  BY <1>1, <1>10 DEF TreeOK, Formed, Leaves
<1>4. ASSUME NEW q \in DOMAIN node \ Leaves, NEW n, NEW k, Leads(R, q, n, k) PROVE Leads(R, q, n, k)'
  BY <1>3, <1>4 DEF Leads
<1>5. ParentsLead(R)'
  <2> SUFFICES ASSUME NEW n \in DOMAIN node', NEW q, q = node'[n].parent, q # Nil, NEW k \in R[n]
               PROVE  Leads(R, q, n, k)'
    BY DEF ParentsLead, Leads
  <2>1. q = node[n].parent /\ n \in DOMAIN node
    BY DEF SameLinks
  <2>2. q \in DOMAIN node \ Leaves
    BY <1>10, <2>1
  <2>3. Leads(R, q, n, k)
    BY <1>0, <2>1 DEF ParentsLead
  <2>4. QED
    BY <1>4, <2>2, <2>3
<1>6. ChildrenCover(R)'
  <2> SUFFICES ASSUME NEW n \in DOMAIN node \ Leaves, NEW k \in R[n], NEW c, c = ChildFor(n, k)'
               PROVE  Covered(R, c, k)'
    BY <1>1 DEF ChildrenCover, Covered
  <2>1. c = ChildFor(n, k)
    BY <1>3
  <2>2. Covered(R, c, k)
    BY <1>0, <2>1 DEF ChildrenCover
  <2>3. QED
    BY <2>2, SameCovered
<1>7. RootCovers(R)'
  <2> SUFFICES ASSUME NEW k \in Nat, NEW c, c = root PROVE Covered(R, c, k)'
    BY DEF RootCovers, Covered
  <2>1. Covered(R, c, k)
    BY <1>0 DEF RootCovers
  <2>2. QED
    BY <2>1, SameCovered
<1>8. SplitsDivide(R)'
  <2> SUFFICES ASSUME NEW p \in Procs, Splitting(p)' PROVE HalvesOK(R, p)'
    BY DEF SplitsDivide
  <2>1. Splitting(p) /\ t'[p].left = t[p].left /\ t'[p].right = t[p].right /\ t'[p].sep = t[p].sep
    BY DEF SameSplits
  <2>2. HalvesOK(R, p) /\ t[p].left \in DOMAIN node
    BY <1>0, <2>1 DEF SplitsDivide, Core, LocksOK, SplitOK
  <2>3. PICK q : q = node[t[p].left].parent
    OBVIOUS
  <2>4. node'[t[p].left].parent = q
    BY <2>2, <2>3 DEF SameLinks
  <2>5. ASSUME q # Nil, NEW k \in R[t[p].right]
        PROVE  Leads(R, q, t[p].left, k)'
    <3>1. PICK l : l = t[p].left
      OBVIOUS
    <3>2. q \in DOMAIN node \ Leaves
      BY <1>10, <2>2, <2>3, <2>5
    <3>3. Leads(R, q, l, k)
      BY <2>2, <2>3, <2>5, <3>1 DEF HalvesOK
    <3>4. Leads(R, q, l, k)'
      BY <1>4, <3>2, <3>3
    <3>5. QED
      BY <2>1, <3>1, <3>4 DEF Leads
  <2>6. QED
    BY <2>1, <2>2, <2>4, <2>5 DEF HalvesOK, Leads
<1>9. QED
  BY <1>0, <1>5, <1>6, <1>7, <1>8 DEF RangesOK

LEMMA RangesStill ==
  ASSUME Core, NEW R, RangesOK(R), SameKeys, SameSplits, root' = root
  PROVE  RangesOK(R)'
<1>0. LeavesDivide(R) /\ KeysIn(R)
  BY DEF RangesOK
<1>1. Leaves' = Leaves /\ DOMAIN node' = DOMAIN node /\ TreeOK
  BY DEF Leaves, SameKeys, SameTree, Core, TypesOK
<1>2. LeavesDivide(R)'
  <2>1. \A n \in Leaves : \A k \in Nat : k \in R[n] <=> InRange(n, k)'
    BY <1>0, <1>1, SameRange DEF LeavesDivide
  <2>2. QED
    BY <1>0, <1>1, <2>1 DEF LeavesDivide
<1>3. KeysIn(R)'
  BY <1>0 DEF KeysIn, SameKeys, SameTree
<1>4. \A n \in DOMAIN node : SameLinks(n) /\ node'[n].keys = node[n].keys
  BY DEF SameKeys, SameTree, SameLinks
<1>5. QED
  BY <1>1, <1>2, <1>3, <1>4, RangesKept

-----------------------------------------------------------------------------
(* What threads know stays true                                             *)

\* A step from ranges R to Q.  A node that a writer has not begun to change
\* keeps its version, and one whose version is incremented gets another.
Advance(R, Q) ==
  /\ \A n \in DOMAIN node :
       /\ node[n].version <= node'[n].version
       /\ node'[n].version = node[n].version /\ ~node'[n].torn =>
            /\ ~node[n].torn /\ Q[n] = R[n]
            /\ node'[n].keys = node[n].keys /\ node'[n].kids = node[n].kids
  /\ \A n \in Leaves : \A k : Low(n, k) => Low(n, k)'
  /\ \A q \in Procs : Splitting(q)' /\ t'[q].right \in DOMAIN node =>
       Splitting(q) /\ t'[q].right = t[q].right

LEMMA StaysFresh ==
  ASSUME node \in Seq(Node), NEW R, NEW Q, Advance(R, Q), NEW n \in DOMAIN node, NEW v \in Nat,
         node'[n].version \in Nat, v <= node[n].version, node'[n].version = v
  PROVE  /\ node[n].version = v
         /\ ~node'[n].torn => /\ Fresh(n, v) /\ Q[n] = R[n]
                              /\ \A k : ChildFor(n, k)' = ChildFor(n, k)
<1>1. node[n].version \in Nat
  BY NodeFacts
<1>2. node[n].version <= node'[n].version
  BY DEF Advance
<1>3. node[n].version = v
  BY <1>1, <1>2
<1>4. ASSUME ~node'[n].torn
      PROVE  /\ Fresh(n, v) /\ Q[n] = R[n]
             /\ node'[n].keys = node[n].keys /\ node'[n].kids = node[n].kids
  BY <1>3, <1>4 DEF Advance, Fresh
<1>5. QED
  BY <1>3, <1>4, SameChild

LEMMA OthersKnow ==
  ASSUME Core, NEW R, NEW Q, Advance(R, Q), Grown, node' \in Seq(Node),
         NEW p \in Threads, Alone(p), NEW q \in Threads, q # p, Key(q)' = Key(q),
         p \in Procs \/ Q = R, \A n \in DOMAIN node : ~Owns(p, n) => Q[n] = R[n],
         Descent(R, q), Arrival(R, q)
  PROVE  Descent(Q, q)' /\ Arrival(Q, q)'
<1>1. t'[q] = t[q] /\ ThreadOK(q) /\ node \in Seq(Node) /\ TreeOK
  BY DEF Core, TypesOK, Alone, Threads, TreeOK
<1>2. PICK c : c = t[q].cur
  OBVIOUS
<1>3. PICK x : x = t[q].nxt
  OBVIOUS
<1>4. PICK k : k = Key(q)
  OBVIOUS
<1>5. PICK v : v = t[q].ver
  OBVIOUS
<1>6. PICK w : w = t[q].nver
  OBVIOUS
<1>7. PICK a : a = t[q].pc
  OBVIOUS
<1>8. /\ t'[q].cur = c /\ t'[q].nxt = x /\ Key(q)' = k /\ t'[q].ver = v
      /\ t'[q].nver = w /\ t'[q].pc = a
  BY <1>1, <1>2, <1>3, <1>4, <1>5, <1>6, <1>7
<1>9. v \in Nat /\ w \in Nat
  BY <1>1, <1>5, <1>6 DEF ThreadOK
<1>10. /\ a \in AtRoot \union AtInner \union AtLeaf => c \in DOMAIN node
       /\ a \in AtLeaf => c \in Leaves
       /\ a \in AtInner \ {"child"} => x \in DOMAIN node
  BY <1>1, <1>2, <1>3, <1>7 DEF ThreadOK, Leaves
<1>11. \A n \in DOMAIN node : n \in DOMAIN node' /\ node'[n].leaf = node[n].leaf /\ node[n].version \in Nat /\ node'[n].version \in Nat
  <2>1. \A n \in DOMAIN node : n \in DOMAIN node' /\ node'[n].leaf = node[n].leaf /\ node'[n] \in Node /\ node[n] \in Node
    BY <1>1, NodeFacts DEF Grown
  <2>2. QED
    BY <2>1 DEF Node
<1>12. \A n \in DOMAIN node : node[n].version <= node'[n].version
  BY DEF Advance
\* What is known of the root and of the inner nodes.
<1>13. /\ a \in AtRoot => \A z \in Procs : Splitting(z) => t[z].right # c
       /\ a \in {"rootparent"} \union AtInner => v <= node[c].version
       /\ a \in {"child", "childver", "childlocked"} => (Fresh(c, v) => k \in R[c])
       /\ a \in {"childver", "childlocked"} => (Fresh(c, v) => x = ChildFor(c, k))
       /\ a \in {"childlocked", "childvalid"} => w <= node[x].version
       /\ a = "childvalid" => (node[c].version = v =>
            (Fresh(x, w) => k \in R[x]) /\ (node[x].leaf => Low(x, k)))
  BY <1>2, <1>3, <1>4, <1>5, <1>6, <1>7 DEF Descent
<1>14. a \in AtRoot => \A z \in Procs : Splitting(z)' => t'[z].right # c
  BY <1>10, <1>13 DEF Advance
<1>15. a \in {"rootparent"} \union AtInner => v <= node'[c].version
  <2> SUFFICES ASSUME a \in {"rootparent"} \union AtInner PROVE v <= node'[c].version
    OBVIOUS
  <2>1. c \in DOMAIN node /\ v <= node[c].version
    BY <1>10, <1>13 DEF AtRoot
  <2>2. QED
    BY <1>9, <1>11, <1>12, <2>1
<1>16. ASSUME a \in {"child", "childver", "childlocked"}, Fresh(c, v)'
       PROVE  k \in Q[c] /\ (a # "child" => x = ChildFor(c, k)')
  <2>1. c \in DOMAIN node /\ v <= node[c].version
    BY <1>10, <1>13, <1>16 DEF AtInner
  <2>2. Fresh(c, v) /\ Q[c] = R[c] /\ ChildFor(c, k)' = ChildFor(c, k)
    BY <1>1, <1>9, <1>11, <1>16, <2>1, StaysFresh DEF Fresh
  <2>3. k \in R[c] /\ (a # "child" => x = ChildFor(c, k))
    BY <1>13, <1>16, <2>2
  <2>4. QED
    BY <2>2, <2>3
<1>17. a \in {"childlocked", "childvalid"} => w <= node'[x].version
  <2> SUFFICES ASSUME a \in {"childlocked", "childvalid"} PROVE w <= node'[x].version
    OBVIOUS
  <2>1. x \in DOMAIN node /\ w <= node[x].version
    BY <1>10, <1>13 DEF AtInner
  <2>2. QED
    BY <1>9, <1>11, <1>12, <2>1
<1>18. ASSUME a = "childvalid", node'[c].version = v
       PROVE  (Fresh(x, w)' => k \in Q[x]) /\ (node'[x].leaf => Low(x, k)')
  <2>1. c \in DOMAIN node /\ x \in DOMAIN node /\ v <= node[c].version /\ w <= node[x].version
    BY <1>10, <1>13, <1>18 DEF AtInner
  <2>2. node[c].version = v
    BY <1>1, <1>9, <1>11, <1>18, <2>1, StaysFresh
  <2>3. Fresh(x, w)' => Fresh(x, w) /\ Q[x] = R[x]
    BY <1>1, <1>9, <1>11, <2>1, StaysFresh DEF Fresh
  <2>4. node'[x].leaf => x \in Leaves /\ node[x].leaf
    BY <1>11, <2>1 DEF Leaves
  <2>5. QED
    BY <1>13, <1>18, <2>2, <2>3, <2>4 DEF Advance
<1>19. Descent(Q, q)'
  BY <1>8, <1>14, <1>15, <1>16, <1>17, <1>18 DEF Descent
\* What is known of the leaf.
<1>20. /\ a \in AtLeaf => Low(c, k)
       /\ a \in AtLeaf \ {"walkver"} => v <= node[c].version
       /\ a \in {"read", "lock", "lockver"} => (Fresh(c, v) => k \in R[c])
       /\ a = "act" => k \in R[c]
  BY <1>2, <1>4, <1>5, <1>7 DEF Arrival
<1>21. a \in AtLeaf => Low(c, k)'
  BY <1>10, <1>20 DEF Advance
<1>22. a \in AtLeaf \ {"walkver"} => v <= node'[c].version
  <2> SUFFICES ASSUME a \in AtLeaf \ {"walkver"} PROVE v <= node'[c].version
    OBVIOUS
  <2>1. c \in DOMAIN node /\ v <= node[c].version
    BY <1>10, <1>20
  <2>2. QED
    BY <1>9, <1>11, <1>12, <2>1
<1>23. ASSUME a \in {"read", "lock", "lockver"}, Fresh(c, v)' PROVE k \in Q[c]
  <2>1. c \in DOMAIN node /\ v <= node[c].version
    BY <1>10, <1>20, <1>23 DEF AtLeaf, Reading
  <2>2. Fresh(c, v) /\ Q[c] = R[c]
    BY <1>1, <1>9, <1>11, <1>23, <2>1, StaysFresh DEF Fresh
  <2>3. QED
    BY <1>20, <1>23, <2>2
<1>24. ASSUME a = "act" PROVE k \in Q[c]
  <2>0. q \in Procs
    BY <1>1, <1>7, <1>24 DEF ThreadOK, Threads, AtRoot, AtInner, Reading
  <2>1. c \in DOMAIN node /\ Owns(q, c)
    BY <1>2, <1>7, <1>10, <1>24 DEF Owns, AtLeaf
  <2>2. p \in Procs => ~Owns(p, c)
    BY <2>0, <2>1 DEF Core, LocksOK
  <2>3. QED
    BY <1>20, <1>24, <2>1, <2>2
<1>25. Arrival(Q, q)'
  BY <1>8, <1>21, <1>22, <1>23, <1>24 DEF Arrival
<1>26. QED
  BY <1>19, <1>25

LEMMA KnownStep ==
  ASSUME Core, NEW R, Known(R), NEW Q, Advance(R, Q), Grown, node' \in Seq(Node),
         NEW p \in Threads, Alone(p), \A q \in Procs : q # p => op'[q] = op[q],
         p \in Procs \/ Q = R, \A n \in DOMAIN node : ~Owns(p, n) => Q[n] = R[n],
         RangesOK(Q)', ~t'[p].moved => Descent(Q, p)' /\ Arrival(Q, p)'
  PROVE  Known(Q)'
<1>1. ASSUME NEW q \in Threads, q # p, ~t'[q].moved PROVE Descent(Q, q)' /\ Arrival(Q, q)'
  <2>1. t'[q] = t[q]
    BY <1>1 DEF Alone
  <2>2. Descent(R, q) /\ Arrival(R, q)
    BY <1>1, <2>1 DEF Known
  <2>3. Key(q)' = Key(q)
    BY <1>1, <2>1 DEF Key, Threads
  <2>4. QED
    BY <1>1, <2>2, <2>3, OthersKnow
<1>2. \A q \in Threads : ~t'[q].moved => Descent(Q, q)' /\ Arrival(Q, q)'
  BY <1>1
<1>3. QED
  BY <1>2 DEF Known

LEMMA StillKnown ==
  ASSUME Core, ChainOK, NEW R, Known(R), NEW p \in Threads, Alone(p),
         node' \in Seq(Node), SameKeys, SameSplits, root' = root,
         \A n \in DOMAIN node : /\ node[n].version <= node'[n].version
                                /\ node'[n].version = node[n].version /\ ~node'[n].torn => ~node[n].torn,
         \A q \in Procs : q # p => op'[q] = op[q],
         ~t'[p].moved => Descent(R, p)' /\ Arrival(R, p)'
  PROVE  ChainOK' /\ Known(R)'
<1>1. ChainOK' /\ RangesOK(R)'
  BY ChainStill, RangesStill DEF Known
<1>2. Grown
  BY DEF Grown, SameKeys, SameTree
<1>3. \A n \in Leaves : \A k : Low(n, k) => Low(n, k)'
  BY SameRange DEF Core, TypesOK
<1>4. Advance(R, R)
  BY <1>3 DEF Advance, SameKeys, SameTree, SameSplits
<1>5. QED
  BY <1>1, <1>2, <1>4, KnownStep

LEMMA SplitsStay ==
  ASSUME NEW p, Alone(p),
         p \in Procs => /\ Splitting(p)' <=> Splitting(p)
                        /\ Splitting(p) => t'[p].left = t[p].left /\ t'[p].right = t[p].right /\ t'[p].sep = t[p].sep
  PROVE  SameSplits
<1> SUFFICES ASSUME NEW q \in Procs
             PROVE  /\ Splitting(q)' <=> Splitting(q)
                    /\ Splitting(q) => t'[q].left = t[q].left /\ t'[q].right = t[q].right /\ t'[q].sep = t[q].sep
  BY DEF SameSplits
<1>1. CASE q = p
  BY <1>1
<1>2. CASE q # p
  <2>1. t'[q] = t[q]
    BY <1>2 DEF Alone, Threads
  <2>2. QED
    BY <2>1 DEF Splitting
<1>3. QED
  BY <1>1, <1>2

LEMMA CoveredFresh ==
  ASSUME Core, NEW R, RangesOK(R), NEW n, NEW k, Covered(R, n, k)
  PROVE  /\ ~node[n].torn => k \in R[n]
         /\ n \in Leaves /\ k \in Nat => Low(n, k)
<1>1. CASE k \in R[n]
  BY <1>1 DEF RangesOK, LeavesDivide, InRange
<1>2. CASE \E p \in Procs : Splitting(p) /\ t[p].left = n /\ k \in R[t[p].right]
  <2>1. PICK p \in Procs : Splitting(p) /\ t[p].left = n /\ k \in R[t[p].right]
    BY <1>2
  <2>2. node[n].torn
    BY <2>1 DEF Core, LocksOK, SplitOK
  <2>3. ASSUME n \in Leaves, k \in Nat PROVE Low(n, k)
    <3>1. HalvesOK(R, p)
      BY <2>1 DEF RangesOK, SplitsDivide
    <3>2. PICK s : s = t[p].sep
      OBVIOUS
    <3>3. s <= k /\ s \in Nat
      BY <2>1, <3>1, <3>2, KeyFacts DEF HalvesOK, Core, LocksOK, SplitOK
    <3>4. n \in DOMAIN node /\ TreeOK
      BY <2>3 DEF Leaves, Core, TypesOK
    <3>5. PICK h : h = node[n].keys[1]
      OBVIOUS
    <3>6. 1 \in DOMAIN node[n].keys /\ Head(node[n].keys) = h
      <4>1. node[n].keys \in Seq(Keys) /\ Len(node[n].keys) >= 1
        BY <2>3, <3>4, LeafFacts, KeyFacts DEF Leaves
      <4>2. QED
        BY <3>5, <4>1, TailFacts
    <3>7. h \in R[n]
      BY <3>4, <3>5, <3>6 DEF RangesOK, KeysIn
    <3>8. h < s /\ h \in Nat
      BY <2>1, <3>1, <3>2, <3>4, <3>7 DEF HalvesOK, RangesOK
    <3>9. h <= k
      BY <2>3, <3>3, <3>8
    <3>10. QED
      BY <3>6, <3>9 DEF Low
  <2>4. QED
    BY <2>2, <2>3
<1>3. QED
  BY <1>1, <1>2 DEF Covered

-----------------------------------------------------------------------------
(* The descent to a leaf                                                    *)

\* What a thread at a for key k knows: its node c as of version v, and its
\* child x as of version w.
Knows(R, a, c, v, x, w, k) ==
  /\ a \in AtRoot => \A z \in Procs : Splitting(z) => t[z].right # c
  /\ a \in {"rootparent"} \union AtInner => v <= node[c].version
  /\ a \in {"child", "childver", "childlocked"} => (Fresh(c, v) => k \in R[c])
  /\ a \in {"childver", "childlocked"} => (Fresh(c, v) => x = ChildFor(c, k))
  /\ a \in {"childlocked", "childvalid"} => w <= node[x].version
  /\ a = "childvalid" => (node[c].version = v =>
       (Fresh(x, w) => k \in R[x]) /\ (node[x].leaf => Low(x, k)))
  /\ a \in AtLeaf => Low(c, k)
  /\ a \in AtLeaf \ {"walkver"} => v <= node[c].version
  /\ a \in {"read", "lock", "lockver"} => (Fresh(c, v) => k \in R[c])
  /\ a = "act" => k \in R[c]

LEMMA KnowsNow ==
  ASSUME NEW R, NEW p \in Threads, Known(R), ~t[p].moved,
         NEW a, a = t[p].pc, NEW c, c = t[p].cur, NEW v, v = t[p].ver,
         NEW x, x = t[p].nxt, NEW w, w = t[p].nver, NEW k, k = Key(p)
  PROVE  Knows(R, a, c, v, x, w, k)
<1>1. Descent(R, p) /\ Arrival(R, p)
  BY DEF Known
<1>2. QED
  BY <1>1 DEF Descent, Arrival, Knows

LEMMA KnowsThen ==
  ASSUME NEW R, NEW p, node' = node, SameSplits,
         NEW a, a = t'[p].pc, NEW c, c = t'[p].cur, NEW v, v = t'[p].ver,
         NEW x, x = t'[p].nxt, NEW w, w = t'[p].nver, NEW k, k = Key(p)',
         Knows(R, a, c, v, x, w, k)
  PROVE  Descent(R, p)' /\ Arrival(R, p)'
<1>1. (ChildFor(c, k)' = ChildFor(c, k)) /\ (Low(c, k)' <=> Low(c, k)) /\ (Low(x, k)' <=> Low(x, k))
  BY DEF ChildFor, SlotAfter, Low, Begin
<1>2. (Fresh(c, v)' <=> Fresh(c, v)) /\ (Fresh(x, w)' <=> Fresh(x, w))
  BY DEF Fresh
<1>3. (\A z \in Procs : Splitting(z) => t[z].right # c) => (\A z \in Procs : Splitting(z)' => t'[z].right # c)
  BY DEF SameSplits
<1>4. Descent(R, p)'
  BY <1>1, <1>2, <1>3 DEF Knows, Descent
<1>5. Arrival(R, p)'
  BY <1>1, <1>2 DEF Knows, Arrival
<1>6. QED
  BY <1>4, <1>5

\* A step that changes nothing but where the thread is.
LEMMA LookKnown ==
  ASSUME Core, ChainOK, NEW R, Known(R), NEW p \in Threads, Walked(p), KeepScan(p),
         t[p].pc \in Searching, t'[p].pc \in Searching,
         ~t[p].moved => Knows(R, t'[p].pc, t'[p].cur, t'[p].ver, t'[p].nxt, t'[p].nver, Key(p))
  PROVE  ChainOK' /\ Known(R)'
<1>1. Alone(p) /\ node' = node /\ root' = root /\ op' = op
  BY DEF Walked, Still
<1>2. SameSplits
  <2>1. ~Splitting(p) /\ ~Splitting(p)'
    BY DEF Splitting, Searching, AtRoot, AtInner, Reading, Climbing, Parents, Ending
  <2>2. QED
    BY <1>1, <2>1, SplitsStay
<1>3. node' \in Seq(Node) /\ SameKeys
  BY <1>1 DEF SameKeys, SameTree, Core, TypesOK, TreeOK
<1>4. \A n \in DOMAIN node : /\ node[n].version <= node'[n].version
                             /\ node'[n].version = node[n].version /\ ~node'[n].torn => ~node[n].torn
  <2>1. \A n \in DOMAIN node : node[n].version \in Nat
    BY NodeFacts DEF Core, TypesOK, TreeOK
  <2>2. QED
    BY <1>1, <2>1
<1>5. ASSUME ~t'[p].moved PROVE Descent(R, p)' /\ Arrival(R, p)'
  <2>1. ~t[p].moved /\ Key(p)' = Key(p)
    BY <1>1, <1>5 DEF KeepScan, Key
  <2>2. QED
    BY <1>1, <1>2, <2>1, KnowsThen
<1>6. QED
  BY <1>1, <1>2, <1>3, <1>4, <1>5, StillKnown

LEMMA Arrives ==
  ASSUME NEW p \in Threads
  PROVE  /\ Arrive(p) \in {"read", "lock"} /\ Arrive(p) \in Searching
         /\ Arrive(p) \notin AtRoot \union AtInner /\ Arrive(p) \in AtLeaf /\ Arrive(p) # "walkver" /\ Arrive(p) # "act"
<1>1. Arrive(p) \in {"read", "lock"}
  BY ArriveFacts
<1>2. QED
  BY <1>1 DEF Searching, Reading, AtRoot, AtInner, AtLeaf

LEMMA ReachLeaf ==
  ASSUME NEW R, NEW p \in Threads, NEW a, a = Arrive(p), NEW c, NEW v, NEW x, NEW w, NEW k,
         Low(c, k), v <= node[c].version, Fresh(c, v) => k \in R[c]
  PROVE  Knows(R, a, c, v, x, w, k)
<1>1. a \in {"read", "lock"} /\ a \notin AtRoot \union AtInner
  BY Arrives
<1>2. QED
  BY <1>1 DEF Knows, AtInner

LEMMA ReachNode ==
  ASSUME NEW R, NEW a, a = "child", NEW c, NEW v, NEW x, NEW w, NEW k,
         v <= node[c].version, Fresh(c, v) => k \in R[c]
  PROVE  Knows(R, a, c, v, x, w, k)
  BY DEF Knows, AtRoot, AtInner, AtLeaf, Reading

LEMMA Begins ==
  ASSUME NEW R, NEW a, a \in {"root", "idle", "done"}, NEW c, NEW v, NEW x, NEW w, NEW k
  PROVE  Knows(R, a, c, v, x, w, k)
  BY DEF Knows, AtRoot, AtInner, AtLeaf, Reading

LEMMA KeyIsNat ==
  ASSUME Core, Aims, NEW p \in Threads, t[p].pc # "idle"
  PROVE  Key(p) \in Nat
<1>1. CASE p \in Scanners
  BY <1>1 DEF Key, Aims, Aimed
<1>2. CASE p \in Procs
  BY <1>2, ActiveFacts DEF Core
<1>3. QED
  BY <1>1, <1>2 DEF Threads

LEMMA LoadRootKnown ==
  ASSUME Core, Aims, ChainOK, NEW R, Known(R), NEW p \in Threads, LoadRoot(p)
  PROVE  ChainOK' /\ Known(R)'
<1>1. Walked(p) /\ KeepScan(p) /\ t[p].pc = "root" /\ t'[p].pc = "rootver" /\ t'[p].cur = root
  BY LoadRootFacts
<1>2. t[p].pc \in Searching /\ t'[p].pc \in Searching
  BY <1>1 DEF Searching, AtRoot
<1>3. \A z \in Procs : Splitting(z) => t[z].right # root
  BY DEF Core, LocksOK, SplitOK
<1>4. \A v, x, w, k : Knows(R, "rootver", root, v, x, w, k)
  BY <1>3 DEF Knows, AtRoot, AtInner, AtLeaf, Reading
<1>5. QED
  BY <1>1, <1>2, <1>4, LookKnown

LEMMA LoadRootVersionKnown ==
  ASSUME Core, Aims, ChainOK, NEW R, Known(R), NEW p \in Threads, LoadRootVersion(p)
  PROVE  ChainOK' /\ Known(R)'
<1>1. /\ Walked(p) /\ KeepScan(p) /\ t[p].pc = "rootver" /\ t'[p].pc = "rootparent"
      /\ t'[p].ver = node[t[p].cur].version /\ t'[p].cur = t[p].cur
  BY LoadRootVersionFacts
<1>2. t[p].pc \in Searching /\ t'[p].pc \in Searching
  BY <1>1 DEF Searching, AtRoot
<1>3. ASSUME ~t[p].moved
      PROVE  Knows(R, t'[p].pc, t'[p].cur, t'[p].ver, t'[p].nxt, t'[p].nver, Key(p))
  <2>1. PICK c : c = t[p].cur
    OBVIOUS
  <2>2. \A v, x, w, k : Knows(R, "rootver", c, v, x, w, k) => \A z \in Procs : Splitting(z) => t[z].right # c
    BY DEF Knows, AtRoot
  <2>3. \A z \in Procs : Splitting(z) => t[z].right # c
    BY <1>1, <1>3, <2>1, <2>2, KnowsNow
  <2>4. c \in DOMAIN node
    BY <1>1, <2>1, LocalFacts DEF ThreadOK, AtRoot, Core
  <2>5. node[c].version <= node[c].version
    <3>1. node[c].version \in Nat
      BY <2>4, NodeFacts DEF Core, TypesOK, TreeOK
    <3>2. QED
      BY <3>1
  <2>6. \A x, w, k : Knows(R, "rootparent", c, node[c].version, x, w, k)
    BY <2>3, <2>5 DEF Knows, AtRoot, AtInner, AtLeaf, Reading
  <2>7. QED
    BY <1>1, <2>1, <2>6
<1>4. QED
  BY <1>1, <1>2, <1>3, LookKnown

LEMMA CheckRootKnown ==
  ASSUME Core, Aims, ChainOK, NEW R, Known(R), NEW p \in Threads, CheckRoot(p)
  PROVE  ChainOK' /\ Known(R)'
<1>1. /\ Walked(p) /\ KeepScan(p) /\ KeepPlace(p) /\ t[p].pc = "rootparent"
      /\ \/ node[t[p].cur].parent # Nil /\ t'[p].pc = "root"
         \/ node[t[p].cur].parent = Nil /\ node[t[p].cur].leaf /\ t'[p].pc = Arrive(p)
         \/ node[t[p].cur].parent = Nil /\ ~node[t[p].cur].leaf /\ t'[p].pc = "child"
  BY CheckRootFacts
<1>2. t[p].pc \in Searching /\ t'[p].pc \in Searching
  BY <1>1, Arrives DEF Searching, AtRoot, AtInner
<1>3. ASSUME ~t[p].moved
      PROVE  Knows(R, t'[p].pc, t'[p].cur, t'[p].ver, t'[p].nxt, t'[p].nver, Key(p))
  <2>1. PICK c : c = t[p].cur
    OBVIOUS
  <2>2. PICK v : v = t[p].ver
    OBVIOUS
  <2>3. PICK k : k = Key(p)
    OBVIOUS
  <2>4. k \in Nat /\ c \in DOMAIN node
    BY <1>1, <2>1, <2>3, KeyIsNat, LocalFacts DEF ThreadOK, AtRoot, Core
  <2>5. \A x, w : Knows(R, "rootparent", c, v, x, w, k) =>
          v <= node[c].version /\ \A z \in Procs : Splitting(z) => t[z].right # c
    BY DEF Knows, AtRoot
  <2>6. v <= node[c].version /\ \A z \in Procs : Splitting(z) => t[z].right # c
    BY <1>1, <1>3, <2>1, <2>2, <2>3, <2>5, KnowsNow
  <2>7. ASSUME node[c].parent = Nil
        PROVE  Covered(R, c, k)
    <3>1. c = root
      BY <2>4, <2>6, <2>7 DEF Core, ShapeOK
    <3>2. QED
      BY <2>4, <3>1 DEF Known, RangesOK, RootCovers
  <2>8. CASE node[c].parent # Nil
    BY <1>1, <2>1, <2>8, Begins
  <2>9. CASE node[c].parent = Nil /\ node[c].leaf
    <3>1. Low(c, k) /\ (Fresh(c, v) => k \in R[c])
      BY <2>4, <2>7, <2>9, CoveredFresh DEF Leaves, Fresh, Known
    <3>2. QED
      BY <1>1, <2>1, <2>2, <2>3, <2>6, <2>9, <3>1, ReachLeaf DEF KeepPlace
  <2>10. CASE node[c].parent = Nil /\ ~node[c].leaf
    <3>1. Fresh(c, v) => k \in R[c]
      BY <2>7, <2>10, CoveredFresh DEF Fresh, Known
    <3>2. QED
      BY <1>1, <2>1, <2>2, <2>3, <2>6, <2>10, <3>1, ReachNode DEF KeepPlace
  <2>11. QED
    BY <2>8, <2>9, <2>10
<1>4. QED
  BY <1>1, <1>2, <1>3, LookKnown

LEMMA FindChildKnown ==
  ASSUME Core, Aims, ChainOK, NEW R, Known(R), NEW p \in Threads, FindChild(p)
  PROVE  ChainOK' /\ Known(R)'
<1>1. /\ Walked(p) /\ KeepScan(p) /\ t[p].pc = "child" /\ t'[p].pc = "childver"
      /\ t'[p].cur = t[p].cur /\ t'[p].ver = t[p].ver /\ t'[p].nver = t[p].nver
      /\ node[t[p].cur].torn \/ t'[p].nxt = ChildFor(t[p].cur, Key(p))
  BY FindChildFacts
<1>2. t[p].pc \in Searching /\ t'[p].pc \in Searching
  BY <1>1 DEF Searching, AtInner
<1>3. ASSUME ~t[p].moved
      PROVE  Knows(R, t'[p].pc, t'[p].cur, t'[p].ver, t'[p].nxt, t'[p].nver, Key(p))
  <2>1. PICK c : c = t[p].cur
    OBVIOUS
  <2>2. PICK v : v = t[p].ver
    OBVIOUS
  <2>3. PICK k : k = Key(p)
    OBVIOUS
  <2>4. PICK x : x = t'[p].nxt
    OBVIOUS
  <2>5. Key(p) = k
    BY <2>3
  <2>6. \A y, w : Knows(R, "child", c, v, y, w, k) => v <= node[c].version /\ (Fresh(c, v) => k \in R[c])
    BY DEF Knows, AtInner
  <2>7. v <= node[c].version /\ (Fresh(c, v) => k \in R[c])
    BY <1>1, <1>3, <2>1, <2>2, <2>3, <2>6, KnowsNow
  <2>8. Fresh(c, v) => x = ChildFor(c, k)
    BY <1>1, <2>1, <2>4, <2>5 DEF Fresh
  <2>9. \A w : Knows(R, "childver", c, v, x, w, k)
    BY <2>7, <2>8 DEF Knows, AtRoot, AtInner, AtLeaf, Reading
  <2>10. QED
    BY <1>1, <2>1, <2>2, <2>3, <2>4, <2>9
<1>4. QED
  BY <1>1, <1>2, <1>3, LookKnown

LEMMA LoadChildVersionKnown ==
  ASSUME Core, Aims, ChainOK, NEW R, Known(R), NEW p \in Threads, LoadChildVersion(p)
  PROVE  ChainOK' /\ Known(R)'
<1>1. /\ Walked(p) /\ KeepScan(p) /\ t[p].pc = "childver" /\ t'[p].pc = "childlocked"
      /\ t'[p].cur = t[p].cur /\ t'[p].ver = t[p].ver /\ t'[p].nxt = t[p].nxt
      /\ t'[p].nver = node[t[p].nxt].version
  BY LoadChildVersionFacts
<1>2. t[p].pc \in Searching /\ t'[p].pc \in Searching
  BY <1>1 DEF Searching, AtInner
<1>3. ASSUME ~t[p].moved
      PROVE  Knows(R, t'[p].pc, t'[p].cur, t'[p].ver, t'[p].nxt, t'[p].nver, Key(p))
  <2>1. PICK c : c = t[p].cur
    OBVIOUS
  <2>2. PICK v : v = t[p].ver
    OBVIOUS
  <2>3. PICK k : k = Key(p)
    OBVIOUS
  <2>4. PICK x : x = t[p].nxt
    OBVIOUS
  <2>5. \A w : Knows(R, "childver", c, v, x, w, k) =>
          v <= node[c].version /\ (Fresh(c, v) => k \in R[c] /\ x = ChildFor(c, k))
    BY DEF Knows, AtInner
  <2>6. v <= node[c].version /\ (Fresh(c, v) => k \in R[c] /\ x = ChildFor(c, k))
    BY <1>1, <1>3, <2>1, <2>2, <2>3, <2>4, <2>5, KnowsNow
  <2>7. node[x].version <= node[x].version
    <3>1. x \in DOMAIN node
      BY <1>1, <2>4, LocalFacts DEF ThreadOK, AtInner, Core
    <3>2. node[x].version \in Nat
      BY <3>1, NodeFacts DEF Core, TypesOK, TreeOK
    <3>3. QED
      BY <3>2
  <2>8. Knows(R, "childlocked", c, v, x, node[x].version, k)
    BY <2>6, <2>7 DEF Knows, AtRoot, AtInner, AtLeaf, Reading
  <2>9. QED
    BY <1>1, <2>1, <2>2, <2>3, <2>4, <2>8
<1>4. QED
  BY <1>1, <1>2, <1>3, LookKnown

LEMMA CheckChildLockedKnown ==
  ASSUME Core, Aims, ChainOK, NEW R, Known(R), NEW p \in Threads, CheckChildLocked(p)
  PROVE  ChainOK' /\ Known(R)'
<1>1. /\ Walked(p) /\ KeepScan(p) /\ KeepPlace(p) /\ t[p].pc = "childlocked"
      /\ \/ node[t[p].cur].locked /\ t'[p].pc = "root"
         \/ ~node[t[p].cur].locked /\ t'[p].pc = "childvalid"
  BY CheckChildLockedFacts
<1>2. t[p].pc \in Searching /\ t'[p].pc \in Searching
  BY <1>1 DEF Searching, AtInner
<1>3. ASSUME ~t[p].moved, t'[p].pc # "root"
      PROVE  Knows(R, t'[p].pc, t'[p].cur, t'[p].ver, t'[p].nxt, t'[p].nver, Key(p))
  <2>1. PICK c : c = t[p].cur
    OBVIOUS
  <2>2. PICK v : v = t[p].ver
    OBVIOUS
  <2>3. PICK k : k = Key(p)
    OBVIOUS
  <2>4. PICK x : x = t[p].nxt
    OBVIOUS
  <2>5. PICK w : w = t[p].nver
    OBVIOUS
  <2>6. Knows(R, "childlocked", c, v, x, w, k) =>
          /\ v <= node[c].version /\ w <= node[x].version
          /\ Fresh(c, v) => k \in R[c] /\ x = ChildFor(c, k)
    BY DEF Knows, AtInner
  <2>7. /\ v <= node[c].version /\ w <= node[x].version
        /\ Fresh(c, v) => k \in R[c] /\ x = ChildFor(c, k)
    BY <1>1, <1>3, <2>1, <2>2, <2>3, <2>4, <2>5, <2>6, KnowsNow
  <2>8. c \in DOMAIN node /\ ~node[c].leaf /\ x \in DOMAIN node /\ k \in Nat
    BY <1>1, <2>1, <2>3, <2>4, LocalFacts, KeyIsNat DEF ThreadOK, AtInner, Core
  <2>9. ~node[c].torn
    <3>1. ~node[c].locked
      BY <1>1, <1>3, <2>1
    <3>2. QED
      BY <2>8, <3>1, Tears DEF Core, LocksOK
  <2>10. ASSUME node[c].version = v
         PROVE  (Fresh(x, w) => k \in R[x]) /\ (node[x].leaf => Low(x, k))
    <3>1. k \in R[c] /\ x = ChildFor(c, k)
      BY <2>7, <2>9, <2>10 DEF Fresh
    <3>2. Covered(R, x, k)
      BY <2>8, <3>1 DEF Known, RangesOK, ChildrenCover, Leaves
    <3>3. QED
      BY <2>8, <3>2, CoveredFresh DEF Leaves, Fresh, Known
  <2>11. Knows(R, "childvalid", c, v, x, w, k)
    BY <2>7, <2>10 DEF Knows, AtRoot, AtInner, AtLeaf, Reading
  <2>12. QED
    BY <1>1, <1>3, <2>1, <2>2, <2>3, <2>4, <2>5, <2>11 DEF KeepPlace
<1>4. ASSUME ~t[p].moved
      PROVE  Knows(R, t'[p].pc, t'[p].cur, t'[p].ver, t'[p].nxt, t'[p].nver, Key(p))
  BY <1>3, <1>4, Begins
<1>5. QED
  BY <1>1, <1>2, <1>4, LookKnown

LEMMA CheckChildVersionKnown ==
  ASSUME Core, Aims, ChainOK, NEW R, Known(R), NEW p \in Threads, CheckChildVersion(p)
  PROVE  ChainOK' /\ Known(R)'
<1>1. /\ Walked(p) /\ KeepScan(p) /\ t[p].pc = "childvalid"
      /\ \/ node[t[p].cur].version # t[p].ver /\ t'[p].pc = "root"
         \/ /\ node[t[p].cur].version = t[p].ver
            /\ t'[p].pc = IF node[t[p].nxt].leaf THEN Arrive(p) ELSE "child"
            /\ t'[p].cur = t[p].nxt /\ t'[p].ver = t[p].nver
            /\ t'[p].nxt = t[p].nxt /\ t'[p].nver = t[p].nver
  BY CheckChildVersionFacts
<1>2. t[p].pc \in Searching /\ t'[p].pc \in Searching
  BY <1>1, Arrives DEF Searching, AtInner
<1>3. ASSUME ~t[p].moved
      PROVE  Knows(R, t'[p].pc, t'[p].cur, t'[p].ver, t'[p].nxt, t'[p].nver, Key(p))
  <2>1. PICK c : c = t[p].cur
    OBVIOUS
  <2>2. PICK v : v = t[p].ver
    OBVIOUS
  <2>3. PICK k : k = Key(p)
    OBVIOUS
  <2>4. PICK x : x = t[p].nxt
    OBVIOUS
  <2>5. PICK w : w = t[p].nver
    OBVIOUS
  <2>6. Knows(R, "childvalid", c, v, x, w, k) =>
          /\ w <= node[x].version
          /\ node[c].version = v => (Fresh(x, w) => k \in R[x]) /\ (node[x].leaf => Low(x, k))
    BY DEF Knows, AtInner
  <2>7. /\ w <= node[x].version
        /\ node[c].version = v => (Fresh(x, w) => k \in R[x]) /\ (node[x].leaf => Low(x, k))
    BY <1>1, <1>3, <2>1, <2>2, <2>3, <2>4, <2>5, <2>6, KnowsNow
  <2>8. CASE t'[p].pc = "root"
    BY <2>8, Begins
  <2>9. CASE t'[p].pc # "root" /\ node[x].leaf
    <3>1. t'[p].pc = Arrive(p) /\ Low(x, k) /\ (Fresh(x, w) => k \in R[x])
      BY <1>1, <2>1, <2>2, <2>4, <2>7, <2>9
    <3>2. QED
      BY <1>1, <2>3, <2>4, <2>5, <2>7, <2>9, <3>1, ReachLeaf
  <2>10. CASE t'[p].pc # "root" /\ ~node[x].leaf
    <3>1. t'[p].pc = "child" /\ (Fresh(x, w) => k \in R[x])
      BY <1>1, <2>1, <2>2, <2>4, <2>7, <2>10
    <3>2. QED
      BY <1>1, <2>3, <2>4, <2>5, <2>7, <2>10, <3>1, ReachNode
  <2>11. QED
    BY <2>8, <2>9, <2>10
<1>4. QED
  BY <1>1, <1>2, <1>3, LookKnown

-----------------------------------------------------------------------------
(* At the leaf                                                              *)

LEMMA AtTheLeaf ==
  ASSUME Core, NEW R, Known(R), NEW p \in Threads, ~t[p].moved, t[p].pc \in AtLeaf,
         NEW c, c = t[p].cur, NEW v, v = t[p].ver, NEW k, k = Key(p)
  PROVE  /\ c \in Leaves /\ c \in DOMAIN node /\ node[c].leaf /\ v \in Nat
         /\ node[c].version \in Nat /\ Low(c, k)
         /\ t[p].pc # "walkver" => v <= node[c].version
         /\ t[p].pc \in {"read", "lock", "lockver"} => (Fresh(c, v) => k \in R[c])
         /\ t[p].pc = "act" => k \in R[c]
<1>1. Arrival(R, p)
  BY DEF Known
<1>2. c \in DOMAIN node /\ node[c].leaf /\ v \in Nat
  BY LocalFacts DEF ThreadOK, Core
<1>3. node[c].version \in Nat
  BY <1>2, NodeFacts DEF Core, TypesOK, TreeOK
<1>4. QED
  BY <1>1, <1>2, <1>3 DEF Arrival, Leaves

LEMMA AtALeaf ==
  ASSUME Core, NEW R, Known(R), NEW p \in Procs, t[p].pc \in AtLeaf,
         NEW c, c = t[p].cur, NEW v, v = t[p].ver, NEW k, k = op[p].key
  PROVE  /\ c \in Leaves /\ c \in DOMAIN node /\ node[c].leaf /\ k \in Nat /\ v \in Nat
         /\ node[c].version \in Nat /\ Low(c, k)
         /\ t[p].pc # "walkver" => v <= node[c].version
         /\ t[p].pc \in {"read", "lock", "lockver"} => (Fresh(c, v) => k \in R[c])
         /\ t[p].pc = "act" => k \in R[c]
<1>1. p \in Threads /\ ~t[p].moved
  BY LocalFacts DEF ThreadOK, Core, Threads
<1>2. t[p].pc # "idle"
  BY DEF AtLeaf, Reading
<1>3. k = Key(p) /\ k \in Nat
  BY <1>2, ActiveFacts DEF Core
<1>4. QED
  BY <1>1, <1>3, AtTheLeaf

LEMMA StayAtLeaf ==
  ASSUME NEW R, NEW a, a \in {"walkver", "walknext", "again", "locked", "valid"},
         NEW c, NEW v, NEW x, NEW w, NEW k, Low(c, k), a # "walkver" => v <= node[c].version
  PROVE  Knows(R, a, c, v, x, w, k)
  BY DEF Knows, AtRoot, AtInner, AtLeaf, Reading

LEMMA WalkVersionKnown ==
  ASSUME Core, Aims, ChainOK, NEW R, Known(R), NEW p \in Threads, WalkVersion(p)
  PROVE  ChainOK' /\ Known(R)'
<1>1. /\ Walked(p) /\ KeepScan(p) /\ t[p].pc = "walkver" /\ t'[p].pc = "walknext"
      /\ t'[p].ver = node[t[p].cur].version /\ t'[p].cur = t[p].cur
  BY WalkVersionFacts
<1>2. t[p].pc \in Searching /\ t'[p].pc \in Searching /\ t[p].pc \in AtLeaf
  BY <1>1 DEF Searching, AtLeaf
<1>3. ASSUME ~t[p].moved
      PROVE  Knows(R, t'[p].pc, t'[p].cur, t'[p].ver, t'[p].nxt, t'[p].nver, Key(p))
  <2>1. Low(t[p].cur, Key(p)) /\ node[t[p].cur].version \in Nat
    BY <1>2, <1>3, AtTheLeaf
  <2>2. QED
    BY <1>1, <2>1, StayAtLeaf
<1>4. QED
  BY <1>1, <1>2, <1>3, LookKnown

LEMMA WalkNextKnown ==
  ASSUME Core, Aims, ChainOK, NEW R, Known(R), NEW p \in Threads, WalkNext(p)
  PROVE  ChainOK' /\ Known(R)'
<1>0. PICK nx : nx = node[t[p].cur].next
  OBVIOUS
<1>1. /\ Walked(p) /\ KeepScan(p) /\ t[p].pc = "walknext" /\ t'[p].ver = t[p].ver
      /\ \/ /\ nx # Nil /\ node[nx].keys[1] <= Key(p)
            /\ t'[p].pc = "walkver" /\ t'[p].cur = nx
         \/ /\ nx = Nil \/ ~(node[nx].keys[1] <= Key(p))
            /\ t'[p].pc = Arrive(p) /\ t'[p].cur = t[p].cur
  BY <1>0, WalkNextFacts
<1>2. t[p].pc \in Searching /\ t'[p].pc \in Searching /\ t[p].pc \in AtLeaf
  BY <1>1, Arrives DEF Searching, AtLeaf
<1>3. ASSUME ~t[p].moved
      PROVE  Knows(R, t'[p].pc, t'[p].cur, t'[p].ver, t'[p].nxt, t'[p].nver, Key(p))
  <2>1. PICK c : c = t[p].cur
    OBVIOUS
  <2>2. PICK v : v = t[p].ver
    OBVIOUS
  <2>3. PICK k : k = Key(p)
    OBVIOUS
  <2>4. c \in Leaves /\ k \in Nat /\ Low(c, k) /\ v <= node[c].version
    BY <1>1, <1>2, <1>3, <2>1, <2>2, <2>3, AtTheLeaf, KeyIsNat
  <2>5. Key(p) = k
    BY <2>3
  <2>6. nx # Nil => nx \in DOMAIN node /\ Head(node[nx].keys) = node[nx].keys[1] /\ node[nx].keys[1] \in Nat
    <3>1. nx # Nil => nx \in Leaves /\ nx \in DOMAIN node
      BY <1>0, <2>1, <2>4, LeafNext DEF Core, TypesOK
    <3>2. nx # Nil => node[nx].keys \in Seq(Keys) /\ Len(node[nx].keys) \in 1..Capacity
      BY <3>1, LeafFacts DEF Core, TypesOK, Leaves
    <3>3. nx # Nil => node[nx].keys \in Seq(Nat) /\ node[nx].keys # <<>>
      BY <3>2, KeySeq, KeyFacts
    <3>4. QED
      BY <3>1, <3>3
  <2>7. CASE t'[p].pc = "walkver"
    <3>1. nx # Nil /\ node[nx].keys[1] <= k /\ t'[p].cur = nx
      BY <1>1, <2>5, <2>7, Arrives
    <3>2. Low(nx, k)
      BY <2>6, <3>1 DEF Low
    <3>3. QED
      BY <2>3, <2>7, <3>1, <3>2, StayAtLeaf
  <2>8. CASE t'[p].pc # "walkver"
    <3>1. /\ nx = Nil \/ ~(node[nx].keys[1] <= k)
          /\ t'[p].pc = Arrive(p) /\ t'[p].cur = c
      BY <1>1, <2>1, <2>5, <2>8
    <3>2. High(c, k)
      BY <1>0, <2>1, <2>4, <2>6, <3>1 DEF High
    <3>3. k \in R[c]
      BY <2>4, <3>2 DEF Known, RangesOK, LeavesDivide, InRange
    <3>4. QED
      BY <1>1, <2>2, <2>3, <2>4, <3>1, <3>3, ReachLeaf
  <2>9. QED
    BY <2>7, <2>8
<1>4. QED
  BY <1>1, <1>2, <1>3, LookKnown

\* Reading the leaf and looking at its lock and version.
LEMMA ReadingKnown ==
  ASSUME Core, Aims, ChainOK, NEW R, Known(R), NEW p \in Threads,
         ReadLeaf(p) \/ ScanLeaf(p) \/ CheckLocked(p) \/ CheckChanged(p) \/ ScanVersion(p)
  PROVE  ChainOK' /\ Known(R)'
<1>1. /\ Walked(p) /\ KeepScan(p) /\ t[p].pc \in {"read", "locked", "valid", "again"}
      /\ t'[p].pc \in {"locked", "valid", "again", "walkver", "read"}
      /\ ~t[p].moved => /\ t'[p].cur = t[p].cur /\ t'[p].ver = t[p].ver
                        /\ t'[p].pc \in {"locked", "valid", "again", "walkver"}
  <2>1. CASE ReadLeaf(p)
    BY <2>1, ReadLeafFacts DEF KeepPlace
  <2>2. CASE ScanLeaf(p)
    BY <2>2, ScanLeafFacts
  <2>3. CASE CheckLocked(p)
    BY <2>3, CheckLockedFacts DEF KeepPlace
  <2>4. CASE CheckChanged(p)
    BY <2>4, CheckChangedFacts DEF KeepPlace
  <2>5. CASE ScanVersion(p)
    <3>1. t[p].pc = "again" => t[p].moved
      BY LocalFacts DEF ThreadOK, Core, Aims, Aimed, Threads
    <3>2. QED
      BY <2>5, <3>1, ScanVersionFacts
  <2>6. QED
    BY <2>1, <2>2, <2>3, <2>4, <2>5
<1>2. t[p].pc \in Searching /\ t'[p].pc \in Searching /\ t[p].pc \in AtLeaf /\ t[p].pc # "walkver"
  BY <1>1 DEF Searching, AtLeaf, Reading
<1>3. ASSUME ~t[p].moved
      PROVE  Knows(R, t'[p].pc, t'[p].cur, t'[p].ver, t'[p].nxt, t'[p].nver, Key(p))
  <2>1. Low(t[p].cur, Key(p)) /\ t[p].ver <= node[t[p].cur].version
    BY <1>2, <1>3, AtTheLeaf
  <2>2. QED
    BY <1>1, <1>3, <2>1, StayAtLeaf
<1>4. QED
  BY <1>1, <1>2, <1>3, LookKnown

-----------------------------------------------------------------------------
(* The other steps that leave the keys where they are                       *)

Searches == AtRoot \union AtInner \union AtLeaf

LEMMA WorkKnown ==
  ASSUME Core, ChainOK, NEW R, Known(R), NEW p \in Threads, Alone(p),
         node' \in Seq(Node), SameKeys, SameSplits, root' = root,
         \A n \in DOMAIN node : /\ node[n].version <= node'[n].version
                                /\ node'[n].version = node[n].version /\ ~node'[n].torn => ~node[n].torn,
         \A q \in Procs : q # p => op'[q] = op[q],
         ~t'[p].moved => t'[p].pc \notin Searches
  PROVE  ChainOK' /\ Known(R)'
<1>1. ASSUME ~t'[p].moved PROVE Descent(R, p)' /\ Arrival(R, p)'
  <2>1. t'[p].pc \notin AtRoot \union AtInner \union AtLeaf
    BY <1>1 DEF Searches
  <2>2. PICK a : a = t'[p].pc
    OBVIOUS
  <2>3. /\ a \notin {"rootparent"} \union AtInner /\ a \notin AtRoot /\ a \notin AtLeaf
        /\ a \notin {"child", "childver", "childlocked"} /\ a \notin {"childlocked", "childvalid"}
        /\ a \notin {"read", "lock", "lockver"} /\ a # "act" /\ a # "childvalid"
        /\ a \notin {"childver", "childlocked"} /\ a \notin AtLeaf \ {"walkver"}
    BY <2>1, <2>2 DEF AtRoot, AtInner, AtLeaf, Reading
  <2>4. QED
    BY <2>2, <2>3 DEF Descent, Arrival
<1>2. QED
  BY <1>1, StillKnown

LEMMA SameVersions ==
  ASSUME node \in Seq(Node), \A n \in DOMAIN node : node'[n].version = node[n].version /\ (node[n].torn => node'[n].torn)
  PROVE  \A n \in DOMAIN node : /\ node[n].version <= node'[n].version
                                /\ node'[n].version = node[n].version /\ ~node'[n].torn => ~node[n].torn
<1>1. \A n \in DOMAIN node : node[n].version \in Nat
  BY NodeFacts
<1>2. QED
  BY <1>1

\* A step that leaves the nodes alone.
LEMMA QuietKnown ==
  ASSUME Core, ChainOK, NEW R, Known(R), NEW p \in Threads, Alone(p), UNCHANGED <<node, root>>,
         SameSplits, \A q \in Procs : q # p => op'[q] = op[q],
         ~t'[p].moved => t'[p].pc \notin Searches
  PROVE  ChainOK' /\ Known(R)'
<1>1. node \in Seq(Node)
  BY DEF Core, TypesOK, TreeOK
<1>2. \A n \in DOMAIN node : /\ node[n].version <= node'[n].version
                             /\ node'[n].version = node[n].version /\ ~node'[n].torn => ~node[n].torn
  BY <1>1, SameVersions
<1>3. SameKeys
  BY DEF SameKeys, SameTree
<1>4. QED
  BY <1>1, <1>2, <1>3, WorkKnown

LEMMA NoSplit ==
  ASSUME NEW p, Alone(p), p \in Procs => NoWork(p) /\ NoWork(p)'
  PROVE  SameSplits
<1>1. p \in Procs => ~Splitting(p) /\ ~Splitting(p)'
  BY DEF NoWork, Splitting
<1>2. QED
  BY <1>1, SplitsStay

LEMMA CallKnown ==
  ASSUME Core, ChainOK, NEW R, Known(R), NEW p \in Threads,
         \/ p \in Procs /\ Start(p)
         \/ p \in Scanners /\ StartScan(p)
         \/ Finish(p) \/ Accept(p) \/ ScanAccept(p) \/ Count(p)
  PROVE  ChainOK' /\ Known(R)'
<1>0. DOMAIN t = Threads /\ DOMAIN op = Procs /\ LocalsOK(p)
  BY LocalFacts DEF Core, TypesOK
<1>1. CASE p \in Procs /\ Start(p)
  <2>1. /\ Alone(p) /\ UNCHANGED <<node, root>> /\ t[p].pc = "idle" /\ t'[p].pc = "root"
        /\ \E c \in Abs!Calls : op' = [op EXCEPT ![p] = c]
    BY <1>1, StartFacts
  <2>2. SameSplits /\ t'[p].pc \notin Searches /\ \A q \in Procs : q # p => op'[q] = op[q]
    BY <1>0, <2>1, NoSplit DEF NoWork, Climbing, Parents, Ending, Searches, AtRoot, AtInner, AtLeaf, Reading
  <2>3. QED
    BY <2>1, <2>2, QuietKnown
<1>2. CASE p \in Scanners /\ StartScan(p)
  <2>1. Alone(p) /\ UNCHANGED <<node, root, op>> /\ p \notin Procs /\ t'[p].pc = "root"
    BY <1>2, StartScanFacts, ThreadsAssumption
  <2>2. t'[p].pc \notin Searches
    BY <2>1 DEF Searches, AtRoot, AtInner, AtLeaf, Reading
  <2>3. QED
    BY <2>1, <2>2, NoSplit, QuietKnown
<1>3. CASE Finish(p)
  <2>1. /\ Alone(p) /\ t[p].pc = "done" /\ t'[p] = NoOp /\ UNCHANGED <<node, root>>
        /\ p \in Procs => op' = [op EXCEPT ![p] = Abs!Idle]
        /\ p \notin Procs => op' = op
    BY <1>3, FinishFacts
  <2>2. t'[p].pc = "idle"
    BY <2>1 DEF NoOp
  <2>3. SameSplits /\ t'[p].pc \notin Searches /\ \A q \in Procs : q # p => op'[q] = op[q]
    BY <1>0, <2>1, <2>2, NoSplit DEF NoWork, Climbing, Parents, Ending, Searches, AtRoot, AtInner, AtLeaf, Reading
  <2>4. QED
    BY <2>1, <2>3, QuietKnown
<1>4. CASE Accept(p)
  <2>1. Alone(p) /\ t[p].pc = "valid" /\ t'[p].pc = "done" /\ UNCHANGED <<node, root, op>>
    BY <1>4, AcceptFacts
  <2>2. SameSplits /\ t'[p].pc \notin Searches
    BY <2>1, NoSplit DEF NoWork, Climbing, Parents, Ending, Searches, AtRoot, AtInner, AtLeaf, Reading
  <2>3. QED
    BY <2>1, <2>2, QuietKnown
<1>5. CASE ScanAccept(p)
  <2>1. /\ Alone(p) /\ p \notin Procs /\ UNCHANGED <<node, root, op>>
        /\ ~t'[p].moved => t'[p].pc \notin Searches
    BY <1>5, ScanAcceptFacts, ThreadsAssumption DEF Searches, AtRoot, AtInner, AtLeaf, Reading
  <2>2. QED
    BY <2>1, NoSplit, QuietKnown
<1>6. CASE Count(p)
  <2>1. Alone(p) /\ t[p].pc = "count" /\ t'[p].pc = "done" /\ UNCHANGED <<node, root, op>>
    BY <1>6, CountFacts
  <2>2. SameSplits /\ t'[p].pc \notin Searches
    BY <2>1, NoSplit DEF NoWork, Climbing, Parents, Ending, Searches, AtRoot, AtInner, AtLeaf, Reading
  <2>3. QED
    BY <2>1, <2>2, QuietKnown
<1>7. QED
  BY <1>1, <1>2, <1>3, <1>4, <1>5, <1>6

LEMMA LockSame ==
  ASSUME node \in Seq(Node), NEW n \in DOMAIN node, NEW b, SetLock(n, b)
  PROVE  /\ SameKeys /\ node' \in Seq(Node)
         /\ \A m \in DOMAIN node : node'[m].version = node[m].version /\ node'[m].torn = node[m].torn
         /\ \A m \in DOMAIN node : /\ node[m].version <= node'[m].version
                                   /\ node'[m].version = node[m].version /\ ~node'[m].torn => ~node[m].torn
<1>1. SameKeys /\ node' \in Seq(Node) /\ \A m \in DOMAIN node : node'[m].version = node[m].version /\ node'[m].torn = node[m].torn
  BY DEF SetLock, SameKeys, SameTree
<1>2. QED
  BY <1>1, SameVersions

LEMMA LockLeafKnown ==
  ASSUME Core, ChainOK, NEW R, Known(R), NEW p \in Threads, LockLeaf(p)
  PROVE  ChainOK' /\ Known(R)'
<1>1. /\ Alone(p) /\ KeepPlace(p) /\ p \in Procs /\ t[p].pc = "lock" /\ t'[p].pc = "lockver"
      /\ t[p].cur \in DOMAIN node /\ SetLock(t[p].cur, TRUE) /\ UNCHANGED <<root, op>>
  BY LockLeafFacts
<1>2. SameSplits /\ t[p].pc \in AtLeaf
  BY <1>1, NoSplit, SplitsStay DEF Splitting, Climbing, Parents, Ending, AtLeaf
<1>3. /\ SameKeys /\ node' \in Seq(Node)
      /\ \A m \in DOMAIN node : node'[m].version = node[m].version /\ node'[m].torn = node[m].torn
      /\ \A m \in DOMAIN node : /\ node[m].version <= node'[m].version
                                /\ node'[m].version = node[m].version /\ ~node'[m].torn => ~node[m].torn
  BY <1>1, LockSame DEF Core, TypesOK, TreeOK
<1>4. PICK c : c = t[p].cur
  OBVIOUS
<1>5. PICK v : v = t[p].ver
  OBVIOUS
<1>6. PICK k : k = op[p].key
  OBVIOUS
<1>7. c \in Leaves /\ c \in DOMAIN node /\ Low(c, k) /\ v <= node[c].version /\ (Fresh(c, v) => k \in R[c])
  BY <1>1, <1>2, <1>4, <1>5, <1>6, AtALeaf
<1>8. Low(c, k)' /\ v <= node'[c].version /\ (Fresh(c, v)' => k \in R[c])
  BY <1>3, <1>7, SameRange DEF Fresh, Core, TypesOK
<1>9. t'[p].cur = c /\ t'[p].ver = v /\ Key(p)' = k
  BY <1>1, <1>4, <1>5, <1>6, ThreadsAssumption DEF KeepPlace, Key
<1>10. Descent(R, p)' /\ Arrival(R, p)'
  BY <1>1, <1>8, <1>9 DEF Descent, Arrival, AtRoot, AtInner, AtLeaf
<1>11. QED
  BY <1>1, <1>2, <1>3, <1>10, StillKnown

LEMMA LockedStaleKnown ==
  ASSUME Core, ChainOK, NEW R, Known(R), NEW p \in Threads, LockedStale(p)
  PROVE  ChainOK' /\ Known(R)'
<1>1. /\ Alone(p) /\ KeepPlace(p) /\ p \in Procs /\ t[p].pc = "lockver"
      /\ t[p].cur \in DOMAIN node /\ UNCHANGED <<root, op>>
      /\ \/ /\ t'[p].pc = "act" /\ node' = node
            /\ node[t[p].cur].version = t[p].ver
         \/ t'[p].pc = "walkver" /\ SetLock(t[p].cur, FALSE)
  BY LockedStaleFacts
<1>2. SameSplits /\ t[p].pc \in AtLeaf
  BY <1>1, SplitsStay DEF Splitting, Climbing, Parents, Ending, AtLeaf
<1>3. /\ SameKeys /\ node' \in Seq(Node)
      /\ \A m \in DOMAIN node : /\ node[m].version <= node'[m].version
                                /\ node'[m].version = node[m].version /\ ~node'[m].torn => ~node[m].torn
  <2>0. node \in Seq(Node)
    BY DEF Core, TypesOK, TreeOK
  <2>1. CASE node' = node
    BY <2>0, <2>1, SameVersions DEF SameKeys, SameTree
  <2>2. CASE SetLock(t[p].cur, FALSE)
    BY <1>1, <2>0, <2>2, LockSame
  <2>3. QED
    BY <1>1, <2>1, <2>2
<1>4. PICK c : c = t[p].cur
  OBVIOUS
<1>5. PICK v : v = t[p].ver
  OBVIOUS
<1>6. PICK k : k = op[p].key
  OBVIOUS
<1>7. c \in Leaves /\ c \in DOMAIN node /\ Low(c, k) /\ v <= node[c].version /\ (Fresh(c, v) => k \in R[c])
  BY <1>1, <1>2, <1>4, <1>5, <1>6, AtALeaf
<1>8. Low(c, k)'
  BY <1>3, <1>7, SameRange DEF Core, TypesOK
<1>9. t'[p].cur = c /\ t'[p].ver = v /\ Key(p)' = k
  BY <1>1, <1>4, <1>5, <1>6, ThreadsAssumption DEF KeepPlace, Key
<1>10. t'[p].pc = "act" => k \in R[c] /\ v <= node'[c].version
  <2>1. Owns(p, c)
    BY <1>1, <1>4 DEF Owns
  <2>2. ~Tearing(p, c)
    BY <1>1 DEF Tearing, Splitting, Climbing, Parents, Ending
  <2>3. ~node[c].torn
    BY <1>1, <1>7, <2>1, <2>2, Tears DEF Core, LocksOK
  <2>4. QED
    BY <1>1, <1>4, <1>5, <1>7, <2>3 DEF Fresh
<1>11. Descent(R, p)' /\ Arrival(R, p)'
  BY <1>1, <1>8, <1>9, <1>10 DEF Descent, Arrival, AtRoot, AtInner, AtLeaf
<1>12. QED
  BY <1>1, <1>2, <1>3, <1>11, StillKnown

LEMMA Working ==
  ASSUME NEW a, a \in Climbing \union Ending
  PROVE  a \notin Searches /\ a \notin {"root", "idle", "done", "count"}
  BY DEF Climbing, Parents, Ending, Searches, AtRoot, AtInner, AtLeaf, Reading

LEMMA EffectOp ==
  ASSUME NEW p, Effect(p)
  PROVE  op' = op
  BY DEF Effect

\* Writing a value, or nothing.
LEMMA WriteKnown ==
  ASSUME Core, ChainOK, NEW R, Known(R), NEW p \in Threads, WriteInPlace(p) \/ NotFound(p) \/ Overwrite(p)
  PROVE  ChainOK' /\ Known(R)'
<1>0. node \in Seq(Node)
  BY DEF Core, TypesOK, TreeOK
<1>1. t[p].pc = "act" /\ p \in Procs
  BY ActFacts, NotFoundFacts, WriteInPlaceFacts, OverwriteFacts
<1>2. PICK c : c = t[p].cur
  OBVIOUS
<1>3. c \in DOMAIN node /\ t[p].after = "done" /\ node[c].torn \in BOOLEAN
  <2>1. HeldOK(p) /\ c \in DOMAIN node
    BY <1>1, <1>2, ActFacts
  <2>2. t[p].after = "done"
    BY <1>1, <2>1 DEF HeldOK, Ending, Climbing, Parents
  <2>3. QED
    BY <1>0, <2>1, <2>2, NodeFacts
<1>4. /\ Alone(p) /\ op' = op /\ root' = root /\ t'[p].pc \in Ending /\ t'[p].after = "done"
      /\ node' \in Seq(Node) /\ SameKeys
      /\ \A n \in DOMAIN node : node'[n].version = node[n].version /\ (node[n].torn => node'[n].torn)
  <2>1. CASE WriteInPlace(p)
    <3>1. PICK i \in DOMAIN node[c].vals : WriteEffect(c, i, Abs!Result(op[p]), node[c].torn)
      BY <1>2, <2>1, WriteInPlaceFacts
    <3>2. SameKeys /\ node' \in Seq(Node) /\ \A n \in DOMAIN node : node'[n].version = node[n].version /\ (node[n].torn => node'[n].torn)
      BY <3>1 DEF WriteEffect, SameKeys, SameTree
    <3>3. QED
      BY <1>3, <2>1, <3>2, WriteInPlaceFacts, EffectOp DEF Ending
  <2>2. CASE Overwrite(p)
    <3>1. PICK i \in DOMAIN node[c].vals : WriteEffect(c, i, Abs!Result(op[p]), TRUE)
      BY <1>2, <2>2, OverwriteFacts
    <3>2. SameKeys /\ node' \in Seq(Node) /\ \A n \in DOMAIN node : node'[n].version = node[n].version /\ (node[n].torn => node'[n].torn)
      BY <3>1 DEF WriteEffect, SameKeys, SameTree
    <3>3. QED
      BY <2>2, <3>2, OverwriteFacts, EffectOp DEF Ending
  <2>3. CASE NotFound(p)
    <3>1. node' = node /\ op' = op /\ root' = root
      BY <2>3, NotFoundFacts
    <3>2. SameKeys
      BY <3>1 DEF SameKeys, SameTree
    <3>3. QED
      BY <1>0, <1>3, <2>3, <3>1, <3>2, NotFoundFacts DEF Ending
  <2>4. QED
    BY <2>1, <2>2, <2>3
<1>5. SameSplits
  <2>1. ~Splitting(p) /\ ~Splitting(p)'
    BY <1>1, <1>4, Working DEF Splitting, Climbing, Parents, Ending
  <2>2. QED
    BY <1>4, <2>1, SplitsStay
<1>6. t'[p].pc \notin Searches
  BY <1>4, Working
<1>7. QED
  BY <1>0, <1>4, <1>5, <1>6, SameVersions, WorkKnown

\* On the way up.
LEMMA ParentKnown ==
  ASSUME Core, ChainOK, NEW R, Known(R), NEW p \in Threads, LoadParent(p) \/ LockParent(p) \/ CheckParent(p)
  PROVE  ChainOK' /\ Known(R)'
<1>0. node \in Seq(Node)
  BY DEF Core, TypesOK, TreeOK
<1>1. /\ Alone(p) /\ op' = op /\ root' = root /\ t[p].pc \in Climbing /\ t'[p].pc \in Climbing
      /\ t'[p].left = t[p].left /\ t'[p].right = t[p].right /\ t'[p].sep = t[p].sep
      /\ node' \in Seq(Node) /\ SameKeys
      /\ \A n \in DOMAIN node : node'[n].version = node[n].version /\ (node[n].torn => node'[n].torn)
  <2>1. CASE LoadParent(p)
    <3>1. /\ Alone(p) /\ node' = node /\ op' = op /\ root' = root /\ t[p].pc = "parent"
          /\ t'[p].pc \in {"newroot", "lockparent"}
          /\ t'[p].left = t[p].left /\ t'[p].right = t[p].right /\ t'[p].sep = t[p].sep
      BY <2>1, LoadParentFacts DEF Still
    <3>2. SameKeys
      BY <3>1 DEF SameKeys, SameTree
    <3>3. QED
      BY <1>0, <3>1, <3>2 DEF Climbing, Parents
  <2>2. CASE LockParent(p)
    <3>1. /\ Alone(p) /\ SetLock(t[p].par, TRUE) /\ t[p].par \in DOMAIN node /\ op' = op /\ root' = root
          /\ t[p].pc = "lockparent" /\ t'[p].pc = "checkparent" /\ KeepWork(p)
      BY <2>2, LockParentFacts
    <3>2. /\ SameKeys /\ node' \in Seq(Node)
          /\ \A m \in DOMAIN node : node'[m].version = node[m].version /\ node'[m].torn = node[m].torn
      BY <1>0, <3>1, LockSame
    <3>3. QED
      BY <3>1, <3>2 DEF Climbing, Parents, KeepWork
  <2>3. CASE CheckParent(p)
    <3>1. /\ Alone(p) /\ op' = op /\ root' = root /\ t[p].pc = "checkparent" /\ KeepWork(p)
          /\ t'[p].pc \in {"parent", "splitparent", "insertparent"}
          /\ SetLock(t[p].par, FALSE) \/ node' = node
      BY <2>3, CheckParentFacts
    <3>2. t[p].pc \in Climbing /\ t'[p].pc \in Climbing
      BY <3>1 DEF Climbing, Parents
    <3>3. t[p].par \in DOMAIN node
      BY <3>1, <3>2, ClimbFacts DEF SplitOK, Parents
    <3>4. CASE node' = node
      <4>1. SameKeys
        BY <3>4 DEF SameKeys, SameTree
      <4>2. QED
        BY <1>0, <3>1, <3>2, <3>4, <4>1 DEF KeepWork
    <3>5. CASE SetLock(t[p].par, FALSE)
      <4>1. /\ SameKeys /\ node' \in Seq(Node)
            /\ \A m \in DOMAIN node : node'[m].version = node[m].version /\ node'[m].torn = node[m].torn
        BY <1>0, <3>3, <3>5, LockSame
      <4>2. QED
        BY <3>1, <3>2, <4>1 DEF KeepWork
    <3>6. QED
      BY <3>1, <3>4, <3>5
  <2>4. QED
    BY <2>1, <2>2, <2>3
<1>2. SameSplits
  <2>1. Splitting(p) /\ Splitting(p)'
    BY <1>1 DEF Splitting
  <2>2. QED
    BY <1>1, <2>1, SplitsStay
<1>3. t'[p].pc \notin Searches
  BY <1>1, Working
<1>4. QED
  BY <1>0, <1>1, <1>2, <1>3, SameVersions, WorkKnown

LEMMA BumpKnown ==
  ASSUME Core, ChainOK, NEW R, Known(R), NEW p \in Threads, Bump(p)
  PROVE  ChainOK' /\ Known(R)'
<1>0. node \in Seq(Node)
  BY DEF Core, TypesOK, TreeOK
<1>1. PICK n : n = Head(t[p].todo)
  OBVIOUS
<1>2. /\ Alone(p) /\ op' = op /\ root' = root /\ t[p].pc = "bump" /\ t'[p].pc \in Ending /\ KeepWork(p)
      /\ t'[p].after = t[p].after /\ n \in DOMAIN node /\ BumpEffect(n)
  BY <1>1, BumpFacts DEF Ending
<1>3. SameKeys /\ node' \in Seq(Node)
  BY <1>2 DEF BumpEffect, SameKeys, SameTree
<1>4. ASSUME NEW m \in DOMAIN node
      PROVE  /\ node[m].version <= node'[m].version
             /\ node'[m].version = node[m].version /\ ~node'[m].torn => ~node[m].torn
  <2>1. node[m].version \in Nat
    BY <1>0, NodeFacts
  <2>2. CASE m = n
    <3>1. node'[m].version = node[m].version + 1
      BY <1>2, <2>2 DEF BumpEffect
    <3>2. QED
      BY <2>1, <3>1
  <2>3. CASE m # n
    <3>1. node'[m] = node[m]
      BY <1>2, <2>3 DEF BumpEffect
    <3>2. QED
      BY <2>1, <3>1
  <2>4. QED
    BY <2>2, <2>3
<1>5. SameSplits
  <2>1. Splitting(p)' <=> Splitting(p)
    BY <1>2 DEF Splitting, Climbing, Parents, Ending
  <2>2. QED
    BY <1>2, <2>1, SplitsStay DEF KeepWork
<1>6. t'[p].pc \notin Searches
  BY <1>2, Working
<1>7. QED
  BY <1>2, <1>3, <1>4, <1>5, <1>6, WorkKnown

LEMMA UnlockKnown ==
  ASSUME Core, ChainOK, NEW R, Known(R), NEW p \in Threads, Unlock(p)
  PROVE  ChainOK' /\ Known(R)'
<1>0. node \in Seq(Node)
  BY DEF Core, TypesOK, TreeOK
<1>1. PICK n : n = Head(t[p].held)
  OBVIOUS
<1>2. /\ Alone(p) /\ op' = op /\ root' = root /\ t[p].pc = "unlock" /\ KeepWork(p)
      /\ t'[p].pc \in {t[p].after, "unlock"}
      /\ t'[p].after = t[p].after /\ n \in DOMAIN node /\ SetLock(n, FALSE)
  BY <1>1, UnlockFacts
<1>3. /\ SameKeys /\ node' \in Seq(Node)
      /\ \A m \in DOMAIN node : /\ node[m].version <= node'[m].version
                                /\ node'[m].version = node[m].version /\ ~node'[m].torn => ~node[m].torn
  BY <1>0, <1>2, LockSame
<1>4. t[p].after \in {"done", "count", "parent"}
  BY LocalFacts DEF ThreadOK, Core
<1>5. SameSplits
  <2>1. Splitting(p)' <=> Splitting(p)
    BY <1>2, <1>4 DEF Splitting, Climbing, Parents, Ending
  <2>2. QED
    BY <1>2, <2>1, SplitsStay DEF KeepWork
<1>6. t'[p].pc \notin Searches
  BY <1>2, <1>4 DEF Searches, AtRoot, AtInner, AtLeaf, Reading
<1>7. QED
  BY <1>2, <1>3, <1>5, <1>6, WorkKnown

-----------------------------------------------------------------------------
(* Inserting into a leaf                                                    *)

\* A key in its place in a leaf.
LEMMA InsertSorted ==
  ASSUME TreeOK, NEW n \in Leaves, Sorted(node[n].keys), NEW k \in Keys, ~Holds(n, k),
         NEW i, i = Slot(n, k) + 1, NEW all, Inserted(Keys, node[n].keys, i, k, all)
  PROVE  /\ Sorted(all) /\ all \in Seq(Keys) /\ all \in Seq(Nat) /\ Len(all) = Len(node[n].keys) + 1
         /\ i \in DOMAIN all /\ all[i] = k
         /\ Head(node[n].keys) <= k => all[1] = Head(node[n].keys)
         /\ \A j \in DOMAIN all : all[j] = k \/ \E m \in DOMAIN node[n].keys : all[j] = node[n].keys[m]
         /\ \A m \in DOMAIN node[n].keys : \E j \in DOMAIN all : all[j] = node[n].keys[m]
<1>1. PICK s : s = node[n].keys
  OBVIOUS
<1>2. s \in Seq(Keys) /\ s \in Seq(Nat) /\ DOMAIN s = 1..Len(s) /\ Len(s) \in Nat /\ Len(s) >= 1
      /\ \A j \in DOMAIN s : s[j] \in Nat
  <2>1. s \in Seq(Keys) /\ Len(s) \in 1..Capacity
    BY <1>1, LeafFacts DEF Leaves
  <2>2. QED
    BY <2>1, KeySeq, KeyFacts
<1>3. k \in Nat
  BY KeyFacts
<1>4. i \in 1..(Len(s) + 1) /\ \A j \in DOMAIN s : s[j] < k <=> j < i
  <2>1. SlotsAt(s, k) /\ i = SlotLess(s, k) + 1
    BY <1>1, <1>2, <1>3, SlotIs DEF Slot, SlotLess
  <2>2. PICK z : z = SlotLess(s, k)
    OBVIOUS
  <2>3. z \in 0..Len(s) /\ \A j \in DOMAIN s : s[j] < k <=> j <= z
    BY <2>1, <2>2 DEF SlotsAt
  <2>4. \A j \in DOMAIN s : j <= z <=> j < i
    BY <1>2, <2>1, <2>2, <2>3
  <2>5. QED
    BY <1>2, <2>1, <2>2, <2>3, <2>4
<1>5. \A j \in DOMAIN s : s[j] # k
  BY <1>1 DEF Holds
<1>6. \A j \in DOMAIN s : (j < i => s[j] < k) /\ (j >= i => k < s[j])
  <2> SUFFICES ASSUME NEW j \in DOMAIN s PROVE (j < i => s[j] < k) /\ (j >= i => k < s[j])
    OBVIOUS
  <2>1. (s[j] < k <=> j < i) /\ s[j] # k /\ s[j] \in Nat /\ j \in Nat /\ i \in Nat
    BY <1>2, <1>4, <1>5
  <2>2. QED
    BY <1>3, <2>1
<1>7. Sorted(all)
  BY <1>1, <1>2, <1>4, <1>6, SortedInserted
<1>8. InsertedParts(s, i, k, all)
  BY <1>1, <1>2, <1>4, InsertedIs
<1>9. all \in Seq(Keys) /\ Len(all) = Len(s) + 1
  BY <1>1 DEF Inserted
<1>10. all \in Seq(Nat)
  BY <1>9, KeySeq
<1>11. i \in DOMAIN all /\ all[i] = k /\ \A j \in DOMAIN all : all[j] = k \/ \E m \in DOMAIN s : all[j] = s[m]
  BY <1>4, <1>8 DEF InsertedParts
<1>12. Head(s) <= k => all[1] = Head(s)
  <2> SUFFICES ASSUME Head(s) <= k PROVE all[1] = Head(s)
    OBVIOUS
  <2>1. 1 \in DOMAIN s /\ Head(s) = s[1]
    BY <1>2
  <2>2. s[1] < k
    BY <1>2, <1>3, <1>5, <2>1
  <2>3. 1 < i
    BY <1>4, <2>1, <2>2
  <2>4. 1 \in DOMAIN all
    BY <1>9
  <2>5. QED
    BY <1>8, <2>1, <2>3, <2>4 DEF InsertedParts
<1>13. \A m \in DOMAIN s : \E j \in DOMAIN all : all[j] = s[m]
  <2> SUFFICES ASSUME NEW m \in DOMAIN s PROVE \E j \in DOMAIN all : all[j] = s[m]
    OBVIOUS
  <2>1. Inserted(Keys, s, i, k, all)
    BY <1>1
  <2>2. CASE m < i
    <3>1. m \in 1..(i - 1) /\ m \in DOMAIN all
      BY <1>2, <1>4, <1>9, <2>2
    <3>2. QED
      BY <2>1, <3>1 DEF Inserted
  <2>3. CASE m >= i
    <3>1. PICK j : j = m + 1
      OBVIOUS
    <3>2. j \in (i + 1)..(Len(s) + 1) /\ j \in DOMAIN all /\ j - 1 = m
      BY <1>2, <1>4, <1>9, <2>3, <3>1
    <3>3. QED
      BY <2>1, <3>2 DEF Inserted
  <2>4. QED
    BY <1>2, <1>4, <2>2, <2>3
<1>14. QED
  BY <1>1, <1>7, <1>9, <1>10, <1>11, <1>12, <1>13

\* What the leaves are for depends on the first keys of the others only.
LEMMA HeadsKept ==
  ASSUME TreeOK, ChainOK, DOMAIN node \subseteq DOMAIN node',
         \A m \in Leaves \ {Begin} : Head(node'[m].keys) = Head(node[m].keys),
         NEW n \in Leaves, NEW k
  PROVE  /\ Low(n, k)' <=> Low(n, k)
         /\ node'[n].next = node[n].next => (High(n, k)' <=> High(n, k)) /\ (InRange(n, k)' <=> InRange(n, k))
<1>1. Low(n, k)' <=> Low(n, k)
  BY DEF Low, Begin
<1>2. ASSUME node'[n].next = node[n].next PROVE High(n, k)' <=> High(n, k)
  <2>1. node[n].next # Nil => node[n].next \in Leaves \ {Begin}
    BY LeafNext DEF ChainOK
  <2>2. QED
    BY <1>2, <2>1 DEF High
<1>3. QED
  BY <1>1, <1>2 DEF InRange

LEMMA ShiftKnown ==
  ASSUME Core, ChainOK, NEW R, Known(R), NEW p \in Threads, Shift(p)
  PROVE  ChainOK' /\ Known(R)'
<1>0. node \in Seq(Node) /\ TreeOK /\ RangesOK(R)
  BY DEF Core, TypesOK, TreeOK, Known
<1>1. PICK n : n = t[p].cur
  OBVIOUS
<1>2. PICK k : k = op[p].key
  OBVIOUS
<1>3. PICK i : i = Slot(n, k) + 1
  OBVIOUS
<1>4. /\ Alone(p) /\ KeepWork(p) /\ t[p].pc = "act" /\ t'[p].pc = "bump" /\ t'[p].after = "count"
      /\ root' = root /\ op' = op /\ ~Holds(n, k) /\ ShiftEffect(n, i, k, op[p].val) /\ op[p].kind = "put"
  BY <1>1, <1>2, <1>3, ShiftFacts, EffectOp
<1>5. p \in Procs /\ k \in Keys /\ k \in Nat /\ op[p].val \in Maybe
  BY <1>2, <1>4, ActFacts
<1>6. n \in Leaves /\ n \in DOMAIN node /\ node[n].leaf /\ Low(n, k) /\ k \in R[n]
  BY <1>1, <1>2, <1>4, <1>5, AtALeaf DEF AtLeaf
<1>7. Owns(p, n)
  BY <1>1, <1>4 DEF Owns
<1>8. PICK all : all = InsertAt(node[n].keys, i, k)
  OBVIOUS
<1>9. Inserted(Keys, node[n].keys, i, k, all)
  <2>1. i \in 1..(Len(node[n].keys) + 1) /\ node[n].keys \in Seq(Keys)
    BY <1>0, <1>3, <1>5, <1>6, InsertTypes, LeafFacts
  <2>2. QED
    BY <1>5, <1>8, <2>1, InsertFacts
<1>10. Sorted(node[n].keys)
  BY <1>6 DEF ChainOK
<1>11. /\ Sorted(all) /\ all \in Seq(Nat) /\ Len(all) = Len(node[n].keys) + 1
       /\ Head(node[n].keys) <= k => all[1] = Head(node[n].keys)
       /\ \A j \in DOMAIN all : all[j] = k \/ \E m \in DOMAIN node[n].keys : all[j] = node[n].keys[m]
  BY <1>0, <1>3, <1>5, <1>4, <1>6, <1>9, <1>10, InsertSorted
<1>12. /\ node' \in Seq(Node) /\ DOMAIN node' = DOMAIN node
       /\ \A m \in DOMAIN node : m # n => node'[m] = node[m]
       /\ node'[n].keys = all /\ node'[n].leaf /\ node'[n].kids = node[n].kids
       /\ node'[n].next = node[n].next /\ node'[n].parent = node[n].parent
       /\ node'[n].version = node[n].version /\ node'[n].torn
  BY <1>4, <1>6, <1>8 DEF ShiftEffect
<1>13. SameSplits
  <2>1. ~Splitting(p) /\ ~Splitting(p)'
    BY <1>4 DEF Splitting, Climbing, Parents, Ending
  <2>2. QED
    BY <1>4, <2>1, SplitsStay
<1>14. \A m \in DOMAIN node : SameLinks(m) /\ node'[m].next = node[m].next /\ (~node[m].leaf => node'[m].keys = node[m].keys)
  <2> SUFFICES ASSUME NEW m \in DOMAIN node
               PROVE  SameLinks(m) /\ node'[m].next = node[m].next /\ (~node[m].leaf => node'[m].keys = node[m].keys)
    OBVIOUS
  <2>1. CASE m = n
    BY <1>6, <1>12, <2>1 DEF SameLinks
  <2>2. CASE m # n
    BY <1>12, <2>2 DEF SameLinks
  <2>3. QED
    BY <2>1, <2>2
<1>15. Leaves' = Leaves /\ Leaves \subseteq DOMAIN node
  BY <1>12, <1>14 DEF Leaves, SameLinks
<1>16. \A m \in Leaves \ {Begin} : Head(node'[m].keys) = Head(node[m].keys)
  <2> SUFFICES ASSUME NEW m \in Leaves \ {Begin} PROVE Head(node'[m].keys) = Head(node[m].keys)
    OBVIOUS
  <2>1. CASE m = n
    <3>1. Head(node[n].keys) <= k
      BY <1>6, <2>1 DEF Low
    <3>2. all[1] = Head(node[n].keys) /\ Len(all) >= 1
      <4>1. Len(node[n].keys) \in Nat
        BY <1>0, <1>6, SlotBound
      <4>2. QED
        BY <1>11, <3>1, <4>1
    <3>3. QED
      BY <1>11, <1>12, <2>1, <3>2
  <2>2. CASE m # n
    BY <1>12, <1>15, <2>2
  <2>3. QED
    BY <2>1, <2>2
<1>17. \A m \in Leaves : \A j : (Low(m, j)' <=> Low(m, j)) /\ (InRange(m, j)' <=> InRange(m, j))
  BY <1>0, <1>12, <1>14, <1>15, <1>16, HeadsKept
<1>18. ChainOK'
  <2>1. \A m \in DOMAIN node' : Sorted(node'[m].keys)
    BY <1>11, <1>12 DEF ChainOK
  <2>2. Begin \in Leaves /\ (\A m \in Leaves : node'[m].next # Begin)
    BY <1>14, <1>15 DEF ChainOK
  <2>3. \A m \in Leaves \ {Begin} : \E l \in Leaves :
          node'[l].next = m /\ \A x \in Leaves : node'[x].next = m => x = l
    BY <1>14, <1>15 DEF ChainOK
  <2>4. QED
    BY <1>15, <2>1, <2>2, <2>3 DEF ChainOK, Begin
<1>19. LeavesDivide(R)'
  <2>1. LeavesDivide(R)
    BY <1>0 DEF RangesOK
  <2>2. \A m \in Leaves : \A j \in Nat : j \in R[m] <=> InRange(m, j)'
    BY <1>17, <2>1 DEF LeavesDivide
  <2>3. QED
    BY <1>15, <2>1, <2>2 DEF LeavesDivide
<1>20. KeysIn(R)'
  <2>1. KeysIn(R)
    BY <1>0 DEF RangesOK
  <2>2. \A j \in DOMAIN all : all[j] \in R[n]
    BY <1>6, <1>11, <2>1 DEF KeysIn
  <2>3. QED
    BY <1>12, <2>1, <2>2 DEF KeysIn
<1>21. RangesOK(R)'
  BY <1>0, <1>4, <1>12, <1>13, <1>14, <1>19, <1>20, RangesKept
<1>22. Advance(R, R)
  <2>1. \A m \in DOMAIN node :
          /\ node[m].version <= node'[m].version
          /\ node'[m].version = node[m].version /\ ~node'[m].torn =>
               ~node[m].torn /\ node'[m].keys = node[m].keys /\ node'[m].kids = node[m].kids
    <3> SUFFICES ASSUME NEW m \in DOMAIN node
                 PROVE  /\ node[m].version <= node'[m].version
                        /\ node'[m].version = node[m].version /\ ~node'[m].torn =>
                             ~node[m].torn /\ node'[m].keys = node[m].keys /\ node'[m].kids = node[m].kids
      OBVIOUS
    <3>1. node[m].version \in Nat
      BY <1>0, NodeFacts
    <3>2. CASE m = n
      BY <1>12, <3>1, <3>2
    <3>3. CASE m # n
      <4>1. node'[m] = node[m]
        BY <1>12, <3>3
      <4>2. QED
        BY <3>1, <4>1
    <3>4. QED
      BY <3>2, <3>3
  <2>2. QED
    BY <1>13, <1>17, <2>1 DEF Advance, SameSplits
<1>23. Descent(R, p)' /\ Arrival(R, p)'
  BY <1>4 DEF Descent, Arrival, AtRoot, AtInner, AtLeaf, Reading
<1>24. Grown
  BY <1>12, <1>14 DEF Grown, SameLinks
<1>25. Known(R)'
  BY <1>4, <1>5, <1>12, <1>21, <1>22, <1>23, <1>24, KnownStep
<1>26. QED
  BY <1>18, <1>25

-----------------------------------------------------------------------------
(* Splitting a node in two                                                  *)

\* The range of n divided at k between n and its new sibling.
Divided(R, n, sib, k) ==
  [m \in DOMAIN R \union {sib} |->
     IF m = n THEN {j \in R[n] : j < k}
     ELSE IF m = sib THEN {j \in R[n] : k <= j}
     ELSE R[m]]

LEMMA DividedIs ==
  ASSUME NEW R, NEW n \in DOMAIN R, NEW sib, sib \notin DOMAIN R, NEW k, NEW Q, Q = Divided(R, n, sib, k)
  PROVE  /\ DOMAIN Q = DOMAIN R \union {sib}
         /\ \A j : j \in Q[n] <=> j \in R[n] /\ j < k
         /\ \A j : j \in Q[sib] <=> j \in R[n] /\ k <= j
         /\ \A m \in DOMAIN R : m # n => Q[m] = R[m]
         /\ \A m \in DOMAIN R : Q[m] \subseteq R[m]
  BY DEF Divided

\* What was covered still is, by one of the halves.
LEMMA CoveredDivided ==
  ASSUME Core, NEW R, R \in [DOMAIN node -> SUBSET Nat], NEW p \in Procs, Alone(p),
         NEW n \in DOMAIN node, Owns(p, n), NEW sib, sib \notin DOMAIN node, NEW k \in Nat,
         NEW Q, Q = Divided(R, n, sib, k),
         Splitting(p)', t'[p].left = n, t'[p].right = sib,
         NEW c \in DOMAIN node, NEW j, Covered(R, c, j), Splitting(p) => t[p].left # c
  PROVE  Covered(Q, c, j)'
<1>1. /\ \A i : i \in Q[n] <=> i \in R[n] /\ i < k
      /\ \A i : i \in Q[sib] <=> i \in R[n] /\ k <= i
      /\ \A m \in DOMAIN node : m # n => Q[m] = R[m]
  <2>1. DOMAIN R = DOMAIN node
    OBVIOUS
  <2>2. n \in DOMAIN R /\ sib \notin DOMAIN R
    BY <2>1
  <2>3. /\ \A i : i \in Q[n] <=> i \in R[n] /\ i < k
        /\ \A i : i \in Q[sib] <=> i \in R[n] /\ k <= i
        /\ \A m \in DOMAIN R : m # n => Q[m] = R[m]
    BY <2>2 DEF Divided
  <2>4. QED
    BY <2>1, <2>3
<1>2. CASE j \in R[c] /\ c # n
  <2>1. j \in Q[c]
    BY <1>1, <1>2
  <2>2. QED
    BY <2>1 DEF Covered
<1>3. CASE j \in R[c] /\ c = n
  <2>1. j \in Nat
    BY <1>3
  <2>2. CASE j < k
    <3>1. j \in Q[c]
      BY <1>1, <1>3, <2>2
    <3>2. QED
      BY <3>1 DEF Covered
  <2>3. CASE k <= j
    <3>1. j \in Q[sib]
      BY <1>1, <1>3, <2>3
    <3>2. Splitting(p)' /\ t'[p].left = c /\ j \in Q[t'[p].right]
      BY <1>3, <3>1
    <3>3. QED
      BY <3>2 DEF Covered
  <2>4. QED
    BY <2>1, <2>2, <2>3
<1>4. CASE j \notin R[c]
  <2>1. PICK z \in Procs : Splitting(z) /\ t[z].left = c /\ j \in R[t[z].right]
    BY <1>4 DEF Covered
  <2>2. z # p
    BY <2>1
  <2>3. t'[z] = t[z] /\ Splitting(z)'
    BY <2>1, <2>2, OthersOwn DEF Alone, Threads
  <2>4. Owns(z, t[z].right) /\ t[z].right \in DOMAIN node
    BY <2>1 DEF Owns, Core, LocksOK, SplitOK
  <2>5. t[z].right # n
    BY <2>2, <2>4 DEF Core, LocksOK
  <2>6. j \in Q[t'[z].right] /\ t'[z].left = c
    BY <1>1, <2>1, <2>3, <2>4, <2>5
  <2>7. QED
    BY <2>3, <2>6 DEF Covered
<1>5. QED
  BY <1>2, <1>3, <1>4

\* The splits of other threads.
LEMMA OtherHalves ==
  ASSUME Core, NEW R, RangesOK(R), NEW p \in Procs, Alone(p), NEW z \in Procs, z # p, Splitting(z),
         NEW Q, \A m \in DOMAIN node : ~Owns(p, m) => Q[m] = R[m],
         NEW l, l = t[z].left, NEW r, r = t[z].right, NEW q, q = node'[l].parent,
         q # Nil => \A j \in R[r] : Leads(Q, q, l, j)'
  PROVE  HalvesOK(Q, z)'
<1>1. t'[z] = t[z]
  BY DEF Alone, Threads
<1>2. Owns(z, l) /\ Owns(z, r) /\ l \in DOMAIN node /\ r \in DOMAIN node
  BY DEF Owns, Core, LocksOK, SplitOK
<1>3. ~Owns(p, l) /\ ~Owns(p, r)
  BY <1>2 DEF Core, LocksOK
<1>4. Q[l] = R[l] /\ Q[r] = R[r]
  BY <1>2, <1>3
<1>5. HalvesOK(R, z)
  BY DEF RangesOK, SplitsDivide
<1>6. QED
  BY <1>1, <1>4, <1>5 DEF HalvesOK, Leads

Occurs(s, x) == \E j \in DOMAIN s : s[j] = x

\* The two halves of a leaf with its new key.
LEMMA LeafHalves ==
  ASSUME TreeOK, NEW n \in Leaves, Sorted(node[n].keys), Full(n),
         NEW p, NEW k \in Keys, k = op[p].key, ~Holds(n, k),
         NEW i, NEW cut, NEW all, NEW allv, NEW ks, NEW vs, NEW rks, NEW rvs,
         LeafSplit(p, n, i, cut, all, allv, ks, vs, rks, rvs), NEW s, s = all[cut + 1]
  PROVE  /\ Sorted(ks) /\ Sorted(rks) /\ ks # <<>> /\ rks # <<>> /\ ks \in Seq(Nat) /\ rks \in Seq(Nat)
         /\ s \in Keys /\ Head(rks) = s
         /\ Head(node[n].keys) <= k => Head(ks) = Head(node[n].keys)
         /\ \A x : Occurs(ks, x) => x < s
         /\ \A x : Occurs(rks, x) => s <= x
         /\ \A x : Occurs(ks, x) \/ Occurs(rks, x) <=> x = k \/ Occurs(node[n].keys, x)
         /\ Occurs(rks, s)
<1>1. /\ i = Slot(n, k) + 1 /\ Inserted(Keys, node[n].keys, i, k, all) /\ cut \in 1..Capacity
      /\ CutAt(Keys, all, cut, ks, rks)
  BY DEF LeafSplit
<1>2. /\ Sorted(all) /\ all \in Seq(Keys) /\ all \in Seq(Nat) /\ Len(all) = Len(node[n].keys) + 1
      /\ i \in DOMAIN all /\ all[i] = k
      /\ Head(node[n].keys) <= k => all[1] = Head(node[n].keys)
      /\ \A j \in DOMAIN all : all[j] = k \/ \E m \in DOMAIN node[n].keys : all[j] = node[n].keys[m]
      /\ \A m \in DOMAIN node[n].keys : \E j \in DOMAIN all : all[j] = node[n].keys[m]
  BY <1>1, InsertSorted, SMTT(20)
<1>3. Len(all) = Capacity + 1 /\ Capacity \in Nat /\ DOMAIN all = 1..(Capacity + 1) /\ cut \in Nat
  BY <1>1, <1>2, KeyFacts DEF Full
<1>4. /\ ks \in Seq(Keys) /\ Len(ks) = cut /\ (\A j \in 1..cut : ks[j] = all[j]) /\ DOMAIN ks = 1..cut
      /\ rks \in Seq(Keys) /\ Len(rks) = Capacity + 1 - cut
      /\ (\A j \in 1..(Capacity + 1 - cut) : rks[j] = all[cut + j]) /\ DOMAIN rks = 1..(Capacity + 1 - cut)
  <2>1. /\ ks \in Seq(Keys) /\ Len(ks) = cut /\ (\A j \in 1..cut : ks[j] = all[j])
        /\ rks \in Seq(Keys) /\ Len(rks) = Len(all) - cut
        /\ (\A j \in 1..(Len(all) - cut) : rks[j] = all[cut + j])
    BY <1>1 DEF CutAt
  <2>2. DOMAIN ks = 1..Len(ks) /\ DOMAIN rks = 1..Len(rks)
    BY <2>1
  <2>3. QED
    BY <1>3, <2>1, <2>2
<1>5. ks \in Seq(Nat) /\ rks \in Seq(Nat)
  BY <1>4, KeySeq
<1>6. Sorted(ks) /\ Sorted(rks)
  <2>1. cut <= Len(all)
    BY <1>1, <1>3
  <2>2. QED
    BY <1>1, <1>2, <1>3, <2>1, SortedCut
<1>7. 1 \in 1..cut /\ 1 \in 1..(Capacity + 1 - cut) /\ cut + 1 \in DOMAIN all
  BY <1>1, <1>3
<1>8. s \in Keys /\ s \in Nat
  BY <1>2, <1>7, KeyFacts
<1>9. ks # <<>> /\ rks # <<>> /\ Head(ks) = all[1] /\ Head(rks) = s
  <2>1. Len(ks) >= 1 /\ Len(rks) >= 1
    BY <1>1, <1>3, <1>4
  <2>2. Head(ks) = ks[1] /\ Head(rks) = rks[1] /\ ks # <<>> /\ rks # <<>>
    BY <1>4, <2>1
  <2>3. QED
    BY <1>4, <1>7, <2>2
<1>10. ASSUME NEW x, Occurs(ks, x) PROVE x < s
  <2>1. PICK j \in 1..cut : x = all[j]
    BY <1>4, <1>10 DEF Occurs
  <2>2. j \in DOMAIN all /\ j < cut + 1
    BY <1>1, <1>3
  <2>3. QED
    BY <1>2, <1>7, <2>1, <2>2 DEF Sorted
<1>11. ASSUME NEW x, Occurs(rks, x) PROVE s <= x
  <2>1. PICK j \in 1..(Capacity + 1 - cut) : x = all[cut + j]
    BY <1>4, <1>11 DEF Occurs
  <2>2. PICK y : y = cut + j
    OBVIOUS
  <2>3. y \in DOMAIN all /\ (y = cut + 1 \/ cut + 1 < y)
    BY <1>3, <2>2
  <2>4. x = s \/ s < x
    BY <1>2, <1>7, <2>1, <2>2, <2>3 DEF Sorted
  <2>5. x \in Nat
    BY <1>2, <2>1, <2>2, <2>3
  <2>6. QED
    BY <1>8, <2>4, <2>5
<1>12. ASSUME NEW x
       PROVE  Occurs(ks, x) \/ Occurs(rks, x) <=> Occurs(all, x)
  <2>1. ASSUME Occurs(ks, x) PROVE Occurs(all, x)
    <3>1. PICK j \in 1..cut : x = all[j]
      BY <1>4, <2>1 DEF Occurs
    <3>2. j \in DOMAIN all
      BY <1>1, <1>3
    <3>3. QED
      BY <3>1, <3>2 DEF Occurs
  <2>2. ASSUME Occurs(rks, x) PROVE Occurs(all, x)
    <3>1. PICK j \in 1..(Capacity + 1 - cut) : x = all[cut + j]
      BY <1>4, <2>2 DEF Occurs
    <3>2. cut + j \in DOMAIN all
      BY <1>3
    <3>3. QED
      BY <3>1, <3>2 DEF Occurs
  <2>3. ASSUME Occurs(all, x) PROVE Occurs(ks, x) \/ Occurs(rks, x)
    <3>1. PICK j \in DOMAIN all : x = all[j]
      BY <2>3 DEF Occurs
    <3>2. CASE j <= cut
      <4>1. j \in 1..cut
        BY <1>3, <3>2
      <4>2. QED
        BY <1>4, <3>1, <4>1 DEF Occurs
    <3>3. CASE j > cut
      <4>1. PICK y : y = j - cut
        OBVIOUS
      <4>2. y \in 1..(Capacity + 1 - cut) /\ cut + y = j
        BY <1>3, <3>3, <4>1
      <4>3. QED
        BY <1>4, <3>1, <4>2 DEF Occurs
    <3>4. QED
      BY <1>3, <3>2, <3>3
  <2>4. QED
    BY <2>1, <2>2, <2>3
<1>13. ASSUME NEW x PROVE Occurs(all, x) <=> x = k \/ Occurs(node[n].keys, x)
  BY <1>2 DEF Occurs
<1>14. Occurs(rks, s)
  <2>1. rks[1] = s /\ 1 \in DOMAIN rks
    BY <1>4, <1>7
  <2>2. QED
    BY <2>1 DEF Occurs
<1>15. QED
  BY <1>2, <1>5, <1>6, <1>8, <1>9, <1>10, <1>11, <1>12, <1>13, <1>14

\* Leaf n has been split at s to take key k.
LeafParted(p, n, sib, k, s) ==
  /\ Alone(p) /\ p \in Procs /\ op' = op /\ root' = root /\ size_est' = size_est
  /\ t[p].pc = "act" /\ t[p].cur = n /\ t'[p].pc = "parent"
  /\ t'[p].left = n /\ t'[p].right = sib /\ t'[p].sep = s
  /\ n \in Leaves /\ k \in Keys /\ k = op[p].key /\ ~Holds(n, k)
  /\ sib \notin DOMAIN node /\ sib \in Nat /\ sib # 0
  /\ node' \in Seq(Node) /\ DOMAIN node' = DOMAIN node \union {sib}
  /\ \A m \in DOMAIN node : m # n => node'[m] = node[m]
  /\ node'[n].leaf /\ node'[n].next = sib /\ node'[n].parent = node[n].parent
  /\ node'[n].kids = node[n].kids /\ node'[n].version = node[n].version /\ node'[n].torn
  /\ node'[sib].leaf /\ node'[sib].next = node[n].next /\ node'[sib].parent = Nil
  /\ Sorted(node'[n].keys) /\ Sorted(node'[sib].keys)
  /\ s \in Keys /\ Head(node'[sib].keys) = s
  /\ Head(node[n].keys) <= k => Head(node'[n].keys) = Head(node[n].keys)
  /\ \A x : Occurs(node'[n].keys, x) => x < s
  /\ \A x : Occurs(node'[sib].keys, x) => s <= x
  /\ \A x : Occurs(node'[n].keys, x) \/ Occurs(node'[sib].keys, x) <=> x = k \/ Occurs(node[n].keys, x)
  /\ Occurs(node'[sib].keys, s)

LEMMA LeafParts ==
  ASSUME Core, ChainOK, NEW p \in Threads, SplitLeaf(p)
  PROVE  \E sib, s : LeafParted(p, t[p].cur, sib, op[p].key, s)
<1>1. PICK n : n = t[p].cur
  OBVIOUS
<1>2. PICK k : k = op[p].key
  OBVIOUS
<1>3. /\ Alone(p) /\ t[p].pc = "act" /\ t'[p].pc = "parent"
      /\ t'[p].left = n /\ t'[p].right = Len(node) + 1
      /\ root' = root /\ size_est' = size_est /\ op' = op /\ ~Holds(n, k) /\ Full(n)
  BY <1>1, <1>2, SplitLeafFacts, EffectOp
<1>4. PICK i, cut, all, allv, ks, vs, rks, rvs : LeafSplit(p, n, i, cut, all, allv, ks, vs, rks, rvs)
  BY <1>1, SplitLeafFacts
<1>5. p \in Procs /\ n \in DOMAIN node /\ node[n].leaf /\ n \in Leaves /\ k \in Keys
  BY <1>1, <1>2, <1>3, ActFacts DEF Leaves
<1>6. PICK s : s = all[cut + 1]
  OBVIOUS
<1>7. PICK sib : sib = Len(node) + 1
  OBVIOUS
<1>8. t'[p].sep = s /\ SplitEffect(n, ks, vs, rks, rvs)
  BY <1>4, <1>6 DEF LeafSplit
<1>9. /\ Sorted(ks) /\ Sorted(rks) /\ s \in Keys /\ Head(rks) = s
      /\ Head(node[n].keys) <= k => Head(ks) = Head(node[n].keys)
      /\ \A x : Occurs(ks, x) => x < s
      /\ \A x : Occurs(rks, x) => s <= x
      /\ \A x : Occurs(ks, x) \/ Occurs(rks, x) <=> x = k \/ Occurs(node[n].keys, x)
      /\ Occurs(rks, s)
  <2>1. TreeOK /\ Sorted(node[n].keys)
    BY <1>5 DEF Core, TypesOK, ChainOK
  <2>2. QED
    BY <1>2, <1>3, <1>4, <1>5, <1>6, <2>1, LeafHalves
<1>10. /\ node' \in Seq(Node) /\ DOMAIN node' = DOMAIN node \union {sib}
       /\ sib \notin DOMAIN node /\ sib \in Nat /\ sib # 0
       /\ \A m \in DOMAIN node : m # n => node'[m] = node[m]
       /\ node'[n].keys = ks /\ node'[n].next = sib
       /\ node'[n].leaf = node[n].leaf /\ node'[n].kids = node[n].kids
       /\ node'[n].parent = node[n].parent /\ node'[n].version = node[n].version /\ node'[n].torn = TRUE
       /\ node'[sib].keys = rks /\ node'[sib].next = node[n].next
       /\ node'[sib].leaf = TRUE /\ node'[sib].parent = Nil
  BY <1>7, <1>8 DEF SplitEffect
<1>11. LeafParted(p, n, sib, k, s)
  BY <1>1, <1>2, <1>3, <1>5, <1>7, <1>8, <1>9, <1>10 DEF LeafParted
<1>12. QED
  BY <1>1, <1>2, <1>11

LEMMA LeafPartedLeaves ==
  ASSUME TreeOK, ChainOK, NEW p, NEW n, NEW sib, NEW k, NEW s, LeafParted(p, n, sib, k, s)
  PROVE  /\ Leaves' = Leaves \union {sib} /\ sib \notin Leaves /\ Leaves \subseteq DOMAIN node
         /\ node[n].next # Nil => node[n].next \in Leaves \ {Begin}
         /\ node[n].next # sib /\ sib # Begin
         /\ \A m \in Leaves : node[m].next # sib
         /\ \A m \in DOMAIN node : m # n => node'[m] = node[m]
         /\ \A m \in DOMAIN node \ Leaves : node'[m] = node[m]
<1>1. /\ n \in Leaves /\ sib \notin DOMAIN node /\ DOMAIN node' = DOMAIN node \union {sib} /\ sib # 0
      /\ \A m \in DOMAIN node : m # n => node'[m] = node[m]
      /\ node'[n].leaf /\ node'[sib].leaf
  BY DEF LeafParted
<1>2. Leaves \subseteq DOMAIN node /\ sib \notin Leaves /\ node[n].leaf
  BY <1>1 DEF Leaves
<1>3. Leaves' = Leaves \union {sib}
  <2>1. \A m \in DOMAIN node : node'[m].leaf <=> node[m].leaf
    BY <1>1, <1>2
  <2>2. QED
    BY <1>1, <2>1 DEF Leaves
<1>4. \A m \in Leaves : node[m].next # sib
  BY <1>1, LeafNext DEF Nil
<1>5. node[n].next # Nil => node[n].next \in Leaves \ {Begin}
  BY <1>1, LeafNext DEF ChainOK
<1>6. sib # Begin
  BY <1>2 DEF ChainOK
<1>7. QED
  BY <1>1, <1>2, <1>3, <1>4, <1>5, <1>6

LEMMA SplitLeafChain ==
  ASSUME TreeOK, ChainOK, NEW p, NEW n, NEW sib, NEW k, NEW s, LeafParted(p, n, sib, k, s)
  PROVE  ChainOK'
<1>1. /\ Leaves' = Leaves \union {sib} /\ sib \notin Leaves /\ Leaves \subseteq DOMAIN node
      /\ node[n].next # Nil => node[n].next \in Leaves \ {Begin}
      /\ node[n].next # sib /\ sib # Begin /\ \A m \in Leaves : node[m].next # sib
      /\ \A m \in DOMAIN node : m # n => node'[m] = node[m]
  BY LeafPartedLeaves
<1>2. /\ n \in Leaves /\ node'[n].next = sib /\ node'[sib].next = node[n].next
      /\ Sorted(node'[n].keys) /\ Sorted(node'[sib].keys) /\ DOMAIN node' = DOMAIN node \union {sib}
  BY DEF LeafParted
<1>3. \A m \in DOMAIN node' : Sorted(node'[m].keys)
  BY <1>1, <1>2 DEF ChainOK
<1>4. Begin \in Leaves'
  BY <1>1 DEF ChainOK
<1>5. \A m \in Leaves' : node'[m].next # Begin
  BY <1>1, <1>2 DEF ChainOK
<1>6. ASSUME NEW m \in Leaves' \ {Begin}
      PROVE  \E l \in Leaves' : node'[l].next = m /\ \A x \in Leaves' : node'[x].next = m => x = l
  <2>1. CASE m = sib
    <3>1. node'[n].next = m /\ n \in Leaves' /\ \A x \in Leaves' : node'[x].next = m => x = n
      BY <1>1, <1>2, <2>1
    <3>2. QED
      BY <3>1
  <2>2. CASE m # sib
    <3>1. m \in Leaves \ {Begin}
      BY <1>1, <2>2
    <3>2. PICK l \in Leaves : node[l].next = m /\ \A x \in Leaves : node[x].next = m => x = l
      BY <3>1 DEF ChainOK
    <3>3. CASE l = n
      <4>1. node'[sib].next = m /\ sib \in Leaves' /\ \A x \in Leaves' : node'[x].next = m => x = sib
        BY <1>1, <1>2, <2>2, <3>2, <3>3
      <4>2. QED
        BY <4>1
    <3>4. CASE l # n
      <4>1. node'[l].next = m /\ l \in Leaves' /\ \A x \in Leaves' : node'[x].next = m => x = l
        BY <1>1, <1>2, <2>2, <3>2, <3>4
      <4>2. QED
        BY <4>1
    <3>5. QED
      BY <3>3, <3>4
  <2>3. QED
    BY <2>1, <2>2
<1>7. QED
  BY <1>3, <1>4, <1>5, <1>6 DEF ChainOK, Begin

LEMMA HeadOf ==
  ASSUME TreeOK, NEW m \in Leaves
  PROVE  Head(node[m].keys) \in Nat /\ Occurs(node[m].keys, Head(node[m].keys))
<1>1. PICK s : s = node[m].keys
  OBVIOUS
<1>2. s \in Seq(Keys) /\ Len(s) \in 1..Capacity
  BY <1>1, LeafFacts DEF Leaves
<1>3. s \in Seq(Nat) /\ DOMAIN s = 1..Len(s) /\ Len(s) >= 1 /\ \A j \in DOMAIN s : s[j] \in Nat
  BY <1>2, KeySeq, KeyFacts
<1>4. Head(s) = s[1] /\ 1 \in DOMAIN s
  BY <1>3
<1>5. QED
  BY <1>1, <1>3, <1>4 DEF Occurs

\* The keys of a node are in its range.
LEMMA KeysOf ==
  ASSUME NEW R, KeysIn(R), NEW n \in DOMAIN node, NEW x, Occurs(node[n].keys, x)
  PROVE  x \in R[n]
  BY DEF KeysIn, Occurs

LEMMA SplitLeafDivides ==
  ASSUME Core, ChainOK, NEW R, Known(R), NEW p, NEW n, NEW sib, NEW k, NEW s, LeafParted(p, n, sib, k, s),
         NEW Q, Q = Divided(R, n, sib, s)
  PROVE  /\ LeavesDivide(Q)' /\ KeysIn(Q)' /\ s \in Q[sib]
         /\ \A m \in Leaves : \A j : Low(m, j) => Low(m, j)'
<1>0. TreeOK /\ R \in [DOMAIN node -> SUBSET Nat] /\ LeavesDivide(R) /\ KeysIn(R)
  BY DEF Core, TypesOK, Known, RangesOK
<1>1. /\ Leaves' = Leaves \union {sib} /\ sib \notin Leaves /\ Leaves \subseteq DOMAIN node
      /\ node[n].next # Nil => node[n].next \in Leaves \ {Begin}
      /\ node[n].next # sib /\ sib # Begin /\ \A m \in Leaves : node[m].next # sib
      /\ \A m \in DOMAIN node : m # n => node'[m] = node[m]
  BY <1>0, LeafPartedLeaves
<1>2. /\ n \in Leaves /\ node'[n].next = sib /\ node'[sib].next = node[n].next
      /\ s \in Keys /\ Head(node'[sib].keys) = s /\ DOMAIN node' = DOMAIN node \union {sib}
      /\ k \in Keys /\ k = op[p].key /\ p \in Procs /\ t[p].pc = "act" /\ t[p].cur = n /\ sib # 0
      /\ Head(node[n].keys) <= k => Head(node'[n].keys) = Head(node[n].keys)
      /\ sib \notin DOMAIN node
  BY DEF LeafParted
<1>3. /\ \A x : Occurs(node'[n].keys, x) => x < s
      /\ \A x : Occurs(node'[sib].keys, x) => s <= x
      /\ \A x : Occurs(node'[n].keys, x) \/ Occurs(node'[sib].keys, x) => x = k \/ Occurs(node[n].keys, x)
      /\ Occurs(node'[sib].keys, s)
  BY DEF LeafParted
<1>4. k \in R[n] /\ Low(n, k)
  BY <1>2, AtALeaf DEF AtLeaf
<1>5. \A m \in Leaves \ {Begin} : Head(node'[m].keys) = Head(node[m].keys)
  BY <1>1, <1>2, <1>4 DEF Low
<1>6. /\ DOMAIN Q = DOMAIN node'
      /\ \A j : j \in Q[n] <=> j \in R[n] /\ j < s
      /\ \A j : j \in Q[sib] <=> j \in R[n] /\ s <= j
      /\ \A m \in DOMAIN node : m # n => Q[m] = R[m]
      /\ \A m \in DOMAIN node : Q[m] \subseteq R[m]
  <2>1. DOMAIN R = DOMAIN node
    BY <1>0
  <2>2. n \in DOMAIN R /\ sib \notin DOMAIN R
    BY <1>1, <1>2, <2>1
  <2>3. /\ DOMAIN Q = DOMAIN R \union {sib}
        /\ \A j : j \in Q[n] <=> j \in R[n] /\ j < s
        /\ \A j : j \in Q[sib] <=> j \in R[n] /\ s <= j
        /\ \A m \in DOMAIN R : m # n => Q[m] = R[m]
        /\ \A m \in DOMAIN R : Q[m] \subseteq R[m]
    BY <2>2 DEF Divided
  <2>4. QED
    BY <1>2, <2>1, <2>3
<1>7. \A x : Occurs(node'[n].keys, x) \/ Occurs(node'[sib].keys, x) => x \in R[n]
  BY <1>0, <1>1, <1>2, <1>3, <1>4, KeysOf
<1>8. s \in R[n] /\ s \in Nat
  BY <1>2, <1>3, <1>7, KeyFacts
<1>9. s \in Q[sib]
  BY <1>6, <1>8
<1>10. \A m \in Leaves : \A j :
         /\ Low(m, j)' <=> Low(m, j)
         /\ node'[m].next = node[m].next => (InRange(m, j)' <=> InRange(m, j))
  BY <1>0, <1>2, <1>5, HeadsKept
<1>11. Low(n, s) /\ High(n, s)
  BY <1>0, <1>2, <1>8 DEF LeavesDivide, InRange
<1>12. ASSUME NEW j \in Nat PROVE j \in Q[n] <=> InRange(n, j)'
  <2>1. High(n, j)' <=> j < s
    BY <1>2 DEF High, Nil
  <2>2. j < s => High(n, j)
    <3>1. node[n].next # Nil => Head(node[node[n].next].keys) \in Nat
      BY <1>0, <1>1, HeadOf
    <3>2. QED
      BY <1>8, <1>11, <3>1 DEF High
  <2>3. j \in R[n] <=> Low(n, j) /\ High(n, j)
    BY <1>0, <1>2 DEF LeavesDivide, InRange
  <2>4. InRange(n, j)' <=> Low(n, j) /\ j < s
    BY <1>2, <1>10, <2>1 DEF InRange
  <2>5. QED
    BY <1>6, <2>2, <2>3, <2>4
<1>13. ASSUME NEW j \in Nat PROVE j \in Q[sib] <=> InRange(sib, j)'
  <2>1. High(sib, j)' <=> High(n, j)
    BY <1>1, <1>2, <1>5 DEF High
  <2>2. Low(sib, j)' <=> s <= j
    BY <1>1, <1>2 DEF Low, Begin
  <2>3. s <= j => Low(n, j)
    <3>1. Head(node[n].keys) \in Nat
      BY <1>0, <1>2, HeadOf
    <3>2. QED
      BY <1>8, <1>11, <3>1 DEF Low
  <2>4. j \in R[n] <=> Low(n, j) /\ High(n, j)
    BY <1>0, <1>2 DEF LeavesDivide, InRange
  <2>5. InRange(sib, j)' <=> s <= j /\ High(n, j)
    BY <2>1, <2>2 DEF InRange
  <2>6. QED
    BY <1>6, <2>3, <2>4, <2>5
<1>14. ASSUME NEW m \in Leaves' , NEW j \in Nat PROVE j \in Q[m] <=> InRange(m, j)'
  <2>1. CASE m = n
    BY <1>12, <2>1
  <2>2. CASE m = sib
    BY <1>13, <2>2
  <2>3. CASE m # n /\ m # sib
    <3>1. m \in Leaves /\ Q[m] = R[m] /\ node'[m].next = node[m].next
      BY <1>1, <1>6, <2>3
    <3>2. j \in R[m] <=> InRange(m, j)
      BY <1>0, <3>1 DEF LeavesDivide
    <3>3. QED
      BY <1>10, <3>1, <3>2
  <2>4. QED
    BY <2>1, <2>2, <2>3
<1>15. ASSUME NEW m \in Leaves', NEW z \in Leaves', m # z, NEW j \in Q[m] PROVE j \notin Q[z]
  <2>1. \A a, b \in Leaves : a # b => \A i \in R[a] : i \notin R[b]
    BY <1>0 DEF LeavesDivide
  <2>2. CASE m # sib /\ z # sib
    <3>1. m \in Leaves /\ z \in Leaves /\ j \in R[m]
      BY <1>1, <1>6, <2>2
    <3>2. j \notin R[z]
      BY <1>15, <2>1, <3>1
    <3>3. QED
      BY <1>1, <1>6, <3>1, <3>2
  <2>3. CASE m = sib
    <3>1. j \in R[n] /\ s <= j /\ z \in Leaves /\ j \in Nat
      BY <1>0, <1>1, <1>2, <1>6, <1>15, <2>3
    <3>2. CASE z = n
      BY <1>6, <1>8, <3>1, <3>2
    <3>3. CASE z # n
      <4>1. j \notin R[z]
        BY <1>2, <2>1, <3>1, <3>3
      <4>2. QED
        BY <1>1, <1>6, <3>1, <4>1
    <3>4. QED
      BY <3>2, <3>3
  <2>4. CASE z = sib
    <3>1. m \in Leaves /\ j \in R[m] /\ j \in Nat
      BY <1>0, <1>1, <1>6, <1>15, <2>4
    <3>2. CASE m = n
      BY <1>6, <1>8, <2>4, <3>1, <3>2
    <3>3. CASE m # n
      <4>1. j \notin R[n]
        BY <1>2, <2>1, <3>1, <3>3
      <4>2. QED
        BY <1>6, <2>4, <4>1
    <3>4. QED
      BY <3>2, <3>3
  <2>5. QED
    BY <2>2, <2>3, <2>4
<1>16. LeavesDivide(Q)'
  BY <1>14, <1>15 DEF LeavesDivide
<1>17. ASSUME NEW m \in DOMAIN node', NEW i \in DOMAIN node'[m].keys PROVE node'[m].keys[i] \in Q[m]
  <2>1. CASE m = n
    <3>1. Occurs(node'[n].keys, node'[n].keys[i])
      BY <1>17, <2>1 DEF Occurs
    <3>2. QED
      BY <1>3, <1>6, <1>7, <2>1, <3>1
  <2>2. CASE m = sib
    <3>1. Occurs(node'[sib].keys, node'[sib].keys[i])
      BY <1>17, <2>2 DEF Occurs
    <3>2. QED
      BY <1>3, <1>6, <1>7, <2>2, <3>1
  <2>3. CASE m # n /\ m # sib
    <3>1. m \in DOMAIN node /\ node'[m] = node[m] /\ Q[m] = R[m]
      BY <1>1, <1>2, <1>6, <2>3
    <3>2. QED
      BY <1>0, <3>1 DEF KeysIn
  <2>4. QED
    BY <2>1, <2>2, <2>3
<1>18. KeysIn(Q)'
  BY <1>17 DEF KeysIn
<1>19. QED
  BY <1>9, <1>10, <1>16, <1>18

LEMMA SplitLeafKnown ==
  ASSUME Core, ChainOK, NEW R, Known(R), NEW p \in Threads, SplitLeaf(p)
  PROVE  ChainOK' /\ \E Q : Known(Q)'
<1>0. TreeOK /\ node \in Seq(Node) /\ RangesOK(R)
  BY DEF Core, TypesOK, TreeOK, Known
<1>1. PICK n : n = t[p].cur
  OBVIOUS
<1>2. PICK k : k = op[p].key
  OBVIOUS
<1>3. PICK sib, s : LeafParted(p, n, sib, k, s)
  BY <1>1, <1>2, LeafParts
<1>4. PICK Q : Q = Divided(R, n, sib, s)
  OBVIOUS
<1>5. ChainOK'
  BY <1>0, <1>3, SplitLeafChain
<1>6. /\ LeavesDivide(Q)' /\ KeysIn(Q)' /\ s \in Q[sib]
      /\ \A m \in Leaves : \A j : Low(m, j) => Low(m, j)'
  BY <1>3, <1>4, SplitLeafDivides
<1>7. /\ Leaves' = Leaves \union {sib} /\ sib \notin Leaves /\ Leaves \subseteq DOMAIN node
      /\ \A m \in DOMAIN node : m # n => node'[m] = node[m]
      /\ \A m \in DOMAIN node \ Leaves : node'[m] = node[m]
  BY <1>0, <1>3, LeafPartedLeaves
<1>8. /\ Alone(p) /\ p \in Procs /\ op' = op /\ root' = root
      /\ t[p].pc = "act" /\ t[p].cur = n /\ t'[p].pc = "parent"
      /\ t'[p].left = n /\ t'[p].right = sib /\ t'[p].sep = s
      /\ n \in Leaves /\ s \in Keys /\ node' \in Seq(Node)
      /\ sib \notin DOMAIN node /\ DOMAIN node' = DOMAIN node \union {sib}
      /\ node'[n].leaf /\ node'[n].parent = node[n].parent
      /\ node'[n].version = node[n].version /\ node'[n].torn
      /\ node'[sib].leaf /\ node'[sib].parent = Nil
  BY <1>3 DEF LeafParted
<1>9. R \in [DOMAIN node -> SUBSET Nat] /\ DOMAIN R = DOMAIN node
  BY <1>0 DEF RangesOK
<1>10. n \in DOMAIN node /\ node[n].leaf /\ s \in Nat
  BY <1>7, <1>8, KeyFacts DEF Leaves
<1>11. /\ DOMAIN Q = DOMAIN R \union {sib}
       /\ \A j : j \in Q[n] <=> j \in R[n] /\ j < s
       /\ \A j : j \in Q[sib] <=> j \in R[n] /\ s <= j
       /\ \A m \in DOMAIN R : m # n => Q[m] = R[m]
       /\ \A m \in DOMAIN R : Q[m] \subseteq R[m]
  BY <1>4, <1>8, <1>9, <1>10 DEF Divided
<1>12. Q \in [DOMAIN node' -> SUBSET Nat]
  <2>1. \A m \in DOMAIN node' : Q[m] \subseteq Nat
    BY <1>8, <1>9, <1>10, <1>11
  <2>2. Q = [m \in DOMAIN node' |-> Q[m]]
    BY <1>4, <1>8, <1>9 DEF Divided
  <2>3. QED
    BY <2>1, <2>2
<1>13. Owns(p, n) /\ ~Splitting(p) /\ Splitting(p)' /\ \A m : Owns(p, m) => m = n
  BY <1>8 DEF Owns, Splitting, Climbing, Parents, Ending
<1>14. ASSUME NEW c \in DOMAIN node, NEW j, Covered(R, c, j) PROVE Covered(Q, c, j)'
  BY <1>4, <1>8, <1>9, <1>10, <1>13, <1>14, CoveredDivided
\* The inner nodes.
<1>15. ASSUME NEW q \in DOMAIN node \ Leaves
       PROVE  /\ q \in DOMAIN node /\ ~node[q].leaf /\ Q[q] = R[q] /\ \A j : ChildFor(q, j)' = ChildFor(q, j)
  <2>1. q # n /\ node'[q] = node[q]
    BY <1>7, <1>8
  <2>2. \A j : ChildFor(q, j)' = ChildFor(q, j)
    BY <2>1, SameChild
  <2>3. QED
    BY <1>9, <1>11, <2>1, <2>2 DEF Leaves
<1>16. ASSUME NEW m \in DOMAIN node, node[m].parent # Nil
       PROVE  node[m].parent \in DOMAIN node \ Leaves
  BY <1>0, <1>16 DEF TreeOK, Formed, Leaves
<1>17. ASSUME NEW m \in DOMAIN node, NEW q, q = node[m].parent, q # Nil, NEW j \in R[m]
       PROVE  Leads(Q, q, m, j)'
  <2>1. Leads(R, q, m, j)
    BY <1>0, <1>17 DEF RangesOK, ParentsLead
  <2>2. q \in DOMAIN node \ Leaves
    BY <1>16, <1>17
  <2>3. Q[q] = R[q] /\ ChildFor(q, j)' = ChildFor(q, j)
    BY <1>15, <2>2
  <2>4. QED
    BY <2>1, <2>3 DEF Leads
<1>18. \A m \in DOMAIN node : node'[m].parent = node[m].parent
  BY <1>7, <1>8
<1>19. ParentsLead(Q)'
  <2> SUFFICES ASSUME NEW m \in DOMAIN node', NEW q, q = node'[m].parent, q # Nil, NEW j \in Q[m]
               PROVE  Leads(Q, q, m, j)'
    BY DEF ParentsLead, Leads
  <2>1. m \in DOMAIN node /\ q = node[m].parent
    BY <1>8, <1>18
  <2>2. j \in R[m]
    BY <1>9, <1>11, <2>1
  <2>3. QED
    BY <1>17, <2>1, <2>2
<1>20. ChildrenCover(Q)'
  <2> SUFFICES ASSUME NEW q \in DOMAIN node \ Leaves, NEW j \in Q[q], NEW c, c = ChildFor(q, j)'
               PROVE  Covered(Q, c, j)'
    <3>1. DOMAIN node' \ Leaves' = DOMAIN node \ Leaves
      BY <1>7, <1>8
    <3>2. QED
      BY <3>1 DEF ChildrenCover, Covered
  <2>1. j \in R[q] /\ c = ChildFor(q, j) /\ ~node[q].leaf
    BY <1>15
  <2>2. Covered(R, c, j)
    BY <1>0, <2>1 DEF RangesOK, ChildrenCover
  <2>3. c \in DOMAIN node
    BY <1>0, <2>1, ChildIsNode
  <2>4. QED
    BY <1>14, <2>2, <2>3
<1>21. RootCovers(Q)'
  <2> SUFFICES ASSUME NEW j \in Nat, NEW c, c = root PROVE Covered(Q, c, j)'
    BY <1>8 DEF RootCovers, Covered
  <2>1. Covered(R, c, j) /\ c \in DOMAIN node
    BY <1>0 DEF RangesOK, RootCovers, TreeOK
  <2>2. QED
    BY <1>14, <2>1
<1>22. SplitsDivide(Q)'
  <2> SUFFICES ASSUME NEW z \in Procs, Splitting(z)' PROVE HalvesOK(Q, z)'
    BY DEF SplitsDivide
  <2>1. CASE z = p
    <3>1. \A j \in Q[sib] : s <= j /\ j \in R[n]
      BY <1>11
    <3>2. \A j \in Q[n] : j < s
      BY <1>11
    <3>3. PICK q : q = node[n].parent
      OBVIOUS
    <3>4. ASSUME q # Nil, NEW j \in Q[sib] PROVE Leads(Q, q, n, j)'
      BY <1>10, <1>17, <3>1, <3>3, <3>4
    <3>5. QED
      BY <1>6, <1>8, <2>1, <3>1, <3>2, <3>3, <3>4 DEF HalvesOK, Leads
  <2>2. CASE z # p
    <3>1. Splitting(z)
      BY <1>8, <2>2, OthersOwn
    <3>2. PICK l : l = t[z].left
      OBVIOUS
    <3>3. PICK r : r = t[z].right
      OBVIOUS
    <3>4. PICK q : q = node'[l].parent
      OBVIOUS
    <3>5. l \in DOMAIN node /\ q = node[l].parent
      BY <1>18, <3>1, <3>2, <3>4 DEF Core, LocksOK, SplitOK
    <3>6. ASSUME q # Nil, NEW j \in R[r] PROVE Leads(Q, q, l, j)'
      <4>1. Leads(R, q, l, j)
        BY <1>0, <3>1, <3>2, <3>3, <3>5, <3>6 DEF RangesOK, SplitsDivide, HalvesOK
      <4>2. q \in DOMAIN node \ Leaves
        BY <1>16, <3>5, <3>6
      <4>3. Q[q] = R[q] /\ ChildFor(q, j)' = ChildFor(q, j)
        BY <1>15, <4>2
      <4>4. QED
        BY <4>1, <4>3 DEF Leads
    <3>7. \A m \in DOMAIN node : ~Owns(p, m) => Q[m] = R[m]
      BY <1>9, <1>11, <1>13
    <3>8. QED
      BY <1>0, <1>8, <2>2, <3>1, <3>2, <3>3, <3>4, <3>6, <3>7, OtherHalves
  <2>3. QED
    BY <2>1, <2>2
<1>23. RangesOK(Q)'
  BY <1>6, <1>12, <1>19, <1>20, <1>21, <1>22 DEF RangesOK
\* What threads know.
<1>24. Advance(R, Q)
  <2>1. \A m \in DOMAIN node :
          /\ node[m].version <= node'[m].version
          /\ node'[m].version = node[m].version /\ ~node'[m].torn =>
               ~node[m].torn /\ Q[m] = R[m] /\ node'[m].keys = node[m].keys /\ node'[m].kids = node[m].kids
    <3> SUFFICES ASSUME NEW m \in DOMAIN node
                 PROVE  /\ node[m].version <= node'[m].version
                        /\ node'[m].version = node[m].version /\ ~node'[m].torn =>
                             ~node[m].torn /\ Q[m] = R[m] /\ node'[m].keys = node[m].keys /\ node'[m].kids = node[m].kids
      OBVIOUS
    <3>1. node[m].version \in Nat
      BY <1>0, NodeFacts
    <3>2. CASE m = n
      BY <1>8, <3>1, <3>2
    <3>3. CASE m # n
      <4>1. node'[m] = node[m] /\ Q[m] = R[m]
        BY <1>7, <1>9, <1>11, <3>3
      <4>2. QED
        BY <3>1, <4>1
    <3>4. QED
      BY <3>2, <3>3
  <2>2. ASSUME NEW z \in Procs, Splitting(z)', t'[z].right \in DOMAIN node
        PROVE  Splitting(z) /\ t'[z].right = t[z].right
    <3>1. z # p
      BY <1>8, <2>2
    <3>2. QED
      BY <1>8, <2>2, <3>1, OthersOwn DEF Alone, Threads
  <2>3. QED
    BY <1>6, <2>1, <2>2 DEF Advance
<1>25. Descent(Q, p)' /\ Arrival(Q, p)'
  BY <1>8 DEF Descent, Arrival, AtRoot, AtInner, AtLeaf, Reading
<1>26. Grown
  <2>1. \A m \in DOMAIN node : node'[m].leaf = node[m].leaf
    <3>1. node[n].leaf \in BOOLEAN /\ node'[n].leaf \in BOOLEAN
      BY <1>0, <1>8, <1>10, NodeFacts DEF Node
    <3>2. QED
      BY <1>7, <1>8, <1>10, <3>1
  <2>2. QED
    BY <1>8, <2>1 DEF Grown
<1>27. \A m \in DOMAIN node : ~Owns(p, m) => Q[m] = R[m]
  BY <1>9, <1>11, <1>13
<1>28. Known(Q)'
  BY <1>8, <1>23, <1>24, <1>25, <1>26, <1>27, KnownStep
<1>29. QED
  BY <1>5, <1>28

-----------------------------------------------------------------------------
(* Hanging the new half into the parent                                     *)

\* Where node q, with separators all and children kids, leads to: every child,
\* the new one r too, gets the keys in its range.
Routes(R, p, q, r, all, kids) ==
  /\ Sorted(all)
  /\ \A x : Occurs(all, x) => x \in R[q]
  /\ \A m \in DOMAIN node : node[m].parent = q \/ m = r =>
       \A k \in R[m] : k \in R[q] /\ ChildIn(all, kids, k) = m
  /\ \A k \in R[q] : LET c == ChildIn(all, kids, k)
                     IN  /\ c \in DOMAIN node /\ (node[c].parent = q \/ c = r)
                         /\ \/ k \in R[c]
                            \/ \E z \in Procs : /\ z # p /\ Splitting(z) /\ t[z].left = c
                                                /\ k \in R[t[z].right]
  /\ \A z \in Procs : z # p /\ Splitting(z) /\ node[t[z].left].parent = q =>
       \A k \in R[t[z].right] : k \in R[q] /\ ChildIn(all, kids, k) = t[z].left

LEMMA HangRoutes ==
  ASSUME Core, ChainOK, NEW R, RangesOK(R), NEW p \in Threads, t[p].pc \in {"splitparent", "insertparent"},
         NEW l, l = t[p].left, NEW r, r = t[p].right, NEW q, q = t[p].par, NEW e, e = t[p].sep,
         NEW i, NEW j, NEW all, NEW kids, HungAt(q, r, e, i, j, all, kids)
  PROVE  Routes(R, p, q, r, all, kids)
<1>0. TreeOK /\ LocksOK /\ ShapeOK /\ R \in [DOMAIN node -> SUBSET Nat] /\ KeysIn(R)
  BY DEF Core, TypesOK, RangesOK
<1>1. /\ p \in Procs /\ Splitting(p) /\ SplitOK(p) /\ e \in Keys /\ e \in Nat
      /\ l \in DOMAIN node /\ r \in DOMAIN node /\ l # r
  <2>1. t[p].pc \in Climbing
    BY DEF Climbing, Parents
  <2>2. QED
    BY <2>1, ClimbFacts
<1>2. /\ q \in DOMAIN node /\ ~node[q].leaf /\ q \notin {l, r} /\ q # 0 /\ node[l].parent = q
      /\ \A m : Owns(p, m) <=> m \in {q, l, r}
  BY HangingFacts
<1>3. HalvesOK(R, p)
  BY <1>1 DEF RangesOK, SplitsDivide
<1>4. /\ e \in R[r] /\ (\A k \in R[l] : k < e) /\ (\A k \in R[r] : e <= k)
      /\ \A k \in R[r] : k \in R[q] /\ ChildFor(q, k) = l
  BY <1>2, <1>3 DEF HalvesOK, Leads, Nil
<1>5. PICK ks : ks = node[q].keys
  OBVIOUS
<1>6. PICK cs : cs = node[q].kids
  OBVIOUS
<1>7. /\ ks \in Seq(Keys) /\ ks \in Seq(Nat) /\ DOMAIN ks = 1..Len(ks) /\ Len(ks) \in Nat
      /\ cs \in Seq(Nat) /\ Len(cs) = Len(ks) + 1 /\ Sorted(ks)
      /\ \A x \in DOMAIN ks : ks[x] \in Nat
  <2>1. ks \in Seq(Keys) /\ cs \in Seq(Nat) /\ Len(cs) = Len(ks) + 1 /\ Sorted(ks)
    BY <1>0, <1>2, <1>5, <1>6, KidsFacts, NodeFacts DEF TreeOK, ChainOK
  <2>2. QED
    BY <2>1, KeySeq
<1>8. /\ i = SlotIn(ks, e) + 1 /\ j = i + 1 /\ i \in 1..(Len(ks) + 1)
      /\ Inserted(Keys, ks, i, e, all) /\ Inserted(Nat, cs, j, r, kids)
  BY <1>5, <1>6 DEF HungAt, SlotAfter, SlotIn
<1>9. \A k : ChildFor(q, k) = ChildIn(ks, cs, k)
  BY <1>5, <1>6, ChildIsIn
<1>10. ASSUME NEW k \in Nat
       PROVE  /\ SlotIn(ks, k) \in 0..Len(ks)
              /\ \A x \in DOMAIN ks : ks[x] <= k <=> x <= SlotIn(ks, k)
              /\ SlotIn(ks, k) + 1 \in DOMAIN cs
              /\ ChildIn(ks, cs, k) = cs[SlotIn(ks, k) + 1]
              /\ ChildFor(q, k) \in DOMAIN node /\ node[ChildFor(q, k)].parent = q
  <2>1. SlotsAt(ks, k)
    BY <1>7, SlotIs
  <2>2. SlotIn(ks, k) + 1 \in DOMAIN cs
    BY <1>7, <2>1 DEF SlotsAt
  <2>3. ChildFor(q, k) = cs[SlotIn(ks, k) + 1]
    BY <1>9 DEF ChildIn
  <2>4. ChildFor(q, k) \in DOMAIN node
    BY <1>0, <1>2, ChildIsNode
  <2>5. node[ChildFor(q, k)].parent = q
    BY <1>0, <1>2, <1>6, <2>2, <2>3 DEF ShapeOK, Leaves
  <2>6. SlotIn(ks, k) \in 0..Len(ks) /\ \A x \in DOMAIN ks : ks[x] <= k <=> x <= SlotIn(ks, k)
    BY <2>1 DEF SlotsAt
  <2>7. ChildIn(ks, cs, k) = cs[SlotIn(ks, k) + 1]
    BY DEF ChildIn
  <2>8. QED
    BY <2>2, <2>4, <2>5, <2>6, <2>7
\* The same child is in the same slot.
<1>11. ASSUME NEW k \in Nat PROVE SlotIn(ks, k) = SlotIn(ks, e) <=> ChildFor(q, k) = l
  <2>1. ChildFor(q, e) = l
    BY <1>4
  <2>2. \A x, y \in DOMAIN cs : cs[x] = cs[y] => x = y
    BY <1>0, <1>2, <1>6 DEF ShapeOK, Leaves
  <2>3. ChildFor(q, k) = cs[SlotIn(ks, k) + 1] /\ ChildFor(q, e) = cs[SlotIn(ks, e) + 1]
    BY <1>1, <1>9, <1>10
  <2>4. ChildFor(q, k) = l => SlotIn(ks, k) + 1 = SlotIn(ks, e) + 1
    <3>1. SlotIn(ks, k) + 1 \in DOMAIN cs /\ SlotIn(ks, e) + 1 \in DOMAIN cs
      BY <1>1, <1>10
    <3>2. QED
      BY <2>1, <2>2, <2>3, <3>1
  <2>5. SlotIn(ks, k) \in Nat /\ SlotIn(ks, e) \in Nat
    BY <1>1, <1>7, <1>10
  <2>6. QED
    BY <2>1, <2>3, <2>4, <2>5
<1>12. ASSUME NEW k \in Nat
       PROVE  /\ e <= k /\ ChildFor(q, k) = l => ChildIn(all, kids, k) = r
              /\ ~(e <= k /\ ChildFor(q, k) = l) => ChildIn(all, kids, k) = ChildFor(q, k)
  <2>1. /\ e <= k /\ SlotIn(ks, k) = SlotIn(ks, e) => ChildIn(all, kids, k) = r
        /\ ~(e <= k /\ SlotIn(ks, k) = SlotIn(ks, e)) => ChildIn(all, kids, k) = ChildIn(ks, cs, k)
    BY <1>1, <1>7, <1>8, ChildInserted
  <2>2. QED
    BY <1>9, <1>11, <2>1
\* The separator is a new one: the left half has a smaller key.
<1>13. Sorted(all)
  <2>1. PICK h \in R[l] : h \in Nat /\ h < e
    <3>1. node[l].keys \in Seq(Keys) /\ Len(node[l].keys) \in 1..Capacity
      BY <1>0, <1>1, NodeFacts DEF TreeOK, Formed
    <3>2. 1 \in DOMAIN node[l].keys
      BY <3>1, KeyFacts
    <3>3. node[l].keys[1] \in R[l]
      BY <1>0, <1>1, <3>2 DEF KeysIn
    <3>4. QED
      BY <1>0, <1>1, <1>4, <3>3
  <2>2. ChildFor(q, h) = l
    BY <1>0, <1>1, <1>2, <2>1 DEF RangesOK, ParentsLead, Leads, Nil
  <2>3. SlotIn(ks, h) = SlotIn(ks, e)
    BY <1>11, <2>1, <2>2
  <2>4. \A x \in DOMAIN ks : ks[x] <= e => ks[x] <= h
    BY <1>1, <1>10, <2>1, <2>3
  <2>5. ASSUME NEW x \in DOMAIN ks PROVE (x < i => ks[x] < e) /\ (x >= i => e < ks[x])
    <3>1. ks[x] <= e <=> x <= SlotIn(ks, e)
      BY <1>1, <1>10
    <3>2. SlotIn(ks, e) \in Nat /\ x \in Nat /\ ks[x] \in Nat
      <4>1. SlotIn(ks, e) \in 0..Len(ks)
        BY <1>1, <1>10
      <4>2. QED
        BY <1>7, <4>1
    <3>3. x < i <=> x <= SlotIn(ks, e)
      BY <1>8, <3>2
    <3>4. x < i => ks[x] <= h
      BY <2>4, <3>1, <3>3
    <3>5. x < i => ks[x] < e
      BY <1>1, <2>1, <3>2, <3>4
    <3>6. x >= i => e < ks[x]
      BY <1>1, <1>8, <3>1, <3>2, <3>3
    <3>7. QED
      BY <3>5, <3>6
  <2>6. QED
    BY <1>1, <1>7, <1>8, <2>5, SortedInserted
<1>14. ASSUME NEW x, Occurs(all, x) PROVE x \in R[q]
  <2>1. InsertedParts(ks, i, e, all)
    BY <1>7, <1>8, InsertedIs
  <2>2. x = e \/ \E m \in DOMAIN ks : x = ks[m]
    BY <1>14, <2>1 DEF Occurs, InsertedParts
  <2>3. QED
    BY <1>0, <1>2, <1>4, <1>5, <2>2 DEF KeysIn
<1>15. ASSUME NEW m \in DOMAIN node, node[m].parent = q \/ m = r, NEW k \in R[m]
       PROVE  k \in R[q] /\ ChildIn(all, kids, k) = m
  <2>0. k \in Nat
    BY <1>0
  <2>1. CASE m = r
    BY <1>4, <1>12, <2>0, <2>1
  <2>2. CASE m # r
    <3>1. k \in R[q] /\ ChildFor(q, k) = m
      BY <1>2, <1>15, <2>2 DEF RangesOK, ParentsLead, Leads, Nil
    <3>2. m = l => ~(e <= k)
      BY <1>1, <1>4, <2>0
    <3>3. QED
      BY <1>12, <2>0, <3>1, <3>2
  <2>3. QED
    BY <2>1, <2>2
<1>16. ASSUME NEW z \in Procs, z # p, Splitting(z) PROVE t[z].left # l
  <2>1. Owns(z, t[z].left)
    BY <1>16 DEF Owns
  <2>2. Owns(p, l)
    BY <1>2
  <2>3. \A x, y \in Procs : Owns(x, l) /\ Owns(y, l) => x = y
    BY <1>0, <1>1 DEF LocksOK
  <2>4. QED
    BY <1>1, <1>16, <2>1, <2>2, <2>3
<1>17. ASSUME NEW k \in R[q], NEW c, c = ChildIn(all, kids, k)
       PROVE  /\ c \in DOMAIN node /\ (node[c].parent = q \/ c = r)
              /\ \/ k \in R[c]
                 \/ \E z \in Procs : z # p /\ Splitting(z) /\ t[z].left = c /\ k \in R[t[z].right]
  <2>0. k \in Nat
    BY <1>0, <1>2
  <2>1. PICK d : d = ChildFor(q, k)
    OBVIOUS
  <2>2. d \in DOMAIN node /\ node[d].parent = q
    BY <1>10, <2>0, <2>1
  <2>3. Covered(R, d, k)
    BY <1>2, <2>1 DEF RangesOK, ChildrenCover, Leaves
  <2>4. CASE d = l
    <3>1. k \in R[l] \/ k \in R[r]
      BY <1>16, <2>3, <2>4 DEF Covered
    <3>2. CASE k \in R[l]
      BY <1>2, <1>1, <1>15, <1>17, <3>2
    <3>3. CASE k \in R[r]
      BY <1>1, <1>15, <1>17, <3>3
    <3>4. QED
      BY <3>1, <3>2, <3>3
  <2>5. CASE d # l
    <3>1. c = d
      BY <1>12, <1>17, <2>0, <2>1, <2>5
    <3>2. k \in R[c] \/ \E z \in Procs : z # p /\ Splitting(z) /\ t[z].left = c /\ k \in R[t[z].right]
      BY <2>3, <2>5, <3>1 DEF Covered
    <3>3. QED
      BY <2>2, <3>1, <3>2
  <2>6. QED
    BY <2>4, <2>5
<1>18. ASSUME NEW z \in Procs, z # p, Splitting(z), node[t[z].left].parent = q, NEW k \in R[t[z].right]
       PROVE  k \in R[q] /\ ChildIn(all, kids, k) = t[z].left
  <2>1. HalvesOK(R, z) /\ t[z].right \in DOMAIN node
    BY <1>0, <1>18 DEF RangesOK, SplitsDivide, LocksOK, SplitOK
  <2>2. k \in R[q] /\ ChildFor(q, k) = t[z].left /\ k \in Nat
    BY <1>0, <1>2, <1>18, <2>1 DEF HalvesOK, Leads, Nil
  <2>3. QED
    BY <1>12, <1>16, <1>18, <2>2
<1>19. QED
  BY <1>13, <1>14, <1>15, <1>17, <1>18 DEF Routes

-----------------------------------------------------------------------------
(* The end of a split                                                       *)

\* A step that changes inner nodes only.
LEMMA LeavesStay ==
  ASSUME TreeOK, ChainOK, Leaves' = Leaves, DOMAIN node \subseteq DOMAIN node',
         \A m \in Leaves : node'[m].keys = node[m].keys /\ node'[m].next = node[m].next,
         \A m \in DOMAIN node' \ Leaves : Sorted(node'[m].keys),
         NEW R, LeavesDivide(R), NEW Q, \A m \in Leaves : Q[m] = R[m]
  PROVE  /\ ChainOK' /\ LeavesDivide(Q)'
         /\ \A m \in Leaves : \A j : Low(m, j) => Low(m, j)'
<1>1. \A m \in Leaves \ {Begin} : Head(node'[m].keys) = Head(node[m].keys)
  OBVIOUS
<1>2. \A m \in Leaves : \A j : (Low(m, j)' <=> Low(m, j)) /\ (InRange(m, j)' <=> InRange(m, j))
  BY <1>1, HeadsKept
<1>3. LeavesDivide(Q)'
  <2>1. \A m \in Leaves : \A j \in Nat : j \in Q[m] <=> InRange(m, j)'
    BY <1>2 DEF LeavesDivide
  <2>2. \A m, z \in Leaves : m # z => \A j \in Q[m] : j \notin Q[z]
    BY DEF LeavesDivide
  <2>3. QED
    BY <2>1, <2>2 DEF LeavesDivide
<1>4. ChainOK'
  <2>1. \A m \in DOMAIN node' : Sorted(node'[m].keys)
    <3>1. \A m \in Leaves : m \in DOMAIN node /\ Sorted(node[m].keys)
      BY DEF ChainOK, Leaves
    <3>2. QED
      BY <3>1
  <2>2. Begin \in Leaves /\ (\A m \in Leaves : node'[m].next # Begin)
    BY DEF ChainOK
  <2>3. \A m \in Leaves \ {Begin} : \E l \in Leaves :
          node'[l].next = m /\ \A x \in Leaves : node'[x].next = m => x = l
    BY DEF ChainOK
  <2>4. QED
    BY <2>1, <2>2, <2>3 DEF ChainOK, Begin
<1>5. QED
  BY <1>2, <1>3, <1>4

\* What is covered without the split of p still is.
CoveredBut(R, p, c, j) ==
  j \in R[c] \/ \E z \in Procs : z # p /\ Splitting(z) /\ t[z].left = c /\ j \in R[t[z].right]

LEMMA CoveredStill ==
  ASSUME Core, NEW R, NEW p \in Procs, Alone(p), NEW Q, \A m \in DOMAIN node : ~Owns(p, m) => Q[m] = R[m],
         NEW c \in DOMAIN node, Q[c] = R[c], NEW j, CoveredBut(R, p, c, j)
  PROVE  Covered(Q, c, j)'
<1>1. CASE j \in R[c]
  BY <1>1 DEF Covered
<1>2. CASE j \notin R[c]
  <2>1. PICK z \in Procs : z # p /\ Splitting(z) /\ t[z].left = c /\ j \in R[t[z].right]
    BY <1>2 DEF CoveredBut
  <2>2. t'[z] = t[z] /\ Splitting(z)'
    BY <2>1, OthersOwn DEF Alone, Threads
  <2>3. Owns(z, t[z].right) /\ t[z].right \in DOMAIN node
    BY <2>1 DEF Owns, Core, LocksOK, SplitOK
  <2>4. ~Owns(p, t[z].right)
    BY <2>1, <2>3 DEF Core, LocksOK
  <2>5. j \in Q[t'[z].right] /\ t'[z].left = c
    BY <2>1, <2>2, <2>3, <2>4
  <2>6. QED
    BY <2>2, <2>5 DEF Covered
<1>3. QED
  BY <1>1, <1>2

LEMMA InsertParentKnown ==
  ASSUME Core, ChainOK, NEW R, Known(R), NEW p \in Threads, InsertParent(p)
  PROVE  ChainOK' /\ Known(R)'
<1>0. /\ TreeOK /\ LocksOK /\ ShapeOK /\ node \in Seq(Node) /\ RangesOK(R)
      /\ R \in [DOMAIN node -> SUBSET Nat] /\ LeavesDivide(R) /\ KeysIn(R)
  BY DEF Core, TypesOK, TreeOK, Known, RangesOK
<1>1. PICK l : l = t[p].left
  OBVIOUS
<1>2. PICK r : r = t[p].right
  OBVIOUS
<1>3. PICK q : q = t[p].par
  OBVIOUS
<1>4. PICK e : e = t[p].sep
  OBVIOUS
<1>5. /\ Alone(p) /\ t[p].pc = "insertparent" /\ t'[p].pc = "bump" /\ t'[p].after = "count"
      /\ root' = root /\ op' = op
  BY InsertParentFacts
<1>6. PICK i, j, all, kids : HungAt(q, r, e, i, j, all, kids) /\ Hung(q, r, all, kids)
  BY <1>2, <1>3, <1>4, InsertParentFacts
<1>7. p \in Procs /\ Splitting(p) /\ l \in DOMAIN node /\ r \in DOMAIN node
  <2>1. t[p].pc \in Climbing
    BY <1>5 DEF Climbing, Parents
  <2>2. QED
    BY <1>1, <1>2, <2>1, ClimbFacts
<1>8. /\ q \in DOMAIN node /\ ~node[q].leaf /\ q \notin {l, r} /\ q # 0 /\ node[l].parent = q
      /\ \A m : Owns(p, m) <=> m \in {q, l, r}
  BY <1>1, <1>2, <1>3, <1>5, HangingFacts
<1>9. Routes(R, p, q, r, all, kids)
  BY <1>0, <1>1, <1>2, <1>3, <1>4, <1>5, <1>6, HangRoutes
<1>10. /\ node' \in Seq(Node) /\ DOMAIN node' = DOMAIN node
       /\ \A m \in DOMAIN node : m # q /\ m # r => node'[m] = node[m]
       /\ Reparent(r, q)
       /\ node'[q].keys = all /\ node'[q].kids = kids
       /\ node'[q].leaf = node[q].leaf /\ node'[q].parent = node[q].parent
       /\ node'[q].version = node[q].version /\ node'[q].torn
  BY <1>6 DEF Hung
<1>11. \A m \in DOMAIN node : m # q =>
         /\ node'[m].leaf = node[m].leaf /\ node'[m].keys = node[m].keys
         /\ node'[m].kids = node[m].kids /\ node'[m].next = node[m].next
         /\ node'[m].version = node[m].version /\ node'[m].torn = node[m].torn
         /\ m # r => node'[m].parent = node[m].parent
  BY <1>10 DEF Reparent
<1>12. node'[r].parent = q
  BY <1>10 DEF Reparent
<1>13. Leaves' = Leaves /\ Leaves \subseteq DOMAIN node /\ q \notin Leaves
  BY <1>8, <1>10, <1>11 DEF Leaves
<1>14. /\ ChainOK' /\ LeavesDivide(R)'
       /\ \A m \in Leaves : \A k : Low(m, k) => Low(m, k)'
  <2>1. \A m \in DOMAIN node' \ Leaves : Sorted(node'[m].keys)
    BY <1>9, <1>10, <1>11 DEF ChainOK, Routes
  <2>2. QED
    BY <1>0, <1>10, <1>11, <1>13, <2>1, LeavesStay
<1>15. KeysIn(R)'
  <2>1. \A x \in DOMAIN all : all[x] \in R[q]
    BY <1>9 DEF Routes, Occurs
  <2>2. QED
    BY <1>0, <1>10, <1>11, <2>1 DEF KeysIn
<1>16. \A k : ChildFor(q, k)' = ChildIn(all, kids, k)
  BY <1>10 DEF ChildFor, ChildIn, SlotAfter, SlotIn
<1>17. \A x \in DOMAIN node : x # q => \A k : ChildFor(x, k)' = ChildFor(x, k)
  BY <1>11, SameChild
<1>18. ParentsLead(R)'
  <2> SUFFICES ASSUME NEW m \in DOMAIN node', NEW x, x = node'[m].parent, x # Nil, NEW k \in R[m]
               PROVE  Leads(R, x, m, k)'
    BY DEF ParentsLead, Leads
  <2>1. CASE x = q
    <3>1. node[m].parent = q \/ m = r
      BY <1>10, <1>11, <2>1
    <3>2. k \in R[q] /\ ChildIn(all, kids, k) = m
      BY <1>9, <1>10, <3>1 DEF Routes
    <3>3. QED
      BY <1>16, <2>1, <3>2 DEF Leads
  <2>2. CASE x # q
    <3>1. m \in DOMAIN node /\ x = node[m].parent
      BY <1>10, <1>11, <1>12, <2>2
    <3>2. Leads(R, x, m, k) /\ x \in DOMAIN node
      BY <1>0, <3>1 DEF RangesOK, ParentsLead, TreeOK, Formed
    <3>3. QED
      BY <1>17, <2>2, <3>2 DEF Leads
  <2>3. QED
    BY <2>1, <2>2
<1>19. \A m \in DOMAIN node : ~Owns(p, m) => R[m] = R[m]
  OBVIOUS
<1>20. ASSUME NEW c \in DOMAIN node, NEW k, Covered(R, c, k), c # l PROVE Covered(R, c, k)'
  <2>1. CoveredBut(R, p, c, k)
    BY <1>1, <1>20 DEF Covered, CoveredBut
  <2>2. QED
    BY <1>5, <1>7, <1>19, <2>1, CoveredStill
<1>21. ChildrenCover(R)'
  <2> SUFFICES ASSUME NEW x \in DOMAIN node \ Leaves, NEW k \in R[x], NEW c, c = ChildFor(x, k)'
               PROVE  Covered(R, c, k)'
    BY <1>10, <1>13 DEF ChildrenCover, Covered
  <2>1. CASE x = q
    <3>1. c = ChildIn(all, kids, k)
      BY <1>16, <2>1
    <3>2. c \in DOMAIN node /\ CoveredBut(R, p, c, k)
      BY <1>9, <2>1, <3>1 DEF Routes, CoveredBut
    <3>3. QED
      BY <1>5, <1>7, <1>19, <3>2, CoveredStill
  <2>2. CASE x # q
    <3>1. c = ChildFor(x, k) /\ ~node[x].leaf
      BY <1>17, <2>2 DEF Leaves
    <3>2. Covered(R, c, k)
      BY <1>0, <3>1 DEF RangesOK, ChildrenCover
    <3>3. c \in DOMAIN node /\ node[c].parent = x
      <4>1. c \in DOMAIN node /\ SlotAfter(x, k) + 1 \in DOMAIN node[x].kids
        BY <1>0, <3>1, ChildIsNode
      <4>2. QED
        BY <1>0, <3>1, <4>1 DEF ShapeOK, ChildFor
    <3>4. QED
      BY <1>8, <1>20, <2>2, <3>2, <3>3
  <2>3. QED
    BY <2>1, <2>2
<1>22. RootCovers(R)'
  <2> SUFFICES ASSUME NEW k \in Nat, NEW c, c = root PROVE Covered(R, c, k)'
    BY <1>5 DEF RootCovers, Covered
  <2>1. Covered(R, c, k) /\ c \in DOMAIN node /\ c # l
    BY <1>0, <1>8 DEF RangesOK, RootCovers, TreeOK, ShapeOK, Nil
  <2>2. QED
    BY <1>20, <2>1
<1>23. ~Splitting(p)'
  BY <1>5 DEF Splitting, Climbing, Parents, Ending
<1>24. SplitsDivide(R)'
  <2> SUFFICES ASSUME NEW z \in Procs, Splitting(z)' PROVE HalvesOK(R, z)'
    BY DEF SplitsDivide
  <2>1. z # p
    BY <1>23
  <2>2. Splitting(z)
    BY <1>5, <2>1, OthersOwn
  <2>3. PICK a : a = t[z].left
    OBVIOUS
  <2>4. PICK b : b = t[z].right
    OBVIOUS
  <2>5. PICK x : x = node'[a].parent
    OBVIOUS
  <2>6. a \in DOMAIN node /\ HalvesOK(R, z) /\ a # q /\ a # r /\ a # l
    <3>1. a \in DOMAIN node /\ HalvesOK(R, z) /\ Owns(z, a)
      BY <1>0, <2>2, <2>3 DEF RangesOK, SplitsDivide, LocksOK, SplitOK, Owns
    <3>2. ~Owns(p, a)
      BY <1>0, <1>7, <2>1, <3>1 DEF LocksOK
    <3>3. QED
      BY <1>8, <3>1, <3>2
  <2>7. x = node[a].parent
    BY <1>11, <2>5, <2>6
  <2>8. ASSUME x # Nil, NEW k \in R[b] PROVE Leads(R, x, a, k)'
    <3>1. CASE x = q
      <4>1. k \in R[q] /\ ChildIn(all, kids, k) = a
        BY <1>9, <2>1, <2>2, <2>3, <2>4, <2>7, <2>8, <3>1 DEF Routes
      <4>2. QED
        BY <1>16, <3>1, <4>1 DEF Leads
    <3>2. CASE x # q
      <4>1. Leads(R, x, a, k) /\ x \in DOMAIN node
        BY <1>0, <2>3, <2>4, <2>6, <2>7, <2>8 DEF HalvesOK, TreeOK, Formed
      <4>2. QED
        BY <1>17, <3>2, <4>1 DEF Leads
    <3>3. QED
      BY <3>1, <3>2
  <2>9. QED
    BY <1>0, <1>5, <1>7, <1>19, <2>1, <2>2, <2>3, <2>4, <2>5, <2>8, OtherHalves
<1>25. RangesOK(R)'
  BY <1>0, <1>10, <1>14, <1>15, <1>18, <1>21, <1>22, <1>24 DEF RangesOK
<1>26. Advance(R, R)
  <2>1. ASSUME NEW m \in DOMAIN node
        PROVE  /\ node[m].version <= node'[m].version
               /\ node'[m].version = node[m].version /\ ~node'[m].torn =>
                    ~node[m].torn /\ node'[m].keys = node[m].keys /\ node'[m].kids = node[m].kids
    <3>1. node[m].version \in Nat
      BY <1>0, NodeFacts
    <3>2. CASE m = q
      BY <1>10, <3>1, <3>2
    <3>3. CASE m # q
      BY <1>11, <3>1, <3>3
    <3>4. QED
      BY <3>2, <3>3
  <2>2. ASSUME NEW z \in Procs, Splitting(z)'
        PROVE  Splitting(z) /\ t'[z].right = t[z].right
    <3>1. z # p
      BY <1>23, <2>2
    <3>2. QED
      BY <1>5, <2>2, <3>1, OthersOwn DEF Alone, Threads
  <2>3. QED
    BY <1>14, <2>1, <2>2 DEF Advance
<1>27. Descent(R, p)' /\ Arrival(R, p)'
  BY <1>5 DEF Descent, Arrival, AtRoot, AtInner, AtLeaf, Reading
<1>28. Grown
  BY <1>10, <1>11 DEF Grown
<1>29. Known(R)'
  BY <1>5, <1>7, <1>10, <1>25, <1>26, <1>27, <1>28, KnownStep
<1>30. QED
  BY <1>14, <1>29

-----------------------------------------------------------------------------
(* Splitting the parent                                                     *)

LEMMA ChildrenHang ==
  TreeOK /\ ShapeOK =>
    \A n \in DOMAIN node \ Leaves : \A k : node[ChildFor(n, k)].parent = n
<1> SUFFICES ASSUME TreeOK, ShapeOK, NEW n \in DOMAIN node \ Leaves, NEW k
             PROVE  node[ChildFor(n, k)].parent = n
  OBVIOUS
<1>1. n \in DOMAIN node /\ ~node[n].leaf
  BY DEF Leaves
<1>2. SlotAfter(n, k) + 1 \in DOMAIN node[n].kids
  BY <1>1, ChildIsNode
<1>3. QED
  BY <1>2 DEF ShapeOK, ChildFor

\* The halves of an internal node, with separators all and children kids, cut
\* at separator e2.
InnerParted(p, l, r, q, sib, e2, all, kids) ==
  /\ Alone(p) /\ p \in Procs /\ op' = op /\ root' = root /\ size_est' = size_est
  /\ t[p].pc = "splitparent" /\ t[p].left = l /\ t[p].right = r
  /\ t'[p].pc = "bump" /\ t'[p].after = "parent"
  /\ t'[p].left = q /\ t'[p].right = sib /\ t'[p].sep = e2
  /\ l \in DOMAIN node /\ r \in DOMAIN node /\ l # r /\ node[l].parent = q
  /\ q \in DOMAIN node \ Leaves /\ q # l /\ q # r /\ q # 0
  /\ \A m : Owns(p, m) <=> m \in {q, l, r}
  /\ sib \notin DOMAIN node /\ sib \in Nat /\ sib # 0
  /\ node' \in Seq(Node) /\ DOMAIN node' = DOMAIN node \union {sib}
  /\ \A m \in DOMAIN node :
       /\ node'[m].leaf = node[m].leaf /\ node'[m].next = node[m].next
       /\ node'[m].version = node[m].version
       /\ m # q => /\ node'[m].keys = node[m].keys /\ node'[m].kids = node[m].kids
                   /\ node'[m].torn = node[m].torn
       /\ IF node[m].parent = q \/ m = r THEN node'[m].parent \in {q, sib}
          ELSE node'[m].parent = node[m].parent
  /\ node'[q].torn /\ ~node'[sib].leaf /\ node'[sib].parent = Nil
  /\ e2 \in Keys /\ Occurs(all, e2) /\ Sorted(node'[q].keys) /\ Sorted(node'[sib].keys)
  /\ \A x : Occurs(node'[q].keys, x) => x < e2 /\ Occurs(all, x)
  /\ \A x : Occurs(node'[sib].keys, x) => e2 <= x /\ Occurs(all, x)
  /\ \A k \in Nat : /\ k < e2 => ChildFor(q, k)' = ChildIn(all, kids, k)
                    /\ e2 <= k => ChildFor(sib, k)' = ChildIn(all, kids, k)

LEMMA InnerParts ==
  ASSUME Core, ChainOK, NEW R, RangesOK(R), NEW p \in Threads, SplitParent(p),
         NEW l, l = t[p].left, NEW r, r = t[p].right, NEW q, q = t[p].par
  PROVE  \E sib, e2, all, kids :
           InnerParted(p, l, r, q, sib, e2, all, kids) /\ Routes(R, p, q, r, all, kids)
<1>1. PICK k : k = t[p].sep
  OBVIOUS
<1>2. PICK sib : sib = Len(node) + 1
  OBVIOUS
<1>3. PICK e2 : e2 = t'[p].sep
  OBVIOUS
<1>4. /\ Alone(p) /\ t[p].pc = "splitparent" /\ t'[p].pc = "bump" /\ t'[p].after = "parent"
      /\ t'[p].left = q /\ t'[p].right = sib /\ root' = root /\ op' = op /\ size_est' = size_est
  BY <1>2, SplitParentFacts
<1>5. PICK i, j, cut, all, kids, ks, cs, rks, rcs :
        NodeSplit(q, r, k, e2, i, j, cut, all, kids, ks, cs, rks, rcs)
  BY <1>1, <1>3, SplitParentFacts
<1>6. /\ p \in Procs /\ TreeOK /\ ShapeOK /\ node \in Seq(Node)
      /\ l \in DOMAIN node /\ r \in DOMAIN node /\ l # r /\ l \in Nat /\ r \in Nat /\ k \in Keys
  BY <1>1, <1>4, ClimbFacts DEF Climbing, Parents, Core
<1>7. /\ q \in DOMAIN node /\ ~node[q].leaf /\ q \notin {l, r} /\ q \in Nat /\ q # 0
      /\ node[l].parent = q /\ node[r].parent = Nil
      /\ \A m : Owns(p, m) <=> m \in {q, l, r}
  BY <1>4, HangingFacts
<1>8. PICK d : d = cut + 1
  OBVIOUS
<1>9. /\ PartEffect(q, r, ks, cs, rks, rcs) /\ HungAt(q, r, k, i, j, all, kids)
      /\ CutAt(Nat, kids, d, cs, rcs) /\ cut \in 1..(Capacity - 1) /\ e2 = all[d]
      /\ Len(all) = Capacity + 1 /\ Len(kids) = Capacity + 2 /\ Capacity \in Nat /\ Capacity >= 3
      /\ \E x : CutAt(Keys, all, cut, ks, x)
      /\ \E x : CutAt(Keys, all, d, x, rks)
  BY <1>5, <1>8, KeyFacts DEF NodeSplit
<1>10. /\ cut \in Nat /\ d \in 1..Len(kids) /\ d \in 1..Len(all) /\ d <= Len(all)
       /\ all \in Seq(Keys) /\ kids \in Seq(Nat)
  <2>1. all \in Seq(Keys) /\ kids \in Seq(Nat)
    BY <1>9 DEF HungAt, Inserted
  <2>2. cut + 1 <= Capacity /\ cut \in Nat
    BY <1>9
  <2>3. d \in 1..(Capacity + 2) /\ d \in 1..(Capacity + 1) /\ d <= Capacity + 1
    BY <1>8, <1>9, <2>2
  <2>4. QED
    BY <1>9, <2>1, <2>2, <2>3
<1>11. Routes(R, p, q, r, all, kids)
  BY <1>1, <1>4, <1>9, HangRoutes
<1>12. Sorted(all)
  BY <1>11 DEF Routes
<1>13. PartKids(q, r, cs, rcs)
  BY <1>6, <1>7, <1>9, <1>10, PartKidsFacts
<1>14. q \notin ToSet(rcs) /\ q # r /\ q # l /\ \A c \in ToSet(rcs) : c = r \/ node[c].parent = q
  BY <1>7, <1>13 DEF PartKids
<1>15. PartDone(q, r, ks, cs, rks, rcs, sib)
  BY <1>2, <1>6, <1>7, <1>9, <1>14, PartNodes
<1>16. \A m \in DOMAIN node :
         /\ node'[m].leaf = node[m].leaf /\ node'[m].next = node[m].next
         /\ node'[m].version = node[m].version
         /\ m # q => /\ node'[m].keys = node[m].keys /\ node'[m].kids = node[m].kids
                     /\ node'[m].torn = node[m].torn
  BY <1>15 DEF PartDone
<1>17. ASSUME NEW m \in DOMAIN node
       PROVE  IF node[m].parent = q \/ m = r THEN node'[m].parent \in {q, sib}
              ELSE node'[m].parent = node[m].parent
  <2>1. /\ m \in ToSet(rcs) => node'[m].parent = sib
        /\ m \notin ToSet(rcs) /\ m = r => node'[m].parent = q
        /\ m \notin ToSet(rcs) /\ m # r => node'[m].parent = node[m].parent
    BY <1>15 DEF PartDone
  <2>2. QED
    BY <1>14, <2>1
<1>18. /\ node' \in Seq(Node) /\ DOMAIN node' = DOMAIN node \union {sib}
       /\ sib \notin DOMAIN node /\ sib \in Nat /\ sib # 0
       /\ node'[q].keys = ks /\ node'[q].kids = cs /\ node'[q].torn
       /\ ~node'[sib].leaf /\ node'[sib].keys = rks
       /\ node'[sib].kids = rcs /\ node'[sib].parent = Nil
  BY <1>15 DEF PartDone
\* The separators.
<1>19. /\ all \in Seq(Nat) /\ DOMAIN all = 1..Len(all) /\ Len(all) \in Nat
       /\ \A x \in DOMAIN all : all[x] \in Nat /\ all[x] \in Keys
  BY <1>10, KeySeq
<1>20. /\ ks \in Seq(Keys) /\ rks \in Seq(Keys) /\ Len(ks) = cut /\ Len(rks) = Len(all) - d
       /\ \A x \in 1..cut : ks[x] = all[x]
       /\ \A x \in 1..(Len(all) - d) : rks[x] = all[d + x]
  BY <1>9 DEF CutAt
<1>21. DOMAIN ks = 1..cut /\ DOMAIN rks = 1..(Len(all) - d)
  BY <1>20, KeySeq
<1>22. e2 \in Keys /\ e2 \in Nat /\ Occurs(all, e2) /\ d \in DOMAIN all
  BY <1>9, <1>10, <1>19 DEF Occurs
<1>23. ASSUME NEW x \in DOMAIN ks PROVE x \in DOMAIN all /\ x < d /\ ks[x] = all[x] /\ x \in Nat
  <2>1. x \in Nat /\ 1 <= x /\ x <= cut
    BY <1>10, <1>21
  <2>2. QED
    BY <1>8, <1>10, <1>19, <1>20, <1>21, <2>1
<1>24. ASSUME NEW x \in DOMAIN rks PROVE d + x \in DOMAIN all /\ d < d + x /\ rks[x] = all[d + x] /\ x \in Nat
  <2>1. d \in Nat /\ x \in Nat /\ 1 <= x /\ x <= Len(all) - d
    BY <1>10, <1>19, <1>21
  <2>2. d + x \in 1..Len(all) /\ d < d + x
    BY <1>19, <2>1
  <2>3. rks[x] = all[d + x]
    BY <1>20, <1>21
  <2>4. QED
    BY <1>19, <2>1, <2>2, <2>3
<1>25. ASSUME NEW x, Occurs(ks, x) PROVE x < e2 /\ Occurs(all, x)
  <2>1. PICK y \in DOMAIN ks : ks[y] = x
    BY <1>25 DEF Occurs
  <2>2. y \in DOMAIN all /\ y < d /\ all[y] = x
    BY <1>23, <2>1
  <2>3. QED
    BY <1>9, <1>12, <1>22, <2>2 DEF Sorted, Occurs
<1>26. ASSUME NEW x, Occurs(rks, x) PROVE e2 <= x /\ Occurs(all, x)
  <2>1. PICK y \in DOMAIN rks : rks[y] = x
    BY <1>26 DEF Occurs
  <2>2. PICK z : z = d + y
    OBVIOUS
  <2>3. z \in DOMAIN all /\ d < z /\ all[z] = x
    BY <1>24, <2>1, <2>2
  <2>4. e2 < x /\ x \in Nat
    BY <1>9, <1>12, <1>19, <1>22, <2>3 DEF Sorted
  <2>5. QED
    BY <1>22, <2>3, <2>4 DEF Occurs
<1>27. Sorted(ks)
  BY <1>12, <1>23 DEF Sorted
<1>28. Sorted(rks)
  <2> SUFFICES ASSUME NEW x \in DOMAIN rks, NEW y \in DOMAIN rks, x < y PROVE rks[x] < rks[y]
    BY DEF Sorted
  <2>1. d + x < d + y
    BY <1>10, <1>24
  <2>2. QED
    BY <1>12, <1>24, <2>1 DEF Sorted
\* The children.
<1>29. Len(kids) = Len(all) + 1 /\ cut + 1 <= Len(all)
  BY <1>8, <1>9, <1>10
<1>30. ASSUME NEW x \in Nat
       PROVE  /\ x < e2 => ChildFor(q, x)' = ChildIn(all, kids, x)
              /\ e2 <= x => ChildFor(sib, x)' = ChildIn(all, kids, x)
  <2>1. /\ ~(all[d] <= x) => ChildIn(ks, cs, x) = ChildIn(all, kids, x)
        /\ all[d] <= x => ChildIn(rks, rcs, x) = ChildIn(all, kids, x)
    <3>1. CutNode(all, kids, cut, d, ks, rks, cs, rcs)
      BY <1>8, <1>9, <1>10, <1>12, <1>29 DEF CutNode
    <3>2. QED
      BY <3>1, ChildCut
  <2>2. ChildFor(q, x)' = ChildIn(ks, cs, x) /\ ChildFor(sib, x)' = ChildIn(rks, rcs, x)
    BY <1>18 DEF ChildFor, ChildIn, SlotAfter, SlotIn
  <2>3. x < e2 => ~(e2 <= x)
    BY <1>22
  <2>4. QED
    BY <1>9, <2>1, <2>2, <2>3
<1>31. q \in DOMAIN node \ Leaves
  BY <1>7 DEF Leaves
<1>32. InnerParted(p, l, r, q, sib, e2, all, kids)
  BY <1>3, <1>4, <1>6, <1>7, <1>14, <1>16, <1>17, <1>18, <1>22, <1>25, <1>26, <1>27, <1>28, <1>30, <1>31 DEF InnerParted
<1>33. QED
  BY <1>11, <1>32

LEMMA SplitParentKnown ==
  ASSUME Core, ChainOK, NEW R, Known(R), NEW p \in Threads, SplitParent(p)
  PROVE  ChainOK' /\ \E Q : Known(Q)'
<1>0. /\ TreeOK /\ LocksOK /\ ShapeOK /\ node \in Seq(Node) /\ RangesOK(R)
      /\ R \in [DOMAIN node -> SUBSET Nat] /\ LeavesDivide(R) /\ KeysIn(R)
  BY DEF Core, TypesOK, TreeOK, Known, RangesOK
<1>1. PICK l : l = t[p].left
  OBVIOUS
<1>2. PICK r : r = t[p].right
  OBVIOUS
<1>3. PICK q : q = t[p].par
  OBVIOUS
<1>4. PICK sib, e2, all, kids :
        InnerParted(p, l, r, q, sib, e2, all, kids) /\ Routes(R, p, q, r, all, kids)
  BY <1>0, <1>1, <1>2, <1>3, InnerParts
<1>5. /\ Alone(p) /\ p \in Procs /\ op' = op /\ root' = root
      /\ t[p].pc = "splitparent" /\ t[p].left = l /\ t[p].right = r
      /\ t'[p].pc = "bump" /\ t'[p].after = "parent"
      /\ t'[p].left = q /\ t'[p].right = sib /\ t'[p].sep = e2
      /\ l \in DOMAIN node /\ r \in DOMAIN node /\ l # r /\ node[l].parent = q
      /\ q \in DOMAIN node \ Leaves /\ q # l /\ q # r /\ q # 0
      /\ \A m : Owns(p, m) <=> m \in {q, l, r}
      /\ sib \notin DOMAIN node /\ sib \in Nat /\ sib # 0
      /\ node' \in Seq(Node) /\ DOMAIN node' = DOMAIN node \union {sib}
      /\ node'[q].torn /\ ~node'[sib].leaf /\ node'[sib].parent = Nil
      /\ e2 \in Keys /\ Occurs(all, e2)
      /\ Sorted(node'[q].keys) /\ Sorted(node'[sib].keys)
  BY <1>4 DEF InnerParted
<1>6. \A m \in DOMAIN node :
        /\ node'[m].leaf = node[m].leaf /\ node'[m].next = node[m].next
        /\ node'[m].version = node[m].version
        /\ m # q => /\ node'[m].keys = node[m].keys /\ node'[m].kids = node[m].kids
                    /\ node'[m].torn = node[m].torn
        /\ IF node[m].parent = q \/ m = r THEN node'[m].parent \in {q, sib}
           ELSE node'[m].parent = node[m].parent
  BY <1>4 DEF InnerParted
<1>7. /\ \A x : Occurs(node'[q].keys, x) => x < e2 /\ Occurs(all, x)
      /\ \A x : Occurs(node'[sib].keys, x) => e2 <= x /\ Occurs(all, x)
      /\ \A k \in Nat : /\ k < e2 => ChildFor(q, k)' = ChildIn(all, kids, k)
                        /\ e2 <= k => ChildFor(sib, k)' = ChildIn(all, kids, k)
  BY <1>4 DEF InnerParted
<1>8. /\ \A x : Occurs(all, x) => x \in R[q]
      /\ \A m \in DOMAIN node : node[m].parent = q \/ m = r =>
           \A k \in R[m] : k \in R[q] /\ ChildIn(all, kids, k) = m
      /\ \A z \in Procs : z # p /\ Splitting(z) /\ node[t[z].left].parent = q =>
           \A k \in R[t[z].right] : k \in R[q] /\ ChildIn(all, kids, k) = t[z].left
  BY <1>4 DEF Routes
<1>9. ASSUME NEW k \in R[q], NEW c, c = ChildIn(all, kids, k)
      PROVE  c \in DOMAIN node /\ (node[c].parent = q \/ c = r) /\ CoveredBut(R, p, c, k)
  BY <1>4, <1>9 DEF Routes, CoveredBut
<1>10. PICK Q : Q = Divided(R, q, sib, e2)
  OBVIOUS
<1>11. DOMAIN R = DOMAIN node /\ q \in DOMAIN node /\ ~node[q].leaf /\ e2 \in Nat
  BY <1>0, <1>5, KeyFacts DEF Leaves
<1>12. /\ DOMAIN Q = DOMAIN R \union {sib}
       /\ \A j : j \in Q[q] <=> j \in R[q] /\ j < e2
       /\ \A j : j \in Q[sib] <=> j \in R[q] /\ e2 <= j
       /\ \A m \in DOMAIN R : m # q => Q[m] = R[m]
       /\ \A m \in DOMAIN R : Q[m] \subseteq R[m]
  BY <1>5, <1>10, <1>11 DEF Divided
<1>13. Q \in [DOMAIN node' -> SUBSET Nat]
  <2>1. \A m \in DOMAIN node' : Q[m] \subseteq Nat
    BY <1>0, <1>5, <1>11, <1>12
  <2>2. Q = [m \in DOMAIN node' |-> Q[m]]
    BY <1>5, <1>10, <1>11 DEF Divided
  <2>3. QED
    BY <2>1, <2>2
<1>14. Leaves' = Leaves /\ Leaves \subseteq DOMAIN node /\ q \notin Leaves
       /\ DOMAIN node' \ Leaves' = (DOMAIN node \ Leaves) \union {sib}
  BY <1>5, <1>6 DEF Leaves
<1>15. /\ ChainOK' /\ LeavesDivide(Q)'
       /\ \A m \in Leaves : \A k : Low(m, k) => Low(m, k)'
  <2>1. \A m \in DOMAIN node' \ Leaves : Sorted(node'[m].keys)
    BY <1>5, <1>6 DEF ChainOK
  <2>2. \A m \in Leaves : node'[m].keys = node[m].keys /\ node'[m].next = node[m].next /\ Q[m] = R[m]
    BY <1>6, <1>11, <1>12, <1>14
  <2>3. DOMAIN node \subseteq DOMAIN node'
    BY <1>5
  <2>4. QED
    BY <1>0, <1>14, <2>1, <2>2, <2>3, LeavesStay
<1>16. KeysIn(Q)'
  <2> SUFFICES ASSUME NEW m \in DOMAIN node', NEW i \in DOMAIN node'[m].keys, NEW x, x = node'[m].keys[i]
               PROVE  x \in Q[m]
    BY DEF KeysIn
  <2>1. CASE m = q
    <3>1. Occurs(node'[q].keys, x)
      BY <2>1 DEF Occurs
    <3>2. QED
      BY <1>7, <1>8, <1>12, <2>1, <3>1
  <2>2. CASE m = sib
    <3>1. Occurs(node'[sib].keys, x)
      BY <2>2 DEF Occurs
    <3>2. QED
      BY <1>7, <1>8, <1>12, <2>2, <3>1
  <2>3. CASE m # q /\ m # sib
    <3>1. m \in DOMAIN node /\ node'[m].keys = node[m].keys /\ Q[m] = R[m]
      BY <1>5, <1>6, <1>11, <1>12, <2>3
    <3>2. QED
      BY <1>0, <3>1 DEF KeysIn
  <2>4. QED
    BY <2>1, <2>2, <2>3
\* A child goes to the half its keys go to.
<1>17. \A n \in DOMAIN node' \ Leaves' : \A k : node'[ChildFor(n, k)'].parent = n
  <2>1. Core'
    BY SplitParentCore
  <2>2. (TreeOK /\ ShapeOK)'
    BY <2>1 DEF Core, TypesOK
  <2>3. (\A n \in DOMAIN node \ Leaves : \A k : node[ChildFor(n, k)].parent = n)'
    BY <2>2, ChildrenHang, PTL
  <2>4. QED
    BY <2>3
<1>18. q \in DOMAIN node' \ Leaves' /\ sib \in DOMAIN node' \ Leaves'
  BY <1>5, <1>14
<1>19. ASSUME NEW k \in R[q], NEW c, ChildIn(all, kids, k) = c, NEW x, x = node'[c].parent
       PROVE  Leads(Q, x, c, k)'
  <2>1. k \in Nat
    BY <1>0, <1>11
  <2>2. CASE k < e2
    <3>1. ChildFor(q, k)' = c
      BY <1>7, <1>19, <2>1, <2>2
    <3>2. x = q
      BY <1>17, <1>18, <1>19, <3>1
    <3>3. k \in Q[q]
      BY <1>12, <1>19, <2>2
    <3>4. QED
      BY <3>1, <3>2, <3>3 DEF Leads
  <2>3. CASE e2 <= k
    <3>1. ChildFor(sib, k)' = c
      BY <1>7, <1>19, <2>1, <2>3
    <3>2. x = sib
      BY <1>17, <1>18, <1>19, <3>1
    <3>3. k \in Q[sib]
      BY <1>12, <1>19, <2>3
    <3>4. QED
      BY <3>1, <3>2, <3>3 DEF Leads
  <2>4. QED
    BY <1>11, <2>1, <2>2, <2>3
<1>20. \A x \in DOMAIN node : x # q => \A k : ChildFor(x, k)' = ChildFor(x, k)
  BY <1>6, SameChild
<1>21. ASSUME NEW m \in DOMAIN node, NEW k, NEW x, x = node[m].parent, x # Nil, x # q, Leads(R, x, m, k)
       PROVE  Leads(Q, x, m, k)'
  <2>1. x \in DOMAIN node
    BY <1>0, <1>21 DEF TreeOK, Formed
  <2>2. Q[x] = R[x] /\ ChildFor(x, k)' = ChildFor(x, k)
    BY <1>11, <1>12, <1>20, <1>21, <2>1
  <2>3. QED
    BY <1>21, <2>2 DEF Leads
<1>22. ParentsLead(Q)'
  <2> SUFFICES ASSUME NEW m \in DOMAIN node', NEW x, x = node'[m].parent, x # Nil, NEW k \in Q[m]
               PROVE  Leads(Q, x, m, k)'
    BY DEF ParentsLead, Leads
  <2>1. m \in DOMAIN node
    BY <1>5 DEF Nil
  <2>2. k \in R[m]
    BY <1>11, <1>12, <2>1
  <2>3. CASE node[m].parent = q \/ m = r
    <3>1. k \in R[q] /\ ChildIn(all, kids, k) = m
      BY <1>8, <2>1, <2>2, <2>3
    <3>2. QED
      BY <1>19, <3>1
  <2>4. CASE ~(node[m].parent = q \/ m = r)
    <3>1. x = node[m].parent /\ x # q
      BY <1>6, <2>1, <2>4
    <3>2. Leads(R, x, m, k)
      BY <1>0, <2>1, <2>2, <3>1 DEF RangesOK, ParentsLead
    <3>3. QED
      BY <1>21, <2>1, <3>1, <3>2
  <2>5. QED
    BY <2>3, <2>4
<1>23. Owns(p, q) /\ Splitting(p) /\ Splitting(p)'
  BY <1>5 DEF Splitting, Climbing, Parents, Ending
<1>24. ASSUME NEW c \in DOMAIN node, NEW k, Covered(R, c, k), c # l PROVE Covered(Q, c, k)'
  <2>1. Splitting(p) => t[p].left # c
    BY <1>5, <1>24
  <2>2. QED
    BY <1>0, <1>5, <1>10, <1>11, <1>23, <1>24, <2>1, CoveredDivided
<1>25. \A m \in DOMAIN node : ~Owns(p, m) => Q[m] = R[m]
  BY <1>5, <1>11, <1>12
<1>26. node[q].parent # q
  BY <1>0, <1>11 DEF ShapeOK
<1>27. ChildrenCover(Q)'
  <2> SUFFICES ASSUME NEW x \in DOMAIN node' \ Leaves', NEW k \in Q[x], NEW c, c = ChildFor(x, k)'
               PROVE  Covered(Q, c, k)'
    BY DEF ChildrenCover, Covered
  <2>1. CASE x = q \/ x = sib
    <3>1. k \in R[q] /\ k \in Nat
      BY <1>0, <1>11, <1>12, <2>1
    <3>2. c = ChildIn(all, kids, k)
      BY <1>7, <1>12, <2>1, <3>1
    <3>3. c \in DOMAIN node /\ (node[c].parent = q \/ c = r) /\ CoveredBut(R, p, c, k)
      BY <1>9, <3>1, <3>2
    <3>4. Q[c] = R[c]
      BY <1>5, <1>11, <1>12, <1>26, <3>3
    <3>5. QED
      BY <1>5, <1>25, <3>3, <3>4, CoveredStill
  <2>2. CASE x # q /\ x # sib
    <3>1. x \in DOMAIN node \ Leaves /\ x \in DOMAIN node /\ ~node[x].leaf
      BY <1>14, <2>2 DEF Leaves
    <3>2. c = ChildFor(x, k) /\ k \in R[x]
      BY <1>11, <1>12, <1>20, <2>2, <3>1
    <3>3. Covered(R, c, k)
      BY <1>0, <3>1, <3>2 DEF RangesOK, ChildrenCover
    <3>4. c \in DOMAIN node
      BY <1>0, <3>1, <3>2, ChildIsNode
    <3>5. node[c].parent = x
      BY <1>0, <3>1, <3>2, ChildrenHang
    <3>6. QED
      BY <1>5, <1>24, <2>2, <3>3, <3>4, <3>5
  <2>3. QED
    BY <2>1, <2>2
<1>28. RootCovers(Q)'
  <2> SUFFICES ASSUME NEW k \in Nat, NEW c, c = root PROVE Covered(Q, c, k)'
    BY <1>5 DEF RootCovers, Covered
  <2>1. Covered(R, c, k) /\ c \in DOMAIN node /\ c # l
    BY <1>0, <1>5 DEF RangesOK, RootCovers, TreeOK, ShapeOK, Nil
  <2>2. QED
    BY <1>24, <2>1
<1>29. SplitsDivide(Q)'
  <2> SUFFICES ASSUME NEW z \in Procs, Splitting(z)' PROVE HalvesOK(Q, z)'
    BY DEF SplitsDivide
  <2>1. CASE z = p
    <3>1. PICK x : x = node[q].parent
      OBVIOUS
    <3>2. node'[q].parent = x /\ x # q
      BY <1>5, <1>6, <1>11, <1>26, <3>1
    <3>3. ASSUME x # Nil, NEW k \in Q[sib] PROVE Leads(Q, x, q, k)'
      <4>1. k \in R[q]
        BY <1>12
      <4>2. Leads(R, x, q, k)
        BY <1>0, <1>11, <3>1, <3>3, <4>1 DEF RangesOK, ParentsLead
      <4>3. QED
        BY <1>11, <1>21, <3>1, <3>2, <3>3, <4>2
    <3>4. e2 \in Q[sib] /\ (\A k \in Q[q] : k < e2) /\ (\A k \in Q[sib] : e2 <= k)
      BY <1>5, <1>8, <1>11, <1>12
    <3>5. QED
      BY <1>5, <2>1, <3>2, <3>3, <3>4 DEF HalvesOK, Leads
  <2>2. CASE z # p
    <3>1. Splitting(z)
      BY <1>5, <2>2, OthersOwn
    <3>2. PICK a : a = t[z].left
      OBVIOUS
    <3>3. PICK b : b = t[z].right
      OBVIOUS
    <3>4. PICK x : x = node'[a].parent
      OBVIOUS
    <3>5. a \in DOMAIN node /\ HalvesOK(R, z) /\ a # r
      <4>1. a \in DOMAIN node /\ HalvesOK(R, z) /\ Owns(z, a)
        BY <1>0, <3>1, <3>2 DEF RangesOK, SplitsDivide, LocksOK, SplitOK, Owns
      <4>2. ~Owns(p, a)
        BY <1>0, <1>5, <2>2, <4>1 DEF LocksOK
      <4>3. QED
        BY <1>5, <4>1, <4>2
    <3>6. ASSUME x # Nil, NEW k \in R[b] PROVE Leads(Q, x, a, k)'
      <4>1. CASE node[a].parent = q
        <5>1. k \in R[q] /\ ChildIn(all, kids, k) = a
          BY <1>8, <2>2, <3>1, <3>2, <3>3, <3>6, <4>1
        <5>2. QED
          BY <1>19, <3>4, <5>1
      <4>2. CASE node[a].parent # q
        <5>1. x = node[a].parent /\ x # q
          BY <1>6, <3>4, <3>5, <4>2
        <5>2. Leads(R, x, a, k)
          BY <3>2, <3>3, <3>5, <3>6, <5>1 DEF HalvesOK
        <5>3. QED
          BY <1>21, <3>5, <3>6, <5>1, <5>2
      <4>3. QED
        BY <4>1, <4>2
    <3>7. RangesOK(R) /\ Alone(p) /\ p \in Procs
      BY <1>0, <1>5
    <3>8. x # Nil => \A k \in R[b] : Leads(Q, x, a, k)'
      BY <3>6
    <3>9. QED
      BY <1>25, <2>2, <3>1, <3>2, <3>3, <3>4, <3>7, <3>8, OtherHalves
  <2>3. QED
    BY <2>1, <2>2
<1>30. RangesOK(Q)'
  BY <1>13, <1>15, <1>16, <1>22, <1>27, <1>28, <1>29 DEF RangesOK
\* What threads know.
<1>31. Advance(R, Q)
  <2>1. ASSUME NEW m \in DOMAIN node
        PROVE  /\ node[m].version <= node'[m].version
               /\ node'[m].version = node[m].version /\ ~node'[m].torn =>
                    /\ ~node[m].torn /\ Q[m] = R[m]
                    /\ node'[m].keys = node[m].keys /\ node'[m].kids = node[m].kids
    <3>1. node[m].version \in Nat /\ node'[m].version = node[m].version
      BY <1>0, <1>6, NodeFacts
    <3>2. CASE m = q
      BY <1>5, <3>1, <3>2
    <3>3. CASE m # q
      BY <1>6, <1>11, <1>12, <3>1, <3>3
    <3>4. QED
      BY <3>2, <3>3
  <2>2. ASSUME NEW z \in Procs, Splitting(z)', t'[z].right \in DOMAIN node
        PROVE  Splitting(z) /\ t'[z].right = t[z].right
    <3>1. z # p
      BY <1>5, <2>2
    <3>2. QED
      BY <1>5, <2>2, <3>1, OthersOwn DEF Alone, Threads
  <2>3. QED
    BY <1>15, <2>1, <2>2 DEF Advance
<1>32. Descent(Q, p)' /\ Arrival(Q, p)'
  BY <1>5 DEF Descent, Arrival, AtRoot, AtInner, AtLeaf, Reading
<1>33. Grown
  BY <1>5, <1>6 DEF Grown
<1>34. Known(Q)'
  BY <1>5, <1>25, <1>30, <1>31, <1>32, <1>33, KnownStep
<1>35. QED
  BY <1>15, <1>34

-----------------------------------------------------------------------------
(* A new root                                                               *)

\* A node with one separator.
LEMMA ChildOfPair ==
  ASSUME NEW e \in Keys, NEW l, NEW r, NEW n, node'[n].keys = <<e>>, node'[n].kids = <<l, r>>,
         NEW k \in Nat
  PROVE  ChildFor(n, k)' = IF e <= k THEN r ELSE l
<1>1. PICK ks : ks = <<e>>
  OBVIOUS
<1>2. PICK cs : cs = <<l, r>>
  OBVIOUS
<1>3. e \in Nat /\ ks \in Seq(Nat) /\ DOMAIN ks = {1} /\ ks[1] = e /\ Len(ks) = 1 /\ cs[1] = l /\ cs[2] = r
  BY <1>1, <1>2, KeyFacts
<1>4. ChildFor(n, k)' = ChildIn(ks, cs, k)
  BY <1>1, <1>2 DEF ChildFor, ChildIn, SlotAfter, SlotIn
<1>5. CASE e <= k
  <2>1. SlotIn(ks, k) = 1
    <3>1. 1 \in 0..Len(ks) /\ \A j \in DOMAIN ks : ks[j] <= k <=> j <= 1
      BY <1>3, <1>5
    <3>2. QED
      BY <1>3, <3>1, SlotOnly
  <2>2. QED
    BY <1>3, <1>4, <1>5, <2>1 DEF ChildIn
<1>6. CASE ~(e <= k)
  <2>1. SlotIn(ks, k) = 0
    <3>1. 0 \in 0..Len(ks) /\ \A j \in DOMAIN ks : ks[j] <= k <=> j <= 0
      BY <1>3, <1>6
    <3>2. QED
      BY <1>3, <3>1, SlotOnly
  <2>2. QED
    BY <1>3, <1>4, <1>6, <2>1 DEF ChildIn
<1>7. QED
  BY <1>5, <1>6

LEMMA NewRootKnown ==
  ASSUME Core, ChainOK, NEW R, Known(R), NEW p \in Threads, NewRoot(p)
  PROVE  ChainOK' /\ \E Q : Known(Q)'
<1>0. /\ TreeOK /\ LocksOK /\ ShapeOK /\ node \in Seq(Node) /\ RangesOK(R)
      /\ R \in [DOMAIN node -> SUBSET Nat] /\ LeavesDivide(R) /\ KeysIn(R)
  BY DEF Core, TypesOK, TreeOK, Known, RangesOK
<1>1. PICK l : l = t[p].left
  OBVIOUS
<1>2. PICK r : r = t[p].right
  OBVIOUS
<1>3. PICK e : e = t[p].sep
  OBVIOUS
<1>4. PICK new : new = Len(node) + 1
  OBVIOUS
<1>5. /\ Alone(p) /\ t[p].pc = "newroot" /\ t'[p].pc = "bump" /\ t'[p].after = "count"
      /\ root' = new /\ op' = op /\ GrowEffect(l, r, e)
  BY <1>1, <1>2, <1>3, <1>4, NewRootFacts
<1>6. /\ p \in Procs /\ Splitting(p) /\ SplitOK(p) /\ e \in Keys /\ e \in Nat
      /\ l \in DOMAIN node /\ r \in DOMAIN node /\ l # r
  BY <1>1, <1>2, <1>3, <1>5, ClimbFacts DEF Climbing
<1>7. /\ node[l].parent = Nil /\ node[r].parent = Nil
      /\ \A m : Owns(p, m) <=> m \in {l, r}
  BY <1>1, <1>2, <1>5, <1>6 DEF SplitOK, Owns, Parents, Ending
<1>8. /\ node' \in Seq(Node) /\ DOMAIN node' = DOMAIN node \union {new}
      /\ new \notin DOMAIN node /\ new \in Nat /\ new # 0
      /\ ~node'[new].leaf /\ node'[new].keys = <<e>>
      /\ node'[new].kids = <<l, r>> /\ node'[new].parent = Nil
      /\ \A m \in DOMAIN node : m # l /\ m # r => node'[m] = node[m]
      /\ Reparent(l, new) /\ Reparent(r, new)
  BY <1>4, <1>5 DEF GrowEffect
<1>9. \A m \in DOMAIN node :
        /\ node'[m].leaf = node[m].leaf /\ node'[m].keys = node[m].keys
        /\ node'[m].kids = node[m].kids /\ node'[m].next = node[m].next
        /\ node'[m].version = node[m].version /\ node'[m].torn = node[m].torn
        /\ m \in {l, r} => node'[m].parent = new
        /\ m \notin {l, r} => node'[m].parent = node[m].parent
  BY <1>8 DEF Reparent
<1>10. \A z \in Procs : \A m : Owns(z, m) /\ m \in {l, r} => z = p
  BY <1>0, <1>6, <1>7 DEF LocksOK
<1>11. root = l
  <2>1. ASSUME NEW z \in Procs, Splitting(z), l = t[z].right PROVE FALSE
    <3>1. Owns(z, l)
      BY <2>1 DEF Owns
    <3>2. z = p
      BY <1>10, <2>1, <3>1
    <3>3. QED
      BY <1>2, <1>6, <2>1, <3>2
  <2>2. QED
    BY <1>0, <1>6, <1>7, <2>1 DEF ShapeOK
<1>12. HalvesOK(R, p)
  BY <1>0, <1>6 DEF RangesOK, SplitsDivide
<1>13. (\A k \in R[l] : k < e) /\ (\A k \in R[r] : e <= k)
  BY <1>1, <1>2, <1>3, <1>12 DEF HalvesOK
<1>14. PICK Q : Q = [m \in DOMAIN node' |-> IF m = new THEN Nat ELSE R[m]]
  OBVIOUS
<1>15. /\ Q \in [DOMAIN node' -> SUBSET Nat]
       /\ Q[new] = Nat /\ \A m \in DOMAIN node : Q[m] = R[m]
  BY <1>0, <1>8, <1>14
<1>16. /\ Leaves' = Leaves /\ Leaves \subseteq DOMAIN node
       /\ DOMAIN node' \ Leaves' = (DOMAIN node \ Leaves) \union {new}
  BY <1>8, <1>9 DEF Leaves
<1>17. /\ ChainOK' /\ LeavesDivide(Q)'
       /\ \A m \in Leaves : \A k : Low(m, k) => Low(m, k)'
  <2>1. Sorted(<<e>>)
    BY DEF Sorted
  <2>2. \A m \in DOMAIN node' \ Leaves : Sorted(node'[m].keys)
    BY <1>8, <1>9, <2>1 DEF ChainOK
  <2>3. \A m \in Leaves : node'[m].keys = node[m].keys /\ node'[m].next = node[m].next /\ Q[m] = R[m]
    BY <1>9, <1>15, <1>16
  <2>4. DOMAIN node \subseteq DOMAIN node'
    BY <1>8
  <2>5. QED
    BY <1>0, <1>16, <2>2, <2>3, <2>4, LeavesStay
<1>18. KeysIn(Q)'
  <2> SUFFICES ASSUME NEW m \in DOMAIN node', NEW i \in DOMAIN node'[m].keys PROVE node'[m].keys[i] \in Q[m]
    BY DEF KeysIn
  <2>1. CASE m = new
    BY <1>6, <1>8, <1>15, <2>1
  <2>2. CASE m # new
    <3>1. m \in DOMAIN node /\ node'[m].keys = node[m].keys /\ Q[m] = R[m]
      BY <1>8, <1>9, <1>15, <2>2
    <3>2. QED
      BY <1>0, <3>1 DEF KeysIn
  <2>3. QED
    BY <2>1, <2>2
<1>19. \A k \in Nat : ChildFor(new, k)' = IF e <= k THEN r ELSE l
  BY <1>6, <1>8, ChildOfPair
<1>20. \A x \in DOMAIN node : \A k : ChildFor(x, k)' = ChildFor(x, k)
  BY <1>9, SameChild
<1>21. ASSUME NEW m \in DOMAIN node, NEW k, NEW x, x = node[m].parent, x # Nil, Leads(R, x, m, k)
       PROVE  Leads(Q, x, m, k)'
  <2>1. x \in DOMAIN node
    BY <1>0, <1>21 DEF TreeOK, Formed
  <2>2. Q[x] = R[x] /\ ChildFor(x, k)' = ChildFor(x, k)
    BY <1>15, <1>20, <2>1
  <2>3. QED
    BY <1>21, <2>2 DEF Leads
<1>22. ParentsLead(Q)'
  <2> SUFFICES ASSUME NEW m \in DOMAIN node', NEW x, x = node'[m].parent, x # Nil, NEW k \in Q[m]
               PROVE  Leads(Q, x, m, k)'
    BY DEF ParentsLead, Leads
  <2>1. m \in DOMAIN node /\ k \in R[m] /\ k \in Nat
    BY <1>0, <1>8, <1>15 DEF Nil
  <2>2. CASE m \in {l, r}
    <3>1. x = new /\ k \in Q[new]
      BY <1>9, <1>15, <2>1, <2>2
    <3>2. ChildFor(new, k)' = m
      BY <1>6, <1>13, <1>19, <2>1, <2>2
    <3>3. QED
      BY <3>1, <3>2 DEF Leads
  <2>3. CASE m \notin {l, r}
    <3>1. x = node[m].parent
      BY <1>9, <2>1, <2>3
    <3>2. Leads(R, x, m, k)
      BY <1>0, <2>1, <3>1 DEF RangesOK, ParentsLead
    <3>3. QED
      BY <1>21, <2>1, <3>1, <3>2
  <2>4. QED
    BY <2>2, <2>3
<1>23. \A m \in DOMAIN node : ~Owns(p, m) => Q[m] = R[m]
  BY <1>15
<1>24. ChildrenCover(Q)'
  <2> SUFFICES ASSUME NEW x \in DOMAIN node' \ Leaves', NEW k \in Q[x], NEW c, c = ChildFor(x, k)'
               PROVE  Covered(Q, c, k)'
    BY DEF ChildrenCover, Covered
  <2>1. CASE x = new
    <3>1. k \in Nat /\ (k \in R[l] \/ k \in R[r])
      <4>1. k \in Nat
        BY <1>15, <2>1
      <4>2. Covered(R, l, k)
        BY <1>0, <1>11, <4>1 DEF RangesOK, RootCovers
      <4>3. ASSUME NEW z \in Procs, Splitting(z), t[z].left = l PROVE z = p
        <5>1. Owns(z, l)
          BY <4>3 DEF Owns
        <5>2. QED
          BY <1>10, <4>3, <5>1
      <4>4. QED
        BY <1>2, <4>1, <4>2, <4>3 DEF Covered
    <3>2. c \in {l, r} /\ k \in R[c]
      BY <1>6, <1>13, <1>19, <2>1, <3>1
    <3>3. k \in Q[c]
      BY <1>6, <1>15, <3>2
    <3>4. QED
      BY <3>3 DEF Covered
  <2>2. CASE x # new
    <3>1. x \in DOMAIN node \ Leaves /\ x \in DOMAIN node /\ ~node[x].leaf
      BY <1>16, <2>2 DEF Leaves
    <3>2. c = ChildFor(x, k) /\ k \in R[x]
      BY <1>15, <1>20, <3>1
    <3>3. Covered(R, c, k)
      BY <1>0, <3>1, <3>2 DEF RangesOK, ChildrenCover
    <3>4. c \in DOMAIN node /\ x # Nil
      BY <1>0, <3>1, <3>2, ChildIsNode, NodeFacts DEF Nil
    <3>5. node[c].parent = x
      BY <1>0, <3>1, <3>2, ChildrenHang
    <3>6. CoveredBut(R, p, c, k)
      BY <1>1, <1>7, <3>3, <3>4, <3>5 DEF Covered, CoveredBut
    <3>7. Q[c] = R[c]
      BY <1>15, <3>4
    <3>8. QED
      BY <1>5, <1>6, <1>23, <3>4, <3>6, <3>7, CoveredStill
  <2>3. QED
    BY <2>1, <2>2
<1>25. RootCovers(Q)'
  BY <1>5, <1>15 DEF RootCovers, Covered
<1>26. ~Splitting(p)'
  BY <1>5 DEF Splitting, Climbing, Parents, Ending
<1>27. SplitsDivide(Q)'
  <2> SUFFICES ASSUME NEW z \in Procs, Splitting(z)' PROVE HalvesOK(Q, z)'
    BY DEF SplitsDivide
  <2>1. z # p
    BY <1>26
  <2>2. Splitting(z)
    BY <1>5, <2>1, OthersOwn
  <2>3. PICK a : a = t[z].left
    OBVIOUS
  <2>4. PICK b : b = t[z].right
    OBVIOUS
  <2>5. PICK x : x = node'[a].parent
    OBVIOUS
  <2>6. a \in DOMAIN node /\ HalvesOK(R, z) /\ a \notin {l, r}
    <3>1. a \in DOMAIN node /\ HalvesOK(R, z) /\ Owns(z, a)
      BY <1>0, <2>2, <2>3 DEF RangesOK, SplitsDivide, LocksOK, SplitOK, Owns
    <3>2. QED
      BY <1>10, <2>1, <3>1
  <2>7. x = node[a].parent
    BY <1>9, <2>5, <2>6
  <2>8. ASSUME x # Nil, NEW k \in R[b] PROVE Leads(Q, x, a, k)'
    <3>1. Leads(R, x, a, k)
      BY <2>3, <2>4, <2>6, <2>7, <2>8 DEF HalvesOK
    <3>2. QED
      BY <1>21, <2>6, <2>7, <2>8, <3>1
  <2>9. RangesOK(R) /\ Alone(p) /\ p \in Procs
    BY <1>0, <1>5, <1>6
  <2>10. x # Nil => \A k \in R[b] : Leads(Q, x, a, k)'
    BY <2>8
  <2>11. QED
    BY <1>23, <2>1, <2>2, <2>3, <2>4, <2>5, <2>9, <2>10, OtherHalves
<1>28. RangesOK(Q)'
  BY <1>15, <1>17, <1>18, <1>22, <1>24, <1>25, <1>27 DEF RangesOK
<1>29. Advance(R, Q)
  <2>1. ASSUME NEW m \in DOMAIN node
        PROVE  /\ node[m].version <= node'[m].version
               /\ node'[m].version = node[m].version /\ ~node'[m].torn =>
                    /\ ~node[m].torn /\ Q[m] = R[m]
                    /\ node'[m].keys = node[m].keys /\ node'[m].kids = node[m].kids
    <3>1. node[m].version \in Nat
      BY <1>0, NodeFacts
    <3>2. QED
      BY <1>9, <1>15, <3>1
  <2>2. ASSUME NEW z \in Procs, Splitting(z)'
        PROVE  Splitting(z) /\ t'[z].right = t[z].right
    <3>1. z # p
      BY <1>26, <2>2
    <3>2. QED
      BY <1>5, <2>2, <3>1, OthersOwn DEF Alone, Threads
  <2>3. QED
    BY <1>17, <2>1, <2>2 DEF Advance
<1>30. Descent(Q, p)' /\ Arrival(Q, p)'
  BY <1>5 DEF Descent, Arrival, AtRoot, AtInner, AtLeaf, Reading
<1>31. Grown
  BY <1>8, <1>9 DEF Grown
<1>32. Known(Q)'
  BY <1>5, <1>6, <1>8, <1>23, <1>28, <1>29, <1>30, <1>31, KnownStep
<1>33. QED
  BY <1>17, <1>32

-----------------------------------------------------------------------------
(* The tree to start with                                                   *)

Laden(n, m) ==
  /\ n \in Nat /\ m \in Nat /\ m >= 1 /\ m <= Capacity + 1 /\ n - (m - 1) * Capacity \in 1..Capacity
  /\ Leaves = 1..m /\ DOMAIN node = (IF m > 1 THEN 1..(m + 1) ELSE 1..m)
  /\ \A i \in 1..m :
       /\ node[i].keys \in Seq(Keys) /\ DOMAIN node[i].keys = 1..WidthOf(i, n, m)
       /\ \A j \in 1..WidthOf(i, n, m) : node[i].keys[j] = 2 * ((i - 1) * Capacity + j)
       /\ node[i].next = (IF i < m THEN i + 1 ELSE Nil)
       /\ node[i].parent = (IF m > 1 THEN m + 1 ELSE Nil)
  /\ root = (IF m > 1 THEN m + 1 ELSE 1) /\ size_est = n
  /\ \A p \in Threads : t[p] = NoOp

\* The root over several leaves.
LadenRoot(m) ==
  /\ m + 1 \in DOMAIN node /\ ~node[m + 1].leaf
  /\ node[m + 1].keys \in Seq(Keys) /\ Len(node[m + 1].keys) = m - 1 /\ node[m + 1].parent = Nil
  /\ \A i \in 1..(m - 1) : node[m + 1].keys[i] = 2 * (i * Capacity + 1)
  /\ \A i \in 1..m : node[m + 1].kids[i] = i

LEMMA InitLaden ==
  ASSUME Init
  PROVE  \E n, m : Laden(n, m) /\ (m > 1 => LadenRoot(m))
<1>1. PICK n, m, v, gone : LoadedTree(n, m, v, gone)
  BY TreeLoaded
<1>2. /\ n \in Nat /\ m \in Nat /\ m >= 1 /\ m <= Capacity + 1 /\ Capacity \in Nat
      /\ n - (m - 1) * Capacity \in 1..Capacity
      /\ node \in Seq(Node) /\ root = Len(node) /\ size_est = n
      /\ m > 1 => Len(node) = m + 1 /\ LoadedRoot(node[m + 1], m)
      /\ ~(m > 1) => Len(node) = m
      /\ \A i \in 1..m : LoadedLeaf(node[i], i, n, m, v, gone)
  BY <1>1, KeyFacts DEF LoadedTree
<1>3. DOMAIN node = 1..Len(node)
  BY <1>2
<1>4. ASSUME NEW i \in 1..m
      PROVE  /\ i \in DOMAIN node /\ node[i].leaf
             /\ node[i].keys \in Seq(Keys) /\ DOMAIN node[i].keys = 1..WidthOf(i, n, m)
             /\ \A j \in 1..WidthOf(i, n, m) : node[i].keys[j] = 2 * ((i - 1) * Capacity + j)
             /\ node[i].next = (IF i < m THEN i + 1 ELSE Nil)
             /\ node[i].parent = (IF m > 1 THEN m + 1 ELSE Nil)
  <2>1. LoadedLeaf(node[i], i, n, m, v, gone) /\ i \in DOMAIN node
    BY <1>2, <1>3
  <2>2. /\ node[i].leaf /\ Len(node[i].keys) = WidthOf(i, n, m)
        /\ \A j \in 1..WidthOf(i, n, m) : node[i].keys[j] = 2 * ((i - 1) * Capacity + j)
        /\ node[i].next = (IF i < m THEN i + 1 ELSE Nil)
        /\ node[i].parent = (IF m > 1 THEN m + 1 ELSE Nil)
    BY <2>1 DEF LoadedLeaf
  <2>3. node[i].keys \in Seq(Keys)
    BY <1>2, <2>1, NodeFacts
  <2>4. DOMAIN node[i].keys = 1..Len(node[i].keys)
    BY <2>3
  <2>5. QED
    BY <2>1, <2>2, <2>3, <2>4
<1>5. ASSUME m > 1 PROVE LadenRoot(m)
  <2>1. LoadedRoot(node[m + 1], m) /\ m + 1 \in DOMAIN node
    BY <1>2, <1>3, <1>5
  <2>2. node[m + 1].keys \in Seq(Keys)
    BY <1>2, <2>1, NodeFacts
  <2>3. QED
    BY <2>1, <2>2 DEF LadenRoot, LoadedRoot
<1>6. Leaves = 1..m
  <2>1. \A i \in DOMAIN node : i \in 1..m \/ (m > 1 /\ i = m + 1)
    BY <1>2, <1>3
  <2>2. QED
    BY <1>4, <1>5, <2>1 DEF Leaves, LadenRoot
<1>7. DOMAIN node = (IF m > 1 THEN 1..(m + 1) ELSE 1..m) /\ root = (IF m > 1 THEN m + 1 ELSE 1)
  BY <1>2, <1>3
<1>8. \A p \in Threads : t[p] = NoOp
  BY DEF Init
<1>9. Laden(n, m)
  BY <1>2, <1>4, <1>6, <1>7, <1>8 DEF Laden
<1>10. QED
  BY <1>5, <1>9

\* The keys before leaf i.
LEMMA Steps ==
  ASSUME NEW i \in Nat, NEW j \in Nat
  PROVE  /\ i * Capacity \in Nat /\ (i + 1) * Capacity = i * Capacity + Capacity
         /\ i <= j => i * Capacity <= j * Capacity
         /\ i < j => i * Capacity + Capacity <= j * Capacity
<1>1. PICK c : c = Capacity
  OBVIOUS
<1>2. c \in Nat
  BY <1>1, KeyFacts
<1>3. i * c \in Nat /\ (i + 1) * c = i * c + c
  BY <1>2
<1>4. i <= j => i * c <= j * c
  BY <1>2
<1>5. i < j => i * c + c <= j * c
  <2> SUFFICES ASSUME i < j PROVE i * c + c <= j * c
    OBVIOUS
  <2>1. (i + 1) * c <= j * c
    BY <1>2
  <2>2. QED
    BY <1>3, <2>1
<1>6. QED
  BY <1>1, <1>3, <1>4, <1>5

LEMMA InitRanges ==
  ASSUME Init
  PROVE  ChainOK /\ \E R : Known(R)
<1>1. PICK n, m : Laden(n, m) /\ (m > 1 => LadenRoot(m))
  BY InitLaden
<1>2. /\ n \in Nat /\ m \in Nat /\ m >= 1 /\ m <= Capacity + 1 /\ n - (m - 1) * Capacity \in 1..Capacity
      /\ Leaves = 1..m /\ DOMAIN node = (IF m > 1 THEN 1..(m + 1) ELSE 1..m)
      /\ root = (IF m > 1 THEN m + 1 ELSE 1) /\ size_est = n
      /\ \A p \in Threads : t[p] = NoOp
      /\ Capacity \in Nat /\ Capacity >= 3 /\ Begin = 1 /\ Nil = 0
  BY <1>1, KeyFacts DEF Laden, Begin, Nil
<1> PICK c : c = Capacity
  OBVIOUS
<1>3. ASSUME NEW i \in 1..m
      PROVE  /\ node[i].next = (IF i < m THEN i + 1 ELSE 0) /\ node[i].parent = (IF m > 1 THEN m + 1 ELSE 0)
             /\ node[i].keys \in Seq(Nat) /\ i \in Nat /\ i >= 1 /\ i <= m /\ (i - 1) * c \in Nat
             /\ \A j \in DOMAIN node[i].keys :
                  node[i].keys[j] = 2 * ((i - 1) * c + j) /\ j \in 1..c
             /\ Head(node[i].keys) = 2 * ((i - 1) * c + 1)
  <2>1. /\ node[i].next = (IF i < m THEN i + 1 ELSE 0) /\ node[i].parent = (IF m > 1 THEN m + 1 ELSE 0)
        /\ node[i].keys \in Seq(Keys) /\ DOMAIN node[i].keys = 1..WidthOf(i, n, m)
        /\ \A j \in 1..WidthOf(i, n, m) : node[i].keys[j] = 2 * ((i - 1) * c + j)
    BY <1>1 DEF Laden, Nil
  <2>2. i \in Nat /\ i >= 1 /\ i <= m
    BY <1>2
  <2>3. WidthOf(i, n, m) \in 1..c
    BY <1>2 DEF WidthOf
  <2>4. \A j \in DOMAIN node[i].keys : j \in 1..c
    BY <1>2, <2>1, <2>3
  <2>5. node[i].keys \in Seq(Nat) /\ DOMAIN node[i].keys = 1..Len(node[i].keys)
    BY <2>1, KeySeq
  <2>6. Head(node[i].keys) = 2 * ((i - 1) * c + 1)
    <3>1. 1 \in 1..WidthOf(i, n, m)
      BY <1>2, <2>3
    <3>2. Head(node[i].keys) = node[i].keys[1]
      BY <2>1, <2>5, <3>1
    <3>3. QED
      BY <2>1, <3>1, <3>2
  <2>7. (i - 1) * c \in Nat
    <3>1. i - 1 \in Nat
      BY <2>2
    <3>2. QED
      BY <3>1, Steps
  <2>8. QED
    BY <2>1, <2>2, <2>4, <2>5, <2>6, <2>7
<1>4. ASSUME NEW i \in 1..m, NEW k
      PROVE  /\ Low(i, k) <=> i = 1 \/ 2 * ((i - 1) * c + 1) <= k
             /\ High(i, k) <=> i = m \/ k < 2 * (i * c + 1)
  <2>1. Low(i, k) <=> i = 1 \/ 2 * ((i - 1) * c + 1) <= k
    BY <1>2, <1>3 DEF Low
  <2>2. CASE i = m
    <3>1. node[i].next = Nil
      BY <1>2, <1>3, <2>2
    <3>2. High(i, k)
      BY <3>1 DEF High
    <3>3. QED
      BY <2>1, <2>2, <3>2
  <2>3. CASE i # m
    <3>1. i \in Nat /\ i < m
      BY <1>2, <1>3, <2>3
    <3>2. PICK x : x = i + 1
      OBVIOUS
    <3>3. x \in 1..m /\ x - 1 = i /\ x # 0
      BY <1>2, <3>1, <3>2
    <3>4. node[i].next = x /\ Head(node[x].keys) = 2 * (i * c + 1)
      BY <1>3, <3>1, <3>2, <3>3
    <3>5. QED
      BY <1>2, <2>1, <2>3, <3>3, <3>4 DEF High
  <2>4. QED
    BY <2>1, <2>2, <2>3
\* The chain of the leaves.
<1>5. \A i \in 1..m : Sorted(node[i].keys)
  <2> SUFFICES ASSUME NEW i \in 1..m, NEW x \in DOMAIN node[i].keys, NEW y \in DOMAIN node[i].keys, x < y
               PROVE  node[i].keys[x] < node[i].keys[y]
    BY DEF Sorted
  <2>1. /\ node[i].keys[x] = 2 * ((i - 1) * c + x) /\ node[i].keys[y] = 2 * ((i - 1) * c + y)
        /\ x \in 1..c /\ y \in 1..c /\ (i - 1) * c \in Nat
    BY <1>3
  <2>2. x \in Nat /\ y \in Nat
    BY <1>2, <2>1
  <2>3. QED
    BY <2>1, <2>2
<1>6. ASSUME m > 1
      PROVE  /\ m + 1 \in DOMAIN node /\ ~node[m + 1].leaf /\ m + 1 \notin Leaves /\ root = m + 1
             /\ node[m + 1].keys \in Seq(Nat) /\ Len(node[m + 1].keys) = m - 1
             /\ DOMAIN node[m + 1].keys = 1..(m - 1) /\ node[m + 1].parent = Nil
             /\ \A i \in 1..(m - 1) : node[m + 1].keys[i] = 2 * (i * c + 1)
             /\ \A i \in 1..m : node[m + 1].kids[i] = i
  <2>1. LadenRoot(m)
    BY <1>1, <1>6
  <2>2. node[m + 1].keys \in Seq(Keys) /\ Len(node[m + 1].keys) = m - 1
    BY <2>1 DEF LadenRoot
  <2>3. node[m + 1].keys \in Seq(Nat) /\ DOMAIN node[m + 1].keys = 1..(m - 1)
    BY <2>2, KeySeq
  <2>4. QED
    BY <1>2, <1>6, <2>1, <2>2, <2>3 DEF LadenRoot
<1>7. ASSUME m > 1 PROVE Sorted(node[m + 1].keys)
  <2> SUFFICES ASSUME NEW x \in 1..(m - 1), NEW y \in 1..(m - 1), x < y
               PROVE  node[m + 1].keys[x] < node[m + 1].keys[y]
    BY <1>6, <1>7 DEF Sorted
  <2>1. x \in Nat /\ y \in Nat
    BY <1>2
  <2>2. x * c \in Nat /\ y * c \in Nat /\ x * c + c <= y * c
    BY <2>1, Steps
  <2>3. node[m + 1].keys[x] = 2 * (x * c + 1) /\ node[m + 1].keys[y] = 2 * (y * c + 1)
    BY <1>6, <1>7
  <2>4. QED
    BY <1>2, <2>2, <2>3
<1>8. \A i \in DOMAIN node : i \in 1..m \/ (m > 1 /\ i = m + 1)
  BY <1>2
<1>9. ChainOK
  <2>1. \A i \in DOMAIN node : Sorted(node[i].keys)
    BY <1>5, <1>7, <1>8
  <2>2. Begin \in Leaves /\ \A i \in Leaves : node[i].next # Begin
    <3>1. 1 \in 1..m /\ \A i \in 1..m : node[i].next # 1
      BY <1>2, <1>3
    <3>2. QED
      BY <1>2, <3>1
  <2>3. ASSUME NEW i \in Leaves \ {Begin}
        PROVE  \E l \in Leaves : node[l].next = i /\ \A x \in Leaves : node[x].next = i => x = l
    <3>1. i \in Nat /\ i > 1 /\ i <= m
      BY <1>2
    <3>2. PICK l : l = i - 1
      OBVIOUS
    <3>3. l \in 1..m /\ l < m /\ l + 1 = i
      BY <1>2, <3>1, <3>2
    <3>4. node[l].next = i
      BY <1>3, <3>3
    <3>5. ASSUME NEW x \in 1..m, node[x].next = i PROVE x = l
      <4>1. x \in Nat /\ x <= m /\ node[x].next = (IF x < m THEN x + 1 ELSE 0)
        BY <1>3
      <4>2. i = x + 1
        BY <3>1, <3>5, <4>1
      <4>3. QED
        BY <3>2, <4>1, <4>2
    <3>6. QED
      BY <1>2, <3>3, <3>4, <3>5
  <2>4. QED
    BY <2>1, <2>2, <2>3 DEF ChainOK
\* The ranges.
<1>10. PICK R : R = [x \in DOMAIN node |-> IF x \in 1..m THEN {k \in Nat : InRange(x, k)} ELSE Nat]
  OBVIOUS
<1>11. \A i \in 1..m : i \in DOMAIN node
  BY <1>2
<1>12. /\ R \in [DOMAIN node -> SUBSET Nat]
       /\ \A i \in 1..m : \A k : k \in R[i] <=> k \in Nat /\ InRange(i, k)
       /\ m > 1 => R[m + 1] = Nat
  <2>1. m + 1 \notin 1..m
    BY <1>2
  <2>2. QED
    BY <1>6, <1>10, <1>11, <2>1
<1>13. ASSUME NEW i \in 1..m, NEW j \in 1..m, i < j, NEW k \in R[i] PROVE k \notin R[j]
  <2>1. i \in Nat /\ j \in Nat /\ i # m /\ j # 1 /\ j - 1 \in Nat /\ i <= j - 1 /\ k \in Nat
    BY <1>2, <1>12, <1>13
  <2>2. k < 2 * (i * c + 1)
    BY <1>4, <1>12, <2>1 DEF InRange
  <2>3. i * c <= (j - 1) * c /\ i * c \in Nat /\ (j - 1) * c \in Nat
    BY <2>1, Steps
  <2>4. ~(2 * ((j - 1) * c + 1) <= k)
    BY <2>1, <2>2, <2>3
  <2>5. QED
    BY <1>4, <1>12, <2>1, <2>4 DEF InRange
<1>14. LeavesDivide(R)
  <2>1. \A i, j \in 1..m : i # j => \A k \in R[i] : k \notin R[j]
    <3>1. \A i, j \in 1..m : i # j => i < j \/ j < i
      BY <1>2
    <3>2. QED
      BY <1>13, <3>1
  <2>2. QED
    BY <1>2, <1>12, <2>1 DEF LeavesDivide
<1>15. KeysIn(R)
  <2> SUFFICES ASSUME NEW i \in DOMAIN node, NEW x \in DOMAIN node[i].keys PROVE node[i].keys[x] \in R[i]
    BY DEF KeysIn
  <2>1. CASE i \in 1..m
    <3>1. node[i].keys[x] = 2 * ((i - 1) * c + x) /\ x \in 1..c /\ i \in Nat /\ (i - 1) * c \in Nat /\ i >= 1
      BY <1>3, <2>1
    <3>2. x \in Nat /\ x >= 1 /\ x <= c
      BY <1>2, <3>1
    <3>3. PICK y : y = i - 1
      OBVIOUS
    <3>4. y \in Nat /\ i = y + 1
      BY <3>1, <3>3
    <3>5. i * c = y * c + c /\ y * c \in Nat
      BY <3>4, Steps
    <3>6. PICK k : k = node[i].keys[x]
      OBVIOUS
    <3>7. k \in Nat /\ 2 * ((i - 1) * c + 1) <= k /\ k < 2 * (i * c + 1)
      <4>1. PICK z : z = y * c
        OBVIOUS
      <4>2. z \in Nat /\ (i - 1) * c = z /\ i * c = z + c /\ c \in Nat
        BY <1>2, <3>3, <3>5, <4>1
      <4>3. k = 2 * (z + x)
        BY <3>1, <3>6, <4>2
      <4>4. k \in Nat /\ 2 * (z + 1) <= k /\ k < 2 * (z + c + 1)
        BY <3>2, <4>2, <4>3
      <4>5. QED
        BY <4>2, <4>4
    <3>8. InRange(i, k)
      BY <1>4, <2>1, <3>7 DEF InRange
    <3>9. QED
      BY <1>12, <2>1, <3>6, <3>7, <3>8
  <2>2. CASE i \notin 1..m
    <3>1. m > 1 /\ i = m + 1
      BY <1>8, <2>2
    <3>2. QED
      BY <1>6, <1>12, <3>1
  <2>3. QED
    BY <2>1, <2>2
<1>16. ASSUME m > 1, NEW k \in Nat, NEW i, i = ChildFor(m + 1, k) PROVE i \in 1..m /\ k \in R[i]
  <2>1. PICK ks : ks = node[m + 1].keys
    OBVIOUS
  <2>2. PICK s : s = SlotIn(ks, k)
    OBVIOUS
  <2>3. SlotsAt(ks, k)
    BY <1>6, <1>7, <1>16, <2>1, SlotIs
  <2>4. s \in 0..(m - 1) /\ \A j \in 1..(m - 1) : ks[j] <= k <=> j <= s
    BY <1>6, <1>16, <2>1, <2>2, <2>3 DEF SlotsAt
  <2>5. s \in Nat /\ s + 1 \in 1..m /\ s <= m - 1
    BY <1>2, <2>4
  <2>6. i = s + 1
    <3>1. i = node[m + 1].kids[s + 1]
      BY <1>16, <2>1, <2>2 DEF ChildFor, SlotAfter, SlotIn
    <3>2. QED
      BY <1>6, <1>16, <2>5, <3>1
  <2>7. i = 1 \/ 2 * ((i - 1) * c + 1) <= k
    <3>1. CASE s = 0
      BY <2>6, <3>1
    <3>2. CASE s # 0
      <4>1. s \in 1..(m - 1) /\ i - 1 = s
        BY <1>2, <2>5, <2>6, <3>2
      <4>2. ks[s] <= k /\ ks[s] = 2 * (s * c + 1)
        BY <1>6, <1>16, <2>1, <2>4, <4>1
      <4>3. QED
        BY <4>1, <4>2
    <3>3. QED
      BY <3>1, <3>2
  <2>8. i = m \/ k < 2 * (i * c + 1)
    <3>1. CASE s = m - 1
      BY <1>2, <2>6, <3>1
    <3>2. CASE s # m - 1
      <4>1. i \in 1..(m - 1) /\ ~(i <= s) /\ i \in Nat
        BY <1>2, <2>5, <2>6, <3>2
      <4>2. ~(ks[i] <= k) /\ ks[i] = 2 * (i * c + 1)
        BY <1>6, <1>16, <2>1, <2>4, <4>1
      <4>3. i * c \in Nat
        BY <4>1, Steps
      <4>4. QED
        BY <4>2, <4>3
    <3>3. QED
      BY <3>1, <3>2
  <2>9. QED
    BY <1>4, <1>12, <2>5, <2>6, <2>7, <2>8 DEF InRange
<1>17. ParentsLead(R)
  <2> SUFFICES ASSUME NEW i \in DOMAIN node, node[i].parent # Nil, NEW k \in R[i]
               PROVE  Leads(R, node[i].parent, i, k)
    BY DEF ParentsLead
  <2>1. i \in 1..m /\ m > 1 /\ node[i].parent = m + 1 /\ k \in Nat
    BY <1>2, <1>3, <1>6, <1>8, <1>12
  <2>2. PICK j : j = ChildFor(m + 1, k)
    OBVIOUS
  <2>3. j \in 1..m /\ k \in R[j]
    BY <1>16, <2>1, <2>2
  <2>4. j = i
    BY <1>2, <1>14, <2>1, <2>3 DEF LeavesDivide
  <2>5. QED
    BY <1>12, <2>1, <2>2, <2>4 DEF Leads
<1>18. ChildrenCover(R)
  <2> SUFFICES ASSUME NEW i \in DOMAIN node \ Leaves, NEW k \in R[i] PROVE Covered(R, ChildFor(i, k), k)
    BY DEF ChildrenCover
  <2>1. m > 1 /\ i = m + 1 /\ k \in Nat
    BY <1>2, <1>8, <1>12
  <2>2. QED
    BY <1>16, <2>1 DEF Covered
<1>19. RootCovers(R)
  <2>1. CASE m > 1
    BY <1>6, <1>12, <2>1 DEF RootCovers, Covered
  <2>2. CASE ~(m > 1)
    <3>1. m = 1 /\ root = 1 /\ 1 \in 1..m
      BY <1>2, <2>2
    <3>2. \A k \in Nat : k \in R[1]
      BY <1>4, <1>12, <3>1 DEF InRange
    <3>3. QED
      BY <3>1, <3>2 DEF RootCovers, Covered
  <2>3. QED
    BY <2>1, <2>2
<1>20. \A p \in Threads : t[p].pc = "idle"
  BY <1>2 DEF NoOp
<1>21. SplitsDivide(R)
  BY <1>20 DEF SplitsDivide, Splitting, Climbing, Parents, Ending, Threads
<1>22. RangesOK(R)
  BY <1>12, <1>14, <1>15, <1>17, <1>18, <1>19, <1>21 DEF RangesOK
<1>23. \A p \in Threads : Descent(R, p) /\ Arrival(R, p)
  BY <1>20 DEF Descent, Arrival, AtRoot, AtInner, AtLeaf, Reading
<1>24. QED
  BY <1>9, <1>22, <1>23 DEF Known

-----------------------------------------------------------------------------
(* The order is an invariant                                                *)

LEMMA IdleKnown ==
  ASSUME ChainOK, NEW R, Known(R), UNCHANGED vars
  PROVE  ChainOK' /\ Known(R)'
<1>1. node' = node /\ root' = root /\ t' = t /\ op' = op
  BY DEF vars, tree, opvars
<1>2. ChainOK'
  BY <1>1 DEF ChainOK, Leaves, Begin
<1>3. R \in [DOMAIN node' -> SUBSET Nat]
  BY <1>1 DEF Known, RangesOK
<1>4. LeavesDivide(R)'
  BY <1>1 DEF Known, RangesOK, LeavesDivide, Leaves, InRange, Low, High
<1>5. KeysIn(R)'
  BY <1>1 DEF Known, RangesOK, KeysIn
<1>6. \A q, n, k : ChildFor(q, k)' = ChildFor(q, k) /\ (Leads(R, q, n, k)' <=> Leads(R, q, n, k))
  BY <1>1 DEF Leads, ChildFor, SlotAfter
<1>7. \A q : (Splitting(q)' <=> Splitting(q)) /\ Key(q)' = Key(q)
  BY <1>1 DEF Splitting, Key
<1>8. \A n, k : Covered(R, n, k)' <=> Covered(R, n, k)
  BY <1>1, <1>7 DEF Covered
<1>9. ParentsLead(R)'
  BY <1>1, <1>6 DEF Known, RangesOK, ParentsLead, Leads
<1>10. ChildrenCover(R)'
  BY <1>1, <1>6, <1>8 DEF Known, RangesOK, ChildrenCover, Leaves, Covered
<1>11. RootCovers(R)'
  BY <1>1, <1>8 DEF Known, RangesOK, RootCovers, Covered
<1>12. SplitsDivide(R)'
  BY <1>1, <1>6, <1>7 DEF Known, RangesOK, SplitsDivide, HalvesOK, Leads
<1>13. ASSUME NEW q \in Threads, ~t'[q].moved PROVE Descent(R, q)' /\ Arrival(R, q)'
  <2>1. Descent(R, q) /\ Arrival(R, q)
    BY <1>1, <1>13 DEF Known
  <2>2. Descent(R, q)'
    BY <1>1, <1>6, <1>7, <2>1 DEF Descent, Fresh, Low
  <2>3. Arrival(R, q)'
    BY <1>1, <1>7, <2>1 DEF Arrival, Fresh, Low
  <2>4. QED
    BY <2>2, <2>3
<1>14. QED
  BY <1>2, <1>3, <1>4, <1>5, <1>9, <1>10, <1>11, <1>12, <1>13 DEF Known, RangesOK

LEMMA NextKnown ==
  ASSUME Core, Aims, ChainOK, NEW R, Known(R), Next
  PROVE  ChainOK' /\ \E Q : Known(Q)'
<1>1. CASE \E p \in Procs : Start(p)
  <2>1. ChainOK' /\ Known(R)'
    BY <1>1, CallKnown DEF Threads
  <2>2. QED
    BY <2>1
<1>2. CASE \E s \in Scanners : StartScan(s)
  <2>1. ChainOK' /\ Known(R)'
    BY <1>2, CallKnown DEF Threads
  <2>2. QED
    BY <2>1
<1>3. CASE \E p \in Threads : Step(p)
  <2> SUFFICES ASSUME NEW p \in Threads, Step(p) PROVE ChainOK' /\ \E Q : Known(Q)'
    BY <1>3
  <2>1. CASE SplitLeaf(p)
    BY <2>1, SplitLeafKnown
  <2>2. CASE SplitParent(p)
    BY <2>2, SplitParentKnown
  <2>3. CASE NewRoot(p)
    BY <2>3, NewRootKnown
  <2>4. CASE ~(SplitLeaf(p) \/ SplitParent(p) \/ NewRoot(p))
    <3>1. CASE \/ LoadRoot(p) \/ LoadRootVersion(p) \/ CheckRoot(p) \/ FindChild(p)
               \/ LoadChildVersion(p) \/ CheckChildLocked(p) \/ CheckChildVersion(p)
      <4>1. ChainOK' /\ Known(R)'
        BY <3>1, LoadRootKnown, LoadRootVersionKnown, CheckRootKnown, FindChildKnown,
           LoadChildVersionKnown, CheckChildLockedKnown, CheckChildVersionKnown
      <4>2. QED
        BY <4>1
    <3>2. CASE \/ WalkVersion(p) \/ WalkNext(p) \/ ReadLeaf(p) \/ ScanLeaf(p) \/ CheckLocked(p)
               \/ CheckChanged(p) \/ ScanVersion(p)
      <4>1. ChainOK' /\ Known(R)'
        BY <3>2, WalkVersionKnown, WalkNextKnown, ReadingKnown
      <4>2. QED
        BY <4>1
    <3>3. CASE Accept(p) \/ ScanAccept(p) \/ Count(p) \/ Finish(p)
      <4>1. ChainOK' /\ Known(R)'
        BY <3>3, CallKnown
      <4>2. QED
        BY <4>1
    <3>4. CASE \/ LockLeaf(p) \/ LockedStale(p) \/ WriteInPlace(p) \/ NotFound(p) \/ Overwrite(p)
               \/ Shift(p)
      <4>1. ChainOK' /\ Known(R)'
        BY <3>4, LockLeafKnown, LockedStaleKnown, WriteKnown, ShiftKnown
      <4>2. QED
        BY <4>1
    <3>5. CASE \/ LoadParent(p) \/ LockParent(p) \/ CheckParent(p) \/ InsertParent(p)
               \/ Bump(p) \/ Unlock(p)
      <4>1. ChainOK' /\ Known(R)'
        BY <3>5, ParentKnown, InsertParentKnown, BumpKnown, UnlockKnown
      <4>2. QED
        BY <4>1
    <3>6. QED
      BY <2>4, <3>1, <3>2, <3>3, <3>4, <3>5 DEF Step
  <2>5. QED
    BY <2>1, <2>2, <2>3, <2>4
<1>4. QED
  BY <1>1, <1>2, <1>3 DEF Next

\* A step of p leaves the other scans where they are.
LEMMA AimsStay ==
  ASSUME Aims, NEW p, Alone(p), p \in Scanners => Aimed(p)'
  PROVE  Aims'
<1> SUFFICES ASSUME NEW s \in Scanners PROVE Aimed(s)'
  BY DEF Aims
<1>1. CASE s = p
  BY <1>1
<1>2. CASE s # p
  <2>1. t'[s] = t[s] /\ Aimed(s)
    BY <1>2 DEF Alone, Aims, Threads
  <2>2. QED
    BY <2>1 DEF Aimed
<1>3. QED
  BY <1>1, <1>2

LEMMA SearchAims ==
  ASSUME Core, Aims, NEW p \in Threads,
         \/ LoadRoot(p) \/ LoadRootVersion(p) \/ CheckRoot(p)
         \/ FindChild(p) \/ LoadChildVersion(p) \/ CheckChildLocked(p) \/ CheckChildVersion(p)
         \/ WalkVersion(p) \/ WalkNext(p) \/ ReadLeaf(p) \/ ScanLeaf(p)
         \/ CheckLocked(p) \/ CheckChanged(p) \/ ScanVersion(p)
  PROVE  Aims'
<1>0. ASSUME KeepScan(p), Walked(p), t'[p].pc = "again" => t[p].moved,
             t[p].moved => t'[p].pc \in {"again", "read", "locked", "valid", "done"}
      PROVE  Aims'
  <2>1. Alone(p)
    BY <1>0 DEF Walked
  <2>2. p \in Scanners => Aimed(p)'
    BY <1>0 DEF KeepScan, Aims, Aimed
  <2>3. QED
    BY <2>1, <2>2, AimsStay
<1>1. t[p].moved => t[p].pc \in {"again", "read", "locked", "valid", "done"}
  BY LocalFacts DEF Aims, Aimed, Core, ThreadOK, Threads
<1>2. Arrive(p) # "again"
  BY Arrives
<1>3. CASE LoadRoot(p) \/ LoadRootVersion(p)
  BY <1>0, <1>1, <1>3, LoadRootFacts, LoadRootVersionFacts
<1>4. CASE CheckRoot(p)
  <2>1. KeepScan(p) /\ Walked(p) /\ t[p].pc = "rootparent" /\ t'[p].pc \in {"root", "child", Arrive(p)}
    BY <1>4, CheckRootFacts
  <2>2. QED
    BY <1>0, <1>1, <1>2, <2>1
<1>5. CASE FindChild(p) \/ LoadChildVersion(p) \/ CheckChildLocked(p)
  BY <1>0, <1>1, <1>5, FindChildFacts, LoadChildVersionFacts, CheckChildLockedFacts
<1>6. CASE CheckChildVersion(p)
  <2>1. KeepScan(p) /\ Walked(p) /\ t[p].pc = "childvalid" /\ t'[p].pc \in {"root", "child", Arrive(p)}
    BY <1>6, CheckChildVersionFacts
  <2>2. QED
    BY <1>0, <1>1, <1>2, <2>1
<1>7. CASE WalkVersion(p)
  BY <1>0, <1>1, <1>7, WalkVersionFacts
<1>8. CASE WalkNext(p)
  <2>1. KeepScan(p) /\ Walked(p) /\ t[p].pc = "walknext" /\ t'[p].pc \in {"walkver", Arrive(p)}
    BY <1>8, WalkNextFacts
  <2>2. QED
    BY <1>0, <1>1, <1>2, <2>1
<1>9. CASE ReadLeaf(p) \/ ScanLeaf(p)
  BY <1>0, <1>9, ReadLeafFacts, ScanLeafFacts
<1>10. CASE CheckLocked(p) \/ CheckChanged(p)
  <2>1. /\ KeepScan(p) /\ Walked(p)
        /\ t'[p].pc \in {"valid", IF t[p].moved THEN "again" ELSE "walkver"}
    BY <1>10, CheckLockedFacts, CheckChangedFacts
  <2>2. QED
    BY <1>0, <2>1
<1>11. CASE ScanVersion(p)
  BY <1>0, <1>11, ScanVersionFacts
<1>12. QED
  BY <1>3, <1>4, <1>5, <1>6, <1>7, <1>8, <1>9, <1>10, <1>11

LEMMA WriterAims ==
  ASSUME Core, Aims, NEW p \in Threads,
         \/ Accept(p) \/ Count(p) \/ LockLeaf(p) \/ LockedStale(p)
         \/ WriteInPlace(p) \/ NotFound(p) \/ Overwrite(p) \/ Shift(p) \/ SplitLeaf(p)
         \/ LoadParent(p) \/ LockParent(p) \/ CheckParent(p)
         \/ NewRoot(p) \/ InsertParent(p) \/ SplitParent(p) \/ Bump(p) \/ Unlock(p)
  PROVE  Aims'
<1>0. p \in Scanners => t[p].pc \notin {"count", "lock", "lockver", "act"} \union Climbing \union Ending
  BY LocalFacts DEF Core, ThreadOK, AtRoot, AtInner, Reading, Climbing, Parents, Ending
<1>1. CASE Accept(p) \/ Count(p) \/ LockLeaf(p) \/ LockedStale(p)
  <2>1. Alone(p) /\ p \notin Scanners
    BY <1>1, AcceptFacts, CountFacts, LockLeafFacts, LockedStaleFacts, ThreadsAssumption
  <2>2. QED
    BY <2>1, AimsStay
<1>2. CASE WriteInPlace(p) \/ NotFound(p) \/ Overwrite(p) \/ Shift(p) \/ SplitLeaf(p)
  <2>1. Alone(p) /\ t[p].pc = "act"
    BY <1>2, WriteInPlaceFacts, NotFoundFacts, OverwriteFacts, ShiftFacts, SplitLeafFacts
  <2>2. QED
    BY <1>0, <2>1, AimsStay
<1>3. CASE LoadParent(p) \/ LockParent(p) \/ CheckParent(p)
  <2>1. Alone(p) /\ t[p].pc \in {"parent", "lockparent", "checkparent"}
    BY <1>3, LoadParentFacts, LockParentFacts, CheckParentFacts
  <2>2. QED
    BY <1>0, <2>1, AimsStay DEF Climbing, Parents
<1>4. CASE NewRoot(p) \/ InsertParent(p) \/ SplitParent(p)
  <2>1. Alone(p) /\ t[p].pc \in {"newroot", "insertparent", "splitparent"}
    BY <1>4, NewRootFacts, InsertParentFacts, SplitParentFacts DEF NewRoot, InsertParent, SplitParent, At
  <2>2. QED
    BY <1>0, <2>1, AimsStay DEF Climbing, Parents
<1>5. CASE Bump(p) \/ Unlock(p)
  <2>1. Alone(p) /\ t[p].pc \in {"bump", "unlock"}
    BY <1>5, BumpFacts, UnlockFacts
  <2>2. QED
    BY <1>0, <2>1, AimsStay DEF Ending
<1>6. QED
  BY <1>1, <1>2, <1>3, <1>4, <1>5

LEMMA NextAims ==
  ASSUME Core, Aims, Next
  PROVE  Aims'
<1>1. ASSUME NEW p \in Procs, Start(p) PROVE Aims'
  <2>1. Alone(p) /\ p \notin Scanners
    BY <1>1, StartFacts, ThreadsAssumption
  <2>2. QED
    BY <2>1, AimsStay
<1>2. ASSUME NEW s \in Scanners, StartScan(s) PROVE Aims'
  <2>1. /\ Alone(s) /\ t[s].pc = "idle" /\ t'[s].pc = "root"
        /\ t'[s].from \in ScanFrom /\ t'[s].moved = t[s].moved
    BY <1>2, StartScanFacts
  <2>2. Aimed(s)'
    BY <2>1, ScanAssumption DEF Aims, Aimed
  <2>3. QED
    BY <2>1, <2>2, AimsStay
<1>3. ASSUME NEW p \in Threads, Finish(p) PROVE Aims'
  <2>1. Alone(p) /\ t'[p] = NoOp
    BY <1>3, FinishFacts
  <2>2. Aimed(p)'
    BY <2>1 DEF Aimed, NoOp
  <2>3. QED
    BY <2>1, <2>2, AimsStay
<1>4. ASSUME NEW p \in Threads, ScanAccept(p) PROVE Aims'
  <2>1. /\ Alone(p) /\ t'[p].from = t[p].from /\ p \in Scanners
        /\ \/ t'[p].pc = "done" /\ t'[p].moved = t[p].moved
           \/ t'[p].pc = "again" /\ t'[p].moved = TRUE
    BY <1>4, ScanAcceptFacts
  <2>2. Aimed(p)'
    BY <2>1 DEF Aims, Aimed
  <2>3. QED
    BY <2>1, <2>2, AimsStay
<1>5. QED
  BY <1>1, <1>2, <1>3, <1>4, SearchAims, WriterAims DEF Next, Step

Ordered == Aims /\ ChainOK /\ \E R : Known(R)

LEMMA InitOrdered == Init => Core /\ Ordered
<1>1. ASSUME Init PROVE Aims
  BY <1>1 DEF Init, Aims, Aimed, NoOp, Threads
<1>2. QED
  BY <1>1, InitCore, InitRanges DEF Ordered

LEMMA OrderInvariant == Spec => [](Core /\ Ordered)
<1>1. Init => Core /\ Ordered
  BY InitOrdered
<1>2. Core /\ Ordered /\ [Next]_vars => (Core /\ Ordered)'
  <2>1. ASSUME Core, Ordered, Next PROVE Ordered'
    <3>1. PICK R : Known(R)
      BY <2>1 DEF Ordered
    <3>2. ChainOK' /\ \E Q : Known(Q)'
      BY <2>1, <3>1, NextKnown DEF Ordered
    <3>3. Aims'
      BY <2>1, NextAims DEF Ordered
    <3>4. QED
      BY <3>2, <3>3 DEF Ordered
  <2>2. ASSUME Ordered, UNCHANGED vars PROVE Ordered'
    <3>1. PICK R : Known(R)
      BY <2>2 DEF Ordered
    <3>2. ChainOK' /\ Known(R)'
      BY <2>2, <3>1, IdleKnown DEF Ordered
    <3>3. Aims'
      BY <2>2 DEF Ordered, Aims, Aimed, vars
    <3>4. QED
      BY <3>2, <3>3 DEF Ordered
  <2>3. QED
    BY <2>1, <2>2, NextCore, IdleCore
<1>3. QED
  BY <1>1, <1>2, PTL DEF Spec

-----------------------------------------------------------------------------
(* Results                                                                  *)

LEMMA ChainIs ==
  ASSUME Core, ChainOK, NEW R, Known(R)
  PROVE  ChainSorted
<1>1. TreeOK /\ LeavesDivide(R) /\ KeysIn(R)
  BY DEF Core, TypesOK, Known, RangesOK
<1>2. ASSUME NEW n \in Leaves, NEW i \in 1..(Len(node[n].keys) - 1)
      PROVE  node[n].keys[i] < node[n].keys[i + 1]
  <2>1. n \in DOMAIN node /\ Sorted(node[n].keys) /\ node[n].keys \in Seq(Keys)
    BY <1>1, LeafNext, NodeFacts DEF ChainOK, TreeOK
  <2>2. PICK j : j = i + 1
    OBVIOUS
  <2>3. i \in DOMAIN node[n].keys /\ j \in DOMAIN node[n].keys /\ i < j
    BY <2>1, <2>2
  <2>4. QED
    BY <2>1, <2>2, <2>3 DEF Sorted
<1>3. ASSUME NEW n \in Leaves, node[n].next # Nil
      PROVE  Last(node[n].keys) < Head(node[node[n].next].keys)
  <2>1. /\ n \in DOMAIN node /\ Sorted(node[n].keys) /\ node[n].keys \in Seq(Keys)
        /\ Len(node[n].keys) \in 1..Capacity
    BY <1>1, LeafNext, NodeFacts DEF ChainOK, TreeOK, Formed
  <2>2. node[n].keys \in Seq(Nat) /\ node[n].keys # <<>>
    BY <2>1, KeySeq, KeyFacts
  <2>3. PICK k : k = Last(node[n].keys)
    OBVIOUS
  <2>4. k \in Nat /\ \E j \in DOMAIN node[n].keys : k = node[n].keys[j]
    BY <2>1, <2>2, <2>3, SortedEnds
  <2>5. k \in R[n]
    BY <1>1, <2>1, <2>4 DEF KeysIn
  <2>6. High(n, k)
    BY <1>1, <2>4, <2>5 DEF LeavesDivide, InRange
  <2>7. QED
    BY <1>3, <2>3, <2>6 DEF High
<1>4. ASSUME NEW n \in Leaves \ {Begin}
      PROVE  Cardinality({l \in Leaves : node[l].next = n}) = 1
  <2>1. PICK l \in Leaves : node[l].next = n /\ \A m \in Leaves : node[m].next = n => m = l
    BY DEF ChainOK
  <2>2. {m \in Leaves : node[m].next = n} = {l}
    BY <2>1
  <2>3. QED
    BY <2>2, FS_Singleton
<1>5. QED
  BY <1>2, <1>3, <1>4 DEF ChainSorted

LEMMA SeparatedIs ==
  ASSUME Core, ChainOK, NEW R, Known(R)
  PROVE  Separated
<1>1. TreeOK /\ ShapeOK /\ KeysIn(R) /\ ParentsLead(R) /\ node \in Seq(Node)
  BY DEF Core, TypesOK, TreeOK, Known, RangesOK
<1> SUFFICES ASSUME NEW n \in DOMAIN node \ Leaves, NEW i \in DOMAIN node[n].kids
             PROVE  /\ node[node[n].kids[i]].parent = n
                    /\ i > 1 => Head(node[node[n].kids[i]].keys) >= node[n].keys[i - 1]
                    /\ i <= Len(node[n].keys) => Last(node[node[n].kids[i]].keys) < node[n].keys[i]
  BY DEF Separated
<1>2. PICK c : c = node[n].kids[i]
  OBVIOUS
<1>3. PICK ks : ks = node[n].keys
  OBVIOUS
<1>4. /\ c \in DOMAIN node /\ node[c].parent = n /\ n \in Nat /\ n # Nil /\ Formed(c)
      /\ Len(node[n].kids) = Len(ks) + 1 /\ node[n].kids \in Seq(Nat) /\ ks \in Seq(Keys)
      /\ \A a, b \in DOMAIN node[n].kids : node[n].kids[a] = node[n].kids[b] => a = b
  <2>1. Formed(n) /\ ~node[n].leaf /\ n \in Nat /\ n # 0 /\ node[n].kids \in Seq(Nat) /\ ks \in Seq(Keys)
    BY <1>1, <1>3, NodeFacts DEF TreeOK, Leaves
  <2>2. c \in DOMAIN node
    BY <1>2, <2>1 DEF Formed
  <2>3. QED
    BY <1>1, <1>2, <1>3, <2>1, <2>2 DEF Formed, TreeOK, ShapeOK, Nil
<1>5. ks \in Seq(Nat) /\ Sorted(ks) /\ DOMAIN ks = 1..Len(ks) /\ Len(ks) \in Nat
  BY <1>3, <1>4, KeySeq DEF ChainOK
<1>6. i \in 1..(Len(ks) + 1) /\ i \in Nat
  BY <1>4, <1>5
<1>7. PICK cs : cs = node[c].keys
  OBVIOUS
<1>8. cs \in Seq(Nat) /\ cs # <<>> /\ Sorted(cs)
  <2>1. node[c].keys \in Seq(Keys)
    BY <1>1, <1>4, NodeFacts
  <2>2. QED
    BY <1>4, <1>7, <2>1, KeySeq, KeyFacts DEF Formed, ChainOK
<1>9. ASSUME NEW j \in DOMAIN cs, NEW k, k = cs[j]
      PROVE  /\ k \in Nat
             /\ i > 1 => ks[i - 1] <= k
             /\ i <= Len(ks) => k < ks[i]
  <2>1. k \in Nat
    BY <1>8, <1>9
  <2>2. ChildFor(n, k) = c
    <3>1. k \in R[c]
      BY <1>1, <1>4, <1>7, <1>9 DEF KeysIn
    <3>2. QED
      BY <1>1, <1>4, <3>1 DEF ParentsLead, Leads
  <2>3. SlotsAt(ks, k)
    BY <1>5, <2>1, SlotIs
  <2>4. PICK s : s = SlotIn(ks, k)
    OBVIOUS
  <2>5. s \in 0..Len(ks) /\ \A a \in DOMAIN ks : ks[a] <= k <=> a <= s
    BY <2>3, <2>4 DEF SlotsAt
  <2>6. s \in Nat /\ s + 1 \in DOMAIN node[n].kids
    BY <1>4, <1>5, <2>5
  <2>7. node[n].kids[s + 1] = c
    BY <1>3, <2>2, <2>4 DEF ChildFor, SlotAfter, SlotIn
  <2>8. i = s + 1
    BY <1>2, <1>4, <2>6, <2>7
  <2>9. ASSUME i > 1 PROVE ks[i - 1] <= k
    <3>1. s \in DOMAIN ks /\ i - 1 = s
      BY <1>5, <1>6, <2>5, <2>6, <2>8, <2>9
    <3>2. QED
      BY <2>5, <2>6, <3>1
  <2>10. ASSUME i <= Len(ks) PROVE k < ks[i]
    <3>1. i \in DOMAIN ks /\ ~(i <= s)
      BY <1>5, <1>6, <2>6, <2>8, <2>10
    <3>2. ~(ks[i] <= k) /\ ks[i] \in Nat
      BY <1>5, <2>5, <3>1
    <3>3. QED
      BY <2>1, <3>2
  <2>11. QED
    BY <2>1, <2>9, <2>10
<1>10. PICK a, b : a = Head(cs) /\ b = Last(cs)
  OBVIOUS
<1>11. (\E j \in DOMAIN cs : a = cs[j]) /\ (\E j \in DOMAIN cs : b = cs[j])
  BY <1>8, <1>10, SortedEnds
<1>12. /\ a \in Nat /\ (i > 1 => ks[i - 1] <= a)
       /\ i <= Len(ks) => b < ks[i]
  BY <1>9, <1>11
<1>13. i > 1 => a >= ks[i - 1]
  <2> SUFFICES ASSUME i > 1 PROVE a >= ks[i - 1]
    OBVIOUS
  <2>1. PICK x : x = i - 1
    OBVIOUS
  <2>2. x \in DOMAIN ks
    BY <1>5, <1>6, <2>1
  <2>3. ks[x] \in Nat
    BY <1>5, <2>2
  <2>4. QED
    BY <1>12, <2>1, <2>3
<1>14. QED
  BY <1>2, <1>3, <1>4, <1>7, <1>10, <1>12, <1>13

\* The chain that RefSource and scans follow visits every leaf but begin from
\* exactly one other, and its keys ascend within each leaf and from leaf to leaf,
\* whatever splits are under way.
THEOREM BufferChainSorted == Spec => []ChainSorted
<1>1. Core /\ Ordered => ChainSorted
  BY ChainIs DEF Ordered
<1>2. QED
  BY <1>1, OrderInvariant, PTL

\* The separators of every internal node divide the keys of its children, and
\* every child names the node it hangs from, at every moment of a split.
THEOREM BufferSeparated == Spec => []Separated
<1>1. Core /\ Ordered => Separated
  BY SeparatedIs DEF Ordered
<1>2. QED
  BY <1>1, OrderInvariant, PTL

-----------------------------------------------------------------------------
(* How many keys the buffer holds                                           *)

LEMMA HeldFinite ==
  /\ IsFiniteSet(Keys) /\ IsFiniteSet(Procs)
  /\ IsFiniteSet(HeldKeys) /\ Cardinality(HeldKeys) \in Nat
  /\ IsFiniteSet(Counters) /\ Cardinality(Counters) \in Nat
<1>1. IsFiniteSet(Procs) /\ IsFiniteSet(OpKeys)
  BY ThreadsAssumption, KeysAssumption
<1>2. IsFiniteSet(Keys)
  <2>1. PICK c : c = Capacity * (Capacity + 1)
    OBVIOUS
  <2>2. Capacity \in Nat /\ Capacity + 1 \in Nat /\ c = Capacity * (Capacity + 1)
    BY <2>1, KeyFacts
  <2>3. c \in Nat
    BY <2>2
  <2>4. PICK E : E = {2 * i : i \in 1..c}
    OBVIOUS
  <2>5. E \in SUBSET Nat /\ \A e \in E : e <= 2 * c
    BY <2>3, <2>4
  <2>6. IsFiniteSet(E)
    BY <2>3, <2>5, FS_BoundedSetOfNaturals
  <2>7. Keys = OpKeys \union E
    BY <2>1, <2>4 DEF Keys
  <2>8. QED
    BY <1>1, <2>6, <2>7, FS_Union
<1>3. HeldKeys \in SUBSET Keys /\ Counters \in SUBSET Procs
  BY DEF HeldKeys, Counters
<1>4. IsFiniteSet(HeldKeys) /\ IsFiniteSet(Counters)
  BY <1>1, <1>2, <1>3, FS_Subset
<1>5. QED
  BY <1>1, <1>2, <1>4, FS_CardinalityType

SameCounting(p) == p \in Procs => (WillCount(p)' <=> WillCount(p))

LEMMA OthersCount ==
  ASSUME NEW p, Alone(p), NEW q \in Procs, q # p
  PROVE  WillCount(q)' <=> WillCount(q)
<1>1. t'[q] = t[q]
  BY DEF Alone, Threads
<1>2. Splitting(q)' <=> Splitting(q)
  BY <1>1 DEF Splitting
<1>3. QED
  BY <1>1, <1>2 DEF WillCount

LEMMA CountStays ==
  ASSUME CountOK, NEW p, Alone(p), SameCounting(p), size_est' = size_est, HeldKeys' = HeldKeys
  PROVE  CountOK'
<1>1. \A q \in Procs : WillCount(q)' <=> WillCount(q)
  BY OthersCount DEF SameCounting
<1>2. Counters' = Counters
  BY <1>1 DEF Counters
<1>3. QED
  BY <1>2 DEF CountOK

LEMMA SameHeld ==
  ASSUME Leaves' = Leaves, \A n \in Leaves : node'[n].keys = node[n].keys
  PROVE  HeldKeys' = HeldKeys
<1>1. \A k : \A n \in Leaves : Holds(n, k)' <=> Holds(n, k)
  BY DEF Holds
<1>2. \A k \in Keys : (\E n \in Leaves : Holds(n, k)') <=> (\E n \in Leaves : Holds(n, k))
  BY <1>1
<1>3. QED
  BY <1>2 DEF HeldKeys

LEMMA SameKeysHeld ==
  ASSUME SameKeys
  PROVE  HeldKeys' = HeldKeys
<1>1. Leaves' = Leaves /\ \A n \in Leaves : node'[n].keys = node[n].keys
  BY DEF Leaves, SameKeys, SameTree
<1>2. QED
  BY <1>1, SameHeld

\* Steps that change no keys.
LEMMA CountKept ==
  ASSUME CountOK, NEW p, Alone(p), SameCounting(p), UNCHANGED size_est, UNCHANGED node \/ SameKeys
  PROVE  CountOK'
<1>1. SameKeys
  BY DEF SameKeys, SameTree
<1>2. QED
  BY <1>1, SameKeysHeld, CountStays

\* Another key, and a thread that is to count it.
LEMMA CountMore ==
  ASSUME CountOK, TreeOK, NEW p \in Procs, Alone(p), ~WillCount(p), WillCount(p)', size_est' = size_est,
         NEW k, k \notin HeldKeys, HeldKeys' = HeldKeys \union {k}
  PROVE  CountOK'
<1>1. \A q \in Procs : q # p => (WillCount(q)' <=> WillCount(q))
  BY OthersCount
<1>2. Counters' = Counters \union {p} /\ p \notin Counters
  BY <1>1 DEF Counters
<1>3. PICK C, H : C = Cardinality(Counters) /\ H = Cardinality(HeldKeys)
  OBVIOUS
<1>4. /\ Cardinality(Counters') = C + 1
      /\ Cardinality(HeldKeys') = H + 1
  BY <1>2, <1>3, HeldFinite, FS_AddElement
<1>5. size_est \in Nat /\ C \in Nat /\ H \in Nat /\ size_est + C = H
  BY <1>3, HeldFinite DEF TreeOK, CountOK
<1>6. size_est' + Cardinality(Counters') = Cardinality(HeldKeys')
  BY <1>4, <1>5
<1>7. QED
  BY <1>6 DEF CountOK

LEMMA CountCounted ==
  ASSUME Core, CountOK, NEW p \in Threads, Count(p)
  PROVE  CountOK'
<1>1. /\ p \in Procs /\ Alone(p) /\ t[p].pc = "count" /\ t'[p].pc = "done"
      /\ UNCHANGED node /\ size_est' = size_est + 1
  BY CountFacts
<1>2. WillCount(p) /\ ~WillCount(p)'
  BY <1>1 DEF WillCount, Splitting, Climbing, Parents, Ending
<1>3. \A q \in Procs : q # p => (WillCount(q)' <=> WillCount(q))
  BY <1>1, OthersCount
<1>4. Counters' = Counters \ {p} /\ p \in Counters
  BY <1>1, <1>2, <1>3 DEF Counters
<1>5. HeldKeys' = HeldKeys
  <2>1. SameKeys
    BY <1>1 DEF SameKeys, SameTree
  <2>2. QED
    BY <2>1, SameKeysHeld
<1>6. PICK C, H : C = Cardinality(Counters) /\ H = Cardinality(HeldKeys)
  OBVIOUS
<1>7. Cardinality(Counters') = C - 1 /\ Cardinality(HeldKeys') = H
  BY <1>4, <1>5, <1>6, HeldFinite, FS_RemoveElement
<1>8. size_est \in Nat /\ C \in Nat /\ H \in Nat /\ size_est + C = H
  BY <1>6, HeldFinite DEF Core, TypesOK, TreeOK, CountOK
<1>9. size_est' + Cardinality(Counters') = Cardinality(HeldKeys')
  BY <1>1, <1>7, <1>8
<1>10. QED
  BY <1>9 DEF CountOK

\* A key the leaf for it does not hold is nowhere.
LEMMA NotHeld ==
  ASSUME Core, NEW R, RangesOK(R), NEW n \in Leaves, NEW k \in R[n], k \in Nat, ~Holds(n, k)
  PROVE  k \notin HeldKeys
<1> SUFFICES ASSUME NEW m \in Leaves, Holds(m, k) PROVE FALSE
  BY DEF HeldKeys
<1>1. m # n /\ m \in DOMAIN node
  BY DEF Leaves
<1>2. k \in R[m]
  BY <1>1 DEF RangesOK, KeysIn, Holds
<1>3. QED
  BY <1>1, <1>2 DEF RangesOK, LeavesDivide

\* No leaf gets or loses a key or a value.
LeavesSame ==
  /\ Leaves' = Leaves
  /\ \A n \in Leaves : node'[n].keys = node[n].keys /\ node'[n].vals = node[n].vals

\* A step of p that changes neither the records nor what is to be counted.
SameRecords(p) == Alone(p) /\ LeavesSame /\ SameCounting(p) /\ size_est' = size_est

LEMMA LeavesSameIf ==
  ASSUME DOMAIN node' = DOMAIN node,
         \A n \in DOMAIN node : SameTree(n) /\ node'[n].vals = node[n].vals
  PROVE  LeavesSame
<1>1. Leaves' = Leaves
  BY DEF Leaves, SameTree
<1>2. QED
  BY <1>1 DEF LeavesSame, Leaves, SameTree

LEMMA LockLeaves ==
  ASSUME NEW n, NEW b, SetLock(n, b) \/ node' = node
  PROVE  LeavesSame
<1>1. CASE SetLock(n, b)
  BY <1>1, LeavesSameIf DEF SetLock, SameTree
<1>2. CASE node' = node
  BY <1>2, LeavesSameIf DEF SameTree
<1>3. QED
  BY <1>1, <1>2

LEMMA CountRecords ==
  ASSUME CountOK, NEW p, SameRecords(p)
  PROVE  CountOK'
<1>1. HeldKeys' = HeldKeys
  BY SameHeld DEF SameRecords, LeavesSame
<1>2. QED
  BY <1>1, CountStays DEF SameRecords

LEMMA QuietRecords ==
  ASSUME NEW p, Alone(p), UNCHANGED <<node, size_est>>, SameCounting(p)
  PROVE  SameRecords(p)
<1>1. LeavesSame
  BY LockLeaves
<1>2. QED
  BY <1>1 DEF SameRecords

\* Where threads look for their leaf.
LEMMA SearchPcs ==
  ASSUME Core, NEW p \in Threads,
         \/ LoadRoot(p) \/ LoadRootVersion(p) \/ CheckRoot(p)
         \/ FindChild(p) \/ LoadChildVersion(p) \/ CheckChildLocked(p) \/ CheckChildVersion(p)
         \/ WalkVersion(p) \/ WalkNext(p) \/ ReadLeaf(p) \/ ScanLeaf(p)
         \/ CheckLocked(p) \/ CheckChanged(p) \/ ScanVersion(p)
  PROVE  Walked(p) /\ t[p].pc \in Searching /\ t'[p].pc \in Searching
<1>1. Arrive(p) \in Searching
  BY Arrives
<1> USE DEF Searching, AtRoot, AtInner, Reading
<1>2. CASE LoadRoot(p) \/ LoadRootVersion(p)
  BY <1>2, LoadRootFacts, LoadRootVersionFacts
<1>3. CASE CheckRoot(p)
  <2>1. Walked(p) /\ t[p].pc = "rootparent" /\ t'[p].pc \in {"root", "child", Arrive(p)}
    BY <1>3, CheckRootFacts
  <2>2. QED
    BY <1>1, <2>1
<1>4. CASE FindChild(p) \/ LoadChildVersion(p) \/ CheckChildLocked(p)
  BY <1>4, FindChildFacts, LoadChildVersionFacts, CheckChildLockedFacts
<1>5. CASE CheckChildVersion(p)
  <2>1. Walked(p) /\ t[p].pc = "childvalid" /\ t'[p].pc \in {"root", "child", Arrive(p)}
    BY <1>5, CheckChildVersionFacts
  <2>2. QED
    BY <1>1, <2>1
<1>6. CASE WalkVersion(p)
  BY <1>6, WalkVersionFacts
<1>7. CASE WalkNext(p)
  <2>1. Walked(p) /\ t[p].pc = "walknext" /\ t'[p].pc \in {"walkver", Arrive(p)}
    BY <1>7, WalkNextFacts
  <2>2. QED
    BY <1>1, <2>1
<1>8. CASE ReadLeaf(p) \/ ScanLeaf(p)
  BY <1>8, ReadLeafFacts, ScanLeafFacts
<1>9. CASE CheckLocked(p) \/ CheckChanged(p)
  BY <1>9, CheckLockedFacts, CheckChangedFacts
<1>10. CASE ScanVersion(p)
  BY <1>10, ScanVersionFacts
<1>11. QED
  BY <1>2, <1>3, <1>4, <1>5, <1>6, <1>7, <1>8, <1>9, <1>10

LEMMA SearchRecords ==
  ASSUME Core, NEW p \in Threads,
         \/ LoadRoot(p) \/ LoadRootVersion(p) \/ CheckRoot(p)
         \/ FindChild(p) \/ LoadChildVersion(p) \/ CheckChildLocked(p) \/ CheckChildVersion(p)
         \/ WalkVersion(p) \/ WalkNext(p) \/ ReadLeaf(p) \/ ScanLeaf(p)
         \/ CheckLocked(p) \/ CheckChanged(p) \/ ScanVersion(p)
  PROVE  SameRecords(p)
<1>1. Walked(p) /\ t[p].pc \in Searching /\ t'[p].pc \in Searching
  BY SearchPcs
<1>2. Alone(p) /\ UNCHANGED <<node, size_est>>
  BY <1>1 DEF Walked, Still
<1>3. ~WillCount(p) /\ ~WillCount(p)'
  BY <1>1 DEF WillCount, Splitting, Searching, AtRoot, AtInner, Reading, Climbing, Parents, Ending
<1>4. QED
  BY <1>2, <1>3, QuietRecords DEF SameCounting

LEMMA CallRecords ==
  ASSUME Core, NEW p \in Threads,
         \/ p \in Procs /\ Start(p)
         \/ p \in Scanners /\ StartScan(p)
         \/ Finish(p) \/ Accept(p) \/ ScanAccept(p)
  PROVE  SameRecords(p)
<1>0. DOMAIN t = Threads /\ LocalsOK(p)
  BY LocalFacts DEF Core, TypesOK
<1>1. CASE p \in Procs /\ Start(p)
  <2>1. Alone(p) /\ UNCHANGED <<node, size_est>> /\ t[p].pc = "idle" /\ t'[p].pc = "root"
    BY <1>1, StartFacts
  <2>2. ~WillCount(p) /\ ~WillCount(p)'
    BY <2>1 DEF WillCount, Splitting, Climbing, Parents, Ending
  <2>3. QED
    BY <2>1, <2>2, QuietRecords DEF SameCounting
<1>2. CASE p \in Scanners /\ StartScan(p)
  <2>1. PICK k : SetFrom(p, "root", k)
    BY <1>2 DEF StartScan, SetFrom
  <2>2. Alone(p) /\ UNCHANGED <<node, size_est>> /\ p \notin Procs
    BY <1>0, <1>2, <2>1, ScanStartDoes, ThreadsAssumption DEF StartScan, tree
  <2>3. QED
    BY <2>2, QuietRecords DEF SameCounting
<1>3. CASE Finish(p)
  <2>1. Alone(p) /\ t[p].pc = "done" /\ t'[p] = NoOp /\ UNCHANGED <<node, size_est>>
    BY <1>3, FinishFacts
  <2>2. t'[p].pc = "idle"
    BY <2>1 DEF NoOp
  <2>3. ~WillCount(p) /\ ~WillCount(p)'
    BY <2>1, <2>2 DEF WillCount, Splitting, Climbing, Parents, Ending
  <2>4. QED
    BY <2>1, <2>3, QuietRecords DEF SameCounting
<1>4. CASE Accept(p)
  <2>1. Alone(p) /\ t[p].pc = "valid" /\ t'[p].pc = "done" /\ UNCHANGED <<node, size_est>>
    BY <1>4, AcceptFacts
  <2>2. ~WillCount(p) /\ ~WillCount(p)'
    BY <2>1 DEF WillCount, Splitting, Climbing, Parents, Ending
  <2>3. QED
    BY <2>1, <2>2, QuietRecords DEF SameCounting
<1>5. CASE ScanAccept(p)
  <2>1. Alone(p) /\ p \notin Procs /\ UNCHANGED <<node, size_est>>
    BY <1>5, ScanAcceptFacts, ThreadsAssumption
  <2>2. QED
    BY <2>1, QuietRecords DEF SameCounting
<1>6. QED
  BY <1>1, <1>2, <1>3, <1>4, <1>5

LEMMA LockRecords ==
  ASSUME Core, NEW p \in Threads, LockLeaf(p) \/ LockedStale(p) \/ NotFound(p)
  PROVE  SameRecords(p)
<1>1. CASE LockLeaf(p)
  <2>1. /\ Alone(p) /\ t[p].pc = "lock" /\ t'[p].pc = "lockver" /\ SetLock(t[p].cur, TRUE)
        /\ size_est' = size_est
    BY <1>1, LockLeafFacts
  <2>2. ~WillCount(p) /\ ~WillCount(p)'
    BY <2>1 DEF WillCount, Splitting, Climbing, Parents, Ending
  <2>3. QED
    BY <2>1, <2>2, LockLeaves DEF SameRecords, SameCounting
<1>2. CASE LockedStale(p)
  <2>1. /\ Alone(p) /\ t[p].pc = "lockver" /\ t'[p].pc \in {"act", "walkver"}
        /\ SetLock(t[p].cur, FALSE) \/ node' = node
        /\ size_est' = size_est
    BY <1>2, LockedStaleFacts
  <2>2. ~WillCount(p) /\ ~WillCount(p)'
    BY <2>1 DEF WillCount, Splitting, Climbing, Parents, Ending
  <2>3. QED
    BY <2>1, <2>2, LockLeaves DEF SameRecords, SameCounting
<1>3. CASE NotFound(p)
  <2>1. /\ Alone(p) /\ t[p].pc = "act" /\ t'[p].pc = "unlock" /\ t'[p].after = t[p].after
        /\ UNCHANGED <<node, size_est>>
    BY <1>3, NotFoundFacts
  <2>2. HeldOK(p)
    BY <2>1, ActFacts
  <2>3. t[p].after = "done"
    BY <2>1, <2>2 DEF HeldOK, Ending, Climbing, Parents
  <2>4. ~WillCount(p) /\ ~WillCount(p)'
    BY <2>1, <2>3 DEF WillCount, Splitting, Climbing, Parents, Ending
  <2>5. QED
    BY <2>1, <2>4, QuietRecords DEF SameCounting
<1>4. QED
  BY <1>1, <1>2, <1>3

LEMMA ClimbRecords ==
  ASSUME Core, NEW p \in Threads, LoadParent(p) \/ LockParent(p) \/ CheckParent(p)
  PROVE  SameRecords(p)
<1>1. /\ Alone(p) /\ t[p].pc \in Climbing /\ t'[p].pc \in Climbing
      /\ (\E b : SetLock(t[p].par, b)) \/ node' = node
      /\ size_est' = size_est
  <2>1. CASE LoadParent(p)
    BY <2>1, LoadParentFacts DEF Still, Climbing, Parents
  <2>2. CASE LockParent(p)
    BY <2>2, LockParentFacts DEF Climbing, Parents
  <2>3. CASE CheckParent(p)
    BY <2>3, CheckParentFacts DEF Climbing, Parents
  <2>4. QED
    BY <2>1, <2>2, <2>3
<1>2. WillCount(p) /\ WillCount(p)'
  BY <1>1 DEF WillCount, Splitting
<1>3. QED
  BY <1>1, <1>2, LockLeaves DEF SameRecords, SameCounting

LEMMA EndRecords ==
  ASSUME Core, NEW p \in Threads, Bump(p) \/ Unlock(p)
  PROVE  SameRecords(p)
<1>1. CASE Bump(p)
  <2>1. /\ Alone(p) /\ t[p].pc \in Ending /\ t'[p].pc \in Ending /\ t'[p].after = t[p].after
        /\ BumpEffect(Head(t[p].todo)) /\ size_est' = size_est
    BY <1>1, BumpFacts DEF Ending
  <2>2. WillCount(p)' <=> WillCount(p)
    BY <2>1 DEF WillCount, Splitting, Climbing, Parents, Ending
  <2>3. LeavesSame
    BY <2>1, LeavesSameIf DEF BumpEffect, SameTree
  <2>4. QED
    BY <2>1, <2>2, <2>3 DEF SameRecords, SameCounting
<1>2. CASE Unlock(p)
  <2>1. /\ Alone(p) /\ t[p].pc = "unlock" /\ t'[p].after = t[p].after
        /\ t'[p].pc = "unlock" \/ t'[p].pc = t[p].after
        /\ SetLock(Head(t[p].held), FALSE) /\ size_est' = size_est
    BY <1>2, UnlockFacts
  <2>2. t[p].after \in {"done", "count", "parent"}
    BY <2>1, EndFacts DEF Ending, ThreadOK
  <2>3. WillCount(p)' <=> WillCount(p)
    BY <2>1, <2>2 DEF WillCount, Splitting, Climbing, Parents, Ending
  <2>4. QED
    BY <2>1, <2>3, LockLeaves DEF SameRecords, SameCounting
<1>3. QED
  BY <1>1, <1>2

\* Steps that change internal nodes.
LEMMA LeavesSameGrown ==
  ASSUME NEW new, new \notin DOMAIN node, DOMAIN node' \in {DOMAIN node, DOMAIN node \union {new}},
         new \in DOMAIN node' => ~node'[new].leaf,
         \A n \in DOMAIN node :
           /\ node'[n].leaf = node[n].leaf
           /\ node[n].leaf => node'[n].keys = node[n].keys /\ node'[n].vals = node[n].vals
  PROVE  LeavesSame
<1>1. \A n : n \in DOMAIN node' /\ node'[n].leaf <=> n \in DOMAIN node /\ node[n].leaf
  OBVIOUS
<1>2. Leaves' = Leaves
  BY <1>1 DEF Leaves
<1>3. QED
  BY <1>2 DEF LeavesSame, Leaves

LEMMA InnerRecords ==
  ASSUME Core, NEW p \in Threads, NewRoot(p) \/ InsertParent(p) \/ SplitParent(p)
  PROVE  SameRecords(p)
<1>0. node \in Seq(Node) /\ TreeOK
  BY DEF Core, TypesOK, TreeOK
<1>1. t[p].pc \in Climbing /\ Splitting(p) /\ p \in Procs
  <2>1. t[p].pc \in {"newroot", "insertparent", "splitparent"}
    BY NewRootFacts, InsertParentFacts, SplitParentFacts
  <2>2. t[p].pc \in Climbing
    BY <2>1 DEF Climbing, Parents
  <2>3. QED
    BY <2>2, ClimbFacts
<1>2. PICK l, r, q : l = t[p].left /\ r = t[p].right /\ q = t[p].par
  OBVIOUS
<1>3. l \in DOMAIN node /\ r \in DOMAIN node
  BY <1>1, <1>2, ClimbFacts
<1>4. PICK new : new = Len(node) + 1
  OBVIOUS
<1>5. new \notin DOMAIN node
  BY <1>0, <1>4
<1>6. CASE NewRoot(p)
  <2>1. /\ Alone(p) /\ t'[p].pc = "bump" /\ t'[p].after = "count" /\ size_est' = size_est
        /\ GrowEffect(l, r, t[p].sep)
    BY <1>2, <1>6, NewRootFacts
  <2>2. /\ DOMAIN node' = DOMAIN node \union {new} /\ ~node'[new].leaf
        /\ \A m \in DOMAIN node : m # l /\ m # r => node'[m] = node[m]
        /\ Reparent(l, new) /\ Reparent(r, new)
    BY <1>4, <2>1 DEF GrowEffect
  <2>3. \A m \in DOMAIN node : /\ node'[m].leaf = node[m].leaf
                               /\ node'[m].keys = node[m].keys /\ node'[m].vals = node[m].vals
    BY <2>2 DEF Reparent
  <2>4. LeavesSame
    BY <1>5, <2>2, <2>3, LeavesSameGrown
  <2>5. WillCount(p) /\ WillCount(p)'
    BY <1>1, <2>1 DEF WillCount, Ending
  <2>6. QED
    BY <2>1, <2>4, <2>5 DEF SameRecords, SameCounting
<1>7. CASE InsertParent(p)
  <2>1. /\ Alone(p) /\ t[p].pc = "insertparent" /\ t'[p].pc = "bump" /\ t'[p].after = "count"
        /\ size_est' = size_est
    BY <1>7, InsertParentFacts
  <2>2. PICK i, j, ks, cs : HungAt(q, r, t[p].sep, i, j, ks, cs) /\ Hung(q, r, ks, cs)
    BY <1>2, <1>7, InsertParentFacts
  <2>3. q \in DOMAIN node /\ ~node[q].leaf
    BY <1>2, <2>1, HangingFacts
  <2>4. /\ DOMAIN node' = DOMAIN node
        /\ \A m \in DOMAIN node : m # q /\ m # r => node'[m] = node[m]
        /\ Reparent(r, q) /\ node'[q].leaf = node[q].leaf
    BY <2>2 DEF Hung
  <2>5. \A m \in DOMAIN node :
          /\ node'[m].leaf = node[m].leaf
          /\ node[m].leaf => node'[m].keys = node[m].keys /\ node'[m].vals = node[m].vals
    BY <2>3, <2>4 DEF Reparent
  <2>6. LeavesSame
    BY <1>5, <2>4, <2>5, LeavesSameGrown
  <2>7. WillCount(p) /\ WillCount(p)'
    BY <1>1, <2>1 DEF WillCount, Ending
  <2>8. QED
    BY <2>1, <2>6, <2>7 DEF SameRecords, SameCounting
<1>8. CASE SplitParent(p)
  <2>1. /\ Alone(p) /\ t[p].pc = "splitparent" /\ t'[p].pc = "bump" /\ t'[p].after = "parent"
        /\ size_est' = size_est
    BY <1>8, SplitParentFacts
  <2>2. PICK k2, i, j, cut, all, kids, ks, cs, rks, rcs :
          NodeSplit(q, r, t[p].sep, k2, i, j, cut, all, kids, ks, cs, rks, rcs)
    BY <1>2, <1>8, SplitParentFacts
  <2>3. q \in DOMAIN node /\ ~node[q].leaf /\ q # r /\ node[r].parent = Nil /\ q # 0
    BY <1>2, <2>1, HangingFacts
  <2>4. /\ HungAt(q, r, t[p].sep, i, j, all, kids) /\ PartEffect(q, r, ks, cs, rks, rcs)
        /\ cut + 1 \in 1..Len(kids) /\ CutAt(Nat, kids, cut + 1, cs, rcs)
    <3>1. /\ HungAt(q, r, t[p].sep, i, j, all, kids) /\ PartEffect(q, r, ks, cs, rks, rcs)
          /\ cut \in 1..(Capacity - 1) /\ Len(kids) = Capacity + 2 /\ CutAt(Nat, kids, cut + 1, cs, rcs)
      BY <2>2 DEF NodeSplit
    <3>2. cut + 1 \in 1..Len(kids)
      BY <3>1, KeyFacts
    <3>3. QED
      BY <3>1, <3>2
  <2>5. PartKids(q, r, cs, rcs)
    BY <1>3, <2>3, <2>4, PartKidsFacts
  <2>6. q \notin ToSet(rcs)
    BY <2>5 DEF PartKids
  <2>7. PartDone(q, r, ks, cs, rks, rcs, new)
    BY <1>0, <1>3, <1>4, <2>3, <2>4, <2>6, PartNodes
  <2>8. /\ DOMAIN node' = DOMAIN node \union {new} /\ node'[new].leaf = FALSE
        /\ \A m \in DOMAIN node :
             /\ node'[m].leaf = node[m].leaf /\ node'[m].vals = node[m].vals
             /\ m # q => node'[m].keys = node[m].keys
    BY <2>7 DEF PartDone
  <2>9. LeavesSame
    BY <1>5, <2>3, <2>8, LeavesSameGrown
  <2>10. WillCount(p) /\ WillCount(p)'
    BY <1>1, <2>1 DEF WillCount, Splitting, Ending
  <2>11. QED
    BY <2>1, <2>9, <2>10 DEF SameRecords, SameCounting
<1>9. QED
  BY <1>6, <1>7, <1>8

\* A value written over another one.
LEMMA WriteCounted ==
  ASSUME Core, CountOK, NEW p \in Threads, WriteInPlace(p) \/ Overwrite(p)
  PROVE  CountOK'
<1>1. t[p].pc = "act" /\ p \in Procs
  BY ActFacts, WriteInPlaceFacts, OverwriteFacts
<1>2. HeldOK(p) /\ t[p].cur \in DOMAIN node
  BY <1>1, ActFacts
<1>3. t[p].after = "done"
  BY <1>1, <1>2 DEF HeldOK, Ending, Climbing, Parents
<1>4. /\ Alone(p) /\ t'[p].pc \in Ending /\ t'[p].after = "done" /\ size_est' = size_est
      /\ \E i, v, b : WriteEffect(t[p].cur, i, v, b)
  BY <1>3, WriteInPlaceFacts, OverwriteFacts DEF Ending
<1>5. SameKeys
  BY <1>4 DEF WriteEffect, SameKeys, SameTree
<1>6. ~WillCount(p) /\ ~WillCount(p)'
  BY <1>1, <1>4 DEF WillCount, Splitting, Climbing, Parents, Ending
<1>7. QED
  BY <1>4, <1>5, <1>6, CountKept DEF SameCounting

\* A key inserted.
LEMMA ShiftCounted ==
  ASSUME Core, ChainOK, NEW R, Known(R), CountOK, NEW p \in Threads, Shift(p)
  PROVE  CountOK'
<1>0. TreeOK /\ RangesOK(R)
  BY DEF Core, TypesOK, Known
<1>1. PICK n : n = t[p].cur
  OBVIOUS
<1>2. PICK k : k = op[p].key
  OBVIOUS
<1>3. PICK i : i = Slot(n, k) + 1
  OBVIOUS
<1>4. /\ Alone(p) /\ t[p].pc = "act" /\ t'[p].pc = "bump" /\ t'[p].after = "count"
      /\ size_est' = size_est /\ ~Holds(n, k) /\ ShiftEffect(n, i, k, op[p].val)
  BY <1>1, <1>2, <1>3, ShiftFacts
<1>5. p \in Procs /\ k \in Keys /\ k \in Nat
  BY <1>2, <1>4, ActFacts
<1>6. n \in Leaves /\ n \in DOMAIN node /\ node[n].leaf /\ k \in R[n]
  BY <1>1, <1>2, <1>4, <1>5, AtALeaf DEF AtLeaf
<1>7. PICK all : all = InsertAt(node[n].keys, i, k)
  OBVIOUS
<1>8. Inserted(Keys, node[n].keys, i, k, all)
  <2>1. i \in 1..(Len(node[n].keys) + 1) /\ node[n].keys \in Seq(Keys)
    <3>1. op[p].val \in Maybe
      BY <1>4, ActFacts, ShiftFacts
    <3>2. QED
      BY <1>0, <1>3, <1>5, <1>6, <3>1, InsertTypes, LeafFacts
  <2>2. QED
    BY <1>5, <1>7, <2>1, InsertFacts
<1>9. Sorted(node[n].keys)
  BY <1>6 DEF ChainOK
<1>10. /\ \A j \in DOMAIN all : all[j] = k \/ \E m \in DOMAIN node[n].keys : all[j] = node[n].keys[m]
       /\ \A m \in DOMAIN node[n].keys : \E j \in DOMAIN all : all[j] = node[n].keys[m]
       /\ i \in DOMAIN all /\ all[i] = k
  BY <1>0, <1>3, <1>5, <1>4, <1>6, <1>8, <1>9, InsertSorted
<1>11. /\ DOMAIN node' = DOMAIN node /\ \A m \in DOMAIN node : m # n => node'[m] = node[m]
       /\ node'[n].keys = all /\ node'[n].leaf = node[n].leaf
  BY <1>4, <1>7 DEF ShiftEffect
<1>12. Leaves' = Leaves /\ Leaves \subseteq DOMAIN node
  BY <1>11 DEF Leaves
<1>13. \A x : Holds(n, x)' <=> x = k \/ Holds(n, x)
  BY <1>10, <1>11 DEF Holds
<1>14. \A m \in Leaves : m # n => \A x : Holds(m, x)' <=> Holds(m, x)
  BY <1>11, <1>12 DEF Holds
<1>15. HeldKeys' = HeldKeys \union {k}
  <2>1. \A x \in Keys : (\E m \in Leaves : Holds(m, x)') <=> x = k \/ (\E m \in Leaves : Holds(m, x))
    BY <1>6, <1>13, <1>14
  <2>2. QED
    BY <1>5, <1>12, <2>1 DEF HeldKeys
<1>16. k \notin HeldKeys
  BY <1>0, <1>4, <1>5, <1>6, NotHeld
<1>17. ~WillCount(p) /\ WillCount(p)'
  BY <1>4 DEF WillCount, Splitting, Climbing, Parents, Ending
<1>18. QED
  BY <1>0, <1>4, <1>5, <1>15, <1>16, <1>17, CountMore

LEMMA SplitLeafCounted ==
  ASSUME Core, ChainOK, NEW R, Known(R), CountOK, NEW p \in Threads, SplitLeaf(p)
  PROVE  CountOK'
<1>0. TreeOK /\ RangesOK(R)
  BY DEF Core, TypesOK, Known
<1>1. PICK n : n = t[p].cur
  OBVIOUS
<1>2. PICK k : k = op[p].key
  OBVIOUS
<1>3. PICK sib, s : LeafParted(p, n, sib, k, s)
  BY <1>1, <1>2, LeafParts
<1>4. /\ Alone(p) /\ p \in Procs /\ t[p].pc = "act" /\ t'[p].pc = "parent" /\ size_est' = size_est
      /\ k \in Keys /\ ~Holds(n, k)
      /\ \A x : Occurs(node'[n].keys, x) \/ Occurs(node'[sib].keys, x) <=> x = k \/ Occurs(node[n].keys, x)
  BY <1>3 DEF LeafParted
<1>5. n \in Leaves /\ k \in R[n] /\ k \in Nat
  <2>1. k \in Nat
    BY <1>4, KeyFacts
  <2>2. QED
    BY <1>1, <1>2, <1>4, <2>1, AtALeaf DEF AtLeaf
<1>6. /\ Leaves' = Leaves \union {sib} /\ Leaves \subseteq DOMAIN node
      /\ \A m \in DOMAIN node : m # n => node'[m] = node[m]
  BY <1>0, <1>3, LeafPartedLeaves
<1>7. \A x : Holds(n, x)' \/ Holds(sib, x)' <=> x = k \/ Holds(n, x)
  BY <1>4 DEF Holds, Occurs
<1>8. \A m \in Leaves : m # n => \A x : Holds(m, x)' <=> Holds(m, x)
  BY <1>6 DEF Holds
<1>9. HeldKeys' = HeldKeys \union {k}
  <2>1. \A x \in Keys : (\E m \in Leaves' : Holds(m, x)') <=> x = k \/ (\E m \in Leaves : Holds(m, x))
    BY <1>5, <1>6, <1>7, <1>8
  <2>2. QED
    BY <1>4, <2>1 DEF HeldKeys
<1>10. k \notin HeldKeys
  BY <1>0, <1>4, <1>5, NotHeld
<1>11. ~WillCount(p) /\ WillCount(p)'
  BY <1>4 DEF WillCount, Splitting, Climbing, Parents, Ending
<1>12. QED
  BY <1>0, <1>4, <1>9, <1>10, <1>11, CountMore

\* The first even numbers are as many as their halves.
LEMMA Evens ==
  ASSUME NEW n \in Nat
  PROVE  Cardinality({2 * x : x \in 1..n}) = n
<1>1. PICK E : E = {2 * x : x \in 1..n}
  OBVIOUS
<1>2. PICK f : f = [x \in 1..n |-> 2 * x]
  OBVIOUS
<1>3. f \in [1..n -> E]
  BY <1>1, <1>2
<1>4. \A x, y \in 1..n : f[x] = f[y] => x = y
  <2> SUFFICES ASSUME NEW x \in 1..n, NEW y \in 1..n, f[x] = f[y] PROVE x = y
    OBVIOUS
  <2>1. x \in Nat /\ y \in Nat /\ 2 * x = 2 * y
    BY <1>2
  <2>2. QED
    BY <2>1
<1>5. \A e \in E : \E x \in 1..n : f[x] = e
  BY <1>1, <1>2
<1>6. f \in Bijection(1..n, E)
  BY <1>3, <1>4, <1>5 DEF Bijection, Injection, Surjection, IsInjective
<1>7. ExistsBijection(1..n, E)
  BY <1>6 DEF ExistsBijection
<1>8. IsFiniteSet(1..n) /\ Cardinality(1..n) = n
  BY FS_Interval, FirstCount
<1>9. Cardinality(E) = n
  BY <1>7, <1>8, FS_Bijection
<1>10. QED
  BY <1>1, <1>9

LEMMA InitCount ==
  ASSUME Init
  PROVE  CountOK
<1>1. PICK n, m : Laden(n, m) /\ (m > 1 => LadenRoot(m))
  BY InitLaden
<1>2. /\ n \in Nat /\ m \in Nat /\ m >= 1 /\ m <= Capacity + 1 /\ n - (m - 1) * Capacity \in 1..Capacity
      /\ Leaves = 1..m /\ size_est = n /\ Capacity \in Nat /\ Capacity >= 3
      /\ \A p \in Threads : t[p] = NoOp
      /\ \A i \in 1..m :
           /\ node[i].keys \in Seq(Keys) /\ DOMAIN node[i].keys = 1..WidthOf(i, n, m)
           /\ \A j \in 1..WidthOf(i, n, m) : node[i].keys[j] = 2 * ((i - 1) * Capacity + j)
  BY <1>1, KeyFacts DEF Laden
<1>3. PICK c : c = Capacity
  OBVIOUS
<1>4. PICK d : d = (m - 1) * c
  OBVIOUS
<1>5. m - 1 \in Nat /\ d \in Nat /\ d + 1 <= n /\ n <= d + c /\ c \in Nat /\ c >= 3
  <2>1. m - 1 \in Nat
    BY <1>2
  <2>2. d \in Nat
    BY <1>3, <1>4, <2>1, Steps
  <2>3. n - d \in 1..c
    BY <1>2, <1>3, <1>4
  <2>4. QED
    BY <1>2, <1>3, <2>1, <2>2, <2>3
<1>6. ASSUME NEW i \in 1..m, NEW a, a = (i - 1) * c
      PROVE  /\ a \in Nat /\ i \in Nat /\ i <= m
             /\ i < m => WidthOf(i, n, m) = c /\ a + c <= d
             /\ i = m => WidthOf(i, n, m) = n - d /\ a = d
  <2>1. i \in Nat /\ i - 1 \in Nat /\ i <= m
    BY <1>2
  <2>2. a \in Nat
    BY <1>3, <1>6, <2>1, Steps
  <2>3. i < m => WidthOf(i, n, m) = c
    BY <1>3 DEF WidthOf
  <2>4. i < m => a + c <= d
    <3>1. i < m => i - 1 < m - 1
      BY <1>2, <2>1
    <3>2. QED
      BY <1>3, <1>4, <1>5, <1>6, <2>1, <3>1, Steps
  <2>5. i = m => WidthOf(i, n, m) = n - d /\ a = d
    BY <1>2, <1>3, <1>4, <1>6 DEF WidthOf
  <2>6. QED
    BY <2>1, <2>2, <2>3, <2>4, <2>5
\* The keys are the first n even numbers.
<1>7. ASSUME NEW k, k \in HeldKeys PROVE \E x \in 1..n : k = 2 * x
  <2>1. PICK i \in 1..m : Holds(i, k)
    BY <1>2, <1>7 DEF HeldKeys
  <2>2. PICK a : a = (i - 1) * c
    OBVIOUS
  <2>3. PICK j \in 1..WidthOf(i, n, m) : k = 2 * (a + j)
    <3>1. PICK j \in DOMAIN node[i].keys : node[i].keys[j] = k
      BY <2>1 DEF Holds
    <3>2. QED
      BY <1>2, <1>3, <2>2, <3>1
  <2>4. a + j \in 1..n
    <3>1. CASE i < m
      <4>1. a \in Nat /\ a + c <= d /\ j \in 1..c
        BY <1>6, <2>2, <3>1
      <4>2. QED
        BY <1>2, <1>5, <4>1
    <3>2. CASE i = m
      <4>1. a = d /\ j \in 1..(n - d)
        BY <1>6, <2>2, <3>2
      <4>2. QED
        BY <1>2, <1>5, <4>1
    <3>3. QED
      BY <1>2, <1>6, <2>2, <3>1, <3>2
  <2>5. QED
    BY <2>3, <2>4
<1>8. ASSUME NEW x \in 1..n PROVE 2 * x \in HeldKeys
  <2>1. PICK i : i = (x + c - 1) \div c
    OBVIOUS
  <2>2. x \in 1..(Capacity * (Capacity + 1))
    <3>1. m * c \in Nat /\ m * c = d + c
      <4>1. PICK y : y = m - 1
        OBVIOUS
      <4>2. y \in Nat /\ y + 1 = m
        BY <1>2, <1>5, <4>1
      <4>3. QED
        BY <1>3, <1>4, <1>5, <4>1, <4>2, Steps
    <3>2. PICK z : z = c + 1
      OBVIOUS
    <3>3. z \in Nat /\ m <= z /\ m \in Nat
      BY <1>2, <1>3, <1>5, <3>2
    <3>4. m * c <= z * c /\ z * c \in Nat
      BY <1>3, <3>3, Steps
    <3>5. z * c = c * (c + 1)
      BY <1>5, <3>2
    <3>6. x <= c * (c + 1) /\ x \in Nat /\ x >= 1
      BY <1>2, <1>5, <3>1, <3>4, <3>5
    <3>7. c * (c + 1) \in Nat
      BY <3>4, <3>5
    <3>8. QED
      BY <1>3, <3>6, <3>7
  <2>3. i \in 1..(Capacity + 1) /\ x - (i - 1) * Capacity \in 1..Capacity
    BY <1>3, <2>1, <2>2, LeafCount
  <2>4. PICK a : a = (i - 1) * c
    OBVIOUS
  <2>5. PICK j : j = x - a
    OBVIOUS
  <2>6. i \in Nat /\ i >= 1 /\ x \in Nat /\ x <= n /\ j \in 1..c
    BY <1>2, <1>3, <2>3, <2>4, <2>5
  <2>7. i \in 1..m
    <3> SUFFICES ASSUME ~(i <= m) PROVE FALSE
      BY <1>2, <2>6
    <3>1. m - 1 < i - 1 /\ i - 1 \in Nat
      BY <1>2, <2>6
    <3>2. d + c <= a /\ a \in Nat
      BY <1>3, <1>4, <1>5, <2>4, <3>1, Steps
    <3>3. x >= a + 1
      BY <1>5, <2>5, <2>6, <3>2
    <3>4. QED
      BY <1>2, <1>5, <2>6, <3>2, <3>3
  <2>8. /\ a \in Nat
        /\ i < m => WidthOf(i, n, m) = c
        /\ i = m => WidthOf(i, n, m) = n - d /\ a = d
    BY <1>6, <2>4, <2>7
  <2>9. j \in 1..WidthOf(i, n, m)
    <3>1. CASE i < m
      BY <2>6, <2>8, <3>1
    <3>2. CASE i = m
      <4>1. j \in Nat /\ j >= 1 /\ j <= n - d
        BY <1>2, <1>5, <2>5, <2>6, <2>8, <3>2
      <4>2. QED
        BY <1>2, <1>5, <2>8, <3>2, <4>1
    <3>3. QED
      BY <1>2, <2>6, <2>7, <3>1, <3>2
  <2>10. x = a + j
    BY <2>5, <2>6, <2>8
  <2>11. node[i].keys[j] = 2 * x /\ j \in DOMAIN node[i].keys /\ 2 * x \in Keys
    <3>1. /\ node[i].keys[j] = 2 * ((i - 1) * Capacity + j) /\ j \in DOMAIN node[i].keys
          /\ node[i].keys \in Seq(Keys)
      BY <1>2, <2>7, <2>9
    <3>2. node[i].keys[j] \in Keys
      BY <3>1
    <3>3. QED
      BY <1>3, <2>4, <2>10, <3>1, <3>2
  <2>12. QED
    BY <1>2, <2>7, <2>11 DEF HeldKeys, Holds
<1>9. HeldKeys = {2 * x : x \in 1..n}
  BY <1>7, <1>8
<1>10. Cardinality(HeldKeys) = n
  BY <1>2, <1>9, Evens
<1>11. Counters = {}
  <2>1. \A p \in Procs : t[p].pc = "idle"
    BY <1>2 DEF NoOp, Threads
  <2>2. \A p \in Procs : ~WillCount(p)
    BY <2>1 DEF WillCount, Splitting, Climbing, Parents, Ending
  <2>3. QED
    BY <2>2 DEF Counters
<1>12. Cardinality(Counters) = 0
  BY <1>11, FS_EmptySet
<1>13. QED
  BY <1>2, <1>10, <1>12 DEF CountOK

LEMMA NextCount ==
  ASSUME Core, ChainOK, NEW R, Known(R), CountOK, Next
  PROVE  CountOK'
<1>1. CASE \E p \in Procs : Start(p)
  <2>1. PICK p \in Procs : SameRecords(p)
    BY <1>1, CallRecords DEF Threads
  <2>2. QED
    BY <2>1, CountRecords
<1>2. CASE \E s \in Scanners : StartScan(s)
  <2>1. PICK p \in Scanners : SameRecords(p)
    BY <1>2, CallRecords DEF Threads
  <2>2. QED
    BY <2>1, CountRecords
<1>3. CASE \E p \in Threads : Step(p)
  <2> SUFFICES ASSUME NEW p \in Threads, Step(p) PROVE CountOK'
    BY <1>3
  <2>1. CASE Shift(p)
    BY <2>1, ShiftCounted
  <2>2. CASE SplitLeaf(p)
    BY <2>2, SplitLeafCounted
  <2>3. CASE WriteInPlace(p) \/ Overwrite(p)
    BY <2>3, WriteCounted
  <2>4. CASE Count(p)
    BY <2>4, CountCounted
  <2>5. CASE \/ LoadRoot(p) \/ LoadRootVersion(p) \/ CheckRoot(p)
             \/ FindChild(p) \/ LoadChildVersion(p) \/ CheckChildLocked(p) \/ CheckChildVersion(p)
             \/ WalkVersion(p) \/ WalkNext(p) \/ ReadLeaf(p) \/ ScanLeaf(p)
             \/ CheckLocked(p) \/ CheckChanged(p) \/ ScanVersion(p)
    <3>1. SameRecords(p)
      BY <2>5, SearchRecords
    <3>2. QED
      BY <3>1, CountRecords
  <2>6. CASE Finish(p) \/ Accept(p) \/ ScanAccept(p)
    <3>1. SameRecords(p)
      BY <2>6, CallRecords
    <3>2. QED
      BY <3>1, CountRecords
  <2>7. CASE LockLeaf(p) \/ LockedStale(p) \/ NotFound(p)
    <3>1. SameRecords(p)
      BY <2>7, LockRecords
    <3>2. QED
      BY <3>1, CountRecords
  <2>8. CASE \/ LoadParent(p) \/ LockParent(p) \/ CheckParent(p) \/ NewRoot(p) \/ InsertParent(p)
             \/ SplitParent(p) \/ Bump(p) \/ Unlock(p)
    <3>1. SameRecords(p)
      BY <2>8, ClimbRecords, InnerRecords, EndRecords
    <3>2. QED
      BY <3>1, CountRecords
  <2>9. QED
    BY <2>1, <2>2, <2>3, <2>4, <2>5, <2>6, <2>7, <2>8 DEF Step
<1>4. QED
  BY <1>1, <1>2, <1>3 DEF Next

LEMMA IdleCount ==
  ASSUME CountOK, UNCHANGED vars
  PROVE  CountOK'
<1>1. node' = node /\ t' = t /\ size_est' = size_est
  BY DEF vars, tree
<1>2. HeldKeys' = HeldKeys
  BY <1>1 DEF HeldKeys, Leaves, Holds
<1>3. Counters' = Counters
  BY <1>1 DEF Counters, WillCount, Splitting
<1>4. QED
  BY <1>1, <1>2, <1>3 DEF CountOK

\* The counted buffer: the invariant of the two theorems above with the count.
LEMMA CountInvariant == Spec => [](Core /\ Ordered /\ CountOK)
<1>1. Init => Core /\ Ordered /\ CountOK
  BY InitOrdered, InitCount
<1>2. Core /\ Ordered /\ Core' /\ Ordered' /\ CountOK /\ [Next]_vars => CountOK'
  <2>1. ASSUME Core, Ordered, CountOK, Next PROVE CountOK'
    <3>1. PICK R : Known(R)
      BY <2>1 DEF Ordered
    <3>2. QED
      BY <2>1, <3>1, NextCount DEF Ordered
  <2>2. QED
    BY <2>1, IdleCount
<1>3. QED
  BY <1>1, <1>2, OrderInvariant, PTL DEF Spec

LEMMA QuietIs ==
  ASSUME Core, CountOK
  PROVE  QuietTree
<1> SUFFICES ASSUME \A p \in Procs : At(p, "idle")
             PROVE  /\ \A n \in DOMAIN node :
                         ~node[n].locked /\ ~node[n].torn /\ (node[n].parent = Nil <=> n = root)
                    /\ size_est = Cardinality(HeldKeys)
  BY DEF QuietTree, HeldKeys
<1>1. ASSUME NEW p \in Procs
      PROVE  ~Splitting(p) /\ ~WillCount(p) /\ \A n : ~Owns(p, n) /\ ~Tearing(p, n)
  <2>1. t[p].pc = "idle"
    BY DEF At
  <2>2. QED
    BY <2>1 DEF Splitting, WillCount, Owns, Tearing, Climbing, Parents, Ending
<1>2. ASSUME NEW n \in DOMAIN node
      PROVE  ~node[n].locked /\ ~node[n].torn /\ (node[n].parent = Nil <=> n = root)
  <2>1. ~node[n].locked /\ ~node[n].torn
    BY <1>1, <1>2 DEF Core, LocksOK
  <2>2. node[n].parent = Nil <=> n = root
    BY <1>1, <1>2 DEF Core, ShapeOK
  <2>3. QED
    BY <2>1, <2>2
<1>3. size_est = Cardinality(HeldKeys)
  <2>1. Counters = {}
    BY <1>1 DEF Counters
  <2>2. Cardinality(Counters) = 0
    BY <2>1, FS_EmptySet
  <2>3. size_est \in Nat /\ Cardinality(HeldKeys) \in Nat
    BY HeldFinite DEF Core, TypesOK, TreeOK
  <2>4. QED
    BY <2>2, <2>3 DEF CountOK
<1>4. QED
  BY <1>2, <1>3

\* With no call under way no lock and no torn node is left, the root alone has
\* no parent, and size_est is the number of keys in the leaves: every insertion
\* was counted once, whichever splits it took.
THEOREM BufferQuietTree == Spec => []QuietTree
<1>1. Core /\ CountOK => QuietTree
  BY QuietIs
<1>2. QED
  BY <1>1, CountInvariant, PTL
=============================================================================
