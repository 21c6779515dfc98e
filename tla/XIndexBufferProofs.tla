------------------------- MODULE XIndexBufferProofs -------------------------
(***************************************************************************)
(* The structure of the insert buffer for any number of threads, operations  *)
(* and keys, and any node capacity: nodes are well formed, every locked node *)
(* has one owner that will unlock it, every node being changed is locked by   *)
(* the writer that will increment its version, children name their parents,  *)
(* and only the root and the right half of a split under way have none.      *)
(***************************************************************************)
EXTENDS XIndexBuffer, LinkedLists, SequenceTheorems, FiniteSetTheorems

-----------------------------------------------------------------------------
(* Types *)

Maybe == Values \union {None}

Node ==
  [leaf : BOOLEAN, keys : Seq(Keys), vals : Seq(Maybe), kids : Seq(Nat),
   next : Nat, parent : Nat, locked : BOOLEAN, version : Nat, torn : BOOLEAN]

\* Leaves and internal nodes hold what their kind calls for.
Formed(n) ==
  /\ Len(node[n].keys) \in 1..Capacity
  /\ node[n].parent # Nil =>
       node[n].parent \in DOMAIN node /\ ~node[node[n].parent].leaf
  /\ node[n].leaf =>
       /\ Len(node[n].vals) = Len(node[n].keys)
       /\ node[n].next # Nil => node[n].next \in DOMAIN node /\ node[node[n].next].leaf
  /\ ~node[n].leaf =>
       /\ Len(node[n].kids) = Len(node[n].keys) + 1
       /\ \A i \in DOMAIN node[n].kids : node[n].kids[i] \in DOMAIN node

TreeOK ==
  /\ node \in Seq(Node) /\ root \in DOMAIN node /\ size_est \in Nat
  /\ \A n \in DOMAIN node : Formed(n)

Outside == {"idle", "root", "count", "done"}
AtRoot == {"rootver", "rootparent"}
AtInner == {"child", "childver", "childlocked", "childvalid"}
Reading == {"read", "locked", "valid"}
AtLeaf == Reading \union {"walkver", "walknext", "again", "lock", "lockver", "act"}
Parents == {"lockparent", "checkparent", "splitparent", "insertparent"}
Climbing == Parents \union {"parent", "newroot"}
Ending == {"bump", "unlock"}
Places == Outside \union AtRoot \union AtInner \union AtLeaf \union Climbing \union Ending

\* The locals of a thread, by where it is.
ThreadOK(p) ==
  /\ t[p].pc \in Places
  /\ t[p].cur \in Nat /\ t[p].ver \in Nat /\ t[p].nxt \in Nat /\ t[p].nver \in Nat
  /\ t[p].left \in Nat /\ t[p].right \in Nat /\ t[p].par \in Nat /\ t[p].sep \in Nat
  /\ t[p].todo \in Seq(Nat) /\ t[p].held \in Seq(Nat)
  /\ t[p].after \in {"done", "count", "parent"}
  /\ DOMAIN t[p] = DOMAIN NoOp
  /\ t[p].pc \in AtRoot \union AtInner \union AtLeaf => t[p].cur \in DOMAIN node
  /\ t[p].pc \in AtInner => ~node[t[p].cur].leaf
  /\ t[p].pc \in AtLeaf => node[t[p].cur].leaf
  /\ t[p].pc \in AtInner \ {"child"} => t[p].nxt \in DOMAIN node
  /\ p \in Scanners =>
       /\ t[p].pc \in {"idle", "root", "done", "walkver", "walknext", "again"}
                        \union AtRoot \union AtInner \union Reading
       /\ t[p].pc \in {"locked", "valid"} /\ t[p].nxt # Nil =>
            t[p].nxt \in DOMAIN node /\ node[t[p].nxt].leaf
  /\ p \in Procs => t[p].pc # "again" /\ t[p].moved = FALSE

\* Where p is goes with the operation it runs.
OpOK(p) ==
  /\ op[p] \in Abs!Calls \union {Abs!Idle}
  /\ seen[p] \in SUBSET Maybe
  /\ t[p].pc = "idle" <=> op[p] = Abs!Idle
  /\ t[p].pc \in Reading => op[p].kind = "get"
  /\ t[p].pc \in {"lock", "lockver", "act", "count"} \union Climbing \union Ending =>
       op[p].kind # "get"
  /\ t[p].pc \in Climbing => op[p].kind = "put"
  /\ t[p].pc \in Ending /\ t[p].after = "parent" => op[p].kind = "put"
  /\ t[p].pc \in {"idle", "root", "lock", "lockver", "act", "walkver", "walknext"}
                   \union AtRoot \union AtInner \union Reading <=> res[p] = Abs!Undecided

TypesOK ==
  /\ TreeOK
  /\ DOMAIN t = Threads /\ DOMAIN op = Procs /\ DOMAIN seen = Procs /\ DOMAIN res = Procs
  /\ \A p \in Threads : ThreadOK(p)
  /\ \A p \in Procs : OpOK(p)

-----------------------------------------------------------------------------
(* Locks *)

\* p has split t[p].left off t[p].right, which is not in the tree yet.
Splitting(p) ==
  \/ t[p].pc \in Climbing
  \/ t[p].pc \in Ending /\ t[p].after = "parent"

\* The nodes p has locked.
Owns(p, n) ==
  \/ t[p].pc \in {"lockver", "act"} /\ n = t[p].cur
  \/ Splitting(p) /\ n \in {t[p].left, t[p].right}
  \/ t[p].pc \in Parents \ {"lockparent"} /\ n = t[p].par
  \/ t[p].pc \in Ending /\ \E i \in DOMAIN t[p].held : n = t[p].held[i]

\* Those of them whose version is still to be incremented.
Tearing(p, n) ==
  \/ Splitting(p) /\ n = t[p].left
  \/ t[p].pc = "bump" /\ \E i \in DOMAIN t[p].todo : n = t[p].todo[i]

HeldOK(p) ==
  /\ t[p].pc \in Ending =>
       /\ t[p].held # <<>>
       /\ \A i, j \in DOMAIN t[p].held : t[p].held[i] = t[p].held[j] => i = j
       /\ \A i \in DOMAIN t[p].held :
            /\ t[p].held[i] \in DOMAIN node
            /\ Splitting(p) => t[p].held[i] # t[p].left /\ t[p].held[i] # t[p].right
  /\ t[p].pc = "bump" =>
       /\ t[p].todo # <<>>
       /\ \A i \in DOMAIN t[p].todo : \E j \in DOMAIN t[p].held : t[p].todo[i] = t[p].held[j]
  /\ t[p].pc \notin Ending \union Climbing \union {"done", "count"} => t[p].after = "done"

SplitOK(p) ==
  Splitting(p) =>
    /\ t[p].left \in DOMAIN node /\ t[p].right \in DOMAIN node /\ t[p].left # t[p].right
    /\ node[t[p].left].leaf = node[t[p].right].leaf
    /\ node[t[p].left].torn
    /\ node[t[p].right].parent = Nil
    /\ t[p].right # root
    /\ t[p].sep \in Keys
    /\ t[p].pc \in Parents => t[p].par \in DOMAIN node /\ ~node[t[p].par].leaf
    /\ t[p].pc \in Parents \ {"lockparent"} => t[p].par \notin {t[p].left, t[p].right}
    /\ t[p].pc = "newroot" => node[t[p].left].parent = Nil
    /\ t[p].pc \in {"splitparent", "insertparent"} => node[t[p].left].parent = t[p].par
    /\ t[p].pc = "splitparent" => Full(t[p].par)
    /\ t[p].pc = "insertparent" => ~Full(t[p].par)

LocksOK ==
  /\ \A n \in DOMAIN node : node[n].locked => \E p \in Procs : Owns(p, n)
  /\ \A n \in DOMAIN node : node[n].torn => \E p \in Procs : Tearing(p, n)
  /\ \A p \in Procs, n \in DOMAIN node : Owns(p, n) =>
       /\ node[n].locked
       /\ \A q \in Procs : Owns(q, n) => q = p
  /\ \A p \in Procs : HeldOK(p) /\ SplitOK(p)

-----------------------------------------------------------------------------
(* The tree *)

\* Children name their parents, and all nodes but the root and the right
\* halves of splits have one.
ShapeOK ==
  /\ \A n \in DOMAIN node \ Leaves :
       /\ \A i \in DOMAIN node[n].kids : node[node[n].kids[i]].parent = n
       /\ \A i, j \in DOMAIN node[n].kids : node[n].kids[i] = node[n].kids[j] => i = j
  /\ node[root].parent = Nil
  /\ \A n \in DOMAIN node : node[n].parent # n
  /\ \A n \in DOMAIN node : node[n].parent = Nil =>
       n = root \/ \E p \in Procs : Splitting(p) /\ n = t[p].right

\* The child of an internal node that is for k.
ChildFor(n, k) == node[n].kids[SlotAfter(n, k) + 1]

-----------------------------------------------------------------------------
(* Sequences *)

LEMMA SeqFacts ==
  ASSUME NEW S, NEW s \in Seq(S)
  PROVE  /\ Len(s) \in Nat /\ DOMAIN s = 1..Len(s)
         /\ \A i \in 1..Len(s) : s[i] \in S
  OBVIOUS

\* u is s with e at slot i.
Inserted(S, s, i, e, u) ==
  /\ u \in Seq(S) /\ Len(u) = Len(s) + 1
  /\ \A j \in 1..(i - 1) : u[j] = s[j]
  /\ u[i] = e
  /\ \A j \in (i + 1)..(Len(s) + 1) : u[j] = s[j - 1]

LEMMA InsertFacts ==
  ASSUME NEW S, NEW s \in Seq(S), NEW e \in S, NEW i \in 1..(Len(s) + 1)
  PROVE  Inserted(S, s, i, e, InsertAt(s, i, e))
<1> DEFINE a == SubSeq(s, 1, i - 1)
           b == SubSeq(s, i, Len(s))
<1>1. a \in Seq(S) /\ Len(a) = i - 1 /\ \A j \in 1..(i - 1) : a[j] = s[j]
  BY SubSeqProperties, SeqFacts
<1>2. b \in Seq(S) /\ Len(b) = Len(s) - i + 1 /\ \A j \in 1..(Len(s) - i + 1) : b[j] = s[i + j - 1]
  BY SubSeqProperties, SeqFacts
<1>3. <<e>> \in Seq(S) /\ Len(<<e>>) = 1 /\ <<e>>[1] = e
  OBVIOUS
<1> HIDE DEF a, b
<1> DEFINE c == a \o <<e>>
<1>4. c \in Seq(S) /\ Len(c) = i /\ (\A j \in 1..(i - 1) : c[j] = s[j]) /\ c[i] = e
  BY <1>1, <1>3, ConcatProperties
<1> HIDE DEF c
<1> DEFINE u == c \o b
<1>0. Len(s) \in Nat /\ i \in Int
  OBVIOUS
<1>5. u \in Seq(S) /\ Len(u) = Len(s) + 1
  <2>1. u \in Seq(S) /\ Len(u) = Len(c) + Len(b)
    BY <1>2, <1>4, ConcatProperties
  <2>2. QED
    BY <1>0, <1>2, <1>4, <2>1
<1>6. \A j \in 1..(Len(s) + 1) : u[j] = IF j <= i THEN c[j] ELSE b[j - i]
  BY <1>2, <1>4, ConcatProperties
<1>7. \A j \in (i + 1)..(Len(s) + 1) : u[j] = s[j - 1]
  <2> SUFFICES ASSUME NEW j \in (i + 1)..(Len(s) + 1) PROVE u[j] = s[j - 1]
    OBVIOUS
  <2>0. j \in 1..(Len(s) + 1) /\ ~(j <= i) /\ j - i \in 1..(Len(s) - i + 1)
    <3> HIDE DEF u
    <3> QED BY <1>0
  <2>1. u[j] = b[j - i]
    <3> HIDE DEF u
    <3> QED BY <1>6, <2>0
  <2>2. i + (j - i) - 1 = j - 1
    BY <1>0
  <2>3. QED
    BY <1>2, <2>0, <2>1, <2>2
<1>8. u = InsertAt(s, i, e)
  BY DEF u, c, a, b, InsertAt
<1>10. \A j \in 1..(i - 1) : u[j] = s[j]
  BY <1>0, <1>4, <1>6
<1>11. u[i] = e
  BY <1>0, <1>4, <1>6
<1> HIDE DEF u
<1>9. QED
  BY <1>5, <1>7, <1>8, <1>10, <1>11, Zenon DEF Inserted

LEMMA InsertedFrom ==
  ASSUME NEW S, NEW s \in Seq(S), NEW e, NEW i \in 1..(Len(s) + 1), NEW u, Inserted(S, s, i, e, u)
  PROVE  /\ DOMAIN u = 1..(Len(s) + 1) /\ DOMAIN s = 1..Len(s) /\ Len(s) \in Nat /\ u[i] = e
         /\ \A j \in DOMAIN u : j # i =>
              /\ j < i => j \in DOMAIN s /\ u[j] = s[j]
              /\ j > i => j - 1 \in DOMAIN s /\ u[j] = s[j - 1]
              /\ \E m \in DOMAIN s : u[j] = s[m]
         /\ \A m \in DOMAIN s : \E j \in DOMAIN u : u[j] = s[m] /\ j # i
<1>1. /\ u \in Seq(S) /\ Len(u) = Len(s) + 1 /\ u[i] = e
      /\ \A j \in 1..(i - 1) : u[j] = s[j]
      /\ \A j \in (i + 1)..(Len(s) + 1) : u[j] = s[j - 1]
  BY DEF Inserted
<1>2. DOMAIN u = 1..(Len(s) + 1) /\ DOMAIN s = 1..Len(s) /\ Len(s) \in Nat
  BY <1>1
<1>3. ASSUME NEW j \in DOMAIN u, j # i
      PROVE  /\ j < i => j \in DOMAIN s /\ u[j] = s[j]
             /\ j > i => j - 1 \in DOMAIN s /\ u[j] = s[j - 1]
             /\ \E m \in DOMAIN s : u[j] = s[m]
  <2>1. CASE j < i
    <3>1. j \in DOMAIN s /\ u[j] = s[j]
      BY <1>1, <1>2, <2>1
    <3>2. QED
      BY <1>2, <2>1, <3>1
  <2>2. CASE j > i
    <3>1. PICK m : m = j - 1
      OBVIOUS
    <3>2. m \in DOMAIN s
      BY <1>2, <2>2, <3>1
    <3>3. j \in (i + 1)..(Len(s) + 1)
      BY <1>2, <2>2
    <3>4. u[j] = s[m]
      BY <1>1, <3>1, <3>3
    <3>5. QED
      BY <1>2, <2>2, <3>1, <3>2, <3>4
  <2>3. QED
    BY <1>2, <1>3, <2>1, <2>2
<1>4. ASSUME NEW m \in DOMAIN s PROVE \E j \in DOMAIN u : u[j] = s[m] /\ j # i
  <2>1. CASE m < i
    BY <1>1, <1>2, <2>1
  <2>2. CASE m >= i
    <3>1. PICK j : j = m + 1
      OBVIOUS
    <3>2. j \in (i + 1)..(Len(s) + 1) /\ j - 1 = m /\ j # i /\ j \in DOMAIN u
      BY <1>2, <2>2, <3>1
    <3>3. u[j] = s[m]
      BY <1>1, <3>2
    <3>4. QED
      BY <3>2, <3>3
  <2>3. QED
    BY <1>2, <2>1, <2>2
<1>5. QED
  BY <1>1, <1>2, <1>3, <1>4

\* Where the elements of u come from.
InsertedParts(s, i, e, u) ==
  /\ DOMAIN u = 1..(Len(s) + 1) /\ DOMAIN s = 1..Len(s) /\ Len(s) \in Nat /\ u[i] = e
  /\ \A j \in DOMAIN u : j # i =>
       /\ j < i => j \in DOMAIN s /\ u[j] = s[j]
       /\ j > i => j - 1 \in DOMAIN s /\ u[j] = s[j - 1]
       /\ \E m \in DOMAIN s : u[j] = s[m]

LEMMA InsertedIs ==
  ASSUME NEW S, NEW s \in Seq(S), NEW e, NEW i \in 1..(Len(s) + 1), NEW u, Inserted(S, s, i, e, u)
  PROVE  InsertedParts(s, i, e, u)
  BY InsertedFrom DEF InsertedParts

LEMMA InsertedOnce ==
  ASSUME NEW S, NEW s \in Seq(S), NEW e, NEW i \in 1..(Len(s) + 1), NEW u, Inserted(S, s, i, e, u),
         \A a, b \in DOMAIN s : s[a] = s[b] => a = b, \A a \in DOMAIN s : s[a] # e
  PROVE  \A a, b \in DOMAIN u : u[a] = u[b] => a = b
<1> SUFFICES ASSUME NEW a \in DOMAIN u, NEW b \in DOMAIN u, u[a] = u[b], a # b PROVE FALSE
  OBVIOUS
<1>1. /\ DOMAIN u = 1..(Len(s) + 1) /\ DOMAIN s = 1..Len(s) /\ Len(s) \in Nat /\ u[i] = e
      /\ \A j \in DOMAIN u : j # i =>
           /\ j < i => j \in DOMAIN s /\ u[j] = s[j]
           /\ j > i => j - 1 \in DOMAIN s /\ u[j] = s[j - 1]
           /\ \E m \in DOMAIN s : u[j] = s[m]
  BY InsertedFrom
<1>2. a # i /\ b # i
  BY <1>1
<1>3. PICK x : x = IF a < i THEN a ELSE a - 1
  OBVIOUS
<1>4. PICK y : y = IF b < i THEN b ELSE b - 1
  OBVIOUS
<1>5. x \in DOMAIN s /\ u[a] = s[x]
  BY <1>1, <1>2, <1>3
<1>6. y \in DOMAIN s /\ u[b] = s[y]
  BY <1>1, <1>2, <1>4
<1>7. x = y
  BY <1>5, <1>6
<1>8. QED
  BY <1>1, <1>2, <1>3, <1>4, <1>7

\* s is cut into its first c elements and the rest.
CutAt(S, s, c, a, b) ==
  /\ a \in Seq(S) /\ Len(a) = c /\ \A j \in 1..c : a[j] = s[j]
  /\ b \in Seq(S) /\ Len(b) = Len(s) - c /\ \A j \in 1..(Len(s) - c) : b[j] = s[c + j]

LEMMA CutFacts ==
  ASSUME NEW S, NEW s \in Seq(S), NEW c \in 1..Len(s)
  PROVE  CutAt(S, s, c, SubSeq(s, 1, c), SubSeq(s, c + 1, Len(s)))
<1>1. Len(s) \in Nat
  OBVIOUS
<1>2. PICK m : m = c + 1
  OBVIOUS
<1>3. m \in 1..(Len(s) + 1) /\ Len(s) \in (m - 1)..Len(s) /\ Len(s) - m + 1 = Len(s) - c
  BY <1>1, <1>2
<1>4. PICK a : a = SubSeq(s, 1, c)
  OBVIOUS
<1>5. PICK b : b = SubSeq(s, m, Len(s))
  OBVIOUS
<1>6. a \in Seq(S) /\ Len(a) = c /\ \A j \in 1..c : a[j] = s[j]
  BY <1>1, <1>4, SubSeqProperties, SeqFacts
<1>7. b \in Seq(S) /\ Len(b) = Len(s) - c /\ \A j \in 1..(Len(s) - c) : b[j] = s[m + j - 1]
  BY <1>1, <1>3, <1>5, SubSeqProperties, SeqFacts
<1>8. \A j \in 1..(Len(s) - c) : b[j] = s[c + j]
  <2> SUFFICES ASSUME NEW j \in 1..(Len(s) - c) PROVE b[j] = s[c + j]
    OBVIOUS
  <2>1. m + j - 1 = c + j
    BY <1>1, <1>2
  <2>2. QED
    BY <1>7, <2>1
<1>9. CutAt(S, s, c, a, b)
  BY <1>6, <1>7, <1>8 DEF CutAt
<1>10. QED
  BY <1>2, <1>4, <1>5, <1>9

LEMMA SubFacts ==
  ASSUME NEW S, NEW s \in Seq(S), NEW m \in 1..(Len(s) + 1), NEW n \in (m - 1)..Len(s)
  PROVE  LET u == SubSeq(s, m, n)
         IN  /\ u \in Seq(S) /\ Len(u) = n - m + 1
             /\ \A j \in 1..(n - m + 1) : u[j] = s[m + j - 1]
  BY SubSeqProperties, SeqFacts

LEMMA AppendFacts ==
  ASSUME NEW S, NEW s \in Seq(S), NEW e \in S
  PROVE  /\ Append(s, e) \in Seq(S)
         /\ DOMAIN Append(s, e) = DOMAIN s \union {Len(s) + 1}
         /\ \A i \in DOMAIN s : Append(s, e)[i] = s[i]
         /\ Append(s, e)[Len(s) + 1] = e
         /\ Len(s) + 1 \notin DOMAIN s
  OBVIOUS

LEMMA TailFacts ==
  ASSUME NEW S, NEW s \in Seq(S), s # <<>>
  PROVE  /\ Head(s) = s[1] /\ Len(s) \in Nat /\ Len(s) >= 1 /\ 1 \in DOMAIN s
         /\ Tail(s) \in Seq(S) /\ DOMAIN Tail(s) = 1..(Len(s) - 1)
         /\ \A i \in DOMAIN Tail(s) : i + 1 \in DOMAIN s /\ Tail(s)[i] = s[i + 1]
         /\ Tail(s) = <<>> <=> Len(s) = 1
         /\ DOMAIN s = 1..Len(s)
<1>1. Tail(s) \in Seq(S) /\ Len(Tail(s)) = Len(s) - 1 /\ \A i \in 1..Len(Tail(s)) : Tail(s)[i] = s[i + 1]
  BY HeadTailProperties
<1>2. Len(s) \in Nat /\ Len(s) >= 1 /\ DOMAIN s = 1..Len(s) /\ Head(s) = s[1]
  OBVIOUS
<1>3. DOMAIN Tail(s) = 1..(Len(s) - 1)
  BY <1>1, <1>2
<1>4. Tail(s) = <<>> <=> Len(Tail(s)) = 0
  BY <1>1
<1>5. QED
  BY <1>1, <1>2, <1>3, <1>4

-----------------------------------------------------------------------------
(* What the steps do to the nodes                                           *)

LEMMA NodeFacts ==
  ASSUME node \in Seq(Node), NEW n \in DOMAIN node
  PROVE  /\ node[n] \in Node /\ n \in Nat /\ n # 0 /\ n \in 1..Len(node)
         /\ node[n].leaf \in BOOLEAN /\ node[n].keys \in Seq(Keys) /\ node[n].vals \in Seq(Maybe)
         /\ node[n].kids \in Seq(Nat) /\ node[n].next \in Nat /\ node[n].parent \in Nat
         /\ node[n].locked \in BOOLEAN /\ node[n].version \in Nat /\ node[n].torn \in BOOLEAN
<1>1. node[n] \in Node
  OBVIOUS
<1>2. n \in Nat /\ n # 0 /\ n \in 1..Len(node)
  OBVIOUS
<1>3. /\ node[n].leaf \in BOOLEAN /\ node[n].locked \in BOOLEAN /\ node[n].torn \in BOOLEAN
  BY <1>1, Zenon DEF Node
<1>4. /\ node[n].keys \in Seq(Keys) /\ node[n].vals \in Seq(Maybe)
      /\ node[n].kids \in Seq(Nat) /\ node[n].next \in Nat /\ node[n].parent \in Nat
      /\ node[n].version \in Nat
  BY <1>1, Zenon DEF Node
<1>5. QED
  BY <1>1, <1>2, <1>3, <1>4

LEMMA NodeExcept ==
  ASSUME node \in Seq(Node), NEW n \in DOMAIN node, NEW r \in Node, node' = [node EXCEPT ![n] = r]
  PROVE  /\ node' \in Seq(Node) /\ DOMAIN node' = DOMAIN node
         /\ \A m \in DOMAIN node : m # n => node'[m] = node[m]
         /\ node'[n] = r
  OBVIOUS

\* Node m keeps what makes the tree.
SameTree(m) ==
  /\ node'[m].leaf = node[m].leaf /\ node'[m].keys = node[m].keys
  /\ node'[m].kids = node[m].kids /\ node'[m].next = node[m].next
  /\ node'[m].parent = node[m].parent

SetLock(n, b) ==
  /\ node' \in Seq(Node) /\ DOMAIN node' = DOMAIN node
  /\ \A m \in DOMAIN node : m # n => node'[m] = node[m]
  /\ SameTree(n) /\ node'[n].vals = node[n].vals
  /\ node'[n].version = node[n].version /\ node'[n].torn = node[n].torn
  /\ node'[n].locked = b

LEMMA LockEffect ==
  ASSUME node \in Seq(Node), NEW n \in DOMAIN node, node' = [node EXCEPT ![n].locked = TRUE]
  PROVE  SetLock(n, TRUE)
<1>1. node[n] \in Node
  BY NodeFacts
<1>2. [node[n] EXCEPT !.locked = TRUE] \in Node
  BY <1>1 DEF Node
<1>3. PICK r : r = [node[n] EXCEPT !.locked = TRUE]
  OBVIOUS
<1>4. r \in Node /\ node' = [node EXCEPT ![n] = r]
  BY <1>1, <1>2, <1>3
<1>5. /\ node' \in Seq(Node) /\ DOMAIN node' = DOMAIN node
      /\ \A m \in DOMAIN node : m # n => node'[m] = node[m]
      /\ node'[n] = r
  BY <1>4, NodeExcept
<1>6. QED
  BY <1>1, <1>3, <1>5 DEF SetLock, SameTree, Node

LEMMA UnlockEffect ==
  ASSUME node \in Seq(Node), NEW n \in DOMAIN node, node' = [node EXCEPT ![n].locked = FALSE]
  PROVE  SetLock(n, FALSE)
<1>1. node[n] \in Node
  BY NodeFacts
<1>2. [node[n] EXCEPT !.locked = FALSE] \in Node
  BY <1>1 DEF Node
<1>3. PICK r : r = [node[n] EXCEPT !.locked = FALSE]
  OBVIOUS
<1>4. r \in Node /\ node' = [node EXCEPT ![n] = r]
  BY <1>1, <1>2, <1>3
<1>5. /\ node' \in Seq(Node) /\ DOMAIN node' = DOMAIN node
      /\ \A m \in DOMAIN node : m # n => node'[m] = node[m]
      /\ node'[n] = r
  BY <1>4, NodeExcept
<1>6. QED
  BY <1>1, <1>3, <1>5 DEF SetLock, SameTree, Node

BumpEffect(n) ==
  /\ node' \in Seq(Node) /\ DOMAIN node' = DOMAIN node
  /\ \A m \in DOMAIN node : m # n => node'[m] = node[m]
  /\ SameTree(n) /\ node'[n].vals = node[n].vals /\ node'[n].locked = node[n].locked
  /\ node'[n].version = node[n].version + 1 /\ node'[n].torn = FALSE

LEMMA BumpDoes ==
  ASSUME node \in Seq(Node), NEW n \in DOMAIN node,
         node' = [node EXCEPT ![n].version = @ + 1, ![n].torn = FALSE]
  PROVE  BumpEffect(n)
<1>1. node[n] \in Node /\ node[n].version + 1 \in Nat
  BY NodeFacts
<1>2. [node[n] EXCEPT !.version = node[n].version + 1, !.torn = FALSE] \in Node
  BY <1>1 DEF Node
<1>3. PICK r : r = [node[n] EXCEPT !.version = node[n].version + 1, !.torn = FALSE]
  OBVIOUS
<1>4. r \in Node /\ node' = [node EXCEPT ![n] = r]
  BY <1>1, <1>2, <1>3
<1>5. /\ node' \in Seq(Node) /\ DOMAIN node' = DOMAIN node
      /\ \A m \in DOMAIN node : m # n => node'[m] = node[m]
      /\ node'[n] = r
  BY <1>4, NodeExcept
<1>6. QED
  BY <1>1, <1>3, <1>5 DEF BumpEffect, SameTree, Node

\* The value in slot i of leaf n becomes v.
WriteEffect(n, i, v, b) ==
  /\ node' \in Seq(Node) /\ DOMAIN node' = DOMAIN node
  /\ \A m \in DOMAIN node : m # n => node'[m] = node[m]
  /\ SameTree(n) /\ node'[n].vals = [node[n].vals EXCEPT ![i] = v]
  /\ node'[n].locked = node[n].locked /\ node'[n].version = node[n].version
  /\ node'[n].torn = b

LEMMA WriteDoes ==
  ASSUME node \in Seq(Node), NEW n \in DOMAIN node, NEW i, i \in DOMAIN node[n].vals, NEW v \in Maybe,
         node' = [node EXCEPT ![n].vals[i] = v]
  PROVE  WriteEffect(n, i, v, node[n].torn)
<1>1. node[n] \in Node /\ node[n].vals \in Seq(Maybe)
  BY NodeFacts
<1>2. [node[n].vals EXCEPT ![i] = v] \in Seq(Maybe)
  BY <1>1
<1>3. [node[n] EXCEPT !.vals = [node[n].vals EXCEPT ![i] = v]] \in Node
  BY <1>1, <1>2 DEF Node
<1>4. PICK r : r = [node[n] EXCEPT !.vals = [node[n].vals EXCEPT ![i] = v]]
  OBVIOUS
<1>5. r \in Node /\ node' = [node EXCEPT ![n] = r]
  BY <1>1, <1>3, <1>4
<1>6. /\ node' \in Seq(Node) /\ DOMAIN node' = DOMAIN node
      /\ \A m \in DOMAIN node : m # n => node'[m] = node[m]
      /\ node'[n] = r
  BY <1>5, NodeExcept
<1>7. QED
  BY <1>1, <1>4, <1>6 DEF WriteEffect, SameTree, Node

LEMMA OverwriteDoes ==
  ASSUME node \in Seq(Node), NEW n \in DOMAIN node, NEW i, i \in DOMAIN node[n].vals, NEW v \in Maybe,
         node' = [node EXCEPT ![n].vals[i] = v, ![n].torn = TRUE]
  PROVE  WriteEffect(n, i, v, TRUE)
<1>1. node[n] \in Node /\ node[n].vals \in Seq(Maybe)
  BY NodeFacts
<1>2. [node[n].vals EXCEPT ![i] = v] \in Seq(Maybe)
  BY <1>1
<1>3. [node[n] EXCEPT !.vals = [node[n].vals EXCEPT ![i] = v], !.torn = TRUE] \in Node
  BY <1>1, <1>2 DEF Node
<1>4. PICK r : r = [node[n] EXCEPT !.vals = [node[n].vals EXCEPT ![i] = v], !.torn = TRUE]
  OBVIOUS
<1>5. r \in Node /\ node' = [node EXCEPT ![n] = r]
  BY <1>1, <1>3, <1>4
<1>6. /\ node' \in Seq(Node) /\ DOMAIN node' = DOMAIN node
      /\ \A m \in DOMAIN node : m # n => node'[m] = node[m]
      /\ node'[n] = r
  BY <1>5, NodeExcept
<1>7. QED
  BY <1>1, <1>4, <1>6 DEF WriteEffect, SameTree, Node

LEMMA NodeGrow ==
  ASSUME node \in Seq(Node), NEW u \in Seq(Node), DOMAIN u = DOMAIN node,
         NEW s \in Node, node' = Append(u, s)
  PROVE  /\ node' \in Seq(Node) /\ DOMAIN node' = DOMAIN node \union {Len(node) + 1}
         /\ \A m \in DOMAIN node : node'[m] = u[m]
         /\ node'[Len(node) + 1] = s
         /\ Len(node) + 1 \notin DOMAIN node /\ Len(node) + 1 \in Nat /\ Len(node) + 1 # 0
         /\ Len(node) \in Nat
<1>1. Len(u) = Len(node) /\ Len(node) \in Nat /\ DOMAIN node = 1..Len(node)
  OBVIOUS
<1>2. QED
  BY <1>1, AppendFacts

LEMMA SeqExcept ==
  ASSUME NEW S, NEW u \in Seq(S), NEW n \in DOMAIN u, NEW r \in S
  PROVE  /\ [u EXCEPT ![n] = r] \in Seq(S) /\ DOMAIN [u EXCEPT ![n] = r] = DOMAIN u
         /\ \A m \in DOMAIN u : m # n => [u EXCEPT ![n] = r][m] = u[m]
         /\ [u EXCEPT ![n] = r][n] = r
  OBVIOUS

\* Record k, v enters leaf n at slot i.
ShiftEffect(n, i, k, v) ==
  /\ node' \in Seq(Node) /\ DOMAIN node' = DOMAIN node
  /\ \A m \in DOMAIN node : m # n => node'[m] = node[m]
  /\ node'[n].keys = InsertAt(node[n].keys, i, k)
  /\ node'[n].vals = InsertAt(node[n].vals, i, v)
  /\ node'[n].leaf = node[n].leaf /\ node'[n].kids = node[n].kids
  /\ node'[n].next = node[n].next /\ node'[n].parent = node[n].parent
  /\ node'[n].locked = node[n].locked /\ node'[n].version = node[n].version
  /\ node'[n].torn = TRUE

LEMMA ShiftDoes ==
  ASSUME node \in Seq(Node), NEW n \in DOMAIN node, NEW i, NEW k, NEW v,
         InsertAt(node[n].keys, i, k) \in Seq(Keys),
         InsertAt(node[n].vals, i, v) \in Seq(Maybe),
         node' = [node EXCEPT ![n].keys = InsertAt(@, i, k),
                              ![n].vals = InsertAt(@, i, v),
                              ![n].torn = TRUE]
  PROVE  ShiftEffect(n, i, k, v)
<1>1. node[n] \in Node
  BY NodeFacts
<1>2. PICK ks : ks = InsertAt(node[n].keys, i, k)
  OBVIOUS
<1>3. PICK vs : vs = InsertAt(node[n].vals, i, v)
  OBVIOUS
<1>4. PICK r : r = [node[n] EXCEPT !.keys = ks, !.vals = vs, !.torn = TRUE]
  OBVIOUS
<1>5. r \in Node
  BY <1>1, <1>2, <1>3, <1>4 DEF Node
<1>6. node' = [node EXCEPT ![n] = r]
  BY <1>1, <1>2, <1>3, <1>4 DEF Node
<1>7. /\ node' \in Seq(Node) /\ DOMAIN node' = DOMAIN node
      /\ \A m \in DOMAIN node : m # n => node'[m] = node[m]
      /\ node'[n] = r
  BY <1>5, <1>6, NodeExcept
<1>8. QED
  BY <1>1, <1>2, <1>3, <1>4, <1>7 DEF ShiftEffect, Node

\* Leaf n keeps ks and vs; a new leaf takes rks and rvs.
SplitEffect(n, ks, vs, rks, rvs) ==
  LET sib == Len(node) + 1
  IN  /\ node' \in Seq(Node) /\ DOMAIN node' = DOMAIN node \union {sib}
      /\ sib \notin DOMAIN node /\ sib \in Nat /\ sib # 0
      /\ \A m \in DOMAIN node : m # n => node'[m] = node[m]
      /\ node'[n].keys = ks /\ node'[n].vals = vs /\ node'[n].next = sib
      /\ node'[n].leaf = node[n].leaf /\ node'[n].kids = node[n].kids
      /\ node'[n].parent = node[n].parent
      /\ node'[n].locked = node[n].locked /\ node'[n].version = node[n].version
      /\ node'[n].torn = TRUE
      /\ node'[sib].keys = rks /\ node'[sib].vals = rvs /\ node'[sib].next = node[n].next
      /\ node'[sib].leaf = TRUE /\ node'[sib].kids = <<>> /\ node'[sib].parent = Nil
      /\ node'[sib].locked = TRUE /\ node'[sib].version = 0 /\ node'[sib].torn = FALSE

LEMMA SplitDoes ==
  ASSUME node \in Seq(Node), NEW n \in DOMAIN node,
         NEW ks \in Seq(Keys), NEW vs \in Seq(Maybe), NEW rks \in Seq(Keys), NEW rvs \in Seq(Maybe),
         node' = Append([node EXCEPT ![n].keys = ks, ![n].vals = vs,
                                     ![n].next = Len(node) + 1, ![n].torn = TRUE],
                        [Leaf(rks, rvs, node[n].next) EXCEPT !.locked = TRUE])
  PROVE  SplitEffect(n, ks, vs, rks, rvs)
<1>1. node[n] \in Node /\ node[n].next \in Nat /\ Len(node) + 1 \in Nat
  BY NodeFacts
<1>2. PICK r : r = [node[n] EXCEPT !.keys = ks, !.vals = vs, !.next = Len(node) + 1, !.torn = TRUE]
  OBVIOUS
<1>3. PICK s : s = [Leaf(rks, rvs, node[n].next) EXCEPT !.locked = TRUE]
  OBVIOUS
<1>4. r \in Node
  BY <1>1, <1>2 DEF Node
<1>5. s = [leaf |-> TRUE, keys |-> rks, vals |-> rvs, kids |-> <<>>, next |-> node[n].next,
           parent |-> Nil, locked |-> TRUE, version |-> 0, torn |-> FALSE]
  BY <1>3 DEF Leaf
<1>6. s \in Node
  BY <1>1, <1>5 DEF Node, Nil
<1>7. PICK u : u = [node EXCEPT ![n] = r]
  OBVIOUS
<1>8. /\ u \in Seq(Node) /\ DOMAIN u = DOMAIN node /\ u[n] = r
      /\ \A m \in DOMAIN node : m # n => u[m] = node[m]
  BY <1>4, <1>7, SeqExcept
<1>9. node' = Append(u, s)
  BY <1>1, <1>2, <1>3, <1>7 DEF Node
<1>10. /\ node' \in Seq(Node) /\ DOMAIN node' = DOMAIN node \union {Len(node) + 1}
       /\ \A m \in DOMAIN node : node'[m] = u[m]
       /\ node'[Len(node) + 1] = s
       /\ Len(node) + 1 \notin DOMAIN node /\ Len(node) + 1 \in Nat /\ Len(node) + 1 # 0
  BY <1>6, <1>8, <1>9, NodeGrow
<1>11. node'[n] = r /\ \A m \in DOMAIN node : m # n => node'[m] = node[m]
  BY <1>8, <1>10
<1>12. /\ r.keys = ks /\ r.vals = vs /\ r.next = Len(node) + 1
       /\ r.leaf = node[n].leaf /\ r.kids = node[n].kids /\ r.parent = node[n].parent
       /\ r.locked = node[n].locked /\ r.version = node[n].version /\ r.torn = TRUE
  BY <1>1, <1>2 DEF Node
<1>13. /\ s.keys = rks /\ s.vals = rvs /\ s.next = node[n].next /\ s.leaf = TRUE
       /\ s.kids = <<>> /\ s.parent = Nil /\ s.locked = TRUE /\ s.version = 0
       /\ s.torn = FALSE
  BY <1>5
<1>14. PICK sib : sib = Len(node) + 1
  OBVIOUS
<1>15. QED
  BY <1>10, <1>11, <1>12, <1>13, <1>14, Zenon DEF SplitEffect

\* Node m gets the parent q.
Reparent(m, q) ==
  /\ node'[m].leaf = node[m].leaf /\ node'[m].keys = node[m].keys
  /\ node'[m].vals = node[m].vals /\ node'[m].kids = node[m].kids
  /\ node'[m].next = node[m].next /\ node'[m].locked = node[m].locked
  /\ node'[m].version = node[m].version /\ node'[m].torn = node[m].torn
  /\ node'[m].parent = q

LEMMA ReparentDoes ==
  ASSUME node \in Seq(Node), NEW m \in DOMAIN node, NEW q \in Nat,
         node'[m] = [node[m] EXCEPT !.parent = q]
  PROVE  Reparent(m, q) /\ [node[m] EXCEPT !.parent = q] \in Node
<1>1. node[m] \in Node
  BY NodeFacts
<1>2. PICK r : r = [node[m] EXCEPT !.parent = q]
  OBVIOUS
<1>3. /\ r.leaf = node[m].leaf /\ r.keys = node[m].keys
      /\ r.vals = node[m].vals /\ r.kids = node[m].kids
      /\ r.next = node[m].next /\ r.locked = node[m].locked
      /\ r.version = node[m].version /\ r.torn = node[m].torn
      /\ r.parent = q
  BY <1>1, <1>2 DEF Node
<1>4. r \in Node
  BY <1>1, <1>2 DEF Node
<1>5. QED
  BY <1>2, <1>3, <1>4 DEF Reparent

LEMMA ReparentNode ==
  ASSUME node \in Seq(Node), NEW m \in DOMAIN node, NEW q \in Nat
  PROVE  [node[m] EXCEPT !.parent = q] \in Node
<1>1. node[m] \in Node
  BY NodeFacts
<1>2. QED
  BY <1>1 DEF Node

\* A new root over l and r, divided at k.
GrowEffect(l, r, k) ==
  LET new == Len(node) + 1
  IN  /\ node' \in Seq(Node) /\ DOMAIN node' = DOMAIN node \union {new}
      /\ new \notin DOMAIN node /\ new \in Nat /\ new # 0
      /\ \A m \in DOMAIN node : m # l /\ m # r => node'[m] = node[m]
      /\ Reparent(l, new) /\ Reparent(r, new)
      /\ node'[new].leaf = FALSE /\ node'[new].keys = <<k>> /\ node'[new].vals = <<>>
      /\ node'[new].kids = <<l, r>> /\ node'[new].next = Nil /\ node'[new].parent = Nil
      /\ node'[new].locked = TRUE /\ node'[new].version = 0 /\ node'[new].torn = FALSE

LEMMA GrowDoes ==
  ASSUME node \in Seq(Node), NEW l \in DOMAIN node, NEW r \in DOMAIN node, l # r, NEW k \in Keys,
         node' = Append([node EXCEPT ![l].parent = Len(node) + 1, ![r].parent = Len(node) + 1],
                        [Internal(<<k>>, <<l, r>>) EXCEPT !.locked = TRUE])
  PROVE  GrowEffect(l, r, k)
<1>1. PICK new : new = Len(node) + 1
  OBVIOUS
<1>2. new \in Nat /\ l \in Nat /\ r \in Nat
  BY <1>1, NodeFacts
<1>3. PICK a : a = [node[l] EXCEPT !.parent = new]
  OBVIOUS
<1>4. PICK b : b = [node[r] EXCEPT !.parent = new]
  OBVIOUS
<1>5. a \in Node /\ b \in Node
  BY <1>2, <1>3, <1>4, ReparentNode
<1>6. PICK s : s = [Internal(<<k>>, <<l, r>>) EXCEPT !.locked = TRUE]
  OBVIOUS
<1>7. s = [leaf |-> FALSE, keys |-> <<k>>, vals |-> <<>>, kids |-> <<l, r>>, next |-> Nil,
           parent |-> Nil, locked |-> TRUE, version |-> 0, torn |-> FALSE]
  BY <1>6 DEF Internal
<1>8. s \in Node
  <2>1. <<k>> \in Seq(Keys) /\ <<l, r>> \in Seq(Nat) /\ <<>> \in Seq(Maybe)
    BY <1>2
  <2>2. QED
    BY <1>7, <2>1 DEF Node, Nil
<1>9. PICK w : w = [node EXCEPT ![l] = a]
  OBVIOUS
<1>10. /\ w \in Seq(Node) /\ DOMAIN w = DOMAIN node /\ w[l] = a
       /\ \A m \in DOMAIN node : m # l => w[m] = node[m]
  BY <1>5, <1>9, SeqExcept
<1>11. PICK u : u = [w EXCEPT ![r] = b]
  OBVIOUS
<1>12. /\ u \in Seq(Node) /\ DOMAIN u = DOMAIN node /\ u[r] = b
       /\ \A m \in DOMAIN w : m # r => u[m] = w[m]
  BY <1>5, <1>10, <1>11, SeqExcept
<1>13. node' = Append(u, s)
  BY <1>1, <1>2, <1>3, <1>4, <1>6, <1>9, <1>10, <1>11
<1>14. /\ node' \in Seq(Node) /\ DOMAIN node' = DOMAIN node \union {new}
       /\ \A m \in DOMAIN node : node'[m] = u[m]
       /\ node'[new] = s
       /\ new \notin DOMAIN node /\ new # 0
  BY <1>1, <1>8, <1>12, <1>13, NodeGrow
<1>15. /\ node'[l] = a /\ node'[r] = b
       /\ \A m \in DOMAIN node : m # l /\ m # r => node'[m] = node[m]
  BY <1>10, <1>12, <1>14
<1>16. Reparent(l, new) /\ Reparent(r, new)
  BY <1>2, <1>3, <1>4, <1>15, ReparentDoes
<1>17. /\ s.leaf = FALSE /\ s.keys = <<k>> /\ s.vals = <<>> /\ s.kids = <<l, r>>
       /\ s.next = Nil /\ s.parent = Nil /\ s.locked = TRUE /\ s.version = 0
       /\ s.torn = FALSE
  BY <1>7
<1>18. QED
  BY <1>1, <1>2, <1>14, <1>15, <1>16, <1>17, Zenon DEF GrowEffect

\* Internal node q gets the separator k at slot i and r as the child after it.
HangEffect(q, r, i, k) ==
  /\ node' \in Seq(Node) /\ DOMAIN node' = DOMAIN node
  /\ \A m \in DOMAIN node : m # q /\ m # r => node'[m] = node[m]
  /\ Reparent(r, q)
  /\ node'[q].keys = InsertAt(node[q].keys, i, k)
  /\ node'[q].kids = InsertAt(node[q].kids, i + 1, r)
  /\ node'[q].leaf = node[q].leaf /\ node'[q].vals = node[q].vals
  /\ node'[q].next = node[q].next /\ node'[q].parent = node[q].parent
  /\ node'[q].locked = node[q].locked /\ node'[q].version = node[q].version
  /\ node'[q].torn = TRUE

LEMMA HangDoes ==
  ASSUME node \in Seq(Node), NEW q \in DOMAIN node, NEW r \in DOMAIN node, q # r,
         NEW i, NEW j, j = i + 1, NEW k,
         InsertAt(node[q].keys, i, k) \in Seq(Keys),
         InsertAt(node[q].kids, j, r) \in Seq(Nat),
         node' = [node EXCEPT ![q].keys = InsertAt(@, i, k),
                              ![q].kids = InsertAt(@, j, r),
                              ![q].torn = TRUE,
                              ![r].parent = q]
  PROVE  HangEffect(q, r, i, k)
<1>1. node[q] \in Node /\ q \in Nat
  BY NodeFacts
<1>2. PICK ks : ks = InsertAt(node[q].keys, i, k)
  OBVIOUS
<1>3. PICK cs : cs = InsertAt(node[q].kids, j, r)
  OBVIOUS
<1>4. PICK a : a = [node[q] EXCEPT !.keys = ks, !.kids = cs, !.torn = TRUE]
  OBVIOUS
<1>5. PICK b : b = [node[r] EXCEPT !.parent = q]
  OBVIOUS
<1>6. a \in Node
  BY <1>1, <1>2, <1>3, <1>4 DEF Node
<1>7. b \in Node
  BY <1>1, <1>5, ReparentNode
<1>8. PICK w : w = [node EXCEPT ![q] = a]
  OBVIOUS
<1>9. /\ w \in Seq(Node) /\ DOMAIN w = DOMAIN node /\ w[q] = a
      /\ \A m \in DOMAIN node : m # q => w[m] = node[m]
  BY <1>6, <1>8, SeqExcept
<1>10. PICK u : u = [w EXCEPT ![r] = b]
  OBVIOUS
<1>11. /\ u \in Seq(Node) /\ DOMAIN u = DOMAIN node /\ u[r] = b
       /\ \A m \in DOMAIN w : m # r => u[m] = w[m]
  BY <1>7, <1>9, <1>10, SeqExcept
<1>12. node' = u
  BY <1>1, <1>2, <1>3, <1>4, <1>5, <1>8, <1>9, <1>10 DEF Node
<1>13. /\ node'[q] = a /\ node'[r] = b
       /\ \A m \in DOMAIN node : m # q /\ m # r => node'[m] = node[m]
  BY <1>9, <1>11, <1>12
<1>14. Reparent(r, q)
  BY <1>1, <1>5, <1>13, ReparentDoes
<1>15. /\ a.keys = ks /\ a.kids = cs /\ a.leaf = node[q].leaf /\ a.vals = node[q].vals
       /\ a.next = node[q].next /\ a.parent = node[q].parent
       /\ a.locked = node[q].locked /\ a.version = node[q].version /\ a.torn = TRUE
  BY <1>1, <1>4 DEF Node
<1>16. QED
  BY <1>2, <1>3, <1>11, <1>12, <1>13, <1>14, <1>15, Zenon DEF HangEffect

\* Internal node q keeps ks and cs; a new internal node takes rks and rcs.  r
\* is among the children for the first time.
PartEffect(q, r, ks, cs, rks, rcs) ==
  LET sib == Len(node) + 1
  IN  /\ node' \in Seq(Node) /\ DOMAIN node' = DOMAIN node \union {sib}
      /\ sib \notin DOMAIN node /\ sib \in Nat /\ sib # 0
      /\ \A m \in DOMAIN node : m # q =>
           Reparent(m, IF m \in ToSet(rcs) THEN sib ELSE IF m = r THEN q ELSE node[m].parent)
      /\ node'[q].keys = ks /\ node'[q].kids = cs
      /\ node'[q].leaf = node[q].leaf /\ node'[q].vals = node[q].vals
      /\ node'[q].next = node[q].next /\ node'[q].parent = node[q].parent
      /\ node'[q].locked = node[q].locked /\ node'[q].version = node[q].version
      /\ node'[q].torn = TRUE
      /\ node'[sib].leaf = FALSE /\ node'[sib].keys = rks /\ node'[sib].vals = <<>>
      /\ node'[sib].kids = rcs /\ node'[sib].next = Nil /\ node'[sib].parent = Nil
      /\ node'[sib].locked = TRUE /\ node'[sib].version = 0 /\ node'[sib].torn = FALSE

Parted(q, r, ks, cs, rcs) ==
  [n \in DOMAIN node |->
     IF n = q THEN [node[n] EXCEPT !.keys = ks, !.kids = cs, !.torn = TRUE]
     ELSE IF n \in ToSet(rcs) THEN [node[n] EXCEPT !.parent = Len(node) + 1]
     ELSE IF n = r THEN [node[n] EXCEPT !.parent = q]
     ELSE node[n]]

LEMMA PartDoes ==
  ASSUME node \in Seq(Node), NEW q \in DOMAIN node, NEW r \in DOMAIN node,
         NEW ks \in Seq(Keys), NEW cs \in Seq(Nat), NEW rks \in Seq(Keys), NEW rcs \in Seq(Nat),
         node' = Append(Parted(q, r, ks, cs, rcs),
                  [Internal(rks, rcs) EXCEPT !.locked = TRUE])
  PROVE  PartEffect(q, r, ks, cs, rks, rcs)
<1>1. PICK sib : sib = Len(node) + 1
  OBVIOUS
<1>2. sib \in Nat /\ q \in Nat /\ node[q] \in Node
  BY <1>1, NodeFacts
<1>3. PICK a : a = [node[q] EXCEPT !.keys = ks, !.kids = cs, !.torn = TRUE]
  OBVIOUS
<1>4. a \in Node
  BY <1>2, <1>3 DEF Node
<1>5. PICK s : s = [Internal(rks, rcs) EXCEPT !.locked = TRUE]
  OBVIOUS
<1>6. s = [leaf |-> FALSE, keys |-> rks, vals |-> <<>>, kids |-> rcs, next |-> Nil,
           parent |-> Nil, locked |-> TRUE, version |-> 0, torn |-> FALSE]
  BY <1>5 DEF Internal
<1>7. s \in Node
  <2>1. <<>> \in Seq(Maybe)
    OBVIOUS
  <2>2. QED
    BY <1>6, <2>1 DEF Node, Nil
<1>8. PICK u : u = Parted(q, r, ks, cs, rcs)
  OBVIOUS
<1>9. /\ u[q] = a
      /\ \A n \in DOMAIN node : n # q =>
           u[n] = IF n \in ToSet(rcs) THEN [node[n] EXCEPT !.parent = sib]
                  ELSE IF n = r THEN [node[n] EXCEPT !.parent = q] ELSE node[n]
      /\ DOMAIN u = DOMAIN node
  BY <1>1, <1>3, <1>8 DEF Parted
<1>10. \A n \in DOMAIN node : u[n] \in Node
  <2>1. \A n \in DOMAIN node : node[n] \in Node /\ [node[n] EXCEPT !.parent = sib] \in Node
                               /\ [node[n] EXCEPT !.parent = q] \in Node
    BY <1>2, ReparentNode, NodeFacts
  <2>2. QED
    BY <1>4, <1>9, <2>1
<1>11. u \in Seq(Node)
  <2>1. Len(node) \in Nat /\ DOMAIN node = 1..Len(node)
    OBVIOUS
  <2>2. u = [n \in 1..Len(node) |-> u[n]]
    BY <1>8, <2>1 DEF Parted
  <2>3. QED
    BY <1>9, <1>10, <2>1, <2>2
<1>12. node' = Append(u, s)
  BY <1>5, <1>8
<1>13. /\ node' \in Seq(Node) /\ DOMAIN node' = DOMAIN node \union {sib}
       /\ \A m \in DOMAIN node : node'[m] = u[m]
       /\ node'[sib] = s
       /\ sib \notin DOMAIN node /\ sib # 0
  BY <1>1, <1>7, <1>9, <1>11, <1>12, NodeGrow
<1>14. \A m \in DOMAIN node : m # q =>
         Reparent(m, IF m \in ToSet(rcs) THEN sib ELSE IF m = r THEN q ELSE node[m].parent)
  <2> SUFFICES ASSUME NEW m \in DOMAIN node, m # q
               PROVE  Reparent(m, IF m \in ToSet(rcs) THEN sib
                                  ELSE IF m = r THEN q ELSE node[m].parent)
    OBVIOUS
  <2>1. CASE m \in ToSet(rcs)
    <3>1. node'[m] = [node[m] EXCEPT !.parent = sib]
      BY <1>9, <1>13, <2>1
    <3>2. Reparent(m, sib)
      BY <1>2, <3>1, ReparentDoes
    <3>3. QED
      BY <2>1, <3>2
  <2>2. CASE m \notin ToSet(rcs) /\ m = r
    <3>1. node'[m] = [node[m] EXCEPT !.parent = q]
      BY <1>9, <1>13, <2>2
    <3>2. Reparent(m, q)
      BY <1>2, <3>1, ReparentDoes
    <3>3. QED
      BY <2>2, <3>2
  <2>3. CASE m \notin ToSet(rcs) /\ m # r
    <3>1. node'[m] = node[m]
      BY <1>9, <1>13, <2>3
    <3>2. Reparent(m, node[m].parent)
      BY <3>1 DEF Reparent
    <3>3. QED
      BY <2>3, <3>2
  <2>4. QED
    BY <2>1, <2>2, <2>3
<1>15. /\ a.keys = ks /\ a.kids = cs /\ a.leaf = node[q].leaf /\ a.vals = node[q].vals
       /\ a.next = node[q].next /\ a.parent = node[q].parent
       /\ a.locked = node[q].locked /\ a.version = node[q].version /\ a.torn = TRUE
  BY <1>2, <1>3 DEF Node
<1>16. /\ s.leaf = FALSE /\ s.keys = rks /\ s.vals = <<>> /\ s.kids = rcs
       /\ s.next = Nil /\ s.parent = Nil /\ s.locked = TRUE /\ s.version = 0
       /\ s.torn = FALSE
  BY <1>6
<1>17. node'[q] = a
  BY <1>9, <1>13
<1>18. QED
  BY <1>1, <1>2, <1>13, <1>14, <1>15, <1>16, <1>17, ZenonT(40) DEF PartEffect

-----------------------------------------------------------------------------
(* What the steps do to the locals of a thread                              *)

LocalsOK(p) == DOMAIN t = Threads /\ p \in Threads /\ DOMAIN t[p] = DOMAIN NoOp

\* Only the locals of p change.
Alone(p) ==
  /\ DOMAIN t' = Threads
  /\ \A q \in Threads : q # p => t'[q] = t[q]
  /\ DOMAIN t'[p] = DOMAIN NoOp

KeepWork(p) ==
  /\ t'[p].left = t[p].left /\ t'[p].right = t[p].right /\ t'[p].sep = t[p].sep
  /\ t'[p].par = t[p].par

KeepQueue(p) ==
  /\ t'[p].todo = t[p].todo /\ t'[p].held = t[p].held /\ t'[p].after = t[p].after

KeepScan(p) ==
  t'[p].from = t[p].from /\ t'[p].moved = t[p].moved

KeepPlace(p) ==
  /\ t'[p].cur = t[p].cur /\ t'[p].ver = t[p].ver
  /\ t'[p].nxt = t[p].nxt /\ t'[p].nver = t[p].nver

LEMMA GotoDoes ==
  ASSUME NEW p, LocalsOK(p), NEW l, Goto(p, l)
  PROVE  /\ Alone(p) /\ t'[p].pc = l
         /\ KeepPlace(p) /\ t'[p].val = t[p].val
         /\ KeepWork(p) /\ KeepQueue(p) /\ KeepScan(p)
  BY DEF LocalsOK, Goto, Alone, KeepWork, KeepQueue, KeepScan, KeepPlace, NoOp

SetCur(p, l, n) ==
  t' = [t EXCEPT ![p].pc = l, ![p].cur = n]

LEMMA LoadRootDoes ==
  ASSUME NEW p, LocalsOK(p), NEW l, NEW n, SetCur(p, l, n)
  PROVE  /\ Alone(p) /\ t'[p].pc = l /\ t'[p].cur = n
         /\ t'[p].ver = t[p].ver /\ t'[p].nxt = t[p].nxt /\ t'[p].nver = t[p].nver
         /\ t'[p].val = t[p].val
         /\ KeepWork(p) /\ KeepQueue(p) /\ KeepScan(p)
  BY DEF SetCur, LocalsOK, Alone, KeepWork, KeepQueue, KeepScan, KeepPlace, NoOp

SetVer(p, l, v) ==
  t' = [t EXCEPT ![p].pc = l, ![p].ver = v]

LEMMA VersionDoes ==
  ASSUME NEW p, LocalsOK(p), NEW l, NEW v, SetVer(p, l, v)
  PROVE  /\ Alone(p) /\ t'[p].pc = l /\ t'[p].ver = v
         /\ t'[p].cur = t[p].cur /\ t'[p].nxt = t[p].nxt /\ t'[p].nver = t[p].nver
         /\ t'[p].val = t[p].val
         /\ KeepWork(p) /\ KeepQueue(p) /\ KeepScan(p)
  BY DEF SetVer, LocalsOK, Alone, KeepWork, KeepQueue, KeepScan, KeepPlace, NoOp

SetNxt(p, l, n) ==
  t' = [t EXCEPT ![p].pc = l, ![p].nxt = n]

LEMMA NextDoes ==
  ASSUME NEW p, LocalsOK(p), NEW l, NEW n, SetNxt(p, l, n)
  PROVE  /\ Alone(p) /\ t'[p].pc = l /\ t'[p].nxt = n
         /\ t'[p].cur = t[p].cur /\ t'[p].ver = t[p].ver /\ t'[p].nver = t[p].nver
         /\ t'[p].val = t[p].val
         /\ KeepWork(p) /\ KeepQueue(p) /\ KeepScan(p)
  BY DEF SetNxt, LocalsOK, Alone, KeepWork, KeepQueue, KeepScan, KeepPlace, NoOp

SetNver(p, l, v) ==
  t' = [t EXCEPT ![p].pc = l, ![p].nver = v]

LEMMA NextVersionDoes ==
  ASSUME NEW p, LocalsOK(p), NEW l, NEW v, SetNver(p, l, v)
  PROVE  /\ Alone(p) /\ t'[p].pc = l /\ t'[p].nver = v
         /\ t'[p].cur = t[p].cur /\ t'[p].ver = t[p].ver /\ t'[p].nxt = t[p].nxt
         /\ t'[p].val = t[p].val
         /\ KeepWork(p) /\ KeepQueue(p) /\ KeepScan(p)
  BY DEF SetNver, LocalsOK, Alone, KeepWork, KeepQueue, KeepScan, KeepPlace, NoOp

SetPlace(p, l, n, v) ==
  t' = [t EXCEPT ![p].pc = l, ![p].cur = n, ![p].ver = v]

LEMMA DescendDoes ==
  ASSUME NEW p, LocalsOK(p), NEW l, NEW n, NEW v, SetPlace(p, l, n, v)
  PROVE  /\ Alone(p) /\ t'[p].pc = l /\ t'[p].cur = n /\ t'[p].ver = v
         /\ t'[p].nxt = t[p].nxt /\ t'[p].nver = t[p].nver
         /\ t'[p].val = t[p].val
         /\ KeepWork(p) /\ KeepQueue(p) /\ KeepScan(p)
  BY DEF SetPlace, LocalsOK, Alone, KeepWork, KeepQueue, KeepScan, KeepPlace, NoOp

SetVal(p, l, v) ==
  t' = [t EXCEPT ![p].pc = l, ![p].val = v]

LEMMA ReadDoes ==
  ASSUME NEW p, LocalsOK(p), NEW l, NEW v, SetVal(p, l, v)
  PROVE  /\ Alone(p) /\ t'[p].pc = l /\ t'[p].val = v
         /\ KeepPlace(p) /\ KeepWork(p) /\ KeepQueue(p) /\ KeepScan(p)
  BY DEF SetVal, LocalsOK, Alone, KeepWork, KeepQueue, KeepScan, KeepPlace, NoOp

SetBuf(p, l, n, b) ==
  t' = [t EXCEPT ![p].pc = l, ![p].nxt = n, ![p].buf = b]

LEMMA ScanLeafDoes ==
  ASSUME NEW p, LocalsOK(p), NEW l, NEW n, NEW b, SetBuf(p, l, n, b)
  PROVE  /\ Alone(p) /\ t'[p].pc = l /\ t'[p].nxt = n
         /\ t'[p].cur = t[p].cur /\ t'[p].ver = t[p].ver /\ t'[p].nver = t[p].nver
         /\ KeepWork(p) /\ KeepQueue(p) /\ KeepScan(p) /\ t'[p].buf = b
  BY DEF SetBuf, LocalsOK, Alone, KeepWork, KeepQueue, KeepScan, KeepPlace, NoOp

SetMoved(p, l, n) ==
  t' = [t EXCEPT ![p].pc = l, ![p].moved = TRUE, ![p].cur = n]

LEMMA ScanMoveDoes ==
  ASSUME NEW p, LocalsOK(p), NEW l, NEW n, SetMoved(p, l, n)
  PROVE  /\ Alone(p) /\ t'[p].pc = l /\ t'[p].cur = n
         /\ t'[p].ver = t[p].ver /\ t'[p].nxt = t[p].nxt /\ t'[p].nver = t[p].nver
         /\ KeepWork(p) /\ KeepQueue(p) /\ t'[p].from = t[p].from /\ t'[p].moved = TRUE
  BY DEF SetMoved, LocalsOK, Alone, KeepWork, KeepQueue, KeepScan, KeepPlace, NoOp

SetFrom(p, l, k) ==
  t' = [t EXCEPT ![p].pc = l, ![p].from = k]

LEMMA ScanStartDoes ==
  ASSUME NEW p, LocalsOK(p), NEW l, NEW k, SetFrom(p, l, k)
  PROVE  /\ Alone(p) /\ t'[p].pc = l
         /\ KeepPlace(p) /\ KeepWork(p) /\ KeepQueue(p)
         /\ t'[p].from = k /\ t'[p].moved = t[p].moved
  BY DEF SetFrom, LocalsOK, Alone, KeepWork, KeepQueue, KeepScan, KeepPlace, NoOp

SetHeld(p, l, h) ==
  t' = [t EXCEPT ![p].pc = l, ![p].held = h]

LEMMA UnlockListDoes ==
  ASSUME NEW p, LocalsOK(p), NEW l, NEW h, SetHeld(p, l, h)
  PROVE  /\ Alone(p) /\ t'[p].pc = l /\ t'[p].held = h
         /\ t'[p].todo = t[p].todo /\ t'[p].after = t[p].after
         /\ KeepPlace(p) /\ KeepWork(p) /\ KeepScan(p)
  BY DEF SetHeld, LocalsOK, Alone, KeepWork, KeepQueue, KeepScan, KeepPlace, NoOp

SetQueue(p, l, d, h, a) ==
  t' = [t EXCEPT ![p].pc = l, ![p].todo = d, ![p].held = h, ![p].after = a]

LEMMA BumpListDoes ==
  ASSUME NEW p, LocalsOK(p), NEW l, NEW d, NEW h, NEW a, SetQueue(p, l, d, h, a)
  PROVE  /\ Alone(p) /\ t'[p].pc = l
         /\ t'[p].todo = d /\ t'[p].held = h /\ t'[p].after = a
         /\ KeepPlace(p) /\ KeepWork(p) /\ KeepScan(p)
  BY DEF SetQueue, LocalsOK, Alone, KeepWork, KeepQueue, KeepScan, KeepPlace, NoOp

SetSplit(p, l, n, r, k) ==
  t' = [t EXCEPT ![p].pc = l, ![p].left = n, ![p].right = r, ![p].sep = k]

LEMMA BeginSplitDoes ==
  ASSUME NEW p, LocalsOK(p), NEW l, NEW n, NEW r, NEW k, SetSplit(p, l, n, r, k)
  PROVE  /\ Alone(p) /\ t'[p].pc = l
         /\ t'[p].left = n /\ t'[p].right = r /\ t'[p].sep = k
         /\ t'[p].par = t[p].par
         /\ KeepPlace(p) /\ KeepQueue(p) /\ KeepScan(p)
  BY DEF SetSplit, LocalsOK, Alone, KeepWork, KeepQueue, KeepScan, KeepPlace, NoOp

SetPar(p, l, n) ==
  t' = [t EXCEPT ![p].par = n, ![p].pc = l]

LEMMA ParentDoes ==
  ASSUME NEW p, LocalsOK(p), NEW l, NEW n, SetPar(p, l, n)
  PROVE  /\ Alone(p) /\ t'[p].pc = l /\ t'[p].par = n
         /\ t'[p].left = t[p].left /\ t'[p].right = t[p].right /\ t'[p].sep = t[p].sep
         /\ KeepPlace(p) /\ KeepQueue(p) /\ KeepScan(p)
  BY DEF SetPar, LocalsOK, Alone, KeepWork, KeepQueue, KeepScan, KeepPlace, NoOp

SetClimb(p, l, d, h, a, n, r, k) ==
  t' = [t EXCEPT ![p].pc = l, ![p].todo = d, ![p].held = h, ![p].after = a,
           ![p].left = n, ![p].right = r, ![p].sep = k]

LEMMA ClimbDoes ==
  ASSUME NEW p, LocalsOK(p), NEW l, NEW d, NEW h, NEW a, NEW n, NEW r, NEW k, SetClimb(p, l, d, h, a, n, r, k)
  PROVE  /\ Alone(p) /\ t'[p].pc = l
         /\ t'[p].todo = d /\ t'[p].held = h /\ t'[p].after = a
         /\ t'[p].left = n /\ t'[p].right = r /\ t'[p].sep = k
         /\ t'[p].par = t[p].par
         /\ KeepPlace(p) /\ KeepScan(p)
  BY DEF SetClimb, LocalsOK, Alone, KeepWork, KeepQueue, KeepScan, KeepPlace, NoOp

SetTodo(p, l, d) ==
  t' = [t EXCEPT ![p].todo = d, ![p].pc = l]

LEMMA TodoDoes ==
  ASSUME NEW p, LocalsOK(p), NEW l, NEW d, SetTodo(p, l, d)
  PROVE  /\ Alone(p) /\ t'[p].pc = l /\ t'[p].todo = d
         /\ t'[p].held = t[p].held /\ t'[p].after = t[p].after
         /\ KeepPlace(p) /\ KeepWork(p) /\ KeepScan(p)
  BY DEF SetTodo, LocalsOK, Alone, KeepWork, KeepQueue, KeepScan, KeepPlace, NoOp

PopHeld(p, l, h) ==
  t' = [t EXCEPT ![p].held = h, ![p].pc = l]

LEMMA HeldDoes ==
  ASSUME NEW p, LocalsOK(p), NEW l, NEW h, PopHeld(p, l, h)
  PROVE  /\ Alone(p) /\ t'[p].pc = l /\ t'[p].held = h
         /\ t'[p].todo = t[p].todo /\ t'[p].after = t[p].after
         /\ KeepPlace(p) /\ KeepWork(p) /\ KeepScan(p)
  BY DEF PopHeld, LocalsOK, Alone, KeepWork, KeepQueue, KeepScan, KeepPlace, NoOp

-----------------------------------------------------------------------------
(* Who holds what                                                           *)

LEMMA Tears ==
  ASSUME NEW p \in Procs, LocksOK, NEW n, Tearing(p, n)
  PROVE  Owns(p, n)
  BY DEF LocksOK, HeldOK, Tearing, Owns, Splitting, Climbing, Ending

LEMMA OwnsNodes ==
  ASSUME NEW p \in Procs, TypesOK, LocksOK, NEW n, Owns(p, n)
  PROVE  n \in DOMAIN node
<1>1. HeldOK(p) /\ SplitOK(p) /\ ThreadOK(p)
  BY DEF LocksOK, TypesOK, Threads
<1>2. CASE t[p].pc \in {"lockver", "act"} /\ n = t[p].cur
  BY <1>1, <1>2 DEF ThreadOK, AtLeaf
<1>3. CASE Splitting(p) /\ n \in {t[p].left, t[p].right}
  BY <1>1, <1>3 DEF SplitOK
<1>4. CASE t[p].pc \in Parents \ {"lockparent"} /\ n = t[p].par
  BY <1>1, <1>4 DEF SplitOK, Splitting, Climbing
<1>5. CASE t[p].pc \in Ending /\ \E i \in DOMAIN t[p].held : n = t[p].held[i]
  BY <1>1, <1>5 DEF HeldOK
<1>6. QED
  BY <1>2, <1>3, <1>4, <1>5 DEF Owns

\* p takes locks that are free, and keeps or releases those it had.
LockStep(p) ==
  /\ \A n \in DOMAIN node' : node'[n].locked <=>
       Owns(p, n)' \/ (n \in DOMAIN node /\ node[n].locked /\ ~Owns(p, n))
  /\ \A n \in DOMAIN node : Owns(p, n)' => Owns(p, n) \/ ~node[n].locked
  /\ \A n : Owns(p, n)' => n \in DOMAIN node'

\* It tears nodes it owns, and mends them.
TornStep(p) ==
  \A n \in DOMAIN node' : node'[n].torn =>
    Tearing(p, n)' \/ (n \in DOMAIN node /\ node[n].torn /\ ~Tearing(p, n))

\* It leaves alone what others have locked; only the parent of a node changes
\* with the lock of the parent.
Respect(p) ==
  /\ DOMAIN node \subseteq DOMAIN node'
  /\ \A n \in DOMAIN node : node'[n].leaf = node[n].leaf
  /\ \A n \in DOMAIN node : ~Owns(p, n) =>
       /\ node'[n].torn = node[n].torn /\ node'[n].keys = node[n].keys
       /\ node'[n].kids = node[n].kids /\ node'[n].next = node[n].next
       /\ node[n].parent = Nil => node'[n].parent = Nil
       /\ ~Owns(p, node[n].parent) => node'[n].parent = node[n].parent
  /\ root' = root \/ root' \notin DOMAIN node

LEMMA OthersOwn ==
  ASSUME NEW p, Alone(p), NEW q \in Procs, q # p
  PROVE  /\ \A n : Owns(q, n)' <=> Owns(q, n)
         /\ \A n : Tearing(q, n)' <=> Tearing(q, n)
         /\ Splitting(q)' <=> Splitting(q)
<1>1. t'[q] = t[q]
  BY DEF Alone, Threads
<1>2. QED
  BY <1>1 DEF Owns, Tearing, Splitting

LEMMA OthersSplit ==
  ASSUME TypesOK, LocksOK, NEW p, Alone(p), Respect(p), NEW q \in Procs, q # p,
         p \in Procs \/ \A n : ~Owns(p, n)
  PROVE  HeldOK(q)' /\ SplitOK(q)'
<1>1. t'[q] = t[q] /\ HeldOK(q) /\ SplitOK(q)
  BY DEF Alone, Threads, LocksOK
<1>2. \A n : Owns(q, n) => n \in DOMAIN node /\ ~Owns(p, n)
  BY OwnsNodes DEF LocksOK
<1>3. Splitting(q)' <=> Splitting(q)
  BY OthersOwn
<1>4. HeldOK(q)'
  BY <1>1, <1>3 DEF HeldOK, Respect
<1>5. SplitOK(q)'
  <2> SUFFICES ASSUME Splitting(q) PROVE SplitOK(q)'
    BY <1>3 DEF SplitOK
  <2> DEFINE l == t[q].left
             r == t[q].right
             par == t[q].par
  <2>1. Owns(q, l) /\ Owns(q, r) /\ (t[q].pc \in Parents \ {"lockparent"} => Owns(q, par))
    BY DEF Owns
  <2>2. l \in DOMAIN node /\ r \in DOMAIN node /\ ~Owns(p, l) /\ ~Owns(p, r)
    BY <1>2, <2>1
  <2>3. l # r /\ l \in DOMAIN node' /\ r \in DOMAIN node' /\ node'[l].leaf = node'[r].leaf
    BY <1>1, <2>2 DEF SplitOK, Respect
  <2>4. node'[l].torn /\ node'[r].parent = Nil
    BY <1>1, <2>2 DEF SplitOK, Respect
  <2>5. r # root'
    BY <1>1, <2>2 DEF SplitOK, Respect
  <2>6. t[q].pc \in Parents => par \in DOMAIN node' /\ ~node'[par].leaf
    BY <1>1 DEF SplitOK, Respect
  <2>7. t[q].pc = "newroot" => node'[l].parent = Nil
    BY <1>1, <2>2 DEF SplitOK, Respect
  <2>8. t[q].pc \in {"splitparent", "insertparent"} =>
          /\ node'[l].parent = par
          /\ node'[par].keys = node[par].keys
    <3> SUFFICES ASSUME t[q].pc \in {"splitparent", "insertparent"}
                 PROVE  node'[l].parent = par /\ node'[par].keys = node[par].keys
      OBVIOUS
    <3>1. Owns(q, par)
      BY <2>1 DEF Parents
    <3>2. par \in DOMAIN node /\ ~Owns(p, par) /\ node[l].parent = par
      BY <1>1, <1>2, <3>1 DEF SplitOK
    <3>3. QED
      BY <2>2, <3>2 DEF Respect
  <2>9. t[q].pc \in {"splitparent", "insertparent"} => (Full(par)' <=> Full(par))
    BY <1>1, <2>8 DEF Full
  <2>10. t[q].pc = "splitparent" => Full(t[q].par)'
    BY <1>1, <2>9 DEF SplitOK, Full
  <2>11. t[q].pc = "insertparent" => ~Full(t[q].par)'
    BY <1>1, <2>9 DEF SplitOK, Full
  <2>12. (t[q].pc \in Parents \ {"lockparent"} => par \notin {l, r}) /\ t[q].sep \in Keys
    BY <1>1 DEF SplitOK
  <2> HIDE DEF l, r, par
  <2>13. QED
    BY <1>1, <2>3, <2>4, <2>5, <2>6, <2>7, <2>8, <2>10, <2>11, <2>12 DEF SplitOK, l, r, par, Full
<1>6. QED
  BY <1>4, <1>5

LEMMA LocksStep ==
  ASSUME TypesOK, LocksOK, NEW p \in Procs, Alone(p), LockStep(p), TornStep(p), Respect(p),
         HeldOK(p)', SplitOK(p)'
  PROVE  LocksOK'
<1>1. \A q \in Procs : HeldOK(q)' /\ SplitOK(q)'
  BY OthersSplit
<1>2. \A q \in Procs : q # p => \A n : (Owns(q, n)' <=> Owns(q, n)) /\ (Tearing(q, n)' <=> Tearing(q, n))
  BY OthersOwn
<1>3. \A n \in DOMAIN node' : node'[n].locked => \E q \in Procs : Owns(q, n)'
  <2> SUFFICES ASSUME NEW n \in DOMAIN node', node'[n].locked, ~Owns(p, n)'
               PROVE  \E q \in Procs : Owns(q, n)'
    OBVIOUS
  <2>1. n \in DOMAIN node /\ node[n].locked /\ ~Owns(p, n)
    BY DEF LockStep
  <2>2. PICK q \in Procs : Owns(q, n)
    BY <2>1 DEF LocksOK
  <2>3. QED
    BY <1>2, <2>1, <2>2
<1>4. \A n \in DOMAIN node' : node'[n].torn => \E q \in Procs : Tearing(q, n)'
  <2> SUFFICES ASSUME NEW n \in DOMAIN node', node'[n].torn, ~Tearing(p, n)'
               PROVE  \E q \in Procs : Tearing(q, n)'
    OBVIOUS
  <2>1. n \in DOMAIN node /\ node[n].torn /\ ~Tearing(p, n)
    BY DEF TornStep
  <2>2. PICK q \in Procs : Tearing(q, n)
    BY <2>1 DEF LocksOK
  <2>3. QED
    BY <1>2, <2>1, <2>2
<1>5. ASSUME NEW q \in Procs, NEW n \in DOMAIN node', Owns(q, n)'
      PROVE  node'[n].locked /\ \A s \in Procs : Owns(s, n)' => s = q
  <2>1. CASE q = p
    <3>1. node'[n].locked
      BY <1>5, <2>1 DEF LockStep
    <3>2. ASSUME NEW s \in Procs, s # p, Owns(s, n)' PROVE FALSE
      <4>1. Owns(s, n)
        BY <1>2, <3>2
      <4>2. n \in DOMAIN node
        BY <4>1, OwnsNodes
      <4>3. node[n].locked /\ ~Owns(p, n)
        BY <3>2, <4>1, <4>2 DEF LocksOK
      <4>4. QED
        BY <1>5, <2>1, <4>2, <4>3 DEF LockStep
    <3>3. QED
      BY <2>1, <3>1, <3>2
  <2>2. CASE q # p
    <3>1. Owns(q, n)
      BY <1>2, <1>5, <2>2
    <3>2. n \in DOMAIN node
      BY <3>1, OwnsNodes
    <3>3. node[n].locked /\ ~Owns(p, n) /\ \A s \in Procs : Owns(s, n) => s = q
      BY <2>2, <3>1, <3>2 DEF LocksOK
    <3>4. node'[n].locked
      BY <3>2, <3>3 DEF LockStep
    <3>5. ~Owns(p, n)'
      BY <3>2, <3>3 DEF LockStep
    <3>6. QED
      BY <1>2, <3>3, <3>4, <3>5
  <2>3. QED
    BY <2>1, <2>2
<1>6. QED
  BY <1>1, <1>3, <1>4, <1>5 DEF LocksOK

-----------------------------------------------------------------------------
(* Types of the threads and their operations                                *)

LEMMA LocalFacts ==
  ASSUME TypesOK, NEW p \in Threads
  PROVE  LocalsOK(p) /\ ThreadOK(p)
  BY DEF TypesOK, LocalsOK, ThreadOK

\* The nodes there are stay, each of its kind.
Grown ==
  DOMAIN node \subseteq DOMAIN node' /\ \A n \in DOMAIN node : node'[n].leaf = node[n].leaf

\* At most p's operation changes, and the others see one more value.
OpsStep(p) ==
  /\ DOMAIN op' = Procs /\ DOMAIN seen' = Procs /\ DOMAIN res' = Procs
  /\ \A q \in Procs : q # p => op'[q] = op[q] /\ res'[q] = res[q] /\ seen'[q] \in SUBSET Maybe

LEMMA OthersThread ==
  ASSUME NEW p, Alone(p), Grown, NEW q \in Threads, q # p, ThreadOK(q)
  PROVE  ThreadOK(q)'
<1>1. t'[q] = t[q]
  BY DEF Alone
<1>2. QED
  BY <1>1 DEF ThreadOK, Grown

LEMMA OthersOp ==
  ASSUME NEW p, Alone(p), OpsStep(p), NEW q \in Procs, q # p, OpOK(q)
  PROVE  OpOK(q)'
<1>1. t'[q] = t[q] /\ op'[q] = op[q] /\ res'[q] = res[q] /\ seen'[q] \in SUBSET Maybe
  BY DEF Alone, OpsStep, Threads
<1>2. QED
  BY <1>1 DEF OpOK

LEMMA TypesStep ==
  ASSUME TypesOK, NEW p \in Threads, Alone(p), TreeOK', Grown, OpsStep(p),
         ThreadOK(p)', p \in Procs => OpOK(p)'
  PROVE  TypesOK'
<1>1. \A q \in Threads : ThreadOK(q)'
  BY OthersThread DEF TypesOK
<1>2. \A q \in Procs : OpOK(q)'
  BY OthersOp DEF TypesOK
<1>3. QED
  BY <1>1, <1>2 DEF TypesOK, Alone, OpsStep

LEMMA QuietOps ==
  ASSUME TypesOK, UNCHANGED <<op, seen, res>>, NEW p
  PROVE  OpsStep(p)
  BY DEF TypesOK, OpsStep, OpOK

LEMMA AnswerOps ==
  ASSUME TypesOK, NEW p \in Procs, NEW r, UNCHANGED <<op, seen>>, res' = [res EXCEPT ![p] = r]
  PROVE  OpsStep(p) /\ res'[p] = r
  BY DEF TypesOK, OpsStep, OpOK

\* Where the step leaves the nodes alone, the locals of p may do what does not
\* touch locks.
NoWork(p) ==
  t[p].pc \notin {"lockver", "act"} \union Climbing \union Ending

LEMMA OwnsNothing ==
  ASSUME NEW p \in Procs, NoWork(p)
  PROVE  \A n : ~Owns(p, n) /\ ~Tearing(p, n) /\ ~Splitting(p)
  BY DEF NoWork, Owns, Tearing, Splitting, Climbing, Ending, Parents

LEMMA SameTreeOK ==
  ASSUME TreeOK, UNCHANGED <<node, root, size_est>>
  PROVE  TreeOK' /\ Grown /\ \A p : Respect(p)
  BY DEF TreeOK, Formed, Grown, Respect

LEMMA QuietLocks ==
  ASSUME TypesOK, LocksOK, NEW p \in Threads, Alone(p), UNCHANGED <<node, root>>,
         p \in Procs => NoWork(p) /\ NoWork(p)' /\ (t'[p].after = "done" \/ t'[p].pc \in {"done", "count"})
  PROVE  LocksOK'
<1>0. Respect(p)
  BY DEF Respect
<1>1. CASE p \in Procs
  <2>1. \A n : ~Owns(p, n) /\ ~Tearing(p, n) /\ ~Owns(p, n)' /\ ~Tearing(p, n)'
    <3>1. \A n : ~Owns(p, n) /\ ~Tearing(p, n) /\ ~Splitting(p)
      BY <1>1, OwnsNothing
    <3>2. \A n : ~Owns(p, n)' /\ ~Tearing(p, n)' /\ ~Splitting(p)'
      BY <1>1 DEF NoWork, Owns, Tearing, Splitting, Climbing, Ending, Parents
    <3>3. QED
      BY <3>1, <3>2
  <2>2. LockStep(p) /\ TornStep(p)
    BY <2>1 DEF LockStep, TornStep
  <2>3. HeldOK(p)' /\ SplitOK(p)'
    BY <1>1 DEF HeldOK, SplitOK, NoWork, Splitting, Climbing, Ending
  <2>4. QED
    BY <1>0, <1>1, <2>2, <2>3, LocksStep
<1>2. CASE p \notin Procs
  <2>1. \A n : \A q \in Procs : (Owns(q, n)' <=> Owns(q, n)) /\ (Tearing(q, n)' <=> Tearing(q, n))
    BY <1>2, OthersOwn
  <2>2. \A q \in Procs : HeldOK(q)' /\ SplitOK(q)'
    <3>1. \A q \in Procs : t'[q] = t[q]
      BY <1>2 DEF Alone, Threads
    <3>2. QED
      BY <3>1 DEF LocksOK, HeldOK, SplitOK, Splitting, Full
  <2>3. QED
    BY <2>1, <2>2 DEF LocksOK
<1>3. QED
  BY <1>1, <1>2

\* Node n keeps its place in the tree.
SameLinks(n) ==
  node'[n].leaf = node[n].leaf /\ node'[n].kids = node[n].kids /\ node'[n].parent = node[n].parent

\* The tree keeps its shape if no node moves and no split begins or ends.
LEMMA SameShape ==
  ASSUME TreeOK, ShapeOK, DOMAIN node' = DOMAIN node, \A n \in DOMAIN node : SameLinks(n), root' = root,
         root \in DOMAIN node,
         \A q \in Procs : Splitting(q) => Splitting(q)' /\ t'[q].right = t[q].right
  PROVE  ShapeOK'
<1>1. Leaves' = Leaves
  BY DEF Leaves, SameLinks
<1>2. \A n \in DOMAIN node : node'[n].kids = node[n].kids /\ node'[n].parent = node[n].parent
  BY DEF SameLinks
<1>3. ASSUME NEW n \in DOMAIN node' \ Leaves'
      PROVE  /\ \A i \in DOMAIN node'[n].kids : node'[node'[n].kids[i]].parent = n
             /\ \A i, j \in DOMAIN node'[n].kids : node'[n].kids[i] = node'[n].kids[j] => i = j
  <2>1. n \in DOMAIN node \ Leaves /\ node'[n].kids = node[n].kids
    BY <1>1, <1>2
  <2>2. \A i \in DOMAIN node[n].kids : node[n].kids[i] \in DOMAIN node
    BY <2>1 DEF TreeOK, Formed, Leaves
  <2>3. QED
    BY <1>2, <2>1, <2>2 DEF ShapeOK
<1>4. QED
  BY <1>2, <1>3 DEF ShapeOK

-----------------------------------------------------------------------------
(* The steps of a search                                                    *)

Core == TypesOK /\ LocksOK /\ ShapeOK

Searching == {"root", "lock", "walkver", "walknext", "again"} \union AtRoot \union AtInner \union Reading

Still == UNCHANGED <<node, root, size_est, op, seen, res, count, scan>>

LEMMA LocalStill ==
  ASSUME Local
  PROVE  Still
  BY DEF Local, Still, tree, opvars

\* Only the place p is at changes.
Walked(p) == Still /\ Alone(p) /\ KeepWork(p) /\ KeepQueue(p)

LEMMA SearchStep ==
  ASSUME Core, NEW p \in Threads, Walked(p),
         t[p].pc \in Searching, t'[p].pc \in Searching, ThreadOK(p)',
         p \in Procs /\ t'[p].pc \in Reading => op[p].kind = "get",
         p \in Procs /\ t'[p].pc = "lock" => op[p].kind # "get"
  PROVE  Core'
<1>1. UNCHANGED <<node, root, size_est, op, seen, res, count, scan>> /\ Alone(p) /\ KeepWork(p) /\ KeepQueue(p)
  BY DEF Walked, Still
<1>2. TreeOK' /\ Grown
  BY <1>1, SameTreeOK DEF Core, TypesOK
<1>3. p \in Procs => OpOK(p)'
  <2> SUFFICES ASSUME p \in Procs PROVE OpOK(p)'
    OBVIOUS
  <2>1. OpOK(p)
    BY DEF Core, TypesOK
  <2>2. t[p].pc # "again" /\ t'[p].pc # "again"
    BY LocalFacts DEF Core, ThreadOK
  <2>3. QED
    BY <1>1, <2>1, <2>2 DEF OpOK, Searching, AtRoot, AtInner, Reading, Climbing, Parents, Ending
<1>4. TypesOK'
  BY <1>1, <1>2, <1>3, TypesStep, QuietOps DEF Core
<1>5. p \in Procs => NoWork(p) /\ NoWork(p)' /\ t'[p].after = "done"
  <2> SUFFICES ASSUME p \in Procs PROVE NoWork(p) /\ NoWork(p)' /\ t'[p].after = "done"
    OBVIOUS
  <2>1. HeldOK(p)
    BY DEF Core, LocksOK
  <2>2. t[p].pc \notin Ending \union Climbing \union {"done", "count", "act", "lockver"}
    BY DEF Searching, AtRoot, AtInner, Reading, Climbing, Parents, Ending
  <2>3. t'[p].pc \notin Ending \union Climbing \union {"done", "count", "act", "lockver"}
    BY DEF Searching, AtRoot, AtInner, Reading, Climbing, Parents, Ending
  <2>4. QED
    BY <1>1, <2>1, <2>2, <2>3 DEF HeldOK, NoWork, KeepQueue
<1>6. LocksOK'
  BY <1>1, <1>5, QuietLocks DEF Core
<1>7. ShapeOK'
  <2>1. \A q \in Procs : Splitting(q) => Splitting(q)' /\ t'[q].right = t[q].right
    <3>1. \A q \in Procs : q # p => t'[q] = t[q]
      BY <1>1 DEF Alone, Threads
    <3>2. p \in Procs => ~Splitting(p)
      BY <1>5, OwnsNothing
    <3>3. QED
      BY <3>1, <3>2 DEF Splitting
  <2>2. QED
    BY <1>1, <2>1, SameShape DEF Core, TypesOK, TreeOK, SameLinks
<1>8. QED
  BY <1>4, <1>6, <1>7 DEF Core

LEMMA ArriveFacts ==
  ASSUME NEW p \in Threads
  PROVE  /\ Arrive(p) \in {"read", "lock"}
         /\ p \in Scanners => Arrive(p) = "read"
         /\ p \in Procs => (Arrive(p) = "read" <=> op[p].kind = "get")
  BY ThreadsAssumption DEF Arrive, Threads

LEMMA LoadRootFacts ==
  ASSUME Core, NEW p \in Threads, LoadRoot(p)
  PROVE  /\ Walked(p) /\ KeepScan(p) /\ t[p].pc = "root" /\ t'[p].pc = "rootver"
         /\ t'[p].cur = root /\ t'[p].ver = t[p].ver /\ t'[p].nxt = t[p].nxt
         /\ t'[p].nver = t[p].nver /\ t'[p].val = t[p].val
<1>1. LocalsOK(p) /\ t[p].pc = "root" /\ Still
  BY LocalFacts, LocalStill DEF Core, LoadRoot, At
<1>2. SetCur(p, "rootver", root)
  BY DEF LoadRoot, SetCur
<1>3. QED
  BY <1>1, <1>2, LoadRootDoes DEF Walked

LEMMA LoadRootVersionFacts ==
  ASSUME Core, NEW p \in Threads, LoadRootVersion(p)
  PROVE  /\ Walked(p) /\ KeepScan(p) /\ t[p].pc = "rootver" /\ t'[p].pc = "rootparent"
         /\ t'[p].ver = node[t[p].cur].version /\ t'[p].cur = t[p].cur
         /\ t'[p].nxt = t[p].nxt /\ t'[p].nver = t[p].nver /\ t'[p].val = t[p].val
<1>1. LocalsOK(p) /\ t[p].pc = "rootver" /\ Still
  BY LocalFacts, LocalStill DEF Core, LoadRootVersion, At
<1>2. SetVer(p, "rootparent", node[t[p].cur].version)
  BY DEF LoadRootVersion, SetVer, N
<1>3. QED
  BY <1>1, <1>2, VersionDoes DEF Walked

LEMMA CheckRootFacts ==
  ASSUME Core, NEW p \in Threads, CheckRoot(p)
  PROVE  /\ Walked(p) /\ KeepScan(p) /\ KeepPlace(p) /\ t'[p].val = t[p].val
         /\ t[p].pc = "rootparent"
         /\ \/ node[t[p].cur].parent # Nil /\ t'[p].pc = "root"
            \/ node[t[p].cur].parent = Nil /\ node[t[p].cur].leaf /\ t'[p].pc = Arrive(p)
            \/ node[t[p].cur].parent = Nil /\ ~node[t[p].cur].leaf /\ t'[p].pc = "child"
<1>1. LocalsOK(p) /\ t[p].pc = "rootparent" /\ Still
  BY LocalFacts, LocalStill DEF Core, CheckRoot, At
<1>2. PICK l : /\ Goto(p, l)
               /\ l = IF node[t[p].cur].parent # Nil THEN "root"
                      ELSE IF node[t[p].cur].leaf THEN Arrive(p) ELSE "child"
  BY DEF CheckRoot, N
<1>3. QED
  BY <1>1, <1>2, GotoDoes DEF Walked

LEMMA FindChildFacts ==
  ASSUME Core, NEW p \in Threads, FindChild(p)
  PROVE  /\ Walked(p) /\ KeepScan(p) /\ t'[p].val = t[p].val
         /\ t[p].pc = "child" /\ t'[p].pc = "childver"
         /\ t'[p].cur = t[p].cur /\ t'[p].ver = t[p].ver /\ t'[p].nver = t[p].nver
         /\ \/ node[t[p].cur].torn /\ t'[p].nxt \in ToSet(node[t[p].cur].kids)
            \/ ~node[t[p].cur].torn /\ t'[p].nxt = ChildFor(t[p].cur, Key(p))
<1>1. LocalsOK(p) /\ t[p].pc = "child" /\ Still
  BY LocalFacts, LocalStill DEF Core, FindChild, At
<1>2. PICK c : /\ SetNxt(p, "childver", c)
               /\ \/ node[t[p].cur].torn /\ c \in ToSet(node[t[p].cur].kids)
                  \/ ~node[t[p].cur].torn /\ c = ChildFor(t[p].cur, Key(p))
  BY Zenon DEF FindChild, SetNxt, N, ChildFor
<1>3. QED
  BY <1>1, <1>2, NextDoes DEF Walked

LEMMA LoadChildVersionFacts ==
  ASSUME Core, NEW p \in Threads, LoadChildVersion(p)
  PROVE  /\ Walked(p) /\ KeepScan(p) /\ t'[p].val = t[p].val
         /\ t[p].pc = "childver" /\ t'[p].pc = "childlocked"
         /\ t'[p].cur = t[p].cur /\ t'[p].ver = t[p].ver /\ t'[p].nxt = t[p].nxt
         /\ t'[p].nver = node[t[p].nxt].version
<1>1. LocalsOK(p) /\ t[p].pc = "childver" /\ Still
  BY LocalFacts, LocalStill DEF Core, LoadChildVersion, At
<1>2. SetNver(p, "childlocked", node[t[p].nxt].version)
  BY DEF LoadChildVersion, SetNver
<1>3. QED
  BY <1>1, <1>2, NextVersionDoes DEF Walked

LEMMA CheckChildLockedFacts ==
  ASSUME Core, NEW p \in Threads, CheckChildLocked(p)
  PROVE  /\ Walked(p) /\ KeepScan(p) /\ KeepPlace(p) /\ t'[p].val = t[p].val
         /\ t[p].pc = "childlocked"
         /\ \/ node[t[p].cur].locked /\ t'[p].pc = "root"
            \/ ~node[t[p].cur].locked /\ t'[p].pc = "childvalid"
<1>1. LocalsOK(p) /\ t[p].pc = "childlocked" /\ Still
  BY LocalFacts, LocalStill DEF Core, CheckChildLocked, At
<1>2. PICK l : Goto(p, l) /\ l = IF node[t[p].cur].locked THEN "root" ELSE "childvalid"
  BY DEF CheckChildLocked, N
<1>3. QED
  BY <1>1, <1>2, GotoDoes DEF Walked

LEMMA CheckChildVersionFacts ==
  ASSUME Core, NEW p \in Threads, CheckChildVersion(p)
  PROVE  /\ Walked(p) /\ KeepScan(p) /\ t'[p].val = t[p].val
         /\ t[p].pc = "childvalid"
         /\ \/ node[t[p].cur].version # t[p].ver /\ t'[p].pc = "root" /\ KeepPlace(p)
            \/ /\ node[t[p].cur].version = t[p].ver
               /\ t'[p].pc = IF node[t[p].nxt].leaf THEN Arrive(p) ELSE "child"
               /\ t'[p].cur = t[p].nxt /\ t'[p].ver = t[p].nver
               /\ t'[p].nxt = t[p].nxt /\ t'[p].nver = t[p].nver
<1>1. LocalsOK(p) /\ t[p].pc = "childvalid" /\ Still
  BY LocalFacts, LocalStill DEF Core, CheckChildVersion, At
<1>2. CASE node[t[p].cur].version # t[p].ver
  <2>1. Goto(p, "root")
    BY <1>2 DEF CheckChildVersion, N
  <2>2. QED
    BY <1>1, <1>2, <2>1, GotoDoes DEF Walked
<1>3. CASE node[t[p].cur].version = t[p].ver
  <2>1. PICK l : /\ SetPlace(p, l, t[p].nxt, t[p].nver)
                 /\ l = IF node[t[p].nxt].leaf THEN Arrive(p) ELSE "child"
    BY <1>3 DEF CheckChildVersion, N, SetPlace
  <2>2. QED
    BY <1>1, <1>3, <2>1, DescendDoes DEF Walked
<1>4. QED
  BY <1>2, <1>3

LEMMA WalkVersionFacts ==
  ASSUME Core, NEW p \in Threads, WalkVersion(p)
  PROVE  /\ Walked(p) /\ KeepScan(p) /\ t[p].pc = "walkver" /\ t'[p].pc = "walknext"
         /\ t'[p].ver = node[t[p].cur].version /\ t'[p].cur = t[p].cur
         /\ t'[p].nxt = t[p].nxt /\ t'[p].nver = t[p].nver /\ t'[p].val = t[p].val
<1>1. LocalsOK(p) /\ t[p].pc = "walkver" /\ Still
  BY LocalFacts, LocalStill DEF Core, WalkVersion, At
<1>2. SetVer(p, "walknext", node[t[p].cur].version)
  BY DEF WalkVersion, SetVer, N
<1>3. QED
  BY <1>1, <1>2, VersionDoes DEF Walked

LEMMA WalkNextFacts ==
  ASSUME Core, NEW p \in Threads, WalkNext(p)
  PROVE  LET nx == node[t[p].cur].next
         IN  /\ Walked(p) /\ KeepScan(p) /\ t[p].pc = "walknext"
             /\ t'[p].ver = t[p].ver /\ t'[p].nxt = t[p].nxt /\ t'[p].nver = t[p].nver
             /\ t'[p].val = t[p].val
             /\ \/ /\ nx # Nil /\ node[nx].keys[1] <= Key(p)
                   /\ t'[p].pc = "walkver" /\ t'[p].cur = nx
                \/ /\ nx = Nil \/ ~(node[nx].keys[1] <= Key(p))
                   /\ t'[p].pc = Arrive(p) /\ t'[p].cur = t[p].cur
<1>1. LocalsOK(p) /\ t[p].pc = "walknext" /\ Still
  BY LocalFacts, LocalStill DEF Core, WalkNext, At
<1> DEFINE nx == node[t[p].cur].next
           on == nx # Nil /\ node[nx].keys[1] <= Key(p)
<1>2. CASE on
  <2>1. SetCur(p, "walkver", nx)
    BY <1>2 DEF WalkNext, N, SetCur
  <2> HIDE DEF nx
  <2>2. Alone(p) /\ t'[p].pc = "walkver" /\ t'[p].cur = nx
        /\ t'[p].ver = t[p].ver /\ t'[p].nxt = t[p].nxt /\ t'[p].nver = t[p].nver
        /\ t'[p].val = t[p].val /\ KeepWork(p) /\ KeepQueue(p) /\ KeepScan(p)
    BY <1>1, <2>1, LoadRootDoes
  <2>3. QED
    BY <1>1, <1>2, <2>2 DEF Walked, nx
<1>3. CASE ~on
  <2>1. Goto(p, Arrive(p))
    BY <1>3 DEF WalkNext, N
  <2>2. QED
    BY <1>1, <1>3, <2>1, GotoDoes DEF Walked, KeepPlace
<1>4. QED
  BY <1>2, <1>3

LEMMA ReadLeafFacts ==
  ASSUME Core, NEW p \in Threads, ReadLeaf(p)
  PROVE  /\ Walked(p) /\ KeepScan(p) /\ KeepPlace(p) /\ p \in Procs
         /\ t[p].pc = "read" /\ t'[p].pc = "locked"
         /\ t'[p].val = IF node[t[p].cur].torn THEN Garbage ELSE ValueIn(t[p].cur, op[p].key)
<1>1. LocalsOK(p) /\ t[p].pc = "read" /\ p \in Procs /\ Still
  BY LocalFacts, LocalStill DEF Core, ReadLeaf, At
<1>2. SetVal(p, "locked", IF node[t[p].cur].torn THEN Garbage ELSE ValueIn(t[p].cur, op[p].key))
  BY DEF ReadLeaf, SetVal, N
<1>3. QED
  BY <1>1, <1>2, ReadDoes DEF Walked

LEMMA ScanLeafFacts ==
  ASSUME Core, NEW p \in Threads, ScanLeaf(p)
  PROVE  /\ Walked(p) /\ KeepScan(p) /\ p \in Scanners
         /\ t[p].pc = "read" /\ t'[p].pc = "locked" /\ t'[p].nxt = node[t[p].cur].next
         /\ t'[p].cur = t[p].cur /\ t'[p].ver = t[p].ver /\ t'[p].nver = t[p].nver
<1>1. LocalsOK(p) /\ t[p].pc = "read" /\ p \in Scanners /\ Still
  BY LocalFacts, LocalStill DEF Core, ScanLeaf, At
<1>2. PICK b : SetBuf(p, "locked", node[t[p].cur].next, b)
  BY DEF ScanLeaf, SetBuf, N
<1>3. QED
  BY <1>1, <1>2, ScanLeafDoes DEF Walked

LEMMA CheckLockedFacts ==
  ASSUME Core, NEW p \in Threads, CheckLocked(p)
  PROVE  /\ Walked(p) /\ KeepScan(p) /\ KeepPlace(p) /\ t'[p].val = t[p].val
         /\ t[p].pc = "locked"
         /\ \/ ~node[t[p].cur].locked /\ t'[p].pc = "valid"
            \/ node[t[p].cur].locked /\ t'[p].pc = IF t[p].moved THEN "again" ELSE "walkver"
<1>1. LocalsOK(p) /\ t[p].pc = "locked" /\ Still
  BY LocalFacts, LocalStill DEF Core, CheckLocked, At
<1>2. PICK l : /\ Goto(p, l)
               /\ l = IF ~node[t[p].cur].locked THEN "valid"
                      ELSE IF t[p].moved THEN "again" ELSE "walkver"
  BY DEF CheckLocked, N
<1>3. QED
  BY <1>1, <1>2, GotoDoes DEF Walked

LEMMA CheckChangedFacts ==
  ASSUME Core, NEW p \in Threads, CheckChanged(p)
  PROVE  /\ Walked(p) /\ KeepScan(p) /\ KeepPlace(p) /\ t'[p].val = t[p].val
         /\ t[p].pc = "valid" /\ t'[p].pc = IF t[p].moved THEN "again" ELSE "walkver"
<1>1. LocalsOK(p) /\ t[p].pc = "valid" /\ Still
  BY LocalFacts, LocalStill DEF Core, CheckChanged, At
<1>2. PICK l : Goto(p, l) /\ l = IF t[p].moved THEN "again" ELSE "walkver"
  BY DEF CheckChanged
<1>3. QED
  BY <1>1, <1>2, GotoDoes DEF Walked

LEMMA ScanVersionFacts ==
  ASSUME Core, NEW p \in Threads, ScanVersion(p)
  PROVE  /\ Walked(p) /\ KeepScan(p) /\ t[p].pc = "again" /\ t'[p].pc = "read"
         /\ t'[p].ver = node[t[p].cur].version /\ t'[p].cur = t[p].cur
         /\ t'[p].nxt = t[p].nxt /\ t'[p].nver = t[p].nver
<1>1. LocalsOK(p) /\ t[p].pc = "again" /\ Still
  BY LocalFacts, LocalStill DEF Core, ScanVersion, At
<1>2. SetVer(p, "read", node[t[p].cur].version)
  BY DEF ScanVersion, SetVer, N
<1>3. QED
  BY <1>1, <1>2, VersionDoes DEF Walked

\* A search moves to a place that fits it.
LEMMA Placed ==
  ASSUME Core, NEW p \in Threads, Walked(p), KeepScan(p),
         t'[p].cur \in Nat, t'[p].ver \in Nat, t'[p].nxt \in Nat, t'[p].nver \in Nat,
         t'[p].pc \in Searching,
         t'[p].pc \in AtRoot \union AtInner \union AtLeaf => t'[p].cur \in DOMAIN node,
         t'[p].pc \in AtInner => ~node[t'[p].cur].leaf,
         t'[p].pc \in AtLeaf => node[t'[p].cur].leaf,
         t'[p].pc \in AtInner \ {"child"} => t'[p].nxt \in DOMAIN node,
         p \in Scanners => t'[p].pc # "lock",
         p \in Scanners /\ t'[p].pc \in {"locked", "valid"} /\ t'[p].nxt # Nil =>
           t'[p].nxt \in DOMAIN node /\ node[t'[p].nxt].leaf,
         p \in Procs => t'[p].pc # "again"
  PROVE  ThreadOK(p)'
<1>1. ThreadOK(p)
  BY LocalFacts DEF Core
<1>2. node' = node /\ KeepWork(p) /\ KeepQueue(p) /\ DOMAIN t'[p] = DOMAIN NoOp
  BY DEF Walked, Still, Alone
<1>3. t'[p].pc \in Places
  BY DEF Searching, Places, Outside, AtRoot, AtInner, AtLeaf, Reading
<1>4. p \in Scanners => t'[p].pc \in {"idle", "root", "done", "walkver", "walknext", "again"}
                          \union AtRoot \union AtInner \union Reading
  BY DEF Searching, AtRoot, AtInner, Reading
<1>5. QED
  BY <1>1, <1>2, <1>3, <1>4 DEF ThreadOK, KeepWork, KeepQueue, KeepScan

LEMMA KidsFacts ==
  ASSUME TreeOK, NEW n \in DOMAIN node, ~node[n].leaf
  PROVE  /\ \A i \in DOMAIN node[n].kids : node[n].kids[i] \in DOMAIN node /\ node[n].kids[i] \in Nat
         /\ Len(node[n].keys) \in 1..Capacity /\ Len(node[n].kids) = Len(node[n].keys) + 1
         /\ DOMAIN node[n].kids = 1..(Len(node[n].keys) + 1)
         /\ DOMAIN node[n].keys = 1..Len(node[n].keys)
<1>1. Formed(n) /\ node \in Seq(Node)
  BY DEF TreeOK
<1>2. node[n].kids \in Seq(Nat) /\ node[n].keys \in Seq(Keys)
  BY <1>1, NodeFacts
<1>3. QED
  BY <1>1, <1>2 DEF Formed

LEMMA LeafFacts ==
  ASSUME TreeOK, NEW n \in DOMAIN node, node[n].leaf
  PROVE  /\ node[n].next \in Nat
         /\ node[n].next # Nil => node[n].next \in DOMAIN node /\ node[node[n].next].leaf
         /\ Len(node[n].keys) \in 1..Capacity /\ Len(node[n].vals) = Len(node[n].keys)
         /\ node[n].vals \in Seq(Maybe) /\ node[n].keys \in Seq(Keys)
         /\ DOMAIN node[n].keys = 1..Len(node[n].keys)
         /\ DOMAIN node[n].vals = 1..Len(node[n].keys)
<1>1. Formed(n) /\ node \in Seq(Node)
  BY DEF TreeOK
<1>2. node[n].vals \in Seq(Maybe) /\ node[n].keys \in Seq(Keys) /\ node[n].next \in Nat
  BY <1>1, NodeFacts
<1>3. QED
  BY <1>1, <1>2 DEF Formed

LEMMA SlotBound ==
  ASSUME TreeOK, NEW n \in DOMAIN node, NEW k
  PROVE  /\ Slot(n, k) \in 0..Len(node[n].keys) /\ SlotAfter(n, k) \in 0..Len(node[n].keys)
         /\ Len(node[n].keys) \in Nat
<1>1. node[n].keys \in Seq(Keys)
  BY NodeFacts DEF TreeOK
<1>2. Len(node[n].keys) \in Nat /\ DOMAIN node[n].keys = 1..Len(node[n].keys)
  BY <1>1
<1>3. IsFiniteSet(1..Len(node[n].keys)) /\ Cardinality(1..Len(node[n].keys)) = Len(node[n].keys)
  BY <1>2, FS_Interval
<1>4. \A S \in SUBSET (1..Len(node[n].keys)) : Cardinality(S) \in 0..Len(node[n].keys)
  <2> SUFFICES ASSUME NEW S \in SUBSET (1..Len(node[n].keys))
               PROVE  Cardinality(S) \in 0..Len(node[n].keys)
    OBVIOUS
  <2>1. IsFiniteSet(S) /\ Cardinality(S) <= Len(node[n].keys)
    BY <1>3, FS_Subset
  <2>2. Cardinality(S) \in Nat
    BY <2>1, FS_CardinalityType
  <2>3. QED
    BY <1>2, <2>1, <2>2
<1>5. QED
  BY <1>2, <1>4 DEF Slot, SlotAfter

LEMMA ChildIsNode ==
  ASSUME TreeOK, NEW n \in DOMAIN node, ~node[n].leaf, NEW k
  PROVE  /\ ChildFor(n, k) \in DOMAIN node /\ SlotAfter(n, k) + 1 \in DOMAIN node[n].kids
         /\ ChildFor(n, k) \in Nat
  BY KidsFacts, SlotBound DEF ChildFor

LEMMA SearchCore ==
  ASSUME Core, NEW p \in Threads,
         \/ LoadRoot(p) \/ LoadRootVersion(p) \/ CheckRoot(p)
         \/ FindChild(p) \/ LoadChildVersion(p) \/ CheckChildLocked(p) \/ CheckChildVersion(p)
  PROVE  Core'
<1>1. ThreadOK(p) /\ TreeOK /\ Arrive(p) \in {"read", "lock"} /\ (p \in Scanners => Arrive(p) = "read")
  BY LocalFacts, ArriveFacts DEF Core, TypesOK
<1>2. \A n \in DOMAIN node : n \in Nat /\ node[n].version \in Nat
  BY <1>1, NodeFacts DEF TreeOK
<1>3. p \in Procs => OpOK(p) /\ (Arrive(p) = "read" <=> op[p].kind = "get")
  BY ArriveFacts DEF Core, TypesOK
<1> USE DEF Searching, AtRoot, AtInner, AtLeaf, Reading
<1>4. CASE LoadRoot(p)
  <2>1. root \in DOMAIN node /\ root \in Nat
    BY <1>1, <1>2 DEF TreeOK
  <2>2. ThreadOK(p)'
    BY <1>1, <1>4, <2>1, LoadRootFacts, Placed DEF ThreadOK
  <2>3. QED
    BY <1>4, <2>2, LoadRootFacts, SearchStep
<1>5. CASE LoadRootVersion(p)
  <2>1. t[p].cur \in DOMAIN node
    BY <1>1, <1>5, LoadRootVersionFacts DEF ThreadOK
  <2>2. ThreadOK(p)'
    BY <1>1, <1>2, <1>5, <2>1, LoadRootVersionFacts, Placed DEF ThreadOK
  <2>3. QED
    BY <1>5, <2>2, LoadRootVersionFacts, SearchStep
<1>6. CASE CheckRoot(p)
  <2>1. t[p].cur \in DOMAIN node
    BY <1>1, <1>6, CheckRootFacts DEF ThreadOK
  <2>2. ThreadOK(p)'
    <3>1. /\ Walked(p) /\ KeepScan(p) /\ KeepPlace(p) /\ t[p].pc = "rootparent"
          /\ \/ t'[p].pc = "root"
             \/ node[t[p].cur].leaf /\ t'[p].pc = Arrive(p)
             \/ ~node[t[p].cur].leaf /\ t'[p].pc = "child"
      BY <1>6, CheckRootFacts
    <3>2. /\ t'[p].cur = t[p].cur /\ t'[p].cur \in Nat /\ t'[p].ver \in Nat
          /\ t'[p].nxt \in Nat /\ t'[p].nver \in Nat
      BY <1>1, <3>1 DEF ThreadOK, KeepPlace
    <3>3. QED
      BY <1>1, <2>1, <3>1, <3>2, Placed
  <2>3. QED
    BY <1>1, <1>3, <1>6, <2>2, CheckRootFacts, SearchStep
<1>7. CASE FindChild(p)
  <2>1. t[p].cur \in DOMAIN node /\ ~node[t[p].cur].leaf
    BY <1>1, <1>7, FindChildFacts DEF ThreadOK
  <2>2. t'[p].nxt \in DOMAIN node /\ t'[p].nxt \in Nat
    <3>1. \A i \in DOMAIN node[t[p].cur].kids : node[t[p].cur].kids[i] \in DOMAIN node /\ node[t[p].cur].kids[i] \in Nat
      BY <1>1, <2>1, KidsFacts
    <3>2. ChildFor(t[p].cur, Key(p)) \in DOMAIN node /\ ChildFor(t[p].cur, Key(p)) \in Nat
      BY <1>1, <2>1, ChildIsNode
    <3>3. QED
      BY <1>7, <3>1, <3>2, FindChildFacts DEF ToSet
  <2>3. ThreadOK(p)'
    BY <1>1, <1>7, <2>1, <2>2, FindChildFacts, Placed DEF ThreadOK
  <2>4. QED
    BY <1>7, <2>3, FindChildFacts, SearchStep
<1>8. CASE LoadChildVersion(p)
  <2>1. t[p].cur \in DOMAIN node /\ ~node[t[p].cur].leaf /\ t[p].nxt \in DOMAIN node
    BY <1>1, <1>8, LoadChildVersionFacts DEF ThreadOK
  <2>2. ThreadOK(p)'
    BY <1>1, <1>2, <1>8, <2>1, LoadChildVersionFacts, Placed DEF ThreadOK
  <2>3. QED
    BY <1>8, <2>2, LoadChildVersionFacts, SearchStep
<1>9. CASE CheckChildLocked(p)
  <2>1. t[p].cur \in DOMAIN node /\ ~node[t[p].cur].leaf /\ t[p].nxt \in DOMAIN node
    BY <1>1, <1>9, CheckChildLockedFacts DEF ThreadOK
  <2>2. ThreadOK(p)'
    BY <1>1, <1>9, <2>1, CheckChildLockedFacts, Placed DEF ThreadOK, KeepPlace
  <2>3. QED
    BY <1>9, <2>2, CheckChildLockedFacts, SearchStep
<1>10. CASE CheckChildVersion(p)
  <2>1. t[p].cur \in DOMAIN node /\ t[p].nxt \in DOMAIN node
    BY <1>1, <1>10, CheckChildVersionFacts DEF ThreadOK
  <2>2. node[t[p].nxt].leaf \in BOOLEAN
    BY <1>1, <2>1, NodeFacts DEF TreeOK
  <2>3. CASE node[t[p].cur].version # t[p].ver
    <3>1. t'[p].pc = "root" /\ KeepPlace(p)
      BY <1>1, <1>10, <2>3, CheckChildVersionFacts
    <3>2. ThreadOK(p)'
      BY <1>1, <1>10, <3>1, CheckChildVersionFacts, Placed DEF ThreadOK, KeepPlace
    <3>3. QED
      BY <1>1, <1>10, <3>1, <3>2, CheckChildVersionFacts, SearchStep
  <2>4. CASE node[t[p].cur].version = t[p].ver
    <3>1. /\ t'[p].pc = IF node[t[p].nxt].leaf THEN Arrive(p) ELSE "child"
          /\ t'[p].cur = t[p].nxt /\ t'[p].ver = t[p].nver
          /\ t'[p].nxt = t[p].nxt /\ t'[p].nver = t[p].nver
      BY <1>1, <1>10, <2>4, CheckChildVersionFacts
    <3>2. CASE node[t[p].nxt].leaf
      <4>1. t'[p].pc = Arrive(p)
        BY <3>1, <3>2
      <4> DEFINE pc == t'[p].pc
      <4>a. pc \in {"read", "lock"} /\ (p \in Scanners => pc = "read")
        BY <4>1 DEF Arrive
      <4>b. /\ pc \in Searching /\ pc \notin AtInner /\ pc \notin {"locked", "valid", "again"}
            /\ (p \in Scanners => pc # "lock")
        BY <4>a DEF Searching, AtInner, Reading
      <4>c. /\ t'[p].cur \in DOMAIN node /\ node[t'[p].cur].leaf
            /\ t'[p].cur \in Nat /\ t'[p].ver \in Nat /\ t'[p].nxt \in Nat /\ t'[p].nver \in Nat
        BY <1>1, <2>1, <3>1, <3>2 DEF ThreadOK
      <4>d. Walked(p) /\ KeepScan(p)
        BY <1>1, <1>10, CheckChildVersionFacts
      <4> HIDE DEF pc
      <4>2. ThreadOK(p)'
        BY <1>1, <4>b, <4>c, <4>d, Placed DEF pc
      <4>3. QED
        BY <1>1, <1>3, <1>10, <4>1, <4>2, CheckChildVersionFacts, SearchStep
    <3>3. CASE ~node[t[p].nxt].leaf
      <4>1. t'[p].pc = "child"
        BY <3>1, <3>3
      <4>2. ThreadOK(p)'
        BY <1>1, <1>10, <2>1, <3>1, <3>3, <4>1, CheckChildVersionFacts, Placed DEF ThreadOK
      <4>3. QED
        BY <1>1, <1>10, <4>1, <4>2, CheckChildVersionFacts, SearchStep
    <3>4. QED
      BY <3>2, <3>3
  <2>5. QED
    BY <2>3, <2>4
<1>11. QED
  BY <1>4, <1>5, <1>6, <1>7, <1>8, <1>9, <1>10

LEMMA WalkCore ==
  ASSUME Core, NEW p \in Threads,
         \/ WalkVersion(p) \/ WalkNext(p) \/ ReadLeaf(p) \/ ScanLeaf(p)
         \/ CheckLocked(p) \/ CheckChanged(p) \/ ScanVersion(p)
  PROVE  Core'
<1>1. ThreadOK(p) /\ TreeOK /\ Arrive(p) \in {"read", "lock"} /\ (p \in Scanners => Arrive(p) = "read")
  BY LocalFacts, ArriveFacts DEF Core, TypesOK
<1>2. \A n \in DOMAIN node : n \in Nat /\ node[n].version \in Nat
  BY <1>1, NodeFacts DEF TreeOK
<1>3. p \in Procs => OpOK(p) /\ (Arrive(p) = "read" <=> op[p].kind = "get")
  BY ArriveFacts DEF Core, TypesOK
<1> USE DEF Searching, AtRoot, AtInner, AtLeaf, Reading
<1>4. CASE WalkVersion(p)
  <2>1. t[p].cur \in DOMAIN node /\ node[t[p].cur].leaf
    BY <1>1, <1>4, WalkVersionFacts DEF ThreadOK
  <2>2. ThreadOK(p)'
    BY <1>1, <1>2, <1>4, <2>1, WalkVersionFacts, Placed DEF ThreadOK
  <2>3. QED
    BY <1>4, <2>2, WalkVersionFacts, SearchStep
<1>5. CASE WalkNext(p)
  <2>1. t[p].cur \in DOMAIN node /\ node[t[p].cur].leaf
    BY <1>1, <1>5, WalkNextFacts DEF ThreadOK
  <2>2. node[t[p].cur].next # Nil => /\ node[t[p].cur].next \in DOMAIN node
                                     /\ node[node[t[p].cur].next].leaf
    BY <1>1, <2>1, LeafFacts
  <2>3. /\ Walked(p) /\ KeepScan(p)
        /\ \/ t'[p].cur = t[p].cur /\ t'[p].pc = Arrive(p)
           \/ t'[p].cur \in DOMAIN node /\ node[t'[p].cur].leaf /\ t'[p].pc = "walkver"
    BY <1>5, <2>2, WalkNextFacts
  <2>4. t'[p].cur \in DOMAIN node /\ node[t'[p].cur].leaf /\ t'[p].cur \in Nat
    BY <1>2, <2>1, <2>3
  <2>5. t'[p].ver \in Nat /\ t'[p].nxt \in Nat /\ t'[p].nver \in Nat
    BY <1>1, <1>5, WalkNextFacts DEF ThreadOK
  <2>6. ThreadOK(p)'
    BY <1>1, <2>3, <2>4, <2>5, Placed
  <2>7. t[p].pc = "walknext"
    BY <1>5, WalkNextFacts
  <2>8. QED
    BY <1>1, <1>3, <2>3, <2>6, <2>7, SearchStep
<1>6. CASE ReadLeaf(p)
  <2>1. t[p].cur \in DOMAIN node /\ node[t[p].cur].leaf
    BY <1>1, <1>6, ReadLeafFacts DEF ThreadOK
  <2>2. ThreadOK(p)'
    BY <1>1, <1>6, <2>1, ReadLeafFacts, Placed, ThreadsAssumption DEF ThreadOK, KeepPlace
  <2>3. QED
    BY <1>3, <1>6, <2>2, ReadLeafFacts, SearchStep DEF OpOK
<1>7. CASE ScanLeaf(p)
  <2>1. t[p].cur \in DOMAIN node /\ node[t[p].cur].leaf /\ p \notin Procs
    BY <1>1, <1>7, ScanLeafFacts, ThreadsAssumption DEF ThreadOK
  <2>2. /\ node[t[p].cur].next \in Nat
        /\ node[t[p].cur].next # Nil => /\ node[t[p].cur].next \in DOMAIN node
                                        /\ node[node[t[p].cur].next].leaf
    BY <1>1, <2>1, LeafFacts
  <2>3. ThreadOK(p)'
    BY <1>1, <1>7, <2>1, <2>2, ScanLeafFacts, Placed DEF ThreadOK
  <2>4. QED
    BY <1>7, <2>1, <2>3, ScanLeafFacts, SearchStep
<1>8. CASE CheckLocked(p)
  <2>1. t[p].cur \in DOMAIN node /\ node[t[p].cur].leaf
    BY <1>1, <1>8, CheckLockedFacts DEF ThreadOK
  <2>2. /\ Walked(p) /\ KeepScan(p) /\ KeepPlace(p) /\ t[p].pc = "locked"
        /\ t'[p].pc \in {"valid", "walkver", "again"}
        /\ p \in Procs => t'[p].pc # "again"
    BY <1>1, <1>8, CheckLockedFacts DEF ThreadOK
  <2>3. ThreadOK(p)'
    BY <1>1, <2>1, <2>2, Placed DEF ThreadOK, KeepPlace
  <2>4. QED
    BY <1>3, <2>2, <2>3, SearchStep DEF OpOK
<1>9. CASE CheckChanged(p)
  <2>1. t[p].cur \in DOMAIN node /\ node[t[p].cur].leaf
    BY <1>1, <1>9, CheckChangedFacts DEF ThreadOK
  <2>2. /\ Walked(p) /\ KeepScan(p) /\ KeepPlace(p) /\ t[p].pc = "valid"
        /\ t'[p].pc \in {"walkver", "again"}
        /\ p \in Procs => t'[p].pc # "again"
    BY <1>1, <1>9, CheckChangedFacts DEF ThreadOK
  <2>3. ThreadOK(p)'
    BY <1>1, <2>1, <2>2, Placed DEF ThreadOK, KeepPlace
  <2>4. QED
    BY <2>2, <2>3, SearchStep
<1>10. CASE ScanVersion(p)
  <2>1. t[p].cur \in DOMAIN node /\ node[t[p].cur].leaf /\ p \notin Procs
    BY <1>1, <1>10, ScanVersionFacts DEF ThreadOK
  <2>2. ThreadOK(p)'
    BY <1>1, <1>2, <1>10, <2>1, ScanVersionFacts, Placed DEF ThreadOK
  <2>3. QED
    BY <1>10, <2>1, <2>2, ScanVersionFacts, SearchStep
<1>11. QED
  BY <1>4, <1>5, <1>6, <1>7, <1>8, <1>9, <1>10

-----------------------------------------------------------------------------
(* Beginning and end of operations, and their results                       *)

\* A step of p that changes neither nodes nor locks.
LEMMA PlainStep ==
  ASSUME Core, NEW p \in Threads, Alone(p), UNCHANGED <<node, root>>, size_est' \in Nat,
         OpsStep(p), ThreadOK(p)', p \in Procs => OpOK(p)',
         p \in Procs => NoWork(p) /\ NoWork(p)' /\ (t'[p].after = "done" \/ t'[p].pc \in {"done", "count"})
  PROVE  Core'
<1>1. TreeOK' /\ Grown
  BY DEF Core, TypesOK, TreeOK, Formed, Grown
<1>2. TypesOK'
  BY <1>1, TypesStep DEF Core
<1>3. LocksOK'
  BY QuietLocks DEF Core
<1>4. \A q \in Procs : Splitting(q) => Splitting(q)' /\ t'[q].right = t[q].right
  <2>1. \A q \in Procs : q # p => t'[q] = t[q]
    BY DEF Alone, Threads
  <2>2. p \in Procs => ~Splitting(p)
    BY OwnsNothing
  <2>3. QED
    BY <2>1, <2>2 DEF Splitting
<1>5. ShapeOK'
  BY <1>4, SameShape DEF Core, TypesOK, TreeOK, SameLinks
<1>6. QED
  BY <1>2, <1>3, <1>5 DEF Core

LEMMA CallFacts ==
  ASSUME NEW c \in Abs!Calls
  PROVE  /\ c # Abs!Idle /\ c.key \in OpKeys /\ c.kind \in {"get", "put", "update", "remove"}
         /\ c.kind \in {"put", "update"} => c.val \in Values
         /\ c.kind # "get" => Abs!Result(c) \in Maybe
<1>1. /\ c.key \in OpKeys /\ c.kind \in {"get", "put", "update", "remove"}
      /\ c.kind \in {"put", "update"} => c.val \in Values
  BY DEF Abs!Calls
<1>2. c # Abs!Idle
  BY <1>1 DEF Abs!Calls, Abs!Idle
<1>3. QED
  BY <1>1, <1>2 DEF Abs!Result, Maybe

LEMMA KeyFacts ==
  /\ OpKeys \subseteq Keys /\ Keys \subseteq Nat /\ Capacity \in Nat /\ Capacity >= 3
  /\ IsFiniteSet(Procs)
<1>1. Capacity \in Nat /\ Capacity >= 3 /\ OpKeys \subseteq Nat /\ IsFiniteSet(Procs)
  BY CapacityAssumption, KeysAssumption, ThreadsAssumption
<1>2. {2 * i : i \in 1..(Capacity * (Capacity + 1))} \subseteq Nat
  OBVIOUS
<1>3. QED
  BY <1>1, <1>2 DEF Keys

LEMMA ActiveFacts ==
  ASSUME TypesOK, NEW p \in Procs, t[p].pc # "idle"
  PROVE  /\ op[p] \in Abs!Calls /\ op[p] # Abs!Idle /\ op[p].key \in OpKeys
         /\ op[p].key \in Keys /\ op[p].key \in Nat
         /\ op[p].kind \in {"get", "put", "update", "remove"}
         /\ op[p].kind \in {"put", "update"} => op[p].val \in Values
         /\ op[p].kind # "get" => Abs!Result(op[p]) \in Maybe
         /\ Key(p) = op[p].key
<1>1. OpOK(p) /\ Key(p) = op[p].key
  BY ThreadsAssumption DEF TypesOK, Key
<1>2. op[p] \in Abs!Calls
  BY <1>1 DEF OpOK
<1>3. QED
  BY <1>1, <1>2, CallFacts, KeyFacts

LEMMA SlotHeld ==
  ASSUME TreeOK, NEW n \in DOMAIN node, NEW k \in Nat, Holds(n, k)
  PROVE  Slot(n, k) + 1 \in 1..Len(node[n].keys)
<1>1. node[n].keys \in Seq(Keys)
  BY NodeFacts DEF TreeOK
<1>2. Len(node[n].keys) \in Nat /\ DOMAIN node[n].keys = 1..Len(node[n].keys)
  BY <1>1
<1> DEFINE D == 1..Len(node[n].keys)
           S == {i \in D : node[n].keys[i] < k}
<1>3. PICK j \in D : node[n].keys[j] = k
  BY <1>2 DEF Holds
<1>4. IsFiniteSet(D) /\ Cardinality(D) = Len(node[n].keys)
  BY <1>2, FS_Interval
<1>5. j \notin S
  BY <1>3
<1>6. S \in SUBSET D /\ S # D
  BY <1>3, <1>5
<1> HIDE DEF S
<1>7. IsFiniteSet(S) /\ Cardinality(S) <= Cardinality(D) /\ (Cardinality(D) = Cardinality(S) => D = S)
  BY <1>4, <1>6, FS_Subset
<1>8. Cardinality(S) \in Nat
  BY <1>7, FS_CardinalityType
<1>9. Slot(n, k) = Cardinality(S)
  BY <1>2 DEF S, Slot
<1>10. QED
  BY <1>2, <1>4, <1>6, <1>7, <1>8, <1>9

LEMMA ValueType ==
  ASSUME TreeOK, NEW n \in Leaves, NEW k \in Nat
  PROVE  ValueIn(n, k) \in Maybe
<1>1. n \in DOMAIN node /\ node[n].leaf
  BY DEF Leaves
<1>2. node[n].vals \in Seq(Maybe) /\ DOMAIN node[n].vals = 1..Len(node[n].keys)
  BY <1>1, LeafFacts
<1>3. CASE Holds(n, k)
  <2>1. Slot(n, k) + 1 \in 1..Len(node[n].keys)
    BY <1>1, <1>3, SlotHeld
  <2>2. node[n].vals[Slot(n, k) + 1] \in Maybe
    BY <1>2, <2>1
  <2>3. QED
    BY <1>3, <2>2 DEF ValueIn
<1>4. CASE ~Holds(n, k)
  BY <1>4 DEF ValueIn, Maybe
<1>5. QED
  BY <1>3, <1>4

LEMMA LogicalType ==
  ASSUME TreeOK, NEW k \in Nat
  PROVE  Logical(k) \in Maybe
<1> DEFINE H == {n \in Leaves : Holds(n, k)}
<1>1. CASE H = {}
  BY <1>1 DEF Logical, Maybe
<1>2. CASE H # {}
  <2>1. PICK m : m = CHOOSE n \in H : TRUE
    OBVIOUS
  <2>2. m \in H
    BY <1>2, <2>1
  <2>3. ValueIn(m, k) \in Maybe
    BY <2>2, ValueType
  <2>4. Logical(k) = ValueIn(m, k)
    BY <1>2, <2>1 DEF Logical
  <2>5. QED
    BY <2>3, <2>4
<1>3. QED
  BY <1>1, <1>2

\* p's outcome is known, and it goes on to the end of its operation.
LEMMA OpDecided ==
  ASSUME NEW p \in Procs, OpOK(p), op'[p] = op[p], seen'[p] \in SUBSET Maybe,
         res'[p] # Abs!Undecided, t[p].pc # "idle",
         t'[p].pc \in {"done", "count"} \union Climbing \union Ending,
         t'[p].pc \in {"count"} \union Climbing \union Ending => op[p].kind # "get",
         t'[p].pc \in Climbing => op[p].kind = "put",
         t'[p].pc \in Ending /\ t'[p].after = "parent" => op[p].kind = "put"
  PROVE  OpOK(p)'
<1>1. t'[p].pc \notin {"idle", "root", "lock", "lockver", "act", "walkver", "walknext"}
                        \union AtRoot \union AtInner \union Reading
  BY DEF AtRoot, AtInner, Reading, Climbing, Parents, Ending
<1>2. t'[p].pc # "idle" /\ op[p] # Abs!Idle
  BY <1>1 DEF OpOK
<1>3. t'[p].pc \notin Reading /\ t'[p].pc \notin {"lock", "lockver", "act"}
  BY <1>1
<1>4. QED
  BY <1>1, <1>2, <1>3 DEF OpOK

LEMMA EffectOps ==
  ASSUME TypesOK, NEW p \in Procs, t[p].pc # "idle", op[p].kind # "get", Effect(p)
  PROVE  /\ OpsStep(p) /\ op' = op /\ res'[p] # Abs!Undecided /\ res'[p] = Abs!Ok
         /\ \A q \in Procs : seen'[q] \in SUBSET Maybe
<1>1. /\ seen' = Abs!See(op[p].key, Abs!Result(op[p]))
      /\ res' = [res EXCEPT ![p] = Abs!Ok] /\ op' = op
  BY DEF Effect
<1>2. Abs!Result(op[p]) \in Maybe
  BY ActiveFacts
<1>3. \A q \in Procs : seen[q] \in SUBSET Maybe
  BY DEF TypesOK, OpOK
<1>4. DOMAIN seen' = Procs /\ \A q \in Procs : seen'[q] \in SUBSET Maybe
  BY <1>1, <1>2, <1>3 DEF Abs!See
<1>5. DOMAIN res' = Procs /\ res'[p] = Abs!Ok /\ \A q \in Procs : q # p => res'[q] = res[q]
  BY <1>1 DEF TypesOK
<1>6. Abs!Ok # Abs!Undecided
  BY DEF Abs!Ok, Abs!Undecided
<1>7. QED
  BY <1>1, <1>4, <1>5, <1>6 DEF OpsStep, TypesOK

LEMMA StartFacts ==
  ASSUME Core, NEW p \in Procs, Start(p)
  PROVE  /\ Alone(p) /\ KeepPlace(p) /\ KeepWork(p) /\ KeepQueue(p) /\ KeepScan(p)
         /\ UNCHANGED <<node, root, size_est, res, scan>>
         /\ t[p].pc = "idle" /\ t'[p].pc = "root"
         /\ op[p] = Abs!Idle
         /\ \E c \in Abs!Calls : /\ op' = [op EXCEPT ![p] = c]
                                 /\ seen' = [seen EXCEPT ![p] = {Logical(c.key)}]
<1>1. LocalsOK(p) /\ t[p].pc = "idle" /\ UNCHANGED <<node, root, size_est, res, scan>> /\ op[p] = Abs!Idle
  BY LocalFacts DEF Core, Start, At, Threads, tree, Abs!Invoke
<1>2. Goto(p, "root")
  BY DEF Start
<1>3. Alone(p) /\ KeepPlace(p) /\ KeepWork(p) /\ KeepQueue(p) /\ KeepScan(p) /\ t'[p].pc = "root"
  BY <1>1, <1>2, GotoDoes
<1>4. PICK c \in Abs!Calls :
        /\ op' = [op EXCEPT ![p] = c]
        /\ seen' = [seen EXCEPT ![p] = {[k \in OpKeys |-> Logical(k)][c.key]}]
  BY Zenon DEF Start, Abs!Invoke
<1>5. [k \in OpKeys |-> Logical(k)][c.key] = Logical(c.key)
  BY CallFacts
<1>6. seen' = [seen EXCEPT ![p] = {Logical(c.key)}]
  BY <1>4, <1>5
<1>7. QED
  BY <1>1, <1>3, <1>4, <1>6

LEMMA StartCore ==
  ASSUME Core, NEW p \in Procs, Start(p)
  PROVE  Core'
<1>1. /\ Alone(p) /\ KeepPlace(p) /\ KeepWork(p) /\ KeepQueue(p) /\ KeepScan(p)
      /\ UNCHANGED <<node, root, size_est, res>>
      /\ t[p].pc = "idle" /\ t'[p].pc = "root"
  BY StartFacts
<1>2. PICK c \in Abs!Calls : /\ op' = [op EXCEPT ![p] = c]
                             /\ seen' = [seen EXCEPT ![p] = {Logical(c.key)}]
  BY StartFacts
<1>3. TreeOK /\ ThreadOK(p) /\ OpOK(p) /\ HeldOK(p) /\ p \in Threads /\ p \notin Scanners
  BY LocalFacts, ThreadsAssumption DEF Core, TypesOK, LocksOK, Threads
<1>4. c.key \in Nat /\ c # Abs!Idle
  BY CallFacts, KeyFacts
<1>5. {Logical(c.key)} \in SUBSET Maybe
  BY <1>3, <1>4, LogicalType
<1>6. /\ DOMAIN op' = Procs /\ DOMAIN seen' = Procs /\ op'[p] = c /\ seen'[p] \in SUBSET Maybe
      /\ \A q \in Procs : q # p => op'[q] = op[q] /\ seen'[q] = seen[q]
  BY <1>2, <1>5 DEF Core, TypesOK
<1>7. OpsStep(p)
  BY <1>1, <1>6 DEF OpsStep, Core, TypesOK, OpOK
<1>8. OpOK(p)'
  <2>1. res'[p] = Abs!Undecided
    BY <1>1, <1>3 DEF OpOK
  <2>2. QED
    BY <1>1, <1>4, <1>6, <2>1 DEF OpOK, Reading, Climbing, Parents, Ending
<1>9. ThreadOK(p)'
  BY <1>1, <1>3 DEF ThreadOK, Places, Outside, AtRoot, AtInner, AtLeaf, Reading, Climbing, Parents, Ending,
       KeepPlace, KeepWork, KeepQueue, KeepScan, Alone
<1>10. size_est' \in Nat
  BY <1>1, <1>3 DEF TreeOK
<1>11. NoWork(p) /\ NoWork(p)' /\ t'[p].after = "done"
  BY <1>1, <1>3 DEF NoWork, HeldOK, Climbing, Parents, Ending, KeepQueue
<1>12. QED
  BY <1>1, <1>3, <1>7, <1>8, <1>9, <1>10, <1>11, PlainStep

LEMMA StartScanFacts ==
  ASSUME Core, NEW p \in Scanners, StartScan(p)
  PROVE  /\ Alone(p) /\ KeepPlace(p) /\ KeepWork(p) /\ KeepQueue(p)
         /\ t[p].pc = "idle" /\ t'[p].pc = "root"
         /\ t'[p].from \in ScanFrom /\ t'[p].moved = t[p].moved
         /\ UNCHANGED <<node, root, size_est, op, seen, res>>
         /\ scan[p] = NotBegun /\ scan' = [scan EXCEPT ![p].seen = [k \in Keys |-> {Logical(k)}]]
<1>1. /\ LocalsOK(p) /\ t[p].pc = "idle" /\ UNCHANGED <<node, root, size_est, op, seen, res>>
      /\ scan[p] = NotBegun /\ scan' = [scan EXCEPT ![p].seen = [k \in Keys |-> {Logical(k)}]]
  BY LocalFacts DEF Core, StartScan, At, Threads, tree
<1>2. PICK k \in ScanFrom : SetFrom(p, "root", k)
  BY DEF StartScan, SetFrom
<1>3. QED
  BY <1>1, <1>2, ScanStartDoes

LEMMA StartScanCore ==
  ASSUME Core, NEW p \in Scanners, StartScan(p)
  PROVE  Core'
<1>1. LocalsOK(p) /\ t[p].pc = "idle" /\ UNCHANGED <<node, root, size_est, op, seen, res>> /\ p \in Threads
  BY LocalFacts DEF Core, StartScan, At, Threads, tree
<1>2. PICK k : SetFrom(p, "root", k)
  BY DEF StartScan, SetFrom
<1>3. Alone(p) /\ KeepPlace(p) /\ KeepWork(p) /\ KeepQueue(p) /\ t'[p].pc = "root"
  BY <1>1, <1>2, ScanStartDoes
<1>4. ThreadOK(p) /\ p \notin Procs
  BY <1>1, LocalFacts, ThreadsAssumption DEF Core
<1>5. ThreadOK(p)'
  BY <1>1, <1>3, <1>4 DEF ThreadOK, Places, Outside, AtRoot, AtInner, AtLeaf, Reading, Climbing, Parents, Ending,
       KeepPlace, KeepWork, KeepQueue, Alone
<1>6. OpsStep(p) /\ size_est' \in Nat
  BY <1>1, QuietOps DEF Core, TypesOK, TreeOK
<1>7. QED
  BY <1>1, <1>3, <1>4, <1>5, <1>6, PlainStep

LEMMA FinishFacts ==
  ASSUME Core, NEW p \in Threads, Finish(p)
  PROVE  /\ Alone(p) /\ t[p].pc = "done" /\ t'[p] = NoOp
         /\ UNCHANGED <<node, root, size_est, scan>>
         /\ p \in Procs => /\ op' = [op EXCEPT ![p] = Abs!Idle]
                           /\ seen' = [seen EXCEPT ![p] = {}]
                           /\ res' = [res EXCEPT ![p] = Abs!Undecided]
                           /\ op[p] # Abs!Idle /\ res[p] # Abs!Undecided
         /\ p \notin Procs => UNCHANGED <<op, seen, res>>
<1>1. LocalsOK(p) /\ t[p].pc = "done" /\ UNCHANGED <<node, root, size_est, scan>>
  BY LocalFacts DEF Core, Finish, At, Threads, tree
<1>2. t' = [t EXCEPT ![p] = NoOp]
  BY DEF Finish
<1>3. Alone(p) /\ t'[p] = NoOp
  BY <1>1, <1>2 DEF LocalsOK, Alone
<1>4. /\ p \in Procs => /\ op' = [op EXCEPT ![p] = Abs!Idle]
                        /\ seen' = [seen EXCEPT ![p] = {}]
                        /\ res' = [res EXCEPT ![p] = Abs!Undecided]
                        /\ op[p] # Abs!Idle /\ res[p] # Abs!Undecided
      /\ p \notin Procs => UNCHANGED <<op, seen, res>>
  BY DEF Finish, Abs!Respond, opvars
<1>5. QED
  BY <1>1, <1>3, <1>4

LEMMA FinishCore ==
  ASSUME Core, NEW p \in Threads, Finish(p)
  PROVE  Core'
<1>1. /\ Alone(p) /\ t[p].pc = "done" /\ t'[p] = NoOp /\ UNCHANGED <<node, root, size_est>>
  BY FinishFacts
<1>2. /\ t'[p].pc = "idle" /\ t'[p].cur = Nil /\ t'[p].ver = 0 /\ t'[p].nxt = Nil /\ t'[p].nver = 0
      /\ t'[p].left = Nil /\ t'[p].right = Nil /\ t'[p].sep = 0 /\ t'[p].par = Nil
      /\ t'[p].todo = <<>> /\ t'[p].held = <<>> /\ t'[p].after = "done" /\ t'[p].moved = FALSE
  BY <1>1 DEF NoOp
<1>3. ThreadOK(p)'
  <2>1. <<>> \in Seq(Nat)
    OBVIOUS
  <2>2. QED
    BY <1>1, <1>2, <2>1 DEF ThreadOK, Places, Outside, AtRoot, AtInner, AtLeaf, Reading, Climbing, Parents, Ending, Nil
<1>4. CASE p \in Procs
  <2>1. /\ op' = [op EXCEPT ![p] = Abs!Idle] /\ seen' = [seen EXCEPT ![p] = {}]
        /\ res' = [res EXCEPT ![p] = Abs!Undecided]
    BY <1>4, FinishFacts
  <2>2. OpsStep(p) /\ op'[p] = Abs!Idle /\ seen'[p] = {} /\ res'[p] = Abs!Undecided
    BY <1>4, <2>1 DEF OpsStep, Core, TypesOK, OpOK
  <2>3. OpOK(p)'
    BY <1>2, <1>4, <2>2 DEF OpOK, Reading, Climbing, Parents, Ending
  <2>4. NoWork(p) /\ NoWork(p)'
    BY <1>1, <1>2 DEF NoWork, Climbing, Parents, Ending
  <2>5. size_est' \in Nat
    BY <1>1 DEF Core, TypesOK, TreeOK
  <2>6. QED
    BY <1>1, <1>2, <1>3, <1>4, <2>2, <2>3, <2>4, <2>5, PlainStep
<1>5. CASE p \notin Procs
  <2>1. UNCHANGED <<op, seen, res>>
    BY <1>5, FinishFacts
  <2>2. OpsStep(p) /\ size_est' \in Nat
    BY <1>1, <2>1, QuietOps DEF Core, TypesOK, TreeOK
  <2>3. QED
    BY <1>1, <1>3, <1>5, <2>2, PlainStep
<1>6. QED
  BY <1>4, <1>5

LEMMA AcceptFacts ==
  ASSUME Core, NEW p \in Threads, Accept(p)
  PROVE  /\ Alone(p) /\ KeepPlace(p) /\ KeepWork(p) /\ KeepQueue(p) /\ KeepScan(p) /\ p \in Procs
         /\ t[p].pc = "valid" /\ t'[p].pc = "done"
         /\ node[t[p].cur].version = t[p].ver
         /\ UNCHANGED <<node, root, size_est, op, seen, scan>>
         /\ res' = [res EXCEPT ![p] = Abs!Got(t[p].val)]
<1>1. /\ LocalsOK(p) /\ t[p].pc = "valid" /\ UNCHANGED <<node, root, size_est, op, seen, scan>>
      /\ p \in Procs /\ node[t[p].cur].version = t[p].ver
      /\ res' = [res EXCEPT ![p] = Abs!Got(t[p].val)]
  BY LocalFacts DEF Core, Accept, At, tree, Unchanged, N
<1>2. Goto(p, "done")
  BY DEF Accept
<1>3. QED
  BY <1>1, <1>2, GotoDoes

LEMMA AcceptCore ==
  ASSUME Core, NEW p \in Threads, Accept(p)
  PROVE  Core'
<1>1. /\ Alone(p) /\ KeepPlace(p) /\ KeepWork(p) /\ KeepQueue(p) /\ KeepScan(p) /\ p \in Procs
      /\ t[p].pc = "valid" /\ t'[p].pc = "done"
      /\ UNCHANGED <<node, root, size_est, op, seen>>
      /\ res' = [res EXCEPT ![p] = Abs!Got(t[p].val)]
  BY AcceptFacts
<1>2. ThreadOK(p) /\ OpOK(p) /\ HeldOK(p) /\ p \notin Scanners
  BY <1>1, LocalFacts, ThreadsAssumption DEF Core, TypesOK, LocksOK
<1>3. OpsStep(p) /\ res'[p] = Abs!Got(t[p].val)
  BY <1>1, AnswerOps DEF Core
<1>4. Abs!Got(t[p].val) # Abs!Undecided
  BY DEF Abs!Got, Abs!Undecided
<1>5. OpOK(p)'
  BY <1>1, <1>2, <1>3, <1>4, OpDecided DEF OpOK, Climbing, Parents, Ending
<1>6. ThreadOK(p)'
  BY <1>1, <1>2 DEF ThreadOK, Places, Outside, AtRoot, AtInner, AtLeaf, Reading, Climbing, Parents, Ending,
       KeepPlace, KeepWork, KeepQueue, KeepScan, Alone
<1>7. NoWork(p) /\ NoWork(p)'
  BY <1>1 DEF NoWork, Climbing, Parents, Ending
<1>8. size_est' \in Nat
  BY <1>1 DEF Core, TypesOK, TreeOK
<1>9. QED
  BY <1>1, <1>3, <1>5, <1>6, <1>7, <1>8, PlainStep

LEMMA ScanAcceptFacts ==
  ASSUME Core, NEW p \in Threads, ScanAccept(p)
  PROVE  /\ Alone(p) /\ KeepWork(p) /\ KeepQueue(p) /\ p \in Scanners
         /\ UNCHANGED <<node, root, size_est, op, seen, res>>
         /\ t[p].pc = "valid"
         /\ t'[p].ver = t[p].ver /\ t'[p].nxt = t[p].nxt /\ t'[p].nver = t[p].nver
         /\ t'[p].from = t[p].from
         /\ \/ t'[p].pc = "done" /\ t'[p].cur = t[p].cur /\ t[p].nxt = Nil /\ t'[p].moved = t[p].moved
            \/ t'[p].pc = "again" /\ t'[p].cur = t[p].nxt /\ t[p].nxt # Nil /\ t'[p].moved = TRUE
<1>1. /\ LocalsOK(p) /\ t[p].pc = "valid" /\ UNCHANGED <<node, root, size_est, op, seen, res>>
      /\ p \in Scanners
  BY LocalFacts DEF Core, ScanAccept, At, tree, opvars
<1>2. CASE t[p].nxt = Nil
  <2>1. Goto(p, "done")
    BY <1>2 DEF ScanAccept, Goto
  <2>2. Alone(p) /\ KeepPlace(p) /\ KeepWork(p) /\ KeepQueue(p) /\ KeepScan(p) /\ t'[p].pc = "done"
    BY <1>1, <2>1, GotoDoes
  <2>3. /\ t'[p].cur = t[p].cur /\ t'[p].ver = t[p].ver /\ t'[p].nxt = t[p].nxt /\ t'[p].nver = t[p].nver
        /\ t'[p].from = t[p].from /\ t'[p].moved = t[p].moved
    BY <2>2 DEF KeepPlace, KeepScan
  <2>4. QED
    BY <1>1, <1>2, <2>2, <2>3
<1>3. CASE t[p].nxt # Nil
  <2>1. SetMoved(p, "again", t[p].nxt)
    BY <1>3 DEF ScanAccept, SetMoved
  <2>2. LocalsOK(p)
    BY <1>1
  <2>3. /\ Alone(p) /\ KeepWork(p) /\ KeepQueue(p) /\ t'[p].ver = t[p].ver /\ t'[p].nxt = t[p].nxt
        /\ t'[p].nver = t[p].nver /\ t'[p].from = t[p].from
        /\ t'[p].pc = "again" /\ t'[p].cur = t[p].nxt /\ t'[p].moved = TRUE
    BY <2>1, <2>2, ScanMoveDoes
  <2>4. QED
    BY <1>1, <1>3, <2>3
<1>4. QED
  BY <1>2, <1>3

LEMMA ScanAcceptCore ==
  ASSUME Core, NEW p \in Threads, ScanAccept(p)
  PROVE  Core'
<1>1. /\ Alone(p) /\ KeepWork(p) /\ KeepQueue(p) /\ p \in Scanners
      /\ UNCHANGED <<node, root, size_est, op, seen, res>>
      /\ t[p].pc = "valid"
      /\ t'[p].ver = t[p].ver /\ t'[p].nxt = t[p].nxt /\ t'[p].nver = t[p].nver
      /\ \/ t'[p].pc = "done" /\ t'[p].cur = t[p].cur
         \/ t'[p].pc = "again" /\ t'[p].cur = t[p].nxt /\ t[p].nxt # Nil
  BY ScanAcceptFacts
<1>2. ThreadOK(p) /\ p \notin Procs
  BY <1>1, LocalFacts, ThreadsAssumption DEF Core
<1>3. t[p].nxt # Nil => t[p].nxt \in DOMAIN node /\ node[t[p].nxt].leaf
  BY <1>1, <1>2 DEF ThreadOK
<1>4. ThreadOK(p)'
  BY <1>1, <1>2, <1>3 DEF ThreadOK, Places, Outside, AtRoot, AtInner, AtLeaf, Reading, Climbing, Parents, Ending,
       KeepWork, KeepQueue, Alone
<1>5. OpsStep(p) /\ size_est' \in Nat
  BY <1>1, QuietOps DEF Core, TypesOK, TreeOK
<1>6. QED
  BY <1>1, <1>2, <1>4, <1>5, PlainStep

LEMMA CountFacts ==
  ASSUME Core, NEW p \in Threads, Count(p)
  PROVE  /\ Alone(p) /\ KeepPlace(p) /\ KeepWork(p) /\ KeepQueue(p) /\ KeepScan(p) /\ p \in Procs
         /\ t[p].pc = "count" /\ t'[p].pc = "done" /\ size_est' = size_est + 1
         /\ UNCHANGED <<node, root, op, seen, res, scan>>
<1>1. LocalsOK(p) /\ t[p].pc = "count" /\ size_est' = size_est + 1 /\ UNCHANGED <<node, root, op, seen, res, scan>>
  BY LocalFacts DEF Core, Count, At, opvars
<1>2. Goto(p, "done")
  BY DEF Count
<1>3. ThreadOK(p)
  BY LocalFacts DEF Core
<1>4. p \in Procs
  BY <1>1, <1>3 DEF ThreadOK, Threads, AtRoot, AtInner, Reading
<1>5. QED
  BY <1>1, <1>2, <1>4, GotoDoes

LEMMA CountCore ==
  ASSUME Core, NEW p \in Threads, Count(p)
  PROVE  Core'
<1>1. /\ Alone(p) /\ KeepPlace(p) /\ KeepWork(p) /\ KeepQueue(p) /\ KeepScan(p) /\ p \in Procs
      /\ t[p].pc = "count" /\ t'[p].pc = "done" /\ size_est' = size_est + 1
      /\ UNCHANGED <<node, root, op, seen, res>>
  BY CountFacts
<1>2. ThreadOK(p) /\ OpOK(p) /\ p \notin Scanners
  BY <1>1, LocalFacts, ThreadsAssumption DEF Core, TypesOK
<1>3. OpsStep(p)
  BY <1>1, QuietOps DEF Core
<1>4. res[p] # Abs!Undecided
  BY <1>1, <1>2 DEF OpOK, AtRoot, AtInner, Reading
<1>5. OpOK(p)'
  BY <1>1, <1>2, <1>4, OpDecided DEF OpOK, Climbing, Parents, Ending
<1>6. ThreadOK(p)'
  BY <1>1, <1>2 DEF ThreadOK, Places, Outside, AtRoot, AtInner, AtLeaf, Reading, Climbing, Parents, Ending,
       KeepPlace, KeepWork, KeepQueue, KeepScan, Alone
<1>7. NoWork(p) /\ NoWork(p)'
  BY <1>1 DEF NoWork, Climbing, Parents, Ending
<1>8. size_est' \in Nat
  BY <1>1 DEF Core, TypesOK, TreeOK
<1>9. QED
  BY <1>1, <1>3, <1>5, <1>6, <1>7, <1>8, PlainStep

-----------------------------------------------------------------------------
(* Writers                                                                  *)

\* Nodes keep what makes the tree; values may change.
LEMMA SameTypes ==
  ASSUME TreeOK, node' \in Seq(Node), DOMAIN node' = DOMAIN node,
         \A m \in DOMAIN node : SameTree(m) /\ Len(node'[m].vals) = Len(node[m].vals),
         UNCHANGED <<root, size_est>>
  PROVE  TreeOK' /\ Grown
<1>1. \A m \in DOMAIN node : /\ node'[m].leaf = node[m].leaf /\ node'[m].keys = node[m].keys
                             /\ node'[m].kids = node[m].kids /\ node'[m].next = node[m].next
                             /\ node'[m].parent = node[m].parent
                             /\ Len(node'[m].vals) = Len(node[m].vals)
  BY DEF SameTree
<1>2. \A m \in DOMAIN node : Formed(m)'
  <2> SUFFICES ASSUME NEW m \in DOMAIN node PROVE Formed(m)'
    OBVIOUS
  <2>1. Formed(m)
    BY DEF TreeOK
  <2>2. QED
    BY <1>1, <2>1 DEF Formed
<1>3. QED
  BY <1>1, <1>2 DEF TreeOK, Grown

\* p stays where it is while it writes.
LEMMA WriterThread ==
  ASSUME NEW p \in Procs, ThreadOK(p), Alone(p), Grown, KeepPlace(p), KeepScan(p),
         t'[p].left \in Nat, t'[p].right \in Nat, t'[p].par \in Nat, t'[p].sep \in Nat,
         t'[p].todo \in Seq(Nat), t'[p].held \in Seq(Nat),
         t'[p].after \in {"done", "count", "parent"},
         t'[p].pc \in Climbing \union Ending \union {"lockver", "act", "walkver", "done", "count"},
         t'[p].pc \in {"lockver", "act", "walkver"} => t[p].pc \in AtLeaf
  PROVE  ThreadOK(p)'
<1>1. p \notin Scanners
  BY ThreadsAssumption
<1>2. CASE t'[p].pc \in {"lockver", "act", "walkver"}
  <2>1. t[p].pc \in AtLeaf
    BY <1>2
  <2>2. t[p].cur \in DOMAIN node' /\ node'[t[p].cur].leaf
    BY <2>1 DEF ThreadOK, Grown
  <2>3. t'[p].pc \in Places /\ t'[p].pc \notin AtInner /\ t'[p].pc # "again"
    BY <1>2 DEF Places, AtLeaf, AtInner
  <2>4. QED
    BY <1>1, <2>2, <2>3 DEF ThreadOK, KeepPlace, KeepScan, Alone
<1>3. CASE t'[p].pc \notin {"lockver", "act", "walkver"}
  <2>1. t'[p].pc \in Places /\ t'[p].pc \notin AtRoot \union AtInner \union AtLeaf
    BY <1>3 DEF Places, Outside, AtLeaf, Reading, AtInner, AtRoot, Climbing, Parents, Ending
  <2>2. QED
    BY <1>1, <2>1 DEF ThreadOK, KeepPlace, KeepScan, Alone, AtLeaf
<1>4. QED
  BY <1>2, <1>3

\* A step of p that changes locks, versions and values.
LEMMA WorkStep ==
  ASSUME Core, NEW p \in Procs, Alone(p), node' \in Seq(Node), DOMAIN node' = DOMAIN node,
         \A m \in DOMAIN node : SameTree(m) /\ Len(node'[m].vals) = Len(node[m].vals),
         \A m \in DOMAIN node : ~Owns(p, m) => node'[m].torn = node[m].torn,
         UNCHANGED <<root, size_est>>,
         OpsStep(p), ThreadOK(p)', OpOK(p)',
         LockStep(p), TornStep(p), HeldOK(p)', SplitOK(p)',
         Splitting(p) => Splitting(p)' /\ t'[p].right = t[p].right
  PROVE  Core'
<1>1. TreeOK' /\ Grown
  BY SameTypes DEF Core, TypesOK
<1>2. p \in Threads
  BY DEF Threads
<1>3. TypesOK'
  BY <1>1, <1>2, TypesStep DEF Core
<1>4. Respect(p)
  BY DEF Respect, SameTree
<1>5. LocksOK'
  BY <1>4, LocksStep DEF Core
<1>6. \A q \in Procs : Splitting(q) => Splitting(q)' /\ t'[q].right = t[q].right
  BY OthersOwn DEF Alone, Threads
<1>7. root \in DOMAIN node
  BY DEF Core, TypesOK, TreeOK
<1>8. ShapeOK'
  BY <1>6, <1>7, SameShape DEF Core, TypesOK, SameTree, SameLinks
<1>9. QED
  BY <1>3, <1>5, <1>8 DEF Core

\* The operation of p stays undecided, or decided.
LEMMA OpStays ==
  ASSUME NEW p \in Procs, OpOK(p), UNCHANGED <<op, seen, res>>,
         \/ /\ t[p].pc \in {"lock", "lockver"}
            /\ t'[p].pc \in {"lockver", "act", "walkver"}
         \/ /\ t[p].pc \in Climbing \union Ending
            /\ t'[p].pc \in Climbing \union Ending \union {"done", "count"}
            /\ t'[p].pc \in Climbing \/ (t'[p].pc \in Ending /\ t'[p].after = "parent") =>
                 t[p].pc \in Climbing \/ (t[p].pc \in Ending /\ t[p].after = "parent")
  PROVE  OpOK(p)'
<1>1. CASE t[p].pc \in {"lock", "lockver"} /\ t'[p].pc \in {"lockver", "act", "walkver"}
  BY <1>1 DEF OpOK, AtRoot, AtInner, Reading, Climbing, Parents, Ending
<1>2. CASE /\ t[p].pc \in Climbing \union Ending
           /\ t'[p].pc \in Climbing \union Ending \union {"done", "count"}
           /\ t'[p].pc \in Climbing \/ (t'[p].pc \in Ending /\ t'[p].after = "parent") =>
                t[p].pc \in Climbing \/ (t[p].pc \in Ending /\ t[p].after = "parent")
  <2>1. res[p] # Abs!Undecided /\ t[p].pc # "idle"
    BY <1>2 DEF OpOK, AtRoot, AtInner, Reading, Climbing, Parents, Ending
  <2>2. op[p].kind # "get"
    BY <1>2 DEF OpOK
  <2>3. QED
    BY <1>2, <2>1, <2>2, OpDecided DEF OpOK
<1>3. QED
  BY <1>1, <1>2

LEMMA LockLeafFacts ==
  ASSUME Core, NEW p \in Threads, LockLeaf(p)
  PROVE  /\ Alone(p) /\ KeepPlace(p) /\ KeepWork(p) /\ KeepQueue(p) /\ KeepScan(p) /\ p \in Procs
         /\ t[p].pc = "lock" /\ t'[p].pc = "lockver" /\ t[p].cur \in DOMAIN node
         /\ node[t[p].cur].leaf /\ ~node[t[p].cur].locked
         /\ SetLock(t[p].cur, TRUE)
         /\ UNCHANGED <<root, size_est, op, seen, res, scan, count>>
<1>1. LocalsOK(p) /\ ThreadOK(p) /\ t[p].pc = "lock" /\ ~node[t[p].cur].locked
  BY LocalFacts DEF Core, LockLeaf, At, N
<1>2. Goto(p, "lockver") /\ node' = [node EXCEPT ![t[p].cur].locked = TRUE]
  BY DEF LockLeaf
<1>3. t[p].cur \in DOMAIN node /\ node[t[p].cur].leaf /\ p \in Procs
  BY <1>1 DEF ThreadOK, AtLeaf, Threads, AtRoot, AtInner, Reading
<1>4. SetLock(t[p].cur, TRUE)
  BY <1>2, <1>3, LockEffect DEF Core, TypesOK, TreeOK
<1>5. UNCHANGED <<root, size_est, op, seen, res, scan, count>>
  BY DEF LockLeaf, opvars
<1>6. QED
  BY <1>1, <1>2, <1>3, <1>4, <1>5, GotoDoes

LEMMA LockLeafCore ==
  ASSUME Core, NEW p \in Threads, LockLeaf(p)
  PROVE  Core'
<1>1. /\ Alone(p) /\ KeepPlace(p) /\ KeepWork(p) /\ KeepQueue(p) /\ KeepScan(p) /\ p \in Procs
      /\ t[p].pc = "lock" /\ t'[p].pc = "lockver" /\ t[p].cur \in DOMAIN node
      /\ ~node[t[p].cur].locked
      /\ SetLock(t[p].cur, TRUE)
      /\ UNCHANGED <<root, size_est, op, seen, res>>
  BY LockLeafFacts
<1>2. ThreadOK(p) /\ OpOK(p) /\ HeldOK(p)
  BY <1>1, LocalFacts DEF Core, TypesOK, LocksOK
<1>3. PICK n : n = t[p].cur
  OBVIOUS
<1>4. /\ node' \in Seq(Node) /\ DOMAIN node' = DOMAIN node
      /\ \A m \in DOMAIN node : m # n => node'[m] = node[m]
      /\ SameTree(n) /\ node'[n].vals = node[n].vals /\ node'[n].torn = node[n].torn
      /\ node'[n].locked = TRUE
  BY <1>1, <1>3 DEF SetLock
<1>5. \A m \in DOMAIN node : SameTree(m) /\ Len(node'[m].vals) = Len(node[m].vals)
                             /\ node'[m].torn = node[m].torn
  BY <1>4 DEF SameTree
<1>6. NoWork(p)
  BY <1>1 DEF NoWork, Climbing, Parents, Ending
<1>7. \A m : ~Owns(p, m) /\ ~Tearing(p, m) /\ ~Splitting(p)
  BY <1>1, <1>6, OwnsNothing
<1>8. (\A m : Owns(p, m)' <=> m = n) /\ (\A m : ~Tearing(p, m)') /\ ~Splitting(p)'
  BY <1>1, <1>3 DEF Owns, Tearing, Splitting, KeepPlace, Climbing, Parents, Ending
<1>9. Grown
  BY <1>4, <1>5 DEF Grown, SameTree
<1>10. LockStep(p)
  BY <1>1, <1>3, <1>4, <1>7, <1>8 DEF LockStep
<1>11. TornStep(p)
  BY <1>4, <1>5, <1>7, <1>8 DEF TornStep
<1>12. HeldOK(p)' /\ SplitOK(p)'
  BY <1>1, <1>2, <1>8 DEF HeldOK, SplitOK, KeepQueue, Climbing, Parents, Ending
<1>13. ThreadOK(p)'
  BY <1>1, <1>2, <1>9, WriterThread DEF ThreadOK, KeepWork, KeepQueue, AtLeaf
<1>14. OpOK(p)' /\ OpsStep(p)
  BY <1>1, <1>2, OpStays, QuietOps DEF Core
<1>15. QED
  BY <1>1, <1>4, <1>5, <1>7, <1>10, <1>11, <1>12, <1>13, <1>14, WorkStep

LEMMA LockedStaleFacts ==
  ASSUME Core, NEW p \in Threads, LockedStale(p)
  PROVE  /\ Alone(p) /\ KeepPlace(p) /\ KeepWork(p) /\ KeepQueue(p) /\ KeepScan(p) /\ p \in Procs
         /\ t[p].pc = "lockver" /\ t[p].cur \in DOMAIN node /\ node[t[p].cur].leaf
         /\ UNCHANGED <<root, size_est, op, seen, res, scan, count>>
         /\ \/ /\ t'[p].pc = "act" /\ node' = node
               /\ node[t[p].cur].version = t[p].ver
            \/ t'[p].pc = "walkver" /\ SetLock(t[p].cur, FALSE)
<1>1. LocalsOK(p) /\ ThreadOK(p) /\ t[p].pc = "lockver"
  BY LocalFacts DEF Core, LockedStale, At
<1>2. t[p].cur \in DOMAIN node /\ node[t[p].cur].leaf /\ p \in Procs
  BY <1>1 DEF ThreadOK, AtLeaf, Threads, AtRoot, AtInner, Reading
<1>3. UNCHANGED <<root, size_est, op, seen, res, scan, count>>
  BY DEF LockedStale, opvars
<1>4. CASE Unchanged(p)
  <2>1. Goto(p, "act") /\ node' = node /\ node[t[p].cur].version = t[p].ver
    BY <1>4 DEF LockedStale, Unchanged, N
  <2>2. QED
    BY <1>1, <1>2, <1>3, <2>1, GotoDoes
<1>5. CASE ~Unchanged(p)
  <2>1. Goto(p, "walkver") /\ node' = [node EXCEPT ![t[p].cur].locked = FALSE]
    BY <1>5 DEF LockedStale
  <2>2. SetLock(t[p].cur, FALSE)
    BY <1>2, <2>1, UnlockEffect DEF Core, TypesOK, TreeOK
  <2>3. QED
    BY <1>1, <1>2, <1>3, <2>1, <2>2, GotoDoes
<1>6. QED
  BY <1>4, <1>5

LEMMA LockedStaleCore ==
  ASSUME Core, NEW p \in Threads, LockedStale(p)
  PROVE  Core'
<1>1. /\ Alone(p) /\ KeepPlace(p) /\ KeepWork(p) /\ KeepQueue(p) /\ KeepScan(p) /\ p \in Procs
      /\ t[p].pc = "lockver" /\ t[p].cur \in DOMAIN node
      /\ UNCHANGED <<root, size_est, op, seen, res>>
      /\ \/ t'[p].pc = "act" /\ node' = node
         \/ t'[p].pc = "walkver" /\ SetLock(t[p].cur, FALSE)
  BY LockedStaleFacts
<1>2. ThreadOK(p) /\ OpOK(p) /\ HeldOK(p) /\ node \in Seq(Node)
  BY <1>1, LocalFacts DEF Core, TypesOK, LocksOK, TreeOK
<1>3. PICK n : n = t[p].cur
  OBVIOUS
<1>4. (\A m : Owns(p, m) <=> m = n) /\ (\A m : ~Tearing(p, m)) /\ ~Splitting(p)
  BY <1>1, <1>3 DEF Owns, Tearing, Splitting, Climbing, Parents, Ending
<1>5. /\ node' \in Seq(Node) /\ DOMAIN node' = DOMAIN node
      /\ \A m \in DOMAIN node : SameTree(m) /\ Len(node'[m].vals) = Len(node[m].vals)
                                /\ node'[m].torn = node[m].torn
      /\ \A m \in DOMAIN node : m # n => node'[m].locked = node[m].locked
  BY <1>1, <1>2, <1>3 DEF SetLock, SameTree
<1>6. Grown
  BY <1>5 DEF Grown, SameTree
<1>7. node[n].locked
  BY <1>1, <1>3, <1>4 DEF Core, LocksOK
<1>8. /\ (\A m : ~Tearing(p, m)') /\ ~Splitting(p)'
      /\ \A m : Owns(p, m)' <=> m = n /\ t'[p].pc = "act"
  BY <1>1, <1>3 DEF Owns, Tearing, Splitting, KeepPlace, Climbing, Parents, Ending
<1>9. LockStep(p)
  <2>1. node'[n].locked <=> t'[p].pc = "act"
    BY <1>1, <1>3, <1>7 DEF SetLock
  <2>2. QED
    BY <1>1, <1>3, <1>4, <1>5, <1>8, <2>1 DEF LockStep
<1>10. TornStep(p)
  BY <1>4, <1>5, <1>8 DEF TornStep
<1>11. HeldOK(p)' /\ SplitOK(p)'
  BY <1>1, <1>2, <1>8 DEF HeldOK, SplitOK, KeepQueue, Climbing, Parents, Ending
<1>12. ThreadOK(p)'
  BY <1>1, <1>2, <1>6, WriterThread DEF ThreadOK, KeepWork, KeepQueue, AtLeaf
<1>13. OpOK(p)' /\ OpsStep(p)
  BY <1>1, <1>2, OpStays, QuietOps DEF Core
<1>14. QED
  BY <1>1, <1>4, <1>5, <1>9, <1>10, <1>11, <1>12, <1>13, WorkStep

\* What p knows at the leaf it has locked.
LEMMA ActFacts ==
  ASSUME Core, NEW p \in Threads, t[p].pc = "act"
  PROVE  /\ p \in Procs /\ LocalsOK(p) /\ t[p].cur \in DOMAIN node /\ t[p].cur \in Nat
         /\ node[t[p].cur].leaf /\ node[t[p].cur] \in Node
         /\ ThreadOK(p) /\ OpOK(p) /\ HeldOK(p) /\ op[p].kind # "get"
         /\ op[p].key \in Keys /\ op[p].key \in Nat /\ Abs!Result(op[p]) \in Maybe
         /\ op[p].kind = "put" => op[p].val \in Maybe /\ Abs!Result(op[p]) = op[p].val
         /\ node[t[p].cur].locked
         /\ \A m : Owns(p, m) <=> m = t[p].cur
         /\ (\A m : ~Tearing(p, m)) /\ ~Splitting(p)
<1>1. LocalsOK(p) /\ ThreadOK(p)
  BY LocalFacts DEF Core
<1>2. t[p].cur \in DOMAIN node /\ node[t[p].cur].leaf /\ p \in Procs
  BY <1>1 DEF ThreadOK, AtLeaf, Threads, AtRoot, AtInner, Reading
<1>3. OpOK(p) /\ HeldOK(p) /\ node \in Seq(Node)
  BY <1>2 DEF Core, TypesOK, LocksOK, TreeOK
<1>4. op[p].kind # "get"
  BY <1>3 DEF OpOK
<1>5. /\ op[p].key \in Keys /\ op[p].key \in Nat /\ Abs!Result(op[p]) \in Maybe
      /\ op[p].kind = "put" => op[p].val \in Values
  BY <1>2, <1>4, ActiveFacts DEF Core
<1>6. (\A m : Owns(p, m) <=> m = t[p].cur) /\ (\A m : ~Tearing(p, m)) /\ ~Splitting(p)
  BY DEF Owns, Tearing, Splitting, Climbing, Parents, Ending
<1>7. node[t[p].cur].locked
  BY <1>2, <1>6 DEF Core, LocksOK
<1>8. t[p].cur \in Nat /\ node[t[p].cur] \in Node
  BY <1>2, <1>3, NodeFacts
<1>9. op[p].kind = "put" => Abs!Result(op[p]) = op[p].val
  BY DEF Abs!Result
<1>10. QED
  BY <1>1, <1>2, <1>3, <1>4, <1>5, <1>6, <1>7, <1>8, <1>9 DEF Maybe

\* One node is held, and to be incremented first if it is torn.
LEMMA HoldOne ==
  ASSUME NEW p \in Procs, NEW n \in Nat, t'[p].held = <<n>>,
         \/ t'[p].pc = "unlock"
         \/ t'[p].pc = "bump" /\ t'[p].todo = <<n>>,
         t'[p].after \in {"done", "count"}
  PROVE  /\ \A m : Owns(p, m)' <=> m = n
         /\ \A m : Tearing(p, m)' <=> m = n /\ t'[p].pc = "bump"
         /\ ~Splitting(p)' /\ <<n>> \in Seq(Nat)
         /\ n \in DOMAIN node' => HeldOK(p)'
         /\ SplitOK(p)'
<1>1. DOMAIN <<n>> = {1} /\ <<n>>[1] = n /\ <<n>> # <<>> /\ <<n>> \in Seq(Nat)
  OBVIOUS
<1>2. PICK h : h = <<n>>
  OBVIOUS
<1>3. DOMAIN h = {1} /\ h[1] = n /\ h # <<>> /\ t'[p].held = h /\ (t'[p].pc = "bump" => t'[p].todo = h)
  BY <1>1, <1>2
<1>4. ~Splitting(p)'
  BY DEF Splitting, Climbing, Parents, Ending
<1>5. \A m : Owns(p, m)' <=> m = n
  BY <1>3, <1>4 DEF Owns, Parents, Ending
<1>6. \A m : Tearing(p, m)' <=> m = n /\ t'[p].pc = "bump"
  BY <1>3, <1>4 DEF Tearing
<1>7. n \in DOMAIN node' => HeldOK(p)'
  BY <1>3, <1>4 DEF HeldOK, Ending
<1>8. SplitOK(p)'
  BY <1>4 DEF SplitOK
<1>9. QED
  BY <1>1, <1>4, <1>5, <1>6, <1>7, <1>8

\* p has written at most the values of its leaf, and lets it go.
LEMMA EndWrite ==
  ASSUME Core, NEW p \in Threads, t[p].pc = "act", Alone(p), KeepPlace(p), KeepWork(p), KeepScan(p),
         NEW n, n = t[p].cur, t'[p].held = <<n>>, t'[p].todo \in Seq(Nat),
         \/ t'[p].pc = "unlock" /\ node'[n].torn = node[n].torn
         \/ t'[p].pc = "bump" /\ t'[p].todo = <<n>>,
         t'[p].after \in {"done", "count"},
         node' \in Seq(Node), DOMAIN node' = DOMAIN node,
         \A m \in DOMAIN node : m # n => node'[m] = node[m],
         SameTree(n), Len(node'[n].vals) = Len(node[n].vals), node'[n].locked = node[n].locked,
         UNCHANGED <<root, size_est>>, OpsStep(p), op'[p] = op[p], seen'[p] \in SUBSET Maybe,
         res'[p] # Abs!Undecided
  PROVE  Core'
<1>1. /\ p \in Procs /\ n \in DOMAIN node /\ n \in Nat /\ ThreadOK(p) /\ OpOK(p) /\ op[p].kind # "get"
      /\ node[n].locked /\ (\A m : Owns(p, m) <=> m = n) /\ (\A m : ~Tearing(p, m))
      /\ ~Splitting(p)
  BY ActFacts
<1>2. /\ \A m : Owns(p, m)' <=> m = n
      /\ \A m : Tearing(p, m)' <=> m = n /\ t'[p].pc = "bump"
      /\ ~Splitting(p)' /\ <<n>> \in Seq(Nat)
      /\ HeldOK(p)' /\ SplitOK(p)'
  BY <1>1, HoldOne
<1>3. \A m \in DOMAIN node : SameTree(m) /\ Len(node'[m].vals) = Len(node[m].vals)
                             /\ node'[m].locked = node[m].locked
  BY DEF SameTree
<1>4. Grown
  BY <1>3 DEF Grown, SameTree
<1>5. LockStep(p)
  BY <1>1, <1>2, <1>3 DEF LockStep
<1>6. TornStep(p)
  BY <1>1, <1>2 DEF TornStep
<1>7. ThreadOK(p)'
  BY <1>1, <1>2, <1>4, WriterThread DEF ThreadOK, KeepWork, Ending
<1>8. OpOK(p)'
  BY <1>1, OpDecided DEF Ending, Climbing, Parents
<1>9. QED
  BY <1>1, <1>2, <1>3, <1>5, <1>6, <1>7, <1>8, WorkStep

LEMMA NotFoundFacts ==
  ASSUME Core, NEW p \in Threads, NotFound(p)
  PROVE  /\ Alone(p) /\ KeepPlace(p) /\ KeepWork(p) /\ KeepScan(p)
         /\ t[p].pc = "act" /\ t'[p].pc = "unlock"
         /\ t'[p].held = <<t[p].cur>> /\ t'[p].todo = t[p].todo /\ t'[p].after = t[p].after
         /\ UNCHANGED <<node, root, size_est, op, seen, scan, count>>
         /\ res' = [res EXCEPT ![p] = Abs!Failed]
         /\ op[p].kind \in {"update", "remove"} /\ ValueIn(t[p].cur, op[p].key) = None
<1>1. LocalsOK(p) /\ t[p].pc = "act"
  BY LocalFacts DEF Core, NotFound, At
<1>2. /\ UNCHANGED <<node, root, size_est, op, seen, scan, count>>
      /\ res' = [res EXCEPT ![p] = Abs!Failed]
      /\ op[p].kind # "put" /\ ValueIn(t[p].cur, op[p].key) = None
  BY DEF NotFound, tree, Present
<1>3. op[p].kind \in {"update", "remove"}
  <2>1. p \in Procs /\ op[p].kind # "get"
    BY <1>1, ActFacts
  <2>2. op[p].kind \in {"get", "put", "update", "remove"}
    BY <1>1, <2>1, ActiveFacts DEF Core
  <2>3. QED
    BY <1>2, <2>1, <2>2
<1>4. SetHeld(p, "unlock", <<t[p].cur>>)
  BY DEF NotFound, ThenUnlock, SetHeld
<1>5. PICK h : h = <<t[p].cur>>
  OBVIOUS
<1>6. QED
  BY <1>1, <1>2, <1>3, <1>4, <1>5, UnlockListDoes

LEMMA NotFoundCore ==
  ASSUME Core, NEW p \in Threads, NotFound(p)
  PROVE  Core'
<1>1. /\ Alone(p) /\ KeepPlace(p) /\ KeepWork(p) /\ KeepScan(p)
      /\ t[p].pc = "act" /\ t'[p].pc = "unlock"
      /\ t'[p].held = <<t[p].cur>> /\ t'[p].todo = t[p].todo /\ t'[p].after = t[p].after
      /\ UNCHANGED <<node, root, size_est, op, seen>>
      /\ res' = [res EXCEPT ![p] = Abs!Failed]
  BY NotFoundFacts
<1>2. p \in Procs /\ ThreadOK(p) /\ OpOK(p) /\ HeldOK(p) /\ node \in Seq(Node)
  BY <1>1, ActFacts DEF Core, TypesOK, TreeOK
<1>3. OpsStep(p) /\ res'[p] = Abs!Failed
  BY <1>1, <1>2, AnswerOps DEF Core
<1>4. Abs!Failed # Abs!Undecided
  BY DEF Abs!Failed, Abs!Undecided
<1>5. t'[p].after = "done" /\ t'[p].todo \in Seq(Nat)
  BY <1>1, <1>2 DEF HeldOK, ThreadOK, Ending, Climbing, Parents
<1>6. op'[p] = op[p] /\ seen'[p] \in SUBSET Maybe
  BY <1>1, <1>2 DEF OpOK
<1>7. PICK n : n = t[p].cur
  OBVIOUS
<1>8. SameTree(n) /\ Len(node'[n].vals) = Len(node[n].vals)
  BY <1>1 DEF SameTree
<1>9. QED
  BY <1>1, <1>2, <1>3, <1>4, <1>5, <1>6, <1>7, <1>8, EndWrite

LEMMA WriteInPlaceFacts ==
  ASSUME Core, NEW p \in Threads, WriteInPlace(p)
  PROVE  /\ Alone(p) /\ KeepPlace(p) /\ KeepWork(p) /\ KeepScan(p)
         /\ t[p].pc = "act" /\ t'[p].pc = "unlock"
         /\ t'[p].held = <<t[p].cur>> /\ t'[p].todo = t[p].todo /\ t'[p].after = t[p].after
         /\ UNCHANGED <<root, size_est>> /\ Effect(p)
         /\ Holds(t[p].cur, op[p].key) /\ ValueIn(t[p].cur, op[p].key) # None
         /\ Slot(t[p].cur, op[p].key) + 1 \in DOMAIN node[t[p].cur].vals
         /\ WriteEffect(t[p].cur, Slot(t[p].cur, op[p].key) + 1, Abs!Result(op[p]), node[t[p].cur].torn)
<1>1. LocalsOK(p) /\ t[p].pc = "act"
  BY LocalFacts DEF Core, WriteInPlace, At
<1>2. UNCHANGED <<root, size_est>> /\ Effect(p) /\ ValueIn(t[p].cur, op[p].key) # None
  BY DEF WriteInPlace, Present
<1>3. Holds(t[p].cur, op[p].key)
  BY <1>2 DEF ValueIn
<1>4. SetHeld(p, "unlock", <<t[p].cur>>)
  BY DEF WriteInPlace, ThenUnlock, SetHeld
<1>5. PICK h : h = <<t[p].cur>>
  OBVIOUS
<1>6. PICK n : n = t[p].cur
  OBVIOUS
<1>7. PICK i : i = Slot(t[p].cur, op[p].key) + 1
  OBVIOUS
<1>8. PICK v : v = Abs!Result(op[p])
  OBVIOUS
<1>9. n \in DOMAIN node /\ node[n].leaf /\ v \in Maybe /\ op[p].key \in Nat /\ TreeOK /\ node \in Seq(Node)
  BY <1>1, <1>6, <1>8, ActFacts DEF Core, TypesOK, TreeOK
<1>10. i \in DOMAIN node[n].vals
  BY <1>3, <1>6, <1>7, <1>9, SlotHeld, LeafFacts
<1>11. node' = [node EXCEPT ![n].vals[i] = v]
  BY <1>6, <1>7, <1>8 DEF WriteInPlace
<1>12. WriteEffect(n, i, v, node[n].torn)
  BY <1>9, <1>10, <1>11, WriteDoes
<1>13. QED
  BY <1>1, <1>2, <1>3, <1>4, <1>5, <1>6, <1>7, <1>8, <1>10, <1>12, UnlockListDoes

LEMMA WriteTypes ==
  ASSUME node \in Seq(Node), NEW n \in DOMAIN node, NEW i, i \in DOMAIN node[n].vals, NEW v, NEW b, WriteEffect(n, i, v, b)
  PROVE  /\ node' \in Seq(Node) /\ DOMAIN node' = DOMAIN node
         /\ \A m \in DOMAIN node : m # n => node'[m] = node[m]
         /\ SameTree(n) /\ Len(node'[n].vals) = Len(node[n].vals) /\ node'[n].locked = node[n].locked
         /\ node'[n].torn = b
         /\ DOMAIN node'[n].vals = DOMAIN node[n].vals /\ node'[n].vals[i] = v
         /\ \A j \in DOMAIN node[n].vals : j # i => node'[n].vals[j] = node[n].vals[j]
<1>1. /\ node' \in Seq(Node) /\ DOMAIN node' = DOMAIN node
      /\ \A m \in DOMAIN node : m # n => node'[m] = node[m]
      /\ SameTree(n) /\ node'[n].vals = [node[n].vals EXCEPT ![i] = v]
      /\ node'[n].locked = node[n].locked /\ node'[n].torn = b
  BY DEF WriteEffect
<1>2. node[n].vals \in Seq(Maybe) /\ node'[n].vals \in Seq(Maybe)
  <2>1. node[n] \in Node /\ node'[n] \in Node
    BY <1>1
  <2>2. QED
    BY <2>1 DEF Node
<1>3. DOMAIN node'[n].vals = DOMAIN node[n].vals /\ node'[n].vals[i] = v
      /\ \A j \in DOMAIN node[n].vals : j # i => node'[n].vals[j] = node[n].vals[j]
  BY <1>1, <1>2
<1>4. Len(node'[n].vals) = Len(node[n].vals)
  BY <1>2, <1>3
<1>5. QED
  BY <1>1, <1>3, <1>4

LEMMA WriteInPlaceCore ==
  ASSUME Core, NEW p \in Threads, WriteInPlace(p)
  PROVE  Core'
<1>1. /\ Alone(p) /\ KeepPlace(p) /\ KeepWork(p) /\ KeepScan(p)
      /\ t[p].pc = "act" /\ t'[p].pc = "unlock"
      /\ t'[p].held = <<t[p].cur>> /\ t'[p].todo = t[p].todo /\ t'[p].after = t[p].after
      /\ UNCHANGED <<root, size_est>> /\ Effect(p)
  BY WriteInPlaceFacts
<1>2. PICK n : n = t[p].cur
  OBVIOUS
<1>3. PICK i : i = Slot(t[p].cur, op[p].key) + 1
  OBVIOUS
<1>4. PICK v : v = Abs!Result(op[p])
  OBVIOUS
<1>5. /\ p \in Procs /\ n \in DOMAIN node /\ ThreadOK(p) /\ OpOK(p) /\ HeldOK(p)
      /\ op[p].kind # "get" /\ v \in Maybe /\ node \in Seq(Node)
  BY <1>1, <1>2, <1>4, ActFacts DEF Core, TypesOK, TreeOK
<1>6. i \in DOMAIN node[n].vals /\ WriteEffect(n, i, v, node[n].torn)
  BY <1>2, <1>3, <1>4, WriteInPlaceFacts
<1>7. OpsStep(p) /\ op'[p] = op[p] /\ seen'[p] \in SUBSET Maybe /\ res'[p] # Abs!Undecided
  BY <1>1, <1>5, EffectOps DEF Core
<1>8. t'[p].after = "done" /\ t'[p].todo \in Seq(Nat)
  BY <1>1, <1>5 DEF HeldOK, ThreadOK, Ending, Climbing, Parents
<1>9. /\ node' \in Seq(Node) /\ DOMAIN node' = DOMAIN node
      /\ \A m \in DOMAIN node : m # n => node'[m] = node[m]
      /\ SameTree(n) /\ Len(node'[n].vals) = Len(node[n].vals) /\ node'[n].locked = node[n].locked
      /\ node'[n].torn = node[n].torn
  BY <1>5, <1>6, WriteTypes
<1>10. QED
  BY <1>1, <1>2, <1>5, <1>7, <1>8, <1>9, EndWrite

LEMMA OverwriteFacts ==
  ASSUME Core, NEW p \in Threads, Overwrite(p)
  PROVE  /\ Alone(p) /\ KeepPlace(p) /\ KeepWork(p) /\ KeepScan(p)
         /\ t[p].pc = "act" /\ t'[p].pc = "bump"
         /\ t'[p].held = <<t[p].cur>> /\ t'[p].todo = <<t[p].cur>> /\ t'[p].after = "done"
         /\ UNCHANGED <<root, size_est>> /\ Effect(p) /\ op[p].kind = "put"
         /\ Holds(t[p].cur, op[p].key) /\ ValueIn(t[p].cur, op[p].key) = None
         /\ Slot(t[p].cur, op[p].key) + 1 \in DOMAIN node[t[p].cur].vals
         /\ WriteEffect(t[p].cur, Slot(t[p].cur, op[p].key) + 1, Abs!Result(op[p]), TRUE)
<1>1. LocalsOK(p) /\ t[p].pc = "act"
  BY LocalFacts DEF Core, Overwrite, At
<1>2. /\ UNCHANGED <<root, size_est>> /\ Effect(p) /\ ValueIn(t[p].cur, op[p].key) = None
      /\ Holds(t[p].cur, op[p].key) /\ op[p].kind = "put"
  BY DEF Overwrite, Present
<1>4. SetQueue(p, "bump", <<t[p].cur>>, <<t[p].cur>>, "done")
  BY DEF Overwrite, ThenBump, SetQueue
<1>5. PICK h : h = <<t[p].cur>>
  OBVIOUS
<1>6. PICK n : n = t[p].cur
  OBVIOUS
<1>7. PICK i : i = Slot(t[p].cur, op[p].key) + 1
  OBVIOUS
<1>8. PICK v : v = Abs!Result(op[p])
  OBVIOUS
<1>9. n \in DOMAIN node /\ node[n].leaf /\ v \in Maybe /\ op[p].key \in Nat /\ TreeOK /\ node \in Seq(Node)
      /\ v = op[p].val
  BY <1>1, <1>2, <1>6, <1>8, ActFacts DEF Core, TypesOK, TreeOK
<1>10. i \in DOMAIN node[n].vals
  BY <1>2, <1>6, <1>7, <1>9, SlotHeld, LeafFacts
<1>11. node' = [node EXCEPT ![n].vals[i] = v, ![n].torn = TRUE]
  BY <1>6, <1>7, <1>9 DEF Overwrite
<1>12. WriteEffect(n, i, v, TRUE)
  BY <1>9, <1>10, <1>11, OverwriteDoes
<1>13. SetQueue(p, "bump", h, h, "done")
  BY <1>4, <1>5
<1>14. /\ Alone(p) /\ t'[p].pc = "bump" /\ t'[p].todo = h /\ t'[p].held = h /\ t'[p].after = "done"
       /\ KeepPlace(p) /\ KeepWork(p) /\ KeepScan(p)
  BY <1>1, <1>13, BumpListDoes
<1>15. QED
  BY <1>1, <1>2, <1>5, <1>6, <1>7, <1>8, <1>10, <1>12, <1>14

LEMMA OverwriteCore ==
  ASSUME Core, NEW p \in Threads, Overwrite(p)
  PROVE  Core'
<1>1. /\ Alone(p) /\ KeepPlace(p) /\ KeepWork(p) /\ KeepScan(p)
      /\ t[p].pc = "act" /\ t'[p].pc = "bump"
      /\ t'[p].held = <<t[p].cur>> /\ t'[p].todo = <<t[p].cur>> /\ t'[p].after = "done"
      /\ UNCHANGED <<root, size_est>> /\ Effect(p)
  BY OverwriteFacts
<1>2. PICK n : n = t[p].cur
  OBVIOUS
<1>3. PICK i : i = Slot(t[p].cur, op[p].key) + 1
  OBVIOUS
<1>4. PICK v : v = Abs!Result(op[p])
  OBVIOUS
<1>5. /\ p \in Procs /\ n \in DOMAIN node /\ n \in Nat
      /\ op[p].kind # "get" /\ node \in Seq(Node)
  BY <1>1, <1>2, ActFacts DEF Core, TypesOK, TreeOK
<1>6. i \in DOMAIN node[n].vals /\ WriteEffect(n, i, v, TRUE)
  BY <1>2, <1>3, <1>4, OverwriteFacts
<1>7. OpsStep(p) /\ op'[p] = op[p] /\ seen'[p] \in SUBSET Maybe /\ res'[p] # Abs!Undecided
  BY <1>1, <1>5, EffectOps DEF Core
<1>8. t'[p].todo \in Seq(Nat)
  BY <1>1, <1>2, <1>5
<1>9. /\ node' \in Seq(Node) /\ DOMAIN node' = DOMAIN node
      /\ \A m \in DOMAIN node : m # n => node'[m] = node[m]
      /\ SameTree(n) /\ Len(node'[n].vals) = Len(node[n].vals) /\ node'[n].locked = node[n].locked
  BY <1>5, <1>6, WriteTypes
<1>10. QED
  BY <1>1, <1>2, <1>5, <1>7, <1>8, <1>9, EndWrite

\* A step of p that changes the tree.
LEMMA GrowStep ==
  ASSUME Core, NEW p \in Procs, Alone(p), TreeOK', Grown, OpsStep(p), ThreadOK(p)', OpOK(p)',
         LockStep(p), TornStep(p), Respect(p), HeldOK(p)', SplitOK(p)', ShapeOK'
  PROVE  Core'
<1>1. p \in Threads
  BY DEF Threads
<1>2. TypesOK'
  BY <1>1, TypesStep DEF Core
<1>3. LocksOK'
  BY LocksStep DEF Core
<1>4. QED
  BY <1>2, <1>3 DEF Core

\* A key not in the leaf goes to a slot of it.
LEMMA InsertTypes ==
  ASSUME TreeOK, NEW n \in DOMAIN node, node[n].leaf, NEW k \in Keys, NEW v \in Maybe,
         NEW i, i = Slot(n, k) + 1
  PROVE  LET ks == InsertAt(node[n].keys, i, k)
             vs == InsertAt(node[n].vals, i, v)
         IN  /\ ks \in Seq(Keys) /\ Len(ks) = Len(node[n].keys) + 1
             /\ vs \in Seq(Maybe) /\ Len(vs) = Len(node[n].keys) + 1
             /\ i \in 1..(Len(node[n].keys) + 1) /\ Len(node[n].keys) \in 1..Capacity
             /\ ks[i] = k /\ vs[i] = v
             /\ \A j \in 1..(i - 1) : ks[j] = node[n].keys[j] /\ vs[j] = node[n].vals[j]
             /\ \A j \in (i + 1)..(Len(node[n].keys) + 1) :
                  ks[j] = node[n].keys[j - 1] /\ vs[j] = node[n].vals[j - 1]
<1>1. /\ Len(node[n].keys) \in 1..Capacity /\ Len(node[n].vals) = Len(node[n].keys)
      /\ node[n].vals \in Seq(Maybe) /\ node[n].keys \in Seq(Keys)
  BY LeafFacts
<1>2. i \in 1..(Len(node[n].keys) + 1)
  BY SlotBound
<1>3. PICK ks : ks = InsertAt(node[n].keys, i, k)
  OBVIOUS
<1>4. PICK vs : vs = InsertAt(node[n].vals, i, v)
  OBVIOUS
<1>5. /\ ks \in Seq(Keys) /\ Len(ks) = Len(node[n].keys) + 1
      /\ \A j \in 1..(i - 1) : ks[j] = node[n].keys[j]
      /\ ks[i] = k
      /\ \A j \in (i + 1)..(Len(node[n].keys) + 1) : ks[j] = node[n].keys[j - 1]
  <2>1. PICK s : s = node[n].keys
    OBVIOUS
  <2>2. s \in Seq(Keys) /\ i \in 1..(Len(s) + 1) /\ ks = InsertAt(s, i, k)
    BY <1>1, <1>2, <1>3, <2>1
  <2>3. /\ ks \in Seq(Keys) /\ Len(ks) = Len(s) + 1
        /\ \A j \in 1..(i - 1) : ks[j] = s[j]
        /\ ks[i] = k
        /\ \A j \in (i + 1)..(Len(s) + 1) : ks[j] = s[j - 1]
    <3>1. Inserted(Keys, s, i, k, ks)
      BY <2>2, InsertFacts
    <3>2. QED
      BY <3>1 DEF Inserted
  <2>4. QED
    BY <2>1, <2>3
<1>6. /\ vs \in Seq(Maybe) /\ Len(vs) = Len(node[n].keys) + 1
      /\ \A j \in 1..(i - 1) : vs[j] = node[n].vals[j]
      /\ vs[i] = v
      /\ \A j \in (i + 1)..(Len(node[n].keys) + 1) : vs[j] = node[n].vals[j - 1]
  <2>1. PICK s : s = node[n].vals
    OBVIOUS
  <2>2. s \in Seq(Maybe) /\ i \in 1..(Len(s) + 1) /\ vs = InsertAt(s, i, v) /\ Len(s) = Len(node[n].keys)
    BY <1>1, <1>2, <1>4, <2>1
  <2>3. /\ vs \in Seq(Maybe) /\ Len(vs) = Len(s) + 1
        /\ \A j \in 1..(i - 1) : vs[j] = s[j]
        /\ vs[i] = v
        /\ \A j \in (i + 1)..(Len(s) + 1) : vs[j] = s[j - 1]
    <3>1. Inserted(Maybe, s, i, v, vs)
      BY <2>2, InsertFacts
    <3>2. QED
      BY <3>1 DEF Inserted
  <2>4. QED
    BY <2>1, <2>2, <2>3
<1>7. QED
  BY <1>1, <1>2, <1>3, <1>4, <1>5, <1>6

LEMMA ShiftFacts ==
  ASSUME Core, NEW p \in Threads, Shift(p)
  PROVE  /\ Alone(p) /\ KeepPlace(p) /\ KeepWork(p) /\ KeepScan(p)
         /\ t[p].pc = "act" /\ t'[p].pc = "bump"
         /\ t'[p].held = <<t[p].cur>> /\ t'[p].todo = <<t[p].cur>> /\ t'[p].after = "count"
         /\ UNCHANGED <<root, size_est>> /\ Effect(p) /\ op[p].kind = "put"
         /\ ~Holds(t[p].cur, op[p].key) /\ ~Full(t[p].cur)
         /\ ShiftEffect(t[p].cur, Slot(t[p].cur, op[p].key) + 1, op[p].key, op[p].val)
<1>1. LocalsOK(p) /\ t[p].pc = "act"
  BY LocalFacts DEF Core, Shift, Inserts, At
<1>2. /\ UNCHANGED <<root, size_est>> /\ Effect(p) /\ ~Full(t[p].cur)
      /\ ~Holds(t[p].cur, op[p].key) /\ op[p].kind = "put"
  BY DEF Shift, Inserts
<1>3. PICK h : h = <<t[p].cur>>
  OBVIOUS
<1>4. SetQueue(p, "bump", h, h, "count")
  BY <1>3 DEF Shift, ThenBump, SetQueue
<1>5. /\ Alone(p) /\ t'[p].pc = "bump" /\ t'[p].todo = h /\ t'[p].held = h /\ t'[p].after = "count"
      /\ KeepPlace(p) /\ KeepWork(p) /\ KeepScan(p)
  BY <1>1, <1>4, BumpListDoes
<1>6. PICK n : n = t[p].cur
  OBVIOUS
<1>7. PICK k : k = op[p].key
  OBVIOUS
<1>8. PICK v : v = op[p].val
  OBVIOUS
<1>9. PICK i : i = Slot(n, k) + 1
  OBVIOUS
<1>10. n \in DOMAIN node /\ node[n].leaf /\ v \in Maybe /\ k \in Keys /\ TreeOK /\ node \in Seq(Node)
  BY <1>1, <1>2, <1>6, <1>7, <1>8, ActFacts DEF Core, TypesOK, TreeOK
<1>11. InsertAt(node[n].keys, i, k) \in Seq(Keys) /\ InsertAt(node[n].vals, i, v) \in Seq(Maybe)
  BY <1>9, <1>10, InsertTypes
<1>12. node' = [node EXCEPT ![n].keys = InsertAt(@, i, k),
                            ![n].vals = InsertAt(@, i, v),
                            ![n].torn = TRUE]
  BY <1>6, <1>7, <1>8, <1>9 DEF Shift
<1>13. ShiftEffect(n, i, k, v)
  BY <1>10, <1>11, <1>12, ShiftDoes
<1>14. QED
  BY <1>1, <1>2, <1>3, <1>5, <1>6, <1>7, <1>8, <1>9, <1>13

LEMMA ShiftCore ==
  ASSUME Core, NEW p \in Threads, Shift(p)
  PROVE  Core'
<1>1. /\ Alone(p) /\ KeepPlace(p) /\ KeepWork(p) /\ KeepScan(p)
      /\ t[p].pc = "act" /\ t'[p].pc = "bump"
      /\ t'[p].held = <<t[p].cur>> /\ t'[p].todo = <<t[p].cur>> /\ t'[p].after = "count"
      /\ UNCHANGED <<root, size_est>> /\ Effect(p)
      /\ ~Full(t[p].cur) /\ op[p].kind = "put"
  BY ShiftFacts
<1>2. PICK n : n = t[p].cur
  OBVIOUS
<1>3. PICK k : k = op[p].key
  OBVIOUS
<1>4. PICK v : v = op[p].val
  OBVIOUS
<1>5. PICK i : i = Slot(n, k) + 1
  OBVIOUS
<1>6. ShiftEffect(n, i, k, v)
  BY <1>2, <1>3, <1>4, <1>5, ShiftFacts
<1>7. /\ p \in Procs /\ n \in DOMAIN node /\ n \in Nat /\ ThreadOK(p) /\ OpOK(p) /\ op[p].kind # "get"
      /\ node[n].leaf /\ node[n].locked /\ (\A m : Owns(p, m) <=> m = n) /\ (\A m : ~Tearing(p, m))
      /\ ~Splitting(p) /\ k \in Keys /\ v \in Maybe /\ TreeOK /\ node \in Seq(Node) /\ Formed(n)
  BY <1>1, <1>2, <1>3, <1>4, ActFacts DEF Core, TypesOK, TreeOK
<1>8. /\ node' \in Seq(Node) /\ DOMAIN node' = DOMAIN node
      /\ \A m \in DOMAIN node : m # n => node'[m] = node[m]
      /\ node'[n].leaf = node[n].leaf /\ node'[n].kids = node[n].kids
      /\ node'[n].next = node[n].next /\ node'[n].parent = node[n].parent
      /\ node'[n].locked = node[n].locked
  BY <1>6 DEF ShiftEffect
<1>9. Len(node'[n].keys) = Len(node[n].keys) + 1 /\ Len(node'[n].vals) = Len(node[n].keys) + 1
      /\ Len(node[n].keys) \in 1..Capacity
  BY <1>5, <1>6, <1>7, InsertTypes DEF ShiftEffect
<1>10. \A m \in DOMAIN node : /\ node'[m].leaf = node[m].leaf /\ node'[m].kids = node[m].kids
                              /\ node'[m].next = node[m].next /\ node'[m].parent = node[m].parent
                              /\ node'[m].locked = node[m].locked
  BY <1>8
<1>11. TreeOK'
  <2>1. Formed(n)'
    <3>1. Len(node'[n].keys) \in 1..Capacity
      BY <1>1, <1>2, <1>9, KeyFacts DEF Full
    <3>2. QED
      BY <1>7, <1>8, <1>9, <1>10, <3>1 DEF Formed
  <2>2. \A m \in DOMAIN node : m # n => Formed(m)'
    <3> SUFFICES ASSUME NEW m \in DOMAIN node, m # n PROVE Formed(m)'
      OBVIOUS
    <3>1. Formed(m) /\ node'[m] = node[m]
      BY <1>7, <1>8 DEF TreeOK
    <3>2. QED
      BY <1>8, <1>10, <3>1 DEF Formed
  <2>3. QED
    BY <1>1, <1>7, <1>8, <2>1, <2>2 DEF TreeOK
<1>12. Grown
  BY <1>8, <1>10 DEF Grown
<1>13. /\ \A m : Owns(p, m)' <=> m = n
       /\ \A m : Tearing(p, m)' <=> m = n
       /\ ~Splitting(p)' /\ <<n>> \in Seq(Nat)
       /\ HeldOK(p)' /\ SplitOK(p)'
  BY <1>1, <1>2, <1>7, <1>8, HoldOne
<1>14. LockStep(p)
  BY <1>7, <1>8, <1>10, <1>13 DEF LockStep
<1>15. TornStep(p)
  BY <1>7, <1>8, <1>13 DEF TornStep
<1>16. Respect(p)
  BY <1>1, <1>7, <1>8, <1>10 DEF Respect
<1>17. ThreadOK(p)'
  BY <1>1, <1>2, <1>7, <1>12, <1>13, WriterThread DEF ThreadOK, KeepWork, Ending
<1>18. OpsStep(p) /\ op'[p] = op[p] /\ seen'[p] \in SUBSET Maybe /\ res'[p] # Abs!Undecided
  BY <1>1, <1>7, EffectOps DEF Core
<1>19. OpOK(p)'
  BY <1>1, <1>7, <1>18, OpDecided DEF Ending, Climbing, Parents
<1>20. ShapeOK'
  <2>1. \A q \in Procs : Splitting(q) => Splitting(q)' /\ t'[q].right = t[q].right
    BY <1>1, <1>7, OthersOwn DEF Alone, Threads
  <2>2. QED
    BY <1>1, <1>7, <1>8, <1>10, <2>1, SameShape DEF Core, TypesOK, TreeOK, SameLinks
<1>21. QED
  BY <1>1, <1>7, <1>11, <1>12, <1>13, <1>14, <1>15, <1>16, <1>17, <1>18, <1>19, <1>20, GrowStep

LEMMA LeafCutBound ==
  ASSUME NEW slot \in 0..Capacity
  PROVE  LeafCut(slot) \in 1..Capacity /\ LeafCut(slot) \in Nat
<1>1. PICK half : half = Capacity \div 2
  OBVIOUS
<1>2. half \in Nat /\ Capacity = 2 * half + 1 /\ half >= 1
  BY <1>1, CapacityAssumption
<1>3. PICK mid : mid = IF slot = Capacity THEN Capacity
                       ELSE IF slot >= half /\ half < Capacity - half THEN half + 1
                       ELSE half
  OBVIOUS
<1>4. PICK cut : cut = IF slot >= mid THEN mid ELSE mid + 1
  OBVIOUS
<1>5. mid \in Nat /\ cut \in 1..Capacity /\ cut \in Nat
  BY <1>2, <1>3, <1>4
<1>6. LeafCut(slot) = cut
  BY <1>1, <1>3, <1>4 DEF LeafCut
<1>7. QED
  BY <1>5, <1>6

\* Leaf n is split: its records and the new one, all and allv, are cut in two.
LeafSplit(p, n, i, cut, all, allv, ks, vs, rks, rvs) ==
  /\ i = Slot(n, op[p].key) + 1 /\ i \in 1..(Len(node[n].keys) + 1) /\ cut \in 1..Capacity
  /\ cut = LeafCut(Slot(n, op[p].key))
  /\ Inserted(Keys, node[n].keys, i, op[p].key, all)
  /\ Inserted(Maybe, node[n].vals, i, op[p].val, allv)
  /\ CutAt(Keys, all, cut, ks, rks) /\ CutAt(Maybe, allv, cut, vs, rvs)
  /\ SplitEffect(n, ks, vs, rks, rvs)
  /\ t'[p].sep = all[cut + 1]

LEMMA SplitLeafFacts ==
  ASSUME Core, NEW p \in Threads, SplitLeaf(p)
  PROVE  /\ Alone(p) /\ KeepPlace(p) /\ KeepQueue(p) /\ KeepScan(p)
         /\ t[p].pc = "act" /\ t'[p].pc = "parent"
         /\ t'[p].left = t[p].cur /\ t'[p].right = Len(node) + 1 /\ t'[p].par = t[p].par
         /\ UNCHANGED <<root, size_est>> /\ Effect(p) /\ op[p].kind = "put"
         /\ ~Holds(t[p].cur, op[p].key) /\ Full(t[p].cur)
         /\ \E i, cut, all, allv, ks, vs, rks, rvs :
              LeafSplit(p, t[p].cur, i, cut, all, allv, ks, vs, rks, rvs)
<1>1. LocalsOK(p) /\ t[p].pc = "act"
  BY LocalFacts DEF Core, SplitLeaf, Inserts, At
<1>2. /\ UNCHANGED <<root, size_est>> /\ Effect(p) /\ Full(t[p].cur)
      /\ ~Holds(t[p].cur, op[p].key) /\ op[p].kind = "put"
  BY DEF SplitLeaf, Inserts
<1>3. PICK n : n = t[p].cur
  OBVIOUS
<1>4. PICK k : k = op[p].key
  OBVIOUS
<1>5. PICK v : v = op[p].val
  OBVIOUS
<1>6. PICK slot : slot = Slot(n, k)
  OBVIOUS
<1>7. PICK i : i = slot + 1
  OBVIOUS
<1>8. PICK all : all = InsertAt(node[n].keys, i, k)
  OBVIOUS
<1>9. PICK allv : allv = InsertAt(node[n].vals, i, v)
  OBVIOUS
<1>10. PICK cut : cut = LeafCut(slot)
  OBVIOUS
<1>11. n \in DOMAIN node /\ node[n].leaf /\ v \in Maybe /\ k \in Keys /\ TreeOK /\ node \in Seq(Node)
  BY <1>1, <1>2, <1>3, <1>4, <1>5, ActFacts DEF Core, TypesOK, TreeOK
<1>12. /\ Len(node[n].keys) = Capacity /\ Len(node[n].vals) = Capacity /\ Capacity \in Nat
       /\ node[n].vals \in Seq(Maybe) /\ node[n].keys \in Seq(Keys)
  BY <1>2, <1>3, <1>11, LeafFacts, KeyFacts DEF Full
<1>13. slot \in 0..Capacity /\ i \in 1..(Capacity + 1) /\ cut \in 1..Capacity
  <2>1. slot \in 0..Capacity
    BY <1>6, <1>11, <1>12, SlotBound
  <2>2. QED
    BY <1>7, <1>10, <1>12, <2>1, LeafCutBound
<1>14. Inserted(Keys, node[n].keys, i, k, all) /\ Inserted(Maybe, node[n].vals, i, v, allv)
  BY <1>8, <1>9, <1>11, <1>12, <1>13, InsertFacts
<1>15. /\ all \in Seq(Keys) /\ allv \in Seq(Maybe) /\ Len(all) = Capacity + 1
       /\ Len(allv) = Capacity + 1 /\ cut \in 1..Len(all) /\ cut \in 1..Len(allv)
  BY <1>12, <1>13, <1>14 DEF Inserted
<1>16. PICK ks : ks = SubSeq(all, 1, cut)
  OBVIOUS
<1>17. PICK vs : vs = SubSeq(allv, 1, cut)
  OBVIOUS
<1>18. PICK rks : rks = SubSeq(all, cut + 1, Len(all))
  OBVIOUS
<1>19. PICK rvs : rvs = SubSeq(allv, cut + 1, Len(all))
  OBVIOUS
<1>20. CutAt(Keys, all, cut, ks, rks) /\ CutAt(Maybe, allv, cut, vs, rvs)
  BY <1>15, <1>16, <1>17, <1>18, <1>19, CutFacts
<1>21. ks \in Seq(Keys) /\ rks \in Seq(Keys) /\ vs \in Seq(Maybe) /\ rvs \in Seq(Maybe)
  BY <1>20 DEF CutAt
<1>22. /\ node' = Append([node EXCEPT ![n].keys = ks, ![n].vals = vs,
                                      ![n].next = Len(node) + 1, ![n].torn = TRUE],
                         [Leaf(rks, rvs, node[n].next) EXCEPT !.locked = TRUE])
       /\ SetSplit(p, "parent", n, Len(node) + 1, all[cut + 1])
  BY <1>3, <1>4, <1>5, <1>6, <1>7, <1>8, <1>9, <1>10, <1>16, <1>17, <1>18, <1>19, Zenon DEF SplitLeaf, SetSplit
<1>23. SplitEffect(n, ks, vs, rks, rvs)
  BY <1>11, <1>21, <1>22, SplitDoes
<1>24. PICK sib : sib = Len(node) + 1
  OBVIOUS
<1>25. PICK k2 : k2 = all[cut + 1]
  OBVIOUS
<1>26. SetSplit(p, "parent", n, sib, k2)
  BY <1>22, <1>24, <1>25
<1>27. /\ Alone(p) /\ t'[p].pc = "parent" /\ t'[p].left = n /\ t'[p].right = sib /\ t'[p].sep = k2
       /\ t'[p].par = t[p].par /\ KeepPlace(p) /\ KeepQueue(p) /\ KeepScan(p)
  BY <1>1, <1>26, BeginSplitDoes
<1>28. LeafSplit(p, n, i, cut, all, allv, ks, vs, rks, rvs)
  BY <1>4, <1>5, <1>6, <1>7, <1>10, <1>12, <1>13, <1>14, <1>20, <1>23, <1>25, <1>27 DEF LeafSplit
<1>29. QED
  BY <1>1, <1>2, <1>3, <1>24, <1>27, <1>28

LEMMA SplitLeafCore ==
  ASSUME Core, NEW p \in Threads, SplitLeaf(p)
  PROVE  Core'
<1>1. /\ Alone(p) /\ KeepPlace(p) /\ KeepQueue(p) /\ KeepScan(p)
      /\ t[p].pc = "act" /\ t'[p].pc = "parent"
      /\ t'[p].left = t[p].cur /\ t'[p].right = Len(node) + 1 /\ t'[p].par = t[p].par
      /\ UNCHANGED <<root, size_est>> /\ Effect(p) /\ op[p].kind = "put"
      /\ Full(t[p].cur)
  BY SplitLeafFacts
<1>2. PICK n : n = t[p].cur
  OBVIOUS
<1>3. PICK sib : sib = Len(node) + 1
  OBVIOUS
<1>4. PICK i, cut, all, allv, ks, vs, rks, rvs : LeafSplit(p, n, i, cut, all, allv, ks, vs, rks, rvs)
  BY <1>2, SplitLeafFacts
<1>5. /\ p \in Procs /\ n \in DOMAIN node /\ n \in Nat /\ ThreadOK(p) /\ OpOK(p) /\ HeldOK(p)
      /\ node[n].leaf /\ node[n].locked /\ (\A m : Owns(p, m) <=> m = n) /\ (\A m : ~Tearing(p, m))
      /\ ~Splitting(p) /\ TreeOK /\ Formed(n) /\ op[p].kind # "get"
  BY <1>1, <1>2, ActFacts DEF Core, TypesOK, TreeOK
<1>6. /\ node' \in Seq(Node) /\ DOMAIN node' = DOMAIN node \union {sib}
      /\ sib \notin DOMAIN node /\ sib \in Nat /\ sib # 0 /\ sib # n
      /\ \A m \in DOMAIN node : m # n => node'[m] = node[m]
      /\ node'[n].keys = ks /\ node'[n].vals = vs /\ node'[n].next = sib
      /\ node'[n].leaf = node[n].leaf /\ node'[n].kids = node[n].kids
      /\ node'[n].parent = node[n].parent
      /\ node'[n].locked = node[n].locked
      /\ node'[n].torn = TRUE
      /\ node'[sib].keys = rks /\ node'[sib].vals = rvs /\ node'[sib].next = node[n].next
      /\ node'[sib].leaf = TRUE /\ node'[sib].parent = Nil
      /\ node'[sib].locked = TRUE /\ node'[sib].torn = FALSE
  BY <1>3, <1>4, <1>5 DEF LeafSplit, SplitEffect
<1>7. /\ Len(ks) = cut /\ Len(vs) = cut /\ Len(rks) = Capacity + 1 - cut /\ Len(rvs) = Capacity + 1 - cut
      /\ cut \in 1..Capacity /\ Capacity \in Nat /\ t'[p].sep \in Nat /\ t'[p].sep \in Keys
  <2>1. Len(node[n].keys) = Capacity /\ Len(node[n].vals) = Capacity /\ Capacity \in Nat
    BY <1>1, <1>2, <1>5, LeafFacts, KeyFacts DEF Full
  <2>2. /\ Len(all) = Capacity + 1 /\ Len(allv) = Capacity + 1 /\ all \in Seq(Keys)
        /\ cut \in 1..Capacity /\ t'[p].sep = all[cut + 1]
    BY <1>4, <2>1 DEF LeafSplit, Inserted
  <2>3. Len(ks) = cut /\ Len(vs) = cut /\ Len(rks) = Len(all) - cut /\ Len(rvs) = Len(allv) - cut
    BY <1>4 DEF LeafSplit, CutAt
  <2>4. all[cut + 1] \in Keys
    BY <2>1, <2>2
  <2>5. t'[p].sep \in Keys /\ t'[p].sep \in Nat
    BY <2>2, <2>4, KeyFacts
  <2>6. Len(rks) = Capacity + 1 - cut /\ Len(rvs) = Capacity + 1 - cut
    BY <2>1, <2>2, <2>3
  <2>7. QED
    BY <2>1, <2>2, <2>3, <2>5, <2>6
<1>8. \A m \in DOMAIN node : /\ node'[m].leaf = node[m].leaf /\ node'[m].kids = node[m].kids
                             /\ node'[m].parent = node[m].parent
                             /\ node'[m].locked = node[m].locked
  BY <1>6
<1>9. TreeOK'
  <2>1. Formed(n)'
    BY <1>5, <1>6, <1>7, <1>8 DEF Formed
  <2>2. Formed(sib)'
    BY <1>5, <1>6, <1>7, <1>8 DEF Formed
  <2>3. \A m \in DOMAIN node : m # n => Formed(m)'
    <3> SUFFICES ASSUME NEW m \in DOMAIN node, m # n PROVE Formed(m)'
      OBVIOUS
    <3>1. Formed(m) /\ node'[m] = node[m]
      BY <1>5, <1>6 DEF TreeOK
    <3>2. QED
      BY <1>6, <1>8, <3>1 DEF Formed
  <2>4. root' \in DOMAIN node' /\ size_est' \in Nat
    BY <1>1, <1>5, <1>6 DEF TreeOK
  <2>5. QED
    BY <1>6, <2>1, <2>2, <2>3, <2>4 DEF TreeOK
<1>10. Grown
  BY <1>6, <1>8 DEF Grown
<1>11. /\ \A m : Owns(p, m)' <=> m \in {n, sib}
       /\ \A m : Tearing(p, m)' <=> m = n
       /\ Splitting(p)'
  BY <1>1, <1>2, <1>3 DEF Owns, Tearing, Splitting, Climbing, Parents, Ending
<1>12. LockStep(p)
  BY <1>5, <1>6, <1>8, <1>11 DEF LockStep
<1>13. TornStep(p)
  BY <1>5, <1>6, <1>11 DEF TornStep
<1>14. Respect(p)
  BY <1>1, <1>5, <1>6, <1>8 DEF Respect
<1>15. HeldOK(p)'
  BY <1>1 DEF HeldOK, Climbing, Ending, Parents
<1>16. SplitOK(p)'
  <2>1. t'[p].left = n /\ t'[p].right = sib /\ t'[p].pc = "parent"
    BY <1>1, <1>2, <1>3
  <2>2. sib # root'
    BY <1>1, <1>5, <1>6 DEF TreeOK
  <2>3. node'[n].leaf = node'[sib].leaf
    BY <1>5, <1>6
  <2>4. QED
    BY <1>5, <1>6, <1>7, <2>1, <2>2, <2>3 DEF SplitOK, Parents
<1>17. ThreadOK(p)'
  <2>1. /\ t'[p].left \in Nat /\ t'[p].right \in Nat /\ t'[p].par \in Nat /\ t'[p].sep \in Nat
        /\ t'[p].todo \in Seq(Nat) /\ t'[p].held \in Seq(Nat)
        /\ t'[p].after \in {"done", "count", "parent"}
    BY <1>1, <1>2, <1>3, <1>5, <1>6, <1>7 DEF ThreadOK, KeepQueue
  <2>2. t'[p].pc \in Climbing
    BY <1>1 DEF Climbing
  <2>3. t'[p].pc \notin {"lockver", "act", "walkver"}
    BY <1>1
  <2>4. QED
    BY <1>1, <1>5, <1>10, <2>1, <2>2, <2>3, WriterThread
<1>18. OpsStep(p) /\ op'[p] = op[p] /\ seen'[p] \in SUBSET Maybe /\ res'[p] # Abs!Undecided
  BY <1>1, <1>5, EffectOps DEF Core
<1>19. OpOK(p)'
  BY <1>1, <1>5, <1>18, OpDecided DEF Ending, Climbing, Parents
<1>20. ShapeOK'
  <2>1. \A q \in Procs : Splitting(q) => Splitting(q)' /\ t'[q].right = t[q].right
    BY <1>1, <1>5, OthersOwn DEF Alone, Threads
  <2>2. ShapeOK
    BY DEF Core
  <2>3. ASSUME NEW m \in DOMAIN node' \ Leaves'
        PROVE  /\ \A a \in DOMAIN node'[m].kids : node'[node'[m].kids[a]].parent = m
               /\ \A a, b \in DOMAIN node'[m].kids : node'[m].kids[a] = node'[m].kids[b] => a = b
    <3>1. m \in DOMAIN node \ Leaves /\ node'[m].kids = node[m].kids
      BY <1>6, <1>8 DEF Leaves
    <3>2. \A a \in DOMAIN node[m].kids : node[m].kids[a] \in DOMAIN node
      BY <1>5, <3>1 DEF TreeOK, Formed, Leaves
    <3>3. QED
      BY <1>8, <2>2, <3>1, <3>2 DEF ShapeOK
  <2>4. node'[root'].parent = Nil /\ \A m \in DOMAIN node' : node'[m].parent # m
    <3>1. node'[root'].parent = Nil
      BY <1>1, <1>5, <1>8, <2>2 DEF ShapeOK, TreeOK
    <3>2. node'[sib].parent # sib
      BY <1>6 DEF Nil
    <3>3. QED
      BY <1>6, <1>8, <2>2, <3>1, <3>2 DEF ShapeOK
  <2>5. ASSUME NEW m \in DOMAIN node', node'[m].parent = Nil
        PROVE  m = root' \/ \E q \in Procs : Splitting(q)' /\ m = t'[q].right
    <3>1. CASE m = sib
      BY <1>1, <1>3, <1>5, <1>11, <3>1
    <3>2. CASE m # sib
      <4>1. m \in DOMAIN node /\ node[m].parent = Nil
        BY <1>6, <1>8, <2>5, <3>2
      <4>2. QED
        BY <1>1, <2>1, <2>2, <4>1 DEF ShapeOK
    <3>3. QED
      BY <3>1, <3>2
  <2>6. QED
    BY <2>3, <2>4, <2>5 DEF ShapeOK
<1>21. QED
  BY <1>5, <1>9, <1>10, <1>12, <1>13, <1>14, <1>15, <1>16, <1>17, <1>18, <1>19, <1>20, <1>1, GrowStep

\* What p knows while it climbs.
LEMMA ClimbFacts ==
  ASSUME Core, NEW p \in Threads, t[p].pc \in Climbing
  PROVE  /\ p \in Procs /\ LocalsOK(p) /\ ThreadOK(p) /\ OpOK(p) /\ HeldOK(p) /\ SplitOK(p)
         /\ Splitting(p) /\ TreeOK /\ node \in Seq(Node)
         /\ t[p].left \in DOMAIN node /\ t[p].right \in DOMAIN node /\ t[p].left # t[p].right
         /\ t[p].left \in Nat /\ t[p].right \in Nat
         /\ node[t[p].left].locked /\ node[t[p].right].locked
         /\ op[p].kind = "put" /\ res[p] # Abs!Undecided /\ seen[p] \in SUBSET Maybe
         /\ t[p].sep \in Keys /\ t[p].sep \in Nat
<1>1. LocalsOK(p) /\ ThreadOK(p)
  BY LocalFacts DEF Core
<1>2. p \in Procs
  BY <1>1 DEF ThreadOK, Threads, AtRoot, AtInner, Reading, Climbing, Parents
<1>3. OpOK(p) /\ HeldOK(p) /\ SplitOK(p) /\ TreeOK /\ node \in Seq(Node)
  BY <1>2 DEF Core, TypesOK, LocksOK, TreeOK
<1>4. Splitting(p)
  BY DEF Splitting
<1>5. t[p].left \in DOMAIN node /\ t[p].right \in DOMAIN node /\ t[p].left # t[p].right
  BY <1>3, <1>4 DEF SplitOK
<1>6. node[t[p].left].locked /\ node[t[p].right].locked
  BY <1>2, <1>4, <1>5 DEF Core, LocksOK, Owns
<1>7. t[p].left \in Nat /\ t[p].right \in Nat
  BY <1>1 DEF ThreadOK
<1>8. op[p].kind = "put" /\ res[p] # Abs!Undecided /\ seen[p] \in SUBSET Maybe
  BY <1>3 DEF OpOK, AtRoot, AtInner, Reading, Climbing, Parents
<1>9. t[p].sep \in Keys /\ t[p].sep \in Nat
  BY <1>3, <1>4, KeyFacts DEF SplitOK
<1>10. QED
  BY <1>1, <1>2, <1>3, <1>4, <1>5, <1>6, <1>7, <1>8, <1>9

LEMMA LoadParentFacts ==
  ASSUME Core, NEW p \in Threads, LoadParent(p)
  PROVE  /\ Alone(p) /\ KeepPlace(p) /\ KeepQueue(p) /\ KeepScan(p) /\ Still
         /\ t[p].pc = "parent" /\ t'[p].par = node[t[p].left].parent
         /\ t'[p].left = t[p].left /\ t'[p].right = t[p].right /\ t'[p].sep = t[p].sep
         /\ \/ node[t[p].left].parent = Nil /\ t'[p].pc = "newroot"
            \/ node[t[p].left].parent # Nil /\ t'[p].pc = "lockparent"
<1>1. LocalsOK(p) /\ t[p].pc = "parent" /\ Still
  BY LocalFacts, LocalStill DEF Core, LoadParent, At
<1>2. PICK l : SetPar(p, l, node[t[p].left].parent) /\ l = IF node[t[p].left].parent = Nil THEN "newroot" ELSE "lockparent"
  BY DEF LoadParent, SetPar
<1>3. PICK par : par = node[t[p].left].parent
  OBVIOUS
<1>4. SetPar(p, l, par)
  BY <1>2, <1>3
<1>5. QED
  BY <1>1, <1>2, <1>3, <1>4, ParentDoes

\* A step of p that leaves the nodes as they are, between two places of a split.
LEMMA ClimbStep ==
  ASSUME Core, NEW p \in Threads, t[p].pc \in Climbing, t'[p].pc \in Climbing,
         Alone(p), KeepPlace(p), KeepQueue(p), KeepScan(p),
         t'[p].left = t[p].left, t'[p].right = t[p].right, t'[p].sep = t[p].sep, t'[p].par \in Nat,
         node' \in Seq(Node), DOMAIN node' = DOMAIN node,
         \A m \in DOMAIN node : SameTree(m) /\ node'[m].vals = node[m].vals /\ node'[m].torn = node[m].torn,
         UNCHANGED <<root, size_est, op, seen, res>>, LockStep(p),
         t'[p].pc \in Parents => t'[p].par \in DOMAIN node /\ ~node[t'[p].par].leaf,
         t'[p].pc \in Parents \ {"lockparent"} => t'[p].par \notin {t[p].left, t[p].right},
         t'[p].pc = "newroot" => node[t[p].left].parent = Nil,
         t'[p].pc \in {"splitparent", "insertparent"} => node[t[p].left].parent = t'[p].par,
         t'[p].pc = "splitparent" => Full(t'[p].par),
         t'[p].pc = "insertparent" => ~Full(t'[p].par)
  PROVE  Core'
<1>1. /\ p \in Procs /\ ThreadOK(p) /\ OpOK(p) /\ HeldOK(p) /\ SplitOK(p)
      /\ Splitting(p) /\ TreeOK
  BY ClimbFacts
<1>2. Splitting(p)'
  BY DEF Splitting
<1>3. Grown
  BY DEF Grown, SameTree
<1>4. t'[p].pc \notin Ending /\ t[p].pc \notin Ending
  BY DEF Climbing, Parents, Ending
<1>5. \A m : Tearing(p, m)' <=> Tearing(p, m)
  BY <1>1, <1>2, <1>4 DEF Tearing, Ending
<1>6. TornStep(p)
  <2> SUFFICES ASSUME NEW m \in DOMAIN node', node'[m].torn PROVE Tearing(p, m)' \/ (m \in DOMAIN node /\ node[m].torn /\ ~Tearing(p, m))
    BY DEF TornStep
  <2>1. QED
    BY <1>5
<1>7. HeldOK(p)'
  BY <1>4 DEF HeldOK, Ending
<1>8. SplitOK(p)'
  <2>1. /\ t[p].left \in DOMAIN node /\ t[p].right \in DOMAIN node /\ t[p].left # t[p].right
        /\ node[t[p].left].leaf = node[t[p].right].leaf
        /\ node[t[p].left].torn
        /\ node[t[p].right].parent = Nil
        /\ t[p].right # root /\ t[p].sep \in Keys
    BY <1>1 DEF SplitOK
  <2>2. \A m \in DOMAIN node : /\ node'[m].leaf = node[m].leaf /\ node'[m].keys = node[m].keys
                               /\ node'[m].parent = node[m].parent /\ node'[m].torn = node[m].torn
    BY DEF SameTree
  <2>3. t'[p].pc \in {"splitparent", "insertparent"} => (Full(t[p].par)' <=> Full(t'[p].par))
    <3>1. t'[p].pc \in {"splitparent", "insertparent"} => node'[t'[p].par].keys = node[t'[p].par].keys
      BY <2>2 DEF Parents
    <3>2. QED
      BY <3>1 DEF Full
  <2>4. QED
    BY <2>1, <2>2, <2>3 DEF SplitOK, Full, Parents
<1>9. ThreadOK(p)'
  <2>1. /\ t'[p].left \in Nat /\ t'[p].right \in Nat /\ t'[p].sep \in Nat
        /\ t'[p].todo \in Seq(Nat) /\ t'[p].held \in Seq(Nat)
        /\ t'[p].after \in {"done", "count", "parent"}
    BY <1>1 DEF ThreadOK, KeepQueue
  <2>2. t'[p].pc \notin {"lockver", "act", "walkver"}
    BY DEF Climbing, Parents
  <2>3. QED
    BY <1>1, <1>3, <2>1, <2>2, WriterThread
<1>10. OpOK(p)' /\ OpsStep(p)
  BY <1>1, OpStays, QuietOps DEF Core
<1>11. \A m \in DOMAIN node : SameTree(m) /\ Len(node'[m].vals) = Len(node[m].vals)
  OBVIOUS
<1>12. QED
  BY <1>1, <1>2, <1>6, <1>7, <1>8, <1>9, <1>10, <1>11, WorkStep

LEMMA LoadParentCore ==
  ASSUME Core, NEW p \in Threads, LoadParent(p)
  PROVE  Core'
<1>1. /\ Alone(p) /\ KeepPlace(p) /\ KeepQueue(p) /\ KeepScan(p) /\ Still
      /\ t[p].pc = "parent" /\ t'[p].par = node[t[p].left].parent
      /\ t'[p].left = t[p].left /\ t'[p].right = t[p].right /\ t'[p].sep = t[p].sep
      /\ \/ node[t[p].left].parent = Nil /\ t'[p].pc = "newroot"
         \/ node[t[p].left].parent # Nil /\ t'[p].pc = "lockparent"
  BY LoadParentFacts
<1>2. /\ p \in Procs /\ Splitting(p) /\ TreeOK /\ node \in Seq(Node) /\ t[p].left \in DOMAIN node
  BY <1>1, ClimbFacts DEF Climbing
<1>3. /\ node[t[p].left].parent \in Nat
      /\ node[t[p].left].parent # Nil =>
           node[t[p].left].parent \in DOMAIN node /\ ~node[node[t[p].left].parent].leaf
  BY <1>2, NodeFacts DEF TreeOK, Formed
<1>4. UNCHANGED <<node, root, size_est, op, seen, res>>
  BY <1>1 DEF Still
<1>5. \A m : Owns(p, m)' <=> Owns(p, m)
  BY <1>1 DEF Owns, Splitting, Climbing, Parents, Ending
<1>6. LockStep(p)
  <2>1. \A m : Owns(p, m) => m \in DOMAIN node /\ node[m].locked
    BY <1>2, OwnsNodes DEF Core, LocksOK
  <2>2. QED
    BY <1>4, <1>5, <2>1 DEF LockStep
<1>7. \A m \in DOMAIN node : SameTree(m) /\ node'[m].vals = node[m].vals /\ node'[m].torn = node[m].torn
  BY <1>4 DEF SameTree
<1>8. /\ t[p].pc \in Climbing /\ t'[p].pc \in Climbing /\ t'[p].pc \in {"newroot", "lockparent"}
      /\ t'[p].pc \in Parents => t'[p].pc = "lockparent"
  BY <1>1 DEF Climbing, Parents
<1>9. QED
  BY <1>1, <1>2, <1>3, <1>4, <1>6, <1>7, <1>8, ClimbStep

LEMMA LockParentFacts ==
  ASSUME Core, NEW p \in Threads, LockParent(p)
  PROVE  /\ Alone(p) /\ KeepPlace(p) /\ KeepWork(p) /\ KeepQueue(p) /\ KeepScan(p)
         /\ t[p].pc = "lockparent" /\ t'[p].pc = "checkparent"
         /\ t[p].par \in DOMAIN node /\ ~node[t[p].par].leaf /\ ~node[t[p].par].locked
         /\ SetLock(t[p].par, TRUE)
         /\ UNCHANGED <<root, size_est, op, seen, res, scan, count>>
<1>1. LocalsOK(p) /\ t[p].pc = "lockparent" /\ ~node[t[p].par].locked
  BY LocalFacts DEF Core, LockParent, At
<1>2. Goto(p, "checkparent") /\ node' = [node EXCEPT ![t[p].par].locked = TRUE]
  BY DEF LockParent
<1>3. t[p].par \in DOMAIN node /\ ~node[t[p].par].leaf /\ node \in Seq(Node)
  <2>1. SplitOK(p) /\ Splitting(p) /\ node \in Seq(Node)
    BY <1>1, ClimbFacts DEF Climbing, Parents
  <2>2. QED
    BY <1>1, <2>1 DEF SplitOK, Parents
<1>4. SetLock(t[p].par, TRUE)
  BY <1>2, <1>3, LockEffect
<1>5. UNCHANGED <<root, size_est, op, seen, res, scan, count>>
  BY DEF LockParent, opvars
<1>6. QED
  BY <1>1, <1>2, <1>3, <1>4, <1>5, GotoDoes

LEMMA LockParentCore ==
  ASSUME Core, NEW p \in Threads, LockParent(p)
  PROVE  Core'
<1>1. /\ Alone(p) /\ KeepPlace(p) /\ KeepWork(p) /\ KeepQueue(p) /\ KeepScan(p)
      /\ t[p].pc = "lockparent" /\ t'[p].pc = "checkparent"
      /\ t[p].par \in DOMAIN node /\ ~node[t[p].par].leaf /\ ~node[t[p].par].locked
      /\ SetLock(t[p].par, TRUE)
      /\ UNCHANGED <<root, size_est, op, seen, res>>
  BY LockParentFacts
<1>2. /\ p \in Procs /\ Splitting(p) /\ node \in Seq(Node) /\ ThreadOK(p)
      /\ node[t[p].left].locked /\ node[t[p].right].locked
      /\ t[p].left \in DOMAIN node /\ t[p].right \in DOMAIN node
  BY <1>1, ClimbFacts DEF Climbing, Parents
<1>3. PICK n : n = t[p].par
  OBVIOUS
<1>4. /\ node' \in Seq(Node) /\ DOMAIN node' = DOMAIN node
      /\ \A m \in DOMAIN node : m # n => node'[m] = node[m]
      /\ SameTree(n) /\ node'[n].vals = node[n].vals /\ node'[n].torn = node[n].torn
      /\ node'[n].locked = TRUE
  BY <1>1, <1>3 DEF SetLock
<1>5. \A m \in DOMAIN node : SameTree(m) /\ node'[m].vals = node[m].vals
                             /\ node'[m].torn = node[m].torn
  BY <1>4 DEF SameTree
<1>6. /\ \A m : Owns(p, m)' <=> m \in {t[p].left, t[p].right, n}
      /\ \A m : Owns(p, m) <=> m \in {t[p].left, t[p].right}
  BY <1>1, <1>3 DEF Owns, Splitting, KeepWork, Climbing, Parents, Ending
<1>7. n \notin {t[p].left, t[p].right} /\ n \in DOMAIN node /\ ~node[n].locked /\ ~node[n].leaf
  BY <1>1, <1>2, <1>3
<1>8. LockStep(p)
  BY <1>2, <1>4, <1>6, <1>7 DEF LockStep
<1>9. t[p].pc \in Climbing /\ t'[p].pc \in Climbing /\ t'[p].pc \in Parents
  BY <1>1 DEF Climbing, Parents
<1>10. t'[p].par = n /\ n \in Nat /\ t'[p].left = t[p].left /\ t'[p].right = t[p].right /\ t'[p].sep = t[p].sep
  BY <1>1, <1>2, <1>3 DEF KeepWork, ThreadOK
<1>11. QED
  BY <1>1, <1>4, <1>5, <1>7, <1>8, <1>9, <1>10, ClimbStep

LEMMA CheckParentFacts ==
  ASSUME Core, NEW p \in Threads, CheckParent(p)
  PROVE  /\ Alone(p) /\ KeepPlace(p) /\ KeepWork(p) /\ KeepQueue(p) /\ KeepScan(p)
         /\ t[p].pc = "checkparent"
         /\ UNCHANGED <<root, size_est, op, seen, res, scan, count>>
         /\ \/ SetLock(t[p].par, FALSE) /\ t'[p].pc = "parent"
            \/ /\ node' = node /\ node[t[p].left].parent = t[p].par
               /\ \/ Full(t[p].par) /\ t'[p].pc = "splitparent"
                  \/ ~Full(t[p].par) /\ t'[p].pc = "insertparent"
<1>1. LocalsOK(p) /\ t[p].pc = "checkparent"
  BY LocalFacts DEF Core, CheckParent, At
<1>2. UNCHANGED <<root, size_est, op, seen, res, scan, count>>
  BY DEF CheckParent, opvars
<1>3. t[p].par \in DOMAIN node /\ node \in Seq(Node)
  <2>1. SplitOK(p) /\ Splitting(p) /\ node \in Seq(Node)
    BY <1>1, ClimbFacts DEF Climbing, Parents
  <2>2. QED
    BY <1>1, <2>1 DEF SplitOK, Parents
<1>4. CASE t[p].par # node[t[p].left].parent
  <2>1. Goto(p, "parent") /\ node' = [node EXCEPT ![t[p].par].locked = FALSE]
    BY <1>4 DEF CheckParent
  <2>2. SetLock(t[p].par, FALSE)
    BY <1>3, <2>1, UnlockEffect
  <2>3. QED
    BY <1>1, <1>2, <2>1, <2>2, GotoDoes
<1>5. CASE t[p].par = node[t[p].left].parent
  <2>1. PICK l : Goto(p, l) /\ l = IF Full(t[p].par) THEN "splitparent" ELSE "insertparent"
    BY <1>5 DEF CheckParent
  <2>2. node' = node
    BY <1>5 DEF CheckParent
  <2>3. QED
    BY <1>1, <1>2, <1>5, <2>1, <2>2, GotoDoes
<1>6. QED
  BY <1>4, <1>5

LEMMA CheckParentCore ==
  ASSUME Core, NEW p \in Threads, CheckParent(p)
  PROVE  Core'
<1>1. /\ Alone(p) /\ KeepPlace(p) /\ KeepWork(p) /\ KeepQueue(p) /\ KeepScan(p)
      /\ t[p].pc = "checkparent"
      /\ UNCHANGED <<root, size_est, op, seen, res>>
      /\ \/ SetLock(t[p].par, FALSE) /\ t'[p].pc = "parent"
         \/ /\ node' = node /\ node[t[p].left].parent = t[p].par
            /\ \/ Full(t[p].par) /\ t'[p].pc = "splitparent"
               \/ ~Full(t[p].par) /\ t'[p].pc = "insertparent"
  BY CheckParentFacts
<1>2. /\ p \in Procs /\ Splitting(p) /\ node \in Seq(Node) /\ ThreadOK(p) /\ SplitOK(p)
      /\ node[t[p].left].locked /\ node[t[p].right].locked
      /\ t[p].left \in DOMAIN node /\ t[p].right \in DOMAIN node
  BY <1>1, ClimbFacts DEF Climbing, Parents
<1>3. PICK n : n = t[p].par
  OBVIOUS
<1>4. n \notin {t[p].left, t[p].right} /\ n \in DOMAIN node /\ ~node[n].leaf
  BY <1>1, <1>2, <1>3 DEF SplitOK, Parents
<1>5. /\ node' \in Seq(Node) /\ DOMAIN node' = DOMAIN node
      /\ \A m \in DOMAIN node : /\ SameTree(m) /\ node'[m].vals = node[m].vals
                                /\ node'[m].torn = node[m].torn
                                /\ m # n => node'[m].locked = node[m].locked
  BY <1>1, <1>2, <1>3 DEF SetLock, SameTree
<1>6. \A m : Owns(p, m) <=> m \in {t[p].left, t[p].right, n}
  BY <1>1, <1>3 DEF Owns, Splitting, Climbing, Parents, Ending
<1>7. node[n].locked
  BY <1>2, <1>4, <1>6 DEF Core, LocksOK
<1>8. \A m : Owns(p, m)' <=> m \in {t[p].left, t[p].right} \/ (m = n /\ t'[p].pc # "parent")
  BY <1>1, <1>3 DEF Owns, Splitting, KeepWork, Climbing, Parents, Ending
<1>9. LockStep(p)
  <2>1. node'[n].locked <=> t'[p].pc # "parent"
    BY <1>1, <1>3, <1>7 DEF SetLock
  <2>2. QED
    BY <1>2, <1>4, <1>5, <1>6, <1>8, <2>1 DEF LockStep
<1>10. t[p].pc \in Climbing /\ t'[p].pc \in Climbing /\ (t'[p].pc \in Parents => t'[p].pc \in {"splitparent", "insertparent"})
  BY <1>1 DEF Climbing, Parents
<1>11. t'[p].par = n /\ n \in Nat /\ t'[p].left = t[p].left /\ t'[p].right = t[p].right /\ t'[p].sep = t[p].sep
  BY <1>1, <1>2, <1>3 DEF KeepWork, ThreadOK
<1>12. /\ t'[p].pc # "newroot"
       /\ t'[p].pc \in {"splitparent", "insertparent"} => node[t[p].left].parent = n
       /\ t'[p].pc = "splitparent" => Full(n)
       /\ t'[p].pc = "insertparent" => ~Full(n)
  BY <1>1, <1>3
<1>13. QED
  BY <1>1, <1>4, <1>5, <1>9, <1>10, <1>11, <1>12, ClimbStep

\* What p knows while it lets go of what it holds.
LEMMA EndFacts ==
  ASSUME Core, NEW p \in Threads, t[p].pc \in Ending
  PROVE  /\ p \in Procs /\ LocalsOK(p) /\ ThreadOK(p) /\ OpOK(p) /\ HeldOK(p) /\ SplitOK(p)
         /\ TreeOK /\ node \in Seq(Node)
         /\ Splitting(p) <=> t[p].after = "parent"
         /\ t[p].held \in Seq(Nat) /\ t[p].held # <<>>
         /\ t[p].pc = "bump" => t[p].todo \in Seq(Nat) /\ t[p].todo # <<>>
<1>1. LocalsOK(p) /\ ThreadOK(p)
  BY LocalFacts DEF Core
<1>2. p \in Procs
  BY <1>1 DEF ThreadOK, Threads, AtRoot, AtInner, Reading, Ending
<1>3. OpOK(p) /\ HeldOK(p) /\ SplitOK(p) /\ TreeOK /\ node \in Seq(Node)
  BY <1>2 DEF Core, TypesOK, LocksOK, TreeOK
<1>4. Splitting(p) <=> t[p].after = "parent"
  BY DEF Splitting, Climbing, Parents, Ending
<1>5. /\ t[p].held \in Seq(Nat) /\ t[p].held # <<>>
      /\ t[p].pc = "bump" => t[p].todo \in Seq(Nat) /\ t[p].todo # <<>>
  BY <1>1, <1>3 DEF ThreadOK, HeldOK
<1>6. QED
  BY <1>1, <1>2, <1>3, <1>4, <1>5

LEMMA BumpFacts ==
  ASSUME Core, NEW p \in Threads, Bump(p)
  PROVE  /\ Alone(p) /\ KeepPlace(p) /\ KeepWork(p) /\ KeepScan(p)
         /\ t[p].pc = "bump" /\ t[p].todo \in Seq(Nat) /\ t[p].todo # <<>>
         /\ t'[p].todo = Tail(t[p].todo) /\ t'[p].held = t[p].held /\ t'[p].after = t[p].after
         /\ t'[p].pc = IF Tail(t[p].todo) = <<>> THEN "unlock" ELSE "bump"
         /\ Head(t[p].todo) \in DOMAIN node /\ Owns(p, Head(t[p].todo))
         /\ Splitting(p) => Head(t[p].todo) # t[p].left /\ Head(t[p].todo) # t[p].right
         /\ BumpEffect(Head(t[p].todo))
         /\ UNCHANGED <<root, size_est, op, seen, res, scan, count>>
<1>1. LocalsOK(p) /\ t[p].pc = "bump"
  BY LocalFacts DEF Core, Bump, At
<1>2. /\ p \in Procs /\ HeldOK(p) /\ node \in Seq(Node) /\ t[p].todo \in Seq(Nat) /\ t[p].todo # <<>>
  BY <1>1, EndFacts DEF Ending
<1>3. UNCHANGED <<root, size_est, op, seen, res, scan, count>>
  BY DEF Bump, opvars
<1>4. PICK d : d = t[p].todo
  OBVIOUS
<1>5. PICK h : h = Head(d)
  OBVIOUS
<1>6. h = d[1] /\ 1 \in DOMAIN d /\ (Tail(d) = <<>> <=> Len(d) = 1)
  BY <1>2, <1>4, <1>5, TailFacts
<1>7. PICK j \in DOMAIN t[p].held : h = t[p].held[j]
  BY <1>1, <1>2, <1>4, <1>6 DEF HeldOK
<1>8. /\ h \in DOMAIN node /\ Owns(p, h)
      /\ Splitting(p) => h # t[p].left /\ h # t[p].right
  BY <1>1, <1>2, <1>7 DEF HeldOK, Ending, Owns
<1>9. PICK l : /\ SetTodo(p, l, Tail(d)) /\ l = IF Len(d) = 1 THEN "unlock" ELSE "bump"
  BY <1>4 DEF Bump, SetTodo
<1>10. PICK d2 : d2 = Tail(d)
  OBVIOUS
<1>11. SetTodo(p, l, d2)
  BY <1>9, <1>10
<1>12. /\ Alone(p) /\ t'[p].pc = l /\ t'[p].todo = d2
       /\ t'[p].held = t[p].held /\ t'[p].after = t[p].after
       /\ KeepPlace(p) /\ KeepWork(p) /\ KeepScan(p)
  BY <1>1, <1>11, TodoDoes
<1>13. node' = [node EXCEPT ![h].version = @ + 1, ![h].torn = FALSE]
  BY <1>4, <1>5 DEF Bump
<1>14. BumpEffect(h)
  BY <1>2, <1>8, <1>13, BumpDoes
<1>15. QED
  BY <1>1, <1>2, <1>3, <1>4, <1>5, <1>6, <1>8, <1>9, <1>10, <1>12, <1>14

LEMMA BumpCore ==
  ASSUME Core, NEW p \in Threads, Bump(p)
  PROVE  Core'
<1>1. PICK d : d = t[p].todo
  OBVIOUS
<1>2. PICK h : h = Head(d)
  OBVIOUS
<1>3. /\ Alone(p) /\ KeepPlace(p) /\ KeepWork(p) /\ KeepScan(p)
      /\ t[p].pc = "bump" /\ d \in Seq(Nat) /\ d # <<>>
      /\ t'[p].todo = Tail(d) /\ t'[p].held = t[p].held /\ t'[p].after = t[p].after
      /\ t'[p].pc = IF Tail(d) = <<>> THEN "unlock" ELSE "bump"
      /\ h \in DOMAIN node /\ Owns(p, h)
      /\ Splitting(p) => h # t[p].left /\ h # t[p].right
      /\ BumpEffect(h)
      /\ UNCHANGED <<root, size_est, op, seen, res>>
  BY <1>1, <1>2, BumpFacts
<1>4. /\ p \in Procs /\ ThreadOK(p) /\ OpOK(p) /\ HeldOK(p) /\ SplitOK(p) /\ node \in Seq(Node)
      /\ TreeOK /\ (Splitting(p) <=> t[p].after = "parent")
  BY <1>3, EndFacts DEF Ending
<1>5. /\ h = d[1] /\ Len(d) \in Nat /\ Tail(d) \in Seq(Nat) /\ DOMAIN Tail(d) = 1..(Len(d) - 1)
      /\ \A i \in DOMAIN Tail(d) : i + 1 \in DOMAIN d /\ Tail(d)[i] = d[i + 1]
      /\ DOMAIN d = 1..Len(d)
  BY <1>2, <1>3, TailFacts
<1>6. PICK e : e = Tail(d)
  OBVIOUS
<1>7. /\ node' \in Seq(Node) /\ DOMAIN node' = DOMAIN node
      /\ \A m \in DOMAIN node : m # h => node'[m] = node[m]
      /\ SameTree(h) /\ node'[h].vals = node[h].vals /\ node'[h].locked = node[h].locked
      /\ node'[h].torn = FALSE
  BY <1>3 DEF BumpEffect
<1>8. \A m \in DOMAIN node : /\ SameTree(m) /\ node'[m].vals = node[m].vals
                             /\ node'[m].locked = node[m].locked
  BY <1>7 DEF SameTree
<1>9. Grown
  BY <1>7, <1>8 DEF Grown, SameTree
<1>10. t'[p].pc \in Ending /\ t[p].pc \in Ending
  BY <1>3 DEF Ending
<1>11. Splitting(p)' <=> Splitting(p)
  BY <1>3, <1>10 DEF Splitting, Climbing, Parents, Ending
<1>12. \A m : Owns(p, m)' <=> Owns(p, m)
  BY <1>3, <1>10, <1>11 DEF Owns, KeepWork, Parents, Ending
<1>13. LockStep(p)
  <2>1. \A m : Owns(p, m) => m \in DOMAIN node /\ node[m].locked
    BY <1>4, OwnsNodes DEF Core, LocksOK
  <2>2. QED
    BY <1>7, <1>8, <1>12, <2>1 DEF LockStep
<1>14. TornStep(p)
  <2> SUFFICES ASSUME NEW m \in DOMAIN node', node'[m].torn, Tearing(p, m) PROVE Tearing(p, m)'
    <3>1. \A m \in DOMAIN node' : node'[m].torn => m \in DOMAIN node /\ node[m].torn
      BY <1>7
    <3>2. QED
      BY <3>1 DEF TornStep
  <2>1. m # h
    BY <1>7
  <2>2. CASE Splitting(p) /\ m = t[p].left
    BY <1>3, <1>11, <2>2 DEF Tearing, KeepWork
  <2>3. CASE \E i \in DOMAIN d : m = d[i]
    <3>1. PICK i \in DOMAIN d : m = d[i]
      BY <2>3
    <3>2. i # 1
      BY <1>5, <2>1, <3>1
    <3>3. PICK j : j = i - 1
      OBVIOUS
    <3>4. j \in DOMAIN e /\ e[j] = m
      BY <1>5, <1>6, <3>1, <3>2, <3>3
    <3>5. e # <<>>
      BY <3>4
    <3>6. t'[p].pc = "bump" /\ t'[p].todo = e
      BY <1>3, <1>6, <3>5
    <3>7. QED
      BY <3>4, <3>6 DEF Tearing
  <2>4. QED
    BY <1>1, <2>2, <2>3 DEF Tearing
<1>15. HeldOK(p)'
  <2>1. \A i \in DOMAIN e : \E j \in DOMAIN t[p].held : e[i] = t[p].held[j]
    <3>1. \A i \in DOMAIN d : \E j \in DOMAIN t[p].held : d[i] = t[p].held[j]
      BY <1>1, <1>3, <1>4 DEF HeldOK
    <3>2. QED
      BY <1>5, <1>6, <3>1
  <2>2. t'[p].pc = "bump" => e # <<>>
    BY <1>3, <1>6
  <2>3. t'[p].todo = e /\ t'[p].held = t[p].held
    BY <1>3, <1>6
  <2>4. /\ t[p].held # <<>>
        /\ \A i, j \in DOMAIN t[p].held : t[p].held[i] = t[p].held[j] => i = j
        /\ \A i \in DOMAIN t[p].held :
             /\ t[p].held[i] \in DOMAIN node
             /\ Splitting(p) => t[p].held[i] # t[p].left /\ t[p].held[i] # t[p].right
    BY <1>4, <1>10 DEF HeldOK
  <2>5. t'[p].left = t[p].left /\ t'[p].right = t[p].right
    BY <1>3 DEF KeepWork
  <2>6. /\ t'[p].held # <<>>
        /\ \A i, j \in DOMAIN t'[p].held : t'[p].held[i] = t'[p].held[j] => i = j
        /\ \A i \in DOMAIN t'[p].held :
             /\ t'[p].held[i] \in DOMAIN node'
             /\ Splitting(p)' => t'[p].held[i] # t'[p].left /\ t'[p].held[i] # t'[p].right
    BY <1>7, <1>11, <2>3, <2>4, <2>5
  <2>7. /\ t'[p].pc = "bump" => t'[p].todo # <<>>
        /\ \A i \in DOMAIN t'[p].todo : \E j \in DOMAIN t'[p].held : t'[p].todo[i] = t'[p].held[j]
    BY <2>1, <2>2, <2>3
  <2>8. QED
    BY <1>10, <2>6, <2>7 DEF HeldOK
<1>16. SplitOK(p)'
  <2> SUFFICES ASSUME Splitting(p) PROVE SplitOK(p)'
    BY <1>11 DEF SplitOK
  <2>1. /\ t[p].left \in DOMAIN node /\ t[p].right \in DOMAIN node /\ t[p].left # t[p].right
        /\ node[t[p].left].leaf = node[t[p].right].leaf
        /\ node[t[p].left].torn
        /\ node[t[p].right].parent = Nil
        /\ t[p].right # root /\ t[p].sep \in Keys
    BY <1>4 DEF SplitOK
  <2>2. t'[p].pc \notin Parents \union {"newroot"}
    BY <1>10 DEF Parents, Ending
  <2>3. node'[t[p].left] = node[t[p].left] /\ node'[t[p].right] = node[t[p].right]
    BY <1>3, <1>7, <2>1
  <2>4. t'[p].left = t[p].left /\ t'[p].right = t[p].right /\ t'[p].sep = t[p].sep /\ root' = root
    BY <1>3 DEF KeepWork
  <2>5. QED
    BY <1>7, <2>1, <2>2, <2>3, <2>4 DEF SplitOK, Parents
<1>17. ThreadOK(p)'
  <2>1. /\ t'[p].left \in Nat /\ t'[p].right \in Nat /\ t'[p].sep \in Nat /\ t'[p].par \in Nat
        /\ t'[p].todo \in Seq(Nat) /\ t'[p].held \in Seq(Nat)
        /\ t'[p].after \in {"done", "count", "parent"}
    BY <1>3, <1>4, <1>5 DEF ThreadOK, KeepWork
  <2>2. t'[p].pc \notin {"lockver", "act", "walkver"}
    BY <1>10 DEF Ending
  <2>3. QED
    BY <1>3, <1>4, <1>9, <1>10, <2>1, <2>2, WriterThread
<1>18. t'[p].pc \notin Climbing
  BY <1>10 DEF Climbing, Parents, Ending
<1>19. OpOK(p)' /\ OpsStep(p)
  BY <1>3, <1>4, <1>10, <1>18, OpStays, QuietOps DEF Core
<1>20. \A m \in DOMAIN node : ~Owns(p, m) => node'[m].torn = node[m].torn
  BY <1>3, <1>7
<1>21. \A m \in DOMAIN node : SameTree(m) /\ Len(node'[m].vals) = Len(node[m].vals)
  BY <1>8
<1>22. t'[p].right = t[p].right
  BY <1>3 DEF KeepWork
<1>23. QED
  BY <1>3, <1>4, <1>7, <1>11, <1>13, <1>14, <1>15, <1>16, <1>17, <1>19, <1>20, <1>21, <1>22, WorkStep

LEMMA UnlockFacts ==
  ASSUME Core, NEW p \in Threads, Unlock(p)
  PROVE  /\ Alone(p) /\ KeepPlace(p) /\ KeepWork(p) /\ KeepScan(p)
         /\ t[p].pc = "unlock" /\ t[p].held \in Seq(Nat) /\ t[p].held # <<>>
         /\ t'[p].held = Tail(t[p].held) /\ t'[p].todo = t[p].todo /\ t'[p].after = t[p].after
         /\ t'[p].pc = IF Tail(t[p].held) = <<>> THEN t[p].after ELSE "unlock"
         /\ Head(t[p].held) \in DOMAIN node /\ Owns(p, Head(t[p].held))
         /\ Splitting(p) => Head(t[p].held) # t[p].left /\ Head(t[p].held) # t[p].right
         /\ SetLock(Head(t[p].held), FALSE)
         /\ UNCHANGED <<root, size_est, op, seen, res, scan, count>>
<1>1. LocalsOK(p) /\ t[p].pc = "unlock"
  BY LocalFacts DEF Core, Unlock, At
<1>2. /\ p \in Procs /\ HeldOK(p) /\ node \in Seq(Node) /\ t[p].held \in Seq(Nat) /\ t[p].held # <<>>
  BY <1>1, EndFacts DEF Ending
<1>3. UNCHANGED <<root, size_est, op, seen, res, scan, count>>
  BY DEF Unlock, opvars
<1>4. PICK d : d = t[p].held
  OBVIOUS
<1>5. PICK h : h = Head(d)
  OBVIOUS
<1>6. h = d[1] /\ 1 \in DOMAIN d /\ (Tail(d) = <<>> <=> Len(d) = 1)
  BY <1>2, <1>4, <1>5, TailFacts
<1>7. /\ h \in DOMAIN node /\ Owns(p, h)
      /\ Splitting(p) => h # t[p].left /\ h # t[p].right
  BY <1>1, <1>2, <1>4, <1>6 DEF HeldOK, Ending, Owns
<1>8. PICK l : PopHeld(p, l, Tail(d)) /\ l = IF Len(d) = 1 THEN t[p].after ELSE "unlock"
  BY <1>4 DEF Unlock, PopHeld
<1>9. PICK d2 : d2 = Tail(d)
  OBVIOUS
<1>10. PopHeld(p, l, d2)
  BY <1>8, <1>9
<1>11. /\ Alone(p) /\ t'[p].pc = l /\ t'[p].held = d2
       /\ t'[p].todo = t[p].todo /\ t'[p].after = t[p].after
       /\ KeepPlace(p) /\ KeepWork(p) /\ KeepScan(p)
  BY <1>1, <1>10, HeldDoes
<1>12. node' = [node EXCEPT ![h].locked = FALSE]
  BY <1>4, <1>5 DEF Unlock
<1>13. SetLock(h, FALSE)
  BY <1>2, <1>7, <1>12, UnlockEffect
<1>14. QED
  BY <1>1, <1>2, <1>3, <1>4, <1>5, <1>6, <1>7, <1>8, <1>9, <1>11, <1>13

LEMMA UnlockCore ==
  ASSUME Core, NEW p \in Threads, Unlock(p)
  PROVE  Core'
<1>1. PICK d : d = t[p].held
  OBVIOUS
<1>2. PICK h : h = Head(d)
  OBVIOUS
<1>3. /\ Alone(p) /\ KeepPlace(p) /\ KeepWork(p) /\ KeepScan(p)
      /\ t[p].pc = "unlock" /\ d \in Seq(Nat) /\ d # <<>>
      /\ t'[p].held = Tail(d) /\ t'[p].todo = t[p].todo /\ t'[p].after = t[p].after
      /\ t'[p].pc = IF Tail(d) = <<>> THEN t[p].after ELSE "unlock"
      /\ h \in DOMAIN node /\ Owns(p, h)
      /\ Splitting(p) => h # t[p].left /\ h # t[p].right
      /\ SetLock(h, FALSE)
      /\ UNCHANGED <<root, size_est, op, seen, res>>
  BY <1>1, <1>2, UnlockFacts
<1>4. /\ p \in Procs /\ ThreadOK(p) /\ OpOK(p) /\ HeldOK(p) /\ SplitOK(p) /\ node \in Seq(Node)
      /\ TreeOK /\ (Splitting(p) <=> t[p].after = "parent") /\ t[p].after \in {"done", "count", "parent"}
  BY <1>3, EndFacts DEF Ending, ThreadOK
<1>5. /\ h = d[1] /\ Len(d) \in Nat /\ Tail(d) \in Seq(Nat) /\ DOMAIN Tail(d) = 1..(Len(d) - 1)
      /\ \A i \in DOMAIN Tail(d) : i + 1 \in DOMAIN d /\ Tail(d)[i] = d[i + 1]
      /\ DOMAIN d = 1..Len(d) /\ 1 \in DOMAIN d
      /\ Tail(d) = <<>> <=> Len(d) = 1
  BY <1>2, <1>3, TailFacts
<1>6. PICK e : e = Tail(d)
  OBVIOUS
<1>7. /\ node' \in Seq(Node) /\ DOMAIN node' = DOMAIN node
      /\ \A m \in DOMAIN node : m # h => node'[m] = node[m]
      /\ SameTree(h) /\ node'[h].vals = node[h].vals /\ node'[h].torn = node[h].torn
      /\ node'[h].locked = FALSE
  BY <1>3 DEF SetLock
<1>8. \A m \in DOMAIN node : /\ SameTree(m) /\ node'[m].vals = node[m].vals
                             /\ node'[m].torn = node[m].torn
  BY <1>7 DEF SameTree
<1>9. Grown
  BY <1>7, <1>8 DEF Grown, SameTree
<1>10. /\ t[p].pc \in Ending
       /\ t'[p].pc \in Ending <=> e # <<>>
       /\ t'[p].pc \in Climbing <=> e = <<>> /\ t[p].after = "parent"
       /\ t'[p].pc \in {"unlock", "done", "count", "parent"}
  BY <1>3, <1>4, <1>6 DEF Ending, Climbing, Parents
<1>11. Splitting(p)' <=> Splitting(p)
  BY <1>3, <1>4, <1>10 DEF Splitting
<1>12. \A i, j \in DOMAIN d : d[i] = d[j] => i = j
  BY <1>1, <1>4, <1>10 DEF HeldOK
<1>13. \A m : (\E i \in DOMAIN e : m = e[i]) <=> (\E i \in DOMAIN d : m = d[i]) /\ m # h
  <2>1. ASSUME NEW i \in DOMAIN e PROVE \E j \in DOMAIN d : e[i] = d[j] /\ e[i] # h
    <3>1. PICK j : j = i + 1
      OBVIOUS
    <3>2. j \in DOMAIN d /\ e[i] = d[j] /\ j # 1
      BY <1>5, <1>6, <3>1
    <3>3. QED
      BY <1>5, <1>12, <3>2
  <2>2. ASSUME NEW i \in DOMAIN d, d[i] # h PROVE \E j \in DOMAIN e : e[j] = d[i]
    <3>1. i # 1
      BY <1>5, <2>2
    <3>2. PICK j : j = i - 1
      OBVIOUS
    <3>3. j \in DOMAIN e /\ e[j] = d[i]
      BY <1>5, <1>6, <3>1, <3>2, SMTT(40)
    <3>4. QED
      BY <3>3
  <2>3. QED
    BY <2>1, <2>2
<1>14. e = <<>> <=> ~\E i \in DOMAIN e : TRUE
  BY <1>5, <1>6
<1>15. \A m : Owns(p, m)' <=> Owns(p, m) /\ m # h
  <2>1. t'[p].left = t[p].left /\ t'[p].right = t[p].right /\ t'[p].held = e
    BY <1>3, <1>6 DEF KeepWork
  <2>2. \A m : Owns(p, m)' <=> \/ Splitting(p) /\ m \in {t[p].left, t[p].right}
                               \/ \E i \in DOMAIN e : m = e[i]
    BY <1>10, <1>11, <1>14, <2>1 DEF Owns, Parents
  <2>3. \A m : Owns(p, m) <=> \/ Splitting(p) /\ m \in {t[p].left, t[p].right}
                              \/ \E i \in DOMAIN d : m = d[i]
    BY <1>1, <1>3, <1>10 DEF Owns, Parents
  <2>4. ASSUME NEW m PROVE Owns(p, m)' <=> Owns(p, m) /\ m # h
    <3>1. Splitting(p) => h \notin {t[p].left, t[p].right}
      BY <1>3
    <3>2. (\E i \in DOMAIN e : m = e[i]) <=> (\E i \in DOMAIN d : m = d[i]) /\ m # h
      BY <1>13
    <3>3. QED
      BY <2>2, <2>3, <3>1, <3>2
  <2>5. QED
    BY <2>4
<1>16. LockStep(p)
  <2>1. \A m : Owns(p, m) => m \in DOMAIN node /\ node[m].locked
    BY <1>4, OwnsNodes DEF Core, LocksOK
  <2>2. QED
    BY <1>3, <1>7, <1>15, <2>1 DEF LockStep
<1>17. TornStep(p)
  <2>1. \A m : Tearing(p, m)' <=> Tearing(p, m)
    BY <1>3, <1>10, <1>11 DEF Tearing, KeepWork
  <2>2. QED
    BY <1>7, <1>8, <2>1 DEF TornStep
<1>18. HeldOK(p)'
  <2>1. t'[p].left = t[p].left /\ t'[p].right = t[p].right /\ t'[p].held = e
    BY <1>3, <1>6 DEF KeepWork
  <2>2. \A i \in DOMAIN d :
             /\ d[i] \in DOMAIN node
             /\ Splitting(p) => d[i] # t[p].left /\ d[i] # t[p].right
    BY <1>1, <1>4, <1>10 DEF HeldOK
  <2>3. \A i, j \in DOMAIN e : e[i] = e[j] => i = j
    <3> SUFFICES ASSUME NEW i \in DOMAIN e, NEW j \in DOMAIN e, e[i] = e[j] PROVE i = j
      OBVIOUS
    <3>1. PICK a : a = i + 1
      OBVIOUS
    <3>2. PICK b : b = j + 1
      OBVIOUS
    <3>3. a \in DOMAIN d /\ b \in DOMAIN d /\ d[a] = d[b]
      BY <1>5, <1>6, <3>1, <3>2
    <3>4. a = b
      BY <1>12, <3>3
    <3>5. QED
      BY <1>5, <1>6, <3>1, <3>2, <3>4
  <2>4. \A i \in DOMAIN e :
             /\ e[i] \in DOMAIN node'
             /\ Splitting(p)' => e[i] # t[p].left /\ e[i] # t[p].right
    BY <1>7, <1>11, <1>13, <2>2
  <2>5. t'[p].pc # "bump"
    BY <1>10
  <2>6. t'[p].pc \notin Ending \union Climbing \union {"done", "count"} => FALSE
    BY <1>4, <1>10 DEF Ending, Climbing, Parents
  <2>7. QED
    BY <1>10, <2>1, <2>3, <2>4, <2>5, <2>6 DEF HeldOK
<1>19. SplitOK(p)'
  <2> SUFFICES ASSUME Splitting(p) PROVE SplitOK(p)'
    BY <1>11 DEF SplitOK
  <2>1. /\ t[p].left \in DOMAIN node /\ t[p].right \in DOMAIN node /\ t[p].left # t[p].right
        /\ node[t[p].left].leaf = node[t[p].right].leaf
        /\ node[t[p].left].torn
        /\ node[t[p].right].parent = Nil
        /\ t[p].right # root /\ t[p].sep \in Keys
    BY <1>4 DEF SplitOK
  <2>2. t'[p].pc \notin Parents \union {"newroot"}
    BY <1>10 DEF Parents, Ending
  <2>3. node'[t[p].left] = node[t[p].left] /\ node'[t[p].right] = node[t[p].right]
    BY <1>3, <1>7, <2>1
  <2>4. t'[p].left = t[p].left /\ t'[p].right = t[p].right /\ t'[p].sep = t[p].sep /\ root' = root
    BY <1>3 DEF KeepWork
  <2>5. QED
    BY <1>7, <2>1, <2>2, <2>3, <2>4 DEF SplitOK, Parents
<1>20. ThreadOK(p)'
  <2>1. /\ t'[p].left \in Nat /\ t'[p].right \in Nat /\ t'[p].sep \in Nat /\ t'[p].par \in Nat
        /\ t'[p].todo \in Seq(Nat) /\ t'[p].held \in Seq(Nat)
        /\ t'[p].after \in {"done", "count", "parent"}
    BY <1>3, <1>4, <1>5 DEF ThreadOK, KeepWork
  <2>2. t'[p].pc \notin {"lockver", "act", "walkver"} /\ t'[p].pc \in Climbing \union Ending \union {"done", "count"}
    BY <1>10 DEF Ending, Climbing, Parents
  <2>3. QED
    BY <1>3, <1>4, <1>9, <2>1, <2>2, WriterThread
<1>21. OpOK(p)' /\ OpsStep(p)
  <2>1. t'[p].pc \in Climbing \union Ending \union {"done", "count"}
    BY <1>10 DEF Ending, Climbing, Parents
  <2>2. QED
    BY <1>3, <1>4, <1>10, <2>1, OpStays, QuietOps DEF Core
<1>22. \A m \in DOMAIN node : SameTree(m) /\ Len(node'[m].vals) = Len(node[m].vals)
  BY <1>8
<1>23. t'[p].right = t[p].right
  BY <1>3 DEF KeepWork
<1>24. QED
  BY <1>3, <1>4, <1>7, <1>8, <1>11, <1>16, <1>17, <1>18, <1>19, <1>20, <1>21, <1>22, <1>23, WorkStep

\* The locals of p after ThenBump.
SetBump(p, h, a) ==
  t' = [t EXCEPT ![p].pc = "bump", ![p].todo = h, ![p].held = h, ![p].after = a]

LEMMA BumpQueueDoes ==
  ASSUME NEW p, LocalsOK(p), NEW h, NEW a, SetBump(p, h, a)
  PROVE  /\ Alone(p) /\ t'[p].pc = "bump"
         /\ t'[p].todo = h /\ t'[p].held = h /\ t'[p].after = a
         /\ KeepPlace(p) /\ KeepWork(p) /\ KeepScan(p)
  BY DEF SetBump, LocalsOK, Alone, KeepWork, KeepQueue, KeepScan, KeepPlace, NoOp

\* Three nodes are held, and to be incremented.
LEMMA HoldThree ==
  ASSUME NEW p \in Procs, NEW a \in Nat, NEW b \in Nat, NEW c \in Nat, a # b, a # c, b # c,
         NEW h, h = <<a, b, c>>, t'[p].held = h, t'[p].todo = h,
         t'[p].pc = "bump", t'[p].after = "count",
         a \in DOMAIN node', b \in DOMAIN node', c \in DOMAIN node'
  PROVE  /\ \A m : Owns(p, m)' <=> m \in {a, b, c}
         /\ \A m : Tearing(p, m)' <=> m \in {a, b, c}
         /\ ~Splitting(p)' /\ h \in Seq(Nat) /\ HeldOK(p)' /\ SplitOK(p)'
<1>1. DOMAIN h = {1, 2, 3} /\ h[1] = a /\ h[2] = b /\ h[3] = c /\ h # <<>> /\ h \in Seq(Nat)
  OBVIOUS
<1>2. ~Splitting(p)'
  BY DEF Splitting, Climbing, Parents, Ending
<1>3. \A m : (\E i \in DOMAIN h : m = h[i]) <=> m \in {a, b, c}
  BY <1>1
<1>4. \A m : Owns(p, m)' <=> m \in {a, b, c}
  BY <1>2, <1>3 DEF Owns, Parents, Ending
<1>5. \A m : Tearing(p, m)' <=> m \in {a, b, c}
  BY <1>2, <1>3 DEF Tearing
<1>6. HeldOK(p)'
  <2>1. \A i, j \in DOMAIN h : h[i] = h[j] => i = j
    BY <1>1
  <2>2. \A i \in DOMAIN h : h[i] \in DOMAIN node'
    BY <1>1
  <2>3. t'[p].pc \in Ending
    BY DEF Ending
  <2>4. QED
    BY <1>1, <1>2, <2>1, <2>2, <2>3 DEF HeldOK
<1>7. SplitOK(p)'
  BY <1>2 DEF SplitOK
<1>8. QED
  BY <1>1, <1>2, <1>4, <1>5, <1>6, <1>7

\* The new root is held with the halves it has got.
LEMMA NewRootFacts ==
  ASSUME Core, NEW p \in Threads, NewRoot(p)
  PROVE  /\ Alone(p) /\ KeepPlace(p) /\ KeepWork(p) /\ KeepScan(p)
         /\ t[p].pc = "newroot" /\ t'[p].pc = "bump" /\ t'[p].after = "count"
         /\ t'[p].todo = t'[p].held /\ t'[p].held = <<Len(node) + 1, t[p].left, t[p].right>>
         /\ root' = Len(node) + 1
         /\ GrowEffect(t[p].left, t[p].right, t[p].sep)
         /\ UNCHANGED <<size_est, op, seen, res, count, scan>>
<1>1. LocalsOK(p) /\ t[p].pc = "newroot" /\ UNCHANGED <<size_est, op, seen, res, count, scan>>
      /\ root' = Len(node) + 1
  BY LocalFacts DEF Core, NewRoot, At, opvars
<1>2. PICK h : h = <<Len(node) + 1, t[p].left, t[p].right>>
  OBVIOUS
<1>3. SetBump(p, h, "count")
  BY <1>2 DEF NewRoot, ThenBump, SetBump
<1>4. PICK l : l = t[p].left
  OBVIOUS
<1>5. PICK r : r = t[p].right
  OBVIOUS
<1>6. PICK k : k = t[p].sep
  OBVIOUS
<1>7. l \in DOMAIN node /\ r \in DOMAIN node /\ l # r /\ k \in Keys /\ node \in Seq(Node)
  BY <1>1, <1>4, <1>5, <1>6, ClimbFacts DEF Climbing
<1>8. node' = Append([node EXCEPT ![l].parent = Len(node) + 1, ![r].parent = Len(node) + 1],
                     [Internal(<<k>>, <<l, r>>) EXCEPT !.locked = TRUE])
  BY <1>4, <1>5, <1>6 DEF NewRoot
<1>9. GrowEffect(l, r, k)
  BY <1>7, <1>8, GrowDoes
<1>10. QED
  BY <1>1, <1>2, <1>3, <1>4, <1>5, <1>6, <1>9, BumpQueueDoes

LEMMA NewRootCore ==
  ASSUME Core, NEW p \in Threads, NewRoot(p)
  PROVE  Core'
<1>1. PICK l : l = t[p].left
  OBVIOUS
<1>2. PICK r : r = t[p].right
  OBVIOUS
<1>3. PICK k : k = t[p].sep
  OBVIOUS
<1>4. PICK new : new = Len(node) + 1
  OBVIOUS
<1>5. PICK h : h = <<new, l, r>>
  OBVIOUS
<1>6. /\ Alone(p) /\ KeepPlace(p) /\ KeepWork(p) /\ KeepScan(p)
      /\ t[p].pc = "newroot" /\ t'[p].pc = "bump" /\ t'[p].after = "count"
      /\ t'[p].todo = h /\ t'[p].held = h
      /\ root' = new
      /\ GrowEffect(l, r, k)
      /\ UNCHANGED <<size_est, op, seen, res>>
  BY <1>1, <1>2, <1>3, <1>4, <1>5, NewRootFacts
<1>7. /\ p \in Procs /\ ThreadOK(p) /\ OpOK(p) /\ SplitOK(p)
      /\ Splitting(p) /\ TreeOK /\ node \in Seq(Node)
      /\ l \in DOMAIN node /\ r \in DOMAIN node /\ l # r
      /\ l \in Nat /\ r \in Nat
      /\ node[l].locked /\ node[r].locked /\ k \in Keys
  BY <1>1, <1>2, <1>3, <1>6, ClimbFacts DEF Climbing
<1>8. /\ node' \in Seq(Node) /\ DOMAIN node' = DOMAIN node \union {new}
      /\ new \notin DOMAIN node /\ new \in Nat /\ new # 0
      /\ \A m \in DOMAIN node : m # l /\ m # r => node'[m] = node[m]
      /\ Reparent(l, new) /\ Reparent(r, new)
      /\ node'[new].leaf = FALSE /\ node'[new].keys = <<k>>
      /\ node'[new].kids = <<l, r>> /\ node'[new].parent = Nil
      /\ node'[new].locked = TRUE /\ node'[new].torn = FALSE
  BY <1>4, <1>6 DEF GrowEffect
<1>9. \A m \in DOMAIN node :
        /\ node'[m].leaf = node[m].leaf /\ node'[m].keys = node[m].keys /\ node'[m].vals = node[m].vals
        /\ node'[m].kids = node[m].kids /\ node'[m].next = node[m].next
        /\ node'[m].locked = node[m].locked /\ node'[m].torn = node[m].torn
        /\ m \in {l, r} => node'[m].parent = new
        /\ m \notin {l, r} => node'[m].parent = node[m].parent
  BY <1>8 DEF Reparent
<1>10. /\ \A m : Owns(p, m) <=> m \in {l, r}
       /\ \A m : Tearing(p, m) => m = l
  BY <1>1, <1>2, <1>6, <1>7 DEF Owns, Tearing, Parents, Ending
<1>11. new # l /\ new # r
  BY <1>7, <1>8
<1>12. /\ \A m : Owns(p, m)' <=> m \in {new, l, r}
       /\ \A m : Tearing(p, m)' <=> m \in {new, l, r}
       /\ ~Splitting(p)' /\ h \in Seq(Nat) /\ HeldOK(p)' /\ SplitOK(p)'
  BY <1>5, <1>6, <1>7, <1>8, <1>11, HoldThree
<1>13. Grown
  BY <1>8, <1>9 DEF Grown
<1>14. LockStep(p)
  BY <1>7, <1>8, <1>9, <1>10, <1>12, SMTT(40) DEF LockStep
<1>15. TornStep(p)
  BY <1>8, <1>9, <1>10, <1>12 DEF TornStep
<1>16. Respect(p)
  BY <1>6, <1>8, <1>9, <1>10 DEF Respect
<1>17. TreeOK'
  <2>1. Formed(new)'
    <3>1. PICK ks : ks = <<k>>
      OBVIOUS
    <3>2. PICK cs : cs = <<l, r>>
      OBVIOUS
    <3>3. Len(ks) = 1 /\ Len(cs) = Len(ks) + 1 /\ DOMAIN cs = {1, 2} /\ cs[1] = l /\ cs[2] = r
      BY <3>1, <3>2
    <3>4. Len(ks) \in 1..Capacity
      BY <3>3, CapacityAssumption
    <3>5. \A i \in DOMAIN cs : cs[i] \in DOMAIN node'
      BY <1>7, <1>8, <3>3
    <3>6. QED
      BY <1>8, <3>1, <3>2, <3>3, <3>4, <3>5 DEF Formed
  <2>2. ASSUME NEW m \in DOMAIN node PROVE Formed(m)'
    <3>1. Formed(m)
      BY <1>7 DEF TreeOK
    <3>2. node'[m].parent # Nil => node'[m].parent \in DOMAIN node' /\ ~node'[node'[m].parent].leaf
      BY <1>8, <1>9, <3>1 DEF Formed
    <3>3. /\ node'[m].leaf = node[m].leaf /\ node'[m].keys = node[m].keys /\ node'[m].vals = node[m].vals
          /\ node'[m].kids = node[m].kids /\ node'[m].next = node[m].next
      BY <1>9
    <3>4. node[m].leaf /\ node[m].next # Nil => node[m].next \in DOMAIN node' /\ node'[node[m].next].leaf
      BY <1>8, <1>9, <3>1 DEF Formed
    <3>5. QED
      BY <1>8, <3>1, <3>2, <3>3, <3>4 DEF Formed
  <2>3. root' \in DOMAIN node' /\ size_est' \in Nat
    BY <1>6, <1>7, <1>8 DEF TreeOK
  <2>4. QED
    BY <1>8, <2>1, <2>2, <2>3 DEF TreeOK
<1>18. ThreadOK(p)'
  <2>1. /\ t'[p].left \in Nat /\ t'[p].right \in Nat /\ t'[p].par \in Nat /\ t'[p].sep \in Nat
        /\ t'[p].todo \in Seq(Nat) /\ t'[p].held \in Seq(Nat)
        /\ t'[p].after \in {"done", "count", "parent"}
    BY <1>6, <1>7, <1>12 DEF ThreadOK, KeepWork
  <2>2. t'[p].pc \in Ending /\ t'[p].pc \notin {"lockver", "act", "walkver"}
    BY <1>6 DEF Ending
  <2>3. QED
    BY <1>6, <1>7, <1>13, <2>1, <2>2, WriterThread
<1>19. OpsStep(p) /\ OpOK(p)'
  <2>1. t[p].pc \in Climbing /\ t'[p].pc \in Ending /\ t'[p].pc \notin Climbing /\ t'[p].after # "parent"
    BY <1>6 DEF Climbing, Parents, Ending
  <2>2. QED
    BY <1>6, <1>7, <2>1, OpStays, QuietOps DEF Core
<1>20. ShapeOK'
  <2>1. ShapeOK
    BY DEF Core
  <2>2. node[l].parent = Nil /\ node[r].parent = Nil
    BY <1>1, <1>2, <1>6, <1>7 DEF SplitOK
  <2>3. l = root
    <3> SUFFICES ASSUME NEW q \in Procs, Splitting(q), l = t[q].right PROVE FALSE
      BY <1>7, <2>1, <2>2 DEF ShapeOK
    <3>1. Owns(q, l) /\ Owns(p, l)
      BY <1>10 DEF Owns
    <3>2. q = p
      BY <1>7, <3>1 DEF Core, LocksOK
    <3>3. QED
      BY <1>2, <1>7, <3>2
  <2>4. ASSUME NEW m \in DOMAIN node' \ Leaves'
        PROVE  /\ \A a \in DOMAIN node'[m].kids : node'[node'[m].kids[a]].parent = m
               /\ \A a, b \in DOMAIN node'[m].kids : node'[m].kids[a] = node'[m].kids[b] => a = b
    <3>1. CASE m = new
      <4>1. PICK cs : cs = <<l, r>>
        OBVIOUS
      <4>2. DOMAIN cs = {1, 2} /\ cs[1] = l /\ cs[2] = r
        BY <4>1
      <4>3. node'[m].kids = cs
        BY <1>8, <3>1, <4>1
      <4>4. QED
        BY <1>7, <1>9, <3>1, <4>2, <4>3
    <3>2. CASE m # new
      <4>1. m \in DOMAIN node \ Leaves /\ node'[m].kids = node[m].kids
        BY <1>8, <1>9, <3>2 DEF Leaves
      <4>2. \A a \in DOMAIN node[m].kids : node[m].kids[a] \in DOMAIN node
        BY <1>7, <4>1 DEF TreeOK, Formed, Leaves
      <4>3. m # Nil
        BY <1>7, <4>1, NodeFacts DEF Nil
      <4>4. \A a \in DOMAIN node[m].kids : node[node[m].kids[a]].parent = m
        BY <2>1, <4>1 DEF ShapeOK
      <4>5. \A a \in DOMAIN node[m].kids : node'[node[m].kids[a]].parent = m
        BY <1>9, <2>2, <4>2, <4>3, <4>4
      <4>6. QED
        BY <2>1, <4>1, <4>5 DEF ShapeOK
    <3>3. QED
      BY <3>1, <3>2
  <2>5. node'[root'].parent = Nil
    BY <1>6, <1>8
  <2>6. \A m \in DOMAIN node' : node'[m].parent # m
    <3> SUFFICES ASSUME NEW m \in DOMAIN node' PROVE node'[m].parent # m
      OBVIOUS
    <3>1. CASE m = new
      BY <1>8, <3>1 DEF Nil
    <3>2. CASE m # new
      BY <1>8, <1>9, <2>1, <3>2 DEF ShapeOK
    <3>3. QED
      BY <3>1, <3>2
  <2>7. ASSUME NEW m \in DOMAIN node', node'[m].parent = Nil
        PROVE  m = root' \/ \E q \in Procs : Splitting(q)' /\ m = t'[q].right
    <3> SUFFICES ASSUME m # new PROVE \E q \in Procs : Splitting(q)' /\ m = t'[q].right
      BY <1>6
    <3>1. m \in DOMAIN node /\ m \notin {l, r} /\ node[m].parent = Nil
      BY <1>8, <1>9, <2>7 DEF Nil
    <3>2. PICK q \in Procs : Splitting(q) /\ m = t[q].right
      BY <2>1, <2>3, <3>1 DEF ShapeOK
    <3>3. q # p
      BY <1>2, <3>1, <3>2
    <3>4. Splitting(q)' /\ t'[q] = t[q]
      BY <1>6, <3>2, <3>3, OthersOwn DEF Alone, Threads
    <3>5. QED
      BY <3>2, <3>4
  <2>8. QED
    BY <2>4, <2>5, <2>6, <2>7 DEF ShapeOK
<1>21. QED
  BY <1>6, <1>7, <1>12, <1>13, <1>14, <1>15, <1>16, <1>17, <1>18, <1>19, <1>20, GrowStep

\* The parent p has locked to hang the right half into.
LEMMA HangingFacts ==
  ASSUME Core, NEW p \in Threads, t[p].pc \in {"splitparent", "insertparent"},
         NEW l, l = t[p].left, NEW r, r = t[p].right, NEW q, q = t[p].par
  PROVE  /\ q \in DOMAIN node /\ ~node[q].leaf /\ q \notin {l, r} /\ q \in Nat /\ q # 0
         /\ node[l].parent = q /\ node[r].parent = Nil /\ node[q].locked
         /\ \A m : Owns(p, m) <=> m \in {q, l, r}
         /\ \A m : Tearing(p, m) <=> m = l
         /\ \A i \in DOMAIN node[q].kids : node[q].kids[i] # r
<1>1. t[p].pc \in Climbing /\ t[p].pc \in Parents \ {"lockparent"} /\ t[p].pc \notin Ending
      /\ t[p].pc \notin {"lockver", "act", "bump"}
  BY DEF Climbing, Parents, Ending
<1>2. p \in Procs /\ SplitOK(p) /\ Splitting(p) /\ node \in Seq(Node)
  BY <1>1, ClimbFacts
<1>3. /\ q \in DOMAIN node /\ ~node[q].leaf /\ q \notin {l, r} /\ node[l].parent = q
      /\ node[r].parent = Nil
  BY <1>1, <1>2 DEF SplitOK
<1>4. q \in Nat /\ q # 0
  BY <1>2, <1>3, NodeFacts
<1>5. /\ \A m : Owns(p, m) <=> m \in {q, l, r}
      /\ \A m : Tearing(p, m) <=> m = l
  BY <1>1, <1>2 DEF Owns, Tearing
<1>6. node[q].locked
  BY <1>2, <1>3, <1>5 DEF Core, LocksOK
<1>7. \A i \in DOMAIN node[q].kids : node[q].kids[i] # r
  <2>1. \A i \in DOMAIN node[q].kids : node[node[q].kids[i]].parent = q
    BY <1>3 DEF Core, ShapeOK, Leaves
  <2>2. QED
    BY <1>3, <1>4, <2>1 DEF Nil
<1>8. QED
  BY <1>3, <1>4, <1>5, <1>6, <1>7

\* The keys and children of q with k and r in their slots.
HungAt(q, r, k, i, j, ks, cs) ==
  /\ i = SlotAfter(q, k) + 1 /\ j = i + 1
  /\ i \in 1..(Len(node[q].keys) + 1) /\ j \in 1..(Len(node[q].kids) + 1)
  /\ Inserted(Keys, node[q].keys, i, k, ks) /\ Inserted(Nat, node[q].kids, j, r, cs)

LEMMA HungFacts ==
  ASSUME TreeOK, NEW q \in DOMAIN node, ~node[q].leaf, NEW r \in Nat, NEW k \in Keys,
         NEW i, i = SlotAfter(q, k) + 1, NEW j, j = SlotAfter(q, k) + 2,
         NEW ks, ks = InsertAt(node[q].keys, i, k), NEW cs, cs = InsertAt(node[q].kids, j, r)
  PROVE  HungAt(q, r, k, i, j, ks, cs)
<1>1. node[q].keys \in Seq(Keys) /\ node[q].kids \in Seq(Nat)
  BY NodeFacts DEF TreeOK
<1>2. Len(node[q].kids) = Len(node[q].keys) + 1 /\ SlotAfter(q, k) \in 0..Len(node[q].keys) /\ Len(node[q].keys) \in Nat
  BY KidsFacts, SlotBound
<1>3. i \in 1..(Len(node[q].keys) + 1) /\ j \in 1..(Len(node[q].kids) + 1) /\ j = i + 1
  BY <1>2
<1>4. Inserted(Keys, node[q].keys, i, k, ks)
  BY <1>1, <1>3, InsertFacts
<1>5. Inserted(Nat, node[q].kids, j, r, cs)
  BY <1>1, <1>3, InsertFacts
<1>6. QED
  BY <1>3, <1>4, <1>5 DEF HungAt

\* The right half hangs in q, which has got ks and cs.
Hung(q, r, ks, cs) ==
  /\ node' \in Seq(Node) /\ DOMAIN node' = DOMAIN node
  /\ \A m \in DOMAIN node : m # q /\ m # r => node'[m] = node[m]
  /\ Reparent(r, q)
  /\ node'[q].keys = ks /\ node'[q].kids = cs
  /\ node'[q].leaf = node[q].leaf /\ node'[q].vals = node[q].vals
  /\ node'[q].next = node[q].next /\ node'[q].parent = node[q].parent
  /\ node'[q].locked = node[q].locked /\ node'[q].version = node[q].version
  /\ node'[q].torn = TRUE

LEMMA InsertParentFacts ==
  ASSUME Core, NEW p \in Threads, InsertParent(p)
  PROVE  /\ Alone(p) /\ KeepPlace(p) /\ KeepWork(p) /\ KeepScan(p)
         /\ t[p].pc = "insertparent" /\ t'[p].pc = "bump" /\ t'[p].after = "count"
         /\ t'[p].todo = t'[p].held /\ t'[p].held = <<t[p].par, t[p].left, t[p].right>>
         /\ \E i, j, ks, cs : /\ HungAt(t[p].par, t[p].right, t[p].sep, i, j, ks, cs)
                              /\ Hung(t[p].par, t[p].right, ks, cs)
         /\ UNCHANGED <<root, size_est, op, seen, res, count, scan>>
<1>1. LocalsOK(p) /\ t[p].pc = "insertparent" /\ UNCHANGED <<root, size_est, op, seen, res, count, scan>>
  BY LocalFacts DEF Core, InsertParent, At, opvars
<1>2. PICK h : h = <<t[p].par, t[p].left, t[p].right>>
  OBVIOUS
<1>3. SetBump(p, h, "count")
  BY <1>2 DEF InsertParent, ThenBump, SetBump
<1>4. PICK q : q = t[p].par
  OBVIOUS
<1>5. PICK r : r = t[p].right
  OBVIOUS
<1>6. PICK k : k = t[p].sep
  OBVIOUS
<1>7. PICK i : i = SlotAfter(q, k) + 1
  OBVIOUS
<1>8. PICK j : j = SlotAfter(q, k) + 2
  OBVIOUS
<1>9. PICK ks : ks = InsertAt(node[q].keys, i, k)
  OBVIOUS
<1>10. PICK cs : cs = InsertAt(node[q].kids, j, r)
  OBVIOUS
<1>11. q \in DOMAIN node /\ ~node[q].leaf /\ q # r /\ r \in DOMAIN node /\ r \in Nat /\ k \in Keys /\ TreeOK /\ node \in Seq(Node)
  BY <1>1, <1>4, <1>5, <1>6, HangingFacts, ClimbFacts DEF Climbing, Parents
<1>12. HungAt(q, r, k, i, j, ks, cs)
  BY <1>7, <1>8, <1>9, <1>10, <1>11, HungFacts
<1>13. ks \in Seq(Keys) /\ cs \in Seq(Nat) /\ j = i + 1
  BY <1>12 DEF HungAt, Inserted
<1>14. node' = [node EXCEPT ![q].keys = InsertAt(@, i, k), ![q].kids = InsertAt(@, j, r),
                            ![q].torn = TRUE, ![r].parent = q]
  BY <1>4, <1>5, <1>6, <1>7, <1>8, Zenon DEF InsertParent
<1>15. HangEffect(q, r, i, k)
  BY <1>9, <1>10, <1>11, <1>13, <1>14, HangDoes
<1>16. Hung(q, r, ks, cs)
  BY <1>9, <1>10, <1>13, <1>15 DEF HangEffect, Hung
<1>17. QED
  BY <1>1, <1>2, <1>3, <1>4, <1>5, <1>6, <1>12, <1>16, BumpQueueDoes

LEMMA InsertParentCore ==
  ASSUME Core, NEW p \in Threads, InsertParent(p)
  PROVE  Core'
<1>1. PICK l : l = t[p].left
  OBVIOUS
<1>2. PICK r : r = t[p].right
  OBVIOUS
<1>3. PICK k : k = t[p].sep
  OBVIOUS
<1>4. PICK q : q = t[p].par
  OBVIOUS
<1>5. PICK h : h = <<q, l, r>>
  OBVIOUS
<1>6. /\ Alone(p) /\ KeepPlace(p) /\ KeepWork(p) /\ KeepScan(p)
      /\ t[p].pc = "insertparent" /\ t'[p].pc = "bump" /\ t'[p].after = "count"
      /\ t'[p].todo = h /\ t'[p].held = h
      /\ UNCHANGED <<root, size_est, op, seen, res>>
  BY <1>1, <1>2, <1>4, <1>5, InsertParentFacts
<1>7. PICK i, j, ks, cs : HungAt(q, r, k, i, j, ks, cs) /\ Hung(q, r, ks, cs)
  BY <1>2, <1>3, <1>4, InsertParentFacts
<1>8. /\ p \in Procs /\ ThreadOK(p) /\ OpOK(p) /\ SplitOK(p)
      /\ Splitting(p) /\ TreeOK /\ node \in Seq(Node)
      /\ l \in DOMAIN node /\ r \in DOMAIN node /\ l # r
      /\ l \in Nat /\ r \in Nat
      /\ node[l].locked /\ node[r].locked /\ k \in Keys
  BY <1>1, <1>2, <1>3, <1>6, ClimbFacts DEF Climbing, Parents
<1>9. /\ q \in DOMAIN node /\ ~node[q].leaf /\ q \notin {l, r} /\ q \in Nat /\ q # 0
      /\ node[l].parent = q /\ node[r].parent = Nil /\ node[q].locked
      /\ \A m : Owns(p, m) <=> m \in {q, l, r}
      /\ \A m : Tearing(p, m) <=> m = l
      /\ \A a \in DOMAIN node[q].kids : node[q].kids[a] # r
  BY <1>1, <1>2, <1>4, <1>6, HangingFacts
<1>10. /\ node' \in Seq(Node) /\ DOMAIN node' = DOMAIN node
       /\ \A m \in DOMAIN node : m # q /\ m # r => node'[m] = node[m]
       /\ Reparent(r, q)
       /\ node'[q].keys = ks /\ node'[q].kids = cs
       /\ node'[q].leaf = node[q].leaf /\ node'[q].vals = node[q].vals
       /\ node'[q].next = node[q].next /\ node'[q].parent = node[q].parent
       /\ node'[q].locked = node[q].locked /\ node'[q].torn = TRUE
  BY <1>7 DEF Hung
<1>11. \A m \in DOMAIN node :
        /\ node'[m].leaf = node[m].leaf /\ node'[m].vals = node[m].vals
        /\ node'[m].next = node[m].next /\ node'[m].locked = node[m].locked
        /\ m # q => node'[m].keys = node[m].keys /\ node'[m].kids = node[m].kids
                    /\ node'[m].torn = node[m].torn
        /\ m = r => node'[m].parent = q
        /\ m # r => node'[m].parent = node[m].parent
  BY <1>9, <1>10 DEF Reparent
<1>12. /\ \A m : Owns(p, m)' <=> m \in {q, l, r}
       /\ \A m : Tearing(p, m)' <=> m \in {q, l, r}
       /\ ~Splitting(p)' /\ h \in Seq(Nat) /\ HeldOK(p)' /\ SplitOK(p)'
  <2>1. /\ q # l /\ q # r /\ l # r /\ q \in Nat /\ l \in Nat /\ r \in Nat /\ p \in Procs
        /\ q \in DOMAIN node' /\ l \in DOMAIN node' /\ r \in DOMAIN node'
    BY <1>8, <1>9, <1>10
  <2>2. QED
    BY <1>5, <1>6, <2>1, HoldThree
<1>13. Grown
  BY <1>10, <1>11 DEF Grown
<1>14. LockStep(p)
  BY <1>8, <1>9, <1>10, <1>11, <1>12 DEF LockStep
<1>15. TornStep(p)
  BY <1>9, <1>10, <1>11, <1>12 DEF TornStep
<1>16. Respect(p)
  BY <1>6, <1>9, <1>10, <1>11 DEF Respect
<1>17. /\ Len(ks) = Len(node[q].keys) + 1 /\ Len(cs) = Len(node[q].kids) + 1
       /\ ks \in Seq(Keys) /\ cs \in Seq(Nat)
       /\ j \in 1..(Len(node[q].kids) + 1) /\ Inserted(Nat, node[q].kids, j, r, cs)
  BY <1>7 DEF HungAt, Inserted
<1>18. /\ \A b \in DOMAIN node[q].kids : node[q].kids[b] \in DOMAIN node
       /\ Len(node[q].keys) \in 1..Capacity /\ Len(node[q].kids) = Len(node[q].keys) + 1
       /\ node[q].kids \in Seq(Nat)
  BY <1>8, <1>9, KidsFacts, NodeFacts
<1>19. /\ \A a \in DOMAIN cs : cs[a] = r \/ \E b \in DOMAIN node[q].kids : cs[a] = node[q].kids[b]
       /\ \A a, b \in DOMAIN cs : cs[a] = cs[b] => a = b
  <2>1. PICK s : s = node[q].kids
    OBVIOUS
  <2>2. /\ s \in Seq(Nat) /\ j \in 1..(Len(s) + 1) /\ Inserted(Nat, s, j, r, cs)
        /\ \A a \in DOMAIN s : s[a] # r
    BY <1>9, <1>17, <1>18, <2>1
  <2>3. \A a, b \in DOMAIN s : s[a] = s[b] => a = b
    BY <1>9, <2>1 DEF Core, ShapeOK, Leaves
  <2>4. \A a, b \in DOMAIN cs : cs[a] = cs[b] => a = b
    BY <2>2, <2>3, InsertedOnce
  <2>5. \A a \in DOMAIN cs : cs[a] = r \/ \E b \in DOMAIN s : cs[a] = s[b]
    <3>1. /\ DOMAIN cs = 1..(Len(s) + 1) /\ DOMAIN s = 1..Len(s) /\ Len(s) \in Nat /\ cs[j] = r
          /\ \A a \in DOMAIN cs : a # j =>
               /\ a < j => a \in DOMAIN s /\ cs[a] = s[a]
               /\ a > j => a - 1 \in DOMAIN s /\ cs[a] = s[a - 1]
               /\ \E b \in DOMAIN s : cs[a] = s[b]
      BY <2>2, InsertedFrom
    <3>2. QED
      BY <3>1
  <2>6. QED
    BY <2>1, <2>4, <2>5
<1>20. TreeOK'
  <2>1. Formed(q)'
    <3>1. Formed(q) /\ Capacity \in Nat
      BY <1>8, <1>9, KeyFacts DEF TreeOK
    <3>2. ~Full(q)
      BY <1>4, <1>6, <1>8 DEF SplitOK
    <3>3. Len(ks) \in 1..Capacity /\ Len(cs) = Len(ks) + 1
      BY <1>17, <1>18, <3>1, <3>2, SMTT(40) DEF Full
    <3>4. \A a \in DOMAIN cs : cs[a] \in DOMAIN node'
      BY <1>8, <1>10, <1>18, <1>19
    <3>5. node'[q].parent # Nil => node'[q].parent \in DOMAIN node' /\ ~node'[node'[q].parent].leaf
      BY <1>10, <1>11, <3>1 DEF Formed
    <3>6. QED
      BY <1>9, <1>10, <3>3, <3>4, <3>5 DEF Formed
  <2>2. ASSUME NEW m \in DOMAIN node, m # q PROVE Formed(m)'
    <3>1. Formed(m)
      BY <1>8 DEF TreeOK
    <3>2. node'[m].parent # Nil => node'[m].parent \in DOMAIN node' /\ ~node'[node'[m].parent].leaf
      BY <1>9, <1>10, <1>11, <3>1 DEF Formed
    <3>3. /\ node'[m].leaf = node[m].leaf /\ node'[m].keys = node[m].keys /\ node'[m].vals = node[m].vals
          /\ node'[m].kids = node[m].kids /\ node'[m].next = node[m].next
      BY <1>11, <2>2
    <3>4. node[m].leaf /\ node[m].next # Nil => node[m].next \in DOMAIN node' /\ node'[node[m].next].leaf
      BY <1>10, <1>11, <3>1 DEF Formed
    <3>5. QED
      BY <1>10, <3>1, <3>2, <3>3, <3>4 DEF Formed
  <2>3. root' \in DOMAIN node' /\ size_est' \in Nat
    BY <1>6, <1>8, <1>10 DEF TreeOK
  <2>4. QED
    BY <1>10, <2>1, <2>2, <2>3 DEF TreeOK
<1>21. ThreadOK(p)'
  <2>1. /\ t'[p].left \in Nat /\ t'[p].right \in Nat /\ t'[p].par \in Nat /\ t'[p].sep \in Nat
        /\ t'[p].todo \in Seq(Nat) /\ t'[p].held \in Seq(Nat)
        /\ t'[p].after \in {"done", "count", "parent"}
    BY <1>6, <1>8, <1>12 DEF ThreadOK, KeepWork
  <2>2. t'[p].pc \in Ending /\ t'[p].pc \notin {"lockver", "act", "walkver"}
    BY <1>6 DEF Ending
  <2>3. QED
    BY <1>6, <1>8, <1>13, <2>1, <2>2, WriterThread
<1>22. OpsStep(p) /\ OpOK(p)'
  <2>1. t[p].pc \in Climbing /\ t'[p].pc \in Ending /\ t'[p].pc \notin Climbing /\ t'[p].after # "parent"
    BY <1>6 DEF Climbing, Parents, Ending
  <2>2. QED
    BY <1>6, <1>8, <2>1, OpStays, QuietOps DEF Core
<1>23. ShapeOK'
  <2>1. ShapeOK /\ root \in DOMAIN node /\ r # root
    BY <1>2, <1>8 DEF Core, SplitOK, TreeOK
  <2>2. ASSUME NEW m \in DOMAIN node' \ Leaves'
        PROVE  /\ \A a \in DOMAIN node'[m].kids : node'[node'[m].kids[a]].parent = m
               /\ \A a, b \in DOMAIN node'[m].kids : node'[m].kids[a] = node'[m].kids[b] => a = b
    <3>0. m \in DOMAIN node \ Leaves
      BY <1>10, <1>11 DEF Leaves
    <3>1. /\ \A a \in DOMAIN node[m].kids : node[m].kids[a] \in DOMAIN node
          /\ \A a \in DOMAIN node[m].kids : node[node[m].kids[a]].parent = m
      BY <1>8, <2>1, <3>0 DEF TreeOK, Formed, Leaves, ShapeOK
    <3>2. m # Nil
      BY <1>8, <3>0, NodeFacts DEF Nil
    <3>3. \A a \in DOMAIN node[m].kids : node[m].kids[a] # r
      BY <1>9, <3>1, <3>2
    <3>4. \A a \in DOMAIN node[m].kids : node'[node[m].kids[a]].parent = m
      BY <1>11, <3>1, <3>3
    <3>5. CASE m = q
      <4>1. node'[m].kids = cs
        BY <1>10, <3>5
      <4>2. node'[r].parent = q
        BY <1>8, <1>11
      <4>3. \A a \in DOMAIN cs : node'[cs[a]].parent = q
        BY <1>19, <3>4, <3>5, <4>2
      <4>4. QED
        BY <1>19, <3>5, <4>1, <4>3
    <3>6. CASE m # q
      <4>1. node'[m].kids = node[m].kids
        BY <1>11, <3>0, <3>6
      <4>2. QED
        BY <2>1, <3>0, <3>4, <4>1 DEF ShapeOK
    <3>7. QED
      BY <3>5, <3>6
  <2>3. node'[root'].parent = Nil
    BY <1>6, <1>11, <2>1 DEF ShapeOK
  <2>4. \A m \in DOMAIN node' : node'[m].parent # m
    <3> SUFFICES ASSUME NEW m \in DOMAIN node' PROVE node'[m].parent # m
      OBVIOUS
    <3>1. CASE m = r
      BY <1>8, <1>9, <1>11, <3>1
    <3>2. CASE m # r
      BY <1>10, <1>11, <2>1, <3>2 DEF ShapeOK
    <3>3. QED
      BY <3>1, <3>2
  <2>5. ASSUME NEW m \in DOMAIN node', node'[m].parent = Nil
        PROVE  m = root' \/ \E s \in Procs : Splitting(s)' /\ m = t'[s].right
    <3>1. m \in DOMAIN node /\ m # r /\ node[m].parent = Nil
      BY <1>9, <1>10, <1>11, <2>5 DEF Nil
    <3> SUFFICES ASSUME m # root PROVE \E s \in Procs : Splitting(s)' /\ m = t'[s].right
      BY <1>6
    <3>2. PICK s \in Procs : Splitting(s) /\ m = t[s].right
      BY <2>1, <3>1 DEF ShapeOK
    <3>3. s # p
      BY <1>2, <3>1, <3>2
    <3>4. Splitting(s)' /\ t'[s] = t[s]
      BY <1>6, <3>2, <3>3, OthersOwn DEF Alone, Threads
    <3>5. QED
      BY <3>2, <3>4
  <2>6. QED
    BY <2>2, <2>3, <2>4, <2>5 DEF ShapeOK
<1>24. QED
  BY <1>6, <1>8, <1>12, <1>13, <1>14, <1>15, <1>16, <1>20, <1>21, <1>22, <1>23, GrowStep

LEMMA InternalCutBound ==
  ASSUME NEW slot \in 0..Capacity
  PROVE  InternalCut(slot) \in 1..(Capacity - 1) /\ InternalCut(slot) \in Nat
<1>1. PICK half : half = Capacity \div 2
  OBVIOUS
<1>2. half \in Nat /\ Capacity = 2 * half + 1 /\ half >= 1
  BY <1>1, CapacityAssumption
<1>3. PICK mid : mid = IF slot = Capacity THEN Capacity - 1
                       ELSE IF slot < half /\ half > Capacity - (half + 1) THEN half - 1
                       ELSE half
  OBVIOUS
<1>4. PICK cut : cut = IF slot >= mid THEN mid ELSE mid + 1
  OBVIOUS
<1>5. cut \in 1..(Capacity - 1) /\ cut \in Nat
  BY <1>2, <1>3, <1>4
<1>6. InternalCut(slot) = cut
  BY <1>1, <1>3, <1>4 DEF InternalCut
<1>7. QED
  BY <1>5, <1>6

\* The parts of a sequence without repetitions have none in common.
LEMMA CutOnce ==
  ASSUME NEW S, NEW u \in Seq(S), NEW c \in 1..Len(u), NEW a, NEW b, CutAt(S, u, c, a, b),
         \A i, j \in DOMAIN u : u[i] = u[j] => i = j
  PROVE  /\ DOMAIN a = 1..c /\ DOMAIN b = 1..(Len(u) - c) /\ Len(u) \in Nat
         /\ \A i \in DOMAIN a : \E m \in DOMAIN u : a[i] = u[m]
         /\ \A i \in DOMAIN b : \E m \in DOMAIN u : b[i] = u[m]
         /\ \A i, j \in DOMAIN a : a[i] = a[j] => i = j
         /\ \A i, j \in DOMAIN b : b[i] = b[j] => i = j
         /\ \A i \in DOMAIN a, j \in DOMAIN b : a[i] # b[j]
<1>1. /\ a \in Seq(S) /\ Len(a) = c /\ \A j \in 1..c : a[j] = u[j]
      /\ b \in Seq(S) /\ Len(b) = Len(u) - c /\ \A j \in 1..(Len(u) - c) : b[j] = u[c + j]
  BY DEF CutAt
<1>2. DOMAIN a = 1..c /\ DOMAIN b = 1..(Len(u) - c) /\ Len(u) \in Nat /\ DOMAIN u = 1..Len(u)
  BY <1>1
<1>3. \A i \in DOMAIN a : i \in DOMAIN u /\ a[i] = u[i]
  BY <1>1, <1>2
<1>4. \A i \in DOMAIN b : c + i \in DOMAIN u /\ b[i] = u[c + i]
  BY <1>1, <1>2
<1>5. \A i, j \in DOMAIN a : a[i] = a[j] => i = j
  BY <1>3
<1>6. ASSUME NEW i \in DOMAIN b, NEW j \in DOMAIN b, b[i] = b[j] PROVE i = j
  <2>1. PICK x : x = c + i
    OBVIOUS
  <2>2. PICK y : y = c + j
    OBVIOUS
  <2>3. x = y
    BY <1>4, <1>6, <2>1, <2>2
  <2>4. QED
    BY <1>2, <2>1, <2>2, <2>3
<1>7. ASSUME NEW i \in DOMAIN a, NEW j \in DOMAIN b, a[i] = b[j] PROVE FALSE
  <2>1. PICK y : y = c + j
    OBVIOUS
  <2>2. i = y
    BY <1>3, <1>4, <1>7, <2>1
  <2>3. QED
    BY <1>2, <2>1, <2>2
<1>8. QED
  BY <1>2, <1>3, <1>4, <1>5, <1>6, <1>7

\* Internal node q, with r and k hung in, is cut in two; k2 goes up.
NodeSplit(q, r, k, k2, i, j, cut, all, kids, ks, cs, rks, rcs) ==
  /\ HungAt(q, r, k, i, j, all, kids) /\ cut = InternalCut(SlotAfter(q, k))
  /\ cut \in 1..(Capacity - 1) /\ Len(all) = Capacity + 1 /\ Len(kids) = Capacity + 2
  /\ \E x : CutAt(Keys, all, cut, ks, x)
  /\ \E x : CutAt(Keys, all, cut + 1, x, rks)
  /\ CutAt(Nat, kids, cut + 1, cs, rcs)
  /\ k2 = all[cut + 1]
  /\ PartEffect(q, r, ks, cs, rks, rcs)

LEMMA SplitParentFacts ==
  ASSUME Core, NEW p \in Threads, SplitParent(p)
  PROVE  /\ Alone(p) /\ KeepPlace(p) /\ KeepScan(p)
         /\ t[p].pc = "splitparent" /\ t'[p].pc = "bump" /\ t'[p].after = "parent"
         /\ t'[p].todo = t'[p].held /\ t'[p].held = <<t[p].left, t[p].right>>
         /\ t'[p].left = t[p].par /\ t'[p].right = Len(node) + 1 /\ t'[p].par = t[p].par
         /\ \E i, j, cut, all, kids, ks, cs, rks, rcs :
              NodeSplit(t[p].par, t[p].right, t[p].sep, t'[p].sep, i, j, cut, all, kids, ks, cs, rks, rcs)
         /\ UNCHANGED <<root, size_est, op, seen, res, count, scan>>
<1>1. LocalsOK(p) /\ t[p].pc = "splitparent" /\ UNCHANGED <<root, size_est, op, seen, res, count, scan>>
  BY LocalFacts DEF Core, SplitParent, At, opvars
<1>2. PICK h : h = <<t[p].left, t[p].right>>
  OBVIOUS
<1>3. PICK q : q = t[p].par
  OBVIOUS
<1>4. PICK r : r = t[p].right
  OBVIOUS
<1>5. PICK k : k = t[p].sep
  OBVIOUS
<1>6. PICK slot : slot = SlotAfter(q, k)
  OBVIOUS
<1>7. PICK i : i = slot + 1
  OBVIOUS
<1>8. PICK j : j = slot + 2
  OBVIOUS
<1>9. PICK all : all = InsertAt(node[q].keys, i, k)
  OBVIOUS
<1>10. PICK kids : kids = InsertAt(node[q].kids, j, r)
  OBVIOUS
<1>11. PICK cut : cut = InternalCut(slot)
  OBVIOUS
<1>12. PICK c1 : c1 = cut + 1
  OBVIOUS
<1>13. PICK c2 : c2 = cut + 2
  OBVIOUS
<1>14. PICK ks : ks = SubSeq(all, 1, cut)
  OBVIOUS
<1>15. PICK rks : rks = SubSeq(all, c2, Len(all))
  OBVIOUS
<1>16. PICK cs : cs = SubSeq(kids, 1, c1)
  OBVIOUS
<1>17. PICK rcs : rcs = SubSeq(kids, c2, Len(kids))
  OBVIOUS
<1>18. PICK k2 : k2 = all[c1]
  OBVIOUS
<1>19. PICK sib : sib = Len(node) + 1
  OBVIOUS
<1>20. /\ q \in DOMAIN node /\ ~node[q].leaf /\ r \in DOMAIN node /\ r \in Nat /\ k \in Keys
       /\ TreeOK /\ node \in Seq(Node) /\ Full(q)
  <2>1. t[p].pc \in Climbing
    BY <1>1 DEF Climbing, Parents
  <2>2. SplitOK(p) /\ Splitting(p)
    BY <2>1, ClimbFacts
  <2>3. Full(q)
    BY <1>1, <1>3, <2>2 DEF SplitOK
  <2>4. QED
    BY <1>1, <1>3, <1>4, <1>5, <2>1, <2>3, HangingFacts, ClimbFacts
<1>21. HungAt(q, r, k, i, j, all, kids)
  BY <1>6, <1>7, <1>8, <1>9, <1>10, <1>20, HungFacts
<1>22. Len(node[q].keys) = Capacity /\ Len(node[q].kids) = Capacity + 1 /\ Capacity \in Nat /\ Capacity >= 3
  BY <1>20, KidsFacts, KeyFacts DEF Full
<1>23. /\ all \in Seq(Keys) /\ kids \in Seq(Nat) /\ Len(all) = Capacity + 1 /\ Len(kids) = Capacity + 2
  BY <1>21, <1>22 DEF HungAt, Inserted
<1>24. slot \in 0..Capacity /\ cut \in 1..(Capacity - 1) /\ cut \in Nat
  BY <1>6, <1>11, <1>20, <1>22, SlotBound, InternalCutBound
<1>25. cut \in 1..Len(all) /\ c1 \in 1..Len(all) /\ c1 \in 1..Len(kids) /\ c2 = c1 + 1
  BY <1>12, <1>13, <1>22, <1>23, <1>24
<1>26. PICK x : CutAt(Keys, all, cut, ks, x)
  BY <1>14, <1>23, <1>25, CutFacts
<1>27. PICK y : CutAt(Keys, all, c1, y, rks)
  BY <1>15, <1>23, <1>25, CutFacts
<1>28. CutAt(Nat, kids, c1, cs, rcs)
  BY <1>16, <1>17, <1>23, <1>25, CutFacts
<1>29. ks \in Seq(Keys) /\ rks \in Seq(Keys) /\ cs \in Seq(Nat) /\ rcs \in Seq(Nat)
  BY <1>26, <1>27, <1>28 DEF CutAt
<1>30. node' = LET par == t[p].par
                   s == SlotAfter(par, t[p].sep)
                   a == InsertAt(node[par].keys, s + 1, t[p].sep)
                   d == InsertAt(node[par].kids, s + 2, t[p].right)
                   c == InternalCut(s)
               IN  Append(Parted(par, t[p].right, SubSeq(a, 1, c), SubSeq(d, 1, c + 1), SubSeq(d, c + 2, Len(d))),
                     [Internal(SubSeq(a, c + 2, Len(a)), SubSeq(d, c + 2, Len(d))) EXCEPT !.locked = TRUE])
  BY DEF SplitParent, Parted
<1>31. node' = Append(Parted(q, r, ks, cs, rcs), [Internal(rks, rcs) EXCEPT !.locked = TRUE])
  BY <1>3, <1>4, <1>5, <1>6, <1>7, <1>8, <1>9, <1>10, <1>11, <1>12, <1>13, <1>14, <1>15, <1>16, <1>17, <1>30, Zenon
<1>32. PartEffect(q, r, ks, cs, rks, rcs)
  BY <1>20, <1>29, <1>31, PartDoes
<1>33. SetClimb(p, "bump", h, h, "parent", q, sib, k2)
  BY <1>2, <1>3, <1>4, <1>5, <1>6, <1>7, <1>9, <1>11, <1>12, <1>18, <1>19, Zenon DEF SplitParent, SetClimb
<1>34. /\ Alone(p) /\ t'[p].pc = "bump" /\ t'[p].todo = h /\ t'[p].held = h /\ t'[p].after = "parent"
       /\ t'[p].left = q /\ t'[p].right = sib /\ t'[p].sep = k2
       /\ t'[p].par = t[p].par
       /\ KeepPlace(p) /\ KeepScan(p)
  BY <1>1, <1>33, ClimbDoes
<1>35. NodeSplit(q, r, k, k2, i, j, cut, all, kids, ks, cs, rks, rcs)
  BY <1>6, <1>11, <1>12, <1>18, <1>21, <1>23, <1>24, <1>26, <1>27, <1>28, <1>32, Zenon DEF NodeSplit
<1>36. NodeSplit(t[p].par, t[p].right, t[p].sep, t'[p].sep, i, j, cut, all, kids, ks, cs, rks, rcs)
  BY <1>3, <1>4, <1>5, <1>34, <1>35
<1>37. QED
  BY <1>1, <1>2, <1>3, <1>19, <1>34, <1>36

\* Two nodes are held while p goes on to hang sib, split off q.
LEMMA HoldTwo ==
  ASSUME NEW p \in Procs, NEW l \in Nat, NEW r \in Nat, l # r, NEW q, NEW sib,
         q \notin {l, r}, sib \notin {l, r},
         NEW h, h = <<l, r>>, t'[p].held = h, t'[p].todo = h,
         t'[p].pc = "bump", t'[p].after = "parent", t'[p].left = q, t'[p].right = sib,
         l \in DOMAIN node', r \in DOMAIN node'
  PROVE  /\ \A m : Owns(p, m)' <=> m \in {q, sib, l, r}
         /\ \A m : Tearing(p, m)' <=> m \in {q, l, r}
         /\ Splitting(p)' /\ h \in Seq(Nat) /\ HeldOK(p)'
<1>1. DOMAIN h = {1, 2} /\ h[1] = l /\ h[2] = r /\ h # <<>> /\ h \in Seq(Nat)
  OBVIOUS
<1>2. Splitting(p)'
  BY DEF Splitting, Ending
<1>3. \A m : (\E i \in DOMAIN h : m = h[i]) <=> m \in {l, r}
  BY <1>1
<1>4. \A m : Owns(p, m)' <=> m \in {q, sib, l, r}
  BY <1>2, <1>3 DEF Owns, Parents, Ending
<1>5. \A m : Tearing(p, m)' <=> m \in {q, l, r}
  BY <1>2, <1>3 DEF Tearing
<1>6. HeldOK(p)'
  <2>1. \A i, j \in DOMAIN h : h[i] = h[j] => i = j
    BY <1>1
  <2>2. \A i \in DOMAIN h : h[i] \in DOMAIN node' /\ h[i] # q /\ h[i] # sib
    BY <1>1
  <2>3. t'[p].pc \in Ending
    BY DEF Ending
  <2>4. QED
    BY <1>1, <1>2, <2>1, <2>2, <2>3 DEF HeldOK
<1>7. QED
  BY <1>1, <1>2, <1>4, <1>5, <1>6

\* The children q keeps and those its new sibling takes.
PartKids(q, r, cs, rcs) ==
  /\ \A c \in ToSet(rcs) : /\ c \in DOMAIN node /\ c # q
                           /\ c = r \/ node[c].parent = q
  /\ \A a \in DOMAIN cs : /\ cs[a] \in DOMAIN node /\ cs[a] # q /\ cs[a] \notin ToSet(rcs)
                          /\ cs[a] = r \/ node[cs[a]].parent = q
  /\ \A a, b \in DOMAIN cs : cs[a] = cs[b] => a = b
  /\ \A a, b \in DOMAIN rcs : rcs[a] = rcs[b] => a = b
  /\ \A a \in DOMAIN rcs : rcs[a] \in ToSet(rcs)

LEMMA PartKidsFacts ==
  ASSUME Core, NEW q \in DOMAIN node, ~node[q].leaf, NEW r \in DOMAIN node, q # r,
         node[r].parent = Nil, q # 0,
         NEW k, NEW i, NEW j, NEW all, NEW kids, HungAt(q, r, k, i, j, all, kids),
         NEW c \in 1..Len(kids), NEW cs, NEW rcs, CutAt(Nat, kids, c, cs, rcs)
  PROVE  PartKids(q, r, cs, rcs)
<1>1. TreeOK /\ ShapeOK /\ node \in Seq(Node)
  BY DEF Core, TypesOK, TreeOK
<1>2. PICK s : s = node[q].kids
  OBVIOUS
<1>3. /\ s \in Seq(Nat) /\ j \in 1..(Len(s) + 1) /\ Inserted(Nat, s, j, r, kids) /\ kids \in Seq(Nat)
  BY <1>1, <1>2, NodeFacts DEF HungAt, Inserted
<1>4. /\ \A b \in DOMAIN s : s[b] \in DOMAIN node /\ node[s[b]].parent = q
      /\ \A a, b \in DOMAIN s : s[a] = s[b] => a = b
      /\ node[q].parent # q
  BY <1>1, <1>2, KidsFacts DEF ShapeOK, Leaves
<1>5. \A b \in DOMAIN s : s[b] # r
  BY <1>4 DEF Nil
<1>6. \A a, b \in DOMAIN kids : kids[a] = kids[b] => a = b
  BY <1>3, <1>4, <1>5, InsertedOnce
<1>7. /\ DOMAIN kids = 1..(Len(s) + 1) /\ DOMAIN s = 1..Len(s) /\ Len(s) \in Nat /\ kids[j] = r
      /\ \A a \in DOMAIN kids : a # j =>
           /\ a < j => a \in DOMAIN s /\ kids[a] = s[a]
           /\ a > j => a - 1 \in DOMAIN s /\ kids[a] = s[a - 1]
           /\ \E b \in DOMAIN s : kids[a] = s[b]
  <2>1. InsertedParts(s, j, r, kids)
    BY <1>3, InsertedIs
  <2>2. QED
    BY <2>1 DEF InsertedParts
<1>8. \A m \in DOMAIN kids : /\ kids[m] \in DOMAIN node /\ kids[m] # q
                             /\ kids[m] = r \/ node[kids[m]].parent = q
  BY <1>4, <1>7
<1>9. /\ \A a \in DOMAIN cs : \E m \in DOMAIN kids : cs[a] = kids[m]
      /\ \A a \in DOMAIN rcs : \E m \in DOMAIN kids : rcs[a] = kids[m]
      /\ \A a, b \in DOMAIN cs : cs[a] = cs[b] => a = b
      /\ \A a, b \in DOMAIN rcs : rcs[a] = rcs[b] => a = b
      /\ \A a \in DOMAIN cs, b \in DOMAIN rcs : cs[a] # rcs[b]
  BY <1>3, <1>6, CutOnce
<1>10. ToSet(rcs) = {rcs[a] : a \in DOMAIN rcs}
  BY DEF ToSet
<1>11. \A e \in ToSet(rcs) : e \in DOMAIN node /\ e # q /\ (e = r \/ node[e].parent = q)
  BY <1>8, <1>9, <1>10
<1>12. \A a \in DOMAIN cs : /\ cs[a] \in DOMAIN node /\ cs[a] # q
                            /\ cs[a] = r \/ node[cs[a]].parent = q
  BY <1>8, <1>9
<1>13. \A a \in DOMAIN cs : cs[a] \notin ToSet(rcs)
  BY <1>9, <1>10
<1>14. \A a \in DOMAIN rcs : rcs[a] \in ToSet(rcs)
  BY <1>10
<1>15. QED
  BY <1>9, <1>11, <1>12, <1>13, <1>14 DEF PartKids

\* What the split of q does to the nodes there were.
PartDone(q, r, ks, cs, rks, rcs, sib) ==
  /\ \A m \in DOMAIN node :
       /\ node'[m].leaf = node[m].leaf /\ node'[m].vals = node[m].vals
       /\ node'[m].next = node[m].next /\ node'[m].locked = node[m].locked
       /\ node'[m].version = node[m].version
       /\ m # q => node'[m].keys = node[m].keys /\ node'[m].kids = node[m].kids
                   /\ node'[m].torn = node[m].torn
       /\ m \in ToSet(rcs) => node'[m].parent = sib
       /\ m \notin ToSet(rcs) /\ m = r => node'[m].parent = q
       /\ m \notin ToSet(rcs) /\ m # r => node'[m].parent = node[m].parent
  /\ node' \in Seq(Node) /\ DOMAIN node' = DOMAIN node \union {sib}
  /\ sib \notin DOMAIN node /\ sib \in Nat /\ sib # 0
  /\ node'[q].keys = ks /\ node'[q].kids = cs /\ node'[q].torn = TRUE
  /\ node'[sib].leaf = FALSE /\ node'[sib].keys = rks
  /\ node'[sib].kids = rcs /\ node'[sib].parent = Nil
  /\ node'[sib].locked = TRUE /\ node'[sib].torn = FALSE

LEMMA PartNodes ==
  ASSUME node \in Seq(Node), NEW q \in DOMAIN node, NEW r \in DOMAIN node, q # r,
         NEW ks, NEW cs, NEW rks, NEW rcs, PartEffect(q, r, ks, cs, rks, rcs), q \notin ToSet(rcs),
         NEW sib, sib = Len(node) + 1
  PROVE  PartDone(q, r, ks, cs, rks, rcs, sib)
<1>1. /\ node' \in Seq(Node) /\ DOMAIN node' = DOMAIN node \union {sib}
      /\ sib \notin DOMAIN node /\ sib \in Nat /\ sib # 0
      /\ node'[q].keys = ks /\ node'[q].kids = cs
      /\ node'[q].leaf = node[q].leaf /\ node'[q].vals = node[q].vals
      /\ node'[q].next = node[q].next /\ node'[q].parent = node[q].parent
      /\ node'[q].locked = node[q].locked /\ node'[q].version = node[q].version
      /\ node'[q].torn = TRUE
      /\ node'[sib].leaf = FALSE /\ node'[sib].keys = rks
      /\ node'[sib].kids = rcs /\ node'[sib].parent = Nil
      /\ node'[sib].locked = TRUE /\ node'[sib].torn = FALSE
  BY DEF PartEffect
<1>2. ASSUME NEW m \in DOMAIN node, m # q
      PROVE  Reparent(m, IF m \in ToSet(rcs) THEN sib ELSE IF m = r THEN q ELSE node[m].parent)
  BY <1>2 DEF PartEffect
<1>3. ASSUME NEW m \in DOMAIN node
      PROVE  /\ node'[m].leaf = node[m].leaf /\ node'[m].vals = node[m].vals
             /\ node'[m].next = node[m].next /\ node'[m].locked = node[m].locked
             /\ node'[m].version = node[m].version
             /\ m # q => node'[m].keys = node[m].keys /\ node'[m].kids = node[m].kids
                         /\ node'[m].torn = node[m].torn
             /\ m \in ToSet(rcs) => node'[m].parent = sib
             /\ m \notin ToSet(rcs) /\ m = r => node'[m].parent = q
             /\ m \notin ToSet(rcs) /\ m # r => node'[m].parent = node[m].parent
  <2>1. CASE m = q
    BY <1>1, <2>1
  <2>2. CASE m # q
    <3>1. PICK n : n = IF m \in ToSet(rcs) THEN sib ELSE IF m = r THEN q ELSE node[m].parent
      OBVIOUS
    <3>2. Reparent(m, n)
      BY <1>2, <2>2, <3>1
    <3>3. QED
      BY <2>2, <3>1, <3>2 DEF Reparent
  <2>3. QED
    BY <2>1, <2>2
<1>4. QED
  BY <1>1, <1>3, Zenon DEF PartDone

LEMMA SplitParentCore ==
  ASSUME Core, NEW p \in Threads, SplitParent(p)
  PROVE  Core'
<1>1. PICK l : l = t[p].left
  OBVIOUS
<1>2. PICK r : r = t[p].right
  OBVIOUS
<1>3. PICK k : k = t[p].sep
  OBVIOUS
<1>4. PICK q : q = t[p].par
  OBVIOUS
<1>5. PICK h : h = <<l, r>>
  OBVIOUS
<1>6. PICK sib : sib = Len(node) + 1
  OBVIOUS
<1>7. PICK k2 : k2 = t'[p].sep
  OBVIOUS
<1>8. /\ Alone(p) /\ KeepPlace(p) /\ KeepScan(p)
      /\ t[p].pc = "splitparent" /\ t'[p].pc = "bump" /\ t'[p].after = "parent"
      /\ t'[p].todo = h /\ t'[p].held = h
      /\ t'[p].left = q /\ t'[p].right = sib /\ t'[p].par = q /\ t'[p].sep = k2
      /\ UNCHANGED <<root, size_est, op, seen, res>>
  BY <1>1, <1>2, <1>4, <1>5, <1>6, <1>7, SplitParentFacts
<1>9. PICK i, j, cut, all, kids, ks, cs, rks, rcs :
        NodeSplit(q, r, k, k2, i, j, cut, all, kids, ks, cs, rks, rcs)
  BY <1>2, <1>3, <1>4, <1>7, SplitParentFacts
<1>10. /\ p \in Procs /\ ThreadOK(p) /\ OpOK(p) /\ SplitOK(p)
       /\ Splitting(p) /\ TreeOK /\ node \in Seq(Node)
       /\ l \in DOMAIN node /\ r \in DOMAIN node /\ l # r
       /\ l \in Nat /\ r \in Nat
       /\ node[l].locked /\ node[r].locked /\ k \in Keys
  BY <1>1, <1>2, <1>3, <1>8, ClimbFacts DEF Climbing, Parents
<1>11. /\ q \in DOMAIN node /\ ~node[q].leaf /\ q \notin {l, r} /\ q \in Nat /\ q # 0
       /\ node[l].parent = q /\ node[r].parent = Nil /\ node[q].locked
       /\ \A m : Owns(p, m) <=> m \in {q, l, r}
       /\ \A m : Tearing(p, m) <=> m = l
  BY <1>1, <1>2, <1>4, <1>8, HangingFacts
<1>12. PICK c : c = cut + 1
  OBVIOUS
<1>13. /\ PartEffect(q, r, ks, cs, rks, rcs) /\ HungAt(q, r, k, i, j, all, kids)
       /\ CutAt(Nat, kids, c, cs, rcs) /\ cut \in 1..(Capacity - 1) /\ k2 = all[c]
       /\ Len(all) = Capacity + 1 /\ Len(kids) = Capacity + 2 /\ Capacity \in Nat /\ Capacity >= 3
       /\ \E x : CutAt(Keys, all, cut, ks, x)
       /\ \E x : CutAt(Keys, all, c, x, rks)
  BY <1>9, <1>12, KeyFacts DEF NodeSplit
<1>14. c \in 1..Len(kids) /\ c \in 1..Len(all) /\ all \in Seq(Keys) /\ kids \in Seq(Nat)
  <2>1. all \in Seq(Keys) /\ kids \in Seq(Nat)
    BY <1>13 DEF HungAt, Inserted
  <2>2. cut + 1 <= Capacity /\ cut \in Nat
    BY <1>13
  <2>3. c \in 1..(Capacity + 2) /\ c \in 1..(Capacity + 1)
    BY <1>12, <1>13, <2>2
  <2>4. QED
    BY <1>13, <2>1, <2>3
<1>15. PartKids(q, r, cs, rcs)
  BY <1>10, <1>11, <1>13, <1>14, PartKidsFacts
<1>16. q \notin ToSet(rcs) /\ q # r /\ q # l
  BY <1>11, <1>15 DEF PartKids
<1>17. \A m \in DOMAIN node :
         /\ node'[m].leaf = node[m].leaf /\ node'[m].vals = node[m].vals
         /\ node'[m].next = node[m].next /\ node'[m].locked = node[m].locked
         /\ m # q => node'[m].keys = node[m].keys /\ node'[m].kids = node[m].kids
                     /\ node'[m].torn = node[m].torn
         /\ m \in ToSet(rcs) => node'[m].parent = sib
         /\ m \notin ToSet(rcs) /\ m = r => node'[m].parent = q
         /\ m \notin ToSet(rcs) /\ m # r => node'[m].parent = node[m].parent
  <2>1. /\ node \in Seq(Node) /\ q \in DOMAIN node /\ r \in DOMAIN node /\ q # r
        /\ PartEffect(q, r, ks, cs, rks, rcs) /\ q \notin ToSet(rcs)
    BY <1>10, <1>11, <1>13, <1>16
  <2>2. PartDone(q, r, ks, cs, rks, rcs, sib)
    BY <1>6, <2>1, PartNodes
  <2>3. QED
    BY <2>2 DEF PartDone
<1>18. /\ node' \in Seq(Node) /\ DOMAIN node' = DOMAIN node \union {sib}
       /\ sib \notin DOMAIN node /\ sib \in Nat /\ sib # 0
       /\ node'[q].keys = ks /\ node'[q].kids = cs /\ node'[q].torn = TRUE
       /\ node'[sib].leaf = FALSE /\ node'[sib].keys = rks
       /\ node'[sib].kids = rcs /\ node'[sib].parent = Nil
       /\ node'[sib].locked = TRUE /\ node'[sib].torn = FALSE
  <2>1. /\ node \in Seq(Node) /\ q \in DOMAIN node /\ r \in DOMAIN node /\ q # r
        /\ PartEffect(q, r, ks, cs, rks, rcs) /\ q \notin ToSet(rcs)
    BY <1>10, <1>11, <1>13, <1>16
  <2>2. PartDone(q, r, ks, cs, rks, rcs, sib)
    BY <1>6, <2>1, PartNodes
  <2>3. QED
    BY <2>2 DEF PartDone
<1>19. sib # q /\ sib # l /\ sib # r
  BY <1>10, <1>11, <1>18
<1>20. /\ \A m : Owns(p, m)' <=> m \in {q, sib, l, r}
       /\ \A m : Tearing(p, m)' <=> m \in {q, l, r}
       /\ Splitting(p)' /\ h \in Seq(Nat) /\ HeldOK(p)'
  <2>1. q \notin {l, r} /\ sib \notin {l, r} /\ l \in DOMAIN node' /\ r \in DOMAIN node'
        /\ l # r /\ l \in Nat /\ r \in Nat /\ p \in Procs
    BY <1>10, <1>11, <1>18, <1>19
  <2>2. QED
    BY <1>5, <1>8, <2>1, HoldTwo
<1>21. Grown
  BY <1>17, <1>18 DEF Grown
<1>22. LockStep(p)
  <2>1. \A m : Owns(p, m)' <=> m = sib \/ Owns(p, m)
    BY <1>11, <1>20
  <2>2. \A m : Owns(p, m) => m \in DOMAIN node /\ node[m].locked
    BY <1>10, <1>11
  <2>3. \A m \in DOMAIN node' : node'[m].locked <=>
          Owns(p, m)' \/ (m \in DOMAIN node /\ node[m].locked /\ ~Owns(p, m))
    BY <1>17, <1>18, <2>1, <2>2
  <2>4. \A m \in DOMAIN node : Owns(p, m)' => Owns(p, m) \/ ~node[m].locked
    BY <1>18, <2>1
  <2>5. \A m : Owns(p, m)' => m \in DOMAIN node'
    BY <1>18, <2>1, <2>2
  <2>6. QED
    BY <2>3, <2>4, <2>5 DEF LockStep
<1>23. TornStep(p)
  BY <1>11, <1>17, <1>18, <1>20 DEF TornStep
<1>24. Respect(p)
  <2>1. ASSUME NEW m \in DOMAIN node, ~Owns(p, m)
        PROVE  /\ node'[m].torn = node[m].torn /\ node'[m].keys = node[m].keys
               /\ node'[m].kids = node[m].kids /\ node'[m].next = node[m].next
               /\ node[m].parent = Nil => node'[m].parent = Nil
               /\ ~Owns(p, node[m].parent) => node'[m].parent = node[m].parent
    <3>1. m \notin {q, l, r}
      BY <1>11, <2>1
    <3>2. m \in ToSet(rcs) => node[m].parent = q
      BY <1>15, <3>1 DEF PartKids
    <3>3. QED
      BY <1>11, <1>17, <3>1, <3>2 DEF Nil
  <2>2. QED
    BY <1>8, <1>17, <1>18, <2>1 DEF Respect
<1>25. /\ Len(ks) \in 1..Capacity /\ Len(cs) = Len(ks) + 1 
       /\ Len(rks) \in 1..Capacity /\ Len(rcs) = Len(rks) + 1
       /\ k2 \in Keys
  <2>1. Len(ks) = cut /\ Len(rks) = Len(all) - c /\ Len(cs) = c /\ Len(rcs) = Len(kids) - c
    BY <1>13 DEF CutAt
  <2>2. k2 \in Keys
    BY <1>13, <1>14
  <2>3. QED
    BY <1>12, <1>13, <2>1, <2>2
<1>26. TreeOK'
  <2>1. Formed(q)'
    <3>1. Formed(q)
      BY <1>10, <1>11 DEF TreeOK
    <3>2. \A a \in DOMAIN cs : cs[a] \in DOMAIN node'
      BY <1>15, <1>18 DEF PartKids
    <3>3. node'[q].parent = node[q].parent
      BY <1>11, <1>16, <1>17
    <3>4. node'[q].parent # Nil => node'[q].parent \in DOMAIN node' /\ ~node'[node'[q].parent].leaf
      BY <1>17, <1>18, <3>1, <3>3 DEF Formed
    <3>5. ~node'[q].leaf
      BY <1>11, <1>17
    <3>6. QED
      BY <1>18, <1>25, <3>2, <3>4, <3>5 DEF Formed
  <2>2. Formed(sib)'
    <3>1. \A a \in DOMAIN rcs : rcs[a] \in DOMAIN node'
      BY <1>15, <1>18 DEF PartKids
    <3>2. QED
      BY <1>18, <1>25, <3>1 DEF Formed
  <2>3. ASSUME NEW m \in DOMAIN node, m # q PROVE Formed(m)'
    <3>1. Formed(m)
      BY <1>10 DEF TreeOK
    <3>2. node'[m].parent \in {sib, q, node[m].parent}
      BY <1>17
    <3>3. ~node'[q].leaf
      BY <1>11, <1>17
    <3>4. node'[m].parent # Nil => node'[m].parent \in DOMAIN node' /\ ~node'[node'[m].parent].leaf
      BY <1>11, <1>17, <1>18, <3>1, <3>2, <3>3 DEF Formed
    <3>5. /\ node'[m].leaf = node[m].leaf /\ node'[m].keys = node[m].keys /\ node'[m].vals = node[m].vals
          /\ node'[m].kids = node[m].kids /\ node'[m].next = node[m].next
      BY <1>17, <2>3
    <3>6. node[m].leaf /\ node[m].next # Nil => node[m].next \in DOMAIN node' /\ node'[node[m].next].leaf
      BY <1>17, <1>18, <3>1 DEF Formed
    <3>7. QED
      BY <1>18, <3>1, <3>4, <3>5, <3>6 DEF Formed
  <2>4. root' \in DOMAIN node' /\ size_est' \in Nat
    BY <1>8, <1>10, <1>18 DEF TreeOK
  <2>5. QED
    BY <1>18, <2>1, <2>2, <2>3, <2>4 DEF TreeOK
<1>27. root \in DOMAIN node /\ r # root
  BY <1>2, <1>10 DEF SplitOK, TreeOK
<1>28. SplitOK(p)'
  <2>1. t'[p].pc \notin Parents \union {"newroot"}
    BY <1>8 DEF Parents
  <2>2. node'[q].leaf = node'[sib].leaf /\ q \in DOMAIN node' /\ sib \in DOMAIN node' /\ sib # root'
    <3>1. node'[q].leaf = node[q].leaf /\ node[q].leaf = FALSE
      BY <1>10, <1>11, <1>17, NodeFacts
    <3>2. QED
      BY <1>8, <1>11, <1>18, <1>27, <3>1
  <2>3. QED
    BY <1>8, <1>18, <1>19, <1>25, <2>1, <2>2 DEF SplitOK, Parents
<1>29. ThreadOK(p)'
  <2>1. /\ t'[p].left \in Nat /\ t'[p].right \in Nat /\ t'[p].par \in Nat /\ t'[p].sep \in Nat
        /\ t'[p].todo \in Seq(Nat) /\ t'[p].held \in Seq(Nat)
        /\ t'[p].after \in {"done", "count", "parent"}
    BY <1>8, <1>11, <1>18, <1>20, <1>25, KeyFacts
  <2>2. t'[p].pc \in Ending /\ t'[p].pc \notin {"lockver", "act", "walkver"}
    BY <1>8 DEF Ending
  <2>3. QED
    BY <1>8, <1>10, <1>21, <2>1, <2>2, WriterThread
<1>30. OpsStep(p) /\ OpOK(p)'
  <2>1. t[p].pc \in Climbing /\ t'[p].pc \in Ending
    BY <1>8 DEF Climbing, Parents, Ending
  <2>2. QED
    BY <1>8, <1>10, <2>1, OpStays, QuietOps DEF Core
<1>31. ShapeOK'
  <2>1. ShapeOK
    BY DEF Core
  <2>2. ASSUME NEW m \in DOMAIN node' \ Leaves'
        PROVE  /\ \A a \in DOMAIN node'[m].kids : node'[node'[m].kids[a]].parent = m
               /\ \A a, b \in DOMAIN node'[m].kids : node'[m].kids[a] = node'[m].kids[b] => a = b
    <3>1. CASE m = sib
      <4>1. node'[m].kids = rcs
        BY <1>18, <3>1
      <4>2. \A a \in DOMAIN rcs : rcs[a] \in DOMAIN node /\ rcs[a] \in ToSet(rcs)
        BY <1>15 DEF PartKids
      <4>3. \A a \in DOMAIN rcs : node'[rcs[a]].parent = sib
        BY <1>17, <4>2
      <4>4. QED
        BY <1>15, <3>1, <4>1, <4>3 DEF PartKids
    <3>2. CASE m = q
      <4>1. node'[m].kids = cs
        BY <1>18, <3>2
      <4>2. \A a \in DOMAIN cs : node'[cs[a]].parent = q
        BY <1>15, <1>17 DEF PartKids
      <4>3. QED
        BY <1>15, <3>2, <4>1, <4>2 DEF PartKids
    <3>3. CASE m # sib /\ m # q
      <4>1. m \in DOMAIN node \ Leaves /\ node'[m].kids = node[m].kids
        BY <1>17, <1>18, <3>3 DEF Leaves
      <4>2. /\ \A a \in DOMAIN node[m].kids : node[m].kids[a] \in DOMAIN node
            /\ \A a \in DOMAIN node[m].kids : node[node[m].kids[a]].parent = m
        BY <1>10, <2>1, <4>1 DEF TreeOK, Formed, Leaves, ShapeOK
      <4>3. m # Nil
        BY <1>10, <4>1, NodeFacts DEF Nil
      <4>4. \A a \in DOMAIN node[m].kids : node[m].kids[a] # r /\ node[m].kids[a] \notin ToSet(rcs)
        BY <1>11, <1>15, <3>3, <4>2, <4>3 DEF PartKids
      <4>5. \A a \in DOMAIN node[m].kids : node'[node[m].kids[a]].parent = m
        BY <1>17, <4>2, <4>4
      <4>6. QED
        BY <2>1, <4>1, <4>5 DEF ShapeOK
    <3>4. QED
      BY <3>1, <3>2, <3>3
  <2>3. node'[root'].parent = Nil
    <3>1. node[root].parent = Nil
      BY <2>1 DEF ShapeOK
    <3>2. root \notin ToSet(rcs)
      BY <1>11, <1>15, <1>27, <3>1 DEF PartKids, Nil
    <3>3. QED
      BY <1>8, <1>17, <1>27, <3>1, <3>2
  <2>4. \A m \in DOMAIN node' : node'[m].parent # m
    <3> SUFFICES ASSUME NEW m \in DOMAIN node' PROVE node'[m].parent # m
      OBVIOUS
    <3>1. CASE m = sib
      BY <1>18, <3>1 DEF Nil
    <3>2. CASE m # sib
      <4>1. m \in DOMAIN node /\ node[m].parent # m
        BY <1>18, <2>1, <3>2 DEF ShapeOK
      <4>2. QED
        BY <1>16, <1>17, <1>18, <4>1
    <3>3. QED
      BY <3>1, <3>2
  <2>5. ASSUME NEW m \in DOMAIN node', node'[m].parent = Nil
        PROVE  m = root' \/ \E s \in Procs : Splitting(s)' /\ m = t'[s].right
    <3>1. CASE m = sib
      BY <1>8, <1>10, <1>20, <3>1
    <3>2. CASE m # sib
      <4>1. m \in DOMAIN node /\ m # r /\ node[m].parent = Nil
        BY <1>11, <1>17, <1>18, <2>5, <3>2 DEF Nil
      <4> SUFFICES ASSUME m # root PROVE \E s \in Procs : Splitting(s)' /\ m = t'[s].right
        BY <1>8
      <4>2. PICK s \in Procs : Splitting(s) /\ m = t[s].right
        BY <2>1, <4>1 DEF ShapeOK
      <4>3. s # p
        BY <1>2, <4>1, <4>2
      <4>4. Splitting(s)' /\ t'[s] = t[s]
        BY <1>8, <4>2, <4>3, OthersOwn DEF Alone, Threads
      <4>5. QED
        BY <4>2, <4>4
    <3>3. QED
      BY <3>1, <3>2
  <2>6. QED
    BY <2>2, <2>3, <2>4, <2>5 DEF ShapeOK
<1>32. QED
  BY <1>8, <1>10, <1>20, <1>21, <1>22, <1>23, <1>24, <1>26, <1>28, <1>29, <1>30, <1>31, GrowStep

-----------------------------------------------------------------------------
(* The contents to start with                                               *)

\* n records fill m leaves, the last one perhaps in part.
LEMMA LeafCount ==
  ASSUME NEW n \in 1..(Capacity * (Capacity + 1)), NEW m, m = (n + Capacity - 1) \div Capacity
  PROVE  m \in 1..(Capacity + 1) /\ n - (m - 1) * Capacity \in 1..Capacity
<1>1. PICK c : c = Capacity
  OBVIOUS
<1>2. c \in Nat /\ c >= 3 /\ n \in Nat /\ n >= 1 /\ n <= c * (c + 1)
  <2>1. c \in Nat /\ c >= 3
    BY <1>1, CapacityAssumption
  <2>2. c * (c + 1) \in Nat
    BY <2>1
  <2>3. QED
    BY <1>1, <2>1, <2>2
<1>3. m \in Int /\ c * m <= n + c - 1 /\ n + c - 1 < c * m + c
  BY <1>1, <1>2
<1>4. m >= 1
  <2> SUFFICES ASSUME m <= 0 PROVE FALSE
    BY <1>3
  <2>1. c * m <= 0
    BY <1>2, <1>3
  <2>2. QED
    BY <1>2, <1>3, <2>1
<1>5. m <= c + 1
  <2> SUFFICES ASSUME m >= c + 2 PROVE FALSE
    BY <1>2, <1>3
  <2>1. c * m >= c * (c + 2)
    BY <1>2, <1>3
  <2>2. c * (c + 2) = c * (c + 1) + c
    BY <1>2
  <2>3. QED
    BY <1>2, <1>3, <2>1, <2>2
<1>6. (m - 1) * c = c * m - c
  BY <1>2, <1>3
<1>7. QED
  BY <1>1, <1>2, <1>3, <1>4, <1>5, <1>6

\* The keys of the leaves.
LEMMA LoadedKey ==
  ASSUME NEW i \in 1..(Capacity + 1), NEW j \in 1..Capacity
  PROVE  2 * ((i - 1) * Capacity + j) \in Keys
<1>1. PICK c : c = Capacity
  OBVIOUS
<1>2. c \in Nat /\ i \in Nat /\ j \in Nat /\ i >= 1 /\ i <= c + 1 /\ j >= 1 /\ j <= c
  BY <1>1, CapacityAssumption
<1>3. PICK x : x = (i - 1) * c + j
  OBVIOUS
<1>4. (i - 1) * c >= 0 /\ (i - 1) * c <= c * c /\ (i - 1) * c \in Int
  BY <1>2
<1>5. c * (c + 1) = c * c + c /\ c * c \in Nat
  BY <1>2
<1>6. x \in 1..(c * (c + 1))
  BY <1>2, <1>3, <1>4, <1>5
<1>7. x \in 1..(Capacity * (Capacity + 1))
  BY <1>1, <1>6
<1>8. 2 * x \in {2 * y : y \in 1..(Capacity * (Capacity + 1))}
  BY <1>7
<1>9. QED
  BY <1>1, <1>3, <1>8 DEF Keys

WidthOf(i, n, m) == IF i < m THEN Capacity ELSE n - (m - 1) * Capacity

LeafOf(i, n, m, v, gone) ==
  [Leaf([j \in 1..WidthOf(i, n, m) |-> 2 * ((i - 1) * Capacity + j)],
        [j \in 1..WidthOf(i, n, m) |-> IF 2 * ((i - 1) * Capacity + j) \in gone THEN None ELSE v],
        IF i < m THEN i + 1 ELSE Nil)
   EXCEPT !.parent = IF m > 1 THEN m + 1 ELSE Nil]

RootOf(m) == Internal([i \in 1..(m - 1) |-> 2 * (((i + 1) - 1) * Capacity + 1)], [i \in 1..m |-> i])

LoadOf(n, m, v, gone) ==
  [i \in 1..m |-> LeafOf(i, n, m, v, gone)] \o (IF m > 1 THEN <<RootOf(m)>> ELSE <<>>)

\* Leaf i of m.
LoadedLeaf(x, i, n, m, v, gone) ==
  /\ x \in Node /\ x.leaf = TRUE /\ Len(x.keys) = WidthOf(i, n, m) /\ Len(x.vals) = WidthOf(i, n, m)
  /\ \A j \in 1..WidthOf(i, n, m) :
       /\ x.keys[j] = 2 * ((i - 1) * Capacity + j)
       /\ x.vals[j] = IF 2 * ((i - 1) * Capacity + j) \in gone THEN None ELSE v
  /\ x.next = (IF i < m THEN i + 1 ELSE Nil) /\ x.parent = (IF m > 1 THEN m + 1 ELSE Nil)
  /\ x.locked = FALSE /\ x.version = 0 /\ x.torn = FALSE

LoadedRoot(x, m) ==
  /\ x \in Node /\ x.leaf = FALSE /\ Len(x.keys) = m - 1 /\ Len(x.kids) = m
  /\ \A i \in 1..(m - 1) : x.keys[i] = 2 * (i * Capacity + 1)
  /\ \A i \in 1..m : x.kids[i] = i
  /\ x.next = Nil /\ x.parent = Nil /\ x.locked = FALSE /\ x.version = 0 /\ x.torn = FALSE

LEMMA LeafLoaded ==
  ASSUME NEW m \in 1..(Capacity + 1), NEW n \in Nat, n - (m - 1) * Capacity \in 1..Capacity,
         NEW i \in 1..m, NEW v \in Values, NEW gone
  PROVE  LoadedLeaf(LeafOf(i, n, m, v, gone), i, n, m, v, gone)
<1>1. PICK w : w = WidthOf(i, n, m)
  OBVIOUS
<1>2. w \in 1..Capacity /\ Capacity \in Nat /\ m \in Nat /\ i \in Nat /\ w \in Nat
  BY <1>1, KeyFacts DEF WidthOf
<1>3. PICK ks : ks = [j \in 1..w |-> 2 * ((i - 1) * Capacity + j)]
  OBVIOUS
<1>4. PICK vs : vs = [j \in 1..w |-> IF 2 * ((i - 1) * Capacity + j) \in gone THEN None ELSE v]
  OBVIOUS
<1>5. PICK nx : nx = IF i < m THEN i + 1 ELSE Nil
  OBVIOUS
<1>6. PICK par : par = IF m > 1 THEN m + 1 ELSE Nil
  OBVIOUS
<1>7. nx \in Nat /\ par \in Nat
  BY <1>2, <1>5, <1>6 DEF Nil
<1>8. ks \in Seq(Keys) /\ Len(ks) = w
  <2>1. \A j \in 1..w : 2 * ((i - 1) * Capacity + j) \in Keys
    <3> SUFFICES ASSUME NEW j \in 1..w PROVE 2 * ((i - 1) * Capacity + j) \in Keys
      OBVIOUS
    <3>1. i \in 1..(Capacity + 1) /\ j \in 1..Capacity
      BY <1>2
    <3>2. QED
      BY <3>1, LoadedKey
  <2>2. ks \in [1..w -> Keys]
    BY <1>3, <2>1
  <2>3. QED
    BY <1>2, <2>2
<1>9. vs \in Seq(Maybe) /\ Len(vs) = w
  <2>1. vs \in [1..w -> Maybe]
    BY <1>4 DEF Maybe
  <2>2. QED
    BY <1>2, <2>1
<1>10. LeafOf(i, n, m, v, gone) = [Leaf([j \in 1..w |-> 2 * ((i - 1) * Capacity + j)],
           [j \in 1..w |-> IF 2 * ((i - 1) * Capacity + j) \in gone THEN None ELSE v], nx) EXCEPT !.parent = par]
  BY <1>1, <1>5, <1>6, Zenon DEF LeafOf
<1>11. LeafOf(i, n, m, v, gone) = [Leaf(ks, vs, nx) EXCEPT !.parent = par]
  BY <1>3, <1>4, <1>10, Zenon
<1>12. PICK x : x = [leaf |-> TRUE, keys |-> ks, vals |-> vs, kids |-> <<>>, next |-> nx,
                     parent |-> par, locked |-> FALSE, version |-> 0, torn |-> FALSE]
  OBVIOUS
<1>13. LeafOf(i, n, m, v, gone) = x
  BY <1>11, <1>12 DEF Leaf
<1>14. x \in Node
  BY <1>7, <1>8, <1>9, <1>12 DEF Node
<1>15. /\ x.leaf = TRUE /\ x.keys = ks /\ x.vals = vs /\ x.next = nx /\ x.parent = par
       /\ x.locked = FALSE /\ x.version = 0 /\ x.torn = FALSE
  BY <1>12
<1>16. \A j \in 1..w : /\ ks[j] = 2 * ((i - 1) * Capacity + j)
                       /\ vs[j] = IF 2 * ((i - 1) * Capacity + j) \in gone THEN None ELSE v
  BY <1>3, <1>4
<1>17. LoadedLeaf(x, i, n, m, v, gone)
  BY <1>1, <1>5, <1>6, <1>8, <1>9, <1>14, <1>15, <1>16, Zenon DEF LoadedLeaf
<1>18. QED
  BY <1>13, <1>17

LEMMA RootLoaded ==
  ASSUME NEW m \in 2..(Capacity + 1)
  PROVE  LoadedRoot(RootOf(m), m)
<1>1. Capacity \in Nat /\ Capacity >= 3 /\ m \in Nat /\ m >= 2
  BY KeyFacts
<1>2. PICK ks : ks = [i \in 1..(m - 1) |-> 2 * (((i + 1) - 1) * Capacity + 1)]
  OBVIOUS
<1>3. PICK cs : cs = [i \in 1..m |-> i]
  OBVIOUS
<1>4. PICK x : x = RootOf(m)
  OBVIOUS
<1>5. x = Internal(ks, cs)
  BY <1>2, <1>3, <1>4, Zenon DEF RootOf
<1>6. x = [leaf |-> FALSE, keys |-> ks, vals |-> <<>>, kids |-> cs, next |-> Nil,
           parent |-> Nil, locked |-> FALSE, version |-> 0, torn |-> FALSE]
  BY <1>5 DEF Internal
<1>7. \A i \in 1..(m - 1) : ks[i] = 2 * (i * Capacity + 1) /\ ks[i] \in Keys
  <2> SUFFICES ASSUME NEW i \in 1..(m - 1) PROVE ks[i] = 2 * (i * Capacity + 1) /\ ks[i] \in Keys
    OBVIOUS
  <2>1. ks[i] = 2 * (((i + 1) - 1) * Capacity + 1)
    BY <1>2
  <2>2. PICK a : a = i + 1
    OBVIOUS
  <2>3. a \in 1..(Capacity + 1) /\ a - 1 = i /\ 1 \in 1..Capacity
    BY <1>1, <2>2
  <2>4. 2 * ((a - 1) * Capacity + 1) \in Keys
    BY <2>3, LoadedKey
  <2>5. QED
    BY <2>1, <2>2, <2>3, <2>4
<1>8. ks \in Seq(Keys) /\ Len(ks) = m - 1
  <2>1. PICK b : b = m - 1
    OBVIOUS
  <2>2. b \in Nat
    BY <1>1, <2>1
  <2>3. ks = [i \in 1..b |-> ks[i]]
    BY <1>2, <2>1
  <2>4. \A i \in 1..b : ks[i] \in Keys
    BY <1>7, <2>1
  <2>5. ks \in Seq(Keys) /\ Len(ks) = b
    BY <2>2, <2>3, <2>4
  <2>6. QED
    BY <2>1, <2>5
<1>9. cs \in Seq(Nat) /\ Len(cs) = m /\ \A i \in 1..m : cs[i] = i
  BY <1>1, <1>3
<1>10. x \in Node
  <2>1. <<>> \in Seq(Maybe)
    OBVIOUS
  <2>2. QED
    BY <1>6, <1>8, <1>9, <2>1 DEF Node, Nil
<1>11. /\ x.leaf = FALSE /\ x.keys = ks /\ x.kids = cs /\ x.next = Nil /\ x.parent = Nil
       /\ x.locked = FALSE /\ x.version = 0 /\ x.torn = FALSE
  BY <1>6
<1>12. LoadedRoot(x, m)
  BY <1>7, <1>8, <1>9, <1>10, <1>11, Zenon DEF LoadedRoot
<1>13. QED
  BY <1>4, <1>12

\* The tree to start with: m leaves, and a root over them if there are several.
LoadedTree(n, m, v, gone) ==
  /\ n \in Nat /\ m \in 1..(Capacity + 1) /\ n - (m - 1) * Capacity \in 1..Capacity
  /\ v \in Values
  /\ node \in Seq(Node) /\ Len(node) = (IF m > 1 THEN m + 1 ELSE m)
  /\ \A i \in 1..m : LoadedLeaf(node[i], i, n, m, v, gone)
  /\ m > 1 => LoadedRoot(node[m + 1], m)
  /\ root = Len(node) /\ size_est = n

LEMMA TreeLoaded ==
  ASSUME Init
  PROVE  \E n, m, v, gone : LoadedTree(n, m, v, gone)
<1>1. PICK load \in Loads, v \in Values : node = Ascending(load.n, v, load.gone) /\ size_est = load.n
  BY DEF Init
<1>2. PICK n : n = load.n
  OBVIOUS
<1>3. PICK gone : gone = load.gone
  OBVIOUS
<1>4. n \in 1..(Capacity * (Capacity + 1))
  BY <1>2, LoadsAssumption
<1>5. PICK m : m = (n + Capacity - 1) \div Capacity
  OBVIOUS
<1>6. m \in 1..(Capacity + 1) /\ n - (m - 1) * Capacity \in 1..Capacity /\ n \in Nat
      /\ Capacity \in Nat /\ m \in Nat /\ m >= 1
  <2>1. m \in 1..(Capacity + 1) /\ n - (m - 1) * Capacity \in 1..Capacity
    BY <1>4, <1>5, LeafCount
  <2>2. Capacity \in Nat
    BY KeyFacts
  <2>3. Capacity * (Capacity + 1) \in Nat
    BY <2>2
  <2>4. QED
    BY <1>4, <2>1, <2>2, <2>3
<1>7. node = LoadOf(n, (n + Capacity - 1) \div Capacity, v, gone)
  BY <1>1, <1>2, <1>3 DEF Ascending, LoadOf, LeafOf, RootOf, WidthOf
<1>8. node = LoadOf(n, m, v, gone)
  BY <1>5, <1>7
<1>9. PICK f : f = [i \in 1..m |-> LeafOf(i, n, m, v, gone)]
  OBVIOUS
<1>10. \A i \in 1..m : LoadedLeaf(f[i], i, n, m, v, gone)
  BY <1>6, <1>9, LeafLoaded
<1>11. f \in Seq(Node) /\ Len(f) = m
  <2>1. \A i \in 1..m : f[i] \in Node
    BY <1>10 DEF LoadedLeaf
  <2>2. QED
    BY <1>6, <1>9, <2>1
<1>12. CASE m > 1
  <2>1. PICK x : x = RootOf(m)
    OBVIOUS
  <2>2. LoadedRoot(x, m) /\ x \in Node
    <3>1. m \in 2..(Capacity + 1)
      BY <1>6, <1>12
    <3>2. QED
      BY <2>1, <3>1, RootLoaded DEF LoadedRoot
  <2>3. node = f \o <<x>>
    BY <1>8, <1>9, <1>12, <2>1 DEF LoadOf
  <2>4. /\ <<x>> \in Seq(Node) /\ Len(<<x>>) = 1 /\ <<x>>[1] = x
    BY <2>2
  <2>5. /\ node \in Seq(Node) /\ Len(node) = m + 1
        /\ \A i \in 1..m : node[i] = f[i]
        /\ node[m + 1] = x
    BY <1>6, <1>11, <2>2, <2>3
  <2>6. QED
    BY <1>1, <1>2, <1>6, <1>10, <1>12, <2>2, <2>5 DEF Init, LoadedTree
<1>13. CASE ~(m > 1)
  <2>1. node = f
    BY <1>8, <1>9, <1>11, <1>13 DEF LoadOf
  <2>2. QED
    BY <1>1, <1>2, <1>6, <1>10, <1>11, <1>13, <2>1 DEF Init, LoadedTree
<1>14. QED
  BY <1>12, <1>13

LEMMA InitCore ==
  ASSUME Init
  PROVE  Core
<1>1. PICK n, m, v, gone : LoadedTree(n, m, v, gone)
  BY TreeLoaded
<1>2. /\ n \in Nat /\ m \in Nat /\ m >= 1 /\ m <= Capacity + 1 /\ Capacity \in Nat
      /\ n - (m - 1) * Capacity \in 1..Capacity
      /\ node \in Seq(Node) /\ root = Len(node) /\ size_est = n
      /\ m > 1 => Len(node) = m + 1 /\ LoadedRoot(node[m + 1], m)
      /\ ~(m > 1) => Len(node) = m
      /\ \A i \in 1..m : LoadedLeaf(node[i], i, n, m, v, gone)
  BY <1>1, KeyFacts DEF LoadedTree
<1>3. /\ DOMAIN node = 1..Len(node) /\ root \in DOMAIN node
      /\ \A i \in DOMAIN node : i \in 1..m \/ (m > 1 /\ i = m + 1)
      /\ m > 1 => m + 1 \in DOMAIN node
      /\ \A i \in 1..m : i \in DOMAIN node
  BY <1>2
<1>4. ASSUME NEW i \in 1..m
      PROVE  /\ node[i].leaf = TRUE /\ Len(node[i].keys) \in 1..Capacity
             /\ Len(node[i].vals) = Len(node[i].keys)
             /\ node[i].next # Nil => node[i].next \in 1..m
             /\ m > 1 => node[i].parent = m + 1
             /\ ~(m > 1) => node[i].parent = Nil
             /\ node[i].locked = FALSE /\ node[i].torn = FALSE
  <2>1. LoadedLeaf(node[i], i, n, m, v, gone)
    BY <1>2
  <2>2. WidthOf(i, n, m) \in 1..Capacity
    BY <1>2, KeyFacts DEF WidthOf
  <2>3. /\ node[i].leaf = TRUE /\ Len(node[i].keys) \in 1..Capacity
        /\ Len(node[i].vals) = Len(node[i].keys)
        /\ node[i].locked = FALSE /\ node[i].torn = FALSE
    BY <2>1, <2>2 DEF LoadedLeaf
  <2>4. node[i].next = (IF i < m THEN i + 1 ELSE Nil) /\ node[i].parent = (IF m > 1 THEN m + 1 ELSE Nil)
    BY <2>1 DEF LoadedLeaf
  <2>5. i < m => i + 1 \in 1..m
    BY <1>2
  <2>6. QED
    BY <2>3, <2>4, <2>5
<1> PICK r : r = m + 1
  OBVIOUS
<1>5. ASSUME m > 1
      PROVE  /\ r \in DOMAIN node /\ r \notin 1..m
             /\ node[r].leaf = FALSE /\ Len(node[r].keys) = m - 1 /\ Len(node[r].kids) = m
             /\ \A i \in 1..m : node[r].kids[i] = i
             /\ DOMAIN node[r].kids = 1..m
             /\ node[r].parent = Nil
             /\ node[r].locked = FALSE /\ node[r].torn = FALSE
             /\ \A i \in 1..m : node[i].parent = r
             /\ root = r
  <2>1. LoadedRoot(node[r], m) /\ r \in DOMAIN node
    BY <1>2, <1>3, <1>5
  <2>2. node[r].kids \in Seq(Nat)
    BY <1>2, <2>1, NodeFacts
  <2>3. r \notin 1..m /\ root = r
    BY <1>2, <1>5
  <2>4. \A i \in 1..m : node[i].parent = r
    BY <1>4, <1>5
  <2>5. Len(node[r].kids) = m => DOMAIN node[r].kids = 1..m
    BY <2>2
  <2>6. QED
    BY <2>1, <2>3, <2>4, <2>5 DEF LoadedRoot
<1>6. \A i \in DOMAIN node : node[i].locked = FALSE /\ node[i].torn = FALSE
  BY <1>3, <1>4, <1>5
<1>7. TreeOK
  <2>1. ASSUME NEW i \in 1..m PROVE Formed(i)
    <3>1. node[i].parent # Nil => node[i].parent \in DOMAIN node /\ ~node[node[i].parent].leaf
      <4>1. CASE m > 1
        BY <1>5, <4>1
      <4>2. CASE ~(m > 1)
        BY <1>4, <4>2
      <4>3. QED
        BY <4>1, <4>2
    <3>2. node[i].next # Nil => node[i].next \in DOMAIN node /\ node[node[i].next].leaf
      BY <1>3, <1>4
    <3>3. QED
      BY <1>4, <3>1, <3>2 DEF Formed
  <2>2. ASSUME m > 1 PROVE Formed(r)
    <3>1. m - 1 \in 1..Capacity /\ (m - 1) + 1 = m
      BY <1>2, <2>2
    <3>2. node[r].leaf = FALSE /\ Len(node[r].keys) \in 1..Capacity /\ Len(node[r].kids) = Len(node[r].keys) + 1
      BY <1>5, <2>2, <3>1
    <3>3. node[r].parent = Nil /\ \A i \in DOMAIN node[r].kids : node[r].kids[i] \in DOMAIN node
      BY <1>3, <1>5, <2>2
    <3>4. QED
      BY <3>2, <3>3 DEF Formed
  <2>3. QED
    BY <1>2, <1>3, <2>1, <2>2 DEF TreeOK
<1>8. /\ op = [p \in Procs |-> Abs!Idle] /\ seen = [p \in Procs |-> {}]
      /\ res = [p \in Procs |-> Abs!Undecided] /\ t = [p \in Threads |-> NoOp]
  BY DEF Init
<1>9. \A p \in Threads : ThreadOK(p)
  <2> SUFFICES ASSUME NEW p \in Threads PROVE ThreadOK(p)
    OBVIOUS
  <2>1. t[p] = NoOp
    BY <1>8
  <2>2. /\ t[p].pc = "idle" /\ t[p].cur = 0 /\ t[p].ver = 0 /\ t[p].nxt = 0 /\ t[p].nver = 0
        /\ t[p].left = 0 /\ t[p].right = 0 /\ t[p].par = 0 /\ t[p].sep = 0
        /\ t[p].todo = <<>> /\ t[p].held = <<>> /\ t[p].after = "done" /\ t[p].moved = FALSE
    BY <2>1 DEF NoOp, Nil
  <2>3. <<>> \in Seq(Nat)
    OBVIOUS
  <2>4. QED
    BY <2>1, <2>2, <2>3 DEF ThreadOK, Places, Outside, AtRoot, AtInner, AtLeaf, Reading
<1>10. \A p \in Procs : t[p].pc = "idle" /\ t[p].after = "done"
  BY <1>8 DEF Threads, NoOp
<1>11. \A p \in Procs : OpOK(p)
  <2> SUFFICES ASSUME NEW p \in Procs PROVE OpOK(p)
    OBVIOUS
  <2>1. op[p] = Abs!Idle /\ seen[p] = {} /\ res[p] = Abs!Undecided
    BY <1>8
  <2>2. QED
    BY <1>10, <2>1 DEF OpOK, AtRoot, AtInner, Reading, Climbing, Parents, Ending
<1>12. TypesOK
  BY <1>7, <1>8, <1>9, <1>11 DEF TypesOK
<1>13. \A p \in Procs : ~Splitting(p) /\ \A i : ~Owns(p, i)
  BY <1>10 DEF Splitting, Owns, Climbing, Parents, Ending
<1>14. LocksOK
  <2>1. \A p \in Procs : HeldOK(p) /\ SplitOK(p)
    BY <1>10, <1>13 DEF HeldOK, SplitOK, Ending
  <2>2. QED
    BY <1>6, <1>13, <2>1 DEF LocksOK
<1>15. ShapeOK
  <2>1. ASSUME NEW i \in DOMAIN node \ Leaves
        PROVE  /\ \A a \in DOMAIN node[i].kids : node[node[i].kids[a]].parent = i
               /\ \A a, b \in DOMAIN node[i].kids : node[i].kids[a] = node[i].kids[b] => a = b
    <3>1. m > 1 /\ i = r
      BY <1>3, <1>4 DEF Leaves
    <3>2. QED
      BY <1>4, <1>5, <3>1
  <2>2. node[root].parent = Nil
    <3>1. CASE m > 1
      BY <1>5, <3>1
    <3>2. CASE ~(m > 1)
      <4>1. root \in 1..m
        BY <1>2, <3>2
      <4>2. QED
        BY <1>4, <3>2, <4>1
    <3>3. QED
      BY <3>1, <3>2
  <2>3. \A i \in DOMAIN node : node[i].parent # i /\ (node[i].parent = Nil => i = root)
    <3>1. CASE m > 1
      <4>1. \A i \in DOMAIN node : i \in 1..m \/ i = r
        BY <1>3
      <4>2. r # Nil
        BY <1>2, <3>1 DEF Nil
      <4>3. QED
        BY <1>5, <3>1, <4>1, <4>2
    <3>2. CASE ~(m > 1)
      <4>1. \A i \in DOMAIN node : i \in 1..m /\ i = root /\ i # Nil
        BY <1>2, <1>3, <3>2 DEF Nil
      <4>2. QED
        BY <1>4, <3>2, <4>1
    <3>3. QED
      BY <3>1, <3>2
  <2>4. QED
    BY <2>1, <2>2, <2>3 DEF ShapeOK
<1>16. QED
  BY <1>12, <1>14, <1>15 DEF Core

LEMMA IdleCore ==
  ASSUME Core, UNCHANGED vars
  PROVE  Core'
<1>1. UNCHANGED <<node, root, size_est, op, seen, res, t>>
  BY DEF vars, tree, opvars
<1>2. TypesOK'
  BY <1>1 DEF Core, TypesOK, TreeOK, Formed, ThreadOK, OpOK
<1>3. LocksOK'
  BY <1>1 DEF Core, LocksOK, HeldOK, SplitOK, Owns, Tearing, Splitting, Full
<1>4. ShapeOK'
  BY <1>1 DEF Core, ShapeOK, Leaves, Splitting
<1>5. QED
  BY <1>2, <1>3, <1>4 DEF Core

LEMMA NextCore ==
  ASSUME Core, Next
  PROVE  Core'
<1>1. CASE \E p \in Procs : Start(p)
  BY <1>1, StartCore DEF Threads
<1>2. CASE \E s \in Scanners : StartScan(s)
  BY <1>2, StartScanCore DEF Threads
<1>3. CASE \E p \in Threads : Step(p)
  <2> SUFFICES ASSUME NEW p \in Threads, Step(p) PROVE Core'
    BY <1>3
  <2>1. CASE \/ LoadRoot(p) \/ LoadRootVersion(p) \/ CheckRoot(p)
             \/ FindChild(p) \/ LoadChildVersion(p) \/ CheckChildLocked(p) \/ CheckChildVersion(p)
    BY <2>1, SearchCore
  <2>2. CASE \/ WalkVersion(p) \/ WalkNext(p)
             \/ ReadLeaf(p) \/ ScanLeaf(p) \/ CheckLocked(p) \/ CheckChanged(p)
             \/ ScanVersion(p)
    BY <2>2, WalkCore
  <2>3. CASE Accept(p)
    BY <2>3, AcceptCore
  <2>4. CASE ScanAccept(p)
    BY <2>4, ScanAcceptCore
  <2>5. CASE LockLeaf(p)
    BY <2>5, LockLeafCore
  <2>6. CASE LockedStale(p)
    BY <2>6, LockedStaleCore
  <2>7. CASE WriteInPlace(p)
    BY <2>7, WriteInPlaceCore
  <2>8. CASE NotFound(p)
    BY <2>8, NotFoundCore
  <2>9. CASE Overwrite(p)
    BY <2>9, OverwriteCore
  <2>10. CASE Shift(p)
    BY <2>10, ShiftCore
  <2>11. CASE SplitLeaf(p)
    BY <2>11, SplitLeafCore
  <2>12. CASE LoadParent(p)
    BY <2>12, LoadParentCore
  <2>13. CASE LockParent(p)
    BY <2>13, LockParentCore
  <2>14. CASE CheckParent(p)
    BY <2>14, CheckParentCore
  <2>15. CASE NewRoot(p)
    BY <2>15, NewRootCore
  <2>16. CASE InsertParent(p)
    BY <2>16, InsertParentCore
  <2>17. CASE SplitParent(p)
    BY <2>17, SplitParentCore
  <2>18. CASE Bump(p)
    BY <2>18, BumpCore
  <2>19. CASE Unlock(p)
    BY <2>19, UnlockCore
  <2>20. CASE Count(p)
    BY <2>20, CountCore
  <2>21. CASE Finish(p)
    BY <2>21, FinishCore
  <2>22. QED
    BY <2>1, <2>2, <2>3, <2>4, <2>5, <2>6, <2>7, <2>8, <2>9, <2>10, <2>11, <2>12, <2>13, <2>14,
       <2>15, <2>16, <2>17, <2>18, <2>19, <2>20, <2>21 DEF Step
<1>4. QED
  BY <1>1, <1>2, <1>3 DEF Next

LEMMA CoreInvariant == Spec => []Core
<1>1. Init => Core
  BY InitCore
<1>2. Core /\ [Next]_vars => Core'
  BY NextCore, IdleCore
<1>3. QED
  BY <1>1, <1>2, PTL DEF Spec

-----------------------------------------------------------------------------
(* Results *)

LEMMA SeqSetOf ==
  ASSUME NEW S, NEW s \in Seq(S), NEW T, \A i \in DOMAIN s : s[i] \in T
  PROVE  ToSet(s) \subseteq T
  BY DEF ToSet

LEMMA CoreTypes ==
  ASSUME Core
  PROVE  TypeOK
<1>1. /\ node \in Seq(Node) /\ root \in DOMAIN node /\ size_est \in Nat
      /\ \A n \in DOMAIN node : Formed(n)
      /\ \A p \in Procs : OpOK(p)
  BY DEF Core, TypesOK, TreeOK
<1>2. ASSUME NEW n \in DOMAIN node
      PROVE  /\ node[n].leaf \in BOOLEAN /\ node[n].keys \in Seq(Keys)
             /\ Len(node[n].keys) \in 1..Capacity
             /\ node[n].leaf =>
                  /\ node[n].vals \in [DOMAIN node[n].keys -> Values \union {None}]
                  /\ node[n].next \in {Nil} \union Leaves
             /\ ~node[n].leaf =>
                  /\ Len(node[n].kids) = Len(node[n].keys) + 1
                  /\ ToSet(node[n].kids) \subseteq DOMAIN node
             /\ node[n].parent \in {Nil} \union (DOMAIN node \ Leaves)
             /\ node[n].locked \in BOOLEAN /\ node[n].torn \in BOOLEAN /\ node[n].version \in Nat
  <2>1. Formed(n) /\ node[n] \in Node
    BY <1>1
  <2>2. PICK r \in Node : r = node[n]
    BY <2>1
  <2>3. /\ r.leaf \in BOOLEAN /\ r.keys \in Seq(Keys) /\ r.vals \in Seq(Maybe) /\ r.kids \in Seq(Nat)
        /\ r.locked \in BOOLEAN /\ r.torn \in BOOLEAN /\ r.version \in Nat
    BY DEF Node
  <2>4. node[n].leaf => node[n].vals \in [DOMAIN node[n].keys -> Values \union {None}]
    <3>1. r.leaf => Len(r.vals) = Len(r.keys)
      BY <2>1, <2>2 DEF Formed
    <3>2. DOMAIN r.keys = 1..Len(r.keys) /\ r.vals \in [1..Len(r.vals) -> Maybe]
      BY <2>3
    <3>3. QED
      BY <2>2, <3>1, <3>2 DEF Maybe
  <2>5. node[n].leaf => node[n].next \in {Nil} \union Leaves
    BY <2>1 DEF Formed, Leaves
  <2>6. ~node[n].leaf => ToSet(node[n].kids) \subseteq DOMAIN node
    BY <2>1, <2>2, <2>3, SeqSetOf DEF Formed
  <2>7. node[n].parent \in {Nil} \union (DOMAIN node \ Leaves)
    BY <2>1 DEF Formed, Leaves
  <2>8. Len(node[n].keys) \in 1..Capacity /\ (~node[n].leaf => Len(node[n].kids) = Len(node[n].keys) + 1)
    BY <2>1 DEF Formed
  <2>9. QED
    BY <2>2, <2>3, <2>4, <2>5, <2>6, <2>7, <2>8
<1>3. QED
  BY <1>1, <1>2 DEF TypeOK, OpOK, Maybe

\* Leaves and internal nodes have the shape their kind calls for, whatever the
\* order in which writers insert, split nodes on the way up and grow the tree.
THEOREM BufferTypeCorrect == Spec => []TypeOK
<1>1. Core => TypeOK
  BY CoreTypes
<1>2. QED
  BY <1>1, CoreInvariant, PTL

\* A lock has one owner, which holds it until the versions of all nodes it
\* changed are incremented; a split that climbs finds the parent it hangs from,
\* and its right half is the only node outside the tree.
THEOREM BufferStructure == Spec => [](LocksOK /\ ShapeOK)
<1>1. Core => LocksOK /\ ShapeOK
  BY DEF Core
<1>2. QED
  BY <1>1, CoreInvariant, PTL
=============================================================================
