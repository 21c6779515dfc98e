----------------------------- MODULE LinkedLists ----------------------------
(***************************************************************************)
(* Lists linked through a `next' field and reached from an array of heads,   *)
(* as the groups of XIndex are: which nodes are reached, and what replacing  *)
(* nodes of a list does to that.  hd[i] is the node in slot i and nx[g] the   *)
(* node after g; 0 stands for nullptr.  XIndexGroupProofs uses it.           *)
(***************************************************************************)
EXTENDS Integers, Sequences, WellFoundedInduction, TLAPS

ClosedUnder(hd, nx, S) ==
  /\ \A i \in DOMAIN hd : hd[i] \in S \union {0}
  /\ \A g \in S : nx[g] \in S \union {0}

\* The nodes that can be reached: the least set that holds the heads and, with
\* a node, the one after it.
ReachOf(hd, nx) ==
  {g \in DOMAIN nx : \A S \in SUBSET DOMAIN nx : ClosedUnder(hd, nx, S) => g \in S}

\* hd and nx lead to nodes.
Linking(hd, nx) == 0 \notin DOMAIN nx /\ ClosedUnder(hd, nx, DOMAIN nx)

\* Each node reached is referenced once: from a slot or from the one before it.
LinkedOnce(hd, nx) ==
  LET R == ReachOf(hd, nx)
  IN  /\ \A i, j \in DOMAIN hd : i # j /\ hd[i] = hd[j] => hd[i] = 0
      /\ \A i \in DOMAIN hd, g \in R : hd[i] # 0 => nx[g] # hd[i]
      /\ \A g, h \in R : g # h /\ nx[g] = nx[h] => nx[g] = 0

-----------------------------------------------------------------------------
(* Sets of numbers and sequences.                                           *)

LEMMA LeastNat ==
  ASSUME NEW S \in SUBSET Nat, S # {}
  PROVE  \E k \in S : \A j \in S : k <= j
<1>1. PICK R : R = {ss \in Nat \X Nat : ss[1] < ss[2]}
  OBVIOUS
<1>2. IsWellFoundedOn(R, Nat)
  BY <1>1, NatLessThanWellFounded DEF OpToRel
<1>3. PICK x \in S : \A y \in S : ~ (<<y, x>> \in R)
  BY <1>2, WFMin
<1>4. \A y \in S : ~ (y < x)
  BY <1>1, <1>3
<1>5. QED
  BY <1>3, <1>4

LEMMA GreatestUpTo ==
  ASSUME NEW n \in Nat, NEW S \in SUBSET (1..n), S # {}
  PROVE  \E k \in S : \A j \in S : j <= k
<1> DEFINE T == {n - k : k \in S}
<1>1. T \in SUBSET Nat /\ T # {}
  <2>1. \A k \in S : n - k \in Nat
    OBVIOUS
  <2>2. QED
    BY <2>1
<1>2. PICK m \in T : \A j \in T : m <= j
  <2> HIDE DEF T
  <2> QED BY <1>1, LeastNat
<1>3. PICK k \in S : m = n - k
  OBVIOUS
<1>4. \A j \in S : n - k <= n - j
  BY <1>2, <1>3
<1>5. QED
  BY <1>3, <1>4

IsSeq(s) == \E S : s \in Seq(S)

LEMMA SeqAppend ==
  ASSUME NEW s, NEW x, IsSeq(s)
  PROVE  /\ IsSeq(Append(s, x))
         /\ Len(s) \in Nat /\ DOMAIN s = 1..Len(s)
         /\ Len(Append(s, x)) = Len(s) + 1
         /\ DOMAIN Append(s, x) = 1..(Len(s) + 1)
         /\ \A i \in 1..Len(s) : Append(s, x)[i] = s[i]
         /\ Append(s, x)[Len(s) + 1] = x
<1>1. PICK S : s \in Seq(S)
  BY DEF IsSeq
<1>2. s \in Seq(S \union {x})
  BY <1>1
<1>3. QED
  BY <1>2 DEF IsSeq

LEMMA SeqAppendTwo ==
  ASSUME NEW s, NEW x, NEW y, IsSeq(s)
  PROVE  /\ IsSeq(s \o <<x, y>>)
         /\ Len(s \o <<x, y>>) = Len(s) + 2
         /\ DOMAIN (s \o <<x, y>>) = 1..(Len(s) + 2)
         /\ \A i \in 1..Len(s) : (s \o <<x, y>>)[i] = s[i]
         /\ (s \o <<x, y>>)[Len(s) + 1] = x
         /\ (s \o <<x, y>>)[Len(s) + 2] = y
<1>1. PICK S : s \in Seq(S)
  BY DEF IsSeq
<1>2. s \in Seq(S \union {x, y}) /\ <<x, y>> \in Seq(S \union {x, y})
  BY <1>1
<1>3. QED
  BY <1>2 DEF IsSeq

LEMMA SeqLike ==
  ASSUME NEW s, NEW u, IsSeq(s), u = [i \in DOMAIN s |-> u[i]]
  PROVE  IsSeq(u) /\ Len(u) = Len(s) /\ DOMAIN u = DOMAIN s
<1>1. PICK S : s \in Seq(S)
  BY DEF IsSeq
<1>2. Len(s) \in Nat /\ DOMAIN s = 1..Len(s)
  BY <1>1
<1>3. u \in [1..Len(s) -> {u[i] : i \in 1..Len(s)}]
  BY <1>2
<1>4. u \in Seq({u[i] : i \in 1..Len(s)}) /\ Len(u) = Len(s)
  BY <1>2, <1>3
<1>5. QED
  BY <1>2, <1>3, <1>4 DEF IsSeq

LEMMA SeqTable ==
  ASSUME NEW n \in Nat, NEW f, f = [i \in 1..n |-> f[i]]
  PROVE  IsSeq(f) /\ Len(f) = n /\ DOMAIN f = 1..n
<1>1. f \in [1..n -> {f[i] : i \in 1..n}]
  OBVIOUS
<1>2. f \in Seq({f[i] : i \in 1..n}) /\ DOMAIN f = 1..n
  BY <1>1
<1>3. Len(f) = n
  BY <1>2
<1>4. QED
  BY <1>2, <1>3 DEF IsSeq

LEMMA SeqShape ==
  ASSUME NEW s, IsSeq(s)
  PROVE  /\ Len(s) \in Nat /\ DOMAIN s = 1..Len(s) /\ s = [i \in 1..Len(s) |-> s[i]]
         /\ s = <<>> <=> Len(s) = 0
BY DEF IsSeq

-----------------------------------------------------------------------------
(* Reachability.                                                            *)

LEMMA ReachLeast ==
  ASSUME NEW hd, NEW nx, NEW S \in SUBSET DOMAIN nx, ClosedUnder(hd, nx, S)
  PROVE  ReachOf(hd, nx) \subseteq S
BY DEF ReachOf

LEMMA ReachClosed ==
  ASSUME NEW hd, NEW nx, Linking(hd, nx)
  PROVE  /\ ReachOf(hd, nx) \subseteq DOMAIN nx
         /\ ClosedUnder(hd, nx, ReachOf(hd, nx))
         /\ 0 \notin ReachOf(hd, nx)
<1> DEFINE R == ReachOf(hd, nx)
<1>1. R \subseteq DOMAIN nx /\ 0 \notin R
  BY DEF ReachOf, Linking
<1>2. \A i \in DOMAIN hd : hd[i] \in R \union {0}
  BY DEF ReachOf, Linking, ClosedUnder
<1>3. \A g \in R : nx[g] \in R \union {0}
  BY DEF ReachOf, Linking, ClosedUnder
<1>4. QED
  BY <1>1, <1>2, <1>3 DEF ClosedUnder

\* A node that is reached is a head or follows another one.
LEMMA ReachCovered ==
  ASSUME NEW hd, NEW nx, Linking(hd, nx), NEW g \in ReachOf(hd, nx)
  PROVE  \/ \E i \in DOMAIN hd : hd[i] = g
         \/ \E h \in ReachOf(hd, nx) \ {g} : nx[h] = g
<1> DEFINE R == ReachOf(hd, nx)
<1> SUFFICES ASSUME \A i \in DOMAIN hd : hd[i] # g,
                    \A h \in R \ {g} : nx[h] # g
             PROVE  FALSE
  OBVIOUS
<1>1. R \subseteq DOMAIN nx /\ ClosedUnder(hd, nx, R)
  BY ReachClosed
<1>2. ClosedUnder(hd, nx, R \ {g})
  BY <1>1 DEF ClosedUnder
<1>3. R \subseteq R \ {g}
  BY <1>1, <1>2, ReachLeast
<1>4. QED
  BY <1>3

\* No node follows itself, and no two follow each other.
LEMMA NoLoop ==
  ASSUME NEW hd, NEW nx, Linking(hd, nx), LinkedOnce(hd, nx),
         NEW t \in ReachOf(hd, nx), nx[t] # 0
  PROVE  nx[t] # t /\ nx[t] \in ReachOf(hd, nx) /\ nx[nx[t]] # t
<1> DEFINE R == ReachOf(hd, nx)
           u == nx[t]
<1>1. R \subseteq DOMAIN nx /\ ClosedUnder(hd, nx, R) /\ 0 \notin R
  BY ReachClosed
<1>2. u \in R
  BY <1>1 DEF ClosedUnder
<1>3. u # t
  <2> SUFFICES ASSUME u = t PROVE FALSE
    OBVIOUS
  <2>1. CASE \E i \in DOMAIN hd : hd[i] = t
    BY <2>1, <1>1 DEF LinkedOnce
  <2>2. CASE \E h \in R \ {t} : nx[h] = t
    BY <2>2, <1>1 DEF LinkedOnce
  <2>3. QED
    BY <2>1, <2>2, ReachCovered
<1>4. nx[u] # t
  <2> SUFFICES ASSUME nx[u] = t PROVE FALSE
    OBVIOUS
  <2>1. \A i \in DOMAIN hd : hd[i] # t /\ hd[i] # u
    BY <1>1, <1>2 DEF LinkedOnce
  <2>2. \A h \in R \ {t, u} : nx[h] # t /\ nx[h] # u
    BY <1>1, <1>2 DEF LinkedOnce
  <2>3. ClosedUnder(hd, nx, R \ {t, u})
    BY <1>1, <2>1, <2>2 DEF ClosedUnder
  <2>4. R \subseteq R \ {t, u}
    BY <1>1, <2>3, ReachLeast
  <2>5. QED
    BY <2>4
<1>5. QED
  BY <1>2, <1>3, <1>4

\* Changing what is not reached changes nothing.
LEMMA SameReach ==
  ASSUME NEW hd, NEW nx, NEW nx2, Linking(hd, nx), Linking(hd, nx2),
         DOMAIN nx \subseteq DOMAIN nx2,
         \A g \in ReachOf(hd, nx) : nx2[g] = nx[g]
  PROVE  /\ ReachOf(hd, nx2) = ReachOf(hd, nx)
         /\ LinkedOnce(hd, nx) => LinkedOnce(hd, nx2)
<1> DEFINE R == ReachOf(hd, nx)
           R2 == ReachOf(hd, nx2)
<1>1. R \subseteq DOMAIN nx /\ ClosedUnder(hd, nx, R)
  BY ReachClosed
<1>2. R2 \subseteq DOMAIN nx2 /\ ClosedUnder(hd, nx2, R2)
  BY ReachClosed
<1>3. R2 \subseteq R
  <2>1. ClosedUnder(hd, nx2, R)
    BY <1>1 DEF ClosedUnder
  <2>2. QED
    BY <1>1, <2>1, ReachLeast
<1>4. R \subseteq R2
  <2>1. ClosedUnder(hd, nx, R \intersect R2)
    BY <1>1, <1>2 DEF ClosedUnder
  <2>2. R \subseteq R \intersect R2
    BY <1>1, <2>1, ReachLeast
  <2>3. QED
    BY <2>2
<1>5. QED
  BY <1>3, <1>4 DEF LinkedOnce

\* When the heads are all there is, that is what is reached.
LEMMA HeadsReach ==
  ASSUME NEW hd, NEW nx, NEW R, Linking(hd, nx), R \subseteq DOMAIN nx, 0 \notin R,
         \A i \in DOMAIN hd : hd[i] \in R,
         \A g \in R : \E i \in DOMAIN hd : hd[i] = g,
         \A g \in R : nx[g] \in R \union {0}
  PROVE  ReachOf(hd, nx) = R
<1>1. ReachOf(hd, nx) \subseteq R
  <2>1. ClosedUnder(hd, nx, R)
    BY DEF ClosedUnder
  <2>2. QED
    BY <2>1, ReachLeast
<1>2. R \subseteq ReachOf(hd, nx)
  BY ReachClosed DEF ClosedUnder
<1>3. QED
  BY <1>1, <1>2

\* Nodes f to l (one node, or two) take the place of t to u (one, or two).  The
\* reference to t is in a slot, or is the next of a node that is reached.
Splices(hd, nx, hd2, nx2, t, u, f, l, in, r) ==
  /\ Linking(hd, nx) /\ LinkedOnce(hd, nx) /\ Linking(hd2, nx2)
  /\ DOMAIN hd2 = DOMAIN hd /\ DOMAIN nx \subseteq DOMAIN nx2
  /\ f \in DOMAIN nx2 \ DOMAIN nx /\ l \in DOMAIN nx2 \ DOMAIN nx
  /\ t \in ReachOf(hd, nx)
  /\ u = t \/ (u = nx[t] /\ u # 0)
  /\ in = "slot" => r \in DOMAIN hd /\ hd[r] = t
  /\ in # "slot" => r \in ReachOf(hd, nx) /\ nx[r] = t
  /\ \A i \in DOMAIN hd : hd2[i] = IF in = "slot" /\ i = r THEN f ELSE hd[i]
  /\ \A g \in DOMAIN nx : nx2[g] = IF in # "slot" /\ g = r THEN f ELSE nx[g]
  /\ f # l => nx2[f] = l
  /\ nx2[l] = nx[u]

LEMMA Splice ==
  ASSUME NEW hd, NEW nx, NEW hd2, NEW nx2, NEW t, NEW u, NEW f, NEW l, NEW in, NEW r,
         Splices(hd, nx, hd2, nx2, t, u, f, l, in, r)
  PROVE  /\ ReachOf(hd2, nx2) = (ReachOf(hd, nx) \ {t, u}) \union {f, l}
         /\ LinkedOnce(hd2, nx2)
         /\ in # "slot" => r \notin {t, u}
<1> DEFINE R == ReachOf(hd, nx)
           R2 == ReachOf(hd2, nx2)
           N == (R \ {t, u}) \union {f, l}
<1> PICK inSlot \in BOOLEAN : inSlot <=> in = "slot"
  OBVIOUS
<1> /\ Linking(hd, nx) /\ LinkedOnce(hd, nx) /\ Linking(hd2, nx2)
    /\ DOMAIN hd2 = DOMAIN hd /\ DOMAIN nx \subseteq DOMAIN nx2
    /\ f \in DOMAIN nx2 \ DOMAIN nx /\ l \in DOMAIN nx2 \ DOMAIN nx
    /\ t \in ReachOf(hd, nx)
    /\ u = t \/ (u = nx[t] /\ u # 0)
    /\ inSlot => r \in DOMAIN hd /\ hd[r] = t
    /\ ~inSlot => r \in ReachOf(hd, nx) /\ nx[r] = t
    /\ \A i \in DOMAIN hd : hd2[i] = IF inSlot /\ i = r THEN f ELSE hd[i]
    /\ \A g \in DOMAIN nx : nx2[g] = IF ~inSlot /\ g = r THEN f ELSE nx[g]
    /\ f # l => nx2[f] = l
    /\ nx2[l] = nx[u]
  BY DEF Splices
<1>1. R \subseteq DOMAIN nx /\ ClosedUnder(hd, nx, R) /\ 0 \notin R
  BY ReachClosed
<1>0. {f, l} \intersect (R \union {0}) = {}
  BY <1>1 DEF Linking
<1>2. u \in R
  BY <1>1 DEF ClosedUnder
<1>3. /\ \A i \in DOMAIN hd : hd[i] = t => inSlot /\ i = r
      /\ \A g \in R : nx[g] = t => ~inSlot /\ g = r
  BY <1>1 DEF LinkedOnce
<1>4. u # t => /\ \A i \in DOMAIN hd : hd[i] # u
               /\ \A g \in R : nx[g] = u => g = t
  BY <1>1, <1>2 DEF LinkedOnce
<1>5. ~inSlot => r \notin {t, u}
  BY <1>1, <1>2, NoLoop
<1>6. nx[u] \in (R \ {t, u}) \union {0}
  <2>1. nx[u] \in R \union {0}
    BY <1>1, <1>2 DEF ClosedUnder
  <2>2. nx[u] # 0 => nx[u] # u /\ nx[u] # t
    BY <1>1, <1>2, NoLoop
  <2>3. QED
    BY <2>1, <2>2
<1>7. \A g \in R \ {t, u} : /\ nx2[g] = f \/ (nx2[g] = nx[g] /\ nx[g] \in (R \ {t, u}) \union {0})
                            /\ nx2[g] = f => ~inSlot /\ g = r
  BY <1>0, <1>1, <1>3, <1>4 DEF ClosedUnder
<1>8. \A i \in DOMAIN hd : /\ hd2[i] = f \/ (hd2[i] = hd[i] /\ hd[i] \in (R \ {t, u}) \union {0})
                           /\ hd2[i] = f => inSlot /\ i = r
  BY <1>0, <1>1, <1>3, <1>4 DEF ClosedUnder
<1>9. R2 \subseteq N
  <2>1. ClosedUnder(hd2, nx2, N)
    BY <1>6, <1>7, <1>8 DEF ClosedUnder
  <2>2. N \subseteq DOMAIN nx2
    BY <1>1
  <2>3. QED
    BY <2>1, <2>2, ReachLeast
<1>10. N \subseteq R2
  <2>1. R2 \subseteq DOMAIN nx2 /\ ClosedUnder(hd2, nx2, R2)
    BY ReachClosed
  <2>2. f \in R2
    <3>1. CASE inSlot
      BY <3>1, <2>1 DEF ClosedUnder, Linking
    <3>2. CASE ~inSlot
      <4> SUFFICES ASSUME f \notin R2 PROVE FALSE
        OBVIOUS
      <4>1. r \notin R2
        BY <3>2, <1>1, <2>1, f # 0 DEF ClosedUnder, Linking
      <4>2. ClosedUnder(hd, nx, R2 \intersect R)
        BY <4>1, <3>2, <1>1, <2>1 DEF ClosedUnder
      <4>3. R \subseteq R2 \intersect R
        BY <4>2, <1>1, ReachLeast
      <4>4. QED
        BY <3>2, <4>1, <4>3
    <3>3. QED
      BY <3>1, <3>2
  <2>3. l \in R2
    BY <2>1, <2>2 DEF ClosedUnder, Linking
  <2>4. ClosedUnder(hd, nx, (R2 \intersect R) \union {t, u})
    <3>1. \A i \in DOMAIN hd : hd[i] \in (R2 \intersect R) \union {t, u, 0}
      BY <1>1, <1>8, <2>1 DEF ClosedUnder
    <3>2. \A g \in R2 \intersect R : nx[g] \in (R2 \intersect R) \union {t, u, 0}
      BY <1>1, <2>1 DEF ClosedUnder
    <3>3. nx[u] \in (R2 \intersect R) \union {t, u, 0}
      BY <1>6, <2>1, <2>3 DEF ClosedUnder
    <3>4. nx[t] \in (R2 \intersect R) \union {t, u, 0}
      BY <3>3
    <3>5. QED
      BY <3>1, <3>2, <3>3, <3>4 DEF ClosedUnder
  <2>5. R \subseteq (R2 \intersect R) \union {t, u}
    BY <1>1, <1>2, <2>4, ReachLeast
  <2>6. QED
    BY <2>2, <2>3, <2>5
<1>11. R2 = N
  BY <1>9, <1>10
<1>12. LinkedOnce(hd2, nx2)
  <2>1. \A i, j \in DOMAIN hd : i # j /\ hd2[i] = hd2[j] => hd2[i] = 0
    BY <1>1, <1>8 DEF LinkedOnce
  <2>2. \A i \in DOMAIN hd, g \in R \ {t, u} : hd2[i] # 0 => nx2[g] # hd2[i]
    BY <1>1, <1>7, <1>8 DEF LinkedOnce
  <2>3. \A i \in DOMAIN hd : hd2[i] # 0 => nx[u] # hd2[i] /\ (f # l => l # hd2[i])
    BY <1>1, <1>2, <1>6, <1>8 DEF LinkedOnce
  <2>4. \A g, h \in R \ {t, u} : g # h /\ nx2[g] = nx2[h] => nx2[g] = 0
    BY <1>1, <1>7 DEF LinkedOnce
  <2>5. \A g \in R \ {t, u} : (nx2[g] = nx[u] => nx[u] = 0) /\ (f # l => nx2[g] # l)
    BY <1>0, <1>1, <1>2, <1>6, <1>7 DEF LinkedOnce
  <2>6. f # l => nx[u] # l
    BY <1>0, <1>6
  <2>7. QED
    BY <1>11, <2>1, <2>2, <2>3, <2>4, <2>5, <2>6 DEF LinkedOnce
<1>13. QED
  BY <1>5, <1>6, <1>11, <1>12

\* The list of slot q.
ChainOf(hd, nx, q) == ReachOf([j \in {q} |-> hd[q]], nx)

LEMMA ChainLeast ==
  ASSUME NEW hd, NEW nx, NEW q \in DOMAIN hd, NEW S \in SUBSET DOMAIN nx,
         hd[q] \in S \union {0}, \A g \in S : nx[g] \in S \union {0}
  PROVE  ChainOf(hd, nx, q) \subseteq S
<1>1. ClosedUnder([j \in {q} |-> hd[q]], nx, S)
  BY DEF ClosedUnder
<1>2. QED
  BY <1>1, ReachLeast DEF ChainOf

LEMMA ChainClosed ==
  ASSUME NEW hd, NEW nx, NEW q \in DOMAIN hd, Linking(hd, nx)
  PROVE  LET C == ChainOf(hd, nx, q)
         IN  /\ C \subseteq ReachOf(hd, nx) /\ C \subseteq DOMAIN nx
             /\ hd[q] \in C \union {0}
             /\ \A g \in C : nx[g] \in C \union {0}
             /\ \A g \in C : g = hd[q] \/ \E h \in C \ {g} : nx[h] = g
<1> DEFINE one == [j \in {q} |-> hd[q]]
           C == ReachOf(one, nx)
<1>1. Linking(one, nx)
  BY DEF Linking, ClosedUnder
<1>2. C \subseteq DOMAIN nx /\ ClosedUnder(one, nx, C)
  BY <1>1, ReachClosed
<1>3. hd[q] \in C \union {0} /\ \A g \in C : nx[g] \in C \union {0}
  BY <1>2 DEF ClosedUnder
<1>5. C \subseteq ReachOf(hd, nx)
  <2>1. ReachOf(hd, nx) \subseteq DOMAIN nx /\ ClosedUnder(hd, nx, ReachOf(hd, nx))
    BY ReachClosed
  <2>2. ClosedUnder(one, nx, ReachOf(hd, nx))
    BY <2>1 DEF ClosedUnder
  <2>3. QED
    BY <2>1, <2>2, ReachLeast
<1>6. \A g \in C : g = hd[q] \/ \E h \in C \ {g} : nx[h] = g
  BY <1>1, ReachCovered
<1>7. QED
  BY <1>2, <1>3, <1>5, <1>6 DEF ChainOf

LEMMA ChainsDisjoint ==
  ASSUME NEW hd, NEW nx, Linking(hd, nx), LinkedOnce(hd, nx),
         NEW q \in DOMAIN hd, NEW s \in DOMAIN hd, q # s
  PROVE  ChainOf(hd, nx, q) \intersect ChainOf(hd, nx, s) = {}
<1> DEFINE C == ChainOf(hd, nx, q)
           D == ChainOf(hd, nx, s)
<1>0. ReachOf(hd, nx) \subseteq DOMAIN nx /\ 0 \notin ReachOf(hd, nx)
  BY ReachClosed
<1>1. C \subseteq ReachOf(hd, nx) /\ D \subseteq ReachOf(hd, nx)
  BY ChainClosed
<1>2. hd[q] \in (C \ D) \union {0}
  <2>1. hd[q] \in C \union {0}
    BY ChainClosed
  <2>2. hd[q] # 0 => hd[q] \notin D
    <3> SUFFICES ASSUME hd[q] # 0, hd[q] \in D PROVE FALSE
      OBVIOUS
    <3>1. hd[q] = hd[s] \/ \E h \in D : nx[h] = hd[q]
      BY ChainClosed
    <3>2. QED
      BY <3>1, <1>1 DEF LinkedOnce
  <2>3. QED
    BY <2>1, <2>2
<1>3. \A g \in C \ D : nx[g] \in (C \ D) \union {0}
  <2> SUFFICES ASSUME NEW g \in C \ D, nx[g] # 0 PROVE nx[g] \in C \ D
    OBVIOUS
  <2>1. nx[g] \in C
    BY ChainClosed
  <2>2. ASSUME nx[g] \in D PROVE FALSE
    <3>1. nx[g] = hd[s] \/ \E h \in D : nx[h] = nx[g]
      BY <2>2, ChainClosed
    <3>2. QED
      BY <3>1, <1>1 DEF LinkedOnce
  <2>3. QED
    BY <2>1, <2>2
<1>4. PICK E : E = C \ D
  OBVIOUS
<1>5. C \subseteq E
  BY <1>0, <1>1, <1>2, <1>3, <1>4, ChainLeast
<1>6. QED
  BY <1>4, <1>5

\* The nodes of a list up to r stay when nothing before r changes.
LEMMA ChainKeeps ==
  ASSUME NEW hd, NEW nx, NEW hd2, NEW nx2, NEW q \in DOMAIN hd, NEW r,
         Linking(hd, nx), Linking(hd2, nx2), q \in DOMAIN hd2, hd2[q] = hd[q],
         r \in ChainOf(hd, nx, q),
         \A g \in ChainOf(hd, nx, q) \ {r} : nx2[g] = nx[g]
  PROVE  r \in ChainOf(hd2, nx2, q)
<1> DEFINE C == ChainOf(hd, nx, q)
           D == ChainOf(hd2, nx2, q)
<1> SUFFICES ASSUME r \notin D PROVE FALSE
  OBVIOUS
<1>1. C \subseteq DOMAIN nx
  BY ChainClosed
<1>2. hd[q] \in (C \intersect D) \union {0}
  BY ChainClosed
<1>3. \A g \in C \intersect D : nx[g] \in (C \intersect D) \union {0}
  BY ChainClosed
<1>4. C \subseteq C \intersect D
  BY <1>1, <1>2, <1>3, ChainLeast
<1>5. QED
  BY <1>4

\* Node f takes the place of t, the last of the list in slot q, and of o, the
\* first of the list in slot s, which becomes empty.
Joins(hd, nx, hd2, nx2, t, o, q, s, f, in, r) ==
  /\ Linking(hd, nx) /\ LinkedOnce(hd, nx) /\ Linking(hd2, nx2)
  /\ DOMAIN hd2 = DOMAIN hd /\ DOMAIN nx \subseteq DOMAIN nx2
  /\ f \in DOMAIN nx2 \ DOMAIN nx
  /\ t \in ReachOf(hd, nx) /\ nx[t] = 0 /\ o # 0
  /\ q \in DOMAIN hd /\ s \in DOMAIN hd /\ q # s /\ hd[s] = o
  /\ in = "slot" => r = q /\ hd[q] = t
  /\ in # "slot" => r \in ChainOf(hd, nx, q) /\ nx[r] = t
  /\ \A i \in DOMAIN hd : hd2[i] = IF in = "slot" /\ i = q THEN f
                                  ELSE IF i = s THEN 0 ELSE hd[i]
  /\ \A g \in DOMAIN nx : nx2[g] = IF in # "slot" /\ g = r THEN f ELSE nx[g]
  /\ nx2[f] = nx[o]

LEMMA Join ==
  ASSUME NEW hd, NEW nx, NEW hd2, NEW nx2, NEW t, NEW o, NEW q, NEW s, NEW f, NEW in, NEW r,
         Joins(hd, nx, hd2, nx2, t, o, q, s, f, in, r)
  PROVE  /\ ReachOf(hd2, nx2) = (ReachOf(hd, nx) \ {t, o}) \union {f}
         /\ LinkedOnce(hd2, nx2)
         /\ o \in ReachOf(hd, nx) /\ o # t
         /\ in # "slot" => r \notin {t, o}
<1> PICK inSlot \in BOOLEAN : inSlot <=> in = "slot"
  OBVIOUS
<1> /\ Linking(hd, nx) /\ LinkedOnce(hd, nx) /\ Linking(hd2, nx2)
    /\ DOMAIN hd2 = DOMAIN hd /\ DOMAIN nx \subseteq DOMAIN nx2
    /\ f \in DOMAIN nx2 \ DOMAIN nx
    /\ t \in ReachOf(hd, nx) /\ nx[t] = 0 /\ o # 0
    /\ q \in DOMAIN hd /\ s \in DOMAIN hd /\ q # s /\ hd[s] = o
    /\ inSlot => r = q /\ hd[q] = t
    /\ ~inSlot => r \in ChainOf(hd, nx, q) /\ nx[r] = t
    /\ \A i \in DOMAIN hd : hd2[i] = IF inSlot /\ i = q THEN f
                                    ELSE IF i = s THEN 0 ELSE hd[i]
    /\ \A g \in DOMAIN nx : nx2[g] = IF ~inSlot /\ g = r THEN f ELSE nx[g]
    /\ nx2[f] = nx[o]
  BY DEF Joins
<1> DEFINE R == ReachOf(hd, nx)
           R2 == ReachOf(hd2, nx2)
           N == (R \ {t, o}) \union {f}
           C == ChainOf(hd, nx, q)
<1>1. R \subseteq DOMAIN nx /\ ClosedUnder(hd, nx, R) /\ 0 \notin R
  BY ReachClosed
<1>0. f \notin R \union {0}
  BY <1>1 DEF Linking
<1>2. o \in R
  BY <1>1 DEF ClosedUnder
<1>3. C \subseteq R
  BY ChainClosed
<1>4. /\ \A i \in DOMAIN hd : (hd[i] = t => inSlot /\ i = q) /\ (hd[i] = o => i = s)
      /\ \A g \in R : (nx[g] = t => ~inSlot /\ g = r) /\ nx[g] # o
  BY <1>1, <1>2, <1>3 DEF LinkedOnce
<1>5. o # t
  BY <1>1, <1>4
<1>6. ~inSlot => r \notin {t, o}
  <2>1. o \notin C
    <3>1. o \in ChainOf(hd, nx, s)
      BY ChainClosed
    <3>2. QED
      BY <3>1, ChainsDisjoint
  <2>2. QED
    BY <1>1, <2>1
<1>7. nx[o] \in (R \ {t, o}) \union {0}
  BY <1>1, <1>2, <1>4, <1>6 DEF ClosedUnder
<1>8. \A g \in R \ {t, o} : /\ nx2[g] = f \/ (nx2[g] = nx[g] /\ nx[g] \in (R \ {t, o}) \union {0})
                            /\ nx2[g] = f => ~inSlot /\ g = r
  BY <1>0, <1>1, <1>4 DEF ClosedUnder
<1>9. \A i \in DOMAIN hd :
        /\ hd2[i] = f \/ hd2[i] = 0 \/ (hd2[i] = hd[i] /\ hd[i] \in (R \ {t, o}) \union {0})
        /\ hd2[i] = f => inSlot /\ i = q
  BY <1>0, <1>1, <1>4 DEF ClosedUnder
<1>10. R2 \subseteq N
  <2>1. ClosedUnder(hd2, nx2, N)
    BY <1>7, <1>8, <1>9 DEF ClosedUnder
  <2>2. N \subseteq DOMAIN nx2
    BY <1>1
  <2>3. QED
    BY <2>1, <2>2, ReachLeast
<1>11. N \subseteq R2
  <2>1. R2 \subseteq DOMAIN nx2 /\ ClosedUnder(hd2, nx2, R2)
    BY ReachClosed
  <2>2. f \in R2
    <3>1. CASE inSlot
      BY <3>1, <2>1 DEF ClosedUnder, Linking
    <3>2. CASE ~inSlot
      <4> SUFFICES ASSUME f \notin R2 PROVE FALSE
        OBVIOUS
      <4>1. r \notin R2
        BY <3>2, <1>1, <1>3, <2>1, f # 0 DEF ClosedUnder, Linking
      <4>2. hd[q] \in (R2 \intersect C) \union {0}
        <5>1. hd[q] \in C \union {0}
          BY ChainClosed
        <5>2. QED
          BY <5>1, <3>2, <2>1 DEF ClosedUnder
      <4>3. \A g \in R2 \intersect C : nx[g] \in (R2 \intersect C) \union {0}
        <5>1. \A g \in C : nx[g] \in C \union {0}
          BY ChainClosed
        <5>2. QED
          BY <5>1, <4>1, <1>1, <1>3, <2>1 DEF ClosedUnder
      <4>4. C \subseteq R2 \intersect C
        BY <4>2, <4>3, <1>1, <1>3, ChainLeast
      <4>5. QED
        BY <3>2, <4>1, <4>4
    <3>3. QED
      BY <3>1, <3>2
  <2>3. nx[o] \in R2 \union {0}
    BY <2>1, <2>2 DEF ClosedUnder
  <2>4. ClosedUnder(hd, nx, (R2 \intersect R) \union {t, o})
    <3>1. \A i \in DOMAIN hd : hd[i] \in (R2 \intersect R) \union {t, o, 0}
      <4>1. \A i \in DOMAIN hd : hd[i] \in R \union {0}
        BY <1>1 DEF ClosedUnder
      <4>2. \A i \in DOMAIN hd : hd2[i] \in R2 \union {0}
        BY <2>1 DEF ClosedUnder
      <4>3. \A i \in DOMAIN hd : hd[i] = t \/ hd[i] = o \/ hd2[i] = hd[i]
        OBVIOUS
      <4>4. QED
        BY <4>1, <4>2, <4>3
    <3>2. \A g \in R2 \intersect R : nx[g] \in (R2 \intersect R) \union {t, o, 0}
      BY <1>1, <1>3, <2>1 DEF ClosedUnder
    <3>3. nx[o] \in (R2 \intersect R) \union {t, o, 0} /\ nx[t] = 0
      BY <1>7, <2>3
    <3>4. QED
      BY <3>1, <3>2, <3>3 DEF ClosedUnder
  <2>5. R \subseteq (R2 \intersect R) \union {t, o}
    BY <1>1, <1>2, <2>4, ReachLeast
  <2>6. QED
    BY <2>2, <2>5
<1>12. R2 = N
  BY <1>10, <1>11
<1>13. LinkedOnce(hd2, nx2)
  <2>1. \A i, j \in DOMAIN hd : i # j /\ hd2[i] = hd2[j] => hd2[i] = 0
    BY <1>1, <1>9 DEF LinkedOnce
  <2>2. \A i \in DOMAIN hd, g \in R \ {t, o} : hd2[i] # 0 => nx2[g] # hd2[i]
    BY <1>1, <1>8, <1>9 DEF LinkedOnce
  <2>3. \A i \in DOMAIN hd : hd2[i] # 0 => nx[o] # hd2[i]
    BY <1>1, <1>2, <1>7, <1>9 DEF LinkedOnce
  <2>4. \A g, h \in R \ {t, o} : g # h /\ nx2[g] = nx2[h] => nx2[g] = 0
    BY <1>1, <1>8 DEF LinkedOnce
  <2>5. \A g \in R \ {t, o} : nx2[g] = nx[o] => nx[o] = 0
    BY <1>1, <1>2, <1>7, <1>8 DEF LinkedOnce
  <2>6. QED
    BY <1>12, <2>1, <2>2, <2>3, <2>4, <2>5 DEF LinkedOnce
<1>14. QED
  BY <1>2, <1>5, <1>6, <1>7, <1>12, <1>13
=============================================================================
