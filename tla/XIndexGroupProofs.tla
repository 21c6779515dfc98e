-------------------------- MODULE XIndexGroupProofs -------------------------
(***************************************************************************)
(* Proofs about XIndex's groups under maintenance (XIndexGroup): the state  *)
(* keeps its types, pointers from one array into another resolve, and no    *)
(* worker reads a deleted root, group, array or buffer, for any number of   *)
(* workers, keys, groups, operations and background passes.                 *)
(***************************************************************************)
EXTENDS XIndexGroup, LinkedLists, FiniteSetTheorems, TLAPS

-----------------------------------------------------------------------------
(* The inductive invariant.                                                 *)

Ref == [in : {"none", "slot", "next"}, i : Nat]
BgPcs == {"idle", "visit", "model", "models", "decide", "frozen", "split", "refs",
          "publish", "publishnext", "published", "phase2", "free", "flatten",
          "newroot", "trim", "round"}
BgRecord ==
  [pc : BgPcs, pass : 0..MaxPass, slot : Nat, ref : Ref, nref : Ref,
   act : {"none", "compact", "split", "merge"}, trial : Nat, error : {"high", "ok", "low"},
   old : Nat, other : Nat, new : Nat, next : Nat, k : Nat,
   update : BOOLEAN]

\* A group, and a root array: C are the containers there are, D the groups.
IsGroup(x, C, D) ==
  /\ DOMAIN x = {"pivot", "data", "buffer", "temp", "frozen", "next", "model_n"}
  /\ x.data \in C /\ x.buffer \in C /\ x.temp \in C \union {0} /\ x.next \in D \union {0}
  /\ x.frozen \in BOOLEAN /\ x.model_n \in 1..MaxModelN
IsRootArray(a, D) ==
  /\ IsSeq(a)
  /\ \A i \in DOMAIN a : /\ DOMAIN a[i] = {"pivot", "group"}
                         /\ a[i].group \in D \union {0}
AllGroups(gs, C) == IsSeq(gs) /\ \A h \in DOMAIN gs : IsGroup(gs[h], C, DOMAIN gs)
AllRoots(rs, D) == IsSeq(rs) /\ \A r \in DOMAIN rs : IsRootArray(rs[r], D)

\* The types of the index, with the shapes TypeOK leaves out.
IndexTyped ==
  /\ root \in DOMAIN roots
  /\ AllRoots(roots, DOMAIN groups) /\ AllGroups(groups, DOMAIN cont)
  /\ IsSeq(cont) /\ \A c \in DOMAIN cont : cont[c] \in [Keys -> Cells]

BgTyped ==
  /\ bg \in BgRecord
  /\ DOMAIN freed = {"groups", "conts", "roots"}
  /\ freed.groups \subseteq DOMAIN groups /\ freed.conts \subseteq DOMAIN cont
  /\ bwait \subseteq Procs

-----------------------------------------------------------------------------
\* do_adjustment is at a group; it is in the middle of act.
Adjusting == bg.pc \in {"model", "models", "decide", "frozen", "split", "refs", "publish",
                        "publishnext", "published", "phase2", "free"}
Doing(a, pcs) == bg.act = a /\ bg.pc \in pcs
Replaced == {"published", "phase2", "free"}
Rooting == bg.pc \in {"newroot", "trim"}

\* Between *group = new_group and *next_group = nullptr of a merge, the slot of
\* the second group counts as empty: the new group is referenced elsewhere.
Nulled(i) == Doing("merge", {"publishnext", "published"}) /\ bg.nref = Slot(i)

Heads == [i \in DOMAIN roots[root] |-> IF Nulled(i) THEN 0 ELSE roots[root][i].group]
Nexts == [g \in DOMAIN groups |-> groups[g].next]
Reach == ReachOf(Heads, Nexts)

\* The groups that have been replaced and wait for a barrier to be deleted.
Doomed ==
  CASE bg.pc = "models" -> {bg.old}
    [] Doing("split", {"split", "refs", "publish"}) -> {bg.old}
    [] Doing("split", Replaced) -> {bg.old, bg.other, Other.next}
    [] Doing("compact", Replaced) -> {bg.old}
    [] Doing("merge", Replaced \union {"publishnext"}) -> {bg.old, bg.other}
    [] OTHER -> {}

\* A reference in the list of the slot the background thread is at.
RefOK(ref) ==
  \/ ref.in = "slot" /\ ref.i = bg.slot
  \/ ref.in = "next" /\ ref.i \in ChainOf(Heads, Nexts, bg.slot)

\* Where the background thread stands in the list of groups.
Standing ==
  /\ Adjusting \/ bg.pc \in {"visit", "flatten"} =>
       bg.slot \in DOMAIN roots[root] /\ RefOK(bg.ref)
  /\ Adjusting => Target(bg.ref) # 0
  /\ bg.act # "none" => bg.pc \in {"frozen", "split", "refs", "publish",
                                   "publishnext", "published", "phase2", "free"}
  /\ bg.pc \in {"frozen", "split", "refs", "publish",
                "publishnext", "published", "phase2", "free"} => bg.act # "none"
  /\ bg.pc = "split" => bg.act = "split"
  /\ bg.pc = "frozen" => bg.act # "split"
  /\ bg.pc = "publishnext" => bg.act = "merge"

\* The groups its locals name.
Named ==
  /\ Doing("compact", {"frozen", "refs", "publish"}) => bg.old = Target(bg.ref)
  /\ Doing("merge", {"frozen", "refs", "publish"}) =>
       /\ bg.old = Target(bg.ref) /\ bg.other = Target(bg.nref) /\ bg.other # 0
       /\ bg.nref = IF Old.next # 0 THEN NextOf(bg.old) ELSE Slot(bg.slot + 1)
       /\ Old.next = 0 => bg.slot < Len(roots[root])
  /\ Doing("merge", {"publishnext", "published"}) =>
       \/ bg.nref = NextOf(bg.old)
       \/ bg.nref = Slot(bg.slot + 1) /\ bg.slot < Len(roots[root])
  /\ Doing("merge", {"publishnext"}) /\ bg.nref.in = "slot" =>
       roots[root][bg.nref.i].group = bg.other
  /\ Doing("merge", {"published"}) /\ bg.nref.in = "slot" =>
       roots[root][bg.nref.i].group = bg.next
  /\ Doing("split", {"split", "refs", "publish"}) =>
       /\ bg.other = Target(bg.ref) /\ Other.next # 0
       /\ bg.old \in DOMAIN groups
       /\ Old.data = Other.data /\ Old.buffer = Other.buffer
       /\ Old.data = groups[Other.next].data /\ Old.buffer = groups[Other.next].buffer
  /\ Doing("split", Replaced) =>
       bg.other \in DOMAIN groups /\ groups[bg.next].next = bg.next + 1
  /\ bg.pc \in Replaced \union {"publishnext"} => bg.next = Target(bg.ref)

\* What is replaced is no longer reached, and what is deleted neither.
Unlinked ==
  /\ Doomed \subseteq DOMAIN groups
  /\ Doomed \intersect Reach = {}
  /\ \A d \in Doomed : groups[d].next \in Reach \union Doomed \union {0}
  /\ freed.groups \intersect (Reach \union Doomed) = {}

Linked == ~Rooting => LinkedOnce(Heads, Nexts)

\* The first slot of a root array is never empty.
FirstSlot ==
  \A r \in DOMAIN roots : roots[r] # <<>> => roots[r][1].group # 0

\* create_new_root puts the groups it passes in order, trim_root unlinks them.
InOrder(r, n) ==
  LET a == roots[r]
  IN  /\ \A i, j \in DOMAIN a : i # j => a[i].group # a[j].group
      /\ \A i \in DOMAIN a : a[i].group \in Reach
      /\ \A i \in DOMAIN a : i + n <= Len(a) => 
           groups[a[i].group].next = 0 \/ (i < Len(a) /\ groups[a[i].group].next = a[i + 1].group)

\* The list of slot j is copied, as far as bg.ref has got in it.
Copied(j) == j < bg.slot \/ (j = bg.slot /\ bg.ref.in = "next")
LastCopied(a) ==
  /\ bg.ref.in = "next" => a # <<>> /\ bg.ref.i = a[Len(a)].group
  /\ bg.ref.in = "slot" /\ a # <<>> => groups[a[Len(a)].group].next = 0
  /\ bg.slot > 1 => a # <<>>
AllCopied(a) ==
  \A j \in DOMAIN roots[root] : Copied(j) /\ roots[root][j].group # 0 =>
    \E i \in DOMAIN a : a[i].group = roots[root][j].group
OnlyCopied(a) ==
  \A i \in DOMAIN a :
    \/ \E j \in DOMAIN roots[root] : Copied(j) /\ roots[root][j].group = a[i].group
    \/ i > 1 /\ groups[a[i - 1].group].next = a[i].group
Flattening ==
  bg.pc = "flatten" =>
    /\ root + 1 = Len(roots)
    /\ InOrder(root + 1, 1)
    /\ LastCopied(roots[root + 1]) /\ AllCopied(roots[root + 1]) /\ OnlyCopied(roots[root + 1])

NewRoot ==
  /\ roots[root] # <<>>
  /\ Rooting => /\ InOrder(root, 0) /\ root > 1
                /\ \A g \in Reach : \E i \in DOMAIN roots[root] : roots[root][i].group = g
                /\ \A i \in DOMAIN roots[root - 1] : roots[root - 1][i].group \in Reach \union {0}
                /\ bg.slot \in 0..Len(roots[root])
                /\ \A i \in 1..bg.slot : groups[roots[root][i].group].next = 0
  /\ bg.pc = "newroot" => bg.slot = 0
  /\ bg.pc # "flatten" => root = Len(roots)
  /\ freed.roots \subseteq 1..(IF Rooting THEN root - 2 ELSE root - 1)

-----------------------------------------------------------------------------
(* Arrays and buffers.                                                      *)

ContsOf(g) == {groups[g].data, groups[g].buffer}
Halves == IF Doing("split", {"split", "refs", "publish"}) THEN {bg.other, Other.next} ELSE {}
WithTemp ==
  Halves \union IF bg.act \in {"compact", "merge"} /\ bg.pc \in {"refs", "publish"}
                THEN Merging ELSE {}
NewArrays == {bg.new} \union IF bg.act = "split" THEN {bg.new + 1} ELSE {}
Working == bg.pc \in {"refs", "publish", "publishnext", "published", "phase2", "free"}

\* Which group owns which container.
Owned ==
  /\ \A g, h \in Reach : g # h /\ ~({g, h} \subseteq Halves) =>
       ContsOf(g) \intersect ContsOf(h) = {}
  /\ \A g \in Reach : groups[g].temp # 0 <=> g \in WithTemp
  /\ \A g \in Reach : groups[g].temp # 0 =>
       \A h \in DOMAIN groups : groups[g].temp \notin ContsOf(h)
  /\ Halves # {} => groups[bg.other].temp # groups[Other.next].temp
  /\ \A g \in Reach \union Doomed :
       (ContsOf(g) \union {groups[g].temp}) \intersect freed.conts = {}
  /\ bg.pc \in Replaced \union {"publishnext"} =>
       \A g \in Reach : ContsOf(g) \intersect Sources = {}

\* The arrays under construction.
Fresh ==
  /\ Working => NewArrays \subseteq DOMAIN cont
  /\ Working => NewArrays \intersect (Sources \union freed.conts) = {}
  /\ bg.pc \in {"refs", "publish"} =>
       \A g \in DOMAIN groups :
         NewArrays \intersect (ContsOf(g) \union {groups[g].temp}) = {}
  /\ bg.pc \in {"refs", "phase2"} => bg.k \in Keys

\* Pointers lead from the new arrays into the ones they replace, to a value, and
\* compact_phase_2 leaves none behind.
Pointers ==
  \A c \in DOMAIN cont : \A k \in Keys : cont[c][k].kind = "ptr" =>
    /\ Working /\ bg.pc # "free"
    /\ c = NewArray(k)
    /\ cont[c][k].to \in Sources /\ cont[cont[c][k].to][k].kind = "val"
    /\ bg.pc = "phase2" => k >= bg.k

-----------------------------------------------------------------------------
(* Workers.                                                                 *)

PointPcs == {"array", "buffer", "temp", "loadtemp", "frozen", "insert", "inserttemp"}
ScanPcs == {"scangroup", "scan2", "scan3", "scantemp", "scanarray", "scannext"}
WorkerPcs == {"idle", "slot", "chain", "done", "scanslot", "scanned"} \union PointPcs \union ScanPcs
HoldsGroup(p) == pc[p] \in {"chain"} \union PointPcs \union ScanPcs

Typed ==
  /\ pc \in [Procs -> WorkerPcs]
  /\ rt \in [Procs -> Nat] /\ sl \in [Procs -> Nat] /\ gr \in [Procs -> Nat]
  /\ op \in [Procs -> Abs!Calls \union {Abs!Idle}]
Scans ==
  /\ DOMAIN scan = Procs
  /\ \A p \in Procs : DOMAIN scan[p] = DOMAIN NoScan /\ scan[p].on \in BOOLEAN
WorkersTyped == Typed /\ Scans /\ count \in 0..MaxOps

\* What worker p is doing.
DoingOf(p) ==
  /\ pc[p] \in {"slot", "chain", "done"} \union PointPcs /\ ~scan[p].on => op[p] \in Abs!Calls
  /\ pc[p] \in {"done"} \union PointPcs => ~scan[p].on
  /\ pc[p] \in ScanPcs \union {"scanslot", "scanned"} => scan[p].on
  /\ pc[p] \in {"loadtemp", "frozen", "insert", "inserttemp"} => op[p].kind = "put"
  /\ pc[p] = "inserttemp" \/ (pc[p] = "buffer" /\ op[p].kind = "put") => G(p).temp # 0

\* Where it stands.
PlaceOf(p) ==
  /\ pc[p] # "idle" =>
       /\ rt[p] \in DOMAIN roots /\ sl[p] \in DOMAIN roots[rt[p]]
       /\ rt[p] = root \/ (bg.pc = "newroot" /\ p \in bwait /\ rt[p] = root - 1)
  /\ pc[p] \notin {"idle", "slot"} => gr[p] \in DOMAIN groups

\* The barrier: who holds a replaced group has not yet called rcu_progress.
GraceOf(p) ==
  HoldsGroup(p) =>
    /\ gr[p] \in Reach \union Doomed
    /\ gr[p] \in Doomed /\ bg.pc # "publishnext" => p \in bwait

Doings == \A p \in Procs : DoingOf(p)
Places == \A p \in Procs : PlaceOf(p)
Grace == \A p \in Procs : GraceOf(p)

GroupInv ==
  /\ IndexTyped /\ BgTyped /\ Standing /\ Named /\ Unlinked /\ Linked /\ FirstSlot
  /\ Flattening /\ NewRoot /\ Owned /\ Fresh /\ Pointers
  /\ WorkersTyped /\ Doings /\ Places /\ Grace

-----------------------------------------------------------------------------
(* What the steps do, field by field.                                       *)

LEMMA WiderRoots ==
  ASSUME NEW a, NEW D, NEW E, IsRootArray(a, D), D \subseteq E
  PROVE  IsRootArray(a, E)
BY DEF IsRootArray

LEMMA WiderGroup ==
  ASSUME NEW x, NEW C, NEW D, NEW B, NEW E, IsGroup(x, C, D), C \subseteq B, D \subseteq E
  PROVE  IsGroup(x, B, E)
BY DEF IsGroup

\* *ref = g
LEMMA AssignRoots ==
  ASSUME NEW ref, NEW g, NEW gs, NEW D, AllRoots(roots, D), root \in DOMAIN roots,
         g \in D \union {0}, ref.in = "slot", ref.i \in DOMAIN roots[root],
         Assign(ref, g, gs)
  PROVE  /\ AllRoots(roots', D) /\ DOMAIN roots' = DOMAIN roots /\ Len(roots') = Len(roots)
         /\ \A r \in DOMAIN roots : DOMAIN roots'[r] = DOMAIN roots[r]
                                   /\ Len(roots'[r]) = Len(roots[r])
         /\ \A r \in DOMAIN roots : \A j \in DOMAIN roots[r] :
              roots'[r][j].group = IF r = root /\ j = ref.i THEN g ELSE roots[r][j].group
<1>0. PICK i : i = ref.i
  OBVIOUS
<1>1. PICK x : x = [roots[root][i] EXCEPT !.group = g]
  OBVIOUS
<1>2. PICK a : a = [roots[root] EXCEPT ![i] = x]
  OBVIOUS
<1>3. roots' = [roots EXCEPT ![root] = a]
  BY <1>0, <1>1, <1>2 DEF Assign
<1>4. DOMAIN x = {"pivot", "group"} /\ x.group = g
  BY <1>0, <1>1 DEF AllRoots, IsRootArray
<1>5. /\ IsSeq(a) /\ DOMAIN a = DOMAIN roots[root] /\ Len(a) = Len(roots[root])
      /\ \A j \in DOMAIN a : a[j] = IF j = i THEN x ELSE roots[root][j]
  <2>1. IsSeq(roots[root])
    BY DEF AllRoots, IsRootArray
  <2>2. a = [j \in DOMAIN roots[root] |-> IF j = i THEN x ELSE roots[root][j]]
    BY <1>2
  <2>3. a = [j \in DOMAIN roots[root] |-> a[j]]
    BY <2>2
  <2>4. QED
    BY <2>1, <2>2, <2>3, SeqLike
<1>6. IsRootArray(a, D)
  BY <1>4, <1>5 DEF AllRoots, IsRootArray
<1>7. /\ IsSeq(roots') /\ DOMAIN roots' = DOMAIN roots /\ Len(roots') = Len(roots)
      /\ \A r \in DOMAIN roots : roots'[r] = IF r = root THEN a ELSE roots[r]
  <2>1. roots' = [r \in DOMAIN roots |-> IF r = root THEN a ELSE roots[r]]
    BY <1>3
  <2>2. roots' = [r \in DOMAIN roots |-> roots'[r]]
    BY <2>1
  <2>3. QED
    BY <2>1, <2>2, SeqLike DEF AllRoots
<1>8. QED
  <2>1. AllRoots(roots', D)
    BY <1>6, <1>7 DEF AllRoots
  <2>2. \A r \in DOMAIN roots : DOMAIN roots'[r] = DOMAIN roots[r] /\ Len(roots'[r]) = Len(roots[r])
    BY <1>5, <1>7
  <2>3. \A r \in DOMAIN roots : \A j \in DOMAIN roots[r] :
          roots'[r][j].group = IF r = root /\ j = i THEN g ELSE roots[r][j].group
    BY <1>0, <1>4, <1>5, <1>7
  <2>4. QED
    BY <1>0, <1>7, <2>1, <2>2, <2>3

LEMMA AssignGroups ==
  ASSUME NEW ref, NEW g, NEW gs, NEW C, AllGroups(gs, C), ref.in = "next", ref.i \in DOMAIN gs,
         g \in DOMAIN gs \union {0},
         Assign(ref, g, gs)
  PROVE  /\ AllGroups(groups', C) /\ DOMAIN groups' = DOMAIN gs /\ Len(groups') = Len(gs)
         /\ \A h \in DOMAIN gs :
              /\ groups'[h].pivot = gs[h].pivot /\ groups'[h].data = gs[h].data
              /\ groups'[h].buffer = gs[h].buffer /\ groups'[h].temp = gs[h].temp
              /\ groups'[h].next = IF h = ref.i THEN g ELSE gs[h].next
<1>0. PICK i : i = ref.i
  OBVIOUS
<1>1. PICK x : x = [gs[i] EXCEPT !.next = g]
  OBVIOUS
<1>2. /\ IsGroup(x, C, DOMAIN gs) /\ x.next = g
      /\ x.pivot = gs[i].pivot /\ x.data = gs[i].data
      /\ x.buffer = gs[i].buffer /\ x.temp = gs[i].temp
  BY <1>0, <1>1 DEF AllGroups, IsGroup
<1>3. groups' = [gs EXCEPT ![i] = x]
  BY <1>0, <1>1 DEF Assign
<1>4. /\ IsSeq(groups') /\ DOMAIN groups' = DOMAIN gs /\ Len(groups') = Len(gs)
      /\ \A h \in DOMAIN gs : groups'[h] = IF h = i THEN x ELSE gs[h]
  <2>1. groups' = [h \in DOMAIN gs |-> IF h = i THEN x ELSE gs[h]]
    BY <1>3
  <2>2. groups' = [h \in DOMAIN gs |-> groups'[h]]
    BY <2>1
  <2>3. QED
    BY <2>1, <2>2, SeqLike DEF AllGroups
<1>5. QED
  BY <1>0, <1>2, <1>4 DEF AllGroups

\* The group table keeps its groups' pivots, arrays and buffers.
Keeps(gs) ==
  \A h \in DOMAIN groups :
    /\ gs[h].pivot = groups[h].pivot /\ gs[h].data = groups[h].data
    /\ gs[h].buffer = groups[h].buffer

LEMMA AssignEffect ==
  ASSUME NEW ref, NEW g, NEW gs, NEW C, root \in DOMAIN roots,
         AllRoots(roots, DOMAIN gs), AllGroups(gs, C), g \in DOMAIN gs \union {0},
         \/ ref.in = "slot" /\ ref.i \in DOMAIN roots[root]
         \/ ref.in = "next" /\ ref.i \in DOMAIN gs,
         Assign(ref, g, gs)
  PROVE  /\ AllRoots(roots', DOMAIN gs) /\ DOMAIN roots' = DOMAIN roots /\ Len(roots') = Len(roots)
         /\ \A r \in DOMAIN roots : DOMAIN roots'[r] = DOMAIN roots[r]
                                   /\ Len(roots'[r]) = Len(roots[r])
         /\ \A r \in DOMAIN roots : \A j \in DOMAIN roots[r] :
              roots'[r][j].group = IF ref.in = "slot" /\ r = root /\ j = ref.i THEN g
                                   ELSE roots[r][j].group
         /\ AllGroups(groups', C) /\ DOMAIN groups' = DOMAIN gs /\ Len(groups') = Len(gs)
         /\ \A h \in DOMAIN gs :
              /\ groups'[h].pivot = gs[h].pivot /\ groups'[h].data = gs[h].data
              /\ groups'[h].buffer = gs[h].buffer /\ groups'[h].temp = gs[h].temp
              /\ groups'[h].next = IF ref.in = "next" /\ h = ref.i THEN g ELSE gs[h].next
<1>1. CASE ref.in = "slot"
  <2>1. groups' = gs
    BY <1>1 DEF Assign
  <2>2. /\ AllRoots(roots', DOMAIN gs) /\ DOMAIN roots' = DOMAIN roots /\ Len(roots') = Len(roots)
        /\ \A r \in DOMAIN roots : DOMAIN roots'[r] = DOMAIN roots[r]
                                  /\ Len(roots'[r]) = Len(roots[r])
        /\ \A r \in DOMAIN roots : \A j \in DOMAIN roots[r] :
             roots'[r][j].group = IF r = root /\ j = ref.i THEN g ELSE roots[r][j].group
    BY <1>1, AssignRoots
  <2>3. QED
    BY <1>1, <2>1, <2>2
<1>2. CASE ref.in = "next"
  <2>1. roots' = roots
    BY <1>2 DEF Assign
  <2>2. /\ AllGroups(groups', C) /\ DOMAIN groups' = DOMAIN gs /\ Len(groups') = Len(gs)
        /\ \A h \in DOMAIN gs :
             /\ groups'[h].pivot = gs[h].pivot /\ groups'[h].data = gs[h].data
             /\ groups'[h].buffer = gs[h].buffer /\ groups'[h].temp = gs[h].temp
             /\ groups'[h].next = IF h = ref.i THEN g ELSE gs[h].next
    BY <1>2, AssignGroups
  <2>3. QED
    BY <1>2, <2>1, <2>2
<1>3. QED
  BY <1>1, <1>2

\* *ref = g changes one reference, and leaves the groups as they are.
RefIn(ref) ==
  \/ ref.in = "slot" /\ ref.i \in DOMAIN roots[root]
  \/ ref.in = "next" /\ ref.i \in DOMAIN groups
Pointed(ref, g) ==
  /\ DOMAIN roots' = DOMAIN roots /\ Len(roots') = Len(roots)
  /\ \A r \in DOMAIN roots : DOMAIN roots'[r] = DOMAIN roots[r] /\ Len(roots'[r]) = Len(roots[r])
  /\ \A r \in DOMAIN roots : \A j \in DOMAIN roots[r] :
       roots'[r][j].group = IF ref.in = "slot" /\ r = root /\ j = ref.i THEN g
                            ELSE roots[r][j].group
  /\ \A h \in DOMAIN groups :
       groups'[h].next = IF ref.in = "next" /\ h = ref.i THEN g ELSE groups[h].next
Kept ==
  \A h \in DOMAIN groups :
    /\ groups'[h].pivot = groups[h].pivot /\ groups'[h].data = groups[h].data
    /\ groups'[h].buffer = groups[h].buffer /\ groups'[h].temp = groups[h].temp
\* The fields of a new group, and of the one it is made from.
Made(n, x) ==
  /\ groups'[n].pivot = x.pivot /\ groups'[n].data = x.data
  /\ groups'[n].buffer = x.buffer /\ groups'[n].temp = x.temp /\ groups'[n].next = x.next

LEMMA AssignOld ==
  ASSUME IndexTyped, NEW ref, RefIn(ref), NEW g \in DOMAIN groups \union {0},
         Assign(ref, g, groups)
  PROVE  /\ AllRoots(roots', DOMAIN groups) /\ AllGroups(groups', DOMAIN cont)
         /\ DOMAIN groups' = DOMAIN groups /\ Len(groups') = Len(groups)
         /\ Pointed(ref, g) /\ Kept
BY AssignEffect DEF IndexTyped, RefIn, Pointed, Kept

LEMMA AssignOne ==
  ASSUME IndexTyped, NEW ref, RefIn(ref), NEW x, NEW n, n = Len(groups) + 1,
         NEW C, DOMAIN cont \subseteq C,
         IsGroup(x, C, DOMAIN groups), Assign(ref, n, Append(groups, x))
  PROVE  /\ AllRoots(roots', DOMAIN groups') /\ AllGroups(groups', C)
         /\ DOMAIN groups' = DOMAIN groups \union {n} /\ Len(groups') = n
         /\ n \notin DOMAIN groups /\ n # 0
         /\ Pointed(ref, n) /\ Kept /\ Made(n, x)
<1>1. PICK gs : gs = Append(groups, x)
  OBVIOUS
<1>2. /\ IsSeq(gs) /\ Len(groups) \in Nat /\ DOMAIN groups = 1..Len(groups) /\ Len(gs) = n
      /\ DOMAIN gs = 1..n /\ gs[n] = x /\ \A h \in DOMAIN groups : gs[h] = groups[h]
  BY <1>1, SeqAppend DEF IndexTyped, AllGroups
<1>3. DOMAIN gs = DOMAIN groups \union {n} /\ n \notin DOMAIN groups /\ n # 0
  BY <1>2
<1>4. AllGroups(gs, C)
  BY <1>2, <1>3 DEF AllGroups, IndexTyped, IsGroup
<1>5. AllRoots(roots, DOMAIN gs)
  BY <1>3 DEF IndexTyped, AllRoots, IsRootArray
<1>6. /\ AllRoots(roots', DOMAIN gs) /\ DOMAIN roots' = DOMAIN roots /\ Len(roots') = Len(roots)
      /\ \A r \in DOMAIN roots : DOMAIN roots'[r] = DOMAIN roots[r]
                                /\ Len(roots'[r]) = Len(roots[r])
      /\ \A r \in DOMAIN roots : \A j \in DOMAIN roots[r] :
           roots'[r][j].group = IF ref.in = "slot" /\ r = root /\ j = ref.i THEN n
                                ELSE roots[r][j].group
      /\ AllGroups(groups', C) /\ DOMAIN groups' = DOMAIN gs /\ Len(groups') = Len(gs)
      /\ \A h \in DOMAIN gs :
           /\ groups'[h].pivot = gs[h].pivot /\ groups'[h].data = gs[h].data
           /\ groups'[h].buffer = gs[h].buffer /\ groups'[h].temp = gs[h].temp
           /\ groups'[h].next = IF ref.in = "next" /\ h = ref.i THEN n ELSE gs[h].next
  <2>1. Assign(ref, n, gs)
    BY <1>1
  <2>2. \/ ref.in = "slot" /\ ref.i \in DOMAIN roots[root]
        \/ ref.in = "next" /\ ref.i \in DOMAIN gs
    BY <1>3 DEF RefIn
  <2>3. root \in DOMAIN roots /\ n \in DOMAIN gs \union {0}
    BY <1>3 DEF IndexTyped
  <2>4. QED
    BY <1>4, <1>5, <2>1, <2>2, <2>3, AssignEffect
<1>7. Pointed(ref, n)
  BY <1>2, <1>3, <1>6 DEF Pointed
<1>8. Kept
  BY <1>2, <1>3, <1>6 DEF Kept
<1>9. Made(n, x)
  BY <1>2, <1>3, <1>6 DEF Made, RefIn
<1>10. QED
  BY <1>2, <1>3, <1>6, <1>7, <1>8, <1>9

\* Two new groups, the first of them assigned.
AssignPair(ref, n, l, x, y, C) ==
  /\ RefIn(ref) /\ n = Len(groups) + 1 /\ l = n + 1 /\ DOMAIN cont \subseteq C
  /\ IsGroup(x, C, DOMAIN groups \union {l}) /\ IsGroup(y, C, DOMAIN groups)
  /\ Assign(ref, n, groups \o <<x, y>>)
Paired(ref, n, l, x, y, C) ==
  /\ AllRoots(roots', DOMAIN groups') /\ AllGroups(groups', C)
  /\ DOMAIN groups' = DOMAIN groups \union {n, l}
  /\ n \notin DOMAIN groups /\ n # 0 /\ l \notin DOMAIN groups /\ l # 0 /\ n # l
  /\ Pointed(ref, n) /\ Kept /\ Made(n, x) /\ Made(l, y)

LEMMA AssignTwo ==
  ASSUME IndexTyped, NEW ref, NEW n, NEW l, NEW x, NEW y, NEW C, AssignPair(ref, n, l, x, y, C)
  PROVE  Paired(ref, n, l, x, y, C)
<1>0. /\ RefIn(ref) /\ n = Len(groups) + 1 /\ l = n + 1 /\ DOMAIN cont \subseteq C
      /\ IsGroup(x, C, DOMAIN groups \union {n + 1}) /\ IsGroup(y, C, DOMAIN groups)
      /\ Assign(ref, n, groups \o <<x, y>>)
  BY DEF AssignPair
<1>1. PICK gs : gs = groups \o <<x, y>>
  OBVIOUS
<1>2. /\ IsSeq(gs) /\ Len(groups) \in Nat /\ DOMAIN groups = 1..Len(groups) /\ Len(gs) = n + 1
      /\ DOMAIN gs = 1..(n + 1) /\ gs[n] = x /\ gs[n + 1] = y
      /\ \A h \in DOMAIN groups : gs[h] = groups[h]
  <2>1. IsSeq(groups)
    BY DEF IndexTyped, AllGroups
  <2>2. Len(groups) \in Nat /\ DOMAIN groups = 1..Len(groups)
    BY <2>1, SeqShape
  <2>3. /\ IsSeq(gs) /\ Len(gs) = Len(groups) + 2 /\ DOMAIN gs = 1..(Len(groups) + 2)
        /\ \A i \in 1..Len(groups) : gs[i] = groups[i]
        /\ gs[Len(groups) + 1] = x /\ gs[Len(groups) + 2] = y
    BY <1>1, <2>1, SeqAppendTwo
  <2>4. QED
    BY <1>0, <2>2, <2>3
<1>3. /\ DOMAIN gs = DOMAIN groups \union {n, n + 1} /\ n # n + 1
      /\ n \notin DOMAIN groups /\ n # 0 /\ n + 1 \notin DOMAIN groups /\ n + 1 # 0
  BY <1>0, <1>2
<1>4. AllGroups(gs, C)
  <2>1. IsGroup(gs[n], C, DOMAIN gs) /\ IsGroup(gs[n + 1], C, DOMAIN gs)
    BY <1>0, <1>2, <1>3 DEF IsGroup
  <2>2. \A h \in DOMAIN groups : IsGroup(gs[h], C, DOMAIN gs)
    BY <1>0, <1>2, <1>3 DEF AllGroups, IndexTyped, IsGroup
  <2>3. QED
    BY <1>2, <1>3, <2>1, <2>2 DEF AllGroups
<1>5. AllRoots(roots, DOMAIN gs)
  BY <1>3 DEF IndexTyped, AllRoots, IsRootArray
<1>6. /\ AllRoots(roots', DOMAIN gs) /\ DOMAIN roots' = DOMAIN roots /\ Len(roots') = Len(roots)
      /\ \A r \in DOMAIN roots : DOMAIN roots'[r] = DOMAIN roots[r]
                                /\ Len(roots'[r]) = Len(roots[r])
      /\ \A r \in DOMAIN roots : \A j \in DOMAIN roots[r] :
           roots'[r][j].group = IF ref.in = "slot" /\ r = root /\ j = ref.i THEN n
                                ELSE roots[r][j].group
      /\ AllGroups(groups', C) /\ DOMAIN groups' = DOMAIN gs /\ Len(groups') = Len(gs)
      /\ \A h \in DOMAIN gs :
           /\ groups'[h].pivot = gs[h].pivot /\ groups'[h].data = gs[h].data
           /\ groups'[h].buffer = gs[h].buffer /\ groups'[h].temp = gs[h].temp
           /\ groups'[h].next = IF ref.in = "next" /\ h = ref.i THEN n ELSE gs[h].next
  <2>1. Assign(ref, n, gs)
    BY <1>0, <1>1
  <2>2. \/ ref.in = "slot" /\ ref.i \in DOMAIN roots[root]
        \/ ref.in = "next" /\ ref.i \in DOMAIN gs
    BY <1>0, <1>3 DEF RefIn
  <2>3. root \in DOMAIN roots /\ n \in DOMAIN gs \union {0}
    BY <1>3 DEF IndexTyped
  <2>4. QED
    BY <1>4, <1>5, <2>1, <2>2, <2>3, AssignEffect
<1>7. Pointed(ref, n)
  BY <1>2, <1>3, <1>6 DEF Pointed
<1>8. Kept
  BY <1>2, <1>3, <1>6 DEF Kept
<1>9. Made(n, x) /\ Made(n + 1, y)
  BY <1>0, <1>2, <1>3, <1>6 DEF Made, RefIn
<1>10. QED
  BY <1>0, <1>2, <1>3, <1>6, <1>7, <1>8, <1>9 DEF Paired

-----------------------------------------------------------------------------
(* Keys.                                                                    *)

LEMMA Bounded ==
  ASSUME NEW S \in SUBSET Nat, IsFiniteSet(S)
  PROVE  \E b \in Nat : \A k \in S : k <= b
<1>1. PICK q \in Seq(S) : \A k \in S : \E i \in 1..Len(q) : q[i] = k
  BY DEF IsFiniteSet
<1> DEFINE Bad == {n \in Nat : n <= Len(q) /\ ~\E b \in Nat : \A i \in 1..n : q[i] <= b}
<1>2. Len(q) \in Nat /\ \A i \in 1..Len(q) : q[i] \in Nat
  <2>1. Len(q) \in Nat /\ q \in [1..Len(q) -> S]
    OBVIOUS
  <2>2. \A i \in 1..Len(q) : q[i] \in S
    BY <2>1
  <2>3. QED
    BY <2>1, <2>2
<1> HIDE DEF Bad
<1>3. Bad = {}
  <2> SUFFICES ASSUME Bad # {} PROVE FALSE
    OBVIOUS
  <2>1. PICK n \in Bad : \A m \in Bad : n <= m
    BY LeastNat DEF Bad
  <2> n \in Nat /\ n <= Len(q)
    BY DEF Bad
  <2>2. n # 0
    <3>1. \A i \in 1..0 : q[i] <= 0
      OBVIOUS
    <3>2. QED
      BY <2>1, <3>1 DEF Bad
  <2>3. n - 1 \in Nat /\ n - 1 <= Len(q) /\ n - 1 \notin Bad /\ n \in 1..Len(q)
    <3>1. n - 1 \in Nat /\ n - 1 <= Len(q) /\ n \in 1..Len(q)
      BY <1>2, <2>2
    <3>2. n - 1 \in Bad => n <= n - 1
      BY <2>1
    <3>3. ~(n <= n - 1)
      OBVIOUS
    <3>4. QED
      BY <3>1, <3>2, <3>3
  <2>4. PICK b \in Nat : \A i \in 1..(n - 1) : q[i] <= b
    BY <2>3 DEF Bad
  <2>5. PICK d \in Nat : b <= d /\ q[n] <= d
    <3>1. q[n] \in Nat
      BY <1>2, <2>3
    <3>2. PICK c \in Nat : c = q[n]
      BY <3>1
    <3>3. b <= b + c /\ c <= b + c /\ b + c \in Nat
      OBVIOUS
    <3>4. QED
      BY <3>2, <3>3
  <2>6. \A i \in 1..n : q[i] <= d
    <3> TAKE i \in 1..n
    <3>1. CASE i = n
      BY <3>1, <2>5
    <3>2. CASE i # n
      <4>1. i \in 1..(n - 1) /\ i \in 1..Len(q)
        BY <3>2, <1>2
      <4>2. q[i] <= b /\ q[i] \in Nat
        BY <4>1, <2>4, <1>2
      <4>3. QED
        BY <4>2, <2>5
    <3>3. QED
      BY <3>1, <3>2
  <2>7. QED
    BY <2>6 DEF Bad
<1>4. \E b \in Nat : \A i \in 1..Len(q) : q[i] <= b
  <2>1. Len(q) \notin Bad
    BY <1>3
  <2>2. QED
    BY <1>2, <2>1 DEF Bad
<1>5. QED
  BY <1>1, <1>4

LEMMA KeysShape ==
  /\ Keys \subseteq Nat /\ Keys # {} /\ LastKey \in Keys /\ \A j \in Keys : j <= LastKey
<1>1. Keys \subseteq Nat /\ Keys # {}
  <2>1. 1 \in DOMAIN Layout /\ Layout[1] # {} /\ \A i \in DOMAIN Layout : Layout[i] \subseteq Nat
    BY GroupConstants
  <2>2. UNION {Layout[i] : i \in DOMAIN Layout} \subseteq Nat
    BY <2>1
  <2>3. PICK k \in Layout[1] : TRUE
    BY <2>1
  <2>4. k \in UNION {Layout[i] : i \in DOMAIN Layout}
    BY <2>1
  <2>5. QED
    BY <2>2, <2>4, GroupConstants DEF Keys
<1>2. IsFiniteSet(Keys)
  <2> DEFINE T == {Layout[i] : i \in DOMAIN Layout}
  <2>1. IsFiniteSet(T)
    <3>1. Layout \in Seq(T) /\ \A s \in T : \E n \in 1..Len(Layout) : Layout[n] = s
      BY GroupConstants
    <3>2. QED
      BY <3>1 DEF IsFiniteSet
  <2>2. IsFiniteSet(UNION T)
    BY <2>1, FS_UNION, GroupConstants
  <2>3. IsFiniteSet(OpKeys \union Buffered)
    BY FS_Union, GroupConstants
  <2>4. IsFiniteSet((OpKeys \union Buffered) \union UNION T)
    BY <2>2, <2>3, FS_Union
  <2>5. QED
    BY <2>4 DEF Keys
<1>3. PICK b \in Nat : \A k \in Keys : k <= b
  BY <1>1, <1>2, Bounded
<1>4. \E k \in Keys : \A j \in Keys : j <= k
  <2>1. PICK S : S = {k + 1 : k \in Keys}
    OBVIOUS
  <2>2. S \in SUBSET (1..(b + 1)) /\ S # {}
    <3>1. \A k \in Keys : k + 1 \in 1..(b + 1)
      BY <1>1, <1>3
    <3>2. QED
      BY <1>1, <2>1, <3>1
  <2>3. PICK m \in S : \A j \in S : j <= m
    <3>1. b + 1 \in Nat
      OBVIOUS
    <3>2. QED
      BY <2>2, <3>1, GreatestUpTo
  <2>4. PICK k \in Keys : m = k + 1
    BY <2>1, <2>3
  <2>5. \A j \in Keys : j <= k
    BY <1>1, <2>1, <2>3, <2>4
  <2>6. QED
    BY <2>5
<1>5. QED
  BY <1>1, <1>4 DEF LastKey

LEMMA LeastIn ==
  ASSUME NEW S \in SUBSET Nat, S # {}
  PROVE  Least(S) \in S /\ \A j \in S : Least(S) <= j
BY LeastNat DEF Least

\* The loops over the keys of the new arrays.
LEMMA NextKeyEffect ==
  ASSUME bg \in BgRecord, bg.k \in Keys, NEW l \in BgPcs, NEW b, b = NextKey(l)
  PROVE  /\ bg.k = LastKey => b = [bg EXCEPT !.pc = l, !.k = 0]
         /\ bg.k # LastKey =>
              /\ b = [bg EXCEPT !.k = b.k]
              /\ b.k \in Keys /\ b.k > bg.k /\ \A j \in Keys : j > bg.k => j >= b.k
<1>1. CASE bg.k = LastKey
  BY <1>1 DEF NextKey
<1>2. CASE bg.k # LastKey
  <2>1. PICK S : S = {j \in Keys : j > bg.k}
    OBVIOUS
  <2>2. S \in SUBSET Nat /\ S # {}
    <3>1. LastKey > bg.k
      <4>1. bg.k \in Nat /\ LastKey \in Nat /\ bg.k <= LastKey
        BY KeysShape
      <4>2. QED
        BY <1>2, <4>1
    <3>2. LastKey \in S
      BY <2>1, <3>1, KeysShape
    <3>3. QED
      BY <2>1, <3>2, KeysShape
  <2>3. PICK k : k = Least(S)
    OBVIOUS
  <2>4. k \in Keys /\ k > bg.k /\ \A j \in Keys : j > bg.k => j >= k
    BY <2>1, <2>2, <2>3, LeastIn, KeysShape
  <2>5. b = [bg EXCEPT !.k = k]
    BY <1>2, <2>1, <2>3 DEF NextKey
  <2>6. b.k = k
    BY <2>5 DEF BgRecord
  <2>7. QED
    BY <1>2, <2>4, <2>5, <2>6
<1>3. QED
  BY <1>1, <1>2

-----------------------------------------------------------------------------
(* The lists of groups.                                                     *)

LEMMA ListFacts ==
  ASSUME IndexTyped
  PROVE  /\ Linking(Heads, Nexts)
         /\ DOMAIN Heads = DOMAIN roots[root] /\ DOMAIN Nexts = DOMAIN groups
         /\ Len(roots[root]) \in Nat /\ DOMAIN roots[root] = 1..Len(roots[root])
         /\ Len(roots) \in Nat /\ DOMAIN roots = 1..Len(roots)
         /\ Len(groups) \in Nat /\ DOMAIN groups = 1..Len(groups)
         /\ Len(cont) \in Nat /\ DOMAIN cont = 1..Len(cont)
         /\ 0 \notin DOMAIN groups /\ 0 \notin DOMAIN cont
         /\ Reach \subseteq DOMAIN groups
         /\ \A i \in DOMAIN roots[root] : Nulled(i) \/ roots[root][i].group \in Reach \union {0}
         /\ \A g \in Reach : groups[g].next \in Reach \union {0}
         /\ \A i \in DOMAIN roots[root] : Heads[i] \in Reach \union {0}
<1>1. /\ Len(roots[root]) \in Nat /\ DOMAIN roots[root] = 1..Len(roots[root])
      /\ Len(roots) \in Nat /\ DOMAIN roots = 1..Len(roots)
      /\ Len(groups) \in Nat /\ DOMAIN groups = 1..Len(groups)
      /\ Len(cont) \in Nat /\ DOMAIN cont = 1..Len(cont)
  <2>1. IsSeq(roots[root]) /\ IsSeq(roots) /\ IsSeq(groups) /\ IsSeq(cont)
    BY DEF IndexTyped, AllRoots, AllGroups, IsRootArray
  <2>2. QED
    BY <2>1, SeqShape
<1>2. 0 \notin DOMAIN groups /\ 0 \notin DOMAIN cont
  BY <1>1
<1>3. /\ DOMAIN Heads = DOMAIN roots[root] /\ DOMAIN Nexts = DOMAIN groups
      /\ \A i \in DOMAIN roots[root] : Heads[i] = IF Nulled(i) THEN 0 ELSE roots[root][i].group
      /\ \A g \in DOMAIN groups : Nexts[g] = groups[g].next
  BY DEF Heads, Nexts
<1>4. /\ \A i \in DOMAIN roots[root] : roots[root][i].group \in DOMAIN groups \union {0}
      /\ \A g \in DOMAIN groups : groups[g].next \in DOMAIN groups \union {0}
  BY DEF IndexTyped, AllRoots, IsRootArray, AllGroups, IsGroup
<1>5. Linking(Heads, Nexts)
  BY <1>2, <1>3, <1>4 DEF Linking, ClosedUnder
<1>6. Reach \subseteq DOMAIN groups /\ ClosedUnder(Heads, Nexts, Reach)
  BY <1>3, <1>5, ReachClosed DEF Reach
<1>7. QED
  BY <1>1, <1>2, <1>3, <1>5, <1>6 DEF ClosedUnder

LEMMA ListsAre ==
  /\ \A i \in DOMAIN roots[root] : Heads[i] = IF Nulled(i) THEN 0 ELSE roots[root][i].group
  /\ \A g \in DOMAIN groups : Nexts[g] = groups[g].next
BY DEF Heads, Nexts

LEMMA SlotFacts ==
  ASSUME NEW i, NEW g, NEW ref
  PROVE  /\ Slot(i).in = "slot" /\ Slot(i).i = i /\ NextOf(g).in = "next" /\ NextOf(g).i = g
         /\ NextOf(g) # Slot(i) /\ NextOf(g) # NoRef /\ Slot(i) # NoRef
         /\ i \in Nat => Slot(i) \in Ref
         /\ g \in Nat => NextOf(g) \in Ref
         /\ NoRef \in Ref /\ NoRef.in = "none"
BY DEF Slot, NextOf, NoRef, Ref

\* A reference in the list of the background thread's slot.
LEMMA RefFacts ==
  ASSUME IndexTyped, bg.slot \in DOMAIN roots[root], ~Nulled(bg.slot),
         NEW ref, RefOK(ref)
  PROVE  /\ RefIn(ref)
         /\ Target(ref) \in ChainOf(Heads, Nexts, bg.slot) \union {0}
         /\ Target(ref) \in Reach \union {0}
         /\ ref.in = "next" => /\ ref.i \in Reach /\ ref.i \in ChainOf(Heads, Nexts, bg.slot)
                               /\ Nexts[ref.i] = Target(ref) /\ groups[ref.i].next = Target(ref)
                               /\ ref.in # "slot"
         /\ ref.in = "slot" => /\ ref.i = bg.slot /\ Heads[ref.i] = Target(ref)
                               /\ roots[root][ref.i].group = Target(ref)
                               /\ ref.in # "next"
         /\ ref.in \in {"slot", "next"}
<1> DEFINE C == ChainOf(Heads, Nexts, bg.slot)
<1>1. /\ C \subseteq Reach /\ C \subseteq DOMAIN groups /\ Heads[bg.slot] \in C \union {0}
      /\ \A g \in C : Nexts[g] \in C \union {0}
  BY ListFacts, ChainClosed DEF Reach
<1> HIDE DEF C
<1>2. CASE ref.in = "slot" /\ ref.i = bg.slot
  BY <1>1, <1>2, ListsAre DEF RefIn, Target, C
<1>3. CASE ref.in = "next" /\ ref.i \in C
  BY <1>1, <1>3, ListsAre DEF RefIn, Target, C
<1>4. QED
  BY <1>2, <1>3 DEF RefOK, C

LEMMA NextInChain ==
  ASSUME IndexTyped, bg.slot \in DOMAIN roots[root], ~Nulled(bg.slot),
         NEW ref, RefOK(ref), NEW g, g = Target(ref), g # 0
  PROVE  RefOK(NextOf(g))
BY RefFacts, SlotFacts DEF RefOK

\* Nothing that the lists depend on changes.
SameLists ==
  /\ root' = root /\ DOMAIN roots'[root] = DOMAIN roots[root]
  /\ \A i \in DOMAIN roots[root] : Heads'[i] = Heads[i]
  /\ DOMAIN groups' = DOMAIN groups
  /\ \A g \in DOMAIN groups : groups'[g].next = groups[g].next

LEMMA ListsStay ==
  ASSUME SameLists
  PROVE  Heads' = Heads /\ Nexts' = Nexts /\ Reach' = Reach
         /\ (LinkedOnce(Heads, Nexts)' <=> LinkedOnce(Heads, Nexts))
<1>1. Nexts' = Nexts
  BY DEF SameLists, Nexts
<1>2. Heads' = Heads
  <2>1. DOMAIN Heads' = DOMAIN Heads
    BY DEF SameLists, Heads
  <2>2. Heads = [i \in DOMAIN Heads |-> Heads[i]] /\ Heads' = [i \in DOMAIN Heads' |-> Heads'[i]]
    BY DEF Heads
  <2>3. DOMAIN Heads = DOMAIN roots[root]
    BY DEF Heads
  <2>4. QED
    BY <2>1, <2>2, <2>3 DEF SameLists
<1>3. QED
  BY <1>1, <1>2 DEF Reach

-----------------------------------------------------------------------------
(* What a step of a worker leaves alone.                                    *)

WorkerStep(p) == Start(p) \/ StartScan(p) \/ Elsewhere(p) \/ Step(p)

LEMMA WorkerFrame ==
  ASSUME NEW p \in Procs, WorkerStep(p)
  PROVE  UNCHANGED <<root, roots, groups, freed, bg>>
<1>1. CASE Start(p) \/ StartScan(p) \/ Elsewhere(p)
  <2>1. UNCHANGED <<index, bgvars>>
    <3>1. CASE Start(p)
      BY <3>1 DEF Start
    <3>2. CASE StartScan(p)
      BY <3>2 DEF StartScan
    <3>3. CASE Elsewhere(p)
      BY <3>3 DEF Elsewhere
    <3>4. QED
      BY <1>1, <3>1, <3>2, <3>3
  <2>2. QED
    BY <2>1 DEF index, bgvars
<1>2. CASE LoadSlot(p) \/ WalkChain(p) \/ TempMiss(p) \/ PutLoadTemp(p) \/ PutNotFrozen(p)
           \/ PutRetry(p) \/ Return(p)
  BY <1>2 DEF LoadSlot, WalkChain, TempMiss, PutLoadTemp, PutNotFrozen, PutRetry, Return,
              index, bgvars
<1>3. CASE Array(p) \/ Buffer(p) \/ TempHit(p)
  BY <1>3 DEF Array, Buffer, TempHit, Apply, Miss, Write, index, bgvars
<1>4. CASE Insert(p)
  BY <1>4 DEF Insert, Write, index, bgvars
<1>5. CASE Scan(p)
  BY <1>5 DEF Scan, ScanGroup, ScanBuffer, ScanTemp, ScanArray, ScanNext, ScanSlot,
              ScanReturn, ScanMoves, index, bgvars
<1>6. QED
  BY <1>1, <1>2, <1>3, <1>4, <1>5 DEF WorkerStep, Step

\* The part of the invariant that does not depend on workers or cells.
Structure ==
  /\ Standing /\ Named /\ Unlinked /\ Linked /\ FirstSlot /\ Flattening /\ NewRoot /\ Owned

LEMMA FrameStanding ==
  ASSUME UNCHANGED <<root, roots, groups, bg>>, Standing, Named
  PROVE  Standing' /\ Named'
BY DEF Standing, Named, Adjusting, RefOK, Target, Heads, Nexts, Nulled, Doing, Old, Other

LEMMA FrameReach ==
  ASSUME UNCHANGED <<root, roots, groups, bg>>
  PROVE  /\ Heads' = Heads /\ Nexts' = Nexts /\ Reach' = Reach /\ Doomed' = Doomed
         /\ Halves' = Halves /\ WithTemp' = WithTemp /\ Sources' = Sources
         /\ NewArrays' = NewArrays /\ (Working' <=> Working) /\ (Rooting' <=> Rooting)
         /\ \A k : NewArray(k)' = NewArray(k)
BY DEF Reach, Heads, Nexts, Nulled, Doing, Doomed, Other, Halves, WithTemp, Merging, Sources,
       NewArrays, NewArray, Working, Rooting

LEMMA FrameStructure ==
  ASSUME UNCHANGED <<root, roots, groups, freed, bg>>, Structure
  PROVE  Structure'
<1>1. Standing' /\ Named'
  BY FrameStanding DEF Structure
<1>2. Unlinked' /\ Linked'
  BY FrameReach DEF Structure, Unlinked, Linked, Doomed
<1>3. FirstSlot'
  BY DEF Structure, FirstSlot
<1>4. Flattening' /\ NewRoot'
  <2>1. \A r, n : InOrder(r, n)' <=> InOrder(r, n)
    BY FrameReach DEF InOrder
  <2>2. \A a : (LastCopied(a)' <=> LastCopied(a)) /\ (AllCopied(a)' <=> AllCopied(a))
               /\ (OnlyCopied(a)' <=> OnlyCopied(a))
    BY DEF LastCopied, AllCopied, OnlyCopied, Copied
  <2>3. Flattening'
    BY <2>1, <2>2 DEF Structure, Flattening
  <2>4. NewRoot'
    BY <2>1, FrameReach DEF Structure, NewRoot, Rooting
  <2>5. QED
    BY <2>3, <2>4
<1>5. Owned'
  BY FrameReach DEF Structure, Owned, ContsOf, Other, Replaced
<1>6. QED
  BY <1>1, <1>2, <1>3, <1>4, <1>5 DEF Structure

-----------------------------------------------------------------------------
(* Worker p moves.                                                          *)

Others(p) ==
  \A q \in Procs \ {p} :
    /\ pc'[q] = pc[q] /\ rt'[q] = rt[q] /\ sl'[q] = sl[q] /\ gr'[q] = gr[q] /\ op'[q] = op[q]
    /\ q \in bwait' <=> q \in bwait
ScanOthers(p) == \A q \in Procs \ {p} : scan'[q].on = scan[q].on

Worker(p) == DoingOf(p) /\ PlaceOf(p) /\ GraceOf(p)

LEMMA CallFacts ==
  ASSUME NEW c \in Abs!Calls
  PROVE  /\ c # Abs!Idle /\ c.key \in OpKeys /\ c.key \in Keys
         /\ c.kind \in {"get", "put", "remove"} /\ (c.kind = "put" => c.val \in Values)
         /\ (c.kind # "get" => Abs!Result(c) \in Values \union {None})
BY DEF Abs!Calls, Abs!Idle, Abs!Result, Keys

LEMMA SlotOfIn ==
  ASSUME IndexTyped, roots[root] # <<>>, NEW k
  PROVE  SlotOf(root, k) \in DOMAIN roots[root] /\ SlotOf(root, k) \in Nat
<1>1. /\ Len(roots[root]) \in Nat /\ DOMAIN roots[root] = 1..Len(roots[root])
      /\ Len(roots[root]) # 0
  <2>1. IsSeq(roots[root])
    BY DEF IndexTyped, AllRoots, IsRootArray
  <2>2. QED
    BY <2>1, SeqShape
<1>2. PICK S : S = {i \in DOMAIN roots[root] : roots[root][i].pivot <= k}
  OBVIOUS
<1>3. CASE S = {}
  BY <1>1, <1>2, <1>3 DEF SlotOf
<1>4. CASE S # {}
  <2>1. S \in SUBSET (1..Len(roots[root]))
    BY <1>1, <1>2
  <2>2. \E i \in S : \A j \in S : j <= i
    BY <1>1, <1>4, <2>1, GreatestUpTo
  <2>3. SlotOf(root, k) \in S
    BY <1>2, <1>4, <2>2 DEF SlotOf
  <2>4. \A i \in S : i \in DOMAIN roots[root] /\ i \in Nat
    BY <1>1, <2>1
  <2>5. QED
    BY <2>3, <2>4
<1>5. QED
  BY <1>3, <1>4

\* The entry into an operation or a scan.
LEMMA EnterMoves ==
  ASSUME IndexTyped, Typed, roots[root] # <<>>, NEW p \in Procs, NEW k, Enter(p, k),
         UNCHANGED gr,
         \A q \in Procs \ {p} : op'[q] = op[q], op' \in [Procs -> Abs!Calls \union {Abs!Idle}]
  PROVE  /\ Typed' /\ Others(p) /\ pc'[p] = "slot" /\ rt'[p] = root
         /\ sl'[p] \in DOMAIN roots[root] /\ p \notin bwait'
<1>1. SlotOf(root, k) \in DOMAIN roots[root] /\ SlotOf(root, k) \in Nat /\ root \in Nat
  BY SlotOfIn, ListFacts DEF IndexTyped
<1>2. PICK s : s = SlotOf(root, k)
  OBVIOUS
<1>3. /\ pc' = [pc EXCEPT ![p] = "slot"] /\ rt' = [rt EXCEPT ![p] = root]
      /\ sl' = [sl EXCEPT ![p] = s] /\ bwait' = bwait \ {p}
  BY <1>2 DEF Enter, Goto
<1>4. Typed'
  BY <1>1, <1>2, <1>3 DEF Typed, WorkerPcs
<1>5. QED
  BY <1>1, <1>2, <1>3, <1>4 DEF Typed, Others

Before == IndexTyped /\ Structure /\ Typed /\ Scans /\ Doings /\ Places /\ Grace
Steady == UNCHANGED <<root, roots, groups, freed, bg>>
Moved(p) == Typed' /\ Others(p) /\ Scans' /\ ScanOthers(p) /\ Worker(p)'

LEMMA Entered ==
  ASSUME Before, Steady, NEW p \in Procs, pc'[p] = "slot", rt'[p] = root,
         sl'[p] \in DOMAIN roots[root], scan'[p].on \/ op'[p] \in Abs!Calls
  PROVE  Worker(p)'
BY DEF Before, Steady, Worker, DoingOf, PlaceOf, GraceOf, HoldsGroup, PointPcs, ScanPcs, IndexTyped

LEMMA InPlace ==
  ASSUME Before, Steady, NEW p \in Procs, pc[p] \notin {"idle", "slot"},
         rt'[p] = rt[p], sl'[p] = sl[p], gr'[p] = gr[p], p \in bwait' <=> p \in bwait,
         HoldsGroup(p)' => HoldsGroup(p), DoingOf(p)'
  PROVE  Worker(p)'
<1>1. PlaceOf(p)'
  BY DEF Before, Steady, Places, PlaceOf
<1>2. GraceOf(p)'
  BY FrameReach DEF Before, Steady, Grace, GraceOf
<1>3. QED
  BY <1>1, <1>2 DEF Worker

LEMMA InvokeFacts ==
  ASSUME Typed, NEW p \in Procs, Abs!Invoke(p)
  PROVE  /\ op' \in [Procs -> Abs!Calls \union {Abs!Idle}] /\ op'[p] \in Abs!Calls
         /\ \A q \in Procs \ {p} : op'[q] = op[q]
<1>1. PICK c \in Abs!Calls : op' = [op EXCEPT ![p] = c]
  BY DEF Abs!Invoke
<1>2. QED
  BY <1>1 DEF Typed

LEMMA RespondFacts ==
  ASSUME Typed, NEW p \in Procs, Abs!Respond(p)
  PROVE  /\ op' \in [Procs -> Abs!Calls \union {Abs!Idle}]
         /\ \A q \in Procs \ {p} : op'[q] = op[q]
BY DEF Abs!Respond, Typed

LEMMA StartMoves ==
  ASSUME Before, NEW p \in Procs, Start(p)
  PROVE  Moved(p)
<1>0. Steady
  BY WorkerFrame DEF WorkerStep, Steady
<1>1. /\ op' \in [Procs -> Abs!Calls \union {Abs!Idle}] /\ op'[p] \in Abs!Calls
      /\ \A q \in Procs \ {p} : op'[q] = op[q]
  BY InvokeFacts DEF Start, Before
<1>2. Enter(p, op'[p].key) /\ UNCHANGED <<gr, scan>>
  BY DEF Start
<1>3. PICK k : k = op'[p].key
  OBVIOUS
<1>4. Enter(p, k)
  BY <1>2, <1>3
<1>5. /\ Typed' /\ Others(p) /\ pc'[p] = "slot" /\ rt'[p] = root
      /\ sl'[p] \in DOMAIN roots[root] /\ p \notin bwait'
  BY <1>1, <1>2, <1>4, EnterMoves DEF Before, Structure, NewRoot
<1>6. QED
  BY <1>0, <1>1, <1>2, <1>5, Entered DEF Moved, Before, Scans, ScanOthers

LEMMA StartScanMoves ==
  ASSUME Before, NEW p \in Procs, StartScan(p)
  PROVE  Moved(p)
<1>0. Steady
  BY WorkerFrame DEF WorkerStep, Steady
<1>1. PICK k \in ScanFrom : scan' = [scan EXCEPT ![p] = ScanFromKey(k)] /\ Enter(p, k)
  BY DEF StartScan
<1>2. PICK s : s = ScanFromKey(k) /\ scan' = [scan EXCEPT ![p] = s]
  BY <1>1
<1>3. DOMAIN s = DOMAIN NoScan /\ s.on
  BY <1>2 DEF NoScan, ScanFromKey
<1>4. Scans' /\ ScanOthers(p) /\ scan'[p].on
  <2>1. Scans' /\ ScanOthers(p)
    BY <1>2, <1>3 DEF Before, Scans, ScanOthers
  <2>2. QED
    BY <1>2, <1>3, <2>1 DEF Before, Scans
<1>5. UNCHANGED <<gr, op>> /\ Enter(p, k)
  BY <1>1 DEF StartScan
<1>6. /\ Typed' /\ Others(p) /\ pc'[p] = "slot" /\ rt'[p] = root
      /\ sl'[p] \in DOMAIN roots[root] /\ p \notin bwait'
  BY <1>5, EnterMoves DEF Before, Structure, NewRoot, Typed
<1>7. QED
  BY <1>0, <1>4, <1>6, Entered DEF Moved

LEMMA RetryMoves ==
  ASSUME Before, NEW p \in Procs, PutRetry(p)
  PROVE  Moved(p)
<1>0. Steady
  BY WorkerFrame DEF WorkerStep, Step, Steady
<1>1. UNCHANGED <<gr, op, scan>> /\ Enter(p, Key(p)) /\ pc[p] = "frozen"
  BY DEF PutRetry, opvars
<1>2. PICK k : k = Key(p)
  OBVIOUS
<1>3. Enter(p, k)
  BY <1>1, <1>2
<1>4. /\ Typed' /\ Others(p) /\ pc'[p] = "slot" /\ rt'[p] = root
      /\ sl'[p] \in DOMAIN roots[root] /\ p \notin bwait'
  BY <1>1, <1>3, EnterMoves DEF Before, Structure, NewRoot, Typed
<1>5. op'[p] \in Abs!Calls
  BY <1>1 DEF Before, Doings, DoingOf, PointPcs
<1>6. QED
  BY <1>0, <1>1, <1>4, <1>5, Entered DEF Moved, Before, Scans, ScanOthers

LEMMA ElsewhereMoves ==
  ASSUME Before, NEW p \in Procs, Elsewhere(p)
  PROVE  Moved(p)
<1>0. Steady
  BY WorkerFrame DEF WorkerStep, Steady
<1>1. UNCHANGED <<pc, rt, sl, gr, op, scan>> /\ bwait' = bwait \ {p} /\ pc[p] = "idle"
  BY DEF Elsewhere, locals, opvars
<1>2. Worker(p)'
  BY <1>0, <1>1 DEF Worker, Before, Steady, DoingOf, PlaceOf, GraceOf, HoldsGroup, PointPcs, ScanPcs
<1>3. QED
  BY <1>1, <1>2 DEF Moved, Before, Typed, Others, Scans, ScanOthers

\* Who has no group, or has just got one.
LEMMA Gone ==
  ASSUME Before, Steady, NEW p \in Procs, pc'[p] = "idle"
  PROVE  Worker(p)'
BY DEF Before, Worker, DoingOf, PlaceOf, GraceOf, HoldsGroup, PointPcs, ScanPcs

LEMMA Arrived ==
  ASSUME Before, Steady, NEW p \in Procs, pc[p] # "idle", pc'[p] \in {"chain", "scangroup"},
         rt'[p] = rt[p], p \in bwait' <=> p \in bwait,
         sl'[p] \in DOMAIN roots[rt[p]], op'[p] = op[p], scan'[p].on <=> scan[p].on,
         pc'[p] = "scangroup" => scan[p].on,
         pc'[p] = "chain" => pc[p] \in {"slot", "chain"},
         gr'[p] \in Reach \/ (gr'[p] \in Doomed /\ (bg.pc = "publishnext" \/ p \in bwait))
  PROVE  Worker(p)'
<1>1. DoingOf(p)'
  BY DEF Before, Steady, Scans, Doings, DoingOf, PointPcs, ScanPcs
<1>2. PlaceOf(p)'
  BY ListFacts DEF Before, Steady, Structure, Unlinked, Places, PlaceOf
<1>3. GraceOf(p)'
  <2>1. Reach' = Reach /\ Doomed' = Doomed
    BY FrameReach DEF Steady
  <2>2. Doomed \intersect Reach = {}
    BY DEF Before, Structure, Unlinked
  <2>3. QED
    BY <2>1, <2>2 DEF Steady, GraceOf
<1>4. QED
  BY <1>1, <1>2, <1>3 DEF Worker

\* What a slot leads to.
LEMMA SlotLeads ==
  ASSUME Before, NEW p \in Procs, pc[p] # "idle", NEW i \in DOMAIN roots[rt[p]],
         NEW g, g = roots[rt[p]][i].group, g # 0
  PROVE  g \in Reach \/ (g \in Doomed /\ bg.pc = "publishnext")
<1>1. rt[p] = root \/ (bg.pc = "newroot" /\ rt[p] = root - 1)
  BY DEF Before, Places, PlaceOf
<1>2. CASE rt[p] = root /\ ~Nulled(i)
  BY <1>2, ListFacts DEF Before
<1>3. CASE rt[p] = root /\ Nulled(i)
  <2>1. /\ bg.act = "merge" /\ bg.pc \in {"publishnext", "published"} /\ bg.nref = Slot(i)
        /\ bg.nref.in = "slot" /\ bg.nref.i = i
    BY <1>3, SlotFacts DEF Nulled, Doing
  <2>2. CASE bg.pc = "publishnext"
    <3>1. g = bg.other /\ bg.other \in Doomed
      BY <1>3, <2>1, <2>2 DEF Before, Structure, Named, Doing, Doomed
    <3>2. QED
      BY <2>2, <3>1
  <2>3. CASE bg.pc = "published"
    <3>1. g = bg.next /\ bg.next = Target(bg.ref)
      BY <1>3, <2>1, <2>3 DEF Before, Structure, Named, Doing, Replaced
    <3>2. bg.slot \in DOMAIN roots[root] /\ RefOK(bg.ref)
      BY <2>3 DEF Before, Structure, Standing, Adjusting
    <3>3. ~Nulled(bg.slot)
      <4>1. bg.slot \in Nat
        BY <3>2, ListFacts DEF Before
      <4>2. bg.nref # Slot(bg.slot)
        BY <4>1, <2>1, SlotFacts DEF Before, Structure, Named, Doing, Slot, NextOf
      <4>3. QED
        BY <4>2 DEF Nulled
    <3>4. QED
      BY <3>1, <3>2, <3>3, RefFacts DEF Before
  <2>4. QED
    BY <2>1, <2>2, <2>3
<1>4. CASE bg.pc = "newroot" /\ rt[p] = root - 1
  <2>1. g \in Reach \union {0}
    BY <1>4 DEF Before, Structure, NewRoot, Rooting
  <2>2. QED
    BY <2>1
<1>5. QED
  BY <1>1, <1>2, <1>3, <1>4

\* What the next field of a group a worker holds leads to.
LEMMA NextLeads ==
  ASSUME Before, NEW p \in Procs, HoldsGroup(p), NEW g, g = groups[gr[p]].next, g # 0
  PROVE  g \in Reach \/ (g \in Doomed /\ (bg.pc = "publishnext" \/ p \in bwait))
<1>1. gr[p] \in Reach \union Doomed /\ (gr[p] \in Doomed /\ bg.pc # "publishnext" => p \in bwait)
  BY DEF Before, Grace, GraceOf
<1>2. CASE gr[p] \in Reach
  BY <1>2, ListFacts DEF Before
<1>3. CASE gr[p] \in Doomed
  BY <1>1, <1>3 DEF Before, Structure, Unlinked
<1>4. QED
  BY <1>1, <1>2, <1>3

LEMMA LoadSlotMoves ==
  ASSUME Before, NEW p \in Procs, LoadSlot(p)
  PROVE  Moved(p)
<1>0. Steady
  BY WorkerFrame DEF WorkerStep, Step, Steady
<1>1. UNCHANGED <<bwait, rt, op, scan>> /\ pc[p] = "slot"
  BY DEF LoadSlot, opvars
<1>2. /\ rt[p] \in DOMAIN roots /\ sl[p] \in DOMAIN roots[rt[p]]
      /\ DOMAIN roots[rt[p]] = 1..Len(roots[rt[p]]) /\ Len(roots[rt[p]]) \in Nat
  <2>1. rt[p] \in DOMAIN roots /\ sl[p] \in DOMAIN roots[rt[p]]
    BY <1>1 DEF Before, Places, PlaceOf
  <2>2. IsSeq(roots[rt[p]])
    BY <2>1 DEF Before, IndexTyped, AllRoots, IsRootArray
  <2>3. QED
    BY <2>1, <2>2, SeqShape
<1>3. PICK g : g = roots[rt[p]][sl[p]].group
  OBVIOUS
<1>4. CASE g = 0
  <2>1. sl' = [sl EXCEPT ![p] = sl[p] - 1] /\ UNCHANGED <<pc, gr>>
    BY <1>3, <1>4 DEF LoadSlot
  <2>2. sl[p] # 1
    <3>1. roots[rt[p]] # <<>>
      BY <1>2
    <3>2. QED
      BY <1>2, <1>3, <1>4, <3>1 DEF Before, Structure, FirstSlot
  <2>3. sl[p] - 1 \in DOMAIN roots[rt[p]] /\ sl[p] - 1 \in Nat
    BY <1>2, <2>2
  <2>4. Typed' /\ Others(p) /\ Scans' /\ ScanOthers(p) /\ sl'[p] = sl[p] - 1
    BY <1>1, <2>1, <2>3 DEF Before, Typed, Others, Scans, ScanOthers
  <2>5. Worker(p)'
    <3>1. DoingOf(p)'
      BY <1>0, <1>1, <2>1 DEF Before, Steady, Doings, DoingOf
    <3>2. PlaceOf(p)'
      BY <1>0, <1>1, <2>1, <2>3, <2>4 DEF Before, Steady, Places, PlaceOf
    <3>3. GraceOf(p)'
      BY <1>1, <2>1 DEF GraceOf, HoldsGroup, PointPcs, ScanPcs
    <3>4. QED
      BY <3>1, <3>2, <3>3 DEF Worker
  <2>6. QED
    BY <2>4, <2>5 DEF Moved
<1>5. CASE g # 0
  <2>1. gr' = [gr EXCEPT ![p] = g] /\ pc' = [pc EXCEPT ![p] = "chain"] /\ UNCHANGED sl
    BY <1>3, <1>5 DEF LoadSlot, Goto
  <2>2. g \in Reach \/ (g \in Doomed /\ bg.pc = "publishnext")
    BY <1>1, <1>2, <1>3, <1>5, SlotLeads
  <2>3. g \in Nat
    BY <2>2, ListFacts DEF Before, Structure, Unlinked
  <2>4. Typed' /\ Others(p) /\ Scans' /\ ScanOthers(p) /\ gr'[p] = g /\ pc'[p] = "chain"
    BY <1>1, <2>1, <2>3 DEF Before, Typed, WorkerPcs, Others, Scans, ScanOthers
  <2>5. Worker(p)'
    BY <1>0, <1>1, <1>2, <2>1, <2>2, <2>4, Arrived
  <2>6. QED
    BY <2>4, <2>5 DEF Moved
<1>6. QED
  BY <1>4, <1>5

LEMMA WalkChainMoves ==
  ASSUME Before, NEW p \in Procs, WalkChain(p)
  PROVE  Moved(p)
<1>0. Steady
  BY WorkerFrame DEF WorkerStep, Step, Steady
<1>1. UNCHANGED <<bwait, rt, sl, op, scan>> /\ pc[p] = "chain" /\ HoldsGroup(p)
  BY DEF WalkChain, opvars, HoldsGroup
<1>2. CASE gr' = [gr EXCEPT ![p] = G(p).next] /\ G(p).next # 0 /\ UNCHANGED pc
  <2>1. PICK g : g = groups[gr[p]].next
    OBVIOUS
  <2>2. g \in Reach \/ (g \in Doomed /\ (bg.pc = "publishnext" \/ p \in bwait))
    BY <1>1, <1>2, <2>1, NextLeads DEF G
  <2>3. g \in Nat
    BY <2>2, ListFacts DEF Before, Structure, Unlinked
  <2>4. Typed' /\ Others(p) /\ Scans' /\ ScanOthers(p) /\ gr'[p] = g /\ pc'[p] = "chain"
    BY <1>1, <1>2, <2>1, <2>3 DEF Before, Typed, Others, Scans, ScanOthers, G
  <2>5. sl'[p] \in DOMAIN roots[rt[p]]
    BY <1>1 DEF Before, Places, PlaceOf
  <2>6. Worker(p)'
    BY <1>0, <1>1, <2>2, <2>4, <2>5, Arrived
  <2>7. QED
    BY <2>4, <2>6 DEF Moved
<1>3. CASE /\ pc' = [pc EXCEPT ![p] = IF scan[p].on THEN "scangroup" ELSE "array"]
           /\ UNCHANGED gr
  <2>1. Typed' /\ Others(p) /\ Scans' /\ ScanOthers(p)
    BY <1>1, <1>3 DEF Before, Typed, WorkerPcs, PointPcs, ScanPcs, Others, Scans, ScanOthers
  <2>2. pc'[p] = IF scan[p].on THEN "scangroup" ELSE "array"
    BY <1>3 DEF Before, Typed
  <2>3. DoingOf(p)'
    BY <1>0, <1>1, <2>2 DEF Before, Doings, DoingOf, PointPcs, ScanPcs
  <2>4. Worker(p)'
    BY <1>0, <1>1, <1>3, <2>3, InPlace
  <2>5. QED
    BY <2>1, <2>4 DEF Moved
<1>4. QED
  BY <1>2, <1>3 DEF WalkChain, Goto

\* A step within an operation or a scan, from l to m.
LEMMA Proceeds ==
  ASSUME Before, Steady, NEW p \in Procs, pc[p] \notin {"idle", "slot"},
         NEW m \in WorkerPcs, pc' = [pc EXCEPT ![p] = m],
         UNCHANGED <<bwait, rt, sl, gr, op>>, Scans', ScanOthers(p), scan'[p].on <=> scan[p].on,
         m \in {"done", "scanslot", "scanned"} \/ HoldsGroup(p),
         scan[p].on => m \in ScanPcs \union {"scanslot", "scanned"},
         ~scan[p].on => m \in {"done"} \union PointPcs /\ op[p] \in Abs!Calls,
         m \in {"loadtemp", "frozen", "insert", "inserttemp"} => op[p].kind = "put",
         m = "inserttemp" \/ (m = "buffer" /\ op[p].kind = "put") => G(p).temp # 0
  PROVE  Moved(p)
<1>1. Typed' /\ Others(p) /\ pc'[p] = m
  BY DEF Before, Typed, Others
<1>2. DoingOf(p)'
  BY <1>1 DEF Steady, G, DoingOf, PointPcs, ScanPcs
<1>3. Worker(p)'
  BY <1>1, <1>2, InPlace DEF HoldsGroup, ScanPcs, PointPcs
<1>4. QED
  BY <1>1, <1>3 DEF Moved

LEMMA WriteScans ==
  ASSUME Scans, NEW p \in Procs, NEW c, NEW v, Write(p, c, v)
  PROVE  Scans' /\ \A q \in Procs : scan'[q].on <=> scan[q].on
<1>1. \A q \in Procs : scan'[q] = IF scan[q].on
                                  THEN [scan[q] EXCEPT !.seen[Key(p)] = @ \union {v}]
                                  ELSE scan[q]
  BY DEF Write
<1>2. DOMAIN scan' = Procs
  BY DEF Write
<1>3. ASSUME NEW q \in Procs
      PROVE  DOMAIN scan'[q] = DOMAIN NoScan /\ (scan'[q].on <=> scan[q].on) /\ scan'[q].on \in BOOLEAN
  <2>1. PICK s : s = [scan[q].seen EXCEPT ![Key(p)] = @ \union {v}]
    OBVIOUS
  <2>2. CASE scan[q].on
    <3>1. scan'[q] = [scan[q] EXCEPT !.seen = s]
      BY <1>1, <2>1, <2>2
    <3>2. DOMAIN scan'[q] = DOMAIN scan[q] /\ scan'[q].on = scan[q].on
      BY <3>1
    <3>3. QED
      BY <3>2 DEF Scans
  <2>3. CASE ~scan[q].on
    BY <1>1, <2>3 DEF Scans
  <2>4. QED
    BY <2>2, <2>3
<1>4. QED
  BY <1>2, <1>3 DEF Scans

LEMMA ApplyMoves ==
  ASSUME Before, Steady, NEW p \in Procs, pc[p] \in {"array", "buffer", "temp"}, NEW c, Apply(p, c)
  PROVE  Moved(p)
<1>1. ~scan[p].on /\ op[p] \in Abs!Calls /\ HoldsGroup(p)
  BY DEF Before, Doings, DoingOf, PointPcs, HoldsGroup
<1>2. Scans' /\ \A q \in Procs : scan'[q].on <=> scan[q].on
  BY WriteScans DEF Before, Apply, Scans
<1>3. pc' = [pc EXCEPT ![p] = "done"] /\ UNCHANGED <<bwait, rt, sl, gr, op>>
  BY DEF Apply, Goto
<1>4. ScanOthers(p)
  <2>1. \A q \in Procs : scan[q].on \in BOOLEAN /\ scan'[q].on \in BOOLEAN
    BY <1>2 DEF Before, Scans
  <2>2. QED
    BY <1>2, <2>1 DEF ScanOthers
<1>5. QED
  BY <1>1, <1>2, <1>3, <1>4, Proceeds DEF PointPcs, WorkerPcs

LEMMA InsertMoves ==
  ASSUME Before, NEW p \in Procs, Insert(p)
  PROVE  Moved(p)
<1>0. Steady
  BY WorkerFrame DEF WorkerStep, Step, Steady
<1>1. ~scan[p].on /\ op[p] \in Abs!Calls /\ HoldsGroup(p) /\ pc[p] \in {"insert", "inserttemp"}
  BY DEF Before, Doings, DoingOf, PointPcs, HoldsGroup, Insert
<1>2. Scans' /\ \A q \in Procs : scan'[q].on <=> scan[q].on
  BY WriteScans DEF Before, Insert
<1>3. pc' = [pc EXCEPT ![p] = "done"] /\ UNCHANGED <<bwait, rt, sl, gr, op>>
  BY DEF Insert, Goto
<1>4. ScanOthers(p)
  <2>1. \A q \in Procs : scan[q].on \in BOOLEAN /\ scan'[q].on \in BOOLEAN
    BY <1>2 DEF Before, Scans
  <2>2. QED
    BY <1>2, <2>1 DEF ScanOthers
<1>5. QED
  BY <1>0, <1>1, <1>2, <1>3, <1>4, Proceeds DEF PointPcs, WorkerPcs

LEMMA PointMoves ==
  ASSUME Before, NEW p \in Procs,
         \/ Array(p) \/ Buffer(p) \/ TempHit(p) \/ TempMiss(p) \/ PutLoadTemp(p) \/ PutNotFrozen(p)
  PROVE  Moved(p)
<1>0. Steady
  BY WorkerFrame DEF WorkerStep, Step, Steady
<1>1. /\ pc[p] \in {"array", "buffer", "temp", "loadtemp", "frozen"}
      /\ ~scan[p].on /\ op[p] \in Abs!Calls /\ HoldsGroup(p)
  <2>1. pc[p] \in {"array", "buffer", "temp", "loadtemp", "frozen"}
    BY DEF Array, Buffer, TempHit, TempMiss, PutLoadTemp, PutNotFrozen
  <2>2. QED
    BY <2>1 DEF Before, Doings, DoingOf, PointPcs, HoldsGroup
<1>2. ASSUME UNCHANGED <<bwait, rt, sl, gr, op, scan>>, NEW m \in {"done"} \union PointPcs,
             pc' = [pc EXCEPT ![p] = m],
             m \in {"loadtemp", "frozen", "insert", "inserttemp"} => op[p].kind = "put",
             m = "inserttemp" \/ (m = "buffer" /\ op[p].kind = "put") => G(p).temp # 0
      PROVE  Moved(p)
  <2>1. Scans' /\ ScanOthers(p) /\ (scan'[p].on <=> scan[p].on)
    BY <1>2 DEF Before, Scans, ScanOthers
  <2>2. QED
    BY <1>0, <1>1, <1>2, <2>1, Proceeds DEF PointPcs, WorkerPcs
<1>3. ASSUME NEW c, NEW l \in PointPcs, Miss(p, c, l),
             l \in {"loadtemp", "frozen", "insert", "inserttemp"} => op[p].kind = "put",
             l = "inserttemp" \/ (l = "buffer" /\ op[p].kind = "put") => G(p).temp # 0
      PROVE  Moved(p)
  <2>1. UNCHANGED <<bwait, rt, sl, gr, op, scan>> /\ pc' = [pc EXCEPT ![p] = l]
    BY <1>3 DEF Miss, opvars, Goto
  <2>2. QED
    BY <1>2, <1>3, <2>1
<1>4. CASE Array(p)
  <2>1. CASE Apply(p, G(p).data)
    <3>1. PICK c : c = G(p).data
      OBVIOUS
    <3>2. QED
      BY <1>0, <1>4, <2>1, <3>1, ApplyMoves DEF Array
  <2>2. CASE Miss(p, G(p).data, IF op[p].kind = "put" THEN "loadtemp" ELSE "buffer")
    <3>1. PICK c, l : c = G(p).data /\ l = IF op[p].kind = "put" THEN "loadtemp" ELSE "buffer"
      OBVIOUS
    <3>2. QED
      BY <1>3, <2>2, <3>1 DEF PointPcs
  <2>3. QED
    BY <1>4, <2>1, <2>2 DEF Array
<1>5. CASE Buffer(p)
  <2>1. CASE Apply(p, G(p).buffer)
    <3>1. PICK c : c = G(p).buffer
      OBVIOUS
    <3>2. QED
      BY <1>0, <1>5, <2>1, <3>1, ApplyMoves DEF Buffer
  <2>2. CASE Miss(p, G(p).buffer, IF op[p].kind = "put" THEN "inserttemp" ELSE "temp")
    <3>1. PICK c, l : c = G(p).buffer /\ l = IF op[p].kind = "put" THEN "inserttemp" ELSE "temp"
      OBVIOUS
    <3>2. op[p].kind = "put" => G(p).temp # 0
      BY <1>5 DEF Buffer, Before, Doings, DoingOf
    <3>3. QED
      BY <1>3, <2>2, <3>1, <3>2 DEF PointPcs
  <2>3. QED
    BY <1>5, <2>1, <2>2 DEF Buffer
<1>6. CASE TempHit(p)
  <2>1. PICK c : c = G(p).temp
    OBVIOUS
  <2>2. QED
    BY <1>0, <1>6, <2>1, ApplyMoves DEF TempHit
<1>7. CASE TempMiss(p)
  <2>1. UNCHANGED <<bwait, rt, sl, gr, op, scan>> /\ pc' = [pc EXCEPT ![p] = "done"]
    BY <1>7 DEF TempMiss, Goto
  <2>2. QED
    BY <1>2, <2>1
<1>8. CASE PutLoadTemp(p)
  <2>1. PICK m : m = IF G(p).temp = 0 THEN "frozen" ELSE "buffer"
    OBVIOUS
  <2>2. UNCHANGED <<bwait, rt, sl, gr, op, scan>> /\ pc' = [pc EXCEPT ![p] = m]
    BY <1>8, <2>1 DEF PutLoadTemp, Goto, opvars
  <2>3. op[p].kind = "put"
    BY <1>8 DEF PutLoadTemp, Before, Doings, DoingOf
  <2>4. QED
    BY <1>2, <2>1, <2>2, <2>3 DEF PointPcs
<1>9. CASE PutNotFrozen(p)
  <2>1. UNCHANGED <<bwait, rt, sl, gr, op, scan>> /\ pc' = [pc EXCEPT ![p] = "insert"]
    BY <1>9 DEF PutNotFrozen, Goto, opvars
  <2>2. op[p].kind = "put"
    BY <1>9 DEF PutNotFrozen, Before, Doings, DoingOf
  <2>3. QED
    BY <1>2, <2>1, <2>2 DEF PointPcs
<1>10. QED
  BY <1>4, <1>5, <1>6, <1>7, <1>8, <1>9

\* ScanMoves with s as the record of p's scan, which keeps its fields.
LEMMA ScanMovesFacts ==
  ASSUME Before, NEW p \in Procs, NEW l, NEW s, ScanMoves(p, l, s),
         DOMAIN s = DOMAIN scan[p], s.on = scan[p].on
  PROVE  /\ pc' = [pc EXCEPT ![p] = l] /\ UNCHANGED <<bwait, rt, op>>
         /\ Scans' /\ ScanOthers(p) /\ (scan'[p].on <=> scan[p].on)
<1>1. scan' = [scan EXCEPT ![p] = s]
  BY DEF ScanMoves
<1>2. Scans' /\ ScanOthers(p) /\ scan'[p] = s
  BY <1>1 DEF Before, Scans, ScanOthers
<1>3. QED
  BY <1>2 DEF ScanMoves, Goto

LEMMA ScanStays ==
  ASSUME Before, Steady, NEW p \in Procs, pc[p] \in ScanPcs, scan[p].on,
         NEW l \in ScanPcs \union {"scanslot"}, NEW s, ScanMoves(p, l, s), UNCHANGED <<sl, gr>>,
         DOMAIN s = DOMAIN scan[p], s.on = scan[p].on
  PROVE  Moved(p)
BY ScanMovesFacts, Proceeds DEF ScanPcs, WorkerPcs, HoldsGroup

LEMMA ScanFields ==
  ASSUME Scans, NEW p \in Procs
  PROVE  DOMAIN scan[p] = {"on", "from", "begin", "latest", "out", "buf", "temp", "pos", "seen", "calm"}
BY DEF Scans, NoScan

LEMMA ScanReadMoves ==
  ASSUME Before, NEW p \in Procs,
         ScanGroup(p) \/ ScanBuffer(p) \/ ScanTemp(p) \/ ScanArray(p)
  PROVE  Moved(p)
<1>0. Steady
  BY WorkerFrame DEF WorkerStep, Step, Scan, Steady
<1>1. pc[p] \in ScanPcs /\ scan[p].on /\ UNCHANGED <<sl, gr>>
  <2>1. pc[p] \in ScanPcs /\ UNCHANGED <<sl, gr>>
    BY DEF ScanGroup, ScanBuffer, ScanTemp, ScanArray, ScanPcs
  <2>2. QED
    BY <2>1 DEF Before, Doings, DoingOf
<1>2. DOMAIN scan[p] = {"on", "from", "begin", "latest", "out", "buf", "temp", "pos", "seen", "calm"}
  BY ScanFields DEF Before
<1>3. CASE ScanGroup(p)
  <2>1. PICK s, l : /\ s = [scan[p] EXCEPT !.pos = scan[p].begin]
                    /\ l = IF G(p).pivot <= scan[p].latest THEN "scanslot"
                           ELSE IF G(p).temp = 0 THEN "scan2" ELSE "scan3"
    OBVIOUS
  <2>2. DOMAIN s = DOMAIN scan[p] /\ s.on = scan[p].on
    BY <2>1
  <2>3. l \in ScanPcs \union {"scanslot"} /\ ScanMoves(p, l, s)
    BY <1>3, <2>1 DEF ScanGroup, ScanPcs
  <2>4. QED
    BY <1>0, <1>1, <2>2, <2>3, ScanStays
<1>4. CASE ScanBuffer(p)
  <2>1. PICK r : r = Records(G(p).buffer, scan[p].begin)
    OBVIOUS
  <2>2. PICK s, l : /\ s = [scan[p] EXCEPT !.buf = r]
                    /\ l = IF pc[p] = "scan3" THEN "scantemp" ELSE "scanarray"
    OBVIOUS
  <2>3. DOMAIN s = DOMAIN scan[p] /\ s.on = scan[p].on
    BY <1>2, <2>2
  <2>4. l \in ScanPcs \union {"scanslot"} /\ ScanMoves(p, l, s)
    BY <1>4, <2>1, <2>2 DEF ScanBuffer, ScanPcs
  <2>5. QED
    BY <1>0, <1>1, <2>3, <2>4, ScanStays
<1>5. CASE ScanTemp(p)
  <2>1. PICK r : r = Records(G(p).temp, scan[p].begin)
    OBVIOUS
  <2>2. PICK s, l : s = [scan[p] EXCEPT !.temp = r] /\ l = "scanarray"
    OBVIOUS
  <2>3. DOMAIN s = DOMAIN scan[p] /\ s.on = scan[p].on
    BY <1>2, <2>2
  <2>4. l \in ScanPcs \union {"scanslot"} /\ ScanMoves(p, l, s)
    BY <1>5, <2>1, <2>2 DEF ScanTemp, ScanPcs
  <2>5. QED
    BY <1>0, <1>1, <2>3, <2>4, ScanStays
<1>6. CASE ScanArray(p)
  <2>1. PICK rest : rest = {k \in Keys : k >= scan[p].pos /\ Live(G(p).data, k)}
    OBVIOUS
  <2>2. PICK array : array = IF rest = {} THEN <<>>
                             ELSE <<[key |-> Least(rest), val |-> Read(G(p).data, Least(rest))]>>
    OBVIOUS
  <2>3. PICK m : m = Merged(array, scan[p].buf, scan[p].temp)
    OBVIOUS
  <2>4. PICK all : all = scan[p].out \o m.out
    OBVIOUS
  <2>5. PICK d : d = UpTo(all, to_scan)
    OBVIOUS
  <2>6. PICK s, t : /\ s = [scan[p] EXCEPT !.out = d, !.buf = <<>>, !.temp = <<>>, !.pos = 0]
                    /\ t = [scan[p] EXCEPT !.out = all, !.buf = m.buf, !.temp = m.temp,
                                           !.pos = Least(rest) + 1]
    OBVIOUS
  <2>7. /\ DOMAIN s = DOMAIN scan[p] /\ s.on = scan[p].on
        /\ DOMAIN t = DOMAIN scan[p] /\ t.on = scan[p].on
    BY <1>2, <2>6
  <2>8. ScanMoves(p, "scannext", s) \/ ScanMoves(p, "scanarray", t)
    <3>1. CASE rest = {} \/ Len(all) >= to_scan
      BY <1>6, <2>1, <2>2, <2>3, <2>4, <2>5, <2>6, <3>1, Zenon DEF ScanArray
    <3>2. CASE ~(rest = {} \/ Len(all) >= to_scan)
      BY <1>6, <2>1, <2>2, <2>3, <2>4, <2>5, <2>6, <3>2, Zenon DEF ScanArray
    <3>3. QED
      BY <3>1, <3>2
  <2>9. QED
    BY <1>0, <1>1, <2>7, <2>8, ScanStays DEF ScanPcs
<1>7. QED
  BY <1>3, <1>4, <1>5, <1>6

LEMMA ScanNextMoves ==
  ASSUME Before, NEW p \in Procs, ScanNext(p)
  PROVE  Moved(p)
<1>0. Steady
  BY WorkerFrame DEF WorkerStep, Step, Scan, Steady
<1>1. pc[p] = "scannext" /\ scan[p].on /\ UNCHANGED sl /\ HoldsGroup(p)
  BY DEF ScanNext, Before, Doings, DoingOf, ScanPcs, HoldsGroup
<1>2. PICK s : s = [scan[p] EXCEPT !.latest = G(p).pivot, !.begin = 0]
  OBVIOUS
<1>3. DOMAIN s = DOMAIN scan[p] /\ s.on = scan[p].on
  BY <1>2, ScanFields DEF Before
<1>4. CASE ScanMoves(p, "scanslot", s) /\ gr' = [gr EXCEPT ![p] = @]
  <2>1. UNCHANGED gr
    BY <1>4 DEF Before, Typed
  <2>2. QED
    BY <1>0, <1>1, <1>3, <1>4, <2>1, ScanStays DEF ScanPcs
<1>5. CASE /\ ScanMoves(p, "scangroup", s) /\ gr' = [gr EXCEPT ![p] = G(p).next] /\ G(p).next # 0
  <2>1. PICK g : g = groups[gr[p]].next
    OBVIOUS
  <2>2. g \in Reach \/ (g \in Doomed /\ (bg.pc = "publishnext" \/ p \in bwait))
    BY <1>1, <1>5, <2>1, NextLeads DEF G
  <2>3. g \in Nat
    BY <2>2, ListFacts DEF Before, Structure, Unlinked
  <2>4. /\ pc' = [pc EXCEPT ![p] = "scangroup"] /\ UNCHANGED <<bwait, rt, op>>
        /\ Scans' /\ ScanOthers(p) /\ (scan'[p].on <=> scan[p].on)
    BY <1>3, <1>5, ScanMovesFacts
  <2>5. Typed' /\ Others(p) /\ gr'[p] = g /\ pc'[p] = "scangroup"
    BY <1>1, <1>5, <2>1, <2>3, <2>4 DEF Before, Typed, WorkerPcs, ScanPcs, Others, G
  <2>6. sl'[p] \in DOMAIN roots[rt[p]]
    BY <1>1 DEF Before, Places, PlaceOf
  <2>7. Worker(p)'
    BY <1>0, <1>1, <2>2, <2>4, <2>5, <2>6, Arrived
  <2>8. QED
    BY <2>4, <2>5, <2>7 DEF Moved
<1>6. CASE Full(p) \/ G(p).next = 0
  BY <1>2, <1>4, <1>6 DEF ScanNext
<1>7. CASE ~(Full(p) \/ G(p).next = 0)
  BY <1>2, <1>5, <1>7 DEF ScanNext
<1>8. QED
  BY <1>6, <1>7

LEMMA ScanSlotMoves ==
  ASSUME Before, NEW p \in Procs, ScanSlot(p)
  PROVE  Moved(p)
<1>0. Steady
  BY WorkerFrame DEF WorkerStep, Step, Scan, Steady
<1>1. /\ pc[p] = "scanslot" /\ scan[p].on
      /\ rt[p] \in DOMAIN roots /\ sl[p] \in DOMAIN roots[rt[p]]
  BY DEF ScanSlot, Before, Doings, DoingOf, Places, PlaceOf
<1>2. DOMAIN roots[rt[p]] = 1..Len(roots[rt[p]]) /\ Len(roots[rt[p]]) \in Nat
  <2>1. IsSeq(roots[rt[p]])
    BY <1>1 DEF Before, IndexTyped, AllRoots, IsRootArray
  <2>2. QED
    BY <2>1, SeqShape
<1>3. CASE Full(p) \/ sl[p] = Len(roots[rt[p]])
  <2>1. PICK s : s = [scan[p] EXCEPT !.calm = @ /\ bg.act \notin {"split", "merge"}]
    OBVIOUS
  <2>2. DOMAIN s = DOMAIN scan[p] /\ s.on = scan[p].on
    BY <2>1, ScanFields DEF Before
  <2>3. ScanMoves(p, "scanned", s) /\ UNCHANGED <<sl, gr>>
    BY <1>3, <2>1 DEF ScanSlot
  <2>4. QED
    BY <1>0, <1>1, <2>2, <2>3, ScanMovesFacts, Proceeds DEF WorkerPcs
<1>4. CASE ~(Full(p) \/ sl[p] = Len(roots[rt[p]]))
  <2>1. PICK g : g = roots[rt[p]][sl[p] + 1].group
    OBVIOUS
  <2>2. PICK l : l = IF g = 0 THEN "scanslot" ELSE "scangroup"
    OBVIOUS
  <2>3. /\ ScanMoves(p, l, scan[p]) /\ sl' = [sl EXCEPT ![p] = @ + 1]
        /\ gr' = [gr EXCEPT ![p] = IF g = 0 THEN @ ELSE g]
    BY <1>4, <2>1, <2>2 DEF ScanSlot
  <2>4. sl[p] + 1 \in DOMAIN roots[rt[p]] /\ sl[p] + 1 \in Nat
    BY <1>1, <1>2, <1>4
  <2>5. /\ pc' = [pc EXCEPT ![p] = l] /\ UNCHANGED <<bwait, rt, op>>
        /\ Scans' /\ ScanOthers(p) /\ (scan'[p].on <=> scan[p].on)
    BY <2>3, ScanMovesFacts
  <2>6. g # 0 => g \in Reach \/ (g \in Doomed /\ bg.pc = "publishnext")
    BY <1>1, <2>1, <2>4, SlotLeads
  <2>7. g # 0 => g \in Nat
    BY <2>6, ListFacts DEF Before, Structure, Unlinked
  <2>8. /\ Typed' /\ Others(p) /\ pc'[p] = l /\ sl'[p] = sl[p] + 1
        /\ gr'[p] = IF g = 0 THEN gr[p] ELSE g
    <3>1. gr' \in [Procs -> Nat]
      BY <2>3, <2>7 DEF Before, Typed
    <3>2. pc' \in [Procs -> WorkerPcs] /\ pc'[p] = l
      BY <2>2, <2>5 DEF Before, Typed, WorkerPcs, ScanPcs
    <3>3. sl' \in [Procs -> Nat] /\ sl'[p] = sl[p] + 1
      BY <2>3, <2>4 DEF Before, Typed
    <3>4. Typed'
      BY <2>5, <3>1, <3>2, <3>3 DEF Before, Typed
    <3>5. Others(p)
      BY <2>3, <2>5 DEF Before, Typed, Others
    <3>6. QED
      BY <2>3, <3>2, <3>3, <3>4, <3>5 DEF Before, Typed
  <2>9. Worker(p)'
    <3>1. CASE g = 0
      <4>1. DoingOf(p)'
        BY <1>1, <2>2, <2>5, <2>8, <3>1 DEF DoingOf, PointPcs, ScanPcs
      <4>2. PlaceOf(p)'
        BY <1>0, <1>1, <2>4, <2>5, <2>8, <3>1 DEF Before, Steady, Places, PlaceOf
      <4>3. GraceOf(p)'
        BY <2>2, <2>8, <3>1 DEF GraceOf, HoldsGroup, PointPcs, ScanPcs
      <4>4. QED
        BY <4>1, <4>2, <4>3 DEF Worker
    <3>2. CASE g # 0
      BY <1>0, <1>1, <2>2, <2>4, <2>5, <2>6, <2>8, <3>2, Arrived
    <3>3. QED
      BY <3>1, <3>2
  <2>10. QED
    BY <2>5, <2>8, <2>9 DEF Moved
<1>5. QED
  BY <1>3, <1>4

LEMMA LeaveMoves ==
  ASSUME Before, NEW p \in Procs, Return(p) \/ ScanReturn(p)
  PROVE  Moved(p)
<1>0. Steady
  BY WorkerFrame DEF WorkerStep, Step, Scan, Steady
<1>1. Leave(p) /\ UNCHANGED bwait
  BY DEF Return, ScanReturn
<1>2. /\ op' \in [Procs -> Abs!Calls \union {Abs!Idle}]
      /\ \A q \in Procs \ {p} : op'[q] = op[q]
  <2>1. CASE Return(p)
    BY <2>1, RespondFacts DEF Return, Before
  <2>2. CASE ScanReturn(p)
    BY <2>2 DEF ScanReturn, Before, Typed
  <2>3. QED
    BY <2>1, <2>2
<1>3. Scans' /\ ScanOthers(p)
  <2>1. CASE Return(p)
    BY <2>1 DEF Return, Before, Scans, ScanOthers
  <2>2. CASE ScanReturn(p)
    <3>1. PICK s : s = NoScan
      OBVIOUS
    <3>2. DOMAIN s = DOMAIN NoScan /\ s.on \in BOOLEAN
      BY <3>1 DEF NoScan
    <3>3. scan' = [scan EXCEPT ![p] = s]
      BY <2>2, <3>1 DEF ScanReturn
    <3>4. QED
      BY <3>2, <3>3 DEF Before, Scans, ScanOthers
  <2>3. QED
    BY <2>1, <2>2
<1>4. Typed' /\ Others(p) /\ pc'[p] = "idle"
  BY <1>1, <1>2 DEF Leave, Goto, Before, Typed, WorkerPcs, Others
<1>5. Worker(p)'
  BY <1>0, <1>4, Gone
<1>6. QED
  BY <1>3, <1>4, <1>5 DEF Moved

LEMMA WorkerMoves ==
  ASSUME Before, NEW p \in Procs, WorkerStep(p)
  PROVE  Moved(p)
BY StartMoves, StartScanMoves, ElsewhereMoves, LoadSlotMoves, WalkChainMoves, PointMoves,
   RetryMoves, InsertMoves, LeaveMoves, ScanReadMoves, ScanNextMoves, ScanSlotMoves
   DEF WorkerStep, Step, Scan

\* The other workers stay where they are.
LEMMA WorkersMove ==
  ASSUME Before, NEW p \in Procs, WorkerStep(p)
  PROVE  Typed' /\ Scans' /\ Doings' /\ Places' /\ Grace'
<1>1. Moved(p)
  BY WorkerMoves
<1>2. Steady
  BY WorkerFrame DEF Steady
<1>3. Reach' = Reach /\ Doomed' = Doomed
  BY <1>2, FrameReach DEF Steady
<1>4. ASSUME NEW q \in Procs, q # p
      PROVE  Worker(q)'
  <2>1. /\ pc'[q] = pc[q] /\ rt'[q] = rt[q] /\ sl'[q] = sl[q] /\ gr'[q] = gr[q] /\ op'[q] = op[q]
        /\ (q \in bwait' <=> q \in bwait) /\ scan'[q].on = scan[q].on
    BY <1>1, <1>4 DEF Moved, Others, ScanOthers
  <2>2. DoingOf(q)'
    BY <1>2, <2>1 DEF Before, Steady, Doings, DoingOf, G
  <2>3. PlaceOf(q)'
    BY <1>2, <2>1 DEF Before, Steady, Places, PlaceOf
  <2>4. GraceOf(q)'
    BY <1>2, <1>3, <2>1 DEF Before, Steady, Grace, GraceOf, HoldsGroup
  <2>5. QED
    BY <2>2, <2>3, <2>4 DEF Worker
<1>5. \A q \in Procs : Worker(q)'
  BY <1>1, <1>4 DEF Moved
<1>6. QED
  BY <1>1, <1>5 DEF Moved, Worker, Doings, Places, Grace

-----------------------------------------------------------------------------
(* Cells.                                                                   *)

LEMMA CellFacts ==
  ASSUME IndexTyped, NEW c \in DOMAIN cont, NEW k \in Keys
  PROVE  /\ cont[c][k] \in Cells
         /\ cont[c][k].kind \in {"none", "val", "ptr"}
         /\ cont[c][k].kind = "ptr" => cont[c][k].to \in DOMAIN cont
         /\ cont[c][k].kind = "val" => cont[c][k].val \in Values \union {None}
         /\ Rec(c, k) \in DOMAIN cont
         /\ cont[c][k].kind = "ptr" => Rec(c, k) = cont[c][k].to
         /\ cont[c][k].kind # "ptr" => Rec(c, k) = c
<1>1. cont[c][k] \in Cells
  BY DEF IndexTyped
<1>2. PICK x : x = cont[c][k]
  OBVIOUS
<1>3. x.kind \in {"none", "val", "ptr"} /\ (x.kind = "ptr" => x.to \in DOMAIN cont)
      /\ (x.kind = "val" => x.val \in Values \union {None})
  BY <1>1, <1>2 DEF Cells, NoRec
<1>4. QED
  BY <1>1, <1>2, <1>3 DEF Rec

SetCell(c, k, x) == cont' = [cont EXCEPT ![c][k] = x]
CellIs(c, k, x) ==
  /\ IsSeq(cont') /\ DOMAIN cont' = DOMAIN cont
  /\ \A d \in DOMAIN cont' : cont'[d] \in [Keys -> Cells']
  /\ \A d \in DOMAIN cont : \A j \in Keys :
       cont'[d][j] = IF d = c /\ j = k THEN x ELSE cont[d][j]

LEMMA CellSet ==
  ASSUME IndexTyped, NEW c \in DOMAIN cont, NEW k \in Keys, NEW x \in Cells,
         SetCell(c, k, x)
  PROVE  CellIs(c, k, x)
<1>1. PICK a : a = [cont[c] EXCEPT ![k] = x]
  OBVIOUS
<1>2. cont' = [cont EXCEPT ![c] = a]
  BY <1>1 DEF SetCell
<1>3. a \in [Keys -> Cells] /\ \A j \in Keys : a[j] = IF j = k THEN x ELSE cont[c][j]
  BY <1>1 DEF IndexTyped
<1>4. IsSeq(cont') /\ DOMAIN cont' = DOMAIN cont /\ Len(cont') = Len(cont)
  <2>1. cont' = [d \in DOMAIN cont |-> cont'[d]]
    BY <1>2
  <2>2. QED
    BY <2>1, SeqLike DEF IndexTyped
<1>5. \A d \in DOMAIN cont : cont'[d] = IF d = c THEN a ELSE cont[d]
  BY <1>2
<1>6. Cells' = Cells
  BY <1>4 DEF Cells
<1>7. \A d \in DOMAIN cont' : cont'[d] \in [Keys -> Cells']
  BY <1>3, <1>4, <1>5, <1>6 DEF IndexTyped
<1>8. QED
  BY <1>3, <1>4, <1>5, <1>7 DEF CellIs

\* A worker writes a value, through a pointer if there is one.
LEMMA WorkerWrites ==
  ASSUME Before, NEW p \in Procs, WorkerStep(p)
  PROVE  \/ UNCHANGED cont
         \/ \E c \in DOMAIN cont, k \in Keys, v \in Values \union {None} :
              cont' = [cont EXCEPT ![Rec(c, k)][k] = Val(v)]
<1>1. CASE Start(p) \/ StartScan(p) \/ Elsewhere(p)
  <2>1. UNCHANGED index
    <3>1. CASE Start(p)
      BY <3>1 DEF Start
    <3>2. CASE StartScan(p)
      BY <3>2 DEF StartScan
    <3>3. CASE Elsewhere(p)
      BY <3>3 DEF Elsewhere
    <3>4. QED
      BY <1>1, <3>1, <3>2, <3>3
  <2>2. QED
    BY <2>1 DEF index
<1>2. CASE LoadSlot(p) \/ WalkChain(p) \/ TempMiss(p) \/ PutLoadTemp(p) \/ PutNotFrozen(p)
           \/ PutRetry(p) \/ Return(p)
  BY <1>2 DEF LoadSlot, WalkChain, TempMiss, PutLoadTemp, PutNotFrozen, PutRetry, Return, index
<1>3. CASE Scan(p)
  BY <1>3 DEF Scan, ScanGroup, ScanBuffer, ScanTemp, ScanArray, ScanNext, ScanSlot,
              ScanReturn, ScanMoves, index
<1>4. CASE Array(p) \/ Buffer(p) \/ TempHit(p) \/ Insert(p)
  <2>1. /\ ~scan[p].on /\ op[p] \in Abs!Calls /\ gr[p] \in DOMAIN groups
        /\ pc[p] \in {"array", "buffer", "temp", "insert", "inserttemp"}
        /\ (pc[p] = "inserttemp" => G(p).temp # 0)
        /\ (pc[p] \in {"insert", "inserttemp"} => op[p].kind = "put")
    <3>1. pc[p] \in {"array", "buffer", "temp", "insert", "inserttemp"}
      BY <1>4 DEF Array, Buffer, TempHit, Insert
    <3>2. QED
      BY <3>1 DEF Before, Doings, DoingOf, Places, PlaceOf, PointPcs
  <2>2. PICK k \in Keys : k = Key(p)
    BY <2>1, CallFacts DEF Key
  <2>3. /\ G(p).data \in DOMAIN cont /\ G(p).buffer \in DOMAIN cont
        /\ G(p).temp \in DOMAIN cont \union {0}
    BY <2>1 DEF Before, IndexTyped, AllGroups, IsGroup, G
  <2>4. ASSUME NEW c \in DOMAIN cont \union {0}, Apply(p, c)
        PROVE  \/ UNCHANGED cont
               \/ \E v \in Values \union {None} : c \in DOMAIN cont /\ cont' = [cont EXCEPT ![Rec(c, k)][k] = Val(v)]
    <3>1. c \in DOMAIN cont
      BY <2>4 DEF Apply, Live
    <3>2. CASE op[p].kind = "get"
      BY <2>4, <3>2 DEF Apply, index
    <3>3. CASE op[p].kind # "get"
      <4>1. PICK v \in Values \union {None} : v = Abs!Result(op[p])
        BY <2>1, <3>3, CallFacts
      <4>2. Write(p, c, v)
        BY <2>4, <3>3, <4>1 DEF Apply
      <4>3. cont' = [cont EXCEPT ![Rec(c, k)][k] = Val(v)]
        BY <2>2, <4>2 DEF Write
      <4>4. QED
        BY <3>1, <4>3
    <3>4. QED
      BY <3>2, <3>3
  <2>5. CASE Array(p)
    <3>1. PICK c \in DOMAIN cont : c = G(p).data
      BY <2>3
    <3>2. Apply(p, c) \/ UNCHANGED cont
      BY <2>5, <3>1 DEF Array, Miss, index
    <3>3. QED
      BY <2>4, <3>2
  <2>6. CASE Buffer(p)
    <3>1. PICK c \in DOMAIN cont : c = G(p).buffer
      BY <2>3
    <3>2. Apply(p, c) \/ UNCHANGED cont
      BY <2>6, <3>1 DEF Buffer, Miss, index
    <3>3. QED
      BY <2>4, <3>2
  <2>7. CASE TempHit(p)
    <3>1. PICK c \in DOMAIN cont \union {0} : c = G(p).temp
      BY <2>3
    <3>2. Apply(p, c)
      BY <2>7, <3>1 DEF TempHit
    <3>3. QED
      BY <2>4, <3>2
  <2>8. CASE Insert(p)
    <3>1. pc[p] \in {"insert", "inserttemp"}
      BY <2>8 DEF Insert
    <3>2. PICK c \in DOMAIN cont : c = IF pc[p] = "insert" THEN G(p).buffer ELSE G(p).temp
      BY <2>1, <2>3, <3>1
    <3>3. PICK v \in Values \union {None} : v = op[p].val
      BY <2>1, <3>1, CallFacts
    <3>4. Write(p, c, v)
      BY <2>8, <3>2, <3>3 DEF Insert
    <3>5. cont' = [cont EXCEPT ![Rec(c, k)][k] = Val(v)]
      BY <2>2, <3>4 DEF Write
    <3>6. QED
      BY <3>5
  <2>9. QED
    BY <1>4, <2>5, <2>6, <2>7, <2>8
<1>5. QED
  BY <1>1, <1>2, <1>3, <1>4 DEF WorkerStep, Step

LEMMA ValTyped ==
  ASSUME NEW v \in Values \union {None}
  PROVE  Val(v) \in Cells /\ Val(v).kind = "val" /\ Val(v).val = v
BY DEF Val, Cells

LEMMA WorkerKeepsCells ==
  ASSUME Before, Fresh, Pointers, BgTyped, NEW p \in Procs, WorkerStep(p)
  PROVE  IndexTyped' /\ Fresh' /\ Pointers' /\ BgTyped'
<1>1. UNCHANGED <<root, roots, groups, freed, bg>>
  BY WorkerFrame
<1>2. /\ IsSeq(cont') /\ DOMAIN cont' = DOMAIN cont
      /\ \A d \in DOMAIN cont' : cont'[d] \in [Keys -> Cells']
      /\ \A d \in DOMAIN cont, j \in Keys :
           cont'[d][j] = cont[d][j] \/ (cont'[d][j].kind = "val" /\ cont'[d][j].kind # "ptr")
  <2>1. CASE UNCHANGED cont
    BY <2>1 DEF Before, IndexTyped, Cells
  <2>2. CASE \E c \in DOMAIN cont, k \in Keys, v \in Values \union {None} :
               cont' = [cont EXCEPT ![Rec(c, k)][k] = Val(v)]
    <3>1. PICK c \in DOMAIN cont, k \in Keys, v \in Values \union {None} :
            cont' = [cont EXCEPT ![Rec(c, k)][k] = Val(v)]
      BY <2>2
    <3>2. PICK d \in DOMAIN cont : d = Rec(c, k)
      BY CellFacts DEF Before
    <3>3. PICK x \in Cells : x = Val(v) /\ x.kind = "val"
      BY ValTyped
    <3>4. SetCell(d, k, x)
      BY <3>1, <3>2, <3>3 DEF SetCell
    <3>5. CellIs(d, k, x)
      BY <3>4, CellSet DEF Before
    <3>6. QED
      BY <3>3, <3>5 DEF CellIs
  <2>3. QED
    BY <2>1, <2>2, WorkerWrites
<1>3. IndexTyped'
  BY <1>1, <1>2 DEF Before, IndexTyped
<1>4. BgTyped'
  <2>1. bwait' \subseteq bwait
    BY DEF WorkerStep, Step, Start, StartScan, Elsewhere, Enter, LoadSlot, WalkChain, Array, Buffer,
           TempHit, TempMiss, PutLoadTemp, PutNotFrozen, PutRetry, Insert, Return, Apply, Miss, Scan,
           ScanGroup, ScanBuffer, ScanTemp, ScanArray, ScanNext, ScanSlot, ScanReturn, ScanMoves
  <2>2. QED
    BY <1>1, <1>2, <2>1 DEF BgTyped
<1>5. /\ Sources' = Sources /\ NewArrays' = NewArrays /\ (Working' <=> Working)
      /\ \A k : NewArray(k)' = NewArray(k)
  BY <1>1, FrameReach
<1>6. Fresh'
  BY <1>1, <1>2, <1>5 DEF Fresh, ContsOf
<1>7. Pointers'
  <2> SUFFICES ASSUME NEW c \in DOMAIN cont, NEW k \in Keys, cont'[c][k].kind = "ptr"
               PROVE  /\ Working /\ bg.pc # "free" /\ c = NewArray(k)
                      /\ cont'[c][k].to \in Sources /\ cont'[cont'[c][k].to][k].kind = "val"
                      /\ (bg.pc = "phase2" => k >= bg.k)
    BY <1>1, <1>2, <1>5 DEF Pointers
  <2>1. cont'[c][k] = cont[c][k]
    BY <1>2
  <2>2. PICK d : d = cont[c][k].to
    OBVIOUS
  <2>3. d \in DOMAIN cont /\ cont[d][k].kind = "val"
    BY <2>1, <2>2, CellFacts DEF Before, Pointers
  <2>4. cont'[d][k].kind = "val"
    BY <1>2, <2>3
  <2>5. QED
    BY <2>1, <2>2, <2>4 DEF Pointers
<1>8. QED
  BY <1>3, <1>4, <1>6, <1>7

-----------------------------------------------------------------------------
(* Steps of the background thread that only move it on.                     *)

LEMMA BgFields ==
  ASSUME BgTyped
  PROVE  /\ bg \in BgRecord /\ bg.pc \in BgPcs /\ bg.pass \in 0..MaxPass /\ bg.slot \in Nat
         /\ bg.ref \in Ref /\ bg.nref \in Ref /\ bg.act \in {"none", "compact", "split", "merge"}
         /\ bg.trial \in Nat /\ bg.error \in {"high", "ok", "low"} /\ bg.old \in Nat
         /\ bg.other \in Nat /\ bg.new \in Nat /\ bg.next \in Nat /\ bg.k \in Nat
         /\ bg.update \in BOOLEAN
BY DEF BgTyped, BgRecord

LEMMA SlotNotNulled ==
  ASSUME IndexTyped, Named, bg.slot \in DOMAIN roots[root]
  PROVE  ~Nulled(bg.slot)
<1>1. bg.slot \in Nat
  BY ListFacts
<1>2. SUFFICES ASSUME Nulled(bg.slot) PROVE FALSE
  OBVIOUS
<1>3. /\ bg.nref = Slot(bg.slot)
      /\ bg.nref = NextOf(bg.old) \/ bg.nref = Slot(bg.slot + 1)
  BY <1>2 DEF Nulled, Named, Doing
<1>4. QED
  BY <1>1, <1>3 DEF Slot, NextOf

\* Where the background thread is, and the group it is at.
LEMMA BgAt ==
  ASSUME GroupInv, Adjusting \/ bg.pc \in {"visit", "flatten"}
  PROVE  /\ bg.slot \in DOMAIN roots[root] /\ ~Nulled(bg.slot) /\ RefOK(bg.ref) /\ RefIn(bg.ref)
         /\ bg.slot \in Nat /\ bg.slot >= 1 /\ bg.slot <= Len(roots[root])
         /\ Target(bg.ref) \in Reach \union {0} /\ Target(bg.ref) \in Nat
         /\ Target(bg.ref) # 0 => Target(bg.ref) \in Reach /\ Target(bg.ref) \in DOMAIN groups
         /\ Adjusting => Target(bg.ref) # 0
<1>1. bg.slot \in DOMAIN roots[root] /\ RefOK(bg.ref) /\ (Adjusting => Target(bg.ref) # 0)
  BY DEF GroupInv, Standing
<1>2. ~Nulled(bg.slot)
  BY <1>1, SlotNotNulled DEF GroupInv
<1>3. RefIn(bg.ref) /\ Target(bg.ref) \in Reach \union {0}
  BY <1>1, <1>2, RefFacts DEF GroupInv
<1>4. QED
  BY <1>1, <1>2, <1>3, ListFacts DEF GroupInv

\* The phases in which no group is being replaced.
Quiet == {"idle", "visit", "model", "decide", "round"}

LEMMA QuietFacts ==
  ASSUME Standing, bg.pc \in Quiet
  PROVE  /\ bg.act = "none" /\ Doomed = {} /\ Halves = {} /\ WithTemp = {} /\ ~Working /\ ~Rooting
         /\ bg.pc # "flatten" /\ bg.pc \notin Replaced /\ bg.pc # "publishnext" /\ bg.pc # "newroot"
         /\ bg.pc \notin {"refs", "publish", "phase2"}
         /\ \A i : ~Nulled(i)
         /\ \A a, s : a # "none" => ~Doing(a, s)
BY DEF Standing, Quiet, Doomed, Halves, WithTemp, Working, Rooting, Replaced, Nulled, Doing

LEMMA NamedQuiet ==
  ASSUME bg.act = "none", bg.pc \in Quiet
  PROVE  Named
BY DEF Named, Doing, Quiet, Replaced

LEMMA QuietStep ==
  ASSUME GroupInv, UNCHANGED <<index, freed, Workers>>, bg.pc \in Quiet, bg'.pc \in Quiet,
         bg' \in BgRecord, bwait' \subseteq Procs, Standing'
  PROVE  GroupInv'
<1>0. UNCHANGED <<root, roots, groups, cont, freed, pc, rt, sl, gr, op, seen, res, scan, count>>
  BY DEF index, Workers, locals, opvars
<1>1. /\ bg.act = "none" /\ Doomed = {} /\ Halves = {} /\ WithTemp = {} /\ ~Working /\ ~Rooting
      /\ bg.pc # "flatten" /\ bg.pc \notin Replaced /\ bg.pc # "publishnext" /\ bg.pc # "newroot"
      /\ \A i : ~Nulled(i)
  BY QuietFacts DEF GroupInv
<1>2. (Standing /\ bg.pc \in Quiet
       => /\ bg.act = "none" /\ Doomed = {} /\ Halves = {} /\ WithTemp = {} /\ ~Working /\ ~Rooting
          /\ bg.pc # "flatten" /\ bg.pc \notin Replaced /\ bg.pc # "publishnext" /\ bg.pc # "newroot"
          /\ bg.pc \notin {"refs", "publish", "phase2"}
          /\ \A i : ~Nulled(i))'
  BY QuietFacts, PTL
<1>3. /\ (bg.act = "none")' /\ Doomed' = {} /\ Halves' = {} /\ WithTemp' = {} /\ ~Working' /\ ~Rooting'
      /\ (bg.pc # "flatten")' /\ (bg.pc \notin Replaced)' /\ (bg.pc # "publishnext")'
      /\ (bg.pc # "newroot")' /\ (bg.pc \notin {"refs", "publish", "phase2"})'
      /\ \A i : ~Nulled(i)'
  BY <1>2 DEF Quiet
<1>4. Heads' = Heads /\ Nexts' = Nexts /\ Reach' = Reach
  BY <1>0, <1>1, <1>3 DEF Heads, Nexts, Reach
<1>5. IndexTyped'
  BY <1>0 DEF GroupInv, IndexTyped, Cells
<1>6. BgTyped'
  BY <1>0 DEF GroupInv, BgTyped
<1>7. Named'
  <2>1. (bg.act = "none" /\ bg.pc \in Quiet => Named)'
    BY NamedQuiet, PTL
  <2>2. QED
    BY <1>3, <2>1 DEF Quiet
<1>8. Unlinked' /\ Linked' /\ FirstSlot'
  BY <1>0, <1>1, <1>3, <1>4 DEF GroupInv, Unlinked, Linked, FirstSlot
<1>9. Flattening' /\ NewRoot'
  BY <1>0, <1>1, <1>3 DEF GroupInv, Flattening, NewRoot
<1>10. Owned'
  BY <1>0, <1>1, <1>3, <1>4 DEF GroupInv, Owned, ContsOf
<1>11. Fresh' /\ Pointers'
  BY <1>0, <1>1, <1>3 DEF GroupInv, Fresh, Pointers
<1>12. WorkersTyped' /\ Doings'
  BY <1>0 DEF GroupInv, WorkersTyped, Typed, Scans, Doings, DoingOf, G
<1>13. Places'
  BY <1>0, <1>1 DEF GroupInv, Places, PlaceOf
<1>14. Grace'
  BY <1>0, <1>1, <1>3, <1>4 DEF GroupInv, Grace, GraceOf, HoldsGroup
<1>15. QED
  BY <1>5, <1>6, <1>7, <1>8, <1>9, <1>10, <1>11, <1>12, <1>13, <1>14 DEF GroupInv

\* Standing on the reference ref in the list of slot s, at pc.
LEMMA StandsAt ==
  ASSUME UNCHANGED <<root, roots, groups>>, bg'.act = "none",
         bg'.pc \in {"visit", "model", "decide", "flatten"},
         \A i : ~Nulled(i), bg'.slot \in DOMAIN roots[root],
         \/ bg'.ref.in = "slot" /\ bg'.ref.i = bg'.slot
         \/ bg'.ref.in = "next" /\ bg'.ref.i \in ChainOf(Heads, Nexts, bg'.slot),
         bg'.pc \in {"model", "decide"} =>
           (IF bg'.ref.in = "slot" THEN roots[root][bg'.ref.i].group ELSE groups[bg'.ref.i].next) # 0
  PROVE  Standing'
<1>1. \A i : ~Nulled(i)'
  BY DEF Nulled, Doing
<1>2. Heads' = Heads /\ Nexts' = Nexts
  BY <1>1 DEF Heads, Nexts
<1>3. RefOK(bg.ref)'
  BY <1>2 DEF RefOK
<1>4. bg'.pc \in {"model", "decide"} => Target(bg.ref)' # 0
  BY DEF Target
<1>5. QED
  BY <1>3, <1>4 DEF Standing, Adjusting

LEMMA QuietSteps ==
  ASSUME GroupInv,
         BeginPass \/ NextSlot \/ VisitGroup \/ KeepModels \/ NothingToDo \/ EndPass \/ EndRound
  PROVE  GroupInv'
<1>0. bg \in BgRecord /\ bg.pass \in 0..MaxPass /\ bg.slot \in Nat /\ bg.trial \in Nat /\ bwait \subseteq Procs
      /\ DOMAIN roots[root] = 1..Len(roots[root]) /\ Len(roots[root]) \in Nat /\ MaxPass \in Nat
  BY BgFields, ListFacts, GroupConstants DEF GroupInv, BgTyped
<1>1. CASE BeginPass
  <2>1. bg.pc = "idle" /\ UNCHANGED <<index, freed, bwait, Workers>> /\ bg.pass + 1 \in 0..MaxPass
    BY <1>0, <1>1 DEF BeginPass, At
  <2>2. 1 \in DOMAIN roots[root]
    <3>1. Len(roots[root]) # 0
      <4>1. IsSeq(roots[root]) /\ roots[root] # <<>>
        BY DEF GroupInv, IndexTyped, AllRoots, IsRootArray, NewRoot
      <4>2. QED
        BY <4>1, SeqShape
    <3>2. QED
      BY <1>0, <3>1
  <2>3. PICK ref : ref = Slot(1) /\ ref \in Ref /\ ref.in = "slot" /\ ref.i = 1
    BY SlotFacts
  <2>4. bg' = [bg EXCEPT !.pc = "visit", !.pass = @ + 1, !.slot = 1, !.ref = ref, !.update = FALSE]
    BY <1>1, <2>3 DEF BeginPass
  <2>5. /\ bg' \in BgRecord /\ bg'.pc = "visit" /\ bg'.slot = 1 /\ bg'.ref = ref
        /\ bg'.act = bg.act
    BY <1>0, <2>1, <2>3, <2>4 DEF BgRecord, BgPcs
  <2>6. Standing'
    BY <2>1, <2>2, <2>3, <2>5, StandsAt, QuietFacts DEF GroupInv, Quiet, index
  <2>7. QED
    BY <1>0, <2>1, <2>5, <2>6, QuietStep DEF Quiet
<1>2. CASE NextSlot
  <2>1. bg.pc = "visit" /\ UNCHANGED <<index, freed, bwait, Workers>> /\ bg.slot < Len(roots[root])
    BY <1>2 DEF NextSlot, At
  <2>2. PICK s \in DOMAIN roots[root] : s = bg.slot + 1 /\ s \in Nat
    BY <1>0, <2>1
  <2>3. PICK ref : ref = Slot(s) /\ ref \in Ref /\ ref.in = "slot" /\ ref.i = s
    BY <2>2, SlotFacts
  <2>4. bg' = [bg EXCEPT !.slot = s, !.ref = ref]
    BY <1>2, <2>2, <2>3 DEF NextSlot
  <2>5. bg' \in BgRecord /\ bg'.pc = "visit" /\ bg'.slot = s /\ bg'.ref = ref /\ bg'.act = bg.act
    BY <1>0, <2>1, <2>2, <2>3, <2>4 DEF BgRecord, BgPcs
  <2>6. Standing'
    BY <2>1, <2>3, <2>5, StandsAt, QuietFacts DEF GroupInv, Quiet, index
  <2>7. QED
    BY <1>0, <2>1, <2>5, <2>6, QuietStep DEF Quiet
<1>3. CASE VisitGroup
  <2>1. bg.pc = "visit" /\ UNCHANGED <<index, freed, bwait, Workers>> /\ Target(bg.ref) # 0
    BY <1>3 DEF VisitGroup, At
  <2>2. bg.slot \in DOMAIN roots[root] /\ RefOK(bg.ref)
    BY <2>1 DEF GroupInv, Standing
  <2>3. bg' = [bg EXCEPT !.pc = "model", !.trial = 0, !.error = "ok"]
    BY <1>3 DEF VisitGroup
  <2>4. /\ bg' \in BgRecord /\ bg'.pc = "model" /\ bg'.slot = bg.slot /\ bg'.ref = bg.ref
        /\ bg'.act = bg.act
    BY <1>0, <2>1, <2>3 DEF BgRecord, BgPcs
  <2>5. Standing'
    BY <2>1, <2>2, <2>4, StandsAt, QuietFacts DEF GroupInv, Quiet, index, RefOK, Target
  <2>6. QED
    BY <1>0, <2>1, <2>4, <2>5, QuietStep DEF Quiet
<1>4. CASE KeepModels
  <2>1. bg.pc = "model" /\ UNCHANGED <<index, freed, bwait, Workers>>
    BY <1>4 DEF KeepModels, At
  <2>2. bg.slot \in DOMAIN roots[root] /\ RefOK(bg.ref) /\ Target(bg.ref) # 0
    BY <2>1 DEF GroupInv, Standing, Adjusting
  <2>3. /\ bg' \in BgRecord /\ bg'.pc = "decide" /\ bg'.slot = bg.slot /\ bg'.ref = bg.ref
        /\ bg'.act = bg.act
    <3>1. PICK e \in {"high", "ok", "low"} : bg' = [bg EXCEPT !.pc = "decide", !.error = e]
      BY <1>4, GroupConstants DEF KeepModels
    <3>2. QED
      BY <1>0, <2>1, <3>1 DEF BgRecord, BgPcs
  <2>5. Standing'
    BY <2>1, <2>2, <2>3, StandsAt, QuietFacts DEF GroupInv, Quiet, index, RefOK, Target
  <2>6. QED
    BY <1>0, <2>1, <2>3, <2>5, QuietStep DEF Quiet
<1>5. CASE NothingToDo
  <2>1. bg.pc = "decide" /\ UNCHANGED <<index, freed, bwait, Workers>>
    BY <1>5 DEF NothingToDo, At
  <2>2. PICK g : g = Target(bg.ref)
    OBVIOUS
  <2>3. /\ bg.slot \in DOMAIN roots[root] /\ ~Nulled(bg.slot) /\ RefOK(bg.ref) /\ g \in Nat /\ g # 0
    BY <2>1, <2>2, BgAt DEF Adjusting
  <2>4. RefOK(NextOf(g))
    BY <2>2, <2>3, NextInChain DEF GroupInv
  <2>5. PICK ref : ref = NextOf(g) /\ ref \in Ref
    BY <2>3, SlotFacts
  <2>6. bg' = [bg EXCEPT !.pc = "visit", !.ref = ref]
    BY <1>5, <2>2, <2>5 DEF NothingToDo
  <2>7. /\ bg' \in BgRecord /\ bg'.pc = "visit" /\ bg'.slot = bg.slot /\ bg'.ref = ref
        /\ bg'.act = bg.act
    BY <1>0, <2>1, <2>5, <2>6 DEF BgRecord, BgPcs
  <2>8. Standing'
    BY <2>1, <2>3, <2>4, <2>5, <2>7, StandsAt, QuietFacts DEF GroupInv, Quiet, index, RefOK, Target
  <2>9. QED
    BY <1>0, <2>1, <2>7, <2>8, QuietStep DEF Quiet
<1>6. CASE EndPass
  <2>1. bg.pc = "visit" /\ UNCHANGED <<index, freed, Workers>> /\ bwait' = Procs
    BY <1>6 DEF EndPass, EndOfSlots, At, Barrier
  <2>2. bg' = [bg EXCEPT !.pc = "round"]
    BY <1>6 DEF EndPass, Barrier
  <2>3. bg' \in BgRecord /\ bg'.pc = "round" /\ bg'.act = bg.act
    BY <1>0, <2>1, <2>2 DEF BgRecord, BgPcs
  <2>4. Standing'
    BY <2>1, <2>3, QuietFacts DEF GroupInv, Quiet, Standing, Adjusting
  <2>5. QED
    BY <1>0, <2>1, <2>3, <2>4, QuietStep DEF Quiet
<1>7. CASE EndRound
  <2>1. bg.pc = "round" /\ UNCHANGED <<index, freed, Workers, bwait>>
    BY <1>7 DEF EndRound, At, Passed
  <2>2. bg' = [BgIdle EXCEPT !.pass = bg.pass]
    BY <1>7 DEF EndRound
  <2>3. bg' \in BgRecord /\ bg'.pc = "idle" /\ bg'.act = "none"
    BY <1>0, <2>1, <2>2, SlotFacts DEF BgRecord, BgPcs, BgIdle
  <2>4. Standing'
    BY <2>3 DEF Standing, Adjusting
  <2>5. QED
    BY <1>0, <2>1, <2>3, <2>4, QuietStep DEF Quiet
<1>8. QED
  BY <1>1, <1>2, <1>3, <1>4, <1>5, <1>6, <1>7

\* The invariant holds again when the thread is in a quiet phase and the lists
\* are as they were; deleted groups are no longer reached.
LEMMA QuietAgain ==
  ASSUME GroupInv, UNCHANGED <<root, roots, groups, Workers>>, bg'.pc \in Quiet,
         bg' \in BgRecord, bwait' \subseteq Procs, Standing',
         ~Rooting, bg.pc # "flatten", Reach' = Reach, Heads' = Heads, Nexts' = Nexts,
         IndexTyped', Pointers', DOMAIN cont' = DOMAIN cont,
         DOMAIN freed' = {"groups", "conts", "roots"}, freed'.roots = freed.roots,
         freed'.groups \subseteq freed.groups \union Doomed, freed'.conts \subseteq DOMAIN cont,
         \A g \in Reach : ContsOf(g) \intersect freed'.conts = {},
         bwait = {}, bg.pc # "publishnext",
         \A g \in Reach : groups[g].temp = 0,
         \A g \in Reach, h \in Reach : g # h => ContsOf(g) \intersect ContsOf(h) = {}
  PROVE  GroupInv'
<1>0. UNCHANGED <<pc, rt, sl, gr, op, seen, res, scan, count>>
  BY DEF Workers, locals, opvars
<1>1. (Standing /\ bg.pc \in Quiet
       => /\ bg.act = "none" /\ Doomed = {} /\ Halves = {} /\ WithTemp = {} /\ ~Working /\ ~Rooting
          /\ bg.pc # "flatten" /\ bg.pc \notin Replaced /\ bg.pc # "publishnext" /\ bg.pc # "newroot"
          /\ bg.pc \notin {"refs", "publish", "phase2"}
          /\ \A i : ~Nulled(i))'
  BY QuietFacts, PTL
<1>2. /\ (bg.act = "none")' /\ Doomed' = {} /\ Halves' = {} /\ WithTemp' = {} /\ ~Working' /\ ~Rooting'
      /\ (bg.pc # "flatten")' /\ (bg.pc \notin Replaced)' /\ (bg.pc # "publishnext")'
      /\ (bg.pc # "newroot")' /\ (bg.pc \notin {"refs", "publish", "phase2"})'
      /\ \A i : ~Nulled(i)'
  BY <1>1 DEF Quiet
<1>3. Doomed \subseteq DOMAIN groups /\ Doomed \intersect Reach = {}
  BY DEF GroupInv, Unlinked
<1>4. BgTyped'
  BY <1>3 DEF GroupInv, BgTyped
<1>5. Named'
  <2>1. (bg.act = "none" /\ bg.pc \in Quiet => Named)'
    BY NamedQuiet, PTL
  <2>2. QED
    BY <1>2, <2>1 DEF Quiet
<1>6. Unlinked' /\ Linked' /\ FirstSlot'
  <2>1. Unlinked'
    BY <1>2, <1>3 DEF GroupInv, Unlinked
  <2>2. QED
    BY <1>2, <2>1 DEF GroupInv, Linked, FirstSlot
<1>7. Flattening' /\ NewRoot'
  BY <1>2 DEF GroupInv, Flattening, NewRoot, Rooting
<1>8. Owned'
  <2>1. \A g \in Reach : 0 \notin freed'.conts
    BY ListFacts DEF GroupInv
  <2>2. QED
    BY <1>2, <2>1 DEF GroupInv, Owned, ContsOf
<1>9. Fresh'
  BY <1>2 DEF Fresh
<1>10. WorkersTyped' /\ Doings'
  BY <1>0 DEF GroupInv, WorkersTyped, Typed, Scans, Doings, DoingOf, G
<1>11. Places'
  BY <1>0 DEF GroupInv, Places, PlaceOf, Rooting
<1>12. Grace'
  BY <1>0, <1>2 DEF GroupInv, Grace, GraceOf, HoldsGroup
<1>13. QED
  BY <1>2, <1>4, <1>5, <1>6, <1>7, <1>8, <1>9, <1>10, <1>11, <1>12 DEF GroupInv

LEMMA ModelsAdjustedStep ==
  ASSUME GroupInv, ModelsAdjusted
  PROVE  GroupInv'
<1>1. /\ bg.pc = "models" /\ bwait = {} /\ UNCHANGED <<bwait, index, Workers>>
      /\ freed' = [freed EXCEPT !.groups = @ \union {bg.old}]
      /\ bg' = [bg EXCEPT !.pc = "model", !.trial = @ + 1, !.old = 0]
  BY DEF ModelsAdjusted, Passed, At
<1>2. UNCHANGED <<root, roots, groups, cont>>
  BY <1>1 DEF index
<1>3. bg.act = "none" /\ \A i : ~Nulled(i)
  BY <1>1 DEF GroupInv, Standing, Nulled, Doing
<1>4. Doomed = {bg.old} /\ Halves = {} /\ WithTemp = {} /\ ~Working /\ ~Rooting
  BY <1>1, <1>3 DEF Doomed, Halves, WithTemp, Doing, Working, Rooting
<1>5. /\ bg.slot \in DOMAIN roots[root] /\ RefOK(bg.ref) /\ Target(bg.ref) # 0
  BY <1>1, BgAt DEF Adjusting
<1>6. /\ bg' \in BgRecord /\ bg'.pc = "model" /\ bg'.slot = bg.slot /\ bg'.ref = bg.ref
      /\ bg'.act = bg.act
  <2>1. bg \in BgRecord /\ bg.trial + 1 \in Nat
    BY BgFields DEF GroupInv
  <2>2. QED
    BY <1>1, <2>1 DEF BgRecord, BgPcs
<1>7. Standing'
  BY <1>2, <1>3, <1>5, <1>6, StandsAt DEF RefOK, Target
<1>8. \A i : ~Nulled(i)'
  BY <1>3, <1>6 DEF Nulled, Doing
<1>9. Heads' = Heads /\ Nexts' = Nexts /\ Reach' = Reach
  BY <1>2, <1>3, <1>8 DEF Heads, Nexts, Reach
<1>10. /\ DOMAIN freed' = {"groups", "conts", "roots"} /\ freed'.roots = freed.roots
       /\ freed'.groups = freed.groups \union {bg.old} /\ freed'.conts = freed.conts
  BY <1>1 DEF GroupInv, BgTyped
<1>11. IndexTyped' /\ Pointers'
  <2>1. ~Working'
    BY <1>6 DEF Working
  <2>2. QED
    BY <1>2, <1>4, <2>1 DEF GroupInv, IndexTyped, Cells, Pointers
<1>12. /\ \A g \in Reach : ContsOf(g) \intersect freed'.conts = {}
       /\ \A g \in Reach : groups[g].temp = 0
       /\ \A g \in Reach, h \in Reach : g # h => ContsOf(g) \intersect ContsOf(h) = {}
  BY <1>4, <1>10 DEF GroupInv, Owned
<1>13. freed'.conts \subseteq DOMAIN cont /\ bwait' \subseteq Procs
  BY <1>1, <1>10 DEF GroupInv, BgTyped
<1>14. QED
  BY <1>1, <1>2, <1>4, <1>6, <1>7, <1>9, <1>10, <1>11, <1>12, <1>13, QuietAgain DEF Quiet

LEMMA EmptyTyped == Empty \in [Keys -> Cells] /\ \A k \in Keys : Empty[k].kind = "none"
BY DEF Empty, Cells, NoRec

LEMMA FreeOldStep ==
  ASSUME GroupInv, FreeOld
  PROVE  GroupInv'
<1>1. bg.pc = "free" /\ bwait = {} /\ UNCHANGED <<bwait, root, roots, groups, Workers>>
  BY DEF FreeOld, Passed, At
<1>2. bg.act \in {"compact", "split", "merge"} /\ ~Rooting /\ (\A i : ~Nulled(i)) /\ Working
  BY <1>1, BgFields DEF GroupInv, Standing, Nulled, Doing, Rooting, Working
<1>3. Doomed = {bg.old} \union CASE bg.act = "split" -> {bg.other, Other.next}
                                 [] bg.act = "merge" -> {bg.other} [] OTHER -> {}
  BY <1>1, <1>2 DEF Doomed, Doing, Replaced
<1>4. Halves = {} /\ WithTemp = {}
  BY <1>1 DEF Halves, WithTemp, Doing
<1>5. PICK g : g = Target(bg.ref)
  OBVIOUS
<1>6. /\ bg.slot \in DOMAIN roots[root] /\ ~Nulled(bg.slot) /\ RefOK(bg.ref)
      /\ g \in Reach /\ g # 0 /\ g \in Nat /\ g = bg.next
      /\ g \in ChainOf(Heads, Nexts, bg.slot)
  <2>1. /\ bg.slot \in DOMAIN roots[root] /\ ~Nulled(bg.slot) /\ RefOK(bg.ref)
        /\ g \in Reach /\ g # 0 /\ g \in Nat
    BY <1>1, <1>5, BgAt DEF Adjusting
  <2>2. g = bg.next
    BY <1>1, <1>5 DEF GroupInv, Named, Replaced
  <2>3. g \in ChainOf(Heads, Nexts, bg.slot)
    BY <1>5, <2>1, RefFacts DEF GroupInv
  <2>4. QED
    BY <2>1, <2>2, <2>3
<1>7. PICK h : h = IF bg.act = "split" THEN bg.next + 1 ELSE bg.next
  OBVIOUS
<1>8. h \in ChainOf(Heads, Nexts, bg.slot) /\ h \in Nat /\ h # 0
  <2>1. CASE bg.act = "split"
    <3>1. groups[g].next = h /\ h # 0 /\ h \in Nat
      BY <1>1, <1>6, <1>7, <2>1 DEF GroupInv, Named, Doing, Replaced
    <3>2. Nexts[g] = h
      BY <1>6, <3>1, ListsAre, ListFacts DEF GroupInv
    <3>3. QED
      BY <1>6, <3>1, <3>2, ChainClosed, ListFacts DEF GroupInv
  <2>2. CASE bg.act # "split"
    BY <1>6, <1>7, <2>2
  <2>3. QED
    BY <2>1, <2>2
<1>9. PICK ref : ref = NextOf(h) /\ ref \in Ref /\ ref.in = "next" /\ ref.i = h
  BY <1>8, SlotFacts
<1>10. /\ bg' \in BgRecord /\ bg'.pc = "visit" /\ bg'.slot = bg.slot /\ bg'.ref = ref
       /\ bg'.act = "none"
  <2>1. PICK u \in BOOLEAN : u <=> (bg.update \/ bg.act # "compact")
    OBVIOUS
  <2>2. bg' = [bg EXCEPT !.pc = "visit", !.update = @ \/ bg.act # "compact", !.ref = ref,
                         !.old = 0, !.other = 0, !.next = 0, !.new = 0, !.nref = NoRef, !.act = "none"]
    BY <1>7, <1>9 DEF FreeOld
  <2>3. bg \in BgRecord /\ NoRef \in Ref
    BY BgFields, SlotFacts DEF GroupInv
  <2>4. QED
    BY <1>9, <2>2, <2>3 DEF BgRecord, BgPcs
<1>11. Standing'
  BY <1>1, <1>2, <1>6, <1>8, <1>9, <1>10, StandsAt
<1>12. \A i : ~Nulled(i)'
  BY <1>10 DEF Nulled, Doing
<1>13. Heads' = Heads /\ Nexts' = Nexts /\ Reach' = Reach
  BY <1>1, <1>2, <1>12 DEF Heads, Nexts, Reach
<1>14. PICK S : S = Sources
  OBVIOUS
<1>15. S \subseteq DOMAIN cont
  <2>1. bg.old \in DOMAIN groups /\ (bg.act = "merge" => bg.other \in DOMAIN groups)
    BY <1>2, <1>3 DEF GroupInv, Unlinked
  <2>2. QED
    BY <1>14, <2>1 DEF Sources, Merging, GroupInv, IndexTyped, AllGroups, IsGroup
<1>16. /\ DOMAIN freed' = {"groups", "conts", "roots"} /\ freed'.roots = freed.roots
       /\ freed'.groups = freed.groups \union Doomed /\ freed'.conts = freed.conts \union S
  <2>1. PICK D : D = Doomed
    OBVIOUS
  <2>2. freed' = [freed EXCEPT !.groups = @ \union D, !.conts = @ \union S]
    <3>1. PICK E : E = CASE bg.act = "split" -> {bg.other, Other.next}
                          [] bg.act = "merge" -> {bg.other} [] OTHER -> {}
      OBVIOUS
    <3>2. freed' = [freed EXCEPT !.groups = @ \union {bg.old} \union E, !.conts = @ \union S]
      BY <1>14, <3>1 DEF FreeOld
    <3>3. freed.groups \union {bg.old} \union E = freed.groups \union D
      BY <1>3, <2>1, <3>1
    <3>4. QED
      BY <3>2, <3>3
  <2>3. QED
    BY <2>1, <2>2 DEF GroupInv, BgTyped
<1>17. cont' = [c \in DOMAIN cont |-> IF c \in S THEN Empty ELSE cont[c]]
  BY <1>14 DEF FreeOld
<1>18. DOMAIN cont' = DOMAIN cont /\ IsSeq(cont')
  <2>1. cont' = [c \in DOMAIN cont |-> cont'[c]]
    BY <1>17
  <2>2. QED
    BY <2>1, SeqLike DEF GroupInv, IndexTyped
<1>19. IndexTyped'
  <2>1. Cells' = Cells
    BY <1>18 DEF Cells
  <2>2. \A c \in DOMAIN cont : cont'[c] \in [Keys -> Cells]
    BY <1>17, EmptyTyped DEF GroupInv, IndexTyped
  <2>3. QED
    BY <1>1, <1>18, <2>1, <2>2 DEF GroupInv, IndexTyped
<1>20. Pointers'
  <2>1. \A c \in DOMAIN cont, k \in Keys : cont[c][k].kind # "ptr"
    BY <1>1 DEF GroupInv, Pointers
  <2>2. \A c \in DOMAIN cont, k \in Keys : cont'[c][k].kind # "ptr"
    BY <1>17, <2>1, EmptyTyped
  <2>3. QED
    BY <1>18, <2>2 DEF Pointers
<1>21. /\ \A x \in Reach : ContsOf(x) \intersect freed'.conts = {}
       /\ \A x \in Reach : groups[x].temp = 0
       /\ \A x \in Reach, y \in Reach : x # y => ContsOf(x) \intersect ContsOf(y) = {}
  BY <1>1, <1>4, <1>14, <1>16 DEF GroupInv, Owned, Replaced
<1>22. freed'.conts \subseteq DOMAIN cont /\ bwait' \subseteq Procs
  BY <1>1, <1>15, <1>16 DEF GroupInv, BgTyped
<1>23. QED
  BY <1>1, <1>2, <1>10, <1>11, <1>13, <1>16, <1>18, <1>19, <1>20, <1>21, <1>22, QuietAgain DEF Quiet

-----------------------------------------------------------------------------
(* Steps that fill or settle the new arrays.                                *)

SameGoal ==
  /\ bg'.act = bg.act /\ bg'.slot = bg.slot /\ bg'.ref = bg.ref /\ bg'.nref = bg.nref
  /\ bg'.old = bg.old /\ bg'.other = bg.other /\ bg'.next = bg.next
  /\ \/ bg.pc = "split" /\ bg'.pc = "refs"
     \/ bg.pc = "refs" /\ bg'.pc \in {"refs", "publish"}
     \/ bg.pc = "phase2" /\ bg'.pc \in {"phase2", "free"}

LEMMA SameGoalFacts ==
  ASSUME GroupInv, UNCHANGED <<root, roots, groups>>, SameGoal
  PROVE  /\ Heads' = Heads /\ Nexts' = Nexts /\ Reach' = Reach /\ Doomed' = Doomed
         /\ Halves' = Halves /\ Sources' = Sources /\ WithTemp' = WithTemp
         /\ (\A i : ~Nulled(i)) /\ (\A i : ~Nulled(i)')
<1>1. (\A i : ~Nulled(i)) /\ (\A i : ~Nulled(i)')
  BY DEF SameGoal, Nulled, Doing
<1>2. Heads' = Heads /\ Nexts' = Nexts /\ Reach' = Reach
  BY <1>1 DEF Heads, Nexts, Reach
<1>3. bg.act # "none" /\ (bg.pc = "split" => bg.act = "split")
  BY DEF GroupInv, Standing, SameGoal
<1>4. Doomed' = Doomed
  BY <1>3 DEF SameGoal, Doomed, Doing, Replaced, Other
<1>5. Halves' = Halves
  BY <1>3 DEF SameGoal, Halves, Doing, Other
<1>6. Sources' = Sources
  BY DEF SameGoal, Sources, Merging
<1>7. WithTemp' = WithTemp
  BY <1>3, <1>5 DEF SameGoal, WithTemp, Merging
<1>8. QED
  BY <1>1, <1>2, <1>4, <1>5, <1>6, <1>7

LEMMA SameGoalStep ==
  ASSUME GroupInv, UNCHANGED <<root, roots, groups, freed, Workers>>, SameGoal,
         bg' \in BgRecord, bwait' \subseteq Procs, bwait \subseteq bwait',
         DOMAIN cont \subseteq DOMAIN cont', IndexTyped', Fresh', Pointers'
  PROVE  GroupInv'
<1>0. UNCHANGED <<pc, rt, sl, gr, op, seen, res, scan, count>>
  BY DEF Workers, locals, opvars
<1>1. /\ Heads' = Heads /\ Nexts' = Nexts /\ Reach' = Reach /\ Doomed' = Doomed
      /\ Halves' = Halves /\ Sources' = Sources /\ WithTemp' = WithTemp
  BY SameGoalFacts
<1>2. BgTyped'
  BY DEF GroupInv, BgTyped
<1>3. Standing'
  BY <1>1 DEF GroupInv, Standing, SameGoal, Adjusting, Target, RefOK
<1>4. Named'
  <2>1. Target(bg.ref)' = Target(bg.ref) /\ Target(bg.nref)' = Target(bg.nref)
    BY DEF SameGoal, Target
  <2>2. Old' = Old /\ Other' = Other
    BY DEF SameGoal, Old, Other
  <2>3. bg.act # "none" /\ (bg.pc = "split" => bg.act = "split")
    BY DEF GroupInv, Standing, SameGoal
  <2>4. QED
    BY <2>1, <2>2, <2>3 DEF GroupInv, Named, SameGoal, Doing, Replaced
<1>5. Unlinked' /\ Linked' /\ FirstSlot'
  BY <1>1 DEF GroupInv, Unlinked, Linked, FirstSlot, Rooting, SameGoal
<1>6. Flattening' /\ NewRoot'
  BY DEF GroupInv, Flattening, NewRoot, Rooting, SameGoal
<1>7. Owned'
  BY <1>1 DEF GroupInv, Owned, ContsOf, SameGoal, Replaced, Other
<1>8. WorkersTyped' /\ Doings'
  BY <1>0 DEF GroupInv, WorkersTyped, Typed, Scans, Doings, DoingOf, G
<1>9. Places'
  BY <1>0 DEF GroupInv, Places, PlaceOf, SameGoal
<1>10. Grace'
  BY <1>0, <1>1 DEF GroupInv, Grace, GraceOf, HoldsGroup, SameGoal
<1>11. QED
  BY <1>2, <1>3, <1>4, <1>5, <1>6, <1>7, <1>8, <1>9, <1>10 DEF GroupInv

\* cont \o <<Empty, Empty>>
LEMMA TwoEmpty ==
  ASSUME IndexTyped, cont' = cont \o <<Empty, Empty>>
  PROVE  /\ IsSeq(cont') /\ DOMAIN cont' = DOMAIN cont \union {Len(cont) + 1, Len(cont) + 2}
         /\ Len(cont) + 1 \notin DOMAIN cont /\ Len(cont) + 2 \notin DOMAIN cont
         /\ Len(cont) + 1 \in Nat \ {0} /\ Len(cont) + 2 \in Nat \ {0}
         /\ \A c \in DOMAIN cont : cont'[c] = cont[c]
         /\ \A c \in {Len(cont) + 1, Len(cont) + 2} : \A k \in Keys : cont'[c][k].kind = "none"
         /\ \A c \in DOMAIN cont' : cont'[c] \in [Keys -> Cells']
<1>1. PICK e : e = Empty
  OBVIOUS
<1>2. IsSeq(cont) /\ cont' = cont \o <<e, e>>
  BY <1>1 DEF IndexTyped
<1>3. /\ IsSeq(cont') /\ DOMAIN cont' = 1..(Len(cont) + 2) /\ Len(cont) \in Nat
      /\ DOMAIN cont = 1..Len(cont)
      /\ \A i \in 1..Len(cont) : cont'[i] = cont[i]
      /\ cont'[Len(cont) + 1] = e /\ cont'[Len(cont) + 2] = e
  BY <1>2, SeqAppendTwo, SeqShape
<1>4. DOMAIN cont' = DOMAIN cont \union {Len(cont) + 1, Len(cont) + 2}
  BY <1>3
<1>5. Cells \subseteq Cells'
  BY <1>4 DEF Cells
<1>6. \A c \in DOMAIN cont' : cont'[c] \in [Keys -> Cells']
  <2>1. \A c \in DOMAIN cont : cont[c] \in [Keys -> Cells']
    BY <1>5 DEF IndexTyped
  <2>2. e \in [Keys -> Cells']
    BY <1>1, <1>5, EmptyTyped
  <2>3. QED
    BY <1>3, <1>4, <2>1, <2>2
<1>7. QED
  BY <1>1, <1>3, <1>4, <1>6, EmptyTyped

\* The groups that are reached or wait to be deleted, and those being merged.
LEMMA WorkingGroups ==
  ASSUME GroupInv, Working \/ bg.pc \in {"split", "frozen"}
  PROVE  /\ bg.old \in Reach \union Doomed /\ bg.old \in DOMAIN groups
         /\ bg.act = "merge" => bg.other \in Reach \union Doomed /\ bg.other \in DOMAIN groups
         /\ Merging \subseteq Reach \union Doomed /\ Merging \subseteq DOMAIN groups
         /\ Sources \subseteq DOMAIN cont /\ Sources \intersect freed.conts = {}
<1>1. bg.act \in {"compact", "split", "merge"} /\ (bg.pc = "split" => bg.act = "split")
      /\ (bg.pc = "frozen" => bg.act # "split")
  BY BgFields DEF GroupInv, Standing, Working
<1>2. bg.slot \in DOMAIN roots[root] /\ RefOK(bg.ref) /\ Target(bg.ref) \in Reach /\ ~Nulled(bg.slot)
  BY BgAt DEF Adjusting, Working
<1>7. bg.old \in Reach \union Doomed /\ (bg.act = "merge" => bg.other \in Reach \union Doomed)
  <2>3. CASE bg.act = "compact" /\ bg.pc \in {"frozen", "refs", "publish"}
    BY <1>2, <2>3 DEF GroupInv, Named, Doing
  <2>4. CASE bg.act = "split"
    <3>1. bg.old \in Doomed
      BY <1>1, <2>4 DEF Doomed, Doing, Replaced, Working, GroupInv, Standing
    <3>2. QED
      BY <2>4, <3>1
  <2>5. CASE bg.act \in {"compact", "merge"} /\ bg.pc \in Replaced \union {"publishnext"}
    <3>1. bg.old \in Doomed /\ (bg.act = "merge" => bg.other \in Doomed)
      BY <2>5 DEF Doomed, Doing, Replaced, GroupInv, Standing
    <3>2. QED
      BY <3>1
  <2>6. CASE bg.act = "merge" /\ bg.pc \in {"frozen", "refs", "publish"}
    <3>1. /\ bg.old = Target(bg.ref) /\ bg.other = Target(bg.nref) /\ bg.other # 0
          /\ bg.nref = IF Old.next # 0 THEN NextOf(bg.old) ELSE Slot(bg.slot + 1)
          /\ (Old.next = 0 => bg.slot < Len(roots[root]))
      BY <2>6 DEF GroupInv, Named, Doing
    <3>2. bg.old \in Reach
      BY <1>2, <3>1
    <3>3. bg.other \in Reach
      <4>1. CASE Old.next # 0
        <5>1. bg.nref.in # "slot" /\ bg.nref.i = bg.old
          BY <3>1, <4>1, SlotFacts
        <5>2. QED
          BY <3>1, <3>2, <4>1, <5>1, ListFacts DEF GroupInv, Target, Old
      <4>2. CASE Old.next = 0
        <5>1. PICK s : s = bg.slot + 1
          OBVIOUS
        <5>2. s \in DOMAIN roots[root]
          BY <1>2, <3>1, <4>2, <5>1, ListFacts, BgFields DEF GroupInv
        <5>3. ~Nulled(s)
          BY <2>6 DEF Nulled, Doing
        <5>4. bg.other = roots[root][s].group
          BY <3>1, <4>2, <5>1, SlotFacts DEF Target
        <5>5. QED
          BY <3>1, <5>2, <5>3, <5>4, ListFacts DEF GroupInv
      <4>3. QED
        BY <4>1, <4>2
    <3>4. QED
      BY <3>2, <3>3
  <2>7. QED
    BY <1>1, <2>3, <2>4, <2>5, <2>6 DEF Working, Replaced
<1>8. Reach \union Doomed \subseteq DOMAIN groups
  BY ListFacts DEF GroupInv, Unlinked
<1>9. Merging \subseteq Reach \union Doomed
  BY <1>7 DEF Merging
<1>10. Sources \subseteq DOMAIN cont /\ Sources \intersect freed.conts = {}
  <2>1. \A g \in Reach \union Doomed : ContsOf(g) \subseteq DOMAIN cont /\ ContsOf(g) \intersect freed.conts = {}
    BY <1>8 DEF GroupInv, IndexTyped, AllGroups, IsGroup, Owned, ContsOf
  <2>2. QED
    BY <1>9, <2>1 DEF Sources, ContsOf
<1>11. QED
  BY <1>7, <1>8, <1>9, <1>10

LEMMA SplitPt2Step ==
  ASSUME GroupInv, SplitPt2
  PROVE  GroupInv'
<1>1. /\ bg.pc = "split" /\ UNCHANGED <<root, roots, groups, freed, bwait, Workers>>
      /\ cont' = cont \o <<Empty, Empty>>
  BY DEF SplitPt2, Passed, At
<1>2. PICK n : n = Len(cont) + 1
  OBVIOUS
<1>3. /\ IsSeq(cont') /\ DOMAIN cont' = DOMAIN cont \union {n, n + 1}
      /\ n \notin DOMAIN cont /\ n + 1 \notin DOMAIN cont /\ n \in Nat \ {0} /\ n + 1 \in Nat \ {0}
      /\ \A c \in DOMAIN cont : cont'[c] = cont[c]
      /\ \A c \in {n, n + 1} : \A k \in Keys : cont'[c][k].kind = "none"
      /\ \A c \in DOMAIN cont' : cont'[c] \in [Keys -> Cells']
  <2>1. n + 1 = Len(cont) + 2
    BY <1>2, ListFacts DEF GroupInv
  <2>2. QED
    BY <1>1, <1>2, <2>1, TwoEmpty DEF GroupInv
<1>4. PICK k \in Keys : k = Least(Keys) /\ k \in Nat
  BY KeysShape, LeastIn
<1>5. bg' = [bg EXCEPT !.pc = "refs", !.new = n, !.k = k]
  BY <1>2, <1>4 DEF SplitPt2
<1>6. bg.act = "split"
  BY <1>1 DEF GroupInv, Standing
<1>7. /\ bg' \in BgRecord /\ bg'.new = n /\ bg'.k = k /\ bg'.pc = "refs" /\ SameGoal
  BY <1>1, <1>3, <1>4, <1>5, BgFields DEF GroupInv, BgRecord, BgPcs, SameGoal
<1>8. /\ Sources' = Sources /\ NewArrays' = {n, n + 1}
  BY <1>1, <1>6, <1>7, SameGoalFacts DEF NewArrays, SameGoal
<1>9. IndexTyped'
  BY <1>1, <1>3 DEF GroupInv, IndexTyped, AllGroups, IsGroup
<1>10. Fresh'
  <2>1. Sources \union freed.conts \subseteq DOMAIN cont
    BY <1>1, WorkingGroups DEF GroupInv, BgTyped
  <2>2. \A g \in DOMAIN groups : ContsOf(g) \union {groups[g].temp} \subseteq DOMAIN cont \union {0}
    BY DEF GroupInv, IndexTyped, AllGroups, IsGroup, ContsOf
  <2>3. QED
    BY <1>1, <1>3, <1>4, <1>7, <1>8, <2>1, <2>2 DEF Fresh, ContsOf
<1>11. Pointers'
  <2>1. \A c \in DOMAIN cont, j \in Keys : cont[c][j].kind # "ptr"
    BY <1>1 DEF GroupInv, Pointers, Working
  <2>2. \A c \in DOMAIN cont', j \in Keys : cont'[c][j].kind # "ptr"
    BY <1>3, <2>1
  <2>3. QED
    BY <2>2 DEF Pointers
<1>12. bwait' \subseteq Procs /\ bwait \subseteq bwait'
  BY <1>1 DEF GroupInv, BgTyped
<1>13. QED
  BY <1>1, <1>3, <1>7, <1>9, <1>10, <1>11, <1>12, SameGoalStep

\* Where the pointers are, and what they lead to.
LEMMA PointerFacts ==
  ASSUME GroupInv, Working, NEW c \in DOMAIN cont, NEW k \in Keys, cont[c][k].kind = "ptr"
  PROVE  /\ c = NewArray(k) /\ c \in NewArrays /\ Rec(c, k) = cont[c][k].to
         /\ Rec(c, k) \in Sources /\ Rec(c, k) \notin NewArrays
         /\ cont[Rec(c, k)][k].kind = "val" /\ Read(c, k) \in Values \union {None}
<1>1. c = NewArray(k) /\ cont[c][k].to \in Sources /\ cont[cont[c][k].to][k].kind = "val"
  BY DEF GroupInv, Pointers
<1>2. c \in NewArrays
  BY <1>1 DEF NewArray, NewArrays
<1>3. PICK d : d = cont[c][k].to
  OBVIOUS
<1>4. d \in DOMAIN cont /\ Rec(c, k) = d
  BY <1>3, CellFacts DEF GroupInv
<1>5. d \notin NewArrays
  BY <1>1, <1>3 DEF GroupInv, Fresh
<1>6. cont[d][k].val \in Values \union {None}
  BY <1>1, <1>3, <1>4, CellFacts DEF GroupInv
<1>7. c # 0
  BY ListFacts DEF GroupInv
<1>8. QED
  BY <1>1, <1>2, <1>3, <1>4, <1>5, <1>6, <1>7 DEF Read

LEMMA MergeRefStep ==
  ASSUME GroupInv, MergeRef
  PROVE  GroupInv'
<1>1. /\ bg.pc = "refs" /\ UNCHANGED <<root, roots, groups, freed, bwait, Workers>>
  BY DEF MergeRef, At
<1>2. Working /\ bg.k \in Keys /\ bg \in BgRecord /\ NewArrays \subseteq DOMAIN cont
      /\ NewArrays \intersect Sources = {} /\ Sources \subseteq DOMAIN cont
  BY <1>1, WorkingGroups DEF Working, GroupInv, Fresh, BgTyped
<1>3. PICK k \in Keys : k = bg.k
  BY <1>2
<1>4. PICK t : t = NewArray(k)
  OBVIOUS
<1>5. t \in NewArrays /\ t \in DOMAIN cont
  BY <1>2, <1>4 DEF NewArray, NewArrays
<1>6. PICK b : b = NextKey("publish") /\ bg' = b
  BY DEF MergeRef
<1>7. /\ bg.k = LastKey => b = [bg EXCEPT !.pc = "publish", !.k = 0]
      /\ bg.k # LastKey => b = [bg EXCEPT !.k = b.k] /\ b.k \in Keys
  BY <1>2, <1>6, NextKeyEffect DEF BgPcs
<1>8. bg' \in BgRecord /\ SameGoal /\ bg'.new = bg.new /\ bg'.pc \in {"refs", "publish"}
      /\ (bg'.pc = "refs" => bg'.k \in Keys)
  <2>1. CASE bg.k = LastKey
    <3>1. bg' = [bg EXCEPT !.pc = "publish", !.k = 0]
      BY <1>6, <1>7, <2>1
    <3>2. QED
      BY <1>1, <1>2, <3>1 DEF BgRecord, BgPcs, SameGoal
  <2>2. CASE bg.k # LastKey
    <3>1. PICK j \in Keys : j = b.k /\ j \in Nat
      BY <1>7, <2>2, KeysShape
    <3>2. bg' = [bg EXCEPT !.k = j]
      BY <1>6, <1>7, <2>2, <3>1
    <3>3. QED
      BY <1>1, <1>2, <3>1, <3>2 DEF BgRecord, BgPcs, SameGoal
  <2>3. QED
    BY <2>1, <2>2
<1>9. Sources' = Sources /\ NewArrays' = NewArrays /\ \A j : NewArray(j)' = NewArray(j)
  BY <1>1, <1>8, SameGoalFacts DEF NewArrays, NewArray, SameGoal, Other
<1>10. \/ UNCHANGED cont
       \/ \E c \in Sources : Live(c, k) /\ cont' = [cont EXCEPT ![t][k] = PtrTo(c)]
  BY <1>3, <1>4 DEF MergeRef
<1>11. /\ IsSeq(cont') /\ DOMAIN cont' = DOMAIN cont
       /\ \A d \in DOMAIN cont' : cont'[d] \in [Keys -> Cells']
       /\ \A d \in DOMAIN cont, j \in Keys :
            \/ cont'[d][j] = cont[d][j]
            \/ /\ d = t /\ j = k
               /\ cont'[d][j].to \in Sources /\ cont[cont'[d][j].to][j].kind = "val"
  <2>1. CASE UNCHANGED cont
    BY <2>1 DEF GroupInv, IndexTyped, Cells
  <2>2. CASE \E c \in Sources : Live(c, k) /\ cont' = [cont EXCEPT ![t][k] = PtrTo(c)]
    <3>1. PICK c \in Sources : Live(c, k) /\ cont' = [cont EXCEPT ![t][k] = PtrTo(c)]
      BY <2>2
    <3>2. PICK x : x = PtrTo(c)
      OBVIOUS
    <3>3. x \in Cells /\ x.to = c
      BY <1>2, <3>2 DEF PtrTo, Cells
    <3>4. cont[c][k].kind # "ptr"
      BY <1>2, PointerFacts
    <3>5. Rec(c, k) = c
      BY <3>4 DEF Rec
    <3>6. cont[c][k].kind = "val"
      BY <3>1, <3>5 DEF Live, Read
    <3>7. SetCell(t, k, x)
      BY <3>1, <3>2 DEF SetCell
    <3>8. CellIs(t, k, x)
      BY <1>5, <3>3, <3>7, CellSet DEF GroupInv
    <3>9. QED
      BY <3>1, <3>3, <3>6, <3>8 DEF CellIs
  <2>3. QED
    BY <1>10, <2>1, <2>2
<1>12. IndexTyped'
  BY <1>1, <1>11 DEF GroupInv, IndexTyped
<1>13. Fresh'
  BY <1>1, <1>2, <1>8, <1>9, <1>11 DEF GroupInv, Fresh, ContsOf
<1>14. Pointers'
  <2> SUFFICES ASSUME NEW d \in DOMAIN cont, NEW j \in Keys, cont'[d][j].kind = "ptr"
               PROVE  d = NewArray(j) /\ cont'[d][j].to \in Sources
                      /\ cont'[cont'[d][j].to][j].kind = "val"
    BY <1>8, <1>9, <1>11 DEF Pointers, Working
  <2>1. PICK e : e = cont'[d][j].to
    OBVIOUS
  <2>2. d = NewArray(j) /\ e \in Sources /\ cont[e][j].kind = "val"
    <3>1. CASE cont'[d][j] = cont[d][j]
      BY <2>1, <3>1 DEF GroupInv, Pointers
    <3>2. CASE d = t /\ j = k /\ e \in Sources /\ cont[e][j].kind = "val"
      BY <1>4, <3>2
    <3>3. QED
      BY <1>11, <2>1, <3>1, <3>2
  <2>3. e \in DOMAIN cont /\ e # t
    BY <1>2, <1>5, <2>2
  <2>4. cont'[e][j] = cont[e][j]
    BY <1>11, <2>3
  <2>5. QED
    BY <2>1, <2>2, <2>4
<1>15. bwait' \subseteq Procs /\ bwait \subseteq bwait'
  BY <1>1 DEF GroupInv, BgTyped
<1>16. QED
  BY <1>1, <1>8, <1>11, <1>12, <1>13, <1>14, <1>15, SameGoalStep

LEMMA CompactPhase2Step ==
  ASSUME GroupInv, CompactPhase2
  PROVE  GroupInv'
<1>1. /\ bg.pc = "phase2" /\ UNCHANGED <<root, roots, groups, freed, Workers>>
  BY DEF CompactPhase2, At
<1>2. Working /\ bg.k \in Keys /\ bg \in BgRecord /\ NewArrays \subseteq DOMAIN cont
      /\ NewArrays \intersect Sources = {} /\ Sources \subseteq DOMAIN cont
  BY <1>1, WorkingGroups DEF Working, GroupInv, Fresh, BgTyped
<1>3. PICK k \in Keys : k = bg.k
  BY <1>2
<1>4. PICK t : t = NewArray(k)
  OBVIOUS
<1>5. t \in NewArrays /\ t \in DOMAIN cont
  BY <1>2, <1>4 DEF NewArray, NewArrays
<1>6. PICK b : b = NextKey("free") /\ bg' = b
  BY DEF CompactPhase2, Barrier
<1>7. /\ bg.k = LastKey => b = [bg EXCEPT !.pc = "free", !.k = 0]
      /\ bg.k # LastKey => /\ b = [bg EXCEPT !.k = b.k] /\ b.k \in Keys
                           /\ \A j \in Keys : j > bg.k => j >= b.k
  BY <1>2, <1>6, NextKeyEffect DEF BgPcs
<1>8. /\ bg' \in BgRecord /\ SameGoal /\ bg'.new = bg.new
      /\ bg'.pc = IF k = LastKey THEN "free" ELSE "phase2"
      /\ k # LastKey => bg'.k \in Keys /\ \A j \in Keys : j > k => j >= bg'.k
  <2>1. CASE bg.k = LastKey
    <3>1. bg' = [bg EXCEPT !.pc = "free", !.k = 0]
      BY <1>6, <1>7, <2>1
    <3>2. QED
      BY <1>1, <1>2, <1>3, <2>1, <3>1 DEF BgRecord, BgPcs, SameGoal
  <2>2. CASE bg.k # LastKey
    <3>1. PICK i \in Keys : i = b.k /\ i \in Nat
      BY <1>7, <2>2, KeysShape
    <3>2. bg' = [bg EXCEPT !.k = i] /\ \A j \in Keys : j > k => j >= i
      BY <1>3, <1>6, <1>7, <2>2, <3>1
    <3>3. bg' \in BgRecord /\ SameGoal /\ bg'.new = bg.new /\ bg'.pc = "phase2" /\ bg'.k = i
      BY <1>1, <1>2, <3>1, <3>2 DEF BgRecord, BgPcs, SameGoal
    <3>4. QED
      BY <1>3, <2>2, <3>2, <3>3
  <2>3. QED
    BY <2>1, <2>2
<1>9. Sources' = Sources /\ NewArrays' = NewArrays /\ \A j : NewArray(j)' = NewArray(j)
  BY <1>1, <1>8, SameGoalFacts DEF NewArrays, NewArray, SameGoal, Other
<1>10. cont' = IF cont[t][k].kind = "ptr" THEN [cont EXCEPT ![t][k] = Val(Read(t, k))] ELSE cont
  BY <1>3, <1>4 DEF CompactPhase2
<1>11. /\ IsSeq(cont') /\ DOMAIN cont' = DOMAIN cont
       /\ \A d \in DOMAIN cont' : cont'[d] \in [Keys -> Cells']
       /\ cont'[t][k].kind # "ptr"
       /\ \A d \in DOMAIN cont, j \in Keys : cont'[d][j] = cont[d][j] \/ (d = t /\ j = k)
  <2>1. CASE cont[t][k].kind # "ptr"
    BY <1>10, <2>1 DEF GroupInv, IndexTyped, Cells
  <2>2. CASE cont[t][k].kind = "ptr"
    <3>1. PICK v \in Values \union {None} : v = Read(t, k)
      BY <1>2, <1>5, <2>2, PointerFacts
    <3>2. PICK x \in Cells : x = Val(v) /\ x.kind = "val"
      BY ValTyped
    <3>3. SetCell(t, k, x)
      BY <1>10, <2>2, <3>1, <3>2 DEF SetCell
    <3>4. CellIs(t, k, x)
      BY <1>5, <3>2, <3>3, CellSet DEF GroupInv
    <3>5. QED
      BY <1>5, <3>2, <3>4 DEF CellIs
  <2>3. QED
    BY <2>1, <2>2
<1>12. IndexTyped'
  BY <1>1, <1>11 DEF GroupInv, IndexTyped
<1>13. Fresh'
  BY <1>1, <1>2, <1>8, <1>9, <1>11 DEF GroupInv, Fresh, ContsOf
<1>14. Pointers'
  <2> SUFFICES ASSUME NEW d \in DOMAIN cont, NEW j \in Keys, cont'[d][j].kind = "ptr"
               PROVE  /\ bg'.pc = "phase2" /\ d = NewArray(j) /\ cont'[d][j].to \in Sources
                      /\ cont'[cont'[d][j].to][j].kind = "val" /\ j >= bg'.k
    BY <1>8, <1>9, <1>11 DEF Pointers, Working
  <2>1. cont'[d][j] = cont[d][j]
    BY <1>11
  <2>2. PICK e : e = cont[d][j].to
    OBVIOUS
  <2>3. d = NewArray(j) /\ e \in Sources /\ cont[e][j].kind = "val" /\ j >= k
    BY <1>1, <1>3, <2>1, <2>2 DEF GroupInv, Pointers
  <2>4. j # k
    BY <1>4, <1>11, <2>3
  <2>5. j > k /\ k # LastKey
    BY <2>3, <2>4, KeysShape
  <2>6. e \in DOMAIN cont /\ e # t
    BY <1>2, <1>5, <2>3
  <2>7. cont'[e][j] = cont[e][j]
    BY <1>11, <2>6
  <2>8. QED
    BY <1>8, <2>1, <2>2, <2>3, <2>5, <2>7
<1>15. bwait' \subseteq Procs /\ bwait \subseteq bwait'
  BY DEF GroupInv, BgTyped, CompactPhase2, Barrier
<1>16. QED
  BY <1>1, <1>8, <1>11, <1>12, <1>13, <1>14, <1>15, SameGoalStep

-----------------------------------------------------------------------------
(* Steps that freeze groups or give them a temporary buffer.                *)

\* hs differs from gs in frozen, temp and model_n only.
Alike(gs, hs) ==
  /\ DOMAIN hs = DOMAIN gs
  /\ \A h \in DOMAIN gs : /\ hs[h].pivot = gs[h].pivot /\ hs[h].data = gs[h].data
                          /\ hs[h].buffer = gs[h].buffer /\ hs[h].next = gs[h].next
SameTemps(gs, hs) == \A h \in DOMAIN gs : hs[h].temp = gs[h].temp

LEMMA FreezeOne ==
  ASSUME NEW gs, NEW C, AllGroups(gs, C), NEW a \in DOMAIN gs,
         NEW hs, hs = [gs EXCEPT ![a].frozen = TRUE]
  PROVE  AllGroups(hs, C) /\ Alike(gs, hs) /\ SameTemps(gs, hs)
<1>1. PICK x : x = [gs[a] EXCEPT !.frozen = TRUE]
  OBVIOUS
<1>2. /\ IsGroup(x, C, DOMAIN gs) /\ x.pivot = gs[a].pivot /\ x.data = gs[a].data
      /\ x.buffer = gs[a].buffer /\ x.temp = gs[a].temp /\ x.next = gs[a].next
  BY <1>1 DEF AllGroups, IsGroup
<1>3. hs = [h \in DOMAIN gs |-> IF h = a THEN x ELSE gs[h]]
  BY <1>1
<1>4. IsSeq(hs) /\ DOMAIN hs = DOMAIN gs /\ \A h \in DOMAIN gs : hs[h] = IF h = a THEN x ELSE gs[h]
  <2>1. hs = [h \in DOMAIN gs |-> hs[h]]
    BY <1>3
  <2>2. QED
    BY <1>3, <2>1, SeqLike DEF AllGroups
<1>5. AllGroups(hs, C)
  BY <1>2, <1>4 DEF AllGroups
<1>6. QED
  BY <1>2, <1>4, <1>5 DEF Alike, SameTemps

LEMMA FreezeStep ==
  ASSUME GroupInv, bg.pc = "decide", UNCHANGED <<root, roots, cont, freed, Workers>>,
         AllGroups(groups', DOMAIN cont), Alike(groups, groups'), SameTemps(groups, groups'),
         bg' \in BgRecord, bwait' \subseteq Procs, bg'.pc = "frozen", bg'.act \in {"compact", "merge"},
         bg'.slot = bg.slot, bg'.ref = bg.ref, bg'.old = Target(bg.ref),
         bg'.act = "merge" =>
           /\ bg'.other = Target(bg'.nref) /\ bg'.other # 0
           /\ bg'.nref = IF Cur.next # 0 THEN NextOf(bg'.old) ELSE Slot(bg.slot + 1)
           /\ Cur.next = 0 => bg.slot < Len(roots[root])
  PROVE  GroupInv'
<1>0. UNCHANGED <<pc, rt, sl, gr, op, seen, res, scan, count>>
  BY DEF Workers, locals, opvars
<1>1. /\ bg.act = "none" /\ Doomed = {} /\ Halves = {} /\ WithTemp = {} /\ ~Working /\ ~Rooting
      /\ \A i : ~Nulled(i)
  BY QuietFacts DEF Quiet, GroupInv
<1>2. Doomed' = {} /\ Halves' = {} /\ WithTemp' = {} /\ ~Working' /\ ~Rooting' /\ \A i : ~Nulled(i)'
  BY DEF Doomed, Halves, WithTemp, Working, Rooting, Nulled, Doing, Replaced
<1>3. Heads' = Heads /\ Nexts' = Nexts /\ Reach' = Reach
  BY <1>1, <1>2 DEF Heads, Nexts, Reach, Alike
<1>4. IndexTyped'
  BY DEF GroupInv, IndexTyped, Cells, Alike
<1>5. BgTyped'
  BY DEF GroupInv, BgTyped, Alike
<1>6. /\ bg.slot \in DOMAIN roots[root] /\ RefOK(bg.ref) /\ RefIn(bg.ref) /\ ~Nulled(bg.slot)
      /\ Target(bg.ref) \in Reach /\ Target(bg.ref) # 0 /\ Target(bg.ref) \in DOMAIN groups
  BY BgAt DEF Adjusting
<1>7. Target(bg.ref)' = Target(bg.ref)
  <2>1. bg.ref.in = "slot" \/ bg.ref.i \in DOMAIN groups
    BY <1>6 DEF RefIn
  <2>2. QED
    BY <2>1 DEF Target, Alike
<1>8. Standing'
  BY <1>3, <1>6, <1>7 DEF Standing, Adjusting, RefOK
<1>9. Named'
  <2>1. bg'.act = "merge" => Target(bg.nref)' = Target(bg'.nref) /\ (Old.next)' = Cur.next
    <3>1. bg'.act = "merge" => bg'.nref.in = "slot" \/ bg'.nref.i \in DOMAIN groups
      BY <1>6, SlotFacts
    <3>2. QED
      BY <1>6, <3>1 DEF Target, Alike, Old, Cur
  <2>2. QED
    BY <1>7, <2>1 DEF Named, Doing, Replaced
<1>10. Unlinked' /\ Linked' /\ FirstSlot'
  BY <1>1, <1>2, <1>3 DEF GroupInv, Unlinked, Linked, FirstSlot
<1>11. Flattening' /\ NewRoot'
  BY <1>1, <1>2 DEF GroupInv, Flattening, NewRoot
<1>12. Owned'
  <2>1. Reach \subseteq DOMAIN groups
    BY ListFacts DEF GroupInv
  <2>2. \A g \in Reach : ContsOf(g)' = ContsOf(g) /\ groups'[g].temp = groups[g].temp
    BY <2>1 DEF ContsOf, Alike, SameTemps
  <2>3. QED
    BY <1>1, <1>2, <1>3, <2>2 DEF GroupInv, Owned, Replaced
<1>13. Fresh' /\ Pointers'
  BY <1>1, <1>2 DEF GroupInv, Fresh, Pointers
<1>14. WorkersTyped'
  BY <1>0 DEF GroupInv, WorkersTyped, Typed, Scans
<1>15. Doings' /\ Places'
  <2>1. \A p \in Procs : pc[p] \notin {"idle", "slot"} => gr[p] \in DOMAIN groups
    BY DEF GroupInv, Places, PlaceOf
  <2>2. \A p \in Procs : pc[p] \notin {"idle", "slot"} => G(p).temp' = G(p).temp
    BY <1>0, <2>1 DEF G, SameTemps
  <2>3. Doings'
    BY <1>0, <2>2 DEF GroupInv, Doings, DoingOf
  <2>4. Places'
    BY <1>0 DEF GroupInv, Places, PlaceOf, Alike
  <2>5. QED
    BY <2>3, <2>4
<1>16. Grace'
  BY <1>0, <1>1, <1>2, <1>3 DEF GroupInv, Grace, GraceOf, HoldsGroup
<1>17. QED
  BY <1>4, <1>5, <1>8, <1>9, <1>10, <1>11, <1>12, <1>13, <1>14, <1>15, <1>16 DEF GroupInv

LEMMA FreezeSteps ==
  ASSUME GroupInv, FreezeMerge \/ FreezeCompact
  PROVE  GroupInv'
<1>1. bg.pc = "decide" /\ UNCHANGED <<root, roots, cont, freed, Workers>> /\ bwait' = Procs
  BY DEF FreezeMerge, FreezeCompact, At, Barrier
<1>2. PICK g : g = Target(bg.ref)
  OBVIOUS
<1>3. /\ bg.slot \in Nat /\ bg.slot <= Len(roots[root]) /\ Len(roots[root]) \in Nat
      /\ g \in DOMAIN groups /\ g \in Nat /\ g # 0 /\ AllGroups(groups, DOMAIN cont)
      /\ bg \in BgRecord
  BY <1>1, <1>2, BgAt, ListFacts DEF Adjusting, GroupInv, IndexTyped, BgTyped
<1>4. CASE FreezeCompact
  <2>1. groups' = [groups EXCEPT ![g].frozen = TRUE]
    BY <1>2, <1>4 DEF FreezeCompact
  <2>2. bg' = [bg EXCEPT !.pc = "frozen", !.act = "compact", !.old = g]
    BY <1>2, <1>4 DEF FreezeCompact, Barrier
  <2>3. /\ bg' \in BgRecord /\ bg'.pc = "frozen" /\ bg'.act = "compact" /\ bg'.old = g
        /\ bg'.slot = bg.slot /\ bg'.ref = bg.ref
    BY <1>3, <2>2 DEF BgRecord, BgPcs
  <2>4. AllGroups(groups', DOMAIN cont) /\ Alike(groups, groups') /\ SameTemps(groups, groups')
    <3>1. PICK hs : hs = groups'
      OBVIOUS
    <3>2. hs = [groups EXCEPT ![g].frozen = TRUE]
      BY <2>1, <3>1
    <3>3. AllGroups(hs, DOMAIN cont) /\ Alike(groups, hs) /\ SameTemps(groups, hs)
      BY <1>3, <3>2, FreezeOne
    <3>4. QED
      BY <3>1, <3>3
  <2>5. QED
    BY <1>1, <1>2, <2>3, <2>4, FreezeStep
<1>5. CASE FreezeMerge
  <2>1. NextGroup # NoRef
    BY <1>5 DEF FreezeMerge, WantsMerge
  <2>2. PICK r : r = NextGroup
    OBVIOUS
  <2>3. /\ r \in Ref /\ r = IF Cur.next # 0 THEN NextOf(g) ELSE Slot(bg.slot + 1)
        /\ Cur.next = 0 => bg.slot < Len(roots[root])
        /\ RefIn(r) /\ Target(r) # 0
    <3>1. CASE Cur.next # 0
      <4>1. r = NextOf(g)
        BY <1>2, <2>2, <3>1 DEF NextGroup
      <4>2. QED
        <5>1. r \in Ref /\ r.in = "next" /\ r.in # "slot" /\ r.i = g
          BY <1>3, <4>1, SlotFacts
        <5>2. RefIn(r) /\ Target(r) = groups[g].next
          BY <1>3, <5>1 DEF RefIn, Target
        <5>3. QED
          BY <1>2, <3>1, <4>1, <5>1, <5>2 DEF Cur
    <3>2. CASE Cur.next = 0
      <4>1. PICK s \in Nat : s = bg.slot + 1
        BY <1>3
      <4>2. r = Slot(s) /\ bg.slot < Len(roots[root]) /\ roots[root][s].group # 0
        BY <2>1, <2>2, <3>2, <4>1 DEF NextGroup
      <4>3. s \in DOMAIN roots[root]
        BY <1>3, <4>1, <4>2, ListFacts DEF GroupInv
      <4>4. QED
        BY <3>2, <4>1, <4>2, <4>3, SlotFacts DEF RefIn, Target
    <3>3. QED
      BY <3>1, <3>2
  <2>4. PICK o : o = Target(r)
    OBVIOUS
  <2>5. o \in DOMAIN groups /\ o \in Nat
    BY <2>3, <2>4, ListFacts DEF RefIn, Target, GroupInv, IndexTyped, AllRoots, IsRootArray, AllGroups, IsGroup
  <2>6. bg' = [bg EXCEPT !.pc = "frozen", !.act = "merge", !.nref = r, !.old = g, !.other = o]
    BY <1>2, <1>5, <2>2, <2>4 DEF FreezeMerge, Barrier
  <2>7. /\ bg' \in BgRecord /\ bg'.pc = "frozen" /\ bg'.act = "merge" /\ bg'.old = g
        /\ bg'.slot = bg.slot /\ bg'.ref = bg.ref /\ bg'.nref = r /\ bg'.other = o
    BY <1>3, <2>3, <2>5, <2>6 DEF BgRecord, BgPcs
  <2>8. AllGroups(groups', DOMAIN cont) /\ Alike(groups, groups') /\ SameTemps(groups, groups')
    <3>1. PICK gs : gs = [groups EXCEPT ![g].frozen = TRUE]
      OBVIOUS
    <3>2. AllGroups(gs, DOMAIN cont) /\ Alike(groups, gs) /\ SameTemps(groups, gs)
      BY <1>3, <3>1, FreezeOne
    <3>3. PICK hs : hs = groups'
      OBVIOUS
    <3>4. hs = [gs EXCEPT ![o].frozen = TRUE]
      <4>1. hs = [groups EXCEPT ![g].frozen = TRUE, ![o].frozen = TRUE]
        BY <1>2, <1>5, <2>2, <2>4, <3>3 DEF FreezeMerge
      <4>2. QED
        BY <3>1, <4>1
    <3>5. o \in DOMAIN gs
      BY <2>5, <3>2 DEF Alike
    <3>6. AllGroups(hs, DOMAIN cont) /\ Alike(gs, hs) /\ SameTemps(gs, hs)
      BY <3>2, <3>4, <3>5, FreezeOne
    <3>7. QED
      BY <3>2, <3>3, <3>6 DEF Alike, SameTemps
  <2>9. QED
    BY <1>1, <1>2, <2>3, <2>4, <2>7, <2>8, FreezeStep
<1>6. QED
  BY <1>4, <1>5

\* buffer_temp of the groups in M is set to n.
TempsBecome(M, n) ==
  groups' = [g \in DOMAIN groups |->
              IF g \in M THEN [groups[g] EXCEPT !.temp = n] ELSE groups[g]]

LEMMA TempsSet ==
  ASSUME NEW C, NEW C2, AllGroups(groups, C), NEW M, NEW n, C \union {n} \subseteq C2,
         TempsBecome(M, n)
  PROVE  /\ AllGroups(groups', C2) /\ Alike(groups, groups')
         /\ \A g \in DOMAIN groups : groups'[g].temp = IF g \in M THEN n ELSE groups[g].temp
<1>1. IsSeq(groups') /\ DOMAIN groups' = DOMAIN groups
  <2>1. groups' = [g \in DOMAIN groups |-> groups'[g]]
    BY DEF TempsBecome
  <2>2. QED
    BY <2>1, SeqLike DEF AllGroups
<1>2. ASSUME NEW g \in DOMAIN groups
      PROVE  /\ IsGroup(groups'[g], C2, DOMAIN groups)
             /\ groups'[g].pivot = groups[g].pivot /\ groups'[g].data = groups[g].data
             /\ groups'[g].buffer = groups[g].buffer /\ groups'[g].next = groups[g].next
             /\ groups'[g].temp = IF g \in M THEN n ELSE groups[g].temp
  <2>1. IsGroup(groups[g], C, DOMAIN groups)
    BY DEF AllGroups
  <2>2. PICK x : x = groups[g]
    OBVIOUS
  <2>3. CASE g \in M
    <3>1. groups'[g] = [x EXCEPT !.temp = n]
      BY <2>2, <2>3 DEF TempsBecome
    <3>2. QED
      BY <2>1, <2>2, <2>3, <3>1 DEF IsGroup
  <2>4. CASE g \notin M
    <3>1. groups'[g] = x
      BY <2>2, <2>4 DEF TempsBecome
    <3>2. QED
      BY <2>1, <2>2, <2>4, <3>1 DEF IsGroup
  <2>5. QED
    BY <2>3, <2>4
<1>3. QED
  BY <1>1, <1>2 DEF AllGroups, Alike

LEMMA SetTempStep ==
  ASSUME GroupInv, SetTemp
  PROVE  GroupInv'
<1>0. /\ bg.pc = "frozen" /\ bwait = {} /\ UNCHANGED <<root, roots, freed, bwait, Workers>>
      /\ cont' = cont \o <<Empty, Empty>>
      /\ UNCHANGED <<pc, rt, sl, gr, op, seen, res, scan, count>>
  BY DEF SetTemp, Passed, At, Workers, locals, opvars
<1>1. PICK n : n = Len(cont) + 1
  OBVIOUS
<1>2. /\ IsSeq(cont') /\ DOMAIN cont' = DOMAIN cont \union {n, n + 1}
      /\ n \notin DOMAIN cont /\ n + 1 \notin DOMAIN cont /\ n \in Nat \ {0} /\ n + 1 \in Nat \ {0}
      /\ \A c \in DOMAIN cont : cont'[c] = cont[c]
      /\ \A c \in {n, n + 1} : \A k \in Keys : cont'[c][k].kind = "none"
      /\ \A c \in DOMAIN cont' : cont'[c] \in [Keys -> Cells']
      /\ n + 1 = Len(cont) + 2 /\ n # n + 1
  <2>1. n + 1 = Len(cont) + 2 /\ n # n + 1
    BY <1>1, ListFacts DEF GroupInv
  <2>2. QED
    BY <1>0, <1>1, <2>1, TwoEmpty DEF GroupInv
<1>3. PICK M : M = Merging
  OBVIOUS
<1>4. /\ AllGroups(groups', DOMAIN cont') /\ Alike(groups, groups')
      /\ \A g \in DOMAIN groups : groups'[g].temp = IF g \in M THEN n ELSE groups[g].temp
  <2>1. TempsBecome(M, n)
    BY <1>1, <1>3 DEF SetTemp, TempsBecome
  <2>2. AllGroups(groups, DOMAIN cont)
    BY DEF GroupInv, IndexTyped
  <2>3. DOMAIN cont \union {n} \subseteq DOMAIN cont'
    BY <1>2
  <2>4. QED
    BY <2>1, <2>2, <2>3, TempsSet
<1>5. PICK k \in Keys : k = Least(Keys) /\ k \in Nat
  BY KeysShape, LeastIn
<1>6. bg' = [bg EXCEPT !.pc = "refs", !.new = n + 1, !.k = k]
  BY <1>2, <1>5 DEF SetTemp
<1>7. bg.act \in {"compact", "merge"}
  BY <1>0, BgFields DEF GroupInv, Standing
<1>8. /\ bg' \in BgRecord /\ bg'.pc = "refs" /\ bg'.new = n + 1 /\ bg'.k = k
      /\ bg'.act = bg.act /\ bg'.slot = bg.slot /\ bg'.ref = bg.ref /\ bg'.nref = bg.nref
      /\ bg'.old = bg.old /\ bg'.other = bg.other /\ bg'.next = bg.next
  BY <1>0, <1>2, <1>5, <1>6, BgFields DEF GroupInv, BgRecord, BgPcs
<1>9. Doomed = {} /\ Halves = {} /\ WithTemp = {} /\ ~Working /\ ~Rooting /\ \A i : ~Nulled(i)
  BY <1>0, <1>7 DEF Doomed, Halves, WithTemp, Working, Rooting, Nulled, Doing, Replaced
<1>10. /\ Doomed' = {} /\ Halves' = {} /\ WithTemp' = M /\ Working' /\ ~Rooting' /\ \A i : ~Nulled(i)'
       /\ NewArrays' = {n + 1} /\ M' = M
  BY <1>3, <1>7, <1>8
     DEF Doomed, Halves, WithTemp, Working, Rooting, Nulled, Doing, Replaced, NewArrays, Merging
<1>11. Heads' = Heads /\ Nexts' = Nexts /\ Reach' = Reach
  BY <1>0, <1>4, <1>9, <1>10 DEF Heads, Nexts, Reach, Alike
<1>12. M \subseteq Reach /\ Sources \subseteq DOMAIN cont /\ Reach \subseteq DOMAIN groups
       /\ Sources \intersect freed.conts = {} /\ M \subseteq DOMAIN groups
  BY <1>0, <1>3, <1>9, WorkingGroups, ListFacts DEF GroupInv
<1>13. Sources' = Sources
  <2>1. Merging' = Merging
    BY <1>8 DEF Merging
  <2>2. QED
    BY <1>3, <1>4, <1>12, <2>1 DEF Sources, Alike
<1>14. IndexTyped'
  BY <1>0, <1>2, <1>4 DEF GroupInv, IndexTyped, Alike
<1>15. BgTyped'
  BY <1>0, <1>2, <1>4, <1>8 DEF GroupInv, BgTyped, Alike
<1>16. /\ bg.slot \in DOMAIN roots[root] /\ RefOK(bg.ref) /\ RefIn(bg.ref) /\ ~Nulled(bg.slot)
       /\ Target(bg.ref) \in Reach /\ Target(bg.ref) # 0 /\ Target(bg.ref) \in DOMAIN groups
  BY <1>0, BgAt DEF Adjusting
<1>17. Target(bg.ref)' = Target(bg.ref)
  <2>1. bg.ref.in = "slot" \/ bg.ref.i \in DOMAIN groups
    BY <1>16 DEF RefIn
  <2>2. QED
    BY <1>0, <1>4, <1>8, <2>1 DEF Target, Alike
<1>18. Standing'
  BY <1>0, <1>7, <1>8, <1>11, <1>16, <1>17 DEF Standing, Adjusting, RefOK
<1>19. Named'
  <2>1. bg.act = "compact" => bg.old = Target(bg.ref)
    BY <1>0 DEF GroupInv, Named, Doing
  <2>2. bg.act = "merge" =>
          /\ bg.old = Target(bg.ref) /\ bg.other = Target(bg.nref) /\ bg.other # 0
          /\ bg.nref = IF Old.next # 0 THEN NextOf(bg.old) ELSE Slot(bg.slot + 1)
          /\ Old.next = 0 => bg.slot < Len(roots[root])
    BY <1>0 DEF GroupInv, Named, Doing
  <2>3. bg.act = "merge" => Target(bg.nref)' = Target(bg.nref) /\ (Old.next)' = Old.next
    <3>1. bg.old \in DOMAIN groups
      BY <1>7, <1>16, <2>1, <2>2
    <3>2. bg.act = "merge" => bg.nref.in = "slot" \/ bg.nref.i \in DOMAIN groups
      BY <2>2, <3>1, SlotFacts
    <3>3. QED
      BY <1>0, <1>4, <1>8, <3>1, <3>2 DEF Target, Alike, Old
  <2>4. QED
    BY <1>0, <1>8, <1>17, <2>1, <2>2, <2>3, <1>7 DEF Named, Doing, Replaced
<1>20. Unlinked' /\ Linked' /\ FirstSlot'
  BY <1>0, <1>9, <1>10, <1>11 DEF GroupInv, Unlinked, Linked, FirstSlot
<1>21. Flattening' /\ NewRoot'
  BY <1>0, <1>8, <1>9, <1>10 DEF GroupInv, Flattening, NewRoot
<1>22. \A g \in DOMAIN groups : ContsOf(g)' = ContsOf(g) /\ ContsOf(g) \subseteq DOMAIN cont
  BY <1>4 DEF ContsOf, Alike, GroupInv, IndexTyped, AllGroups, IsGroup
<1>23. \A g \in Reach : groups[g].temp = 0
  BY <1>9 DEF GroupInv, Owned
<1>24. freed.conts \subseteq DOMAIN cont /\ 0 \notin DOMAIN cont
  BY ListFacts DEF GroupInv, BgTyped
<1>25. Owned'
  <2>1. \A g, h \in Reach : g # h => ContsOf(g)' \intersect ContsOf(h)' = {}
    BY <1>9, <1>12, <1>22 DEF GroupInv, Owned
  <2>2. \A g \in Reach : groups'[g].temp = IF g \in M THEN n ELSE 0
    BY <1>4, <1>12, <1>23
  <2>3. \A g \in Reach : groups'[g].temp # 0 => \A h \in DOMAIN groups : groups'[g].temp \notin ContsOf(h)'
    BY <1>2, <1>22, <2>2
  <2>4. \A g \in Reach : (ContsOf(g)' \union {groups'[g].temp}) \intersect freed.conts = {}
    <3>1. \A g \in Reach : ContsOf(g) \intersect freed.conts = {}
      BY DEF GroupInv, Owned
    <3>2. QED
      BY <1>2, <1>12, <1>22, <1>24, <2>2, <3>1
  <2>5. QED
    BY <1>0, <1>2, <1>4, <1>8, <1>10, <1>11, <2>1, <2>2, <2>3, <2>4 DEF Owned, Alike, Replaced
<1>26. Fresh'
  <2>1. \A g \in DOMAIN groups : groups'[g].temp \in DOMAIN cont \union {0, n}
    BY <1>4 DEF GroupInv, IndexTyped, AllGroups, IsGroup
  <2>2. QED
    BY <1>0, <1>2, <1>4, <1>5, <1>8, <1>10, <1>12, <1>13, <1>22, <1>24, <2>1 DEF Fresh, Alike
<1>27. Pointers'
  <2>1. \A c \in DOMAIN cont, j \in Keys : cont[c][j].kind # "ptr"
    BY <1>9 DEF GroupInv, Pointers
  <2>2. \A c \in DOMAIN cont', j \in Keys : cont'[c][j].kind # "ptr"
    BY <1>2, <2>1
  <2>3. QED
    BY <2>2 DEF Pointers
<1>28. WorkersTyped'
  BY <1>0 DEF GroupInv, WorkersTyped, Typed, Scans
<1>29. Doings' /\ Places'
  <2>1. \A p \in Procs : pc[p] \notin {"idle", "slot"} => gr[p] \in DOMAIN groups
    BY DEF GroupInv, Places, PlaceOf
  <2>2. \A p \in Procs : pc[p] \notin {"idle", "slot"} /\ G(p).temp # 0 => G(p).temp' # 0
    BY <1>0, <1>2, <1>4, <2>1 DEF G
  <2>3. Doings'
    <3>1. ASSUME NEW p \in Procs PROVE DoingOf(p)'
      BY <1>0, <2>2 DEF GroupInv, Doings, DoingOf
    <3>2. QED
      BY <3>1 DEF Doings
  <2>4. Places'
    BY <1>0, <1>4, <1>8 DEF GroupInv, Places, PlaceOf, Alike
  <2>5. QED
    BY <2>3, <2>4
<1>30. Grace'
  BY <1>0, <1>9, <1>10, <1>11 DEF GroupInv, Grace, GraceOf, HoldsGroup
<1>31. QED
  BY <1>14, <1>15, <1>18, <1>19, <1>20, <1>21, <1>25, <1>26, <1>27, <1>28, <1>29, <1>30 DEF GroupInv

-----------------------------------------------------------------------------
(* Steps that put new groups in the place of old ones.                      *)

\* Groups f to l take the place of t to u, the group the thread is at and, when
\* it works on two, the one after it.
LEMMA Spliced ==
  ASSUME GroupInv, Adjusting, IndexTyped', (\A i : ~Nulled(i)), (\A i : ~Nulled(i)'), root' = root,
         bg'.ref = bg.ref, bg'.slot = bg.slot,
         NEW t, t = Target(bg.ref), NEW u, u = t \/ (u = groups[t].next /\ u # 0),
         NEW f \in DOMAIN groups' \ DOMAIN groups, NEW l \in DOMAIN groups' \ DOMAIN groups,
         DOMAIN groups \subseteq DOMAIN groups', Pointed(bg.ref, f),
         f # l => groups'[f].next = l, groups'[l].next = groups[u].next
  PROVE  /\ Reach' = (Reach \ {t, u}) \union {f, l} /\ LinkedOnce(Heads, Nexts)'
         /\ RefOK(bg.ref)' /\ Target(bg.ref)' = f /\ t \in Reach /\ u \in Reach
         /\ bg.ref.in = "next" => bg.ref.i \notin {t, u}
<1>1. PICK hd, nx : hd = Heads /\ nx = Nexts
  OBVIOUS
<1>2. PICK hd2, nx2 : hd2 = Heads' /\ nx2 = Nexts'
  OBVIOUS
<1>3. PICK r : r = bg.ref.i
  OBVIOUS
<1>4. PICK in : in = bg.ref.in
  OBVIOUS
<1>5. /\ bg.slot \in DOMAIN roots[root] /\ RefOK(bg.ref) /\ RefIn(bg.ref) /\ ~Nulled(bg.slot)
      /\ t \in Reach /\ t \in DOMAIN groups
  BY BgAt
<1>6. /\ in = "slot" => r = bg.slot /\ hd[r] = t
      /\ in = "next" <=> in # "slot"
      /\ in # "slot" => /\ r \in Reach /\ r \in ChainOf(hd, nx, bg.slot) /\ nx[r] = t
  BY <1>1, <1>3, <1>4, <1>5, RefFacts DEF GroupInv
<1>7. /\ Linking(hd, nx) /\ DOMAIN hd = DOMAIN roots[root] /\ DOMAIN nx = DOMAIN groups
      /\ LinkedOnce(hd, nx) /\ Reach = ReachOf(hd, nx)
  BY <1>1, ListFacts DEF GroupInv, Linked, Adjusting, Rooting, Reach
<1>8. /\ Linking(hd2, nx2) /\ DOMAIN hd2 = DOMAIN hd /\ DOMAIN nx2 = DOMAIN groups'
  <2>1. (IndexTyped => /\ Linking(Heads, Nexts) /\ DOMAIN Heads = DOMAIN roots[root]
                       /\ DOMAIN Nexts = DOMAIN groups)'
    BY ListFacts, PTL
  <2>2. DOMAIN roots'[root] = DOMAIN roots[root]
    BY DEF Pointed, GroupInv, IndexTyped
  <2>3. QED
    BY <1>2, <1>7, <2>1, <2>2
<1>9. \A i \in DOMAIN hd : hd2[i] = IF in = "slot" /\ i = r THEN f ELSE hd[i]
  <2>1. root \in DOMAIN roots
    BY DEF GroupInv, IndexTyped
  <2>2. \A i \in DOMAIN hd : hd[i] = roots[root][i].group /\ hd2[i] = roots'[root][i].group
    BY <1>1, <1>2, <1>7, <1>8 DEF Heads
  <2>3. QED
    BY <1>3, <1>4, <1>7, <2>1, <2>2 DEF Pointed
<1>10. \A g \in DOMAIN nx : nx2[g] = IF in # "slot" /\ g = r THEN f ELSE nx[g]
  <2>1. \A g \in DOMAIN nx : nx[g] = groups[g].next /\ nx2[g] = groups'[g].next
    BY <1>1, <1>2, <1>7 DEF Nexts
  <2>2. QED
    BY <1>3, <1>4, <1>6, <1>7, <2>1 DEF Pointed
<1>11. /\ u = t \/ (u = nx[t] /\ u # 0)
       /\ f # l => nx2[f] = l
       /\ nx2[l] = nx[u]
  <2>1. nx[t] = groups[t].next /\ u \in DOMAIN groups
    BY <1>1, <1>5, ListFacts DEF Nexts, GroupInv
  <2>2. QED
    BY <1>1, <1>2, <2>1 DEF Nexts
<1>12. /\ ReachOf(hd2, nx2) = (ReachOf(hd, nx) \ {t, u}) \union {f, l}
       /\ LinkedOnce(hd2, nx2)
       /\ in # "slot" => r \notin {t, u}
  <2>1. Splices(hd, nx, hd2, nx2, t, u, f, l, in, r)
    BY <1>5, <1>6, <1>7, <1>8, <1>9, <1>10, <1>11 DEF Splices
  <2>2. QED
    BY <2>1, Splice
<1>13. Reach' = (Reach \ {t, u}) \union {f, l} /\ LinkedOnce(Heads, Nexts)'
  BY <1>2, <1>7, <1>12 DEF Reach
<1>14. RefOK(bg.ref)'
  <2>1. CASE in = "slot"
    BY <1>3, <1>4, <1>6, <2>1 DEF RefOK
  <2>2. CASE in # "slot"
    <3>1. hd2[bg.slot] = hd[bg.slot]
      BY <1>5, <1>7, <1>9, <2>2
    <3>2. \A g \in ChainOf(hd, nx, bg.slot) \ {r} : nx2[g] = nx[g]
      <4>1. ChainOf(hd, nx, bg.slot) \subseteq DOMAIN nx
        BY <1>5, <1>7, ChainClosed
      <4>2. QED
        BY <1>10, <4>1
    <3>3. r \in ChainOf(hd2, nx2, bg.slot)
      BY <1>5, <1>6, <1>7, <1>8, <2>2, <3>1, <3>2, ChainKeeps
    <3>4. QED
      BY <1>2, <1>3, <1>4, <1>6, <2>2, <3>3 DEF RefOK
  <2>3. QED
    BY <2>1, <2>2
<1>15. Target(bg.ref)' = f
  <2>1. CASE in = "slot"
    <3>1. roots'[root][r].group = f
      BY <1>3, <1>4, <1>5, <1>6, <2>1 DEF Pointed, GroupInv, IndexTyped
    <3>2. QED
      BY <1>3, <1>4, <2>1, <3>1 DEF Target
  <2>2. CASE in # "slot"
    <3>1. groups'[r].next = f
      BY <1>3, <1>4, <1>6, <2>2, ListFacts DEF Pointed, GroupInv
    <3>2. QED
      BY <1>3, <1>4, <2>2, <3>1 DEF Target
  <2>3. QED
    BY <2>1, <2>2
<1>16. u \in Reach
  BY <1>5, ListFacts DEF GroupInv
<1>17. QED
  BY <1>3, <1>4, <1>5, <1>12, <1>13, <1>14, <1>15, <1>16

\* What putting new groups in place leaves to show.
LEMMA ReplaceStep ==
  ASSUME GroupInv, UNCHANGED <<root, freed, Workers>>, Adjusting, (Adjusting)',
         bg' \in BgRecord, bwait' \subseteq Procs, bwait' = Procs \/ bg'.pc = "publishnext",
         DOMAIN cont \subseteq DOMAIN cont', bg'.slot = bg.slot, bg'.ref = bg.ref,
         NEW t \in Reach, NEW u \in Reach, NEW f, NEW l,
         f \notin DOMAIN groups, l \notin DOMAIN groups, f # 0, l # 0,
         DOMAIN groups' = DOMAIN groups \union {f, l},
         Reach' = (Reach \ {t, u}) \union {f, l}, LinkedOnce(Heads, Nexts)',
         Doomed' = Doomed \union {t, u},
         Pointed(bg.ref, f), Kept,
         IndexTyped', Standing', Named', Owned', Fresh', Pointers'
  PROVE  GroupInv'
<1>0. UNCHANGED <<pc, rt, sl, gr, op, seen, res, scan, count>>
  BY DEF Workers, locals, opvars
<1>1. /\ bg.pc \notin {"flatten", "newroot", "trim"} /\ bg'.pc \notin {"flatten", "newroot", "trim"}
      /\ ~Rooting /\ ~Rooting'
  BY DEF Adjusting, Rooting
<1>2. /\ Reach \subseteq DOMAIN groups /\ Doomed \subseteq DOMAIN groups /\ Doomed \intersect Reach = {}
      /\ \A d \in Doomed : groups[d].next \in Reach \union Doomed \union {0}
      /\ freed.groups \intersect (Reach \union Doomed) = {} /\ freed.groups \subseteq DOMAIN groups
      /\ \A g \in Reach : groups[g].next \in Reach \union {0}
  BY ListFacts DEF GroupInv, Unlinked, BgTyped
<1>3. BgTyped'
  BY <1>2 DEF GroupInv, BgTyped
<1>4. Unlinked'
  <2>1. \A d \in DOMAIN groups : groups'[d].next \in {groups[d].next, f}
    BY DEF Pointed
  <2>2. \A d \in Doomed \union {t, u} : groups'[d].next \in Reach' \union Doomed' \union {0}
    BY <1>2, <2>1
  <2>3. QED
    BY <1>2, <2>2 DEF Unlinked
<1>5. Linked'
  BY DEF Linked
<1>6. /\ DOMAIN roots' = DOMAIN roots /\ Len(roots') = Len(roots)
      /\ \A r \in DOMAIN roots : DOMAIN roots'[r] = DOMAIN roots[r] /\ Len(roots'[r]) = Len(roots[r])
      /\ \A r \in DOMAIN roots : \A j \in DOMAIN roots[r] :
           roots'[r][j].group = f \/ roots'[r][j].group = roots[r][j].group
  BY DEF Pointed
<1>7. \A r \in DOMAIN roots : roots'[r] = <<>> <=> roots[r] = <<>>
  <2>1. ASSUME NEW r \in DOMAIN roots PROVE roots'[r] = <<>> <=> roots[r] = <<>>
    <3>1. IsSeq(roots[r])
      BY DEF GroupInv, IndexTyped, AllRoots, IsRootArray
    <3>2. IsSeq(roots'[r])
      BY <1>6 DEF IndexTyped, AllRoots, IsRootArray
    <3>3. roots[r] = <<>> <=> Len(roots[r]) = 0
      BY <3>1, SeqShape
    <3>4. roots'[r] = <<>> <=> Len(roots'[r]) = 0
      BY <3>2, SeqShape
    <3>5. QED
      BY <1>6, <3>3, <3>4
  <2>2. QED
    BY <2>1
<1>8. FirstSlot'
  <2>1. ASSUME NEW r \in DOMAIN roots, roots[r] # <<>> PROVE roots'[r][1].group # 0
    <3>1. 1 \in DOMAIN roots[r]
      <4>1. IsSeq(roots[r])
        BY DEF GroupInv, IndexTyped, AllRoots, IsRootArray
      <4>2. Len(roots[r]) \in Nat /\ DOMAIN roots[r] = 1..Len(roots[r]) /\ Len(roots[r]) # 0
        BY <2>1, <4>1, SeqShape
      <4>3. QED
        BY <4>2
    <3>2. roots[r][1].group # 0
      BY <2>1 DEF GroupInv, FirstSlot
    <3>3. QED
      BY <1>6, <3>1, <3>2
  <2>2. QED
    BY <1>6, <1>7, <2>1 DEF FirstSlot
<1>9. Flattening'
  BY <1>1 DEF Flattening
<1>10. NewRoot'
  <2>1. root \in DOMAIN roots
    BY DEF GroupInv, IndexTyped
  <2>2. QED
    BY <1>1, <1>6, <1>7, <2>1 DEF GroupInv, NewRoot
<1>11. WorkersTyped'
  BY <1>0 DEF GroupInv, WorkersTyped, Typed, Scans
<1>12. Doings'
  <2>1. \A p \in Procs : pc[p] \notin {"idle", "slot"} => gr[p] \in DOMAIN groups
    BY DEF GroupInv, Places, PlaceOf
  <2>2. \A p \in Procs : pc[p] \notin {"idle", "slot"} => G(p).temp' = G(p).temp
    BY <1>0, <2>1 DEF G, Kept
  <2>3. QED
    BY <1>0, <2>2 DEF GroupInv, Doings, DoingOf
<1>13. Places'
  <2>1. root \in DOMAIN roots
    BY DEF GroupInv, IndexTyped
  <2>2. ASSUME NEW p \in Procs PROVE PlaceOf(p)'
    <3>1. PlaceOf(p)
      BY DEF GroupInv, Places
    <3>2. QED
      BY <1>0, <1>1, <1>6, <2>1, <3>1 DEF PlaceOf
  <2>3. QED
    BY <2>2 DEF Places
<1>14. Grace'
  <2>1. ASSUME NEW p \in Procs PROVE GraceOf(p)'
    BY <1>0 DEF GroupInv, Grace, GraceOf, HoldsGroup
  <2>2. QED
    BY <2>1 DEF Grace
<1>15. QED
  BY <1>3, <1>4, <1>5, <1>8, <1>9, <1>10, <1>11, <1>12, <1>13, <1>14 DEF GroupInv

LEMMA AdjustModelsStep ==
  ASSUME GroupInv, AdjustModels
  PROVE  GroupInv'
<1>0. bg.pc = "model" /\ UNCHANGED <<root, cont, freed, Workers>> /\ bwait' = Procs
  BY DEF AdjustModels, At, Barrier
<1>1. PICK t : t = Target(bg.ref)
  OBVIOUS
<1>2. PICK n : n = Len(groups) + 1
  OBVIOUS
<1>3. /\ bg.slot \in DOMAIN roots[root] /\ RefOK(bg.ref) /\ RefIn(bg.ref)
      /\ t \in Reach /\ t \in DOMAIN groups /\ t # 0 /\ t \in Nat /\ n \in Nat
  BY <1>0, <1>1, <1>2, BgAt, ListFacts DEF Adjusting, GroupInv
<1>4. PICK x : /\ IsGroup(x, DOMAIN cont, DOMAIN groups) /\ x.data = groups[t].data
               /\ x.buffer = groups[t].buffer /\ x.temp = groups[t].temp /\ x.next = groups[t].next
               /\ Assign(bg.ref, n, Append(groups, x))
  <2>1. PICK e \in Errors \ {"ok"} :
          /\ Cur.model_n # (IF e = "high" THEN MaxModelN ELSE 1)
          /\ Assign(bg.ref, Len(groups) + 1,
                    Append(groups, [Cur EXCEPT
                      !.model_n = IF e = "high" THEN @ + 1 ELSE @ - 1,
                      !.frozen = FALSE]))
    BY DEF AdjustModels
  <2>2. PICK y : y = Cur
    OBVIOUS
  <2>3. PICK m : m = IF e = "high" THEN y.model_n + 1 ELSE y.model_n - 1
    OBVIOUS
  <2>4. PICK x : x = [y EXCEPT !.model_n = m, !.frozen = FALSE]
    OBVIOUS
  <2>5. y = groups[t] /\ IsGroup(y, DOMAIN cont, DOMAIN groups)
    BY <1>1, <1>3, <2>2 DEF Cur, GroupInv, IndexTyped, AllGroups
  <2>6. m \in 1..MaxModelN
    BY <2>1, <2>2, <2>3, <2>5, GroupConstants DEF IsGroup
  <2>7. /\ IsGroup(x, DOMAIN cont, DOMAIN groups) /\ x.data = y.data /\ x.buffer = y.buffer
        /\ x.temp = y.temp /\ x.next = y.next
    BY <2>4, <2>5, <2>6 DEF IsGroup
  <2>8. Assign(bg.ref, n, Append(groups, x))
    BY <1>2, <2>1, <2>2, <2>3, <2>4
  <2>9. QED
    BY <2>5, <2>7, <2>8
<1>5. /\ AllRoots(roots', DOMAIN groups') /\ AllGroups(groups', DOMAIN cont)
      /\ DOMAIN groups' = DOMAIN groups \union {n} /\ n \notin DOMAIN groups /\ n # 0
      /\ Pointed(bg.ref, n) /\ Kept /\ Made(n, x)
  <2>1. IndexTyped /\ DOMAIN cont \subseteq DOMAIN cont
    BY DEF GroupInv
  <2>2. QED
    BY <1>2, <1>3, <1>4, <2>1, AssignOne
<1>6. bg' = [bg EXCEPT !.pc = "models", !.old = t]
  BY <1>1 DEF AdjustModels, Barrier
<1>7. /\ bg' \in BgRecord /\ bg'.pc = "models" /\ bg'.old = t /\ bg'.act = bg.act
      /\ bg'.ref = bg.ref /\ bg'.slot = bg.slot
  BY <1>0, <1>3, <1>6, BgFields DEF GroupInv, BgRecord, BgPcs
<1>8. /\ bg.act = "none" /\ Doomed = {} /\ Halves = {} /\ WithTemp = {} /\ ~Working
      /\ \A i : ~Nulled(i)
  BY <1>0, QuietFacts DEF Quiet, GroupInv
<1>9. /\ Doomed' = {t} /\ Halves' = {} /\ WithTemp' = {} /\ ~Working' /\ \A i : ~Nulled(i)'
  BY <1>7, <1>8 DEF Doomed, Halves, WithTemp, Working, Nulled, Doing
<1>10. IndexTyped'
  BY <1>0, <1>5 DEF GroupInv, IndexTyped, Pointed, Cells
<1>11. /\ Reach' = (Reach \ {t}) \union {n} /\ LinkedOnce(Heads, Nexts)'
       /\ RefOK(bg.ref)' /\ Target(bg.ref)' = n
  <2>1. /\ n \in DOMAIN groups' \ DOMAIN groups /\ DOMAIN groups \subseteq DOMAIN groups'
        /\ groups'[n].next = groups[t].next /\ Adjusting
    BY <1>0, <1>4, <1>5 DEF Made, Adjusting
  <2>2. QED
    BY <1>0, <1>1, <1>5, <1>7, <1>8, <1>9, <1>10, <2>1, Spliced
<1>12. Standing'
  <2>1. bg'.slot \in DOMAIN roots'[root]
    BY <1>3, <1>5, <1>7 DEF Pointed, GroupInv, IndexTyped
  <2>2. QED
    BY <1>0, <1>5, <1>7, <1>8, <1>11, <2>1 DEF Standing, Adjusting
<1>13. Named'
  BY <1>7, <1>8 DEF Named, Doing, Replaced
<1>14. Owned'
  <2>1. /\ \A g \in Reach : groups[g].temp = 0
        /\ \A g, h \in Reach : g # h => ContsOf(g) \intersect ContsOf(h) = {}
        /\ \A g \in Reach : ContsOf(g) \intersect freed.conts = {}
        /\ 0 \notin freed.conts /\ Reach \subseteq DOMAIN groups
    BY <1>8, ListFacts DEF GroupInv, Owned, BgTyped
  <2>2. \A g \in Reach : ContsOf(g)' = ContsOf(g) /\ groups'[g].temp = 0
    BY <1>5, <2>1 DEF Kept, ContsOf
  <2>3. ContsOf(n)' = ContsOf(t) /\ groups'[n].temp = 0
    BY <1>3, <1>4, <1>5, <2>1 DEF Made, ContsOf
  <2>4. \A g \in Reach' : groups'[g].temp = 0 /\ ContsOf(g)' \intersect freed.conts = {}
    BY <1>3, <1>11, <2>1, <2>2, <2>3
  <2>5. \A g, h \in Reach' : g # h => ContsOf(g)' \intersect ContsOf(h)' = {}
    BY <1>3, <1>11, <2>1, <2>2, <2>3
  <2>6. ContsOf(t)' \intersect freed.conts = {} /\ groups'[t].temp = 0
    BY <1>3, <2>1, <2>2
  <2>7. QED
    BY <1>0, <1>7, <1>9, <2>1, <2>4, <2>5, <2>6 DEF Owned, Replaced
<1>15. Fresh' /\ Pointers'
  BY <1>0, <1>7, <1>8, <1>9 DEF GroupInv, Fresh, Pointers
<1>16. bwait' \subseteq Procs /\ Adjusting /\ (Adjusting)'
  BY <1>0, <1>7 DEF Adjusting
<1>17. Doomed' = Doomed \union {t, t} /\ Reach' = (Reach \ {t, t}) \union {n, n}
       /\ DOMAIN groups' = DOMAIN groups \union {n, n}
  BY <1>5, <1>8, <1>9, <1>11
<1>18. QED
  BY <1>0, <1>3, <1>5, <1>7, <1>10, <1>11, <1>12, <1>13, <1>14, <1>15, <1>16, <1>17, ReplaceStep

LEMMA SplitPt1Step ==
  ASSUME GroupInv, SplitPt1
  PROVE  GroupInv'
<1>0. /\ bg.pc = "decide" /\ UNCHANGED <<root, freed, Workers>> /\ bwait' = Procs
      /\ cont' = cont \o <<Empty, Empty>>
  BY DEF SplitPt1, At, Barrier
<1>1. PICK t : t = Target(bg.ref)
  OBVIOUS
<1>2. PICK n : n = Len(groups) + 1
  OBVIOUS
<1>3. /\ bg.slot \in DOMAIN roots[root] /\ RefOK(bg.ref) /\ RefIn(bg.ref)
      /\ t \in Reach /\ t \in DOMAIN groups /\ t # 0 /\ t \in Nat /\ n \in Nat
  BY <1>0, <1>1, <1>2, BgAt, ListFacts DEF Adjusting, GroupInv
<1>4. PICK c : c = Len(cont) + 1
  OBVIOUS
<1>5. /\ IsSeq(cont') /\ DOMAIN cont' = DOMAIN cont \union {c, c + 1}
      /\ c \notin DOMAIN cont /\ c + 1 \notin DOMAIN cont /\ c \in Nat \ {0} /\ c + 1 \in Nat \ {0}
      /\ \A d \in DOMAIN cont : cont'[d] = cont[d]
      /\ \A d \in {c, c + 1} : \A k \in Keys : cont'[d][k].kind = "none"
      /\ \A d \in DOMAIN cont' : cont'[d] \in [Keys -> Cells']
      /\ c # c + 1
  <2>1. c + 1 = Len(cont) + 2 /\ c # c + 1
    BY <1>4, ListFacts DEF GroupInv
  <2>2. QED
    BY <1>0, <1>4, <2>1, TwoEmpty DEF GroupInv
<1>6. PICK x, y :
        /\ IsGroup(x, DOMAIN cont', DOMAIN groups \union {n + 1})
        /\ IsGroup(y, DOMAIN cont', DOMAIN groups)
        /\ x.data = groups[t].data /\ x.buffer = groups[t].buffer /\ x.temp = c /\ x.next = n + 1
        /\ y.data = groups[t].data /\ y.buffer = groups[t].buffer /\ y.temp = c + 1
        /\ y.next = groups[t].next
        /\ Assign(bg.ref, n, groups \o <<x, y>>)
  <2>1. PICK w : w = Cur
    OBVIOUS
  <2>2. w = groups[t] /\ IsGroup(w, DOMAIN cont, DOMAIN groups)
    BY <1>1, <1>3, <2>1 DEF Cur, GroupInv, IndexTyped, AllGroups
  <2>3. PICK m : m = (w.model_n + 1) \div 2
    OBVIOUS
  <2>4. m \in 1..MaxModelN
    BY <2>2, <2>3, GroupConstants DEF IsGroup
  <2>5. PICK h : h = [w EXCEPT !.frozen = TRUE, !.model_n = m]
    OBVIOUS
  <2>6. PICK x : x = [h EXCEPT !.temp = c, !.next = n + 1]
    OBVIOUS
  <2>7. PICK pv : pv = Median(Cur.data)
    OBVIOUS
  <2>8. PICK y : y = [h EXCEPT !.temp = c + 1, !.pivot = pv]
    OBVIOUS
  <2>9. /\ IsGroup(h, DOMAIN cont, DOMAIN groups) /\ h.data = w.data /\ h.buffer = w.buffer
        /\ h.next = w.next
    BY <2>2, <2>4, <2>5 DEF IsGroup
  <2>10. /\ IsGroup(x, DOMAIN cont', DOMAIN groups \union {n + 1})
         /\ x.data = h.data /\ x.buffer = h.buffer /\ x.temp = c /\ x.next = n + 1
    BY <1>5, <2>6, <2>9 DEF IsGroup
  <2>11. /\ IsGroup(y, DOMAIN cont', DOMAIN groups)
         /\ y.data = h.data /\ y.buffer = h.buffer /\ y.temp = c + 1 /\ y.next = h.next
    BY <1>5, <2>8, <2>9 DEF IsGroup
  <2>12. Assign(bg.ref, n, groups \o <<x, y>>)
    BY <1>2, <1>4, <2>1, <2>3, <2>5, <2>6, <2>7, <2>8 DEF SplitPt1
  <2>13. QED
    BY <2>2, <2>9, <2>10, <2>11, <2>12
<1>7. /\ AllRoots(roots', DOMAIN groups') /\ AllGroups(groups', DOMAIN cont')
      /\ DOMAIN groups' = DOMAIN groups \union {n, n + 1}
      /\ n \notin DOMAIN groups /\ n # 0 /\ n + 1 \notin DOMAIN groups /\ n + 1 # 0 /\ n # n + 1
      /\ Pointed(bg.ref, n) /\ Kept /\ Made(n, x) /\ Made(n + 1, y)
  <2>1. PICK C, l : C = DOMAIN cont' /\ l = n + 1
    OBVIOUS
  <2>2. AssignPair(bg.ref, n, l, x, y, C) /\ IndexTyped
    BY <1>2, <1>3, <1>5, <1>6, <2>1 DEF AssignPair, GroupInv
  <2>3. Paired(bg.ref, n, l, x, y, C)
    BY <2>2, AssignTwo
  <2>4. QED
    BY <2>1, <2>3 DEF Paired
<1>8. bg' = [bg EXCEPT !.pc = "split", !.act = "split", !.other = n, !.old = t]
  BY <1>1, <1>2 DEF SplitPt1, Barrier
<1>9. /\ bg' \in BgRecord /\ bg'.pc = "split" /\ bg'.old = t /\ bg'.act = "split" /\ bg'.other = n
      /\ bg'.ref = bg.ref /\ bg'.slot = bg.slot
  BY <1>0, <1>3, <1>8, BgFields DEF GroupInv, BgRecord, BgPcs
<1>10. /\ bg.act = "none" /\ Doomed = {} /\ Halves = {} /\ WithTemp = {} /\ ~Working
       /\ \A i : ~Nulled(i)
  BY <1>0, QuietFacts DEF Quiet, GroupInv
<1>11. groups'[n].next = n + 1
  BY <1>6, <1>7 DEF Made
<1>12. /\ Doomed' = {t} /\ Halves' = {n, n + 1} /\ WithTemp' = {n, n + 1} /\ ~Working'
       /\ \A i : ~Nulled(i)'
  <2>0. ~Working' /\ \A i : ~Nulled(i)'
    BY <1>9 DEF Working, Nulled, Doing
  <2>1. Doomed' = {t}
    BY <1>9 DEF Doomed, Doing, Replaced
  <2>2. Halves' = {n, n + 1}
    BY <1>9, <1>11 DEF Halves, Doing, Other
  <2>3. WithTemp' = {n, n + 1}
    BY <1>9, <2>2 DEF WithTemp
  <2>4. QED
    BY <2>0, <2>1, <2>2, <2>3
<1>13. IndexTyped'
  BY <1>0, <1>5, <1>7 DEF GroupInv, IndexTyped, Pointed
<1>14. /\ Reach' = (Reach \ {t, t}) \union {n, n + 1} /\ LinkedOnce(Heads, Nexts)'
       /\ RefOK(bg.ref)' /\ Target(bg.ref)' = n
  <2>1. PICK l : l = n + 1
    OBVIOUS
  <2>2. /\ n \in DOMAIN groups' \ DOMAIN groups /\ l \in DOMAIN groups' \ DOMAIN groups
        /\ DOMAIN groups \subseteq DOMAIN groups'
        /\ groups'[l].next = groups[t].next /\ groups'[n].next = l /\ Adjusting
    BY <1>0, <1>6, <1>7, <2>1 DEF Made, Adjusting
  <2>3. Reach' = (Reach \ {t, t}) \union {n, l} /\ LinkedOnce(Heads, Nexts)'
        /\ RefOK(bg.ref)' /\ Target(bg.ref)' = n
    BY <1>0, <1>1, <1>7, <1>9, <1>10, <1>12, <1>13, <2>2, Spliced
  <2>4. QED
    BY <2>1, <2>3
<1>15. Standing'
  <2>1. bg'.slot \in DOMAIN roots'[root]
    BY <1>3, <1>7, <1>9 DEF Pointed, GroupInv, IndexTyped
  <2>2. QED
    BY <1>0, <1>7, <1>9, <1>10, <1>14, <2>1 DEF Standing, Adjusting
<1>16. Named'
  <2>1. /\ groups'[t].data = groups[t].data /\ groups'[t].buffer = groups[t].buffer
    BY <1>3, <1>7 DEF Kept
  <2>2. /\ groups'[n].data = groups[t].data /\ groups'[n].buffer = groups[t].buffer
        /\ groups'[n + 1].data = groups[t].data /\ groups'[n + 1].buffer = groups[t].buffer
    BY <1>6, <1>7 DEF Made
  <2>3. QED
    BY <1>3, <1>7, <1>9, <1>11, <1>14, <2>1, <2>2 DEF Named, Doing, Replaced, Old, Other
<1>17. Owned'
  <2>1. /\ \A g \in Reach : groups[g].temp = 0
        /\ \A g, h \in Reach : g # h => ContsOf(g) \intersect ContsOf(h) = {}
        /\ \A g \in Reach : ContsOf(g) \intersect freed.conts = {}
        /\ 0 \notin freed.conts /\ Reach \subseteq DOMAIN groups /\ freed.conts \subseteq DOMAIN cont
    BY <1>10, ListFacts DEF GroupInv, Owned, BgTyped
  <2>2. \A g \in Reach : ContsOf(g)' = ContsOf(g) /\ groups'[g].temp = 0
    BY <1>7, <2>1 DEF Kept, ContsOf
  <2>3. /\ ContsOf(n)' = ContsOf(t) /\ groups'[n].temp = c
        /\ ContsOf(n + 1)' = ContsOf(t) /\ groups'[n + 1].temp = c + 1
    BY <1>6, <1>7 DEF Made, ContsOf
  <2>4. \A h \in DOMAIN groups' : ContsOf(h)' \subseteq DOMAIN cont
    <3>1. \A h \in DOMAIN groups : ContsOf(h)' \subseteq DOMAIN cont
      BY <1>7 DEF Kept, ContsOf, GroupInv, IndexTyped, AllGroups, IsGroup
    <3>2. ContsOf(t) \subseteq DOMAIN cont
      BY <1>3 DEF ContsOf, GroupInv, IndexTyped, AllGroups, IsGroup
    <3>3. QED
      BY <1>7, <2>3, <3>1, <3>2
  <2>5. \A g, h \in Reach' : g # h /\ ~({g, h} \subseteq Halves') => ContsOf(g)' \intersect ContsOf(h)' = {}
    <3>1. \A g \in Reach' : g \in {n, n + 1} \/ (g \in Reach /\ g # t)
      BY <1>14
    <3>2. \A g \in Reach \ {t} : ContsOf(g)' \intersect ContsOf(t) = {}
      BY <1>3, <2>1, <2>2
    <3>3. \A g, h \in Reach \ {t} : g # h => ContsOf(g)' \intersect ContsOf(h)' = {}
      BY <2>1, <2>2
    <3>4. QED
      BY <1>12, <2>3, <3>1, <3>2, <3>3
  <2>6. \A g \in Reach' : /\ groups'[g].temp # 0 <=> g \in WithTemp'
                          /\ groups'[g].temp \in {0, c, c + 1}
    BY <1>5, <1>7, <1>12, <1>14, <2>1, <2>2, <2>3
  <2>7. \A g \in Reach' \union {t} : (ContsOf(g)' \union {groups'[g].temp}) \intersect freed.conts = {}
    BY <1>3, <1>5, <1>14, <2>1, <2>2, <2>3
  <2>8. \A g \in Reach' : groups'[g].temp # 0 => \A h \in DOMAIN groups' : groups'[g].temp \notin ContsOf(h)'
    BY <1>5, <2>4, <2>6
  <2>9. groups'[bg'.other].temp # groups'[Other.next'].temp
    BY <1>5, <1>9, <1>11, <2>3 DEF Other
  <2>10. QED
    BY <1>0, <1>9, <1>12, <2>5, <2>6, <2>7, <2>8, <2>9 DEF Owned, Replaced
<1>18. Fresh' /\ Pointers'
  <2>1. \A d \in DOMAIN cont, j \in Keys : cont[d][j].kind # "ptr"
    BY <1>10 DEF GroupInv, Pointers
  <2>2. \A d \in DOMAIN cont', j \in Keys : cont'[d][j].kind # "ptr"
    BY <1>5, <2>1
  <2>3. QED
    BY <1>9, <1>12, <2>2 DEF Fresh, Pointers
<1>19. bwait' \subseteq Procs /\ Adjusting /\ (Adjusting)' /\ DOMAIN cont \subseteq DOMAIN cont'
  BY <1>0, <1>5, <1>9 DEF Adjusting
<1>20. Doomed' = Doomed \union {t, t}
  BY <1>10, <1>12
<1>21. QED
  <2>1. PICK l : l = n + 1
    OBVIOUS
  <2>2. /\ l \notin DOMAIN groups /\ l # 0 /\ DOMAIN groups' = DOMAIN groups \union {n, l}
        /\ Reach' = (Reach \ {t, t}) \union {n, l}
    BY <1>7, <1>14, <2>1
  <2>3. QED
    BY <1>0, <1>3, <1>7, <1>9, <1>13, <1>14, <1>15, <1>16, <1>17, <1>18, <1>19, <1>20, <2>2, ReplaceStep
-----------------------------------------------------------------------------
(* *group = new_group.                                                      *)

\* The groups that are replaced: the one the thread is at, and the second of a
\* split or merge.
LastOld ==
  IF bg.act = "split" THEN Other.next ELSE IF bg.act = "merge" THEN bg.other ELSE Target(bg.ref)

LEMMA AtPublish ==
  ASSUME GroupInv, bg.pc = "publish", NEW t, t = Target(bg.ref), NEW u, u = LastOld
  PROVE  /\ t \in Reach /\ u \in Reach /\ t # 0 /\ u # 0
         /\ WithTemp = {t, u} /\ Sources = ContsOf(t) \union ContsOf(u)
         /\ Halves = (IF bg.act = "split" THEN {t, u} ELSE {})
         /\ Doomed = (IF bg.act = "split" THEN {bg.old} ELSE {})
         /\ Merging \subseteq DOMAIN groups /\ Sources \subseteq DOMAIN cont /\ Working
         /\ (\A i : ~Nulled(i)) /\ bg.act \in {"compact", "split", "merge"}
<1>1. /\ bg.act \in {"compact", "split", "merge"} /\ Working /\ Adjusting
      /\ \A i : ~Nulled(i)
  BY BgFields DEF GroupInv, Standing, Working, Adjusting, Nulled, Doing
<1>2. t \in Reach /\ t # 0 /\ t \in DOMAIN groups
  BY <1>1, BgAt
<1>3. Merging \subseteq DOMAIN groups /\ Sources \subseteq DOMAIN cont
  BY <1>1, WorkingGroups
<1>4. CASE bg.act = "split"
  <2>1. bg.other = t /\ Other.next = u /\ u # 0 /\ bg.old \in DOMAIN groups
        /\ Old.data = Other.data /\ Old.buffer = Other.buffer
        /\ Old.data = groups[u].data /\ Old.buffer = groups[u].buffer
    BY <1>4 DEF GroupInv, Named, Doing, LastOld
  <2>2. u \in Reach
    BY <1>2, <2>1, ListFacts DEF Other, GroupInv
  <2>3. Halves = {t, u} /\ WithTemp = {t, u}
    BY <1>4, <2>1 DEF Halves, WithTemp, Doing
  <2>4. Doomed = {bg.old}
    BY <1>4 DEF Doomed, Doing, Replaced
  <2>5. Sources = ContsOf(t) \union ContsOf(u)
    <3>1. Merging = {bg.old}
      BY <1>4 DEF Merging
    <3>2. Sources = {groups[bg.old].data, groups[bg.old].buffer}
      BY <3>1 DEF Sources
    <3>3. QED
      BY <2>1, <3>2 DEF ContsOf, Old, Other
  <2>6. QED
    BY <1>1, <1>2, <1>3, <1>4, <2>1, <2>2, <2>3, <2>4, <2>5
<1>5. CASE bg.act \in {"compact", "merge"}
  <2>1. bg.old = t
    BY <1>5 DEF GroupInv, Named, Doing
  <2>2. Merging = {t, u}
    BY <1>5, <2>1 DEF Merging, LastOld
  <2>3. Halves = {} /\ WithTemp = {t, u}
    BY <1>5, <2>2 DEF Halves, WithTemp, Doing
  <2>4. Doomed = {}
    BY <1>5 DEF Doomed, Doing, Replaced
  <2>5. Sources = ContsOf(t) \union ContsOf(u)
    BY <2>2 DEF Sources, ContsOf
  <2>6. u \in Reach
    <3>1. Merging \subseteq Reach
      BY <1>1, <2>4, WorkingGroups
    <3>2. QED
      BY <2>2, <3>1
  <2>7. u # 0
    BY <2>6, ListFacts DEF GroupInv
  <2>8. QED
    BY <1>1, <1>2, <1>3, <1>5, <2>3, <2>4, <2>5, <2>6, <2>7
<1>6. QED
  BY <1>1, <1>4, <1>5

\* What every publication shows: groups f to l, on the new arrays and on the
\* temporary buffers of t and u, in the place of t and u.
Publishes(t, u, f, l) ==
  /\ bg.pc = "publish" /\ UNCHANGED <<root, cont, freed, Workers>>
  /\ bg' \in BgRecord /\ bwait' \subseteq Procs
  /\ bg'.pc = IF bg.act = "merge" THEN "publishnext" ELSE "published"
  /\ bwait' = Procs \/ bg'.pc = "publishnext"
  /\ bg'.act = bg.act /\ bg'.slot = bg.slot /\ bg'.ref = bg.ref /\ bg'.new = bg.new
  /\ bg'.old = bg.old /\ bg'.other = bg.other
  /\ t = Target(bg.ref) /\ u = LastOld
  /\ f \notin DOMAIN groups /\ l \notin DOMAIN groups /\ f # 0 /\ l # 0
  /\ DOMAIN groups' = DOMAIN groups \union {f, l}
  /\ Pointed(bg.ref, f) /\ Kept
  /\ groups'[f].data = bg.new /\ groups'[f].buffer = groups[t].temp /\ groups'[f].temp = 0
  /\ f # l => /\ bg.act = "split" /\ groups'[l].data = bg.new + 1
              /\ groups'[l].buffer = groups[u].temp /\ groups'[l].temp = 0

LEMMA PublishKeeps ==
  ASSUME GroupInv, NEW t, NEW u, NEW f, NEW l, Publishes(t, u, f, l),
         Reach' = (Reach \ {t, u}) \union {f, l},
         bg.ref.in = "next" => bg.ref.i \notin {t, u}
  PROVE  Doomed' = Doomed \union {t, u} /\ Owned' /\ Fresh' /\ Pointers'
<1>0. /\ bg.pc = "publish" /\ UNCHANGED <<root, cont, freed>>
      /\ bg'.pc = (IF bg.act = "merge" THEN "publishnext" ELSE "published")
      /\ bg'.act = bg.act /\ bg'.slot = bg.slot /\ bg'.ref = bg.ref /\ bg'.new = bg.new
      /\ bg'.old = bg.old /\ bg'.other = bg.other
      /\ t = Target(bg.ref) /\ u = LastOld
      /\ f \notin DOMAIN groups /\ l \notin DOMAIN groups /\ f # 0 /\ l # 0
      /\ DOMAIN groups' = DOMAIN groups \union {f, l}
      /\ groups'[f].data = bg.new /\ groups'[f].buffer = groups[t].temp /\ groups'[f].temp = 0
      /\ f # l => /\ bg.act = "split" /\ groups'[l].data = bg.new + 1
                  /\ groups'[l].buffer = groups[u].temp /\ groups'[l].temp = 0
  BY DEF Publishes
<1>1. /\ t \in Reach /\ u \in Reach /\ t # 0 /\ u # 0
      /\ WithTemp = {t, u} /\ Sources = ContsOf(t) \union ContsOf(u)
      /\ Halves = (IF bg.act = "split" THEN {t, u} ELSE {})
      /\ Doomed = (IF bg.act = "split" THEN {bg.old} ELSE {})
      /\ Merging \subseteq DOMAIN groups /\ Sources \subseteq DOMAIN cont /\ Working
      /\ bg.act \in {"compact", "split", "merge"}
  BY <1>0, AtPublish
<1>2. /\ \A g \in DOMAIN groups : /\ ContsOf(g)' = ContsOf(g) /\ groups'[g].temp = groups[g].temp
                                  /\ groups'[g].pivot = groups[g].pivot
      /\ \A g \in {t, u} : groups'[g].next = groups[g].next
  <2>1. Pointed(bg.ref, f) /\ Kept /\ t \in DOMAIN groups /\ u \in DOMAIN groups
    BY <1>1, ListFacts DEF Publishes, GroupInv
  <2>2. QED
    BY <2>1 DEF Kept, Pointed, ContsOf
<1>3. Reach \subseteq DOMAIN groups /\ Doomed \subseteq DOMAIN groups
      /\ freed.conts \subseteq DOMAIN cont /\ 0 \notin DOMAIN cont
  BY ListFacts DEF GroupInv, Unlinked, BgTyped
<1>4. bg.act = "split" => bg.other = t /\ Other.next = u /\ (Other.next)' = u
  <2>1. bg.act = "split" => bg.other = t /\ Other.next = u
    BY <1>0 DEF GroupInv, Named, Doing, LastOld
  <2>2. QED
    BY <1>0, <1>2, <2>1 DEF Other
<1>5. Doomed' = Doomed \union {t, u}
  <2>1. CASE bg.act = "split"
    <3>1. Doomed' = {bg'.old, bg'.other, (Other.next)'}
      BY <1>0, <2>1 DEF Doomed, Doing, Replaced
    <3>2. QED
      BY <1>0, <1>1, <1>4, <2>1, <3>1
  <2>2. CASE bg.act = "compact"
    <3>1. Doomed' = {bg'.old}
      BY <1>0, <2>2 DEF Doomed, Doing, Replaced
    <3>2. bg.old = t /\ u = t
      BY <1>0, <2>2 DEF GroupInv, Named, Doing, LastOld
    <3>3. QED
      BY <1>0, <1>1, <2>2, <3>1, <3>2
  <2>3. CASE bg.act = "merge"
    <3>1. Doomed' = {bg'.old, bg'.other}
      BY <1>0, <2>3 DEF Doomed, Doing, Replaced
    <3>2. bg.old = t /\ u = bg.other
      BY <1>0, <2>3 DEF GroupInv, Named, Doing, LastOld
    <3>3. QED
      BY <1>0, <1>1, <2>3, <3>1, <3>2
  <2>4. QED
    BY <1>1, <2>1, <2>2, <2>3
<1>6. Halves' = {} /\ WithTemp' = {} /\ NewArrays' = NewArrays /\ Working'
  BY <1>0 DEF Halves, WithTemp, NewArrays, Working, Doing
<1>7. Sources' = Sources
  <2>1. Merging' = Merging
    BY <1>0 DEF Merging
  <2>2. Sources = UNION {ContsOf(g) : g \in Merging} /\ Sources' = UNION {ContsOf(g)' : g \in Merging}
    BY <2>1 DEF Sources, ContsOf
  <2>3. QED
    BY <1>1, <1>2, <2>2
<1>8. \A k : NewArray(k)' = NewArray(k)
  <2>1. bg.act = "split" => groups'[u].pivot = groups[u].pivot
    BY <1>1, <1>2, <1>3
  <2>2. QED
    BY <1>0, <1>4, <2>1 DEF NewArray
<1>9. /\ bg.new \in NewArrays /\ (f # l => bg.new + 1 \in NewArrays)
      /\ NewArrays \intersect (Sources \union freed.conts) = {}
      /\ \A g \in DOMAIN groups : NewArrays \intersect (ContsOf(g) \union {groups[g].temp}) = {}
  BY <1>0, <1>1 DEF NewArrays, GroupInv, Fresh
<1>10. /\ \A g, h \in Reach : g # h /\ ~({g, h} \subseteq Halves) => ContsOf(g) \intersect ContsOf(h) = {}
       /\ \A g \in Reach : groups[g].temp # 0 <=> g \in {t, u}
       /\ \A g \in {t, u} : \A h \in DOMAIN groups : groups[g].temp \notin ContsOf(h)
       /\ f # l => groups[t].temp # groups[u].temp
       /\ \A g \in Reach \union Doomed : (ContsOf(g) \union {groups[g].temp}) \intersect freed.conts = {}
  BY <1>0, <1>1, <1>4 DEF GroupInv, Owned
<1>11. \A g \in Reach' : g \in {f, l} \/ (g \in Reach \ {t, u})
  OBVIOUS
<1>12. ContsOf(f)' = {bg.new, groups[t].temp}
  BY <1>0 DEF ContsOf
<1>13. f # l => ContsOf(l)' = {bg.new + 1, groups[u].temp}
  BY <1>0 DEF ContsOf
<1>14. Owned'
  <2>1. \A g, h \in Reach' : g # h => ContsOf(g)' \intersect ContsOf(h)' = {}
    <3>1. \A g, h \in Reach \ {t, u} : g # h => ContsOf(g)' \intersect ContsOf(h)' = {}
      BY <1>1, <1>2, <1>3, <1>10
    <3>2. \A g \in Reach \ {t, u} : ContsOf(f)' \intersect ContsOf(g)' = {}
      BY <1>2, <1>3, <1>9, <1>10, <1>12
    <3>3. f # l => \A g \in Reach \ {t, u} : ContsOf(l)' \intersect ContsOf(g)' = {}
      BY <1>2, <1>3, <1>9, <1>10, <1>13
    <3>4. f # l => ContsOf(f)' \intersect ContsOf(l)' = {}
      <4>1. bg.new # bg.new + 1
        BY BgFields DEF GroupInv
      <4>2. QED
        BY <1>1, <1>3, <1>9, <1>10, <1>12, <1>13, <4>1
    <3>5. QED
      BY <1>11, <3>1, <3>2, <3>3, <3>4
  <2>2. \A g \in Reach' : groups'[g].temp = 0
    BY <1>0, <1>2, <1>3, <1>10, <1>11
  <2>3. \A g \in Reach' \union Doomed' : (ContsOf(g)' \union {groups'[g].temp}) \intersect freed.conts = {}
    <3>1. \A g \in Reach \union Doomed \union {t, u} :
            (ContsOf(g)' \union {groups'[g].temp}) \intersect freed.conts = {}
      BY <1>1, <1>2, <1>3, <1>10
    <3>2. (ContsOf(f)' \union {groups'[f].temp}) \intersect freed.conts = {}
      BY <1>0, <1>1, <1>3, <1>9, <1>10, <1>12
    <3>3. f # l => (ContsOf(l)' \union {groups'[l].temp}) \intersect freed.conts = {}
      BY <1>0, <1>1, <1>3, <1>9, <1>10, <1>13
    <3>4. QED
      BY <1>5, <1>11, <3>1, <3>2, <3>3
  <2>4. \A g \in Reach' : ContsOf(g)' \intersect Sources = {}
    <3>1. \A g \in Reach \ {t, u} : ContsOf(g)' \intersect Sources = {}
      BY <1>1, <1>2, <1>3, <1>10
    <3>2. ContsOf(f)' \intersect Sources = {}
      BY <1>1, <1>3, <1>9, <1>10, <1>12
    <3>3. f # l => ContsOf(l)' \intersect Sources = {}
      BY <1>1, <1>3, <1>9, <1>10, <1>13
    <3>4. QED
      BY <1>11, <3>1, <3>2, <3>3
  <2>5. QED
    BY <1>0, <1>6, <1>7, <2>1, <2>2, <2>3, <2>4 DEF Owned
<1>15. Fresh'
  BY <1>0, <1>1, <1>6, <1>7 DEF GroupInv, Fresh
<1>16. Pointers'
  BY <1>0, <1>6, <1>7, <1>8 DEF GroupInv, Pointers
<1>17. QED
  BY <1>5, <1>14, <1>15, <1>16

LEMMA PublishStep ==
  ASSUME GroupInv, NEW t, NEW u, NEW f, NEW l, Publishes(t, u, f, l),
         Reach' = (Reach \ {t, u}) \union {f, l}, LinkedOnce(Heads, Nexts)',
         bg.ref.in = "next" => bg.ref.i \notin {t, u},
         RefOK(bg.ref)', Target(bg.ref)' = f, IndexTyped', Named'
  PROVE  GroupInv'
<1>0. /\ bg.pc = "publish" /\ UNCHANGED <<root, cont, freed, Workers>>
      /\ bg' \in BgRecord /\ bwait' \subseteq Procs
      /\ bg'.pc = (IF bg.act = "merge" THEN "publishnext" ELSE "published")
      /\ bwait' = Procs \/ bg'.pc = "publishnext"
      /\ bg'.act = bg.act /\ bg'.slot = bg.slot /\ bg'.ref = bg.ref
      /\ t = Target(bg.ref) /\ u = LastOld
      /\ f \notin DOMAIN groups /\ l \notin DOMAIN groups /\ f # 0 /\ l # 0
      /\ DOMAIN groups' = DOMAIN groups \union {f, l}
      /\ Pointed(bg.ref, f) /\ Kept
  BY DEF Publishes
<1>1. Doomed' = Doomed \union {t, u} /\ Owned' /\ Fresh' /\ Pointers'
  BY PublishKeeps
<1>2. t \in Reach /\ u \in Reach /\ bg.act \in {"compact", "split", "merge"}
  BY <1>0, AtPublish
<1>3. Adjusting /\ (Adjusting)' /\ bg.slot \in DOMAIN roots[root]
  BY <1>0, BgAt DEF Adjusting
<1>4. Standing'
  <2>1. bg'.slot \in DOMAIN roots'[root]
    BY <1>0, <1>3 DEF Pointed, GroupInv, IndexTyped
  <2>2. QED
    BY <1>0, <1>2, <2>1 DEF Standing, Adjusting
<1>5. QED
  BY <1>0, <1>1, <1>2, <1>3, <1>4, ReplaceStep

LEMMA PublishCompactStep ==
  ASSUME GroupInv, PublishCompact
  PROVE  GroupInv'
<1>0. /\ bg.pc = "publish" /\ bg.act = "compact" /\ UNCHANGED <<root, cont, freed, Workers>>
      /\ bwait' = Procs
  BY DEF PublishCompact, At, Barrier
<1>1. PICK t : t = Target(bg.ref)
  OBVIOUS
<1>2. PICK n : n = Len(groups) + 1
  OBVIOUS
<1>3. /\ t = LastOld /\ t = bg.old
  BY <1>0, <1>1 DEF LastOld, GroupInv, Named, Doing
<1>4. /\ t \in Reach /\ t # 0 /\ WithTemp = {t, t} /\ Working /\ (\A i : ~Nulled(i)) /\ Adjusting
  BY <1>0, <1>1, <1>3, AtPublish DEF Adjusting
<1>5. RefIn(bg.ref) /\ t \in DOMAIN groups /\ n \in Nat
  BY <1>1, <1>2, <1>4, BgAt, ListFacts DEF GroupInv
<1>6. bg.new \in DOMAIN cont /\ groups[t].temp # 0
  BY <1>4 DEF GroupInv, Fresh, Owned, NewArrays
<1>7. PICK x : /\ IsGroup(x, DOMAIN cont, DOMAIN groups) /\ x.data = bg.new
               /\ x.buffer = groups[t].temp /\ x.temp = 0 /\ x.next = groups[t].next
               /\ Assign(bg.ref, n, Append(groups, x))
  <2>1. PICK w : w = Old
    OBVIOUS
  <2>2. w = groups[t] /\ IsGroup(w, DOMAIN cont, DOMAIN groups)
    BY <1>3, <1>5, <2>1 DEF Old, GroupInv, IndexTyped, AllGroups
  <2>3. PICK x : x = [w EXCEPT !.data = bg.new, !.buffer = w.temp, !.temp = 0, !.frozen = FALSE]
    OBVIOUS
  <2>4. /\ IsGroup(x, DOMAIN cont, DOMAIN groups) /\ x.data = bg.new
        /\ x.buffer = w.temp /\ x.temp = 0 /\ x.next = w.next
    BY <1>6, <2>2, <2>3 DEF IsGroup
  <2>5. Assign(bg.ref, n, Append(groups, x))
    BY <1>2, <2>1, <2>3 DEF PublishCompact
  <2>6. QED
    BY <2>2, <2>4, <2>5
<1>8. /\ AllRoots(roots', DOMAIN groups') /\ AllGroups(groups', DOMAIN cont)
      /\ DOMAIN groups' = DOMAIN groups \union {n} /\ n \notin DOMAIN groups /\ n # 0
      /\ Pointed(bg.ref, n) /\ Kept /\ Made(n, x)
  <2>1. IndexTyped /\ DOMAIN cont \subseteq DOMAIN cont
    BY DEF GroupInv
  <2>2. QED
    BY <1>2, <1>5, <1>7, <2>1, AssignOne
<1>9. bg' = [bg EXCEPT !.pc = "published", !.next = n]
  BY <1>2 DEF PublishCompact, Barrier
<1>10. /\ bg' \in BgRecord /\ bg'.pc = "published" /\ bg'.act = bg.act /\ bg'.next = n
       /\ bg'.ref = bg.ref /\ bg'.slot = bg.slot /\ bg'.new = bg.new /\ bg'.old = bg.old
       /\ bg'.other = bg.other
  BY <1>0, <1>5, <1>9, BgFields DEF GroupInv, BgRecord, BgPcs
<1>11. IndexTyped'
  BY <1>0, <1>8 DEF GroupInv, IndexTyped, Pointed, Cells
<1>12. \A i : ~Nulled(i)'
  BY <1>0, <1>10 DEF Nulled, Doing
<1>13. /\ Reach' = (Reach \ {t, t}) \union {n, n} /\ LinkedOnce(Heads, Nexts)'
       /\ RefOK(bg.ref)' /\ Target(bg.ref)' = n
       /\ bg.ref.in = "next" => bg.ref.i \notin {t, t}
  <2>1. /\ n \in DOMAIN groups' \ DOMAIN groups /\ DOMAIN groups \subseteq DOMAIN groups'
        /\ groups'[n].next = groups[t].next
    BY <1>7, <1>8 DEF Made
  <2>2. QED
    BY <1>0, <1>1, <1>4, <1>8, <1>10, <1>11, <1>12, <2>1, Spliced
<1>14. Named'
  BY <1>0, <1>10, <1>13 DEF Named, Doing, Replaced
<1>15. Publishes(t, t, n, n)
  <2>1. /\ groups'[n].data = bg.new /\ groups'[n].buffer = groups[t].temp /\ groups'[n].temp = 0
    BY <1>7, <1>8 DEF Made
  <2>2. DOMAIN groups' = DOMAIN groups \union {n, n}
    BY <1>8
  <2>3. QED
    BY <1>0, <1>1, <1>3, <1>8, <1>10, <2>1, <2>2 DEF Publishes
<1>16. QED
  BY <1>11, <1>13, <1>14, <1>15, PublishStep

LEMMA PublishSplitStep ==
  ASSUME GroupInv, PublishSplit
  PROVE  GroupInv'
<1>0. /\ bg.pc = "publish" /\ bg.act = "split" /\ UNCHANGED <<root, cont, freed, Workers>>
      /\ bwait' = Procs
  BY DEF PublishSplit, At, Barrier
<1>1. PICK t : t = Target(bg.ref)
  OBVIOUS
<1>2. PICK n, l : n = Len(groups) + 1 /\ l = n + 1
  OBVIOUS
<1>3. PICK u : u = LastOld
  OBVIOUS
<1>4. /\ t \in Reach /\ t # 0 /\ u \in Reach /\ u # 0 /\ WithTemp = {t, u} /\ Working
      /\ (\A i : ~Nulled(i)) /\ Adjusting
  BY <1>0, <1>1, <1>3, AtPublish DEF Adjusting
<1>5. RefIn(bg.ref) /\ t \in DOMAIN groups /\ u \in DOMAIN groups /\ n \in Nat /\ l \in Nat
  BY <1>1, <1>2, <1>4, BgAt, ListFacts DEF GroupInv
<1>6. bg.new \in DOMAIN cont /\ bg.new + 1 \in DOMAIN cont /\ groups[t].temp # 0 /\ groups[u].temp # 0
  <2>1. NewArrays = {bg.new, bg.new + 1}
    BY <1>0 DEF NewArrays
  <2>2. QED
    BY <1>4, <2>1 DEF GroupInv, Fresh, Owned
<1>7. bg.other = t /\ groups[t].next = u
  BY <1>0, <1>1, <1>3 DEF LastOld, Other, GroupInv, Named, Doing
<1>8. PICK x, y :
        /\ IsGroup(x, DOMAIN cont, DOMAIN groups \union {l}) /\ IsGroup(y, DOMAIN cont, DOMAIN groups)
        /\ x.data = bg.new /\ x.buffer = groups[t].temp /\ x.temp = 0 /\ x.next = l
        /\ y.data = bg.new + 1 /\ y.buffer = groups[u].temp /\ y.temp = 0
        /\ y.next = groups[u].next
        /\ Assign(bg.ref, n, groups \o <<x, y>>)
  <2>1. PICK w, v : w = Other /\ v = groups[Other.next]
    OBVIOUS
  <2>2. /\ w = groups[t] /\ IsGroup(w, DOMAIN cont, DOMAIN groups)
        /\ v = groups[u] /\ IsGroup(v, DOMAIN cont, DOMAIN groups)
    BY <1>5, <1>7, <2>1 DEF Other, GroupInv, IndexTyped, AllGroups
  <2>3. PICK x : x = [w EXCEPT !.data = bg.new, !.buffer = w.temp, !.temp = 0, !.frozen = FALSE,
                              !.next = l]
    OBVIOUS
  <2>4. PICK y : y = [v EXCEPT !.data = bg.new + 1, !.buffer = v.temp, !.temp = 0,
                              !.frozen = FALSE, !.model_n = w.model_n]
    OBVIOUS
  <2>5. /\ IsGroup(x, DOMAIN cont, DOMAIN groups \union {l})
        /\ x.data = bg.new /\ x.buffer = w.temp /\ x.temp = 0 /\ x.next = l
    BY <1>6, <2>2, <2>3 DEF IsGroup
  <2>6. /\ IsGroup(y, DOMAIN cont, DOMAIN groups)
        /\ y.data = bg.new + 1 /\ y.buffer = v.temp /\ y.temp = 0 /\ y.next = v.next
    BY <1>6, <2>2, <2>4 DEF IsGroup
  <2>7. Assign(bg.ref, n, groups \o <<x, y>>)
    BY <1>2, <2>1, <2>3, <2>4 DEF PublishSplit
  <2>8. QED
    BY <2>2, <2>5, <2>6, <2>7
<1>9. /\ AllRoots(roots', DOMAIN groups') /\ AllGroups(groups', DOMAIN cont)
      /\ DOMAIN groups' = DOMAIN groups \union {n, l}
      /\ n \notin DOMAIN groups /\ n # 0 /\ l \notin DOMAIN groups /\ l # 0 /\ n # l
      /\ Pointed(bg.ref, n) /\ Kept /\ Made(n, x) /\ Made(l, y)
  <2>1. PICK C : C = DOMAIN cont
    OBVIOUS
  <2>2. AssignPair(bg.ref, n, l, x, y, C) /\ IndexTyped
    BY <1>2, <1>5, <1>8, <2>1 DEF AssignPair, GroupInv
  <2>3. Paired(bg.ref, n, l, x, y, C)
    BY <2>2, AssignTwo
  <2>4. QED
    BY <2>1, <2>3 DEF Paired
<1>10. bg' = [bg EXCEPT !.pc = "published", !.next = n]
  BY <1>2 DEF PublishSplit, Barrier
<1>11. /\ bg' \in BgRecord /\ bg'.pc = "published" /\ bg'.act = bg.act /\ bg'.next = n
       /\ bg'.ref = bg.ref /\ bg'.slot = bg.slot /\ bg'.new = bg.new /\ bg'.old = bg.old
       /\ bg'.other = bg.other
  BY <1>0, <1>5, <1>10, BgFields DEF GroupInv, BgRecord, BgPcs
<1>12. IndexTyped'
  BY <1>0, <1>9 DEF GroupInv, IndexTyped, Pointed, Cells
<1>13. \A i : ~Nulled(i)'
  BY <1>0, <1>11 DEF Nulled, Doing
<1>14. groups'[n].next = l /\ groups'[l].next = groups[u].next
  BY <1>8, <1>9 DEF Made
<1>15. /\ Reach' = (Reach \ {t, u}) \union {n, l} /\ LinkedOnce(Heads, Nexts)'
       /\ RefOK(bg.ref)' /\ Target(bg.ref)' = n
       /\ bg.ref.in = "next" => bg.ref.i \notin {t, u}
  <2>1. /\ n \in DOMAIN groups' \ DOMAIN groups /\ l \in DOMAIN groups' \ DOMAIN groups
        /\ DOMAIN groups \subseteq DOMAIN groups'
    BY <1>9
  <2>2. u = groups[t].next /\ u # 0
    BY <1>4, <1>7
  <2>3. QED
    BY <1>0, <1>1, <1>4, <1>9, <1>11, <1>12, <1>13, <1>14, <2>1, <2>2, Spliced
<1>16. Named'
  BY <1>0, <1>2, <1>5, <1>7, <1>9, <1>11, <1>14, <1>15 DEF Named, Doing, Replaced
<1>17. Publishes(t, u, n, l)
  <2>1. /\ groups'[n].data = bg.new /\ groups'[n].buffer = groups[t].temp /\ groups'[n].temp = 0
        /\ groups'[l].data = bg.new + 1 /\ groups'[l].buffer = groups[u].temp /\ groups'[l].temp = 0
    BY <1>8, <1>9 DEF Made
  <2>2. QED
    BY <1>0, <1>1, <1>3, <1>9, <1>11, <2>1 DEF Publishes
<1>18. QED
  BY <1>12, <1>15, <1>16, <1>17, PublishStep

\* A merge with the group of the next slot: group f takes the place of t, and the
\* slot counts as empty.
LEMMA Joined ==
  ASSUME GroupInv, Adjusting, IndexTyped', (\A i : ~Nulled(i)), root' = root,
         bg'.ref = bg.ref, bg'.slot = bg.slot,
         NEW s \in DOMAIN roots[root], s # bg.slot, \A i : (Nulled(i)' <=> i = s),
         NEW t, t = Target(bg.ref), groups[t].next = 0,
         NEW o, o = roots[root][s].group, o # 0,
         NEW f \in DOMAIN groups' \ DOMAIN groups,
         DOMAIN groups \subseteq DOMAIN groups', Pointed(bg.ref, f),
         groups'[f].next = groups[o].next
  PROVE  /\ Reach' = (Reach \ {t, o}) \union {f} /\ LinkedOnce(Heads, Nexts)'
         /\ RefOK(bg.ref)' /\ Target(bg.ref)' = f
         /\ bg.ref.in = "next" => bg.ref.i \notin {t, o}
<1>1. PICK hd, nx : hd = Heads /\ nx = Nexts
  OBVIOUS
<1>2. PICK hd2, nx2 : hd2 = Heads' /\ nx2 = Nexts'
  OBVIOUS
<1>3. PICK r, in, q : r = bg.ref.i /\ in = bg.ref.in /\ q = bg.slot
  OBVIOUS
<1>4. /\ q \in DOMAIN roots[root] /\ RefOK(bg.ref) /\ RefIn(bg.ref) /\ ~Nulled(q)
      /\ t \in Reach /\ t \in DOMAIN groups /\ s # q
  BY <1>3, BgAt
<1>5. /\ in = "slot" => r = q /\ hd[q] = t
      /\ in = "next" <=> in # "slot"
      /\ in # "slot" => /\ r \in Reach /\ r \in ChainOf(hd, nx, q) /\ nx[r] = t
  BY <1>1, <1>3, <1>4, RefFacts DEF GroupInv
<1>6. /\ Linking(hd, nx) /\ DOMAIN hd = DOMAIN roots[root] /\ DOMAIN nx = DOMAIN groups
      /\ LinkedOnce(hd, nx) /\ Reach = ReachOf(hd, nx)
  BY <1>1, ListFacts DEF GroupInv, Linked, Adjusting, Rooting, Reach
<1>7. /\ Linking(hd2, nx2) /\ DOMAIN hd2 = DOMAIN hd /\ DOMAIN nx2 = DOMAIN groups'
  <2>1. (IndexTyped => /\ Linking(Heads, Nexts) /\ DOMAIN Heads = DOMAIN roots[root]
                       /\ DOMAIN Nexts = DOMAIN groups)'
    BY ListFacts, PTL
  <2>2. DOMAIN roots'[root] = DOMAIN roots[root]
    BY DEF Pointed, GroupInv, IndexTyped
  <2>3. QED
    BY <1>2, <1>6, <2>1, <2>2
<1>8. \A i \in DOMAIN hd : hd2[i] = IF in = "slot" /\ i = q THEN f ELSE IF i = s THEN 0 ELSE hd[i]
  <2>1. root \in DOMAIN roots
    BY DEF GroupInv, IndexTyped
  <2>2. \A i \in DOMAIN hd : /\ hd[i] = roots[root][i].group
                             /\ hd2[i] = IF i = s THEN 0 ELSE roots'[root][i].group
    BY <1>1, <1>2, <1>6, <1>7 DEF Heads
  <2>3. QED
    BY <1>3, <1>4, <1>5, <1>6, <2>1, <2>2 DEF Pointed
<1>9. \A g \in DOMAIN nx : nx2[g] = IF in # "slot" /\ g = r THEN f ELSE nx[g]
  <2>1. \A g \in DOMAIN nx : nx[g] = groups[g].next /\ nx2[g] = groups'[g].next
    BY <1>1, <1>2, <1>6 DEF Nexts
  <2>2. QED
    BY <1>3, <1>5, <1>6, <2>1 DEF Pointed
<1>10. hd[s] = o /\ nx[t] = 0 /\ nx2[f] = nx[o]
  <2>1. o \in DOMAIN groups
    BY <1>4, ListFacts DEF GroupInv
  <2>2. QED
    BY <1>1, <1>2, <1>4, <1>6, <2>1 DEF Heads, Nexts
<1>11. /\ ReachOf(hd2, nx2) = (ReachOf(hd, nx) \ {t, o}) \union {f}
       /\ LinkedOnce(hd2, nx2)
       /\ in # "slot" => r \notin {t, o}
  <2>1. Joins(hd, nx, hd2, nx2, t, o, q, s, f, in, r)
    BY <1>4, <1>5, <1>6, <1>7, <1>8, <1>9, <1>10 DEF Joins
  <2>2. QED
    BY <2>1, Join
<1>12. Reach' = (Reach \ {t, o}) \union {f} /\ LinkedOnce(Heads, Nexts)'
  BY <1>2, <1>6, <1>11 DEF Reach
<1>13. RefOK(bg.ref)'
  <2>1. CASE in = "slot"
    BY <1>3, <1>5, <2>1 DEF RefOK
  <2>2. CASE in # "slot"
    <3>1. hd2[q] = hd[q]
      BY <1>4, <1>6, <1>8, <2>2
    <3>2. \A g \in ChainOf(hd, nx, q) \ {r} : nx2[g] = nx[g]
      <4>1. ChainOf(hd, nx, q) \subseteq DOMAIN nx
        BY <1>4, <1>6, ChainClosed
      <4>2. QED
        BY <1>9, <4>1
    <3>3. r \in ChainOf(hd2, nx2, q)
      BY <1>4, <1>5, <1>6, <1>7, <2>2, <3>1, <3>2, ChainKeeps
    <3>4. QED
      BY <1>2, <1>3, <1>5, <2>2, <3>3 DEF RefOK
  <2>3. QED
    BY <2>1, <2>2
<1>14. Target(bg.ref)' = f
  <2>1. CASE in = "slot"
    <3>1. roots'[root][r].group = f
      BY <1>3, <1>4, <1>5, <2>1 DEF Pointed, GroupInv, IndexTyped
    <3>2. QED
      BY <1>3, <2>1, <3>1 DEF Target
  <2>2. CASE in # "slot"
    <3>1. groups'[r].next = f
      BY <1>3, <1>5, <2>2, ListFacts DEF Pointed, GroupInv
    <3>2. QED
      BY <1>3, <2>2, <3>1 DEF Target
  <2>3. QED
    BY <2>1, <2>2
<1>15. QED
  BY <1>3, <1>5, <1>11, <1>12, <1>13, <1>14

LEMMA PublishMergeStep ==
  ASSUME GroupInv, PublishMerge
  PROVE  GroupInv'
<1>0. /\ bg.pc = "publish" /\ bg.act = "merge" /\ UNCHANGED <<root, cont, freed, Workers>>
      /\ bwait' = bwait
  BY DEF PublishMerge, At
<1>1. PICK t : t = Target(bg.ref)
  OBVIOUS
<1>2. PICK n : n = Len(groups) + 1
  OBVIOUS
<1>3. PICK u : u = LastOld
  OBVIOUS
<1>4. /\ t \in Reach /\ t # 0 /\ u \in Reach /\ u # 0 /\ WithTemp = {t, u} /\ Working
      /\ (\A i : ~Nulled(i)) /\ Adjusting
  BY <1>0, <1>1, <1>3, AtPublish DEF Adjusting
<1>5. /\ RefIn(bg.ref) /\ t \in DOMAIN groups /\ u \in DOMAIN groups /\ n \in Nat
      /\ bg.slot \in DOMAIN roots[root] /\ bg.slot \in Nat
  BY <1>1, <1>2, <1>4, BgAt, ListFacts DEF GroupInv
<1>6. bg.new \in DOMAIN cont /\ groups[t].temp # 0
  BY <1>4 DEF GroupInv, Fresh, Owned, NewArrays
<1>7. /\ bg.old = t /\ bg.other = u /\ u = Target(bg.nref)
      /\ bg.nref = (IF groups[t].next # 0 THEN NextOf(t) ELSE Slot(bg.slot + 1))
      /\ groups[t].next = 0 => bg.slot < Len(roots[root])
  BY <1>0, <1>1, <1>3 DEF LastOld, Old, GroupInv, Named, Doing
<1>8. PICK x : /\ IsGroup(x, DOMAIN cont, DOMAIN groups) /\ x.data = bg.new
               /\ x.buffer = groups[t].temp /\ x.temp = 0 /\ x.next = groups[u].next
               /\ Assign(bg.ref, n, Append(groups, x))
  <2>1. PICK w, v : w = Old /\ v = Other
    OBVIOUS
  <2>2. /\ w = groups[t] /\ IsGroup(w, DOMAIN cont, DOMAIN groups)
        /\ v = groups[u] /\ IsGroup(v, DOMAIN cont, DOMAIN groups)
    BY <1>5, <1>7, <2>1 DEF Old, Other, GroupInv, IndexTyped, AllGroups
  <2>3. PICK m : m = IF w.model_n + v.model_n > MaxModelN THEN MaxModelN ELSE w.model_n + v.model_n
    OBVIOUS
  <2>4. m \in 1..MaxModelN
    BY <2>2, <2>3, GroupConstants DEF IsGroup
  <2>5. PICK x : x = [w EXCEPT !.data = bg.new, !.buffer = w.temp, !.temp = 0, !.frozen = FALSE,
                              !.next = v.next, !.model_n = m]
    OBVIOUS
  <2>6. /\ IsGroup(x, DOMAIN cont, DOMAIN groups) /\ x.data = bg.new
        /\ x.buffer = w.temp /\ x.temp = 0 /\ x.next = v.next
    BY <1>6, <2>2, <2>4, <2>5 DEF IsGroup
  <2>7. Assign(bg.ref, n, Append(groups, x))
    BY <1>2, <2>1, <2>3, <2>5 DEF PublishMerge
  <2>8. QED
    BY <2>2, <2>6, <2>7
<1>9. /\ AllRoots(roots', DOMAIN groups') /\ AllGroups(groups', DOMAIN cont)
      /\ DOMAIN groups' = DOMAIN groups \union {n} /\ n \notin DOMAIN groups /\ n # 0
      /\ Pointed(bg.ref, n) /\ Kept /\ Made(n, x)
  <2>1. IndexTyped /\ DOMAIN cont \subseteq DOMAIN cont
    BY DEF GroupInv
  <2>2. QED
    BY <1>2, <1>5, <1>8, <2>1, AssignOne
<1>10. bg' = [bg EXCEPT !.pc = "publishnext", !.next = n]
  BY <1>2 DEF PublishMerge
<1>11. /\ bg' \in BgRecord /\ bg'.pc = "publishnext" /\ bg'.act = bg.act /\ bg'.next = n
       /\ bg'.ref = bg.ref /\ bg'.nref = bg.nref /\ bg'.slot = bg.slot /\ bg'.new = bg.new
       /\ bg'.old = bg.old /\ bg'.other = bg.other
  BY <1>0, <1>5, <1>10, BgFields DEF GroupInv, BgRecord, BgPcs
<1>12. IndexTyped'
  BY <1>0, <1>9 DEF GroupInv, IndexTyped, Pointed, Cells
<1>13. \A i : (Nulled(i)' <=> bg.nref = Slot(i))
  BY <1>0, <1>11 DEF Nulled, Doing
<1>14. Publishes(t, u, n, n)
  <2>1. /\ groups'[n].data = bg.new /\ groups'[n].buffer = groups[t].temp /\ groups'[n].temp = 0
    BY <1>8, <1>9 DEF Made
  <2>2. DOMAIN groups' = DOMAIN groups \union {n, n}
    BY <1>9
  <2>3. bwait' \subseteq Procs
    BY <1>0 DEF GroupInv, BgTyped
  <2>4. QED
    BY <1>0, <1>1, <1>3, <1>9, <1>11, <2>1, <2>2, <2>3 DEF Publishes
<1>15. /\ n \in DOMAIN groups' \ DOMAIN groups /\ DOMAIN groups \subseteq DOMAIN groups'
       /\ groups'[n].next = groups[u].next
  BY <1>8, <1>9 DEF Made
<1>16. /\ Reach' = (Reach \ {t, u}) \union {n, n} /\ LinkedOnce(Heads, Nexts)'
       /\ RefOK(bg.ref)' /\ Target(bg.ref)' = n
       /\ bg.ref.in = "next" => bg.ref.i \notin {t, u}
  <2>1. CASE groups[t].next # 0
    <3>1. bg.nref = NextOf(t) /\ u = groups[t].next
      BY <1>7, <2>1, SlotFacts DEF Target
    <3>2. \A i : ~Nulled(i)'
      BY <1>13, <3>1, SlotFacts
    <3>3. u = t \/ (u = groups[t].next /\ u # 0)
      BY <1>4, <3>1
    <3>4. QED
      BY <1>0, <1>1, <1>4, <1>9, <1>11, <1>12, <1>15, <3>2, <3>3, Spliced
  <2>2. CASE groups[t].next = 0
    <3>1. PICK s : s = bg.slot + 1
      OBVIOUS
    <3>2. bg.nref = Slot(s) /\ s \in DOMAIN roots[root] /\ s # bg.slot
      BY <1>5, <1>7, <2>2, <3>1, ListFacts DEF GroupInv
    <3>3. u = roots[root][s].group
      BY <1>7, <3>2, SlotFacts DEF Target
    <3>4. \A i : (Nulled(i)' <=> i = s)
      <4>1. \A i : Slot(i).i = i
        BY SlotFacts
      <4>2. QED
        BY <1>13, <3>2, <4>1
    <3>5. /\ Reach' = (Reach \ {t, u}) \union {n} /\ LinkedOnce(Heads, Nexts)'
          /\ RefOK(bg.ref)' /\ Target(bg.ref)' = n
          /\ bg.ref.in = "next" => bg.ref.i \notin {t, u}
      BY <1>0, <1>1, <1>4, <1>9, <1>11, <1>12, <1>15, <2>2, <3>2, <3>3, <3>4, Joined
    <3>6. QED
      BY <3>5
  <2>3. QED
    BY <2>1, <2>2
<1>17. Named'
  <2>1. bg.nref = NextOf(bg.old) \/ (bg.nref = Slot(bg.slot + 1) /\ bg.slot < Len(roots[root]))
    BY <1>7
  <2>2. bg.nref.in = "slot" => roots'[root][bg.nref.i].group = bg.other
    <3>1. SUFFICES ASSUME bg.nref.in = "slot"
                   PROVE  roots'[root][bg.nref.i].group = bg.other
      OBVIOUS
    <3>2. PICK s : s = bg.slot + 1
      OBVIOUS
    <3>3. bg.nref = Slot(s) /\ bg.slot < Len(roots[root])
      BY <2>1, <3>1, <3>2, SlotFacts
    <3>4. bg.nref.i = s /\ u = roots[root][s].group
      BY <1>7, <3>3, SlotFacts DEF Target
    <3>5. s \in DOMAIN roots[root] /\ s # bg.slot
      BY <1>5, <3>2, <3>3, ListFacts DEF GroupInv
    <3>6. bg.ref.in = "slot" => bg.ref.i = bg.slot
      <4>1. RefOK(bg.ref)
        BY <1>4, BgAt
      <4>2. QED
        BY <4>1 DEF RefOK
    <3>7. roots'[root][s].group = roots[root][s].group
      BY <1>9, <3>5, <3>6 DEF Pointed, GroupInv, IndexTyped
    <3>8. QED
      BY <1>7, <3>4, <3>7
  <2>3. Len(roots'[root]) = Len(roots[root])
    BY <1>9 DEF Pointed, GroupInv, IndexTyped
  <2>4. QED
    BY <1>0, <1>11, <1>16, <2>1, <2>2, <2>3 DEF Named, Doing, Replaced
<1>18. QED
  BY <1>12, <1>14, <1>16, <1>17, PublishStep

-----------------------------------------------------------------------------
(* *next_group = new_group and *next_group = nullptr of a merge.            *)

RelinkGoal ==
  /\ bg'.act = bg.act /\ bg'.slot = bg.slot /\ bg'.ref = bg.ref /\ bg'.nref = bg.nref
  /\ bg'.old = bg.old /\ bg'.other = bg.other /\ bg'.next = bg.next /\ bg'.new = bg.new
  /\ \/ bg.pc = "publishnext" /\ bg'.pc = "published" /\ bwait' = Procs
     \/ /\ bg.pc = "published" /\ bg'.pc = "phase2" /\ bwait = {} /\ bwait' = {}
        /\ bg'.k \in Keys /\ \A j \in Keys : bg'.k <= j

LEMMA RelinkStep ==
  ASSUME GroupInv, RelinkGoal, UNCHANGED <<root, cont, freed, Workers>>, bg' \in BgRecord,
         Kept, DOMAIN roots' = DOMAIN roots, Len(roots') = Len(roots),
         \A r \in DOMAIN roots : DOMAIN roots'[r] = DOMAIN roots[r] /\ Len(roots'[r]) = Len(roots[r]),
         \A r \in DOMAIN roots : roots[r] # <<>> => roots'[r][1].group = roots[r][1].group,
         DOMAIN groups' = DOMAIN groups,
         \A d \in DOMAIN groups : groups'[d].next \in {groups[d].next, 0, bg.next},
         bg.act = "split" => UNCHANGED groups,
         Reach' = Reach, LinkedOnce(Heads, Nexts)', RefOK(bg.ref)',
         Target(bg.ref)' = Target(bg.ref), IndexTyped', Named'
  PROVE  GroupInv'
<1>0. UNCHANGED <<pc, rt, sl, gr, op, seen, res, scan, count>>
  BY DEF Workers, locals, opvars
<1>1. /\ bg.pc \in {"publishnext", "published"} /\ bg'.pc \in {"published", "phase2"}
      /\ Adjusting /\ (Adjusting)' /\ Working /\ Working' /\ ~Rooting /\ ~Rooting'
      /\ bg.act # "none" /\ bg'.act = bg.act
  BY DEF RelinkGoal, Adjusting, Working, Rooting, GroupInv, Standing
<1>2. Doomed' = Doomed
  <2>1. CASE bg.act = "split"
    <3>1. Other' = Other
      BY <2>1 DEF RelinkGoal, Other
    <3>2. QED
      BY <2>1, <3>1 DEF RelinkGoal, Doomed, Doing, Replaced, GroupInv, Standing
  <2>2. CASE bg.act # "split"
    BY <2>2 DEF RelinkGoal, Doomed, Doing, Replaced, GroupInv, Standing
  <2>3. QED
    BY <2>1, <2>2
<1>3. Halves = {} /\ Halves' = {} /\ WithTemp = {} /\ WithTemp' = {} /\ NewArrays' = NewArrays
  <2>1. Halves = {} /\ Halves' = {}
    BY <1>1 DEF Halves, Doing
  <2>2. WithTemp = {} /\ WithTemp' = {}
    BY <1>1, <2>1 DEF WithTemp
  <2>3. QED
    BY <2>1, <2>2 DEF NewArrays, RelinkGoal
<1>4. Merging \subseteq DOMAIN groups /\ Reach \subseteq DOMAIN groups /\ Doomed \subseteq DOMAIN groups
      /\ bg.next \in Reach
  <2>1. bg.next = Target(bg.ref)
    BY <1>1 DEF GroupInv, Named, Replaced
  <2>2. Target(bg.ref) \in Reach
    BY <1>1, BgAt
  <2>3. QED
    BY <1>1, <2>1, <2>2, WorkingGroups, ListFacts DEF GroupInv, Unlinked
<1>5. \A g \in DOMAIN groups : ContsOf(g)' = ContsOf(g) /\ groups'[g].temp = groups[g].temp
  BY DEF Kept, ContsOf
<1>6. Sources' = Sources
  <2>1. Merging' = Merging
    BY DEF Merging, RelinkGoal
  <2>2. Sources = UNION {ContsOf(g) : g \in Merging} /\ Sources' = UNION {ContsOf(g)' : g \in Merging}
    BY <2>1 DEF Sources, ContsOf
  <2>3. QED
    BY <1>4, <1>5, <2>2
<1>7. \A k : NewArray(k)' = NewArray(k)
  <2>1. bg.act = "split" => groups' = groups /\ Other' = Other
    BY DEF RelinkGoal, Other
  <2>2. QED
    BY <1>1, <2>1 DEF NewArray, RelinkGoal
<1>8. BgTyped'
  BY DEF GroupInv, BgTyped, RelinkGoal
<1>9. Standing'
  <2>1. bg'.slot \in DOMAIN roots'[root]
    BY <1>1, BgAt DEF RelinkGoal, GroupInv, IndexTyped
  <2>2. bg'.ref = bg.ref /\ Target(bg.ref) # 0
    BY <1>1, BgAt DEF RelinkGoal
  <2>3. QED
    BY <1>1, <2>1, <2>2 DEF Standing, Adjusting
<1>10. Unlinked'
  <2>1. \A d \in Doomed : groups'[d].next \in Reach \union Doomed \union {0}
    BY <1>4 DEF GroupInv, Unlinked
  <2>2. QED
    BY <1>2, <2>1 DEF GroupInv, Unlinked
<1>11. Linked'
  BY DEF Linked
<1>12. \A r \in DOMAIN roots : roots'[r] = <<>> <=> roots[r] = <<>>
  <2>1. ASSUME NEW r \in DOMAIN roots PROVE roots'[r] = <<>> <=> roots[r] = <<>>
    <3>1. IsSeq(roots[r]) /\ IsSeq(roots'[r])
      BY DEF GroupInv, IndexTyped, AllRoots, IsRootArray
    <3>2. /\ roots[r] = <<>> <=> Len(roots[r]) = 0
          /\ roots'[r] = <<>> <=> Len(roots'[r]) = 0
      BY <3>1, SeqShape
    <3>3. QED
      BY <3>2
  <2>2. QED
    BY <2>1
<1>13. FirstSlot'
  BY <1>12 DEF GroupInv, FirstSlot
<1>14. Flattening'
  BY <1>1 DEF Flattening
<1>15. NewRoot'
  <2>1. root \in DOMAIN roots
    BY DEF GroupInv, IndexTyped
  <2>2. QED
    BY <1>1, <1>12, <2>1 DEF GroupInv, NewRoot
<1>16. Owned'
  <2>1. \A g, h \in Reach : g # h => ContsOf(g)' \intersect ContsOf(h)' = {}
    BY <1>3, <1>4, <1>5 DEF GroupInv, Owned
  <2>2. \A g \in Reach : groups'[g].temp = 0
    BY <1>3, <1>4, <1>5 DEF GroupInv, Owned
  <2>3. \A g \in Reach \union Doomed : (ContsOf(g)' \union {groups'[g].temp}) \intersect freed.conts = {}
    BY <1>4, <1>5 DEF GroupInv, Owned
  <2>4. \A g \in Reach : ContsOf(g)' \intersect Sources = {}
    BY <1>1, <1>4, <1>5 DEF GroupInv, Owned, Replaced
  <2>5. QED
    BY <1>2, <1>3, <1>6, <2>1, <2>2, <2>3, <2>4 DEF Owned
<1>17. Fresh'
  BY <1>1, <1>3, <1>6 DEF GroupInv, Fresh, RelinkGoal
<1>18. Pointers'
  <2>1. bg'.pc = "phase2" => \A j \in Keys : j >= bg'.k
    <3>1. bg'.k \in Nat
      BY DEF BgRecord
    <3>2. QED
      BY <1>1, <3>1, KeysShape DEF RelinkGoal
  <2>2. QED
    BY <1>1, <1>6, <1>7, <2>1 DEF GroupInv, Pointers
<1>19. WorkersTyped'
  BY <1>0 DEF GroupInv, WorkersTyped, Typed, Scans
<1>20. Doings'
  <2>1. \A p \in Procs : pc[p] \notin {"idle", "slot"} => gr[p] \in DOMAIN groups
    BY DEF GroupInv, Places, PlaceOf
  <2>2. \A p \in Procs : pc[p] \notin {"idle", "slot"} => G(p).temp' = G(p).temp
    BY <1>0, <1>5, <2>1 DEF G
  <2>3. QED
    BY <1>0, <2>2 DEF GroupInv, Doings, DoingOf
<1>21. Places'
  <2>1. root \in DOMAIN roots
    BY DEF GroupInv, IndexTyped
  <2>2. ASSUME NEW p \in Procs PROVE PlaceOf(p)'
    <3>1. PlaceOf(p)
      BY DEF GroupInv, Places
    <3>2. QED
      BY <1>0, <1>1, <2>1, <3>1 DEF PlaceOf
  <2>3. QED
    BY <2>2 DEF Places
<1>22. Grace'
  <2>1. ASSUME NEW p \in Procs PROVE GraceOf(p)'
    <3>1. GraceOf(p)
      BY DEF GroupInv, Grace
    <3>2. QED
      BY <1>0, <1>2, <3>1 DEF GraceOf, HoldsGroup, RelinkGoal
  <2>2. QED
    BY <2>1 DEF Grace
<1>23. QED
  BY <1>8, <1>9, <1>10, <1>11, <1>13, <1>14, <1>15, <1>16, <1>17, <1>18, <1>19, <1>20, <1>21, <1>22
     DEF GroupInv

\* Neither step changes what is reached: the slot counts as empty already, and
\* the group whose next field changes has been replaced.
LEMMA RelinkLists ==
  ASSUME GroupInv, RelinkGoal, bg.act = "merge", root' = root, IndexTyped',
         DOMAIN groups' = DOMAIN groups, NEW g, Pointed(bg.nref, g), bg'.pc = "published" \/ g = 0
  PROVE  /\ Reach' = Reach /\ LinkedOnce(Heads, Nexts)' /\ RefOK(bg.ref)'
         /\ Target(bg.ref)' = Target(bg.ref)
         /\ \A r \in DOMAIN roots : roots[r] # <<>> => roots'[r][1].group = roots[r][1].group
         /\ bg.nref.in = "slot" => bg.nref.i = bg.slot + 1 /\ bg.nref.i \in DOMAIN roots[root]
         /\ bg.nref.in = "next" => bg.nref.i = bg.old /\ bg.old \in DOMAIN groups
         /\ bg.nref.in \in {"slot", "next"}
<1>1. /\ bg.pc \in {"publishnext", "published"} /\ Adjusting /\ Working
  BY DEF RelinkGoal, Adjusting, Working
<1>2. PICK q, s, r : q = bg.slot /\ s = bg.slot + 1 /\ r = bg.ref.i
  OBVIOUS
<1>3. /\ q \in DOMAIN roots[root] /\ RefOK(bg.ref) /\ RefIn(bg.ref) /\ ~Nulled(q)
      /\ q \in Nat /\ q >= 1 /\ s # q /\ s # 1
  BY <1>1, <1>2, BgAt
<1>4. bg.old \in Doomed /\ bg.old \in DOMAIN groups /\ bg.old \notin Reach
  <2>1. bg.old \in Doomed
    BY <1>1 DEF Doomed, Doing, Replaced
  <2>2. QED
    BY <2>1 DEF GroupInv, Unlinked
<1>5. \/ bg.nref = NextOf(bg.old)
      \/ bg.nref = Slot(s) /\ s \in DOMAIN roots[root]
  <2>1. \/ bg.nref = NextOf(bg.old)
        \/ bg.nref = Slot(s) /\ bg.slot < Len(roots[root])
    BY <1>1, <1>2 DEF GroupInv, Named, Doing
  <2>2. QED
    BY <1>2, <1>3, <2>1, ListFacts DEF GroupInv
<1>6. /\ bg.nref.in = "slot" => bg.nref.i = s /\ s \in DOMAIN roots[root]
      /\ bg.nref.in = "next" => bg.nref.i = bg.old
      /\ bg.nref.in \in {"slot", "next"}
  BY <1>5, SlotFacts
<1>7. \A i \in DOMAIN roots[root] :
        roots'[root][i].group = IF bg.nref.in = "slot" /\ i = s THEN g ELSE roots[root][i].group
  BY <1>6 DEF Pointed, GroupInv, IndexTyped
<1>8. \A h \in DOMAIN groups : groups'[h].next = IF bg.nref.in = "next" /\ h = bg.old THEN g ELSE groups[h].next
  BY <1>6 DEF Pointed
<1>9. \A i : (Nulled(i) <=> bg.nref.in = "slot" /\ i = s)
  <2>1. \A i : (Nulled(i) <=> bg.nref = Slot(i))
    BY <1>1 DEF Nulled, Doing
  <2>2. \A i : Slot(i).i = i /\ Slot(i).in = "slot"
    BY SlotFacts
  <2>3. \A i : (bg.nref = Slot(i) <=> bg.nref.in = "slot" /\ i = s)
    BY <1>5, <1>6, <2>2, SlotFacts
  <2>4. QED
    BY <2>1, <2>3
<1>10. \A i : (Nulled(i)' => Nulled(i)) /\ (bg'.pc = "published" => (Nulled(i)' <=> Nulled(i)))
  BY <1>1 DEF Nulled, Doing, RelinkGoal
<1>11. bg'.pc # "published" => \A i : ~Nulled(i)'
  BY DEF Nulled, Doing, RelinkGoal
<1>12. PICK hd, nx, nx2 : hd = Heads /\ nx = Nexts /\ nx2 = Nexts'
  OBVIOUS
<1>13. DOMAIN roots'[root] = DOMAIN roots[root]
  BY DEF Pointed, GroupInv, IndexTyped
<1>14. Heads' = hd
  <2>1. ASSUME NEW i \in DOMAIN roots[root] PROVE Heads'[i] = Heads[i]
    <3>1. Heads[i] = IF bg.nref.in = "slot" /\ i = s THEN 0 ELSE roots[root][i].group
      BY <1>9 DEF Heads
    <3>2. Heads'[i] = IF Nulled(i)' THEN 0 ELSE roots'[root][i].group
      BY <1>13 DEF Heads
    <3>3. Heads'[i] = IF bg.nref.in = "slot" /\ i = s THEN 0 ELSE roots'[root][i].group
      <4>1. CASE bg'.pc = "published"
        BY <1>9, <1>10, <3>2, <4>1
      <4>2. CASE bg'.pc # "published"
        <5>1. g = 0 /\ ~Nulled(i)'
          BY <1>11, <4>2
        <5>2. QED
          BY <1>7, <3>2, <5>1
      <4>3. QED
        BY <4>1, <4>2
    <3>4. QED
      BY <1>7, <3>1, <3>3
  <2>2. Heads = [i \in DOMAIN roots[root] |-> Heads[i]] /\ Heads' = [i \in DOMAIN roots[root] |-> Heads'[i]]
    BY <1>13 DEF Heads
  <2>3. QED
    BY <1>12, <2>1, <2>2
<1>15. /\ Linking(hd, nx) /\ LinkedOnce(hd, nx) /\ Reach = ReachOf(hd, nx) /\ DOMAIN hd = DOMAIN roots[root]
       /\ DOMAIN nx = DOMAIN groups
  BY <1>1, <1>12, ListFacts DEF GroupInv, Linked, Adjusting, Rooting, Reach
<1>16. Linking(hd, nx2) /\ DOMAIN nx2 = DOMAIN groups
  <2>1. (IndexTyped => Linking(Heads, Nexts) /\ DOMAIN Nexts = DOMAIN groups)'
    BY ListFacts, PTL
  <2>2. QED
    BY <1>12, <1>14, <2>1
<1>17. \A h \in Reach : nx2[h] = nx[h]
  <2>1. Reach \subseteq DOMAIN groups
    BY ListFacts DEF GroupInv
  <2>2. \A h \in DOMAIN groups : nx[h] = groups[h].next /\ nx2[h] = groups'[h].next
    BY <1>12, <1>16 DEF Nexts
  <2>3. QED
    BY <1>4, <1>8, <2>1, <2>2
<1>18. ReachOf(hd, nx2) = ReachOf(hd, nx) /\ LinkedOnce(hd, nx2)
  BY <1>15, <1>16, <1>17, SameReach
<1>19. Reach' = Reach /\ LinkedOnce(Heads, Nexts)'
  BY <1>12, <1>14, <1>15, <1>18 DEF Reach
<1>20. bg.ref.in = "slot" => r = q
  BY <1>2, <1>3 DEF RefOK
<1>21. bg.ref.in # "slot" => bg.ref.in = "next" /\ r \in ChainOf(hd, nx, q) /\ r \in Reach /\ r \in DOMAIN groups
  BY <1>2, <1>3, <1>12, <1>15, ListFacts, RefFacts DEF RefOK, GroupInv
<1>22. RefOK(bg.ref)'
  <2>1. CASE bg.ref.in = "slot"
    BY <1>2, <1>20, <2>1 DEF RefOK, RelinkGoal
  <2>2. CASE bg.ref.in # "slot"
    <3>1. ChainOf(hd, nx, q) \subseteq Reach
      BY <1>3, <1>15, ChainClosed
    <3>2. \A h \in ChainOf(hd, nx, q) \ {r} : nx2[h] = nx[h]
      BY <1>17, <3>1
    <3>3. r \in ChainOf(hd, nx2, q)
      BY <1>3, <1>15, <1>16, <1>21, <2>2, <3>2, ChainKeeps
    <3>4. bg'.slot = q /\ bg'.ref = bg.ref
      BY <1>2 DEF RelinkGoal
    <3>5. QED
      BY <1>2, <1>12, <1>14, <1>21, <2>2, <3>3, <3>4 DEF RefOK
  <2>3. QED
    BY <2>1, <2>2
<1>23. Target(bg.ref)' = Target(bg.ref)
  <2>1. bg'.ref = bg.ref
    BY DEF RelinkGoal
  <2>2. CASE bg.ref.in = "slot"
    <3>1. roots'[root][r].group = roots[root][r].group
      BY <1>3, <1>7, <1>20, <2>2
    <3>2. QED
      BY <1>2, <2>1, <2>2, <3>1 DEF Target
  <2>3. CASE bg.ref.in # "slot"
    <3>1. groups'[r].next = groups[r].next
      BY <1>4, <1>8, <1>21, <2>3
    <3>2. QED
      BY <1>2, <2>1, <2>3, <3>1 DEF Target
  <2>4. QED
    BY <2>2, <2>3
<1>24. \A a \in DOMAIN roots : roots[a] # <<>> => roots'[a][1].group = roots[a][1].group
  <2>1. ASSUME NEW a \in DOMAIN roots, roots[a] # <<>> PROVE roots'[a][1].group = roots[a][1].group
    <3>1. IsSeq(roots[a])
      BY DEF GroupInv, IndexTyped, AllRoots, IsRootArray
    <3>2. Len(roots[a]) \in Nat /\ DOMAIN roots[a] = 1..Len(roots[a]) /\ Len(roots[a]) # 0
      BY <2>1, <3>1, SeqShape
    <3>3. 1 \in DOMAIN roots[a]
      BY <3>2
    <3>4. QED
      BY <1>3, <1>6, <3>3 DEF Pointed
  <2>2. QED
    BY <2>1
<1>25. QED
  BY <1>2, <1>4, <1>6, <1>19, <1>22, <1>23, <1>24

LEMMA PublishNextStep ==
  ASSUME GroupInv, PublishNext
  PROVE  GroupInv'
<1>0. /\ bg.pc = "publishnext" /\ UNCHANGED <<root, cont, freed, Workers>> /\ bwait' = Procs
      /\ Assign(bg.nref, bg.next, groups) /\ bg' = [bg EXCEPT !.pc = "published"]
  BY DEF PublishNext, At, Barrier
<1>1. bg.act = "merge" /\ Adjusting
  BY <1>0 DEF GroupInv, Standing, Adjusting
<1>2. /\ bg' \in BgRecord /\ bg'.pc = "published" /\ bg'.next = bg.next /\ RelinkGoal
      /\ bg'.nref = bg.nref /\ bg'.old = bg.old /\ bg'.slot = bg.slot /\ bg'.act = bg.act
      /\ bg'.ref = bg.ref
  BY <1>0, BgFields DEF GroupInv, BgRecord, BgPcs, RelinkGoal
<1>3. bg.next = Target(bg.ref) /\ bg.next \in DOMAIN groups
  BY <1>0, <1>1, BgAt DEF GroupInv, Named
<1>4. /\ bg.nref = NextOf(bg.old) \/ (bg.nref = Slot(bg.slot + 1) /\ bg.slot < Len(roots[root]))
      /\ bg.old \in DOMAIN groups /\ bg.slot \in Nat
  <2>1. bg.old \in Doomed
    BY <1>0, <1>1 DEF Doomed, Doing, Replaced
  <2>2. QED
    BY <1>0, <1>1, <2>1, BgAt DEF GroupInv, Named, Doing, Unlinked
<1>5. RefIn(bg.nref)
  <2>1. PICK s : s = bg.slot + 1
    OBVIOUS
  <2>2. CASE bg.nref = NextOf(bg.old)
    BY <1>4, <2>2, SlotFacts DEF RefIn
  <2>3. CASE bg.nref = Slot(s) /\ bg.slot < Len(roots[root])
    <3>1. s \in DOMAIN roots[root]
      BY <1>4, <2>1, <2>3, ListFacts DEF GroupInv
    <3>2. QED
      BY <2>3, <3>1, SlotFacts DEF RefIn
  <2>4. QED
    BY <1>4, <2>1, <2>2, <2>3
<1>6. /\ AllRoots(roots', DOMAIN groups) /\ AllGroups(groups', DOMAIN cont)
      /\ DOMAIN groups' = DOMAIN groups /\ Pointed(bg.nref, bg.next) /\ Kept
  <2>1. PICK ref, g : ref = bg.nref /\ g = bg.next
    OBVIOUS
  <2>2. IndexTyped /\ RefIn(ref) /\ g \in DOMAIN groups \union {0} /\ Assign(ref, g, groups)
    BY <1>0, <1>3, <1>5, <2>1 DEF GroupInv
  <2>3. QED
    BY <2>1, <2>2, AssignOld
<1>7. IndexTyped'
  BY <1>0, <1>6 DEF GroupInv, IndexTyped, Pointed, Cells
<1>8. /\ Reach' = Reach /\ LinkedOnce(Heads, Nexts)' /\ RefOK(bg.ref)'
      /\ Target(bg.ref)' = Target(bg.ref)
      /\ \A r \in DOMAIN roots : roots[r] # <<>> => roots'[r][1].group = roots[r][1].group
      /\ bg.nref.in = "slot" => bg.nref.i = bg.slot + 1 /\ bg.nref.i \in DOMAIN roots[root]
  <2>1. PICK g : g = bg.next
    OBVIOUS
  <2>2. Pointed(bg.nref, g) /\ root' = root /\ bg'.pc = "published"
    BY <1>0, <1>2, <1>6, <2>1
  <2>3. QED
    BY <1>1, <1>2, <1>6, <1>7, <2>2, RelinkLists
<1>9. Named'
  <2>1. bg.nref.in = "slot" => roots'[root][bg.nref.i].group = bg.next
    BY <1>6, <1>8 DEF Pointed, GroupInv, IndexTyped
  <2>2. Len(roots'[root]) = Len(roots[root])
    BY <1>6 DEF Pointed, GroupInv, IndexTyped
  <2>3. QED
    BY <1>0, <1>1, <1>2, <1>3, <1>4, <1>8, <2>1, <2>2 DEF Named, Doing, Replaced
<1>10. \A d \in DOMAIN groups : groups'[d].next \in {groups[d].next, 0, bg.next}
  BY <1>6 DEF Pointed
<1>11. /\ DOMAIN roots' = DOMAIN roots /\ Len(roots') = Len(roots)
       /\ \A r \in DOMAIN roots : DOMAIN roots'[r] = DOMAIN roots[r] /\ Len(roots'[r]) = Len(roots[r])
  BY <1>6 DEF Pointed
<1>12. QED
  BY <1>0, <1>1, <1>2, <1>6, <1>7, <1>8, <1>9, <1>10, <1>11, RelinkStep

LEMMA PublishedStep ==
  ASSUME GroupInv, Published
  PROVE  GroupInv'
<1>0. /\ bg.pc = "published" /\ UNCHANGED <<root, cont, freed, Workers>> /\ bwait = {} /\ bwait' = {}
      /\ bg' = [bg EXCEPT !.pc = "phase2", !.k = Least(Keys)]
      /\ bg.act = "merge" => Assign(bg.nref, 0, groups)
      /\ bg.act # "merge" => UNCHANGED <<roots, groups>>
  BY DEF Published, At, Passed
<1>1. Least(Keys) \in Keys /\ Least(Keys) \in Nat /\ \A j \in Keys : Least(Keys) <= j
  BY KeysShape, LeastIn
<1>2. /\ bg' \in BgRecord /\ bg'.pc = "phase2" /\ bg'.next = bg.next /\ RelinkGoal
      /\ bg'.nref = bg.nref /\ bg'.old = bg.old /\ bg'.slot = bg.slot /\ bg'.act = bg.act
      /\ bg'.ref = bg.ref /\ bg'.other = bg.other
  <2>1. PICK k : k = Least(Keys)
    OBVIOUS
  <2>2. bg' = [bg EXCEPT !.pc = "phase2", !.k = k]
    BY <1>0, <2>1
  <2>3. QED
    <3>1. /\ bg' \in BgRecord /\ bg'.pc = "phase2" /\ bg'.next = bg.next /\ bg'.k = k
          /\ bg'.nref = bg.nref /\ bg'.old = bg.old /\ bg'.slot = bg.slot /\ bg'.act = bg.act
          /\ bg'.ref = bg.ref /\ bg'.other = bg.other /\ bg'.new = bg.new
      BY <1>1, <2>1, <2>2, BgFields DEF GroupInv, BgRecord, BgPcs
    <3>2. RelinkGoal
      BY <1>0, <1>1, <2>1, <3>1 DEF RelinkGoal
    <3>3. QED
      BY <3>1, <3>2
<1>3. bg.next = Target(bg.ref) /\ Adjusting
  BY <1>0 DEF GroupInv, Named, Replaced, Adjusting
<1>4. CASE bg.act = "merge"
  <2>1. /\ bg.nref = NextOf(bg.old) \/ (bg.nref = Slot(bg.slot + 1) /\ bg.slot < Len(roots[root]))
        /\ bg.old \in DOMAIN groups /\ bg.slot \in Nat
    <3>1. bg.old \in Doomed
      BY <1>0, <1>4 DEF Doomed, Doing, Replaced
    <3>2. QED
      BY <1>0, <1>3, <1>4, <3>1, BgAt DEF GroupInv, Named, Doing, Unlinked
  <2>2. RefIn(bg.nref)
    <3>1. PICK s : s = bg.slot + 1
      OBVIOUS
    <3>2. CASE bg.nref = NextOf(bg.old)
      BY <2>1, <3>2, SlotFacts DEF RefIn
    <3>3. CASE bg.nref = Slot(s) /\ bg.slot < Len(roots[root])
      <4>1. s \in DOMAIN roots[root]
        BY <2>1, <3>1, <3>3, ListFacts DEF GroupInv
      <4>2. QED
        BY <3>3, <4>1, SlotFacts DEF RefIn
    <3>4. QED
      BY <2>1, <3>1, <3>2, <3>3
  <2>3. /\ AllRoots(roots', DOMAIN groups) /\ AllGroups(groups', DOMAIN cont)
        /\ DOMAIN groups' = DOMAIN groups /\ Pointed(bg.nref, 0) /\ Kept
    <3>1. PICK ref, g : ref = bg.nref /\ g = 0
      OBVIOUS
    <3>2. IndexTyped /\ RefIn(ref) /\ g \in DOMAIN groups \union {0} /\ Assign(ref, g, groups)
      BY <1>0, <1>4, <2>2, <3>1 DEF GroupInv
    <3>3. QED
      BY <3>1, <3>2, AssignOld
  <2>4. IndexTyped'
    BY <1>0, <2>3 DEF GroupInv, IndexTyped, Pointed, Cells
  <2>5. /\ Reach' = Reach /\ LinkedOnce(Heads, Nexts)' /\ RefOK(bg.ref)'
        /\ Target(bg.ref)' = Target(bg.ref)
        /\ \A r \in DOMAIN roots : roots[r] # <<>> => roots'[r][1].group = roots[r][1].group
    <3>1. PICK g : g = 0
      OBVIOUS
    <3>2. Pointed(bg.nref, g) /\ root' = root
      BY <1>0, <2>3, <3>1
    <3>3. QED
      BY <1>2, <1>4, <2>3, <2>4, <3>1, <3>2, RelinkLists
  <2>6. Named'
    BY <1>0, <1>2, <1>3, <1>4, <2>5 DEF Named, Doing, Replaced
  <2>7. \A d \in DOMAIN groups : groups'[d].next \in {groups[d].next, 0, bg.next}
    BY <2>3 DEF Pointed
  <2>8. /\ DOMAIN roots' = DOMAIN roots /\ Len(roots') = Len(roots)
        /\ \A r \in DOMAIN roots : DOMAIN roots'[r] = DOMAIN roots[r] /\ Len(roots'[r]) = Len(roots[r])
    BY <2>3 DEF Pointed
  <2>9. QED
    BY <1>0, <1>2, <1>4, <2>3, <2>4, <2>5, <2>6, <2>7, <2>8, RelinkStep
<1>5. CASE bg.act # "merge"
  <2>1. UNCHANGED <<roots, groups>>
    BY <1>0, <1>5
  <2>2. (\A i : ~Nulled(i)) /\ (\A i : ~Nulled(i)')
    BY <1>2, <1>5 DEF Nulled, Doing
  <2>3. Heads' = Heads /\ Nexts' = Nexts /\ Reach' = Reach
    BY <1>0, <2>1, <2>2 DEF Heads, Nexts, Reach
  <2>4. LinkedOnce(Heads, Nexts)' /\ RefOK(bg.ref)' /\ Target(bg.ref)' = Target(bg.ref)
    <3>1. LinkedOnce(Heads, Nexts)
      BY <1>0 DEF GroupInv, Linked, Rooting
    <3>2. RefOK(bg.ref)
      BY <1>3, BgAt
    <3>3. QED
      BY <1>0, <1>2, <2>1, <2>3, <3>1, <3>2 DEF RefOK, Target
  <2>5. IndexTyped' /\ Kept
    BY <1>0, <2>1 DEF GroupInv, IndexTyped, Cells, Kept
  <2>6. Named'
    BY <1>0, <1>2, <1>3, <1>5, <2>1, <2>4 DEF GroupInv, Named, Doing, Replaced
  <2>7. QED
    BY <1>0, <1>2, <2>1, <2>3, <2>4, <2>5, <2>6, RelinkStep
<1>6. QED
  BY <1>4, <1>5

-----------------------------------------------------------------------------
(* create_new_root, and trim_root after it.                                 *)

LEMMA RootStep ==
  ASSUME GroupInv, UNCHANGED <<cont, Workers>>, bg' \in BgRecord, bwait' \subseteq Procs,
         bg.pc \in {"visit", "flatten", "newroot", "trim"},
         bg'.pc \in {"flatten", "newroot", "trim", "round"}, bg.act = "none", bg'.act = "none",
         DOMAIN freed' = {"groups", "conts", "roots"}, freed'.groups = freed.groups,
         freed'.conts = freed.conts,
         DOMAIN groups' = DOMAIN groups, Kept, Reach' = Reach,
         IndexTyped', Standing', Linked', FirstSlot', Flattening', NewRoot', Places'
  PROVE  GroupInv'
<1>0. UNCHANGED <<pc, rt, sl, gr, op, seen, res, scan, count>>
  BY DEF Workers, locals, opvars
<1>1. /\ Doomed = {} /\ Doomed' = {} /\ ~Working /\ ~Working'
      /\ Halves = {} /\ Halves' = {} /\ WithTemp = {} /\ WithTemp' = {}
  <2>1. Doomed = {} /\ Doomed' = {}
    BY DEF Doomed, Doing, Replaced
  <2>2. ~Working /\ ~Working' /\ Halves = {} /\ Halves' = {}
    BY DEF Working, Halves, Doing
  <2>3. WithTemp = {} /\ WithTemp' = {}
    BY <2>2 DEF WithTemp
  <2>4. QED
    BY <2>1, <2>2, <2>3
<1>2. Reach \subseteq DOMAIN groups
  BY ListFacts DEF GroupInv
<1>3. \A g \in DOMAIN groups : ContsOf(g)' = ContsOf(g) /\ groups'[g].temp = groups[g].temp
  BY DEF Kept, ContsOf
<1>4. BgTyped'
  BY DEF GroupInv, BgTyped
<1>5. Named'
  BY DEF Named, Doing, Replaced
<1>6. Unlinked'
  BY <1>1 DEF GroupInv, Unlinked
<1>7. Owned'
  <2>1. bg'.pc \notin Replaced \union {"publishnext"}
    BY DEF Replaced
  <2>2. QED
    BY <1>1, <1>2, <1>3, <2>1 DEF GroupInv, Owned
<1>8. Fresh' /\ Pointers'
  BY <1>1 DEF GroupInv, Fresh, Pointers
<1>9. WorkersTyped'
  BY <1>0 DEF GroupInv, WorkersTyped, Typed, Scans
<1>10. Doings'
  <2>1. \A p \in Procs : pc[p] \notin {"idle", "slot"} => gr[p] \in DOMAIN groups
    BY DEF GroupInv, Places, PlaceOf
  <2>2. \A p \in Procs : pc[p] \notin {"idle", "slot"} => G(p).temp' = G(p).temp
    BY <1>0, <1>3, <2>1 DEF G
  <2>3. QED
    BY <1>0, <2>2 DEF GroupInv, Doings, DoingOf
<1>11. Grace'
  BY <1>0, <1>1 DEF GroupInv, Grace, GraceOf, HoldsGroup
<1>12. QED
  BY <1>4, <1>5, <1>6, <1>7, <1>8, <1>9, <1>10, <1>11 DEF GroupInv

\* While the new array is filled, workers go on in the old one.
LEMMA FlattenStep ==
  ASSUME GroupInv, UNCHANGED <<root, groups, cont, freed, bwait, Workers>>,
         bg.pc \in {"visit", "flatten"}, bg.act = "none", bg' \in BgRecord, bg'.pc = "flatten",
         bg'.act = "none", AllRoots(roots', DOMAIN groups),
         DOMAIN roots \subseteq DOMAIN roots', \A r \in DOMAIN roots \ {root + 1} : roots'[r] = roots[r],
         Standing', FirstSlot', Flattening'
  PROVE  GroupInv'
<1>0. UNCHANGED <<pc, rt, sl, gr, op, seen, res, scan, count>>
  BY DEF Workers, locals, opvars
<1>1. root \in DOMAIN roots /\ root # root + 1
  BY ListFacts DEF GroupInv, IndexTyped
<1>2. roots'[root] = roots[root]
  BY <1>1
<1>3. (\A i : ~Nulled(i)) /\ (\A i : ~Nulled(i)')
  BY DEF Nulled, Doing
<1>4. Heads' = Heads /\ Nexts' = Nexts /\ Reach' = Reach
  BY <1>2, <1>3 DEF Heads, Nexts, Reach
<1>5. IndexTyped'
  BY <1>1 DEF GroupInv, IndexTyped, Cells
<1>6. Linked'
  BY <1>4 DEF GroupInv, Linked, Rooting
<1>7. NewRoot'
  BY <1>2 DEF GroupInv, NewRoot, Rooting
<1>8. Places'
  <2>1. ASSUME NEW p \in Procs PROVE PlaceOf(p)'
    <3>1. PlaceOf(p)
      BY DEF GroupInv, Places
    <3>2. QED
      BY <1>0, <1>1, <1>2, <3>1 DEF PlaceOf
  <2>2. QED
    BY <2>1 DEF Places
<1>9. Kept /\ bwait' \subseteq Procs /\ DOMAIN freed' = {"groups", "conts", "roots"}
  BY DEF Kept, GroupInv, BgTyped
<1>10. QED
  BY <1>4, <1>5, <1>6, <1>7, <1>8, <1>9, RootStep

LEMMA BeginNewRootStep ==
  ASSUME GroupInv, BeginNewRoot
  PROVE  GroupInv'
<1>0. /\ bg.pc = "visit" /\ UNCHANGED <<root, groups, cont, freed, bwait, Workers>>
      /\ roots' = Append(roots, <<>>) /\ bg' = [bg EXCEPT !.pc = "flatten", !.slot = 1, !.ref = Slot(1)]
  BY DEF BeginNewRoot, EndOfSlots, At
<1>1. bg.act = "none" /\ root = Len(roots) /\ IsSeq(roots) /\ root \in DOMAIN roots
  BY <1>0, QuietFacts DEF Quiet, GroupInv, NewRoot, IndexTyped, AllRoots
<1>2. /\ IsSeq(roots') /\ Len(roots) \in Nat /\ DOMAIN roots = 1..Len(roots)
      /\ Len(roots') = Len(roots) + 1 /\ DOMAIN roots' = 1..(Len(roots) + 1)
      /\ \A r \in DOMAIN roots : roots'[r] = roots[r]
      /\ roots'[Len(roots) + 1] = <<>>
  <2>1. PICK e : e = <<>>
    OBVIOUS
  <2>2. roots' = Append(roots, e)
    BY <1>0, <2>1
  <2>3. QED
    BY <1>1, <2>1, <2>2, SeqAppend
<1>3. IsSeq(<<>>) /\ DOMAIN <<>> = {} /\ Len(<<>>) = 0
  BY DEF IsSeq
<1>4. IsRootArray(<<>>, DOMAIN groups)
  BY <1>3 DEF IsRootArray
<1>5. AllRoots(roots', DOMAIN groups)
  BY <1>1, <1>2, <1>4 DEF AllRoots, GroupInv, IndexTyped
<1>6. Slot(1).in = "slot" /\ Slot(1).i = 1 /\ Slot(1) \in Ref
  BY SlotFacts
<1>7. /\ bg' \in BgRecord /\ bg'.pc = "flatten" /\ bg'.slot = 1 /\ bg'.ref = Slot(1) /\ bg'.act = "none"
  BY <1>0, <1>1, <1>6, BgFields DEF GroupInv, BgRecord, BgPcs
<1>8. Standing'
  <2>1. 1 \in DOMAIN roots[root]
    BY <1>0, BgAt, ListFacts DEF GroupInv
  <2>2. roots'[root] = roots[root]
    BY <1>1, <1>2
  <2>3. QED
    BY <1>0, <1>6, <1>7, <2>1, <2>2 DEF Standing, Adjusting, RefOK
<1>9. FirstSlot'
  BY <1>2 DEF GroupInv, FirstSlot
<1>10. Flattening'
  <2>1. roots'[root + 1] = <<>> /\ root + 1 = Len(roots')
    BY <1>1, <1>2
  <2>2. InOrder(root + 1, 1)'
    BY <1>0, <1>3, <2>1 DEF InOrder
  <2>3. \A j \in DOMAIN roots'[root] : ~(j < 1)
    <3>1. DOMAIN roots'[root] = 1..Len(roots[root]) /\ Len(roots[root]) \in Nat
      BY <1>1, <1>2, ListFacts DEF GroupInv
    <3>2. QED
      BY <3>1
  <2>4. LastCopied(<<>>)'
    BY <1>6, <1>7 DEF LastCopied
  <2>5. AllCopied(<<>>)'
    BY <1>0, <1>6, <1>7, <2>3 DEF AllCopied, Copied
  <2>6. OnlyCopied(<<>>)'
    BY <1>3 DEF OnlyCopied
  <2>7. QED
    BY <1>0, <2>1, <2>2, <2>4, <2>5, <2>6 DEF Flattening
<1>11. QED
  BY <1>0, <1>1, <1>2, <1>5, <1>7, <1>8, <1>9, <1>10, FlattenStep

\* Where create_new_root stands, in the lists that are reached.
LEMMA FlattenFacts ==
  ASSUME GroupInv, bg.pc = "flatten", NEW a, a = roots[root + 1]
  PROVE  /\ bg.act = "none" /\ root + 1 = Len(roots) /\ root + 1 \in DOMAIN roots
         /\ IsSeq(a) /\ IsRootArray(a, DOMAIN groups) /\ Len(a) \in Nat /\ DOMAIN a = 1..Len(a)
         /\ a = <<>> <=> Len(a) = 0
         /\ \A i \in DOMAIN a : a[i].group \in Reach
         /\ Target(bg.ref) = 0 =>
              /\ bg.ref.in = "next" => groups[a[Len(a)].group].next = 0
              /\ a # <<>> => groups[a[Len(a)].group].next = 0
              /\ a # <<>>
              /\ bg.ref.in = "slot" => roots[root][bg.slot].group = 0
         /\ (\A i : ~Nulled(i)) /\ LinkedOnce(Heads, Nexts)
         /\ \A i \in DOMAIN roots[root] : Heads[i] = roots[root][i].group
         /\ \A g \in DOMAIN groups : Nexts[g] = groups[g].next
<1>1. bg.act = "none" /\ \A i : ~Nulled(i)
  BY DEF GroupInv, Standing, Nulled, Doing
<1>2. root + 1 = Len(roots) /\ root + 1 \in DOMAIN roots
  <2>1. root + 1 = Len(roots) /\ root \in DOMAIN roots /\ DOMAIN roots = 1..Len(roots) /\ Len(roots) \in Nat
    BY ListFacts DEF GroupInv, Flattening, IndexTyped
  <2>2. QED
    BY <2>1
<1>3. IsSeq(a) /\ IsRootArray(a, DOMAIN groups)
  BY <1>2 DEF GroupInv, IndexTyped, AllRoots, IsRootArray
<1>4. /\ Len(a) \in Nat /\ DOMAIN a = 1..Len(a)
      /\ a = <<>> <=> Len(a) = 0
  BY <1>3, SeqShape
<1>5. LastCopied(a) /\ AllCopied(a) /\ OnlyCopied(a) /\ InOrder(root + 1, 1)
  BY DEF GroupInv, Flattening
<1>6. \A i \in DOMAIN a : a[i].group \in Reach
  BY <1>5 DEF InOrder
<1>7. RefOK(bg.ref) /\ bg.slot \in Nat /\ bg.slot >= 1
  BY BgAt
<1>8. ASSUME Target(bg.ref) = 0
      PROVE  /\ bg.ref.in = "next" => groups[a[Len(a)].group].next = 0
             /\ a # <<>> => groups[a[Len(a)].group].next = 0
             /\ a # <<>>
             /\ bg.ref.in = "slot" => roots[root][bg.slot].group = 0
  <2>1. CASE bg.ref.in = "slot"
    <3>1. bg.ref.i = bg.slot /\ roots[root][bg.slot].group = 0
      BY <1>7, <1>8, <2>1 DEF RefOK, Target
    <3>2. bg.slot # 1
      BY <3>1 DEF GroupInv, FirstSlot, NewRoot, IndexTyped
    <3>3. QED
      BY <1>5, <1>7, <2>1, <3>1, <3>2 DEF LastCopied
  <2>2. CASE bg.ref.in # "slot"
    BY <1>5, <1>7, <1>8, <2>2 DEF LastCopied, Target, RefOK
  <2>3. QED
    BY <2>1, <2>2
<1>9. LinkedOnce(Heads, Nexts)
  BY DEF GroupInv, Linked, Rooting
<1>10. \A i \in DOMAIN roots[root] : Heads[i] = roots[root][i].group
  BY <1>1 DEF Heads
<1>11. \A g \in DOMAIN groups : Nexts[g] = groups[g].next
  BY DEF Nexts
<1>12. QED
  BY <1>1, <1>2, <1>3, <1>4, <1>6, <1>8, <1>9, <1>10, <1>11

LEMMA CopyNextSlotStep ==
  ASSUME GroupInv, CopyNextSlot
  PROVE  GroupInv'
<1>0. /\ bg.pc = "flatten" /\ UNCHANGED <<index, freed, bwait, Workers>>
      /\ Target(bg.ref) = 0 /\ bg.slot < Len(roots[root])
      /\ bg' = [bg EXCEPT !.slot = @ + 1, !.ref = Slot(bg.slot + 1)]
  BY DEF CopyNextSlot, At
<1>1. UNCHANGED <<root, roots, groups, cont>>
  BY <1>0 DEF index
<1>2. PICK a : a = roots[root + 1]
  OBVIOUS
<1>3. PICK s : s = bg.slot + 1
  OBVIOUS
<1>4. /\ bg.act = "none" /\ a # <<>> /\ groups[a[Len(a)].group].next = 0
      /\ bg.ref.in = "slot" => roots[root][bg.slot].group = 0
  BY <1>0, <1>2, FlattenFacts
<1>5. bg.slot \in Nat /\ bg.slot >= 1 /\ s \in Nat /\ s \in DOMAIN roots[root] /\ RefOK(bg.ref)
  BY <1>0, <1>3, BgAt, ListFacts DEF GroupInv
<1>6. Slot(s).in = "slot" /\ Slot(s).i = s /\ Slot(s) \in Ref
  BY <1>5, SlotFacts
<1>7. bg' \in BgRecord /\ bg'.pc = "flatten" /\ bg'.slot = s /\ bg'.ref = Slot(s) /\ bg'.act = "none"
  <2>1. bg' = [bg EXCEPT !.slot = s, !.ref = Slot(s)]
    BY <1>0, <1>3
  <2>2. QED
    BY <1>0, <1>4, <1>5, <1>6, <2>1, BgFields DEF GroupInv, BgRecord, BgPcs
<1>8. Standing'
  BY <1>1, <1>5, <1>6, <1>7 DEF Standing, Adjusting, RefOK
<1>9. FirstSlot'
  BY <1>1 DEF GroupInv, FirstSlot
<1>10. Flattening'
  <2>1. root + 1 = Len(roots) /\ LastCopied(a) /\ AllCopied(a) /\ OnlyCopied(a) /\ InOrder(root + 1, 1)
    BY <1>0, <1>2 DEF GroupInv, Flattening
  <2>2. Reach' = Reach
    <3>1. (\A i : ~Nulled(i)) /\ (\A i : ~Nulled(i)')
      BY <1>4, <1>7 DEF Nulled, Doing
    <3>2. Heads' = Heads /\ Nexts' = Nexts
      BY <1>1, <3>1 DEF Heads, Nexts
    <3>3. QED
      BY <3>2 DEF Reach
  <2>3. InOrder(root + 1, 1)'
    BY <1>1, <2>1, <2>2 DEF InOrder
  <2>4. LastCopied(a)'
    BY <1>1, <1>4, <1>6, <1>7 DEF LastCopied
  <2>5. \A j \in DOMAIN roots[root] : /\ Copied(j) => Copied(j)'
                                      /\ Copied(j)' /\ roots[root][j].group # 0 => Copied(j)
    <3>1. DOMAIN roots[root] = 1..Len(roots[root]) /\ Len(roots[root]) \in Nat
      BY ListFacts DEF GroupInv
    <3>2. bg.ref.in \in {"slot", "next"}
      BY <1>5 DEF RefOK
    <3>3. QED
      BY <1>3, <1>4, <1>5, <1>6, <1>7, <3>1, <3>2 DEF Copied
  <2>6. AllCopied(a)'
    BY <1>1, <2>1, <2>5 DEF AllCopied
  <2>7. OnlyCopied(a)'
    BY <1>1, <2>1, <2>5 DEF OnlyCopied
  <2>8. QED
    BY <1>1, <1>2, <2>1, <2>3, <2>4, <2>6, <2>7 DEF Flattening
<1>11. AllRoots(roots', DOMAIN groups)
  BY <1>1 DEF GroupInv, IndexTyped
<1>12. QED
  BY <1>0, <1>1, <1>4, <1>7, <1>8, <1>9, <1>10, <1>11, FlattenStep

LEMMA CopyGroupStep ==
  ASSUME GroupInv, CopyGroup
  PROVE  GroupInv'
<1>0. /\ bg.pc = "flatten" /\ UNCHANGED <<root, groups, cont, freed, bwait, Workers>>
      /\ Target(bg.ref) # 0
      /\ roots' = [roots EXCEPT ![root + 1] =
                     Append(@, [pivot |-> Cur.pivot, group |-> Target(bg.ref)])]
      /\ bg' = [bg EXCEPT !.ref = NextOf(Target(bg.ref))]
  BY DEF CopyGroup, At
<1>1. PICK a, m, t : a = roots[root + 1] /\ m = root + 1 /\ t = Target(bg.ref)
  OBVIOUS
<1>2. PICK e : e = [pivot |-> Cur.pivot, group |-> t]
  OBVIOUS
<1>3. PICK b : b = Append(a, e)
  OBVIOUS
<1>4. /\ bg.act = "none" /\ m = Len(roots) /\ m \in DOMAIN roots /\ IsSeq(a)
      /\ IsRootArray(a, DOMAIN groups) /\ Len(a) \in Nat /\ DOMAIN a = 1..Len(a)
      /\ a = <<>> <=> Len(a) = 0
      /\ \A i \in DOMAIN a : a[i].group \in Reach
      /\ (\A i : ~Nulled(i)) /\ LinkedOnce(Heads, Nexts)
      /\ \A i \in DOMAIN roots[root] : Heads[i] = roots[root][i].group
      /\ \A g \in DOMAIN groups : Nexts[g] = groups[g].next
  BY <1>0, <1>1, FlattenFacts
<1>5. /\ t \in Reach /\ t # 0 /\ t \in DOMAIN groups /\ RefOK(bg.ref) /\ t \in Nat
      /\ bg.slot \in DOMAIN roots[root] /\ bg.slot \in Nat /\ bg.slot >= 1
  BY <1>0, <1>1, BgAt
<1>6. /\ IsSeq(b) /\ Len(b) = Len(a) + 1 /\ DOMAIN b = 1..(Len(a) + 1)
      /\ \A i \in DOMAIN a : b[i] = a[i]
      /\ b[Len(a) + 1] = e
  BY <1>3, <1>4, SeqAppend
<1>7. DOMAIN e = {"pivot", "group"} /\ e.group = t
  BY <1>2
<1>8. IsRootArray(b, DOMAIN groups)
  <2>1. \A i \in DOMAIN b : i \in DOMAIN a \/ i = Len(a) + 1
    BY <1>4, <1>6
  <2>2. QED
    BY <1>4, <1>5, <1>6, <1>7, <2>1 DEF IsRootArray
<1>9. roots' = [roots EXCEPT ![m] = b]
  BY <1>0, <1>1, <1>2, <1>3
<1>10. /\ IsSeq(roots') /\ Len(roots') = Len(roots) /\ DOMAIN roots' = DOMAIN roots
       /\ \A r \in DOMAIN roots : roots'[r] = IF r = m THEN b ELSE roots[r]
  <2>1. IsSeq(roots)
    BY DEF GroupInv, IndexTyped, AllRoots
  <2>2. \A r \in DOMAIN roots : roots'[r] = IF r = m THEN b ELSE roots[r]
    BY <1>9
  <2>3. roots' = [r \in DOMAIN roots |-> roots'[r]]
    BY <1>9
  <2>4. QED
    BY <2>1, <2>2, <2>3, SeqLike
<1>11. AllRoots(roots', DOMAIN groups)
  BY <1>8, <1>10 DEF AllRoots, GroupInv, IndexTyped
<1>12. NextOf(t).in = "next" /\ NextOf(t).i = t /\ NextOf(t) \in Ref
  BY <1>5, SlotFacts
<1>13. /\ bg' \in BgRecord /\ bg'.pc = "flatten" /\ bg'.slot = bg.slot /\ bg'.ref = NextOf(t)
       /\ bg'.act = "none"
  BY <1>0, <1>1, <1>4, <1>12, BgFields DEF GroupInv, BgRecord, BgPcs
<1>14. root \in DOMAIN roots /\ root # m /\ roots'[root] = roots[root] /\ roots'[m] = b
  BY <1>1, <1>4, <1>10, ListFacts DEF GroupInv, IndexTyped
<1>15. Heads' = Heads /\ Nexts' = Nexts /\ Reach' = Reach
  <2>1. \A i : ~Nulled(i)'
    BY <1>13 DEF Nulled, Doing
  <2>2. Heads' = Heads /\ Nexts' = Nexts
    BY <1>0, <1>4, <1>14, <2>1 DEF Heads, Nexts
  <2>3. QED
    BY <2>2 DEF Reach
<1>16. Standing'
  <2>1. RefOK(NextOf(t))
    BY <1>0, <1>1, <1>4, <1>5, NextInChain DEF GroupInv
  <2>2. RefOK(NextOf(t))'
    BY <1>13, <1>15, <2>1 DEF RefOK
  <2>3. QED
    BY <1>0, <1>5, <1>13, <1>14, <2>2 DEF Standing, Adjusting
<1>17. FirstSlot'
  <2>1. b[1].group # 0
    <3>1. 0 \notin Reach
      BY ListFacts DEF GroupInv
    <3>2. CASE Len(a) = 0
      BY <1>5, <1>6, <1>7, <3>2
    <3>3. CASE Len(a) # 0
      BY <1>4, <1>6, <3>1, <3>3
    <3>4. QED
      BY <3>2, <3>3
  <2>2. QED
    BY <1>10, <2>1 DEF GroupInv, FirstSlot
<1>18. LastCopied(a) /\ AllCopied(a) /\ OnlyCopied(a) /\ InOrder(m, 1)
  BY <1>0, <1>1 DEF GroupInv, Flattening
<1>19. /\ bg.ref.in = "slot" => roots[root][bg.slot].group = t
       /\ bg.ref.in = "next" => a # <<>> /\ groups[a[Len(a)].group].next = t
       /\ bg.ref.in = "slot" /\ a # <<>> => groups[a[Len(a)].group].next = 0
       /\ bg.ref.in \in {"slot", "next"}
  BY <1>1, <1>5, <1>18 DEF RefOK, Target, LastCopied
<1>20. \A i \in DOMAIN a : a[i].group # t
  <2>1. SUFFICES ASSUME NEW i \in DOMAIN a, a[i].group = t PROVE FALSE
    OBVIOUS
  <2>2. PICK hd, nx : hd = Heads /\ nx = Nexts
    OBVIOUS
  <2>3. /\ \A p, q \in DOMAIN hd : p # q /\ hd[p] = hd[q] => hd[p] = 0
        /\ \A p \in DOMAIN hd, g \in Reach : hd[p] # 0 => nx[g] # hd[p]
        /\ \A g, h \in Reach : g # h /\ nx[g] = nx[h] => nx[g] = 0
        /\ DOMAIN hd = DOMAIN roots[root] /\ Reach \subseteq DOMAIN groups
    BY <1>4, <2>2, ListFacts DEF LinkedOnce, Reach, GroupInv
  <2>4. CASE bg.ref.in = "slot"
    <3>1. hd[bg.slot] = t
      BY <1>4, <1>5, <1>19, <2>2, <2>4
    <3>2. CASE \E j \in DOMAIN roots[root] : Copied(j) /\ roots[root][j].group = t
      <4>1. PICK j \in DOMAIN roots[root] : Copied(j) /\ roots[root][j].group = t
        BY <3>2
      <4>2. j # bg.slot
        BY <1>5, <2>4, <4>1 DEF Copied
      <4>3. QED
        BY <1>4, <1>5, <2>2, <2>3, <3>1, <4>1, <4>2
    <3>3. CASE i > 1 /\ groups[a[i - 1].group].next = t
      <4>1. PICK g : g = a[i - 1].group
        OBVIOUS
      <4>2. g \in Reach /\ nx[g] = t
        BY <1>4, <2>2, <2>3, <3>3, <4>1
      <4>3. QED
        BY <1>5, <2>3, <3>1, <4>2
    <3>4. QED
      BY <1>18, <2>1, <3>2, <3>3 DEF OnlyCopied
  <2>5. CASE bg.ref.in = "next"
    <3>1. PICK last : last = a[Len(a)].group
      OBVIOUS
    <3>2. last \in Reach /\ nx[last] = t /\ Len(a) \in DOMAIN a
      BY <1>4, <1>19, <2>2, <2>3, <2>5, <3>1
    <3>3. CASE \E j \in DOMAIN roots[root] : Copied(j) /\ roots[root][j].group = t
      BY <1>4, <1>5, <2>2, <2>3, <3>2, <3>3
    <3>4. CASE i > 1 /\ groups[a[i - 1].group].next = t
      <4>1. PICK g : g = a[i - 1].group
        OBVIOUS
      <4>2. g \in Reach /\ nx[g] = t
        BY <1>4, <2>2, <2>3, <3>4, <4>1
      <4>3. i - 1 \in DOMAIN a /\ i - 1 # Len(a)
        BY <1>4, <3>4
      <4>4. g # last
        BY <1>1, <1>18, <3>1, <3>2, <4>1, <4>3 DEF InOrder
      <4>5. QED
        BY <1>5, <2>3, <3>2, <4>2, <4>4
    <3>5. QED
      BY <1>18, <2>1, <3>3, <3>4 DEF OnlyCopied
  <2>6. QED
    BY <1>19, <2>4, <2>5
<1>21. \A i \in DOMAIN b : i \in DOMAIN a \/ i = Len(a) + 1
  BY <1>4, <1>6
<1>22. InOrder(m, 1)'
  <2>1. \A i, j \in DOMAIN b : i # j => b[i].group # b[j].group
    <3>1. \A i, j \in DOMAIN a : i # j => a[i].group # a[j].group
      BY <1>1, <1>18 DEF InOrder
    <3>2. QED
      BY <1>6, <1>7, <1>20, <1>21, <3>1
  <2>2. \A i \in DOMAIN b : b[i].group \in Reach
    BY <1>4, <1>5, <1>6, <1>7, <1>21
  <2>3. ASSUME NEW i \in DOMAIN b, i + 1 <= Len(b)
        PROVE  groups[b[i].group].next = 0 \/ (i < Len(b) /\ groups[b[i].group].next = b[i + 1].group)
    <3>1. i \in DOMAIN a /\ i < Len(b) /\ i \in Nat
      BY <1>4, <1>6, <2>3
    <3>2. CASE i + 1 <= Len(a)
      <4>1. i + 1 \in DOMAIN a
        BY <1>4, <3>1, <3>2
      <4>2. groups[a[i].group].next = 0 \/ groups[a[i].group].next = a[i + 1].group
        BY <1>1, <1>18, <3>1, <3>2 DEF InOrder
      <4>3. QED
        BY <1>6, <3>1, <4>1, <4>2
    <3>3. CASE ~(i + 1 <= Len(a))
      <4>1. i = Len(a) /\ a # <<>>
        BY <1>4, <3>1, <3>3
      <4>2. QED
        BY <1>6, <1>7, <1>19, <3>1, <4>1
    <3>4. QED
      BY <3>2, <3>3
  <2>4. m' = m
    BY <1>0, <1>1
  <2>5. roots'[m] = b
    BY <1>14
  <2>6. \A i \in DOMAIN b : i + 1 <= Len(b) =>
          groups'[b[i].group].next = 0 \/ (i < Len(b) /\ groups'[b[i].group].next = b[i + 1].group)
    BY <1>0, <2>3
  <2>7. \A i \in DOMAIN b : b[i].group \in Reach'
    BY <1>15, <2>2
  <2>8. QED
    BY <2>1, <2>5, <2>6, <2>7 DEF InOrder
<1>23. LastCopied(b)'
  <2>1. b # <<>> /\ b[Len(b)].group = t
    BY <1>4, <1>6, <1>7, SeqShape
  <2>2. QED
    BY <1>12, <1>13, <2>1 DEF LastCopied
<1>24. \A j : Copied(j) => Copied(j)'
  BY <1>12, <1>13 DEF Copied
<1>25. AllCopied(b)'
  <2>1. ASSUME NEW j \in DOMAIN roots[root], Copied(j)', roots[root][j].group # 0
        PROVE  \E i \in DOMAIN b : b[i].group = roots[root][j].group
    <3>1. CASE Copied(j)
      <4>1. PICK i \in DOMAIN a : a[i].group = roots[root][j].group
        BY <1>18, <2>1, <3>1 DEF AllCopied
      <4>2. i \in DOMAIN b
        BY <1>4, <1>6
      <4>3. QED
        BY <1>6, <4>1, <4>2
    <3>2. CASE ~Copied(j)
      <4>1. j = bg.slot /\ bg.ref.in # "next"
        BY <1>13, <2>1, <3>2 DEF Copied
      <4>2. roots[root][j].group = t
        BY <1>19, <4>1
      <4>3. Len(a) + 1 \in DOMAIN b
        BY <1>4, <1>6
      <4>4. QED
        BY <1>6, <1>7, <4>2, <4>3
    <3>3. QED
      BY <3>1, <3>2
  <2>2. QED
    BY <1>0, <1>14, <2>1 DEF AllCopied
<1>26. OnlyCopied(b)'
  <2>1. ASSUME NEW i \in DOMAIN b
        PROVE  \/ \E j \in DOMAIN roots[root] : Copied(j)' /\ roots[root][j].group = b[i].group
               \/ i > 1 /\ groups[b[i - 1].group].next = b[i].group
    <3>1. CASE i \in DOMAIN a
      <4>1. \/ \E j \in DOMAIN roots[root] : Copied(j) /\ roots[root][j].group = a[i].group
            \/ i > 1 /\ groups[a[i - 1].group].next = a[i].group
        BY <1>18, <3>1 DEF OnlyCopied
      <4>2. i > 1 => i - 1 \in DOMAIN a
        BY <1>4, <3>1
      <4>3. QED
        BY <1>6, <1>24, <3>1, <4>1, <4>2
    <3>2. CASE i = Len(a) + 1
      <4>1. CASE bg.ref.in = "slot"
        <5>1. PICK q : q = bg.slot
          OBVIOUS
        <5>2. Copied(q)'
          BY <1>12, <1>13, <5>1 DEF Copied
        <5>3. QED
          BY <1>5, <1>6, <1>7, <1>19, <3>2, <4>1, <5>1, <5>2
      <4>2. CASE bg.ref.in = "next"
        <5>1. Len(a) \in DOMAIN a /\ i > 1 /\ i - 1 = Len(a)
          BY <1>4, <1>19, <3>2, <4>2
        <5>2. QED
          BY <1>6, <1>7, <1>19, <3>2, <4>2, <5>1
      <4>3. QED
        BY <1>19, <4>1, <4>2
    <3>3. QED
      BY <1>21, <3>1, <3>2
  <2>2. QED
    BY <1>0, <1>14, <2>1 DEF OnlyCopied
<1>27. Flattening'
  <2>1. InOrder(root + 1, 1)'
    BY <1>0, <1>1, <1>22
  <2>2. root' + 1 = Len(roots') /\ roots'[root' + 1] = b
    BY <1>0, <1>1, <1>4, <1>10, <1>14
  <2>3. QED
    BY <1>23, <1>25, <1>26, <2>1, <2>2 DEF Flattening
<1>28. QED
  <2>1. \A r \in DOMAIN roots \ {root + 1} : roots'[r] = roots[r]
    BY <1>1, <1>10
  <2>2. QED
    BY <1>0, <1>4, <1>10, <1>11, <1>13, <1>16, <1>17, <1>27, <2>1, FlattenStep

LEMMA InstallRootStep ==
  ASSUME GroupInv, InstallRoot
  PROVE  GroupInv'
<1>0. /\ bg.pc = "flatten" /\ UNCHANGED <<roots, groups, cont, freed, Workers>> /\ bwait' = Procs
      /\ Target(bg.ref) = 0 /\ bg.slot = Len(roots[root]) /\ root' = root + 1
      /\ bg' = [bg EXCEPT !.pc = "newroot", !.slot = 0, !.ref = NoRef]
  BY DEF InstallRoot, At, Barrier
<1>1. PICK a, m : a = roots[root + 1] /\ m = root + 1
  OBVIOUS
<1>2. /\ bg.act = "none" /\ m = Len(roots) /\ m \in DOMAIN roots /\ IsSeq(a)
      /\ Len(a) \in Nat /\ DOMAIN a = 1..Len(a) /\ Len(a) # 0 /\ a # <<>>
      /\ \A i \in DOMAIN a : a[i].group \in Reach
      /\ groups[a[Len(a)].group].next = 0
      /\ bg.ref.in = "slot" => roots[root][bg.slot].group = 0
      /\ (\A i : ~Nulled(i)) /\ LinkedOnce(Heads, Nexts)
      /\ \A i \in DOMAIN roots[root] : Heads[i] = roots[root][i].group
      /\ \A g \in DOMAIN groups : Nexts[g] = groups[g].next
  BY <1>0, <1>1, FlattenFacts
<1>3. /\ bg.slot \in DOMAIN roots[root] /\ bg.slot \in Nat /\ RefOK(bg.ref)
      /\ DOMAIN roots[root] = 1..Len(roots[root]) /\ Len(roots[root]) \in Nat
      /\ root \in DOMAIN roots /\ root \in Nat /\ root >= 1 /\ 0 \notin Reach /\ Reach \subseteq DOMAIN groups
  BY <1>0, BgAt, ListFacts DEF GroupInv, IndexTyped
<1>4. AllCopied(a) /\ InOrder(m, 1)
  BY <1>0, <1>1 DEF GroupInv, Flattening
<1>5. /\ bg' \in BgRecord /\ bg'.pc = "newroot" /\ bg'.slot = 0 /\ bg'.act = "none"
  BY <1>0, <1>2, BgFields, SlotFacts DEF GroupInv, BgRecord, BgPcs
<1>6. PICK hd, nx, hd2 : hd = Heads /\ nx = Nexts /\ hd2 = Heads'
  OBVIOUS
<1>7. Nexts' = nx /\ DOMAIN hd2 = DOMAIN a /\ \A i \in DOMAIN a : hd2[i] = a[i].group
  <2>1. \A i : ~Nulled(i)'
    BY <1>5 DEF Nulled, Doing
  <2>2. roots'[root'] = a
    BY <1>0, <1>1
  <2>3. QED
    BY <1>0, <1>6, <2>1, <2>2 DEF Heads, Nexts
<1>8. PICK R : R = {a[i].group : i \in DOMAIN a}
  OBVIOUS
<1>9. R \subseteq Reach
  BY <1>2, <1>8
<1>10. \A g \in R : nx[g] \in R \union {0}
  <2>1. ASSUME NEW i \in DOMAIN a PROVE nx[a[i].group] \in R \union {0}
    <3>1. nx[a[i].group] = groups[a[i].group].next
      BY <1>2, <1>3, <1>6
    <3>2. CASE i = Len(a)
      BY <1>2, <3>1, <3>2
    <3>3. CASE i # Len(a)
      <4>1. i + 1 <= Len(a) /\ i + 1 \in DOMAIN a
        BY <1>2, <3>3
      <4>2. groups[a[i].group].next = 0 \/ groups[a[i].group].next = a[i + 1].group
        BY <1>1, <1>4, <4>1 DEF InOrder
      <4>3. QED
        BY <1>8, <3>1, <4>1, <4>2
    <3>4. QED
      BY <3>2, <3>3
  <2>2. QED
    BY <1>8, <2>1
<1>11. \A j \in DOMAIN hd : hd[j] \in R \union {0}
  <2>1. ASSUME NEW j \in DOMAIN roots[root], roots[root][j].group # 0
        PROVE  roots[root][j].group \in R
    <3>1. Copied(j)
      <4>1. j = bg.slot => bg.ref.in = "next"
        BY <1>2, <1>3, <2>1 DEF RefOK
      <4>2. j < bg.slot \/ j = bg.slot
        BY <1>0, <1>3
      <4>3. QED
        BY <4>1, <4>2 DEF Copied
    <3>2. PICK i \in DOMAIN a : a[i].group = roots[root][j].group
      BY <1>4, <2>1, <3>1 DEF AllCopied
    <3>3. QED
      BY <1>8, <3>2
  <2>2. DOMAIN hd = DOMAIN roots[root]
    BY <1>6, ListFacts DEF GroupInv
  <2>3. QED
    BY <1>2, <1>6, <2>1, <2>2
<1>12. DOMAIN nx = DOMAIN groups /\ Reach = ReachOf(hd, nx)
  BY <1>6, ListFacts DEF GroupInv, Reach
<1>13. R = Reach
  <2>1. R \in SUBSET DOMAIN nx
    BY <1>3, <1>9, <1>12
  <2>2. ClosedUnder(hd, nx, R)
    BY <1>10, <1>11 DEF ClosedUnder
  <2>3. Reach \subseteq R
    BY <1>12, <2>1, <2>2, ReachLeast
  <2>4. QED
    BY <1>9, <2>3
<1>14. IndexTyped'
  BY <1>0, <1>1, <1>2 DEF GroupInv, IndexTyped, Cells
<1>15. Linking(hd2, nx)
  <2>1. (IndexTyped => Linking(Heads, Nexts))'
    BY ListFacts, PTL
  <2>2. QED
    BY <1>6, <1>7, <1>14, <2>1
<1>16. Reach' = Reach
  <2>1. \A i \in DOMAIN hd2 : hd2[i] \in R
    BY <1>7, <1>8
  <2>2. \A g \in R : \E i \in DOMAIN hd2 : hd2[i] = g
    BY <1>7, <1>8
  <2>3. R \subseteq DOMAIN nx /\ 0 \notin R
    BY <1>3, <1>12, <1>13
  <2>4. ReachOf(hd2, nx) = R
    BY <1>10, <1>15, <2>1, <2>2, <2>3, HeadsReach
  <2>5. QED
    BY <1>6, <1>7, <1>13, <2>4 DEF Reach
<1>17. Standing'
  BY <1>5 DEF Standing, Adjusting
<1>18. FirstSlot'
  BY <1>0 DEF GroupInv, FirstSlot
<1>19. Rooting' /\ ~Rooting
  BY <1>0, <1>5 DEF Rooting
<1>20. Linked' /\ Flattening'
  BY <1>5, <1>19 DEF Linked, Flattening
<1>21. NewRoot'
  <2>1. InOrder(root, 0)'
    <3>1. \A i, j \in DOMAIN a : i # j => a[i].group # a[j].group
      BY <1>1, <1>4 DEF InOrder
    <3>2. ASSUME NEW i \in DOMAIN a
          PROVE  groups[a[i].group].next = 0 \/ (i < Len(a) /\ groups[a[i].group].next = a[i + 1].group)
      <4>1. CASE i = Len(a)
        BY <1>2, <4>1
      <4>2. CASE i # Len(a)
        <5>1. i + 1 <= Len(a) /\ i < Len(a)
          BY <1>2, <4>2
        <5>2. QED
          BY <1>1, <1>4, <5>1 DEF InOrder
      <4>3. QED
        BY <4>1, <4>2
    <3>3. roots'[root'] = a
      BY <1>0, <1>1
    <3>4. QED
      BY <1>0, <1>2, <1>16, <3>1, <3>2, <3>3 DEF InOrder
  <2>2. roots'[root'] = a /\ roots'[root' - 1] = roots[root] /\ root' > 1 /\ root' - 1 = root
        /\ root' - 2 = root - 1 /\ root' = Len(roots')
    BY <1>0, <1>1, <1>2, <1>3
  <2>3. \A g \in Reach' : \E i \in DOMAIN a : a[i].group = g
    BY <1>8, <1>13, <1>16
  <2>4. \A i \in DOMAIN roots[root] : roots[root][i].group \in Reach' \union {0}
    BY <1>2, <1>16, ListFacts DEF GroupInv
  <2>5. freed.roots \subseteq 1..(root - 1)
    BY <1>19 DEF GroupInv, NewRoot
  <2>6. 0 \in 0..Len(a) /\ \A i : ~(i \in 1..0)
    BY <1>2
  <2>7. QED
    BY <1>0, <1>2, <1>5, <1>19, <2>1, <2>2, <2>3, <2>4, <2>5, <2>6 DEF NewRoot
<1>22. Places'
  <2>0. UNCHANGED <<pc, rt, sl, gr>>
    BY <1>0 DEF Workers, locals
  <2>1. root' - 1 = root
    BY <1>0, <1>3
  <2>2. ASSUME NEW p \in Procs PROVE PlaceOf(p)'
    <3>1. PlaceOf(p)
      BY DEF GroupInv, Places
    <3>2. pc[p] # "idle" => rt[p] = root
      BY <1>0, <3>1 DEF PlaceOf
    <3>3. QED
      BY <1>0, <1>5, <2>0, <2>1, <3>1, <3>2 DEF PlaceOf
  <2>3. QED
    BY <2>2 DEF Places
<1>23. Kept /\ bwait' \subseteq Procs /\ DOMAIN freed' = {"groups", "conts", "roots"}
  BY <1>0 DEF Kept, GroupInv, BgTyped
<1>24. QED
  BY <1>0, <1>2, <1>5, <1>14, <1>16, <1>17, <1>18, <1>20, <1>21, <1>22, <1>23, RootStep

\* group->next = nullptr leaves the group reached: the new array holds it.
NextCleared(h) == groups' = [groups EXCEPT ![h].next = 0]

LEMMA ClearEffect ==
  ASSUME IndexTyped, NEW h \in DOMAIN groups, NextCleared(h)
  PROVE  /\ AllGroups(groups', DOMAIN cont) /\ DOMAIN groups' = DOMAIN groups /\ Kept
         /\ \A g \in DOMAIN groups : groups'[g].next = IF g = h THEN 0 ELSE groups[g].next
<1>1. PICK x : x = [groups[h] EXCEPT !.next = 0]
  OBVIOUS
<1>2. groups' = [groups EXCEPT ![h] = x]
  BY <1>1 DEF NextCleared
<1>3. /\ IsGroup(x, DOMAIN cont, DOMAIN groups) /\ x.next = 0
      /\ x.pivot = groups[h].pivot /\ x.data = groups[h].data
      /\ x.buffer = groups[h].buffer /\ x.temp = groups[h].temp
  BY <1>1 DEF IndexTyped, AllGroups, IsGroup
<1>4. /\ IsSeq(groups') /\ DOMAIN groups' = DOMAIN groups
      /\ \A g \in DOMAIN groups : groups'[g] = IF g = h THEN x ELSE groups[g]
  <2>1. groups' = [g \in DOMAIN groups |-> IF g = h THEN x ELSE groups[g]]
    BY <1>2
  <2>2. groups' = [g \in DOMAIN groups |-> groups'[g]]
    BY <2>1
  <2>3. QED
    BY <2>1, <2>2, SeqLike DEF IndexTyped, AllGroups
<1>5. QED
  BY <1>3, <1>4 DEF Kept, AllGroups, IndexTyped

LEMMA TrimStep ==
  ASSUME GroupInv, TrimFirst \/ TrimNext
  PROVE  GroupInv'
<1>0. /\ bg.pc \in {"newroot", "trim"} /\ UNCHANGED <<root, roots, cont, freed, Workers>> /\ bwait' = bwait
      /\ bg.pc = "newroot" => bwait = {}
      /\ bg.pc = "trim" => bg.slot < Len(roots[root])
      /\ bg' = [bg EXCEPT !.slot = @ + 1, !.pc = "trim"]
      /\ groups' = [groups EXCEPT ![roots[root][bg.slot + 1].group].next = 0]
  <2>1. CASE TrimFirst
    BY <2>1 DEF TrimFirst, At, Passed
  <2>2. CASE TrimNext
    BY <2>2, BgFields DEF TrimNext, At, GroupInv, BgRecord
  <2>3. QED
    BY <2>1, <2>2
<1>1. Rooting
  BY <1>0 DEF Rooting
<1>2. PICK a, s : a = roots[root] /\ s = bg.slot + 1
  OBVIOUS
<1>3. PICK h : h = a[s].group
  OBVIOUS
<1>4. /\ InOrder(root, 0) /\ root > 1 /\ a # <<>>
      /\ \A g \in Reach : \E i \in DOMAIN a : a[i].group = g
      /\ \A i \in DOMAIN roots[root - 1] : roots[root - 1][i].group \in Reach \union {0}
      /\ bg.slot \in 0..Len(a)
      /\ \A i \in 1..bg.slot : groups[a[i].group].next = 0
      /\ bg.pc = "newroot" => bg.slot = 0
      /\ root = Len(roots) /\ freed.roots \subseteq 1..(root - 2)
  BY <1>0, <1>1, <1>2 DEF GroupInv, NewRoot
<1>5. IsSeq(a) /\ Len(a) \in Nat /\ DOMAIN a = 1..Len(a) /\ Len(a) # 0
  BY <1>2, <1>4, SeqShape DEF GroupInv, IndexTyped, AllRoots, IsRootArray
<1>6. bg.slot \in Nat /\ s \in DOMAIN a /\ s \in Nat /\ s \in 0..Len(a)
  BY <1>0, <1>2, <1>4, <1>5
<1>7. /\ h \in Reach /\ Reach \subseteq DOMAIN groups /\ h \in DOMAIN groups /\ 0 \notin Reach
      /\ \A i \in DOMAIN a : a[i].group \in Reach
  BY <1>2, <1>3, <1>4, <1>6, ListFacts DEF InOrder, GroupInv
<1>8. /\ AllGroups(groups', DOMAIN cont) /\ DOMAIN groups' = DOMAIN groups /\ Kept
      /\ \A g \in DOMAIN groups : groups'[g].next = IF g = h THEN 0 ELSE groups[g].next
  <2>1. NextCleared(h)
    BY <1>0, <1>2, <1>3 DEF NextCleared
  <2>2. QED
    BY <1>7, <2>1, ClearEffect DEF GroupInv
<1>9. bg.act = "none"
  BY <1>0 DEF GroupInv, Standing
<1>10. bg' \in BgRecord /\ bg'.pc = "trim" /\ bg'.slot = s /\ bg'.act = "none"
  <2>1. bg' = [bg EXCEPT !.slot = s, !.pc = "trim"]
    BY <1>0, <1>2
  <2>2. QED
    BY <1>6, <1>9, <2>1, BgFields DEF GroupInv, BgRecord, BgPcs
<1>11. IndexTyped'
  BY <1>0, <1>8 DEF GroupInv, IndexTyped, Cells
<1>12. PICK hd, nx2 : hd = Heads' /\ nx2 = Nexts'
  OBVIOUS
<1>13. DOMAIN hd = DOMAIN a /\ \A i \in DOMAIN a : hd[i] = a[i].group
  <2>1. \A i : ~Nulled(i)'
    BY <1>10 DEF Nulled, Doing
  <2>2. QED
    BY <1>0, <1>2, <1>12, <2>1 DEF Heads
<1>14. Linking(hd, nx2) /\ DOMAIN nx2 = DOMAIN groups
  <2>1. (IndexTyped => Linking(Heads, Nexts) /\ DOMAIN Nexts = DOMAIN groups)'
    BY ListFacts, PTL
  <2>2. QED
    BY <1>8, <1>11, <1>12, <2>1
<1>15. Reach' = Reach
  <2>1. PICK R : R = Reach
    OBVIOUS
  <2>2. \A g \in R : nx2[g] \in R \union {0}
    <3>1. \A g \in DOMAIN groups : nx2[g] = groups'[g].next
      BY <1>8, <1>12 DEF Nexts
    <3>2. \A g \in R : groups[g].next \in R \union {0}
      BY <2>1, ListFacts DEF GroupInv
    <3>3. QED
      BY <1>7, <1>8, <2>1, <3>1, <3>2
  <2>3. \A i \in DOMAIN hd : hd[i] \in R
    BY <1>7, <1>13, <2>1
  <2>4. \A g \in R : \E i \in DOMAIN hd : hd[i] = g
    BY <1>4, <1>13, <2>1
  <2>5. R \subseteq DOMAIN nx2 /\ 0 \notin R
    BY <1>7, <1>14, <2>1
  <2>6. ReachOf(hd, nx2) = R
    BY <1>14, <2>2, <2>3, <2>4, <2>5, HeadsReach
  <2>7. QED
    BY <1>12, <2>1, <2>6 DEF Reach
<1>16. Standing'
  BY <1>10 DEF Standing, Adjusting
<1>17. FirstSlot'
  BY <1>0 DEF GroupInv, FirstSlot
<1>18. Linked' /\ Flattening' /\ Rooting'
  BY <1>10 DEF Linked, Flattening, Rooting
<1>19. NewRoot'
  <2>1. InOrder(root, 0)'
    <3>1. \A i, j \in DOMAIN a : i # j => a[i].group # a[j].group
      BY <1>2, <1>4 DEF InOrder
    <3>2. ASSUME NEW i \in DOMAIN a
          PROVE  groups'[a[i].group].next = 0 \/ (i < Len(a) /\ groups'[a[i].group].next = a[i + 1].group)
      <4>1. i + 0 <= Len(a)
        BY <1>5
      <4>2. groups[a[i].group].next = 0 \/ (i < Len(a) /\ groups[a[i].group].next = a[i + 1].group)
        BY <1>2, <1>4, <4>1 DEF InOrder
      <4>3. QED
        BY <1>7, <1>8, <4>2
    <3>3. roots'[root'] = a
      BY <1>0, <1>2
    <3>4. QED
      BY <1>7, <1>15, <3>1, <3>2, <3>3 DEF InOrder
  <2>2. \A i \in 1..s : groups'[a[i].group].next = 0
    <3>1. ASSUME NEW i \in 1..s PROVE groups'[a[i].group].next = 0
      <4>1. i \in DOMAIN a
        BY <1>5, <1>6
      <4>2. i = s \/ i \in 1..bg.slot
        BY <1>2, <1>6
      <4>3. QED
        BY <1>3, <1>4, <1>7, <1>8, <4>1, <4>2
    <3>2. QED
      BY <3>1
  <2>3. QED
    BY <1>0, <1>2, <1>4, <1>6, <1>10, <1>15, <1>18, <2>1, <2>2 DEF NewRoot
<1>20. Places'
  <2>0. UNCHANGED <<pc, rt, sl, gr>>
    BY <1>0 DEF Workers, locals
  <2>1. ASSUME NEW p \in Procs PROVE PlaceOf(p)'
    <3>1. PlaceOf(p)
      BY DEF GroupInv, Places
    <3>2. pc[p] # "idle" => rt[p] = root
      BY <1>0, <3>1 DEF PlaceOf
    <3>3. QED
      BY <1>0, <1>8, <1>10, <2>0, <3>1, <3>2 DEF PlaceOf
  <2>2. QED
    BY <2>1 DEF Places
<1>21. bwait' \subseteq Procs /\ DOMAIN freed' = {"groups", "conts", "roots"}
  BY <1>0 DEF GroupInv, BgTyped
<1>22. QED
  BY <1>0, <1>8, <1>9, <1>10, <1>11, <1>15, <1>16, <1>17, <1>18, <1>19, <1>20, <1>21, RootStep

LEMMA DeleteRootStep ==
  ASSUME GroupInv, DeleteRoot
  PROVE  GroupInv'
<1>0. /\ bg.pc = "trim" /\ UNCHANGED <<root, groups, cont, Workers>> /\ bwait' = Procs
      /\ bg.slot = Len(roots[root])
      /\ freed' = [freed EXCEPT !.roots = @ \union {root - 1}]
      /\ roots' = [roots EXCEPT ![root - 1] = <<>>]
      /\ bg' = [bg EXCEPT !.pc = "round"]
  BY DEF DeleteRoot, At, Barrier
<1>1. Rooting
  BY <1>0 DEF Rooting
<1>2. PICK a : a = roots[root]
  OBVIOUS
<1>3. /\ InOrder(root, 0) /\ root > 1 /\ a # <<>>
      /\ \A g \in Reach : \E i \in DOMAIN a : a[i].group = g
      /\ \A i \in 1..bg.slot : groups[a[i].group].next = 0
      /\ root = Len(roots) /\ freed.roots \subseteq 1..(root - 2)
  BY <1>0, <1>1, <1>2 DEF GroupInv, NewRoot
<1>4. /\ IsSeq(a) /\ Len(a) \in Nat /\ DOMAIN a = 1..Len(a) /\ Len(a) # 0
      /\ root \in DOMAIN roots /\ IsSeq(roots) /\ DOMAIN roots = 1..Len(roots) /\ Len(roots) \in Nat
  BY <1>2, <1>3, SeqShape DEF GroupInv, IndexTyped, AllRoots, IsRootArray
<1>5. root \in Nat /\ root - 1 \in DOMAIN roots /\ root - 1 # root
  BY <1>3, <1>4
<1>6. /\ bg.act = "none" /\ bg' \in BgRecord /\ bg'.pc = "round" /\ bg'.slot = bg.slot /\ bg'.act = "none"
  <2>1. bg.act = "none"
    BY <1>0 DEF GroupInv, Standing
  <2>2. QED
    BY <1>0, <2>1, BgFields DEF GroupInv, BgRecord, BgPcs
<1>7. /\ IsSeq(roots') /\ Len(roots') = Len(roots) /\ DOMAIN roots' = DOMAIN roots
      /\ \A r \in DOMAIN roots : roots'[r] = IF r = root - 1 THEN <<>> ELSE roots[r]
  <2>1. PICK q : q = root - 1
    OBVIOUS
  <2>2. roots' = [roots EXCEPT ![q] = <<>>]
    BY <1>0, <2>1
  <2>3. \A r \in DOMAIN roots : roots'[r] = IF r = q THEN <<>> ELSE roots[r]
    BY <2>2
  <2>4. roots' = [r \in DOMAIN roots |-> roots'[r]]
    BY <2>2
  <2>5. IsSeq(roots') /\ Len(roots') = Len(roots) /\ DOMAIN roots' = DOMAIN roots
    BY <1>4, <2>4, SeqLike
  <2>6. QED
    BY <2>1, <2>3, <2>5
<1>8. roots'[root] = a
  BY <1>2, <1>4, <1>5, <1>7
<1>9. IndexTyped'
  <2>1. IsRootArray(<<>>, DOMAIN groups)
    <3>1. IsSeq(<<>>) /\ DOMAIN <<>> = {}
      BY DEF IsSeq
    <3>2. QED
      BY <3>1 DEF IsRootArray
  <2>2. AllRoots(roots', DOMAIN groups)
    BY <1>7, <2>1 DEF AllRoots, GroupInv, IndexTyped
  <2>3. QED
    BY <1>0, <1>4, <1>7, <2>2 DEF GroupInv, IndexTyped, Cells
<1>10. Heads' = Heads /\ Nexts' = Nexts /\ Reach' = Reach
  <2>1. (\A i : ~Nulled(i)) /\ (\A i : ~Nulled(i)')
    BY <1>6 DEF Nulled, Doing
  <2>2. Heads' = Heads /\ Nexts' = Nexts
    BY <1>0, <1>2, <1>8, <2>1 DEF Heads, Nexts
  <2>3. QED
    BY <2>2 DEF Reach
<1>11. Standing'
  BY <1>6 DEF Standing, Adjusting
<1>12. FirstSlot'
  BY <1>7 DEF GroupInv, FirstSlot
<1>13. Linked'
  <2>1. PICK hd, nx, R : hd = Heads /\ nx = Nexts /\ R = Reach
    OBVIOUS
  <2>2. \A i \in DOMAIN a : hd[i] = a[i].group
    <3>1. \A i : ~Nulled(i)
      BY <1>6 DEF Nulled, Doing
    <3>2. QED
      BY <1>2, <2>1, <3>1 DEF Heads
  <2>3. DOMAIN hd = DOMAIN a /\ R \subseteq DOMAIN groups /\ 0 \notin R
    BY <1>2, <2>1, ListFacts DEF GroupInv
  <2>4. \A i, j \in DOMAIN a : i # j => a[i].group # a[j].group
    BY <1>2, <1>3 DEF InOrder
  <2>5. \A g \in R : nx[g] = 0
    <3>1. ASSUME NEW g \in R PROVE nx[g] = 0
      <4>1. PICK i \in DOMAIN a : a[i].group = g
        BY <1>3, <2>1
      <4>2. i \in 1..bg.slot
        BY <1>0, <1>2, <1>4
      <4>3. QED
        BY <1>3, <2>1, <2>3, <4>1, <4>2 DEF Nexts
    <3>2. QED
      BY <3>1
  <2>6. LinkedOnce(Heads, Nexts)
    <3>1. ReachOf(hd, nx) = R
      BY <2>1 DEF Reach
    <3>2. LinkedOnce(hd, nx)
      BY <2>2, <2>3, <2>4, <2>5, <3>1 DEF LinkedOnce
    <3>3. QED
      BY <2>1, <3>2
  <2>7. QED
    BY <1>10, <2>6 DEF Linked
<1>14. Flattening'
  BY <1>6 DEF Flattening
<1>15. /\ freed'.groups = freed.groups /\ freed'.conts = freed.conts
       /\ freed'.roots = freed.roots \union {root - 1} /\ DOMAIN freed' = {"groups", "conts", "roots"}
  BY <1>0 DEF GroupInv, BgTyped
<1>16. NewRoot'
  <2>1. freed'.roots \subseteq 1..(root - 1)
    BY <1>3, <1>5, <1>15
  <2>2. QED
    BY <1>0, <1>3, <1>6, <1>7, <1>8, <2>1 DEF NewRoot, Rooting
<1>17. Places'
  <2>0. UNCHANGED <<pc, rt, sl, gr>>
    BY <1>0 DEF Workers, locals
  <2>1. ASSUME NEW p \in Procs PROVE PlaceOf(p)'
    <3>1. PlaceOf(p)
      BY DEF GroupInv, Places
    <3>2. pc[p] # "idle" => rt[p] = root
      BY <1>0, <3>1 DEF PlaceOf
    <3>3. QED
      BY <1>0, <1>2, <1>4, <1>7, <1>8, <2>0, <3>1, <3>2 DEF PlaceOf
  <2>2. QED
    BY <2>1 DEF Places
<1>18. Kept /\ bwait' \subseteq Procs
  BY <1>0 DEF Kept
<1>19. QED
  BY <1>0, <1>6, <1>9, <1>10, <1>11, <1>12, <1>13, <1>14, <1>15, <1>16, <1>17, <1>18, RootStep


-----------------------------------------------------------------------------
(* The theorems.                                                            *)

\* The groups Root::init builds.
LEMMA InitIndex ==
  ASSUME Init
  PROVE  /\ IndexTyped /\ root = 1 /\ Len(roots) = 1 /\ DOMAIN roots = {1}
         /\ DOMAIN roots[1] = DOMAIN Layout /\ DOMAIN groups = DOMAIN Layout
         /\ \A i \in DOMAIN Layout : roots[1][i].group = i
         /\ \A g \in DOMAIN Layout :
              /\ groups[g].data = 2 * g - 1 /\ groups[g].buffer = 2 * g
              /\ groups[g].temp = 0 /\ groups[g].next = 0
         /\ DOMAIN cont = 1..2 * Len(Layout)
         /\ \A c \in DOMAIN cont, k \in Keys : cont[c][k].kind # "ptr"
         /\ Len(Layout) \in Nat \ {0} /\ DOMAIN Layout = 1..Len(Layout)
<1>1. PICK n \in Nat \ {0} : n = Len(Layout) /\ DOMAIN Layout = 1..n
  BY GroupConstants
<1>2. PICK a : a = [i \in DOMAIN Layout |-> [pivot |-> Least(Layout[i]), group |-> i]]
  OBVIOUS
<1>3. roots = <<a>> /\ root = 1
  BY <1>2 DEF Init
<1>4. /\ IsSeq(a) /\ DOMAIN a = 1..n
      /\ \A i \in 1..n : DOMAIN a[i] = {"pivot", "group"} /\ a[i].group = i
  <2>1. a = [i \in 1..n |-> a[i]] /\ \A i \in 1..n : a[i] = [pivot |-> Least(Layout[i]), group |-> i]
    BY <1>1, <1>2
  <2>2. \A i \in 1..n : DOMAIN a[i] = {"pivot", "group"} /\ a[i].group = i
    BY <2>1
  <2>3. QED
    BY <1>1, <2>1, <2>2, SeqTable
<1>5. IsSeq(roots) /\ Len(roots) = 1 /\ DOMAIN roots = {1} /\ roots[1] = a
  <2>1. <<a>> \in Seq({a}) /\ Len(<<a>>) = 1 /\ DOMAIN <<a>> = {1} /\ <<a>>[1] = a
    OBVIOUS
  <2>2. QED
    BY <1>3, <2>1 DEF IsSeq
<1>6. /\ IsSeq(groups) /\ DOMAIN groups = 1..n
      /\ \A g \in 1..n :
           groups[g] = [pivot |-> Least(Layout[g]), data |-> 2 * g - 1, buffer |-> 2 * g,
                        temp |-> 0, frozen |-> FALSE, next |-> 0, model_n |-> 1]
  <2>1. groups = [i \in 1..n |->
                   [pivot |-> Least(Layout[i]), data |-> 2 * i - 1, buffer |-> 2 * i,
                    temp |-> 0, frozen |-> FALSE, next |-> 0, model_n |-> 1]]
    BY <1>1 DEF Init
  <2>2. groups = [i \in 1..n |-> groups[i]]
    BY <2>1
  <2>3. IsSeq(groups) /\ DOMAIN groups = 1..n
    BY <1>1, <2>2, SeqTable
  <2>4. QED
    BY <2>1, <2>3
<1>7. PICK v \in Values :
        cont = [c \in 1..2 * Len(Layout) |->
                 [k \in Keys |->
                   IF IF c % 2 = 1 THEN k \in Layout[(c + 1) \div 2]
                      ELSE k \in Buffered /\ InitGroup(k) = c \div 2
                   THEN Val(v) ELSE NoRec]]
  BY DEF Init
<1>8. PICK m \in Nat : m = 2 * n /\ m = 2 * Len(Layout)
  BY <1>1
<1>9. PICK x, y : x = Val(v) /\ y = NoRec /\ x.kind = "val" /\ y.kind = "none"
                  /\ x \in Cells /\ y \in Cells
  BY ValTyped DEF NoRec, Cells
<1>10. /\ IsSeq(cont) /\ DOMAIN cont = 1..m
       /\ \A c \in 1..m : cont[c] \in [Keys -> {x, y}]
  <2>1. \A c \in 1..m : cont[c] = [k \in Keys |-> cont[c][k]]
    BY <1>7, <1>8
  <2>2. \A c \in 1..m : \A k \in Keys : cont[c][k] \in {x, y}
    BY <1>7, <1>8, <1>9
  <2>3. cont = [c \in 1..m |-> cont[c]]
    BY <1>7, <1>8
  <2>4. IsSeq(cont) /\ DOMAIN cont = 1..m
    BY <2>3, SeqTable
  <2>5. QED
    BY <2>1, <2>2, <2>4
<1>11. \A c \in DOMAIN cont : cont[c] \in [Keys -> Cells]
  BY <1>9, <1>10
<1>12. AllRoots(roots, DOMAIN groups)
  BY <1>4, <1>5, <1>6 DEF AllRoots, IsRootArray
<1>13. AllGroups(groups, DOMAIN cont)
  <2>1. ASSUME NEW g \in 1..n
        PROVE  IsGroup(groups[g], DOMAIN cont, DOMAIN groups)
    <3>1. 2 * g - 1 \in 1..m /\ 2 * g \in 1..m
      BY <1>8
    <3>2. 1 \in 1..MaxModelN
      BY GroupConstants
    <3>3. PICK x0 : x0 = groups[g]
      OBVIOUS
    <3>4. DOMAIN x0 = {"pivot", "data", "buffer", "temp", "frozen", "next", "model_n"}
      BY <1>6, <3>3
    <3>5. /\ x0.data = 2 * g - 1 /\ x0.buffer = 2 * g /\ x0.temp = 0 /\ x0.next = 0
          /\ x0.frozen \in BOOLEAN /\ x0.model_n = 1
      <4>1. x0 = [pivot |-> Least(Layout[g]), data |-> 2 * g - 1, buffer |-> 2 * g,
                  temp |-> 0, frozen |-> FALSE, next |-> 0, model_n |-> 1]
        BY <1>6, <3>3
      <4>2. x0.data = 2 * g - 1 /\ x0.buffer = 2 * g /\ x0.temp = 0 /\ x0.next = 0 /\ x0.model_n = 1
        BY <4>1
      <4>3. x0.frozen = FALSE
        BY <4>1
      <4>4. QED
        BY <4>2, <4>3
    <3>6. QED
      BY <1>6, <1>10, <3>1, <3>2, <3>3, <3>4, <3>5 DEF IsGroup
  <2>2. QED
    BY <1>6, <2>1 DEF AllGroups
<1>14. IndexTyped
  BY <1>3, <1>5, <1>10, <1>11, <1>12, <1>13 DEF IndexTyped
<1>15. QED
  BY <1>1, <1>3, <1>4, <1>5, <1>6, <1>8, <1>9, <1>10, <1>14

LEMMA InitHolds ==
  ASSUME Init
  PROVE  GroupInv
<1>1. /\ IndexTyped /\ root = 1 /\ Len(roots) = 1 /\ DOMAIN roots = {1}
      /\ DOMAIN roots[1] = DOMAIN Layout /\ DOMAIN groups = DOMAIN Layout
      /\ \A i \in DOMAIN Layout : roots[1][i].group = i
      /\ \A g \in DOMAIN Layout :
           /\ groups[g].data = 2 * g - 1 /\ groups[g].buffer = 2 * g
           /\ groups[g].temp = 0 /\ groups[g].next = 0
      /\ \A c \in DOMAIN cont, k \in Keys : cont[c][k].kind # "ptr"
      /\ Len(Layout) \in Nat \ {0} /\ DOMAIN Layout = 1..Len(Layout)
  BY InitIndex
<1>2. /\ bg = BgIdle /\ bwait = {} /\ freed = [groups |-> {}, conts |-> {}, roots |-> {}]
      /\ pc = [p \in Procs |-> "idle"] /\ rt = [p \in Procs |-> 0] /\ sl = [p \in Procs |-> 0]
      /\ gr = [p \in Procs |-> 0] /\ op = [p \in Procs |-> Abs!Idle]
      /\ scan = [p \in Procs |-> NoScan] /\ count = 0
  BY DEF Init
<1>3. bg \in BgRecord /\ bg.pc = "idle" /\ bg.act = "none"
  BY <1>2, GroupConstants DEF BgIdle, BgRecord, BgPcs, Ref, NoRef
<1>4. BgTyped
  BY <1>2, <1>3 DEF BgTyped
<1>5. Standing
  BY <1>3 DEF Standing, Adjusting
<1>6. /\ Doomed = {} /\ Halves = {} /\ WithTemp = {} /\ ~Working /\ ~Rooting
      /\ bg.pc # "flatten" /\ bg.pc \notin Replaced /\ bg.pc # "publishnext"
      /\ \A i : ~Nulled(i)
  BY <1>3, <1>5, QuietFacts DEF Quiet
<1>7. Named
  BY <1>3, NamedQuiet DEF Quiet
<1>8. /\ Reach \subseteq DOMAIN Layout /\ DOMAIN Heads = DOMAIN Layout
      /\ \A i \in DOMAIN Layout : Heads[i] = i /\ Nexts[i] = 0
  BY <1>1, <1>6, ListFacts DEF Heads, Nexts
<1>9. Unlinked
  BY <1>2, <1>6 DEF Unlinked
<1>10. Linked
  BY <1>1, <1>8 DEF Linked, LinkedOnce, Reach
<1>11. FirstSlot /\ Flattening /\ NewRoot
  <2>1. 1 \in DOMAIN Layout
    BY <1>1
  <2>2. roots[1] # <<>>
    BY <1>1, <2>1
  <2>3. QED
    BY <1>1, <1>2, <1>3, <1>6, <2>1, <2>2 DEF FirstSlot, Flattening, NewRoot
<1>12. Owned
  <2>1. \A g, h \in DOMAIN Layout : g # h => ContsOf(g) \intersect ContsOf(h) = {}
    BY <1>1 DEF ContsOf
  <2>2. QED
    BY <1>1, <1>2, <1>6, <1>8, <2>1 DEF Owned
<1>13. Fresh /\ Pointers
  BY <1>1, <1>3, <1>6 DEF Fresh, Pointers
<1>14. WorkersTyped
  <2>1. Typed
    BY <1>2 DEF Typed, WorkerPcs
  <2>2. \A p \in Procs : scan[p] = NoScan
    BY <1>2
  <2>3. NoScan.on \in BOOLEAN
    BY DEF NoScan
  <2>4. Scans
    BY <1>2, <2>2, <2>3 DEF Scans
  <2>5. 0 \in 0..MaxOps
    BY GroupConstants
  <2>6. QED
    BY <1>2, <2>1, <2>4, <2>5 DEF WorkersTyped
<1>15. Doings /\ Places /\ Grace
  BY <1>2 DEF Doings, DoingOf, Places, PlaceOf, Grace, GraceOf, HoldsGroup, PointPcs, ScanPcs
<1>16. QED
  BY <1>1, <1>4, <1>5, <1>7, <1>9, <1>10, <1>11, <1>12, <1>13, <1>14, <1>15 DEF GroupInv

LEMMA WorkerStepHolds ==
  ASSUME GroupInv, NEW p \in Procs, WorkerStep(p)
  PROVE  GroupInv'
<1>1. Before
  BY DEF GroupInv, Before, Structure, WorkersTyped
<1>2. Typed' /\ Scans' /\ Doings' /\ Places' /\ Grace'
  BY <1>1, WorkersMove
<1>3. IndexTyped' /\ Fresh' /\ Pointers' /\ BgTyped'
  BY <1>1, WorkerKeepsCells DEF GroupInv
<1>4. Structure'
  BY <1>1, WorkerFrame, FrameStructure DEF Before
<1>5. (count \in 0..MaxOps)'
  <2>1. count \in 0..MaxOps
    BY DEF GroupInv, WorkersTyped
  <2>2. CASE Start(p)
    BY <2>1, <2>2, GroupConstants DEF Start
  <2>3. CASE StartScan(p)
    BY <2>1, <2>3, GroupConstants DEF StartScan
  <2>4. CASE Elsewhere(p) \/ Step(p)
    <3>1. UNCHANGED count
      BY <2>4 DEF Step, Elsewhere, LoadSlot, WalkChain, Array, Buffer, TempHit, TempMiss,
           PutLoadTemp, PutNotFrozen, PutRetry, Insert, Return, Apply, Miss, Scan, ScanGroup,
           ScanBuffer, ScanTemp, ScanArray, ScanNext, ScanSlot, ScanReturn, ScanMoves, opvars
    <3>2. QED
      BY <2>1, <3>1
  <2>5. QED
    BY <2>2, <2>3, <2>4 DEF WorkerStep
<1>6. QED
  BY <1>2, <1>3, <1>4, <1>5 DEF GroupInv, Structure, WorkersTyped

LEMMA BgStepHolds ==
  ASSUME GroupInv, BgNext
  PROVE  GroupInv'
<1>1. CASE BeginPass \/ NextSlot \/ VisitGroup \/ KeepModels \/ NothingToDo \/ EndPass \/ EndRound
  BY <1>1, QuietSteps
<1>2. CASE AdjustModels \/ ModelsAdjusted
  BY <1>2, AdjustModelsStep, ModelsAdjustedStep
<1>3. CASE FreezeMerge \/ FreezeCompact
  BY <1>3, FreezeSteps
<1>4. CASE SplitPt1 \/ SetTemp \/ SplitPt2 \/ MergeRef
  BY <1>4, SplitPt1Step, SetTempStep, SplitPt2Step, MergeRefStep
<1>5. CASE PublishCompact \/ PublishSplit \/ PublishMerge \/ PublishNext \/ Published
  BY <1>5, PublishCompactStep, PublishSplitStep, PublishMergeStep, PublishNextStep, PublishedStep
<1>6. CASE CompactPhase2 \/ FreeOld
  BY <1>6, CompactPhase2Step, FreeOldStep
<1>7. CASE BeginNewRoot \/ CopyGroup \/ CopyNextSlot \/ InstallRoot
  BY <1>7, BeginNewRootStep, CopyGroupStep, CopyNextSlotStep, InstallRootStep
<1>8. CASE TrimFirst \/ TrimNext
  BY <1>8, TrimStep
<1>9. CASE DeleteRoot
  BY <1>9, DeleteRootStep
<1>10. QED
  BY <1>1, <1>2, <1>3, <1>4, <1>5, <1>6, <1>7, <1>8, <1>9 DEF BgNext

LEMMA StutterHolds ==
  ASSUME GroupInv, UNCHANGED vars
  PROVE  GroupInv'
<1>1. UNCHANGED <<root, roots, groups, cont, freed, bg, bwait, pc, rt, sl, gr, op, seen, res,
                  scan, count>>
  BY DEF vars, index, bgvars, locals, opvars
<1>2. Structure'
  BY <1>1, FrameStructure DEF GroupInv, Structure
<1>3. IndexTyped' /\ BgTyped' /\ WorkersTyped'
  BY <1>1 DEF GroupInv, IndexTyped, Cells, BgTyped, WorkersTyped, Typed, Scans
<1>4. /\ Reach' = Reach /\ Doomed' = Doomed /\ Sources' = Sources /\ NewArrays' = NewArrays
      /\ (Working' <=> Working) /\ \A k : NewArray(k)' = NewArray(k)
  BY <1>1, FrameReach
<1>5. Fresh' /\ Pointers'
  BY <1>1, <1>4 DEF GroupInv, Fresh, Pointers, ContsOf
<1>6. Doings' /\ Places' /\ Grace'
  BY <1>1, <1>4 DEF GroupInv, Doings, DoingOf, Places, PlaceOf, Grace, GraceOf, HoldsGroup, G
<1>7. QED
  BY <1>2, <1>3, <1>5, <1>6 DEF GroupInv, Structure

\* Every reachable state satisfies the inductive invariant.
THEOREM GroupInvariant == Spec => []GroupInv
<1>1. Init => GroupInv
  BY InitHolds
<1>2. GroupInv /\ [Next]_vars => GroupInv'
  <2> SUFFICES ASSUME GroupInv, [Next]_vars PROVE GroupInv'
    OBVIOUS
  <2>1. CASE BgNext
    BY <2>1, BgStepHolds
  <2>2. CASE \E p \in Procs : WorkerStep(p)
    BY <2>2, WorkerStepHolds
  <2>3. CASE UNCHANGED vars
    BY <2>3, StutterHolds
  <2>4. QED
    BY <2>1, <2>2, <2>3 DEF Next, WorkerStep
<1>3. QED
  BY <1>1, <1>2, PTL DEF Spec

\* Roots, groups, arrays, buffers, the background thread's deletions and the
\* workers' positions keep their types: every reference leads to an object that
\* exists, and no slot index falls below the first one (the loop that goes back
\* over null slots in locate_group_pt1).
THEOREM GroupTypeCorrect == Spec => []TypeOK
<1>1. GroupInv => TypeOK
  <2> SUFFICES ASSUME GroupInv PROVE TypeOK
    OBVIOUS
  <2>1. \A r \in DOMAIN roots : \A i \in DOMAIN roots[r] :
          roots[r][i].group \in DOMAIN groups \union {0}
    BY DEF GroupInv, IndexTyped, AllRoots, IsRootArray
  <2>2. \A g \in DOMAIN groups :
          /\ groups[g].data \in DOMAIN cont /\ groups[g].buffer \in DOMAIN cont
          /\ groups[g].temp \in DOMAIN cont \union {0}
          /\ groups[g].next \in DOMAIN groups \union {0}
          /\ groups[g].model_n \in 1..MaxModelN
    BY DEF GroupInv, IndexTyped, AllGroups, IsGroup
  <2>3. bg.pass \in 0..MaxPass
    BY BgFields DEF GroupInv
  <2>4. ASSUME NEW p \in Procs
        PROVE  /\ pc[p] # "idle" => rt[p] \in DOMAIN roots /\ sl[p] >= 1
               /\ pc[p] \notin {"idle", "slot"} => gr[p] \in DOMAIN groups
    <3>1. PlaceOf(p)
      BY DEF GroupInv, Places
    <3>2. ASSUME pc[p] # "idle" PROVE sl[p] >= 1
      <4>1. PICK a : a = roots[rt[p]] /\ IsSeq(a) /\ sl[p] \in DOMAIN a
        BY <3>1, <3>2 DEF PlaceOf, GroupInv, IndexTyped, AllRoots, IsRootArray
      <4>2. QED
        BY <4>1, SeqShape
    <3>3. QED
      BY <3>1, <3>2 DEF PlaceOf
  <2>5. QED
    BY <2>1, <2>2, <2>3, <2>4 DEF GroupInv, IndexTyped, BgTyped, WorkersTyped, TypeOK
<1>2. QED
  BY <1>1, GroupInvariant, PTL

\* A pointer of merge_refs leads to a record with a value, never to a second
\* pointer or to nothing: compact_phase_2 has replaced every pointer of an array
\* before the array is a source of the next compaction, split or merge (the
\* status assert of merge_refs_internal).
THEOREM GroupPointersResolve == Spec => []PointersResolve
<1>1. GroupInv => PointersResolve
  BY DEF GroupInv, Pointers, PointersResolve
<1>2. QED
  BY <1>1, GroupInvariant, PTL

\* What is read through a group that is reached, or waits to be deleted, is
\* there, and so is the record a pointer in it leads to.
LEMMA NotFreed ==
  ASSUME GroupInv, NEW g \in Reach \union Doomed,
         NEW d \in (ContsOf(g) \union {groups[g].temp}) \ {0}, NEW k \in Keys
  PROVE  d \notin freed.conts /\ Rec(d, k) \notin freed.conts
<1>1. d \notin freed.conts
  BY DEF GroupInv, Owned
<1>2. g \in DOMAIN groups
  BY ListFacts DEF GroupInv, Unlinked
<1>3. d \in DOMAIN cont
  BY <1>2 DEF GroupInv, IndexTyped, AllGroups, IsGroup, ContsOf
<1>4. CASE cont[d][k].kind = "ptr"
  <2>1. Working /\ cont[d][k].to \in Sources
    BY <1>3, <1>4 DEF GroupInv, Pointers
  <2>2. Rec(d, k) = cont[d][k].to
    BY <1>4 DEF Rec
  <2>3. QED
    BY <1>1, <2>1, <2>2, WorkingGroups
<1>5. CASE cont[d][k].kind # "ptr"
  BY <1>1, <1>5 DEF Rec
<1>6. QED
  BY <1>4, <1>5

\* What each worker reads, for a worker that holds a group.
LEMMA HeldGroup ==
  ASSUME GroupInv, NEW p \in Procs, HoldsGroup(p)
  PROVE  /\ gr[p] \notin freed.groups /\ G(p).next \notin freed.groups
         /\ \A d \in (ContsOf(gr[p]) \union {G(p).temp}) \ {0}, k \in Keys :
              d \notin freed.conts /\ Rec(d, k) \notin freed.conts
         /\ G(p).data # 0 /\ G(p).buffer # 0
<1>1. gr[p] \in Reach \union Doomed
  BY DEF GroupInv, Grace, GraceOf
<1>2. freed.groups \subseteq DOMAIN groups /\ 0 \notin DOMAIN groups /\ 0 \notin DOMAIN cont
  BY ListFacts DEF GroupInv, BgTyped
<1>3. G(p).next \in Reach \union Doomed \union {0}
  BY <1>1, ListFacts DEF GroupInv, Unlinked, G
<1>4. gr[p] \in DOMAIN groups
  BY <1>1, ListFacts DEF GroupInv, Unlinked
<1>5. G(p).data \in DOMAIN cont /\ G(p).buffer \in DOMAIN cont
  BY <1>4 DEF GroupInv, IndexTyped, AllGroups, IsGroup, G
<1>6. QED
  BY <1>1, <1>2, <1>3, <1>5, NotFreed DEF GroupInv, Unlinked, G

\* The barriers of do_adjustment and of the master's root replacement keep what
\* they promise: no worker reads a root, a group, an array or a buffer that has
\* been deleted, however its steps fall between those of the background thread.
THEOREM GroupNoUseAfterFree == Spec => []NoUseAfterFree
<1>1. GroupInv => NoUseAfterFree
  <2> SUFFICES ASSUME GroupInv, NEW p \in Procs
               PROVE  /\ Reads(p).roots \intersect freed.roots = {}
                      /\ Reads(p).groups \intersect freed.groups = {}
                      /\ Reads(p).conts \intersect freed.conts = {}
    BY DEF NoUseAfterFree
  <2>1. pc[p] \in WorkerPcs /\ DoingOf(p) /\ PlaceOf(p)
    BY DEF GroupInv, WorkersTyped, Typed, Doings, Places
  <2>2. CASE pc[p] \in {"slot", "scanslot"}
    <3>1. Reads(p) = [roots |-> {rt[p]}, groups |-> {}, conts |-> {}]
      BY <2>2 DEF Reads
    <3>2. rt[p] = root \/ (bg.pc = "newroot" /\ rt[p] = root - 1)
      BY <2>1, <2>2 DEF PlaceOf
    <3>3. freed.roots \subseteq 1..(IF Rooting THEN root - 2 ELSE root - 1) /\ root \in Nat
      BY ListFacts DEF GroupInv, NewRoot, IndexTyped
    <3>4. rt[p] \notin freed.roots
      BY <3>2, <3>3 DEF Rooting
    <3>5. QED
      BY <3>1, <3>4
  <2>3. CASE pc[p] = "chain"
    <3>1. Reads(p) = [roots |-> {}, conts |-> {}, groups |-> {gr[p], G(p).next} \ {0}]
      BY <2>3 DEF Reads
    <3>2. gr[p] \notin freed.groups /\ G(p).next \notin freed.groups
      BY <2>3, HeldGroup DEF HoldsGroup
    <3>3. QED
      BY <3>1, <3>2
  <2>4. CASE pc[p] = "scanarray"
    <3>1. Reads(p) = [roots |-> {}, groups |-> {gr[p]},
                      conts |-> {G(p).data} \union {Rec(G(p).data, k) : k \in Keys}]
      BY <2>4 DEF Reads
    <3>2. HoldsGroup(p)
      BY <2>4 DEF HoldsGroup, ScanPcs
    <3>3. gr[p] \notin freed.groups
      BY <3>2, HeldGroup
    <3>4. \A k \in Keys : G(p).data \notin freed.conts /\ Rec(G(p).data, k) \notin freed.conts
      BY <3>2, HeldGroup DEF ContsOf, G
    <3>5. G(p).data \notin freed.conts
      BY <3>4, KeysShape
    <3>6. QED
      BY <3>1, <3>3, <3>4, <3>5
  <2>5. CASE pc[p] \in {"idle", "done", "scanned"}
    BY <2>5 DEF Reads
  <2>6. CASE pc[p] \in PointPcs \union (ScanPcs \ {"scanarray"})
    <3>1. HoldsGroup(p) /\ pc[p] \notin {"slot", "chain", "scanslot", "scanarray", "idle", "done", "scanned"}
      BY <2>6 DEF HoldsGroup, PointPcs, ScanPcs
    <3>2. PICK c : c = CASE pc[p] = "array" -> {G(p).data}
                         [] pc[p] \in {"buffer", "insert", "scan2", "scan3"} -> {G(p).buffer}
                         [] pc[p] \in {"temp", "inserttemp", "scantemp"} -> {G(p).temp} \ {0}
                         [] OTHER -> {}
      OBVIOUS
    <3>3. Reads(p) = [roots |-> {}, groups |-> {gr[p]},
                      conts |-> c \union IF scan[p].on THEN {} ELSE {Rec(d, Key(p)) : d \in c}]
      BY <3>1, <3>2 DEF Reads
    <3>4. c \subseteq (ContsOf(gr[p]) \union {G(p).temp}) \ {0}
      BY <3>1, <3>2, HeldGroup DEF ContsOf, G
    <3>5. ~scan[p].on => Key(p) \in Keys
      BY <2>1, <2>6, CallFacts DEF DoingOf, Key, PointPcs, ScanPcs
    <3>6. gr[p] \notin freed.groups /\ \A d \in c, k \in Keys : d \notin freed.conts /\ Rec(d, k) \notin freed.conts
      BY <3>1, <3>4, HeldGroup
    <3>7. \A d \in c : d \notin freed.conts
      BY <3>6, KeysShape
    <3>8. CASE scan[p].on
      BY <3>3, <3>6, <3>7, <3>8
    <3>9. CASE ~scan[p].on
      BY <3>3, <3>5, <3>6, <3>7, <3>9
    <3>10. QED
      BY <3>8, <3>9
  <2>7. QED
    BY <2>1, <2>2, <2>3, <2>4, <2>5, <2>6 DEF WorkerPcs
<1>2. QED
  BY <1>1, GroupInvariant, PTL

=============================================================================
