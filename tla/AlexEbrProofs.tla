--------------------------- MODULE AlexEbrProofs ---------------------------
(***************************************************************************)
(* Safety of ALEX+'s epoch based reclamation, for any number of threads and  *)
(* nodes, any batch size and any scheduling.  That a retired node is in one   *)
(* list and freed once always holds.  That nobody has a pointer to a freed    *)
(* node holds until a thread announces an epoch that has passed since it      *)
(* loaded it (`late'): up to then, what holds the epoch back is enough.       *)
(***************************************************************************)
EXTENDS AlexEbr, TLAPS

Inside(t) == pc[t] \in {"entered", "scan", "in"}

\* A thread announces the epoch it has loaded from enter to leave, and has
\* pointers only after that.
Guarded ==
  \A t \in Threads :
    /\ Inside(t) => /\ mLocalEpoch[t] = currentEpoch[t]
                    /\ mPreviouslyAccessedEpoch[t] = currentEpoch[t]
    /\ ~Inside(t) => mLocalEpoch[t] = Outside
    /\ pc[t] # "in" => held[t] = {}

\* canAdvance has found, and it still is so, that the threads it has looked at
\* do not hold the epoch back.
Scanned ==
  \A t \in Threads : pc[t] = "scan" /\ mCurrentEpoch = currentEpoch[t] =>
    \A u \in Threads \ unread[t] : mLocalEpoch[u] # PREVIOUS_EPOCH(currentEpoch[t])

\* Some node that h has a pointer to waits in list f of u.
HeldIn(h, u, f) == held[h] \intersect mFreeLists[u][f] # {}

\* The owner of a list with a node that somebody holds does not free it next: it
\* last entered the epoch of the list, if that is the current one; and the epoch
\* that follows the holder's, if it is the list's, has come already.
Pinned ==
  \A h \in Threads, u \in Threads, f \in Epochs : HeldIn(h, u, f) =>
    /\ f = mCurrentEpoch => mPreviouslyAccessedEpoch[u] = f
    /\ f = NEXT_EPOCH(mLocalEpoch[h]) => mCurrentEpoch = f

ListsInv == TypeOK /\ Guarded /\ RetiredOnce
Timely == ListsInv /\ EpochSkew /\ Scanned /\ Pinned /\ NoUseAfterFree
EbrInv == ListsInv /\ (late \/ Timely)

-----------------------------------------------------------------------------
(* Epochs modulo 3, and free lists *)

LEMMA EpochArithmetic ==
  ASSUME NEW e \in Epochs
  PROVE  /\ NEXT_EPOCH(e) \in Epochs /\ PREVIOUS_EPOCH(e) \in Epochs
         /\ NEXT_EPOCH(e) # e /\ PREVIOUS_EPOCH(e) # e
         /\ NEXT_EPOCH(e) # PREVIOUS_EPOCH(e)
         /\ NEXT_EPOCH(PREVIOUS_EPOCH(e)) = e /\ PREVIOUS_EPOCH(NEXT_EPOCH(e)) = e
         /\ NEXT_EPOCH(NEXT_EPOCH(e)) = PREVIOUS_EPOCH(e)
         /\ e # Outside
<1>1. e = 0 \/ e = 1 \/ e = 2
  BY DEF Epochs
<1> QED
  BY <1>1 DEF Epochs, NEXT_EPOCH, PREVIOUS_EPOCH, Outside

\* The nodes that wait in some list.
Waiting == UNION {mFreeLists[t][e] : t \in Threads, e \in Epochs}

LEMMA WaitingInList ==
  \A n : n \in Waiting <=> \E t \in Threads, e \in Epochs : n \in mFreeLists[t][e]
  BY DEF Waiting

-----------------------------------------------------------------------------
(* Types and lists, whatever the scheduling *)

LEMMA EbrListsInit == Init => ListsInv
<1> SUFFICES ASSUME Init PROVE ListsInv
  OBVIOUS
<1> USE EbrAssumption DEF Init
<1>1. TypeOK
  <2>1. late \in BOOLEAN
    OBVIOUS
  <2> QED
    BY <2>1 DEF TypeOK, Epochs, Outside, Nodes
<1>2. Guarded
  BY DEF Guarded, Inside
<1>3. RetiredOnce
  <2>1. Waiting = {}
    BY WaitingInList
  <2> QED
    BY <2>1 DEF RetiredOnce, Waiting
<1> QED
  BY <1>1, <1>2, <1>3 DEF ListsInv

\* What waits has been allocated, so that freeing it keeps freed's type.
LEMMA ListsAllocated ==
  ASSUME TypeOK, RetiredOnce
  PROVE  \A t \in Threads, e \in Epochs : mFreeLists[t][e] \subseteq 1 .. allocated
<1> SUFFICES ASSUME NEW t \in Threads, NEW e \in Epochs, NEW n \in mFreeLists[t][e]
             PROVE  n \in 1 .. allocated
  OBVIOUS
<1>1. n \in Waiting
  BY WaitingInList
<1> QED
  BY <1>1 DEF RetiredOnce, Waiting

LEMMA EbrTypeStep ==
  ASSUME TypeOK, Guarded, RetiredOnce, Next
  PROVE  TypeOK' /\ Guarded'
<1> USE EbrAssumption
<1>1. ASSUME NEW t \in Threads, Load(t) PROVE TypeOK' /\ Guarded'
  BY <1>1 DEF Load, TypeOK, Guarded, Inside, info, tree
<1>2. ASSUME NEW t \in Threads, enter(t) PROVE TypeOK' /\ Guarded'
  <2>1. currentEpoch[t] \in Epochs
    BY DEF TypeOK
  <2>2. freed' \subseteq 1 .. allocated /\ mFreeLists' \in [Threads -> [Epochs -> SUBSET Nodes]]
    <3>1. CASE mPreviouslyAccessedEpoch[t] # currentEpoch[t]
      <4>1. /\ freed' = freed \union mFreeLists[t][currentEpoch[t]]
            /\ mFreeLists' = [mFreeLists EXCEPT ![t][currentEpoch[t]] = {}]
        BY <1>2, <3>1 DEF enter, freeForEpoch
      <4>2. freed' \subseteq 1 .. allocated
        BY <2>1, <4>1, ListsAllocated DEF TypeOK
      <4>3. mFreeLists' \in [Threads -> [Epochs -> SUBSET Nodes]]
        BY <2>1, <4>1 DEF TypeOK
      <4> QED
        BY <4>2, <4>3
    <3>2. CASE mPreviouslyAccessedEpoch[t] = currentEpoch[t]
      BY <1>2, <3>2 DEF enter, TypeOK
    <3> QED
      BY <3>1, <3>2
  <2>3. TypeOK'
    <3>1. /\ mThreadWantsToAdvance' \in [Threads -> BOOLEAN]
          /\ mPreviouslyAccessedEpoch' \in [Threads -> Epochs \union {Outside}]
      BY <1>2, <2>1 DEF enter, TypeOK
    <3>2. /\ mLocalEpoch' \in [Threads -> Epochs \union {Outside}]
          /\ late' \in BOOLEAN
          /\ pc' \in [Threads -> {"out", "loaded", "entered", "scan", "in", "exited"}]
      BY <1>2, <2>1 DEF enter, TypeOK
    <3> QED
      BY <1>2, <2>2, <3>1, <3>2 DEF enter, TypeOK, tree
  <2>4. Guarded'
    BY <1>2 DEF enter, freeForEpoch, TypeOK, Guarded, Inside, tree
  <2> QED
    BY <2>3, <2>4
<1>3. ASSUME NEW t \in Threads, doesThreadWantToAdvanceEpoch(t) PROVE TypeOK' /\ Guarded'
  <2>1. /\ pc' = [pc EXCEPT ![t] = "scan"] \/ pc' = [pc EXCEPT ![t] = "in"]
        /\ unread' = [unread EXCEPT ![t] = Threads] \/ unread' = unread
    BY <1>3 DEF doesThreadWantToAdvanceEpoch
  <2>2. TypeOK'
    <3>1. pc' \in [Threads -> {"out", "loaded", "entered", "scan", "in", "exited"}]
      BY <2>1 DEF TypeOK
    <3>2. unread' \in [Threads -> SUBSET Threads]
      BY <2>1 DEF TypeOK
    <3> QED
      BY <1>3, <3>1, <3>2 DEF doesThreadWantToAdvanceEpoch, TypeOK, info, tree
  <2>3. Guarded'
    BY <1>3, <2>1 DEF doesThreadWantToAdvanceEpoch, TypeOK, Guarded, Inside, info, tree
  <2> QED
    BY <2>2, <2>3
<1>4. ASSUME NEW t \in Threads, canAdvance(t) PROVE TypeOK' /\ Guarded'
  <2>1. PICK u \in unread[t] :
          \/ pc' = [pc EXCEPT ![t] = "in"] /\ unread' = [unread EXCEPT ![t] = {}]
          \/ pc' = pc /\ unread' = [unread EXCEPT ![t] = unread[t] \ {u}]
    BY <1>4 DEF canAdvance
  <2>2. TypeOK'
    <3>1. pc' \in [Threads -> {"out", "loaded", "entered", "scan", "in", "exited"}]
      BY <2>1 DEF TypeOK
    <3>2. unread' \in [Threads -> SUBSET Threads]
      <4>1. PICK S \in SUBSET Threads : unread' = [unread EXCEPT ![t] = S]
        <5>1. {} \in SUBSET Threads /\ unread[t] \ {u} \in SUBSET Threads
          BY DEF TypeOK
        <5> QED
          BY <2>1, <5>1
      <4> QED
        BY <4>1 DEF TypeOK
    <3> QED
      BY <1>4, <3>1, <3>2 DEF canAdvance, TypeOK, info, tree
  <2>3. Guarded'
    BY <1>4, <2>1 DEF canAdvance, TypeOK, Guarded, Inside, info, tree
  <2> QED
    BY <2>2, <2>3
<1>5. ASSUME NEW t \in Threads, Advance(t) PROVE TypeOK' /\ Guarded'
  <2>1. mCurrentEpoch' \in Epochs
    BY <1>5, EpochArithmetic DEF Advance, TypeOK
  <2> QED
    BY <1>5, <2>1 DEF Advance, TypeOK, Guarded, Inside, info, tree
<1>6. ASSUME NEW t \in Threads, Follow(t) PROVE TypeOK' /\ Guarded'
  BY <1>6 DEF Follow, TypeOK, Guarded, Inside, info
<1>7. ASSUME NEW t \in Threads, Replace(t) PROVE TypeOK' /\ Guarded'
  <2> DEFINE list == mFreeLists[t][mLocalEpoch[t]] \union {link}
  <2>1. mLocalEpoch[t] \in Epochs /\ link \in Nodes
    BY <1>7 DEF Replace, TypeOK, Guarded, Inside, Nodes
  <2>2. list \in SUBSET Nodes
    BY <2>1 DEF TypeOK
  <2>3. mFreeLists' = [mFreeLists EXCEPT ![t][mLocalEpoch[t]] = list]
    BY <1>7 DEF Replace, scheduleForDeletion
  <2>4. mFreeLists' \in [Threads -> [Epochs -> SUBSET Nodes]]
    <3> HIDE DEF list
    <3> QED
      BY <2>1, <2>2, <2>3 DEF TypeOK
  <2>5. mThreadWantsToAdvance' \in [Threads -> BOOLEAN]
    BY <1>7 DEF Replace, scheduleForDeletion, TypeOK
  <2>6. /\ allocated' \in Nodes /\ link' \in 1 .. allocated'
        /\ 1 .. allocated \subseteq 1 .. allocated'
    BY <1>7 DEF Replace, TypeOK, Nodes
  <2> QED
    BY <1>7, <2>4, <2>5, <2>6 DEF Replace, TypeOK, Guarded, Inside
<1>8. ASSUME NEW t \in Threads, leave(t) PROVE TypeOK' /\ Guarded'
  BY <1>8 DEF leave, TypeOK, Guarded, Inside
<1>9. CASE Exit
  <2>1. freed' = freed \union Waiting
    BY <1>9 DEF Exit, Waiting
  <2>2. freed' \subseteq 1 .. allocated
    BY <2>1, WaitingInList, ListsAllocated DEF TypeOK
  <2> QED
    BY <1>9, <2>2 DEF Exit, TypeOK, Guarded, Inside, tree
<1> QED
  BY <1>1, <1>2, <1>3, <1>4, <1>5, <1>6, <1>7, <1>8, <1>9 DEF Next

\* RetiredOnce, node by node.
InList(n, t, e) == n \in mFreeLists[t][e]
Listed(n) == \E t \in Threads, e \in Epochs : InList(n, t, e)
OnePlace ==
  /\ \A n \in 1 .. allocated : n = link \/ n \in freed \/ Listed(n)
  /\ \A n : Listed(n) => n \in 1 .. allocated /\ n \notin freed /\ n # link
  /\ link \notin freed
  /\ \A n : \A t \in Threads, e \in Epochs, u \in Threads, f \in Epochs :
       InList(n, t, e) /\ InList(n, u, f) => t = u /\ e = f

LEMMA RetiredOnceIsOnePlace == TypeOK => (RetiredOnce <=> OnePlace)
<1> SUFFICES ASSUME TypeOK PROVE RetiredOnce <=> OnePlace
  OBVIOUS
<1>1. \A n : n \in Waiting <=> Listed(n)
  BY WaitingInList DEF Listed, InList
<1>2. ASSUME RetiredOnce PROVE OnePlace
  <2>1. 1 .. allocated = {link} \union freed \union Waiting
    BY <1>2 DEF RetiredOnce, Waiting
  <2>2. ASSUME NEW n, Listed(n) PROVE n \in 1 .. allocated /\ n \notin freed /\ n # link
    BY <1>1, <1>2, <2>1, <2>2 DEF RetiredOnce, Listed, InList
  <2>3. ASSUME NEW n, NEW t \in Threads, NEW e \in Epochs, NEW u \in Threads, NEW f \in Epochs,
               InList(n, t, e), InList(n, u, f)
        PROVE  t = u /\ e = f
    BY <1>2, <2>3 DEF RetiredOnce, InList
  <2> QED
    BY <1>1, <1>2, <2>1, <2>2, <2>3 DEF OnePlace, RetiredOnce
<1>3. ASSUME OnePlace PROVE RetiredOnce
  <2>1. 1 .. allocated = {link} \union freed \union Waiting
    BY <1>1, <1>3 DEF OnePlace, TypeOK
  <2>2. ASSUME NEW t \in Threads, NEW e \in Epochs
        PROVE  link \notin mFreeLists[t][e] /\ mFreeLists[t][e] \intersect freed = {}
    BY <1>3 DEF OnePlace, Listed, InList
  <2>3. ASSUME NEW t \in Threads, NEW e \in Epochs, NEW u \in Threads, NEW f \in Epochs,
               <<t, e>> # <<u, f>>
        PROVE  mFreeLists[t][e] \intersect mFreeLists[u][f] = {}
    BY <1>3, <2>3 DEF OnePlace, InList
  <2> QED
    BY <1>3, <2>1, <2>2, <2>3 DEF RetiredOnce, OnePlace, Waiting
<1> QED
  BY <1>2, <1>3

\* Nodes only move from the link to a list, and from a list to freed.
LEMMA EbrRetiredStep ==
  ASSUME TypeOK, Guarded, RetiredOnce, Next, TypeOK'
  PROVE  RetiredOnce'
<1>1. OnePlace
  BY RetiredOnceIsOnePlace
<1>2. SUFFICES OnePlace'
  <2>1. (TypeOK => (RetiredOnce <=> OnePlace))'
    BY RetiredOnceIsOnePlace, PTL
  <2> QED
    BY <1>2, <2>1
<1>3. CASE UNCHANGED <<mFreeLists, link, allocated, freed>>
  BY <1>1, <1>3 DEF OnePlace, Listed, InList
<1>4. ASSUME NEW t \in Threads, enter(t) PROVE OnePlace'
  <2>1. CASE mPreviouslyAccessedEpoch[t] = currentEpoch[t]
    BY <1>3, <1>4, <2>1 DEF enter, tree
  <2>2. CASE mPreviouslyAccessedEpoch[t] # currentEpoch[t]
    <3> DEFINE e == currentEpoch[t]
    <3>1. /\ freed' = freed \union mFreeLists[t][e] /\ UNCHANGED <<link, allocated>>
          /\ mFreeLists' = [mFreeLists EXCEPT ![t][e] = {}] /\ e \in Epochs
      BY <1>4, <2>2 DEF enter, freeForEpoch, tree, TypeOK
    <3> HIDE DEF e
    <3>2. \A n : \A u \in Threads, f \in Epochs :
            InList(n, u, f)' <=> InList(n, u, f) /\ <<u, f>> # <<t, e>>
      BY <3>1 DEF InList, TypeOK
    <3>3. \A n : n \in freed' <=> n \in freed \/ InList(n, t, e)
      BY <3>1 DEF InList
    <3> QED
      BY <1>1, <3>1, <3>2, <3>3 DEF OnePlace, Listed
  <2> QED
    BY <2>1, <2>2
<1>5. ASSUME NEW t \in Threads, Replace(t) PROVE OnePlace'
  <2> DEFINE e == mLocalEpoch[t]
  <2>1. /\ mFreeLists' = [mFreeLists EXCEPT ![t][e] = mFreeLists[t][e] \union {link}]
        /\ UNCHANGED freed /\ allocated' = allocated + 1 /\ link' = allocated + 1
    BY <1>5 DEF Replace, scheduleForDeletion
  <2>2. e \in Epochs
    BY <1>5 DEF Replace, TypeOK, Guarded, Inside
  <2> HIDE DEF e
  <2>3. \A n : \A u \in Threads, f \in Epochs :
          InList(n, u, f)' <=> InList(n, u, f) \/ (n = link /\ u = t /\ f = e)
    BY <2>1, <2>2 DEF InList, TypeOK
  <2>4. \A n : Listed(n)' <=> Listed(n) \/ n = link
    BY <2>2, <2>3 DEF Listed
  <2>5. /\ link \in 1 .. allocated /\ link' \notin 1 .. allocated /\ freed \subseteq 1 .. allocated
        /\ 1 .. allocated' = 1 .. allocated \union {link'}
    <3>1. allocated \in Nat \ {0}
      BY DEF TypeOK, Nodes
    <3>2. 1 .. (allocated + 1) = 1 .. allocated \union {allocated + 1}
      BY <3>1
    <3> QED
      BY <2>1, <3>1, <3>2 DEF TypeOK
  <2>6. ~Listed(link)
    BY <1>1 DEF OnePlace
  <2>7. ASSUME NEW n, NEW u \in Threads, NEW f \in Epochs, NEW v \in Threads, NEW g \in Epochs,
               InList(n, u, f)', InList(n, v, g)'
        PROVE  u = v /\ f = g
    BY <1>1, <2>3, <2>6, <2>7 DEF OnePlace, Listed
  <2> QED
    BY <1>1, <2>1, <2>4, <2>5, <2>7 DEF OnePlace
<1>6. CASE Exit
  <2>1. /\ freed' = freed \union Waiting /\ UNCHANGED <<link, allocated>>
        /\ mFreeLists' = [t \in Threads |-> [e \in Epochs |-> {}]]
    BY <1>6 DEF Exit, tree, Waiting
  <2>2. \A n : n \in freed' <=> n \in freed \/ Listed(n)
    BY <2>1, WaitingInList DEF Listed, InList
  <2>3. \A n : \A t \in Threads, e \in Epochs : ~InList(n, t, e)'
    BY <2>1 DEF InList
  <2> QED
    BY <1>1, <2>1, <2>2, <2>3 DEF OnePlace, Listed
<1> QED
  BY <1>3, <1>4, <1>5, <1>6
     DEF Next, Load, doesThreadWantToAdvanceEpoch, canAdvance, Advance, Follow, leave, info, tree

LEMMA EbrListsStep == ListsInv /\ [Next]_vars => ListsInv'
<1> SUFFICES ASSUME ListsInv, [Next]_vars PROVE ListsInv'
  OBVIOUS
<1>1. CASE Next
  BY <1>1, EbrTypeStep, EbrRetiredStep DEF ListsInv
<1>2. CASE UNCHANGED vars
  <2>1. TypeOK'
    BY <1>2 DEF ListsInv, TypeOK, vars, info, tree
  <2>2. Guarded'
    BY <1>2 DEF ListsInv, Guarded, Inside, vars, info, tree
  <2>3. RetiredOnce'
    BY <1>2 DEF ListsInv, RetiredOnce, vars, info, tree
  <2> QED
    BY <2>1, <2>2, <2>3 DEF ListsInv
<1> QED
  BY <1>1, <1>2

LEMMA EbrLists == Spec => []ListsInv
  BY EbrListsInit, EbrListsStep, PTL DEF Spec

\* The state of the reclamation keeps its types.
THEOREM EbrTypeCorrect == Spec => []TypeOK
  BY EbrLists, PTL DEF ListsInv

\* safe_delete_node: a node taken out of the tree waits in one free list and is
\* freed from it once, and the node the tree reaches is in no list.
THEOREM EbrRetiredOnce == Spec => []RetiredOnce
  BY EbrLists, PTL DEF ListsInv

-----------------------------------------------------------------------------
(* Epochs and pointers, until an announcement is late *)

LEMMA EbrInit == Init => EbrInv
<1> SUFFICES ASSUME Init PROVE EbrInv
  OBVIOUS
<1>1. ListsInv
  BY EbrListsInit
<1>2. EpochSkew /\ Scanned /\ NoUseAfterFree
  BY DEF Init, EpochSkew, Scanned, NoUseAfterFree
<1>3. Pinned
  BY DEF Init, Pinned, HeldIn
<1> QED
  BY <1>1, <1>2, <1>3 DEF EbrInv, Timely

\* An announcement that is not late is of the epoch.
LEMMA TimelyEnter ==
  ASSUME NEW t \in Threads, enter(t), ~late'
  PROVE  currentEpoch[t] = mCurrentEpoch /\ UNCHANGED mCurrentEpoch
  BY DEF enter

\* A step that moves the epoch: whoever has announced has announced the epoch
\* it moves from.
LEMMA EpochMoves ==
  ASSUME Timely, NEW t \in Threads, Advance(t), mCurrentEpoch = currentEpoch[t]
  PROVE  /\ mCurrentEpoch' = NEXT_EPOCH(mCurrentEpoch)
         /\ \A u \in Threads : mLocalEpoch[u] \in {mCurrentEpoch, Outside}
<1>1. ASSUME NEW u \in Threads, mLocalEpoch[u] # Outside PROVE mLocalEpoch[u] = mCurrentEpoch
  <2>1. /\ mCurrentEpoch \in {mLocalEpoch[u], NEXT_EPOCH(mLocalEpoch[u])}
        /\ mLocalEpoch[u] \in Epochs
    BY <1>1 DEF Timely, ListsInv, TypeOK, EpochSkew
  <2>2. mLocalEpoch[u] # PREVIOUS_EPOCH(mCurrentEpoch)
    BY DEF Timely, Scanned, Advance
  <2> QED
    BY <2>1, <2>2, EpochArithmetic
<1> QED
  BY <1>1 DEF Advance

LEMMA EpochSkewStep ==
  ASSUME Timely, Next, ~late' PROVE EpochSkew'
<1>1. ASSUME NEW t \in Threads, enter(t) PROVE EpochSkew'
  <2>1. mLocalEpoch' = [mLocalEpoch EXCEPT ![t] = mCurrentEpoch] /\ UNCHANGED mCurrentEpoch
    BY <1>1, TimelyEnter DEF enter
  <2> QED
    BY <2>1 DEF EpochSkew, Timely, ListsInv, TypeOK
<1>2. ASSUME NEW t \in Threads, Advance(t) PROVE EpochSkew'
  <2>1. CASE mCurrentEpoch = currentEpoch[t]
    BY <1>2, <2>1, EpochMoves DEF EpochSkew, Advance, info
  <2>2. CASE mCurrentEpoch # currentEpoch[t]
    BY <1>2, <2>2 DEF EpochSkew, Advance, info, Timely
  <2> QED
    BY <2>1, <2>2
<1>3. ASSUME NEW t \in Threads, leave(t) PROVE EpochSkew'
  BY <1>3 DEF EpochSkew, leave, Timely, ListsInv, TypeOK
<1>4. ASSUME UNCHANGED <<mCurrentEpoch, mLocalEpoch>> PROVE EpochSkew'
  BY <1>4 DEF EpochSkew, Timely
<1> QED
  BY <1>1, <1>2, <1>3, <1>4 DEF Next, Load, doesThreadWantToAdvanceEpoch, canAdvance,
                                Follow, Replace, Exit, info

LEMMA ScannedStep ==
  ASSUME Timely, Next, ~late' PROVE Scanned'
<1> SUFFICES ASSUME NEW s \in Threads, pc'[s] = "scan", mCurrentEpoch' = currentEpoch'[s],
                    NEW u \in Threads \ unread'[s]
             PROVE  mLocalEpoch'[u] # PREVIOUS_EPOCH(currentEpoch'[s])
  BY DEF Scanned
<1>0. TypeOK /\ Guarded /\ EpochSkew /\ Scanned
  BY DEF Timely, ListsInv
<1>e. mCurrentEpoch \in Epochs /\ mCurrentEpoch # PREVIOUS_EPOCH(mCurrentEpoch)
  BY <1>0, EpochArithmetic DEF TypeOK
<1>1. ASSUME NEW t \in Threads, Load(t) PROVE mLocalEpoch'[u] # PREVIOUS_EPOCH(currentEpoch'[s])
  BY <1>0, <1>1 DEF Load, TypeOK, Scanned, info
<1>2. ASSUME NEW t \in Threads, enter(t) PROVE mLocalEpoch'[u] # PREVIOUS_EPOCH(currentEpoch'[s])
  <2>1. /\ mLocalEpoch' = [mLocalEpoch EXCEPT ![t] = mCurrentEpoch]
        /\ UNCHANGED <<mCurrentEpoch, currentEpoch, unread>> /\ pc[s] = "scan"
    BY <1>0, <1>2, TimelyEnter DEF enter, TypeOK
  <2> QED
    BY <1>0, <1>e, <2>1 DEF Scanned, TypeOK
<1>3. ASSUME NEW t \in Threads, doesThreadWantToAdvanceEpoch(t)
      PROVE  mLocalEpoch'[u] # PREVIOUS_EPOCH(currentEpoch'[s])
  <2>1. s # t
    BY <1>0, <1>3 DEF doesThreadWantToAdvanceEpoch, TypeOK
  <2> QED
    BY <1>0, <1>3, <2>1 DEF doesThreadWantToAdvanceEpoch, TypeOK, Scanned, info
<1>4. ASSUME NEW t \in Threads, canAdvance(t) PROVE mLocalEpoch'[u] # PREVIOUS_EPOCH(currentEpoch'[s])
  <2>1. CASE s # t
    BY <1>0, <1>4, <2>1 DEF canAdvance, TypeOK, Scanned, info
  <2>2. CASE s = t
    <3>1. PICK v \in unread[t] :
            mLocalEpoch[v] # PREVIOUS_EPOCH(currentEpoch[t]) /\ unread'[t] = unread[t] \ {v}
      BY <1>0, <1>4, <2>2 DEF canAdvance, TypeOK, Blocking
    <3> QED
      BY <1>0, <1>4, <2>2, <3>1 DEF canAdvance, Scanned, info
  <2> QED
    BY <2>1, <2>2
<1>5. ASSUME NEW t \in Threads, Advance(t) PROVE mLocalEpoch'[u] # PREVIOUS_EPOCH(currentEpoch'[s])
  <2>1. s # t /\ pc[s] = "scan" /\ UNCHANGED <<mLocalEpoch, currentEpoch, unread>>
    BY <1>0, <1>5 DEF Advance, TypeOK, info
  <2>2. CASE mCurrentEpoch = currentEpoch[t]
    <3>1. mCurrentEpoch' = NEXT_EPOCH(mCurrentEpoch) /\ mLocalEpoch[s] \in {mCurrentEpoch, Outside}
      BY <1>5, <2>2, EpochMoves
    <3>2. mLocalEpoch[s] = currentEpoch[s] /\ currentEpoch[s] \in Epochs
      BY <1>0, <2>1 DEF Guarded, Inside, TypeOK
    <3> QED
      BY <1>e, <2>1, <3>1, <3>2, EpochArithmetic
  <2>3. CASE mCurrentEpoch # currentEpoch[t]
    BY <1>0, <1>5, <2>1, <2>3 DEF Advance, Scanned
  <2> QED
    BY <2>2, <2>3
<1>6. ASSUME NEW t \in Threads, Follow(t) \/ Replace(t)
      PROVE  mLocalEpoch'[u] # PREVIOUS_EPOCH(currentEpoch'[s])
  BY <1>0, <1>6 DEF Follow, Replace, Scanned, info
<1>7. ASSUME NEW t \in Threads, leave(t) PROVE mLocalEpoch'[u] # PREVIOUS_EPOCH(currentEpoch'[s])
  <2>1. PREVIOUS_EPOCH(currentEpoch[s]) # Outside
    BY <1>0, EpochArithmetic DEF TypeOK
  <2> QED
    BY <1>0, <1>7, <2>1 DEF leave, TypeOK, Scanned
<1>8. CASE Exit
  BY <1>8 DEF Exit
<1> QED
  BY <1>1, <1>2, <1>3, <1>4, <1>5, <1>6, <1>7, <1>8 DEF Next

\* Where a holder is, and how the epochs of the two threads relate.
LEMMA HolderInside ==
  ASSUME Timely, NEW h \in Threads, NEW u \in Threads, NEW f \in Epochs, HeldIn(h, u, f)
  PROVE  /\ pc[h] = "in" /\ mLocalEpoch[h] \in Epochs
         /\ mCurrentEpoch \in {mLocalEpoch[h], NEXT_EPOCH(mLocalEpoch[h])}
<1>1. pc[h] = "in"
  BY DEF Timely, ListsInv, Guarded, HeldIn
<1>2. mLocalEpoch[h] \in Epochs /\ mLocalEpoch[h] # Outside
  BY <1>1, EpochArithmetic DEF Timely, ListsInv, Guarded, Inside, TypeOK
<1> QED
  BY <1>1, <1>2 DEF Timely, EpochSkew

\* enter frees a list nobody holds a node of.
LEMMA FreedUnheld ==
  ASSUME Timely, NEW t \in Threads, enter(t), ~late',
         mPreviouslyAccessedEpoch[t] # currentEpoch[t]
  PROVE  /\ currentEpoch[t] = mCurrentEpoch /\ currentEpoch[t] \in Epochs
         /\ \A h \in Threads : ~HeldIn(h, t, mCurrentEpoch)
  BY TimelyEnter DEF enter, Timely, ListsInv, TypeOK, Pinned

LEMMA PinnedStep ==
  ASSUME Timely, Next, ~late' PROVE Pinned'
<1> SUFFICES ASSUME NEW h \in Threads, NEW u \in Threads, NEW f \in Epochs, HeldIn(h, u, f)'
             PROVE  /\ f = mCurrentEpoch' => mPreviouslyAccessedEpoch'[u] = f
                    /\ f = NEXT_EPOCH(mLocalEpoch'[h]) => mCurrentEpoch' = f
  BY DEF Pinned, HeldIn
<1> DEFINE Goal == /\ f = mCurrentEpoch' => mPreviouslyAccessedEpoch'[u] = f
                   /\ f = NEXT_EPOCH(mLocalEpoch'[h]) => mCurrentEpoch' = f
<1>0. TypeOK /\ Guarded /\ RetiredOnce /\ EpochSkew /\ Pinned
  BY DEF Timely, ListsInv
<1>1. ASSUME HeldIn(h, u, f),
             UNCHANGED <<mCurrentEpoch, mPreviouslyAccessedEpoch>>, mLocalEpoch'[h] = mLocalEpoch[h]
      PROVE  Goal
  BY <1>0, <1>1 DEF Pinned
<1>2. ASSUME NEW t \in Threads, enter(t) PROVE Goal
  <2>1. HeldIn(h, u, f) /\ (mPreviouslyAccessedEpoch[t] # currentEpoch[t] => ~(u = t /\ f = currentEpoch[t]))
    BY <1>0, <1>2 DEF enter, freeForEpoch, tree, TypeOK, HeldIn
  <2>2. h # t
    BY <1>2, <2>1, HolderInside DEF enter
  <2>3. mLocalEpoch'[h] = mLocalEpoch[h] /\ UNCHANGED mCurrentEpoch
    BY <1>0, <1>2, <2>2 DEF enter, TypeOK
  <2>4. CASE mPreviouslyAccessedEpoch[t] = currentEpoch[t]
    BY <1>1, <1>2, <2>1, <2>3, <2>4 DEF enter
  <2>5. CASE mPreviouslyAccessedEpoch[t] # currentEpoch[t]
    <3>1. currentEpoch[t] = mCurrentEpoch
      BY <1>2, <2>5, FreedUnheld
    <3>2. mPreviouslyAccessedEpoch'[u] = IF u = t THEN mCurrentEpoch ELSE mPreviouslyAccessedEpoch[u]
      BY <1>0, <1>2, <2>5, <3>1 DEF enter, TypeOK
    <3> QED
      BY <1>0, <2>1, <2>3, <2>5, <3>1, <3>2 DEF Pinned
  <2> QED
    BY <2>4, <2>5
<1>3. ASSUME NEW t \in Threads, Advance(t) PROVE Goal
  <2>1. HeldIn(h, u, f) /\ UNCHANGED <<mLocalEpoch, mPreviouslyAccessedEpoch>>
    BY <1>3 DEF Advance, info, tree, HeldIn
  <2>2. CASE mCurrentEpoch = currentEpoch[t]
    <3>1. mCurrentEpoch' = NEXT_EPOCH(mCurrentEpoch) /\ mLocalEpoch[h] \in {mCurrentEpoch, Outside}
      BY <1>3, <2>2, EpochMoves
    <3>2. mLocalEpoch[h] = mCurrentEpoch /\ mCurrentEpoch \in Epochs
      BY <2>1, <3>1, HolderInside, EpochArithmetic
    <3>3. f # NEXT_EPOCH(mLocalEpoch[h])
      BY <1>0, <2>1, <3>2, EpochArithmetic DEF Pinned
    <3> QED
      BY <2>1, <3>1, <3>2, <3>3
  <2>3. CASE mCurrentEpoch # currentEpoch[t]
    BY <1>1, <1>3, <2>1, <2>3 DEF Advance
  <2> QED
    BY <2>2, <2>3
<1>4. ASSUME NEW t \in Threads, Follow(t) PROVE Goal
  <2>1. HeldIn(h, u, f)
    <3>1. link \notin mFreeLists[u][f]
      BY <1>0 DEF RetiredOnce
    <3>2. held'[h] \subseteq held[h] \union {link} /\ UNCHANGED mFreeLists
      BY <1>0, <1>4 DEF Follow, TypeOK, info
    <3> QED
      BY <3>1, <3>2 DEF HeldIn
  <2> QED
    BY <1>1, <1>4, <2>1 DEF Follow, info
<1>5. ASSUME NEW t \in Threads, Replace(t) PROVE Goal
  <2> DEFINE e == mLocalEpoch[t]
  <2>1. e \in Epochs /\ mPreviouslyAccessedEpoch[t] = e /\ e # Outside
    BY <1>0, <1>5, EpochArithmetic DEF Replace, Guarded, Inside, TypeOK
  <2>2. /\ mFreeLists' = [mFreeLists EXCEPT ![t][e] = mFreeLists[t][e] \union {link}]
        /\ UNCHANGED <<mCurrentEpoch, mLocalEpoch, mPreviouslyAccessedEpoch, held, pc>>
    BY <1>5 DEF Replace, scheduleForDeletion
  <2>3. CASE HeldIn(h, u, f)
    BY <1>1, <2>2, <2>3
  <2>4. CASE ~HeldIn(h, u, f)
    <3>1. u = t /\ f = e /\ held[h] # {}
      BY <1>0, <2>1, <2>2, <2>4 DEF HeldIn, TypeOK
    <3>2. pc[h] = "in"
      BY <1>0, <3>1 DEF Guarded
    <3>3. mLocalEpoch[h] \in Epochs /\ mLocalEpoch[h] # Outside
      BY <1>0, <3>2, EpochArithmetic DEF Guarded, Inside, TypeOK
    <3>4. /\ mCurrentEpoch \in {e, NEXT_EPOCH(e)}
          /\ mCurrentEpoch \in {mLocalEpoch[h], NEXT_EPOCH(mLocalEpoch[h])}
      BY <1>0, <2>1, <3>3 DEF EpochSkew
    <3>5. e = NEXT_EPOCH(mLocalEpoch[h]) => mCurrentEpoch = e
      BY <3>3, <3>4, EpochArithmetic
    <3> QED
      BY <2>1, <2>2, <3>1, <3>5
  <2> QED
    BY <2>3, <2>4
<1>6. ASSUME NEW t \in Threads, leave(t) PROVE Goal
  <2>1. h # t /\ HeldIn(h, u, f)
    BY <1>0, <1>6 DEF leave, HeldIn, TypeOK
  <2> QED
    BY <1>0, <1>1, <1>6, <2>1 DEF leave, TypeOK
<1>7. CASE Exit
  BY <1>0, <1>7 DEF Exit, tree, HeldIn, Guarded
<1>8. ASSUME UNCHANGED <<mCurrentEpoch, mPreviouslyAccessedEpoch, mLocalEpoch, mFreeLists, held>>
      PROVE  Goal
  BY <1>1, <1>8 DEF HeldIn
<1> QED
  BY <1>2, <1>3, <1>4, <1>5, <1>6, <1>7, <1>8
     DEF Next, Load, doesThreadWantToAdvanceEpoch, canAdvance, info, tree

LEMMA UnfreedStep ==
  ASSUME Timely, Next, ~late' PROVE NoUseAfterFree'
<1>0. TypeOK /\ Guarded /\ RetiredOnce /\ NoUseAfterFree
  BY DEF Timely, ListsInv
<1>1. ASSUME NEW t \in Threads, enter(t) PROVE NoUseAfterFree'
  <2>1. CASE mPreviouslyAccessedEpoch[t] = currentEpoch[t]
    BY <1>0, <1>1, <2>1 DEF enter, tree, NoUseAfterFree
  <2>2. CASE mPreviouslyAccessedEpoch[t] # currentEpoch[t]
    <3>1. freed' = freed \union mFreeLists[t][mCurrentEpoch] /\ UNCHANGED held
      BY <1>1, <2>2, FreedUnheld DEF enter, freeForEpoch, tree
    <3> QED
      BY <1>0, <1>1, <2>2, <3>1, FreedUnheld DEF NoUseAfterFree, HeldIn
  <2> QED
    BY <2>1, <2>2
<1>2. ASSUME NEW t \in Threads, Follow(t) PROVE NoUseAfterFree'
  <2>1. link \notin freed /\ \A h \in Threads : held'[h] \subseteq held[h] \union {link}
    BY <1>0, <1>2 DEF RetiredOnce, Follow, TypeOK
  <2> QED
    BY <1>0, <1>2, <2>1 DEF NoUseAfterFree, Follow
<1>3. ASSUME NEW t \in Threads, leave(t) PROVE NoUseAfterFree'
  BY <1>0, <1>3 DEF leave, NoUseAfterFree, TypeOK
<1>4. CASE Exit
  BY <1>0, <1>4 DEF Exit, tree, Guarded, NoUseAfterFree
<1>5. ASSUME UNCHANGED <<held, freed>> PROVE NoUseAfterFree'
  BY <1>0, <1>5 DEF NoUseAfterFree
<1> QED
  BY <1>1, <1>2, <1>3, <1>4, <1>5
     DEF Next, Load, doesThreadWantToAdvanceEpoch, canAdvance, Advance, Replace, tree

LEMMA EbrStep == EbrInv /\ [Next]_vars => EbrInv'
<1> SUFFICES ASSUME EbrInv, [Next]_vars PROVE EbrInv'
  OBVIOUS
<1>1. ListsInv'
  BY EbrListsStep DEF EbrInv
<1>2. late => late'
  <2>1. ASSUME NEW t \in Threads, enter(t) PROVE late => late'
    BY <2>1 DEF enter
  <2>2. ASSUME UNCHANGED late PROVE late => late'
    BY <2>2
  <2>3. ASSUME NEW t \in Threads,
               \/ Load(t) \/ doesThreadWantToAdvanceEpoch(t) \/ canAdvance(t)
               \/ Advance(t) \/ Follow(t) \/ Replace(t) \/ leave(t)
        PROVE  UNCHANGED late
    BY <2>3 DEF Load, doesThreadWantToAdvanceEpoch, canAdvance, Advance, Follow, Replace, leave
  <2>4. Exit \/ UNCHANGED vars => UNCHANGED late
    BY DEF Exit, vars
  <2> QED
    BY <2>1, <2>2, <2>3, <2>4 DEF Next
<1>3. ASSUME ~late' PROVE Timely'
  <2>1. Timely
    BY <1>2, <1>3 DEF EbrInv
  <2>2. CASE Next
    BY <1>1, <1>3, <2>1, <2>2, EpochSkewStep, ScannedStep, PinnedStep, UnfreedStep DEF Timely
  <2>3. CASE UNCHANGED vars
    <3>1. EpochSkew' /\ NoUseAfterFree'
      BY <2>1, <2>3 DEF Timely, EpochSkew, NoUseAfterFree, vars, info, tree
    <3>2. Scanned' /\ Pinned'
      BY <2>1, <2>3 DEF Timely, Scanned, Pinned, HeldIn, vars, info, tree
    <3> QED
      BY <1>1, <3>1, <3>2 DEF Timely
  <2> QED
    BY <2>2, <2>3
<1> QED
  BY <1>1, <1>3 DEF EbrInv

LEMMA EbrInvariant == Spec => []EbrInv
  BY EbrInit, EbrStep, PTL DEF Spec

\* canAdvance: until a thread announces an epoch that has passed, the global
\* epoch is the one that a thread inside has announced or the one after it.
THEOREM EbrSkewUnlessLate == Spec => []SkewUnlessLate
<1>1. EbrInv => SkewUnlessLate
  BY DEF EbrInv, Timely, SkewUnlessLate
<1> QED
  BY <1>1, EbrInvariant, PTL

\* EpochGuard: until a thread announces an epoch that has passed, no thread has
\* a pointer to a node that has been freed.
THEOREM EbrSafeUnlessLate == Spec => []SafeUnlessLate
<1>1. EbrInv => SafeUnlessLate
  BY DEF EbrInv, Timely, SafeUnlessLate
<1> QED
  BY <1>1, EbrInvariant, PTL

=============================================================================
