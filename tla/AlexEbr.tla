------------------------------ MODULE AlexEbr ------------------------------
(***************************************************************************)
(* Epoch based reclamation of ALEX+ (alexol/src/alex.h).  Every operation   *)
(* of the index holds an EpochGuard: it announces the global epoch on entry  *)
(* and 3 on exit.  A node taken out of the tree goes to the free list of the  *)
(* announced epoch of the thread that took it out, and is freed when that     *)
(* thread next enters the same epoch, three advances later.  The epoch        *)
(* advances when no thread has announced the epoch before it.                *)
(*                                                                         *)
(* The tree is reduced to what reclamation is about: `link' is a pointer     *)
(* that operations follow, and that inserts and erases replace by a new node. *)
(***************************************************************************)
EXTENDS Naturals, FiniteSets

CONSTANTS
  Threads,
  BatchSize,   \* 64 in scheduleForDeletion
  MaxNodes     \* bound: nodes ever allocated

ASSUME EbrAssumption ==
  /\ BatchSize \in Nat \ {0}
  /\ MaxNodes \in Nat \ {0}

VARIABLES
  mCurrentEpoch,
  mLocalEpoch, mPreviouslyAccessedEpoch, mThreadWantsToAdvance, mFreeLists,
  link,        \* the node the tree reaches
  allocated,   \* nodes are numbered in the order of their allocation
  freed,
  held,        \* nodes a thread has a pointer to
  pc,          \* where a thread is in enterCriticalSection
  currentEpoch,\* its local variable of that name
  unread,      \* threads canAdvance has still to look at
  late         \* history: some announcement was of an epoch that had passed

info == <<mLocalEpoch, mPreviouslyAccessedEpoch, mThreadWantsToAdvance, mFreeLists>>
tree == <<link, allocated, held>>
vars == <<mCurrentEpoch, info, tree, freed, pc, currentEpoch, unread, late>>

Epochs == 0 .. 2
Outside == 3
NextEpochNoWrap(e) == e + 1
NEXT_EPOCH(e) == (e + 1) % 3
PREVIOUS_EPOCH(e) == (e + 2) % 3
Nodes == 1 .. MaxNodes

TypeOK ==
  /\ mCurrentEpoch \in Epochs
  /\ mLocalEpoch \in [Threads -> Epochs \union {Outside}]
  /\ mPreviouslyAccessedEpoch \in [Threads -> Epochs \union {Outside}]
  /\ mThreadWantsToAdvance \in [Threads -> BOOLEAN]
  /\ mFreeLists \in [Threads -> [Epochs -> SUBSET Nodes]]
  /\ link \in 1 .. allocated
  /\ allocated \in Nodes
  /\ freed \in SUBSET (1 .. allocated)
  /\ held \in [Threads -> SUBSET (1 .. allocated)]
  /\ pc \in [Threads -> {"out", "loaded", "entered", "scan", "in", "exited"}]
  /\ currentEpoch \in [Threads -> Epochs]
  /\ unread \in [Threads -> SUBSET Threads]
  /\ late \in BOOLEAN

Init ==
  /\ mCurrentEpoch = 0
  /\ mLocalEpoch = [t \in Threads |-> Outside]
  /\ mPreviouslyAccessedEpoch = [t \in Threads |-> Outside]
  /\ mThreadWantsToAdvance = [t \in Threads |-> FALSE]
  /\ mFreeLists = [t \in Threads |-> [e \in Epochs |-> {}]]
  /\ link = 1 /\ allocated = 1 /\ freed = {}
  /\ held = [t \in Threads |-> {}]
  /\ pc = [t \in Threads |-> "out"]
  /\ currentEpoch = [t \in Threads |-> 0]
  /\ unread = [t \in Threads |-> {}]
  /\ late = FALSE

-----------------------------------------------------------------------------
(* enterCriticalSection, in the constructor of EpochGuard *)

\* The load of mCurrentEpoch.
Load(t) ==
  /\ pc[t] = "out"
  /\ currentEpoch' = [currentEpoch EXCEPT ![t] = mCurrentEpoch]
  /\ pc' = [pc EXCEPT ![t] = "loaded"]
  /\ UNCHANGED <<mCurrentEpoch, info, tree, freed, unread, late>>

freeForEpochKeepList(t, e) ==
  /\ freed' = freed \union mFreeLists[t][e]
  /\ UNCHANGED mFreeLists

freeForEpochEarly(t, e) ==
  /\ freed' = freed \union mFreeLists[t][NEXT_EPOCH(e)]
  /\ mFreeLists' = [mFreeLists EXCEPT ![t][NEXT_EPOCH(e)] = {}]

freeForEpoch(t, e) ==
  /\ freed' = freed \union mFreeLists[t][e]
  /\ mFreeLists' = [mFreeLists EXCEPT ![t][e] = {}]

\* enter(newEpoch) frees before it announces; the list is the thread's own.
enter(t) ==
  LET newEpoch == currentEpoch[t] IN
  /\ pc[t] = "loaded"
  /\ IF mPreviouslyAccessedEpoch[t] # newEpoch
     THEN /\ freeForEpoch(t, newEpoch)
          /\ mThreadWantsToAdvance' = [mThreadWantsToAdvance EXCEPT ![t] = FALSE]
          /\ mPreviouslyAccessedEpoch' = [mPreviouslyAccessedEpoch EXCEPT ![t] = newEpoch]
     ELSE UNCHANGED <<freed, mFreeLists, mThreadWantsToAdvance, mPreviouslyAccessedEpoch>>
  /\ mLocalEpoch' = [mLocalEpoch EXCEPT ![t] = newEpoch]
  /\ late' = (late \/ newEpoch # mCurrentEpoch)
  /\ pc' = [pc EXCEPT ![t] = "entered"]
  /\ UNCHANGED <<mCurrentEpoch, tree, currentEpoch, unread>>

doesThreadWantToAdvanceEpoch(t) ==
  /\ pc[t] = "entered"
  /\ IF mThreadWantsToAdvance[t]
     THEN /\ pc' = [pc EXCEPT ![t] = "scan"]
          /\ unread' = [unread EXCEPT ![t] = Threads]
     ELSE /\ pc' = [pc EXCEPT ![t] = "in"]
          /\ UNCHANGED unread
  /\ UNCHANGED <<mCurrentEpoch, info, tree, freed, currentEpoch, late>>

\* The announced epoch that holds an advance from e back.
BlockingNext(e) == NEXT_EPOCH(e)
Blocking(e) == PREVIOUS_EPOCH(e)

\* canAdvance reads the announcements one by one; any_of stops at the first
\* that blocks.  The container gives no order.
canAdvance(t) ==
  /\ pc[t] = "scan"
  /\ \E u \in unread[t] :
       IF mLocalEpoch[u] = Blocking(currentEpoch[t])
       THEN /\ pc' = [pc EXCEPT ![t] = "in"]
            /\ unread' = [unread EXCEPT ![t] = {}]
       ELSE /\ unread' = [unread EXCEPT ![t] = @ \ {u}]
            /\ UNCHANGED pc
  /\ UNCHANGED <<mCurrentEpoch, info, tree, freed, currentEpoch, late>>

\* compare_exchange_strong(currentEpoch, NEXT_EPOCH[currentEpoch]).
Advance(t) ==
  /\ pc[t] = "scan" /\ unread[t] = {}
  /\ mCurrentEpoch' = IF mCurrentEpoch = currentEpoch[t]
                      THEN NEXT_EPOCH(currentEpoch[t]) ELSE mCurrentEpoch
  /\ pc' = [pc EXCEPT ![t] = "in"]
  /\ UNCHANGED <<info, tree, freed, currentEpoch, unread, late>>

-----------------------------------------------------------------------------
(* Inside the guard *)

\* A traversal loads the pointer.
Follow(t) ==
  /\ pc[t] = "in"
  /\ held' = [held EXCEPT ![t] = @ \union {link}]
  /\ UNCHANGED <<mCurrentEpoch, info, link, allocated, freed, pc, currentEpoch, unread, late>>

\* scheduleForDeletion asks for an advance each time the list reaches a
\* multiple of BatchSize, and forgets the wish at any other size.
scheduleForDeletion(t, node) ==
  LET list == mFreeLists[t][mLocalEpoch[t]] \union {node} IN
  /\ mFreeLists' = [mFreeLists EXCEPT ![t][mLocalEpoch[t]] = list]
  /\ mThreadWantsToAdvance' = [mThreadWantsToAdvance EXCEPT
                                 ![t] = Cardinality(list) % BatchSize = 0]

\* A resize or a split puts a new node in the place of the old one, which
\* safe_delete_node retires.
Replace(t) ==
  /\ pc[t] = "in" /\ allocated < MaxNodes
  /\ allocated' = allocated + 1
  /\ link' = allocated + 1
  /\ scheduleForDeletion(t, link)
  /\ UNCHANGED <<mCurrentEpoch, mLocalEpoch, mPreviouslyAccessedEpoch, freed, held,
                 pc, currentEpoch, unread, late>>

\* ~EpochGuard: the operation returns and drops its pointers.
leave(t) ==
  /\ pc[t] = "in"
  /\ mLocalEpoch' = [mLocalEpoch EXCEPT ![t] = Outside]
  /\ held' = [held EXCEPT ![t] = {}]
  /\ pc' = [pc EXCEPT ![t] = "out"]
  /\ UNCHANGED <<mCurrentEpoch, mPreviouslyAccessedEpoch, mThreadWantsToAdvance,
                 mFreeLists, link, allocated, freed, currentEpoch, unread, late>>

\* The static instance is destroyed when the process exits, its workers
\* joined: the destructor of each thread's information frees its three lists.
Exit ==
  /\ \A t \in Threads : pc[t] = "out"
  /\ freed' = freed \union UNION {mFreeLists[t][e] : t \in Threads, e \in Epochs}
  /\ mFreeLists' = [t \in Threads |-> [e \in Epochs |-> {}]]
  /\ pc' = [t \in Threads |-> "exited"]
  /\ UNCHANGED <<mCurrentEpoch, mLocalEpoch, mPreviouslyAccessedEpoch,
                 mThreadWantsToAdvance, tree, currentEpoch, unread, late>>

Next ==
  \/ \E t \in Threads :
       \/ Load(t) \/ enter(t) \/ doesThreadWantToAdvanceEpoch(t)
       \/ canAdvance(t) \/ Advance(t)
       \/ Follow(t) \/ Replace(t) \/ leave(t)
  \/ Exit

Spec == Init /\ [][Next]_vars
-----------------------------------------------------------------------------
\* What the guard is for: no thread has a pointer to a freed node.
NoUseAfterFree == \A t \in Threads : held[t] \intersect freed = {}

\* enterCriticalSection loads the epoch and announces it later.  As long as no
\* thread has announced an epoch that had already passed, nothing is freed while
\* a thread has a pointer to it.
SafeUnlessLate == late \/ NoUseAfterFree

\* A retired node waits in one free list and is then freed, once: every node
\* ever allocated is reachable, waiting in one list, or freed, and only one of
\* the three.
RetiredOnce ==
  /\ 1 .. allocated = {link} \union freed
                         \union UNION {mFreeLists[t][e] : t \in Threads, e \in Epochs}
  /\ link \notin freed
  /\ \A t \in Threads, e \in Epochs :
       /\ link \notin mFreeLists[t][e]
       /\ mFreeLists[t][e] \intersect freed = {}
       /\ \A u \in Threads, f \in Epochs :
            <<t, e>> # <<u, f>> => mFreeLists[t][e] \intersect mFreeLists[u][f] = {}

\* A thread that stays inside holds the epoch back: the global epoch is the
\* announced one or the next, so the announced one's lists are not reused.
EpochSkew ==
  \A t \in Threads :
    mLocalEpoch[t] # Outside => mCurrentEpoch \in {mLocalEpoch[t], NEXT_EPOCH(mLocalEpoch[t])}

\* canAdvance holds the epoch back for everyone inside, as long as no thread has
\* announced an epoch that had already passed.
SkewUnlessLate == late \/ EpochSkew
=============================================================================
