-------------------------- MODULE XIndexRcuProofs --------------------------
(***************************************************************************)
(* Safety of XIndex's RCU, for any number of workers, background threads,   *)
(* operations and published objects, as long as one XIndex is built.        *)
(* With a second XIndex the theorem is false: config.exited stays set.      *)
(***************************************************************************)
EXTENDS XIndexRcu, TLAPS

\* Worker w still holds an object that b's pointer no longer names.
HoldsOld(b, w) == \E r \in refs[w] : r[1] = b /\ r[2] < cur[b]

\* exited is only set by the destructor of the one XIndex, and workers only
\* run between its construction and its destruction.
Lifetime ==
  /\ live => inst >= 1
  /\ exited => ~live /\ inst = Len(ThreadNums)
  /\ \A w \in Workers : inop[w] => live /\ w < worker_n
  /\ \A w \in Workers : ~inop[w] => refs[w] = {}

\* What a worker holds was named by the pointer, and is not deleted.
Held ==
  /\ \A b \in Bgs : freed[b] <= cur[b]
  /\ \A w \in Workers : \A r \in refs[w] :
       r[2] <= cur[r[1]] /\ r[2] >= freed[r[1]]

\* A worker that holds the object b has unpublished has made no progress
\* since b took its snapshot, so b is still going to wait for it.
Grace ==
  \A b \in Bgs : \A w \in Workers : HoldsOld(b, w) =>
    /\ bpc[b] \in {"snap", "wait"}
    /\ bpc[b] = "snap" => (w < w_i[b] => status[w] <= prev_status[b][w])
    /\ bpc[b] = "wait" => w_i[b] <= w /\ status[w] <= prev_status[b][w]

RcuInv == TypeOK /\ Lifetime /\ Held /\ Grace

\* The thread_num list is a list of positive numbers.
LEMMA ThreadNumsType ==
  /\ MaxThreads \in Nat
  /\ Len(ThreadNums) \in Nat
  /\ \A i \in 1..Len(ThreadNums) : ThreadNums[i] \in 1..MaxThreads
  BY ThreadsAssumption

\* RcuInv implies that no worker reaches a deleted object.
LEMMA RcuInvSafe == RcuInv => NoUseAfterFree
  BY DEF RcuInv, Held, NoUseAfterFree, TypeOK

LEMMA RcuInit == Init => RcuInv
<1> SUFFICES ASSUME Init PROVE RcuInv
  OBVIOUS
<1> USE ThreadNumsType DEF Init
<1>1. TypeOK
  <2>1. live \in BOOLEAN /\ exited \in BOOLEAN
    OBVIOUS
  <2>2. inop \in [Workers -> BOOLEAN]
    OBVIOUS
  <2>3. prev_status \in [Bgs -> [Workers -> Nat]]
    OBVIOUS
  <2>4. refs \in [Workers -> SUBSET (Bgs \X Nat)]
    OBVIOUS
  <2>5. inst \in 0..Len(ThreadNums) /\ worker_n \in 0..MaxThreads /\ slots \in 0..MaxThreads
    OBVIOUS
  <2>6. status \in [Workers -> Nat] /\ cur \in [Bgs -> Nat] /\ freed \in [Bgs -> Nat]
    OBVIOUS
  <2>7. /\ bpc \in [Bgs -> {"off", "run", "snap", "wait", "free"}]
        /\ w_i \in [Bgs -> 0..MaxThreads]
        /\ \A b \in Bgs : bpc[b] \in {"snap", "wait"} => w_i[b] <= worker_n
    OBVIOUS
  <2> QED
    BY <2>1, <2>2, <2>3, <2>4, <2>5, <2>6, <2>7 DEF TypeOK
<1>2. Lifetime /\ Held
  BY DEF Lifetime, Held
<1>3. Grace
  BY DEF Grace, HoldsOld
<1> QED
  BY <1>1, <1>2, <1>3 DEF RcuInv

\* The type invariant is inductive by itself.
LEMMA RcuTypeStep == TypeOK /\ [Next]_vars => TypeOK'
<1> SUFFICES ASSUME TypeOK, [Next]_vars PROVE TypeOK'
  OBVIOUS
<1> USE ThreadNumsType DEF TypeOK
<1>1. CASE Construct
  <2>1. /\ worker_n' \in 0..MaxThreads /\ slots' \in 0..MaxThreads
    BY <1>1 DEF Construct, rcu_init
  <2>2. status' \in [Workers -> Nat]
    <3>1. CASE slots = 0
      <4> DEFINE n == ThreadNums[inst + 1]
      <4>1. \A w \in Workers : (IF w < n THEN 0 ELSE status[w]) \in Nat
        OBVIOUS
      <4>2. status' = [w \in Workers |-> IF w < n THEN 0 ELSE status[w]]
        BY <1>1, <3>1 DEF Construct, rcu_init
      <4> HIDE DEF n
      <4> QED
        BY <4>1, <4>2
    <3>2. CASE slots # 0
      BY <1>1, <3>2 DEF Construct, rcu_init
    <3> QED
      BY <3>1, <3>2
  <2> QED
    BY <1>1, <2>1, <2>2 DEF Construct
<1>2. CASE Destroy
  BY <1>2 DEF Destroy, wvars, bvars
<1>3. ASSUME NEW w \in Workers, rcu_progress(w) PROVE TypeOK'
  BY <1>3 DEF rcu_progress, cvars, bvars
<1>4. ASSUME NEW w \in Workers, Return(w) PROVE TypeOK'
  BY <1>4 DEF Return, cvars, bvars
<1>5. ASSUME NEW w \in Workers, NEW b \in Bgs, Load(w, b) PROVE TypeOK'
  <2>1. refs[w] \union {<<b, cur[b]>>} \in SUBSET (Bgs \X Nat)
    OBVIOUS
  <2>2. refs' \in [Workers -> SUBSET (Bgs \X Nat)]
    BY <1>5, <2>1 DEF Load
  <2> QED
    BY <1>5, <2>2 DEF Load, cvars, bvars
<1>6. ASSUME NEW b \in Bgs, Publish(b) PROVE TypeOK'
  BY <1>6 DEF Publish, cvars, wvars
<1>7. ASSUME NEW b \in Bgs, Snap(b) PROVE TypeOK'
  <2>1. w_i[b] \in Workers /\ w_i[b] + 1 \in 0..MaxThreads
    <3>1. w_i[b] < worker_n
      BY <1>7 DEF Snap
    <3>2. w_i[b] \in 0..MaxThreads /\ worker_n \in 0..MaxThreads /\ MaxThreads \in Nat
      OBVIOUS
    <3> HIDE DEF TypeOK
    <3> QED
      BY <3>1, <3>2 DEF Workers
  <2>2. [prev_status[b] EXCEPT ![w_i[b]] = status[w_i[b]]] \in [Workers -> Nat]
    BY <2>1
  <2>3. /\ w_i' \in [Bgs -> 0..MaxThreads]
        /\ prev_status' \in [Bgs -> [Workers -> Nat]]
    BY <1>7, <2>1, <2>2 DEF Snap
  <2>4. \A c \in Bgs : bpc'[c] \in {"snap", "wait"} => w_i'[c] <= worker_n'
    BY <1>7 DEF Snap, cvars
  <2> QED
    BY <1>7, <2>3, <2>4 DEF Snap, cvars, wvars
<1>7a. ASSUME NEW b \in Bgs, SnapDone(b) PROVE TypeOK'
  BY <1>7a DEF SnapDone, cvars, wvars
<1>8. ASSUME NEW b \in Bgs, Wait(b) PROVE TypeOK'
  <2>1. w_i' \in [Bgs -> 0..MaxThreads]
    BY <1>8 DEF Wait
  <2>2. \A c \in Bgs : bpc'[c] \in {"snap", "wait"} => w_i'[c] <= worker_n'
    BY <1>8 DEF Wait, cvars
  <2> QED
    BY <1>8, <2>1, <2>2 DEF Wait, cvars, wvars
<1>8a. ASSUME NEW b \in Bgs, WaitDone(b) PROVE TypeOK'
  BY <1>8a DEF WaitDone, cvars, wvars
<1>9. ASSUME NEW b \in Bgs, Free(b) PROVE TypeOK'
  BY <1>9 DEF Free, cvars, wvars
<1>10. ASSUME NEW b \in Bgs, Stop(b) PROVE TypeOK'
  BY <1>10 DEF Stop, cvars, wvars
<1>11. CASE UNCHANGED vars
  BY <1>11 DEF vars, cvars, wvars, bvars
<1> QED
  BY <1>1, <1>2, <1>3, <1>4, <1>5, <1>6, <1>7, <1>7a, <1>8, <1>8a, <1>9, <1>10,
     <1>11 DEF Next, BgStep

\* The type invariant of the RCU holds for every value of the constants.
THEOREM RcuTypeCorrect == Spec => []TypeOK
<1>1. Init => TypeOK
  BY RcuInit DEF RcuInv
<1> QED
  BY <1>1, RcuTypeStep, PTL DEF Spec

\* With one XIndex, every step of workers and background threads keeps the
\* invariant.  Construct finds no worker running, and no step follows Destroy
\* in which a worker runs.
LEMMA RcuStep ==
  ASSUME Len(ThreadNums) = 1, RcuInv, [Next]_vars
  PROVE  RcuInv'
<1> USE DEF RcuInv
<1>0. TypeOK'
  BY RcuTypeStep
<1>1. CASE Construct
  <2>1. \A w \in Workers : ~inop[w] /\ refs[w] = {}
    BY <1>1 DEF Construct, Lifetime
  <2> QED
    BY <1>0, <1>1, <2>1 DEF Construct, Lifetime, Held, Grace, HoldsOld, TypeOK
<1>2. CASE Destroy
  <2>1. inst = 1
    BY <1>2 DEF Destroy, Lifetime, TypeOK
  <2>2. Lifetime'
    BY <1>2, <2>1 DEF Destroy, Lifetime, TypeOK, wvars
  <2>3. Held' /\ Grace'
    BY <1>2 DEF Destroy, Held, Grace, HoldsOld, wvars, bvars
  <2> QED
    BY <1>0, <2>2, <2>3
<1>3. ASSUME NEW w \in Workers, rcu_progress(w) PROVE RcuInv'
  <2>1. Lifetime'
    BY <1>3 DEF rcu_progress, Running, Lifetime, TypeOK, cvars, bvars
  <2>2. Held'
    BY <1>3 DEF rcu_progress, Held, TypeOK, bvars
  <2>3. Grace'
    BY <1>3 DEF rcu_progress, Grace, HoldsOld, TypeOK, bvars
  <2> QED
    BY <1>0, <2>1, <2>2, <2>3
<1>4. ASSUME NEW w \in Workers, Return(w) PROVE RcuInv'
  BY <1>0, <1>4 DEF Return, Lifetime, Held, Grace, HoldsOld, TypeOK, cvars, bvars
<1>5. ASSUME NEW w \in Workers, NEW b \in Bgs, Load(w, b) PROVE RcuInv'
  <2>1. Lifetime'
    BY <1>5 DEF Load, Lifetime, TypeOK, cvars
  <2>2. Held'
    BY <1>5 DEF Load, Held, TypeOK, bvars
  <2>3. Grace'
    BY <1>5 DEF Load, Grace, HoldsOld, TypeOK, bvars
  <2> QED
    BY <1>0, <2>1, <2>2, <2>3
<1>6. ASSUME NEW b \in Bgs, Publish(b) PROVE RcuInv'
  <2>1. Lifetime'
    BY <1>6 DEF Publish, Lifetime, cvars, wvars
  <2>2. Held'
    BY <1>6 DEF Publish, Held, TypeOK, wvars
  <2>3. Grace'
    <3> SUFFICES ASSUME NEW c \in Bgs, NEW w \in Workers, HoldsOld(c, w)'
                 PROVE  /\ bpc'[c] \in {"snap", "wait"}
                        /\ bpc'[c] = "snap" =>
                             (w < w_i'[c] => status'[w] <= prev_status'[c][w])
                        /\ bpc'[c] = "wait" =>
                             w_i'[c] <= w /\ status'[w] <= prev_status'[c][w]
      BY DEF Grace
    <3>1. CASE c = b
      BY <1>6, <3>1 DEF Publish, Workers, TypeOK
    <3>2. CASE c # b
      <4>1. HoldsOld(c, w)
        BY <1>6, <3>2 DEF Publish, HoldsOld, TypeOK, wvars
      <4> QED
        BY <1>6, <3>2, <4>1 DEF Publish, Grace, TypeOK, wvars
    <3> QED
      BY <3>1, <3>2
  <2> QED
    BY <1>0, <2>1, <2>2, <2>3
<1>7. ASSUME NEW b \in Bgs, Snap(b) PROVE RcuInv'
  <2>1. Lifetime' /\ Held'
    BY <1>7 DEF Snap, Lifetime, Held, cvars, wvars
  <2>2. Grace'
    <3> SUFFICES ASSUME NEW c \in Bgs, NEW w \in Workers, HoldsOld(c, w)'
                 PROVE  /\ bpc'[c] \in {"snap", "wait"}
                        /\ bpc'[c] = "snap" =>
                             (w < w_i'[c] => status'[w] <= prev_status'[c][w])
                        /\ bpc'[c] = "wait" =>
                             w_i'[c] <= w /\ status'[w] <= prev_status'[c][w]
      BY DEF Grace
    <3>1. HoldsOld(c, w)
      BY <1>7 DEF Snap, HoldsOld, wvars
    <3>2. w_i[b] \in Workers
      BY <1>7, ThreadNumsType DEF Snap, Workers, TypeOK
    <3>3. CASE c = b
      <4>1. bpc[b] = "snap" /\ bpc' = bpc /\ status' = status
        BY <1>7 DEF Snap, wvars
      <4>2. w_i'[b] = w_i[b] + 1
        BY <1>7 DEF Snap, TypeOK
      <4>3. CASE w = w_i[b]
        <5>1. prev_status'[b][w] = status[w]
          BY <1>7, <4>3 DEF Snap, TypeOK
        <5> QED
          BY <3>3, <4>1, <5>1 DEF TypeOK
      <4>4. CASE w # w_i[b]
        <5>1. prev_status'[b][w] = prev_status[b][w]
          BY <1>7, <4>4 DEF Snap, TypeOK
        <5>2. w < w_i'[b] => w < w_i[b]
          BY <4>2, <4>4 DEF Workers, TypeOK
        <5> QED
          BY <3>1, <3>3, <4>1, <5>1, <5>2 DEF Grace
      <4> QED
        BY <4>3, <4>4
    <3>4. CASE c # b
      BY <1>7, <3>1, <3>4 DEF Snap, Grace, TypeOK, wvars
    <3> QED
      BY <3>3, <3>4
  <2> QED
    BY <1>0, <2>1, <2>2
<1>8. ASSUME NEW b \in Bgs, SnapDone(b) PROVE RcuInv'
  <2>1. Lifetime' /\ Held'
    BY <1>8 DEF SnapDone, Lifetime, Held, cvars, wvars
  <2>2. Grace'
    BY <1>8 DEF SnapDone, Grace, HoldsOld, Lifetime, Workers, TypeOK, wvars
  <2> QED
    BY <1>0, <2>1, <2>2
<1>9. ASSUME NEW b \in Bgs, Wait(b) PROVE RcuInv'
  <2>1. Lifetime' /\ Held'
    BY <1>9 DEF Wait, Lifetime, Held, cvars, wvars
  <2>2. Grace'
    <3> SUFFICES ASSUME NEW c \in Bgs, NEW w \in Workers, HoldsOld(c, w)'
                 PROVE  /\ bpc'[c] \in {"snap", "wait"}
                        /\ bpc'[c] = "snap" =>
                             (w < w_i'[c] => status'[w] <= prev_status'[c][w])
                        /\ bpc'[c] = "wait" =>
                             w_i'[c] <= w /\ status'[w] <= prev_status'[c][w]
      BY DEF Grace
    <3>1. HoldsOld(c, w)
      BY <1>9 DEF Wait, HoldsOld, wvars
    <3>2. ~exited
      BY <3>1 DEF Lifetime, HoldsOld, TypeOK
    <3>3. CASE c = b
      <4>0. status[w] <= prev_status[b][w] /\ w_i[b] <= w
        BY <1>9, <3>1, <3>3 DEF Wait, Grace
      <4>1. w_i[b] # w
        <5> SUFFICES ASSUME w_i[b] = w PROVE FALSE
          OBVIOUS
        <5>1. status[w] > prev_status[b][w]
          BY <1>9, <3>2 DEF Wait, Passed
        <5>2. status[w] \in Nat /\ prev_status[b][w] \in Nat
          BY DEF TypeOK
        <5> QED
          BY <4>0, <5>1, <5>2
      <4> QED
        BY <1>9, <3>1, <3>3, <4>1 DEF Wait, Grace, Workers, TypeOK, wvars
    <3>4. CASE c # b
      BY <1>9, <3>1, <3>4 DEF Wait, Grace, TypeOK, wvars
    <3> QED
      BY <3>3, <3>4
  <2> QED
    BY <1>0, <2>1, <2>2
<1>10. ASSUME NEW b \in Bgs, WaitDone(b) PROVE RcuInv'
  <2>1. Lifetime' /\ Held'
    BY <1>10 DEF WaitDone, Lifetime, Held, cvars, wvars
  <2>2. Grace'
    BY <1>10 DEF WaitDone, Grace, HoldsOld, Lifetime, Workers, TypeOK, wvars
  <2> QED
    BY <1>0, <2>1, <2>2
<1>11. ASSUME NEW b \in Bgs, Free(b) PROVE RcuInv'
  <2>1. Lifetime' /\ Grace'
    BY <1>11 DEF Free, Lifetime, Grace, HoldsOld, TypeOK, cvars, wvars
  <2>2. \A w \in Workers : ~HoldsOld(b, w)
    BY <1>11 DEF Free, Grace
  <2>3. Held'
    BY <1>11, <2>2 DEF Free, Held, HoldsOld, TypeOK, wvars
  <2> QED
    BY <1>0, <2>1, <2>3
<1>12. ASSUME NEW b \in Bgs, Stop(b) PROVE RcuInv'
  BY <1>0, <1>12 DEF Stop, Lifetime, Held, Grace, HoldsOld, TypeOK, cvars, wvars
<1>13. CASE UNCHANGED vars
  BY <1>0, <1>13 DEF Lifetime, Held, Grace, HoldsOld, vars, cvars, wvars, bvars
<1> QED
  BY <1>1, <1>2, <1>3, <1>4, <1>5, <1>6, <1>7, <1>8, <1>9, <1>10, <1>11, <1>12,
     <1>13 DEF Next, BgStep

\* While a process builds a single XIndex, no worker of it ever reaches an
\* object that a background thread has deleted after rcu_barrier.
THEOREM RcuNoUseAfterFree ==
  ASSUME Len(ThreadNums) = 1
  PROVE  Spec => []NoUseAfterFree
<1>1. RcuInv /\ [Next]_vars => RcuInv'
  BY RcuStep
<1> QED
  BY RcuInit, <1>1, RcuInvSafe, PTL DEF Spec
=============================================================================
