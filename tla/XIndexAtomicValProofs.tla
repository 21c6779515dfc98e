----------------------- MODULE XIndexAtomicValProofs -----------------------
(***************************************************************************)
(* Safety of a record through a compaction, for any number of workers,      *)
(* values and operations: reads, updates and removes of its key are         *)
(* linearizable, a followed pointer is a pointer, and the old record is not  *)
(* used after it is freed.                                                  *)
(***************************************************************************)
EXTENDS XIndexAtomicVal, TLAPS

-----------------------------------------------------------------------------
(* The inductive invariant *)

Reading == {"status", "val", "check"}
Writing == {"lock", "act", "incr", "unlock"}
InCritical == {"act", "incr", "unlock"}

\* Where p is goes with the operation it runs.
OpsOK ==
  /\ op \in [Procs -> Abs!Calls \union {Abs!Idle}]
  /\ seen \in [Procs -> SUBSET (Values \union {None})]
  /\ res \in [Procs -> {Abs!Undecided, Abs!Ok, Abs!Failed}
                        \union {Abs!Got(v) : v \in Values \union {None}}]
  /\ \A p \in Procs :
       /\ pc[p] = "idle" <=> op[p] = Abs!Idle
       /\ pc[p] \in Reading => op[p].kind = "get"
       /\ pc[p] \in Writing => op[p].kind # "get"
       /\ pc[p] \in {"idle", "status", "val", "check", "lock", "act"} <=> res[p] = Abs!Undecided

\* The record a worker is at, and how it got there.
Paths ==
  \A p \in Procs :
    /\ old[p] => at[p] = "old" /\ ~outer[p] /\ pc[p] # "idle"
    /\ outer[p] => at[p] = "old" /\ pc[p] \in Writing
    /\ pc[p] \in Writing /\ at[p] = "old" => old[p] \/ outer[p]

\* While replace_pointer holds the lock of "new".
BgLocked == phase \in {"status", "val", "check", "removed", "unset", "incr", "unlock"}

Holds(p, r) ==
  \/ pc[p] \in InCritical /\ at[p] = r
  \/ outer[p] /\ r = "new"

Locks ==
  /\ BgLocked => rec["new"].locked
  /\ \A p \in Procs, r \in Recs : Holds(p, r) =>
       /\ rec[r].locked
       /\ r = "new" => ~BgLocked
       /\ \A q \in Procs : Holds(q, r) => q = p

\* The grace periods: what the operations still waited for may do.
Grace ==
  /\ phase = "published" => \A p \in Procs : old[p] => p \in bwait
  /\ phase \notin {"merged", "published"} => \A p \in Procs : ~old[p]
  /\ phase = "replaced" => \A p \in Procs : pc[p] \notin {"idle", "done"} /\ at[p] = "old" => p \in bwait
  /\ phase = "freed" => \A p \in Procs : pc[p] \notin {"idle", "done"} => at[p] = "new"

\* "new" is a pointer until replace_pointer has copied value and removed flag of
\* "old", which stays as it is meanwhile.
Copied ==
  /\ rec["new"].is_ptr <=> phase \notin {"incr", "unlock", "replaced", "freed"}
  /\ rec["new"].is_ptr /\ phase # "unset" => ~rec["new"].removed
  /\ \A p \in Procs : outer[p] => rec["new"].is_ptr
  /\ phase \in {"val", "check", "removed", "unset"} => bst.removed = rec["old"].removed
  /\ phase = "check" => bva = rec["old"].val
  /\ phase \in {"removed", "unset"} => rec["new"].val = rec["old"].val
  /\ phase = "unset" => rec["new"].removed = rec["old"].removed

\* A write whose increment of the version is still to come.
Dirty(r) ==
  \/ \E p \in Procs : pc[p] = "incr" /\ at[p] = r
  \/ r = "new" /\ phase \in {"removed", "unset", "incr"}

Fresh(p) == st[p].version = rec[at[p]].version

\* What a read has loaded is what is there, unless the version tells.
ReadOK(p) ==
  /\ st[p].version <= rec[at[p]].version
  /\ at[p] = "old" => ~st[p].is_ptr
  /\ Fresh(p) /\ ~Dirty(at[p]) =>
       /\ st[p].removed = rec[at[p]].removed
       /\ st[p].is_ptr = rec[at[p]].is_ptr
       /\ pc[p] = "check" => va[p] = rec[at[p]].val

Reads == \A p \in Procs : pc[p] \in {"val", "check"} => ReadOK(p)

Content(r) == IF rec[r].removed THEN None ELSE rec[r].val

\* What a read may answer has been the value of the key since it began.  The
\* last conjunct is about read_ignoring_ptr, which may meet a write half done.
SeenBy(p) ==
  /\ Logical \in seen[p]
  /\ pc[p] \in Reading /\ at[p] = "old" => Content("old") \in seen[p]
  /\ old[p] /\ pc[p] \in {"val", "check"} /\ ~st[p].locked /\ Fresh(p) =>
       (IF st[p].removed THEN None
        ELSE IF pc[p] = "check" THEN va[p] ELSE rec["old"].val) \in seen[p]

SeenOK == \A p \in Procs : pc[p] # "idle" => SeenBy(p)

RecInv ==
  TypeOK /\ OpsOK /\ Paths /\ Locks /\ Grace /\ Copied /\ Reads /\ SeenOK

-----------------------------------------------------------------------------
(* What the steps do to the two records *)

LEMMA LockEffect ==
  ASSUME TypeOK, NEW r \in Recs, rec' = [rec EXCEPT ![r].locked = TRUE]
  PROVE  /\ rec' \in [Recs -> Record] /\ rec'[r].locked
         /\ rec'[r].val = rec[r].val /\ rec'[r].version = rec[r].version
         /\ rec'[r].removed = rec[r].removed /\ rec'[r].is_ptr = rec[r].is_ptr
         /\ \A s \in Recs : s # r => rec'[s] = rec[s]
  BY DEF TypeOK, Record

LEMMA UnlockEffect ==
  ASSUME TypeOK, NEW r \in Recs, rec' = [rec EXCEPT ![r].locked = FALSE]
  PROVE  /\ rec' \in [Recs -> Record] /\ ~rec'[r].locked
         /\ rec'[r].val = rec[r].val /\ rec'[r].version = rec[r].version
         /\ rec'[r].removed = rec[r].removed /\ rec'[r].is_ptr = rec[r].is_ptr
         /\ \A s \in Recs : s # r => rec'[s] = rec[s]
  BY DEF TypeOK, Record

LEMMA IncrEffect ==
  ASSUME TypeOK, NEW r \in Recs, rec' = [rec EXCEPT ![r].version = @ + 1]
  PROVE  /\ rec' \in [Recs -> Record] /\ rec'[r].version = rec[r].version + 1
         /\ rec'[r].val = rec[r].val /\ rec'[r].locked = rec[r].locked
         /\ rec'[r].removed = rec[r].removed /\ rec'[r].is_ptr = rec[r].is_ptr
         /\ \A s \in Recs : s # r => rec'[s] = rec[s]
  BY DEF TypeOK, Record

LEMMA ValueEffect ==
  ASSUME TypeOK, NEW r \in Recs, NEW v \in Values, rec' = [rec EXCEPT ![r].val = v]
  PROVE  /\ rec' \in [Recs -> Record] /\ rec'[r].val = v
         /\ rec'[r].version = rec[r].version /\ rec'[r].locked = rec[r].locked
         /\ rec'[r].removed = rec[r].removed /\ rec'[r].is_ptr = rec[r].is_ptr
         /\ \A s \in Recs : s # r => rec'[s] = rec[s]
  BY DEF TypeOK, Record

LEMMA RemovedEffect ==
  ASSUME TypeOK, NEW r \in Recs, NEW b \in BOOLEAN, rec' = [rec EXCEPT ![r].removed = b]
  PROVE  /\ rec' \in [Recs -> Record] /\ rec'[r].removed = b
         /\ rec'[r].version = rec[r].version /\ rec'[r].locked = rec[r].locked
         /\ rec'[r].val = rec[r].val /\ rec'[r].is_ptr = rec[r].is_ptr
         /\ \A s \in Recs : s # r => rec'[s] = rec[s]
  BY DEF TypeOK, Record

LEMMA UnsetEffect ==
  ASSUME TypeOK, NEW r \in Recs, rec' = [rec EXCEPT ![r].is_ptr = FALSE]
  PROVE  /\ rec' \in [Recs -> Record] /\ ~rec'[r].is_ptr
         /\ rec'[r].version = rec[r].version /\ rec'[r].locked = rec[r].locked
         /\ rec'[r].val = rec[r].val /\ rec'[r].removed = rec[r].removed
         /\ \A s \in Recs : s # r => rec'[s] = rec[s]
  BY DEF TypeOK, Record

LEMMA WordTyped ==
  ASSUME TypeOK, NEW r \in Recs PROVE WordOf(rec[r]) \in Word
  BY DEF TypeOK, Record, Word, WordOf

-----------------------------------------------------------------------------
(* Facts about a worker's operation and place *)

LEMMA CallFacts ==
  ASSUME NEW c \in Abs!Calls
  PROVE  /\ c # Abs!Idle /\ c.key = Key /\ c.kind \in {"get", "update", "remove"}
         /\ c.kind = "update" => c.val \in Values
  BY DEF Abs!Calls, Abs!Idle

LEMMA ActiveFacts ==
  ASSUME OpsOK, NEW p \in Procs, pc[p] # "idle"
  PROVE  /\ op[p] \in Abs!Calls /\ op[p] # Abs!Idle /\ op[p].key = Key
         /\ op[p].kind \in {"get", "update", "remove"}
         /\ op[p].kind = "update" => op[p].val \in Values
         /\ pc[p] \in Writing => op[p].kind \in {"update", "remove"}
  BY CallFacts DEF OpsOK

\* An update or remove acts on the record that has the value.
LEMMA ActsOnLogical ==
  ASSUME RecInv, NEW p \in Procs, ActHere(p)
  PROVE  /\ at[p] = IF rec["new"].is_ptr THEN "old" ELSE "new"
         /\ rec[at[p]].locked /\ rec[at[p]].val \in Values /\ ~rec[at[p]].is_ptr
         /\ ~(at[p] = "new" /\ BgLocked)
         /\ at[p] = "old" => ~BgLocked
<1>1. /\ pc[p] = "act" /\ (old[p] => at[p] = "old") /\ at[p] \in Recs
      /\ ~(old[p] /\ inbuf) => ~rec[at[p]].is_ptr
  BY DEF RecInv, ActHere, Ignoring, Paths, TypeOK
<1>2. rec[at[p]].locked /\ (at[p] = "new" => ~BgLocked)
  BY <1>1 DEF RecInv, Locks, Holds, InCritical
<1>3. CASE at[p] = "old"
  <2>1. old[p] \/ outer[p]
    BY <1>1, <1>3 DEF RecInv, Paths, Writing
  <2>2. CASE old[p]
    <3>1. phase \in {"merged", "published"}
      BY <2>2 DEF RecInv, Grace
    <3> QED
      BY <1>2, <1>3, <3>1 DEF RecInv, Copied, TypeOK, BgLocked
  <2>3. CASE outer[p]
    BY <1>2, <1>3, <2>3 DEF RecInv, Copied, TypeOK, Locks, Holds, Recs
  <2> QED
    BY <2>1, <2>2, <2>3
<1>4. CASE at[p] = "new"
  BY <1>1, <1>2, <1>4 DEF RecInv, TypeOK
<1> QED
  BY <1>1, <1>3, <1>4 DEF Recs

LEMMA ActEffect ==
  ASSUME RecInv, NEW p \in Procs, ActHere(p)
  PROVE  /\ \A r \in Recs : /\ rec'[r].version = rec[r].version
                            /\ rec'[r].locked = rec[r].locked
                            /\ rec'[r].is_ptr = rec[r].is_ptr
         /\ \A r \in Recs : r # at[p] => rec'[r] = rec[r]
         /\ rec[at[p]].removed => rec' = rec /\ seen' = seen
         /\ ~rec[at[p]].removed =>
              /\ seen' = Abs!See(Key, Abs!Result(op[p]))
              /\ Content(at[p])' = Abs!Result(op[p])
              /\ \/ rec'[at[p]].val = op[p].val /\ ~rec'[at[p]].removed /\ op[p].kind = "update"
                 \/ rec'[at[p]].val = rec[at[p]].val /\ rec'[at[p]].removed /\ op[p].kind = "remove"
<1>0. /\ TypeOK /\ at[p] \in Recs /\ UNCHANGED at
      /\ op[p].kind = "remove" \/ (op[p].kind = "update" /\ op[p].val \in Values)
  <2>1. OpsOK /\ pc[p] # "idle" /\ pc[p] \in Writing
    BY DEF RecInv, ActHere, Writing
  <2>2. op[p].kind = "remove" \/ (op[p].kind = "update" /\ op[p].val \in Values)
    BY <2>1, ActiveFacts
  <2> QED
    BY <2>2 DEF RecInv, TypeOK, ActHere
<1>1. CASE rec[at[p]].removed
  BY <1>1 DEF ActHere
<1>2. CASE ~rec[at[p]].removed /\ op[p].kind = "remove"
  <2>1. rec' = [rec EXCEPT ![at[p]].removed = TRUE] /\ seen' = Abs!See(Key, Abs!Result(op[p]))
    BY <1>2 DEF ActHere
  <2>2. /\ rec'[at[p]].removed
        /\ rec'[at[p]].version = rec[at[p]].version /\ rec'[at[p]].locked = rec[at[p]].locked
        /\ rec'[at[p]].val = rec[at[p]].val /\ rec'[at[p]].is_ptr = rec[at[p]].is_ptr
        /\ \A r \in Recs : r # at[p] => rec'[r] = rec[r]
    BY <1>0, <2>1, RemovedEffect
  <2> QED
    BY <1>0, <1>2, <2>1, <2>2 DEF Abs!Result, Content
<1>3. CASE ~rec[at[p]].removed /\ op[p].kind # "remove"
  <2>1. rec' = [rec EXCEPT ![at[p]].val = op[p].val] /\ seen' = Abs!See(Key, Abs!Result(op[p]))
    BY <1>3 DEF ActHere
  <2>2. /\ rec'[at[p]].val = op[p].val
        /\ rec'[at[p]].version = rec[at[p]].version /\ rec'[at[p]].locked = rec[at[p]].locked
        /\ rec'[at[p]].removed = rec[at[p]].removed /\ rec'[at[p]].is_ptr = rec[at[p]].is_ptr
        /\ \A r \in Recs : r # at[p] => rec'[r] = rec[r]
    BY <1>0, <1>3, <2>1, ValueEffect
  <2> QED
    BY <1>0, <1>3, <2>1, <2>2 DEF Abs!Result, Content
<1> QED
  BY <1>1, <1>2, <1>3

\* replace_pointer's read returns and the value is stored, or it tries again.
LEMMA CheckEffect ==
  ASSUME RecInv, ReplaceCheck
  PROVE  /\ rec'["old"] = rec["old"]
         /\ rec'["new"].version = rec["new"].version /\ rec'["new"].locked = rec["new"].locked
         /\ rec'["new"].removed = rec["new"].removed /\ rec'["new"].is_ptr = rec["new"].is_ptr
         /\ \/ phase' = "removed" /\ rec'["new"].val = rec["old"].val
            \/ phase' = "status" /\ rec' = rec
<1>1. CASE Validated(bst, WordOf(rec["old"]), FALSE)
  <2>1. rec' = [rec EXCEPT !["new"].val = bva] /\ phase' = "removed"
    BY <1>1 DEF ReplaceCheck, To
  <2>2. bva = rec["old"].val /\ bva \in Values /\ TypeOK
    BY DEF ReplaceCheck, RecInv, Copied, TypeOK
  <2> QED
    BY <2>1, <2>2, ValueEffect DEF Recs
<1>2. CASE ~Validated(bst, WordOf(rec["old"]), FALSE)
  BY <1>2 DEF ReplaceCheck, To
<1> QED
  BY <1>1, <1>2

-----------------------------------------------------------------------------
(* Types *)

LEMMA RecTypeBackground ==
  ASSUME RecInv, BgNext PROVE TypeOK'
<1>0. TypeOK /\ Copied
  BY DEF RecInv
<1>1. CASE UNCHANGED rec /\ ~ReplaceUnlock /\ (phase \in {"removed", "unset"} => phase' = phase)
  <2>1. phase' \in Phases /\ bwait' \subseteq Procs /\ bst' \in Word /\ bva' \in Values \union {None}
    BY <1>0, <1>1, WordTyped
       DEF BgNext, Publish, PublishedBarrier, ReplacePointer, ReplaceLock, ReplaceLoadStatus,
           ReplaceLoadVal, ReplaceCheck, ReplaceRemoved, ReplaceUnset, ReplaceIncr,
           FreeOld, To, TypeOK, Phases, Recs
  <2> QED
    BY <1>0, <1>1, <2>1
       DEF BgNext, Publish, PublishedBarrier, ReplacePointer, ReplaceLock, ReplaceLoadStatus,
           ReplaceLoadVal, ReplaceCheck, ReplaceRemoved, ReplaceUnset, ReplaceIncr,
           FreeOld, To, TypeOK, opvars, locals
<1>2. CASE ReplaceLock
  <2>1. rec' \in [Recs -> Record] /\ rec'["old"] = rec["old"]
        /\ rec'["new"].val = rec["new"].val /\ rec'["new"].is_ptr = rec["new"].is_ptr
    BY <1>0, <1>2, LockEffect DEF ReplaceLock, Recs
  <2> QED
    BY <1>0, <1>2, <2>1 DEF BgNext, ReplaceLock, To, TypeOK, Phases, opvars, locals
<1>3. CASE ReplaceCheck
  <2>1. CASE Validated(bst, WordOf(rec["old"]), FALSE)
    <3>1. bva \in Values /\ rec' = [rec EXCEPT !["new"].val = bva] /\ phase' = "removed"
      BY <1>0, <1>3, <2>1 DEF ReplaceCheck, Copied, TypeOK, To
    <3>2. rec' \in [Recs -> Record] /\ rec'["old"] = rec["old"]
          /\ rec'["new"].val = bva /\ rec'["new"].is_ptr = rec["new"].is_ptr
      BY <1>0, <3>1, ValueEffect DEF Recs
    <3> QED
      BY <1>0, <1>3, <3>1, <3>2 DEF BgNext, ReplaceCheck, TypeOK, Phases, opvars, locals
  <2>2. CASE ~Validated(bst, WordOf(rec["old"]), FALSE)
    BY <1>0, <1>3, <2>2 DEF BgNext, ReplaceCheck, To, TypeOK, Phases, opvars, locals
  <2> QED
    BY <2>1, <2>2
<1>4. CASE ReplaceRemoved
  <2>1. rec' \in [Recs -> Record] /\ rec'["old"] = rec["old"]
        /\ rec'["new"].val = rec["new"].val /\ rec'["new"].is_ptr = rec["new"].is_ptr
    <3>1. bst.removed \in BOOLEAN
      BY <1>0 DEF TypeOK, Word
    <3> QED
      BY <1>0, <1>4, <3>1, RemovedEffect DEF ReplaceRemoved, Recs
  <2> QED
    BY <1>0, <1>4, <2>1 DEF BgNext, ReplaceRemoved, To, TypeOK, Phases, opvars, locals
<1>5. CASE ReplaceUnset
  <2>1. rec' \in [Recs -> Record] /\ rec'["old"] = rec["old"]
        /\ rec'["new"].val = rec["new"].val /\ ~rec'["new"].is_ptr
    BY <1>0, <1>5, UnsetEffect DEF ReplaceUnset, Recs
  <2>2. rec["new"].val \in Values
    BY <1>0, <1>5 DEF ReplaceUnset, Copied, TypeOK
  <2> QED
    BY <1>0, <1>5, <2>1, <2>2 DEF BgNext, ReplaceUnset, To, TypeOK, Phases, opvars, locals
<1>6. CASE ReplaceIncr
  <2>1. rec' \in [Recs -> Record] /\ rec'["old"] = rec["old"]
        /\ rec'["new"].val = rec["new"].val /\ rec'["new"].is_ptr = rec["new"].is_ptr
    BY <1>0, <1>6, IncrEffect DEF ReplaceIncr, Recs
  <2> QED
    BY <1>0, <1>6, <2>1 DEF BgNext, ReplaceIncr, To, TypeOK, Phases, opvars, locals
<1>7. CASE ReplaceUnlock
  <2>1. rec' \in [Recs -> Record] /\ rec'["old"] = rec["old"]
        /\ rec'["new"].val = rec["new"].val /\ rec'["new"].is_ptr = rec["new"].is_ptr
    BY <1>0, <1>7, UnlockEffect DEF ReplaceUnlock, Recs
  <2> QED
    BY <1>0, <1>7, <2>1 DEF BgNext, ReplaceUnlock, To, TypeOK, Phases, opvars, locals
<1> QED
  BY <1>1, <1>2, <1>3, <1>4, <1>5, <1>6, <1>7
     DEF BgNext, Publish, PublishedBarrier, ReplacePointer, ReplaceLoadStatus,
         ReplaceLoadVal, FreeOld, To, ReplaceUnlock

\* The conjuncts of TypeOK about the records, and about a worker's locals.
RecTyped ==
  /\ rec \in [Recs -> Record]
  /\ rec["old"].val \in Values /\ ~rec["old"].is_ptr
  /\ rec["new"].is_ptr => rec["new"].val = Ptr \/ phase \in {"removed", "unset"}
  /\ ~rec["new"].is_ptr => rec["new"].val \in Values

LocalsTyped ==
  /\ pc \in [Procs -> Labels] /\ at \in [Procs -> Recs]
  /\ outer \in [Procs -> BOOLEAN] /\ old \in [Procs -> BOOLEAN]
  /\ st \in [Procs -> Word] /\ va \in [Procs -> Values \union {None, Ptr}]

LEMMA RecTypeWorker ==
  ASSUME RecInv, NEW p \in Procs, Step(p) PROVE TypeOK'
<1>0. TypeOK
  BY DEF RecInv
<1>1. bgvars' = bgvars \/ (bwait' = bwait \ {p} /\ UNCHANGED <<phase, bst, bva>>)
  BY DEF Step, LoadStatus, LoadVal, CheckRetry, CheckFollow, CheckReturn, Lock, ActFollow,
         ActHere, IncrVersion, Unlock, Finish, bgvars
<1>2. inbuf' = inbuf /\ count' = count
  BY DEF Step, LoadStatus, LoadVal, CheckRetry, CheckFollow, CheckReturn, Lock, ActFollow,
         ActHere, IncrVersion, Unlock, Finish, opvars
<1>3. RecTyped'
  <2>1. CASE Lock(p)
    <3>1. at[p] \in Recs /\ rec' = [rec EXCEPT ![at[p]].locked = TRUE]
      BY <1>0, <2>1 DEF Lock, TypeOK
    <3> QED
      BY <1>0, <1>1, <3>1, LockEffect DEF RecTyped, TypeOK, Recs, bgvars
  <2>2. CASE ActHere(p)
    <3>1. CASE rec[at[p]].removed
      BY <1>0, <1>1, <2>2, <3>1 DEF ActHere, RecTyped, TypeOK, bgvars
    <3>2. CASE ~rec[at[p]].removed /\ op[p].kind = "remove"
      <4>1. at[p] \in Recs /\ rec' = [rec EXCEPT ![at[p]].removed = TRUE]
        BY <1>0, <2>2, <3>2 DEF ActHere, TypeOK
      <4> QED
        BY <1>0, <1>1, <4>1, RemovedEffect DEF RecTyped, TypeOK, Recs, bgvars
    <3>3. CASE ~rec[at[p]].removed /\ op[p].kind # "remove"
      <4>1. at[p] \in Recs /\ rec' = [rec EXCEPT ![at[p]].val = op[p].val]
        BY <1>0, <2>2, <3>3 DEF ActHere, TypeOK
      <4>2. op[p].val \in Values
        BY <2>2, <3>3, ActiveFacts DEF ActHere, RecInv, Writing
      <4>3. ~rec[at[p]].is_ptr
        BY <2>2, ActsOnLogical
      <4> QED
        BY <1>0, <1>1, <4>1, <4>2, <4>3, ValueEffect DEF RecTyped, TypeOK, Recs, bgvars
    <3> QED
      BY <3>1, <3>2, <3>3
  <2>3. CASE IncrVersion(p)
    <3>1. at[p] \in Recs /\ rec' = [rec EXCEPT ![at[p]].version = @ + 1]
      BY <1>0, <2>3 DEF IncrVersion, TypeOK
    <3> QED
      BY <1>0, <1>1, <3>1, IncrEffect DEF RecTyped, TypeOK, Recs, bgvars
  <2>4. CASE Unlock(p)
    <3>1. at[p] \in Recs /\ rec' = [rec EXCEPT ![at[p]].locked = FALSE]
      BY <1>0, <2>4 DEF Unlock, TypeOK
    <3> QED
      BY <1>0, <1>1, <3>1, UnlockEffect DEF RecTyped, TypeOK, Recs, bgvars
  <2>5. CASE UNCHANGED rec
    BY <1>0, <1>1, <2>5 DEF RecTyped, TypeOK, bgvars
  <2> QED
    BY <2>1, <2>2, <2>3, <2>4, <2>5
       DEF Step, LoadStatus, LoadVal, CheckRetry, CheckFollow, CheckReturn, ActFollow, Finish
<1>4. LocalsTyped'
  <2>1. CASE LoadStatus(p) \/ LoadVal(p)
    <3>1. at[p] \in Recs
      BY <1>0 DEF TypeOK
    <3>2. WordOf(rec[at[p]]) \in Word /\ rec[at[p]].val \in Values \union {Ptr}
      BY <1>0, <3>1, WordTyped DEF TypeOK, Record
    <3> QED
      BY <1>0, <2>1, <3>2 DEF LoadStatus, LoadVal, Goto, LocalsTyped, TypeOK, Labels
  <2>2. CASE CheckRetry(p) \/ CheckFollow(p) \/ CheckReturn(p)
    BY <1>0, <2>2 DEF CheckRetry, CheckFollow, CheckReturn, Goto, LocalsTyped, TypeOK, Labels, Recs
  <2>3. CASE Lock(p) \/ ActFollow(p) \/ ActHere(p) \/ IncrVersion(p)
    BY <1>0, <2>3 DEF Lock, ActFollow, ActHere, IncrVersion, Goto, LocalsTyped, TypeOK, Labels, Recs
  <2>4. CASE Unlock(p)
    BY <1>0, <2>4 DEF Unlock, Goto, LocalsTyped, TypeOK, Labels, Recs
  <2>5. CASE Finish(p)
    <3>1. NoWord \in Word
      BY DEF NoWord, Word
    <3> QED
      BY <1>0, <2>5, <3>1 DEF Finish, Goto, LocalsTyped, TypeOK, Labels, Recs
  <2> QED
    BY <2>1, <2>2, <2>3, <2>4, <2>5 DEF Step
<1> QED
  BY <1>0, <1>1, <1>2, <1>3, <1>4 DEF TypeOK, RecTyped, LocalsTyped, bgvars

LEMMA RecTypeStep ==
  ASSUME RecInv, Next PROVE TypeOK'
<1>1. ASSUME NEW p \in Procs, Start(p) PROVE TypeOK'
  <2>1. TypeOK /\ count + 1 \in 0 .. MaxOps
    BY <1>1, MaxOpsAssumption DEF RecInv, TypeOK, Start
  <2> QED
    BY <1>1, <2>1 DEF Start, Goto, TypeOK, Labels, Recs, bgvars
<1> QED
  BY <1>1, RecTypeBackground, RecTypeWorker DEF Next

-----------------------------------------------------------------------------
(* What a validated read has read *)

LEMMA CleanWhenUnlocked ==
  ASSUME RecInv, NEW r \in Recs, ~rec[r].locked PROVE ~Dirty(r)
<1>1. \A p \in Procs : ~(pc[p] = "incr" /\ at[p] = r)
  BY DEF RecInv, Locks, Holds, InCritical
<1>2. ~(r = "new" /\ phase \in {"removed", "unset", "incr"})
  BY DEF RecInv, Locks, BgLocked
<1> QED
  BY <1>1, <1>2 DEF Dirty

\* read, which tests the lock bit of its second load.
LEMMA ValidatedRead ==
  ASSUME RecInv, NEW p \in Procs, pc[p] = "check", ~Ignoring(p),
         Validated(st[p], WordOf(rec[at[p]]), Ignoring(p))
  PROVE  /\ at[p] \in Recs /\ ~rec[at[p]].locked
         /\ st[p].removed = rec[at[p]].removed /\ st[p].is_ptr = rec[at[p]].is_ptr
         /\ va[p] = rec[at[p]].val
<1>1. at[p] \in Recs
  BY DEF RecInv, TypeOK
<1>2. ~rec[at[p]].locked /\ Fresh(p)
  BY DEF Validated, WordOf, Fresh
<1> QED
  BY <1>1, <1>2, CleanWhenUnlocked DEF RecInv, Reads, ReadOK

LEMMA FollowedPointer ==
  ASSUME RecInv, NEW p \in Procs, Follows(p)
  PROVE  /\ at[p] = "new" /\ rec["new"].is_ptr /\ va[p] = Ptr /\ ~st[p].removed
         /\ phase \in {"merged", "published", "lock"}
<1>1. /\ at[p] \in Recs /\ ~rec[at[p]].locked /\ rec[at[p]].is_ptr
      /\ ~rec[at[p]].removed <=> ~st[p].removed
      /\ va[p] = rec[at[p]].val
  BY ValidatedRead DEF Follows
<1>2. at[p] = "new"
  BY <1>1 DEF RecInv, TypeOK, Recs
<1>3. ~BgLocked
  BY <1>1, <1>2 DEF RecInv, Locks
<1> QED
  BY <1>1, <1>2, <1>3 DEF RecInv, TypeOK, BgLocked, Copied, Phases

\* What a read answers has been the value of the key since the read began.
LEMMA AnswerSeen ==
  ASSUME RecInv, NEW p \in Procs, CheckReturn(p)
  PROVE  (IF st[p].removed THEN None ELSE va[p]) \in seen[p]
<1>1. CASE Ignoring(p)
  <2>1. ~st[p].locked /\ Fresh(p) /\ old[p] /\ pc[p] = "check"
    BY <1>1 DEF CheckReturn, Validated, Ignoring, Fresh, WordOf
  <2> QED
    BY <2>1 DEF RecInv, SeenOK, SeenBy
<1>2. CASE ~Ignoring(p)
  <2>1. /\ at[p] \in Recs /\ pc[p] = "check" /\ ~rec[at[p]].is_ptr
        /\ (IF st[p].removed THEN None ELSE va[p]) = Content(at[p])
    BY <1>2, ValidatedRead DEF CheckReturn, Content
  <2> QED
    BY <2>1 DEF RecInv, SeenOK, SeenBy, Reading, Logical, Content, Recs
<1> QED
  BY <1>1, <1>2

LEMMA LogicalTyped ==
  ASSUME TypeOK PROVE Logical \in Values \union {None}
  BY DEF TypeOK, Logical, Record, Recs

-----------------------------------------------------------------------------
(* Operations and places *)

LEMMA OpsStep ==
  ASSUME RecInv, Next PROVE OpsOK'
<1>0. TypeOK /\ OpsOK
  BY DEF RecInv
<1>1. CASE BgNext
  <2>1. UNCHANGED <<op, seen, res, pc>>
    BY <1>1 DEF BgNext, Publish, PublishedBarrier, ReplacePointer, ReplaceLock, ReplaceLoadStatus,
                ReplaceLoadVal, ReplaceCheck, ReplaceRemoved, ReplaceUnset, ReplaceIncr,
                ReplaceUnlock, FreeOld, opvars, locals
  <2> QED
    BY <1>0, <2>1 DEF OpsOK
<1>2. ASSUME NEW p \in Procs, Start(p) PROVE OpsOK'
  <2>1. PICK c \in Abs!Calls :
          /\ op' = [op EXCEPT ![p] = c] /\ seen' = [seen EXCEPT ![p] = {Logical}]
          /\ UNCHANGED res
    BY <1>2, CallFacts DEF Start, Abs!Invoke
  <2>2. op' \in [Procs -> Abs!Calls \union {Abs!Idle}] /\ op'[p] = c
    BY <1>0, <2>1 DEF OpsOK
  <2>3. seen' \in [Procs -> SUBSET (Values \union {None})]
    <3>1. {Logical} \in SUBSET (Values \union {None})
      BY <1>0, LogicalTyped
    <3> QED
      BY <1>0, <2>1, <3>1 DEF OpsOK
  <2>4. pc' = [pc EXCEPT ![p] = IF c.kind = "get" THEN "status" ELSE "lock"] /\ pc[p] = "idle"
    BY <1>2, <2>2 DEF Start, Goto
  <2> QED
    BY <1>0, <2>1, <2>2, <2>3, <2>4, CallFacts DEF OpsOK, TypeOK, Reading, Writing
<1>3. ASSUME NEW p \in Procs, LoadStatus(p) \/ LoadVal(p) \/ CheckRetry(p) \/ CheckFollow(p)
      PROVE  OpsOK'
  BY <1>0, <1>3 DEF LoadStatus, LoadVal, CheckRetry, CheckFollow, Follows, Goto, opvars, OpsOK,
                    TypeOK, Reading, Writing
<1>4. ASSUME NEW p \in Procs, Lock(p) \/ ActFollow(p) \/ IncrVersion(p) \/ Unlock(p) PROVE OpsOK'
  BY <1>0, <1>4 DEF Lock, ActFollow, IncrVersion, Unlock, Goto, opvars, OpsOK,
                    TypeOK, Reading, Writing
<1>5. ASSUME NEW p \in Procs, CheckReturn(p) PROVE OpsOK'
  <2>1. PICK v \in Values \union {None} : res' = [res EXCEPT ![p] = Abs!Got(v)]
    BY <1>0, <1>5, AnswerSeen DEF CheckReturn, OpsOK
  <2>2. Abs!Got(v) # Abs!Undecided
    BY DEF Abs!Got, Abs!Undecided
  <2> HIDE DEF Abs!Got
  <2> QED
    BY <1>0, <1>5, <2>1, <2>2 DEF CheckReturn, Goto, OpsOK, TypeOK, Reading, Writing
<1>6. ASSUME NEW p \in Procs, ActHere(p) PROVE OpsOK'
  <2>1. op[p].kind \in {"update", "remove"} /\ (op[p].kind = "update" => op[p].val \in Values)
    BY <1>0, <1>6, ActiveFacts DEF ActHere, Writing
  <2>2. seen' \in [Procs -> SUBSET (Values \union {None})]
    <3>1. Abs!Result(op[p]) \in Values \union {None}
      BY <2>1 DEF Abs!Result
    <3> QED
      BY <1>0, <1>6, <3>1 DEF ActHere, Abs!See, OpsOK
  <2>3. /\ res' = [res EXCEPT ![p] = Abs!Failed] \/ res' = [res EXCEPT ![p] = Abs!Ok]
        /\ pc' = [pc EXCEPT ![p] = "incr"] /\ UNCHANGED op /\ pc[p] = "act"
    BY <1>6 DEF ActHere, Goto
  <2>4. Abs!Failed # Abs!Undecided /\ Abs!Ok # Abs!Undecided
    BY DEF Abs!Failed, Abs!Ok, Abs!Undecided
  <2> QED
    BY <1>0, <2>2, <2>3, <2>4 DEF OpsOK, TypeOK, Reading, Writing
<1>7. ASSUME NEW p \in Procs, Finish(p) PROVE OpsOK'
  <2>1. /\ op' = [op EXCEPT ![p] = Abs!Idle] /\ seen' = [seen EXCEPT ![p] = {}]
        /\ res' = [res EXCEPT ![p] = Abs!Undecided] /\ pc' = [pc EXCEPT ![p] = "idle"]
    BY <1>7 DEF Finish, Abs!Respond, Goto
  <2> QED
    BY <1>0, <2>1 DEF OpsOK, TypeOK, Reading, Writing
<1> QED
  BY <1>1, <1>2, <1>3, <1>4, <1>5, <1>6, <1>7 DEF Next, Step

LEMMA PathsStep ==
  ASSUME RecInv, Next PROVE Paths'
<1>0. TypeOK /\ OpsOK /\ Paths
  BY DEF RecInv
<1>1. CASE BgNext
  <2>1. UNCHANGED locals
    BY <1>1 DEF BgNext, Publish, PublishedBarrier, ReplacePointer, ReplaceLock, ReplaceLoadStatus,
                ReplaceLoadVal, ReplaceCheck, ReplaceRemoved, ReplaceUnset, ReplaceIncr,
                ReplaceUnlock, FreeOld
  <2> QED
    BY <1>0, <2>1 DEF Paths, locals
<1>2. ASSUME NEW p \in Procs, Start(p) PROVE Paths'
  <2>1. \E l \in {"status", "lock"} : pc' = [pc EXCEPT ![p] = l]
    BY <1>2 DEF Start, Goto
  <2> QED
    BY <1>0, <1>2, <2>1 DEF Start, Paths, TypeOK, Writing
<1>3. ASSUME NEW p \in Procs, LoadStatus(p) \/ LoadVal(p) \/ CheckRetry(p) \/ CheckReturn(p)
      PROVE  Paths'
  BY <1>0, <1>3 DEF LoadStatus, LoadVal, CheckRetry, CheckReturn, Goto, Paths, TypeOK, Writing
<1>4. ASSUME NEW p \in Procs, CheckFollow(p) PROVE Paths'
  BY <1>0, <1>4 DEF CheckFollow, Follows, Goto, Paths, TypeOK, Writing
<1>5. ASSUME NEW p \in Procs, ActFollow(p) PROVE Paths'
  BY <1>0, <1>5 DEF ActFollow, Goto, Paths, TypeOK, Writing
<1>6. ASSUME NEW p \in Procs, Lock(p) \/ ActHere(p) \/ IncrVersion(p) PROVE Paths'
  BY <1>0, <1>6 DEF Lock, ActHere, IncrVersion, Goto, Paths, TypeOK, Writing
<1>7. ASSUME NEW p \in Procs, Unlock(p) PROVE Paths'
  BY <1>0, <1>7 DEF Unlock, Goto, Paths, TypeOK, Writing
<1>8. ASSUME NEW p \in Procs, Finish(p) PROVE Paths'
  BY <1>0, <1>8 DEF Finish, Goto, Paths, TypeOK, Writing
<1> QED
  BY <1>1, <1>2, <1>3, <1>4, <1>5, <1>6, <1>7, <1>8 DEF Next, Step

-----------------------------------------------------------------------------
(* Locks *)

LEMMA LocksWorker ==
  ASSUME RecInv, NEW p \in Procs, Start(p) \/ Step(p) PROVE Locks'
<1>0. TypeOK /\ Paths /\ Locks
  BY DEF RecInv
<1>p. UNCHANGED phase
  BY DEF Start, Step, LoadStatus, LoadVal, CheckRetry, CheckFollow, CheckReturn, Lock, ActFollow,
         ActHere, IncrVersion, Unlock, Finish, bgvars
<1>1. ASSUME \A r \in Recs : rec'[r].locked = rec[r].locked,
             \A q \in Procs, r \in Recs : Holds(q, r)' => Holds(q, r)
      PROVE  Locks'
  BY <1>0, <1>p, <1>1 DEF Locks, BgLocked, Recs
<1>2. CASE Start(p)
  <2>1. ASSUME NEW q \in Procs, NEW r \in Recs, Holds(q, r)' PROVE Holds(q, r)
    <3>1. (pc'[q] = pc[q] /\ at'[q] = at[q]) \/ pc'[q] \in {"status", "lock"}
      BY <1>0, <1>2 DEF Start, Goto, TypeOK
    <3> QED
      BY <1>2, <2>1, <3>1 DEF Start, Holds, InCritical
  <2> QED
    BY <1>1, <1>2, <2>1 DEF Start
<1>3. CASE LoadStatus(p) \/ LoadVal(p) \/ CheckRetry(p) \/ CheckFollow(p) \/ CheckReturn(p)
  <2>1. ASSUME NEW q \in Procs, NEW r \in Recs, Holds(q, r)' PROVE Holds(q, r)
    BY <1>0, <1>3, <2>1 DEF LoadStatus, LoadVal, CheckRetry, CheckFollow, Follows, CheckReturn, Goto,
                            TypeOK, Holds, InCritical
  <2> QED
    BY <1>1, <1>3, <2>1 DEF LoadStatus, LoadVal, CheckRetry, CheckFollow, CheckReturn
<1>4. CASE Lock(p)
  <2>1. /\ at[p] \in Recs /\ rec' = [rec EXCEPT ![at[p]].locked = TRUE] /\ ~rec[at[p]].locked
        /\ at[p] = "new" => ~BgLocked
    BY <1>0, <1>4 DEF Lock, TypeOK, Locks
  <2>2. \A r \in Recs : rec'[r].locked <=> rec[r].locked \/ r = at[p]
    BY <1>0, <2>1, LockEffect
  <2>3. \A q \in Procs, r \in Recs : Holds(q, r)' <=> Holds(q, r) \/ (q = p /\ r = at[p])
    BY <1>0, <1>4 DEF Lock, Goto, Holds, TypeOK, InCritical
  <2>4. \A q \in Procs : ~Holds(q, at[p])
    BY <1>0, <2>1 DEF Locks
  <2> QED
    BY <1>0, <1>p, <2>1, <2>2, <2>3, <2>4 DEF Locks, BgLocked, Recs
<1>5. CASE ActFollow(p)
  <2>1. at[p] = "new"
    BY <1>0, <1>5 DEF ActFollow, TypeOK, Recs
  <2>2. ASSUME NEW q \in Procs, NEW r \in Recs, Holds(q, r)' PROVE Holds(q, r)
    BY <1>0, <1>5, <2>1, <2>2 DEF ActFollow, Goto, Holds, TypeOK, InCritical
  <2> QED
    BY <1>1, <1>5, <2>2 DEF ActFollow
<1>6. CASE ActHere(p) \/ IncrVersion(p)
  <2>1. ASSUME NEW q \in Procs, NEW r \in Recs, Holds(q, r)' PROVE Holds(q, r)
    BY <1>0, <1>6, <2>1 DEF ActHere, IncrVersion, Goto, Holds, TypeOK, InCritical
  <2>2. ASSUME NEW r \in Recs PROVE rec'[r].locked = rec[r].locked
    <3>1. at[p] \in Recs
      BY <1>0 DEF TypeOK
    <3>2. CASE IncrVersion(p)
      <4>1. rec' = [rec EXCEPT ![at[p]].version = @ + 1]
        BY <3>2 DEF IncrVersion
      <4> QED
        BY <1>0, <3>1, <4>1, IncrEffect
    <3>3. CASE ActHere(p)
      BY <3>3, ActEffect
    <3> QED
      BY <1>6, <3>2, <3>3
  <2> QED
    BY <1>1, <2>1, <2>2
<1>7. CASE Unlock(p)
  <2>1. at[p] \in Recs /\ rec' = [rec EXCEPT ![at[p]].locked = FALSE] /\ Holds(p, at[p])
    BY <1>0, <1>7 DEF Unlock, TypeOK, Holds, InCritical
  <2>2. \A r \in Recs : rec'[r].locked <=> rec[r].locked /\ r # at[p]
    BY <1>0, <2>1, UnlockEffect
  <2>3. ASSUME NEW q \in Procs, NEW r \in Recs, Holds(q, r)' PROVE Holds(q, r) /\ r # at[p]
    <3>1. CASE q = p
      BY <1>0, <1>7, <2>3, <3>1 DEF Unlock, Goto, Holds, TypeOK, InCritical, Paths
    <3>2. CASE q # p
      <4>1. Holds(q, r)
        BY <1>0, <1>7, <2>3, <3>2 DEF Unlock, Goto, Holds, TypeOK
      <4> QED
        BY <1>0, <2>1, <3>2, <4>1 DEF Locks
    <3> QED
      BY <3>1, <3>2
  <2>4. at[p] = "new" => ~BgLocked
    BY <1>0, <2>1 DEF Locks
  <2> QED
    BY <1>0, <1>p, <2>2, <2>3, <2>4 DEF Locks, BgLocked, Recs
<1>8. CASE Finish(p)
  <2>1. ASSUME NEW q \in Procs, NEW r \in Recs, Holds(q, r)' PROVE Holds(q, r)
    BY <1>0, <1>8, <2>1 DEF Finish, Goto, Holds, TypeOK, InCritical
  <2> QED
    BY <1>1, <1>8, <2>1 DEF Finish
<1> QED
  BY <1>2, <1>3, <1>4, <1>5, <1>6, <1>7, <1>8 DEF Step

LEMMA LocksBackground ==
  ASSUME RecInv, BgNext PROVE Locks'
<1>0. TypeOK /\ Locks
  BY DEF RecInv
<1>l. UNCHANGED locals
  BY DEF BgNext, Publish, PublishedBarrier, ReplacePointer, ReplaceLock, ReplaceLoadStatus,
         ReplaceLoadVal, ReplaceCheck, ReplaceRemoved, ReplaceUnset, ReplaceIncr,
         ReplaceUnlock, FreeOld
<1>h. \A q \in Procs, r \in Recs : Holds(q, r)' <=> Holds(q, r)
  BY <1>l DEF Holds, locals
<1>n. "new" \in Recs /\ "old" \in Recs
  BY DEF Recs
<1>1. ASSUME \A r \in Recs : rec'[r].locked = rec[r].locked, BgLocked' <=> BgLocked PROVE Locks'
  BY <1>0, <1>h, <1>1 DEF Locks, Recs
<1>2. CASE Publish \/ PublishedBarrier \/ ReplaceLoadStatus \/ ReplaceLoadVal \/ FreeOld
  BY <1>1, <1>2 DEF Publish, PublishedBarrier, ReplaceLoadStatus, ReplaceLoadVal, FreeOld, To, BgLocked
<1>3. CASE ReplaceLock
  <2>1. rec'["new"].locked /\ rec'["old"] = rec["old"]
    BY <1>0, <1>3, <1>n, LockEffect DEF ReplaceLock
  <2>2. \A q \in Procs : ~Holds(q, "new")
    BY <1>0, <1>3, <1>n DEF ReplaceLock, Locks
  <2> QED
    BY <1>0, <1>h, <2>1, <2>2 DEF Locks, Recs
<1>4. CASE ReplaceCheck \/ ReplaceRemoved \/ ReplaceUnset \/ ReplaceIncr
  <2>1. BgLocked' <=> BgLocked
    BY <1>4 DEF ReplaceCheck, ReplaceRemoved, ReplaceUnset, ReplaceIncr, To, BgLocked
  <2>2. \A r \in Recs : rec'[r].locked = rec[r].locked
    <3>1. CASE ReplaceCheck
      BY <3>1, CheckEffect DEF Recs
    <3>2. CASE ReplaceRemoved
      BY <1>0, <1>n, <3>2 DEF ReplaceRemoved, TypeOK, Record
    <3>3. CASE ReplaceUnset
      BY <1>0, <1>n, <3>3, UnsetEffect DEF ReplaceUnset
    <3>4. CASE ReplaceIncr
      BY <1>0, <1>n, <3>4, IncrEffect DEF ReplaceIncr
    <3> QED
      BY <1>4, <3>1, <3>2, <3>3, <3>4
  <2> QED
    BY <1>1, <2>1, <2>2
<1>5. CASE ReplaceUnlock
  <2>1. rec'["old"] = rec["old"] /\ ~BgLocked'
    BY <1>0, <1>5, <1>n, UnlockEffect DEF ReplaceUnlock, To, BgLocked
  <2>2. \A q \in Procs : ~Holds(q, "new")
    BY <1>0, <1>5, <1>n DEF ReplaceUnlock, Locks, BgLocked
  <2> QED
    BY <1>0, <1>h, <2>1, <2>2 DEF Locks, Recs
<1> QED
  BY <1>2, <1>3, <1>4, <1>5 DEF BgNext, ReplacePointer

-----------------------------------------------------------------------------
(* Frames *)

LEMMA WorkerFrame ==
  ASSUME NEW p \in Procs, Start(p) \/ Step(p)
  PROVE  /\ UNCHANGED <<phase, bst, bva>>
         /\ bwait' = bwait \/ (Finish(p) /\ bwait' = bwait \ {p})
  BY DEF Start, Step, LoadStatus, LoadVal, CheckRetry, CheckFollow, CheckReturn, Lock, ActFollow,
         ActHere, IncrVersion, Unlock, Finish, bgvars

\* Workers change what the records say in ActHere only.
LEMMA WorkerRecords ==
  ASSUME RecInv, NEW p \in Procs, Start(p) \/ Step(p), ~ActHere(p)
  PROVE  \A r \in Recs :
           /\ rec'[r].val = rec[r].val /\ rec'[r].removed = rec[r].removed
           /\ rec'[r].is_ptr = rec[r].is_ptr
           /\ rec'[r].version = IF IncrVersion(p) /\ r = at[p] THEN rec[r].version + 1
                                ELSE rec[r].version
<1>0. TypeOK /\ at[p] \in Recs
  BY DEF RecInv, TypeOK
<1>1. CASE Lock(p)
  <2>1. rec' = [rec EXCEPT ![at[p]].locked = TRUE] /\ ~IncrVersion(p)
    BY <1>1 DEF Lock, IncrVersion
  <2> QED
    BY <1>0, <2>1, LockEffect
<1>2. CASE Unlock(p)
  <2>1. rec' = [rec EXCEPT ![at[p]].locked = FALSE] /\ ~IncrVersion(p)
    BY <1>2 DEF Unlock, IncrVersion
  <2> QED
    BY <1>0, <2>1, UnlockEffect
<1>3. CASE IncrVersion(p)
  <2>1. rec' = [rec EXCEPT ![at[p]].version = @ + 1]
    BY <1>3 DEF IncrVersion
  <2> QED
    BY <1>0, <1>3, <2>1, IncrEffect
<1>4. CASE UNCHANGED rec /\ ~IncrVersion(p)
  BY <1>4
<1> QED
  BY <1>1, <1>2, <1>3, <1>4
     DEF Start, Step, LoadStatus, LoadVal, CheckRetry, CheckFollow, CheckReturn, ActFollow, Finish,
         IncrVersion

LEMMA BackgroundFrame ==
  ASSUME RecInv, BgNext
  PROVE  UNCHANGED <<inbuf, locals, opvars>> /\ rec'["old"] = rec["old"]
<1>0. TypeOK /\ "new" \in Recs /\ "old" \in Recs
  BY DEF RecInv, Recs
<1>1. UNCHANGED <<inbuf, locals, opvars>>
  BY DEF BgNext, Publish, PublishedBarrier, ReplacePointer, ReplaceLock, ReplaceLoadStatus,
         ReplaceLoadVal, ReplaceCheck, ReplaceRemoved, ReplaceUnset, ReplaceIncr,
         ReplaceUnlock, FreeOld
<1>2. CASE ReplaceLock
  BY <1>1, <1>0, <1>2, LockEffect DEF ReplaceLock
<1>3. CASE ReplaceCheck
  BY <1>1, <1>3, CheckEffect
<1>4. CASE ReplaceRemoved
  <2>1. bst.removed \in BOOLEAN
    BY <1>0 DEF TypeOK, Word
  <2> QED
    BY <1>1, <1>0, <1>4, <2>1, RemovedEffect DEF ReplaceRemoved
<1>5. CASE ReplaceUnset
  BY <1>1, <1>0, <1>5, UnsetEffect DEF ReplaceUnset
<1>6. CASE ReplaceIncr
  BY <1>1, <1>0, <1>6, IncrEffect DEF ReplaceIncr
<1>7. CASE ReplaceUnlock
  BY <1>1, <1>0, <1>7, UnlockEffect DEF ReplaceUnlock
<1> QED
  BY <1>1, <1>2, <1>3, <1>4, <1>5, <1>6, <1>7
     DEF BgNext, Publish, PublishedBarrier, ReplacePointer, ReplaceLoadStatus, ReplaceLoadVal, FreeOld

\* The background thread and the pointer record.
LEMMA BackgroundNew ==
  ASSUME RecInv, BgNext
  PROVE  LET n == rec["new"]
             m == rec'["new"] IN
    \/ ReplaceCheck /\ phase' = "removed" /\ m.val = rec["old"].val
         /\ m.removed = n.removed /\ m.is_ptr = n.is_ptr /\ m.version = n.version
    \/ ReplaceRemoved /\ phase' = "unset" /\ m.val = n.val
         /\ m.removed = bst.removed /\ m.is_ptr = n.is_ptr /\ m.version = n.version
    \/ ReplaceUnset /\ phase' = "incr" /\ m.val = n.val
         /\ m.removed = n.removed /\ ~m.is_ptr /\ m.version = n.version
    \/ ReplaceIncr /\ phase' = "unlock" /\ m.val = n.val
         /\ m.removed = n.removed /\ m.is_ptr = n.is_ptr /\ m.version = n.version + 1
    \/ /\ m.val = n.val /\ m.removed = n.removed /\ m.is_ptr = n.is_ptr /\ m.version = n.version
       /\ \/ Publish \/ PublishedBarrier \/ ReplaceLock \/ ReplaceLoadStatus \/ ReplaceLoadVal
          \/ ReplaceUnlock \/ FreeOld \/ (ReplaceCheck /\ phase' = "status")
<1>0. TypeOK /\ "new" \in Recs
  BY DEF RecInv, Recs
<1>2. CASE ReplaceLock
  BY <1>0, <1>2, LockEffect DEF ReplaceLock
<1>3. CASE ReplaceCheck
  BY <1>3, CheckEffect
<1>4. CASE ReplaceRemoved
  <2>1. bst.removed \in BOOLEAN
    BY <1>0 DEF TypeOK, Word
  <2> QED
    BY <1>0, <1>4, <2>1, RemovedEffect DEF ReplaceRemoved, To
<1>5. CASE ReplaceUnset
  BY <1>0, <1>5, UnsetEffect DEF ReplaceUnset, To
<1>6. CASE ReplaceIncr
  BY <1>0, <1>6, IncrEffect DEF ReplaceIncr, To
<1>7. CASE ReplaceUnlock
  BY <1>0, <1>7, UnlockEffect DEF ReplaceUnlock
<1> QED
  BY <1>2, <1>3, <1>4, <1>5, <1>6, <1>7
     DEF BgNext, Publish, PublishedBarrier, ReplacePointer, ReplaceLoadStatus, ReplaceLoadVal, FreeOld

-----------------------------------------------------------------------------
(* Grace periods and the copy *)

LEMMA GraceStep ==
  ASSUME RecInv, Next PROVE Grace'
<1>0. TypeOK /\ Grace /\ Paths
  BY DEF RecInv
<1>1. ASSUME NEW p \in Procs, Start(p) PROVE Grace'
  <2>1. \E l \in {"status", "lock"} : pc' = [pc EXCEPT ![p] = l]
    BY <1>1 DEF Start, Goto
  <2> QED
    BY <1>0, <1>1, <2>1 DEF Start, Grace, TypeOK, bgvars
<1>2. ASSUME NEW p \in Procs, LoadStatus(p) \/ LoadVal(p) \/ CheckRetry(p) \/ CheckReturn(p)
      PROVE  Grace'
  BY <1>0, <1>2 DEF LoadStatus, LoadVal, CheckRetry, CheckReturn, Goto, Grace, TypeOK, bgvars
<1>3. ASSUME NEW p \in Procs, CheckFollow(p) PROVE Grace'
  <2>1. phase \in {"merged", "published", "lock"} /\ UNCHANGED <<phase, bwait, old>>
    BY <1>3, FollowedPointer DEF CheckFollow, bgvars
  <2> QED
    BY <1>0, <2>1 DEF Grace
<1>4. ASSUME NEW p \in Procs, ActFollow(p) PROVE Grace'
  <2>1. rec["new"].is_ptr
    BY <1>0, <1>4 DEF ActFollow, TypeOK, Recs
  <2>2. phase \notin {"replaced", "freed"} /\ UNCHANGED <<phase, bwait, old>>
    BY <1>4, <2>1 DEF RecInv, Copied, ActFollow, bgvars
  <2> QED
    BY <1>0, <2>2 DEF Grace
<1>5. ASSUME NEW p \in Procs, Lock(p) \/ ActHere(p) \/ IncrVersion(p) PROVE Grace'
  BY <1>0, <1>5 DEF Lock, ActHere, IncrVersion, Goto, Grace, TypeOK, bgvars
<1>6. ASSUME NEW p \in Procs, Unlock(p) PROVE Grace'
  BY <1>0, <1>6 DEF Unlock, Goto, Grace, TypeOK, bgvars
<1>7. ASSUME NEW p \in Procs, Finish(p) PROVE Grace'
  BY <1>0, <1>7 DEF Finish, Goto, Grace, TypeOK
<1>8. CASE BgNext
  <2>1. UNCHANGED <<pc, at, old>>
    BY <1>8, BackgroundFrame DEF locals
  <2>2. CASE Publish
    BY <1>0, <2>1, <2>2 DEF Publish, To, Grace, Paths
  <2>3. CASE PublishedBarrier \/ FreeOld
    BY <1>0, <2>1, <2>3 DEF PublishedBarrier, FreeOld, To, Grace, TypeOK, Recs
  <2>4. CASE ReplaceLock \/ ReplaceLoadStatus \/ ReplaceLoadVal \/ ReplaceCheck
    BY <1>0, <2>1, <2>4 DEF ReplaceLock, ReplaceLoadStatus, ReplaceLoadVal, ReplaceCheck, To, Grace
  <2>5. CASE ReplaceRemoved \/ ReplaceUnset \/ ReplaceIncr
    BY <1>0, <2>1, <2>5 DEF ReplaceRemoved, ReplaceUnset, ReplaceIncr, To, Grace
  <2>6. CASE ReplaceUnlock
    BY <1>0, <2>1, <2>6 DEF ReplaceUnlock, To, Grace
  <2> QED
    BY <1>8, <2>2, <2>3, <2>4, <2>5, <2>6 DEF BgNext, ReplacePointer
<1> QED
  BY <1>1, <1>2, <1>3, <1>4, <1>5, <1>6, <1>7, <1>8 DEF Next, Step

LEMMA CopiedStep ==
  ASSUME RecInv, Next PROVE Copied'
<1>0. TypeOK /\ Copied /\ Locks /\ "new" \in Recs /\ "old" \in Recs
  BY DEF RecInv, Recs
<1>1. ASSUME NEW p \in Procs, Start(p) \/ Step(p), ~ActHere(p) PROVE Copied'
  <2>1. UNCHANGED <<phase, bst, bva>>
    BY <1>1, WorkerFrame
  <2>2. \A q \in Procs : outer'[q] => outer[q] \/ rec["new"].is_ptr
    <3>1. CASE ActFollow(p)
      BY <1>0, <3>1 DEF ActFollow, TypeOK, Recs
    <3>2. CASE Unlock(p)
      BY <1>0, <3>2 DEF Unlock, TypeOK
    <3> QED
      BY <1>1, <3>1, <3>2 DEF Start, Step, LoadStatus, LoadVal, CheckRetry, CheckFollow, CheckReturn,
                              Lock, IncrVersion, Finish
  <2> QED
    BY <1>0, <1>1, <2>1, <2>2, WorkerRecords DEF Copied
<1>2. ASSUME NEW p \in Procs, ActHere(p) PROVE Copied'
  <2>1. UNCHANGED <<phase, bst, bva, outer>>
    BY <1>2 DEF ActHere, bgvars
  <2>2. CASE at[p] = "old"
    BY <1>0, <1>2, <2>1, <2>2, ActsOnLogical, ActEffect DEF Copied, BgLocked
  <2>3. CASE at[p] = "new"
    BY <1>0, <1>2, <2>1, <2>3, ActsOnLogical, ActEffect DEF Copied, BgLocked
  <2> QED
    BY <1>0, <2>2, <2>3 DEF TypeOK, Recs
<1>3. CASE BgNext
  <2>1. UNCHANGED outer /\ rec'["old"] = rec["old"]
    BY <1>3, BackgroundFrame DEF locals
  <2>2. CASE Publish \/ PublishedBarrier \/ ReplaceLock \/ FreeOld \/ ReplaceUnlock
    <3>1. UNCHANGED <<bst, bva>>
      BY <2>2 DEF Publish, PublishedBarrier, ReplaceLock, FreeOld, ReplaceUnlock
    <3> QED
      BY <1>0, <1>3, <2>1, <2>2, <3>1, BackgroundNew
         DEF Publish, PublishedBarrier, ReplaceLock, FreeOld, ReplaceUnlock,
             ReplaceCheck, ReplaceRemoved, ReplaceUnset, ReplaceIncr, To, Copied
  <2>3. CASE ReplaceLoadStatus \/ ReplaceLoadVal
    BY <1>0, <2>1, <2>3 DEF ReplaceLoadStatus, ReplaceLoadVal, To, Copied, WordOf
  <2>4. CASE ReplaceCheck
    BY <1>0, <2>1, <2>4, CheckEffect DEF ReplaceCheck, Copied
  <2>5. CASE ReplaceRemoved
    BY <1>0, <1>3, <2>1, <2>5, BackgroundNew
       DEF Publish, PublishedBarrier, ReplaceLock, ReplaceLoadStatus, ReplaceLoadVal, FreeOld,
           ReplaceUnlock, ReplaceCheck, ReplaceRemoved, ReplaceUnset, ReplaceIncr, To, Copied
  <2>6. CASE ReplaceUnset
    <3>1. \A q \in Procs : ~outer[q]
      BY <1>0, <2>6 DEF ReplaceUnset, Locks, BgLocked, Holds
    <3> QED
      BY <1>0, <1>3, <2>1, <2>6, <3>1, BackgroundNew
         DEF Publish, PublishedBarrier, ReplaceLock, ReplaceLoadStatus, ReplaceLoadVal, FreeOld,
             ReplaceUnlock, ReplaceCheck, ReplaceRemoved, ReplaceUnset, ReplaceIncr, To, Copied
  <2>7. CASE ReplaceIncr
    BY <1>0, <1>3, <2>1, <2>7, BackgroundNew
       DEF Publish, PublishedBarrier, ReplaceLock, ReplaceLoadStatus, ReplaceLoadVal, FreeOld,
           ReplaceUnlock, ReplaceCheck, ReplaceRemoved, ReplaceUnset, ReplaceIncr, To, Copied
  <2> QED
    BY <1>3, <2>2, <2>3, <2>4, <2>5, <2>6, <2>7 DEF BgNext, ReplacePointer
<1> QED
  BY <1>1, <1>2, <1>3 DEF Next

-----------------------------------------------------------------------------
(* Reads *)

\* A reader that does not move is not misled by what happens to its record.
LEMMA ReadStays ==
  ASSUME RecInv, TypeOK', NEW q \in Procs, pc[q] \in {"val", "check"},
         pc'[q] = pc[q], at'[q] = at[q], st'[q] = st[q], va'[q] = va[q],
         \/ /\ rec'[at[q]].val = rec[at[q]].val /\ rec'[at[q]].removed = rec[at[q]].removed
            /\ rec'[at[q]].is_ptr = rec[at[q]].is_ptr /\ rec'[at[q]].version = rec[at[q]].version
            /\ Dirty(at[q]) => Dirty(at[q])'
         \/ Dirty(at[q])' /\ rec'[at[q]].version = rec[at[q]].version
         \/ rec'[at[q]].version = rec[at[q]].version + 1
  PROVE  ReadOK(q)'
<1>0. /\ ReadOK(q) /\ at[q] \in Recs
      /\ rec[at[q]].version \in Nat /\ st[q].version \in Nat
  BY DEF RecInv, Reads, TypeOK, Record, Word
<1>1. CASE Dirty(at[q])' /\ rec'[at[q]].version = rec[at[q]].version
  BY <1>0, <1>1 DEF ReadOK, Fresh
<1>2. CASE rec'[at[q]].version = rec[at[q]].version + 1
  BY <1>0, <1>2 DEF ReadOK, Fresh
<1>3. CASE /\ rec'[at[q]].val = rec[at[q]].val /\ rec'[at[q]].removed = rec[at[q]].removed
           /\ rec'[at[q]].is_ptr = rec[at[q]].is_ptr /\ rec'[at[q]].version = rec[at[q]].version
           /\ Dirty(at[q]) => Dirty(at[q])'
  BY <1>0, <1>3 DEF ReadOK, Fresh
<1> QED
  BY <1>1, <1>2, <1>3

\* A worker ends the dirty state of a record in IncrVersion only.
LEMMA DirtyStays ==
  ASSUME RecInv, NEW p \in Procs, Start(p) \/ Step(p), NEW r \in Recs, Dirty(r),
         ~(IncrVersion(p) /\ at[p] = r)
  PROVE  Dirty(r)'
<1>0. TypeOK /\ UNCHANGED phase
  BY WorkerFrame DEF RecInv
<1>1. CASE r = "new" /\ phase \in {"removed", "unset", "incr"}
  BY <1>0, <1>1 DEF Dirty
<1>2. CASE \E q \in Procs : pc[q] = "incr" /\ at[q] = r
  <2>1. PICK q \in Procs : pc[q] = "incr" /\ at[q] = r
    BY <1>2
  <2>2. CASE q = p
    BY <2>1, <2>2 DEF Start, Step, LoadStatus, LoadVal, CheckRetry, CheckFollow, Follows, CheckReturn,
                      Lock, ActFollow, ActHere, IncrVersion, Unlock, Finish
  <2>3. CASE q # p
    <3>1. pc'[q] = pc[q]
      BY <1>0, <2>3 DEF Start, Step, LoadStatus, LoadVal, CheckRetry, CheckFollow, CheckReturn,
                        Lock, ActFollow, ActHere, IncrVersion, Unlock, Finish, Goto, TypeOK
    <3>2. at'[q] = at[q]
      BY <1>0, <2>3 DEF Start, Step, LoadStatus, LoadVal, CheckRetry, CheckFollow, CheckReturn,
                        Lock, ActFollow, ActHere, IncrVersion, Unlock, Finish, TypeOK
    <3> QED
      BY <2>1, <3>1, <3>2 DEF Dirty
  <2> QED
    BY <2>2, <2>3
<1> QED
  BY <1>1, <1>2 DEF Dirty

LEMMA OtherWorker ==
  ASSUME TypeOK, NEW p \in Procs, NEW q \in Procs, q # p, Start(p) \/ Step(p)
  PROVE  /\ pc'[q] = pc[q] /\ at'[q] = at[q] /\ outer'[q] = outer[q] /\ old'[q] = old[q]
         /\ st'[q] = st[q] /\ va'[q] = va[q]
<1>1. pc'[q] = pc[q]
  BY DEF Start, Step, LoadStatus, LoadVal, CheckRetry, CheckFollow, CheckReturn,
         Lock, ActFollow, ActHere, IncrVersion, Unlock, Finish, Goto, TypeOK
<1>2. at'[q] = at[q] /\ outer'[q] = outer[q]
  BY DEF Start, Step, LoadStatus, LoadVal, CheckRetry, CheckFollow, CheckReturn,
         Lock, ActFollow, ActHere, IncrVersion, Unlock, Finish, TypeOK
<1>3. old'[q] = old[q] /\ st'[q] = st[q] /\ va'[q] = va[q]
  BY DEF Start, Step, LoadStatus, LoadVal, CheckRetry, CheckFollow, CheckReturn,
         Lock, ActFollow, ActHere, IncrVersion, Unlock, Finish, TypeOK
<1> QED
  BY <1>1, <1>2, <1>3

LEMMA ReadsStep ==
  ASSUME RecInv, Next PROVE Reads'
<1> SUFFICES ASSUME NEW q \in Procs, pc'[q] \in {"val", "check"} PROVE ReadOK(q)'
  BY DEF Reads
<1>0. TypeOK /\ at[q] \in Recs /\ TypeOK'
  BY RecTypeStep DEF RecInv, TypeOK
<1>1. ASSUME NEW p \in Procs, Start(p) \/ Step(p), p # q PROVE ReadOK(q)'
  <2>1. /\ pc[q] \in {"val", "check"} /\ pc'[q] = pc[q] /\ at'[q] = at[q]
        /\ st'[q] = st[q] /\ va'[q] = va[q]
    BY <1>0, <1>1, OtherWorker
  <2>2. CASE ActHere(p)
    <3>1. CASE at[p] = at[q]
      <4>1. Dirty(at[q])'
        BY <1>0, <2>2, <3>1 DEF ActHere, Goto, Dirty, TypeOK
      <4> QED
        BY <1>0, <2>1, <2>2, <4>1, ActEffect, ReadStays
    <3>2. CASE at[p] # at[q]
      <4>1. ~IncrVersion(p) /\ rec'[at[q]] = rec[at[q]]
        BY <1>0, <2>2, <3>2, ActEffect DEF ActHere, IncrVersion
      <4> QED
        BY <1>0, <1>1, <2>1, <4>1, DirtyStays, ReadStays
    <3> QED
      BY <3>1, <3>2
  <2>3. CASE ~ActHere(p)
    <3>1. CASE IncrVersion(p) /\ at[p] = at[q]
      BY <1>0, <1>1, <2>1, <2>3, <3>1, WorkerRecords, ReadStays
    <3>2. CASE ~(IncrVersion(p) /\ at[p] = at[q])
      <4>1. Dirty(at[q]) => Dirty(at[q])'
        <5>1. PICK r \in Recs : r = at[q]
          BY <1>0
        <5>2. Dirty(r) => Dirty(r)'
          BY <1>0, <1>1, <3>2, <5>1, DirtyStays
        <5> QED
          BY <2>1, <5>1, <5>2 DEF Dirty
      <4>2. /\ rec'[at[q]].val = rec[at[q]].val /\ rec'[at[q]].removed = rec[at[q]].removed
            /\ rec'[at[q]].is_ptr = rec[at[q]].is_ptr /\ rec'[at[q]].version = rec[at[q]].version
        BY <1>0, <1>1, <2>3, <3>2, WorkerRecords
      <4> QED
        BY <1>0, <2>1, <4>1, <4>2, ReadStays
    <3> QED
      BY <3>1, <3>2
  <2> QED
    BY <2>2, <2>3
<1>2. CASE LoadStatus(q)
  <2>1. st'[q] = WordOf(rec[at[q]]) /\ pc'[q] = "val" /\ UNCHANGED <<rec, at>>
    BY <1>0, <1>2 DEF LoadStatus, Goto, TypeOK
  <2>2. rec[at[q]].version \in Nat
    BY <1>0 DEF TypeOK, Record
  <2> QED
    BY <1>0, <2>1, <2>2 DEF ReadOK, Fresh, WordOf, TypeOK
<1>3. CASE LoadVal(q)
  <2>1. /\ va'[q] = rec[at[q]].val /\ UNCHANGED <<rec, at, st, phase>> /\ pc[q] = "val"
    BY <1>0, <1>3 DEF LoadVal, TypeOK, bgvars
  <2>2. Dirty(at[q]) => Dirty(at[q])'
    BY <1>0, <1>3, DirtyStays DEF Step, LoadVal, IncrVersion, locals, vars, RecInv, Dirty, Goto, bgvars, TypeOK
  <2>3. ReadOK(q)
    BY <2>1 DEF RecInv, Reads
  <2> QED
    BY <2>1, <2>2, <2>3 DEF ReadOK, Fresh
<1>4. CASE (Start(q) \/ Step(q)) /\ ~LoadStatus(q) /\ ~LoadVal(q)
  <2>1. \A l : Goto(q, l) => pc'[q] = l
    BY <1>0 DEF Goto, TypeOK
  <2> QED
    BY <1>4, <2>1 DEF Start, Step, CheckRetry, CheckFollow, CheckReturn,
                      Lock, ActFollow, ActHere, IncrVersion, Unlock, Finish
<1>5. CASE BgNext
  <2>1. /\ pc[q] \in {"val", "check"} /\ UNCHANGED <<pc, at, st, va>> /\ rec'["old"] = rec["old"]
    BY <1>5, BackgroundFrame DEF locals
  <2>2. CASE at[q] = "old"
    <3>1. Dirty("old") => Dirty("old")'
      BY <2>1 DEF Dirty
    <3> QED
      BY <1>0, <2>1, <2>2, <3>1, ReadStays
  <2>3. CASE at[q] = "new"
    <3>1. CASE phase' \in {"removed", "unset", "incr"}
      <4>1. Dirty("new")' /\ rec'["new"].version = rec["new"].version
        BY <1>5, <3>1, BackgroundNew DEF Dirty, ReplaceIncr, To
      <4> QED
        BY <1>0, <2>1, <2>3, <4>1, ReadStays
    <3>2. CASE phase' \notin {"removed", "unset", "incr"} /\ ~ReplaceIncr
      <4>1. /\ rec'["new"].val = rec["new"].val /\ rec'["new"].removed = rec["new"].removed
            /\ rec'["new"].is_ptr = rec["new"].is_ptr /\ rec'["new"].version = rec["new"].version
        BY <1>5, <3>2, BackgroundNew
      <4>2. phase \notin {"removed", "unset", "incr"}
        BY <1>5, <3>2 DEF BgNext, Publish, PublishedBarrier, ReplacePointer, ReplaceLock,
                          ReplaceLoadStatus, ReplaceLoadVal, ReplaceCheck, ReplaceRemoved,
                          ReplaceUnset, ReplaceUnlock, FreeOld, To
      <4>3. Dirty("new") => Dirty("new")'
        BY <2>1, <4>2 DEF Dirty
      <4> QED
        BY <1>0, <2>1, <2>3, <4>1, <4>3, ReadStays
    <3>3. CASE ReplaceIncr
      <4>1. rec'["new"].version = rec["new"].version + 1
        BY <1>0, <3>3, IncrEffect DEF ReplaceIncr, Recs
      <4> QED
        BY <1>0, <2>1, <2>3, <4>1, ReadStays
    <3> QED
      BY <3>1, <3>2, <3>3
  <2> QED
    BY <1>0, <2>2, <2>3 DEF Recs
<1> QED
  BY <1>1, <1>2, <1>3, <1>4, <1>5 DEF Next

-----------------------------------------------------------------------------
(* The value of the key *)

\* The background thread does not change the value of the key.
LEMMA LogicalBackground ==
  ASSUME RecInv, BgNext PROVE Logical' = Logical
<1>0. /\ TypeOK /\ Copied /\ rec'["old"] = rec["old"]
      /\ rec["new"].is_ptr \in BOOLEAN /\ rec'["new"].is_ptr \in BOOLEAN
  BY BackgroundFrame, RecTypeBackground DEF RecInv, TypeOK, Record, Recs
<1>1. CASE ReplaceUnset
  <2>1. rec["new"].is_ptr /\ phase = "unset" /\ rec["new"].val = rec["old"].val
        /\ rec["new"].removed = rec["old"].removed
    BY <1>0, <1>1 DEF ReplaceUnset, Copied
  <2>2. ~rec'["new"].is_ptr /\ rec'["new"].val = rec["new"].val /\ rec'["new"].removed = rec["new"].removed
    BY <1>0, <1>1, UnsetEffect DEF ReplaceUnset, Recs
  <2> QED
    BY <1>0, <2>1, <2>2 DEF Logical
<1>2. CASE ~ReplaceUnset
  <2>1. rec'["new"].is_ptr = rec["new"].is_ptr
    BY <1>2, BackgroundNew
  <2>2. ~rec["new"].is_ptr => /\ rec'["new"].val = rec["new"].val
                              /\ rec'["new"].removed = rec["new"].removed
    BY <1>0, <1>2, BackgroundNew DEF Copied, ReplaceCheck, ReplaceRemoved
  <2> QED
    BY <1>0, <2>1, <2>2 DEF Logical
<1> QED
  BY <1>1, <1>2

\* Of the workers' steps, only an update or remove that succeeds changes it.
LEMMA LogicalWorker ==
  ASSUME RecInv, NEW p \in Procs, Start(p) \/ Step(p)
  PROVE  Logical' = IF ActHere(p) /\ ~rec[at[p]].removed THEN Abs!Result(op[p]) ELSE Logical
<1>0. TypeOK /\ "new" \in Recs /\ "old" \in Recs
  BY DEF RecInv, Recs
<1>1. CASE ActHere(p) /\ ~rec[at[p]].removed
  <2>1. /\ at[p] = IF rec["new"].is_ptr THEN "old" ELSE "new"
        /\ rec'["new"].is_ptr = rec["new"].is_ptr /\ UNCHANGED at
        /\ Content(at[p])' = Abs!Result(op[p])
    BY <1>0, <1>1, ActsOnLogical, ActEffect DEF ActHere
  <2> QED
    BY <1>1, <2>1 DEF Logical, Content
<1>2. CASE ActHere(p) /\ rec[at[p]].removed
  BY <1>2, ActEffect DEF Logical
<1>3. CASE ~ActHere(p)
  BY <1>0, <1>3, WorkerRecords DEF Logical
<1> QED
  BY <1>1, <1>2, <1>3

\* A successful mutation shows its result to every operation under way.
LEMMA SeenByAll ==
  ASSUME RecInv, NEW p \in Procs, ActHere(p), ~rec[at[p]].removed,
         NEW q \in Procs, pc[q] # "idle"
  PROVE  seen'[q] = seen[q] \union {Abs!Result(op[p])}
<1>1. op[q] # Abs!Idle /\ op[q].key = Key
  BY ActiveFacts DEF RecInv
<1>2. seen' = Abs!See(Key, Abs!Result(op[p]))
  BY ActEffect
<1> QED
  BY <1>1, <1>2 DEF Abs!See

LEMMA SeenWorkerSelf ==
  ASSUME RecInv, TypeOK', NEW p \in Procs, Start(p) \/ Step(p), pc'[p] # "idle"
  PROVE  SeenBy(p)'
<1>0. TypeOK /\ OpsOK /\ Paths /\ Paths'
  BY PathsStep DEF RecInv, Next
<1>l. /\ Logical' = IF ActHere(p) /\ ~rec[at[p]].removed THEN Abs!Result(op[p]) ELSE Logical
      /\ rec["new"].is_ptr => Logical = Content("old")
  BY LogicalWorker DEF Logical, Content
<1>1. CASE Start(p)
  <2>1. Logical' = Logical /\ seen'[p] = {Logical} /\ UNCHANGED rec
    <3>1. PICK c \in Abs!Calls : seen' = [seen EXCEPT ![p] = {Logical}]
      BY <1>1, CallFacts DEF Start, Abs!Invoke
    <3> QED
      BY <1>0, <1>1, <3>1 DEF Start, OpsOK, Logical
  <2>2. pc'[p] \in {"status", "lock"}
    BY <1>0, <1>1 DEF Start, Goto, TypeOK
  <2>3. at'[p] = "old" => rec["new"].is_ptr
    BY <1>0, <1>1 DEF Start, TypeOK, RecInv, Copied
  <2> QED
    BY <1>l, <2>1, <2>2, <2>3 DEF SeenBy, Content
<1>2. CASE LoadStatus(p)
  <2>1. /\ UNCHANGED <<rec, seen, at, old>> /\ st'[p] = WordOf(rec[at[p]]) /\ pc'[p] = "val"
        /\ pc[p] = "status" /\ SeenBy(p)
    BY <1>0, <1>2 DEF LoadStatus, Goto, TypeOK, opvars, RecInv, SeenOK
  <2>2. Logical' = Logical
    BY <2>1 DEF Logical
  <2>3. old[p] => at[p] = "old"
    BY <1>0 DEF Paths
  <2> QED
    BY <2>1, <2>2, <2>3 DEF SeenBy, Content, WordOf, Reading
<1>3. CASE LoadVal(p)
  <2>1. /\ UNCHANGED <<rec, seen, at, old, st>> /\ va'[p] = rec[at[p]].val /\ pc'[p] = "check"
        /\ pc[p] = "val" /\ SeenBy(p)
    BY <1>0, <1>3 DEF LoadVal, Goto, TypeOK, opvars, RecInv, SeenOK
  <2>2. Logical' = Logical
    BY <2>1 DEF Logical
  <2>3. old[p] => at[p] = "old"
    BY <1>0 DEF Paths
  <2> QED
    BY <2>1, <2>2, <2>3 DEF SeenBy, Content, Fresh, Reading
<1>4. CASE CheckRetry(p)
  <2>1. UNCHANGED <<rec, seen, at, old>> /\ pc'[p] = "status" /\ pc[p] = "check" /\ SeenBy(p)
    BY <1>0, <1>4 DEF CheckRetry, Goto, TypeOK, opvars, RecInv, SeenOK
  <2> QED
    BY <2>1 DEF SeenBy, Content, Logical, Reading
<1>5. CASE CheckFollow(p)
  <2>1. UNCHANGED <<rec, seen>> /\ pc'[p] = "status" /\ pc[p] = "check" /\ SeenBy(p)
    BY <1>0, <1>5 DEF CheckFollow, Follows, Goto, TypeOK, opvars, RecInv, SeenOK
  <2>2. rec["new"].is_ptr
    BY <1>5, FollowedPointer DEF CheckFollow
  <2> QED
    BY <1>l, <2>1, <2>2 DEF SeenBy, Content, Logical, Reading
<1>6. CASE ActHere(p)
  <2>1. pc[p] # "idle" /\ pc'[p] = "incr" /\ SeenBy(p)
    BY <1>0, <1>6 DEF ActHere, Goto, TypeOK, RecInv, SeenOK
  <2>2. Logical' \in seen'[p]
    BY <1>l, <1>6, <2>1, ActEffect, SeenByAll DEF SeenBy
  <2> QED
    BY <2>1, <2>2 DEF SeenBy, Reading
<1>7. CASE CheckReturn(p) \/ Lock(p) \/ ActFollow(p) \/ IncrVersion(p) \/ Unlock(p)
  <2>1. pc[p] # "idle" /\ UNCHANGED seen /\ SeenBy(p) /\ ~ActHere(p)
    BY <1>7 DEF CheckReturn, Lock, ActFollow, IncrVersion, Unlock, ActHere, opvars, RecInv, SeenOK
  <2>2. pc'[p] \notin Reading
    BY <1>0, <1>7 DEF CheckReturn, Lock, ActFollow, IncrVersion, Unlock, Goto, TypeOK, Reading
  <2> QED
    BY <1>l, <2>1, <2>2 DEF SeenBy, Reading
<1>8. CASE Finish(p)
  BY <1>0, <1>8 DEF Finish, Goto, TypeOK
<1> QED
  BY <1>1, <1>2, <1>3, <1>4, <1>5, <1>6, <1>7, <1>8 DEF Step

LEMMA SeenWorkerOther ==
  ASSUME RecInv, TypeOK', NEW p \in Procs, Start(p) \/ Step(p), NEW q \in Procs, q # p, pc'[q] # "idle"
  PROVE  SeenBy(q)'
<1>0. TypeOK /\ OpsOK /\ Paths
  BY DEF RecInv
<1>1. /\ pc'[q] = pc[q] /\ at'[q] = at[q] /\ outer'[q] = outer[q] /\ old'[q] = old[q]
      /\ st'[q] = st[q] /\ va'[q] = va[q]
  BY <1>0, OtherWorker
<1>2. SeenBy(q) /\ (old[q] => at[q] = "old") /\ pc[q] # "idle"
  BY <1>0, <1>1 DEF RecInv, SeenOK, Paths
<1>3. CASE ActHere(p) /\ ~rec[at[p]].removed
  <2>1. seen'[q] = seen[q] \union {Abs!Result(op[p])} /\ Logical' = Abs!Result(op[p])
    BY <1>2, <1>3, SeenByAll, LogicalWorker
  <2>2. CASE at[p] = "old"
    <3>1. /\ rec'["old"].version = rec["old"].version
          /\ Content("old")' = Abs!Result(op[p])
          /\ \/ rec'["old"].val = Abs!Result(op[p])
             \/ rec'["old"].val = rec["old"].val
      BY <1>3, <2>2, ActEffect DEF Abs!Result, Recs, ActHere, Content
    <3> QED
      BY <1>1, <1>2, <2>1, <3>1 DEF SeenBy, Fresh
  <2>3. CASE at[p] # "old"
    <3>1. rec'["old"] = rec["old"]
      BY <1>3, <2>3, ActEffect DEF Recs
    <3> QED
      BY <1>1, <1>2, <2>1, <3>1 DEF SeenBy, Fresh, Content
  <2> QED
    BY <2>2, <2>3
<1>4. CASE ~(ActHere(p) /\ ~rec[at[p]].removed)
  <2>1. Logical' = Logical
    BY <1>4, LogicalWorker
  <2>2. seen'[q] = seen[q]
    <3>1. CASE Start(p)
      BY <1>0, <3>1 DEF Start, Abs!Invoke, OpsOK
    <3>2. CASE Finish(p)
      BY <1>0, <3>2 DEF Finish, Abs!Respond, OpsOK
    <3>3. CASE ActHere(p)
      BY <1>4, <3>3, ActEffect
    <3> QED
      BY <3>1, <3>2, <3>3 DEF Step, LoadStatus, LoadVal, CheckRetry, CheckFollow, CheckReturn,
                              Lock, ActFollow, IncrVersion, Unlock, opvars
  <2>3. /\ rec'["old"].val = rec["old"].val /\ rec'["old"].removed = rec["old"].removed
        /\ \/ rec'["old"].version = rec["old"].version
           \/ rec'["old"].version = rec["old"].version + 1
    <3>1. CASE ActHere(p)
      BY <1>4, <3>1, ActEffect
    <3>2. CASE ~ActHere(p)
      BY <3>2, WorkerRecords DEF Recs
    <3> QED
      BY <3>1, <3>2
  <2>4. Fresh(q)' /\ at[q] = "old" /\ pc[q] \in {"val", "check"} => Fresh(q)
    <3>1. ASSUME at[q] = "old", pc[q] \in {"val", "check"}, Fresh(q)' PROVE Fresh(q)
      <4>1. st[q].version <= rec["old"].version
        BY <3>1 DEF RecInv, Reads, ReadOK
      <4>2. st[q].version \in Nat /\ rec["old"].version \in Nat
        BY <1>0 DEF TypeOK, Word, Record, Recs
      <4> QED
        BY <1>1, <2>3, <3>1, <4>1, <4>2 DEF Fresh
    <3> QED
      BY <3>1
  <2> QED
    BY <1>1, <1>2, <2>1, <2>2, <2>3, <2>4 DEF SeenBy, Content
<1> QED
  BY <1>3, <1>4

LEMMA SeenStep ==
  ASSUME RecInv, Next PROVE SeenOK'
<1> SUFFICES ASSUME NEW q \in Procs, pc'[q] # "idle" PROVE SeenBy(q)'
  BY DEF SeenOK
<1>1. CASE BgNext
  <2>1. Logical' = Logical /\ rec'["old"] = rec["old"] /\ UNCHANGED <<pc, at, old, st, va, seen>>
    BY <1>1, LogicalBackground, BackgroundFrame DEF locals, opvars
  <2>2. SeenBy(q) /\ (old[q] => at[q] = "old")
    BY <2>1 DEF RecInv, SeenOK, Paths
  <2> QED
    BY <2>1, <2>2 DEF SeenBy, Content, Fresh
<1>2. CASE \E p \in Procs : Start(p) \/ Step(p)
  BY <1>2, RecTypeStep, SeenWorkerSelf, SeenWorkerOther
<1> QED
  BY <1>1, <1>2 DEF Next

-----------------------------------------------------------------------------
(* The invariant *)

LEMMA RecInit == Init => RecInv
<1> SUFFICES ASSUME Init PROVE RecInv
  OBVIOUS
<1>1. PICK v \in Values :
        rec = [r \in Recs |->
               IF r = "old"
               THEN [val |-> v, version |-> 0, locked |-> FALSE,
                     removed |-> FALSE, is_ptr |-> FALSE]
               ELSE [val |-> Ptr, version |-> 0, locked |-> FALSE,
                     removed |-> FALSE, is_ptr |-> TRUE]]
  BY DEF Init
<1>2. /\ rec \in [Recs -> Record]
      /\ rec["old"].val = v /\ ~rec["old"].is_ptr /\ rec["new"].val = Ptr /\ rec["new"].is_ptr
      /\ ~rec["new"].removed
  BY <1>1 DEF Record, Recs
<1>3. TypeOK
  <2>1. NoWord \in Word
    BY DEF NoWord, Word
  <2>2. count \in 0 .. MaxOps
    BY MaxOpsAssumption DEF Init
  <2> QED
    BY <1>2, <2>1, <2>2 DEF Init, TypeOK, Phases, Labels, Recs
<1>4. OpsOK /\ Paths
  BY DEF Init, OpsOK, Paths, Reading, Writing
<1>5. Locks /\ Grace /\ Copied
  BY <1>2 DEF Init, Locks, BgLocked, Holds, InCritical, Grace, Copied
<1>6. Reads /\ SeenOK
  BY DEF Init, Reads, SeenOK
<1> QED
  BY <1>3, <1>4, <1>5, <1>6 DEF RecInv

LEMMA RecStep == RecInv /\ [Next]_vars => RecInv'
<1> SUFFICES ASSUME RecInv, [Next]_vars PROVE RecInv'
  OBVIOUS
<1>1. CASE Next
  <2>1. Locks'
    BY <1>1, LocksWorker, LocksBackground DEF Next
  <2> QED
    BY <1>1, <2>1, RecTypeStep, OpsStep, PathsStep, GraceStep, CopiedStep, ReadsStep, SeenStep DEF RecInv
<1>2. CASE UNCHANGED vars
  <2>1. UNCHANGED <<inbuf, rec, phase, bwait, bst, bva>> /\ UNCHANGED <<op, seen, res, count>>
        /\ UNCHANGED <<pc, at, outer, old, st, va>>
    BY <1>2 DEF vars, bgvars, opvars, locals
  <2>2. TypeOK' /\ OpsOK' /\ Paths' /\ Grace' /\ Copied'
    BY <2>1 DEF RecInv, TypeOK, OpsOK, Paths, Grace, Copied
  <2>3. Locks'
    BY <2>1 DEF RecInv, Locks, BgLocked, Holds
  <2>4. Reads' /\ SeenOK'
    BY <2>1 DEF RecInv, Reads, ReadOK, Dirty, Fresh, SeenOK, SeenBy, Content, Logical
  <2> QED
    BY <2>2, <2>3, <2>4 DEF RecInv
<1> QED
  BY <1>1, <1>2

LEMMA RecInvariant == Spec => []RecInv
  BY RecInit, RecStep, PTL DEF Spec

\* Status word and value of both records, and the locals of workers and
\* background thread, keep their types; only "new" is ever a pointer.
THEOREM RecTypeCorrect == Spec => []TypeOK
  BY RecInvariant, PTL DEF RecInv

\* assert(!removed(status)) in read: a pointer that a read follows was loaded
\* together with the status word that says so, and the record is not removed.
THEOREM RecPointerSafe == Spec => []PointerSafe
<1>1. RecInv => PointerSafe
  BY FollowedPointer DEF PointerSafe
<1> QED
  BY <1>1, RecInvariant, PTL

\* compact_phase_2 and free_data: no worker is on a record of the old array or
\* buffer, or will be, once it is freed.
THEOREM RecNoUseAfterFree == Spec => []NoUseAfterFree
<1>1. RecInv => NoUseAfterFree
  BY DEF RecInv, Grace, Paths, NoUseAfterFree, TypeOK
<1> QED
  BY <1>1, RecInvariant, PTL

-----------------------------------------------------------------------------
(* Refinement of the linearizable map *)

LEMMA LinearizableInit == Init => Abs!AbsInit
<1> SUFFICES ASSUME Init PROVE Abs!AbsInit
  OBVIOUS
<1>1. Logical \in Values \union {None}
  BY RecInit, LogicalTyped DEF RecInv
<1> QED
  BY <1>1 DEF Init, Abs!AbsInit

LEMMA LinearizableStep ==
  ASSUME RecInv, [Next]_vars PROVE [Abs!AbsNext]_(Abs!absvars)
<1>0. TypeOK /\ OpsOK /\ SeenOK
  BY DEF RecInv
<1>s. ASSUME Logical' = Logical, UNCHANGED <<op, seen, res>> PROVE UNCHANGED Abs!absvars
  BY <1>s DEF Abs!absvars
<1>1. CASE BgNext
  BY <1>1, <1>s, LogicalBackground, BackgroundFrame DEF opvars
<1>2. ASSUME NEW p \in Procs, Start(p) PROVE Abs!AbsNext
  <2>1. Abs!Invoke(p)
    BY <1>2 DEF Start
  <2> QED
    BY <2>1 DEF Abs!AbsNext
<1>3. ASSUME NEW p \in Procs, Finish(p) PROVE Abs!AbsNext
  <2>1. Abs!Respond(p)
    BY <1>3 DEF Finish
  <2> QED
    BY <2>1 DEF Abs!AbsNext
<1>4. ASSUME NEW p \in Procs, CheckReturn(p) PROVE Abs!AbsNext
  <2>1. /\ op[p] # Abs!Idle /\ op[p].kind = "get" /\ res[p] = Abs!Undecided
        /\ pc[p] = "check"
    BY <1>0, <1>4 DEF CheckReturn, OpsOK, Reading
  <2>2. \E v \in seen[p] : res' = [res EXCEPT ![p] = Abs!Got(v)]
    BY <1>4, AnswerSeen DEF CheckReturn
  <2>3. Logical' = Logical /\ UNCHANGED <<op, seen>>
    BY <1>4 DEF CheckReturn, Logical
  <2>4. Abs!Answer(p)
    BY <2>1, <2>2, <2>3 DEF Abs!Answer, Abs!Pending
  <2> QED
    BY <2>4 DEF Abs!AbsNext
<1>5. ASSUME NEW p \in Procs, Step(p), ActHere(p) PROVE Abs!AbsNext
  <2>1. /\ op[p] # Abs!Idle /\ op[p].kind \in {"update", "remove"} /\ op[p].key = Key
        /\ res[p] = Abs!Undecided /\ UNCHANGED op
    <3>1. pc[p] # "idle" /\ pc[p] \in Writing /\ res[p] = Abs!Undecided /\ UNCHANGED op
      BY <1>0, <1>5 DEF ActHere, OpsOK, Writing
    <3> QED
      BY <1>0, <3>1, ActiveFacts
  <2>2. Logical = Content(at[p])
    BY <1>5, ActsOnLogical DEF Logical, Content
  <2>3. CASE rec[at[p]].removed
    <3>1. None \in seen[p]
      BY <1>0, <1>5, <2>2, <2>3 DEF SeenOK, SeenBy, Content, ActHere
    <3>2. res' = [res EXCEPT ![p] = Abs!Failed] /\ UNCHANGED <<rec, seen>>
      BY <1>5, <2>3 DEF ActHere
    <3>3. Logical' = Logical
      BY <3>2 DEF Logical
    <3>4. Abs!Fail(p)
      BY <2>1, <3>1, <3>2, <3>3 DEF Abs!Fail, Abs!Pending
    <3> QED
      BY <3>4 DEF Abs!AbsNext
  <2>4. CASE ~rec[at[p]].removed
    <3>1. Logical # None
      BY <1>5, <2>2, <2>4, ActsOnLogical, ValuesAssumption DEF Content
    <3>2. Logical' = Abs!Result(op[p])
      BY <1>5, <2>4, LogicalWorker
    <3>3. res' = [res EXCEPT ![p] = Abs!Ok] /\ seen' = Abs!See(Key, Abs!Result(op[p]))
      BY <1>5, <2>4 DEF ActHere
    <3>4. Abs!Mutate(p)
      BY <2>1, <3>1, <3>2, <3>3 DEF Abs!Mutate, Abs!Pending
    <3> QED
      BY <3>4 DEF Abs!AbsNext
  <2> QED
    BY <2>3, <2>4
<1>6. ASSUME NEW p \in Procs, Step(p), ~CheckReturn(p), ~ActHere(p), ~Finish(p)
      PROVE  UNCHANGED Abs!absvars
  <2>1. Logical' = Logical
    BY <1>6, LogicalWorker
  <2>2. UNCHANGED <<op, seen, res>>
    BY <1>6 DEF Step, LoadStatus, LoadVal, CheckRetry, CheckFollow, Lock, ActFollow, IncrVersion,
                Unlock, opvars
  <2> QED
    BY <1>s, <2>1, <2>2
<1>7. CASE UNCHANGED vars
  <2>1. UNCHANGED <<rec, op, seen, res>>
    BY <1>7 DEF vars, opvars
  <2> QED
    BY <1>s, <2>1 DEF Logical
<1> QED
  BY <1>1, <1>2, <1>3, <1>4, <1>5, <1>6, <1>7 DEF Next

\* "semantics: atomically read the value and the `removed' flag": reads, updates
\* and removes of the key are linearizable through the whole compaction, with
\* the record in the array or in the buffer.
THEOREM RecLinearizable == Spec => Linearizable
<1>1. RecInv /\ [Next]_vars => [Abs!AbsNext]_(Abs!absvars)
  BY LinearizableStep
<1>2. Init => Abs!AbsInit
  BY LinearizableInit
<1> QED
  BY <1>1, <1>2, RecInvariant, PTL DEF Spec, Linearizable, Abs!AbsSpec

=============================================================================
