-------------------------- MODULE XIndexAtomicVal --------------------------
(***************************************************************************)
(* AtomicVal (xindex_util.h): the record of XIndex, a value guarded by a    *)
(* status word of version, lock, removed and is_ptr bits.                   *)
(*                                                                         *)
(* The model follows one key through a compaction, the only time two        *)
(* records stand for one key.  Record "old" lies in the old array or the    *)
(* old buffer; record "new" lies in the merged array and starts as a        *)
(* pointer to "old".  Workers of the old group use "old" directly, workers   *)
(* of the new group use "new"; after a grace period the background thread   *)
(* calls replace_pointer on "new", and after another one frees "old".       *)
(* Each access to a status word or a value is a step of its own.            *)
(***************************************************************************)
EXTENDS Naturals

CONSTANTS
  Procs,        \* workers
  Values,       \* values written
  None,         \* answer of a get that finds the record removed
  Ptr,          \* content of the value union when it holds a pointer
  MaxOps        \* bound: operations of all workers together

ASSUME ValuesAssumption == None \notin Values /\ Ptr \notin Values /\ None # Ptr
ASSUME MaxOpsAssumption == MaxOps \in Nat

VARIABLES
  inbuf,        \* "old" is a buffer record: old-group workers use *_ignoring_ptr
  rec,          \* the two records: value and status word
  phase,        \* how far the compaction is
  bwait,        \* operations the rcu_barrier under way still waits for
  bst, bva,     \* locals of the read() inside replace_pointer
  op, seen, res, \* the operations, as in LinearMap
  pc,           \* next step of worker p
  at,           \* record worker p works on
  outer,        \* p holds the lock of "new" while it works on "old"
  old,          \* p entered through the old group
  st, va,       \* status and val_union loaded by p's read
  count         \* operations started

opvars == <<op, seen, res, count>>
bgvars == <<phase, bwait, bst, bva>>
locals == <<pc, at, outer, old, st, va>>
vars == <<inbuf, rec, bgvars, opvars, locals>>

Key == "key"
Logical ==
  LET r == rec[IF rec["new"].is_ptr THEN "old" ELSE "new"]
  IN  IF r.removed THEN None ELSE r.val

Abs == INSTANCE LinearMap WITH
  Keys <- {Key}, Kinds <- {"get", "update", "remove"},
  map <- [k \in {Key} |-> Logical]

Recs == {"old", "new"}
Word == [version : Nat, locked : BOOLEAN, removed : BOOLEAN, is_ptr : BOOLEAN]
WordOf(r) == [version |-> r.version, locked |-> r.locked,
              removed |-> r.removed, is_ptr |-> r.is_ptr]
NoWord == [version |-> 0, locked |-> FALSE, removed |-> FALSE, is_ptr |-> FALSE]

\* compact_phase_1 has made a pointer record for a record that was not removed.
Init ==
  /\ inbuf \in BOOLEAN
  /\ \E v \in Values :
       rec = [r \in Recs |->
               IF r = "old"
               THEN [val |-> v, version |-> 0, locked |-> FALSE,
                     removed |-> FALSE, is_ptr |-> FALSE]
               ELSE [val |-> Ptr, version |-> 0, locked |-> FALSE,
                     removed |-> FALSE, is_ptr |-> TRUE]]
  /\ phase = "merged" /\ bwait = {} /\ bst = NoWord /\ bva = None
  /\ op = [p \in Procs |-> Abs!Idle]
  /\ seen = [p \in Procs |-> {}]
  /\ res = [p \in Procs |-> Abs!Undecided]
  /\ count = 0
  /\ pc = [p \in Procs |-> "idle"]
  /\ at = [p \in Procs |-> "new"]
  /\ outer = [p \in Procs |-> FALSE]
  /\ old = [p \in Procs |-> FALSE]
  /\ st = [p \in Procs |-> NoWord]
  /\ va = [p \in Procs |-> None]

Goto(p, l) == pc' = [pc EXCEPT ![p] = l]

\* p runs an *_ignoring_ptr variant: AltBtreeBuffer's accesses to its records.
Ignoring(p) == inbuf /\ old[p]

\* A worker starts an operation in the group that is published now.
Start(p) ==
  /\ pc[p] = "idle" /\ count < MaxOps
  /\ UNCHANGED rec
  /\ Abs!Invoke(p)
  /\ count' = count + 1
  /\ old' = [old EXCEPT ![p] = phase = "merged"]
  /\ at' = [at EXCEPT ![p] = IF phase = "merged" THEN "old" ELSE "new"]
  /\ Goto(p, IF op'[p].kind = "get" THEN "status" ELSE "lock")
  /\ UNCHANGED <<inbuf, bgvars, outer, st, va>>

\* The operation returns; its locals are gone.
Finish(p) ==
  /\ pc[p] = "done"
  /\ UNCHANGED rec
  /\ Abs!Respond(p)
  /\ Goto(p, "idle")
  /\ at' = [at EXCEPT ![p] = "new"]
  /\ old' = [old EXCEPT ![p] = FALSE]
  /\ st' = [st EXCEPT ![p] = NoWord]
  /\ va' = [va EXCEPT ![p] = None]
  /\ bwait' = bwait \ {p}
  /\ UNCHANGED <<phase, bst, bva, count, outer>>

-----------------------------------------------------------------------------
(* read, read_ignoring_ptr                                                  *)

\* uint64_t status = this->status;
LoadStatus(p) ==
  /\ pc[p] = "status"
  /\ st' = [st EXCEPT ![p] = WordOf(rec[at[p]])]
  /\ Goto(p, "val")
  /\ UNCHANGED <<rec, bgvars, opvars, at, outer, old, va>>

\* val_union_t val_union = this->val;
LoadVal(p) ==
  /\ pc[p] = "val"
  /\ va' = [va EXCEPT ![p] = rec[at[p]].val]
  /\ Goto(p, "check")
  /\ UNCHANGED <<rec, bgvars, opvars, at, outer, old, st>>

\* Mutant: read does not compare versions.
ValidatedNoVersion(first, now, ignoring) ==
  ~(IF ignoring THEN first ELSE now).locked

\* The load of current_status finds that the values belong together.  read
\* tests the lock bit of the second load, read_ignoring_ptr of the first.
Validated(first, now, ignoring) ==
  /\ ~(IF ignoring THEN first ELSE now).locked
  /\ first.version = now.version

CheckRetry(p) ==
  /\ pc[p] = "check"
  /\ ~Validated(st[p], WordOf(rec[at[p]]), Ignoring(p))
  /\ Goto(p, "status")
  /\ UNCHANGED <<rec, bgvars, opvars, at, outer, old, st, va>>

Follows(p) ==
  /\ pc[p] = "check"
  /\ Validated(st[p], WordOf(rec[at[p]]), Ignoring(p))
  /\ ~Ignoring(p) /\ st[p].is_ptr

\* return val_union.ptr->read(val);
CheckFollow(p) ==
  /\ Follows(p)
  /\ at' = [at EXCEPT ![p] = "old"]
  /\ Goto(p, "status")
  /\ UNCHANGED <<rec, bgvars, opvars, outer, old, st, va>>

CheckReturn(p) ==
  /\ pc[p] = "check"
  /\ Validated(st[p], WordOf(rec[at[p]]), Ignoring(p))
  /\ Ignoring(p) \/ ~st[p].is_ptr
  /\ res' = [res EXCEPT ![p] = Abs!Got(IF st[p].removed THEN None ELSE va[p])]
  /\ Goto(p, "done")
  /\ UNCHANGED <<rec, bgvars, op, seen, count, at, outer, old, st, va>>

-----------------------------------------------------------------------------
(* update, remove and their *_ignoring_ptr variants                         *)

\* lock(): the cmpxchg that succeeds.
Lock(p) ==
  /\ pc[p] = "lock" /\ ~rec[at[p]].locked
  /\ rec' = [rec EXCEPT ![at[p]].locked = TRUE]
  /\ Goto(p, "act")
  /\ UNCHANGED <<bgvars, opvars, at, outer, old, st, va>>

\* res = this->val.ptr->update(val);
ActFollow(p) ==
  /\ pc[p] = "act"
  /\ ~Ignoring(p) /\ rec[at[p]].is_ptr
  /\ outer' = [outer EXCEPT ![p] = TRUE]
  /\ at' = [at EXCEPT ![p] = "old"]
  /\ Goto(p, "lock")
  /\ UNCHANGED <<rec, bgvars, opvars, old, st, va>>

\* Mutant: update and remove treat a pointer like a value.
ActNoFollow(p) ==
  /\ pc[p] = "act"
  /\ rec' = IF op[p].kind = "remove"
            THEN [rec EXCEPT ![at[p]].removed = TRUE]
            ELSE [rec EXCEPT ![at[p]].val = op[p].val]
  /\ res' = [res EXCEPT ![p] = Abs!Ok]
  /\ seen' = Abs!See(Key, Abs!Result(op[p]))
  /\ Goto(p, "incr")
  /\ UNCHANGED <<bgvars, op, count, at, outer, old, st, va>>

\* this->val.val = val; or set_removed();
ActHere(p) ==
  /\ pc[p] = "act"
  /\ Ignoring(p) \/ ~rec[at[p]].is_ptr
  /\ IF rec[at[p]].removed
     THEN /\ res' = [res EXCEPT ![p] = Abs!Failed]
          /\ UNCHANGED <<rec, seen>>
     ELSE /\ rec' = IF op[p].kind = "remove"
                    THEN [rec EXCEPT ![at[p]].removed = TRUE]
                    ELSE [rec EXCEPT ![at[p]].val = op[p].val]
          /\ res' = [res EXCEPT ![p] = Abs!Ok]
          /\ seen' = Abs!See(Key, Abs!Result(op[p]))
  /\ Goto(p, "incr")
  /\ UNCHANGED <<bgvars, op, count, at, outer, old, st, va>>

\* incr_version();
IncrVersion(p) ==
  /\ pc[p] = "incr"
  /\ rec' = [rec EXCEPT ![at[p]].version = @ + 1]
  /\ Goto(p, "unlock")
  /\ UNCHANGED <<bgvars, opvars, at, outer, old, st, va>>

\* Mutant: update returns the result of ptr->update without unlocking itself.
UnlockInnerOnly(p) ==
  /\ pc[p] = "unlock"
  /\ rec' = [rec EXCEPT ![at[p]].locked = FALSE]
  /\ outer' = [outer EXCEPT ![p] = FALSE]
  /\ Goto(p, "done")
  /\ UNCHANGED <<bgvars, opvars, at, old, st, va>>

\* unlock(); the outer update goes on with its own incr_version.
Unlock(p) ==
  /\ pc[p] = "unlock"
  /\ rec' = [rec EXCEPT ![at[p]].locked = FALSE]
  /\ IF outer[p]
     THEN /\ at' = [at EXCEPT ![p] = "new"]
          /\ outer' = [outer EXCEPT ![p] = FALSE]
          /\ Goto(p, "incr")
     ELSE /\ Goto(p, "done")
          /\ UNCHANGED <<at, outer>>
  /\ UNCHANGED <<bgvars, opvars, old, st, va>>

-----------------------------------------------------------------------------
(* The background thread.                                                  *)

To(l) == phase' = l

\* *group = new_group; rcu_barrier() begins.  XIndexRcu shows that it returns
\* after every operation under way has ended.
Publish ==
  /\ phase = "merged" /\ To("published")
  /\ bwait' = {p \in Procs : pc[p] # "idle"}
  /\ UNCHANGED <<rec, bst, bva, opvars, locals>>

\* Mutant: compact_phase_2 without the barrier before it.
PublishedNoBarrier ==
  /\ phase = "published"
  /\ To("lock")
  /\ UNCHANGED <<rec, bwait, bst, bva, opvars, locals>>

\* rcu_barrier() returns.
PublishedBarrier ==
  /\ phase = "published" /\ bwait = {}
  /\ To("lock")
  /\ UNCHANGED <<rec, bwait, bst, bva, opvars, locals>>

\* replace_pointer: lock(), then val.ptr->read(val.val) on "old".
ReplaceLock ==
  /\ phase = "lock" /\ ~rec["new"].locked
  /\ rec' = [rec EXCEPT !["new"].locked = TRUE]
  /\ To("status")
  /\ UNCHANGED <<bwait, bst, bva, opvars, locals>>

ReplaceLoadStatus ==
  /\ phase = "status"
  /\ bst' = WordOf(rec["old"])
  /\ To("val")
  /\ UNCHANGED <<rec, bwait, bva, opvars, locals>>

ReplaceLoadVal ==
  /\ phase = "val"
  /\ bva' = rec["old"].val
  /\ To("check")
  /\ UNCHANGED <<rec, bwait, bst, opvars, locals>>

ReplaceCheck ==
  /\ phase = "check"
  /\ IF Validated(bst, WordOf(rec["old"]), FALSE)
     THEN /\ rec' = [rec EXCEPT !["new"].val = bva]
          /\ To("removed")
     ELSE /\ To("status")
          /\ UNCHANGED rec
  /\ UNCHANGED <<bwait, bst, bva, opvars, locals>>

\* set_removed(), if the read found "old" removed.
ReplaceRemoved ==
  /\ phase = "removed"
  /\ rec' = [rec EXCEPT !["new"].removed = bst.removed]
  /\ To("unset")
  /\ UNCHANGED <<bwait, bst, bva, opvars, locals>>

\* unset_is_ptr();
ReplaceUnset ==
  /\ phase = "unset"
  /\ rec' = [rec EXCEPT !["new"].is_ptr = FALSE]
  /\ To("incr")
  /\ UNCHANGED <<bwait, bst, bva, opvars, locals>>

ReplaceIncr ==
  /\ phase = "incr"
  /\ rec' = [rec EXCEPT !["new"].version = @ + 1]
  /\ To("unlock")
  /\ UNCHANGED <<bwait, bst, bva, opvars, locals>>

ReplaceUnlock ==
  /\ phase = "unlock"
  /\ rec' = [rec EXCEPT !["new"].locked = FALSE]
  /\ To("replaced")
  /\ bwait' = {p \in Procs : pc[p] # "idle"}  \* the next rcu_barrier() begins
  /\ UNCHANGED <<bst, bva, opvars, locals>>

ReplacePointer ==
  \/ ReplaceLock \/ ReplaceLoadStatus \/ ReplaceLoadVal \/ ReplaceCheck
  \/ ReplaceRemoved \/ ReplaceUnset \/ ReplaceIncr \/ ReplaceUnlock

\* Mutant: the old array and buffer are freed right after compact_phase_2.
FreeEarly ==
  /\ phase = "replaced"
  /\ To("freed")
  /\ UNCHANGED <<rec, bwait, bst, bva, opvars, locals>>

\* rcu_barrier() returns; old_group->free_data(), free_buffer().
FreeOld ==
  /\ phase = "replaced" /\ bwait = {}
  /\ To("freed")
  /\ UNCHANGED <<rec, bwait, bst, bva, opvars, locals>>

BgNext ==
  /\ Publish \/ PublishedBarrier \/ ReplacePointer \/ FreeOld
  /\ UNCHANGED inbuf

Step(p) ==
  /\ UNCHANGED inbuf
  /\ \/ LoadStatus(p) \/ LoadVal(p) \/ CheckRetry(p) \/ CheckFollow(p)
     \/ CheckReturn(p) \/ Lock(p) \/ ActFollow(p) \/ ActHere(p)
     \/ IncrVersion(p) \/ Unlock(p) \/ Finish(p)

Next == BgNext \/ \E p \in Procs : Start(p) \/ Step(p)

Spec == Init /\ [][Next]_vars

\* Threads that can take a step take one; no worker has to start an operation.
FairSpec == Spec /\ WF_vars(BgNext) /\ \A p \in Procs : WF_vars(Step(p))

-----------------------------------------------------------------------------
Phases ==
  {"merged", "published", "lock", "status", "val", "check", "removed", "unset",
   "incr", "unlock", "replaced", "freed"}
Labels ==
  {"idle", "status", "val", "check", "lock", "act", "incr", "unlock", "done"}

Record == [val : Values \union {Ptr}, version : Nat, locked : BOOLEAN,
           removed : BOOLEAN, is_ptr : BOOLEAN]

\* Type invariant; a record marked is_ptr holds a pointer, except while
\* replace_pointer has its lock, and only "new" is ever a pointer.
TypeOK ==
  /\ rec \in [Recs -> Record]
  /\ rec["old"].val \in Values /\ ~rec["old"].is_ptr
  /\ rec["new"].is_ptr => rec["new"].val = Ptr \/ phase \in {"removed", "unset"}
  /\ ~rec["new"].is_ptr => rec["new"].val \in Values
  /\ phase \in Phases /\ bwait \subseteq Procs
  /\ bst \in Word /\ bva \in Values \union {None}
  /\ pc \in [Procs -> Labels] /\ at \in [Procs -> Recs]
  /\ outer \in [Procs -> BOOLEAN] /\ old \in [Procs -> BOOLEAN]
  /\ st \in [Procs -> Word] /\ va \in [Procs -> Values \union {None, Ptr}]
  /\ count \in 0..MaxOps /\ inbuf \in BOOLEAN

\* Reads, updates and removes of the key are linearizable throughout the
\* compaction ("semantics: atomically read the value and the `removed' flag"):
\* none is lost when replace_pointer copies the value.
Linearizable == Abs!AbsSpec

\* A read that follows val_union.ptr has loaded a pointer, of a record that is
\* not removed: assert(!removed(status)) in read.
PointerSafe ==
  \A p \in Procs : Follows(p) => va[p] = Ptr /\ ~st[p].removed

\* No worker works on a record of the old array or buffer once it is freed.
NoUseAfterFree ==
  phase = "freed" =>
    \A p \in Procs : pc[p] \notin {"idle", "done"} => at[p] = "new" /\ ~outer[p]

\* Every operation ends: nested locks are always released.
OperationsEnd == \A p \in Procs : pc[p] # "idle" ~> pc[p] = "idle"
=============================================================================
