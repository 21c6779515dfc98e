----------------------------- MODULE LinearMap -----------------------------
(***************************************************************************)
(* What an index promises its callers: a linearizable map.  The operations  *)
(* are those of the benchmark's indexInterface: get, put, update, remove.    *)
(* `update' succeeds only on a present key; where put does not overwrite it   *)
(* is called `insert', and succeeds only on an absent one.                   *)
(*                                                                         *)
(* An operation is pending from Invoke to Respond.  A mutation takes effect *)
(* in one step in between.  seen[p] holds the values the key of p's pending  *)
(* operation has had since Invoke: a get, or a mutation that fails, returns  *)
(* what was true at some moment of that interval, which is exactly where it  *)
(* is linearized.                                                          *)
(***************************************************************************)
CONSTANTS
  Procs, Keys, Values,
  None,      \* the value of an absent key
  Kinds      \* the operations on offer: "get", "put", "insert", "update", "remove"

VARIABLES
  map,       \* the abstract content
  op,        \* op[p] is the operation of p, with its arguments
  seen,
  res        \* outcome of op[p], Undecided until it is known

absvars == <<map, op, seen, res>>

Idle == [kind |-> "idle"]
Undecided == [st |-> "undecided"]
Ok == [st |-> "ok"]
Failed == [st |-> "failed"]
Got(v) == [st |-> "got", val |-> v]

Calls ==
  [kind : Kinds \ {"get", "remove"}, key : Keys, val : Values]
    \union [kind : Kinds \intersect {"get", "remove"}, key : Keys]
Pending(p) == op[p] # Idle /\ res[p] = Undecided

AbsInit ==
  /\ map \in [Keys -> Values \union {None}]
  /\ op = [p \in Procs |-> Idle]
  /\ seen = [p \in Procs |-> {}]
  /\ res = [p \in Procs |-> Undecided]

\* Every operation under way on key k sees v.
See(k, v) ==
  [q \in Procs |-> IF op[q] # Idle /\ op[q].key = k
                   THEN seen[q] \union {v} ELSE seen[q]]

Invoke(p) ==
  /\ op[p] = Idle
  /\ \E c \in Calls :
       /\ op' = [op EXCEPT ![p] = c]
       /\ seen' = [seen EXCEPT ![p] = {map[c.key]}]
  /\ UNCHANGED <<map, res>>

\* The value a mutation leaves.
Result(c) == IF c.kind = "remove" THEN None ELSE c.val

Mutate(p) ==
  /\ Pending(p)
  /\ \/ op[p].kind = "put"
     \/ op[p].kind = "insert" /\ map[op[p].key] = None
     \/ op[p].kind \in {"update", "remove"} /\ map[op[p].key] # None
  /\ map' = [map EXCEPT ![op[p].key] = Result(op[p])]
  /\ seen' = See(op[p].key, Result(op[p]))
  /\ res' = [res EXCEPT ![p] = Ok]
  /\ UNCHANGED op

Fail(p) ==
  /\ Pending(p)
  /\ \/ op[p].kind \in {"update", "remove"} /\ None \in seen[p]
     \/ op[p].kind = "insert" /\ seen[p] \ {None} # {}
  /\ res' = [res EXCEPT ![p] = Failed]
  /\ UNCHANGED <<map, op, seen>>

Answer(p) ==
  /\ Pending(p) /\ op[p].kind = "get"
  /\ \E v \in seen[p] : res' = [res EXCEPT ![p] = Got(v)]
  /\ UNCHANGED <<map, op, seen>>

Respond(p) ==
  /\ op[p] # Idle /\ res[p] # Undecided
  /\ op' = [op EXCEPT ![p] = Idle]
  /\ seen' = [seen EXCEPT ![p] = {}]
  /\ res' = [res EXCEPT ![p] = Undecided]
  /\ UNCHANGED map

AbsNext ==
  \E p \in Procs :
    Invoke(p) \/ Mutate(p) \/ Fail(p) \/ Answer(p) \/ Respond(p)

AbsSpec == AbsInit /\ [][AbsNext]_absvars
=============================================================================
