----------------------------- MODULE OrderedMap ----------------------------
(***************************************************************************)
(* What one thread that uses an index sees: a map, calls, and their answers.  *)
(* The sequential parts of the indexes are shown to implement it.            *)
(***************************************************************************)
EXTENDS Integers

CONSTANTS Keys, Payloads, None   \* Payloads[k]: the payloads of key k

VARIABLES
  map,              \* the payload of each key, None if the key is absent
  ret               \* the call that has just been made, and its answer

vars == <<map, ret>>

NoCall == [call |-> <<>>, ok |-> "idle", val |-> None]
Answer(call, ok, val) == [call |-> call, ok |-> IF ok THEN "yes" ELSE "no", val |-> val]

\* The call ends the process.
Exit(call) == [call |-> call, ok |-> "exit", val |-> None]

MapInit ==
  /\ map \in [Keys -> UNION {Payloads[k] : k \in Keys} \union {None}]
  /\ ret = NoCall

\* The call succeeds and changes what the map says of k, or fails.
Change(call, ok, k, v) ==
  /\ ret' = Answer(call, ok, None)
  /\ map' = IF ok THEN [map EXCEPT ![k] = v] ELSE map

\* An insert of a key that is there fails; in some indexes it overwrites the
\* value, and in some of them that counts as success.
Insert(k, v, there) ==
  IF map[k] # None /\ there # "fails"
  THEN /\ ret' = Answer(<<"insert", k, v>>, there = "put", None)
       /\ map' = [map EXCEPT ![k] = v]
  ELSE Change(<<"insert", k, v>>, map[k] = None, k, v)
Update(k, v) == Change(<<"update", k, v>>, map[k] # None, k, v)
Erase(k) == Change(<<"erase", k>>, map[k] # None, k, None)
EraseRange(from, to) ==
  /\ ret' = Answer(<<"erase_range", from, to>>, TRUE, None)
  /\ \A k \in Keys : map'[k] = IF from <= k /\ k < to THEN None ELSE map[k]
Get(k) ==
  /\ ret' = Answer(<<"get", k>>, map[k] # None, map[k])
  /\ UNCHANGED map

Return ==
  /\ ret' = NoCall
  /\ UNCHANGED map

MapNext(there) ==
  \/ /\ ret = NoCall
     /\ \/ \E k \in Keys : Erase(k) \/ Get(k) \/ \E v \in Payloads[k] : Insert(k, v, there) \/ Update(k, v)
        \/ \E from, to \in Keys : from < to /\ EraseRange(from, to)
  \/ ret # NoCall /\ Return

MapSpec == MapInit /\ [][MapNext("fails")]_vars
=============================================================================
