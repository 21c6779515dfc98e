---------------------------- MODULE XIndexSearch ---------------------------
(***************************************************************************)
(* How XIndex lays out its keys and finds them (xindex_root_impl.h and          *)
(* xindex_group_impl.h): the arrays of groups and of records, the exponential  *)
(* searches in them from wherever the models point, and what the maintenance of *)
(* the background thread makes of the layout.  Here each operation and each    *)
(* visit to a group is one step; XIndexGroup takes them apart and takes the      *)
(* searches for exact.                                                        *)
(*                                                                         *)
(* Models are left out: a prediction may be any position.  So are the sizes and *)
(* errors that decide what a visit does: it may do anything.                   *)
(***************************************************************************)
EXTENDS Integers, FiniteSets, SequencesExt

CONSTANTS
  Keys, Payloads, None,
  OpKeys,           \* keys the calls use; key_t::min() is not among the keys
  FirstExempt       \* the first group may be split at a key below its pivot

VARIABLES
  groups,           \* the root array: of each slot the pivot, and the groups that
                    \* hang there in the order of their `next' pointers
  bg,               \* where do_adjustment is: slot, place there, should_update_array
  ret               \* the answer to the last call

\* A group's array holds records in order; its buffer maps keys to values.
\* None is the value of a removed record.
NoRecords == [k \in {} |-> None]
Group(pivot, data) == [pivot |-> pivot, data |-> data, buffer |-> NoRecords]
Slot(chain) == [pivot |-> chain[1].pivot, chain |-> chain]

InOrder(S) == [i \in 1 .. Cardinality(S) |->
                 CHOOSE x \in S : Cardinality({y \in S : y < x}) = i - 1]

Flat(r) == FlattenSeq([i \in DOMAIN r |-> r[i].chain])

\* The values a group has for a key: none, one, or (it should not) two.
InArrays(g, key) == {d.val : d \in {d \in ToSet(g.data) : d.key = key}} \ {None}
InBuffers(g, key) == {g.buffer[k] : k \in DOMAIN g.buffer \intersect {key}} \ {None}

\* What the index holds.
Contents(r) ==
  [k \in Keys |-> LET vals == UNION {InArrays(g, k) \union InBuffers(g, k) : g \in ToSet(Flat(r))}
                  IN  IF vals = {} THEN None ELSE CHOOSE v \in vals : TRUE]

Abs == INSTANCE OrderedMap WITH map <- Contents(groups)

-----------------------------------------------------------------------------
(* Searches; positions count from 0. *)

\* low is the set of the positions with an element up to the key.  From one of
\* them: the window in which the last is.
Up(low, from, n) ==
  LET widen[b \in 0 .. n, step \in 1 .. 2 * n] ==
        IF b + step < n /\ b + step \in low THEN widen[b + step, 2 * step]
        ELSE [begin |-> b, end |-> Min({b + step, n - 1})]
  IN  widen[from, 1]

\* From a position that is not among them; floor is where the window begins if
\* none is.
Down(low, from, n, floor) ==
  LET widen[e \in 0 .. n, step \in 1 .. 2 * n] ==
        IF e - step >= 0 /\ e - step \notin low THEN widen[e - step, 2 * step]
        ELSE [begin |-> Max({e - step, floor}), end |-> e]
  IN  widen[from, 1]

\* The slot from which on the group of the key is to be found.
locate_group_pt1(r, key, predicted) ==
  LET n == Len(r)
      low == {i \in 0 .. n - 1 : r[i + 1].pivot <= key}
      start == Min({predicted, n - 1})
      window == IF start \in low THEN Up(low, start, n) ELSE Down(low, start, n, -1)
      last[b \in -1 .. n, e \in -1 .. n] ==
        IF b = e THEN e
        ELSE LET mid == (e + b + 2) \div 2
             IN  IF mid \in low THEN last[mid, e] ELSE last[b, mid - 1]
      found == Max({last[window.begin, window.end], 0})
  IN  Max({i \in 0 .. found : i = 0 \/ r[i + 1].chain # <<>>})

\* The slot and the place in its chain.
locate_group(r, key, predicted) ==
  LET slot == locate_group_pt1(r, key, predicted) + 1
      chain == r[slot].chain
      walk[j \in DOMAIN chain] ==
        IF j < Len(chain) /\ chain[j + 1].pivot <= key THEN walk[j + 1] ELSE j
  IN  <<slot, walk[1]>>

\* Mutant: the window does not include the place behind the array.
exponential_search_keyShort(data, key, predicted) ==
  LET n == Len(data)
      low == {i \in 0 .. n - 1 : data[i + 1].key <= key}
      start == Min({predicted, n - 1})
      window == IF start \in low THEN Up(low, start, n) ELSE Down(low, start, n, 0)
      first[b \in 0 .. n, e \in 0 .. n] ==
        IF e <= b THEN e
        ELSE LET mid == (b + e) \div 2
             IN  IF data[mid + 1].key < key THEN first[mid + 1, e] ELSE first[b, mid]
  IN  IF n = 0 THEN 0 ELSE first[window.begin, window.end]

\* Where the key is in an array, or would be.
exponential_search_key(data, key, predicted) ==
  LET n == Len(data)
      low == {i \in 0 .. n - 1 : data[i + 1].key <= key}
      start == Min({predicted, n - 1})
      window == IF start \in low THEN Up(low, start, n) ELSE Down(low, start, n, 0)
      first[b \in 0 .. n, e \in 0 .. n] ==
        IF e <= b THEN e
        ELSE LET mid == (b + e) \div 2
             IN  IF data[mid + 1].key < key THEN first[mid + 1, e] ELSE first[b, mid]
  IN  IF n = 0 THEN 0 ELSE first[window.begin, window.end + 1]

Predictions(seq) == 0 .. Len(seq)

\* What the searches may find: one place, if they are exact.
Located(key) == {locate_group(groups, key, p) : p \in Predictions(groups)}
Found(data, key) == {exponential_search_key(data, key, p) : p \in Predictions(data)}

-----------------------------------------------------------------------------
(* get, put, remove *)

GroupAt(at) == groups[at[1]].chain[at[2]]

\* The record of the key at this position of the array, unless it is removed.
InArray(g, pos, key) ==
  pos # Len(g.data) /\ g.data[pos + 1].key = key /\ g.data[pos + 1].val # None
InBuffer(g, key) == key \in DOMAIN g.buffer /\ g.buffer[key] # None

SetArray(at, pos, val) ==
  groups' = [groups EXCEPT ![at[1]].chain[at[2]].data[pos + 1].val = val]
SetBuffer(at, key, val) ==
  groups' = [groups EXCEPT ![at[1]].chain[at[2]].buffer = (key :> val) @@ @]

\* update_to_array, and else insert_to_buffer, which also updates.
put(key, val) ==
  /\ \E at \in Located(key) : \E pos \in Found(GroupAt(at).data, key) :
       IF InArray(GroupAt(at), pos, key) THEN SetArray(at, pos, val)
       ELSE SetBuffer(at, key, val)
  /\ ret' = Abs!Answer(<<"insert", key, val>>, TRUE, None)

get(key) ==
  /\ \E at \in Located(key) : \E pos \in Found(GroupAt(at).data, key) :
       LET g == GroupAt(at)
           Answer(ok, val) == Abs!Answer(<<"get", key>>, ok, val)
       IN  ret' = CASE InArray(g, pos, key) -> Answer(TRUE, g.data[pos + 1].val)
                    [] ~InArray(g, pos, key) /\ InBuffer(g, key) -> Answer(TRUE, g.buffer[key])
                    [] OTHER -> Answer(FALSE, None)
  /\ UNCHANGED groups

remove(key) ==
  \E at \in Located(key) : \E pos \in Found(GroupAt(at).data, key) :
    LET g == GroupAt(at)
        Answer(ok) == Abs!Answer(<<"erase", key>>, ok, None)
    IN
    \/ /\ InArray(g, pos, key)
       /\ SetArray(at, pos, None)
       /\ ret' = Answer(TRUE)
    \/ /\ ~InArray(g, pos, key) /\ InBuffer(g, key)
       /\ SetBuffer(at, key, None)
       /\ ret' = Answer(TRUE)
    \/ /\ ~InArray(g, pos, key) /\ ~InBuffer(g, key)
       /\ UNCHANGED groups
       /\ ret' = Answer(FALSE)

-----------------------------------------------------------------------------
(* do_adjustment, group by group, and create_new_root *)

\* merge_refs_internal: the records of array and buffer that are not removed.
Merged(g) ==
  LET live == {r.key : r \in {d \in ToSet(g.data) : d.val # None}}
                \union {k \in DOMAIN g.buffer : g.buffer[k] # None}
      Value(k) == IF InBuffer(g, k) THEN g.buffer[k]
                  ELSE (CHOOSE d \in ToSet(g.data) : d.key = k).val
  IN  [i \in 1 .. Cardinality(live) |-> [key |-> InOrder(live)[i], val |-> Value(InOrder(live)[i])]]

Chain == groups[bg.slot].chain
Visiting == bg.place <= Len(Chain)

\* The groups at bg, as many as old says, become new; past of them are done with.
Replaced(old, new) == SubSeq(Chain, 1, bg.place - 1) \o new \o SubSeq(Chain, bg.place + old, Len(Chain))
Onward(past, update) == bg' = [bg EXCEPT !.place = @ + past, !.update = @ \/ update]

\* Groups are split at data[array_size / 2].first.  An assert wants it above the
\* group's pivot, but not of the first group; here an array is not empty.
SplitsAt(g, pivot) ==
  /\ g.data # <<>> /\ pivot = g.data[Len(g.data) \div 2 + 1].key
  /\ pivot > g.pivot \/ (FirstExempt /\ bg.slot = 1 /\ bg.place = 1)

split_group ==
  /\ Visiting
  /\ \E pivot \in Keys :
       LET g == Chain[bg.place]
           all == Merged(g)
       IN  /\ SplitsAt(g, pivot)
           /\ \E split_pos \in {exponential_search_key(all, pivot, Len(all) \div 2)} :
                groups' = [groups EXCEPT ![bg.slot].chain =
                  Replaced(1, <<Group(g.pivot, SubSeq(all, 1, split_pos)),
                                Group(pivot, SubSeq(all, split_pos + 1, Len(all)))>>)]
  /\ Onward(2, TRUE)

\* With the next group of the chain, or at its end with the first of the next
\* slot, which is left empty: the rest of its chain now hangs here.
merge_group ==
  /\ Visiting
  /\ LET g == Chain[bg.place]
         After(other) == <<Group(g.pivot, Merged(g) \o Merged(other))>>
         next == IF bg.slot < Len(groups) THEN groups[bg.slot + 1].chain ELSE <<>>
     IN  \/ /\ bg.place < Len(Chain)
            /\ groups' = [groups EXCEPT ![bg.slot].chain = Replaced(2, After(Chain[bg.place + 1]))]
         \/ /\ bg.place = Len(Chain) /\ next # <<>>
            /\ groups' = [groups EXCEPT ![bg.slot].chain = Replaced(1, After(next[1])) \o Tail(next),
                                        ![bg.slot + 1].chain = <<>>]
  /\ Onward(1, TRUE)

compact ==
  /\ Visiting
  /\ groups' = [groups EXCEPT ![bg.slot].chain =
                  Replaced(1, <<Group(Chain[bg.place].pivot, Merged(Chain[bg.place]))>>)]
  /\ Onward(1, FALSE)

NothingToDo == Visiting /\ Onward(1, FALSE) /\ UNCHANGED groups

NextSlot ==
  /\ ~Visiting /\ bg.slot < Len(groups)
  /\ bg' = [bg EXCEPT !.slot = @ + 1, !.place = 1]
  /\ UNCHANGED groups

FirstGroup == [slot |-> 1, place |-> 1, update |-> FALSE]

\* Mutant: the new root takes the first group of each slot only.
EndPassHeadsOnly ==
  /\ ~Visiting /\ bg.slot = Len(groups)
  /\ groups' = IF bg.update
               THEN LET full == SelectSeq(groups, LAMBDA s : s.chain # <<>>)
                    IN  [i \in DOMAIN full |-> Slot(<<full[i].chain[1]>>)]
               ELSE groups
  /\ bg' = FirstGroup

\* create_new_root and trim_root, if a group was split or merged: a slot for each.
EndPass ==
  /\ ~Visiting /\ bg.slot = Len(groups)
  /\ groups' = IF bg.update THEN [i \in DOMAIN Flat(groups) |-> Slot(<<Flat(groups)[i]>>)] ELSE groups
  /\ bg' = FirstGroup

-----------------------------------------------------------------------------
\* Where group i of group_n begins when n records are shared out: the first
\* groups get the trailing records, one each.
Begin(n, group_n, i) ==
  LET trailing == n - (n \div group_n) * group_n
  IN  i * (n \div group_n) + Min({i, trailing})

\* Root::init: some number of groups over the loaded records.
Init ==
  /\ \E loaded \in SUBSET Keys \ {{}} : \E group_n \in 1 .. Cardinality(loaded) :
       LET n == Cardinality(loaded)
           record == [j \in 1 .. n |-> LET k == InOrder(loaded)[j]
                                       IN  [key |-> k, val |-> CHOOSE v \in Payloads[k] : TRUE]]
           data(i) == SubSeq(record, Begin(n, group_n, i - 1) + 1, Begin(n, group_n, i))
       IN  groups = [i \in 1 .. group_n |-> Slot(<<Group(data(i)[1].key, data(i))>>)]
  /\ bg = FirstGroup
  /\ ret = Abs!NoCall

Call ==
  /\ ret = Abs!NoCall
  /\ \E key \in OpKeys : get(key) \/ remove(key) \/ \E val \in Payloads[key] : put(key, val)
  /\ UNCHANGED bg

Return == ret # Abs!NoCall /\ ret' = Abs!NoCall /\ UNCHANGED <<groups, bg>>

Background ==
  /\ ret = Abs!NoCall
  /\ split_group \/ merge_group \/ compact \/ NothingToDo \/ NextSlot \/ EndPass
  /\ UNCHANGED ret

Next == Call \/ Return \/ Background

vars == <<groups, bg, ret>>
Spec == Init /\ [][Next]_vars
-----------------------------------------------------------------------------
\* The background thread is at a slot, at a group of its chain or behind it.
TypeOK ==
  /\ bg.slot \in DOMAIN groups /\ bg.place \in 1 .. Len(Chain) + 1
  /\ groups[1].chain # <<>>
  /\ \A g \in ToSet(Flat(groups)) :
       /\ g.data \in Seq([key : Keys, val : UNION {Payloads[k] : k \in Keys} \union {None}])
       /\ DOMAIN g.buffer \subseteq Keys

\* What the asserts of create_new_root, init and merge_refs_internal say: pivots
\* and records are in order, and no key has two values in a group; and every
\* record is in the group that its key belongs to.
Layout ==
  LET all == Flat(groups)
      KeysOf(g) == {d.key : d \in ToSet(g.data)} \union DOMAIN g.buffer
  IN
  /\ \A i \in DOMAIN groups : groups[i].chain # <<>> => groups[i].pivot = groups[i].chain[1].pivot
  /\ \A i \in DOMAIN all : LET g == all[i] IN
       /\ i > 1 => /\ all[i - 1].pivot < g.pivot
                   /\ \A k \in KeysOf(g) : k >= g.pivot
                   /\ \A k \in KeysOf(all[i - 1]) : k < g.pivot
       /\ \A j \in 2 .. Len(g.data) : g.data[j - 1].key < g.data[j].key
       /\ \A k \in Keys : InArrays(g, k) = {} \/ InBuffers(g, k) = {}

\* From every prediction the root's search ends at the last group with a pivot
\* up to the key (or the first), past slots that merges have emptied, and the
\* search in a group's array at the first record not below the key.
SearchExact ==
  \A key \in Keys :
    /\ \A p \in Predictions(groups) :
         LET at == locate_group(groups, key, p)
             before == Len(Flat(SubSeq(groups, 1, at[1] - 1))) + at[2]
         IN  before = Max({i \in DOMAIN Flat(groups) : i = 1 \/ Flat(groups)[i].pivot <= key})
    /\ \A g \in ToSet(Flat(groups)) : \A p \in Predictions(g.data) :
         exponential_search_key(g.data, key, p) = Cardinality({d \in ToSet(g.data) : d.key < key})

\* "we treat the pivot key of the 1st group as -inf": a key is looked up in the
\* first slot only if no other slot's pivot is up to it.
FirstPivotIsMinusInf ==
  \A key \in Keys : \A p \in Predictions(groups) :
    locate_group_pt1(groups, key, p) = 0 =>
      \A i \in 2 .. Len(groups) : groups[i].chain # <<>> => groups[i].pivot > key
=============================================================================
