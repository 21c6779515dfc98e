---------------------------- MODULE AlexDataNode ---------------------------
(***************************************************************************)
(* The gapped array of an ALEX+ data node (alexol/src/alex_nodes.h), as one    *)
(* thread that holds the node's lock changes it.  Keys lie in order in          *)
(* key_slots_, with gaps between them for later inserts; a gap repeats the key  *)
(* that follows it, so that searches need not look at the bitmap.              *)
(*                                                                         *)
(* The linear model only says where a search or an insert starts: here every    *)
(* prediction is possible, and for a bulk load every nondecreasing sequence of *)
(* predictions.  Words of the bitmap have WordBits bits (64 in the code).       *)
(* Densities and thresholds are tenths, as in the code.  Splits are the        *)
(* subject of AlexTree.                                                      *)
(***************************************************************************)
EXTENDS Integers, FiniteSets, SequencesExt

CONSTANTS
  NumKeys,          \* keys are 0 .. NumKeys - 1
  Updatable,        \* keys with two payloads, the others have one
  WordBits,
  Uninitialized     \* what memory may hold before it is written, as a key

ASSUME DataNodeAssumption ==
  /\ NumKeys \in Nat \ {0} /\ WordBits \in Nat \ {0}
  /\ Uninitialized \subseteq 0 .. NumKeys

VARIABLES
  node,             \* the data node
  ret               \* the answer to the last call

vars == <<node, ret>>

Keys == 0 .. (NumKeys - 1)
kEndSentinel_ == NumKeys
None == <<>>
Payloads == [k \in Keys |-> {<<k, i>> : i \in IF k \in Updatable THEN {1, 2} ELSE {1}}]
AllPayloads == UNION {Payloads[k] : k \in Keys} \union {None}

Positions(n) == 0 .. (n.data_capacity - 1)

\* The elements of a set of numbers in order.
Sorted(S) == [i \in 1 .. Cardinality(S) |->
                CHOOSE x \in S : Cardinality({y \in S : y < x}) = i - 1]

\* The keys in the array and their payloads.
Contents(n) ==
  [k \in Keys |-> IF \E i \in n.bitmap : n.key[i] = k
                  THEN n.payload[CHOOSE i \in n.bitmap : n.key[i] = k] ELSE None]

Abs == INSTANCE OrderedMap WITH map <- Contents(node)

-----------------------------------------------------------------------------
(* Searches *)

\* The elements a search goes past: those up to key, or those below it.
Before(x, key, upper) == x < key \/ (upper /\ x = key)

\* Doubling from position m until the answer is within the bound.
Bound(n, m, key, upper, size, left) ==
  LET Passed(b) == IF left THEN ~Before(n.key[m - b], key, upper)
                   ELSE Before(n.key[m + b], key, upper)
  IN  Min({b \in {2 ^ i : i \in 0 .. n.data_capacity} : b >= size \/ ~Passed(b)})

binary_search(n, l, r, key, upper) ==
  LET Search[x \in 0 .. n.data_capacity, y \in 0 .. n.data_capacity] ==
        IF x >= y THEN x
        ELSE LET mid == x + (y - x) \div 2 IN
             IF Before(n.key[mid], key, upper) THEN Search[mid + 1, y] ELSE Search[x, mid]
  IN  Search[l, r]

exponential_search_short(n, m, key, upper) ==
  IF ~Before(n.key[m], key, upper)
  THEN LET b == Bound(n, m, key, upper, m, TRUE)
       IN  binary_search(n, m - Min({b, m}), m - b \div 2, key, upper)
  ELSE LET size == n.data_capacity - m
           b == Bound(n, m, key, upper, size, FALSE)
       IN  binary_search(n, m + b \div 2, m + Min({b, size}) - 1, key, upper)

\* exponential_search_upper_bound (upper) and exponential_search_lower_bound.
exponential_search(n, m, key, upper) ==
  IF ~Before(n.key[m], key, upper)
  THEN LET b == Bound(n, m, key, upper, m, TRUE)
       IN  binary_search(n, m - Min({b, m}), m - b \div 2, key, upper)
  ELSE LET size == n.data_capacity - m
           b == Bound(n, m, key, upper, size, FALSE)
       IN  binary_search(n, m + b \div 2, m + Min({b, size}), key, upper)

\* Where the key is, or -1.  m is the predicted position.
find_key(n, m, key) ==
  LET pos == exponential_search(n, m, key, TRUE) - 1
  IN  IF pos >= 0 /\ n.key[pos] = key THEN pos ELSE -1

get_next_filled_position(n, pos) ==
  LET next == {i \in n.bitmap : i >= pos}
  IN  IF next = {} THEN n.data_capacity ELSE Min(next)

\* The first key not below the given one.
find_lower(n, m, key) ==
  get_next_filled_position(n, exponential_search(n, m, key, FALSE))

\* Where a key is to go (near the prediction, if that is in a gap behind its
\* place) and its upper bound.
find_insert_position(n, m, key) ==
  LET pos == exponential_search(n, m, key, TRUE) IN
  [at |-> IF m <= pos \/ pos \in n.bitmap THEN pos
          ELSE Min({m, get_next_filled_position(n, pos + 1) - 1}),
   upper_bound |-> pos]

-----------------------------------------------------------------------------
(* closest_gap, word by word *)

bitmap_size(n) == (n.data_capacity + WordBits - 1) \div WordBits
Word(w) == (w * WordBits) .. ((w + 1) * WordBits - 1)
Full(n, w) == Word(w) \subseteq n.bitmap

\* The last and the first unset bit of a word, by lzcnt and tzcnt of its
\* complement: those of a full word are just outside it.
LastGap(n, w) == Max((Word(w) \ n.bitmap) \union {w * WordBits - 1})
FirstGap(n, w) == Min((Word(w) \ n.bitmap) \union {(w + 1) * WordBits})

NearerOrBeyond(n, pos, left, right) ==
  IF pos - left <= right - pos THEN left ELSE right

Nearer(n, pos, left, right) ==
  IF pos - left <= right - pos \/ right >= n.data_capacity THEN left ELSE right

\* What the two words d away from word w give, -1 if nothing.
AtDistance(n, pos, w, d) ==
  LET bit_pos == pos - w * WordBits IN
  CASE ~Full(n, w - d) /\ ~Full(n, w + d) ->
         Nearer(n, pos, LastGap(n, w - d), FirstGap(n, w + d))
    [] ~Full(n, w - d) /\ Full(n, w + d) ->
         IF 2 * bit_pos > WordBits /\ w + d + 1 < bitmap_size(n) /\ ~Full(n, w + d + 1)
         THEN Nearer(n, pos, LastGap(n, w - d), FirstGap(n, w + d + 1))
         ELSE LastGap(n, w - d)
    [] Full(n, w - d) /\ ~Full(n, w + d) /\ FirstGap(n, w + d) < n.data_capacity ->
         IF 2 * bit_pos < WordBits /\ w - d > 0 /\ ~Full(n, w - d - 1)
         THEN Nearer(n, pos, LastGap(n, w - d - 1), FirstGap(n, w + d))
         ELSE FirstGap(n, w + d)
    [] OTHER -> -1

\* No gap in the word of pos: words on both sides, then on the longer side.
OutsideWord(n, pos, w) ==
  LET right == (n.data_capacity - 1) \div WordBits - w
      both == Min({w, right})
      found == {d \in 1 .. both : AtDistance(n, pos, w, d) # -1}
      lefts == {i \in 0 .. (w - both - 1) : ~Full(n, i)}
      rights == {i \in (w + both + 1) .. (w + right) : ~Full(n, i)}
  IN  CASE found # {} -> AtDistance(n, pos, w, Min(found))
        [] found = {} /\ w > right /\ lefts # {} -> LastGap(n, Max(lefts))
        [] found = {} /\ w <= right /\ rights # {} /\ FirstGap(n, Min(rights)) < n.data_capacity ->
             FirstGap(n, Min(rights))
        [] OTHER -> -1

\* A gap in the word of pos: the nearest there, or in the next word.
InsideWord(n, pos, w) ==
  LET rights == {i \in Word(w) \ n.bitmap : i >= pos}
      lefts == {i \in Word(w) \ n.bitmap : i < pos}
      right == IF rights # {} THEN Min(rights) - pos
               ELSE IF w + 1 < bitmap_size(n) THEN FirstGap(n, w + 1) - pos ELSE WordBits
      left == IF lefts # {} THEN pos - Max(lefts)
              ELSE IF w > 0 THEN pos - LastGap(n, w - 1) ELSE WordBits
  IN  IF right < left /\ pos + right < n.data_capacity THEN pos + right ELSE pos - left

closest_gap(n, p) ==
  LET pos == Min({p, n.data_capacity - 1})
      w == pos \div WordBits
      last == bitmap_size(n) - 1
      ones == Cardinality(Word(w) \intersect n.bitmap)
  IN  IF Full(n, w) \/ (w = last /\ ones = n.data_capacity - last * WordBits)
      THEN OutsideWord(n, pos, w) ELSE InsideWord(n, pos, w)

-----------------------------------------------------------------------------
(* Placement of keys in an empty array: bulk_load, resize *)

\* Positions of count keys in an array of this capacity: as predicted, but
\* after one another and with room for the rest.
Placed(capacity, count, predicted) ==
  LET position[i \in 0 .. count] ==
        IF i = 0 THEN -1
        ELSE Min({Max({predicted[i], position[i - 1] + 1}), capacity - (count - i + 1)})
  IN  [i \in 1 .. count |-> position[i]]

\* predict is not clamped here.
Predictions(capacity, count) ==
  {f \in [1 .. count -> 0 .. capacity] : \A i \in 2 .. count : f[i - 1] <= f[i]}

Capacity(num, density) == Max({(10 * num) \div density, num + 1})

kInitDensity_ == 7
kMaxDensity_ == 8
kMinDensity_ == 6

\* The placements of count keys that the predictions of some model give.
Placements == [count \in 1 .. NumKeys, density \in {kMinDensity_, kInitDensity_, kMaxDensity_} |->
  LET capacity == Capacity(count, density)
  IN  {Placed(capacity, count, f) : f \in Predictions(capacity, count)}]

\* An array with the keys of ks at these positions; gaps take the next key.
Array(ks, payload, capacity, position) ==
  LET count == Len(ks)
      Next(i) == {j \in 1 .. count : position[j] >= i}
      At(i) == {j \in 1 .. count : position[j] = i}
  IN  [data_capacity |-> capacity,
       num_keys |-> count,
       key |-> [i \in 0 .. (capacity - 1) |->
                  IF Next(i) = {} THEN kEndSentinel_ ELSE ks[Min(Next(i))]],
       payload |-> [i \in 0 .. (capacity - 1) |->
                      IF At(i) = {} THEN None ELSE payload[ks[Min(At(i))]]],
       bitmap |-> Range(position),
       expansion_threshold |-> Min({Max({capacity * kMaxDensity_, 10 * (count + 1)}),
                                     10 * capacity}),
       contraction_threshold |-> capacity * kMinDensity_]

\* An array without keys; x is what its slot holds.
EmptyArray(x) ==
  [data_capacity |-> 1, num_keys |-> 0, key |-> [i \in {0} |-> x],
   payload |-> [i \in {0} |-> None], bitmap |-> {},
   expansion_threshold |-> 10, contraction_threshold |-> 0]

\* All arrays with these records at this density.
Arrays(ks, payload, density) ==
  {Array(ks, payload, Capacity(Len(ks), density), position) :
     position \in Placements[Len(ks), density]}

\* The keys the iterator gives: those of the filled positions.
Recorded(n) == Sorted({n.key[i] : i \in n.bitmap})

\* resize_from_existing: the slot of an array without keys is not written.
Resized(n, density) ==
  IF n.num_keys = 0 THEN {EmptyArray(x) : x \in Uninitialized}
  ELSE Arrays(Recorded(n), Contents(n), density)

Init ==
  /\ \E S \in SUBSET Keys :
       node \in IF S = {} THEN {EmptyArray(kEndSentinel_)}
                ELSE Arrays(Sorted(S), [k \in Keys |-> <<k, 1>>], kInitDensity_)
  /\ ret = Abs!NoCall

-----------------------------------------------------------------------------
(* insert *)

insert_element_only(n, key, payload, pos) ==
  [n EXCEPT !.key[pos] = key, !.payload[pos] = payload, !.bitmap = @ \union {pos}]

\* The gaps just before pos take the new key.
insert_element_at(n, key, payload, pos) ==
  LET gaps == {i \in 0 .. (pos - 1) : \A j \in i .. (pos - 1) : j \notin n.bitmap}
  IN  [n EXCEPT !.key = [i \in Positions(n) |-> IF i = pos \/ i \in gaps THEN key ELSE @[i]],
                !.payload[pos] = payload,
                !.bitmap = @ \union {pos}]

\* Elements between pos and the closest gap move by one towards the gap.
insert_using_shifts(n, key, payload, pos) ==
  LET gap == closest_gap(n, pos)
      from == [i \in Positions(n) |-> CASE pos < i /\ i <= gap -> i - 1
                                        [] gap <= i /\ i < pos - 1 -> i + 1
                                        [] OTHER -> i]
      shifted == [n EXCEPT !.key = [i \in Positions(n) |-> @[from[i]]],
                           !.payload = [i \in Positions(n) |-> @[from[i]]],
                           !.bitmap = @ \union {gap}]
  IN  insert_element_at(shifted, key, payload, IF gap >= pos THEN pos ELSE pos - 1)

Inserted(n, key, payload, at) ==
  LET put == IF at < n.data_capacity /\ at \notin n.bitmap
             THEN insert_element_at(n, key, payload, at)
             ELSE insert_using_shifts(n, key, payload, at)
  IN  [put EXCEPT !.num_keys = @ + 1]

\* A node at its threshold is replaced by a larger one before the lock is
\* released.
insert(key, payload, m) ==
  LET call == <<"insert", key, payload>>
      p == find_insert_position(node, m, key)
      new == Inserted(node, key, payload, p.at)
  IN
  IF p.upper_bound > 0 /\ node.key[p.upper_bound - 1] = key
  THEN UNCHANGED node /\ ret' = Abs!Answer(call, FALSE, None)
  ELSE /\ node' \in IF 10 * new.num_keys >= new.expansion_threshold
                    THEN Resized(new, kMinDensity_) ELSE {new}
       /\ ret' = Abs!Answer(call, TRUE, None)

-----------------------------------------------------------------------------
(* update, find_payload, erase, erase_one, erase_range.  The payload of a gap is
   never read and is None here. *)

updatePredicted(key, payload, m) ==
  /\ node' = IF m \in node.bitmap THEN [node EXCEPT !.payload[m] = payload] ELSE node
  /\ ret' = Abs!Answer(<<"update", key, payload>>, m \in node.bitmap, None)

update(key, payload, m) ==
  LET pos == find_key(node, m, key) IN
  /\ node' = IF pos = -1 THEN node ELSE [node EXCEPT !.payload[pos] = payload]
  /\ ret' = Abs!Answer(<<"update", key, payload>>, pos # -1, None)

find_payload(key, m) ==
  LET pos == find_key(node, m, key) IN
  /\ UNCHANGED node
  /\ ret' = Abs!Answer(<<"get", key>>, pos # -1, IF pos = -1 THEN None ELSE node.payload[pos])

\* The slots before pos with keys from a given one on are cleared.
Cleared(n, pos, from) ==
  LET next == IF pos = n.data_capacity THEN kEndSentinel_ ELSE n.key[pos]
      cut == {i \in 0 .. (pos - 1) : \A j \in i .. (pos - 1) : n.key[j] >= from}
  IN  [n EXCEPT !.key = [i \in Positions(n) |-> IF i \in cut THEN next ELSE @[i]],
                !.payload = [i \in Positions(n) |-> IF i \in cut THEN None ELSE @[i]],
                !.bitmap = @ \ cut,
                !.num_keys = @ - Cardinality(n.bitmap \intersect cut)]

TooSparse(n) == 10 * n.num_keys < n.contraction_threshold

erase(key, m) ==
  LET pos == exponential_search(node, m, key, TRUE)
      new == Cleared(node, pos, key)
  IN
  IF pos = 0 \/ node.key[pos - 1] # key
  THEN UNCHANGED node /\ ret' = Abs!Answer(<<"erase", key>>, FALSE, None)
  ELSE /\ node' \in IF TooSparse(new) THEN Resized(new, kMaxDensity_) ELSE {new}
       /\ ret' = Abs!Answer(<<"erase", key>>, new.num_keys < node.num_keys, None)

\* Contraction in place (resize) leaves an array without keys as it is.
ResizedInPlace(n) ==
  IF TooSparse(n) /\ n.num_keys > 0 THEN Resized(n, kMaxDensity_) ELSE {n}

\* The position and the gaps before it take the next key.
erase_one(key, m) ==
  LET pos == find_lower(node, m, key)
      next == IF pos + 1 = node.data_capacity THEN kEndSentinel_ ELSE node.key[pos + 1]
      cut == {i \in 0 .. pos : \A j \in i .. (pos - 1) : j \notin node.bitmap}
  IN
  IF pos = node.data_capacity \/ node.key[pos] # key
  THEN UNCHANGED node /\ ret' = Abs!Answer(<<"erase", key>>, FALSE, None)
  ELSE /\ node' \in ResizedInPlace(
             [node EXCEPT !.key = [i \in Positions(node) |-> IF i \in cut THEN next ELSE @[i]],
                          !.payload[pos] = None,
                          !.bitmap = @ \ {pos},
                          !.num_keys = @ - 1])
       /\ ret' = Abs!Answer(<<"erase", key>>, TRUE, None)

erase_range(start_key, end_key, m) ==
  LET pos == exponential_search(node, m, end_key, FALSE)
      new == Cleared(node, pos, start_key)
  IN
  /\ node' \in IF pos = 0 THEN {node} ELSE ResizedInPlace(new)
  /\ ret' = Abs!Answer(<<"erase_range", start_key, end_key>>, TRUE, None)

Call ==
  \E m \in Positions(node), key \in Keys :
    \/ \E payload \in Payloads[key] : insert(key, payload, m) \/ update(key, payload, m)
    \/ find_payload(key, m)
    \/ erase(key, m) \/ erase_one(key, m)
    \/ \E end_key \in Keys : key < end_key /\ erase_range(key, end_key, m)

Return == ret' = Abs!NoCall /\ UNCHANGED node

Next ==
  \/ ret = Abs!NoCall /\ Call
  \/ ret # Abs!NoCall /\ Return

Spec == Init /\ [][Next]_vars
-----------------------------------------------------------------------------
\* The arrays have data_capacity slots, the bitmap and the count fit them.
TypeOK ==
  /\ node.data_capacity \in Nat \ {0}
  /\ node.key \in [Positions(node) -> 0 .. NumKeys]
  /\ node.payload \in [Positions(node) -> AllPayloads]
  /\ node.bitmap \subseteq Positions(node)
  /\ node.num_keys \in Nat

\* The only slot of an array without keys, which may not have been written.
OneEmptySlot == node.data_capacity = 1 /\ node.num_keys = 0

\* What validate_structure tests: keys in order, a gap never the last slot of
\* its key, the sentinel never a key, and the number of keys that of set bits.
ValidStructure ==
  /\ \A i, j \in Positions(node) : i < j => node.key[i] <= node.key[j]
  /\ \A i \in Positions(node) :
       LET next == IF i + 1 = node.data_capacity THEN kEndSentinel_ ELSE node.key[i + 1] IN
       IF i \in node.bitmap THEN node.key[i] < next ELSE node.key[i] = next
  /\ node.num_keys = Cardinality(node.bitmap)

\* The densities leave a gap for the next insert, which shifts towards it
\* before it looks at the threshold.
RoomToInsert ==
  /\ node.num_keys < node.data_capacity
  /\ \A pos \in 0 .. node.data_capacity :
       LET gaps == Positions(node) \ node.bitmap
           p == Min({pos, node.data_capacity - 1})
           Away(i) == IF i < p THEN p - i ELSE i - p
       IN  /\ closest_gap(node, pos) \in gaps
           /\ \A i \in gaps : Away(closest_gap(node, pos)) <= Away(i)

\* Whatever the model predicts, a search ends at the first element above the
\* key, or not below it.
SearchExact ==
  \A m \in Positions(node), key \in Keys, upper \in BOOLEAN :
    exponential_search(node, m, key, upper)
      = Cardinality({i \in Positions(node) : Before(node.key[i], key, upper)})
=============================================================================
