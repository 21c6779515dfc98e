-------------------------- MODULE SequentialIndex --------------------------
(***************************************************************************)
(* One thread uses one index through the interface of indexInterface.h: the    *)
(* leaf of an ALEX+ index that is a single data node, a LIPP-Hybrid index, or an *)
(* XIndex and the visits of its background thread.  Which one is chosen once, *)
(* by name, as get_index does.                                               *)
(***************************************************************************)
EXTENDS AlexDataNode

CONSTANTS
  NumLippKeys, Slots, compact_policy, COMPACT_LEAF_MAX_SIZE,
  COMPACT_LINEAR_SCAN_MAX_SIZE, COMPACT_SEGMENT_SCAN_MAX_SIZE, COMPACT_SEGMENT_SIZE,
  MinCapacity, CapacityFactor, RebuildSize, RebuildRatio, MaxInserts,
  OpKeys, FirstExempt

VARIABLES
  index_type,
  tree,             \* of LIPP-Hybrid
  groups, bg,       \* of XIndex
  map               \* what the index holds: a function of node, tree or groups

LippKeys == 0 .. (NumLippKeys - 1)
XKeys == Keys \ {0}     \* without key_t::min()

LippPayloads == [k \in LippKeys |-> {<<k, 1>>}]   \* an update of another record shows

Lipp == INSTANCE LippHybrid WITH Keys <- LippKeys, Payloads <- LippPayloads
XIndex == INSTANCE XIndexSearch WITH Keys <- XKeys
Interface == INSTANCE OrderedMap

NoNode == [data_capacity |-> 0]
NoTree == <<>>
NoGroups == groups = <<>> /\ bg = [slot |-> 0]

Held(type, n, t, r) ==
  CASE type = "alexol" -> Contents(n)
    [] type = "lipphybrid" -> [k \in Keys |-> IF k \in LippKeys THEN Lipp!Contents(t)[k] ELSE None]
    [] type = "xindex" -> [k \in Keys |-> IF k \in XKeys THEN XIndex!Contents(r)[k] ELSE None]

get_index ==
  /\ \/ index_type = "alexol" /\ Init /\ tree = NoTree /\ NoGroups
     \/ index_type = "lipphybrid" /\ Lipp!Init /\ node = NoNode /\ NoGroups
     \/ index_type = "xindex" /\ XIndex!Init /\ node = NoNode /\ tree = NoTree
  /\ map = Held(index_type, node, tree, groups)

IndexNext ==
  /\ \/ index_type = "alexol" /\ Next /\ UNCHANGED <<tree, groups, bg>>
     \/ index_type = "lipphybrid" /\ Lipp!Next /\ UNCHANGED <<node, groups, bg>>
     \/ index_type = "xindex" /\ XIndex!Next /\ UNCHANGED <<node, tree>>
  /\ map' = Held(index_type, node', tree', groups')
  /\ UNCHANGED index_type

IndexSpec == get_index /\ [][IndexNext]_<<node, ret, index_type, tree, groups, bg, map>>
-----------------------------------------------------------------------------
\* The arrays of a data node have data_capacity slots, its bitmap and count fit
\* them, and validate_structure finds nothing wrong in it after any sequence of
\* inserts, erases and resizes (gaps repeat the key after them, keys are sorted),
\* but for the key in the only slot of a leaf that has been emptied and resized,
\* which is unwritten memory (LastSlotReal).  The nodes of a LIPP-Hybrid tree are
\* those its child bits lead to, and verify finds nothing in it after inserts,
\* removes and rebuilds (the sizes along every path add up).  XIndex's pivots and
\* arrays stay in order and every record in its group, through splits, merges and
\* new roots, and the background thread is at a slot and a place that are there.
StructuresValid ==
  /\ index_type = "alexol" =>
       TypeOK /\ (ValidStructure \/ (OneEmptySlot /\ node.bitmap = {}))
  /\ index_type = "lipphybrid" => Lipp!TypeOK /\ Lipp!Verify
  /\ index_type = "xindex" => XIndex!TypeOK /\ XIndex!Layout

\* There is always a gap when insert shifts towards one, and closest_gap finds
\* the nearest through its words of the bitmap.
AlexRoomToInsert == index_type = "alexol" => RoomToInsert

\* The exponential and binary searches of ALEX+ and XIndex end at the right
\* position from every one the models may predict, also past slots of XIndex's
\* root that merges have emptied.
SearchesExact ==
  /\ index_type = "alexol" => SearchExact
  /\ index_type = "xindex" => XIndex!SearchExact

\* A range query of a LIPP-Hybrid tree gives each record from its start on once
\* and in key order, through exact and compact nodes.
LippScanExact == index_type = "lipphybrid" => Lipp!ScanExact

\* What an insert of a key that is there does.
There ==
  CASE index_type = "alexol" -> "fails"
    [] index_type = "lipphybrid" -> "overwrites"
    [] index_type = "xindex" -> "put"

\* What the calls of an ALEX+ leaf without keys may also answer: they compare the
\* key with the slot that resize_from_existing has not written.
UnwrittenSlot ==
  /\ index_type = "alexol" /\ OneEmptySlot
  /\ UNCHANGED map
  /\ \E k \in Keys, v \in AllPayloads :
       \/ v \in Payloads[k] /\ ret' = Interface!Answer(<<"insert", k, v>>, FALSE, None)
       \/ v \in Payloads[k] /\ ret' = Interface!Answer(<<"update", k, v>>, TRUE, None)
       \/ ret' = Interface!Answer(<<"get", k>>, TRUE, v)

\* What LIPP-Hybrid's update and remove may also do with a key that is not there:
\* take the record of another in its exact slot, since they compare no keys.
OthersRecord ==
  /\ index_type = "lipphybrid"
  /\ \E k, other \in Keys :
       /\ map[k] = None /\ map[other] # None
       /\ \/ /\ map' = [map EXCEPT ![other] = None]
             /\ ret' = Interface!Answer(<<"erase", k>>, TRUE, None)
          \/ \E v \in Payloads[k] :
               /\ map' = [map EXCEPT ![other] = v]
               /\ ret' = Interface!Answer(<<"update", k, v>>, TRUE, None)

\* The calls that may end the process there: an insert of a key that is there, a
\* get of one that is not, the removal of the last record.
ProcessExits ==
  /\ index_type = "lipphybrid"
  /\ UNCHANGED map
  /\ \E k \in Keys :
       \/ map[k] # None /\ \E v \in Payloads[k] : ret' = Interface!Exit(<<"insert", k, v>>)
       \/ map[k] = None /\ ret' = Interface!Exit(<<"get", k>>)
       \/ /\ Cardinality({other \in Keys : map[other] # None}) = 1
          /\ ret' = Interface!Exit(<<"erase", k>>)

\* Each index is a map: a call answers by the records there are and changes the
\* one it names, wherever models send it, through shifts, conflicts, resizes,
\* rebuilds, compactions, splits, merges and new roots.  LIPP-Hybrid's insert
\* overwrites in a compact leaf, XIndex's everywhere.  Three things the code does
\* otherwise are excepted, each for the calls named above it and no others:
\* UnwrittenSlot, OthersRecord and ProcessExits.
ImplementsMap ==
  /\ Interface!MapInit
  /\ [][\/ Interface!MapNext(There)
        \/ ret = Interface!NoCall /\ (UnwrittenSlot \/ OthersRecord \/ ProcessExits)]_<<map, ret>>

\* "The last key slot with a certain value is guaranteed to be a real key
\* (instead of a gap)": what find_key, find_payload and update of ALEX+ rely on.
LastSlotReal ==
  index_type = "alexol" =>
    \A i \in Positions(node) :
      /\ node.key[i] # kEndSentinel_
      /\ i + 1 \in Positions(node) => node.key[i + 1] # node.key[i]
      => i \in node.bitmap

\* "-1 if key already exists and duplicates not allowed": an insert that ALEX+
\* refuses is of a key that is there.
RefusedIsThere ==
  index_type = "alexol" =>
    \A k \in Keys : \A v \in Payloads[k] :
      ret = Interface!Answer(<<"insert", k, v>>, FALSE, None) => map[k] # None

\* "items[pos].comp.data.key == key", which at asserts of the record in an exact
\* slot of LIPP-Hybrid: a key that remove reports as removed was there.
RemovedWasThere ==
  [][index_type = "lipphybrid" =>
       \A k \in Keys : ret' = Interface!Answer(<<"erase", k>>, TRUE, None) => map[k] # None]_<<map, ret>>
=============================================================================
