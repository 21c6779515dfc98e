---------------------------- MODULE MCAlexTree -----------------------------
(* Instances of AlexTree for TLC. *)
EXTENDS AlexTree

\* The root is a leaf: a first split puts a model node above the halves, and as
\* that may not grow a second one puts another below it.
OneLeaf == [buckets |-> 1, leaves |-> 1, max_fanout |-> 2]
\* Each leaf has one bucket: a first split expands the parent, after which the
\* other leaf has two buckets and is split sideways.
TwoLeaves == [buckets |-> 2, leaves |-> 2, max_fanout |-> 4]
JustOneLeaf == {OneLeaf}
BothShapes == {OneLeaf, TwoLeaves}
=============================================================================
