--------------------------- MODULE MCXIndexGroup ---------------------------
(* Instances of XIndexGroup for TLC.  Key 2 is in no initial array: it can    *)
(* be inserted; keys 1 and 3 can be updated, removed and put back.           *)
EXTENDS XIndexGroup, TLC

OneGroup == <<{1, 3}>>
TwoGroups == <<{1}, {3}>>

\* Workers that do the same are interchangeable, and so are values.
Symmetry == Permutations(Putters) \union Permutations(Values)
=============================================================================
