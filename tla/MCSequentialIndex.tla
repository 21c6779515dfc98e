------------------------- MODULE MCSequentialIndex -------------------------
(* Instances of SequentialIndex for TLC. *)
EXTENDS SequentialIndex
=============================================================================
