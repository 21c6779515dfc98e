---------------------------- MODULE MCXIndexRcu ----------------------------
(* Instances of XIndexRcu for TLC: one XIndex with two workers, the same   *)
(* benchmark repeated, and a benchmark that grows its number of threads.    *)
EXTENDS XIndexRcu

OneIndex == <<2>>
SameTwice == <<1, 1>>
Growing == <<1, 2>>
=============================================================================
