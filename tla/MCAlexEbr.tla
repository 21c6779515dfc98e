----------------------------- MODULE MCAlexEbr -----------------------------
(* Instances of AlexEbr for TLC. *)
EXTENDS AlexEbr, TLC

Symmetry == Permutations(Threads)
=============================================================================
