------------------------- MODULE MCXIndexAtomicVal -------------------------
(* Instance of XIndexAtomicVal for TLC: two workers, an old record in the    *)
(* array or in the buffer.                                                  *)
EXTENDS XIndexAtomicVal
=============================================================================
