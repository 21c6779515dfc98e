-------------------------- MODULE MCXIndexSearch ---------------------------
(* Instances of XIndexSearch for TLC. *)
EXTENDS XIndexSearch

OneToThree == 1 .. 3
OnePayload == [k \in Keys |-> {<<k>>}]
NoPayload == <<>>
=============================================================================
