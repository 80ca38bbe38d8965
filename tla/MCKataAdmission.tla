--------------------------- MODULE MCKataAdmission ---------------------------
(***************************************************************************)
(* Instances of KataAdmission for TLC: two allocations on a node with room *)
(* for one, and a second worker that reuses an allocation.                 *)
(***************************************************************************)
EXTENDS KataAdmission

CONSTANTS a1, a2, w1, w2, w3

MCHome == [w \in Workers |-> IF w = w3 THEN a2 ELSE a1]
=============================================================================
