-------------------------- MODULE MCWorkerLifecycle --------------------------
(***************************************************************************)
(* Instances of WorkerLifecycle for TLC: two workers that get the same     *)
(* name one after the other, two Products.                                 *)
(***************************************************************************)
EXTENDS WorkerLifecycle, TLC

Symmetry == Permutations(Products) \cup Permutations(Workers)
=============================================================================
