--------------------------- MODULE MCLaunchLedger ---------------------------
(***************************************************************************)
(* Instances of LaunchLedger for TLC: calls of one request.                *)
(***************************************************************************)
EXTENDS LaunchLedger, TLC

Symmetry == Permutations(Callers)
=============================================================================
