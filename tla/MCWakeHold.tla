----------------------------- MODULE MCWakeHold -----------------------------
(* Instances of WakeHold for TLC. *)
EXTENDS WakeHold, TLC

Symmetry == Permutations(Calls)
=============================================================================
