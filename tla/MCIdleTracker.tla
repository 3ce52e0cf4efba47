---------------------------- MODULE MCIdleTracker ----------------------------
(* Instances of IdleTracker for TLC. *)
EXTENDS TrackerHistory, TLC

Symmetry == Permutations(Users) \cup Permutations(Requests)
=============================================================================
