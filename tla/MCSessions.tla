----------------------------- MODULE MCSessions -----------------------------
(* Instances of the sessions for TLC. *)
EXTENDS Sessions, TLC

Symmetry == Permutations(Tokens) \cup Permutations(Handlers) \cup Permutations(Tabs)
=============================================================================
