----------------------------- MODULE MCLifecycle -----------------------------
(* Instances of Lifecycle for TLC; no symmetry, for liveness is checked. *)
EXTENDS Lifecycle, TLC
=============================================================================
