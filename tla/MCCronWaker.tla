----------------------------- MODULE MCCronWaker -----------------------------
(* Instances of CronWaker for TLC. *)
EXTENDS CronPromises, TLC

Symmetry == Permutations(Requests) \cup Permutations(Handlers) \cup Permutations(Sandboxes)
=============================================================================
