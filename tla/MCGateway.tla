------------------------------ MODULE MCGateway ------------------------------
(* Instances of the gateway for TLC. *)
EXTENDS GatewayPromises, TLC

Symmetry == Permutations(Requests) \cup Permutations(Handlers) \cup Permutations(Sandboxes)
=============================================================================
