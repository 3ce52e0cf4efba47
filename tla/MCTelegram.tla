------------------------------ MODULE MCTelegram ------------------------------
(* Instances of Telegram for TLC.  Goroutines and tokens are interchangeable. *)
EXTENDS Telegram, TLC

Symmetry == Permutations(Calls) \cup Permutations(Tokens)
=============================================================================
