---------------------------- MODULE MCAPIKeyConnect ----------------------------
(* Instances of APIKeyConnect for TLC. *)
EXTENDS APIKeyConnect, TLC

Symmetry == Permutations(Requests)
===============================================================================
