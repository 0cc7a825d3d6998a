---------------------------- MODULE MCProviderStore ----------------------------
(* Instances of ProviderStore for TLC. *)
EXTENDS ProviderStore, TLC

Symmetry == Permutations(Callers) \cup Permutations(Providers) \cup Permutations(Values)
===============================================================================
