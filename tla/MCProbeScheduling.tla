--------------------------- MODULE MCProbeScheduling ---------------------------
(* Instances of ProbeScheduling for TLC. *)
EXTENDS ProbeScheduling, TLC

Symmetry == Permutations(Tasks) \cup Permutations(Providers)
===============================================================================
