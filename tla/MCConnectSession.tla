---------------------------- MODULE MCConnectSession ----------------------------
(* Instances of ConnectSession for TLC. *)
EXTENDS ConnectSession, TLC

Symmetry == Permutations(Callers) \cup Permutations(Sessions) \cup Permutations(Providers)
            \cup Permutations(Names)
===============================================================================
