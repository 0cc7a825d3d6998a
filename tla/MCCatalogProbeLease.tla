-------------------------- MODULE MCCatalogProbeLease --------------------------
(* Instances of CatalogProbeLease for TLC: process p1 runs two workers and    *)
(* each of the others one.                                                    *)
EXTENDS CatalogProbeLease, TLC

CONSTANTS w1, w2, w3, p1, p2

TwoProcesses == w1 :> p1 @@ w2 :> p1 @@ w3 :> p2
===============================================================================
