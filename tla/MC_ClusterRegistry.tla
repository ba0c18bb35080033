------------------------- MODULE MC_ClusterRegistry -------------------------
(* Instances of ClusterRegistry for TLC. *)
EXTENDS ClusterRegistry, TLC

CONSTANT a1

OneAgent == {a1}

Deaths == {"crash", "stop", "master crash", "quick", "slow", "slow master"}
=============================================================================
