------------------------- MODULE MC_MasterElection -------------------------
(* Instances of MasterElection for TLC. *)
EXTENDS MasterElection, TLC

CONSTANTS n1, n2

TwoNodes == {n1, n2}
JustN1 == {n1}
JustN2 == {n2}
Nobody == {}

AllKinds == {"crash", "session", "pool", "slow"}
UpgradeKinds == {"upgrade", "crash"}
=============================================================================
