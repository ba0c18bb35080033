------------------------------ MODULE MC_RpcBus ------------------------------
(* Instances of RpcBus for TLC. *)
EXTENDS RpcBus, TLC

CONSTANTS n1, n2, n3, c1, c2

ThreeNodes == {n1, n2, n3}
TwoCalls == {c1, c2}
Alike == Permutations(ThreeNodes) \cup Permutations(TwoCalls)

Troubles == {"twice", "switch", "restart", "slow", "unknown"}
=============================================================================
