----------------------------- MODULE MC_Voting -----------------------------
(* Instances of Voting for TLC. *)
EXTENDS Voting

CONSTANTS p1, p2, no, yes, other

TwoPlayers == {p1, p2}
ThreeOptions == {no, yes, other}
AllRules == {"majority", "supermajority", "absolute", "unanimous"}
Nothing == {}
=============================================================================
