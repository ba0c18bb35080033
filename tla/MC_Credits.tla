----------------------------- MODULE MC_Credits -----------------------------
(* Instances of Credits for TLC. *)
EXTENDS Credits, TLC

Nothing == {}
Rows == {None, 3}   \* a player who is new and one who has some points
Symmetry == Permutations(Player) \cup Permutations(Task)
=============================================================================
