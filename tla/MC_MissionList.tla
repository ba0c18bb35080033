--------------------------- MODULE MC_MissionList ---------------------------
(* Instances of MissionList for TLC. *)
EXTENDS MissionList, TLC

CONSTANTS m1, m2, m3, t1, t2

ThreeMissions == {m1, m2, m3}
TwoTasks == {t1, t2}
Alike == Permutations(TwoTasks)

Orderly == {"delete", "unlink", "create", "move", "later"}
=============================================================================
