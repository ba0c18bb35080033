------------------------- MODULE MC_ServerLifecycle -------------------------
(* Instances of ServerLifecycle for TLC. *)
EXTENDS ServerLifecycle, TLC

CONSTANTS p1, p2, t1, t2

TwoProcs == {p1, p2}
TwoTasks == {t1, t2}
Alike == Permutations(TwoProcs) \cup Permutations(TwoTasks)

\* Who acts.
Scheduled == {"schedule"}
Everybody == {"schedule", "action", "admin", "autoupdate", "update"}

\* What may happen.
Troubles == {"crash", "hang", "fail", "slow", "duty", "late"}
Visits == {"crash", "hang", "fail", "duty", "players"}
=============================================================================
