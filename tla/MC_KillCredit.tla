--------------------------- MODULE MC_KillCredit ---------------------------
(* Instances of KillCredit for TLC. *)
EXTENDS KillCredit

Missing == {"missing"}
\* The same, and ships, structures and killers without a name shoot, too.
AnyKiller == {"missing", "ship", "nobody"}
\* A server for everybody, or one for each.
HomeOf ==
    IF Cardinality(Server) = 1 THEN [p \in Player |-> CHOOSE s \in Server : TRUE]
    ELSE CHOOSE home \in [Player -> Server] :
             \A p, q \in Player : home[p] = home[q] => p = q
=============================================================================
