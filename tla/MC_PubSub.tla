----------------------------- MODULE MC_PubSub -----------------------------
(* Instances of PubSub for TLC. *)
EXTENDS PubSub

CONSTANTS n1, n2

TwoNodes == {n1, n2}

\* The nodes are interchangeable: it does not matter which is the first master.
FirstIsMaster == Init /\ role[n1]
FirstSpec == FirstIsMaster /\ [][Next]_vars /\ Fairness
=============================================================================
