---------------------------- MODULE MC_EventQueue ----------------------------
(* Instances of EventQueue for TLC. *)
EXTENDS EventQueue, TLC

CONSTANTS n1, n2

TwoNames == {n1, n2}

Everything == {"bad register", "conflict", "auto", "fail", "unregister"}
=============================================================================
