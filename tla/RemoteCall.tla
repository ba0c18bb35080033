----------------------------- MODULE RemoteCall -----------------------------
(***************************************************************************)
(* What send_to_node_sync() promises its caller: the call ends once, with  *)
(* the result or the exception of an execution of this very call, or with  *)
(* a timeout, which says nothing about whether the call was executed.      *)
(* It does not promise that a call is executed once only.                  *)
(***************************************************************************)
EXTENDS Naturals

CONSTANTS Call, Ending   \* Ending: what an execution ends with

VARIABLES
    outcome,   \* how the call stands for its caller
    did        \* what the executions of the call ended with

Outcome == {"none", "pending", "timeout", "gone"} \cup Ending

Init ==
    /\ outcome = [c \in Call |-> "none"]
    /\ did = [c \in Call |-> {}]

Begin(c) ==
    /\ outcome[c] = "none"
    /\ outcome' = [outcome EXCEPT ![c] = "pending"]
    /\ UNCHANGED did

\* Executed while the caller waits or after it has given up.
Execute(c) ==
    /\ outcome[c] # "none"
    /\ \E e \in Ending : did' = [did EXCEPT ![c] = @ \cup {e}]
    /\ UNCHANGED outcome

\* Calls end: one, or all those of a node.
End ==
    /\ outcome' \in [Call -> Outcome]
    /\ \A c \in Call :
         \/ outcome'[c] = outcome[c]
         \/ outcome[c] = "pending" /\ outcome'[c] \in did[c] \cup {"timeout", "gone"}
    /\ UNCHANGED did

Next == (\E c \in Call : Begin(c) \/ Execute(c)) \/ End

Spec == Init /\ [][Next]_<<outcome, did>>
=============================================================================
