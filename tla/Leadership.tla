----------------------------- MODULE Leadership -----------------------------
(***************************************************************************)
(* What the election promises to the rest of the bot: there is one office, *)
(* it is never passed on directly, and a node relies on being the master   *)
(* only while it is in office.                                             *)
(***************************************************************************)
CONSTANTS Node, None

VARIABLES
    owner,     \* the node in office, or None
    believers  \* the nodes that rely on being the master

vars == <<owner, believers>>

Init == owner = None /\ believers = {}

\* The vacant office is taken; nobody relies on it yet.
Elect(n) == owner = None /\ owner' = n /\ UNCHANGED believers

\* The node in office learns of its election.
Rely(n) == owner = n /\ believers' = {n} /\ UNCHANGED owner

\* A node stops to rely on its office, in this step or before it loses it.
StepBack ==
    /\ believers' = {}
    /\ owner' \in {owner, None}

Next == (\E n \in Node : Elect(n) \/ Rely(n)) \/ StepBack

Spec == Init /\ [][Next]_vars
=============================================================================
