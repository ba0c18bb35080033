------------------------------ MODULE Mailbox ------------------------------
(***************************************************************************)
(* What a channel promises: messages are handled at least once and, for    *)
(* every sender and address, for the first time in the order in which they *)
(* were sent.  Messages may be given up, and a mailbox may be readdressed, *)
(* which ends the promise of order for what is in it.                      *)
(***************************************************************************)
EXTENDS Naturals, Sequences

CONSTANTS Node, Address

VARIABLES
    sent,     \* the addresses of the messages of a node, in order
    handled,  \* messages that were handled at least once
    excused   \* messages that were given up or readdressed

vars == <<sent, handled, excused>>

IsSent(m) == m.num \in 1..Len(sent[m.from])

Init == sent = [n \in Node |-> <<>>] /\ handled = {} /\ excused = {}

Send(n) ==
    /\ \E a \in Address : sent' = [sent EXCEPT ![n] = Append(@, a)]
    /\ UNCHANGED handled
    /\ excused' \subseteq excused \cup {[from |-> n, num |-> Len(sent[n]) + 1]}
    /\ excused \subseteq excused'

\* A message that may be handled together with the messages of new.
InOrder(m, new) ==
    \A j \in 1..m.num - 1 :
        sent[m.from][j] = sent[m.from][m.num] =>
            [from |-> m.from, num |-> j] \in handled \cup excused \cup new

Handle ==
    /\ handled \subseteq handled'
    /\ \A m \in handled' \ handled : IsSent(m) /\ InOrder(m, handled')
    /\ UNCHANGED <<sent, excused>>

Excuse ==
    /\ excused \subseteq excused'
    /\ \A m \in excused' \ excused : IsSent(m)
    /\ UNCHANGED <<sent, handled>>

Next == (\E n \in Node : Send(n)) \/ Handle \/ Excuse

Spec == Init /\ [][Next]_vars
=============================================================================
