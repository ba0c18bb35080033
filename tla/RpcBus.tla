------------------------------- MODULE RpcBus -------------------------------
(***************************************************************************)
(* Remote calls of the service bus: send_to_node(), send_to_node_sync(),   *)
(* handle_rpc() and rpc() of services/servicebus/service.py, over the      *)
(* INTERCOM channel.  The channel delivers at least once and is modelled   *)
(* in PubSub; here it is the set of rows that wait for their reader, and a *)
(* row may be read twice.                                                  *)
(*                                                                         *)
(* The master calls any node, itself included; an agent calls the master.  *)
(* Each call has a token (a UUID), so a call is identified by its token.   *)
(* Handlers are tasks: the code between two awaits is one step.            *)
(***************************************************************************)
EXTENDS Naturals, FiniteSets

CONSTANTS
    Node,
    Call,        \* the calls (tokens)
    None,        \* Python's None
    May,         \* what may happen: "twice" (a row is read twice), "switch" (the
                 \* master changes), "restart", "slow", "unknown" (the object)
    MaxFaults    \* bound: how often

ASSUME RpcAssumption ==
    /\ None \notin Node /\ None \notin {"pending", "return", "exception"}
    /\ "Master" \notin Node
    /\ MaxFaults \in Nat

VARIABLES
    master,
    caller,      \* the node of a call
    pc,          \* the caller: "none", "local" (awaits handle_rpc() on the own
                 \* node), "waiting" (wait_for), or how the call has ended
    future,      \* listeners[token]: None, what it was set to, or "pending"
    rows,        \* INTERCOM
    tasks,       \* handle_rpc() under way
    did,         \* history: what the executions of a call ended with
    faults

vars == <<master, caller, pc, future, rows, tasks, did, faults>>

Ending == {"return", "exception"}
Reader == Node \cup {"Master"}
Row == [to : Reader, call : Call, from : Node \cup {None}, what : Ending \cup {"call"}]
Task == [on : Node, call : Call, from : Node \cup {None}]
Ended == Ending \cup {"timeout", "gone"}

TypeOK ==
    /\ master \in Node
    /\ caller \in [Call -> Node \cup {None}]
    /\ pc \in [Call -> {"none", "local", "waiting"} \cup Ended]
    /\ future \in [Call -> {None, "pending"} \cup Ending]
    /\ rows \subseteq Row /\ tasks \subseteq Task
    /\ did \in [Call -> SUBSET Ending]
    /\ faults \in 0..MaxFaults

Init ==
    /\ master \in Node
    /\ caller = [c \in Call |-> None]
    /\ pc = [c \in Call |-> "none"] /\ future = [c \in Call |-> None]
    /\ rows = {} /\ tasks = {}
    /\ did = [c \in Call |-> {}] /\ faults = 0

Fault(kind) == kind \in May /\ faults < MaxFaults /\ faults' = faults + 1

-----------------------------------------------------------------------------
(* The caller.                                                             *)

Begins(c, n) ==
    /\ pc[c] = "none"
    /\ caller' = [caller EXCEPT ![c] = n]
    /\ future' = [future EXCEPT ![c] = "pending"]
    /\ UNCHANGED <<master, did, faults>>

\* The master calls another node: the row has no sender.
CallNode(c, to) ==
    /\ to # master /\ Begins(c, master)
    /\ pc' = [pc EXCEPT ![c] = "waiting"]
    /\ rows' = rows \cup {[to |-> to, call |-> c, from |-> None, what |-> "call"]}
    /\ UNCHANGED tasks

\* The master calls itself: handle_rpc() is awaited before wait_for() begins.
CallSelf(c) ==
    /\ Begins(c, master)
    /\ pc' = [pc EXCEPT ![c] = "local"]
    /\ tasks' = tasks \cup {[on |-> master, call |-> c, from |-> None]}
    /\ UNCHANGED rows

\* An agent calls whoever is the master.
CallMaster(c, n) ==
    /\ n # master /\ Begins(c, n)
    /\ pc' = [pc EXCEPT ![c] = "waiting"]
    /\ rows' = rows \cup {[to |-> "Master", call |-> c, from |-> n, what |-> "call"]}
    /\ UNCHANGED tasks

\* The call ends: finally, the listener is removed.
Ends(c, how) ==
    /\ pc' = [pc EXCEPT ![c] = how]
    /\ future' = [future EXCEPT ![c] = None]
    /\ UNCHANGED <<master, caller, rows, tasks, did>>

\* The future has been set.
Wakes(c) ==
    /\ pc[c] = "waiting" /\ future[c] \in Ending
    /\ Ends(c, future[c])
    /\ UNCHANGED faults

UnderWay(c) == (\E r \in rows : r.call = c) \/ (\E t \in tasks : t.call = c)

\* (Variant: the listener is not removed after a timeout.)
TimesOut_KeepsListener(c) ==
    /\ pc[c] = "waiting" /\ future[c] = "pending"
    /\ IF UnderWay(c) THEN Fault("slow") ELSE UNCHANGED faults
    /\ pc' = [pc EXCEPT ![c] = "timeout"]
    /\ UNCHANGED <<master, caller, future, rows, tasks, did>>

\* wait_for() gives up: nothing is under way any more, or it takes too long.
TimesOut(c) ==
    /\ pc[c] = "waiting" /\ future[c] = "pending"
    /\ IF UnderWay(c) THEN Fault("slow") ELSE UNCHANGED faults
    /\ Ends(c, "timeout")

-----------------------------------------------------------------------------
(* handle_rpc().                                                           *)

Reads(n, r) == r \in rows /\ (r.to = n \/ (r.to = "Master" /\ n = master))

\* A row is deleted once it has been read, or is read a second time.
Taken(r) ==
    \/ rows' = rows \ {r} /\ UNCHANGED faults
    \/ UNCHANGED rows /\ Fault("twice")

\* A call starts a task.
HandleCall(n, r) ==
    /\ Reads(n, r) /\ r.what = "call"
    /\ Taken(r)
    /\ tasks' = tasks \cup {[on |-> n, call |-> r.call, from |-> r.from]}
    /\ UNCHANGED <<master, caller, pc, future, did>>

Listening(n, c) == caller[c] = n /\ future[c] # None

\* (Variant: whatever answer comes sets the future of the oldest call.)
Answered_AnyCall(n, c, what) ==
    LET open == {d \in Call : Listening(n, d) /\ future[d] = "pending"} IN
    future' = IF open # {} THEN [future EXCEPT ![CHOOSE d \in open : TRUE] = what]
              ELSE future

\* An answer sets the future of its call, if its caller is here and waits.
Answered(n, c, what) ==
    future' = IF Listening(n, c) /\ future[c] = "pending"
              THEN [future EXCEPT ![c] = what] ELSE future

HandleAnswer(n, r) ==
    /\ Reads(n, r) /\ r.what \in Ending
    /\ Taken(r)
    /\ Answered(n, r.call, r.what)
    /\ UNCHANGED <<master, caller, pc, tasks, did>>

\* handle_rpc() of a local call has returned: wait_for() begins.
Returned(t) ==
    pc' = IF pc[t.call] = "local" THEN [pc EXCEPT ![t.call] = "waiting"] ELSE pc

\* (Variant: the master keeps its answers.)
Reply_NoNode(t, what) ==
    IF t.on = master
    THEN Answered(t.on, t.call, what) /\ rows' = rows
    ELSE /\ rows' = rows \cup {[to |-> "Master", call |-> t.call, from |-> t.on, what |-> what]}
         /\ UNCHANGED future

\* send_to_node() with the answer: to the node that called if this is the master
\* now, otherwise to the master.
Reply(t, what) ==
    IF t.on = master /\ t.from \in {None, master}
    THEN Answered(t.on, t.call, what) /\ rows' = rows
    ELSE /\ rows' = rows \cup {[to |-> IF t.on = master THEN t.from ELSE "Master",
                                call |-> t.call,
                                from |-> IF t.on = master THEN None ELSE t.on,
                                what |-> what]}
         /\ UNCHANGED future

\* The method has been executed; the result or the exception is sent back.
Execute(t, what) ==
    /\ t \in tasks
    /\ tasks' = tasks \ {t}
    /\ did' = [did EXCEPT ![t.call] = @ \cup {what}]
    /\ Reply(t, what) /\ Returned(t)
    /\ UNCHANGED <<master, caller, faults>>

\* The object or service is unknown here: there is no answer.
Ignore(t) ==
    /\ t \in tasks /\ Fault("unknown")
    /\ tasks' = tasks \ {t}
    /\ Returned(t)
    /\ UNCHANGED <<master, caller, future, rows, did>>

-----------------------------------------------------------------------------
\* The master changes: the calls and tasks of the nodes go on.
Switch(n) ==
    /\ n # master /\ Fault("switch")
    /\ master' = n
    /\ UNCHANGED <<caller, pc, future, rows, tasks, did>>

\* A node starts again: its calls and tasks are gone; an agent drops the rows
\* it has not read, a master reads its own as "Master".
Restart(n) ==
    /\ Fault("restart")
    /\ pc' = [c \in Call |-> IF caller[c] = n /\ pc[c] \in {"local", "waiting"}
                             THEN "gone" ELSE pc[c]]
    /\ future' = [c \in Call |-> IF caller[c] = n THEN None ELSE future[c]]
    /\ tasks' = {t \in tasks : t.on # n}
    /\ rows' = IF n = master
               THEN {[r EXCEPT !.to = IF @ = n THEN "Master" ELSE @] : r \in rows}
               ELSE {r \in rows : r.to # n}
    /\ UNCHANGED <<master, caller, did>>

Handles(n) == \E r \in rows : HandleCall(n, r) \/ HandleAnswer(n, r)
Runs == \E t \in tasks : Ignore(t) \/ \E what \in Ending : Execute(t, what)

Next ==
    \/ \E c \in Call : \/ \E n \in Node : CallNode(c, n) \/ CallMaster(c, n)
                       \/ CallSelf(c) \/ Wakes(c) \/ TimesOut(c)
    \/ \E n \in Node : Handles(n) \/ Switch(n) \/ Restart(n)
    \/ Runs

Spec == Init /\ [][Next]_vars

-----------------------------------------------------------------------------
(* Properties.                                                             *)

\* Without a fault, every call is answered: a timeout, or a call that ended with
\* its node, needs a change of the master, a restart, a slow handler or an
\* object nobody knows.
TimeoutNeedsFault == \A c \in Call : pc[c] \in {"timeout", "gone"} => faults > 0

\* listeners has an entry for the calls that wait, and for no other.
ListenersAreCalls ==
    \A c \in Call : future[c] # None <=> pc[c] \in {"local", "waiting"}

\* How a call stands for its caller.
outcome ==
    [c \in Call |-> IF pc[c] \in {"local", "waiting"} THEN "pending" ELSE pc[c]]

Remote == INSTANCE RemoteCall

\* A call ends with what one of its own executions ended with, or without an
\* answer; a late answer does not reach another call.
RemoteCallSpec == Remote!Spec
=============================================================================
