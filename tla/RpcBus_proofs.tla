---------------------------- MODULE RpcBus_proofs ----------------------------
(***************************************************************************)
(* Proofs about RpcBus, for any nodes, calls and number of faults: types,  *)
(* the listeners table, that it implements RemoteCall, and that a call is  *)
(* answered if nothing fails.                                              *)
(***************************************************************************)
EXTENDS RpcBus, TLAPS

\* What is set or sent as an answer was executed, and what is under way belongs
\* to a call that was made.
AnswersExecuted ==
    /\ \A c \in Call : future[c] \in Ending => future[c] \in did[c]
    /\ \A r \in rows : r.what \in Ending => r.what \in did[r.call]
    /\ \A r \in rows : pc[r.call] # "none"
    /\ \A t \in tasks : pc[t.call] # "none"

IInv == TypeOK /\ ListenersAreCalls /\ AnswersExecuted

Step ==
    \/ \E c \in Call : \E n \in Node : CallNode(c, n) \/ CallMaster(c, n)
    \/ \E c \in Call : CallSelf(c)
    \/ \E c \in Call : Wakes(c)
    \/ \E c \in Call : TimesOut(c)
    \/ \E n \in Node : \E r \in rows : HandleCall(n, r)
    \/ \E n \in Node : \E r \in rows : HandleAnswer(n, r)
    \/ \E n \in Node : Switch(n)
    \/ \E n \in Node : Restart(n)
    \/ \E t \in tasks : Ignore(t)
    \/ \E t \in tasks : \E what \in Ending : Execute(t, what)

LEMMA NextIsStep == Next => Step
BY SMTT(30) DEF Next, Step, Handles, Runs

LEMMA InitIInv == Init => IInv
BY RpcAssumption
DEF Init, IInv, TypeOK, ListenersAreCalls, AnswersExecuted, Ending, Ended

\* A call is made.
LEMMA BeginsIInv ==
    ASSUME IInv, NEW c \in Call, NEW n \in Node, CallNode(c, n) \/ CallMaster(c, n)
    PROVE  IInv'
<1> USE RpcAssumption
<1>1. TypeOK'
  BY DEF IInv, TypeOK, CallNode, CallMaster, Begins, Ended, Ending, Row, Reader, Task
<1>2. ListenersAreCalls'
  BY DEF IInv, TypeOK, ListenersAreCalls, CallNode, CallMaster, Begins, Ended, Ending
<1>3. AnswersExecuted'
  BY DEF IInv, TypeOK, AnswersExecuted, CallNode, CallMaster, Begins, Ended, Ending, Row, Task
<1>. QED  BY <1>1, <1>2, <1>3 DEF IInv

LEMMA CallSelfIInv ==
    ASSUME IInv, NEW c \in Call, CallSelf(c)
    PROVE  IInv'
<1> USE RpcAssumption
<1>1. TypeOK'
  BY DEF IInv, TypeOK, CallSelf, Begins, Ended, Ending, Task
<1>2. ListenersAreCalls'
  BY DEF IInv, TypeOK, ListenersAreCalls, CallSelf, Begins, Ended, Ending
<1>3. AnswersExecuted'
  BY DEF IInv, TypeOK, AnswersExecuted, CallSelf, Begins, Ended, Ending, Row, Task
<1>. QED  BY <1>1, <1>2, <1>3 DEF IInv

\* A call ends.
LEMMA EndsIInv ==
    ASSUME IInv, NEW c \in Call, Wakes(c) \/ TimesOut(c)
    PROVE  IInv'
<1> USE RpcAssumption
<1>0. PICK how \in Ended : Ends(c, how) /\ faults' \in 0..MaxFaults
  BY DEF IInv, TypeOK, Wakes, TimesOut, Fault, Ended, Ending
<1>1. TypeOK'
  BY <1>0 DEF IInv, TypeOK, Ends, Ended, Ending
<1>2. ListenersAreCalls'
  BY <1>0 DEF IInv, TypeOK, ListenersAreCalls, Ends, Ended, Ending
<1>3. AnswersExecuted'
  BY <1>0 DEF IInv, TypeOK, AnswersExecuted, Ends, Ended, Ending, Row, Task
<1>. QED  BY <1>1, <1>2, <1>3 DEF IInv

\* A row is read.
LEMMA TakenRows ==
    ASSUME TypeOK, NEW r \in rows, Taken(r)
    PROVE  rows' \subseteq rows /\ faults' \in 0..MaxFaults
BY RpcAssumption DEF TypeOK, Taken, Fault

LEMMA HandleCallIInv ==
    ASSUME IInv, NEW n \in Node, NEW r \in rows, HandleCall(n, r)
    PROVE  IInv'
<1>0. rows' \subseteq rows /\ faults' \in 0..MaxFaults
  BY TakenRows DEF IInv, HandleCall
<1>1. TypeOK'
  BY <1>0 DEF IInv, TypeOK, HandleCall, Row, Task, Reader
<1>2. ListenersAreCalls'
  BY DEF IInv, ListenersAreCalls, HandleCall
<1>3. AnswersExecuted'
  BY <1>0 DEF IInv, TypeOK, AnswersExecuted, HandleCall, Row, Task
<1>. QED  BY <1>1, <1>2, <1>3 DEF IInv

\* An answer sets the future of its own call only, if that call waits.
LEMMA AnsweredFuture ==
    ASSUME IInv, NEW n, NEW c \in Call, NEW what \in Ending, Answered(n, c, what)
    PROVE  /\ future' \in [Call -> {None, "pending"} \cup Ending]
           /\ \A d \in Call : \/ future'[d] = future[d]
                              \/ d = c /\ future[d] = "pending" /\ future'[d] = what
           /\ \A d \in Call : future'[d] # None <=> future[d] # None
BY RpcAssumption DEF IInv, TypeOK, Answered, Listening, Ending

LEMMA HandleAnswerIInv ==
    ASSUME IInv, NEW n \in Node, NEW r \in rows, HandleAnswer(n, r)
    PROVE  IInv'
<1>0. rows' \subseteq rows /\ faults' \in 0..MaxFaults
  BY TakenRows DEF IInv, HandleAnswer
<1>1. r.call \in Call /\ r.what \in Ending /\ r.what \in did[r.call]
  BY DEF IInv, TypeOK, HandleAnswer, Row, AnswersExecuted
<1>2. /\ future' \in [Call -> {None, "pending"} \cup Ending]
      /\ \A d \in Call : \/ future'[d] = future[d]
                         \/ d = r.call /\ future[d] = "pending" /\ future'[d] = r.what
      /\ \A d \in Call : future'[d] # None <=> future[d] # None
  BY <1>1, AnsweredFuture DEF HandleAnswer
<1>3. TypeOK'
  BY <1>0, <1>2 DEF IInv, TypeOK, HandleAnswer
<1>4. ListenersAreCalls'
  BY <1>2 DEF IInv, ListenersAreCalls, HandleAnswer
<1>5. AnswersExecuted'
  BY <1>0, <1>1, <1>2 DEF IInv, TypeOK, AnswersExecuted, HandleAnswer, Row
<1>. QED  BY <1>3, <1>4, <1>5 DEF IInv

\* An execution ends.
LEMMA ExecuteIInv ==
    ASSUME IInv, NEW t \in tasks, NEW what \in Ending, Execute(t, what)
    PROVE  IInv'
<1> USE RpcAssumption
<1>1. t.call \in Call /\ t.on \in Node /\ t.from \in Node \cup {None}
  BY DEF IInv, TypeOK, Task
<1>2. /\ did' \in [Call -> SUBSET Ending]
      /\ \A c \in Call : did[c] \subseteq did'[c]
      /\ what \in did'[t.call]
  BY <1>1 DEF IInv, TypeOK, Execute
<1>3. /\ future' \in [Call -> {None, "pending"} \cup Ending]
      /\ \A d \in Call : \/ future'[d] = future[d]
                         \/ d = t.call /\ future'[d] = what
      /\ \A d \in Call : future'[d] # None <=> future[d] # None
  <2>1. CASE t.on = master /\ t.from \in {None, master}
    BY <1>1, <2>1, AnsweredFuture DEF Execute, Reply
  <2>2. CASE ~(t.on = master /\ t.from \in {None, master})
    BY <2>2 DEF IInv, TypeOK, Execute, Reply
  <2>. QED  BY <2>1, <2>2
<1>4. /\ rows' \subseteq Row
      /\ \A r \in rows' : r \in rows \/ (r.call = t.call /\ r.what = what)
  BY <1>1 DEF IInv, TypeOK, Execute, Reply, Row, Reader
<1>5. /\ pc' \in [Call -> {"none", "local", "waiting"} \cup Ended]
      /\ \A c \in Call : \/ pc'[c] = pc[c]
                         \/ pc[c] = "local" /\ pc'[c] = "waiting"
  BY <1>1 DEF IInv, TypeOK, Execute, Returned
<1>6. TypeOK'
  BY <1>2, <1>3, <1>4, <1>5 DEF IInv, TypeOK, Execute
<1>7. ListenersAreCalls'
  BY <1>3, <1>5 DEF IInv, ListenersAreCalls
<1>8. AnswersExecuted'
  <2>1. \A c \in Call : future'[c] \in Ending => future'[c] \in did'[c]
    BY <1>2, <1>3 DEF IInv, AnswersExecuted
  <2>2. \A r \in rows' : r.what \in Ending => r.what \in did'[r.call]
    BY <1>1, <1>2, <1>4 DEF IInv, TypeOK, AnswersExecuted, Row
  <2>3. \A r \in rows' : pc'[r.call] # "none"
    BY <1>1, <1>4, <1>5 DEF IInv, TypeOK, AnswersExecuted, Row
  <2>4. \A u \in tasks' : pc'[u.call] # "none"
    BY <1>5 DEF IInv, TypeOK, AnswersExecuted, Task, Execute
  <2>. QED  BY <2>1, <2>2, <2>3, <2>4 DEF AnswersExecuted
<1>. QED  BY <1>6, <1>7, <1>8 DEF IInv

LEMMA IgnoreIInv ==
    ASSUME IInv, NEW t \in tasks, Ignore(t)
    PROVE  IInv'
<1> USE RpcAssumption
<1>1. t.call \in Call
  BY DEF IInv, TypeOK, Task
<1>2. /\ pc' \in [Call -> {"none", "local", "waiting"} \cup Ended]
      /\ \A c \in Call : \/ pc'[c] = pc[c]
                         \/ pc[c] = "local" /\ pc'[c] = "waiting"
  BY <1>1 DEF IInv, TypeOK, Ignore, Returned
<1>3. TypeOK'
  BY <1>2 DEF IInv, TypeOK, Ignore, Fault
<1>4. ListenersAreCalls'
  BY <1>2 DEF IInv, ListenersAreCalls, Ignore
<1>5. AnswersExecuted'
  BY <1>2 DEF IInv, TypeOK, AnswersExecuted, Ignore, Row, Task
<1>. QED  BY <1>3, <1>4, <1>5 DEF IInv

LEMMA SwitchIInv ==
    ASSUME IInv, NEW n \in Node, Switch(n)
    PROVE  IInv'
<1>1. TypeOK'
  BY RpcAssumption DEF IInv, TypeOK, Switch, Fault
<1>2. ListenersAreCalls' /\ AnswersExecuted'
  BY DEF IInv, ListenersAreCalls, AnswersExecuted, Switch
<1>. QED  BY <1>1, <1>2 DEF IInv

LEMMA RestartIInv ==
    ASSUME IInv, NEW n \in Node, Restart(n)
    PROVE  IInv'
<1> USE RpcAssumption
<1>1. /\ rows' \subseteq Row
      /\ \A r \in rows' : \E q \in rows : r.call = q.call /\ r.what = q.what
  BY DEF IInv, TypeOK, Restart, Row, Reader
<1>2. tasks' \subseteq tasks
  BY DEF Restart
<1>3. \A c \in Call : pc'[c] # pc[c] => pc[c] \in {"local", "waiting"} /\ pc'[c] = "gone"
  BY DEF IInv, TypeOK, Restart
<1>4. TypeOK'
  BY <1>1, <1>2 DEF IInv, TypeOK, Restart, Fault, Ended
<1>5. ListenersAreCalls'
  BY DEF IInv, TypeOK, ListenersAreCalls, Restart, Ended, Ending
<1>6. AnswersExecuted'
  <2>1. \A c \in Call : future'[c] \in Ending => future'[c] \in did'[c]
    BY DEF IInv, TypeOK, AnswersExecuted, Restart, Ending
  <2>2. \A r \in rows' : r.what \in Ending => r.what \in did'[r.call]
    BY <1>1 DEF IInv, AnswersExecuted, Restart
  <2>3. \A r \in rows' : pc'[r.call] # "none"
    BY <1>1, <1>3 DEF IInv, TypeOK, AnswersExecuted, Row
  <2>4. \A u \in tasks' : pc'[u.call] # "none"
    BY <1>2, <1>3 DEF IInv, TypeOK, AnswersExecuted, Task
  <2>. QED  BY <2>1, <2>2, <2>3, <2>4 DEF AnswersExecuted
<1>. QED  BY <1>4, <1>5, <1>6 DEF IInv

LEMMA NextIInv == IInv /\ [Next]_vars => IInv'
<1> SUFFICES ASSUME IInv, [Next]_vars PROVE IInv'
  OBVIOUS
<1>1. CASE UNCHANGED vars
  BY <1>1 DEF vars, IInv, TypeOK, ListenersAreCalls, AnswersExecuted
<1>2. CASE Step
  BY <1>2, BeginsIInv, CallSelfIInv, EndsIInv, HandleCallIInv, HandleAnswerIInv,
     SwitchIInv, RestartIInv, IgnoreIInv, ExecuteIInv DEF Step
<1>. QED  BY <1>1, <1>2, NextIsStep

LEMMA Invariant == Spec => []IInv
<1>1. Init => IInv  BY InitIInv
<1>2. IInv /\ [Next]_vars => IInv'  BY NextIInv
<1>. QED  BY <1>1, <1>2, PTL DEF Spec

\* The variables keep their types.
THEOREM TypeCorrect == Spec => []TypeOK
<1>1. IInv => TypeOK  BY DEF IInv
<1>. QED  BY <1>1, Invariant, PTL

\* send_to_node_sync() leaves no listener behind and removes none too early.
THEOREM ListenersCorrect == Spec => []ListenersAreCalls
<1>1. IInv => ListenersAreCalls  BY DEF IInv
<1>. QED  BY <1>1, Invariant, PTL

-----------------------------------------------------------------------------
(* Refinement.                                                             *)

LEMMA InitRemote == Init => Remote!Init
BY DEF Init, Remote!Init, outcome

\* Steps of a caller.
LEMMA CallerRemote ==
    ASSUME IInv, NEW c \in Call, NEW n \in Node,
           CallNode(c, n) \/ CallMaster(c, n) \/ CallSelf(c)
    PROVE  Remote!Begin(c)
BY DEF IInv, TypeOK, CallNode, CallMaster, CallSelf, Begins, Remote!Begin, outcome, Ended, Ending

LEMMA OutcomeType ==
    ASSUME TypeOK
    PROVE  outcome \in [Call -> Remote!Outcome]
BY DEF TypeOK, outcome, Remote!Outcome, Ended, Ending

LEMMA EndsRemote ==
    ASSUME IInv, IInv', NEW c \in Call, Wakes(c) \/ TimesOut(c)
    PROVE  Remote!End
<1>1. PICK how \in did[c] \cup {"timeout"} : Ends(c, how)
  BY DEF IInv, AnswersExecuted, Wakes, TimesOut
<1>2. outcome' \in [Call -> Remote!Outcome]
  BY DEF IInv, TypeOK, outcome, Remote!Outcome, Ended, Ending
<1>3. pc[c] = "waiting"
  BY DEF Wakes, TimesOut
<1>4. how \in Ended
  BY DEF IInv, TypeOK, Ended
<1>5. outcome[c] = "pending" /\ outcome'[c] = how
  BY <1>1, <1>3, <1>4 DEF IInv, TypeOK, Ends, outcome, Ended, Ending
<1>6. \A d \in Call \ {c} : outcome'[d] = outcome[d]
  BY <1>1 DEF IInv, TypeOK, Ends, outcome
<1>. QED  BY <1>1, <1>2, <1>5, <1>6 DEF Remote!End, Ends

LEMMA RestartRemote ==
    ASSUME IInv, IInv', NEW n \in Node, Restart(n)
    PROVE  Remote!End
<1>1. outcome' \in [Call -> Remote!Outcome]
  BY DEF IInv, TypeOK, outcome, Remote!Outcome, Ended, Ending
<1>2. ASSUME NEW c \in Call
      PROVE  outcome'[c] = outcome[c] \/ (outcome[c] = "pending" /\ outcome'[c] = "gone")
  BY DEF IInv, TypeOK, Restart, outcome
<1>. QED  BY <1>1, <1>2 DEF Remote!End, Restart

\* Steps of a handler.
LEMMA ExecuteRemote ==
    ASSUME IInv, NEW t \in tasks, NEW what \in Ending, Execute(t, what)
    PROVE  Remote!Execute(t.call)
<1>1. t.call \in Call /\ pc[t.call] # "none"
  BY DEF IInv, TypeOK, Task, AnswersExecuted
<1>2. outcome[t.call] # "none"
  BY <1>1 DEF outcome
<1>3. outcome' = outcome
  BY <1>1 DEF IInv, TypeOK, Execute, Returned, outcome
<1>. QED  BY <1>2, <1>3 DEF Execute, Remote!Execute

LEMMA StutterRemote ==
    ASSUME IInv, UNCHANGED <<pc, did>>
    PROVE  UNCHANGED <<outcome, did>>
BY DEF outcome

LEMMA IgnoreRemote ==
    ASSUME IInv, NEW t \in tasks, Ignore(t)
    PROVE  UNCHANGED <<outcome, did>>
<1>1. t.call \in Call
  BY DEF IInv, TypeOK, Task
<1>. QED  BY <1>1 DEF IInv, TypeOK, Ignore, Returned, outcome

LEMMA NextRemote ==
    IInv /\ IInv' /\ [Next]_vars => [Remote!Next]_<<outcome, did>>
<1> SUFFICES ASSUME IInv, IInv', [Next]_vars
             PROVE  [Remote!Next]_<<outcome, did>>
  OBVIOUS
<1>1. CASE UNCHANGED vars
  BY <1>1, StutterRemote DEF vars
<1>2. CASE Step
  <2>1. ASSUME NEW c \in Call, NEW n \in Node, CallNode(c, n) \/ CallMaster(c, n)
        PROVE  Remote!Next
    BY <2>1, CallerRemote DEF Remote!Next
  <2>2. ASSUME NEW c \in Call, CallSelf(c)
        PROVE  Remote!Next
    <3>1. master \in Node  BY DEF IInv, TypeOK
    <3>. QED  BY <2>2, <3>1, CallerRemote DEF Remote!Next
  <2>3. ASSUME NEW c \in Call, Wakes(c) \/ TimesOut(c)
        PROVE  Remote!Next
    BY <2>3, EndsRemote DEF Remote!Next
  <2>4. ASSUME NEW n \in Node, NEW r \in rows, HandleCall(n, r) \/ HandleAnswer(n, r)
        PROVE  UNCHANGED <<outcome, did>>
    BY <2>4, StutterRemote DEF HandleCall, HandleAnswer
  <2>5. ASSUME NEW n \in Node, Switch(n)
        PROVE  UNCHANGED <<outcome, did>>
    BY <2>5, StutterRemote DEF Switch
  <2>6. ASSUME NEW n \in Node, Restart(n)
        PROVE  Remote!Next
    BY <2>6, RestartRemote DEF Remote!Next
  <2>7. ASSUME NEW t \in tasks, NEW what \in Ending, Execute(t, what)
        PROVE  Remote!Next
    <3>1. t.call \in Call  BY DEF IInv, TypeOK, Task
    <3>. QED  BY <2>7, <3>1, ExecuteRemote DEF Remote!Next
  <2>. QED
    BY <1>2, <2>1, <2>2, <2>3, <2>4, <2>5, <2>6, <2>7, IgnoreRemote DEF Step
<1>. QED  BY <1>1, <1>2, NextIsStep

\* A remote call ends with what one of its own executions ended with, a timeout
\* or the end of its node, for any number of nodes, calls and faults.
THEOREM CallsCorrect == Spec => RemoteCallSpec
<1>1. Init => Remote!Init  BY InitRemote
<1>2. IInv /\ IInv' /\ [Next]_vars => [Remote!Next]_<<outcome, did>>  BY NextRemote
<1>. QED  BY <1>1, <1>2, Invariant, PTL DEF Spec, RemoteCallSpec, Remote!Spec


-----------------------------------------------------------------------------
(* Answers come, as long as there was no fault.                            *)

\* A call of the master has no sender, and its answer goes to the master; the call of
\* an agent and its answer go to the master and back.
RowPlaced(r) ==
    LET agent == caller[r.call] IN
    /\ agent \in Node
    /\ IF agent = master THEN IF r.what = "call" THEN r.from = None ELSE r.to = "Master"
       ELSE IF r.what = "call" THEN r.to = "Master" /\ r.from = agent ELSE r.to = agent

TaskPlaced(t) ==
    LET agent == caller[t.call] IN
    /\ agent \in Node
    /\ IF agent = master THEN t.from = None ELSE t.on = master /\ t.from = agent

\* No call has ended without an answer, and one without an answer is under way.
AllGoesWell ==
    /\ \A c \in Call : pc[c] \notin {"timeout", "gone"}
    /\ \A c \in Call : future[c] = "pending" => UnderWay(c)
    /\ \A r \in rows : RowPlaced(r)
    /\ \A t \in tasks : TaskPlaced(t)

Faultless == faults = 0 => AllGoesWell

LEMMA FaultIsOne ==
    ASSUME TypeOK, NEW kind, Fault(kind)
    PROVE  faults' # 0
BY RpcAssumption DEF TypeOK, Fault

\* What a call of c adds; no row and no task is one of c before.
LEMMA BeginsWell ==
    ASSUME IInv, AllGoesWell, NEW c \in Call, NEW n \in Node,
           CallNode(c, n) \/ CallMaster(c, n) \/ CallSelf(c)
    PROVE  AllGoesWell'
<1> USE RpcAssumption
<1>1. /\ pc[c] = "none" /\ master' = master
      /\ \A r \in rows : r.call # c /\ r.call \in Call
      /\ \A t \in tasks : t.call # c /\ t.call \in Call
  BY DEF IInv, TypeOK, AnswersExecuted, CallNode, CallMaster, CallSelf, Begins, Row, Task
<1>2. /\ \A d \in Call \ {c} : pc'[d] = pc[d] /\ future'[d] = future[d] /\ caller'[d] = caller[d]
      /\ pc'[c] \in {"waiting", "local"} /\ rows \subseteq rows' /\ tasks \subseteq tasks'
  BY DEF IInv, TypeOK, CallNode, CallMaster, CallSelf, Begins
<1>3. \/ \E r : rows' = rows \cup {r} /\ tasks' = tasks /\ r.call = c /\ RowPlaced(r)'
      \/ \E t : tasks' = tasks \cup {t} /\ rows' = rows /\ t.call = c /\ TaskPlaced(t)'
  <2>1. CASE CallNode(c, n)
    <3> DEFINE r == [to |-> n, call |-> c, from |-> None, what |-> "call"]
    <3>1. rows' = rows \cup {r} /\ tasks' = tasks /\ caller'[c] = master' /\ master' \in Node
      BY <2>1 DEF IInv, TypeOK, CallNode, Begins
    <3>2. PICK x : x = r
      OBVIOUS
    <3>3. RowPlaced(x)' /\ x.call = c
      BY <3>1, <3>2 DEF RowPlaced
    <3> QED  BY <3>1, <3>2, <3>3
  <2>2. CASE CallMaster(c, n)
    <3> DEFINE r == [to |-> "Master", call |-> c, from |-> n, what |-> "call"]
    <3>1. rows' = rows \cup {r} /\ tasks' = tasks /\ caller'[c] = n /\ n # master'
      BY <2>2 DEF IInv, TypeOK, CallMaster, Begins
    <3>2. PICK x : x = r
      OBVIOUS
    <3>3. RowPlaced(x)' /\ x.call = c
      BY <3>1, <3>2 DEF RowPlaced
    <3> QED  BY <3>1, <3>2, <3>3
  <2>3. CASE CallSelf(c)
    <3> DEFINE t == [on |-> master, call |-> c, from |-> None]
    <3>1. tasks' = tasks \cup {t} /\ rows' = rows /\ caller'[c] = master' /\ master' \in Node
      BY <2>3 DEF IInv, TypeOK, CallSelf, Begins
    <3>2. PICK x : x = t
      OBVIOUS
    <3>3. TaskPlaced(x)' /\ x.call = c
      BY <3>1, <3>2 DEF TaskPlaced
    <3> QED  BY <3>1, <3>2, <3>3
  <2> QED  BY <2>1, <2>2, <2>3
<1>4. \A d \in Call : future'[d] = "pending" => UnderWay(d)'
  BY <1>2, <1>3 DEF AllGoesWell, UnderWay
<1>5. \A r \in rows' : RowPlaced(r)'
  BY <1>1, <1>2, <1>3 DEF AllGoesWell, RowPlaced
<1>6. \A t \in tasks' : TaskPlaced(t)'
  BY <1>1, <1>2, <1>3 DEF AllGoesWell, TaskPlaced
<1> QED  BY <1>2, <1>4, <1>5, <1>6 DEF AllGoesWell

LEMMA WakesWell ==
    ASSUME IInv, AllGoesWell, NEW c \in Call, Wakes(c)
    PROVE  AllGoesWell'
<1>1. /\ UNCHANGED <<master, caller, rows, tasks>> /\ pc'[c] \in Ending /\ future'[c] = None
      /\ \A d \in Call \ {c} : pc'[d] = pc[d] /\ future'[d] = future[d]
  BY DEF IInv, TypeOK, Wakes, Ends
<1> QED  BY <1>1, RpcAssumption DEF AllGoesWell, RowPlaced, TaskPlaced, UnderWay, Ending

\* A call that times out was not under way, or takes too long.
LEMMA TimesOutWell ==
    ASSUME IInv, AllGoesWell, NEW c \in Call, TimesOut(c)
    PROVE  faults' # 0
BY FaultIsOne DEF IInv, AllGoesWell, TimesOut

\* A row that is read is read by who it is for.
LEMMA HandleCallWell ==
    ASSUME IInv, AllGoesWell, NEW n \in Node, NEW r \in rows, HandleCall(n, r), faults' = 0
    PROVE  AllGoesWell'
<1> DEFINE t == [on |-> n, call |-> r.call, from |-> r.from]
<1>1. /\ rows' = rows \ {r} /\ tasks' = tasks \cup {t} /\ t.call = r.call
      /\ UNCHANGED <<master, caller, pc, future>>
  BY FaultIsOne DEF IInv, HandleCall, Taken
<1>2. TaskPlaced(t)
  BY RpcAssumption DEF AllGoesWell, RowPlaced, TaskPlaced, HandleCall, Reads
<1> HIDE DEF t
<1>3. \A c \in Call : UnderWay(c) => UnderWay(c)'
  BY <1>1 DEF UnderWay
<1> QED  BY <1>1, <1>2, <1>3 DEF AllGoesWell, RowPlaced, TaskPlaced

LEMMA HandleAnswerWell ==
    ASSUME IInv, AllGoesWell, NEW n \in Node, NEW r \in rows, HandleAnswer(n, r), faults' = 0
    PROVE  AllGoesWell'
<1>1. /\ rows' = rows \ {r} /\ UNCHANGED <<master, caller, pc, tasks>>
      /\ r.what \in Ending /\ r.call \in Call /\ Answered(n, r.call, r.what)
  BY FaultIsOne DEF IInv, TypeOK, HandleAnswer, Taken, Row
<1>2. caller[r.call] = n
  BY <1>1, RpcAssumption DEF AllGoesWell, RowPlaced, HandleAnswer, Reads, Ending
<1>3. /\ future'[r.call] # "pending"
      /\ \A c \in Call \ {r.call} : future'[c] = future[c]
  BY <1>1, <1>2, RpcAssumption DEF IInv, TypeOK, Answered, Listening, Ending
<1>4. \A c \in Call \ {r.call} : UnderWay(c) => UnderWay(c)'
  BY <1>1 DEF UnderWay
<1> QED  BY <1>1, <1>3, <1>4 DEF AllGoesWell, RowPlaced, TaskPlaced

\* The answer is on its way, or has reached its caller.
LEMMA ExecuteWell ==
    ASSUME IInv, AllGoesWell, NEW t \in tasks, NEW what \in Ending, Execute(t, what)
    PROVE  AllGoesWell'
<1> USE RpcAssumption
<1>1. /\ tasks' = tasks \ {t} /\ UNCHANGED <<master, caller>> /\ Reply(t, what)
      /\ t.call \in Call /\ t.on \in Node /\ TaskPlaced(t)
      /\ \A c \in Call : pc'[c] \in {pc[c], "waiting"}
  BY DEF IInv, TypeOK, Task, Execute, Returned, AllGoesWell
<1>2. CASE t.on = master /\ t.from \in {None, master}
  <2>1. caller[t.call] = master
    BY <1>1, <1>2 DEF TaskPlaced, IInv, TypeOK
  <2>2. rows' = rows /\ Answered(t.on, t.call, what)
    BY <1>1, <1>2 DEF Reply
  <2>3. /\ future'[t.call] # "pending"
        /\ \A c \in Call \ {t.call} : future'[c] = future[c]
    BY <1>1, <1>2, <2>1, <2>2 DEF IInv, TypeOK, Answered, Listening, Ending
  <2>4. \A c \in Call \ {t.call} : UnderWay(c) => UnderWay(c)'
    BY <1>1, <2>2 DEF UnderWay
  <2> QED  BY <1>1, <2>2, <2>3, <2>4 DEF AllGoesWell, RowPlaced, TaskPlaced
<1>3. CASE ~(t.on = master /\ t.from \in {None, master})
  <2> DEFINE r == [to |-> IF t.on = master THEN t.from ELSE "Master", call |-> t.call,
                   from |-> IF t.on = master THEN None ELSE t.on, what |-> what]
  <2>1. rows' = rows \cup {r} /\ UNCHANGED future
    BY <1>1, <1>3 DEF Reply
  <2>2. RowPlaced(r) /\ r.call = t.call
    BY <1>1, <1>3 DEF RowPlaced, TaskPlaced, Ending
  <2> HIDE DEF r
  <2>3. \A c \in Call : UnderWay(c) => UnderWay(c)'
    BY <1>1, <2>1, <2>2 DEF UnderWay
  <2> QED  BY <1>1, <2>1, <2>2, <2>3 DEF AllGoesWell, RowPlaced, TaskPlaced
<1> QED  BY <1>2, <1>3

LEMMA FaultlessStep == IInv /\ Faultless /\ [Next]_vars => Faultless'
<1> SUFFICES ASSUME IInv, Faultless, [Next]_vars, faults' = 0 PROVE AllGoesWell'
  BY DEF Faultless
<1>1. CASE UNCHANGED vars
  BY <1>1 DEF vars, Faultless, AllGoesWell, UnderWay, RowPlaced, TaskPlaced
<1>2. CASE Step
  <2>1. faults = 0
    BY <1>2, RpcAssumption DEF IInv, TypeOK, Step, CallNode, CallMaster, CallSelf, Begins, Wakes,
       TimesOut, HandleCall, HandleAnswer, Taken, Switch, Restart, Ignore, Execute, Fault
  <2>2. AllGoesWell
    BY <2>1 DEF Faultless
  <2>3. ~(\E n \in Node : Switch(n) \/ Restart(n)) /\ ~(\E t \in tasks : Ignore(t))
    BY FaultIsOne DEF IInv, Switch, Restart, Ignore
  <2>4. \A c \in Call : ~TimesOut(c)
    BY <2>2, TimesOutWell
  <2>5. ASSUME NEW c \in Call, CallSelf(c)
        PROVE  AllGoesWell'
    BY <2>2, <2>5, BeginsWell DEF IInv, TypeOK
  <2> QED
    BY <1>2, <2>2, <2>3, <2>4, <2>5, BeginsWell, WakesWell, HandleCallWell, HandleAnswerWell,
       ExecuteWell DEF Step
<1> QED  BY <1>1, <1>2, NextIsStep

\* Without a fault no call ends without its answer, for any number of nodes and calls.
THEOREM AnswersCome == Spec => []TimeoutNeedsFault
<1>1. Init => Faultless
  BY RpcAssumption DEF Init, Faultless, AllGoesWell
<1>2. IInv /\ Faultless /\ [Next]_vars => Faultless'
  BY FaultlessStep
<1>3. IInv /\ Faultless => TimeoutNeedsFault
  BY RpcAssumption DEF IInv, TypeOK, Faultless, AllGoesWell, TimeoutNeedsFault
<1> QED  BY <1>1, <1>2, <1>3, Invariant, PTL DEF Spec
=============================================================================
