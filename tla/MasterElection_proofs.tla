----------------------- MODULE MasterElection_proofs -----------------------
(***************************************************************************)
(* Proofs about MasterElection, for any set of nodes and any configuration.*)
(* The inductive invariant says where a beat may stand when its node has   *)
(* the advisory lock: that is what makes the claim of a settled node true. *)
(***************************************************************************)
EXTENDS MasterElection, TLAPS

\* The re-entrancy count of the lock is zero exactly when nobody holds it.
LockCounted == lock.holder = None <=> lock.count = 0

\* A beat that is about to write CLUSTER or to return True has the lock.
BeatHoldsLock == \A n \in Node : pc[n] \in {"grant", "claim", "endTrue"} => Holds(n)

\* A node that is down is between two beats.
DownIsIdle == \A n \in Node : phase[n] = "down" => pc[n] = "idle"

LockInv == LockCounted /\ BeatHoldsLock /\ DownIsIdle /\ ClaimNeedsLock
IInv == TypeOK /\ LockInv

LockType == [holder : Node \cup {None, Ghost}, count : 0..MaxDepth]
HaltType == [Node -> {"no", "restart", "update"}]

\* What the nodes write to CLUSTER is a row again.
LEMMA RowPending ==
    ASSUME row \in Row, NEW n \in Node, NEW b \in BOOLEAN, NEW v \in Version
    PROVE  /\ [row EXCEPT !.pending = b] \in Row
           /\ [row EXCEPT !.pending = b, !.version = v] \in Row
           /\ [row EXCEPT !.version = v, !.pending = b] \in Row
           /\ [row EXCEPT !.by = n] \in Row
           /\ [master |-> n, by |-> n, version |-> v, pending |-> b] \in Row
  BY DEF Row

\* _upgrade() writes a row and a return code.
LEMMA UpgradeTypes ==
    ASSUME TypeOK, NEW n \in Node, NEW asMaster, Upgrade(n, asMaster)
    PROVE  row' \in Row /\ halt' \in HaltType
<1>1. version[n] \in Version /\ row \in Row /\ halt \in HaltType
  BY DEF TypeOK, HaltType
<1>2. halt' \in HaltType
  BY <1>1 DEF Upgrade, HaltType
<1>3. row' \in {row, [row EXCEPT !.pending = TRUE],
                [row EXCEPT !.pending = FALSE, !.version = version[n]]}
  BY Zenon DEF Upgrade, Updated
<1> QED  BY <1>1, <1>2, <1>3, RowPending

\* What the end of a beat makes of the claims.
LEMMA ClaimAtEnd ==
    ASSUME claimed \in [Node -> BOOLEAN], NEW n \in Node, HbEnd(n)
    PROVE  /\ claimed'[n] <=> pc[n] \in {"endTrue", "noTables"}
           /\ \A m \in Node : m # n => claimed'[m] = claimed[m]
<1>1. claimed' = [claimed EXCEPT ![n] = Result(n)]
  BY DEF HbEnd
<1>2. claimed'[n] = Result(n) /\ \A m \in Node : m # n => claimed'[m] = claimed[m]
  BY <1>1, Zenon
<1> QED  BY <1>2, Zenon DEF Result

\* The master branch of a beat keeps the types.
LEMMA OwnTypes ==
    ASSUME TypeOK, NEW n \in Node, HbOwn(n)
    PROVE  /\ row' \in Row /\ halt' \in HaltType
           /\ lock' \in LockType /\ pc' \in [Node -> PC]
<1>0. \E label \in {"own", "endTrue", "endFalse"} : Goto(n, label)
  BY DEF HbOwn
<1>1. pc' \in [Node -> PC]
  BY <1>0 DEF TypeOK, PC, Goto
<1>2. lock' = lock \/ Acquire(n)
  BY Zenon DEF HbOwn, Goto
<1>3. lock' \in LockType
  BY <1>2, ConfigAssumption DEF TypeOK, LockType, Acquire
<1>4. UNCHANGED <<row, halt>> \/ Upgrade(n, TRUE)
  BY Zenon DEF HbOwn, Goto
<1>5. row' \in Row /\ halt' \in HaltType
  BY <1>4, UpgradeTypes DEF TypeOK, HaltType
<1> QED  BY <1>1, <1>3, <1>5

\* The agent branch of a beat keeps the types.
LEMMA AgentTypes ==
    ASSUME TypeOK, LockCounted, NEW n \in Node, HbAgent(n)
    PROVE  /\ row' \in Row /\ halt' \in HaltType
           /\ lock' \in LockType /\ pc' \in [Node -> PC] /\ seen' \in [Node -> 0..2]
<1>1. pc' \in [Node -> PC]
  <2>1. \E label \in {"endFalse", "wait", "try"} : Goto(n, label)
    BY DEF HbAgent
  <2> QED  BY <2>1 DEF TypeOK, PC, Goto
<1>2. Release(n)
  BY DEF HbAgent
<1>3. lock' \in LockType
  BY <1>2, ConfigAssumption DEF TypeOK, LockType, Release, Free, Holds, LockCounted
<1>4. \/ UNCHANGED halt /\ row' \in {row, [row EXCEPT !.by = n],
             [master |-> n, by |-> n, version |-> version[n], pending |-> FALSE]}
      \/ Upgrade(n, FALSE)
  BY DEF HbAgent
<1>5. row' \in Row /\ halt' \in HaltType
  <2>1. CASE Upgrade(n, FALSE)
    BY <2>1, UpgradeTypes
  <2>2. CASE UNCHANGED halt /\ row' \in {row, [row EXCEPT !.by = n],
             [master |-> n, by |-> n, version |-> version[n], pending |-> FALSE]}
    <3>1. row \in Row /\ halt \in HaltType /\ version[n] \in Version
      BY DEF TypeOK, HaltType
    <3> QED  BY <2>2, <3>1, RowPending
  <2> QED  BY <1>4, <2>1, <2>2
<1>6. seen' \in [Node -> 0..2]
  BY DEF HbAgent, TypeOK
<1> QED  BY <1>1, <1>3, <1>5, <1>6

\* The end of a beat keeps the types.
LEMMA EndTypes ==
    ASSUME TypeOK, NEW n \in Node, HbEnd(n)
    PROVE  /\ phase' \in [Node -> {"down", "starting", "running"}]
           /\ services' \in [Node -> {"master", "agent"}] /\ seen' \in [Node -> 0..2]
           /\ claimed' \in [Node -> BOOLEAN] /\ master' \in [Node -> BOOLEAN]
<1>1. /\ phase' \in [Node -> {"down", "starting", "running"}]
      /\ services' \in [Node -> {"master", "agent"}] /\ seen' \in [Node -> 0..2]
  BY DEF HbEnd, TypeOK
<1>2. claimed' \in [Node -> BOOLEAN] /\ master' \in [Node -> BOOLEAN]
  <2>1. Result(n) \in BOOLEAN /\ (Result(n) /\ halt[n] = "no") \in BOOLEAN
    BY DEF Result
  <2>2. claimed' = [claimed EXCEPT ![n] = Result(n)]
    BY DEF HbEnd
  <2>3. master' = master \/ master' = [master EXCEPT ![n] = Result(n) /\ halt[n] = "no"]
    BY DEF HbEnd
  <2>4. claimed \in [Node -> BOOLEAN] /\ master \in [Node -> BOOLEAN]
    BY DEF TypeOK
  <2> QED  BY <2>1, <2>2, <2>3, <2>4, Zenon
<1> QED  BY <1>1, <1>2

\* A beat that gets no connection from the pool keeps the types.
LEMMA PoolTypes ==
    ASSUME TypeOK, NEW n \in Node, PoolTimeout(n)
    PROVE  /\ halt' \in HaltType /\ slow' \in [Node -> BOOLEAN]
           /\ conn' \in [Node -> {"open", "lost"}]
<1>1. halt' \in HaltType
  <2>1. halt' = halt \/ halt' = [halt EXCEPT ![n] = "restart"]
    BY DEF PoolTimeout
  <2> QED  BY <2>1 DEF TypeOK, HaltType
<1>2. slow' \in [Node -> BOOLEAN]
  <2>1. slow' = slow \/ slow' = [slow EXCEPT ![n] = TRUE]
    BY DEF PoolTimeout
  <2>2. slow \in [Node -> BOOLEAN]
    BY DEF TypeOK
  <2> QED  BY <2>1, <2>2
<1>3. conn' \in [Node -> {"open", "lost"}]
  <2>1. conn' = [conn EXCEPT ![n] = "open"]
    BY DEF PoolTimeout
  <2> QED  BY <2>1 DEF TypeOK
<1> QED  BY <1>1, <1>2, <1>3

\* A step keeps the types: what it writes has the type of what it replaces.
LEMMA TypeOKStep ==
    ASSUME IInv, [Next]_vars
    PROVE  TypeOK'
<1> USE ConfigAssumption DEF IInv, LockInv, TypeOK, LockCounted, Holds, dbVars, beatVars, procVars, roleVars, At, Goto,
            Version, Row, NoRow, PC
<1>1. ASSUME NEW n \in Node, Beat(n)
      PROVE  TypeOK'
  <2>0. CASE HbNoTables(n)
    BY <2>0 DEF HbNoTables
  <2>1. CASE HbRead(n)
    BY <2>1 DEF HbRead, NoOutdatedBeat
  <2>2. CASE HbUpgradeSelf(n)
    <3>1. lock' \in [holder : Node \cup {None, Ghost}, count : 0..MaxDepth]
      BY <2>2 DEF HbUpgradeSelf, Acquire
    <3>2. pc' \in [Node -> PC]
      <4>1. Goto(n, "grant") \/ Goto(n, "endFalse")
        BY <2>2 DEF HbUpgradeSelf
      <4>2. PICK label \in PC : pc' = [pc EXCEPT ![n] = label]
        BY <4>1
      <4>3. pc \in [Node -> PC]
        OBVIOUS
      <4> HIDE DEF IInv, LockInv, TypeOK, PC
      <4> QED  BY <4>2, <4>3
    <3> QED  BY <2>2, <3>1, <3>2 DEF HbUpgradeSelf
  <2>3. CASE HbGrant(n)
    BY <2>3 DEF HbGrant, Updated
  <2>4. CASE HbUpgradeOther(n)
    <3>1. row' \in {row, [row EXCEPT !.pending = FALSE]}
      BY <2>4, Zenon DEF HbUpgradeOther, Updated
    <3>2. row' \in Row
      <4>1. version[n] \in Version /\ row \in Row
        OBVIOUS
      <4> HIDE DEF IInv, LockInv, TypeOK, Row, Version
      <4> QED  BY <3>1, <4>1, RowPending
    <3>3. pc' \in [Node -> PC]
      BY <2>4 DEF HbUpgradeOther
    <3> QED  BY <2>4, <3>2, <3>3 DEF HbUpgradeOther
  <2>5. CASE HbNoMaster(n)
    <3>1. lock' \in [holder : Node \cup {None, Ghost}, count : 0..MaxDepth]
      BY <2>5 DEF HbNoMaster, Release, Free
    <3>2. pc' \in [Node -> PC]
      BY <2>5 DEF HbNoMaster
    <3> QED  BY <2>5, <3>1, <3>2 DEF HbNoMaster
  <2>6. CASE HbDelete(n)
    BY <2>6 DEF HbDelete
  <2>7. CASE HbHandOff(n)
    BY <2>7 DEF HbHandOff, Electable, Release, Free
  <2>8. CASE HbIgnoreTakeover(n)
    BY <2>8 DEF HbIgnoreTakeover, Electable, Updated
  <2>9. CASE HbOwn(n)
    BY <2>9, OwnTypes DEF HbOwn, LockType, HaltType
  <2>10. CASE HbAgent(n)
    BY <2>10, AgentTypes DEF HbAgent, LockType, HaltType
  <2>11. CASE HbTry(n)
    <3>1. lock' \in [holder : Node \cup {None, Ghost}, count : 0..MaxDepth]
      BY <2>11 DEF HbTry, Acquire
    <3>2. pc' \in [Node -> PC]
      BY <2>11 DEF HbTry
    <3> QED  BY <2>11, <3>1, <3>2 DEF HbTry
  <2>12. CASE HbWait(n)
    BY <2>12 DEF HbWait, Acquire
  <2>13. CASE HbClaim(n)
    BY <2>13 DEF HbClaim
  <2>14. CASE HbEnd(n)
    <3>1. /\ pc' \in [Node -> PC] /\ snap' \in [Node -> Row]
          /\ slow' \in [Node -> BOOLEAN]
      BY <2>14 DEF HbEnd, BeatDone
    <3>2. blind' \subseteq Node
      BY <2>14 DEF HbEnd
    <3>3. /\ phase' \in [Node -> {"down", "starting", "running"}]
          /\ services' \in [Node -> {"master", "agent"}] /\ seen' \in [Node -> 0..2]
          /\ claimed' \in [Node -> BOOLEAN] /\ master' \in [Node -> BOOLEAN]
      BY <2>14, EndTypes
    <3>4. UNCHANGED <<row, lock, asked, tables, halt, version, disk, conn, target, faults>>
      BY <2>14 DEF HbEnd
    <3> QED  BY <3>1, <3>2, <3>3, <3>4
  <2>15. CASE HbShutdown(n)
    BY <2>15 DEF HbShutdown
  <2> QED  BY <1>1, <2>0, <2>1, <2>2, <2>3, <2>4, <2>5, <2>6, <2>7, <2>8, <2>9, <2>10, <2>11,
              <2>12, <2>13, <2>14, <2>15 DEF Beat
<1>2. ASSUME NEW n \in Node, MainLoop(n)
      PROVE  TypeOK'
  <2>1. CASE SwitchBegin(n)
    BY <2>1 DEF SwitchBegin
  <2>2. CASE SwitchCommit(n)
    BY <2>2 DEF SwitchCommit
  <2>3. CASE Exit(n)
    BY <2>3 DEF Exit, Gone, BeatDone, Free
  <2> QED  BY <1>2, <2>1, <2>2, <2>3 DEF MainLoop
<1>3. ASSUME NEW n \in Node, UpgradeCall(n)
      PROVE  TypeOK'
  <2>1. row' \in Row /\ halt' \in HaltType
    BY <1>3, UpgradeTypes DEF UpgradeCall
  <2>2. asked' \subseteq Node /\ faults' \in 0..MaxFaults
    BY <1>3 DEF UpgradeCall
  <2> QED  BY <1>3, <2>1, <2>2 DEF UpgradeCall, HaltType
<1>4. ASSUME NEW n \in Node, Start(n) \/ CreateTables(n)
      PROVE  TypeOK'
  <2>1. CASE Start(n)
    BY <2>1 DEF Start
  <2>2. CASE CreateTables(n)
    BY <2>2 DEF CreateTables
  <2> QED  BY <1>4, <2>1, <2>2
<1>5. ASSUME NEW n \in Node, Crash(n)
      PROVE  TypeOK'
  BY <1>5 DEF Crash, Gone, BeatDone, Fault, Abandoned
<1>6. ASSUME NEW n \in Node, SessionLost(n)
      PROVE  TypeOK'
  <2>1. lock' \in [holder : Node \cup {None, Ghost}, count : 0..MaxDepth]
    BY <1>6 DEF SessionLost, Abandoned
  <2>2. faults' \in 0..MaxFaults
    BY <1>6 DEF SessionLost, Fault
  <2> QED  BY <1>6, <2>1, <2>2 DEF SessionLost
<1>7. ASSUME NEW n \in Node, PoolTimeout(n)
      PROVE  TypeOK'
  <2>1. /\ pc' \in [Node -> PC] /\ snap' \in [Node -> Row]
        /\ faults' \in 0..MaxFaults
    BY <1>7 DEF PoolTimeout, BeatDone, Fault
  <2> QED  BY <1>7, <2>1, PoolTypes DEF PoolTimeout, HaltType
<1>8. ASSUME NEW n \in Node, BeatFails(n)
      PROVE  TypeOK'
  BY <1>8 DEF BeatFails
<1>9. ASSUME NEW n \in Node, Expire(n)
      PROVE  TypeOK'
  BY <1>9 DEF Expire, Fault
<1>10. ASSUME SessionReaped
      PROVE  TypeOK'
  BY <1>10 DEF SessionReaped, Free
<1>11. CASE UNCHANGED vars
  BY <1>11 DEF vars
<1> QED  BY <1>1, <1>2, <1>3, <1>4, <1>5, <1>6, <1>7, <1>8, <1>9, <1>10, <1>11 DEF Next

\* A step keeps the lock and the claims in agreement.
LEMMA LockStep ==
    ASSUME IInv, [Next]_vars
    PROVE  LockInv'
<1> USE ConfigAssumption DEF IInv, LockInv, TypeOK, LockCounted, BeatHoldsLock, DownIsIdle, ClaimNeedsLock, ElectedMaster, Settled, Holds,
            dbVars, beatVars, procVars, roleVars, At, Goto
<1>1. ASSUME NEW n \in Node, Beat(n)
      PROVE  LockInv'
  <2>0. CASE HbNoTables(n)
    BY <2>0 DEF HbNoTables
  <2>1. CASE HbRead(n)
    BY <2>1 DEF HbRead, NoOutdatedBeat
  <2>2. CASE HbUpgradeSelf(n)
    BY <2>2 DEF HbUpgradeSelf, CanLock, Acquire
  <2>3. CASE HbGrant(n)
    BY <2>3 DEF HbGrant, Updated
  <2>4. CASE HbUpgradeOther(n)
    BY <2>4 DEF HbUpgradeOther, Updated
  <2>5. CASE HbNoMaster(n)
    BY <2>5 DEF HbNoMaster, Release, Free
  <2>6. CASE HbDelete(n)
    BY <2>6 DEF HbDelete
  <2>7. CASE HbHandOff(n)
    BY <2>7 DEF HbHandOff, Electable, Release, Free
  <2>8. CASE HbIgnoreTakeover(n)
    BY <2>8 DEF HbIgnoreTakeover, Electable, Updated
  <2>9. CASE HbOwn(n)
    BY <2>9 DEF HbOwn, Electable, CanLock, Acquire, Upgrade, Updated
  <2>10. CASE HbAgent(n)
    BY <2>10 DEF HbAgent, Electable, Release, Free, Upgrade, Updated
  <2>11. CASE HbTry(n)
    BY <2>11 DEF HbTry, Electable, CanLock, Acquire
  <2>12. CASE HbWait(n)
    BY <2>12 DEF HbWait, Acquire
  <2>13. CASE HbClaim(n)
    BY <2>13 DEF HbClaim
  <2>14. CASE HbEnd(n)
    <3>0. claimed'[n] /\ n \notin blind' => pc[n] = "endTrue"
      <4>1. claimed'[n] <=> pc[n] \in {"endTrue", "noTables"}
        BY <2>14, ClaimAtEnd, Zenon
      <4>2. pc[n] = "noTables" => n \in blind'
        BY <2>14 DEF HbEnd
      <4> QED  BY <4>1, <4>2, Zenon
    <3>1. \A m \in Node \ {n} : claimed'[m] = claimed[m] /\ (m \in blind' <=> m \in blind)
      BY <2>14 DEF HbEnd
    <3>2. /\ \A m \in Node : pc'[m] = IF m = n THEN "idle" ELSE pc[m]
          /\ \A m \in Node \ {n} : /\ slow'[m] = slow[m]
                                   /\ phase'[m] = phase[m]
          /\ phase'[n] # "down"
          /\ UNCHANGED <<lock, halt, conn>>
      BY <2>14 DEF HbEnd, BeatDone
    <3>3. ClaimNeedsLock'
      BY <3>0, <3>1, <3>2
    <3>4. (LockCounted /\ BeatHoldsLock /\ DownIsIdle)'
      BY <3>2
    <3> QED  BY <3>3, <3>4
  <2>15. CASE HbShutdown(n)
    BY <2>15 DEF HbShutdown
  <2> QED  BY <1>1, <2>0, <2>1, <2>2, <2>3, <2>4, <2>5, <2>6, <2>7, <2>8, <2>9, <2>10, <2>11,
              <2>12, <2>13, <2>14, <2>15 DEF Beat
<1>2. ASSUME NEW n \in Node, MainLoop(n)
      PROVE  LockInv'
  <2>1. CASE SwitchBegin(n)
    BY <2>1 DEF SwitchBegin
  <2>2. CASE SwitchCommit(n)
    BY <2>2 DEF SwitchCommit
  <2>3. CASE Exit(n)
    BY <2>3 DEF Exit, Gone, BeatDone, Free
  <2> QED  BY <1>2, <2>1, <2>2, <2>3 DEF MainLoop
<1>3. ASSUME NEW n \in Node, UpgradeCall(n)
      PROVE  LockInv'
  BY <1>3 DEF UpgradeCall, Upgrade, Updated
<1>4. ASSUME NEW n \in Node, Start(n) \/ CreateTables(n)
      PROVE  LockInv'
  BY <1>4 DEF Start, CreateTables
<1>5. ASSUME NEW n \in Node, Crash(n)
      PROVE  LockInv'
  BY <1>5 DEF Crash, Gone, BeatDone, Fault, Abandoned
<1>6. ASSUME NEW n \in Node, SessionLost(n)
      PROVE  LockInv'
  BY <1>6 DEF SessionLost, Fault, Abandoned
<1>7. ASSUME NEW n \in Node, PoolTimeout(n)
      PROVE  LockInv'
  BY <1>7 DEF PoolTimeout, BeatDone, Fault
<1>8. ASSUME NEW n \in Node, BeatFails(n)
      PROVE  LockInv'
  BY <1>8 DEF BeatFails
<1>9. ASSUME NEW n \in Node, Expire(n)
      PROVE  LockInv'
  BY <1>9 DEF Expire, Fault
<1>10. ASSUME SessionReaped
      PROVE  LockInv'
  BY <1>10 DEF SessionReaped, Free
<1>11. CASE UNCHANGED vars
  BY <1>11 DEF vars
<1> QED  BY <1>1, <1>2, <1>3, <1>4, <1>5, <1>6, <1>7, <1>8, <1>9, <1>10, <1>11 DEF Next

\* Init, the step and the conclusion: a settled claim is backed by the lock.
THEOREM Invariance == Spec => []IInv
<1>1. Init => IInv
  BY ConfigAssumption DEF Init, IInv, LockInv, TypeOK, LockCounted, BeatHoldsLock,
     DownIsIdle, ClaimNeedsLock, ElectedMaster, Settled, Holds, Version, Row, NoRow,
     PC, Free
<1>2. IInv /\ [Next]_vars => IInv'
  BY TypeOKStep, LockStep DEF IInv
<1> QED  BY <1>1, <1>2, PTL DEF Spec

\* The variables of MasterElection have their types.
THEOREM TypeCorrect == Spec => []TypeOK
  BY Invariance, PTL DEF IInv

\* A node whose last beat has seen CLUSTER, and that believes in its mastership
\* between two beats, has the lock.
THEOREM ClaimSafety == Spec => []ClaimNeedsLock
  BY Invariance, PTL DEF IInv, LockInv

\* Two nodes whose last beat has seen CLUSTER never both believe in their mastership.
OneBeliever == \A m, n \in Node : ElectedMaster(m) /\ ElectedMaster(n) => m = n

\* There is at most one elected master between two beats.  (On a database that has
\* no tables yet several nodes may claim the mastership, until their next beat.)
THEOREM OneSettledMaster == Spec => []OneBeliever
<1>1. ASSUME ClaimNeedsLock, NEW m \in Node, NEW n \in Node,
             ElectedMaster(m), ElectedMaster(n)
      PROVE  m = n
  <2>1. Holds(m) /\ Holds(n)
    BY <1>1, Zenon DEF ClaimNeedsLock
  <2> QED  BY <2>1 DEF Holds
<1>2. ClaimNeedsLock => OneBeliever
  BY <1>1, Zenon DEF OneBeliever
<1> QED  BY <1>2, ClaimSafety, PTL

-----------------------------------------------------------------------------
(* Leadership.  Of a step the refinement needs only how the lock moves.    *)

\* The lock is taken only when it is free, and only in the middle of a beat.
LockMoves ==
    \/ lock'.holder = lock.holder
    \/ lock'.holder \in {None, Ghost}
    \/ \E n \in Node : lock.holder = None /\ lock'.holder = n /\ pc'[n] # "idle"

\* CLUSTER names a new master only if that node has the lock, or if the row that some
\* beat has read is gone: then the request for a takeover inserts a new one.
NameStep ==
    row'.master \notin {row.master, None} =>
        \/ Holds(row'.master)
        \/ row.master = None /\ \E n \in Node : snap[n].master # None

\* Every step moves the lock this way and names masters this way.
LEMMA OfficeStep ==
    ASSUME IInv, [Next]_vars
    PROVE  LockMoves /\ NameStep
<1> USE ConfigAssumption DEF LockMoves, NameStep, dbVars, beatVars, procVars, roleVars,
            At, Goto, Holds
<1>0. /\ pc \in [Node -> PC] /\ row \in Row /\ snap \in [Node -> Row] /\ BeatHoldsLock
      /\ lock \in [holder : Node \cup {None, Ghost}, count : 0..MaxDepth]
  BY DEF IInv, TypeOK, LockInv
<1>1. ASSUME NEW n \in Node, Beat(n)
      PROVE  LockMoves /\ NameStep
  <2>0. CASE HbNoTables(n)
    BY <2>0 DEF HbNoTables
  <2>1. CASE HbRead(n)
    BY <2>1 DEF HbRead
  <2>2. CASE HbUpgradeSelf(n)
    BY <1>0, <2>2 DEF HbUpgradeSelf, CanLock, Acquire
  <2>3. CASE HbGrant(n)
    BY <1>0, <2>3 DEF HbGrant, Updated, Row
  <2>4. CASE HbUpgradeOther(n)
    BY <1>0, <2>4 DEF HbUpgradeOther, Updated, Row
  <2>5. CASE HbNoMaster(n)
    BY <1>0, <2>5 DEF HbNoMaster, Release, Free
  <2>6. CASE HbDelete(n)
    BY <2>6 DEF HbDelete, NoRow
  <2>7. CASE HbHandOff(n)
    BY <1>0, <2>7 DEF HbHandOff, Release, Free
  <2>8. CASE HbIgnoreTakeover(n)
    BY <1>0, <2>8 DEF HbIgnoreTakeover, Updated, Row
  <2>9. CASE HbOwn(n)
    <3>1. UNCHANGED row \/ Upgrade(n, TRUE)
      BY <2>9, Zenon DEF HbOwn, Goto
    <3>2. row' = row \/ row'.master = row.master
      <4>1. row' \in {row, [row EXCEPT !.pending = TRUE],
                      [row EXCEPT !.pending = FALSE, !.version = version[n]]}
        BY <3>1, Zenon DEF Upgrade, Updated
      <4> QED  BY <1>0, <4>1 DEF Row
    <3>3. \/ UNCHANGED lock
          \/ (Holds(n) \/ CanLock(n)) /\ Acquire(n) /\ Goto(n, "endTrue")
      BY <2>9, Zenon DEF HbOwn, Goto
    <3>4. LockMoves
      BY <1>0, <3>3 DEF CanLock, Acquire
    <3> QED  BY <3>2, <3>4
  <2>10. CASE HbAgent(n)
    <3>1. row'.master = row.master \/ (row.master = None /\ snap[n].master # None)
      BY <1>0, <2>10 DEF HbAgent, Upgrade, Updated, Row
    <3>2. LockMoves
      BY <1>0, <2>10 DEF HbAgent, Release, Free
    <3> QED  BY <3>1, <3>2
  <2>11. CASE HbTry(n)
    BY <1>0, <2>11 DEF HbTry, CanLock, Acquire
  <2>12. CASE HbWait(n)
    BY <1>0, <2>12 DEF HbWait, Acquire
  <2>13. CASE HbClaim(n)
    BY <1>0, <2>13 DEF HbClaim, BeatHoldsLock
  <2>14. CASE HbEnd(n)
    BY <2>14 DEF HbEnd
  <2>15. CASE HbShutdown(n)
    BY <2>15 DEF HbShutdown
  <2> QED  BY <1>1, <2>0, <2>1, <2>2, <2>3, <2>4, <2>5, <2>6, <2>7, <2>8, <2>9, <2>10,
              <2>11, <2>12, <2>13, <2>14, <2>15 DEF Beat
<1>2. ASSUME NEW n \in Node, MainLoop(n)
      PROVE  LockMoves /\ NameStep
  BY <1>2 DEF MainLoop, SwitchBegin, SwitchCommit, Exit, Free
<1>3. ASSUME NEW n \in Node, UpgradeCall(n)
      PROVE  LockMoves /\ NameStep
  BY <1>0, <1>3 DEF UpgradeCall, Upgrade, Updated, Row
<1>4. ASSUME NEW n \in Node,
             Start(n) \/ CreateTables(n) \/ PoolTimeout(n) \/ BeatFails(n) \/ Expire(n)
      PROVE  LockMoves /\ NameStep
  BY <1>4 DEF Start, CreateTables, PoolTimeout, BeatFails, Expire
<1>5. ASSUME NEW n \in Node, Crash(n) \/ SessionLost(n)
      PROVE  LockMoves /\ NameStep
  BY <1>0, <1>5 DEF Crash, SessionLost, Abandoned
<1>6. ASSUME SessionReaped
      PROVE  LockMoves /\ NameStep
  BY <1>6 DEF SessionReaped, Free
<1>7. CASE UNCHANGED vars
  BY <1>7 DEF vars
<1> QED  BY <1>1, <1>2, <1>3, <1>4, <1>5, <1>6, <1>7 DEF Next

\* Without no_master nodes nobody deletes the row: a beat that has read one finds it.
RowStays ==
    \A n \in Node : pc[n] # "delete" /\ (snap[n].master # None => row.master # None)

\* The row stays if only HbDelete() could remove it and nobody is about to do so.
LEMMA RowStaysStep ==
    ASSUME NoMaster = {}, IInv, RowStays, [Next]_vars
    PROVE  RowStays'
<1> USE ConfigAssumption DEF RowStays, dbVars, beatVars, procVars, roleVars, At, Goto
<1>0. pc \in [Node -> PC] /\ row \in Row /\ snap \in [Node -> Row]
  BY DEF IInv, TypeOK
<1>1. ASSUME NEW n \in Node, Beat(n)
      PROVE  RowStays'
  <2>1. CASE HbRead(n) \/ HbNoTables(n)
    BY <1>0, <2>1 DEF HbRead, HbNoTables
  <2>2. CASE HbUpgradeSelf(n) \/ HbUpgradeOther(n)
    <3>1. row'.master = row.master
      BY <1>0, <2>2 DEF HbUpgradeSelf, HbUpgradeOther, Updated, Row
    <3>2. \E label \in {"grant", "try", "endFalse"} : Goto(n, label)
      BY <2>2 DEF HbUpgradeSelf, HbUpgradeOther
    <3>3. UNCHANGED snap
      BY <2>2 DEF HbUpgradeSelf, HbUpgradeOther
    <3> QED  BY <1>0, <3>1, <3>2, <3>3
  <2>3. CASE HbGrant(n) \/ HbIgnoreTakeover(n)
    <3>1. row'.master = row.master
      <4>1. row' \in {row, [row EXCEPT !.version = version[n], !.pending = FALSE],
                      [row EXCEPT !.by = None]}
        BY <2>3, Zenon DEF HbGrant, HbIgnoreTakeover, Updated
      <4> QED  BY <1>0, <4>1 DEF Row
    <3>2. \E label \in {"endTrue", "own"} : Goto(n, label)
      BY <2>3 DEF HbGrant, HbIgnoreTakeover
    <3>3. UNCHANGED snap
      BY <2>3 DEF HbGrant, HbIgnoreTakeover
    <3> QED  BY <1>0, <3>1, <3>2, <3>3
  <2>4. CASE HbNoMaster(n) \/ HbDelete(n)
    BY <2>4 DEF HbNoMaster, HbDelete
  <2>5. CASE HbHandOff(n) \/ HbTry(n) \/ HbWait(n)
    BY <1>0, <2>5 DEF HbHandOff, HbTry, HbWait
  <2>6. CASE HbOwn(n)
    <3>1. row'.master = row.master
      <4>1. UNCHANGED row \/ Upgrade(n, TRUE)
        BY <2>6, Zenon DEF HbOwn, Goto
      <4>2. row' \in {row, [row EXCEPT !.pending = TRUE],
                      [row EXCEPT !.pending = FALSE, !.version = version[n]]}
        BY <4>1, Zenon DEF Upgrade, Updated
      <4> QED  BY <1>0, <4>2 DEF Row
    <3>2. \E label \in {"endTrue", "endFalse"} : Goto(n, label)
      BY <2>6 DEF HbOwn
    <3>3. UNCHANGED snap
      BY <2>6 DEF HbOwn
    <3> QED  BY <1>0, <3>1, <3>2, <3>3
  <2>7. CASE HbAgent(n)
    <3>1. row.master # None /\ row'.master = row.master
      BY <1>0, <2>7 DEF HbAgent, Upgrade, Updated, Row
    <3>2. \E label \in {"endFalse", "wait", "try"} : Goto(n, label)
      BY <2>7 DEF HbAgent
    <3>3. UNCHANGED snap
      BY <2>7 DEF HbAgent
    <3> QED  BY <1>0, <3>1, <3>2, <3>3
  <2>8. CASE HbClaim(n)
    BY <1>0, <2>8 DEF HbClaim
  <2>9. CASE HbEnd(n)
    BY <1>0, <2>9 DEF HbEnd, BeatDone, NoRow
  <2>10. CASE HbShutdown(n)
    BY <2>10 DEF HbShutdown
  <2> QED  BY <1>1, <2>1, <2>2, <2>3, <2>4, <2>5, <2>6, <2>7, <2>8, <2>9, <2>10 DEF Beat
<1>2. ASSUME NEW n \in Node, MainLoop(n)
      PROVE  RowStays'
  BY <1>0, <1>2 DEF MainLoop, SwitchBegin, SwitchCommit, Exit, Gone, BeatDone, NoRow
<1>3. ASSUME NEW n \in Node, UpgradeCall(n)
      PROVE  RowStays'
  BY <1>0, <1>3 DEF UpgradeCall, Upgrade, Updated, Row
<1>4. ASSUME NEW n \in Node,
             Start(n) \/ CreateTables(n) \/ SessionLost(n) \/ BeatFails(n) \/ Expire(n)
      PROVE  RowStays'
  BY <1>4 DEF Start, CreateTables, SessionLost, BeatFails, Expire
<1>5. ASSUME NEW n \in Node, Crash(n) \/ PoolTimeout(n)
      PROVE  RowStays'
  BY <1>0, <1>5 DEF Crash, Gone, PoolTimeout, BeatDone, NoRow
<1>6. CASE SessionReaped \/ UNCHANGED vars
  BY <1>6 DEF SessionReaped, vars
<1> QED  BY <1>1, <1>2, <1>3, <1>4, <1>5, <1>6 DEF Next

\* In a cluster without no_master nodes CLUSTER never names a master, the first one
\* or another one, that does not have the lock.
THEOREM NamedSafety == NoMaster = {} => (Spec => NamedUnderLock)
<1> SUFFICES ASSUME NoMaster = {} PROVE Spec => NamedUnderLock
  OBVIOUS
<1>1. Init => RowStays
  BY ConfigAssumption DEF Init, RowStays, NoRow
<1>2. IInv /\ RowStays /\ [Next]_vars => RowStays'
  BY RowStaysStep
<1>3. IInv /\ RowStays /\ [Next]_vars
        => [row'.master \notin {row.master, None} => Holds(row'.master)]_vars
  BY OfficeStep DEF NameStep, RowStays
<1> QED  BY <1>1, <1>2, <1>3, Invariance, PTL DEF Spec, NamedUnderLock

\* The states of the office that the invariant allows, and the step between two.
Owner == IF lock.holder \in Node THEN lock.holder ELSE None
Believers == {n \in Node : ElectedMaster(n)}

\* A step of the election is a step of the office.
LEMMA LeadershipStep ==
    ASSUME IInv, IInv', LockMoves
    PROVE  [Office!Next]_(Office!vars)
<1>1. Believers \subseteq {Owner} \ {None} /\ Believers' \subseteq {Owner'} \ {None}
  BY ConfigAssumption DEF IInv, LockInv, ClaimNeedsLock, Holds, Owner, Believers
<1>2. Owner \in Node \cup {None}
  BY DEF Owner
<1>3. \/ Owner' \in {Owner, None}
      \/ \E n \in Node : Owner = None /\ Owner' = n /\ n \notin Believers'
  BY ConfigAssumption DEF LockMoves, Owner, Believers, ElectedMaster, Settled
<1>4. ASSUME NEW n \in Node, Owner = None, Owner' = n, n \notin Believers'
      PROVE  Owner = None /\ Owner' = n /\ Believers' = Believers
  BY <1>1, <1>4
<1>5. ASSUME Owner' \in {Owner, None}
      PROVE  \/ Believers' = {} /\ Owner' \in {Owner, None}
             \/ \E n \in Node : Owner = n /\ Believers' = {n} /\ Owner' = Owner
  BY <1>1, <1>2, <1>5
<1> QED  BY <1>3, <1>4, <1>5
         DEF Office!Next, Office!Elect, Office!Rely, Office!StepBack, Owner, Believers

\* The election implements Leadership: the office passes only through vacancy,
\* and only the node in office relies on being the master.
THEOREM Implementation == Spec => LeadershipSpec
<1>1. Init => Office!Init
  BY ConfigAssumption DEF Init, Office!Init, Free, ElectedMaster, Settled
<1>2. IInv /\ IInv' /\ [Next]_vars => [Office!Next]_(Office!vars)
  BY OfficeStep, LeadershipStep
<1> QED  BY <1>1, <1>2, Invariance, PTL DEF Spec, LeadershipSpec, Office!Spec

-----------------------------------------------------------------------------
(* NoOrphanLock, in a cluster without no_master nodes and with no newer    *)
(* version: there nothing deletes the row and no upgrade is pending.  It   *)
(* fails outside: a beat that waits for the end of an upgrade keeps a lock *)
(* it acquired with an outdated row.                                       *)

PlainCluster == NoMaster = {} /\ Latest = 1

\* Every node has version 1 and so has the row; nothing is pending.
OneVersion ==
    /\ asked = {} /\ row.pending = FALSE
    /\ row.master # None => row.version = 1
    /\ \A n \in Node :
         /\ version[n] = 1 /\ disk[n] = 1
         /\ pc[n] \notin {"grant", "delete"} /\ snap[n].pending = FALSE
         /\ snap[n].master # None => (snap[n].version = 1 /\ row.master # None)
         /\ pc[n] = "own" => snap[n].master = n

\* Where a beat may stand with the lock, and what an idle holder excuses.
HolderPlaces ==
    /\ lock.count <= 1
    /\ \A n \in Node : Holds(n) =>
         /\ pc[n] \notin {"try", "endFalse"} /\ phase[n] # "down"
         /\ pc[n] \in {"idle", "endTrue", "noTables"} => row.master # None
         /\ pc[n] = "act" => snap[n].master # None
         /\ pc[n] = "idle" => claimed[n] \/ slow[n] \/ halt[n] # "no"

PlainInv == OneVersion /\ HolderPlaces

\* A lock that was acquired once is free after its release.
LEMMA ReleasedOnce ==
    ASSUME IInv, lock.count <= 1, NEW n \in Node, Release(n)
    PROVE  /\ lock'.count <= 1 /\ ~Holds(n)'
           /\ \A m \in Node : Holds(m)' => Holds(m)
BY ConfigAssumption DEF IInv, TypeOK, LockInv, LockCounted, Release, Free, Holds

\* A lock that is free is acquired once.
LEMMA AcquiredOnce ==
    ASSUME IInv, NEW n \in Node, lock.holder = None, Acquire(n)
    PROVE  lock'.count = 1 /\ \A m \in Node : Holds(m)' => m = n
BY ConfigAssumption DEF IInv, TypeOK, LockInv, LockCounted, Acquire, Holds

LEMMA PlainStep ==
    ASSUME PlainCluster, IInv, PlainInv, [Next]_vars
    PROVE  PlainInv'
<1> USE ConfigAssumption DEF PlainCluster, PlainInv, OneVersion, HolderPlaces, Holds,
        dbVars, beatVars, procVars, roleVars, At, Goto
<1>0. /\ pc \in [Node -> PC] /\ row \in Row /\ snap \in [Node -> Row]
      /\ lock \in [holder : Node \cup {None, Ghost}, count : 0..MaxDepth]
      /\ phase \in [Node -> {"down", "starting", "running"}]
      /\ halt \in [Node -> {"no", "restart", "update"}]
      /\ slow \in [Node -> BOOLEAN] /\ claimed \in [Node -> BOOLEAN]
      /\ version \in [Node -> Version] /\ disk \in [Node -> Version]
      /\ LockCounted /\ DownIsIdle
  BY DEF IInv, TypeOK, LockInv
<1> USE <1>0 DEF LockCounted, DownIsIdle, Row
<1>1. ASSUME NEW n \in Node, Beat(n)
      PROVE  PlainInv'
  <2>1. CASE HbRead(n) \/ HbNoTables(n)
    BY <2>1 DEF HbRead, HbNoTables
  <2>2. CASE HbUpgradeSelf(n) \/ HbGrant(n) \/ HbUpgradeOther(n) \/ HbNoMaster(n) \/ HbDelete(n)
    BY <2>2 DEF HbUpgradeSelf, HbGrant, HbUpgradeOther, HbNoMaster, HbDelete
  <2>7. CASE HbHandOff(n)
    <3>1. Release(n) /\ pc' = [pc EXCEPT ![n] = "endFalse"]
      BY <2>7 DEF HbHandOff
    <3>2. lock'.count <= 1 /\ lock'.holder # n /\ \A m \in Node : lock'.holder = m => lock.holder = m
      BY <3>1, ReleasedOnce
    <3> QED  BY <2>7, <3>1, <3>2 DEF HbHandOff
  <2>8. CASE HbIgnoreTakeover(n)
    BY <2>8 DEF HbIgnoreTakeover, Electable, Updated
  <2>9. CASE HbOwn(n)
    <3>1. pc[n] = "own" \/ snap[n].master = n
      BY <2>9 DEF HbOwn, Electable
    <3>2. snap[n].version = version[n] /\ row.master # None /\ phase[n] # "down"
      BY <3>1, <2>9 DEF HbOwn, Electable
    <3>3. \/ lock' = lock /\ lock.holder # n /\ Goto(n, "endFalse")
          \/ lock' = lock /\ lock.holder = n /\ Goto(n, "endTrue")
          \/ lock.holder = None /\ Acquire(n) /\ Goto(n, "endTrue")
      BY <2>9 DEF HbOwn, CanLock
    <3>4. UNCHANGED <<row, halt, asked, snap, slow, claimed, phase, version, disk>>
      BY <2>9, <3>2 DEF HbOwn
    <3>5. HolderPlaces'
      BY <3>2, <3>3, <3>4, AcquiredOnce
    <3> QED  BY <3>3, <3>4, <3>5
  <2>10. CASE HbAgent(n)
    <3>0. /\ Release(n) /\ row.master # None /\ phase[n] # "down"
          /\ ~(snap[n].version > version[n])
      BY <2>10 DEF HbAgent, Electable, Version
    <3>a. \E label \in {"endFalse", "wait", "try"} : Goto(n, label)
      BY <2>10 DEF HbAgent
    <3>b. row' = row \/ row' = [row EXCEPT !.by = n]
      BY <2>10, <3>0, Zenon DEF HbAgent
    <3>1. /\ Release(n) /\ row.master # None /\ phase[n] # "down"
          /\ \E label \in {"endFalse", "wait", "try"} : Goto(n, label)
          /\ row' = row \/ row' = [row EXCEPT !.by = n]
          /\ UNCHANGED <<asked, snap, slow, claimed, phase, version, disk, halt>>
      BY <2>10, <3>0, <3>a, <3>b, Zenon DEF HbAgent
    <3>2. lock'.count <= 1 /\ lock'.holder # n /\ \A m \in Node : lock'.holder = m => lock.holder = m
      BY <3>1, ReleasedOnce
    <3> QED  BY <3>1, <3>2
  <2>11. CASE HbTry(n)
    BY <2>11 DEF HbTry, Electable, CanLock, Acquire
  <2>12. CASE HbWait(n)
    BY <2>12 DEF HbWait, Acquire
  <2>13. CASE HbClaim(n)
    BY <2>13 DEF HbClaim
  <2>14. CASE HbEnd(n)
    <3>1. /\ pc' = [pc EXCEPT ![n] = "idle"] /\ snap' = [snap EXCEPT ![n] = NoRow]
          /\ pc[n] \in {"endTrue", "endFalse", "noTables"} /\ phase[n] # "down"
          /\ UNCHANGED <<row, lock, asked, halt, version, disk>>
      BY <2>14 DEF HbEnd, BeatDone
    <3>2. phase'[n] # "down" /\ \A m \in Node \ {n} : phase'[m] = phase[m]
      BY <2>14 DEF HbEnd
    <3>3. OneVersion'
      BY <3>1 DEF NoRow
    <3>4. claimed'[n] <=> pc[n] \in {"endTrue", "noTables"}
      BY <2>14, <1>0, ClaimAtEnd, Zenon
    <3>5. \A m \in Node \ {n} : claimed'[m] = claimed[m] /\ slow'[m] = slow[m]
      BY <2>14 DEF HbEnd
    <3>6. ASSUME NEW m \in Node, m # n, lock.holder = m
          PROVE  /\ pc'[m] = pc[m] /\ phase'[m] = phase[m] /\ claimed'[m] = claimed[m]
                 /\ slow'[m] = slow[m] /\ snap'[m] = snap[m]
      BY <3>1, <3>2, <3>5, <3>6
    <3>7. lock.holder = n => pc'[n] = "idle" /\ claimed'[n] /\ row.master # None
      BY <3>1, <3>4
    <3>8. HolderPlaces'
      BY <3>1, <3>2, <3>6, <3>7
    <3> QED  BY <3>3, <3>8
  <2>15. CASE HbShutdown(n)
    BY <2>15 DEF HbShutdown
  <2> QED  BY <1>1, <2>1, <2>2, <2>7, <2>8, <2>9, <2>10, <2>11, <2>12, <2>13, <2>14,
              <2>15 DEF Beat
<1>2. ASSUME NEW n \in Node, MainLoop(n)
      PROVE  PlainInv'
  <2>1. CASE SwitchBegin(n) \/ SwitchCommit(n)
    BY <2>1 DEF SwitchBegin, SwitchCommit
  <2>2. CASE Exit(n)
    BY <2>2 DEF Exit, Gone, BeatDone, Free, NoRow
  <2> QED  BY <1>2, <2>1, <2>2 DEF MainLoop
<1>3. ASSUME NEW n \in Node, UpgradeCall(n)
      PROVE  PlainInv'
  BY <1>3 DEF UpgradeCall
<1>4. ASSUME NEW n \in Node, Start(n) \/ CreateTables(n)
      PROVE  PlainInv'
  BY <1>4 DEF Start, CreateTables
<1>5. ASSUME NEW n \in Node, Crash(n)
      PROVE  PlainInv'
  BY <1>5 DEF Crash, Gone, BeatDone, Abandoned, NoRow
<1>6. ASSUME NEW n \in Node, SessionLost(n)
      PROVE  PlainInv'
  BY <1>6 DEF SessionLost, Abandoned
<1>7. ASSUME NEW n \in Node, PoolTimeout(n)
      PROVE  PlainInv'
  BY <1>7 DEF PoolTimeout, BeatDone, NoRow
<1>8. ASSUME NEW n \in Node, BeatFails(n) \/ Expire(n)
      PROVE  PlainInv'
  BY <1>8 DEF BeatFails, Expire
<1>9. ASSUME SessionReaped
      PROVE  PlainInv'
  BY <1>9 DEF SessionReaped, Free
<1>10. CASE UNCHANGED vars
  BY <1>10 DEF vars
<1> QED  BY <1>1, <1>2, <1>3, <1>4, <1>5, <1>6, <1>7, <1>8, <1>9, <1>10 DEF Next

\* In such a cluster a node that settles as an agent does not keep the lock.
THEOREM NoOrphan == PlainCluster => (Spec => []NoOrphanLock)
<1> SUFFICES ASSUME PlainCluster PROVE Spec => []NoOrphanLock
  OBVIOUS
<1>1. Init => PlainInv
  BY ConfigAssumption
  DEF Init, PlainInv, OneVersion, HolderPlaces, Holds, NoRow, Free, PlainCluster
<1>2. IInv /\ PlainInv /\ [Next]_vars => PlainInv'
  BY PlainStep
<1>3. PlainInv => NoOrphanLock
  BY DEF PlainInv, HolderPlaces, NoOrphanLock, Settled
<1> QED  BY <1>1, <1>2, <1>3, Invariance, PTL DEF Spec
=============================================================================
