----------------------- MODULE ServerLifecycle_proofs -----------------------
(***************************************************************************)
(* Proofs about ServerLifecycle for any number of processes, coroutines,   *)
(* events, faults and orders: its types; for a server that its schedule    *)
(* and the autoupdater start and stop (Unattended) and for one that its    *)
(* schedule and scheduled actions start and stop (Routine), that it has    *)
(* one process, and none when it is down; for the first one also what      *)
(* updates need.                                                           *)
(***************************************************************************)
EXTENDS ServerLifecycle, TLAPS

InboxType == Seq({"load", "start", "live", "paused", "stop", "empty"})

\* What the handlers take from the queue and DCS puts into it leaves a queue.
LEMMA InboxSteps ==
    ASSUME inbox \in InboxType,
           NEW e \in {"load", "start", "live", "paused", "stop", "empty"}
    PROVE  /\ Append(inbox, e) \in InboxType
           /\ inbox # <<>> => Tail(inbox) \in InboxType
BY DEF InboxType

\* is_running() finds a process or none.
LEMMA FoundType ==
    ASSUME handle \in Proc \cup {None}
    PROVE  Found \subseteq Proc \cup {None}
BY DEF Found, Living, Alive

DcsType == dcs \in [Proc -> ProcState] /\ players \in BOOLEAN
ServerType == status \in Status /\ handle \in Proc \cup {None} /\ mission \in BOOLEAN
TaskType ==
    /\ kind \in [Task -> Kind \cup {"none"}] /\ pc \in [Task -> PC]
    /\ keep \in [Task -> BOOLEAN]
FlagType ==
    /\ maintenance \in BOOLEAN /\ pending \in BOOLEAN
    /\ onEmpty \in Method \cup {"none"} /\ updating \in BOOLEAN
TimeType == mon \in {"idle", "report", "dump", "audit"} /\ duty \in {"Y", "N", "P"}
BoundType == faults \in 0..MaxFaults /\ orders \in 0..MaxOrders /\ duties \in 0..MaxDuty
QueueType == inbox \in InboxType

\* The types of the variables, in groups, before and after a step.
LEMMA Parts ==
    /\ TypeOK <=> /\ DcsType /\ QueueType /\ ServerType /\ FlagType /\ TaskType
                  /\ TimeType /\ BoundType
    /\ TypeOK' <=> /\ DcsType' /\ QueueType' /\ ServerType' /\ FlagType' /\ TaskType'
                   /\ TimeType' /\ BoundType'
BY DEF TypeOK, DcsType, QueueType, InboxType, ServerType, FlagType, TaskType, TimeType,
       BoundType

\* A group of variables that a step leaves alone keeps its types.
LEMMA Kept ==
    ASSUME TypeOK
    PROVE  /\ UNCHANGED procVars => DcsType'
           /\ UNCHANGED inbox => QueueType'
           /\ UNCHANGED serverVars => ServerType'
           /\ UNCHANGED flagVars => FlagType'
           /\ UNCHANGED taskVars => TaskType'
           /\ UNCHANGED <<mon, duty>> => TimeType'
           /\ UNCHANGED bounds => BoundType'
<1> USE Parts
<1>1. UNCHANGED procVars => DcsType'  BY DEF procVars, DcsType
<1>2. UNCHANGED inbox => QueueType'  BY DEF QueueType
<1>3. UNCHANGED serverVars => ServerType'  BY DEF serverVars, ServerType
<1>4. UNCHANGED flagVars => FlagType'  BY DEF flagVars, FlagType
<1>5. UNCHANGED taskVars => TaskType'  BY DEF taskVars, TaskType
<1>6. UNCHANGED <<mon, duty>> => TimeType'  BY DEF TimeType
<1>7. UNCHANGED bounds => BoundType'  BY DEF bounds, BoundType
<1> QED  BY <1>1, <1>2, <1>3, <1>4, <1>5, <1>6, <1>7

\* A coroutine that is created, goes on or ends is still one of the tasks.
LEMMA TaskSteps ==
    ASSUME TaskType, NEW t \in Task
    PROVE  /\ \A k \in Kind \cup {"none"}, s \in PC, b \in BOOLEAN :
                  Create(t, k, s, b) => TaskType'
           /\ \A s \in PC : Goto(t, s) => TaskType'
           /\ End(t) => TaskType'
           /\ UNCHANGED taskVars => TaskType'
<1>1. \A k \in Kind \cup {"none"}, s \in PC, b \in BOOLEAN : Create(t, k, s, b) => TaskType'
  BY DEF TaskType, Create
<1>2. \A s \in PC : Goto(t, s) => TaskType'
  BY DEF TaskType, Goto
<1>3. End(t) => TaskType'
  BY DEF TaskType, End, PC
<1>4. UNCHANGED taskVars => TaskType'
  BY DEF TaskType, taskVars
<1> QED  BY <1>1, <1>2, <1>3, <1>4

\* Whatever a process becomes, it is a process.
LEMMA DcsSteps ==
    ASSUME DcsType, NEW p
    PROVE  /\ \A s \in ProcState : Becomes(p, s) => dcs' \in [Proc -> ProcState]
           /\ \A from : \A s \in ProcState : Command(from, s) => dcs' \in [Proc -> ProcState]
           /\ Quit => dcs' \in [Proc -> ProcState]
           /\ Nobody(p) => players' \in BOOLEAN
           /\ UNCHANGED procVars => DcsType'
<1>1. \A s \in ProcState : Becomes(p, s) => dcs' \in [Proc -> ProcState]
  BY DEF DcsType, Becomes
<1>2. \A from : \A s \in ProcState : Command(from, s) => dcs' \in [Proc -> ProcState]
  BY DEF DcsType, Command
<1>3. Quit => dcs' \in [Proc -> ProcState]
  BY DEF DcsType, Quit, ProcState
<1>4. Nobody(p) => players' \in BOOLEAN
  BY DEF DcsType, Nobody
<1>5. UNCHANGED procVars => DcsType'
  BY DEF DcsType, procVars
<1> QED  BY <1>1, <1>2, <1>3, <1>4, <1>5

\* A fault or an order is counted up to its bound.
LEMMA BoundSteps ==
    ASSUME faults \in 0..MaxFaults, orders \in 0..MaxOrders, duties \in 0..MaxDuty,
           MaxFaults \in Nat, MaxOrders \in Nat, MaxDuty \in Nat
    PROVE  /\ \A what : Fault(what) => faults' \in 0..MaxFaults
           /\ \A who : Order(who) => orders' \in 0..MaxOrders
           /\ NextPeriod => duties' \in 0..MaxDuty
BY DEF Fault, Order, NextPeriod

\* A startup that ends or is tried again leaves a maintenance flag and its task.
LEMMA AfterStartupTypes ==
    ASSUME FlagType, TaskType, NEW t \in Task, NEW ok \in BOOLEAN,
           AfterStartup(t, ok) \/ Retry(t)
    PROVE  maintenance' \in BOOLEAN /\ TaskType'
<1>1. keep[t] \in BOOLEAN /\ maintenance \in BOOLEAN
  BY DEF TaskType, FlagType
<1>2. maintenance' \in {keep[t], maintenance /\ keep[t], maintenance}
  BY Zenon DEF AfterStartup, Retry
<1>3. maintenance' \in BOOLEAN
  BY Zenon, <1>1, <1>2
<1>4. TaskType'
  BY TaskSteps DEF AfterStartup, Retry, PC
<1> QED  BY <1>3, <1>4

\* The processes and their players keep the types.
LEMMA ProcessTypes ==
    ASSUME TypeOK
    PROVE  /\ \A p \in Proc : DcsWorks(p) \/ DcsFails(p) => TypeOK'
           /\ Players => TypeOK'
<1>1. ASSUME NEW p \in Proc, DcsWorks(p) PROVE TypeOK'
  <2>1. \E s \in ProcState : Becomes(p, s)
    BY <1>1 DEF DcsWorks, ProcState
  <2>2. UNCHANGED players \/ Nobody(p)
    BY <1>1 DEF DcsWorks
  <2>3. \E e \in {"load", "start", "live", "paused", "stop", "empty"} : Emit(e)
    BY <1>1 DEF DcsWorks
  <2>4. DcsType'
    BY <2>1, <2>2, Parts, DcsSteps DEF DcsType
  <2>5. QueueType'
    BY <2>3, Parts, InboxSteps DEF Emit, QueueType
  <2>6. UNCHANGED <<serverVars, flagVars, taskVars, mon, duty, bounds>>
    BY <1>1 DEF DcsWorks
  <2> QED  BY <2>4, <2>5, <2>6, Kept, Parts
<1>2. ASSUME NEW p \in Proc, DcsFails(p) PROVE TypeOK'
  BY <1>2, Parts, DcsSteps, BoundSteps, LifecycleAssumption
  DEF DcsFails, ProcState, serverVars, flagVars, taskVars, DcsType, QueueType,
      ServerType, FlagType, TaskType, TimeType, BoundType
<1>3. ASSUME Players PROVE TypeOK'
  <2>1. DcsType'
    BY <1>3, Parts DEF Players, DcsType
  <2>2. QueueType'
    BY <1>3, Parts, InboxSteps DEF Players, Emit, QueueType
  <2>3. UNCHANGED <<serverVars, flagVars, taskVars, mon, duty, bounds>>
    BY <1>3 DEF Players
  <2> QED  BY <2>1, <2>2, <2>3, Kept, Parts
<1> QED  BY <1>1, <1>2, <1>3

\* Every event handler keeps the types.
LEMMA EventTypes ==
    ASSUME TypeOK
    PROVE  /\ OnMissionLoadBegin => TypeOK'
           /\ OnSimulationStart => TypeOK'
           /\ OnSimulationStop => TypeOK'
           /\ GetMissionUpdate => TypeOK'
           /\ OnServerEmpty => TypeOK'
<1>1. ASSUME OnMissionLoadBegin PROVE TypeOK'
  BY <1>1, Parts, InboxSteps
  DEF OnMissionLoadBegin, Take, Event, Status, procVars, flagVars, taskVars, bounds,
      DcsType, QueueType, ServerType, FlagType, TaskType, TimeType, BoundType
<1>2. ASSUME OnSimulationStart PROVE TypeOK'
  BY <1>2, Parts, InboxSteps
  DEF OnSimulationStart, Take, Event, Status, procVars, taskVars, bounds, DcsType,
      QueueType, ServerType, FlagType, TaskType, TimeType, BoundType
<1>3. ASSUME OnSimulationStop PROVE TypeOK'
  BY <1>3, Parts, InboxSteps
  DEF OnSimulationStop, Take, Event, Status, procVars, flagVars, taskVars, bounds,
      DcsType, QueueType, ServerType, FlagType, TaskType, TimeType, BoundType
<1>4. ASSUME GetMissionUpdate PROVE TypeOK'
  BY <1>4, Parts, InboxSteps
  DEF GetMissionUpdate, Take, Event, Status, procVars, flagVars, taskVars, bounds,
      DcsType, QueueType, ServerType, FlagType, TaskType, TimeType, BoundType
<1>5. ASSUME OnServerEmpty PROVE TypeOK'
  <2>1. TaskType'
    <3>1. CASE onEmpty = "none"
      BY <1>5, <3>1, Parts DEF OnServerEmpty, taskVars, TaskType
    <3>2. CASE onEmpty # "none"
      <4>1. onEmpty \in Kind /\ FirstStep(onEmpty) \in PC
        BY <3>2, Parts DEF FlagType, Kind, PC, FirstStep
      <4>2. PICK t \in Task : Create(t, onEmpty, FirstStep(onEmpty), FALSE)
        BY <1>5, <3>2 DEF OnServerEmpty
      <4> QED  BY <4>1, <4>2, TaskSteps, Parts
    <3> QED  BY <3>1, <3>2
  <2>2. FlagType' /\ QueueType'
    BY <1>5, Parts, InboxSteps DEF OnServerEmpty, FlagType, QueueType, Take, Event, Flagged
  <2> QED  BY <1>5, <2>1, <2>2, Parts DEF OnServerEmpty, procVars, serverVars, bounds,
              DcsType, ServerType, TimeType, BoundType
<1> QED  BY <1>1, <1>2, <1>3, <1>4, <1>5

\* Every step of startup() keeps the types.
LEMMA StartupTypes ==
    ASSUME TypeOK, NEW t \in Task
    PROVE  /\ UpBegin(t) => TypeOK'
           /\ UpLaunch(t) => TypeOK'
           /\ UpTimeout(t) => TypeOK'
           /\ UpLaunchFails(t) => TypeOK'
           /\ UpRaises(t) => TypeOK'
           /\ UpReady(t) => TypeOK'
           /\ UpCrashed(t) => TypeOK'
<1>1. ASSUME UpBegin(t) PROVE TypeOK'
  BY <1>1, Parts, TaskSteps
  DEF UpBegin, PC, Status, procVars, flagVars, bounds, DcsType, QueueType, ServerType,
      FlagType, TaskType, TimeType, BoundType
<1>2. ASSUME UpLaunch(t) PROVE TypeOK'
  BY <1>2, Parts, TaskSteps, DcsSteps
  DEF UpLaunch, PC, ProcState, flagVars, bounds, DcsType, QueueType, ServerType,
      FlagType, TaskType, TimeType, BoundType
<1>3. ASSUME UpTimeout(t) PROVE TypeOK'
  <2>1. AfterStartup(t, FALSE) \/ Retry(t)
    BY <1>3 DEF UpTimeout
  <2>2. maintenance' \in BOOLEAN /\ TaskType'
    BY <2>1, Parts, AfterStartupTypes
  <2>3. BoundType'
    BY <1>3, Parts, BoundSteps, LifecycleAssumption DEF UpTimeout, BoundType
  <2>4. ServerType'
    BY <1>3, Parts, FoundType DEF UpTimeout, ServerType, Status
  <2>5. FlagType'
    BY <1>3, <2>2, Parts DEF UpTimeout, FlagType
  <2>6. UNCHANGED <<procVars, inbox, mon, duty>>
    BY <1>3 DEF UpTimeout
  <2> QED  BY <2>2, <2>3, <2>4, <2>5, <2>6, Kept, Parts
<1>4. ASSUME UpLaunchFails(t) PROVE TypeOK'
  BY <1>4, Parts, TaskSteps, BoundSteps, LifecycleAssumption
  DEF UpLaunchFails, PC, procVars, flagVars, DcsType, QueueType, ServerType, FlagType,
      TaskType, TimeType, BoundType
<1>5. ASSUME UpRaises(t) PROVE TypeOK'
  BY <1>5, Parts, AfterStartupTypes, BoundSteps, LifecycleAssumption
  DEF UpRaises, procVars, serverVars, DcsType, QueueType, ServerType, FlagType,
      TaskType, TimeType, BoundType
<1>6. ASSUME UpReady(t) PROVE TypeOK'
  <2>1. maintenance' \in BOOLEAN /\ TaskType'
    BY <1>6, Parts, AfterStartupTypes DEF UpReady
  <2>2. UNCHANGED <<procVars, inbox, serverVars, pending, onEmpty, updating, mon, duty, bounds>>
    BY <1>6 DEF UpReady
  <2>3. FlagType'
    BY <2>1, <2>2, Parts DEF FlagType
  <2> QED  BY <2>1, <2>2, <2>3, Kept, Parts
<1>7. ASSUME UpCrashed(t) PROVE TypeOK'
  <2>1. AfterStartup(t, FALSE) \/ Retry(t)
    BY <1>7 DEF UpCrashed
  <2>2. maintenance' \in BOOLEAN /\ TaskType'
    BY <2>1, Parts, AfterStartupTypes
  <2> QED  BY <1>7, <2>1, <2>2, Parts
    DEF UpCrashed, procVars, serverVars, bounds, DcsType, QueueType, ServerType,
        FlagType, TimeType, BoundType
<1> QED  BY <1>1, <1>2, <1>3, <1>4, <1>5, <1>6, <1>7

\* Every step of shutdown() keeps the types.
LEMMA ShutdownTypes ==
    ASSUME TypeOK, NEW t \in Task
    PROVE  /\ Down(t) => TypeOK'
           /\ DownStopped(t) => TypeOK'
           /\ DownExited(t) => TypeOK'
           /\ DownKill(t) => TypeOK'
           /\ DownDone(t) => TypeOK'
<1>1. ASSUME Down(t) PROVE TypeOK'
  <2>1. \E s \in PC : Goto(t, s)
    BY <1>1 DEF Down, PC
  <2>2. TaskType'
    BY <2>1, Parts, TaskSteps
  <2> QED  BY <1>1, <2>1, <2>2, Parts, DcsSteps, FoundType
    DEF Down, ProcState, Status, flagVars, bounds, DcsType, QueueType, ServerType,
        FlagType, TimeType, BoundType
<1>2. ASSUME DownStopped(t) PROVE TypeOK'
  <2>1. BoundType'
    BY <1>2, Parts, BoundSteps, LifecycleAssumption DEF DownStopped, BoundType
  <2>2. TaskType'
    BY <1>2, Parts, TaskSteps DEF DownStopped, PC
  <2>3. ServerType'
    BY <1>2, Parts DEF DownStopped, ServerType
  <2>4. UNCHANGED <<procVars, inbox, flagVars, mon, duty>>
    BY <1>2 DEF DownStopped
  <2> QED  BY <2>1, <2>2, <2>3, <2>4, Kept, Parts
<1>3. ASSUME DownExited(t) PROVE TypeOK'
  BY <1>3, Parts, TaskSteps, BoundSteps, LifecycleAssumption
  DEF DownExited, PC, procVars, serverVars, flagVars, DcsType, QueueType, ServerType,
      FlagType, TaskType, TimeType, BoundType
<1>4. ASSUME DownKill(t) PROVE TypeOK'
  BY <1>4, Parts, TaskSteps, DcsSteps
  DEF DownKill, PC, ProcState, Status, procVars, flagVars, taskVars, bounds, DcsType,
      QueueType, ServerType, FlagType, TaskType, TimeType, BoundType
<1>5. ASSUME DownDone(t) PROVE TypeOK'
  BY <1>5, Parts, TaskSteps
  DEF DownDone, PC, procVars, serverVars, bounds, DcsType, QueueType, ServerType,
      FlagType, TaskType, TimeType, BoundType
<1> QED  BY <1>1, <1>2, <1>3, <1>4, <1>5

\* check_state() and the actions it starts keep the types.
LEMMA ScheduleTypes ==
    ASSUME TypeOK, NEW t \in Task
    PROVE  /\ CheckLaunch(t) => TypeOK'
           /\ CheckTeardown(t) => TypeOK'
           /\ CheckAction(t) => TypeOK'
           /\ Delayed(t) => TypeOK'
           /\ Warned(t) => TypeOK'
           /\ RunAction(t) => TypeOK'
           /\ RunActionSkips(t) => TypeOK'
<1>1. ASSUME CheckLaunch(t) PROVE TypeOK'
  <2>1. \E k \in Kind, s \in PC : Create(t, k, s, FALSE)
    BY <1>1 DEF CheckLaunch, Kind, PC
  <2>2. TaskType'
    BY <2>1, Parts, TaskSteps
  <2> QED  BY <1>1, <2>1, <2>2, Parts
    DEF CheckLaunch, Method, Status, procVars, flagVars, bounds, DcsType, QueueType,
        ServerType, FlagType, TimeType, BoundType
<1>2. ASSUME CheckTeardown(t) PROVE TypeOK'
  <2>1. \E k \in Kind, s \in PC : Create(t, k, s, FALSE)
    BY <1>2 DEF CheckTeardown, Kind, PC
  <2>2. TaskType'
    BY <2>1, Parts, TaskSteps
  <2> QED  BY <1>2, <2>1, <2>2, Parts
    DEF CheckTeardown, Method, procVars, serverVars, bounds, DcsType, QueueType,
        ServerType, FlagType, TimeType, BoundType
<1>3. ASSUME CheckAction(t) PROVE TypeOK'
  <2>1. UNCHANGED taskVars \/ \E k \in Kind, s \in PC : Create(t, k, s, TRUE)
    BY <1>3 DEF CheckAction, Kind, Method, PC, FirstStep, taskVars
  <2>2. TaskType'
    BY <2>1, Parts, TaskSteps
  <2>3. PICK m \in Method :
            /\ onEmpty' \in {onEmpty, m} /\ maintenance' \in {maintenance, Flagged(m)}
    BY <1>3 DEF CheckAction
  <2>4. FlagType'
    BY <1>3, <2>3, Parts DEF CheckAction, FlagType, Flagged
  <2> QED  BY <1>3, <2>2, <2>4, Parts, BoundSteps, LifecycleAssumption
    DEF CheckAction, procVars, serverVars, DcsType, QueueType, ServerType, TimeType,
        BoundType
<1>4. ASSUME Delayed(t) PROVE TypeOK'
  BY <1>4, Parts, TaskSteps
  DEF Delayed, PC, procVars, serverVars, bounds, DcsType, QueueType, ServerType,
      FlagType, TaskType, TimeType, BoundType
<1>5. ASSUME Warned(t) PROVE TypeOK'
  BY <1>5, Parts, TaskSteps
  DEF Warned, PC, FirstStep, Flagged, procVars, serverVars, bounds, DcsType, QueueType,
      ServerType, FlagType, TaskType, TimeType, BoundType
<1>6. ASSUME RunAction(t) PROVE TypeOK'
  <2>1. End(t) \/ \E s \in PC : Goto(t, s)
    BY <1>6 DEF RunAction, PC
  <2>2. TaskType'
    BY <2>1, Parts, TaskSteps
  <2> QED  BY <1>6, <2>1, <2>2, Parts, DcsSteps
    DEF RunAction, ProcState, Status, flagVars, bounds, DcsType, QueueType, ServerType,
        FlagType, TimeType, BoundType
<1>7. ASSUME RunActionSkips(t) PROVE TypeOK'
  BY <1>7, Parts, TaskSteps, BoundSteps, LifecycleAssumption
  DEF RunActionSkips, PC, procVars, serverVars, flagVars, DcsType, QueueType,
      ServerType, FlagType, TaskType, TimeType, BoundType
<1> QED  BY <1>1, <1>2, <1>3, <1>4, <1>5, <1>6, <1>7

\* The admin commands and the updates keep the types.
LEMMA AdminTypes ==
    ASSUME TypeOK, NEW t \in Task
    PROVE  /\ AdminStartup(t) => TypeOK'
           /\ AdminShutdown(t) => TypeOK'
           /\ AdminRestart(t) => TypeOK'
           /\ UpdateBegins(t) => TypeOK'
           /\ UpdateWarned(t) => TypeOK'
           /\ UpdateEnds(t) => TypeOK'
           /\ UpdateBreaks(t) => TypeOK'
<1>1. ASSUME AdminStartup(t) PROVE TypeOK'
  <2>1. \E k \in Kind, s \in PC, b \in BOOLEAN : Create(t, k, s, b)
    BY <1>1 DEF AdminStartup, Kind, PC
  <2>2. TaskType'
    BY <2>1, Parts, TaskSteps
  <2>3. BoundType'
    BY <1>1, Parts, BoundSteps, LifecycleAssumption DEF AdminStartup, BoundType
  <2>4. FlagType'
    BY <1>1, Parts DEF AdminStartup, FlagType, Method
  <2>5. UNCHANGED <<procVars, inbox, serverVars, mon, duty>>
    BY <1>1 DEF AdminStartup
  <2> QED  BY <2>2, <2>3, <2>4, <2>5, Kept, Parts
<1>2. ASSUME AdminShutdown(t) PROVE TypeOK'
  <2>1. UNCHANGED taskVars \/ \E k \in Kind, s \in PC, b \in BOOLEAN : Create(t, k, s, b)
    BY <1>2 DEF AdminShutdown, Kind, PC, taskVars
  <2>2. TaskType'
    BY <2>1, Parts, TaskSteps
  <2>3. BoundType'
    BY <1>2, Parts, BoundSteps, LifecycleAssumption DEF AdminShutdown, BoundType
  <2>4. FlagType'
    BY <1>2, Parts DEF AdminShutdown, FlagType, Method
  <2>5. UNCHANGED <<procVars, inbox, serverVars, mon, duty>>
    BY <1>2 DEF AdminShutdown
  <2> QED  BY <2>2, <2>3, <2>4, <2>5, Kept, Parts
<1>3. ASSUME AdminRestart(t) PROVE TypeOK'
  <2>1. \E k \in Kind, s \in PC : Create(t, k, s, maintenance)
    BY <1>3 DEF AdminRestart, Kind, PC
  <2>2. TaskType'
    BY <2>1, Parts, TaskSteps DEF FlagType
  <2>3. BoundType'
    BY <1>3, Parts, BoundSteps, LifecycleAssumption DEF AdminRestart, BoundType
  <2>4. FlagType'
    BY <1>3, Parts DEF AdminRestart, FlagType, Method
  <2>5. UNCHANGED <<procVars, inbox, serverVars, mon, duty>>
    BY <1>3 DEF AdminRestart
  <2> QED  BY <2>2, <2>3, <2>4, <2>5, Kept, Parts
<1>4. ASSUME UpdateBegins(t) PROVE TypeOK'
  <2>1. \E k \in Kind \cup {"none"}, s \in PC, b \in BOOLEAN : Create(t, k, s, b)
    BY <1>4, Parts DEF UpdateBegins, Kind, PC, FlagType
  <2>2. TaskType'
    BY <2>1, Parts, TaskSteps
  <2>3. BoundType'
    BY <1>4, Parts, BoundSteps, LifecycleAssumption DEF UpdateBegins, BoundType
  <2>4. FlagType'
    BY <1>4, Parts DEF UpdateBegins, FlagType, Method
  <2>5. UNCHANGED <<procVars, inbox, serverVars, mon, duty>>
    BY <1>4 DEF UpdateBegins
  <2> QED  BY <2>2, <2>3, <2>4, <2>5, Kept, Parts
<1>5. ASSUME UpdateEnds(t) PROVE TypeOK'
  <2>1. TaskType'
    BY <1>5, Parts, TaskSteps DEF UpdateEnds, PC
  <2>2. FlagType'
    BY <1>5, Parts DEF UpdateEnds, FlagType, TaskType
  <2>3. UNCHANGED <<procVars, inbox, serverVars, mon, duty, bounds>>
    BY <1>5 DEF UpdateEnds
  <2> QED  BY <2>1, <2>2, <2>3, Kept, Parts
<1>6. ASSUME UpdateBreaks(t) PROVE TypeOK'
  BY <1>6, Parts, TaskSteps, BoundSteps, LifecycleAssumption
  DEF UpdateBreaks, PC, procVars, serverVars, DcsType, QueueType, ServerType, FlagType,
      TaskType, TimeType, BoundType
<1>7. ASSUME UpdateWarned(t) PROVE TypeOK'
  <2>1. TaskType'
    BY <1>7, Parts, TaskSteps DEF UpdateWarned, PC
  <2>2. UNCHANGED <<procVars, inbox, serverVars, flagVars, mon, duty, bounds>>
    BY <1>7 DEF UpdateWarned
  <2> QED  BY <2>1, <2>2, Kept, Parts
<1> QED  BY <1>1, <1>2, <1>3, <1>4, <1>5, <1>6, <1>7

\* The monitor, the passing of time and the maintenance flag keep the types.
LEMMA MonitorTypes ==
    ASSUME TypeOK
    PROVE  /\ HbDead => TypeOK'
           /\ HbReported => TypeOK'
           /\ HbKeepAlive => TypeOK'
           /\ HbHung => TypeOK'
           /\ HbDumped => TypeOK'
           /\ HbKilled => TypeOK'
           /\ NextPeriod => TypeOK'
           /\ AdminFlag => TypeOK'
<1>1. ASSUME HbDead PROVE TypeOK'
  BY <1>1, Parts, FoundType
  DEF HbDead, Status, procVars, flagVars, taskVars, bounds, DcsType, QueueType,
      ServerType, FlagType, TaskType, TimeType, BoundType
<1>2. ASSUME HbReported PROVE TypeOK'
  BY <1>2, Parts
  DEF HbReported, Status, procVars, flagVars, taskVars, bounds, DcsType, QueueType,
      ServerType, FlagType, TaskType, TimeType, BoundType
<1>3. ASSUME HbKeepAlive PROVE TypeOK'
  <2>1. QueueType'
    BY <1>3, Parts, InboxSteps DEF HbKeepAlive, Emit, QueueType
  <2>2. UNCHANGED <<procVars, serverVars, flagVars, taskVars, mon, duty, bounds>>
    BY <1>3 DEF HbKeepAlive
  <2> QED  BY <2>1, <2>2, Kept, Parts
<1>4. ASSUME HbHung PROVE TypeOK'
  BY <1>4, Parts, DcsSteps, FoundType, BoundSteps, LifecycleAssumption
  DEF HbHung, ProcState, Status, procVars, flagVars, taskVars, DcsType, QueueType,
      ServerType, FlagType, TaskType, TimeType, BoundType
<1>5. ASSUME HbDumped PROVE TypeOK'
  BY <1>5, Parts, DcsSteps
  DEF HbDumped, ProcState, procVars, flagVars, taskVars, bounds, DcsType, QueueType,
      ServerType, FlagType, TaskType, TimeType, BoundType
<1>6. ASSUME HbKilled PROVE TypeOK'
  BY <1>6, Parts
  DEF HbKilled, Status, procVars, flagVars, taskVars, bounds, DcsType, QueueType,
      ServerType, FlagType, TaskType, TimeType, BoundType
<1>7. ASSUME NextPeriod PROVE TypeOK'
  BY <1>7, Parts, BoundSteps, LifecycleAssumption
  DEF NextPeriod, procVars, serverVars, flagVars, taskVars, DcsType, QueueType,
      ServerType, FlagType, TaskType, TimeType, BoundType
<1>8. ASSUME AdminFlag PROVE TypeOK'
  <2>1. BoundType'
    BY <1>8, Parts, BoundSteps, LifecycleAssumption DEF AdminFlag, BoundType
  <2>2. FlagType'
    BY <1>8, Parts DEF AdminFlag, FlagType
  <2>3. UNCHANGED <<procVars, inbox, serverVars, taskVars, mon, duty>>
    BY <1>8 DEF AdminFlag
  <2> QED  BY <2>1, <2>2, <2>3, Kept, Parts
<1> QED  BY <1>1, <1>2, <1>3, <1>4, <1>5, <1>6, <1>7, <1>8

\* The variables of the server life cycle keep their types: whatever the coroutines, the
\* monitor, the scheduler and DCS do, and however often.
THEOREM TypeCorrect == Spec => []TypeOK
<1>1. Init => TypeOK
  <2> SUFFICES ASSUME Init PROVE TypeOK
    OBVIOUS
  <2>1. dcs \in [Proc -> ProcState] /\ players \in BOOLEAN
    BY DEF Init, ProcState
  <2>2. mission \in BOOLEAN
    BY Zenon DEF Init
  <2>3. QueueType /\ ServerType
    BY <2>2 DEF Init, QueueType, InboxType, ServerType, Status
  <2>4. FlagType /\ TaskType
    BY DEF Init, FlagType, TaskType, Kind, PC
  <2>5. TimeType /\ BoundType
    BY LifecycleAssumption DEF Init, TimeType, BoundType
  <2> QED  BY <2>1, <2>3, <2>4, <2>5, Parts DEF DcsType
<1>2. TypeOK /\ [Next]_vars => TypeOK'
  <2> SUFFICES ASSUME TypeOK, [Next]_vars PROVE TypeOK'
    OBVIOUS
  <2>1. ASSUME NEW t \in Task, Wake(t) PROVE TypeOK'
    BY <2>1, StartupTypes, ShutdownTypes DEF Wake
  <2>2. ASSUME Dcs \/ Players PROVE TypeOK'
    BY <2>2, ProcessTypes DEF Dcs
  <2>3. CASE Handle
    BY <2>3, EventTypes DEF Handle
  <2>4. CASE Heartbeat \/ HbKeepAlive \/ NextPeriod
    BY <2>4, MonitorTypes DEF Heartbeat
  <2>5. ASSUME NEW t \in Task, Step(t) PROVE TypeOK'
    BY <2>5, StartupTypes, ShutdownTypes, ScheduleTypes, AdminTypes
       DEF Step, Startup, Shutdown
  <2>6. ASSUME NEW t \in Task, Fails(t) PROVE TypeOK'
    BY <2>6, StartupTypes, ScheduleTypes, AdminTypes DEF Fails, StartupFails
  <2>7. ASSUME NEW t \in Task, Check(t) \/ Admin(t) \/ UpdateBegins(t) PROVE TypeOK'
    BY <2>7, ScheduleTypes, AdminTypes DEF Check, Admin
  <2>8. CASE AdminFlag
    BY <2>8, MonitorTypes
  <2>9. CASE UNCHANGED vars
    BY <2>9, Parts DEF vars, procVars, serverVars, flagVars, taskVars, bounds,
       DcsType, QueueType, ServerType, FlagType, TaskType, TimeType, BoundType
  <2> QED  BY <2>1, <2>2, <2>3, <2>4, <2>5, <2>6, <2>7, <2>8, <2>9 DEF Next, Others
<1> QED  BY <1>1, <1>2, PTL DEF Spec
-----------------------------------------------------------------------------
(* A server that only its schedule and the autoupdater start and stop: it  *)
(* never has two processes, one that is down has none, and the updater     *)
(* runs alone.                                                             *)

\* Nobody gives orders, and waits are as short as assumed; launches are delayed only where
\* neither updates nor warnings of players happen meanwhile.
Unattended ==
    /\ Actors \subseteq {"schedule", "autoupdate"}
    /\ May \cap {"hasty", "peek"} = {}
    /\ "late" \in May => "autoupdate" \notin Actors /\ "players" \notin May

Dead == \A p \in Proc : dcs[p] = "none"
Rising == {"delay", "choose", "up", "prepare"}
Falling == {"down", "stopping", "exiting", "killing", "downed"}
UpdateKind(t) ==
    pc[t] = "updating" \/ (kind[t] = "update" /\ pc[t] \in Falling \cup {"warn"})

\* The bot holds the only process; a server that is down, or whose end the monitor
\* reports, has none; a server without a working process has no players.
ProcessOK ==
    /\ \A p \in Proc : Alive(p) => handle = p
    /\ status = "SHUTDOWN" \/ mon \in {"report", "audit"} => Dead /\ handle = None
    /\ players => "players" \in May /\ \E p \in Proc : dcs[p] \notin {"none", "idle"}

\* Which coroutines there are.
KindOK(t) ==
    /\ pc[t] = "free" => kind[t] = "none"
    /\ pc[t] = "warn" => kind[t] \in {"teardown", "update"} /\ "players" \in May
    /\ pc[t] = "delay" => kind[t] \in {"launch", "load"} /\ "late" \in May
    /\ pc[t] = "choose" => kind[t] = "load"
    /\ pc[t] \in {"up", "prepare", "await"} => kind[t] \in {"launch", "load", "update"}
    /\ pc[t] \in Falling => kind[t] \in {"teardown", "update"}
    /\ pc[t] = "updating" => kind[t] \in {"none", "update"}

\* Nothing else happens while a launch is prepared.
RisingOK(t) ==
    pc[t] \in Rising =>
        /\ Dead /\ inbox = <<>> /\ mon = "idle"
        /\ pc[t] = "up" \/ status = "LOADING"
        /\ pc[t] = "delay" => handle = None
        /\ \A u \in Task \ {t} : pc[u] \in {"free", "warn"}

\* There is one update at a time, after which no coroutine waits for a process any more.
UpdateOK(t) ==
    /\ UpdateKind(t) => updating /\ \A u \in Task \ {t} : ~UpdateKind(u)
    /\ pc[t] = "downed" =>
          Dead /\ (status = "SHUTDOWN" \/ \A u \in Task : pc[u] \notin {"await", "stopping"})
    /\ pc[t] = "updating" => Dead /\ \A u \in Task \ {t} : pc[u] \notin {"await", "stopping"}

TasksOK == onEmpty = "none" /\ \A t \in Task : KindOK(t) /\ RisingOK(t) /\ UpdateOK(t)

LifeInv == ProcessOK /\ TasksOK

\* What Unattended excludes, whatever the state.
LEMMA NobodyOrders ==
    ASSUME Unattended, TypeOK, TasksOK
    PROVE  /\ ~AdminFlag /\ ~Order("action") /\ ~Order("admin") /\ ~Order("update")
           /\ \A t \in Task : ~CheckAction(t) /\ ~Admin(t) /\ ~Retry(t)
           /\ Calm => inbox = <<>> /\ mon = "idle" /\ \A t \in Task :
                          pc[t] \in {"free", "warn", "await", "stopping", "updating", "delay"}
<1>1. ~Order("action") /\ ~Order("admin") /\ ~Order("update")
  BY DEF Unattended, Order
<1>2. \A t \in Task : ~CheckAction(t) /\ ~Admin(t)
  BY <1>1 DEF CheckAction, Admin, AdminStartup, AdminShutdown, AdminRestart
<1>3. ASSUME NEW t \in Task PROVE ~Retry(t)
  <2>1. pc[t] \in PC
    BY DEF TypeOK
  <2> QED  BY <2>1 DEF TasksOK, KindOK, Retry, PC, Falling
<1>4. ASSUME Calm
      PROVE  inbox = <<>> /\ mon = "idle" /\ \A t \in Task :
                          pc[t] \in {"free", "warn", "await", "stopping", "updating", "delay"}
  <2>1. inbox = <<>> /\ mon = "idle" /\ \A t \in Task : pc[t] \notin Short
    BY <1>4 DEF Calm, Unattended
  <2>2. \A t \in Task : pc[t] \in PC
    BY DEF TypeOK
  <2>3. {"choose", "up", "down", "exiting", "killing", "downed", "prepare"} \subseteq Short
    BY DEF Short, Unattended
  <2> QED  BY <2>1, <2>2, <2>3 DEF PC
<1> QED  BY <1>1, <1>2, <1>3, <1>4 DEF AdminFlag

\* is_running() finds the process the bot holds, or none because there is none.
LEMMA FoundIs ==
    ASSUME ProcessOK, NEW h \in Found
    PROVE  /\ h = None => Dead /\ ~Alive(handle)
           /\ h # None => h = handle /\ Alive(handle)
BY LifecycleAssumption DEF ProcessOK, Found, Living, Alive, Dead

\* A step of the world around the coroutines.
LEMMA WorldStep ==
    ASSUME TasksOK, UNCHANGED <<kind, pc, updating, onEmpty>>,
           \A t \in Task : ~Awake(t),
           Dead => Dead',
           (\A t \in Task : pc[t] \notin Rising) \/ UNCHANGED <<inbox, mon, status, handle>>
    PROVE  TasksOK'
<1> SUFFICES ASSUME NEW t \in Task PROVE KindOK(t)' /\ RisingOK(t)' /\ UpdateOK(t)'
  BY DEF TasksOK
<1>1. KindOK(t) /\ RisingOK(t) /\ UpdateOK(t)
  BY DEF TasksOK
<1>2. KindOK(t)'
  BY <1>1 DEF KindOK
<1>3. RisingOK(t)'
  BY <1>1 DEF RisingOK
<1>4. UpdateOK(t)'
  <2>1. \A u \in Task : UpdateKind(u)' <=> UpdateKind(u)
    BY DEF UpdateKind
  <2>2. status = "SHUTDOWN" => \A u \in Task : pc[u] \notin {"await", "stopping"}
    BY DEF Awake
  <2> QED  BY <1>1, <2>1, <2>2 DEF UpdateOK
<1> QED  BY <1>2, <1>3, <1>4

\* A step of one coroutine: what it must not do to the others, and what it has to be
\* itself afterwards.
LEMMA TaskStep ==
    ASSUME TasksOK, NEW t \in Task, onEmpty' = onEmpty,
           \A u \in Task \ {t} : pc'[u] = pc[u] /\ kind'[u] = kind[u],
           KindOK(t)', RisingOK(t)', UpdateOK(t)',
           (Dead => Dead') \/ \A u \in Task \ {t} : pc[u] \in {"free", "warn"},
           status' \in {status, "SHUTDOWN"} \/ \A u \in Task : ~Awake(u),
           \A u \in Task \ {t} :
               /\ pc[u] \in Rising =>
                    pc'[t] \in {"free", "warn"} /\ UNCHANGED <<inbox, mon, status, handle>>
               /\ UpdateKind(u) => updating' /\ ~UpdateKind(t)'
               /\ pc[u] \in {"downed", "updating"} =>
                    pc'[t] \notin {"await", "stopping"} \/ pc'[t] = pc[t]
    PROVE  TasksOK'
<1> SUFFICES ASSUME NEW u \in Task \ {t} PROVE KindOK(u)' /\ RisingOK(u)' /\ UpdateOK(u)'
  BY DEF TasksOK
<1>1. KindOK(u) /\ RisingOK(u) /\ UpdateOK(u) /\ pc'[u] = pc[u] /\ kind'[u] = kind[u]
  BY DEF TasksOK
<1>2. KindOK(u)'
  BY <1>1 DEF KindOK
<1>3. Dead /\ pc[u] \notin {"free", "warn"} => Dead'
  OBVIOUS
<1>4. RisingOK(u)'
  BY <1>1, <1>3 DEF RisingOK, Rising
<1>5. UpdateOK(u)'
  <2>1. \A v \in Task \ {t} : UpdateKind(v)' <=> UpdateKind(v)
    BY DEF UpdateKind
  <2>2. UpdateKind(u)' => updating' /\ \A v \in Task \ {u} : ~UpdateKind(v)'
    BY <1>1, <2>1 DEF UpdateOK
  <2>3. (\A v \in Task : ~Awake(v)) /\ status = "SHUTDOWN" => \A v \in Task : pc[v] \notin {"await", "stopping"}
    BY DEF Awake
  <2>4. pc[u] = "downed" => Dead' /\ (status' = "SHUTDOWN" \/ \A v \in Task : pc'[v] \notin {"await", "stopping"})
    BY <1>1, <1>3, <2>3 DEF UpdateOK
  <2>5. pc[u] = "updating" => Dead' /\ \A v \in Task \ {u} : pc'[v] \notin {"await", "stopping"}
    BY <1>1, <1>3 DEF UpdateOK
  <2> QED  BY <1>1, <2>2, <2>4, <2>5 DEF UpdateOK
<1> QED  BY <1>2, <1>4, <1>5

\* The DCS processes and their players.
LEMMA ProcessSteps ==
    ASSUME TypeOK, LifeInv, \A t \in Task : ~Awake(t)
    PROVE  /\ Dcs => LifeInv'
           /\ Players => LifeInv'
<1>1. \A t \in Task : pc[t] \in Rising => Dead
  BY DEF LifeInv, TasksOK, RisingOK
<1>2. ASSUME NEW p \in Proc, DcsWorks(p) \/ DcsFails(p) PROVE LifeInv'
  <2>1. dcs[p] # "none" /\ ~Dead
    BY <1>2 DEF DcsWorks, DcsFails, Alive, Dead
  <2>2. UNCHANGED <<status, handle, mon, kind, pc, updating, onEmpty>>
    BY <1>2 DEF DcsWorks, DcsFails, serverVars, flagVars, taskVars
  <2>3. PICK s \in ProcState : dcs' = [dcs EXCEPT ![p] = s]
    BY <1>2 DEF DcsWorks, DcsFails, Becomes, ProcState
  <2>4. TasksOK'
    BY <1>1, <2>1, <2>2, WorldStep DEF LifeInv
  <2>5. \A q \in Proc : Alive(q)' => handle' = q
    BY <2>1, <2>2, <2>3 DEF LifeInv, ProcessOK, Alive, TypeOK
  <2>6. players' => \E q \in Proc : dcs'[q] \notin {"none", "idle"}
    <3>1. CASE Nobody(p)
      BY <2>3, <3>1 DEF Nobody, TypeOK
    <3>2. CASE UNCHANGED players /\ s \in {"load", "run"}
      BY <2>3, <3>2 DEF TypeOK
    <3> QED  BY <1>2, <2>3, <3>1, <3>2 DEF DcsWorks, DcsFails, Becomes, TypeOK
  <2>7. players' => players
    BY <1>2 DEF DcsWorks, DcsFails, Nobody
  <2> QED  BY <2>1, <2>2, <2>4, <2>5, <2>6, <2>7 DEF LifeInv, ProcessOK
<1>3. ASSUME Players PROVE LifeInv'
  <2>1. UNCHANGED <<dcs, status, handle, mon, kind, pc, updating, onEmpty>>
    BY <1>3 DEF Players, serverVars, flagVars, taskVars
  <2>2. Dead => UNCHANGED inbox
    BY <1>3 DEF Players, Dead, LifeInv, ProcessOK
  <2>3. TasksOK'
    BY <1>1, <2>1, <2>2, WorldStep DEF LifeInv, Dead
  <2>4. players' => "players" \in May /\ \E q \in Proc : dcs'[q] \notin {"none", "idle"}
    BY <1>3, <2>1 DEF Players, LifeInv, ProcessOK
  <2> QED  BY <2>1, <2>3, <2>4 DEF LifeInv, ProcessOK, Alive, Dead
<1> QED  BY <1>2, <1>3 DEF Dcs

\* The events of the server; one is waiting only when no launch is prepared.
LEMMA EventSteps ==
    ASSUME LifeInv, Handle, \A t \in Task : ~Awake(t)
    PROVE  LifeInv'
<1>1. onEmpty = "none" /\ inbox # <<>>
  BY DEF LifeInv, TasksOK, Handle, OnMissionLoadBegin, OnSimulationStart, OnSimulationStop, GetMissionUpdate,
         OnServerEmpty, Event
<1>2. UNCHANGED <<dcs, players, handle, mon, kind, pc, updating>> /\ onEmpty' = "none"
  BY <1>1 DEF Handle, OnMissionLoadBegin, OnSimulationStart, OnSimulationStop, GetMissionUpdate, OnServerEmpty,
              procVars, serverVars, flagVars, taskVars
<1>3. status' = status \/ status' # "SHUTDOWN"
  BY DEF Handle, OnMissionLoadBegin, OnSimulationStart, OnSimulationStop, GetMissionUpdate, OnServerEmpty,
         serverVars
<1>4. \A t \in Task : pc[t] \notin Rising
  BY <1>1 DEF LifeInv, TasksOK, RisingOK
<1>5. TasksOK'
  BY <1>1, <1>2, <1>4, WorldStep DEF LifeInv, Dead
<1> QED  BY <1>2, <1>3, <1>5 DEF LifeInv, ProcessOK, Alive, Dead

\* The monitor: it reports a process that has died, and kills one that hangs.
LEMMA MonitorSteps ==
    ASSUME TypeOK, LifeInv, Unattended, Heartbeat \/ HbKeepAlive \/ NextPeriod, \A t \in Task : ~Awake(t)
    PROVE  LifeInv'
<1>1. ASSUME NEW t \in Task, pc[t] \in Rising PROVE ~HbDead /\ ~HbHung /\ ~HbKeepAlive
  <2>1. Dead /\ (pc[t] = "up" \/ status = "LOADING") /\ (pc[t] = "delay" => handle = None)
    BY <1>1 DEF LifeInv, TasksOK, RisingOK
  <2>2. Calm => pc[t] = "delay"
    BY <1>1, NobodyOrders DEF LifeInv, Rising
  <2>3. Working = {}
    BY <2>1 DEF Working, Dead
  <2> QED  BY <2>1, <2>2, <2>3 DEF HbDead, HbHung, HbKeepAlive, Watched, Silent
<1>2. mon # "idle" => \A t \in Task : pc[t] \notin Rising
  BY DEF LifeInv, TasksOK, RisingOK
<1>3. UNCHANGED <<kind, pc, updating, onEmpty>>
  BY DEF Heartbeat, HbDead, HbReported, HbHung, HbDumped, HbKilled, HbKeepAlive, NextPeriod, flagVars, taskVars
<1>4. (\A t \in Task : pc[t] \notin Rising) \/ UNCHANGED <<inbox, mon, status, handle>>
  BY <1>1, <1>2 DEF Heartbeat, HbDead, HbReported, HbHung, HbDumped, HbKilled, HbKeepAlive, NextPeriod, Watched,
                    serverVars
<1>5. ProcessOK' /\ (Dead => Dead')
  <2> USE DEF LifeInv
  <2>1. CASE HbDead
    <3>1. PICK h \in Found : handle' = h /\ IF h # None THEN UNCHANGED <<status, mon>>
                                           ELSE status' \in {status, "SHUTDOWN"} /\ mon' \in {mon, "report"}
      BY <2>1 DEF HbDead
    <3>2. UNCHANGED <<dcs, players>>
      BY <2>1 DEF HbDead, procVars
    <3> QED  BY <3>1, <3>2, FoundIs DEF ProcessOK, Alive, Dead
  <2>2. CASE HbReported \/ HbKilled
    BY <2>2 DEF HbReported, HbKilled, ProcessOK, Alive, Dead, procVars
  <2>3. CASE HbHung
    <3>1. CASE Alive(handle)
      BY <2>3, <3>1, LifecycleAssumption DEF HbHung, ProcessOK, Alive, Dead, procVars
    <3>2. CASE ~Alive(handle)
      <4>1. Found = {None} /\ Dead
        BY <3>2, FoundIs DEF ProcessOK, Found, Living, Alive, Dead
      <4>2. UNCHANGED <<dcs, players>> /\ handle' = None
        BY <2>3, <3>2, <4>1 DEF HbHung, procVars
      <4> QED  BY <4>1, <4>2 DEF ProcessOK, Alive, Dead
    <3> QED  BY <3>1, <3>2
  <2>4. CASE HbDumped
    <3>1. CASE Alive(handle)
      <4>1. handle \in Proc /\ dcs' = [dcs EXCEPT ![handle] = "none"] /\ Nobody(handle)
        BY <2>4, <3>1 DEF HbDumped, Becomes, Alive
      <4>2. Dead' /\ ~players' /\ handle' = None
        BY <2>4, <3>1, <4>1 DEF HbDumped, ProcessOK, Alive, Dead, Nobody, TypeOK
      <4> QED  BY <4>2 DEF ProcessOK, Alive, Dead
    <3>2. CASE ~Alive(handle)
      BY <2>4, <3>2 DEF HbDumped, ProcessOK, Alive, Dead, procVars
    <3> QED  BY <3>1, <3>2
  <2>5. CASE HbKeepAlive \/ NextPeriod
    BY <2>5 DEF HbKeepAlive, NextPeriod, ProcessOK, Alive, Dead, procVars, serverVars
  <2> QED  BY <2>1, <2>2, <2>3, <2>4, <2>5 DEF Heartbeat
<1>6. TasksOK'
  BY <1>3, <1>4, <1>5, WorldStep DEF LifeInv
<1> QED  BY <1>5, <1>6 DEF LifeInv

\* A coroutine that prepares a launch is alone with those that warn the players.
LEMMA RisingStep ==
    ASSUME TypeOK, LifeInv, NEW t \in Task, pc[t] \in Rising, UNCHANGED <<onEmpty, updating>>,
           \A u \in Task \ {t} : pc'[u] = pc[u] /\ kind'[u] = kind[u],
           \/ End(t)
           \/ /\ kind'[t] = kind[t] /\ kind[t] \in {"launch", "load", "update"}
              /\ \/ pc'[t] = "await"
                 \/ /\ pc'[t] \in {"choose", "up", "prepare"} /\ Dead' /\ UNCHANGED <<inbox, mon>>
                    /\ (pc'[t] = "up" \/ status' = "LOADING") /\ (pc'[t] = "choose" => kind[t] = "load"),
           status' \in {status, "SHUTDOWN"} \/ \A u \in Task : ~Awake(u)
    PROVE  TasksOK'
<1>1. Dead /\ inbox = <<>> /\ mon = "idle" /\ \A u \in Task \ {t} : pc[u] \in {"free", "warn"}
  BY DEF LifeInv, TasksOK, RisingOK
<1>2. (pc'[t] = "free" /\ kind'[t] = "none") \/ (pc'[t] \in {"await", "choose", "up", "prepare"} /\ kind'[t] = kind[t]
                                              /\ (pc'[t] = "choose" => kind[t] = "load") /\ kind[t] \in {"launch", "load", "update"})
  BY DEF End, TypeOK
<1>3. KindOK(t)'
  BY <1>2 DEF KindOK, Falling
<1>4. RisingOK(t)'
  BY <1>1, <1>2 DEF RisingOK, Rising, End, TypeOK
<1>5. UpdateOK(t)'
  BY <1>2 DEF UpdateOK, UpdateKind, Falling
<1>6. \A u \in Task \ {t} : pc[u] \notin Rising /\ pc[u] \notin {"downed", "updating"}
  BY <1>1 DEF Rising
<1>7. ~UpdateKind(t)' /\ \A u \in Task \ {t} : UpdateKind(u) => updating'
  BY <1>2 DEF UpdateKind, Falling, LifeInv, TasksOK, UpdateOK
<1> QED  BY <1>1, <1>3, <1>4, <1>5, <1>6, <1>7, TaskStep DEF LifeInv

\* What a step that leaves the processes alone keeps.
LEMMA SameProcesses ==
    ASSUME LifeInv, UNCHANGED <<dcs, players, mon>>, handle' = handle \/ (Dead /\ handle' = None),
           status' \in {status, "LOADING", "SHUTTING_DOWN"} \/ (Dead /\ handle' = None)
    PROVE  ProcessOK' /\ (Dead => Dead')
BY DEF LifeInv, ProcessOK, Alive, Dead

\* The steps of a launch.
LEMMA LaunchSteps ==
    ASSUME TypeOK, LifeInv, NEW t \in Task,
           (\A u \in Task : ~Awake(u)),
           \/ UpBegin(t) \/ UpLaunch(t) \/ UpLaunchFails(t) \/ UpRaises(t)
           \/ RunAction(t) \/ RunActionSkips(t) \/ Delayed(t)
    PROVE  LifeInv'
<1>1. pc[t] \in Rising
  BY DEF Rising, UpBegin, UpLaunch, UpLaunchFails, UpRaises, RunAction, RunActionSkips, Delayed
<1>2. /\ Dead /\ inbox = <<>> /\ mon = "idle" /\ (pc[t] = "up" \/ status = "LOADING")
      /\ kind[t] \in {"launch", "load", "update"} /\ (pc[t] = "choose" => kind[t] = "load") /\ onEmpty = "none"
      /\ (pc[t] = "delay" => kind[t] \in {"launch", "load"})
  BY <1>1 DEF LifeInv, TasksOK, RisingOK, KindOK, Rising
<1>3. (\E s \in PC : Goto(t, s)) \/ End(t)
  BY DEF UpBegin, UpLaunch, UpLaunchFails, UpRaises, RunAction, RunActionSkips, Delayed, AfterStartup, PC
<1>4. \A u \in Task \ {t} : pc'[u] = pc[u] /\ kind'[u] = kind[u]
  BY <1>3 DEF Goto, End, TypeOK
<1>5. \A s \in PC : Goto(t, s) => pc'[t] = s /\ kind'[t] = kind[t]
  BY DEF Goto, TypeOK
<1>0. UNCHANGED updating
  BY DEF UpBegin, UpLaunch, UpLaunchFails, UpRaises, RunAction, RunActionSkips, Delayed, flagVars
<1>6. CASE UpBegin(t)
  <2>1. /\ pc'[t] = "prepare" /\ status' = "LOADING" /\ kind'[t] = kind[t]
        /\ UNCHANGED <<dcs, players, inbox, handle, mon, onEmpty>>
    BY <1>5, <1>6 DEF UpBegin, procVars, flagVars, PC
  <2>2. ProcessOK' /\ Dead'
    BY <1>2, <2>1, SameProcesses
  <2> QED  BY <1>0, <1>1, <1>2, <1>4, <2>1, <2>2, RisingStep DEF LifeInv
<1>7. CASE UpLaunch(t)
  <2>1. /\ pc'[t] = "await" /\ kind'[t] = kind[t] /\ UNCHANGED <<players, inbox, status, mon, onEmpty>>
        /\ \E p \in Proc : dcs' = [dcs EXCEPT ![p] = "boot"] /\ handle' = p
    BY <1>5, <1>7 DEF UpLaunch, Becomes, flagVars, PC
  <2>2. status = "LOADING"
    BY <1>2, <1>7 DEF UpLaunch
  <2>3. ProcessOK'
    BY <1>2, <2>1, <2>2 DEF LifeInv, ProcessOK, Alive, Dead, TypeOK
  <2> QED  BY <1>0, <1>1, <1>2, <1>4, <2>1, <2>3, RisingStep DEF LifeInv
<1>8. CASE UpLaunchFails(t)
  <2>1. /\ pc'[t] = "await" /\ kind'[t] = kind[t]
        /\ UNCHANGED <<dcs, players, inbox, status, mon, onEmpty>> /\ handle' = None
    BY <1>5, <1>8 DEF UpLaunchFails, procVars, flagVars, PC
  <2>2. ProcessOK'
    BY <1>2, <2>1, SameProcesses
  <2> QED  BY <1>0, <1>1, <1>2, <1>4, <2>1, <2>2, RisingStep DEF LifeInv
<1>9. CASE UpRaises(t) \/ RunActionSkips(t)
  <2>1. End(t) /\ UNCHANGED <<dcs, players, inbox, status, handle, mon, onEmpty>>
    BY <1>9 DEF UpRaises, RunActionSkips, AfterStartup, procVars, serverVars, flagVars
  <2>2. ProcessOK'
    BY <1>2, <2>1, SameProcesses
  <2> QED  BY <1>0, <1>1, <1>2, <1>4, <2>1, <2>2, RisingStep DEF LifeInv
<1>10. CASE RunAction(t)
  <2>1. pc[t] = "choose" /\ status = "LOADING" /\ kind[t] = "load"
    BY <1>2, <1>10 DEF RunAction
  <2>2. Goto(t, "up") /\ UNCHANGED <<dcs, players, inbox, status, handle, mon, onEmpty>>
    BY <1>10, <2>1 DEF RunAction, flagVars
  <2>3. pc'[t] = "up" /\ kind'[t] = kind[t]
    BY <1>5, <2>2 DEF PC
  <2>4. ProcessOK' /\ Dead'
    BY <1>2, <2>2, SameProcesses
  <2> QED  BY <1>0, <1>1, <1>2, <1>4, <2>2, <2>3, <2>4, RisingStep DEF LifeInv
<1>11. CASE Delayed(t)
  <2>1. pc[t] = "delay" /\ status = "LOADING"
    BY <1>2, <1>11 DEF Delayed
  <2>2. /\ Goto(t, IF kind[t] = "launch" THEN "up" ELSE "choose")
        /\ UNCHANGED <<dcs, players, inbox, status, handle, mon, onEmpty>>
    BY <1>2, <1>11, <2>1 DEF Delayed, procVars, serverVars
  <2>3. pc'[t] = (IF kind[t] = "launch" THEN "up" ELSE "choose") /\ kind'[t] = kind[t]
    BY <1>5, <2>2 DEF PC
  <2>4. ProcessOK' /\ Dead'
    BY <1>2, <2>2, SameProcesses
  <2> QED  BY <1>0, <1>1, <1>2, <1>4, <2>1, <2>2, <2>3, <2>4, RisingStep DEF LifeInv
<1> QED  BY <1>6, <1>7, <1>8, <1>9, <1>10, <1>11

\* The end of a launch.
LEMMA AwaitSteps ==
    ASSUME TypeOK, LifeInv, Unattended, NEW t \in Task,
           UpReady(t) \/ UpCrashed(t) \/ UpTimeout(t)
    PROVE  LifeInv'
<1>1. /\ pc[t] = "await" /\ End(t) /\ UNCHANGED <<dcs, players, inbox, mon, updating>> /\ onEmpty' = onEmpty
  BY NobodyOrders DEF LifeInv, UpReady, UpCrashed, UpTimeout, AfterStartup, procVars
<1>2. UNCHANGED <<status, handle>> \/ \E h \in Found : handle' = h /\ status' \in {status, "SHUTDOWN"}
                                                /\ (h # None => status' = status)
  BY DEF UpReady, UpCrashed, UpTimeout, serverVars
<1>3. ProcessOK' /\ (Dead => Dead') /\ status' \in {status, "SHUTDOWN"}
  BY <1>1, <1>2, FoundIs DEF LifeInv, ProcessOK, Alive, Dead
<1>4. pc'[t] = "free" /\ kind'[t] = "none" /\ \A u \in Task \ {t} : pc'[u] = pc[u] /\ kind'[u] = kind[u]
  BY <1>1 DEF End, TypeOK
<1>5. KindOK(t)' /\ RisingOK(t)' /\ UpdateOK(t)'
  BY <1>4 DEF KindOK, RisingOK, UpdateOK, UpdateKind, Rising, Falling
<1>6. \A u \in Task \ {t} : pc[u] \notin Rising
  BY <1>1 DEF LifeInv, TasksOK, RisingOK
<1>7. \A u \in Task : UpdateKind(u) => updating
  BY DEF LifeInv, TasksOK, UpdateOK
<1>8. ~UpdateKind(t)'
  BY <1>4 DEF UpdateKind, Falling
<1>9. TasksOK'
  BY <1>1, <1>3, <1>4, <1>5, <1>6, <1>7, <1>8, TaskStep DEF LifeInv
<1> QED  BY <1>3, <1>9 DEF LifeInv

\* While a coroutine shuts the server down, or updates it, nobody prepares a launch.
LEMMA NotRising ==
    ASSUME LifeInv, NEW t \in Task, pc[t] \notin Rising \cup {"free", "warn"}
    PROVE  /\ \A u \in Task : pc[u] \notin Rising
           /\ \A u \in Task : UpdateKind(u) => updating
           /\ UpdateKind(t) => \A u \in Task \ {t} : ~UpdateKind(u)
BY DEF LifeInv, TasksOK, RisingOK, UpdateOK

\* The steps of a shutdown.
LEMMA ShutdownSteps ==
    ASSUME TypeOK, LifeInv, NEW t \in Task, (\A u \in Task : ~Awake(u)) \/ DownStopped(t),
           Down(t) \/ DownStopped(t) \/ DownExited(t) \/ DownKill(t) \/ DownDone(t)
    PROVE  LifeInv'
<1>1. /\ pc[t] \in Falling /\ kind[t] \in {"teardown", "update"} /\ onEmpty' = onEmpty
      /\ UNCHANGED <<inbox, mon, updating>>
  BY DEF Down, DownStopped, DownExited, DownKill, DownDone, Falling, LifeInv, TasksOK, KindOK, flagVars
<1>2. /\ \A u \in Task : pc[u] \notin Rising
      /\ \A u \in Task : UpdateKind(u) => updating
      /\ kind[t] = "update" => \A u \in Task \ {t} : ~UpdateKind(u)
  BY <1>1, NotRising DEF Rising, Falling, UpdateKind
<1>3. \A s \in PC : Goto(t, s) => /\ pc'[t] = s /\ kind'[t] = kind[t]
                                  /\ \A u \in Task \ {t} : pc'[u] = pc[u] /\ kind'[u] = kind[u]
  BY DEF Goto, TypeOK
<1>4. \A u \in Task : pc[u] \in {"downed", "updating"} => Dead
  BY DEF LifeInv, TasksOK, UpdateOK
\* A step within the shutdown.
<1>5. ASSUME NEW s \in Falling, Goto(t, s), ProcessOK', Dead => Dead',
             s = "downed" => Dead' /\ status' = "SHUTDOWN",
             s = "stopping" => ~Dead,
             DownStopped(t) => UNCHANGED status
      PROVE  LifeInv'
  <2>1. pc'[t] = s /\ kind'[t] = kind[t] /\ \A u \in Task \ {t} : pc'[u] = pc[u] /\ kind'[u] = kind[u]
    BY <1>3, <1>5 DEF Falling, PC
  <2>2. KindOK(t)' /\ RisingOK(t)'
    BY <1>1, <2>1 DEF KindOK, RisingOK, Falling, Rising
  <2>3. \A u \in Task \ {t} : UpdateKind(u)' <=> UpdateKind(u)
    BY <2>1 DEF UpdateKind
  <2>4. UpdateKind(t)' => kind[t] = "update"
    BY <2>1 DEF UpdateKind, Falling
  <2>5. UpdateKind(t)' => updating
    BY <1>1, <1>2, <2>4 DEF UpdateKind
  <2>6. UpdateOK(t)'
    BY <1>1, <1>2, <1>5, <2>1, <2>3, <2>4, <2>5 DEF UpdateOK, Falling
  <2>7. \A u \in Task \ {t} : UpdateKind(u) => ~UpdateKind(t)'
    BY <1>2, <2>4
  <2>8. \A u \in Task \ {t} : pc[u] \in {"downed", "updating"} => pc'[t] \notin {"await", "stopping"}
    BY <1>4, <1>5, <2>1 DEF Falling
  <2>9. TasksOK'
    BY <1>1, <1>2, <1>5, <2>1, <2>2, <2>6, <2>7, <2>8, TaskStep DEF LifeInv
  <2> QED  BY <1>5, <2>9 DEF LifeInv
<1>6. CASE Down(t)
  <2>0. ~DownStopped(t)
    BY <1>6 DEF Down, DownStopped
  <2>1. PICK h \in Found :
           /\ handle' = h
           /\ \/ h = None /\ status' = "SHUTDOWN" /\ Goto(t, "downed") /\ UNCHANGED dcs
              \/ h # None /\ status' = "SHUTTING_DOWN" /\ Quit /\ Goto(t, "stopping")
    BY <1>1, <1>6 DEF Down
  <2>2. UNCHANGED <<players, mon>>
    BY <1>1, <1>6 DEF Down
  <2>3. CASE h = None
    BY <1>5, <2>0, <2>1, <2>2, <2>3, FoundIs, SameProcesses DEF LifeInv, Dead, Falling
  <2>4. CASE h # None
    <3>1. \A p \in Proc : (dcs'[p] # "none" => dcs[p] # "none")
                          /\ (dcs[p] \notin {"none", "idle"} => dcs'[p] \notin {"none", "idle"})
      BY <2>1, <2>4 DEF Quit
    <3>2. ProcessOK' /\ (Dead => Dead') /\ ~Dead
      BY <1>1, <2>1, <2>2, <2>4, <3>1, FoundIs DEF LifeInv, ProcessOK, Alive, Dead
    <3> QED  BY <1>5, <2>0, <2>1, <2>4, <3>2 DEF Falling
  <2> QED  BY <2>3, <2>4
<1>7. CASE DownStopped(t) \/ DownExited(t)
  <2>1. UNCHANGED <<dcs, players, handle, status>>
    BY <1>7 DEF DownStopped, DownExited, procVars, serverVars
  <2>2. ProcessOK' /\ (Dead => Dead')
    BY <1>1, <2>1, SameProcesses
  <2>3. Goto(t, "exiting") \/ Goto(t, "killing")
    BY <1>7 DEF DownStopped, DownExited
  <2> QED  BY <1>5, <2>1, <2>2, <2>3 DEF Falling
<1>8. CASE DownKill(t)
  <2>0. ~DownStopped(t)
    BY <1>8 DEF DownKill, DownStopped
  <2>1. CASE Alive(handle)
    <3>1. /\ handle \in Proc /\ dcs' = [dcs EXCEPT ![handle] = "none"] /\ Nobody(handle)
          /\ UNCHANGED <<handle, status, kind, pc>>
      BY <1>8, <2>1 DEF DownKill, Becomes, Alive, taskVars
    <3>2. Dead' /\ ~players' /\ ~(status = "SHUTDOWN" \/ mon \in {"report", "audit"})
      BY <2>1, <3>1 DEF LifeInv, ProcessOK, Alive, Dead, Nobody, TypeOK
    <3>3. ProcessOK'
      BY <1>1, <3>1, <3>2 DEF ProcessOK, Alive, Dead
    <3>4. TasksOK'
      BY <1>1, <1>2, <2>0, <3>1, <3>2, WorldStep DEF LifeInv
    <3> QED  BY <3>3, <3>4 DEF LifeInv
  <2>2. CASE ~Alive(handle)
    <3>1. Dead
      BY <2>2 DEF LifeInv, ProcessOK, Alive, Dead
    <3>2. UNCHANGED <<dcs, players>> /\ status' = "SHUTDOWN" /\ handle' = None /\ Goto(t, "downed")
      BY <1>8, <2>2 DEF DownKill, procVars
    <3>3. ProcessOK' /\ Dead'
      BY <1>1, <3>1, <3>2, SameProcesses
    <3> QED  BY <1>5, <2>0, <3>2, <3>3 DEF Falling
  <2> QED  BY <2>1, <2>2
<1>9. CASE DownDone(t)
  <2>1. /\ pc[t] = "downed" /\ UNCHANGED <<dcs, players, handle, status>> /\ Dead
        /\ \A u \in Task : ~Awake(u)
    BY <1>4, <1>9 DEF DownDone, DownStopped, procVars, serverVars
  <2>2. \A u \in Task : pc[u] \notin {"await", "stopping"}
    BY <2>1 DEF LifeInv, TasksOK, UpdateOK, Awake
  <2>3. ProcessOK' /\ Dead'
    BY <1>1, <2>1, SameProcesses
  <2>4. \/ kind[t] = "update" /\ pc'[t] = "updating" /\ kind'[t] = "update"
        \/ pc'[t] = "free" /\ kind'[t] = "none"
    BY <1>1, <1>3, <1>9 DEF DownDone, End, TypeOK, PC
  <2>5. \A u \in Task \ {t} : pc'[u] = pc[u] /\ kind'[u] = kind[u]
    BY <1>1, <1>3, <1>9 DEF DownDone, End, TypeOK, PC
  <2>6. KindOK(t)' /\ RisingOK(t)'
    BY <2>4 DEF KindOK, RisingOK, Falling, Rising
  <2>7. UpdateKind(t)' => kind[t] = "update"
    BY <2>4 DEF UpdateKind, Falling
  <2>8. kind[t] = "update" => UpdateKind(t)
    BY <1>1 DEF UpdateKind
  <2>9. \A u \in Task \ {t} : UpdateKind(u)' <=> UpdateKind(u)
    BY <2>5 DEF UpdateKind
  <2>10. UpdateOK(t)'
    BY <1>1, <1>2, <2>2, <2>3, <2>4, <2>5, <2>7, <2>8, <2>9 DEF UpdateOK
  <2>11. TasksOK'
    BY <1>1, <1>2, <2>1, <2>3, <2>4, <2>5, <2>6, <2>7, <2>10, TaskStep DEF LifeInv
  <2> QED  BY <2>3, <2>11 DEF LifeInv
<1> QED  BY <1>6, <1>7, <1>8, <1>9

\* check_state(): a launch begins when nobody but those that warn the players is left.
LEMMA ScheduleSteps ==
    ASSUME TypeOK, LifeInv, Unattended, NEW t \in Task, \A u \in Task : ~Awake(u),
           CheckLaunch(t) \/ CheckTeardown(t) \/ Warned(t)
    PROVE  LifeInv'
<1>1. /\ inbox = <<>> /\ mon = "idle"
      /\ \A u \in Task : pc[u] \in {"free", "warn", "await", "stopping", "updating", "delay"}
  BY NobodyOrders DEF LifeInv, CheckLaunch, CheckTeardown, Considered, Warned
<1>2. UNCHANGED <<dcs, players, inbox, handle, mon, updating>>
  BY DEF CheckLaunch, CheckTeardown, Warned, procVars, serverVars, flagVars
<1>3. onEmpty' = onEmpty /\ onEmpty = "none"
  BY DEF LifeInv, TasksOK, CheckLaunch, CheckTeardown, Warned, flagVars
<1>4. \A u \in Task : UpdateKind(u) => updating
  BY DEF LifeInv, TasksOK, UpdateOK
<1>5. \A u \in Task : pc[u] \notin Rising
  <2>1. \A u \in Task : pc[u] = "delay" => status = "LOADING" /\ "players" \notin May
    BY DEF Unattended, LifeInv, TasksOK, KindOK, RisingOK, Rising
  <2>2. status # "LOADING" \/ "players" \in May
    BY DEF CheckLaunch, CheckTeardown, Considered, Warned, LifeInv, TasksOK, KindOK
  <2> QED  BY <1>1, <2>1, <2>2 DEF Rising
<1>6. CASE CheckLaunch(t)
  <2>1. /\ status = "SHUTDOWN" /\ status' = "LOADING" /\ ~updating /\ Dead
        /\ pc'[t] \in {"up", "choose", "delay"} /\ kind'[t] \in {"launch", "load"} /\ handle = None
        /\ (pc'[t] = "choose" => kind'[t] = "load") /\ (pc'[t] = "delay" => "late" \in May)
        /\ \A u \in Task \ {t} : pc'[u] = pc[u] /\ kind'[u] = kind[u]
    BY <1>6 DEF CheckLaunch, Considered, Unattended, Create, LifeInv, ProcessOK, TypeOK
  <2>2. \A u \in Task : pc[u] \in {"free", "warn"}
    BY <1>1, <1>4, <1>5, <2>1 DEF Awake, UpdateKind, Rising
  <2>3. ProcessOK' /\ Dead'
    BY <1>2, <2>1, SameProcesses
  <2>4. KindOK(t)' /\ RisingOK(t)'
    BY <1>1, <1>2, <2>1, <2>2, <2>3 DEF KindOK, RisingOK, Falling
  <2>5. UpdateOK(t)' /\ \A u \in Task \ {t} : ~UpdateKind(u)
    BY <1>4, <2>1 DEF UpdateOK, UpdateKind, Falling
  <2>6. TasksOK'
    BY <1>3, <1>5, <2>1, <2>2, <2>3, <2>4, <2>5, TaskStep DEF LifeInv
  <2> QED  BY <2>3, <2>6 DEF LifeInv
<1>7. CASE CheckTeardown(t) \/ Warned(t)
  <2>1. UNCHANGED status
    BY <1>7 DEF CheckTeardown, Warned, serverVars
  <2>2. \/ pc'[t] \in {"warn", "down"} /\ kind'[t] = "teardown" /\ (pc'[t] = "warn" => "players" \in May)
        \/ pc'[t] = "free" /\ kind'[t] = "none"
    <3>1. CASE CheckTeardown(t)
      BY <3>1 DEF CheckTeardown, Populated, Create, LifeInv, ProcessOK, TypeOK
    <3>2. CASE Warned(t)
      BY <3>2 DEF Warned, Goto, End, LifeInv, TasksOK, KindOK, TypeOK
    <3> QED  BY <1>7, <3>1, <3>2
  <2>3. \A u \in Task \ {t} : pc'[u] = pc[u] /\ kind'[u] = kind[u]
    BY <1>7 DEF CheckTeardown, Warned, Create, Goto, End, TypeOK
  <2>4. ProcessOK' /\ (Dead => Dead')
    BY <1>2, <2>1, SameProcesses
  <2>5. KindOK(t)' /\ RisingOK(t)' /\ UpdateOK(t)' /\ ~UpdateKind(t)'
    BY <2>2 DEF KindOK, RisingOK, UpdateOK, UpdateKind, Rising, Falling
  <2>6. TasksOK'
    BY <1>2, <1>3, <1>4, <1>5, <2>1, <2>2, <2>3, <2>4, <2>5, TaskStep DEF LifeInv
  <2> QED  BY <2>4, <2>6 DEF LifeInv
<1> QED  BY <1>6, <1>7

\* The autoupdate: no launch is under way when it begins and ends, and no second update.
LEMMA UpdateSteps ==
    ASSUME TypeOK, LifeInv, Unattended, NEW t \in Task, \A u \in Task : ~Awake(u),
           UpdateBegins(t) \/ UpdateWarned(t) \/ UpdateEnds(t) \/ UpdateBreaks(t)
    PROVE  LifeInv'
<1>1. /\ inbox = <<>> /\ mon = "idle"
      /\ \A u \in Task : pc[u] \in {"free", "warn", "await", "stopping", "updating", "delay"}
  BY NobodyOrders DEF LifeInv, UpdateBegins, UpdateWarned, UpdateEnds, UpdateBreaks, Order
<1>2. UNCHANGED <<dcs, players, inbox, handle, status, mon>>
  BY DEF UpdateBegins, UpdateWarned, UpdateEnds, UpdateBreaks, procVars, serverVars
<1>3. onEmpty' = onEmpty /\ onEmpty = "none"
  BY DEF LifeInv, TasksOK, UpdateBegins, UpdateWarned, UpdateEnds, UpdateBreaks, flagVars
<1>4. ProcessOK' /\ (Dead => Dead')
  BY <1>2, SameProcesses
<1>5. \A u \in Task : UpdateKind(u) => updating
  BY DEF LifeInv, TasksOK, UpdateOK
<1>6. \A u \in Task : pc[u] \notin Rising /\ pc[u] # "downed"
  <2>1. \A u \in Task : pc[u] = "delay" => /\ "autoupdate" \notin Actors /\ "players" \notin May
                                          /\ \A v \in Task : pc[v] # "updating"
    BY DEF Unattended, LifeInv, TasksOK, KindOK, RisingOK, Rising
  <2>2. pc[t] = "warn" => "players" \in May
    BY DEF LifeInv, TasksOK, KindOK
  <2>3. "autoupdate" \in Actors \/ pc[t] \in {"updating", "warn"}
    BY NobodyOrders DEF LifeInv, UpdateBegins, UpdateWarned, UpdateEnds, UpdateBreaks, Order
  <2> QED  BY <1>1, <2>1, <2>2, <2>3 DEF Rising
<1>7. CASE UpdateBegins(t)
  <2>1. /\ ~updating /\ updating'
        /\ \A u \in Task \ {t} : pc'[u] = pc[u] /\ kind'[u] = kind[u]
        /\ \/ status = "SHUTDOWN" /\ pc'[t] = "updating" /\ kind'[t] = "none"
           \/ /\ pc'[t] \in {"down", "warn"} /\ kind'[t] = "update"
              /\ pc'[t] = "warn" => "players" \in May
    BY <1>7, NobodyOrders DEF LifeInv, ProcessOK, UpdateBegins, Populated, Create, TypeOK
  <2>2. \A u \in Task : ~UpdateKind(u)
    BY <1>5, <2>1
  <2>3. \A u \in Task \ {t} : ~UpdateKind(u)'
    BY <2>1, <2>2 DEF UpdateKind
  <2>4. status = "SHUTDOWN" => Dead' /\ \A u \in Task : pc[u] \notin {"await", "stopping"}
    BY <1>4 DEF Awake, LifeInv, ProcessOK
  <2>5. KindOK(t)' /\ RisingOK(t)' /\ UpdateOK(t)'
    BY <2>1, <2>3, <2>4 DEF KindOK, RisingOK, UpdateOK, Rising, Falling
  <2>6. TasksOK'
    BY <1>2, <1>3, <1>4, <1>6, <2>1, <2>2, <2>5, TaskStep DEF LifeInv
  <2> QED  BY <1>4, <2>6 DEF LifeInv
<1>8. CASE UpdateEnds(t) \/ UpdateBreaks(t)
  <2>1. pc[t] = "updating"
    BY <1>8 DEF UpdateEnds, UpdateBreaks
  <2>2. /\ \A u \in Task \ {t} : pc'[u] = pc[u] /\ kind'[u] = kind[u]
        /\ \/ pc'[t] = "up" /\ kind'[t] = "update"
           \/ pc'[t] = "free" /\ kind'[t] = "none"
    BY <1>8 DEF UpdateEnds, UpdateBreaks, Goto, End, TypeOK
  <2>3. Dead /\ \A u \in Task \ {t} : pc[u] \in {"free", "warn"} /\ ~UpdateKind(u)
    BY <1>1, <1>6, <2>1 DEF Rising, LifeInv, TasksOK, UpdateOK, UpdateKind
  <2>4. KindOK(t)' /\ RisingOK(t)' /\ UpdateOK(t)'
    BY <1>1, <1>2, <1>4, <2>2, <2>3 DEF KindOK, RisingOK, UpdateOK, UpdateKind, Rising, Falling
  <2>5. TasksOK'
    BY <1>2, <1>3, <1>4, <1>6, <2>2, <2>3, <2>4, TaskStep DEF LifeInv
  <2> QED  BY <1>4, <2>5 DEF LifeInv
<1>9. CASE UpdateWarned(t)
  <2>1. /\ pc[t] = "warn" /\ kind[t] = "update" /\ UNCHANGED updating
        /\ pc'[t] = "down" /\ kind'[t] = "update"
        /\ \A u \in Task \ {t} : pc'[u] = pc[u] /\ kind'[u] = kind[u]
    BY <1>9 DEF UpdateWarned, Goto, TypeOK, flagVars
  <2>2. updating /\ \A u \in Task \ {t} : ~UpdateKind(u)
    BY <2>1 DEF LifeInv, TasksOK, UpdateOK, UpdateKind
  <2>3. \A u \in Task \ {t} : ~UpdateKind(u)'
    BY <2>1, <2>2 DEF UpdateKind
  <2>4. KindOK(t)' /\ RisingOK(t)' /\ UpdateOK(t)'
    BY <2>1, <2>2, <2>3 DEF KindOK, RisingOK, UpdateOK, Rising, Falling
  <2>5. TasksOK'
    BY <1>2, <1>3, <1>4, <1>6, <2>1, <2>2, <2>4, TaskStep DEF LifeInv
  <2> QED  BY <1>4, <2>5 DEF LifeInv
<1> QED  BY <1>7, <1>8, <1>9

\* Without orders, LifeInv holds at any time.
LEMMA UnattendedLife ==
    ASSUME Unattended
    PROVE  Spec => []LifeInv
<1>1. Init => LifeInv
  <2> SUFFICES ASSUME Init PROVE LifeInv
    OBVIOUS
  <2>1. \A t \in Task : pc[t] = "free" /\ kind[t] = "none"
    BY DEF Init
  <2>2. TasksOK
    BY <2>1 DEF Init, TasksOK, KindOK, RisingOK, UpdateOK, UpdateKind, Rising, Falling
  <2>3. ProcessOK
    BY LifecycleAssumption DEF Init, ProcessOK, Alive, Dead
  <2> QED  BY <2>2, <2>3 DEF LifeInv
<1>2. TypeOK /\ LifeInv /\ [Next]_vars => LifeInv'
  <2> SUFFICES ASSUME TypeOK, LifeInv, [Next]_vars PROVE LifeInv'
    OBVIOUS
  <2>1. CASE \E t \in Task : Wake(t)
    <3>1. PICK t \in Task : UpReady(t) \/ UpCrashed(t) \/ DownStopped(t)
      BY <2>1 DEF Wake
    <3>2. CASE UpReady(t) \/ UpCrashed(t)
      BY <3>2, AwaitSteps
    <3>3. CASE DownStopped(t)
      BY <3>3, ShutdownSteps
    <3> QED  BY <3>1, <3>2, <3>3
  <2>2. CASE (\A t \in Task : ~Awake(t)) /\ Others
    <3>1. CASE Dcs \/ Players
      BY <2>2, <3>1, ProcessSteps
    <3>2. CASE Handle
      BY <2>2, <3>2, EventSteps
    <3>3. CASE Heartbeat \/ HbKeepAlive \/ NextPeriod
      BY <2>2, <3>3, MonitorSteps
    <3>4. ~AdminFlag
      BY NobodyOrders DEF LifeInv
    <3>5. ASSUME NEW t \in Task, Step(t) \/ Fails(t) \/ Check(t) \/ Admin(t) \/ UpdateBegins(t)
          PROVE  LifeInv'
      <4>1. ~CheckAction(t) /\ ~Admin(t)
        BY NobodyOrders DEF LifeInv
      <4>2. CASE UpTimeout(t)
        BY <4>2, AwaitSteps
      <4>3. CASE UpBegin(t) \/ UpLaunch(t) \/ UpLaunchFails(t) \/ UpRaises(t) \/ RunAction(t) \/ RunActionSkips(t)
                 \/ Delayed(t)
        BY <2>2, <4>3, LaunchSteps
      <4>4. CASE Shutdown(t)
        BY <2>2, <4>4, ShutdownSteps DEF Shutdown
      <4>5. CASE CheckLaunch(t) \/ CheckTeardown(t) \/ Warned(t)
        BY <2>2, <4>5, ScheduleSteps
      <4>6. CASE UpdateBegins(t) \/ UpdateWarned(t) \/ UpdateEnds(t) \/ UpdateBreaks(t)
        BY <2>2, <4>6, UpdateSteps
      <4> QED  BY <3>5, <4>1, <4>2, <4>3, <4>4, <4>5, <4>6 DEF Step, Startup, Fails, StartupFails, Check
    <3> QED  BY <2>2, <3>1, <3>2, <3>3, <3>4, <3>5 DEF Others
  <2>3. CASE UNCHANGED vars
    BY <2>3 DEF vars, procVars, serverVars, flagVars, taskVars, LifeInv, ProcessOK, Alive, Dead, TasksOK, KindOK,
                RisingOK, UpdateOK, UpdateKind
  <2> QED  BY <2>1, <2>2, <2>3 DEF Next
<1> QED  BY <1>1, <1>2, TypeCorrect, PTL DEF Spec

\* A server that only its schedule and the autoupdater start and stop never has two
\* processes, whatever crashes, hangs, fails or is slow: nobody launches one while
\* another one runs, although do_startup() does not look for it.
THEOREM OneProcessOnly ==
    ASSUME Unattended
    PROVE  Spec => []OneProcess
<1>1. LifeInv => OneProcess
  BY DEF LifeInv, ProcessOK, OneProcess, Living, Alive
<1> QED  BY <1>1, UnattendedLife, PTL

\* ... one that is down has no process the monitor and the scheduler would not look after.
THEOREM DownIsDown ==
    ASSUME Unattended
    PROVE  Spec => []DownMeansDown
<1>1. LifeInv => DownMeansDown
  BY DEF LifeInv, ProcessOK, DownMeansDown, Living, Alive, Dead
<1> QED  BY <1>1, UnattendedLife, PTL

\* ... and dcs_updater.exe never runs beside a DCS process.
THEOREM UpdatedAlone ==
    ASSUME Unattended
    PROVE  Spec => []UpdateAlone
<1>1. LifeInv => UpdateAlone
  BY DEF LifeInv, TasksOK, UpdateOK, UpdateAlone, Living, Alive, Dead
<1> QED  BY <1>1, UnattendedLife, PTL

-----------------------------------------------------------------------------
(* The maintenance flag, for the same server: what an update sets it       *)
(* clears, what it has found it keeps.                                     *)

\* An update shuts the server down, or is under way, or its hooks are.
UpdatesServer(t) == kind[t] = "update" /\ UpdateKind(t)

\* flag is what the flag is, or what the update that has set it will restore.
FlagIs(flag) ==
    /\ \A t \in Task : kind[t] = "update" => keep[t] = flag
    /\ IF \E t \in Task : UpdatesServer(t) THEN maintenance ELSE maintenance = flag

\* A step of one coroutine that neither begins nor ends an update.
LEMMA FlagStays ==
    ASSUME NEW flag \in BOOLEAN, FlagIs(flag), NEW t \in Task, maintenance' = maintenance,
           \A u \in Task \ {t} : pc'[u] = pc[u] /\ kind'[u] = kind[u] /\ keep'[u] = keep[u],
           kind'[t] = "update" => kind[t] = "update" /\ keep'[t] = keep[t],
           UpdatesServer(t)' <=> UpdatesServer(t)
    PROVE  FlagIs(flag)'
<1>1. \A u \in Task : UpdatesServer(u)' <=> UpdatesServer(u)
  BY DEF UpdatesServer, UpdateKind
<1> QED  BY <1>1 DEF FlagIs

\* No step of such a server changes what the flag is or will be.
LEMMA FlagStep ==
    ASSUME TypeOK, LifeInv, Unattended, [Next]_vars, NEW flag \in BOOLEAN, FlagIs(flag)
    PROVE  FlagIs(flag)'
<1>1. ASSUME UNCHANGED <<taskVars, maintenance>> PROVE FlagIs(flag)'
  BY <1>1 DEF FlagIs, UpdatesServer, UpdateKind, taskVars
<1>2. \A t \in Task : kind[t] \notin {"reboot", "startup", "halt", "kill"}
  <2>1. \A t \in Task : pc[t] \in PC
    BY DEF TypeOK
  <2> QED  BY <2>1 DEF LifeInv, TasksOK, KindOK, Falling, PC
<1>3. ASSUME NEW t \in Task, maintenance' = maintenance,
             End(t) \/ \E s \in PC : Goto(t, s),
             UpdateKind(t) => kind[t] # "update" \/ \E s \in Falling \cup {"updating"} : Goto(t, s),
             ~UpdateKind(t) => End(t) \/ \E s \in PC \ (Falling \cup {"updating", "warn"}) : Goto(t, s)
      PROVE  FlagIs(flag)'
  <2>1. \A u \in Task \ {t} : pc'[u] = pc[u] /\ kind'[u] = kind[u] /\ keep'[u] = keep[u]
    BY <1>3 DEF End, Goto, TypeOK
  <2>2. kind'[t] = "update" => kind[t] = "update" /\ keep'[t] = keep[t]
    BY <1>3 DEF End, Goto, TypeOK
  <2>3. UpdatesServer(t)' <=> UpdatesServer(t)
    BY <1>3 DEF End, Goto, TypeOK, UpdatesServer, UpdateKind, Falling
  <2> QED  BY <1>3, <2>1, <2>2, <2>3, FlagStays
<1>4. ASSUME NEW t \in Task, maintenance' = maintenance, NEW k \in {"launch", "load", "teardown"},
             NEW s \in PC, Create(t, k, s, FALSE)
      PROVE  FlagIs(flag)'
  <2>1. \A u \in Task \ {t} : pc'[u] = pc[u] /\ kind'[u] = kind[u] /\ keep'[u] = keep[u]
    BY <1>4 DEF Create, TypeOK
  <2>2. kind'[t] = k /\ ~UpdateKind(t)
    BY <1>4 DEF Create, TypeOK, UpdateKind, Falling
  <2> QED  BY <1>4, <2>1, <2>2, FlagStays DEF UpdatesServer
<1>5. CASE Dcs \/ Players \/ Heartbeat \/ HbKeepAlive \/ NextPeriod \/ UNCHANGED vars
  <2>1. UNCHANGED <<taskVars, maintenance>>
    BY <1>5 DEF Dcs, DcsWorks, DcsFails, Players, Heartbeat, HbDead, HbReported, HbHung, HbDumped, HbKilled,
                HbKeepAlive, NextPeriod, vars, taskVars, flagVars
  <2> QED  BY <1>1, <2>1
<1>6. CASE Handle
  <2>1. onEmpty = "none"
    BY DEF LifeInv, TasksOK
  <2>2. UNCHANGED <<taskVars, maintenance>>
    BY <1>6, <2>1 DEF Handle, OnMissionLoadBegin, OnSimulationStart, OnSimulationStop, GetMissionUpdate,
                      OnServerEmpty, taskVars, flagVars
  <2> QED  BY <1>1, <2>2
<1>7. ASSUME NEW t \in Task,
             \/ UpBegin(t) \/ UpLaunch(t) \/ UpLaunchFails(t) \/ UpRaises(t)
             \/ RunAction(t) \/ RunActionSkips(t) \/ Delayed(t)
             \/ UpReady(t) \/ UpCrashed(t) \/ UpTimeout(t)
      PROVE  FlagIs(flag)'
  <2>1. pc[t] \in Rising \cup {"await"}
    BY <1>7 DEF Rising, UpBegin, UpLaunch, UpLaunchFails, UpRaises, RunAction, RunActionSkips, Delayed,
                UpReady, UpCrashed, UpTimeout
  <2>2. ~UpdateKind(t)
    BY <2>1 DEF UpdateKind, Rising, Falling
  <2>3. ~Retry(t)
    BY <1>2 DEF Retry
  <2>4. maintenance' = maintenance
    BY <1>2, <1>7, <2>3 DEF UpBegin, UpLaunch, UpLaunchFails, UpRaises, RunAction, RunActionSkips, Delayed,
                UpReady, UpCrashed, UpTimeout, AfterStartup, flagVars
  <2>5. kind[t] \in {"launch", "load", "update"}
    BY <2>1 DEF LifeInv, TasksOK, KindOK, Rising
  <2>6. End(t) \/ \E s \in {"up", "choose", "prepare", "await"} : Goto(t, s)
    <3>1. CASE Delayed(t)
      <4>1. kind[t] \in {"launch", "load"}
        BY <3>1 DEF Delayed, LifeInv, TasksOK, KindOK
      <4> QED  BY <3>1, <4>1 DEF Delayed
    <3>2. CASE UpBegin(t) \/ UpLaunch(t) \/ UpLaunchFails(t)
      BY <3>2 DEF UpBegin, UpLaunch, UpLaunchFails
    <3>3. CASE RunAction(t) \/ RunActionSkips(t)
      BY <3>3 DEF RunAction, RunActionSkips
    <3>4. CASE UpRaises(t) \/ UpReady(t) \/ UpCrashed(t) \/ UpTimeout(t)
      BY <2>3, <3>4 DEF UpRaises, UpReady, UpCrashed, UpTimeout, AfterStartup
    <3> QED  BY <1>7, <3>1, <3>2, <3>3, <3>4
  <2> QED  BY <1>3, <2>2, <2>4, <2>6 DEF PC, Falling
<1>8. ASSUME NEW t \in Task, Shutdown(t)
      PROVE  FlagIs(flag)'
  <2>1. pc[t] \in Falling /\ kind[t] \in {"teardown", "update"}
    BY <1>8 DEF Shutdown, Down, DownStopped, DownExited, DownKill, DownDone, Falling, LifeInv, TasksOK, KindOK
  <2>2. UpdateKind(t) <=> kind[t] = "update"
    BY <2>1 DEF UpdateKind, Falling
  <2>3. maintenance' = maintenance
    BY <1>2, <1>8 DEF Shutdown, Down, DownStopped, DownExited, DownKill, DownDone, flagVars, TypeOK
  <2>4. CASE UNCHANGED taskVars
    BY <1>1, <2>3, <2>4
  <2>5. CASE kind[t] = "update" /\ ~UNCHANGED taskVars
    <3>1. \E s \in Falling \cup {"updating"} : Goto(t, s)
      BY <1>8, <2>1, <2>5 DEF Shutdown, Down, DownStopped, DownExited, DownKill, DownDone, Falling
    <3> QED  BY <1>3, <2>2, <2>3, <2>5, <3>1 DEF PC, Falling
  <2>6. CASE kind[t] = "teardown" /\ ~UNCHANGED taskVars
    <3>1. End(t) \/ \E s \in Falling : Goto(t, s)
      BY <1>8, <2>1, <2>6 DEF Shutdown, Down, DownStopped, DownExited, DownKill, DownDone, Falling
    <3>2. \A u \in Task \ {t} : pc'[u] = pc[u] /\ kind'[u] = kind[u] /\ keep'[u] = keep[u]
      BY <3>1 DEF End, Goto, TypeOK
    <3>3. kind'[t] # "update"
      BY <2>6, <3>1 DEF End, Goto, TypeOK
    <3> QED  BY <2>3, <2>6, <3>2, <3>3, FlagStays DEF UpdatesServer
  <2> QED  BY <2>1, <2>4, <2>5, <2>6
<1>9. ASSUME NEW t \in Task, CheckLaunch(t) \/ CheckTeardown(t)
      PROVE  FlagIs(flag)'
  <2>1. maintenance' = maintenance
    BY <1>9 DEF CheckLaunch, CheckTeardown, flagVars
  <2>2. \E k \in {"launch", "load", "teardown"}, s \in PC : Create(t, k, s, FALSE)
    BY <1>9 DEF CheckLaunch, CheckTeardown, PC
  <2> QED  BY <1>4, <2>1, <2>2
<1>10. ASSUME NEW t \in Task, Warned(t)
       PROVE  FlagIs(flag)'
  <2>1. kind[t] = "teardown"
    BY <1>10 DEF Warned, LifeInv, TasksOK, KindOK
  <2>2. maintenance' = maintenance /\ (End(t) \/ Goto(t, "down"))
    BY <1>10, <2>1 DEF Warned, Flagged, TypeOK
  <2>3. \A u \in Task \ {t} : pc'[u] = pc[u] /\ kind'[u] = kind[u] /\ keep'[u] = keep[u]
    BY <2>2 DEF End, Goto, TypeOK
  <2>4. kind'[t] # "update"
    BY <2>1, <2>2 DEF End, Goto, TypeOK
  <2> QED  BY <2>1, <2>2, <2>3, <2>4, FlagStays DEF UpdatesServer
<1>11. ASSUME NEW t \in Task, UpdateBegins(t)
       PROVE  FlagIs(flag)'
  <2>1. /\ \A u \in Task \ {t} : pc'[u] = pc[u] /\ kind'[u] = kind[u] /\ keep'[u] = keep[u]
        /\ \/ kind'[t] = "none" /\ maintenance' = maintenance
           \/ /\ kind'[t] = "update" /\ pc'[t] \in {"down", "warn"}
              /\ keep'[t] = maintenance /\ maintenance' = TRUE
    BY <1>11 DEF UpdateBegins, Create, TypeOK
  <2>2. ~updating /\ pc[t] = "free"
    BY <1>11, NobodyOrders DEF LifeInv, UpdateBegins, Create
  <2>3. \A u \in Task : ~UpdateKind(u)
    BY <2>2 DEF LifeInv, TasksOK, UpdateOK
  <2>4. maintenance = flag
    BY <2>3 DEF FlagIs, UpdatesServer
  <2>5. CASE kind'[t] = "none" /\ maintenance' = maintenance
    BY <2>1, <2>3, <2>5, FlagStays DEF UpdatesServer
  <2>6. CASE kind'[t] = "update" /\ pc'[t] \in {"down", "warn"} /\ keep'[t] = maintenance /\ maintenance' = TRUE
    <3>1. UpdatesServer(t)'
      BY <2>6 DEF UpdatesServer, UpdateKind, Falling
    <3> QED  BY <2>1, <2>4, <2>6, <3>1 DEF FlagIs
  <2> QED  BY <2>1, <2>5, <2>6
<1>12. ASSUME NEW t \in Task, UpdateEnds(t) \/ UpdateBreaks(t)
       PROVE  FlagIs(flag)'
  <2>1. /\ pc[t] = "updating"
        /\ \/ kind[t] = "update" /\ maintenance' = (maintenance /\ keep[t]) /\ Goto(t, "up")
           \/ kind[t] # "update" /\ End(t) /\ UNCHANGED maintenance
    BY <1>12 DEF UpdateEnds, UpdateBreaks
  <2>2. \A u \in Task \ {t} : pc'[u] = pc[u] /\ kind'[u] = kind[u] /\ keep'[u] = keep[u]
    BY <2>1 DEF End, Goto, TypeOK
  <2>3. CASE kind[t] # "update"
    <3>1. kind'[t] = "none" /\ maintenance' = maintenance
      BY <2>1, <2>3 DEF End, TypeOK
    <3> QED  BY <2>2, <2>3, <3>1, FlagStays DEF UpdatesServer
  <2>4. CASE kind[t] = "update"
    <3>1. /\ UpdatesServer(t) /\ pc'[t] = "up" /\ kind'[t] = "update" /\ keep'[t] = keep[t]
          /\ maintenance' = (maintenance /\ keep[t])
      BY <2>1, <2>4 DEF Goto, TypeOK, UpdatesServer, UpdateKind
    <3>2. keep[t] = flag /\ maintenance
      BY <2>4, <3>1 DEF FlagIs
    <3>3. \A u \in Task : ~UpdatesServer(u)'
      BY <2>2, <3>1 DEF LifeInv, TasksOK, UpdateOK, UpdatesServer, UpdateKind, Falling
    <3> QED  BY <2>2, <3>1, <3>2, <3>3 DEF FlagIs
  <2> QED  BY <2>3, <2>4
<1>13. ASSUME NEW t \in Task, UpdateWarned(t)
       PROVE  FlagIs(flag)'
  <2>1. Goto(t, "down") /\ UNCHANGED maintenance /\ UpdateKind(t)
    BY <1>13 DEF UpdateWarned, UpdateKind, flagVars
  <2> QED  BY <1>3, <2>1 DEF PC, Falling
<1>14. CASE \E t \in Task : Wake(t)
  BY <1>7, <1>8, <1>14 DEF Wake, Shutdown
<1>15. CASE Others
  <2>1. ~AdminFlag /\ \A t \in Task : ~CheckAction(t) /\ ~Admin(t)
    BY NobodyOrders DEF LifeInv
  <2> QED  BY <1>5, <1>6, <1>7, <1>8, <1>9, <1>10, <1>11, <1>12, <1>13, <1>15, <2>1
              DEF Others, Step, Startup, Fails, StartupFails, Check
<1> QED  BY <1>5, <1>14, <1>15 DEF Next


Known == \E flag \in BOOLEAN : FlagIs(flag)

\* The flag is known in every state.
LEMMA FlagKnown ==
    ASSUME Unattended
    PROVE  Spec => []Known
<1>1. Init => Known
  <2> SUFFICES ASSUME Init PROVE Known
    OBVIOUS
  <2>1. \A t \in Task : kind[t] = "none"
    BY DEF Init
  <2>2. maintenance \in BOOLEAN
    BY DEF Init
  <2>3. FlagIs(maintenance)
    BY <2>1 DEF FlagIs, UpdatesServer
  <2> QED  BY <2>2, <2>3 DEF Known
<1>2. TypeOK /\ LifeInv /\ Known /\ [Next]_vars => Known'
  <2> SUFFICES ASSUME TypeOK, LifeInv, Known, [Next]_vars PROVE Known'
    OBVIOUS
  <2>1. PICK flag \in BOOLEAN : FlagIs(flag)
    BY DEF Known
  <2>2. FlagIs(flag)'
    BY <2>1, FlagStep
  <2> QED  BY <2>2 DEF Known
<1> QED  BY <1>1, <1>2, TypeCorrect, UnattendedLife, PTL DEF Spec

\* One flag, one update.
LEMMA FlagKept ==
    ASSUME Unattended, NEW flag \in BOOLEAN, NEW t \in Task
    PROVE  Spec => [](Updates(t, flag) /\ orders = MaxOrders => [](~updating => maintenance = flag))
<1> DEFINE Begun == Updates(t, flag)
           Last == orders = MaxOrders
           Restored == ~updating => maintenance = flag
<1>1. Known /\ Begun => FlagIs(flag)
  BY DEF Known, Updates, FlagIs
<1>2. TypeOK /\ LifeInv /\ FlagIs(flag) /\ [Next]_vars => FlagIs(flag)'
  BY FlagStep
<1>3. LifeInv /\ FlagIs(flag) => Restored
  BY DEF LifeInv, TasksOK, UpdateOK, FlagIs, UpdatesServer
<1>4. Spec => []Known
  BY FlagKnown
<1> HIDE DEF Begun, Last, Restored
<1>5. Spec => [](Begun /\ Last => []Restored)
  BY <1>1, <1>2, <1>3, <1>4, TypeCorrect, UnattendedLife, PTL DEF Spec
<1> QED  BY <1>5 DEF Begun, Last, Restored

\* When the updates of such a server are over, it has the maintenance flag it had before
\* them, whatever fails on the way.
THEOREM FlagsRestored ==
    ASSUME Unattended
    PROVE  Spec => FlagRestored
BY FlagKept DEF FlagRestored
-----------------------------------------------------------------------------
(* A server that only its schedule and scheduled actions start and stop:   *)
(* one coroutine at a time, and an action that is pending holds back the   *)
(* next one until the mission runs.                                        *)

\* Nobody else gives orders; waits are as short as assumed, and nothing fails while a
\* coroutine warns the players.
Routine ==
    /\ Actors \subseteq {"schedule", "action"}
    /\ May \cap {"hasty", "peek", "doomed", "late", "slow"} = {}

\* What the process of the server does, and what it has told.
Being == IF handle \in Proc THEN dcs[handle] ELSE "none"
Has(e) == \E i \in DOMAIN inbox : inbox[i] = e

\* The mission starts before the players leave; a poll is answered before anything else.
Started ==
    \E i \in DOMAIN inbox :
        inbox[i] = "start" /\ \A j \in DOMAIN inbox : inbox[j] = "empty" => i < j
Polled == \A i \in DOMAIN inbox : inbox[i] \in {"live", "paused"} => i = 1

\* No mission is being loaded; nothing heard can change that or make the server RUNNING.
Settled == Being \notin {"boot", "load"} /\ ~Has("load") /\ ~Has("start")
Quiet == Settled /\ ~Has("live") /\ ~Has("paused")

\* Nobody has played since the launch.
Fresh == ~players /\ ~Has("empty") /\ Being # "run"

\* The bot holds the only process and knows how it is; what is loading or stopping is
\* either being started, or something is pending.
ServerOK ==
    /\ \A p \in Proc : Alive(p) => handle = p
    /\ Polled
    /\ status = "SHUTDOWN" \/ mon \in {"report", "audit"} => Being = "none" /\ handle = None
    /\ players => Being \notin {"none", "idle", "hung"}
    /\ mon # "idle" => inbox = <<>> /\ Being \in {"none", "hung"}
    /\ Being = "quit" => \E t \in Task : pc[t] \in {"stopping", "exiting", "killing"}
    /\ Being = "halt" => pending /\ ~Has("start")
    /\ Being \in {"boot", "load"} =>
          /\ ~Has("start") /\ ~Has("live")
          /\ pending \/ (status = "LOADING" /\ ~Has("stop") /\ ~Has("paused"))

\* Where a coroutine stands.
StandsOK(t) ==
    /\ pc[t] \notin {"delay", "updating"}
    /\ mon # "idle" => pc[t] \in {"free", "await"}
    /\ pc[t] = "warn" =>
          /\ kind[t] \in Method \cup {"teardown"} /\ pending /\ Settled
          /\ Being = "run" /\ status \notin {"LOADING", "SHUTTING_DOWN"}
    /\ pc[t] = "choose" => kind[t] \in Method \cup {"load"}
    /\ pc[t] \in {"up", "prepare", "await"} => kind[t] \in Method \cup {"launch", "load"}
    /\ pc[t] \in Falling => kind[t] \in {"teardown", "cold", "shutdown"} /\ Quiet
    /\ pc[t] \in Falling \ {"down"} => status \notin {"RUNNING", "LOADING"}
    /\ pc[t] \in {"downed", "up", "prepare"} => Being = "none"
    /\ pc[t] \in {"prepare", "await"} => status # "SHUTTING_DOWN"
    /\ pc[t] = "prepare" => status # "SHUTDOWN"
    /\ pc[t] \in {"choose", "up", "prepare"} =>
          IF kind[t] \in Method THEN Quiet /\ (status = "LOADING" => Being = "none")
          ELSE Being = "none" /\ inbox = <<>> /\ status = "LOADING"
    /\ kind[t] \in Method => pending \/ pc[t] = "await"

\* There is one coroutine at a time.
CoroutineOK(t) ==
    /\ pc[t] # "free" => \A u \in Task \ {t} : pc[u] = "free"
    /\ pc[t] = "free" => kind[t] = "none"
    /\ StandsOK(t)

\* An action that waits for an empty server is the pending one; it goes off before a
\* mission is loaded, or not at all.
WaitOK ==
    onEmpty # "none" =>
        /\ pending /\ \A t \in Task : kind[t] \in {"none", "launch", "load"}
        /\ Fresh \/ Started \/ (Settled /\ status # "LOADING")

RoutineInv == ServerOK /\ (\A t \in Task : CoroutineOK(t)) /\ WaitOK

\* The queue of events: one more, one less, the same, none.
LEMMA QueueGrows ==
    ASSUME inbox \in InboxType, NEW e \in {"load", "start", "live", "paused", "stop", "empty"},
           inbox' = Append(inbox, e)
    PROVE  /\ \A m : Has(m)' <=> (Has(m) \/ m = e)
           /\ Started => Started'
           /\ e = "start" /\ ~Has("empty") => Started'
           /\ Polled /\ (inbox = <<>> \/ e \notin {"live", "paused"}) => Polled'
           /\ inbox' # <<>>
<1> DEFINE n == Len(inbox)
<1>1. /\ n \in Nat /\ DOMAIN inbox = 1..n
      /\ DOMAIN inbox' = 1..(n + 1) /\ inbox'[n + 1] = e
      /\ \A i \in 1..n : inbox'[i] = inbox[i]
      /\ inbox = <<>> => n = 0
  BY DEF InboxType
<1> HIDE DEF n
<1>2. \A m : Has(m)' <=> (Has(m) \/ m = e)
  <2> SUFFICES ASSUME NEW m PROVE Has(m)' <=> (Has(m) \/ m = e)
    OBVIOUS
  <2> QED  BY <1>1 DEF Has
<1>3. Started => Started'
  BY <1>1 DEF Started
<1>4. ASSUME e = "start", ~Has("empty") PROVE Started'
  <2>1. \A j \in DOMAIN inbox' : inbox'[j] # "empty"
    BY <1>1, <1>4 DEF Has
  <2> QED  BY <1>1, <1>4, <2>1 DEF Started
<1>5. ASSUME Polled, inbox = <<>> \/ e \notin {"live", "paused"} PROVE Polled'
  <2>1. \A i \in 1..n : inbox'[i] \in {"live", "paused"} => i = 1
    BY <1>1, <1>5 DEF Polled
  <2>2. e \in {"live", "paused"} => n + 1 = 1
    BY <1>1, <1>5
  <2> QED  BY <1>1, <2>1, <2>2 DEF Polled
<1> QED  BY <1>1, <1>2, <1>3, <1>4, <1>5

LEMMA QueueShrinks ==
    ASSUME inbox \in InboxType, NEW e, Event(e), Take
    PROVE  /\ \A m : Has(m)' => Has(m)
           /\ Has(e) /\ inbox # <<>>
           /\ Started => e # "empty" /\ (e # "start" => Started')
           /\ Polled => Polled' /\ ~Has("live")' /\ ~Has("paused")'
<1> DEFINE n == Len(inbox)
<1>1. /\ n \in Nat \ {0} /\ DOMAIN inbox = 1..n /\ inbox[1] = e /\ inbox # <<>>
      /\ DOMAIN inbox' = 1..(n - 1)
      /\ \A i \in 1..(n - 1) : inbox'[i] = inbox[i + 1]
  BY DEF InboxType, Event, Take
<1> HIDE DEF n
<1>2. \A m : Has(m)' => Has(m)
  <2> SUFFICES ASSUME NEW m, Has(m)' PROVE Has(m)
    OBVIOUS
  <2>1. PICK i \in 1..(n - 1) : inbox'[i] = m
    BY <1>1 DEF Has
  <2> QED  BY <1>1, <2>1 DEF Has
<1>3. Has(e)
  BY <1>1 DEF Has
<1>4. ASSUME Started PROVE e # "empty" /\ (e # "start" => Started')
  <2>1. PICK i \in 1..n : inbox[i] = "start" /\ \A j \in 1..n : inbox[j] = "empty" => i < j
    BY <1>1, <1>4 DEF Started
  <2>2. e # "empty"
    BY <1>1, <2>1
  <2>3. ASSUME e # "start" PROVE Started'
    <3>1. i - 1 \in 1..(n - 1) /\ inbox'[i - 1] = "start"
      BY <1>1, <2>1, <2>3
    <3>2. \A j \in 1..(n - 1) : inbox'[j] = "empty" => i - 1 < j
      BY <1>1, <2>1
    <3> QED  BY <1>1, <3>1, <3>2 DEF Started
  <2> QED  BY <2>2, <2>3
<1>5. ASSUME Polled PROVE Polled' /\ ~Has("live")' /\ ~Has("paused")'
  <2>1. ASSUME NEW i \in 1..(n - 1) PROVE inbox'[i] \notin {"live", "paused"}
    <3>1. i + 1 \in DOMAIN inbox /\ i + 1 # 1 /\ inbox'[i] = inbox[i + 1]
      BY <1>1
    <3> QED  BY <1>5, <3>1 DEF Polled
  <2> QED  BY <1>1, <2>1 DEF Polled, Has
<1> QED  BY <1>1, <1>2, <1>3, <1>4, <1>5

LEMMA QueueStays ==
    ASSUME inbox' = inbox
    PROVE  /\ \A m : Has(m)' <=> Has(m)
           /\ Started' <=> Started
           /\ Polled' <=> Polled
BY DEF Has, Started, Polled

LEMMA QueueIsEmpty ==
    ASSUME inbox = <<>>
    PROVE  (\A m : ~Has(m)) /\ ~Started /\ Polled
BY DEF Has, Started, Polled

\* The process changes, or what the bot holds of it.
LEMMA ProcessBecomes ==
    ASSUME TypeOK, ServerOK, NEW p \in Proc, dcs[p] # "none", NEW s, Becomes(p, s)
    PROVE  /\ handle = p /\ Being = dcs[p]
           /\ handle' = handle => Being' = s /\ \A q \in Proc : Alive(q)' => handle' = q
           /\ s = "none" => \A q \in Proc : dcs'[q] = "none"
           /\ Nobody(p) => ~players'
<1>1. handle = p /\ \A q \in Proc \ {p} : dcs[q] = "none"
  BY DEF ServerOK, Alive
<1>2. dcs' = [dcs EXCEPT ![p] = s] /\ dcs \in [Proc -> ProcState]
  BY DEF Becomes, TypeOK
<1> QED  BY <1>1, <1>2 DEF Being, Alive, Nobody

LEMMA ProcessStays ==
    ASSUME ServerOK, dcs' = dcs, handle' = handle \/ (Being = "none" /\ handle' = None)
    PROVE  Being' = Being /\ \A p \in Proc : Alive(p)' => handle' = p
BY LifecycleAssumption DEF ServerOK, Being, Alive

\* is_running() finds what the bot holds.
LEMMA ProcessFound ==
    ASSUME ServerOK, NEW h \in Found
    PROVE  (h = None /\ Being = "none") \/ (h = handle /\ handle \in Proc /\ Alive(handle) /\ Being # "none")
BY LifecycleAssumption DEF ServerOK, Found, Living, Alive, Being

\* A step of the world around the coroutines.
LEMMA Around ==
    ASSUME RoutineInv, UNCHANGED <<kind, pc>>, ServerOK', WaitOK', \A t \in Task : StandsOK(t)'
    PROVE  RoutineInv'
BY DEF RoutineInv, CoroutineOK

\* The DCS process goes on.
LEMMA ProcessWorks ==
    ASSUME TypeOK, RoutineInv, NEW p \in Proc, DcsWorks(p)
    PROVE  RoutineInv'
<1>1. UNCHANGED <<status, handle, mon, pending, onEmpty, kind, pc>>
  BY DEF DcsWorks, serverVars, flagVars, taskVars
<1>2. inbox \in InboxType
  BY DEF TypeOK, InboxType
<1>3. ServerOK /\ WaitOK /\ mon = "idle" /\ status # "SHUTDOWN" /\ \A t \in Task : StandsOK(t)
  <2>1. ServerOK /\ WaitOK /\ (\A t \in Task : StandsOK(t)) /\ dcs[p] \notin {"none", "hung"}
    BY DEF RoutineInv, CoroutineOK, DcsWorks
  <2>2. handle = p /\ Being = dcs[p]
    BY <2>1, LifecycleAssumption DEF ServerOK, Being, Alive
  <2> QED  BY <2>1, <2>2 DEF ServerOK
<1>4. CASE dcs[p] = "boot" /\ Becomes(p, "load") /\ Emit("load") /\ UNCHANGED players
  <2>1. handle = p /\ Being = "boot" /\ Being' = "load" /\ \A q \in Proc : Alive(q)' => handle' = q
    BY <1>1, <1>3, <1>4, ProcessBecomes
  <2>2. /\ \A m : Has(m)' <=> (Has(m) \/ m = "load")
        /\ (Started => Started') /\ Polled'
    BY <1>2, <1>3, <1>4, QueueGrows DEF Emit, ServerOK
  <2>3. \A t \in Task : pc[t] \in {"free", "await"}
    BY <1>3, <2>1 DEF StandsOK, Settled, Quiet, TypeOK, PC, Falling
  <2>4. ServerOK'
    BY <1>1, <1>3, <1>4, <2>1, <2>2 DEF ServerOK
  <2>5. \A t \in Task : StandsOK(t)'
    BY <1>1, <1>3, <2>3 DEF StandsOK, Falling
  <2>6. WaitOK'
    BY <1>1, <1>3, <1>4, <2>1, <2>2 DEF WaitOK, Fresh, Settled
  <2> QED  BY <1>1, <2>4, <2>5, <2>6, Around
<1>5. CASE dcs[p] = "load" /\ Becomes(p, "run") /\ Emit("start") /\ UNCHANGED players
  <2>1. handle = p /\ Being = "load" /\ Being' = "run" /\ \A q \in Proc : Alive(q)' => handle' = q
    BY <1>1, <1>3, <1>5, ProcessBecomes
  <2>2. /\ \A m : Has(m)' <=> (Has(m) \/ m = "start")
        /\ (Started => Started') /\ (~Has("empty") => Started') /\ Polled'
    BY <1>2, <1>3, <1>5, QueueGrows DEF Emit, ServerOK
  <2>3. \A t \in Task : pc[t] \in {"free", "await"}
    BY <1>3, <2>1 DEF StandsOK, Settled, Quiet, TypeOK, PC, Falling
  <2>4. ServerOK'
    BY <1>1, <1>3, <1>5, <2>1, <2>2 DEF ServerOK
  <2>5. \A t \in Task : StandsOK(t)'
    BY <1>1, <1>3, <2>3 DEF StandsOK, Falling
  <2>6. WaitOK'
    BY <1>1, <1>3, <1>5, <2>1, <2>2 DEF WaitOK, Fresh, Settled
  <2> QED  BY <1>1, <2>4, <2>5, <2>6, Around
<1>6. ASSUME NEW s \in {"idle", "none"}, dcs[p] \in {"halt", "quit"}, Becomes(p, s), Emit("stop"), Nobody(p)
      PROVE  RoutineInv'
  <2>1. /\ handle = p /\ Being \in {"halt", "quit"} /\ Being' = s /\ ~players'
        /\ \A q \in Proc : Alive(q)' => handle' = q
    BY <1>1, <1>3, <1>6, ProcessBecomes
  <2>2. /\ \A m : Has(m)' <=> (Has(m) \/ m = "stop")
        /\ (Started => Started') /\ Polled'
    BY <1>2, <1>3, <1>6, QueueGrows DEF Emit, ServerOK
  <2>3. ServerOK'
    BY <1>1, <1>3, <2>1, <2>2 DEF ServerOK
  <2>4. \A t \in Task : StandsOK(t)'
    BY <1>1, <1>3, <2>1, <2>2 DEF StandsOK, Settled, Quiet, Falling
  <2>5. WaitOK'
    BY <1>1, <1>3, <2>1, <2>2 DEF WaitOK, Fresh, Settled
  <2> QED  BY <1>1, <2>3, <2>4, <2>5, Around
<1> QED  BY <1>4, <1>5, <1>6 DEF DcsWorks

\* ... or fails, but not while a coroutine warns the players.
LEMMA ProcessFails ==
    ASSUME TypeOK, RoutineInv, Routine, NEW p \in Proc, DcsFails(p)
    PROVE  RoutineInv'
<1>1. UNCHANGED <<inbox, status, handle, mon, pending, onEmpty, kind, pc>>
  BY DEF DcsFails, serverVars, flagVars, taskVars
<1>2. ServerOK /\ WaitOK /\ \A t \in Task : StandsOK(t) /\ pc[t] # "warn"
  <2>1. \A t \in Task : CoroutineOK(t) /\ StandsOK(t)
    BY DEF RoutineInv, CoroutineOK
  <2>2. \A t \in Task : pc[t] = "warn" => kind[t] # "update"
    BY <2>1 DEF StandsOK, Method
  <2> QED  BY <2>1, <2>2 DEF RoutineInv, DcsFails, Routine
<1>3. PICK s \in {"none", "hung"} : dcs[p] # "none" /\ Becomes(p, s) /\ Nobody(p)
  BY DEF DcsFails, Alive
<1>4. Being # "none" /\ Being' = s /\ ~players' /\ \A q \in Proc : Alive(q)' => handle' = q
  BY <1>1, <1>2, <1>3, ProcessBecomes
<1>5. (\A m : Has(m)' <=> Has(m)) /\ (Started' <=> Started) /\ (Polled' <=> Polled)
  BY <1>1, QueueStays
<1>6. ServerOK'
  BY <1>1, <1>2, <1>3, <1>4, <1>5 DEF ServerOK
<1>7. \A t \in Task : StandsOK(t)'
  BY <1>1, <1>2, <1>3, <1>4, <1>5 DEF StandsOK, Settled, Quiet, Falling
<1>8. WaitOK'
  BY <1>1, <1>2, <1>3, <1>4, <1>5 DEF WaitOK, Fresh, Settled
<1> QED  BY <1>1, <1>6, <1>7, <1>8, Around

\* Players come and go.
LEMMA PlayersComeAndGo ==
    ASSUME TypeOK, RoutineInv, Players
    PROVE  RoutineInv'
<1>1. UNCHANGED <<dcs, status, handle, mon, pending, onEmpty, kind, pc>>
  BY DEF Players, serverVars, flagVars, taskVars
<1>2. ServerOK /\ WaitOK /\ inbox \in InboxType /\ \A t \in Task : StandsOK(t)
  BY DEF RoutineInv, CoroutineOK, TypeOK, InboxType
<1>3. Being' = Being /\ \A q \in Proc : Alive(q)' => handle' = q
  BY <1>1, <1>2, ProcessStays
<1>4. CASE ~players /\ (\E p \in Proc : dcs[p] = "run") /\ players' = TRUE /\ UNCHANGED inbox
  <2>1. Being = "run"
    BY <1>2, <1>4, LifecycleAssumption DEF ServerOK, Being, Alive
  <2>2. (\A m : Has(m)' <=> Has(m)) /\ (Started' <=> Started) /\ (Polled' <=> Polled)
    BY <1>4, QueueStays
  <2>3. ServerOK'
    BY <1>1, <1>2, <1>3, <1>4, <2>1, <2>2 DEF ServerOK
  <2>4. \A t \in Task : StandsOK(t)'
    BY <1>1, <1>2, <1>3, <1>4, <2>2 DEF StandsOK, Settled, Quiet, Falling
  <2>5. WaitOK'
    BY <1>1, <1>2, <1>3, <2>1, <2>2 DEF WaitOK, Fresh, Settled
  <2> QED  BY <1>1, <2>3, <2>4, <2>5, Around
<1>5. CASE players /\ players' = FALSE /\ Emit("empty")
  <2>1. /\ \A m : Has(m)' <=> (Has(m) \/ m = "empty")
        /\ (Started => Started') /\ (Polled => Polled')
    BY <1>2, <1>5, QueueGrows DEF Emit
  <2>2. Being \notin {"none", "idle", "hung"} /\ mon = "idle"
    BY <1>2, <1>5 DEF ServerOK
  <2>3. ServerOK'
    BY <1>1, <1>2, <1>3, <1>5, <2>1, <2>2 DEF ServerOK
  <2>4. \A t \in Task : StandsOK(t)'
    BY <1>1, <1>2, <1>3, <2>1, <2>2 DEF StandsOK, Settled, Quiet, Falling
  <2>5. WaitOK'
    BY <1>1, <1>2, <1>3, <1>5, <2>1 DEF WaitOK, Fresh, Settled
  <2> QED  BY <1>1, <2>3, <2>4, <2>5, Around
<1> QED  BY <1>4, <1>5 DEF Players

\* A step of a coroutine: no other one is there.
LEMMA Alone ==
    ASSUME RoutineInv, NEW t \in Task, pc[t] # "free" \/ \A u \in Task : pc[u] = "free",
           \A u \in Task \ {t} : pc'[u] = pc[u] /\ kind'[u] = kind[u],
           ServerOK', WaitOK', pc'[t] = "free" => kind'[t] = "none", StandsOK(t)'
    PROVE  RoutineInv'
<1>1. \A u \in Task \ {t} : pc'[u] = "free" /\ kind'[u] = "none"
  BY DEF RoutineInv, CoroutineOK
<1>2. \A u \in Task \ {t} : StandsOK(u)'
  BY <1>1 DEF StandsOK, Falling, Method
<1> QED  BY <1>1, <1>2 DEF RoutineInv, CoroutineOK

\* The events that say how the mission is.
LEMMA MissionEvents ==
    ASSUME TypeOK, RoutineInv,
           OnMissionLoadBegin \/ OnSimulationStart \/ OnSimulationStop \/ GetMissionUpdate
    PROVE  RoutineInv'
<1>1. UNCHANGED <<dcs, players, handle, mon, kind, pc>>
  BY DEF OnMissionLoadBegin, OnSimulationStart, OnSimulationStop, GetMissionUpdate, procVars, flagVars, taskVars
<1>2. ServerOK /\ WaitOK /\ inbox \in InboxType /\ \A t \in Task : StandsOK(t)
  BY DEF RoutineInv, CoroutineOK, TypeOK, InboxType
<1>3. Being' = Being /\ \A q \in Proc : Alive(q)' => handle' = q
  BY <1>1, <1>2, ProcessStays
<1>4. ASSUME NEW e, Event(e), Take
      PROVE  /\ \A m : Has(m)' => Has(m)
             /\ Has(e) /\ Polled' /\ (Started => e = "start" \/ Started')
             /\ mon = "idle" /\ \A t \in Task : kind[t] \in {"launch", "load"} => pc[t] \notin {"choose", "up", "prepare"}
  <2>1. (\A m : Has(m)' => Has(m)) /\ Has(e) /\ Polled' /\ (Started => e = "start" \/ Started') /\ inbox # <<>>
    BY <1>2, <1>4, QueueShrinks DEF ServerOK
  <2> QED  BY <1>2, <2>1 DEF ServerOK, StandsOK, Method
<1>5. CASE OnMissionLoadBegin
  <2>1. Event("load") /\ Take /\ status' = "LOADING" /\ UNCHANGED <<pending, onEmpty>>
    BY <1>5 DEF OnMissionLoadBegin, flagVars
  <2>2. \A t \in Task : pc[t] \in {"free", "await"}
    BY <1>2, <1>4, <2>1 DEF StandsOK, Settled, Quiet, TypeOK, PC, Falling, Method
  <2>3. status # "SHUTDOWN" \/ Being = "none"
    BY <1>2 DEF ServerOK
  <2>4. ServerOK'
    BY <1>1, <1>2, <1>3, <1>4, <2>1, <2>3 DEF ServerOK
  <2>5. \A t \in Task : StandsOK(t)'
    BY <1>1, <1>2, <2>1, <2>2 DEF StandsOK, Falling
  <2>6. WaitOK'
    BY <1>1, <1>2, <1>3, <1>4, <2>1 DEF WaitOK, Fresh, Settled
  <2> QED  BY <1>1, <2>4, <2>5, <2>6, Around
<1>6. CASE OnSimulationStart
  <2>1. Event("start") /\ Take /\ status' = "RUNNING" /\ pending' = FALSE /\ onEmpty' = "none"
    BY <1>6 DEF OnSimulationStart
  <2>2. \A t \in Task : pc[t] \in {"free", "await"}
    BY <1>2, <1>4, <2>1 DEF StandsOK, Settled, Quiet, TypeOK, PC, Falling, Method
  <2>3. ServerOK'
    BY <1>1, <1>2, <1>3, <1>4, <2>1 DEF ServerOK
  <2>4. \A t \in Task : StandsOK(t)'
    <3> SUFFICES ASSUME NEW t \in Task PROVE StandsOK(t)'
      OBVIOUS
    <3>1. pc[t] = "free" => kind[t] = "none"
      BY DEF RoutineInv, CoroutineOK
    <3> QED  BY <1>1, <1>2, <2>1, <2>2, <3>1 DEF StandsOK, Falling, Method
  <2>5. WaitOK'
    BY <2>1 DEF WaitOK
  <2> QED  BY <1>1, <2>3, <2>4, <2>5, Around
<1>7. CASE OnSimulationStop
  <2>1. Event("stop") /\ Take /\ status' = "STOPPED" /\ UNCHANGED <<pending, onEmpty>>
    BY <1>7 DEF OnSimulationStop, flagVars
  <2>2. ServerOK'
    BY <1>1, <1>2, <1>3, <1>4, <2>1 DEF ServerOK
  <2>3. \A t \in Task : StandsOK(t)'
    BY <1>1, <1>2, <1>3, <1>4, <2>1 DEF StandsOK, Settled, Quiet, Falling
  <2>4. WaitOK'
    BY <1>1, <1>2, <1>3, <1>4, <2>1 DEF WaitOK, Fresh, Settled
  <2> QED  BY <1>1, <2>2, <2>3, <2>4, Around
<1>8. CASE GetMissionUpdate
  <2>1. PICK e \in {"live", "paused"} : Event(e) /\ (e = "paused" => ~Event("live"))
    BY <1>8 DEF GetMissionUpdate, Event
  <2>2. Take /\ status' \in {"STOPPED", "RUNNING", status} /\ UNCHANGED <<pending, onEmpty>>
    BY <1>8 DEF GetMissionUpdate, flagVars
  <2>3. e = "paused" => status' \in {"STOPPED", status}
    BY <1>8, <2>1 DEF GetMissionUpdate
  <2>4. \A t \in Task : pc[t] \in {"free", "warn", "await"}
    BY <1>2, <1>4, <2>1, <2>2 DEF StandsOK, Settled, Quiet, TypeOK, PC, Falling, Method
  <2>5. ServerOK'
    BY <1>1, <1>2, <1>3, <1>4, <2>1, <2>2, <2>3 DEF ServerOK
  <2>6. \A t \in Task : StandsOK(t)'
    BY <1>1, <1>2, <1>3, <1>4, <2>1, <2>2, <2>4 DEF StandsOK, Settled, Falling
  <2>7. WaitOK'
    BY <1>1, <1>2, <1>3, <1>4, <2>1, <2>2 DEF WaitOK, Fresh, Settled
  <2> QED  BY <1>1, <2>5, <2>6, <2>7, Around
<1> QED  BY <1>5, <1>6, <1>7, <1>8

\* The last player leaves: an action that has waited for that goes off.
LEMMA EmptyEvent ==
    ASSUME TypeOK, RoutineInv, OnServerEmpty, \A t \in Task : ~Awake(t)
    PROVE  RoutineInv'
<1>1. UNCHANGED <<dcs, players, handle, mon, status, pending>> /\ onEmpty' = "none"
  BY DEF OnServerEmpty, procVars, serverVars
<1>2. ServerOK /\ WaitOK /\ inbox \in InboxType /\ (\A t \in Task : StandsOK(t)) /\ Event("empty") /\ Take
  BY DEF RoutineInv, CoroutineOK, TypeOK, InboxType, OnServerEmpty
<1>3. Being' = Being /\ \A q \in Proc : Alive(q)' => handle' = q
  BY <1>1, <1>2, ProcessStays
<1>4. /\ \A m : Has(m)' => Has(m)
      /\ Has("empty") /\ ~Started /\ Polled' /\ ~Has("live")' /\ ~Has("paused")' /\ inbox # <<>>
  BY <1>2, QueueShrinks DEF ServerOK
<1>5. mon = "idle" /\ \A t \in Task : kind[t] \in {"launch", "load"} => pc[t] \notin {"choose", "up", "prepare"}
  BY <1>2, <1>4 DEF ServerOK, StandsOK, Method
<1>6. WaitOK'
  BY <1>1 DEF WaitOK
<1>7. CASE onEmpty = "none"
  <2>1. UNCHANGED <<kind, pc>>
    BY <1>7 DEF OnServerEmpty, taskVars
  <2>2. ServerOK'
    BY <1>1, <1>2, <1>3, <1>4, <1>5, <2>1 DEF ServerOK
  <2>3. \A t \in Task : StandsOK(t)'
    BY <1>1, <1>2, <1>3, <1>4, <1>5, <2>1 DEF StandsOK, Settled, Quiet, Falling
  <2> QED  BY <1>6, <2>1, <2>2, <2>3, Around
<1>8. CASE onEmpty # "none"
  <2>1. /\ pending /\ Settled /\ status # "LOADING" /\ onEmpty \in Method
        /\ \A t \in Task : kind[t] \in {"none", "launch", "load"}
    BY <1>2, <1>4, <1>8 DEF WaitOK, Fresh, TypeOK
  <2>2. ASSUME NEW t \in Task PROVE pc[t] = "free"
    <3>1. pc[t] \in {"free", "await"}
      BY <1>2, <1>5, <2>1, <2>2 DEF StandsOK, TypeOK, PC, Falling, Method
    <3>2. pc[t] = "await" => status \notin {"LOADING", "SHUTTING_DOWN", "STOPPED", "RUNNING", "SHUTDOWN"}
      BY <1>2, <2>1, <2>2 DEF StandsOK, Awake
    <3>3. status \in Status
      BY DEF TypeOK
    <3> QED  BY <3>1, <3>2, <3>3 DEF Status
  <2>3. PICK t \in Task : Create(t, onEmpty, FirstStep(onEmpty), FALSE)
    BY <1>8 DEF OnServerEmpty
  <2>4. /\ kind'[t] = onEmpty /\ pc'[t] = FirstStep(onEmpty)
        /\ \A u \in Task \ {t} : pc'[u] = pc[u] /\ kind'[u] = kind[u]
    BY <2>3 DEF Create, TypeOK
  <2>5. pc'[t] = "choose" \/ (pc'[t] = "down" /\ onEmpty \in {"cold", "shutdown"})
    BY <2>4 DEF FirstStep
  <2>6. Being # "quit"
    BY <1>2, <2>2 DEF ServerOK
  <2>7. ServerOK'
    BY <1>1, <1>2, <1>3, <1>4, <1>5, <2>6 DEF ServerOK
  <2>8. Quiet'
    BY <1>3, <1>4, <2>1 DEF Quiet, Settled
  <2>9. StandsOK(t)'
    BY <1>1, <1>5, <2>1, <2>4, <2>5, <2>8 DEF StandsOK, Falling
  <2> QED  BY <1>6, <2>2, <2>4, <2>5, <2>7, <2>9, Alone
<1> QED  BY <1>7, <1>8

\* What Routine excludes, and where the coroutines stand when timers and orders act.
LEMMA RoutineCalm ==
    ASSUME TypeOK, RoutineInv, Routine, \A t \in Task : ~Awake(t)
    PROVE  /\ ~AdminFlag /\ ~Order("admin") /\ ~Order("update") /\ ~Order("autoupdate")
           /\ ~Fault("slow")
           /\ Calm => /\ inbox = <<>> /\ mon = "idle"
                      /\ \A t \in Task :
                            \/ pc[t] = "free"
                            \/ pc[t] = "warn" /\ status \notin {"SHUTDOWN", "LOADING", "SHUTTING_DOWN"} /\ pending
                            \/ pc[t] = "await" /\ status = "LOADING"
                            \/ pc[t] = "stopping" /\ status = "SHUTTING_DOWN"
<1>1. ~Order("admin") /\ ~Order("update") /\ ~Order("autoupdate") /\ ~Fault("slow")
  BY DEF Routine, Order, Fault
<1>2. ASSUME Calm PROVE inbox = <<>> /\ mon = "idle" /\ \A t \in Task : pc[t] \in {"free", "warn", "await", "stopping"}
  <2>1. inbox = <<>> /\ mon = "idle" /\ \A t \in Task : pc[t] \notin Short
    BY <1>2 DEF Calm, Routine
  <2>2. \A t \in Task : pc[t] \in PC /\ pc[t] \notin {"delay", "updating"}
    BY DEF TypeOK, RoutineInv, CoroutineOK, StandsOK
  <2>3. {"choose", "up", "down", "exiting", "killing", "downed", "prepare"} \subseteq Short
    BY DEF Short, Routine
  <2> QED  BY <2>1, <2>2, <2>3 DEF PC
<1>3. ASSUME NEW t \in Task, pc[t] = "await" PROVE status = "LOADING"
  BY <1>3 DEF RoutineInv, CoroutineOK, StandsOK, Awake, TypeOK, Status
<1>4. ASSUME NEW t \in Task, pc[t] = "stopping" PROVE status = "SHUTTING_DOWN"
  BY <1>4 DEF RoutineInv, CoroutineOK, StandsOK, Awake, TypeOK, Status, Falling
<1>5. ASSUME NEW t \in Task, pc[t] = "warn" PROVE status \notin {"SHUTDOWN", "LOADING", "SHUTTING_DOWN"} /\ pending
  BY <1>5 DEF RoutineInv, CoroutineOK, StandsOK, ServerOK
<1> QED  BY <1>1, <1>2, <1>3, <1>4, <1>5 DEF AdminFlag

\* The monitor.
LEMMA Monitored ==
    ASSUME TypeOK, RoutineInv, Routine, Heartbeat, \A t \in Task : ~Awake(t)
    PROVE  RoutineInv'
<1>1. UNCHANGED <<inbox, pending, onEmpty, kind, pc>>
  BY DEF Heartbeat, HbDead, HbReported, HbHung, HbDumped, HbKilled, flagVars, taskVars
<1>2. ServerOK /\ WaitOK /\ \A t \in Task : StandsOK(t)
  BY DEF RoutineInv, CoroutineOK
<1>3. (\A m : Has(m)' <=> Has(m)) /\ (Started' <=> Started) /\ (Polled' <=> Polled)
  BY <1>1, QueueStays
<1>4. ASSUME Being' = "none", ~players', \A q \in Proc : Alive(q)' => handle' = q,
             \A t \in Task : pc[t] \in {"free", "await"},
             status' = status \/ status' = "SHUTDOWN",
             mon' # "idle" => inbox = <<>>,
             status' = "SHUTDOWN" \/ mon' \in {"report", "audit"} => handle' = None
      PROVE  RoutineInv'
  <2>1. ServerOK'
    BY <1>1, <1>2, <1>3, <1>4 DEF ServerOK
  <2>2. \A t \in Task : StandsOK(t)'
    BY <1>1, <1>2, <1>3, <1>4 DEF StandsOK, Falling
  <2>3. WaitOK'
    BY <1>1, <1>2, <1>3, <1>4 DEF WaitOK, Fresh, Settled
  <2> QED  BY <1>1, <2>1, <2>2, <2>3, Around
<1>5. Being = "none" => ~players
  BY <1>2 DEF ServerOK
<1>6. mon # "idle" => inbox = <<>> /\ \A t \in Task : pc[t] \in {"free", "await"}
  BY <1>2 DEF ServerOK, StandsOK
<1>7. CASE HbDead
  <2>1. Watched /\ handle # None /\ ~Alive(handle) /\ UNCHANGED <<dcs, players>>
    BY <1>7 DEF HbDead, procVars
  <2>2. Being = "none"
    BY <2>1 DEF Being, Alive
  <2>3. PICK h \in Found : /\ handle' = h
                           /\ h = None => \/ UNCHANGED <<status, mon>>
                                          \/ status' = "SHUTDOWN" /\ mon' = mon
                                          \/ status' = status /\ mon' = "report"
    BY <1>7 DEF HbDead
  <2>4. h = None
    BY <1>2, <2>2, ProcessFound
  <2>5. Being' = Being /\ \A q \in Proc : Alive(q)' => handle' = q
    BY <1>2, <2>1, <2>2, <2>3, <2>4, ProcessStays
  <2>6. inbox = <<>> /\ \A t \in Task : pc[t] \in {"free", "await"}
    BY <1>2, <2>1, <2>2, RoutineCalm DEF Watched, StandsOK
  <2> QED  BY <1>4, <1>5, <2>1, <2>2, <2>3, <2>4, <2>5, <2>6
<1>8. CASE HbReported \/ HbKilled
  <2>1. mon \in {"report", "audit"} /\ mon' = "idle" /\ status' = "SHUTDOWN" /\ UNCHANGED <<dcs, players, handle>>
    BY <1>8 DEF HbReported, HbKilled, procVars
  <2>2. Being = "none" /\ handle = None
    BY <1>2, <2>1 DEF ServerOK
  <2>3. Being' = Being /\ \A q \in Proc : Alive(q)' => handle' = q
    BY <1>2, <2>1, ProcessStays
  <2> QED  BY <1>4, <1>5, <1>6, <2>1, <2>2, <2>3
<1>9. CASE HbHung
  <2>1. /\ Watched /\ Silent
        /\ \/ Alive(handle) /\ mon' = "dump" /\ UNCHANGED <<dcs, players, handle, status>>
           \/ handle = None /\ handle' = None /\ mon' = "audit" /\ status' = "SHUTDOWN"
    BY <1>9, RoutineCalm DEF HbHung, procVars
  <2>2. inbox = <<>> /\ \A t \in Task : pc[t] \in {"free", "warn"}
    BY <2>1, RoutineCalm DEF Silent, Watched
  <2>3. CASE Alive(handle)
    <3>1. mon' = "dump" /\ UNCHANGED <<dcs, players, handle, status>>
      BY <2>1, <2>3, LifecycleAssumption DEF Alive
    <3>2. Being = "hung"
      BY <2>1, <2>3 DEF Silent, Working, Being, Alive, TypeOK, ProcState
    <3>3. Being' = Being /\ \A q \in Proc : Alive(q)' => handle' = q
      BY <1>2, <3>1, ProcessStays
    <3>4. \A t \in Task : pc[t] = "free"
      BY <1>2, <2>2, <3>2 DEF StandsOK
    <3>5. ServerOK'
      BY <1>1, <1>2, <1>3, <2>2, <3>1, <3>2, <3>3 DEF ServerOK
    <3>6. \A t \in Task : StandsOK(t)'
      BY <1>1, <1>2, <3>4 DEF StandsOK, Falling
    <3>7. WaitOK'
      BY <1>1, <1>2, <1>3, <3>1, <3>3 DEF WaitOK, Fresh, Settled
    <3> QED  BY <1>1, <3>5, <3>6, <3>7, Around
  <2>4. CASE handle = None
    <3>1. Being = "none" /\ Found = {None}
      BY <1>2, <2>4, LifecycleAssumption DEF ServerOK, Being, Found, Living, Alive
    <3>2. UNCHANGED <<dcs, players>> /\ handle' = None /\ mon' = "audit" /\ status' = "SHUTDOWN"
      BY <1>9, <2>1, <2>4, <3>1, LifecycleAssumption DEF HbHung, procVars, Alive
    <3>3. Being' = Being /\ \A q \in Proc : Alive(q)' => handle' = q
      BY <1>2, <2>4, <3>2, ProcessStays
    <3>4. \A t \in Task : pc[t] = "free"
      BY <1>2, <2>2, <3>1 DEF StandsOK
    <3> QED  BY <1>4, <1>5, <2>2, <3>1, <3>2, <3>3, <3>4
  <2> QED  BY <2>1, <2>3, <2>4
<1>10. CASE HbDumped
  <2>1. mon = "dump" /\ status' = status
    BY <1>10 DEF HbDumped
  <2>2. CASE Alive(handle)
    <3>1. handle \in Proc /\ dcs[handle] # "none" /\ Becomes(handle, "none") /\ Nobody(handle) /\ handle' = None
          /\ mon' = "audit"
      BY <1>10, <2>2 DEF HbDumped, Alive
    <3>2. (\A q \in Proc : dcs'[q] = "none") /\ ~players'
      BY <1>2, <3>1, ProcessBecomes
    <3>3. Being' = "none" /\ \A q \in Proc : Alive(q)' => handle' = q
      BY <3>2 DEF Being, Alive
    <3> QED  BY <1>4, <1>6, <2>1, <3>1, <3>2, <3>3
  <2>3. CASE ~Alive(handle)
    <3>1. mon' = "idle" /\ UNCHANGED <<dcs, players, handle>>
      BY <1>10, <2>3 DEF HbDumped, procVars
    <3>2. Being = "none"
      BY <2>3 DEF Being, Alive
    <3>3. Being' = Being /\ \A q \in Proc : Alive(q)' => handle' = q
      BY <1>2, <3>1, ProcessStays
    <3>4. status = "SHUTDOWN" => handle = None
      BY <1>2 DEF ServerOK
    <3> QED  BY <1>4, <1>5, <1>6, <2>1, <3>1, <3>2, <3>3, <3>4
  <2> QED  BY <2>2, <2>3
<1> QED  BY <1>7, <1>8, <1>9, <1>10 DEF Heartbeat

\* The question how the mission is, and its answer.
LEMMA Asked ==
    ASSUME TypeOK, RoutineInv, Routine, HbKeepAlive, \A t \in Task : ~Awake(t)
    PROVE  RoutineInv'
<1>1. UNCHANGED <<dcs, players, status, handle, mon, pending, onEmpty, kind, pc>>
  BY DEF HbKeepAlive, procVars, serverVars, flagVars, taskVars
<1>2. ServerOK /\ WaitOK /\ inbox \in InboxType /\ \A t \in Task : StandsOK(t)
  BY DEF RoutineInv, CoroutineOK, TypeOK, InboxType
<1>3. Being' = Being /\ \A q \in Proc : Alive(q)' => handle' = q
  BY <1>1, <1>2, ProcessStays
<1>4. status \in {"RUNNING", "STOPPED"} /\ inbox = <<>> /\ mon = "idle" /\ \A t \in Task : pc[t] \in {"free", "warn"}
  BY RoutineCalm DEF HbKeepAlive, Watched
<1>5. PICK e \in {"live", "paused"} : Emit(e) /\ (e = "live" => Being = "run")
  BY <1>2, LifecycleAssumption DEF HbKeepAlive, ServerOK, Being, Alive
<1>6. /\ \A m : Has(m)' <=> m = e
      /\ Polled' /\ (Started => Started')
  BY <1>2, <1>4, <1>5, QueueGrows, QueueIsEmpty DEF Emit
<1>7. ServerOK'
  BY <1>1, <1>2, <1>3, <1>4, <1>5, <1>6 DEF ServerOK
<1>8. \A t \in Task : StandsOK(t)'
  BY <1>1, <1>2, <1>3, <1>4, <1>6 DEF StandsOK, Settled, Falling
<1>9. WaitOK'
  BY <1>1, <1>2, <1>3, <1>4, <1>6 DEF WaitOK, Fresh, Settled
<1> QED  BY <1>1, <1>7, <1>8, <1>9, Around

\* The steps of a launch.
LEMMA Launched ==
    ASSUME TypeOK, RoutineInv, Routine, NEW t \in Task,
           UpBegin(t) \/ UpLaunch(t) \/ UpLaunchFails(t) \/ UpRaises(t)
    PROVE  RoutineInv'
<1>1. UNCHANGED <<players, inbox, mon, onEmpty>> /\ pc[t] \in {"up", "prepare"} /\ kind[t] \in Method \cup {"launch", "load"}
  BY DEF UpBegin, UpLaunch, UpLaunchFails, UpRaises, procVars, serverVars, flagVars, RoutineInv, CoroutineOK,
         StandsOK
<1>2. ServerOK /\ WaitOK /\ CoroutineOK(t) /\ StandsOK(t)
  BY DEF RoutineInv, CoroutineOK
<1>3. /\ Being = "none" /\ ~players /\ mon = "idle"
      /\ pc[t] = "prepare" => status \notin {"SHUTDOWN", "SHUTTING_DOWN"}
      /\ IF kind[t] \in Method THEN pending /\ Quiet ELSE inbox = <<>> /\ status = "LOADING"
  BY <1>1, <1>2 DEF ServerOK, StandsOK
<1>4. (\A m : Has(m)' <=> Has(m)) /\ (Started' <=> Started) /\ (Polled' <=> Polled) /\ ~Has("start") /\ ~Has("live")
  BY <1>1, <1>3, QueueStays, QueueIsEmpty DEF Quiet, Settled
<1>5. onEmpty # "none" => kind[t] \notin Method /\ inbox = <<>> /\ ~Has("empty")
  BY <1>1, <1>2, <1>3, QueueIsEmpty DEF WaitOK, Method
<1>6. kind[t] \notin Method => \A m : ~Has(m)
  BY <1>3, QueueIsEmpty
<1>7. CASE UpBegin(t)
  <2>1. /\ status' = "LOADING" /\ UNCHANGED <<dcs, handle, pending>>
        /\ pc'[t] = "prepare" /\ \A u \in Task : kind'[u] = kind[u] /\ (u # t => pc'[u] = pc[u])
    BY <1>7 DEF UpBegin, Goto, procVars, flagVars, TypeOK
  <2>2. Being' = Being /\ \A q \in Proc : Alive(q)' => handle' = q
    BY <1>2, <2>1, ProcessStays
  <2>3. ServerOK'
    BY <1>1, <1>2, <1>3, <1>4, <2>1, <2>2 DEF ServerOK
  <2>4. WaitOK'
    BY <1>1, <1>2, <1>3, <1>4, <1>5, <2>1, <2>2 DEF WaitOK, Fresh
  <2>5. StandsOK(t)'
    BY <1>1, <1>3, <1>4, <2>1, <2>2 DEF StandsOK, Quiet, Settled, Falling
  <2> QED  BY <1>1, <2>1, <2>3, <2>4, <2>5, Alone
<1>8. CASE UpLaunch(t)
  <2>1. PICK p \in Proc \ {handle} : dcs[p] = "none" /\ Becomes(p, "boot") /\ handle' = p
    BY <1>8 DEF UpLaunch
  <2>2. /\ pc[t] = "prepare" /\ UNCHANGED <<status, pending>>
        /\ pc'[t] = "await" /\ \A u \in Task : kind'[u] = kind[u] /\ (u # t => pc'[u] = pc[u])
    BY <1>8 DEF UpLaunch, Goto, flagVars, TypeOK
  <2>3. Being' = "boot" /\ \A q \in Proc : Alive(q)' => handle' = q
    BY <1>2, <1>3, <2>1 DEF ServerOK, Becomes, Being, Alive, TypeOK
  <2>4. ServerOK'
    BY <1>1, <1>2, <1>3, <1>4, <1>6, <2>2, <2>3 DEF ServerOK
  <2>5. WaitOK'
    BY <1>1, <1>2, <1>3, <1>4, <1>5, <2>2, <2>3 DEF WaitOK, Fresh
  <2>6. StandsOK(t)'
    BY <1>1, <1>3, <2>2 DEF StandsOK, Falling
  <2> QED  BY <1>1, <2>2, <2>4, <2>5, <2>6, Alone
<1>9. CASE UpLaunchFails(t)
  <2>1. /\ pc[t] = "prepare" /\ UNCHANGED <<dcs, status, pending>> /\ handle' = None
        /\ pc'[t] = "await" /\ \A u \in Task : kind'[u] = kind[u] /\ (u # t => pc'[u] = pc[u])
    BY <1>9 DEF UpLaunchFails, Goto, procVars, flagVars, TypeOK
  <2>2. Being' = Being /\ \A q \in Proc : Alive(q)' => handle' = q
    BY <1>2, <1>3, <2>1, ProcessStays
  <2>3. ServerOK'
    BY <1>1, <1>2, <1>3, <1>4, <2>1, <2>2 DEF ServerOK
  <2>4. WaitOK'
    BY <1>1, <1>2, <1>3, <1>4, <1>5, <2>1, <2>2 DEF WaitOK, Fresh
  <2>5. StandsOK(t)'
    BY <1>1, <1>3, <2>1 DEF StandsOK, Falling
  <2> QED  BY <1>1, <2>1, <2>3, <2>4, <2>5, Alone
<1>10. CASE UpRaises(t)
  <2>1. /\ UNCHANGED <<dcs, status, handle>> /\ (kind[t] \notin Method => pending' = pending)
        /\ pc'[t] = "free" /\ kind'[t] = "none" /\ \A u \in Task \ {t} : kind'[u] = kind[u] /\ pc'[u] = pc[u]
    BY <1>10 DEF UpRaises, AfterStartup, End, procVars, serverVars, TypeOK
  <2>2. Being' = Being /\ \A q \in Proc : Alive(q)' => handle' = q
    BY <1>2, <2>1, ProcessStays
  <2>3. ServerOK'
    BY <1>1, <1>2, <1>3, <1>4, <2>1, <2>2 DEF ServerOK
  <2>4. WaitOK'
    <3>1. onEmpty # "none" => pending' /\ Fresh'
      <4> SUFFICES ASSUME onEmpty # "none" PROVE pending' /\ Fresh'
        OBVIOUS
      <4>1. pending /\ pending' = pending
        BY <1>2, <1>5, <2>1 DEF WaitOK
      <4>2. Fresh'
        BY <1>1, <1>3, <1>4, <1>5, <2>2 DEF Fresh
      <4> QED  BY <4>1, <4>2
    <3>2. onEmpty # "none" => \A u \in Task : kind'[u] \in {"none", "launch", "load"}
      <4>1. \A u \in Task \ {t} : kind'[u] = kind[u]
        BY <2>1
      <4> QED  BY <1>2, <2>1, <4>1 DEF WaitOK
    <3> QED  BY <1>1, <3>1, <3>2 DEF WaitOK
  <2>5. StandsOK(t)'
    BY <2>1 DEF StandsOK, Falling, Method
  <2> QED  BY <1>1, <2>1, <2>3, <2>4, <2>5, Alone
<1> QED  BY <1>7, <1>8, <1>9, <1>10

\* A coroutine ends.
LEMMA Ended ==
    ASSUME TypeOK, RoutineInv, NEW t \in Task, pc[t] \in {"await", "choose"}, End(t),
           UNCHANGED <<players, inbox, mon, onEmpty, pending, dcs>>,
           handle' = handle \/ (Being = "none" /\ handle' = None),
           status' = status \/ (status' = "SHUTDOWN" /\ Being = "none" /\ handle' = None)
    PROVE  RoutineInv'
<1>1. ServerOK /\ WaitOK /\ CoroutineOK(t) /\ StandsOK(t)
  BY DEF RoutineInv, CoroutineOK
<1>2. pc'[t] = "free" /\ kind'[t] = "none" /\ \A u \in Task \ {t} : kind'[u] = kind[u] /\ pc'[u] = pc[u]
  BY DEF End, TypeOK
<1>3. Being' = Being /\ \A q \in Proc : Alive(q)' => handle' = q
  BY <1>1, ProcessStays
<1>4. (\A m : Has(m)' <=> Has(m)) /\ (Started' <=> Started) /\ (Polled' <=> Polled)
  BY QueueStays
<1>5. Being # "quit"
  BY <1>1 DEF ServerOK, CoroutineOK
<1>6. ServerOK'
  BY <1>1, <1>3, <1>4, <1>5 DEF ServerOK
<1>7. WaitOK'
  BY <1>1, <1>2, <1>3, <1>4 DEF WaitOK, Fresh, Settled
<1>8. StandsOK(t)'
  BY <1>2 DEF StandsOK, Falling, Method
<1> QED  BY <1>2, <1>6, <1>7, <1>8, Alone

\* The end of the wait for a launch.
LEMMA LaunchEnds ==
    ASSUME TypeOK, RoutineInv, Routine, NEW t \in Task,
           UpReady(t) \/ UpCrashed(t) \/ (UpTimeout(t) /\ \A u \in Task : ~Awake(u))
    PROVE  RoutineInv'
<1>1. pc[t] = "await" /\ ServerOK
  BY DEF UpReady, UpCrashed, UpTimeout, RoutineInv
<1>2. ~Retry(t)
  BY <1>1 DEF RoutineInv, CoroutineOK, StandsOK, Retry, Method
<1>3. CASE UpReady(t) \/ UpCrashed(t)
  <2>1. End(t) /\ UNCHANGED <<players, inbox, mon, onEmpty, pending, dcs, handle, status>>
    BY <1>2, <1>3 DEF UpReady, UpCrashed, AfterStartup, procVars, serverVars
  <2> QED  BY <1>1, <2>1, Ended
<1>4. CASE UpTimeout(t)
  <2>1. UNCHANGED <<players, inbox, mon, onEmpty, pending, dcs>>
    BY <1>4 DEF UpTimeout, procVars
  <2>2. PICK h \in Found : handle' = h /\ status' = (IF h = None THEN "SHUTDOWN" ELSE status) /\ End(t)
    BY <1>2, <1>4 DEF UpTimeout, AfterStartup
  <2>3. (h = None /\ Being = "none") \/ (h = handle /\ handle \in Proc)
    BY <1>1, <2>2, ProcessFound
  <2> QED  BY <1>1, <2>1, <2>2, <2>3, Ended, LifecycleAssumption
<1> QED  BY <1>3, <1>4

\* The steps of a shutdown.
LEMMA ShutDown ==
    ASSUME TypeOK, RoutineInv, Routine, NEW t \in Task, Shutdown(t)
    PROVE  RoutineInv'
<1>1. UNCHANGED <<inbox, mon, onEmpty>> /\ pc[t] \in Falling
  BY DEF Shutdown, Down, DownStopped, DownExited, DownKill, DownDone, Falling, flagVars
<1>2. ServerOK /\ WaitOK /\ CoroutineOK(t) /\ StandsOK(t)
  BY DEF RoutineInv, CoroutineOK
<1>3. /\ kind[t] \in {"teardown", "cold", "shutdown"} /\ Quiet /\ mon = "idle" /\ onEmpty = "none"
      /\ kind[t] \in Method => pending
  BY <1>1, <1>2 DEF StandsOK, WaitOK, Falling
<1>4. (\A m : Has(m)' <=> Has(m)) /\ (Started' <=> Started) /\ (Polled' <=> Polled)
  BY <1>1, QueueStays
<1>5. WaitOK'
  BY <1>1, <1>3 DEF WaitOK
<1>6. ASSUME pc'[t] \in Falling, \A u \in Task : kind'[u] = kind[u] /\ (u # t => pc'[u] = pc[u]),
             pending' = pending, Being' \notin {"boot", "load", "run", "halt"} \/ Being' = Being,
             players' => players /\ Being' \notin {"none", "idle", "hung"},
             Being' = "quit" => pc'[t] \in {"stopping", "exiting", "killing"},
             pc'[t] = "downed" => Being' = "none",
             status' = "SHUTDOWN" => Being' = "none" /\ handle' = None,
             pc'[t] # "down" => status' \notin {"RUNNING", "LOADING"},
             \A q \in Proc : Alive(q)' => handle' = q
      PROVE  RoutineInv'
  <2>1. Being' \notin {"boot", "load"} /\ (Being' = "halt" => Being = "halt")
    BY <1>3, <1>6 DEF Quiet, Settled
  <2>2. ServerOK'
    BY <1>1, <1>2, <1>3, <1>4, <1>6, <2>1 DEF ServerOK
  <2>3. Quiet'
    BY <1>3, <1>4, <2>1 DEF Quiet, Settled
  <2>4. StandsOK(t)'
    BY <1>1, <1>3, <1>6, <2>3 DEF StandsOK, Falling
  <2> QED  BY <1>1, <1>5, <1>6, <2>2, <2>4, Alone DEF Falling
<1>7. CASE Down(t)
  <2>1. PICK h \in Found :
          /\ handle' = h
          /\ \/ h = None /\ status' = "SHUTDOWN" /\ Goto(t, "downed") /\ UNCHANGED dcs
             \/ h # None /\ status' = "SHUTTING_DOWN" /\ Quit /\ Goto(t, "stopping")
    BY <1>3, <1>7 DEF Down
  <2>2. UNCHANGED <<players, pending>>
    BY <1>7 DEF Down, flagVars
  <2>3. CASE h = None
    <3>1. Being = "none" /\ handle' = None /\ dcs' = dcs
      BY <1>2, <2>1, <2>3, ProcessFound, LifecycleAssumption
    <3>2. Being' = Being /\ \A q \in Proc : Alive(q)' => handle' = q
      BY <1>2, <3>1, ProcessStays
    <3>3. status' = "SHUTDOWN" /\ pc'[t] = "downed" /\ \A u \in Task : kind'[u] = kind[u] /\ (u # t => pc'[u] = pc[u])
      BY <2>1, <2>3 DEF Goto, TypeOK
    <3> QED  BY <1>2, <1>6, <2>2, <3>1, <3>2, <3>3 DEF ServerOK, Falling
  <2>4. CASE h # None
    <3>1. h = handle /\ handle' = handle /\ handle \in Proc /\ Being = dcs[handle] /\ Being # "none"
      BY <1>2, <2>1, <2>4, ProcessFound DEF Being
    <3>2. Quit /\ dcs[handle] \in ProcState
      BY <2>1, <2>4, <3>1 DEF TypeOK
    <3>3. /\ Being' \in {"quit", "none", Being} /\ (Being' = "none" => Being = "idle")
          /\ \A q \in Proc : Alive(q)' => Alive(q)
      BY <3>1, <3>2 DEF Quit, Being, Alive
    <3>4. \A q \in Proc : Alive(q)' => handle' = q
      BY <1>2, <3>1, <3>3 DEF ServerOK
    <3>5. /\ status' = "SHUTTING_DOWN" /\ pc'[t] = "stopping"
          /\ \A u \in Task : kind'[u] = kind[u] /\ (u # t => pc'[u] = pc[u])
      BY <2>1, <2>4 DEF Goto, TypeOK
    <3>6. players => Being \notin {"none", "idle", "hung"}
      BY <1>2 DEF ServerOK
    <3> QED  BY <1>6, <2>2, <3>3, <3>4, <3>5, <3>6 DEF Falling
  <2> QED  BY <2>3, <2>4
<1>8. CASE DownStopped(t) \/ DownExited(t)
  <2>1. /\ UNCHANGED <<dcs, players, handle, status, pending>>
        /\ pc[t] \in Falling \ {"down"} /\ pc'[t] \in {"exiting", "killing"}
        /\ \A u \in Task : kind'[u] = kind[u] /\ (u # t => pc'[u] = pc[u])
    BY <1>8 DEF DownStopped, DownExited, Goto, procVars, serverVars, flagVars, Falling, TypeOK
  <2>2. Being' = Being /\ \A q \in Proc : Alive(q)' => handle' = q
    BY <1>2, <2>1, ProcessStays
  <2>3. /\ players => Being \notin {"none", "idle", "hung"}
        /\ status = "SHUTDOWN" => Being = "none" /\ handle = None
        /\ status \notin {"RUNNING", "LOADING"}
    BY <1>2, <2>1 DEF ServerOK, StandsOK
  <2> QED  BY <1>6, <2>1, <2>2, <2>3 DEF Falling
<1>9. CASE DownKill(t)
  <2>1. pc[t] = "killing" /\ pending' = pending /\ status \notin {"RUNNING", "LOADING"}
    BY <1>2, <1>9 DEF DownKill, flagVars, StandsOK, Falling
  <2>2. CASE Alive(handle)
    <3>1. /\ handle \in Proc /\ dcs[handle] # "none" /\ Becomes(handle, "none") /\ Nobody(handle)
          /\ UNCHANGED <<handle, status, kind, pc>>
      BY <1>9, <2>2 DEF DownKill, Alive, taskVars
    <3>2. Being' = "none" /\ ~players' /\ Being # "none" /\ \A q \in Proc : Alive(q)' => handle' = q
      BY <1>2, <3>1, ProcessBecomes
    <3>3. status # "SHUTDOWN"
      BY <1>2, <3>2 DEF ServerOK
    <3> QED  BY <1>6, <2>1, <3>1, <3>2, <3>3 DEF Falling
  <2>3. CASE ~Alive(handle)
    <3>1. /\ UNCHANGED <<dcs, players>> /\ handle' = None /\ status' = "SHUTDOWN" /\ pc'[t] = "downed"
          /\ \A u \in Task : kind'[u] = kind[u] /\ (u # t => pc'[u] = pc[u])
      BY <1>9, <2>3 DEF DownKill, Goto, procVars, TypeOK
    <3>2. Being = "none"
      BY <2>3 DEF Being, Alive
    <3>3. Being' = Being /\ \A q \in Proc : Alive(q)' => handle' = q
      BY <1>2, <3>1, <3>2, ProcessStays
    <3>4. players => Being \notin {"none", "idle", "hung"}
      BY <1>2 DEF ServerOK
    <3> QED  BY <1>6, <2>1, <3>1, <3>2, <3>3, <3>4 DEF Falling
  <2> QED  BY <2>2, <2>3
<1>10. CASE DownDone(t)
  <2>1. /\ UNCHANGED <<dcs, players, handle, status>> /\ pc[t] = "downed"
        /\ pending' = (pending /\ kind[t] # "teardown")
    BY <1>10 DEF DownDone, procVars, serverVars
  <2>2. Being = "none"
    BY <1>2, <2>1 DEF StandsOK
  <2>3. Being' = Being /\ \A q \in Proc : Alive(q)' => handle' = q
    BY <1>2, <2>1, ProcessStays
  <2>4. ServerOK'
    BY <1>1, <1>2, <1>4, <2>1, <2>2, <2>3 DEF ServerOK
  <2>5. CASE kind[t] = "cold"
    <3>1. pc'[t] = "choose" /\ \A u \in Task : kind'[u] = kind[u] /\ (u # t => pc'[u] = pc[u])
      BY <1>10, <2>5 DEF DownDone, Goto, TypeOK
    <3>2. Quiet' /\ pending'
      BY <1>3, <1>4, <2>1, <2>3, <2>5 DEF Quiet, Settled, Method
    <3>3. StandsOK(t)'
      BY <1>1, <1>3, <2>2, <2>3, <2>5, <3>1, <3>2 DEF StandsOK, Falling, Method
    <3> QED  BY <1>1, <1>5, <2>4, <3>1, <3>3, Alone DEF Falling
  <2>6. CASE kind[t] # "cold"
    <3>1. pc'[t] = "free" /\ kind'[t] = "none" /\ \A u \in Task \ {t} : kind'[u] = kind[u] /\ pc'[u] = pc[u]
      BY <1>3, <1>10, <2>6 DEF DownDone, End, TypeOK
    <3>2. StandsOK(t)'
      BY <3>1 DEF StandsOK, Falling, Method
    <3> QED  BY <1>1, <1>5, <2>4, <3>1, <3>2, Alone DEF Falling
  <2> QED  BY <2>5, <2>6
<1> QED  BY <1>7, <1>8, <1>9, <1>10 DEF Shutdown

\* check_state() finds no coroutine when it starts one.
LEMMA Checked ==
    ASSUME TypeOK, RoutineInv, Routine, \A u \in Task : ~Awake(u),
           Considered, status = "SHUTDOWN" \/ (status \in {"RUNNING", "STOPPED"} /\ ~pending)
    PROVE  /\ ServerOK /\ WaitOK /\ inbox = <<>> /\ mon = "idle" /\ \A m : ~Has(m)
           /\ \A u \in Task : pc[u] = "free" /\ kind[u] = "none"
           /\ Being # "quit" /\ (status = "SHUTDOWN" => Being = "none")
           /\ ~pending => onEmpty = "none"
           /\ status # "SHUTDOWN" => Being \notin {"boot", "load", "halt"}
<1>1. ServerOK /\ WaitOK /\ Calm
  BY DEF RoutineInv, Considered
<1>2. inbox = <<>> /\ mon = "idle" /\ \A u \in Task : pc[u] = "free"
  BY <1>1, RoutineCalm
<1>3. \A u \in Task : kind[u] = "none"
  BY <1>2 DEF RoutineInv, CoroutineOK
<1>4. \A m : ~Has(m)
  BY <1>2, QueueIsEmpty
<1>5. Being # "quit"
  BY <1>1, <1>2 DEF ServerOK
<1>6. (status = "SHUTDOWN" => Being = "none") /\ (status # "SHUTDOWN" => Being \notin {"boot", "load", "halt"})
  BY <1>1 DEF ServerOK
<1>7. ~pending => onEmpty = "none"
  BY <1>1 DEF WaitOK
<1> QED  BY <1>1, <1>2, <1>3, <1>4, <1>5, <1>6, <1>7

\* It launches the server, shuts it down, or starts an action.
LEMMA ScheduleActs ==
    ASSUME TypeOK, RoutineInv, Routine, \A u \in Task : ~Awake(u), NEW t \in Task,
           CheckLaunch(t) \/ CheckTeardown(t) \/ CheckAction(t)
    PROVE  RoutineInv'
<1>1. UNCHANGED <<dcs, players, inbox, handle, mon>> /\ Considered
  BY DEF CheckLaunch, CheckTeardown, CheckAction, procVars, serverVars
<1>2. status = "SHUTDOWN" \/ (status \in {"RUNNING", "STOPPED"} /\ ~pending)
  BY DEF CheckLaunch, CheckTeardown, CheckAction, MustBeDown
<1>3. /\ ServerOK /\ WaitOK /\ inbox = <<>> /\ mon = "idle" /\ \A m : ~Has(m)
      /\ \A u \in Task : pc[u] = "free" /\ kind[u] = "none"
      /\ Being # "quit" /\ (status = "SHUTDOWN" => Being = "none")
      /\ ~pending => onEmpty = "none"
      /\ status # "SHUTDOWN" => Being \notin {"boot", "load", "halt"}
  BY <1>1, <1>2, Checked
<1>4. Being' = Being /\ \A q \in Proc : Alive(q)' => handle' = q
  BY <1>1, <1>3, ProcessStays
<1>5. (\A m : ~Has(m)') /\ (Polled' <=> Polled)
  BY <1>1, <1>3, QueueStays
<1>6. CASE CheckLaunch(t)
  <2>1. /\ status = "SHUTDOWN" /\ status' = "LOADING" /\ UNCHANGED <<pending, onEmpty>>
        /\ \/ Create(t, "launch", "up", FALSE)
           \/ Create(t, "load", "choose", FALSE)
    BY <1>6 DEF CheckLaunch, Routine, flagVars
  <2>2. /\ (pc'[t] = "up" /\ kind'[t] = "launch") \/ (pc'[t] = "choose" /\ kind'[t] = "load")
        /\ \A u \in Task \ {t} : pc'[u] = pc[u] /\ kind'[u] = kind[u]
    BY <2>1 DEF Create, TypeOK
  <2>3. ServerOK'
    BY <1>1, <1>3, <1>4, <1>5, <2>1 DEF ServerOK
  <2>4. StandsOK(t)'
    BY <1>1, <1>3, <1>4, <2>1, <2>2 DEF StandsOK, Falling, Method
  <2>5. Fresh' /\ \A u \in Task : kind'[u] \in {"none", "launch", "load"}
    BY <1>1, <1>3, <1>4, <1>5, <2>1, <2>2 DEF Fresh, ServerOK
  <2>6. WaitOK'
    BY <1>3, <2>1, <2>5 DEF WaitOK
  <2> QED  BY <1>3, <2>2, <2>3, <2>4, <2>6, Alone
<1>7. CASE CheckTeardown(t)
  <2>1. /\ status \in {"RUNNING", "STOPPED"} /\ status' = status /\ ~pending /\ pending' = TRUE /\ onEmpty' = onEmpty
        /\ Create(t, "teardown", IF Populated THEN "warn" ELSE "down", FALSE)
    BY <1>7 DEF CheckTeardown, MustBeDown, serverVars
  <2>2. /\ pc'[t] = (IF Populated THEN "warn" ELSE "down") /\ kind'[t] = "teardown"
        /\ \A u \in Task \ {t} : pc'[u] = pc[u] /\ kind'[u] = kind[u]
    BY <2>1 DEF Create, TypeOK
  <2>3. ServerOK'
    BY <1>1, <1>3, <1>4, <1>5, <2>1 DEF ServerOK
  <2>4. Populated => Being = "run"
    BY <1>1, <1>3, <2>1 DEF Populated, ServerOK, Being, TypeOK, ProcState
  <2>5. Quiet' /\ Settled'
    BY <1>3, <1>4, <1>5, <2>1 DEF Quiet, Settled
  <2>6. StandsOK(t)'
    BY <1>1, <1>3, <1>4, <2>1, <2>2, <2>4, <2>5 DEF StandsOK, Falling, Method
  <2>7. WaitOK'
    BY <1>3, <2>1 DEF WaitOK
  <2> QED  BY <1>3, <2>2, <2>3, <2>6, <2>7, Alone
<1>8. CASE CheckAction(t)
  <2>1. status = "RUNNING" /\ status' = status /\ ~pending /\ pending' = TRUE
    BY <1>8 DEF CheckAction, serverVars
  <2>2. onEmpty = "none"
    BY <1>3, <2>1
  <2>3. PICK m \in Method :
          \/ Populated /\ onEmpty' = m /\ UNCHANGED <<kind, pc>>
          \/ Populated /\ Create(t, m, "warn", TRUE) /\ onEmpty' = onEmpty
          \/ Create(t, m, FirstStep(m), TRUE) /\ onEmpty' = onEmpty
    BY <1>8, <2>2 DEF CheckAction, taskVars
  <2>4. ServerOK'
    BY <1>1, <1>3, <1>4, <1>5, <2>1 DEF ServerOK
  <2>5. Populated => Being = "run"
    BY <1>1, <1>3, <2>1 DEF Populated, ServerOK, Being, TypeOK, ProcState
  <2>6. Quiet' /\ Settled'
    BY <1>3, <1>4, <1>5, <2>1 DEF Quiet, Settled
  <2>7. CASE onEmpty' = m /\ UNCHANGED <<kind, pc>>
    <3>1. WaitOK'
      BY <1>3, <2>1, <2>6, <2>7 DEF WaitOK
    <3>2. \A u \in Task : StandsOK(u)'
      BY <1>3, <2>7 DEF StandsOK, Falling, Method
    <3> QED  BY <2>4, <2>7, <3>1, <3>2, Around
  <2>8. ASSUME NEW s \in {"warn", "choose", "down"}, Create(t, m, s, TRUE), onEmpty' = onEmpty,
               s = "warn" => Being = "run",
               s = "down" => m \in {"cold", "shutdown"}
        PROVE  RoutineInv'
    <3>1. /\ pc'[t] = s /\ kind'[t] = m
          /\ \A u \in Task \ {t} : pc'[u] = pc[u] /\ kind'[u] = kind[u]
      BY <2>8 DEF Create, TypeOK
    <3>2. StandsOK(t)'
      BY <1>1, <1>3, <1>4, <2>1, <2>6, <2>8, <3>1 DEF StandsOK, Falling
    <3>3. WaitOK'
      BY <2>2, <2>8 DEF WaitOK
    <3> QED  BY <1>3, <2>4, <2>8, <3>1, <3>2, <3>3, Alone
  <2>9. FirstStep(m) \in {"choose", "down"} /\ (FirstStep(m) = "down" => m \in {"cold", "shutdown"})
    BY DEF FirstStep
  <2> QED  BY <2>3, <2>5, <2>7, <2>8, <2>9
<1> QED  BY <1>6, <1>7, <1>8

\* The warning time is over.
LEMMA WarningEnds ==
    ASSUME TypeOK, RoutineInv, Routine, \A u \in Task : ~Awake(u), NEW t \in Task, Warned(t)
    PROVE  RoutineInv'
<1>1. UNCHANGED <<dcs, players, inbox, handle, mon, status, pending>> /\ pc[t] = "warn" /\ Calm
  BY DEF Warned, procVars, serverVars
<1>2. ServerOK /\ WaitOK /\ CoroutineOK(t) /\ StandsOK(t)
  BY DEF RoutineInv, CoroutineOK
<1>3. /\ kind[t] \in Method \cup {"teardown"} /\ pending /\ Settled
      /\ Being = "run" /\ status \notin {"LOADING", "SHUTTING_DOWN", "SHUTDOWN"} /\ onEmpty = "none"
  BY <1>1, <1>2, RoutineCalm DEF StandsOK, WaitOK, Method
<1>4. Being' = Being /\ \A q \in Proc : Alive(q)' => handle' = q
  BY <1>1, <1>2, ProcessStays
<1>5. inbox = <<>> /\ mon = "idle" /\ (\A m : ~Has(m)') /\ (Polled' <=> Polled)
  BY <1>1, RoutineCalm, QueueStays, QueueIsEmpty
<1>6. PICK s \in {"down", "choose"} :
        /\ Goto(t, s) /\ (s = "choose" => kind[t] \in Method)
        /\ s = "down" => kind[t] \in {"teardown", "cold", "shutdown"}
  BY <1>3 DEF Warned, FirstStep
<1>7. onEmpty' = "none"
  BY <1>3 DEF Warned
<1>8. pc'[t] = s /\ \A u \in Task : kind'[u] = kind[u] /\ (u # t => pc'[u] = pc[u])
  BY <1>6 DEF Goto, TypeOK
<1>9. ServerOK'
  BY <1>1, <1>2, <1>3, <1>4, <1>5 DEF ServerOK
<1>10. WaitOK'
  BY <1>7 DEF WaitOK
<1>11. Quiet'
  BY <1>3, <1>4, <1>5 DEF Quiet, Settled
<1>12. StandsOK(t)'
  BY <1>1, <1>3, <1>5, <1>6, <1>8, <1>11 DEF StandsOK, Falling
<1> QED  BY <1>1, <1>6, <1>8, <1>9, <1>10, <1>12, Alone

\* run_action() starts the server, its mission or the next one, or stops it.
LEMMA ActionRuns ==
    ASSUME TypeOK, RoutineInv, NEW t \in Task, RunAction(t) \/ RunActionSkips(t)
    PROVE  RoutineInv'
<1>1. UNCHANGED <<players, inbox, handle, mon, pending, onEmpty>> /\ pc[t] = "choose"
  BY DEF RunAction, RunActionSkips, procVars, serverVars, flagVars
<1>2. ServerOK /\ WaitOK /\ CoroutineOK(t) /\ StandsOK(t)
  BY DEF RoutineInv, CoroutineOK
<1>3. CASE UNCHANGED <<dcs, status>> /\ End(t)
  BY <1>1, <1>3, Ended
<1>4. CASE UNCHANGED <<dcs, status>> /\ Goto(t, "up") /\ status \in {"SHUTDOWN", "LOADING"}
  <2>1. pc'[t] = "up" /\ \A u \in Task : kind'[u] = kind[u] /\ (u # t => pc'[u] = pc[u])
    BY <1>4 DEF Goto, TypeOK
  <2>2. Being' = Being /\ \A q \in Proc : Alive(q)' => handle' = q
    BY <1>1, <1>2, <1>4, ProcessStays
  <2>3. (\A m : Has(m)' <=> Has(m)) /\ (Started' <=> Started) /\ (Polled' <=> Polled)
    BY <1>1, QueueStays
  <2>4. Being = "none" /\ kind[t] \in Method \cup {"load"}
    BY <1>1, <1>2, <1>4 DEF StandsOK, ServerOK
  <2>5. ServerOK'
    BY <1>1, <1>2, <1>4, <2>2, <2>3, <2>4 DEF ServerOK
  <2>6. WaitOK'
    BY <1>1, <1>2, <1>4, <2>1, <2>2, <2>3 DEF WaitOK, Fresh, Settled
  <2>7. StandsOK(t)'
    BY <1>1, <1>2, <1>4, <2>1, <2>2, <2>3, <2>4 DEF StandsOK, Quiet, Settled, Falling
  <2> QED  BY <1>1, <2>1, <2>5, <2>6, <2>7, Alone
<1>5. ASSUME NEW from \in {"run", "idle"}, NEW to \in {"boot", "halt"}, Command({from}, to), End(t),
             status # "LOADING", status' = status \/ (status' = "LOADING" /\ to = "boot"),
             status = "SHUTDOWN" => status' = status
      PROVE  RoutineInv'
  <2>1. pc'[t] = "free" /\ kind'[t] = "none" /\ \A u \in Task \ {t} : kind'[u] = kind[u] /\ pc'[u] = pc[u]
    BY <1>5 DEF End, TypeOK
  <2>2. kind[t] \in Method /\ pending /\ Quiet /\ onEmpty = "none" /\ mon = "idle"
    BY <1>1, <1>2, <1>5 DEF StandsOK, WaitOK, Method
  <2>3. \A p \in Proc : dcs'[p] = IF dcs[p] = from THEN to ELSE dcs[p]
    BY <1>5 DEF Command
  <2>4. Being' = (IF Being = from THEN to ELSE Being) /\ \A q \in Proc : Alive(q)' => handle' = q
    BY <1>1, <1>2, <1>5, <2>3 DEF ServerOK, Being, Alive
  <2>5. (\A m : Has(m)' <=> Has(m)) /\ (Polled' <=> Polled)
    BY <1>1, QueueStays
  <2>6. Being # "quit"
    BY <1>1, <1>2 DEF ServerOK, CoroutineOK
  <2>7. ServerOK'
    BY <1>1, <1>2, <1>5, <2>2, <2>4, <2>5, <2>6 DEF ServerOK, Quiet, Settled
  <2>8. WaitOK'
    BY <1>1, <2>2 DEF WaitOK
  <2>9. StandsOK(t)'
    BY <2>1 DEF StandsOK, Falling, Method
  <2> QED  BY <1>1, <2>1, <2>7, <2>8, <2>9, Alone
<1>6. \/ UNCHANGED <<dcs, status>> /\ End(t)
      \/ UNCHANGED <<dcs, status>> /\ Goto(t, "up") /\ status \in {"SHUTDOWN", "LOADING"}
      \/ status = "STOPPED" /\ status' = "LOADING" /\ Command({"idle"}, "boot") /\ End(t)
      \/ status \in {"RUNNING", "SHUTTING_DOWN"} /\ status' = status /\ Command({"run"}, "boot") /\ End(t)
      \/ status = "RUNNING" /\ status' = status /\ Command({"run"}, "halt") /\ End(t)
  BY DEF RunAction, RunActionSkips, procVars, serverVars
<1> QED  BY <1>3, <1>4, <1>5, <1>6

\* Nothing changes but time.
LEMMA SameState ==
    ASSUME RoutineInv, UNCHANGED <<dcs, players, inbox, handle, mon, status, pending, onEmpty, kind, pc>>
    PROVE  RoutineInv'
<1>1. ServerOK /\ WaitOK /\ \A t \in Task : StandsOK(t)
  BY DEF RoutineInv, CoroutineOK
<1>2. Being' = Being /\ \A q \in Proc : Alive(q)' => handle' = q
  BY <1>1, ProcessStays
<1>3. (\A m : Has(m)' <=> Has(m)) /\ (Started' <=> Started) /\ (Polled' <=> Polled)
  BY QueueStays
<1>4. ServerOK'
  BY <1>1, <1>2, <1>3 DEF ServerOK
<1>5. \A t \in Task : StandsOK(t)'
  BY <1>1, <1>2, <1>3 DEF StandsOK, Quiet, Settled, Falling
<1>6. WaitOK'
  BY <1>1, <1>2, <1>3 DEF WaitOK, Fresh, Settled
<1> QED  BY <1>4, <1>5, <1>6, Around

\* RoutineInv is inductive.
LEMMA RoutineLife ==
    ASSUME Routine
    PROVE  Spec => [](TypeOK /\ RoutineInv)
<1>1. Init => RoutineInv
  <2> SUFFICES ASSUME Init PROVE RoutineInv
    OBVIOUS
  <2>1. inbox = <<>> /\ (\A m : ~Has(m)) /\ Polled
    BY QueueIsEmpty DEF Init
  <2>2. Being \in {"none", "run"} /\ (Being = "none" <=> handle = None) /\ \A p \in Proc : Alive(p) => handle = p
    BY LifecycleAssumption DEF Init, Being, Alive
  <2>3. ServerOK
    BY <2>1, <2>2 DEF Init, ServerOK
  <2>4. \A t \in Task : CoroutineOK(t)
    BY DEF Init, CoroutineOK, StandsOK, Falling, Method
  <2>5. WaitOK
    BY DEF Init, WaitOK
  <2> QED  BY <2>3, <2>4, <2>5 DEF RoutineInv
<1>2. TypeOK /\ RoutineInv /\ [Next]_vars => RoutineInv'
  <2> SUFFICES ASSUME TypeOK, RoutineInv, [Next]_vars PROVE RoutineInv'
    OBVIOUS
  <2>1. ASSUME NEW t \in Task, Wake(t) PROVE RoutineInv'
    BY <2>1, LaunchEnds, ShutDown DEF Wake, Shutdown
  <2>2. CASE (\A t \in Task : ~Awake(t)) /\ Others
    <3>1. CASE Dcs \/ Players \/ Handle
      BY <2>2, <3>1, ProcessWorks, ProcessFails, PlayersComeAndGo, MissionEvents, EmptyEvent DEF Dcs, Handle
    <3>2. CASE Heartbeat \/ HbKeepAlive
      BY <2>2, <3>2, Monitored, Asked
    <3>3. CASE NextPeriod
      BY <3>3, SameState DEF NextPeriod, procVars, serverVars, flagVars, taskVars
    <3>4. ASSUME NEW t \in Task, Step(t) \/ Fails(t) \/ Check(t) PROVE RoutineInv'
      <4>1. pc[t] \notin {"delay", "updating"} /\ (pc[t] = "warn" => kind[t] # "update")
        BY DEF RoutineInv, CoroutineOK, StandsOK, Method
      <4>2. ~Delayed(t) /\ ~UpdateWarned(t) /\ ~UpdateEnds(t) /\ ~UpdateBreaks(t)
        BY <4>1 DEF Delayed, UpdateWarned, UpdateEnds, UpdateBreaks
      <4>3. CASE Startup(t) \/ StartupFails(t)
        BY <2>2, <4>3, Launched, LaunchEnds DEF Startup, StartupFails
      <4>4. CASE Shutdown(t) \/ Warned(t) \/ RunAction(t) \/ RunActionSkips(t)
        BY <2>2, <4>4, ShutDown, WarningEnds, ActionRuns
      <4>5. CASE Check(t)
        BY <2>2, <4>5, ScheduleActs DEF Check
      <4> QED  BY <3>4, <4>2, <4>3, <4>4, <4>5 DEF Step, Fails
    <3>5. ~AdminFlag /\ \A t \in Task : ~Admin(t) /\ ~UpdateBegins(t)
      BY <2>2, RoutineCalm DEF Admin, AdminStartup, AdminShutdown, AdminRestart, UpdateBegins
    <3> QED  BY <2>2, <3>1, <3>2, <3>3, <3>4, <3>5 DEF Others
  <2>3. CASE UNCHANGED vars
    BY <2>3, SameState DEF vars, procVars, serverVars, flagVars, taskVars
  <2> QED  BY <2>1, <2>2, <2>3 DEF Next
<1> QED  BY <1>1, <1>2, TypeCorrect, PTL DEF Spec

\* A server that only its schedule and scheduled actions start and stop never has two
\* processes, however many actions there are, whether they warn the players or wait for an
\* empty server, and whatever crashes, hangs or fails.
THEOREM OneProcessInRoutine ==
    ASSUME Routine
    PROVE  Spec => []OneProcess
<1>1. RoutineInv => OneProcess
  BY DEF RoutineInv, ServerOK, OneProcess, Living, Alive
<1> QED  BY <1>1, RoutineLife, PTL

\* ... and one that is down has no process nobody looks after.
THEOREM DownInRoutine ==
    ASSUME Routine
    PROVE  Spec => []DownMeansDown
<1>1. RoutineInv => DownMeansDown
  BY DEF RoutineInv, ServerOK, DownMeansDown, Living, Alive, Being
<1> QED  BY <1>1, RoutineLife, PTL

=============================================================================
