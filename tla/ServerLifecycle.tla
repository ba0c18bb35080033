--------------------------- MODULE ServerLifecycle ---------------------------
(***************************************************************************)
(* The life of one DCS server that is local to the master: its status, its *)
(* DCS process and the coroutines that start, stop and watch it.           *)
(*                                                                         *)
(* All coroutines share one event loop, so a step is what runs between two *)
(* awaits.  A coroutine is a task: kind says what it was created for, pc   *)
(* at which await it stands.  startup(), shutdown() and run_action() are   *)
(* parts that several kinds go through.  PAUSED is merged with RUNNING:    *)
(* everything modelled here treats them alike.                             *)
(*                                                                         *)
(* A DCS process is external: it loads and runs a mission, stops, obeys    *)
(* commands and sends the events the handlers of mission/listener.py and   *)
(* scheduler/listener.py take from the queue of the server.                *)
(***************************************************************************)
EXTENDS Naturals, Sequences

CONSTANTS
    Proc,       \* DCS processes (reusable identities)
    Task,       \* bound: coroutines at a time
    None,
    Actors,     \* who acts in this instance: the schedule, scheduled actions, admin
                \* commands, the autoupdate and updates by command or cron
    May,        \* what may happen, see below
    MaxFaults,  \* bound: crashes, hangs, failed and slow startups
    MaxOrders,  \* bound: scheduled actions, admin commands and updates
    MaxDuty,    \* bound: changes of the schedule
    MaxInbox    \* bound: queued events of the server

ASSUME LifecycleAssumption ==
    /\ None \notin Proc /\ None \notin Task
    /\ Actors \subseteq {"schedule", "action", "admin", "autoupdate", "update"}
    /\ May \subseteq {"crash", "hang", "fail", "slow", "players", "duty", "late", "hasty", "peek",
                      "doomed"}
    /\ MaxFaults \in Nat /\ MaxOrders \in Nat /\ MaxDuty \in Nat /\ MaxInbox \in Nat

VARIABLES
    dcs,         \* what each DCS process does
    inbox,       \* message_queue of the server
    players,     \* somebody plays
    status,      \* server.status
    handle,      \* server.process
    mission,     \* server.current_mission is set
    maintenance,
    pending,     \* server.restart_pending
    onEmpty,     \* server.on_empty: the kind of action, or none
    updating,    \* node.update_pending
    kind, pc,    \* the tasks
    keep,        \* what a task remembers: a maintenance flag or option; an action
                 \* that handle_action() runs
    mon,         \* where MonitoringService.heartbeat() stands
    duty,        \* what the schedule asks for now
    faults, orders, duties   \* so far (bounded)

procVars   == <<dcs, players>>
serverVars == <<status, handle, mission>>
flagVars   == <<maintenance, pending, onEmpty, updating>>
taskVars   == <<kind, pc, keep>>
bounds     == <<faults, orders, duties>>
vars == <<procVars, inbox, serverVars, flagVars, taskVars, mon, duty, bounds>>

ProcState == {"none", "boot", "load", "run", "halt", "idle", "quit", "hung"}
Status == {"LOADING", "RUNNING", "STOPPED", "SHUTTING_DOWN", "SHUTDOWN"}
Method == {"restart", "cold", "shutdown", "stop"}   \* cold: restart with shutdown: true
Kind == Method \cup {"launch", "load", "teardown", "startup", "halt", "kill", "reboot", "update"}
PC == {"free", "delay", "warn", "choose", "up", "prepare", "await",
         "down", "stopping", "exiting", "killing", "downed", "updating"}

TypeOK ==
    /\ dcs \in [Proc -> ProcState] /\ players \in BOOLEAN
    /\ inbox \in Seq({"load", "start", "live", "paused", "stop", "empty"})
    /\ status \in Status /\ handle \in Proc \cup {None} /\ mission \in BOOLEAN
    /\ maintenance \in BOOLEAN /\ pending \in BOOLEAN
    /\ onEmpty \in Method \cup {"none"} /\ updating \in BOOLEAN
    /\ kind \in [Task -> Kind \cup {"none"}] /\ pc \in [Task -> PC]
    /\ keep \in [Task -> BOOLEAN]
    /\ mon \in {"idle", "report", "dump", "audit"}
    /\ duty \in {"Y", "N", "P"}
    /\ faults \in 0..MaxFaults /\ orders \in 0..MaxOrders /\ duties \in 0..MaxDuty

\* The bot has found the server down, or up with its process.
Init ==
    /\ handle \in Proc \cup {None} /\ mission = (handle # None)
    /\ status = IF handle = None THEN "SHUTDOWN" ELSE "RUNNING"
    /\ dcs = [p \in Proc |-> IF p = handle THEN "run" ELSE "none"]
    /\ players = FALSE /\ inbox = <<>>
    /\ maintenance \in BOOLEAN /\ pending = FALSE /\ onEmpty = "none"
    /\ updating = FALSE
    /\ kind = [t \in Task |-> "none"] /\ pc = [t \in Task |-> "free"]
    /\ keep = [t \in Task |-> FALSE]
    /\ mon = "idle" /\ duty \in {"Y", "N", "P"}
    /\ faults = 0 /\ orders = 0 /\ duties = 0

-----------------------------------------------------------------------------
Alive(p) == p \in Proc /\ dcs[p] # "none"
Living == {p \in Proc : Alive(p)}

\* is_running(): a handle that is dead is replaced by a process that is found.
Found ==
    IF Alive(handle) THEN {handle} ELSE IF Living = {} THEN {None} ELSE Living

Populated == players /\ status = "RUNNING"

\* check_state() runs once a minute and people act more slowly than coroutines:
\* events are handled at once, and the waits for a file, a Discord message or a dying
\* process are shorter than a minute.  Only "peek" lets an order fall into them.
Short ==
    {"choose", "up", "down", "exiting", "killing", "downed"}
        \cup (IF "hasty" \in May THEN {} ELSE {"prepare"})
Calm ==
    \/ "peek" \in May
    \/ inbox = <<>> /\ mon = "idle" /\ \A t \in Task : pc[t] \notin Short

Fault(what) == what \in May /\ faults < MaxFaults /\ faults' = faults + 1
Order(who) == Calm /\ who \in Actors /\ orders < MaxOrders /\ orders' = orders + 1

\* A new coroutine; a coroutine goes on; a coroutine ends.
Create(t, k, step, memory) ==
    /\ pc[t] = "free"
    /\ kind' = [kind EXCEPT ![t] = k] /\ pc' = [pc EXCEPT ![t] = step]
    /\ keep' = [keep EXCEPT ![t] = memory]
Goto(t, step) == pc' = [pc EXCEPT ![t] = step] /\ UNCHANGED <<kind, keep>>
End(t) ==
    /\ pc' = [pc EXCEPT ![t] = "free"] /\ kind' = [kind EXCEPT ![t] = "none"]
    /\ keep' = [keep EXCEPT ![t] = FALSE]

\* The processes that still make progress will be heard of.
Working == {p \in Proc : dcs[p] \in {"boot", "load", "run", "halt", "idle", "quit"}}

-----------------------------------------------------------------------------
(* The DCS processes (external) and their players.                         *)

Emit(e) == Len(inbox) < MaxInbox /\ inbox' = Append(inbox, e)
Becomes(p, s) == dcs' = [dcs EXCEPT ![p] = s]
Nobody(p) == players' = (players /\ \E q \in Proc \ {p} : dcs[q] = "run")

DcsWorks(p) ==
    /\ \/ dcs[p] = "boot" /\ Becomes(p, "load") /\ Emit("load") /\ UNCHANGED players
       \/ dcs[p] = "load" /\ Becomes(p, "run") /\ Emit("start") /\ UNCHANGED players
       \/ dcs[p] = "halt" /\ Becomes(p, "idle") /\ Emit("stop") /\ Nobody(p)
       \/ dcs[p] = "quit" /\ Becomes(p, "none") /\ Emit("stop") /\ Nobody(p)
    /\ UNCHANGED <<serverVars, flagVars, taskVars, mon, duty, bounds>>

\* "doomed": also while an action or a teardown warns the players.
DcsFails(p) ==
    /\ Alive(p)
    /\ (\E t \in Task : pc[t] = "warn" /\ kind[t] # "update") => "doomed" \in May
    /\ \/ Fault("crash") /\ Becomes(p, "none")
       \/ Fault("hang") /\ dcs[p] # "hung" /\ Becomes(p, "hung")
    /\ Nobody(p)
    /\ UNCHANGED <<inbox, serverVars, flagVars, taskVars, mon, duty, orders, duties>>

Players ==
    /\ "players" \in May
    /\ \/ ~players /\ (\E p \in Proc : dcs[p] = "run") /\ players' = TRUE /\ UNCHANGED inbox
       \/ players /\ players' = FALSE /\ Emit("empty")
    /\ UNCHANGED <<dcs, serverVars, flagVars, taskVars, mon, duty, bounds>>

-----------------------------------------------------------------------------
(* The event handlers.                                                     *)

Take == inbox' = Tail(inbox)
Event(e) == inbox # <<>> /\ Head(inbox) = e

OnMissionLoadBegin ==
    /\ Event("load") /\ Take
    /\ status' = "LOADING" /\ mission' = TRUE
    /\ UNCHANGED <<procVars, handle, flagVars, taskVars, mon, duty, bounds>>

\* onMissionLoadEnd and onSimulationStart: pending actions are over.
OnSimulationStart ==
    /\ Event("start") /\ Take
    /\ status' = "RUNNING" /\ mission' = TRUE
    /\ pending' = FALSE /\ onEmpty' = "none"
    /\ UNCHANGED <<procVars, handle, maintenance, updating, taskVars, mon, duty, bounds>>

OnSimulationStop ==
    /\ Event("stop") /\ Take
    /\ status' = "STOPPED"
    /\ UNCHANGED <<procVars, handle, mission, flagVars, taskVars, mon, duty, bounds>>

\* The answer to keep_alive().
GetMissionUpdate ==
    /\ Event("live") \/ Event("paused")
    /\ Take
    /\ status' = IF ~mission THEN "STOPPED" ELSE IF Event("live") THEN "RUNNING" ELSE status
    /\ UNCHANGED <<procVars, handle, mission, flagVars, taskVars, mon, duty, bounds>>

\* run_action(rconf): where the coroutine goes first.
FirstStep(m) == IF m \in {"cold", "shutdown"} THEN "down" ELSE "choose"
\* ... and the maintenance flag that method shutdown sets.
Flagged(m) == maintenance \/ m = "shutdown"

OnServerEmpty ==
    /\ Event("empty") /\ Take
    /\ IF onEmpty = "none"
       THEN UNCHANGED <<taskVars, maintenance>>
       ELSE /\ \E t \in Task : Create(t, onEmpty, FirstStep(onEmpty), FALSE)
            /\ maintenance' = Flagged(onEmpty)
    /\ onEmpty' = "none"
    /\ UNCHANGED <<procVars, serverVars, pending, updating, mon, duty, bounds>>

Handle ==
    \/ OnMissionLoadBegin \/ OnSimulationStart \/ OnSimulationStop
    \/ GetMissionUpdate \/ OnServerEmpty

-----------------------------------------------------------------------------
(* ServerImpl.startup(), as every task goes through it.                    *)

\* What a task does after startup(): restart restores the maintenance flag,
\* startup clears it unless it was asked to set it.
AfterStartup(t, ok) ==
    /\ maintenance' = CASE kind[t] = "reboot" -> keep[t]
                        [] kind[t] = "startup" /\ ok -> maintenance /\ keep[t]
                        [] OTHER -> maintenance
    /\ End(t)

\* Up to the first await (_cleanup_sqlite) the status is still the old one.
UpBegin(t) ==
    /\ pc[t] = "up"
    /\ status' = "LOADING"
    /\ Goto(t, "prepare")
    /\ UNCHANGED <<procVars, inbox, handle, mission, flagVars, mon, duty, bounds>>

\* do_startup() launches a process, whatever is running already.
UpLaunch(t) ==
    /\ pc[t] = "prepare"
    /\ \E p \in Proc \ {handle} :
           dcs[p] = "none" /\ Becomes(p, "boot") /\ handle' = p
    /\ Goto(t, "await")
    /\ UNCHANGED <<players, inbox, status, mission, flagVars, mon, duty, bounds>>

\* ... or it cannot.
UpLaunchFails(t) ==
    /\ pc[t] = "prepare" /\ Fault("fail")
    /\ handle' = None
    /\ Goto(t, "await")
    /\ UNCHANGED <<procVars, inbox, status, mission, flagVars, mon, duty, orders, duties>>

\* An exception before the launch leaves the status as it is; handle_action()
\* gives the pending action up.
UpRaises(t) ==
    /\ pc[t] = "prepare" /\ Fault("fail")
    /\ pending' = (pending /\ ~(kind[t] \in Method /\ keep[t]))
    /\ AfterStartup(t, FALSE)
    /\ UNCHANGED <<procVars, inbox, serverVars, onEmpty, updating, mon, duty, orders, duties>>

UpReady(t) ==
    /\ pc[t] = "await" /\ status \in {"STOPPED", "RUNNING"}
    /\ AfterStartup(t, TRUE)
    /\ UNCHANGED <<procVars, inbox, serverVars, pending, onEmpty, updating, mon, duty, bounds>>

\* /server startup and /server restart try up to three times.
Retry(t) ==
    /\ kind[t] \in {"startup", "reboot"}
    /\ Goto(t, "up") /\ UNCHANGED maintenance

\* The status became SHUTDOWN meanwhile.
UpCrashed(t) ==
    /\ pc[t] = "await" /\ status = "SHUTDOWN"
    /\ AfterStartup(t, FALSE) \/ Retry(t)
    /\ UNCHANGED <<procVars, inbox, serverVars, pending, onEmpty, updating, mon, duty, bounds>>

\* Nothing was heard for 180 s: without a process the server is down.
UpTimeout(t) ==
    /\ Calm /\ pc[t] = "await" /\ status \in {"LOADING", "SHUTTING_DOWN"}
    /\ \/ Working = {} /\ inbox = <<>> /\ UNCHANGED faults
       \/ Working # {} /\ Fault("slow")
    /\ \E h \in Found :
         /\ handle' = h
         /\ \/ h = None /\ status' = "SHUTDOWN" /\ Retry(t)
            \/ status' = (IF h = None THEN "SHUTDOWN" ELSE status) /\ AfterStartup(t, FALSE)
    /\ UNCHANGED <<procVars, inbox, mission, pending, onEmpty, updating, mon, duty,
                   orders, duties>>

Startup(t) == UpBegin(t) \/ UpLaunch(t) \/ UpTimeout(t)
StartupFails(t) == UpLaunchFails(t) \/ UpRaises(t)

-----------------------------------------------------------------------------
(* ServerImpl.shutdown() and teardown_dcs().                               *)

\* What the command "shutdown" does to a process that listens.
Quit == dcs' = [p \in Proc |-> CASE dcs[p] \in {"load", "run", "halt"} -> "quit"
                                 [] dcs[p] = "idle" -> "none"
                                 [] OTHER -> dcs[p]]

\* (Variant: a forced shutdown leaves the process alone.)
Down_Unforced(t) ==
    /\ pc[t] = "down"
    /\ \E h \in Found :
         /\ handle' = h
         /\ \/ h = None /\ status' = "SHUTDOWN" /\ Goto(t, "downed") /\ UNCHANGED dcs
            \/ /\ h # None /\ kind[t] \in {"kill", "reboot"}   \* force
               /\ status' = "SHUTDOWN" /\ Goto(t, "downed") /\ UNCHANGED dcs
            \/ /\ h # None /\ kind[t] # "kill"
               /\ status' = "SHUTTING_DOWN" /\ Quit /\ Goto(t, "stopping")
    /\ UNCHANGED <<players, inbox, mission, flagVars, mon, duty, bounds>>

\* shutdown(): nothing to do, or terminate at once (force), or ask DCS to end.
Down(t) ==
    /\ pc[t] = "down"
    /\ \E h \in Found :
         /\ handle' = h
         /\ \/ h = None /\ status' = "SHUTDOWN" /\ Goto(t, "downed") /\ UNCHANGED dcs
            \/ /\ h # None /\ kind[t] \in {"kill", "reboot"}   \* force
               /\ Goto(t, "killing") /\ UNCHANGED <<status, dcs>>
            \/ /\ h # None /\ kind[t] # "kill"
               /\ status' = "SHUTTING_DOWN" /\ Quit /\ Goto(t, "stopping")
    /\ UNCHANGED <<players, inbox, mission, flagVars, mon, duty, bounds>>

\* do_shutdown() waits until the mission has stopped, or 180 s.
DownStopped(t) ==
    /\ pc[t] = "stopping"
    /\ \/ status \in {"STOPPED", "SHUTDOWN"} /\ UNCHANGED faults
       \/ {p \in Proc : dcs[p] = "quit"} = {} /\ inbox = <<>> /\ UNCHANGED faults
       \/ Fault("slow")
    /\ mission' = FALSE
    /\ Goto(t, "exiting")
    /\ UNCHANGED <<procVars, inbox, status, handle, flagVars, mon, duty, orders, duties>>

\* ... and until the process has ended, or 30 s.
DownExited(t) ==
    /\ pc[t] = "exiting"
    /\ \/ ~Alive(handle) /\ UNCHANGED faults
       \/ Alive(handle) /\ dcs[handle] # "quit" /\ UNCHANGED faults
       \/ Fault("slow")
    /\ Goto(t, "killing")
    /\ UNCHANGED <<procVars, inbox, serverVars, flagVars, mon, duty, orders, duties>>

\* (Variant: the process is left alone.)
DownKill_Spares(t) ==
    /\ pc[t] = "killing"
    /\ handle' = None /\ status' = "SHUTDOWN" /\ Goto(t, "downed")
    /\ UNCHANGED <<procVars, inbox, mission, flagVars, mon, duty, bounds>>

\* _terminate() of whatever the handle names, until that is dead.
DownKill(t) ==
    /\ pc[t] = "killing"
    /\ IF Alive(handle)
       THEN /\ Becomes(handle, "none") /\ Nobody(handle)
            /\ UNCHANGED <<handle, status, taskVars>>
       ELSE /\ handle' = None /\ status' = "SHUTDOWN" /\ Goto(t, "downed")
            /\ UNCHANGED procVars
    /\ UNCHANGED <<inbox, mission, flagVars, mon, duty, bounds>>

\* What comes after the shutdown (and its audit message).
DownDone(t) ==
    /\ pc[t] = "downed"
    /\ CASE kind[t] = "cold"     -> Goto(t, "choose")
         [] kind[t] = "reboot"   -> Goto(t, "up")
         [] kind[t] = "update"   -> Goto(t, "updating")
         [] OTHER                -> End(t)
    /\ pending' = (pending /\ kind[t] # "teardown")
    /\ maintenance' = (maintenance /\ (kind[t] \in {"halt", "kill"} => keep[t]))
    /\ UNCHANGED <<procVars, inbox, serverVars, onEmpty, updating, mon, duty, bounds>>

Shutdown(t) == Down(t) \/ DownStopped(t) \/ DownExited(t) \/ DownKill(t) \/ DownDone(t)

-----------------------------------------------------------------------------
(* Scheduler.check_state() and the actions.                                *)

\* (Variant: a pending update is ignored.)
Considered_Updating ==
    /\ "schedule" \in Actors /\ Calm
    /\ status \notin {"LOADING", "SHUTTING_DOWN"} /\ ~maintenance

\* check_state() skips servers that start, stop or are in maintenance.
Considered ==
    /\ "schedule" \in Actors /\ Calm
    /\ ~updating /\ status \notin {"LOADING", "SHUTTING_DOWN"} /\ ~maintenance

\* (Variant: the status is not set before the launch.)
CheckLaunch_Silent(t) ==
    /\ Considered /\ duty = "Y" /\ status = "SHUTDOWN"
    /\ \/ "late" \in May /\ \E k \in {"launch", "load"} : Create(t, k, "delay", FALSE)
       \/ Create(t, "launch", "up", FALSE)
       \/ Create(t, "load", "choose", FALSE)
    /\ UNCHANGED <<procVars, inbox, serverVars, flagVars, mon, duty, bounds>>

\* The launch is an action "load" or launch_dcs(); it is delayed ("late") when other
\* servers are launched before this one.
CheckLaunch(t) ==
    /\ Considered /\ duty = "Y" /\ status = "SHUTDOWN"
    /\ status' = "LOADING"
    /\ \/ "late" \in May /\ \E k \in {"launch", "load"} : Create(t, k, "delay", FALSE)
       \/ Create(t, "launch", "up", FALSE)
       \/ Create(t, "load", "choose", FALSE)
    /\ UNCHANGED <<procVars, inbox, handle, mission, flagVars, mon, duty, bounds>>

\* The delay of a launch, or of /server restart while players are warned, is over.
Delayed(t) ==
    /\ Calm /\ pc[t] = "delay"
    /\ Goto(t, CASE kind[t] = "launch" -> "up" [] kind[t] = "load" -> "choose"
                 [] OTHER -> "down")
    /\ onEmpty' = IF kind[t] = "reboot" THEN "none" ELSE onEmpty
    /\ UNCHANGED <<procVars, inbox, serverVars, maintenance, pending, updating, mon, duty,
                   bounds>>

MustBeDown ==
    \/ duty = "N" /\ status \in {"RUNNING", "STOPPED"}
    \/ duty = "P" /\ status \in {"RUNNING", "STOPPED"} /\ ~Populated

\* teardown(): players are warned first; nothing happens if something is pending.
CheckTeardown(t) ==
    /\ Considered /\ MustBeDown /\ ~pending
    /\ pending' = TRUE
    /\ Create(t, "teardown", IF Populated THEN "warn" ELSE "down", FALSE)
    /\ UNCHANGED <<procVars, inbox, serverVars, maintenance, onEmpty, updating, mon, duty,
                   bounds>>

\* (Variant: a pending action does not matter.)
CheckAction_Again(t) ==
    /\ Considered /\ ~MustBeDown /\ status = "RUNNING" /\ Order("action")
    /\ pending' = TRUE
    /\ \E m \in Method :
         \/ /\ Populated /\ onEmpty' = IF onEmpty = "none" THEN m ELSE onEmpty
            /\ UNCHANGED <<taskVars, maintenance>>
         \/ /\ Populated /\ Create(t, m, "warn", TRUE)
            /\ UNCHANGED <<onEmpty, maintenance>>
         \/ /\ ~Populated /\ Create(t, m, FirstStep(m), TRUE)
            /\ maintenance' = Flagged(m)
            /\ UNCHANGED onEmpty
    /\ UNCHANGED <<procVars, inbox, serverVars, updating, mon, duty, faults, duties>>

\* handle_action(): an action with populated: false waits for an empty server.
CheckAction(t) ==
    /\ Considered /\ ~MustBeDown /\ status = "RUNNING" /\ ~pending /\ Order("action")
    /\ pending' = TRUE
    /\ \E m \in Method :
         \/ /\ Populated /\ onEmpty' = IF onEmpty = "none" THEN m ELSE onEmpty
            /\ UNCHANGED <<taskVars, maintenance>>
         \/ /\ Populated /\ Create(t, m, "warn", TRUE)
            /\ UNCHANGED <<onEmpty, maintenance>>
         \/ /\ ~Populated /\ Create(t, m, FirstStep(m), TRUE)
            /\ maintenance' = Flagged(m)
            /\ UNCHANGED onEmpty
    /\ UNCHANGED <<procVars, inbox, serverVars, updating, mon, duty, faults, duties>>

\* The warning time is over; maintenance cancels what is pending.
Warned(t) ==
    /\ Calm /\ pc[t] = "warn" /\ kind[t] # "update"
    /\ IF pending
       THEN /\ Goto(t, IF kind[t] = "teardown" THEN "down" ELSE FirstStep(kind[t]))
            /\ onEmpty' = IF kind[t] = "teardown" THEN onEmpty ELSE "none"
            /\ maintenance' = Flagged(kind[t])
       ELSE End(t) /\ UNCHANGED <<onEmpty, maintenance>>
    /\ UNCHANGED <<procVars, inbox, serverVars, pending, updating, mon, duty, bounds>>

Command(from, to) == dcs' = [p \in Proc |-> IF dcs[p] \in from THEN to ELSE dcs[p]]

\* run_action() after the mission list: a server that is down is started, one
\* that is stopped starts its mission, a running one loads it (or stops).
\* Waiting for the result changes nothing any more.
RunAction(t) ==
    /\ pc[t] = "choose"
    /\ \/ /\ kind[t] # "stop" /\ status \in {"SHUTDOWN", "LOADING"}
          /\ Goto(t, "up") /\ UNCHANGED <<dcs, status>>
       \/ /\ kind[t] # "stop" /\ status = "STOPPED"
          /\ status' = "LOADING" /\ Command({"idle"}, "boot") /\ End(t)
       \/ /\ kind[t] # "stop" /\ status \in {"RUNNING", "SHUTTING_DOWN"}
          /\ Command({"run"}, "boot") /\ End(t) /\ UNCHANGED status
       \/ /\ kind[t] = "stop"
          /\ IF status = "RUNNING" THEN Command({"run"}, "halt") ELSE UNCHANGED dcs
          /\ End(t) /\ UNCHANGED status
    /\ UNCHANGED <<players, inbox, handle, mission, flagVars, mon, duty, bounds>>

\* No mission list in time, or no such mission: the action is skipped.
RunActionSkips(t) ==
    /\ pc[t] = "choose" /\ kind[t] # "stop" /\ Fault("fail")
    /\ End(t)
    /\ UNCHANGED <<procVars, inbox, serverVars, flagVars, mon, duty, orders, duties>>

-----------------------------------------------------------------------------
(* Admin commands.                                                         *)

\* /server startup, with the parameter maintenance (default: False).
AdminStartup(t) ==
    /\ Order("admin") /\ status = "SHUTDOWN"
    /\ \E flag \in BOOLEAN :
           Create(t, "startup", "up", flag) /\ maintenance' = (maintenance \/ flag)
    /\ UNCHANGED <<procVars, inbox, serverVars, pending, onEmpty, updating, mon, duty,
                   faults, duties>>

\* /server shutdown, with maintenance (default: True) and force, or later.
AdminShutdown(t) ==
    /\ Order("admin") /\ status # "SHUTDOWN"
    /\ \/ /\ \E flag \in BOOLEAN, k \in {"halt", "kill"} :
               /\ status \in {"LOADING", "SHUTTING_DOWN"} => k = "kill"
               /\ Create(t, k, "down", flag) /\ maintenance' = (maintenance \/ flag)
          /\ onEmpty' = "none" /\ UNCHANGED pending
       \/ /\ Populated /\ onEmpty' = "shutdown" /\ pending' = TRUE
          /\ UNCHANGED <<taskVars, maintenance>>
    /\ UNCHANGED <<procVars, inbox, serverVars, updating, mon, duty, faults, duties>>

\* /server restart keeps the scheduler away until it restores the flag.
AdminRestart(t) ==
    /\ Order("admin") /\ status \in {"RUNNING", "STOPPED"}
    /\ maintenance' = TRUE
    /\ \/ /\ Create(t, "reboot", "down", maintenance) /\ onEmpty' = "none"
       \/ /\ Populated /\ Create(t, "reboot", "delay", maintenance)
          /\ onEmpty' = IF pending THEN "none" ELSE onEmpty
    /\ pending' = FALSE
    /\ UNCHANGED <<procVars, inbox, serverVars, updating, mon, duty, faults, duties>>

\* /scheduler maintenance aborts what is pending; /scheduler clear.
AdminFlag ==
    /\ Order("admin")
    /\ maintenance' = ~maintenance
    /\ IF maintenance THEN UNCHANGED <<pending, onEmpty>>
       ELSE pending' = FALSE /\ onEmpty' = "none"
    /\ UNCHANGED <<procVars, inbox, serverVars, updating, taskVars, mon, duty,
                   faults, duties>>

-----------------------------------------------------------------------------
(* NodeImpl.update() with ServerMaintenanceManager.                        *)

\* A server that is not down is put into maintenance and shut down, when its players
\* have been warned; keep remembers that it was in maintenance before.  Only
\* autoupdate() looks whether there is an update already.
UpdateBegins(t) ==
    /\ Order("update") \/ (~updating /\ Order("autoupdate"))
    /\ updating' = TRUE
    /\ IF status = "SHUTDOWN"
       THEN Create(t, "none", "updating", FALSE) /\ UNCHANGED maintenance
       ELSE /\ Create(t, "update", IF Populated THEN "warn" ELSE "down", maintenance)
            /\ maintenance' = TRUE
    /\ UNCHANGED <<procVars, inbox, serverVars, pending, onEmpty, mon, duty, faults, duties>>

\* shutdown_with_warning(): two minutes later the server is shut down, whatever has
\* happened to it and its players meanwhile.
UpdateWarned(t) ==
    /\ Calm /\ pc[t] = "warn" /\ kind[t] = "update"
    /\ Goto(t, "down")
    /\ UNCHANGED <<procVars, inbox, serverVars, flagVars, mon, duty, bounds>>

\* (Variant: the flag is cleared for every server.)
UpdateEnds_ClearsAll(t) ==
    /\ Calm /\ pc[t] = "updating"
    /\ updating' = FALSE
    /\ IF kind[t] = "update"
       THEN maintenance' = FALSE /\ Goto(t, "up")
       ELSE End(t) /\ UNCHANGED maintenance
    /\ UNCHANGED <<procVars, inbox, serverVars, pending, onEmpty, mon, duty, bounds>>

\* dcs_updater.exe has ended: the flag and the servers are restored.
UpdateEnds(t) ==
    /\ Calm /\ pc[t] = "updating"
    /\ updating' = FALSE
    /\ IF kind[t] = "update"
       THEN maintenance' = (maintenance /\ keep[t]) /\ Goto(t, "up")
       ELSE End(t) /\ UNCHANGED maintenance
    /\ UNCHANGED <<procVars, inbox, serverVars, pending, onEmpty, mon, duty, bounds>>

\* A before_update hook raises before the try block: the node keeps update_pending.
UpdateBreaks(t) ==
    /\ Calm /\ pc[t] = "updating" /\ Fault("fail")
    /\ IF kind[t] = "update"
       THEN maintenance' = (maintenance /\ keep[t]) /\ Goto(t, "up")
       ELSE End(t) /\ UNCHANGED maintenance
    /\ UNCHANGED <<procVars, inbox, serverVars, pending, onEmpty, updating, mon, duty,
                   orders, duties>>

-----------------------------------------------------------------------------
(* MonitoringService.heartbeat(): the process is dead, hung or well.       *)

Watched == Calm /\ mon = "idle" /\ status \notin {"SHUTTING_DOWN", "SHUTDOWN"}

HbDead ==
    /\ Watched /\ handle # None /\ ~Alive(handle)
    /\ \E h \in Found :
         /\ handle' = h
         /\ IF h # None \/ (maintenance /\ status = "LOADING")
            THEN UNCHANGED <<status, mon>>
            ELSE IF status = "STOPPED"
            THEN status' = "SHUTDOWN" /\ UNCHANGED mon
            ELSE mon' = "report" /\ UNCHANGED status
    /\ UNCHANGED <<procVars, inbox, mission, flagVars, taskVars, duty, bounds>>

HbReported ==
    /\ mon = "report" /\ mon' = "idle"
    /\ status' = "SHUTDOWN"
    /\ UNCHANGED <<procVars, inbox, handle, mission, flagVars, taskVars, duty, bounds>>

\* keep_alive() asks for a mission update; DCS answers.
HbKeepAlive ==
    /\ Watched /\ status \in {"RUNNING", "STOPPED"} /\ (handle = None \/ Alive(handle))
    /\ \/ (\E p \in Proc : dcs[p] = "run") /\ \E e \in {"live", "paused"} : Emit(e)
       \/ (\E p \in Proc : dcs[p] \in {"load", "idle"}) /\ Emit("paused")
    /\ UNCHANGED <<procVars, serverVars, flagVars, taskVars, mon, duty, bounds>>

\* Nothing was heard of the server for three minutes (six while it loads): the
\* waits of a startup or shutdown are shorter than that.
Silent ==
    /\ Working = {} /\ inbox = <<>>
    /\ \A t \in Task : pc[t] \in {"free", "warn", "updating"}

\* (Variant: a server without a process is not looked at.)
HbHung_Process ==
    /\ Watched /\ Alive(handle)
    /\ \/ Silent /\ UNCHANGED faults
       \/ Working # {} /\ Fault("slow")
    /\ mon' = "dump"
    /\ UNCHANGED <<procVars, inbox, serverVars, flagVars, taskVars, duty, orders, duties>>

\* kill_hung_server(): a process is dumped first, without one it is a shutdown.
HbHung ==
    /\ Watched /\ (handle = None \/ Alive(handle))
    /\ \/ Silent /\ UNCHANGED faults
       \/ Working # {} /\ Fault("slow")
    /\ \/ /\ Alive(handle) /\ mon' = "dump"
          /\ UNCHANGED <<procVars, handle, status>>
       \/ /\ handle = None /\ mon' = "audit"
          /\ \E h \in Found :
               IF h = None THEN UNCHANGED procVars ELSE Becomes(h, "none") /\ Nobody(h)
          /\ handle' = None /\ status' = "SHUTDOWN"
    /\ UNCHANGED <<inbox, mission, flagVars, taskVars, duty, orders, duties>>

\* The handle may be gone when the dump is written: the error is logged.
HbDumped ==
    /\ mon = "dump"
    /\ IF Alive(handle)
       THEN Becomes(handle, "none") /\ Nobody(handle) /\ handle' = None /\ mon' = "audit"
       ELSE mon' = "idle" /\ UNCHANGED <<procVars, handle>>
    /\ UNCHANGED <<inbox, status, mission, flagVars, taskVars, duty, bounds>>

HbKilled ==
    /\ mon = "audit" /\ mon' = "idle"
    /\ status' = "SHUTDOWN"
    /\ UNCHANGED <<procVars, inbox, handle, mission, flagVars, taskVars, duty, bounds>>

Heartbeat == HbDead \/ HbReported \/ HbHung \/ HbDumped \/ HbKilled

\* The schedule goes on.
NextPeriod ==
    /\ "duty" \in May /\ duties < MaxDuty /\ duties' = duties + 1
    /\ duty' \in {"Y", "N", "P"} \ {duty}
    /\ UNCHANGED <<procVars, inbox, serverVars, flagVars, taskVars, mon, faults, orders>>

-----------------------------------------------------------------------------
Dcs == \E p \in Proc : DcsWorks(p) \/ DcsFails(p)
Fails(t) == StartupFails(t) \/ RunActionSkips(t) \/ UpdateBreaks(t)
Step(t) ==
    \/ Startup(t) \/ Shutdown(t) \/ Delayed(t) \/ Warned(t) \/ RunAction(t)
    \/ UpdateWarned(t) \/ UpdateEnds(t)
Check(t) == CheckLaunch(t) \/ CheckTeardown(t) \/ CheckAction(t)
Admin(t) == AdminStartup(t) \/ AdminShutdown(t) \/ AdminRestart(t)

\* wait_for_status_change(): a task that waits for the present status goes on in
\* the next turn of the event loop, before the next event or timer.
Awake(t) ==
    \/ pc[t] = "await" /\ status \in {"STOPPED", "RUNNING", "SHUTDOWN"}
    \/ pc[t] = "stopping" /\ status \in {"STOPPED", "SHUTDOWN"}
Wake(t) == Awake(t) /\ (UpReady(t) \/ UpCrashed(t) \/ DownStopped(t))

Others ==
    \/ Dcs \/ Players \/ Handle \/ Heartbeat \/ HbKeepAlive \/ AdminFlag \/ NextPeriod
    \/ \E t \in Task : Step(t) \/ Fails(t) \/ Check(t) \/ Admin(t) \/ UpdateBegins(t)

Next ==
    \/ \E t \in Task : Wake(t)
    \/ (\A t \in Task : ~Awake(t)) /\ Others

Spec == Init /\ [][Next]_vars

\* DCS goes on, events are handled, a task that can go on does, and the loops of the
\* monitor and of the scheduler come round while they find something to do.
Fairness ==
    /\ \A p \in Proc : WF_vars(Next /\ DcsWorks(p))
    /\ WF_vars(Next /\ Handle) /\ SF_vars(Next /\ Heartbeat)
    /\ \A t \in Task :
         /\ WF_vars(Wake(t)) /\ SF_vars(Next /\ Step(t))
         /\ SF_vars(Next /\ (CheckLaunch(t) \/ CheckTeardown(t)))
FairSpec == Spec /\ Fairness

-----------------------------------------------------------------------------
(* Properties.                                                             *)

\* A server never has two DCS processes, although do_startup() does not look for one.
OneProcess == \A p, q \in Living : p = q

\* A server that is down has no DCS process, unless one is about to be registered:
\* neither the monitor nor check_state() would look after it.
DownMeansDown ==
    status = "SHUTDOWN" /\ mon = "idle" => Living = {} \/ \E t \in Task : pc[t] = "await"

\* While dcs_updater.exe runs there is no DCS process.
UpdateAlone == (\E t \in Task : pc[t] = "updating") => Living = {}

\* When an update is over, every server has the maintenance flag it had before, if
\* nobody gives an order meanwhile.
Updates(t, flag) == updating /\ kind[t] = "update" /\ keep[t] = flag
FlagRestored ==
    \A flag \in BOOLEAN, t \in Task :
        [](Updates(t, flag) /\ orders = MaxOrders => [](~updating => maintenance = flag))

\* A server that must run on this day and time comes up again, whatever failed.
RunningInY == <>[](duty = "Y" /\ ~maintenance) => []<>(status = "RUNNING" /\ Living # {})

\* A server that must be offline on this day and time goes offline for good.
OfflineInN == <>[](duty = "N" /\ ~maintenance) => <>[](status = "SHUTDOWN" /\ Living = {})
=============================================================================
