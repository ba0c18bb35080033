# Verification of DCSServerBot

TLA+ models of DCSServerBot, the TLC instances that check them and the theorems
TLAPS proves about them. Paths are relative to the repository (`src/`). Every
definition is translated from the Python source; `PROJECT.json` maps it to its
lines. The source's names are kept where TLA+ allows it.

## 1. The system

DCSServerBot runs as one process per *node* (a Windows machine). Nodes of a
*cluster* share a PostgreSQL database; exactly one of them, the *master*, talks
to Discord and runs the plugins, the others are *agents* that run DCS servers
and obey remote calls. Inside a node everything is one asyncio event loop with
a few threads: a step in these models is what runs between two awaits, or one
SQL statement.

| Component | State | Operations | Interacts by | Hard behaviours | Correct if |
|:--|:--|:--|:--|:--|:--|
| **Master election** `core/data/impl/nodeimpl.py`, `run.py` | row of CLUSTER, advisory lock on a sticky connection, `_claimed_master`, `_master`, age of NODES.last_seen | `heartbeat()` every 5 s, takeover request, upgrade, role switch of `Main.run()` | shared tables, the lock, INTERCOM (upgrade) | the row is read once per beat, crashes, lost sessions, pool timeouts, a slow master, upgrades | claims made in sight of CLUSTER are backed by the lock; there is a master again after any fault |
| **Channels** `core/pubsub.py` | write and read queue and worker, rows of INTERCOM / BROADCASTS | publish, INSERT with retry, SELECT - handle - DELETE, clear, close | tables, NOTIFY, handlers of the service bus | reconnects, crash between handle and DELETE, role changes, shutdown | nothing lost silently, order kept, handled once when nothing fails |
| **Server life cycle** `core/data/impl/serverimpl.py`, `core/data/server.py` | `status`, `process`, `current_mission`, `maintenance`, `restart_pending`, `on_empty` | startup, shutdown, stop, loadMission | DCS process, UDP events, tasks of scheduler, monitor, commands, updates | all of them act on one server with awaits in between; DCS crashes, hangs, is slow | never two processes, none unattended |
| **Scheduler** `plugins/scheduler` | tasks, warn timers | `check_state()` once a minute, teardown, actions, admin commands | calls the server | warning for minutes, delayed launches, triggers | the server follows its schedule |
| **Monitoring** `services/monitoring` | last_seen | `heartbeat()`, `kill_hung_server()` | calls the server, sets its status | acts after awaits on what it saw before | dead and hung servers are found |
| **DCS update** `core/data/maintenance.py`, `NodeImpl.update()` | `update_pending`, who was in maintenance | autoupdate every 5 min, command, cron | shuts servers down and starts them | overlap, hooks that raise, a server that comes up meanwhile | the updater runs alone; flags are restored |
| **Service bus: event queue** `services/servicebus/service.py` | one queue and worker per server, listeners | UDP intake, register, rename | thread to event loop, all listeners | rename while events are queued, failed registration, hanging listener | each event once, in order, to the right server |
| **Service bus: remote calls** same file, `core/services/base.py` | token to future | `send_to_node_sync`, `handle_rpc` | channels | late answers, retries, unknown servers | an answer reaches its caller or nobody |
| **Cluster registry** `nodeimpl.py`, service bus | `all_nodes`, `suspect`, remote servers | register, unregister, `check_nodes` | table NODES, INTERCOM | awaits between reading and writing the lists | a living node is registered in the end |
| **Service registry** `core/services/registry.py` | dependencies, instances | run, shutdown, switch | all services | partial start, failures | dependency order both ways |
| **Process manager** `core/process` | cores per process | assign, redistribute | watcher thread | lock between threads | no core promised twice |
| **Mission list** `serverimpl.py`, `plugins/mission` | `missionList` in DCS, cache and settings of the bot, files, table MISSIONS | add, delete, replace, load, rotation on empty | DCS, watcher thread, remote calls | missions are named by indexes that shift, answers overwrite the list | the list is what was asked for; the mission named is the one started |
| **Credits, deposits, slot blocking** `plugins/creditsystem`, `plugins/slotblocking` | points per player object, rows of CREDITS, deposits | events, donations, payments under a lock | database, DCS, Discord commands | read-modify-write of cached values with awaits in between | row and cache agree with what was earned and spent; planes and gifts are paid once |
| **Punishment: kills** `plugins/punishment/listener.py` | `pending_kill`, timers, `disconnected` | events of DCS, timers of 10 s | queue of the server, events the bot sends itself | reports that come late, twice, in part or never | a plane lost to a hit is one kill |
| **Voting** `plugins/voting` | `_all_votes`, a handler with votes, voters, timers per vote | create, vote, cancel, count, execute | chat commands, Discord commands, timers, actions on the server | cancellation against timer and execution, options that change, tasks that raise | one vote at a time, what most wanted is done, it ends |
| **Players, forgiveness and seats, competitive, tournament** `plugins/*` | players, points, timers, matches | events, chat commands | database, DCS commands | timers against events | - |
| **Logistics, flight plans** `plugins/*` | tasks, plans | events, commands | database | - | - |
| **Statistics, views, bot, web, extensions, firewall, music, backup, cron, UPS, installation** | mostly tables, files, other programs | - | - | - | - |

`PROJECT.json` lists every part with what is modelled of it, and under
`hazards` what is hard to test in it, each at its line.

## 2. Modules

| Module | Models |
|:--|:--|
| `MasterElection` | election and role switch, one SQL statement per step |
| `Leadership` | abstract: one office, vacant between two owners, relied upon only by its owner |
| `MasterElection_proofs` | theorems about `MasterElection` |
| `PubSub` | one channel with all its nodes, workers and rows |
| `Mailbox` | abstract: at least once, first handled in order per sender and address, given up only on purpose |
| `PubSub_proofs` | theorems about `PubSub` |
| `RpcBus` | remote calls between the nodes of a cluster and through the master: tokens, listeners, timeouts, answers |
| `RemoteCall` | abstract: a call is answered with its own answer or times out, and once |
| `RpcBus_proofs` | theorems about `RpcBus` |
| `EventQueue` | queues and workers of servers on the master, registration, rename and its rollback |
| `EventQueue_proofs` | theorems about `EventQueue` |
| `ClusterRegistry` | which nodes a master knows, suspects, registration, the proxies of their servers |
| `ServerLifecycle` | one server, its DCS processes, scheduler, monitor, commands and updates |
| `ServerLifecycle_proofs` | theorems about `ServerLifecycle` |
| `MissionList` | the mission list of a server as DCS, the bot, the database and the disk have it |
| `Credits` | points, their rows, deposits, payments, gifts |
| `Credits_proofs` | theorems about `Credits` |
| `KillCredit` | pending kills, timers and the kills the bot reports |
| `KillCredit_proofs` | theorems about `KillCredit` |
| `Voting` | votes of the players of a server, from creation to execution |
| `Missions_proofs` | theorems about `MissionList` and `Voting`: what a server plays, and who picks it |
| `MC_*` | model values and sets of the instances |

Definitions marked `(Variant: ...)` are what a plausible bug would make of the
definition that follows them; they are used by no specification. Each property
has one, and TLC finds the property violated when the variant takes the place of
the definition. That is how we know that a property says something.

How they compose: `PubSub` delivers for `RpcBus` and `ClusterRegistry` (they keep of its
properties that messages arrive late, in an order of their own per channel, twice after a
failure); `MasterElection` gives both the masters that change; `EventQueue` is what `RpcBus`
hands events to and what `MissionList`, `KillCredit` and `Credits` rely on when they handle
the events of a server one after the other.

### Plan

1. `MasterElection`, `PubSub`, `ServerLifecycle` with `Leadership`, `Mailbox` and proofs - *done*.
2. `RpcBus` with `RemoteCall`, `EventQueue`, both with proofs; `ClusterRegistry` - *done*.
3. `MissionList`, `Credits`, `KillCredit`, `Voting`, all four with proofs - *done*.
4. Safety of `ServerLifecycle` for the schedule with the autoupdater, and with actions - *done*.
   Proofs left: one admin command or update by hand beside them (the instance of
   `Server_orders`).
5. Modules left: the windows in which a victim can forgive and the seats they lock,
   `ServiceRegistry`, the match of `Competitive`, `ProcessManager`, the tournament, logistics
   and flight plans.

## 3. Master election

**Code and model.** `row` is the row of CLUSTER, `lock` the session that holds
`pg_advisory_lock` and how often (it is re-entrant), `seen` abstracts the age of
NODES.last_seen to three ages, because the code compares it with the heartbeat
interval and with 180 s only. A beat (`NodeImpl.heartbeat()`) is a sequence of actions
`HbRead` (or `HbNoTables`), `HbUpgradeSelf`, `HbGrant`, `HbUpgradeOther`, `HbNoMaster`, `HbDelete`,
`HbHandOff`, `HbIgnoreTakeover`, `HbOwn`, `HbAgent`, `HbTry`, `HbWait`, `HbClaim`, `HbEnd`:
`pc` says where it stands, `snap` is the row it read, which may be out of date when it
acts. The database may be a new one: until a node that started as the master has run
`update_db()` (`CreateTables`, taken to succeed) there are no `tables`, and `heartbeat()`
returns True to every node that looks (`except UndefinedTable: return True`,
`nodeimpl.py:1354`). `blind` is a history variable: the nodes whose last beat ended like
that. `SwitchBegin` and `SwitchCommit` are the two ends of a role switch in `Main.run()`.
`Crash`, `SessionLost`, `SessionReaped`, `PoolTimeout`, `BeatFails` and `Expire` are the
faults and the clock. External: PostgreSQL's lock, which is re-entrant per session
and freed when the server notices that the session has gone (`Ghost` until then).

**Runs.**

| Run | Question | Instance |
|:--|:--|:--|
| `Election_live` | does CLUSTER name a node only if it has the lock (`NamedUnderLock`), is the claim of a node whose last beat has seen CLUSTER backed by the lock (`ClaimNeedsLock`), does no agent keep the lock (`NoOrphanLock`), does the election implement `Leadership`, is there always a master with the lock again (`AlwaysMasterAgain`), does a preferred node get the office when nothing fails (`HealthyTakeover`)? | 2 nodes, new or used database, 2 faults of any kind, slow beats; 128 000 states |
| `Election_upgrade` | does a pending upgrade end, does a `no_master` node that had to finish one give the office back? | 2 nodes, new or used database, separate installations, 2 failed upgrades or crashes; 44 000 states |

What does not hold. TLC finds these counterexamples, behaviours of the code, with the
constants given:

| Property | Instance | What happens |
|:--|:--|:--|
| `PreferredBecomesMaster` | `FairSpec`, 3 nodes, `Preferred` one of them, `CloudDrive`, `PromptBeats`, 1 crash | `services/servicebus/README.md:18` promises that a preferred master is the master whenever it is online. Its request can be overwritten: `try_become_master()` sets `takeover_requested_by = NULL` while the preferred node already waits in `pg_advisory_lock()` |
| `NoMasterNeverClaims` | `Spec`, 2 nodes, one of them in `NoMaster`, `Latest = 2`, `CloudDrive`, `PromptBeats`, upgrade and crash | `handle_upgrade()` comes before the check of `no_master` (`MULTINODE.md:31`) |
| `ClaimNeedsLock`, and that there are never two masters, without the condition `n \notin blind` | `Election_live` | on a new database two nodes start before the first one has created the tables: both claim the mastership without a look at the lock and start the services of a master, `no_master` nodes too. The next beat sees CLUSTER, and the one that does not get the lock becomes an agent |
| `NamedUnderLock` | `FairSpec`, 2 nodes, one of them preferred and the other in `NoMaster`, otherwise as `Election_upgrade` | `nodeimpl.py:1173` calls a request for a takeover an "intent" signal that does NOT change `cluster.master`. The `no_master` node ends the upgrade of a master that is down, becomes the master and steps down by deleting the row; the preferred node has read the row just before and asks for the takeover now. Its `INSERT ... ON CONFLICT DO UPDATE` (`nodeimpl.py:1174-1179`) finds no conflict and names the requester as the master before it has the lock. This needs a deleted row, hence a `no_master` node: `NamedUnderLock` is checked and proved for clusters without one |
| `ServicesFollowRole` | `Election_live` | the claim changes twice during one role switch: `commit_claimed_master()` publishes the claim of the moment, not the role the services were switched to; claim and role agree then, so `Main.run()` does not look again |
| `NoOrphanLock` | `Election_upgrade` without `PromptBeats` | a beat that got the lock with an outdated row waits for another node's upgrade and keeps it |

**Bounds.** `MaxFaults` counts faults; two let a fault hit the repair of another. `MaxDepth`
bounds the re-entrant acquisitions of the lock (a beat that has the lock asks for it again
at most once per beat, and a release or a lost session resets it). Two nodes show every
conflict of pairs; three are used for `PreferredBecomesMaster`, where one node waits for the lock, one holds it and
one is preferred. `Latest = 2` is one upgrade. The safety properties are proved for every set of nodes; two nodes are
enough for the checks.

**Fairness.** Strong for beats, main loop and restart of a node (the loops come round for
ever; the start script starts a node again), weak for pending upgrade calls, for the clock
of a node that is down, for `update_db()`, and for PostgreSQL reaping dead sessions. `PromptBeats` says that a
beat takes less time than the pause between two beats (milliseconds against 5 s), so that
other nodes neither restart nor upgrade in its middle. It is assumed for
`UpgradeEnds` and `NoMasterStepsDown`:
without it a beat that stays suspended across a whole upgrade of the cluster writes an
outdated row and both fail. Safety does not assume it.

**Proved** (`MasterElection_proofs`, for every set of nodes, configuration and number of
faults, from `ConfigAssumption` only): `TypeCorrect`, `ClaimSafety` (`[]ClaimNeedsLock`),
`OneSettledMaster`, `NamedSafety` (`NamedUnderLock`, for clusters without `no_master` nodes)
and `Implementation` (`LeadershipSpec`). Claims are those of nodes whose last beat has seen
CLUSTER (`ElectedMaster`); see the table above for the first beat on a new database.
For `NamedSafety` the invariant is strengthened by `RowStays`: without `no_master` nodes the
row that a beat has read is still there when the beat acts on it.
`NoOrphan` proves `NoOrphanLock` for clusters in which every node may be the master and no
upgrade is available (`PlainCluster`); for others it is false, see above.
The invariant is `TypeOK /\ LockCounted /\ BeatHoldsLock /\ DownIsIdle /\ ClaimNeedsLock`.
`ClaimNeedsLock` alone is not inductive, because it is about nodes between two beats:
`BeatHoldsLock` says at which points of a beat the node must have the lock for what it will
claim at its end, `LockCounted` that the count is positive exactly while somebody
holds the lock (a release must leave nobody behind), and `DownIsIdle` that a node which is
not running has no beat under way. `PlainInv` adds for `NoOrphanLock` where in a
beat the holder of the lock can stand. The step lemmas go action by action; the
refinement maps the lock to the office and the elected masters to those who believe in it.

## 4. Channels

**Code and model.** A message is the k-th one a node has published. The write queue is
therefore the interval after `taken`, and `hand` is the variable `pending_message` of the
worker. `WriterTakes`, `WriterInserts`, `WriterLosesConnection`, ... are the branches of
`_process_write`; `ReaderSelects` starts a handler for each row of its address (`times`
counts them, up to two), `ReaderDeletes` deletes them. `ClearAgent`, `ClearExpired` and
`ClearRename` are the three statements of `clear()`, `Close` sets the stop event and
the poison pills, `Exit` waits for the workers, `Die` is a crash or the cancellation
after 30 s. `dropped` and `readdressed` record what is given up on purpose: rows deleted by
`clear()`, the queue of a worker that ends, messages to a node that becomes the
master.

**Run** `Channel_faults`: two nodes, two messages, and any two of: a role change, a
shutdown, a fault, anywhere (749 000 states): nothing is lost (`NoLoss`), the channel
implements `Mailbox`, a node that goes on serving an address handles every message to it
(`EventuallyHandled`), and without faults and role changes, through shutdown and restart,
nothing is handled twice (`OnceWhenHealthy`). `EventuallyHandled` says that nodes have,
again and again, no message left; as messages are finitely many, that is to say of
each that it is handled in the end.

Two messages are what order needs, and one may be in a failed INSERT while the other is
published; a fault may be a lost connection in any statement, whether it took effect
or not, or a crash. `MaxRetries = 1` makes the limit reachable, `MaxEvents = 2` bounds
faults, role changes and shutdowns together (with all three at once the safety properties pass
too). The first master is `n1`: nodes are interchangeable. Fairness is weak for the workers of a
running node and for the exit of a node that shuts down.
`CHECK_DEADLOCK FALSE`: with its messages handled and its faults used, the instance stops.

What the model makes explicit and a reader of the code may not expect: duplicates come from
a failed DELETE, a crash between handling and DELETE, an INSERT that took effect although an
error was reported, and from two nodes that both read "Master" during a handover; messages
behind a busy writer are given up by `close()`, which sets the stop event first; messages to
a node that became the master stay unread until `clear()` readdresses them at its next
start; the retry counter is reset by every connect, so an INSERT that keeps failing is
tried for ever.

**Proved** (`PubSub_proofs`, for any number of nodes, messages, retries and faults):
`CoreHolds`, `NothingLost` (`[]NoLoss`), `TypeCorrect`, `Implementation` (`MailboxSpec`).
`Core` consists of `Types`, `WriterShape` (what the worker's position says of its hand),
`RowShape` (ids are below `nextId` and unique, a row is a published message), `BatchHandled`
(what the reader is about to delete was handled) and `AllAccounted`. For the refinement,
`Order` adds that a row carries the address of its message unless it was readdressed
(`RowAddress`), and that a message is readdressed only with all that was sent before it to
the same address (`MovedTogether`): the reader takes all rows of its address at a time, so
nothing is handled before what its sender had sent there earlier. Without `MovedTogether`
the step `ClearRename`, which merges two mailboxes, would break the order.

`HandledOnce` proves `OnceWhenHealthy`. Before the first fault and the first change of role
(`Once`), a message is written once (`WrittenOnce`: one row at most, none while the worker
has it in hand) and read once (`ReadOnce`: a row that was handled is in the batch of the one
reader of its address, who is about to delete it). A shutdown may come at any time: the reader
that ends deletes first, and a node that starts again clears rows nobody has handled.

## 5. Remote calls and event queues

### Remote calls

**Code and model.** A call is identified by its token. `CallNode`, `CallSelf` and `CallMaster` are
`send_to_node_sync()` for the three ways a call can go, `HandleCall` and `Execute` are
`handle_rpc()` and `rpc()` on the other side, `Reply` decides where the answer goes: to
the node that called if this is the master, otherwise to whoever is the master.
`HandleAnswer` sets the future, `Wakes` and `TimesOut` are the two ends of `wait_for()`. The
master may change while a call is under way (`Switch`), nodes start again and forget
their listeners (`Restart`), a row may be read twice, which is what `PubSub` allows.

**Run** `Calls` (3 nodes, 2 calls, 3 faults, 148 000 states): the bus implements `RemoteCall`
(`RemoteCallSpec`): a caller gets the answer to its own call, once, or times out;
`ListenersAreCalls`: what is registered is a call that still waits, nothing is left behind;
`TimeoutNeedsFault`: a call times out only if something failed, was slow or the server was
unknown.

**Proved** (`RpcBus_proofs`, for all nodes, calls and faults): `TypeCorrect`,
`ListenersCorrect` (`ListenersAreCalls`) and `CallsCorrect` (`RemoteCallSpec`). The invariant
ties each answer under way to the call whose token it carries; with it a step that
resolves a future is a step of `RemoteCall`, everything else stutters. `AnswersCome` proves
`TimeoutNeedsFault`: without a fault (`AllGoesWell`) every call that waits has its request, its
task or its answer somewhere under way, addressed to where it can be handled, or its answer has
arrived. That needs the name "Master", under which the master is written to, not to be the name
of a node, which `RpcAssumption` now says.

### Event queues

**Code and model.** `Intake` puts an event into the queue of the server it names, after it has
made queue and worker if there is none (`Queued`); `IntakeRemote` is `handle_master()`. A worker
(`WorkerLoops`, `WorkerTakes`, `Registers`, `Handled`, ...) takes one event at a time and awaits all
listeners; it looks its queue up by name for every event, and `Finish` is the `task_done()`
that goes to the queue the name has then. `Renamed` is `rename_server()` of the bus: it makes
a queue for the new name and ends the old worker with a poison pill. A rename waits for the
database between `RenameBegins` and `RenameSucceeds` or `RenameFails`, which is the
rollback. A registration that fails (`RegisterFails`) ends worker and queue. `May` selects what
may happen; `"hasty"` lets people rename a server while its events are still being handled,
where the code asks only that it is shut down.

**Run** `Events` (5 events, 2 renames, 4 queues, 172 000 states): no two workers handle events of
one server at once (`OneAtATime`), a queue with events has a worker (`QueueServed`), events of a
server are handled in the order they came (`HandledInOrder`), and an event is taken in the end
(`EventuallyTaken`; fairness is weak for workers and intake, both loops that wait for nothing
else).

What does not hold:

| Property | What may happen | Why |
|:--|:--|:--|
| `ServerListed` | `fail` | the rollback calls `rename_server(self, old)` while `self.name` is the old one already (serverimpl.py:581): the server is taken out of the list of servers |
| `ServerListed` | `auto` | a registration that finds another name for its port renames the server to the name it already has (service.py:460): it is gone from the list |
| `OneAtATime`, `HandledInOrder` | `hasty` | a rename there and back while the old worker is still at an event: two workers for one server |

**Proved** (`EventQueue_proofs`, for any number of names, events, renames and queues):
`TypeCorrect`, `QueuesServed` (`QueueServed`), and, unless `May` has `"hasty"` (`Unhurried`),
`OneEventAtATime` (`OneAtATime`) and `EventsHandledInOrder` (`HandledInOrder`). The invariant
`OrderInv` says more than that one worker is busy: no two names share a queue (`OwnQueues`), a
server that is listed has one worker and its queue has this name (`OneWorker`), events are
nowhere else (`RealEvents`) - a worker left behind by a rename has nothing but poison to take -
and the numbers of what is queued grow from the one handled last (`InOrder`). All four are needed
together: `task_done()` and the next `get()` look the queue up by name, so that a second queue or a
second worker would at once mean two events of one server, out of order.

## 6. Cluster registry

**Code and model.** `allNodes` and `suspect` are those of the master, `fresh` the nodes
`get_active_nodes()` finds in NODES. `check_nodes()` is split at its awaits: `CheckNodes` reads,
`NextSilent` goes through the silent nodes, `Alerted` continues after an alert. An agent that
starts clears its messages, announces itself and registers its servers (`AgentStarts`,
`AgentClears`, `AgentSwitches`, `AgentRegistersServers`, `AgentIsAnswered`, ...); the master
handles the calls in tasks (`Register`, `RegisterAlive`, `RegisterServers`, `InitServer`,
`Unregister`). A new master has empty lists. Every registration makes a new proxy, which
is why proxies are numbered, and a server keeps the one it was listed with.

**Run** `Registry_nodes` (a master and one agent, two faults out of crash, stop, replaced master,
quick restart, slow heartbeats of either; 234 000 states): an agent that runs for good and whose
heartbeats are in time is registered in the end (`NodeRegistered`), one that is gone for good
is unregistered (`NodeForgotten`), and one that the master has known and that runs on is not
lost (`NeverLost`). One agent is enough, because the master treats each agent by itself.
Fairness: weak for loops, messages and calls.

What does not hold:

| Property | Instance | Why |
|:--|:--|:--|
| `NoOrphanServer` | crash, quick restart | `unregister_remote_node()` logs "Unregistering remote node ... and all its servers" (service.py:363) but compares `server.node == node` (365), the identity of a proxy that a second registration has replaced: the servers stay in the list |
| `NodeRegistered` without its premise on heartbeats | slow agent or master | "is not active (yet), waiting ..." (service.py:127): the node is skipped and nobody registers it until one of the two starts again |
| a running server is listed | crash, stop or new master | `register_local_servers()` runs only once at a time (service.py:258) and ignores "register servers" while the previous one is busy with answers to a master that has gone |

## 7. Server life cycle

**Code and model.** `status`, `handle` (`server.process`), `mission`, `maintenance`, `pending`
(`restart_pending`), `onEmpty` and `updating` (`node.update_pending`) are the variables of
the code; `dcs` is what each DCS process really does, and `inbox` the events it has sent.
A *task* is a coroutine: `kind` says what created it (launch or load by the schedule,
teardown, an action, `/server startup`, `shutdown`, `restart`, an update), `pc` the await it
stands at. `startup()` is `UpBegin` (up to LOADING), `UpLaunch` (the process),
`UpReady` / `UpCrashed` / `UpTimeout` (the end of the wait); `shutdown()` is `Down`,
`DownStopped`, `DownExited`, `DownKill`, `DownDone`; the tasks share these parts as the code
shares the methods. `Considered`, `CheckLaunch`, `CheckTeardown` and `CheckAction` are
`check_state()`, `Warned` the end of the warning time, `RunAction` is `run_action()`. `mon` is
where the monitor's heartbeat stands: `HbDead`, `HbReported`, `HbHung`, `HbDumped`,
`HbKilled`. `UpdateBegins`, `UpdateWarned`, `UpdateEnds` and `UpdateBreaks` are
`NodeImpl.update()` with `ServerMaintenanceManager`: a server with players is warned for up to two
minutes after the flags are set, and then shut down by a task that looks at nothing again
(`UpdateWarned`); monitor, timers, players and orders act meanwhile. A task that is `updating` has
shut this server down; `dcs_updater.exe` runs then, or waits for other servers of the node to
be warned and shut down. The schedule is reduced to what it asks for now (`duty`: Y, N or
P), which may change at any time. PAUSED is merged with RUNNING. The DCS process is
external.

**Time.** `check_state()` runs once a minute, people are slower than coroutines, and most
awaits (a file, a Discord message, the mission list) take far less. `Calm` expresses that:
no event is queued, the monitor is idle and no task is in a wait that is shorter than a
minute. Timers, orders and the monitor's heartbeat act only then. This is an assumption
of the runs; what the code does without it is shown below by lifting it:
`peek` lets `check_state()` run in any of these waits, `hasty` lets an admin act while
extensions and the mission are prepared, which in practice takes minutes. `late` allows the
delayed launches of `check_state()`.

**Runs.**

| Run | Question | Result |
|:--|:--|:--|
| `Server_live` | the schedule with crashes, hangs, failing, slow and delayed launches: does the server follow its schedule in the end (`RunningInY`, `OfflineInN`)? | pass, 20 000 states |
| `Server_orders` | schedule, actions (restart, cold restart, shutdown, stop), admin commands and updates with players, waits for an empty server, crashes, hangs and failures: two processes (`OneProcess`)? one nobody looks after (`DownMeansDown`)? does the updater run alone (`UpdateAlone`), are maintenance flags restored (`FlagRestored`)? | pass, 314 000 states |

The passing runs leave out what breaks their properties. With the constants below (and
two processes, two tasks and `MaxInbox = 2`) TLC finds these counterexamples, which are
behaviours of the code; `FairSpec` and no symmetry for the last two:

| Actors besides the schedule | `May` | Faults, orders, duties | Violated | What happens |
|:--|:--|:--|:--|:--|
| autoupdate | late | 0, 1, 0 | `UpdateAlone` | a launch delayed by `call_later()` (commands.py:832) fires during an update: the callback looks neither at `update_pending` nor at `maintenance` |
| action, autoupdate | players | 0, 2, 0 | `UpdateAlone` | an action that waits for an empty server, or warns its players, goes off during an update and starts the server |
| (none) | late, players, duty, and slow (or crash, doomed) | 1, 0, 2 | `OneProcess` | a delayed launch survives the teardown that was warned before it, and `check_state()` launches the server once more |
| admin, autoupdate | players | 0, 2, 0 | `UpdateAlone`, `OneProcess`, `DownMeansDown` | `/server startup`, `restart` or a forced `shutdown` during an update or its warning: the commands look at the status of the server only, not at `update_pending` |
| update | | 0, 2, 0 | `UpdateAlone` | two updates: the first to end resets `update_pending` (nodeimpl.py:848) and starts servers while the updater of the second one runs |
| admin | hasty | 0, 1, 0 | `DownMeansDown` | a forced shutdown while a startup is prepared (serverimpl.py:828): DCS runs, the status says SHUTDOWN |
| action | peek | 0, 1, 0 | `OneProcess` | `check_state()` runs between shutdown and startup of a cold restart (commands.py:503) and launches the server as well |
| action | crash or hang, players, doomed | 1, 1, 0 | `OneProcess` | a restart warns the players for minutes, the server crashes meanwhile and `check_state()` launches it; the pending restart finds it LOADING and launches it as well (commands.py:619). `doomed` is what `Server_orders` excludes: a fault while an action or a teardown warns the players (during the warning of an update faults are allowed) |
| action | slow, players | 1, 1, 0 | `DownMeansDown` | a cold restart on an empty server starts while the monitor kills the hung one; the monitor then sets SHUTDOWN |
| action, admin | | 0, 2, 0 | `OneProcess`, `DownMeansDown` | a server is killed while a restart is in its shutdown, or in its startup |
| action | duty | 0, 1, 2 | `OfflineInN` | the action stop leaves `restart_pending` set (commands.py:384): the teardown of a period N never comes |
| autoupdate | fail | 1, 1, 0 | `RunningInY` | a `before_update` hook raises (nodeimpl.py:813): `update_pending` stays set, the scheduler is off for good |

**Bounds.** Two processes (a third adds nothing to "two at once"), two coroutines at a time
besides the monitor, up to three faults, two orders, three changes of the schedule, two
queued events. The interesting cases are pairs: a task that waits and another one, or a
fault, that changes what it waits for. `CHECK_DEADLOCK FALSE`: with the bounds used up, a
server that is where its schedule wants it has nothing left to do.

**Fairness** (`Server_live`): weak for a DCS process that
works, for handlers and for a task whose wait is over; strong for the monitor's heartbeat,
the steps of tasks and `check_state()`, which are loops and timers that come round again
although events keep interrupting `Calm`. Without symmetry, which TLC does not support with
liveness.

Seen while modelling and not turned into runs: `/server startup` is documented to put the
server into maintenance "unless specified otherwise" (scheduler README), the parameter's
default is `False`; the monitor's `heartbeat()` returns when it finds one server dead and
does not look at the others in that beat; `/server startup` retries when somebody else has
shut the server down on purpose during its launch.

**Proved** (`ServerLifecycle_proofs`, for any number of processes, coroutines, orders, faults,
events and changes of the schedule): `TypeCorrect`; for two kinds of servers that the table
above leaves room for, what the runs check. A hypothesis of a theorem is about the constants
`Actors` and `May` only.

*`Unattended`*: the schedule and the autoupdater act; waits are as short as `Calm` assumes (neither
`peek` nor `hasty`), and launches are delayed (`late`) only where there are no updates and no
players to warn, which are the rows of the table. Crashes, hangs, failing and slow startups and shutdowns,
also during a warning, are allowed. `Server_live` is such an instance. Theorems: `OneProcessOnly` (`OneProcess`),
`DownIsDown` (`DownMeansDown`), `UpdatedAlone` (`UpdateAlone`), `FlagsRestored` (`FlagRestored`).
`LifeInv` is their invariant: the bot holds the only process, and a server that is down or
whose end is being reported has none (`ProcessOK`); while a launch is prepared (`Rising`)
there is no process, no event is queued, the monitor is idle and no other coroutine does
more than warn (`RisingOK`), which is why `do_startup()` may launch without looking; one update at a
time warns and shuts down (`UpdateKind`: from the warning until the updater has ended), and when it runs the updater, no coroutine waits for a process any more
(`UpdateOK`). None of these holds on its own: that nothing is running when a launch begins
follows from the status, that the status is right from who may act during the launch. For the
flag, `FlagIs` says what the flag is or what the update under way remembers.

*`Routine`*: the schedule and any number of scheduled actions act; waits are short, launches are not
delayed, nothing is slow, and nothing fails while players are warned. Crashes and hangs at other times,
failing startups, players, and actions that wait for an empty server are allowed. Theorems:
`OneProcessInRoutine`, `DownInRoutine`. `RoutineInv` is their invariant. There is one coroutine
at a time (`CoroutineOK`), because `restart_pending` stays set from the action until the mission
runs. That is delicate: the event that resets it must not come from an earlier start.
So the invariant relates the flag, the status, what the process does (`Being`) and which events
are still queued: a process that loads has sent nothing that could reset the flag or the
status, or something is pending (`ServerOK`); an action begins when nothing is loading
and no event says so (`Settled`, `Quiet`); an action that waits for an empty server is
dropped when a mission starts before the players have left, or goes off before one is loaded
(`WaitOK` with `Fresh`, `Started`).

TLC had checked both invariants with three coroutines before they were proved: `LifeInv` with up to
two updates, `RoutineInv` with up to four actions and five queued events.

## 8. Mission list

**Code and model.** The list exists twice: `list` is `serverSettings.lua`, which DCS and the bot both
write and the bot reads again, `dcs` is what DCS has; `disk` are the mission files. While DCS
runs, a change is a command to DCS (`LuaAdd`, `LuaDelete`, `LuaReplace`, `LuaStart`), whose answer
carries the list (`Answered`); otherwise the bot edits the file itself. Missions are named by their
index. The coroutines are commands of people (`Order...`), the watcher of the mission folder
(`Unlink`, `Create`, `Move`, `Scheduled`) and loads (`LoadBegins`, `LoadModified`, `LoadStarts`,
`ServerEmpty`), which modify the file for minutes before they name it by its index. `wanted` is a history
variable: what the orders so far should have made of the list.

A listed mission is a path: its file, or the writable copy in `.dcssb`. When a file goes, the watcher
looks for the copy first and deletes whichever path is listed (`OnDeleted`, for `Unlink` and for `Move`,
whose event has the old path). It remembers the index for that path: a file whose copy had been listed
is added at the end when it is created again (`Create`), one that had been listed itself returns to its
place, which is what `"back"` allows. A start keeps a listed copy although its file has gone (`Stored`).

Nothing in the code makes people wait. `MayHappen` names what they and the world may do; without
`"race"` they wait for each other (`Alone`): nobody deletes a mission, and no start drops one whose
file is gone, while somebody keeps an index or a list or adds a mission that is listed already, which
replaces it by its index (`Unindexed`); nobody picks in the moment between a change in DCS and
its answer. Without `"loading"` nobody orders while DCS is loading (`Patient`).

**Run** `Missions` (3 missions, 2 tasks at once, 1.31 million states): when nothing is under
way the list is what was asked for (`ListIsWanted`), and a load starts the mission that was chosen
(`StartsWhatWasAsked`). Three missions are one to run, one to delete and one whose index shifts.

What does not hold (3 missions, 2 tasks):

| MayHappen | Orders | Violated | Why |
|:--|:--|:--|:--|
| move | 1 | `AutoAdded` | `on_moved` passes the event with the old path to `on_created` (serverimpl.py:148): the file under its new name is not added, against `plugins/mission/README.md:117` |
| unlink, create, back (no shutdown) | 2 | `AutoAdded` | `addMission` with an index uses `current_missions` two lines before its local declaration (lua/commands.lua:450): an error after DCS's list was changed, nothing saved or answered. Without `back` it holds |
| create | 1 | `AutoAdded` | a shutdown before DCS takes the command: the mission is not added |
| unlink, create, back | 3 | `ListIsWanted` | a file comes back to its old place before a deletion that was given an index takes place |
| delete, later, race | 2 | `StartsWhatWasAsked` | a load on empty keeps the index (mission/commands.py:475) |
| delete, race | 2 | `StartsWhatWasAsked`, `ListIsWanted` | two deletions, or a load and a deletion, by index; with four orders also a deletion and the addition of a listed mission |
| delete (3 orders), delete and race (2), unlink (1) | | `RunningKept` | "Can't delete the running mission!" (serverimpl.py:1179) compares the id in MISSIONS with the index in the list (1178) |
| delete, loading | 1 | `ListIsWanted` | a deletion while DCS loads is undone by the validation of the list |
| timeout, delete | 1 | `ListIsWanted` | DCS executes a command after its caller has given up |

Seen and not modelled: the folder is watched with its subfolders (serverimpl.py:246), so that a copy
the bot writes or somebody removes in `.dcssb` is an event of its own, which adds or deletes by index
beside the load that caused it; `on_created` skips a file that was created twice within two
seconds; a start takes the file instead of its copy when the saved original is newer than the
copy (serverimpl.py:622). `replaceMission()` does not write the settings when the server runs, so
that a late answer to another command can bring the old path back; `start_index < len` in
`loadMission()` excludes the last mission. `listStartIndex`, `loadNextMission` and the first
initialisation of the list are left out.

**Proved** (`Missions_proofs`, for any missions, coroutines and bounds): `ListTyped`
(`ListTypeOK`), of every instance; `ListIsRight` (`ListIsWanted`) and `StartsTheRightOne`
(`StartsWhatWasAsked`) from `Calm`, which says that `MayHappen` has none of `"race"`, `"loading"`,
`"timeout"` and `"back"`. The run satisfies `Calm`; the table shows that each of the four has to be
excluded.

Neither property is inductive: both relate an index or a list that a coroutine keeps across an
`await`, or that waits in a queue, to lists that change meanwhile. The invariant `Known /\ Waiting /\
Consistent` says what they have to do with each other. All of it compares with `Base`, the list that
counts: that of DCS while there is one, else the file.

* `Known`: types, and which coroutines and commands have a path and a name.
* `Waiting`: a command and its answer belong to one coroutine, which waits, and to no other.
* `Frames`, `Requests`, `Reserved`: the index a coroutine, a command or a load on empty keeps is that
  of its mission in `Base`, and a list it keeps is a part of `Base` (`PartOf`).
* `Replies`: what was answered was done.
* `Exclusive`: which coroutines may be under way together (`Apart`): what `Alone` permits, and
  what stays true when they go on.
* `Views`: the file, and every list that DCS has answered with, is `Base` but for the changes that
  later answers tell of: missions that are being added may be missing at the end, or one that is
  being deleted may still be there, with those behind it shifted (`UpToAdds`, `BeforeDelete`).
  This is why an older list, written to the file by `Answered`, undoes nothing that stays undone.
* `WantedOK`: a mission nobody waits for is listed exactly if it is wanted.

When nothing is under way no answer is due, so the file is `Base`, and what is listed is wanted.
`startMission` finds its mission by `Requests`. The addition of a listed mission beside a deletion
had been permitted by an earlier form of `Alone`; the step `LuaDelete` could not be proved, and TLC
found the violation with four orders, one more than the run has. In its present form the invariant
was checked with TLC before it was proved, and the properties with four orders (8.4 million states).

## 9. Credits

**Code and model.** `obj` holds the `CreditPlayer` objects of each server, with cached points and
deposit; `row` is the row of CREDITS. The setter writes the cached value to the row, without
reading it (`SetPoints`). Payments (`PayBegin`, `PayEnd`, `PaybackBegin`, `PaybackEnd`, `Refund`) take
turns (`lock`) and await the audit between the change of the points and that of the deposit;
donations in Discord are `DonateAsk`, `DonateLook`, `DonateTakes`, `DonateGives`, in the chat
`ChatDonate`, `ChatGives`; a new object is read with `PrepReads`, `PrepSets`. Events of a server
are handled one after the other. `due` and `paid` are history variables: the points a player
should have, and what was paid for, or earned in, his present flight.

**Run** `Credits` (2 players, 1 server, payback on landing, 8 events, 3 orders, 3 tasks,
681 000 states): `Ledger`: at any moment, row and cached values are what was earned
less what was spent; `GiftsArePaid`: a gift costs the donor what the receiver gets;
`FlightsArePaid`: a plane in the air has been paid for in full, and the deposit is what comes
back on landing. The run
excludes what breaks them (the elements of `May`, all of which the code permits):

| May | Payback | Events, orders | Violated | Why |
|:--|:--|:--|:--|:--|
| roam (2 servers) | yes | 5, 2 | `Ledger` | the object a server kept of an earlier visit writes its stale value over what was earned elsewhere |
| join | yes | 7, 2 | `Ledger` | points change while the object is read from the database |
| vote | yes | 7, 2 | `Ledger` | `/vote create` writes the row (voting/commands.py:155), cached values stay |
| reset | yes | 7, 2 | `Ledger` | so does `/credits reset` |
| spend | yes | 7, 2 | `Ledger` | the donor spends between check and change |
| crowd (3 players) | yes | 1, 2 | `Ledger` | two players donate in Discord to a third one no server knows: both checks see the old points, the row exceeds `max_points` |
| broke | yes | 7, 2 | `FlightsArePaid` | who cannot pay any more at take-off, or when it is the turn of his payment, ends with 0 points and is paid back the whole cost |
| tip | yes | 7, 2 | `GiftsArePaid` | `-tip` does not check what the donor has |
| ground | yes | 7, 2 | `FlightsArePaid` | points earned before the start are a deposit: the next plane is free |
| quick | yes | 7, 2 | `FlightsArePaid` | the deposit changes during the await of the audit (slotblocking/listener.py:163) |
| quit | yes | 7, 2 | `FlightsArePaid` | who leaves keeps his deposit and gets it back at the end of the mission |
| fail, restart | yes | 7, 2 | `FlightsArePaid` | a failed statement or a restart of the bot loses deposits |
| none | no | 7, 2 | `FlightsArePaid` | with charging by usage, the first kill makes a deposit nothing clears: `_pay_for_plane()` returns (line 150) and all later planes are free, against `plugins/slotblocking/README.md:72` and 94 |

**Proved** (`Credits_proofs`): for all players, servers, tasks and amounts, when none of the
above may happen (`Regular`, that is `May = {}`), `LedgerKept`: `[]Ledger`; `GiftsPaid`: every
gift, in Discord or in the chat, costs the donor what the receiver gets; and with charging on
landing (`Payback`) `FlightsPaid`: `[]FlightsArePaid`. It is false for charging by usage, the
last row of the table.
The argument: what is true of the points between two events does not hold while a
coroutine waits, and what the coroutine goes on to write depends on what it read before. The
inductive invariant `CInv` therefore says, of each player, that row, cached values and history
agree (`Books`), that a plane in the air without a payment on its way is paid and its deposit
noted (`Flight`), and what each object holds (`Object`); and of each coroutine
what it may still rely on at the step it waits for: `PrepOK`, `ChatOK`, `PaymentOK`, `VoteOK`,
and `DonateOK`, for which the donor keeps at least the gift and the price of a plane still to
be paid (`Funds`). `Pairs` states which two coroutines are never under way together: two
handlers of one server; for one player two payments, the reading of his object and a payment
or a donation; two donations from or to one player. None of them is inductive alone: the next
payment is correct because nothing else changed the points since `PaymentOK` was true.
A step changes the frames of one coroutine and the accounts of one or two players; lemmas
`PlayerStep`, `GroupStep` and `CreditedStep` prove once that everybody else keeps what he had,
and the lemma of each action, what its own player has.

Seen and not modelled: `Squadron.points` never updates what it caches, so that additions overwrite
each other; initial points are not granted while a campaign runs. Left out: campaigns that start
and end, squadrons, VIPs, balancing, achievements.

## 10. Kills

**Code and model.** `pending` is `pending_kill`, the last threat to a plane; `awaiting` is the timer
that is remembered and `timers` those that run (`loop.call_later`, ten seconds); `queue` is the
event queue of the server, to which `_give_kill()` adds the events DCS has not sent. The ages of a
threat are those the code compares (`reslot_window`, `survival_window`). `lost` and `kills`
are history variables: planes given up after a hit, and what counted. Who shoots is a player or the
AI by a plane, a helicopter or a ground unit, a `"ship"` (or structure), or `"nobody"` (DCS names no
initiator); `Reports` is what `_give_kill()` then sends before it ends or fails. What `missile_threat_score()` and
`is_missile_hot()` say is left open: a choice.

**Run** `Kills` (1 player, 3 planes, 4 shots or hits, 4 events queued, 745 000 states): a
plane is shot down once whoever reports it (`KilledOnce`), a plane given up in time
after a hit counts (`HitsCount`), every plane in the air is watched, with no threat of an
earlier one (`Watched`). Ships, structures and killers without a name do not shoot in this run: the
kills they are owed get lost, see the table. With all of them (`AnyKiller`) `KilledOnce` and
`Watched` still hold (4.1 million states). DCS may report a kill before or after the crash, only to players
(`missing`: the workaround in the code is about that) or not at all. Assumed: a pilot needs longer
to be in the air again than the reports take, and the queue is served within the ten
seconds.

| May | Instance | Violated | Why |
|:--|:--|:--|:--|
| ship | 1 player | `HitsCount` | a pilot hit by a ship takes another seat; `categories[...]` has no entry for ships and structures: KeyError after S_EVENT_KILL, before the `kill` that counts (listener.py:513) |
| nobody | 1 player | `HitsCount` | `s_event['initiator']` raises KeyError before anything is sent (listener.py:484) |
| quick | 1 player | `HitsCount`, `Watched` | events of the old plane take the pending kill of the new one |
| late | 1 player | `KilledOnce` | timer and report both count |
| AI | 1 player | `KilledOnce` | the listener returns for kills without an initiator: the timer counts a kill by the AI again if S_EVENT_KILL is missing |
| none | 2 players on 2 servers, 1 plane, 1 shot | `Watched`, `HitsCount` | `onSimulationStop` clears the pending kills of all servers (listener.py:131) |

**Proved** (`KillCredit_proofs`, for any number of players, servers, planes, shots and queued
events): `TypeCorrect`; `ShotDownOnce` (`KilledOnce`) from `Orderly`, which says that `May` has none
of `"quick"`, `"late"` and `"AI"`, whoever shoots; `NoKillIsLost` (`HitsCount`) and `PlanesAreWatched`
(`Watched`) from `Orderly` and `Heard`: one server (`OneServer`), and neither ships nor unknown killers
(`Complete`). Each assumption excludes a row of the table in which a property is false; the run
`Kills` satisfies all of them. That `Watched` also holds when ships and unknown killers shoot was
checked with TLC and is not proved. A player is looked at by himself: `View` is the
queue with the events of others marked as of no interest, `Of` his part of the state, so that the
argument about a player is one about a record and a function, and every action changes them
in one of a few ways. `KillInv` says that nothing can count twice: while a timer runs the player has
nothing else to fear (`OneTimer`); at most one report of the kill of his plane is queued, behind
no event that would make another one (`OneReport`); when it has counted nothing more is to come
(`Counted`); a new plane starts only when the end of the old one has been handled (`OverFirst`), and
what the player fears is about the plane he has (`Aims`). `WatchInv` is the converse: a plane given
up after a hit has counted, or its kill is in the queue, or its timer runs, or the event that will
give the kill away is queued behind all that the plugin must have seen by then (`Covered`, with
`Seen`, `Over`, `Hits` and `Reported` about what the queue will make of `pending`).

`_recreate_events()` ("Workaround for DCS bug with missing S_EVENT_KILL events") is never reached
with a threat: the crash that starts the timer has taken it. Left out: windows in which a victim
can forgive (each locks the seat of the offender, and the first to end unlocks it), repair
windows, points and their levels, team kills, a restart of the bot.

## 11. Voting

**Code and model.** A vote is a `VotingHandler`; `current` is `_all_votes[server.name]`, the one
people can vote in, `pc` says where a vote stands: its messages go out (`starting`), its timer runs
(`open`), it is counted, its winner is being executed, which takes a minute, or its task has
raised (`failed`). `ChatAsk`, `ChatCreate` and `DiscordAsk`, `DiscordCreate` are the two ends of
a creation, between which credits, an audit and questions are awaited; `TypesNumber` is
`vote()`, which counts any number; `Valid` is `check_vote()` with its four rules, `NoResult`,
`HasResult`, `HasNoOption` are the outcomes of `end_vote()`. `ballots` (who meant what) and
`cancelled` are history variables.

**Run** `Votes` (2 players and a guest in Discord, 3 options, 2 votes, every rule, a threshold of
half of the players, 540 000 states): a vote that goes on is the one of the server (`OneVote`);
everybody has one ballot, which counts for what he meant, and what is executed has at least as
many ballots as any other option and was not cancelled (`Elected`); the server is free for another vote
in the end (`VotingEnds`, with weak fairness: timers go off, tasks go on), but for what
was cancelled in Discord or has raised. Three voters are enough for a tie, a majority and
a threshold, two votes for one that is in the way of another.
`CHECK_DEADLOCK FALSE`: votes are bounded. What the run excludes (`May`), and what TLC then finds:

| May | Violated | Why |
|:--|:--|:--|
| race | `OneVote` | a vote is created in the chat while another is being created in Discord: both have seen that there is none, the second hides the first, whose timer goes on |
| early | `OneVote`, `Elected` | cancelled before `start()` has set its timer: nothing to cancel, the vote goes on unseen and is executed |
| late | `OneVote`, `Elected` | cancelled when its timer has gone off, or during the minute before a restart: `cancel()` reaches the timers, not the task; its end then removes whatever vote the server has |
| choices | `Elected` | a number is an index into choices that are read again when the vote ends (listener.py:129): missions added or removed in between shift it |
| twice | `Elected` | who creates a vote in Discord has voted but is not in `voter`: he can vote again in the game |

What the run shows as it is: the rule `unanimous` (`plugins/voting/README.md:48`) never has a
result, because `check_vote()` returns the number instead of the index (listener.py:120) and
`end_vote()` raises; so does a vote for a number that does not exist, if it leads. Then, and
after `/vote cancel` in Discord, which does not remove the vote (commands.py:172), no other vote
can be created until an admin cancels this one in the chat. Seen and not modelled: a restart vote sets
`restart_pending` in `print()` (options/restart.py) and resets it only when it is executed, so a
cancelled one leaves it set; a player is recognised by UCID, address and name, a change of
which gives him another vote.

**Proved** (`Missions_proofs`, for any players, options, rules, thresholds and number of votes):
`VotesTyped` (`TypeOK`); `OneVoteAtATime` (`OneVote`) if `May` has none of `"race"`, `"early"` and `"late"`
(`Orderly`); `ElectedIsExecuted` (`Elected`) if also `"choices"` and `"twice"` are excluded (`Honest`).
The run satisfies both; the table shows that each of the five has to be excluded. `OneCreator` says that
somebody creates a vote only while the server has none, which is what `"race"` breaks;
`CancelledIsOver` that a cancelled vote is over and never comes to its count; `CountInv` that the
counter of an option is the number of ballots for it: ballots are of voters (`BallotsOK`), so that
who is not in `voter` adds the only one he has (`Counted`). When `end_vote()` has a
result, the option with the highest counter is then one with the most ballots, under each of
the four rules (`MostBallots`).

## 12. What is only model-checked, and what is not modelled

* Liveness (`AlwaysMasterAgain`, `UpgradeEnds`, `NoMasterStepsDown`, `HealthyTakeover`,
  `EventuallyHandled`, `EventuallyTaken`, `NodeRegistered`, `NodeForgotten`, `NeverLost`,
  `RunningInY`, `OfflineInN`, `VotingEnds`): temporal reasoning under fairness needs ENABLED, which the
  prover does not support.
* The safety properties of `ServerLifecycle` for admin commands and updates by hand: proved are those
  of a server without them (section 7). With them, several coroutines at different awaits meet, and
  two such orders break the properties; one is checked in `Server_orders`.
* The types: `TypeOK` of each module (`ListTypeOK` of `MissionList`) holds in its instances. It is a
  theorem (`TypeCorrect`, `VotesTyped`, `ListTyped`) for every module with proofs but `Credits`, where
  all of it but the order of `lock` is part of the proved invariant (`Types`). The runs leave it
  out, as the other properties cover more. For `ClusterRegistry` it is only model-checked.
* Not modelled: see the plan and the notes in `PROJECT.json`. Formatting, Discord
  presentation, file formats, external programs and the Lua side of the UDP connection are
  left out; the models keep the events and commands that cross these borders. Most of the
  repository is of that kind: the commands of plugins read the database and write messages.
* Time is abstracted to ages and to what may happen in which wait; the models do not show
  how long anything takes.

## 13. Running it

    tlc -config Election_live.cfg MC_MasterElection      (Election_upgrade)
    tlc -config Channel_faults.cfg MC_PubSub
    tlc -config Calls.cfg MC_RpcBus
    tlc -config Events.cfg MC_EventQueue
    tlc -config Registry_nodes.cfg MC_ClusterRegistry
    tlc -config Server_live.cfg MC_ServerLifecycle       (Server_orders)
    tlc -config Missions.cfg MC_MissionList
    tlc -config Credits.cfg MC_Credits
    tlc -config Kills.cfg MC_KillCredit
    tlc -config Votes.cfg MC_Voting
    tlapm MasterElection_proofs.tla                      (PubSub_proofs, RpcBus_proofs,
                                      EventQueue_proofs, ServerLifecycle_proofs,
                                      KillCredit_proofs, Missions_proofs, Credits_proofs)

Each run takes from seconds to about two minutes, each proof module a few minutes. An instance
of a table above is the run's configuration with the constants of the row.
