--------------------------- MODULE MasterElection ---------------------------
(***************************************************************************)
(* Master election of a DCSServerBot cluster: NodeImpl.heartbeat() and the *)
(* role switch of Main.run().                                              *)
(*                                                                         *)
(* The nodes share one PostgreSQL database.  A node is elected by holding  *)
(* a session-level advisory lock on a "sticky" connection; the row of the  *)
(* table CLUSTER names the master, a pending takeover request, the version *)
(* and a pending upgrade.  Every SQL statement is one step, so the row a   *)
(* beat read at its start may be out of date when the beat acts on it.     *)
(*                                                                         *)
(* Time is abstracted: seen[n] says how old NODES.last_seen of n is.       *)
(* check_nodes() does not touch the election and is left to the registry.  *)
(***************************************************************************)
EXTENDS Naturals, FiniteSets

CONSTANTS
    Node,        \* the bot nodes configured in nodes.yaml
    Preferred,   \* nodes with cluster.preferred_master
    NoMaster,    \* nodes with cluster.no_master
    None,        \* SQL NULL / nobody
    Ghost,       \* a database session whose client is gone, not yet reaped
    Latest,      \* newest released version; versions are 1..Latest
    CloudDrive,  \* cluster.cloud_drive: all nodes share one installation
    MaxFaults,   \* bound: crashes, lost sessions, pool timeouts, operator upgrades
    MaxDepth,    \* bound: re-entrant acquisitions of the advisory lock
    MayFail,     \* the kinds of fault this instance considers
    PromptBeats  \* beats are short: see NoOutdatedBeat, OthersBetweenBeats

FaultKinds == {"crash", "session", "pool", "slow", "upgrade"}

ASSUME ConfigAssumption ==
    /\ Preferred \subseteq Node /\ NoMaster \subseteq Node
    /\ Preferred \cap NoMaster = {}
    /\ None \notin Node /\ Ghost \notin Node /\ None # Ghost
    /\ Latest \in Nat \ {0} /\ CloudDrive \in BOOLEAN
    /\ MaxFaults \in Nat /\ MaxDepth \in Nat \ {0}
    /\ MayFail \subseteq FaultKinds /\ PromptBeats \in BOOLEAN

VARIABLES
    \* database
    row,       \* the row of CLUSTER; master = None when there is no row
    lock,      \* the advisory lock: holding session and its re-entrancy count
    seen,      \* age of NODES.last_seen: 2 = alive, 1 = older than the
               \* heartbeat (30 s), 0 = older than 180 s or unregistered
    asked,     \* nodes with a queued "upgrade" RPC in INTERCOM
    tables,    \* the cluster tables exist
    \* node processes
    phase,     \* down, starting (_post_init) or running (Main.run loop)
    halt,      \* is_shutdown and its rc: no, restart or update
    pc,        \* where the current heartbeat() stands
    snap,      \* the row this heartbeat read
    conn,      \* the sticky connection: open or lost
    slow,      \* heartbeat_loop runs at 10 s after a PoolTimeout
    claimed,   \* _claimed_master
    blind,     \* history: nodes whose last beat found no tables
    master,    \* _master, the committed role
    target,    \* Main.run: the role being switched to, or none
    services,  \* which services run: the master-only or the agent-only ones
    version,   \* version of the running code
    disk,      \* version installed
    faults     \* faults so far (bounded by MaxFaults)

dbVars   == <<row, lock, seen, asked, tables>>
beatVars == <<pc, snap, conn, slow, claimed, blind>>
procVars == <<phase, halt, version, disk>>
roleVars == <<master, target, services>>
vars == <<dbVars, beatVars, procVars, roleVars, faults>>

Version == 0..Latest
NoRow == [master |-> None, by |-> None, version |-> 0, pending |-> FALSE]
Row == [master : Node \cup {None}, by : Node \cup {None},
        version : Version, pending : BOOLEAN]
Free == [holder |-> None, count |-> 0]
PC == {"idle", "act", "own", "grant", "try", "wait", "claim", "delete",
       "endTrue", "endFalse", "noTables"}

TypeOK ==
    /\ row \in Row
    /\ lock \in [holder : Node \cup {None, Ghost}, count : 0..MaxDepth]
    /\ seen \in [Node -> 0..2] /\ asked \subseteq Node /\ tables \in BOOLEAN
    /\ phase \in [Node -> {"down", "starting", "running"}]
    /\ halt \in [Node -> {"no", "restart", "update"}]
    /\ pc \in [Node -> PC] /\ snap \in [Node -> Row]
    /\ conn \in [Node -> {"open", "lost"}] /\ slow \in [Node -> BOOLEAN]
    /\ claimed \in [Node -> BOOLEAN] /\ blind \subseteq Node /\ master \in [Node -> BOOLEAN]
    /\ target \in [Node -> {"none", "master", "agent"}]
    /\ services \in [Node -> {"master", "agent"}]
    /\ version \in [Node -> Version] /\ disk \in [Node -> Version]
    /\ faults \in 0..MaxFaults

\* The database is a new one, or the cluster has used it before.
Init ==
    /\ row = NoRow /\ lock = Free
    /\ seen = [n \in Node |-> 0] /\ asked = {} /\ tables \in BOOLEAN
    /\ phase = [n \in Node |-> "down"] /\ halt = [n \in Node |-> "no"]
    /\ pc = [n \in Node |-> "idle"] /\ snap = [n \in Node |-> NoRow]
    /\ conn = [n \in Node |-> "lost"] /\ slow = [n \in Node |-> FALSE]
    /\ claimed = [n \in Node |-> FALSE] /\ blind = {} /\ master = [n \in Node |-> FALSE]
    /\ target = [n \in Node |-> "none"]
    /\ services = [n \in Node |-> "agent"]
    /\ version = [n \in Node |-> 1] /\ disk = [n \in Node |-> 1]
    /\ faults = 0

-----------------------------------------------------------------------------
(* The database as the nodes use it.                                       *)

Goto(n, label) == pc' = [pc EXCEPT ![n] = label]
At(n, label) == phase[n] # "down" /\ pc[n] = label

Holds(n) == lock.holder = n

\* pg_try_advisory_lock: re-entrant, and never ahead of a blocked session.
CanLock(n) ==
    \/ Holds(n)
    \/ lock.holder = None /\ \A m \in Node : ~At(m, "wait")

\* The lock is granted to the sticky session of n (again).
Acquire(n) ==
    /\ lock.count < MaxDepth
    /\ lock' = [holder |-> n, count |-> lock.count + 1]

\* pg_advisory_unlock undoes one acquisition.
Release(n) ==
    lock' = IF ~Holds(n) THEN lock
            ELSE IF lock.count = 1 THEN Free
            ELSE [lock EXCEPT !.count = @ - 1]

\* The session of n is gone for its client; the server frees its locks later.
Abandoned(n) == IF Holds(n) THEN [lock EXCEPT !.holder = Ghost] ELSE lock

\* is_node_alive(): one's own name, or a last_seen younger than the timeout.
IsNodeAlive(n, m) == m = n \/ (m \in Node /\ seen[m] = 2)
IsNodeUpgrading(n, m) == m = n \/ (m \in Node /\ seen[m] >= 1)

\* UPDATE cluster ... WHERE guild_id: nothing happens when there is no row.
Updated(new) == IF row.master = None THEN row ELSE new

\* NodeImpl._upgrade(master, conn) of node n.
Upgrade(n, asMaster) ==
    IF ~asMaster /\ CloudDrive
    THEN halt' = [halt EXCEPT ![n] = "restart"] /\ UNCHANGED row
    ELSE IF version[n] < Latest
    THEN /\ row' = IF asMaster THEN Updated([row EXCEPT !.pending = TRUE]) ELSE row
         /\ halt' = [halt EXCEPT ![n] = "update"]
    ELSE /\ row' = IF asMaster
                   THEN Updated([row EXCEPT !.pending = FALSE, !.version = version[n]])
                   ELSE row
         /\ UNCHANGED halt

-----------------------------------------------------------------------------
(* heartbeat()                                                             *)

\* A beat is a few statements, the next one is 5 s away: with PromptBeats no
\* node begins a beat while another one still acts on a row that has changed.
NoOutdatedBeat(n) ==
    PromptBeats => \A m \in Node \ {n} :
        pc[m] \in {"idle", "wait", "endTrue", "endFalse", "noTables"} \/ snap[m] = row

\* The sticky connection is (re)opened if it is closed, the row is read.
HbRead(n) ==
    /\ At(n, "idle") /\ halt[n] = "no" /\ tables
    /\ NoOutdatedBeat(n)
    /\ conn' = [conn EXCEPT ![n] = "open"]
    /\ snap' = [snap EXCEPT ![n] = row]
    /\ Goto(n, "act")
    /\ UNCHANGED <<dbVars, procVars, roleVars, slow, claimed, blind, faults>>

\* The SELECT fails on a database without tables: heartbeat() returns True,
\* "it will be created directly afterward".
HbNoTables(n) ==
    /\ At(n, "idle") /\ halt[n] = "no" /\ ~tables
    /\ conn' = [conn EXCEPT ![n] = "open"]
    /\ Goto(n, "noTables")
    /\ UNCHANGED <<dbVars, procVars, roleVars, snap, slow, claimed, blind, faults>>

\* handle_upgrade() of the node CLUSTER names: it needs the lock to go on.
HbUpgradeSelf(n) ==
    /\ At(n, "act") /\ snap[n].pending /\ snap[n].master = n
    /\ \/ Holds(n) /\ Goto(n, "grant") /\ UNCHANGED lock
       \/ ~Holds(n) /\ CanLock(n) /\ Acquire(n) /\ Goto(n, "grant")
       \/ ~Holds(n) /\ ~CanLock(n) /\ Goto(n, "endFalse") /\ UNCHANGED lock
    /\ UNCHANGED <<row, seen, asked, tables, snap, conn, slow, claimed, blind, procVars,
                   roleVars, faults>>

\* (Variant: the pending upgrade is not cleared.)
HbGrant_StillPending(n) ==
    /\ At(n, "grant")
    /\ asked' = asked \cup {m \in Node \ {n} : seen[m] = 2}
    /\ row' = Updated([row EXCEPT !.version = version[n]])
    /\ Goto(n, "endTrue")
    /\ UNCHANGED <<lock, seen, tables, snap, conn, slow, claimed, blind, procVars, roleVars,
                   faults>>

\* ... the active agents are told to upgrade and the flag is cleared.
HbGrant(n) ==
    /\ At(n, "grant")
    /\ asked' = asked \cup {m \in Node \ {n} : seen[m] = 2}
    /\ row' = Updated([row EXCEPT !.version = version[n], !.pending = FALSE])
    /\ Goto(n, "endTrue")
    /\ UNCHANGED <<lock, seen, tables, snap, conn, slow, claimed, blind, procVars, roleVars,
                   faults>>

\* handle_upgrade() of another node: wait for the upgrading master, or take
\* over from a dead one.
HbUpgradeOther(n) ==
    /\ At(n, "act") /\ snap[n].pending /\ snap[n].master # n
    /\ \/ /\ IsNodeUpgrading(n, snap[n].master)
          /\ Goto(n, "endFalse") /\ UNCHANGED row
       \/ /\ ~IsNodeUpgrading(n, snap[n].master)
          /\ row' = Updated([row EXCEPT !.pending = FALSE])
          /\ Goto(n, "try")
    /\ UNCHANGED <<lock, seen, asked, tables, snap, conn, slow, claimed, blind, procVars,
                   roleVars, faults>>

\* (Variant: a no_master node steps down without removing its name.)
HbNoMaster_KeepsRow(n) ==
    /\ At(n, "act") /\ ~snap[n].pending /\ n \in NoMaster
    /\ IF snap[n].master = n THEN Release(n) ELSE UNCHANGED lock
    /\ Goto(n, "endFalse")
    /\ UNCHANGED <<row, seen, asked, tables, snap, conn, slow, claimed, blind, procVars,
                   roleVars, faults>>

\* A no_master node steps down if CLUSTER names it, else it waits.
HbNoMaster(n) ==
    /\ At(n, "act") /\ ~snap[n].pending /\ n \in NoMaster
    /\ IF snap[n].master = n
       THEN Release(n) /\ Goto(n, "delete")
       ELSE Goto(n, "endFalse") /\ UNCHANGED lock
    /\ UNCHANGED <<row, seen, asked, tables, snap, conn, slow, claimed, blind, procVars,
                   roleVars, faults>>

HbDelete(n) ==
    /\ At(n, "delete")
    /\ row' = NoRow
    /\ Goto(n, "endFalse")
    /\ UNCHANGED <<lock, seen, asked, tables, snap, conn, slow, claimed, blind, procVars,
                   roleVars, faults>>

Electable(n) == At(n, "act") /\ ~snap[n].pending /\ n \notin NoMaster
TakeoverPending(n) == snap[n].by \notin {None, n}

\* (Variant: the lock is released and the beat still returns True.)
HbHandOff_StillMaster(n) ==
    /\ Electable(n) /\ snap[n].master = n
    /\ TakeoverPending(n) /\ IsNodeAlive(n, snap[n].by)
    /\ Release(n)
    /\ Goto(n, "endTrue")
    /\ UNCHANGED <<row, seen, asked, tables, snap, conn, slow, claimed, blind, procVars,
                   roleVars, faults>>

\* (Variant: the master steps back and keeps the lock.)
HbHandOff_KeepsLock(n) ==
    /\ Electable(n) /\ snap[n].master = n
    /\ TakeoverPending(n) /\ IsNodeAlive(n, snap[n].by)
    /\ Goto(n, "endFalse")
    /\ UNCHANGED <<row, lock, seen, asked, tables, snap, conn, slow, claimed, blind, procVars,
                   roleVars, faults>>

\* The master hands the lock to a live node that asked for it ...
HbHandOff(n) ==
    /\ Electable(n) /\ snap[n].master = n
    /\ TakeoverPending(n) /\ IsNodeAlive(n, snap[n].by)
    /\ Release(n)
    /\ Goto(n, "endFalse")
    /\ UNCHANGED <<row, seen, asked, tables, snap, conn, slow, claimed, blind, procVars,
                   roleVars, faults>>

\* ... and forgets the request of a dead one.
HbIgnoreTakeover(n) ==
    /\ Electable(n) /\ snap[n].master = n
    /\ TakeoverPending(n) /\ ~IsNodeAlive(n, snap[n].by)
    /\ row' = Updated([row EXCEPT !.by = None])
    /\ Goto(n, "own")
    /\ UNCHANGED <<lock, seen, asked, tables, snap, conn, slow, claimed, blind, procVars,
                   roleVars, faults>>

\* (Variant: a master without the lock does not try to regain it.)
HbOwn_NoRegain(n) ==
    /\ \/ At(n, "own")
       \/ Electable(n) /\ snap[n].master = n /\ ~TakeoverPending(n)
    /\ IF Holds(n)
       THEN /\ IF snap[n].version # version[n]
               THEN Upgrade(n, TRUE)
               ELSE UNCHANGED <<row, halt>>
            /\ Goto(n, "endTrue")
       ELSE Goto(n, "endFalse") /\ UNCHANGED <<row, halt>>
    /\ UNCHANGED <<lock, seen, asked, tables, snap, conn, slow, claimed, blind, phase, version,
                   disk, roleVars, faults>>

\* The master confirms or regains the lock and compares the versions.
HbOwn(n) ==
    /\ \/ At(n, "own")
       \/ Electable(n) /\ snap[n].master = n /\ ~TakeoverPending(n)
    /\ \/ /\ ~Holds(n) /\ ~CanLock(n)
          /\ Goto(n, "endFalse")
          /\ UNCHANGED <<lock, row, halt>>
       \/ /\ \/ Holds(n) /\ UNCHANGED lock
             \/ ~Holds(n) /\ CanLock(n) /\ Acquire(n)
          /\ IF snap[n].version # version[n]
             THEN Upgrade(n, TRUE)
             ELSE UNCHANGED <<row, halt>>
          /\ Goto(n, "endTrue")
    /\ UNCHANGED <<seen, asked, tables, snap, conn, slow, claimed, blind, phase, version, disk,
                   roleVars, faults>>

\* (Variant: a takeover request also names the requester as the master.)
HbAgent_NamesItself(n) ==
    /\ Electable(n) /\ snap[n].master \notin {n, None}
    /\ snap[n].version <= version[n]
    /\ Release(n)
    /\ IF snap[n].by = n \/ n \in Preferred
       THEN Goto(n, "wait") /\ row' = [row EXCEPT !.by = n, !.master = n]
       ELSE /\ Goto(n, IF IsNodeAlive(n, snap[n].master) THEN "endFalse" ELSE "try")
            /\ UNCHANGED row
    /\ UNCHANGED <<seen, asked, tables, snap, conn, slow, claimed, blind, procVars, roleVars,
                   faults>>

\* Another node is named master: drop the lock, follow its version, ask for a
\* takeover, leave a live master alone or try to replace a dead one.
HbAgent(n) ==
    /\ Electable(n) /\ snap[n].master \notin {n, None}
    /\ Release(n)
    /\ \/ /\ snap[n].version > version[n]
          /\ Upgrade(n, FALSE) /\ Goto(n, "endFalse")
       \/ /\ snap[n].version <= version[n]
          /\ UNCHANGED halt
          /\ IF snap[n].by = n \/ n \in Preferred
             THEN /\ Goto(n, "wait")
                  /\ row' = IF row.master = None
                            THEN [master |-> n, by |-> n, version |-> version[n],
                                  pending |-> FALSE]
                            ELSE [row EXCEPT !.by = n]
             ELSE /\ Goto(n, IF IsNodeAlive(n, snap[n].master) THEN "endFalse" ELSE "try")
                  /\ UNCHANGED row
    /\ seen' = IF pc'[n] = "wait" THEN [seen EXCEPT ![n] = 2] ELSE seen
    /\ UNCHANGED <<asked, tables, snap, conn, slow, claimed, blind, phase, version, disk,
                   roleVars, faults>>

\* try_become_master(): without a master, or when the master looks dead.
HbTry(n) ==
    /\ \/ At(n, "try")
       \/ Electable(n) /\ snap[n].master = None
    /\ IF CanLock(n)
       THEN Acquire(n) /\ Goto(n, "claim")
       ELSE Goto(n, "endFalse") /\ UNCHANGED lock
    /\ UNCHANGED <<row, seen, asked, tables, snap, conn, slow, claimed, blind, procVars,
                   roleVars, faults>>

\* (Variant: the node does not wait until the lock is granted.)
HbWait_Impatient(n) ==
    /\ At(n, "wait") /\ lock.holder # Ghost
    /\ lock' = [holder |-> n, count |-> 1]
    /\ Goto(n, "claim")
    /\ UNCHANGED <<row, seen, asked, tables, snap, conn, slow, claimed, blind, procVars,
                   roleVars, faults>>

\* try_become_master(wait=True): pg_advisory_lock blocks until it is granted.
HbWait(n) ==
    /\ At(n, "wait") /\ lock.holder = None
    /\ Acquire(n) /\ Goto(n, "claim")
    /\ UNCHANGED <<row, seen, asked, tables, snap, conn, slow, claimed, blind, procVars,
                   roleVars, faults>>

\* try_become_master(): with the lock, the node names itself in CLUSTER.
HbClaim(n) ==
    /\ At(n, "claim")
    /\ row' = [master |-> n, by |-> None, version |-> version[n],
               pending |-> row.pending]
    /\ Goto(n, "endTrue")
    /\ UNCHANGED <<lock, seen, asked, tables, snap, conn, slow, claimed, blind, procVars,
                   roleVars, faults>>

Result(n) == pc[n] \in {"endTrue", "noTables"}
BeatDone(n) ==
    /\ pc' = [pc EXCEPT ![n] = "idle"]
    /\ snap' = [snap EXCEPT ![n] = NoRow]

\* The finally clause refreshes last_seen, if there is a table for it by now, and
\* the caller stores the result; the first beat, in _post_init, also decides which
\* services are started.
HbEnd(n) ==
    /\ phase[n] # "down" /\ pc[n] \in {"endTrue", "endFalse", "noTables"}
    /\ seen' = IF halt[n] = "no" /\ tables THEN [seen EXCEPT ![n] = 2] ELSE seen
    /\ blind' = IF pc[n] = "noTables" THEN blind \cup {n} ELSE blind \ {n}
    /\ claimed' = [claimed EXCEPT ![n] = Result(n)]
    /\ slow' = [slow EXCEPT ![n] = FALSE]
    /\ IF phase[n] = "starting"
       THEN /\ phase' = [phase EXCEPT ![n] = "running"]
            /\ master' = [master EXCEPT ![n] = Result(n) /\ halt[n] = "no"]
            /\ services' = [services EXCEPT ![n] = IF master'[n] THEN "master" ELSE "agent"]
       ELSE UNCHANGED <<phase, master, services>>
    /\ BeatDone(n)
    /\ UNCHANGED <<row, lock, asked, tables, halt, version, disk, conn, target, faults>>

\* heartbeat() during a shutdown repeats the committed role.
HbShutdown(n) ==
    /\ At(n, "idle") /\ phase[n] = "running" /\ halt[n] # "no"
    /\ claimed[n] # master[n]
    /\ claimed' = [claimed EXCEPT ![n] = master[n]]
    /\ slow' = [slow EXCEPT ![n] = FALSE]
    /\ UNCHANGED <<dbVars, procVars, roleVars, pc, snap, conn, blind, faults>>

-----------------------------------------------------------------------------
(* Main.run(): the services follow the claim.                              *)

\* update_db(), on a node that starts as the master: the tables are created.
CreateTables(n) ==
    /\ phase[n] = "running" /\ master[n] /\ ~tables
    /\ tables' = TRUE
    /\ UNCHANGED <<row, lock, seen, asked, beatVars, procVars, roleVars, faults>>

\* The main loop begins after it.
InMainLoop(n) == phase[n] = "running" /\ tables

SwitchBegin(n) ==
    /\ InMainLoop(n) /\ halt[n] = "no" /\ target[n] = "none"
    /\ claimed[n] # master[n]
    /\ target' = [target EXCEPT ![n] = IF claimed[n] THEN "master" ELSE "agent"]
    /\ UNCHANGED <<dbVars, beatVars, procVars, master, services, faults>>

\* The services have been stopped and started; commit_claimed_master() then
\* publishes the claim as it is now.
SwitchCommit(n) ==
    /\ phase[n] = "running" /\ target[n] # "none"
    /\ services' = [services EXCEPT ![n] = target[n]]
    /\ master' = [master EXCEPT ![n] = claimed[n]]
    /\ target' = [target EXCEPT ![n] = "none"]
    /\ UNCHANGED <<dbVars, beatVars, procVars, faults>>

\* Node.upgrade(): by the RPC of the master, or by the operator on the master.
UpgradeCall(n) ==
    /\ InMainLoop(n) /\ halt[n] = "no"
    /\ \/ n \in asked /\ UNCHANGED faults
       \/ /\ "upgrade" \in MayFail /\ faults < MaxFaults
          /\ master[n] /\ version[n] < Latest
          /\ faults' = faults + 1
    /\ asked' = asked \ {n}
    /\ Upgrade(n, master[n])
    /\ UNCHANGED <<lock, seen, tables, beatVars, phase, version, disk, roleVars>>

\* Starting and stopping a process takes far longer than the statements of a
\* beat: with PromptBeats they do not overlap another node's beat.
OthersBetweenBeats(n) ==
    PromptBeats => \A m \in Node \ {n} : pc[m] \in {"idle", "wait"}

\* Process start: the code on disk is loaded, old messages are cleared.
Start(n) ==
    /\ phase[n] = "down"
    /\ OthersBetweenBeats(n)
    /\ phase' = [phase EXCEPT ![n] = "starting"]
    /\ version' = [version EXCEPT ![n] = disk[n]]
    /\ asked' = asked \ {n}
    /\ UNCHANGED <<row, lock, seen, tables, halt, disk, beatVars, roleVars, faults>>

\* What a node process loses when it ends.
Gone(n) ==
    /\ phase' = [phase EXCEPT ![n] = "down"] /\ halt' = [halt EXCEPT ![n] = "no"]
    /\ claimed' = [claimed EXCEPT ![n] = FALSE]
    /\ slow' = [slow EXCEPT ![n] = FALSE] /\ conn' = [conn EXCEPT ![n] = "lost"]
    /\ blind' = blind \ {n}
    /\ master' = [master EXCEPT ![n] = FALSE]
    /\ target' = [target EXCEPT ![n] = "none"]
    /\ services' = [services EXCEPT ![n] = "agent"]
    /\ BeatDone(n)

\* The main loop has ended: unregister(), cancel heartbeat_loop, close_db();
\* with rc UPDATE, update.py installs the newest version.
Exit(n) ==
    /\ InMainLoop(n) /\ halt[n] # "no" /\ target[n] = "none"
    /\ OthersBetweenBeats(n)
    /\ seen' = IF master[n] /\ row.pending THEN seen ELSE [seen EXCEPT ![n] = 0]
    /\ lock' = IF Holds(n) THEN Free ELSE lock
    /\ disk' = IF halt[n] = "update"
               THEN [m \in Node |-> IF m = n \/ CloudDrive THEN Latest ELSE disk[m]]
               ELSE disk
    /\ Gone(n)
    /\ UNCHANGED <<row, asked, tables, version, faults>>

-----------------------------------------------------------------------------
(* The environment.                                                        *)

Fault(kind) ==
    /\ kind \in MayFail /\ faults < MaxFaults
    /\ faults' = faults + 1

\* A node process dies at any point; its database session lingers.
Crash(n) ==
    /\ phase[n] # "down" /\ Fault("crash")
    /\ lock' = Abandoned(n)
    /\ Gone(n)
    /\ UNCHANGED <<row, seen, asked, tables, version, disk>>

\* The sticky connection breaks between two beats.
SessionLost(n) ==
    /\ At(n, "idle") /\ conn[n] = "open" /\ Fault("session")
    /\ lock' = Abandoned(n)
    /\ conn' = [conn EXCEPT ![n] = "lost"]
    /\ UNCHANGED <<row, seen, asked, tables, procVars, roleVars, pc, snap, slow, claimed, blind>>

\* PostgreSQL notices that the client of a session is gone.
SessionReaped ==
    /\ lock.holder = Ghost
    /\ lock' = Free
    /\ UNCHANGED <<row, seen, asked, tables, beatVars, procVars, roleVars, faults>>

\* The connection pool times out, before the row is read or in the finally
\* clause: the claim stays as it is, and the second time the node restarts.
PoolTimeout(n) ==
    /\ phase[n] = "running" /\ pc[n] \in {"idle", "endTrue", "endFalse", "noTables"}
    /\ halt[n] = "no" /\ Fault("pool")
    /\ IF slow[n]
       THEN halt' = [halt EXCEPT ![n] = "restart"] /\ UNCHANGED slow
       ELSE slow' = [slow EXCEPT ![n] = TRUE] /\ UNCHANGED halt
    /\ conn' = [conn EXCEPT ![n] = "open"]
    /\ BeatDone(n)
    /\ UNCHANGED <<dbVars, claimed, blind, phase, version, disk, roleVars>>

\* Any other error of a beat, such as a broken connection: restart.
BeatFails(n) ==
    /\ phase[n] = "running" /\ pc[n] = "idle" /\ halt[n] = "no"
    /\ conn[n] = "lost"
    /\ halt' = [halt EXCEPT ![n] = "restart"]
    /\ UNCHANGED <<dbVars, beatVars, phase, version, disk, roleVars, faults>>

\* Time passes without a new last_seen: the node is down, or it is too slow.
Expire(n) ==
    /\ seen[n] > 0
    /\ \/ phase[n] = "down" /\ UNCHANGED faults
       \/ phase[n] # "down" /\ Fault("slow")
    /\ seen' = [seen EXCEPT ![n] = @ - 1]
    /\ UNCHANGED <<row, lock, asked, tables, beatVars, procVars, roleVars>>

-----------------------------------------------------------------------------
Beat(n) ==
    \/ HbRead(n) \/ HbNoTables(n) \/ HbUpgradeSelf(n) \/ HbGrant(n) \/ HbUpgradeOther(n)
    \/ HbNoMaster(n) \/ HbDelete(n) \/ HbHandOff(n) \/ HbIgnoreTakeover(n)
    \/ HbOwn(n) \/ HbAgent(n) \/ HbTry(n) \/ HbWait(n) \/ HbClaim(n)
    \/ HbEnd(n) \/ HbShutdown(n)

MainLoop(n) == SwitchBegin(n) \/ SwitchCommit(n) \/ Exit(n)

Next ==
    \/ \E n \in Node :
         \/ Beat(n) \/ CreateTables(n) \/ MainLoop(n) \/ UpgradeCall(n) \/ Start(n)
         \/ Crash(n) \/ SessionLost(n) \/ PoolTimeout(n) \/ BeatFails(n)
         \/ Expire(n)
    \/ SessionReaped

Spec == Init /\ [][Next]_vars

\* The event loop of a running node keeps beating and keeps its main loop
\* going, a stopped node is started again by the wrapper script, PostgreSQL
\* reaps dead sessions and the clock goes on.  Fairness is strong where
\* PromptBeats makes a step wait for the gap between two beats of the others.
Fairness ==
    /\ \A n \in Node : /\ SF_vars(Beat(n)) /\ SF_vars(MainLoop(n))
                       /\ WF_vars(CreateTables(n))
                       /\ WF_vars(UpgradeCall(n) /\ n \in asked)
                       /\ SF_vars(Start(n))
                       /\ WF_vars(phase[n] = "down" /\ Expire(n))
    /\ WF_vars(SessionReaped)

FairSpec == Spec /\ Fairness

-----------------------------------------------------------------------------
(* Properties.                                                             *)

\* A node between two beats whose last beat ended regularly.
Settled(n) ==
    /\ phase[n] = "running" /\ halt[n] = "no" /\ pc[n] = "idle"
    /\ conn[n] = "open" /\ ~slow[n]

\* The node believes in its mastership, and its last beat has seen CLUSTER.  On a
\* new database every node that starts claims the mastership without a look at the
\* lock, and keeps the claim until its next beat: that one is not an elected master.
ElectedMaster(n) == Settled(n) /\ claimed[n] /\ n \notin blind

\* An elected master has the lock: the claim is never out of date by more than the
\* beat that is under way.
ClaimNeedsLock == \A n \in Node : ElectedMaster(n) => Holds(n)

\* A node that stays an agent does not keep the lock, or nobody could become
\* master.
NoOrphanLock == \A n \in Node : Settled(n) /\ Holds(n) => claimed[n]

\* CLUSTER names a master, the first one or another one, only when that node holds
\* the lock; a takeover request is an "intent" signal and names nobody.  (Only where
\* there are no no_master nodes: when one has stepped down, the row is gone, and the
\* INSERT of request_takeover() does name the requester, without the lock.)
NamedUnderLock ==
    [][row'.master \notin {row.master, None} => Holds(row'.master)]_vars

\* The lock is the office and the elected masters believe in it.
Office == INSTANCE Leadership WITH
    owner <- IF lock.holder \in Node THEN lock.holder ELSE None,
    believers <- {n \in Node : ElectedMaster(n)}

\* The election implements Leadership: no direct succession, no second master.
LeadershipSpec == Office!Spec

\* In between faults there is always a master again, and it has the lock.
AlwaysMasterAgain == []<>(\E n \in Node : ElectedMaster(n) /\ Holds(n))

\* A pending upgrade is eventually carried out or called off.
UpgradeEnds == row.pending ~> ~row.pending

\* A no_master node that had to finish an upgrade gives the office back, and
\* somebody else gets it.
NoMasterStepsDown ==
    \A n \in NoMaster : claimed[n] ~> \E m \in Node \ NoMaster : claimed[m]

\* servicebus/README.md: "Whenever this node is online, it will be the master".
PreferredBecomesMaster ==
    \A n \in Preferred : []<>(phase[n] # "running" \/ claimed[n])

\* Without faults it becomes the master: the takeover request that it puts into CLUSTER
\* reaches the running master, which hands the lock over.
HealthyTakeover == [](faults = 0) => PreferredBecomesMaster

\* MULTINODE.md: "This node will never become a master".
NoMasterNeverClaims == \A n \in NoMaster : ~claimed[n]

\* commit_claimed_master(): the new role is published "atomically to the rest of
\* the process (services)": when no switch is under way they agree.
ServicesFollowRole ==
    \A n \in Node : phase[n] = "running" /\ target[n] = "none" =>
        services[n] = IF master[n] THEN "master" ELSE "agent"
=============================================================================
