----------------------------- MODULE EventQueue -----------------------------
(***************************************************************************)
(* How the events of one DCS server reach the plugins: the intake, the     *)
(* queues and the workers of services/servicebus/service.py, and the       *)
(* renaming of the server (core/data/impl/serverimpl.py, nodeimpl.py),     *)
(* which changes the name all three are keyed by.                          *)
(*                                                                         *)
(* The node is an agent or the master and the server is its own, or it is  *)
(* the master and the server is remote.  What a worker does with an event  *)
(* (run the listeners, at most 60 s, or forward it to the master) is one   *)
(* await.  The code between two awaits is one step.  The DCS process is    *)
(* external.                                                               *)
(***************************************************************************)
EXTENDS Naturals, Sequences, FiniteSets

CONSTANTS
    Name,        \* names the server may have
    None,        \* Python's None
    Remote,      \* subset of BOOLEAN: may the server be remote?
    May,         \* what may happen: "bad register", "conflict", "auto", "fail"
                 \* (of a rename), "unregister", "hasty" (renamed at any time)
    MaxEvents,   \* bound: events the server sends
    MaxRenames,  \* bound: renames
    MaxQueues    \* bound: queue objects, and workers, in use at a time

ASSUME EventQueueAssumption ==
    /\ Remote \subseteq BOOLEAN /\ None \notin Name
    /\ MaxEvents \in Nat /\ MaxRenames \in Nat /\ MaxQueues \in Nat \ {0}
    /\ None \notin 1..MaxQueues

VARIABLES
    remote,      \* server.is_remote
    servers,     \* the names under which the bus lists the server
    name,        \* server.name
    settings,    \* the name in serverSettings.lua
    dcs,         \* the name the DCS process uses, None if there is no process
    status,      \* server.status
    queue,       \* message_queue: the queue object of a name, or None
    content,     \* the events in a queue object
    unfinished,  \* its counter for task_done()
    worker,      \* process_messages() tasks
    renaming,    \* the new name of a rename that waits for the database
    sent,        \* events sent so far: they are numbered
    last,        \* the number of the last event that was handled
    renames

busVars == <<servers, queue, content, unfinished, worker>>
serverVars == <<remote, name, settings, dcs, status>>
vars == <<busVars, serverVars, renaming, sent, last, renames>>

Queue == 1..MaxQueues
Worker == 1..MaxQueues
Kind == {"register", "event", "poison"}
Event == [kind : Kind, no : 0..MaxEvents]
Poison == [kind |-> "poison", no |-> 0]
NoWorker == [pc |-> "none", name |-> None, on |-> None, event |-> Poison]
Loop(n) == [pc |-> "loop", name |-> n, on |-> None, event |-> Poison]
WorkerState ==
    {NoWorker} \cup {Loop(n) : n \in Name}
    \cup [pc : {"wait"}, name : Name, on : Queue, event : {Poison}]
    \cup [pc : {"register", "handle"}, name : Name, on : {None}, event : Event]

TypeOK ==
    /\ remote \in Remote
    /\ servers \subseteq Name /\ name \in Name /\ settings \in Name
    /\ dcs \in Name \cup {None} /\ status \in {"UNREGISTERED", "SHUTDOWN", "UP"}
    /\ queue \in [Name -> Queue \cup {None}]
    /\ content \in [Queue -> Seq(Event)] /\ unfinished \in [Queue -> Nat]
    /\ worker \in [Worker -> WorkerState]
    /\ renaming \in Name \cup {None}
    /\ sent \in 0..MaxEvents /\ last \in 0..MaxEvents /\ renames \in 0..MaxRenames

\* The bot starts while DCS is down or already runs; the bus lists the server.
Init ==
    /\ remote \in Remote
    /\ name \in Name /\ servers = {name} /\ settings = name
    /\ dcs \in {name, None} /\ status = "UNREGISTERED"
    /\ queue = [n \in Name |-> None]
    /\ content = [q \in Queue |-> <<>>] /\ unfinished = [q \in Queue |-> 0]
    /\ worker = [w \in Worker |-> NoWorker]
    /\ renaming = None /\ sent = 0 /\ last = 0 /\ renames = 0

-----------------------------------------------------------------------------
(* The bus as a value, for the steps that change it more than once.        *)

Bus == [servers |-> servers, queue |-> queue, content |-> content,
        unfinished |-> unfinished, worker |-> worker]
Becomes(b) ==
    /\ servers' = b.servers /\ queue' = b.queue /\ content' = b.content
    /\ unfinished' = b.unfinished /\ worker' = b.worker

\* Nothing refers to these.
FreeQueues(b) ==
    Queue \ ({b.queue[n] : n \in Name} \cup {b.worker[w].on : w \in Worker})
FreeWorkers(b) == {w \in Worker : b.worker[w] = NoWorker}
Room(b) == FreeQueues(b) # {} /\ FreeWorkers(b) # {}

\* put_nowait()
Put(b, n, e) ==
    [b EXCEPT !.content[b.queue[n]] = Append(@, e), !.unfinished[b.queue[n]] = @ + 1]

\* message_queue[n] = asyncio.Queue(); create_task(process_messages(n))
NewQueue(b, n) ==
    LET q == CHOOSE x \in FreeQueues(b) : TRUE
        w == CHOOSE x \in FreeWorkers(b) : TRUE IN
    [b EXCEPT !.queue[n] = q, !.content[q] = <<>>, !.unfinished[q] = 0,
              !.worker[w] = Loop(n)]

\* (Variant: every event starts a worker.)
Queued_MoreWorkers(b, n) ==
    IF b.queue[n] = None THEN NewQueue(b, n)
    ELSE IF FreeWorkers(b) = {} THEN b
    ELSE [b EXCEPT !.worker[CHOOSE x \in FreeWorkers(b) : TRUE] = Loop(n)]

\* The name has a queue afterwards.
Queued(b, n) == IF b.queue[n] = None THEN NewQueue(b, n) ELSE b

\* (Variant: the queue of the new name gets no worker.)
Renamed_NoWorker(b, old, new) ==
    LET c == [b EXCEPT !.servers = (@ \cup {new}) \ {old}] IN
    IF c.queue[old] = None THEN c
    ELSE [NewQueue(Put(c, old, Poison), new) EXCEPT !.worker = c.worker]

\* rename_server() of the bus; old is server.name.
Renamed(b, old, new) ==
    LET c == [b EXCEPT !.servers = (@ \cup {new}) \ {old}] IN
    IF c.queue[old] = None THEN c ELSE NewQueue(Put(c, old, Poison), new)

-----------------------------------------------------------------------------
(* Intake.                                                                 *)

\* _handle_raw_payload(): events of a server that is not listed are dropped.
Intake(kind) ==
    /\ ~remote /\ dcs # None /\ sent < MaxEvents
    /\ sent' = sent + 1
    /\ IF dcs \notin servers THEN UNCHANGED busVars
       ELSE /\ queue[dcs] = None => Room(Bus)
            /\ Becomes(Put(Queued(Bus, dcs), dcs, [kind |-> kind, no |-> sent + 1]))
    /\ UNCHANGED <<serverVars, renaming, last, renames>>

\* handle_master(): events from an agent need a queue.
IntakeRemote(kind) ==
    /\ remote /\ dcs # None /\ sent < MaxEvents
    /\ sent' = sent + 1
    /\ IF queue[dcs] = None THEN UNCHANGED busVars
       ELSE Becomes(Put(Bus, dcs, [kind |-> kind, no |-> sent + 1]))
    /\ UNCHANGED <<serverVars, renaming, last, renames>>

-----------------------------------------------------------------------------
(* process_messages().                                                     *)

Goto(w, pc, e) ==
    [worker EXCEPT ![w] = [pc |-> pc, name |-> @.name, on |-> None, event |-> e]]

\* The outer finally: the worker ends and takes the queue of its name along.
Dies(w) ==
    /\ worker' = [worker EXCEPT ![w] = NoWorker]
    /\ queue' = [queue EXCEPT ![worker[w].name] = None]

\* The inner finally: task_done() of the queue the name has now, which raises
\* an error if there is none or if it counts no unfinished event.
Finish(w) ==
    LET q == queue[worker[w].name] IN
    IF q # None /\ unfinished[q] > 0
    THEN /\ unfinished' = [unfinished EXCEPT ![q] = @ - 1]
         /\ worker' = [worker EXCEPT ![w] = Loop(worker[w].name)]
         /\ UNCHANGED queue
    ELSE Dies(w) /\ UNCHANGED unfinished

\* The queue of the name is looked up anew for every event.
WorkerLoops(w) ==
    /\ worker[w].pc = "loop"
    /\ IF queue[worker[w].name] = None THEN Dies(w)
       ELSE /\ worker' = [worker EXCEPT ![w].pc = "wait", ![w].on = queue[worker[w].name]]
            /\ UNCHANGED queue
    /\ UNCHANGED <<servers, content, unfinished, serverVars, renaming, sent, last, renames>>

\* The event is handed to the listeners, or forwarded to the master.
Handle(w, e) == worker' = Goto(w, "handle", e) /\ last' = e.no

\* An event is taken.  What is left of the queue is lost if the name is no
\* longer listed; a poison pill has no command: the error is logged.
WorkerTakes(w) ==
    /\ worker[w].pc = "wait" /\ content[worker[w].on] # <<>>
    /\ content' = [content EXCEPT ![worker[w].on] = Tail(@)]
    /\ LET e == Head(content[worker[w].on]) IN
       CASE worker[w].name \notin servers -> Dies(w) /\ UNCHANGED <<unfinished, last>>
         [] worker[w].name \in servers /\ e.kind = "register" /\ ~remote ->
              worker' = Goto(w, "register", e) /\ UNCHANGED <<queue, unfinished, last>>
         [] worker[w].name \in servers
              /\ (e.kind = "poison" \/ (e.kind = "event" /\ status = "UNREGISTERED")) ->
              Finish(w) /\ UNCHANGED last
         [] OTHER -> Handle(w, e) /\ UNCHANGED <<queue, unfinished>>
    /\ UNCHANGED <<servers, serverVars, renaming, sent, renames>>

\* register_server() has accepted the server.
Registers(w) ==
    /\ worker[w].pc = "register"
    /\ Handle(w, worker[w].event)
    /\ UNCHANGED <<servers, queue, content, unfinished, serverVars, renaming, sent, renames>>

\* (Variant: the worker ends without taking its queue along.)
RegisterFails_KeepsQueue(w) ==
    /\ worker[w].pc = "register"
    /\ \/ "bad register" \in May /\ UNCHANGED servers
       \/ "conflict" \in May /\ servers' = servers \ {worker[w].name}
    /\ worker' = [worker EXCEPT ![w] = NoWorker]
    /\ UNCHANGED <<queue, content, unfinished, serverVars, renaming, sent, last, renames>>

\* register_server() fails: wrong hook version or a port conflict, or the name
\* belongs to another server and is no longer listed.  The worker ends.
RegisterFails(w) ==
    /\ worker[w].pc = "register"
    /\ \/ "bad register" \in May /\ UNCHANGED servers
       \/ "conflict" \in May /\ servers' = servers \ {worker[w].name}
    /\ Dies(w)
    /\ UNCHANGED <<content, unfinished, serverVars, renaming, sent, last, renames>>

\* The database has another name for this port: server.rename() is called with
\* the name the server has already.
RegisterRenames(w) ==
    /\ worker[w].pc = "register" /\ "auto" \in May
    /\ queue[name] # None => Room(Bus)
    /\ LET b == Renamed(Bus, name, name) IN
       Becomes([b EXCEPT !.worker[w].pc = "handle"])
    /\ last' = worker[w].event.no
    /\ UNCHANGED <<serverVars, renaming, sent, renames>>

\* The listeners are done, or are cancelled after 60 s.  A registration ends
\* with the status the server reports.
Handled(w) ==
    /\ worker[w].pc = "handle"
    /\ status' = IF worker[w].event.kind = "register" THEN "UP" ELSE status
    /\ Finish(w)
    /\ UNCHANGED <<servers, content, remote, name, settings, dcs, renaming, sent, last, renames>>

-----------------------------------------------------------------------------
(* Renaming.                                                               *)

\* A server is renamed by people, after it has been shut down for a while.
Quiet ==
    /\ \A q \in Queue : (\E n \in Name : queue[n] = q) => content[q] = <<>>
    /\ \A w \in Worker : worker[w].pc \in {"none", "wait"} /\ worker[w].name \in {None, name}

\* ServerImpl.rename() up to the update of the database.
RenameBegins(new) ==
    /\ ~remote /\ renaming = None /\ renames < MaxRenames
    /\ status = "SHUTDOWN" /\ new # name
    /\ "hasty" \in May \/ Quiet
    /\ renaming' = new /\ renames' = renames + 1
    /\ UNCHANGED <<busVars, serverVars, sent, last>>

\* update_cluster(), update_config() and the extensions.
RenameSucceeds ==
    /\ renaming # None
    /\ queue[name] # None => Room(Bus)
    /\ Becomes(Renamed(Bus, name, renaming))
    /\ name' = renaming /\ settings' = renaming /\ renaming' = None
    /\ UNCHANGED <<remote, dcs, status, sent, last, renames>>

\* update_config() or an extension fails after update_cluster(): the rollback
\* renames the server back, but server.name is still the old name.
RenameFails ==
    /\ renaming # None /\ "fail" \in May
    /\ LET b == Renamed(Bus, name, renaming) IN
       /\ queue[name] # None => (Room(Bus) /\ Room(b))
       /\ Becomes(Renamed(b, name, name))
    /\ renaming' = None
    /\ UNCHANGED <<serverVars, sent, last, renames>>

\* NodeImpl.rename_server() on the master, called by the agent of the server.
RenameRemote(new) ==
    /\ remote /\ renames < MaxRenames /\ status = "SHUTDOWN" /\ new # name
    /\ "hasty" \in May \/ Quiet
    /\ queue[name] # None => Room(Bus)
    /\ Becomes(Renamed(Bus, name, new))
    /\ name' = new /\ settings' = new /\ renames' = renames + 1
    /\ UNCHANGED <<remote, dcs, status, renaming, sent, last>>

-----------------------------------------------------------------------------
(* The server and its node.                                                *)

\* The DCS process starts with the name in its settings.
DcsStarts ==
    /\ dcs = None /\ status = "SHUTDOWN" /\ ("hasty" \in May \/ renaming = None)
    /\ dcs' = settings /\ status' = "UP"
    /\ UNCHANGED <<busVars, remote, name, settings, renaming, sent, last, renames>>

\* DCS is shut down, or found to be down.
DcsStops ==
    /\ status # "SHUTDOWN"
    /\ dcs' = None /\ status' = "SHUTDOWN"
    /\ UNCHANGED <<busVars, remote, name, settings, renaming, sent, last, renames>>

\* unregister_remote_node()
UnregisterRemote ==
    /\ remote /\ name \in servers /\ "unregister" \in May
    /\ servers' = servers \ {name} /\ status' = "UNREGISTERED"
    /\ UNCHANGED <<queue, content, unfinished, worker, remote, name, settings, dcs,
                   renaming, sent, last, renames>>

\* init_remote_server(): the server is listed and has a queue.
InitRemote ==
    /\ remote /\ (name \notin servers \/ queue[name] = None)
    /\ queue[name] = None => Room(Bus)
    /\ Becomes(Queued([Bus EXCEPT !.servers = @ \cup {name}], name))
    /\ status' = IF dcs = None THEN "SHUTDOWN" ELSE "UP"
    /\ UNCHANGED <<remote, name, settings, dcs, renaming, sent, last, renames>>

-----------------------------------------------------------------------------
Work(w) ==
    \/ WorkerLoops(w) \/ WorkerTakes(w)
    \/ Registers(w) \/ RegisterFails(w) \/ RegisterRenames(w) \/ Handled(w)

Next ==
    \/ \E kind \in {"register", "event"} : Intake(kind) \/ IntakeRemote(kind)
    \/ \E w \in Worker : Work(w)
    \/ \E new \in Name : RenameBegins(new) \/ RenameRemote(new)
    \/ RenameSucceeds \/ RenameFails
    \/ DcsStarts \/ DcsStops \/ UnregisterRemote \/ InitRemote

Spec == Init /\ [][Next]_vars

\* The event loop runs its tasks.
FairSpec ==
    /\ Spec /\ WF_vars(RenameSucceeds)
    /\ \A w \in Worker : WF_vars(Work(w))

-----------------------------------------------------------------------------
(* Properties.                                                             *)

\* Events of the server are handled one at a time.
OneAtATime == Cardinality({w \in Worker : worker[w].pc \in {"register", "handle"}}) <= 1

\* A queue has a worker that looks after it.
QueueServed ==
    \A n \in Name : queue[n] # None =>
        \E w \in Worker : /\ worker[w].name = n
                          /\ worker[w].pc = "wait" => worker[w].on = queue[n]

\* No event is handled after one that was sent later.
HandledInOrder == [][last' >= last]_last

\* An event that is queued is taken from its queue, or its queue is dropped.
EventuallyTaken ==
    \A n \in Name : (queue[n] # None /\ content[queue[n]] # <<>>)
                        ~> (queue[n] = None \/ content[queue[n]] = <<>>)

\* The bus knows its own server by the name the server has.
ServerListed == ~remote => name \in servers
=============================================================================
