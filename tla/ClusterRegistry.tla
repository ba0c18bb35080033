--------------------------- MODULE ClusterRegistry ---------------------------
(***************************************************************************)
(* How the master knows its agents and their servers: all_nodes and        *)
(* suspect of core/data/impl/nodeimpl.py, servers of the service bus       *)
(* (services/servicebus/service.py).  Agents announce themselves by remote *)
(* calls, the master looks for silent nodes with every heartbeat.          *)
(*                                                                         *)
(* A node is known by a NodeProxy.  Each registration creates a new one    *)
(* and Node has no __eq__: the proxies of one agent are numbered, because  *)
(* the code compares them.  Each agent has one server.  The master's role  *)
(* does not change here; a crash of the master stands for every change of  *)
(* the master, after which the lists are empty.                            *)
(***************************************************************************)
EXTENDS Naturals, Sequences, FiniteSets, SequencesExt

CONSTANTS
    Agent,       \* the other nodes of the cluster
    Master,      \* the node that is the master
    None,        \* Python's None
    May,         \* what may happen: "crash", "master crash", "stop", "slow",
                 \* "slow master", and "quick": an agent that died is back before
                 \* its row of NODES gets old
    MaxProxies,  \* bound: proxies of one agent in use at a time
    MaxFaults    \* bound: crashes, shutdowns and slow heartbeats

ASSUME RegistryAssumption ==
    /\ Master \notin Agent
    /\ MaxProxies \in Nat \ {0} /\ None \notin 1..MaxProxies /\ MaxFaults \in Nat

VARIABLES
    up,        \* "down", "starting" or "up", for every node
    fresh,     \* nodes whose NODES.last_seen is not older than a heartbeat
    allNodes,  \* all_nodes of the master: proxy or None
    suspect,   \* suspect of the master: proxy, or None if absent
    server,    \* the node (a proxy) of the agent's server, if the bus lists it
    handlers,  \* register_remote_node() calls under way in the master
    check,     \* where check_nodes() stands
    busy,      \* register_local_servers() of an agent: "no", "init" or "dcs"
    toMaster,  \* remote calls on their way, in order per sender
    toAgent,
    faults

masterVars == <<allNodes, suspect, server, handlers, check>>
vars == <<up, fresh, masterVars, busy, toMaster, toAgent, faults>>

Proxy == 1..MaxProxies
Nodes == Agent \cup {Master}
Call == {"register", "unregister", "init"}
Order == {"switch", "register servers", "answer"}
Handler == [node : Agent, proxy : Proxy, pc : {"alive", "bot"}]
Idle == [pc |-> "idle", node |-> None, proxy |-> None, todo |-> {}]

TypeOK ==
    /\ up \in [Nodes -> {"down", "starting", "up"}] /\ fresh \subseteq Nodes
    /\ allNodes \in [Agent -> Proxy \cup {None}]
    /\ suspect \in [Agent -> Proxy \cup {None}]
    /\ server \in [Agent -> Proxy \cup {None}]
    /\ handlers \subseteq Handler
    /\ check \in {Idle} \cup
           [pc : {"alert"}, node : Agent, proxy : Proxy, todo : SUBSET Agent]
    /\ busy \in [Agent -> {"no", "init", "dcs"}]
    /\ toMaster \in [Agent -> Seq(Call)] /\ toAgent \in [Agent -> Seq(Order)]
    /\ faults \in 0..MaxFaults

Init ==
    /\ up = [n \in Nodes |-> "down"] /\ fresh = {}
    /\ allNodes = [a \in Agent |-> None] /\ suspect = allNodes /\ server = allNodes
    /\ handlers = {} /\ check = Idle
    /\ busy = [a \in Agent |-> "no"]
    /\ toMaster = [a \in Agent |-> <<>>] /\ toAgent = [a \in Agent |-> <<>>]
    /\ faults = 0

-----------------------------------------------------------------------------
Fault(kind) == kind \in May /\ faults < MaxFaults /\ faults' = faults + 1
Running(n) == up[n] # "down"

\* A proxy of a that nothing refers to.
Unused(a) ==
    Proxy \ ({allNodes[a], suspect[a], server[a]} \cup {h.proxy : h \in {g \in handlers : g.node = a}}
             \cup (IF check.node = a THEN {check.proxy} ELSE {}))

Tell(a, order) == toAgent' = [toAgent EXCEPT ![a] = Append(@, order)]
Ask(a, call) == toMaster' = [toMaster EXCEPT ![a] = Append(@, call)]

\* A handler of the master takes the next call of a.
Handle(a, call) ==
    /\ up[Master] = "up" /\ toMaster[a] # <<>> /\ Head(toMaster[a]) = call
    /\ toMaster' = [toMaster EXCEPT ![a] = Tail(@)]

-----------------------------------------------------------------------------
(* The master's side of a registration.                                    *)

\* register_remote_node(): a new proxy, then the database is asked.
Register(a) ==
    /\ Handle(a, "register")
    /\ \E p \in Unused(a) :
           /\ \A q \in Unused(a) : p <= q
           /\ handlers' = handlers \cup {[node |-> a, proxy |-> p, pc |-> "alive"]}
    /\ UNCHANGED <<up, fresh, allNodes, suspect, server, check, busy, toAgent, faults>>

\* is_alive(): the node is entered, then the bot is waited for.
RegisterAlive(h) ==
    /\ h \in handlers /\ h.pc = "alive"
    /\ IF h.node \in fresh
       THEN /\ allNodes' = [allNodes EXCEPT ![h.node] = h.proxy]
            /\ handlers' = (handlers \ {h}) \cup {[h EXCEPT !.pc = "bot"]}
       ELSE handlers' = handlers \ {h} /\ UNCHANGED allNodes
    /\ UNCHANGED <<up, fresh, suspect, server, check, busy, toMaster, toAgent, faults>>

\* register_remote_servers(): the agent shall register its servers.
RegisterServers(h) ==
    /\ h \in handlers /\ h.pc = "bot"
    /\ handlers' = handlers \ {h}
    /\ Tell(h.node, "register servers")
    /\ UNCHANGED <<up, fresh, allNodes, suspect, server, check, busy, toMaster, faults>>

\* init_remote_server(): the node is looked up in all_nodes; a server that is
\* listed already keeps the node it has.
InitServer(a) ==
    /\ Handle(a, "init")
    /\ server' = [server EXCEPT ![a] = IF @ = None THEN allNodes[a]
                                       ELSE @]
    /\ Tell(a, "answer")
    /\ UNCHANGED <<up, fresh, allNodes, suspect, handlers, check, busy, faults>>

\* What unregister_remote_node(node) leaves of the servers and the node.
WithoutNode(a, p) ==
    /\ server' = [server EXCEPT ![a] = IF @ = p THEN None ELSE @]
    /\ allNodes' = [allNodes EXCEPT ![a] = None]

\* unregister_remote_node() called by an agent that shuts down.
Unregister(a) ==
    /\ Handle(a, "unregister")
    /\ IF allNodes[a] = None THEN UNCHANGED <<server, allNodes>>
       ELSE WithoutNode(a, allNodes[a])
    /\ UNCHANGED <<up, fresh, suspect, handlers, check, busy, toAgent, faults>>

-----------------------------------------------------------------------------
(* check_nodes(), called by the heartbeat of the master.                   *)

\* (Variant: suspects are skipped.)
NextSilent_NoSuspects(todo) ==
    LET known == {a \in todo : allNodes[a] # None /\ suspect[a] = None} IN
    IF known = {}
    THEN check' = Idle /\ UNCHANGED <<allNodes, server>>
    ELSE \E a \in known :
           /\ check' = [pc |-> "alert", node |-> a, proxy |-> allNodes[a],
                        todo |-> todo \ {a}]
           /\ WithoutNode(a, allNodes[a])

\* The next node of todo that is registered is unregistered, then people are
\* alerted.  Nodes that are not registered are skipped.
NextSilent(todo) ==
    LET known == {a \in todo : allNodes[a] # None} IN
    IF known = {}
    THEN check' = Idle /\ UNCHANGED <<allNodes, server>>
    ELSE \E a \in known :
           /\ check' = [pc |-> "alert", node |-> a, proxy |-> allNodes[a],
                        todo |-> todo \ {a}]
           /\ WithoutNode(a, allNodes[a])

\* Suspects that are active again are entered with the proxy they had and asked
\* to register; nodes that are not active are unregistered one after the other.
CheckNodes ==
    /\ Running(Master) /\ check = Idle
    /\ LET back == {a \in Agent \cap fresh : suspect[a] # None} IN
       IF back # {}
       THEN /\ allNodes' = [a \in Agent |-> IF a \in back THEN suspect[a] ELSE allNodes[a]]
            /\ suspect' = [a \in Agent |-> IF a \in back THEN None ELSE suspect[a]]
            /\ toAgent' = [a \in Agent |-> IF a \in back
                                           THEN Append(toAgent[a], "register servers")
                                           ELSE toAgent[a]]
            /\ UNCHANGED <<server, check>>
       ELSE NextSilent(Agent \ fresh) /\ UNCHANGED <<suspect, toAgent>>
    /\ UNCHANGED <<up, fresh, handlers, busy, toMaster, faults>>

\* (Variant: a silent node is forgotten.)
Alerted_Forgets ==
    /\ check.pc = "alert"
    /\ NextSilent(check.todo)
    /\ UNCHANGED <<up, fresh, suspect, handlers, busy, toMaster, toAgent, faults>>

\* The alert is out: the node becomes a suspect, the next one is looked at.
Alerted ==
    /\ check.pc = "alert"
    /\ suspect' = [suspect EXCEPT ![check.node] = check.proxy]
    /\ NextSilent(check.todo)
    /\ UNCHANGED <<up, fresh, handlers, busy, toMaster, toAgent, faults>>

-----------------------------------------------------------------------------
(* The agent.                                                              *)

\* register_remote_node() is called if the master is active.
Announce(a) == IF Master \in fresh THEN Ask(a, "register") ELSE UNCHANGED toMaster

\* The first heartbeat; clear() drops what was sent to the agent before.
AgentStarts(a) ==
    /\ up[a] = "down" /\ ("quick" \in May \/ a \notin fresh)
    /\ up' = [up EXCEPT ![a] = "starting"] /\ fresh' = fresh \cup {a}
    /\ UNCHANGED <<masterVars, busy, toMaster, toAgent, faults>>

AgentClears(a) ==
    /\ up[a] = "starting"
    /\ up' = [up EXCEPT ![a] = "up"]
    /\ toAgent' = [toAgent EXCEPT ![a] = <<>>]
    /\ Announce(a)
    /\ UNCHANGED <<fresh, masterVars, busy, faults>>

\* switch(False), called by a new master.
AgentSwitches(a) ==
    /\ up[a] = "up" /\ toAgent[a] # <<>> /\ Head(toAgent[a]) = "switch"
    /\ toAgent' = [toAgent EXCEPT ![a] = Tail(@)]
    /\ Announce(a)
    /\ UNCHANGED <<up, fresh, masterVars, busy, faults>>

\* register_local_servers(): only one at a time; send_init() waits for an answer.
AgentRegistersServers(a) ==
    /\ up[a] = "up" /\ toAgent[a] # <<>> /\ Head(toAgent[a]) = "register servers"
    /\ toAgent' = [toAgent EXCEPT ![a] = Tail(@)]
    /\ IF busy[a] = "no"
       THEN Ask(a, "init") /\ busy' = [busy EXCEPT ![a] = "init"]
       ELSE UNCHANGED <<toMaster, busy>>
    /\ UNCHANGED <<up, fresh, masterVars, faults>>

\* The answer ends the wait of send_init(); an answer nobody waits for is ignored.
AgentIsAnswered(a) ==
    /\ up[a] = "up" /\ toAgent[a] # <<>> /\ Head(toAgent[a]) = "answer"
    /\ toAgent' = [toAgent EXCEPT ![a] = Tail(@)]
    /\ busy' = [busy EXCEPT ![a] = IF @ = "init" THEN "dcs" ELSE @]
    /\ UNCHANGED <<up, fresh, masterVars, toMaster, faults>>

\* After 60 s; the master cannot take that long unless it is down.
AgentIsNotAnswered(a) ==
    /\ up[a] = "up" /\ busy[a] = "init"
    /\ \/ up[Master] # "up"
       \/ ~Contains(toMaster[a], "init") /\ ~Contains(toAgent[a], "answer")
    /\ busy' = [busy EXCEPT ![a] = "no"]
    /\ UNCHANGED <<up, fresh, masterVars, toMaster, toAgent, faults>>

\* DCS has answered or not: register_local_servers() ends.
AgentDone(a) ==
    /\ busy[a] = "dcs"
    /\ busy' = [busy EXCEPT ![a] = "no"]
    /\ UNCHANGED <<up, fresh, masterVars, toMaster, toAgent, faults>>

-----------------------------------------------------------------------------
(* Processes, heartbeats and the clock.                                    *)

\* An agent shuts down: it says goodbye, its row of NODES is deleted.
AgentStops(a) ==
    /\ up[a] = "up" /\ Fault("stop")
    /\ up' = [up EXCEPT ![a] = "down"] /\ fresh' = fresh \ {a}
    /\ Ask(a, "unregister")
    /\ busy' = [busy EXCEPT ![a] = "no"]
    /\ UNCHANGED <<masterVars, toAgent>>

AgentCrashes(a) ==
    /\ Running(a) /\ Fault("crash")
    /\ up' = [up EXCEPT ![a] = "down"]
    /\ busy' = [busy EXCEPT ![a] = "no"]
    /\ UNCHANGED <<fresh, masterVars, toMaster, toAgent>>

\* clear() drops the calls that are older than 300 s: none of those that are
\* made while the master starts, all or none of those made before.
MasterStarts ==
    /\ up[Master] = "down"
    /\ up' = [up EXCEPT ![Master] = "starting"] /\ fresh' = fresh \cup {Master}
    /\ toMaster' \in {toMaster, [a \in Agent |-> <<>>]}
    /\ UNCHANGED <<masterVars, busy, toAgent, faults>>

\* (Variant: the master waits for the agents to call.)
MasterSwitches_Silent ==
    /\ up[Master] = "starting"
    /\ up' = [up EXCEPT ![Master] = "up"]
    /\ UNCHANGED <<fresh, masterVars, busy, toMaster, toAgent, faults>>

\* subscribe() begins, and switch(True) calls all active nodes.
MasterSwitches ==
    /\ up[Master] = "starting"
    /\ up' = [up EXCEPT ![Master] = "up"]
    /\ toAgent' = [a \in Agent |-> IF a \in fresh THEN Append(toAgent[a], "switch")
                                   ELSE toAgent[a]]
    /\ UNCHANGED <<fresh, masterVars, busy, toMaster, faults>>

MasterCrashes ==
    /\ Running(Master) /\ Fault("master crash")
    /\ up' = [up EXCEPT ![Master] = "down"]
    /\ allNodes' = [a \in Agent |-> None] /\ suspect' = allNodes' /\ server' = allNodes'
    /\ handlers' = {} /\ check' = Idle
    /\ UNCHANGED <<fresh, busy, toMaster, toAgent>>

\* The heartbeat writes last_seen.
Beat(n) ==
    /\ Running(n) /\ n \notin fresh
    /\ fresh' = fresh \cup {n}
    /\ UNCHANGED <<up, masterVars, busy, toMaster, toAgent, faults>>

\* A node has not been seen for a heartbeat: it is down, or slow.
Expire(n) ==
    /\ n \in fresh
    /\ fresh' = fresh \ {n}
    /\ IF Running(n) THEN Fault(IF n = Master THEN "slow master" ELSE "slow") ELSE UNCHANGED faults
    /\ UNCHANGED <<up, masterVars, busy, toMaster, toAgent>>

-----------------------------------------------------------------------------
Handlers == \E h \in handlers : RegisterAlive(h) \/ RegisterServers(h)
MasterCall(a) == Register(a) \/ InitServer(a) \/ Unregister(a)
AgentCall(a) ==
    \/ AgentSwitches(a) \/ AgentRegistersServers(a) \/ AgentIsAnswered(a)
    \/ AgentIsNotAnswered(a) \/ AgentDone(a)

Next ==
    \/ Handlers \/ CheckNodes \/ Alerted
    \/ MasterStarts \/ MasterSwitches \/ MasterCrashes
    \/ \E a \in Agent :
         \/ MasterCall(a) \/ AgentCall(a)
         \/ AgentStarts(a) \/ AgentClears(a) \/ AgentStops(a) \/ AgentCrashes(a)
    \/ \E n \in Nodes : Beat(n) \/ Expire(n)

Spec == Init /\ [][Next]_vars

\* Event loops run their tasks, heartbeats come round, start scripts start nodes
\* again, and time goes by for a node that is down.
Fairness ==
    /\ WF_vars(Handlers) /\ WF_vars(CheckNodes) /\ WF_vars(Alerted)
    /\ WF_vars(MasterStarts) /\ WF_vars(MasterSwitches)
    /\ \A a \in Agent :
         /\ WF_vars(MasterCall(a)) /\ WF_vars(AgentCall(a)) /\ WF_vars(AgentClears(a))
    /\ \A n \in Nodes : WF_vars(Beat(n)) /\ WF_vars(~Running(n) /\ Expire(n))

FairSpec == Spec /\ Fairness

-----------------------------------------------------------------------------
(* Properties.                                                             *)

\* unregister_remote_node() takes the servers of the node along: a server is
\* listed only while its node is registered.
NoOrphanServer == \A a \in Agent : allNodes[a] = None => server[a] = None

\* An agent whose heartbeats are always in time, as the master's are, and that
\* runs for good is registered in the end, and stays registered.
NodeRegistered ==
    \A a \in Agent :
        <>[](up[a] = "up") /\ [](\A n \in {a, Master} : Running(n) => n \in fresh)
            => <>[](allNodes[a] # None)

\* check_nodes() loses no node: one that is registered or a suspect when it and
\* the master have started for good, and that has not taken its leave, is
\* registered in the end, however slow its heartbeats were.
NeverLost ==
    \A a \in Agent :
        <>(/\ allNodes[a] # None \/ suspect[a] # None \/ check.node = a
           /\ ~Contains(toMaster[a], "unregister")
           /\ [](up[a] = "up" /\ up[Master] = "up"))
            => <>[](allNodes[a] # None)

\* A node that is gone for good is unregistered in the end.
NodeForgotten ==
    \A a \in Agent : <>[](up[a] = "down") => <>[](allNodes[a] = None)
=============================================================================
