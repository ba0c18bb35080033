-------------------------- MODULE EventQueue_proofs --------------------------
(***************************************************************************)
(* Proofs about EventQueue, for any names, events, renames and failures:   *)
(* types, and that a queue never lacks a worker; and, unless renames are   *)
(* "hasty", that events are handled one at a time and in their order.      *)
(***************************************************************************)
EXTENDS EventQueue, FiniteSetTheorems, TLAPS

BusType ==
    [servers : SUBSET Name, queue : [Name -> Queue \cup {None}],
     content : [Queue -> Seq(Event)], unfinished : [Queue -> Nat],
     worker : [Worker -> WorkerState]]

\* QueueServed for a bus as a value.
Looks(w, n, q) == w.name = n /\ (w.pc = "wait" => w.on = q)
Served(b) ==
    \A n \in Name : b.queue[n] # None =>
        \E w \in Worker : Looks(b.worker[w], n, b.queue[n])

\* The parts of TypeOK outside the bus.
RestOK ==
    /\ remote \in Remote /\ name \in Name /\ settings \in Name
    /\ dcs \in Name \cup {None} /\ status \in {"UNREGISTERED", "SHUTDOWN", "UP"}
    /\ renaming \in Name \cup {None}
    /\ sent \in 0..MaxEvents /\ last \in 0..MaxEvents /\ renames \in 0..MaxRenames

LEMMA Parts == TypeOK <=> (Bus \in BusType /\ RestOK)
BY SMTT(30) DEF TypeOK, Bus, BusType, RestOK

LEMMA ServedIsInvariant == QueueServed <=> Served(Bus)
BY DEF QueueServed, Served, Looks, Bus

LEMMA BusBecomes ==
    ASSUME NEW b \in BusType, Becomes(b)
    PROVE  Bus' = b
BY DEF Becomes, Bus, BusType

IInv == Bus \in BusType /\ RestOK /\ Served(Bus)

LEMMA PoisonType == Poison \in Event
BY EventQueueAssumption DEF Poison, Event, Kind

-----------------------------------------------------------------------------
(* The helpers.                                                            *)

LEMMA PutBus ==
    ASSUME NEW b \in BusType, Served(b), NEW n \in Name, b.queue[n] # None, NEW e \in Event
    PROVE  /\ Put(b, n, e) \in BusType /\ Served(Put(b, n, e))
           /\ Put(b, n, e).queue = b.queue /\ Put(b, n, e).worker = b.worker
<1>1. b.queue[n] \in Queue  BY DEF BusType
<1> DEFINE ct == [b.content EXCEPT ![b.queue[n]] = Append(@, e)]
           uf == [b.unfinished EXCEPT ![b.queue[n]] = @ + 1]
<1>2. /\ Put(b, n, e).queue = b.queue /\ Put(b, n, e).worker = b.worker
      /\ Put(b, n, e) \in BusType
  <2>1. ct \in [Queue -> Seq(Event)]  BY <1>1 DEF BusType
  <2>2. uf \in [Queue -> Nat]  BY <1>1 DEF BusType
  <2>3. Put(b, n, e) = [b EXCEPT !.content = ct, !.unfinished = uf]
    BY DEF Put, BusType
  <2> HIDE DEF ct, uf
  <2>4. /\ Put(b, n, e).queue = b.queue /\ Put(b, n, e).worker = b.worker
    BY <2>3 DEF BusType
  <2>5. Put(b, n, e) \in BusType
    BY <2>1, <2>2, <2>3 DEF BusType
  <2>. QED  BY <2>4, <2>5
<1>3. Served(Put(b, n, e))
  BY <1>2 DEF Served
<1>. QED  BY <1>2, <1>3

LEMMA FreeTypes ==
    ASSUME NEW b \in BusType, Room(b)
    PROVE  /\ (CHOOSE x \in FreeQueues(b) : TRUE) \in Queue
           /\ (CHOOSE x \in FreeWorkers(b) : TRUE) \in Worker
           /\ b.worker[CHOOSE x \in FreeWorkers(b) : TRUE] = NoWorker
<1>1. (CHOOSE x \in FreeQueues(b) : TRUE) \in FreeQueues(b)  BY DEF Room
<1>2. (CHOOSE x \in FreeWorkers(b) : TRUE) \in FreeWorkers(b)  BY DEF Room
<1>. QED  BY <1>1, <1>2 DEF FreeQueues, FreeWorkers

\* A new queue has a worker of its own, and only a free slot is used for it.
LEMMA NewQueueBus ==
    ASSUME NEW b \in BusType, Served(b), NEW n \in Name, Room(b)
    PROVE  /\ NewQueue(b, n) \in BusType /\ Served(NewQueue(b, n))
           /\ \A w \in Worker : b.worker[w] # NoWorker => NewQueue(b, n).worker[w] = b.worker[w]
           /\ NewQueue(b, n).queue[n] # None
<1> DEFINE q == CHOOSE x \in FreeQueues(b) : TRUE
           w == CHOOSE x \in FreeWorkers(b) : TRUE
           c == NewQueue(b, n)
<1>1. q \in Queue /\ w \in Worker /\ b.worker[w] = NoWorker  BY FreeTypes
<1>2. Loop(n) \in WorkerState  BY DEF WorkerState
<1> DEFINE qu == [b.queue EXCEPT ![n] = q]
           wo == [b.worker EXCEPT ![w] = Loop(n)]
           ct == [b.content EXCEPT ![q] = <<>>]
           uf == [b.unfinished EXCEPT ![q] = 0]
<1>a. c = [b EXCEPT !.queue = qu, !.content = ct, !.unfinished = uf, !.worker = wo]
  BY DEF NewQueue, BusType
<1> HIDE DEF q, w, c
<1>3. c.queue = qu /\ c.worker = wo
  <2> HIDE DEF qu, wo, ct, uf
  <2>. QED  BY <1>a DEF BusType
<1>4. c \in BusType
  <2>1. qu \in [Name -> Queue \cup {None}]  BY <1>1 DEF BusType
  <2>2. wo \in [Worker -> WorkerState]  BY <1>1, <1>2 DEF BusType
  <2>3. ct \in [Queue -> Seq(Event)]  BY <1>1 DEF BusType
  <2>4. uf \in [Queue -> Nat]  BY <1>1 DEF BusType
  <2> HIDE DEF qu, wo, ct, uf
  <2>. QED  BY <1>a, <2>1, <2>2, <2>3, <2>4 DEF BusType
<1>5. \A x \in Worker : b.worker[x] # NoWorker => c.worker[x] = b.worker[x]
  BY <1>1, <1>3 DEF BusType
<1>6. c.queue[n] # None
  BY <1>1, <1>3, EventQueueAssumption DEF BusType, Queue
<1>7. ASSUME NEW m \in Name, c.queue[m] # None
      PROVE  \E x \in Worker : Looks(c.worker[x], m, c.queue[m])
  <2>1. CASE m = n
    <3>1. c.worker[w] = Loop(n)  BY <1>1, <1>3 DEF BusType
    <3>2. Looks(c.worker[w], m, c.queue[m])  BY <2>1, <3>1 DEF Looks, Loop
    <3>. QED  BY <3>2, <1>1
  <2>2. CASE m # n
    <3>1. c.queue[m] = b.queue[m]  BY <2>2, <1>3 DEF BusType
    <3>2. PICK x \in Worker : Looks(b.worker[x], m, b.queue[m])
      BY <1>7, <3>1 DEF Served
    <3>3. b.worker[x] # NoWorker
      BY <3>2, EventQueueAssumption DEF Looks, NoWorker
    <3>. QED  BY <1>5, <3>1, <3>2, <3>3
  <2>. QED  BY <2>1, <2>2
<1>8. Served(c)  BY <1>7 DEF Served
<1>. QED  BY <1>4, <1>5, <1>6, <1>8 DEF c

LEMMA QueuedBus ==
    ASSUME NEW b \in BusType, Served(b), NEW n \in Name, b.queue[n] = None => Room(b)
    PROVE  Queued(b, n) \in BusType /\ Served(Queued(b, n)) /\ Queued(b, n).queue[n] # None
BY NewQueueBus DEF Queued

LEMMA RenamedBus ==
    ASSUME NEW b \in BusType, Served(b), NEW old \in Name, NEW new \in Name,
           b.queue[old] # None => Room(b)
    PROVE  /\ Renamed(b, old, new) \in BusType /\ Served(Renamed(b, old, new))
           /\ \A w \in Worker : b.worker[w] # NoWorker =>
                  Renamed(b, old, new).worker[w] = b.worker[w]
<1> DEFINE c == [b EXCEPT !.servers = (@ \cup {new}) \ {old}]
           d == Put(c, old, Poison)
<1>1. c \in BusType /\ c.queue = b.queue /\ c.worker = b.worker
  BY DEF BusType
<1>2. Served(c)  BY <1>1 DEF Served
<1>3. CASE c.queue[old] = None
  BY <1>1, <1>2, <1>3 DEF Renamed
<1>4. CASE c.queue[old] # None
  <2>1. d \in BusType /\ Served(d) /\ d.queue = c.queue /\ d.worker = c.worker
    BY <1>1, <1>2, <1>4, PutBus, PoisonType
  <2>2. Room(d)  BY <1>1, <1>4, <2>1 DEF Room, FreeQueues, FreeWorkers
  <2>3. Renamed(b, old, new) = NewQueue(d, new)  BY <1>4 DEF Renamed
  <2>4. /\ NewQueue(d, new) \in BusType /\ Served(NewQueue(d, new))
        /\ \A w \in Worker : d.worker[w] # NoWorker => NewQueue(d, new).worker[w] = d.worker[w]
    <3> HIDE DEF d
    <3>. QED  BY <2>1, <2>2, NewQueueBus
  <2>. QED  BY <1>1, <2>1, <2>3, <2>4
<1>. QED  BY <1>3, <1>4

-----------------------------------------------------------------------------
(* Steps of the intake and of the names.                                   *)

LEMMA IntakeIInv ==
    ASSUME IInv, NEW kind \in {"register", "event"}, Intake(kind)
    PROVE  IInv'
<1>1. sent + 1 \in 0..MaxEvents /\ RestOK'
  BY EventQueueAssumption DEF IInv, RestOK, Intake, serverVars
<1>2. CASE dcs \notin servers
  BY <1>1, <1>2 DEF IInv, Intake, busVars, Bus, Served
<1>3. CASE dcs \in servers
  <2>0. dcs \in Name  BY <1>3 DEF IInv, RestOK, Intake
  <2>1. [kind |-> kind, no |-> sent + 1] \in Event
    BY <1>1 DEF Event, Kind
  <2>2. /\ Queued(Bus, dcs) \in BusType /\ Served(Queued(Bus, dcs))
        /\ Queued(Bus, dcs).queue[dcs] # None
    <3>1. Bus.queue[dcs] = None => Room(Bus)  BY <1>3 DEF Intake, Bus
    <3>. QED  BY <2>0, <3>1, QueuedBus DEF IInv
  <2> DEFINE p == Put(Queued(Bus, dcs), dcs, [kind |-> kind, no |-> sent + 1])
  <2>3. p \in BusType /\ Served(p)  BY <2>0, <2>1, <2>2, PutBus
  <2>4. Bus' = p  BY <1>3, <2>3, BusBecomes DEF Intake
  <2>. QED  BY <1>1, <2>3, <2>4 DEF IInv, Served
<1>. QED  BY <1>2, <1>3

LEMMA IntakeRemoteIInv ==
    ASSUME IInv, NEW kind \in {"register", "event"}, IntakeRemote(kind)
    PROVE  IInv'
<1>1. sent + 1 \in 0..MaxEvents /\ RestOK'
  <2>1. sent + 1 \in 0..MaxEvents
    BY EventQueueAssumption DEF IInv, RestOK, IntakeRemote
  <2>. QED  BY <2>1 DEF IInv, RestOK, IntakeRemote, serverVars
<1>2. CASE queue[dcs] = None
  BY <1>1, <1>2 DEF IInv, IntakeRemote, busVars, Bus, Served
<1>3. CASE queue[dcs] # None
  <2>0. dcs \in Name  BY DEF IInv, RestOK, IntakeRemote
  <2>1. [kind |-> kind, no |-> sent + 1] \in Event
    BY <1>1 DEF Event, Kind
  <2> DEFINE p == Put(Bus, dcs, [kind |-> kind, no |-> sent + 1])
  <2>2. Bus.queue[dcs] # None  BY <1>3 DEF Bus
  <2>3. p \in BusType /\ Served(p)  BY <2>0, <2>1, <2>2, PutBus DEF IInv
  <2>4. Bus' = p  BY <1>3, <2>3, BusBecomes DEF IntakeRemote
  <2>. QED  BY <1>1, <2>3, <2>4 DEF IInv, Served
<1>. QED  BY <1>2, <1>3

LEMMA RenameIInv ==
    ASSUME IInv, NEW new \in Name, NEW how \in BOOLEAN,
           queue[name] # None => Room(Bus), Becomes(Renamed(Bus, name, new)), RestOK'
    PROVE  IInv'
<1>1. name \in Name /\ (Bus.queue[name] # None => Room(Bus))
  BY DEF IInv, RestOK, Bus
<1>2. Renamed(Bus, name, new) \in BusType /\ Served(Renamed(Bus, name, new))
  BY <1>1, RenamedBus DEF IInv
<1>3. Bus' = Renamed(Bus, name, new)  BY <1>2, BusBecomes
<1>. QED  BY <1>2, <1>3 DEF IInv, Served

LEMMA RenameSucceedsIInv ==
    ASSUME IInv, RenameSucceeds
    PROVE  IInv'
<1>1. renaming \in Name  BY DEF IInv, RestOK, RenameSucceeds
<1>2. RestOK'  BY <1>1 DEF IInv, RestOK, RenameSucceeds
<1>. QED  BY <1>1, <1>2, RenameIInv DEF RenameSucceeds

LEMMA RenameRemoteIInv ==
    ASSUME IInv, NEW new \in Name, RenameRemote(new)
    PROVE  IInv'
<1>0. renames + 1 \in 0..MaxRenames
  BY EventQueueAssumption DEF IInv, RestOK, RenameRemote
<1>1. RestOK'  BY <1>0 DEF IInv, RestOK, RenameRemote
<1>. QED  BY <1>1, RenameIInv DEF RenameRemote

LEMMA RenameFailsIInv ==
    ASSUME IInv, RenameFails
    PROVE  IInv'
<1> DEFINE b == Renamed(Bus, name, renaming)
<1>1. renaming \in Name /\ name \in Name  BY DEF IInv, RestOK, RenameFails
<1>2. RestOK'  BY DEF IInv, RestOK, RenameFails, serverVars
<1>3. /\ queue[name] # None => (Room(Bus) /\ Room(b))
      /\ Becomes(Renamed(b, name, name))
  BY DEF RenameFails
<1>4. Bus.queue[name] # None => Room(Bus)  BY <1>3 DEF Bus
<1>5. b \in BusType /\ Served(b)  BY <1>1, <1>4, RenamedBus DEF IInv
<1>6. b.queue[name] # None => Room(b)
  <2>1. CASE queue[name] = None
    <3>1. b = [Bus EXCEPT !.servers = (@ \cup {renaming}) \ {name}]
      BY <2>1 DEF Renamed, Bus
    <3>2. b.queue[name] = None  BY <2>1, <3>1 DEF Bus
    <3>. QED  BY <3>2
  <2>. QED  BY <1>3, <2>1
<1> HIDE DEF b
<1>7. Renamed(b, name, name) \in BusType /\ Served(Renamed(b, name, name))
  BY <1>1, <1>5, <1>6, RenamedBus
<1>8. Bus' = Renamed(b, name, name)  BY <1>3, <1>7, BusBecomes
<1>. QED  BY <1>2, <1>7, <1>8 DEF IInv, Served

\* Steps that leave the queues and the workers alone.
LEMMA QuietIInv ==
    ASSUME IInv, RestOK', servers' \in SUBSET Name,
           UNCHANGED <<queue, content, unfinished, worker>>
    PROVE  IInv'
<1>1. Bus' \in BusType  BY DEF IInv, Bus, BusType
<1>2. Served(Bus)'  BY DEF IInv, Bus, Served
<1>. QED  BY <1>1, <1>2 DEF IInv

LEMMA ServerIInv ==
    ASSUME IInv, \/ \E new \in Name : RenameBegins(new)
                 \/ DcsStarts \/ DcsStops \/ UnregisterRemote
    PROVE  IInv'
<1>1. servers \in SUBSET Name  BY DEF IInv, Bus, BusType
<1>2. RestOK'
  BY EventQueueAssumption
  DEF IInv, RestOK, RenameBegins, DcsStarts, DcsStops, UnregisterRemote, serverVars
<1>3. servers' \in SUBSET Name /\ UNCHANGED <<queue, content, unfinished, worker>>
  BY <1>1 DEF RenameBegins, DcsStarts, DcsStops, UnregisterRemote, busVars
<1>. QED  BY <1>2, <1>3, QuietIInv

LEMMA InitRemoteIInv ==
    ASSUME IInv, InitRemote
    PROVE  IInv'
<1> DEFINE c == [Bus EXCEPT !.servers = @ \cup {name}]
<1>1. name \in Name /\ RestOK'  BY DEF IInv, RestOK, InitRemote
<1>2. c \in BusType /\ c.queue = queue /\ c.worker = worker
  BY <1>1 DEF IInv, Bus, BusType
<1>3. Served(c)  BY <1>2 DEF IInv, Served, Bus
<1>4. c.queue[name] = None => Room(c)
  BY <1>2 DEF InitRemote, Room, FreeQueues, FreeWorkers, Bus
<1> HIDE DEF c
<1>5. Queued(c, name) \in BusType /\ Served(Queued(c, name))
  BY <1>1, <1>2, <1>3, <1>4, QueuedBus
<1>6. Bus' = Queued(c, name)  BY <1>5, BusBecomes DEF InitRemote, c
<1>. QED  BY <1>1, <1>5, <1>6 DEF IInv, Served

-----------------------------------------------------------------------------
(* Steps of a worker.                                                      *)

\* One worker changes, and at most the queue of its own name is dropped.
LEMMA WorkerServed ==
    ASSUME IInv, NEW w \in Worker, NEW s \in WorkerState,
           worker[w].name \in Name,
           worker' = [worker EXCEPT ![w] = s],
           \/ queue' = [queue EXCEPT ![worker[w].name] = None]
           \/ UNCHANGED queue /\ Looks(s, worker[w].name, queue[worker[w].name])
    PROVE  /\ worker' \in [Worker -> WorkerState]
           /\ queue' \in [Name -> Queue \cup {None}]
           /\ Served(Bus)'
<1>1. worker \in [Worker -> WorkerState] /\ queue \in [Name -> Queue \cup {None}]
  BY DEF IInv, Bus, BusType
<1>2. worker' \in [Worker -> WorkerState] /\ queue' \in [Name -> Queue \cup {None}]
  BY <1>1
<1>3. \A n \in Name : queue[n] # None => \E x \in Worker : Looks(worker[x], n, queue[n])
  BY DEF IInv, Served, Bus
<1>4. ASSUME NEW n \in Name, queue'[n] # None
      PROVE  \E x \in Worker : Looks(worker'[x], n, queue'[n])
  <2>0. queue'[n] = queue[n]  BY <1>1, <1>4
  <2>1. CASE n = worker[w].name
    <3>1. Looks(s, worker[w].name, queue[worker[w].name])
      BY <1>1, <1>4, <2>1
    <3>. QED  BY <1>1, <2>0, <2>1, <3>1
  <2>2. CASE n # worker[w].name
    <3>1. PICK x \in Worker : Looks(worker[x], n, queue[n])  BY <1>3, <1>4, <2>0
    <3>2. x # w  BY <2>2, <3>1 DEF Looks
    <3>. QED  BY <1>1, <2>0, <3>1, <3>2
  <2>. QED  BY <2>1, <2>2
<1>. QED  BY <1>2, <1>4 DEF Served, Bus

LEMMA WorkerIInv ==
    ASSUME IInv, RestOK', servers' \in SUBSET Name,
           content' \in [Queue -> Seq(Event)], unfinished' \in [Queue -> Nat],
           worker' \in [Worker -> WorkerState], queue' \in [Name -> Queue \cup {None}],
           Served(Bus)'
    PROVE  IInv'
BY DEF IInv, Bus, BusType

\* What a worker that is not a free slot looks like.
LEMMA WorkerFacts ==
    ASSUME IInv, NEW w \in Worker, worker[w].pc # "none"
    PROVE  /\ worker[w].name \in Name /\ worker[w].event \in Event
           /\ worker[w].pc = "wait" => worker[w].on \in Queue
           /\ worker[w] # NoWorker
<1>1. worker[w] \in WorkerState  BY DEF IInv, Bus, BusType
<1>. QED  BY <1>1, PoisonType DEF WorkerState, NoWorker, Loop

LEMMA StatesOfWorker ==
    ASSUME NEW n \in Name, NEW q \in Queue, NEW e \in Event
    PROVE  /\ NoWorker \in WorkerState /\ Loop(n) \in WorkerState
           /\ [pc |-> "wait", name |-> n, on |-> q, event |-> Poison] \in WorkerState
           /\ [pc |-> "register", name |-> n, on |-> None, event |-> e] \in WorkerState
           /\ [pc |-> "handle", name |-> n, on |-> None, event |-> e] \in WorkerState
BY DEF WorkerState

LEMMA DiesServed ==
    ASSUME IInv, NEW w \in Worker, worker[w].pc # "none", Dies(w)
    PROVE  /\ worker' \in [Worker -> WorkerState]
           /\ queue' \in [Name -> Queue \cup {None}] /\ Served(Bus)'
<1>1. NoWorker \in WorkerState  BY DEF WorkerState
<1>. QED  BY <1>1, WorkerFacts, WorkerServed DEF Dies

LEMMA FinishServed ==
    ASSUME IInv, NEW w \in Worker, worker[w].pc # "none", Finish(w)
    PROVE  /\ worker' \in [Worker -> WorkerState]
           /\ queue' \in [Name -> Queue \cup {None}] /\ Served(Bus)'
           /\ unfinished' \in [Queue -> Nat]
<1>0. unfinished \in [Queue -> Nat] /\ queue \in [Name -> Queue \cup {None}]
  BY DEF IInv, Bus, BusType
<1>1. worker[w].name \in Name  BY WorkerFacts
<1>2. CASE queue[worker[w].name] # None /\ unfinished[queue[worker[w].name]] > 0
  <2>1. Loop(worker[w].name) \in WorkerState  BY <1>1 DEF WorkerState
  <2>2. Looks(Loop(worker[w].name), worker[w].name, queue[worker[w].name])
    BY DEF Looks, Loop
  <2>3. worker' = [worker EXCEPT ![w] = Loop(worker[w].name)] /\ UNCHANGED queue
    BY <1>2 DEF Finish
  <2>4. unfinished' \in [Queue -> Nat]
    <3>1. queue[worker[w].name] \in Queue  BY <1>0, <1>1, <1>2
    <3>2. unfinished' = [unfinished EXCEPT ![queue[worker[w].name]] = @ - 1]
      BY <1>2 DEF Finish
    <3>3. unfinished[queue[worker[w].name]] - 1 \in Nat  BY <1>0, <1>2, <3>1
    <3>. QED  BY <1>0, <3>1, <3>2, <3>3
  <2>. QED  BY <1>1, <2>1, <2>2, <2>3, <2>4, WorkerServed
<1>3. CASE ~(queue[worker[w].name] # None /\ unfinished[queue[worker[w].name]] > 0)
  BY <1>0, <1>3, DiesServed DEF Finish
<1>. QED  BY <1>2, <1>3

\* A worker goes on with an event.
LEMMA GotoServed ==
    ASSUME IInv, NEW w \in Worker, worker[w].pc # "none", NEW e \in Event,
           NEW pc \in {"register", "handle"}, worker' = Goto(w, pc, e), UNCHANGED queue
    PROVE  /\ worker' \in [Worker -> WorkerState]
           /\ queue' \in [Name -> Queue \cup {None}] /\ Served(Bus)'
<1> DEFINE s == [pc |-> pc, name |-> worker[w].name, on |-> None, event |-> e]
<1>1. worker[w].name \in Name  BY WorkerFacts
<1>2. worker[w] \in WorkerState /\ worker \in [Worker -> WorkerState]
  BY DEF IInv, Bus, BusType
<1>3. worker' = [worker EXCEPT ![w] = s]  BY <1>2 DEF Goto
<1>4. s \in WorkerState  BY <1>1 DEF WorkerState
<1>5. Looks(s, worker[w].name, queue[worker[w].name])  BY DEF Looks
<1>. QED  BY <1>1, <1>3, <1>4, <1>5, WorkerServed

LEMMA LoopsIInv ==
    ASSUME IInv, NEW w \in Worker, WorkerLoops(w)
    PROVE  IInv'
<1>0. worker[w].pc # "none"  BY DEF WorkerLoops
<1>1. RestOK' /\ servers' \in SUBSET Name
  BY DEF IInv, RestOK, WorkerLoops, serverVars, Bus, BusType
<1>2. content' \in [Queue -> Seq(Event)] /\ unfinished' \in [Queue -> Nat]
  BY DEF IInv, WorkerLoops, Bus, BusType
<1>3. CASE queue[worker[w].name] = None
  BY <1>0, <1>1, <1>2, <1>3, DiesServed, WorkerIInv DEF WorkerLoops
<1>4. CASE queue[worker[w].name] # None
  <2> DEFINE s == [pc |-> "wait", name |-> worker[w].name,
                   on |-> queue[worker[w].name], event |-> Poison]
  <2>1. worker[w] \in WorkerState /\ worker \in [Worker -> WorkerState]
        /\ queue \in [Name -> Queue \cup {None}]
    BY DEF IInv, Bus, BusType
  <2>2. worker[w].name \in Name  BY <1>0, WorkerFacts
  <2>3. worker' = [worker EXCEPT ![w] = s] /\ UNCHANGED queue
    BY <1>4, <2>1 DEF WorkerLoops, WorkerState, NoWorker, Loop
  <2>4. s \in WorkerState  BY <1>4, <2>1, <2>2 DEF WorkerState
  <2>5. Looks(s, worker[w].name, queue[worker[w].name])  BY DEF Looks
  <2>. QED  BY <1>1, <1>2, <2>2, <2>3, <2>4, <2>5, WorkerServed, WorkerIInv
<1>. QED  BY <1>3, <1>4

LEMMA TakesIInv ==
    ASSUME IInv, NEW w \in Worker, WorkerTakes(w)
    PROVE  IInv'
<1> DEFINE q == worker[w].on
           e == Head(content[q])
<1>0. worker[w].pc # "none" /\ q \in Queue /\ content[q] # <<>>
  BY WorkerFacts DEF WorkerTakes
<1>1. content \in [Queue -> Seq(Event)] /\ unfinished \in [Queue -> Nat]
      /\ servers \in SUBSET Name
  BY DEF IInv, Bus, BusType
<1>2. e \in Event /\ content' \in [Queue -> Seq(Event)]
  BY <1>0, <1>1 DEF WorkerTakes
<1>3. e.no \in 0..MaxEvents  BY <1>2 DEF Event
<1>4. servers' \in SUBSET Name  BY <1>1 DEF WorkerTakes
<1>5. last' \in 0..MaxEvents => RestOK'
  BY DEF IInv, RestOK, WorkerTakes, serverVars
<1>6. last \in 0..MaxEvents  BY DEF IInv, RestOK
<1>7. \/ Dies(w) /\ UNCHANGED <<unfinished, last>>
      \/ worker' = Goto(w, "register", e) /\ UNCHANGED <<queue, unfinished, last>>
      \/ Finish(w) /\ UNCHANGED last
      \/ Handle(w, e) /\ UNCHANGED <<queue, unfinished>>
  BY DEF WorkerTakes
<1> HIDE DEF e
<1>8. CASE Dies(w) /\ UNCHANGED <<unfinished, last>>
  BY <1>0, <1>1, <1>2, <1>4, <1>5, <1>6, <1>8, DiesServed, WorkerIInv
<1>9. CASE worker' = Goto(w, "register", e) /\ UNCHANGED <<queue, unfinished, last>>
  BY <1>0, <1>1, <1>2, <1>4, <1>5, <1>6, <1>9, GotoServed, WorkerIInv
<1>10. CASE Finish(w) /\ UNCHANGED last
  BY <1>0, <1>2, <1>4, <1>5, <1>6, <1>10, FinishServed, WorkerIInv
<1>11. CASE Handle(w, e) /\ UNCHANGED <<queue, unfinished>>
  BY <1>0, <1>1, <1>2, <1>3, <1>4, <1>5, <1>11, GotoServed, WorkerIInv DEF Handle
<1>. QED  BY <1>7, <1>8, <1>9, <1>10, <1>11

LEMMA RegistersIInv ==
    ASSUME IInv, NEW w \in Worker, Registers(w)
    PROVE  IInv'
<1>0. worker[w].pc # "none"  BY DEF Registers
<1>1. worker[w].event \in Event  BY <1>0, WorkerFacts
<1>2. worker[w].event.no \in 0..MaxEvents  BY <1>1 DEF Event
<1>3. RestOK'  BY <1>2 DEF IInv, RestOK, Registers, Handle, serverVars
<1>4. /\ servers' \in SUBSET Name /\ content' \in [Queue -> Seq(Event)]
      /\ unfinished' \in [Queue -> Nat]
  BY DEF IInv, Registers, Bus, BusType
<1>. QED  BY <1>0, <1>1, <1>3, <1>4, GotoServed, WorkerIInv DEF Registers, Handle

LEMMA RegisterFailsIInv ==
    ASSUME IInv, NEW w \in Worker, RegisterFails(w)
    PROVE  IInv'
<1>0. worker[w].pc # "none"  BY DEF RegisterFails
<1>1. RestOK'  BY DEF IInv, RestOK, RegisterFails, serverVars
<1>2. /\ servers' \in SUBSET Name /\ content' \in [Queue -> Seq(Event)]
      /\ unfinished' \in [Queue -> Nat]
  BY DEF IInv, RegisterFails, Bus, BusType
<1>. QED  BY <1>0, <1>1, <1>2, DiesServed, WorkerIInv DEF RegisterFails

LEMMA RegisterRenamesIInv ==
    ASSUME IInv, NEW w \in Worker, RegisterRenames(w)
    PROVE  IInv'
<1> DEFINE b == Renamed(Bus, name, name)
           c == [b EXCEPT !.worker[w].pc = "handle"]
           s == [pc |-> "handle", name |-> worker[w].name, on |-> None,
                 event |-> worker[w].event]
<1>0. worker[w].pc = "register" /\ worker[w] # NoWorker
      /\ worker[w].event \in Event /\ worker[w].name \in Name
  BY WorkerFacts DEF RegisterRenames
<1>1. name \in Name /\ (Bus.queue[name] # None => Room(Bus))
  BY DEF IInv, RestOK, RegisterRenames, Bus
<1>2. b \in BusType /\ Served(b) /\ b.worker[w] = worker[w]
  BY <1>0, <1>1, RenamedBus DEF IInv, Bus
<1>3. worker[w].event.no \in 0..MaxEvents  BY <1>0 DEF Event
<1>4. RestOK'  BY <1>3 DEF IInv, RestOK, RegisterRenames, serverVars
<1>5. Becomes(c)  BY DEF RegisterRenames
<1> HIDE DEF b
<1>6. worker[w] \in WorkerState  BY DEF IInv, Bus, BusType
<1>7. c = [b EXCEPT !.worker = [b.worker EXCEPT ![w] = s]]
  <2>1. [worker[w] EXCEPT !.pc = "handle"] = s
    BY <1>0, <1>6 DEF WorkerState, NoWorker, Loop
  <2>2. c = [b EXCEPT !.worker = [b.worker EXCEPT ![w] = [b.worker[w] EXCEPT !.pc = "handle"]]]
    BY <1>2 DEF BusType
  <2>. QED  BY <1>2, <2>1, <2>2
<1>8. s \in WorkerState  BY <1>0 DEF WorkerState
<1> HIDE DEF c, s
<1>a. c.worker = [b.worker EXCEPT ![w] = s] /\ c.queue = b.queue
  BY <1>2, <1>7 DEF BusType
<1>9. c \in BusType
  <2>1. [b.worker EXCEPT ![w] = s] \in [Worker -> WorkerState]
    BY <1>2, <1>8 DEF BusType
  <2>. QED  BY <1>2, <1>7, <2>1 DEF BusType
<1>10. Served(c)
  <2> SUFFICES ASSUME NEW n \in Name, c.queue[n] # None
               PROVE  \E x \in Worker : Looks(c.worker[x], n, c.queue[n])
    BY DEF Served
  <2>1. PICK x \in Worker : Looks(b.worker[x], n, b.queue[n])
    BY <1>2, <1>a DEF Served
  <2>2. CASE x = w
    <3>1. c.worker[w] = s  BY <1>2, <1>a DEF BusType
    <3>2. Looks(s, n, c.queue[n])
      BY <1>2, <2>1, <2>2 DEF Looks, s
    <3>. QED  BY <3>1, <3>2
  <2>3. CASE x # w
    BY <1>2, <1>a, <2>1, <2>3 DEF BusType
  <2>. QED  BY <2>2, <2>3
<1>11. Bus' = c  BY <1>5, <1>9, BusBecomes
<1>. QED  BY <1>4, <1>9, <1>10, <1>11 DEF IInv, Served

LEMMA HandledIInv ==
    ASSUME IInv, NEW w \in Worker, Handled(w)
    PROVE  IInv'
<1>0. worker[w].pc # "none"  BY DEF Handled
<1>1. RestOK'  BY DEF IInv, RestOK, Handled
<1>2. servers' \in SUBSET Name /\ content' \in [Queue -> Seq(Event)]
  BY DEF IInv, Handled, Bus, BusType
<1>. QED  BY <1>0, <1>1, <1>2, FinishServed, WorkerIInv DEF Handled

-----------------------------------------------------------------------------
LEMMA InitIInv == Init => IInv
<1> SUFFICES ASSUME Init PROVE IInv
  OBVIOUS
<1>1. RestOK  BY EventQueueAssumption DEF Init, RestOK
<1>2. Bus \in BusType
  BY DEF Init, Bus, BusType, WorkerState
<1>3. Served(Bus)  BY DEF Init, Served, Bus
<1>. QED  BY <1>1, <1>2, <1>3 DEF IInv

LEMMA NextIInv == IInv /\ [Next]_vars => IInv'
<1> SUFFICES ASSUME IInv, [Next]_vars PROVE IInv'
  OBVIOUS
<1>1. CASE UNCHANGED vars
  BY <1>1 DEF vars, busVars, serverVars, IInv, RestOK, Served, Bus
<1>2. ASSUME NEW w \in Worker, Work(w)
      PROVE  IInv'
  BY <1>2, LoopsIInv, TakesIInv, RegistersIInv, RegisterFailsIInv, RegisterRenamesIInv,
     HandledIInv DEF Work
<1>. QED
  BY <1>1, <1>2, IntakeIInv, IntakeRemoteIInv, RenameSucceedsIInv, RenameRemoteIInv,
     RenameFailsIInv, ServerIInv, InitRemoteIInv DEF Next

LEMMA Invariant == Spec => []IInv
<1>1. Init => IInv  BY InitIInv
<1>2. IInv /\ [Next]_vars => IInv'  BY NextIInv
<1>. QED  BY <1>1, <1>2, PTL DEF Spec

\* The variables keep their types: task_done() never makes a counter negative.
THEOREM TypeCorrect == Spec => []TypeOK
<1>1. IInv => TypeOK  BY Parts DEF IInv
<1>. QED  BY <1>1, Invariant, PTL

\* Whatever is renamed and whatever fails, a queue has a worker that looks after it.
THEOREM QueuesServed == Spec => []QueueServed
<1>1. IInv => QueueServed  BY ServedIsInvariant DEF IInv
<1>. QED  BY <1>1, Invariant, PTL


-----------------------------------------------------------------------------
(* One event at a time, in the order of the server: if a server is renamed *)
(* only when it has been shut down for a while.                            *)

Busy(s) == s.pc \in {"register", "handle"}
Real(e) == e.kind # "poison"
HasReal(s) == \E i \in 1..Len(s) : Real(s[i])

\* The numbers of the events in a queue grow, from above low to at most high.
Sorted(s, low, high) ==
    \A i \in 1..Len(s) : Real(s[i]) =>
        /\ s[i].no > low /\ s[i].no <= high
        /\ \A j \in 1..Len(s) : i < j /\ Real(s[j]) => s[i].no < s[j].no

\* Below, b is a bus, nm the name of the server, and r says if the server is remote.
\* A live bus takes events of the server.
Live(b, nm, r) == r \/ nm \in b.servers
OfServer(b, nm, w) == b.worker[w].pc # "none" /\ b.worker[w].name = nm

\* No two names share a queue, and who waits at a queue has its name.
OwnQueues(b) ==
    /\ \A n, m \in Name : b.queue[n] # None /\ b.queue[n] = b.queue[m] => n = m
    /\ \A w \in Worker, n \in Name :
          b.worker[w].pc = "wait" /\ b.worker[w].on = b.queue[n] => b.worker[w].name = n

\* At most one worker has an event, one of the server.
OneBusy(b, nm, r) ==
    /\ \A w, x \in Worker : Busy(b.worker[w]) /\ Busy(b.worker[x]) => w = x
    /\ \A w \in Worker : /\ Busy(b.worker[w]) => b.worker[w].name = nm
                         /\ b.worker[w].pc = "register" => ~r

\* While the bus is live, the server has at most one worker, which looks after its queue.
OneWorker(b, nm, r) ==
    Live(b, nm, r) =>
        \A w \in Worker : OfServer(b, nm, w) =>
            /\ \A x \in Worker : OfServer(b, nm, x) => x = w
            /\ b.queue[nm] # None
            /\ b.worker[w].pc = "wait" => b.worker[w].on = b.queue[nm]

\* Events, apart from poison, are only in the queue of the server, and only while the
\* bus is live; other queues that hold some are in nobody's hands.
RealEvents(b, nm, r) ==
    \A q \in Queue : HasReal(b.content[q]) =>
        /\ \A n \in Name : b.queue[n] = q => Live(b, nm, r) /\ n = nm
        /\ \A w \in Worker : b.worker[w].pc = "wait" /\ b.worker[w].on = q =>
              Live(b, nm, r) /\ b.worker[w].name = nm

\* The events of the server are queued in their order, after the one that is being
\* registered and after the last one handled.
InOrder(b, nm, low, high) ==
    /\ low <= high
    /\ b.queue[nm] # None => Sorted(b.content[b.queue[nm]], low, high)
    /\ \A w \in Worker : b.worker[w].pc = "register" =>
          /\ b.worker[w].event.no \in low..high
          /\ b.queue[nm] # None => Sorted(b.content[b.queue[nm]], b.worker[w].event.no, high)

BusInv(b, nm, r, low, high) ==
    /\ OwnQueues(b) /\ OneBusy(b, nm, r) /\ OneWorker(b, nm, r) /\ RealEvents(b, nm, r)
    /\ InOrder(b, nm, low, high)

\* The server is known by one name, and is renamed while it is quiet.
NamesAgree ==
    /\ settings = name /\ dcs \in {None, name} /\ (status = "SHUTDOWN" => dcs = None)
    /\ renaming # None => ~remote /\ status = "SHUTDOWN" /\ Quiet /\ renaming # name

OrderInv == NamesAgree /\ BusInv(Bus, name, remote, last, sent)

-----------------------------------------------------------------------------
(* What the helpers of the bus do to it.                                   *)

LEMMA PutIs ==
    ASSUME NEW b \in BusType, NEW n \in Name, b.queue[n] # None, NEW e \in Event
    PROVE  /\ Put(b, n, e).servers = b.servers /\ Put(b, n, e).queue = b.queue
           /\ Put(b, n, e).worker = b.worker
           /\ Put(b, n, e).content = [b.content EXCEPT ![b.queue[n]] = Append(@, e)]
<1> DEFINE ct == [b.content EXCEPT ![b.queue[n]] = Append(@, e)]
           uf == [b.unfinished EXCEPT ![b.queue[n]] = @ + 1]
<1>1. Put(b, n, e) = [b EXCEPT !.content = ct, !.unfinished = uf]
  BY DEF Put, BusType
<1> HIDE DEF ct, uf
<1>2. Put(b, n, e).content = ct /\ Put(b, n, e).queue = b.queue
      /\ Put(b, n, e).worker = b.worker /\ Put(b, n, e).servers = b.servers
  BY <1>1 DEF BusType
<1> QED  BY <1>2 DEF ct

\* A new queue and its worker are ones nobody uses.
LEMMA NewQueueIs ==
    ASSUME NEW b \in BusType, NEW n \in Name, Room(b)
    PROVE  \E q \in Queue, w \in Worker :
              /\ \A m \in Name : b.queue[m] # q
              /\ \A x \in Worker : b.worker[x].on # q
              /\ b.worker[w] = NoWorker
              /\ NewQueue(b, n).servers = b.servers
              /\ NewQueue(b, n).queue = [b.queue EXCEPT ![n] = q]
              /\ NewQueue(b, n).worker = [b.worker EXCEPT ![w] = Loop(n)]
              /\ NewQueue(b, n).content = [b.content EXCEPT ![q] = <<>>]
<1> DEFINE q == CHOOSE x \in FreeQueues(b) : TRUE
           w == CHOOSE x \in FreeWorkers(b) : TRUE
<1>1. q \in FreeQueues(b) /\ w \in FreeWorkers(b)
  BY DEF Room
<1>2. /\ q \in Queue /\ w \in Worker /\ b.worker[w] = NoWorker
      /\ \A m \in Name : b.queue[m] # q
      /\ \A x \in Worker : b.worker[x].on # q
  <2> HIDE DEF q, w
  <2> QED  BY <1>1 DEF FreeQueues, FreeWorkers
<1> DEFINE qu == [b.queue EXCEPT ![n] = q]
           wo == [b.worker EXCEPT ![w] = Loop(n)]
           ct == [b.content EXCEPT ![q] = <<>>]
           uf == [b.unfinished EXCEPT ![q] = 0]
<1>3. NewQueue(b, n) = [b EXCEPT !.queue = qu, !.content = ct, !.unfinished = uf, !.worker = wo]
  BY DEF NewQueue, BusType
<1>4. /\ NewQueue(b, n).servers = b.servers /\ NewQueue(b, n).queue = qu
      /\ NewQueue(b, n).worker = wo /\ NewQueue(b, n).content = ct
  <2> HIDE DEF qu, wo, ct, uf
  <2> QED  BY <1>3 DEF BusType
<1> HIDE DEF q, w
<1> QED  BY <1>2, <1>4
-----------------------------------------------------------------------------
(* The helpers keep the order.                                             *)

LEMMA EventNumbers ==
    ASSUME NEW s \in Seq(Event), NEW i \in 1..Len(s)
    PROVE  s[i] \in Event /\ s[i].no \in Nat
<1>1. s[i] \in Event
  OBVIOUS
<1>2. \A e \in Event : e.no \in Nat
  BY DEF Event
<1> QED  BY <1>1, <1>2

LEMMA RealAppend ==
    ASSUME NEW s \in Seq(Event), NEW e \in Event
    PROVE  /\ ~Real(e) => (HasReal(Append(s, e)) <=> HasReal(s))
           /\ \A low, high : ~Real(e) /\ Sorted(s, low, high) => Sorted(Append(s, e), low, high)
<1>1. /\ Len(Append(s, e)) = Len(s) + 1 /\ Append(s, e)[Len(s) + 1] = e
      /\ \A i \in 1..Len(s) : Append(s, e)[i] = s[i]
      /\ Len(s) \in Nat
  OBVIOUS
<1>2. \A i \in 1..(Len(s) + 1) : i \in 1..Len(s) \/ i = Len(s) + 1
  BY <1>1
<1>3. ~Real(e) => (HasReal(Append(s, e)) <=> HasReal(s))
  BY <1>1, <1>2 DEF HasReal
<1>4. ASSUME NEW low, NEW high, ~Real(e), Sorted(s, low, high)
      PROVE  Sorted(Append(s, e), low, high)
  BY <1>1, <1>2, <1>4 DEF Sorted
<1> QED  BY <1>3, <1>4

\* The next event of the server has the highest number.
LEMMA SortedAppend ==
    ASSUME NEW s \in Seq(Event), NEW e \in Event, NEW low \in Nat, NEW high \in Nat,
           low <= high, e.no = high + 1, Sorted(s, low, high)
    PROVE  Sorted(Append(s, e), low, high + 1)
<1>1. /\ Len(Append(s, e)) = Len(s) + 1 /\ Append(s, e)[Len(s) + 1] = e
      /\ \A i \in 1..Len(s) : Append(s, e)[i] = s[i]
      /\ Len(s) \in Nat
  OBVIOUS
<1>3. \A i \in 1..Len(s) : s[i].no \in Nat
  BY EventNumbers
<1>2. \A i \in 1..(Len(s) + 1) : i \in 1..Len(s) \/ i = Len(s) + 1
  BY <1>1
<1> QED  BY <1>1, <1>2, <1>3 DEF Sorted

\* What is left of a queue is after the event that was taken.
LEMMA SortedTail ==
    ASSUME NEW s \in Seq(Event), s # <<>>
    PROVE  /\ HasReal(Tail(s)) => HasReal(s)
           /\ \A low, high : Sorted(s, low, high) => Sorted(Tail(s), low, high)
           /\ \A low, high : Sorted(s, low, high) /\ Real(Head(s)) =>
                 Sorted(Tail(s), Head(s).no, high) /\ Head(s).no > low /\ Head(s).no <= high
<1>1. /\ Len(s) \in Nat \ {0} /\ Head(s) = s[1] /\ Len(Tail(s)) = Len(s) - 1
      /\ \A i \in 1..(Len(s) - 1) : Tail(s)[i] = s[i + 1]
  OBVIOUS
<1>2. \A i \in 1..(Len(s) - 1) : i + 1 \in 1..Len(s) /\ 1 < i + 1
  BY <1>1
<1>3. HasReal(Tail(s)) => HasReal(s)
  BY <1>1, <1>2 DEF HasReal
<1>4. ASSUME NEW low, NEW high, Sorted(s, low, high)
      PROVE  Sorted(Tail(s), low, high)
  <2>1. \A i, j \in 1..(Len(s) - 1) : i < j => i + 1 < j + 1
    BY <1>1
  <2> QED  BY <1>1, <1>2, <1>4, <2>1 DEF Sorted
<1>5. ASSUME NEW low, NEW high, Sorted(s, low, high), Real(Head(s))
      PROVE  Sorted(Tail(s), Head(s).no, high) /\ Head(s).no > low /\ Head(s).no <= high
  <2>0. 1 \in 1..Len(s)
    BY <1>1
  <2>1. \A i \in 1..(Len(s) - 1) : Real(s[i + 1]) => s[1].no < s[i + 1].no
    BY <1>1, <1>2, <1>5, <2>0 DEF Sorted
  <2>2. \A i \in 1..Len(s) : s[i].no \in Nat
    BY EventNumbers
  <2>3. \A i \in 1..(Len(s) - 1) : Real(s[i + 1]) => s[i + 1].no > s[1].no
    BY <1>1, <1>2, <2>0, <2>1, <2>2
  <2> QED  BY <1>1, <1>2, <1>4, <1>5, <2>0, <2>3 DEF Sorted
<1> QED  BY <1>3, <1>4, <1>5

LEMMA EmptySorted ==
    ASSUME NEW low, NEW high
    PROVE  Sorted(<<>>, low, high) /\ ~HasReal(<<>>)
BY DEF Sorted, HasReal

LEMMA PutPoison ==
    ASSUME NEW b \in BusType, NEW n \in Name, b.queue[n] # None, NEW nm \in Name,
           NEW r, NEW low, NEW high, BusInv(b, nm, r, low, high)
    PROVE  BusInv(Put(b, n, Poison), nm, r, low, high)
<1> DEFINE c == Put(b, n, Poison)
<1>1. /\ c.servers = b.servers /\ c.queue = b.queue /\ c.worker = b.worker
      /\ c.content = [b.content EXCEPT ![b.queue[n]] = Append(@, Poison)]
  BY PutIs, PoisonType
<1> HIDE DEF c
<1>2. /\ \A q \in Queue : b.content[q] \in Seq(Event)
      /\ \A q \in Queue : c.content[q] = b.content[q] \/ c.content[q] = Append(b.content[q], Poison)
      /\ \A m \in Name : b.queue[m] # None => b.queue[m] \in Queue
  BY <1>1 DEF BusType
<1>3. \A q \in Queue : HasReal(c.content[q]) => HasReal(b.content[q])
  BY <1>2, PoisonType, RealAppend DEF Real, Poison
<1>4. \A q \in Queue : \A lo, hi : Sorted(b.content[q], lo, hi) => Sorted(c.content[q], lo, hi)
  BY <1>2, PoisonType, RealAppend DEF Real, Poison
<1>5. OwnQueues(c) /\ OneBusy(c, nm, r) /\ OneWorker(c, nm, r)
  BY <1>1 DEF BusInv, OwnQueues, OneBusy, OneWorker, Live, OfServer
<1>6. RealEvents(c, nm, r)
  BY <1>1, <1>3 DEF BusInv, RealEvents, Live
<1>7. InOrder(c, nm, low, high)
  BY <1>1, <1>2, <1>4 DEF BusInv, InOrder
<1> QED  BY <1>5, <1>6, <1>7 DEF BusInv, c

\* The next event of a server the bus is live for.
LEMMA PutEvent ==
    ASSUME NEW b \in BusType, NEW nm \in Name, b.queue[nm] # None, NEW e \in Event,
           NEW r, NEW low \in Nat, NEW high \in Nat, BusInv(b, nm, r, low, high),
           Live(b, nm, r), e.no = high + 1
    PROVE  BusInv(Put(b, nm, e), nm, r, low, high + 1)
<1> DEFINE c == Put(b, nm, e)
<1>1. /\ c.servers = b.servers /\ c.queue = b.queue /\ c.worker = b.worker
      /\ c.content = [b.content EXCEPT ![b.queue[nm]] = Append(@, e)]
  BY PutIs
<1> HIDE DEF c
<1>2. /\ b.queue[nm] \in Queue /\ b.content[b.queue[nm]] \in Seq(Event)
      /\ c.content[b.queue[nm]] = Append(b.content[b.queue[nm]], e)
      /\ \A q \in Queue : q # b.queue[nm] => c.content[q] = b.content[q]
  BY <1>1 DEF BusType
<1>3. OwnQueues(c) /\ OneBusy(c, nm, r) /\ OneWorker(c, nm, r)
  BY <1>1 DEF BusInv, OwnQueues, OneBusy, OneWorker, Live, OfServer
<1>4. RealEvents(c, nm, r)
  BY <1>1, <1>2 DEF BusInv, RealEvents, OwnQueues, Live
<1>5. InOrder(c, nm, low, high + 1)
  <2>0. /\ low <= high /\ Sorted(b.content[b.queue[nm]], low, high)
        /\ c.queue[nm] = b.queue[nm]
        /\ \A w \in Worker : c.worker[w] = b.worker[w]
    BY <1>1 DEF BusInv, InOrder
  <2>1. Sorted(c.content[c.queue[nm]], low, high + 1)
    <3> DEFINE s == b.content[b.queue[nm]]
    <3>1. s \in Seq(Event) /\ Sorted(s, low, high)
      BY <1>2, <2>0
    <3> HIDE DEF s
    <3>2. Sorted(Append(s, e), low, high + 1)
      BY <2>0, <3>1, SortedAppend
    <3> QED  BY <1>2, <2>0, <3>2 DEF s
  <2>2. ASSUME NEW w \in Worker, b.worker[w].pc = "register"
        PROVE  /\ b.worker[w].event.no \in low..(high + 1)
               /\ Sorted(c.content[c.queue[nm]], b.worker[w].event.no, high + 1)
    <3>1. b.worker[w].event.no \in low..high /\ b.worker[w].event.no \in Nat
      BY <2>2 DEF BusInv, InOrder
    <3>2. Sorted(b.content[b.queue[nm]], b.worker[w].event.no, high)
      BY <2>2 DEF BusInv, InOrder
    <3> DEFINE s == b.content[b.queue[nm]]
               no == b.worker[w].event.no
    <3>3. s \in Seq(Event) /\ Sorted(s, no, high) /\ no \in Nat /\ no <= high
      BY <1>2, <3>1, <3>2
    <3>4. no \in low..(high + 1)
      BY <3>1
    <3> HIDE DEF s, no
    <3>5. Sorted(Append(s, e), no, high + 1)
      BY <3>3, SortedAppend
    <3> QED  BY <1>2, <2>0, <3>4, <3>5 DEF s, no
  <2> QED  BY <2>0, <2>1, <2>2 DEF InOrder
<1> QED  BY <1>3, <1>4, <1>5 DEF BusInv, c

\* A new queue, for the server only if it has no worker.
LEMMA NewQueueKeeps ==
    ASSUME NEW b \in BusType, NEW n \in Name, Room(b), NEW nm \in Name,
           NEW r, NEW low, NEW high, BusInv(b, nm, r, low, high),
           n = nm /\ Live(b, nm, r) => \A w \in Worker : ~OfServer(b, nm, w)
    PROVE  BusInv(NewQueue(b, n), nm, r, low, high)
<1> DEFINE c == NewQueue(b, n)
<1>1. PICK q \in Queue, w \in Worker :
              /\ \A m \in Name : b.queue[m] # q
              /\ \A x \in Worker : b.worker[x].on # q
              /\ b.worker[w] = NoWorker
              /\ c.servers = b.servers
              /\ c.queue = [b.queue EXCEPT ![n] = q]
              /\ c.worker = [b.worker EXCEPT ![w] = Loop(n)]
              /\ c.content = [b.content EXCEPT ![q] = <<>>]
  BY NewQueueIs
<1> HIDE DEF c
<1>2. /\ c.queue[n] = q /\ \A m \in Name \ {n} : c.queue[m] = b.queue[m]
      /\ c.worker[w] = Loop(n) /\ \A x \in Worker \ {w} : c.worker[x] = b.worker[x]
      /\ c.content[q] = <<>> /\ \A p \in Queue \ {q} : c.content[p] = b.content[p]
      /\ \A m \in Name : b.queue[m] # None => b.queue[m] \in Queue
      /\ q # None
  BY <1>1, EventQueueAssumption DEF BusType, Queue
<1>3. c.worker[w].pc = "loop" /\ c.worker[w].name = n /\ b.worker[w].pc = "none"
  BY <1>1, <1>2 DEF Loop, NoWorker
<1>4. OwnQueues(c)
  BY <1>1, <1>2, <1>3 DEF BusInv, OwnQueues
<1>5. OneBusy(c, nm, r)
  BY <1>2, <1>3 DEF BusInv, OneBusy, Busy
<1>6. OneWorker(c, nm, r)
  BY <1>1, <1>2, <1>3 DEF BusInv, OneWorker, OfServer, Live
<1>7. RealEvents(c, nm, r)
  <2> SUFFICES ASSUME NEW p \in Queue, HasReal(c.content[p])
               PROVE  /\ \A m \in Name : c.queue[m] = p => Live(c, nm, r) /\ m = nm
                      /\ \A x \in Worker : c.worker[x].pc = "wait" /\ c.worker[x].on = p =>
                            Live(c, nm, r) /\ c.worker[x].name = nm
    BY DEF RealEvents
  <2>1. p # q /\ HasReal(b.content[p])
    BY <1>2, EmptySorted
  <2>2. Live(c, nm, r) <=> Live(b, nm, r)
    BY <1>1 DEF Live
  <2>3. /\ \A m \in Name : b.queue[m] = p => Live(b, nm, r) /\ m = nm
        /\ \A x \in Worker : b.worker[x].pc = "wait" /\ b.worker[x].on = p =>
              Live(b, nm, r) /\ b.worker[x].name = nm
    BY <2>1 DEF BusInv, RealEvents
  <2>4. \A m \in Name : c.queue[m] = p => Live(c, nm, r) /\ m = nm
    BY <1>2, <2>1, <2>2, <2>3
  <2>5. \A x \in Worker : c.worker[x].pc = "wait" /\ c.worker[x].on = p =>
           Live(c, nm, r) /\ c.worker[x].name = nm
    BY <1>2, <1>3, <2>2, <2>3
  <2> QED  BY <2>4, <2>5
<1>8. InOrder(c, nm, low, high)
  <2>1. \A x \in Worker : c.worker[x].pc = "register" => c.worker[x] = b.worker[x]
    BY <1>2, <1>3
  <2>2. CASE n = nm
    <3>1. c.content[c.queue[nm]] = <<>>
      BY <1>2, <2>2
    <3>2. \A lo, hi : Sorted(c.content[c.queue[nm]], lo, hi)
      BY <3>1, EmptySorted
    <3> QED  BY <2>1, <3>2 DEF BusInv, InOrder
  <2>3. CASE n # nm
    <3>1. c.queue[nm] = b.queue[nm]
      BY <1>2, <2>3
    <3>2. b.queue[nm] # None => c.content[b.queue[nm]] = b.content[b.queue[nm]]
      BY <1>1, <1>2
    <3> QED  BY <2>1, <3>1, <3>2 DEF BusInv, InOrder
  <2> QED  BY <2>2, <2>3
<1> QED  BY <1>4, <1>5, <1>6, <1>7, <1>8 DEF BusInv, c
-----------------------------------------------------------------------------
(* A worker keeps the order.                                               *)

LEMMA AliveIs ==
    ASSUME NEW b \in BusType, NEW w \in Worker, b.worker[w].pc # "none"
    PROVE  /\ b.worker[w].name \in Name
           /\ b.worker[w].pc = "wait" => b.worker[w].on \in Queue
<1>1. b.worker[w] \in WorkerState
  BY DEF BusType
<1> QED  BY <1>1 DEF WorkerState, NoWorker, Loop

\* An event is taken from a queue.
LEMMA TailKeeps ==
    ASSUME NEW b \in BusType, NEW c \in BusType, NEW q \in Queue, b.content[q] # <<>>,
           c.servers = b.servers, c.queue = b.queue, c.worker = b.worker,
           c.content = [b.content EXCEPT ![q] = Tail(@)],
           NEW nm \in Name, NEW r, NEW low, NEW high, BusInv(b, nm, r, low, high)
    PROVE  BusInv(c, nm, r, low, high)
<1>1. /\ b.content[q] \in Seq(Event) /\ c.content[q] = Tail(b.content[q])
      /\ \A p \in Queue : p # q => c.content[p] = b.content[p]
      /\ \A m \in Name : b.queue[m] # None => b.queue[m] \in Queue
  BY DEF BusType
<1>2. \A p \in Queue : HasReal(c.content[p]) => HasReal(b.content[p])
  BY <1>1, SortedTail
<1>3. \A p \in Queue : \A lo, hi : Sorted(b.content[p], lo, hi) => Sorted(c.content[p], lo, hi)
  BY <1>1, SortedTail
<1>4. OwnQueues(c) /\ OneBusy(c, nm, r) /\ OneWorker(c, nm, r)
  BY DEF BusInv, OwnQueues, OneBusy, OneWorker, Live, OfServer
<1>5. RealEvents(c, nm, r)
  BY <1>2 DEF BusInv, RealEvents, Live
<1>6. InOrder(c, nm, low, high)
  BY <1>1, <1>3 DEF BusInv, InOrder
<1> QED  BY <1>4, <1>5, <1>6 DEF BusInv

\* A worker ends and takes the queue of its name along.
LEMMA DiesKeeps ==
    ASSUME NEW b \in BusType, NEW c \in BusType, NEW w \in Worker, b.worker[w].pc # "none",
           c.servers = b.servers, c.content = b.content,
           c.worker = [b.worker EXCEPT ![w] = NoWorker],
           c.queue = [b.queue EXCEPT ![b.worker[w].name] = None],
           NEW nm \in Name, NEW r, NEW low, NEW high, BusInv(b, nm, r, low, high)
    PROVE  BusInv(c, nm, r, low, high)
<1> DEFINE n == b.worker[w].name
<1>1. /\ n \in Name /\ c.worker[w] = NoWorker
      /\ \A x \in Worker : x # w => c.worker[x] = b.worker[x]
      /\ c.queue[n] = None /\ \A m \in Name : m # n => c.queue[m] = b.queue[m]
  BY AliveIs DEF BusType
<1>2. NoWorker.pc = "none" /\ \A q \in Queue : q # None
  BY EventQueueAssumption DEF NoWorker, Queue
<1>3. \A x \in Worker : c.worker[x].pc # "none" => x # w /\ c.worker[x] = b.worker[x]
  BY <1>1, <1>2
<1>4. \A m \in Name : c.queue[m] # None => m # n /\ c.queue[m] = b.queue[m]
  BY <1>1
<1> HIDE DEF n
<1>5. OwnQueues(c)
  <2>1. ASSUME NEW x \in Worker, NEW m \in Name, c.worker[x].pc = "wait", c.worker[x].on = c.queue[m]
        PROVE  c.worker[x].name = m
    <3>1. c.worker[x] = b.worker[x] /\ b.worker[x].on \in Queue
      BY <1>3, <2>1, AliveIs
    <3>2. c.queue[m] = b.queue[m]
      BY <1>2, <1>4, <2>1, <3>1
    <3> QED  BY <2>1, <3>1, <3>2 DEF BusInv, OwnQueues
  <2> QED  BY <1>4, <2>1 DEF BusInv, OwnQueues
<1>6. OneBusy(c, nm, r)
  BY <1>3 DEF BusInv, OneBusy, Busy
<1>7. OneWorker(c, nm, r)
  BY <1>1, <1>3 DEF BusInv, OneWorker, OfServer, Live, n
<1>8. RealEvents(c, nm, r)
  BY <1>2, <1>3, <1>4 DEF BusInv, RealEvents, Live
<1>9. InOrder(c, nm, low, high)
  BY <1>3, <1>4 DEF BusInv, InOrder
<1> QED  BY <1>5, <1>6, <1>7, <1>8, <1>9 DEF BusInv

\* A worker goes on: it looks for the next event, waits for it at the queue of its name,
\* or has one, if nobody else has and it is one of the server.
LEMMA GoesKeeps ==
    ASSUME NEW b \in BusType, NEW c \in BusType, NEW w \in Worker, b.worker[w].pc # "none",
           c.servers = b.servers, c.content = b.content, c.queue = b.queue,
           NEW s, c.worker = [b.worker EXCEPT ![w] = s], s.name = b.worker[w].name,
           NEW nm \in Name, NEW r, NEW low, NEW high, BusInv(b, nm, r, low, high),
           \/ s.pc = "loop" /\ (s.name = nm => b.queue[nm] # None)
           \/ s.pc = "wait" /\ s.on = b.queue[s.name] /\ b.queue[s.name] # None
           \/ /\ s.pc \in {"register", "handle"} /\ s.name = nm
              /\ \A x \in Worker : Busy(b.worker[x]) => x = w
              /\ s.pc = "register" =>
                    /\ ~r /\ s.event.no \in low..high
                    /\ b.queue[nm] # None => Sorted(b.content[b.queue[nm]], s.event.no, high)
    PROVE  BusInv(c, nm, r, low, high)
<1>1. /\ b.worker[w].name \in Name /\ c.worker[w] = s
      /\ \A x \in Worker : x # w => c.worker[x] = b.worker[x]
  BY AliveIs DEF BusType
<1>2. OwnQueues(c)
  BY <1>1 DEF BusInv, OwnQueues
<1>3. OneBusy(c, nm, r)
  BY <1>1 DEF BusInv, OneBusy, Busy
<1>4. OneWorker(c, nm, r)
  BY <1>1 DEF BusInv, OneWorker, OfServer, Live
<1>5. RealEvents(c, nm, r)
  BY <1>1 DEF BusInv, RealEvents, OwnQueues, Live
<1>6. InOrder(c, nm, low, high)
  BY <1>1 DEF BusInv, InOrder
<1> QED  BY <1>2, <1>3, <1>4, <1>5, <1>6 DEF BusInv

\* The event that is handled now is the last one.
LEMMA LastKeeps ==
    ASSUME NEW b \in BusType, NEW nm \in Name, NEW r, NEW low, NEW high, NEW now \in low..high,
           BusInv(b, nm, r, low, high), \A w \in Worker : b.worker[w].pc # "register",
           b.queue[nm] # None => Sorted(b.content[b.queue[nm]], now, high)
    PROVE  BusInv(b, nm, r, now, high)
BY DEF BusInv, InOrder

-----------------------------------------------------------------------------
(* A rename keeps the order.                                               *)

\* The queue of the old name got poison and the new name a queue q with a worker w.
Replaced(b, c, old, new, q, w) ==
    /\ \A m \in Name : b.queue[m] # q
    /\ \A x \in Worker : b.worker[x].on # q
    /\ b.worker[w] = NoWorker
    /\ c.queue = [b.queue EXCEPT ![new] = q]
    /\ c.worker = [b.worker EXCEPT ![w] = Loop(new)]
    /\ c.content[q] = <<>>
    /\ c.content[b.queue[old]] = Append(b.content[b.queue[old]], Poison)
    /\ \A p \in Queue : p # q /\ p # b.queue[old] => c.content[p] = b.content[p]

LEMMA RenamedIs ==
    ASSUME NEW b \in BusType, NEW old \in Name, NEW new \in Name,
           b.queue[old] # None => Room(b)
    PROVE  /\ Renamed(b, old, new).servers = (b.servers \cup {new}) \ {old}
           /\ b.queue[old] = None =>
                 /\ Renamed(b, old, new).queue = b.queue
                 /\ Renamed(b, old, new).worker = b.worker
                 /\ Renamed(b, old, new).content = b.content
           /\ b.queue[old] # None =>
                 \E q \in Queue, w \in Worker : Replaced(b, Renamed(b, old, new), old, new, q, w)
<1> DEFINE c == [b EXCEPT !.servers = (@ \cup {new}) \ {old}]
           d == Put(c, old, Poison)
<1>1. /\ c \in BusType /\ c.queue = b.queue /\ c.worker = b.worker /\ c.content = b.content
      /\ c.servers = (b.servers \cup {new}) \ {old}
  BY DEF BusType
<1>2. CASE b.queue[old] = None
  BY <1>1, <1>2 DEF Renamed
<1>3. CASE b.queue[old] # None
  <2>1. Renamed(b, old, new) = NewQueue(d, new)
    BY <1>1, <1>3 DEF Renamed
  <2> HIDE DEF c
  <2>0. c \in BusType /\ c.queue[old] # None
    BY <1>1, <1>3
  <2>2. /\ d.servers = c.servers /\ d.queue = c.queue /\ d.worker = c.worker
        /\ d.content = [c.content EXCEPT ![c.queue[old]] = Append(@, Poison)]
    BY <2>0, PutIs, PoisonType
  <2>3. d \in BusType
    <3>1. Put(c, old, Poison) = [c EXCEPT !.content = d.content, !.unfinished = [c.unfinished EXCEPT ![c.queue[old]] = @ + 1]]
      BY <1>1, <2>2 DEF Put, BusType
    <3>2. c.queue[old] \in Queue
      BY <1>1, <1>3 DEF BusType
    <3>3. d.content \in [Queue -> Seq(Event)]
      BY <1>1, <2>2, <3>2, PoisonType DEF BusType
    <3>4. [c.unfinished EXCEPT ![c.queue[old]] = @ + 1] \in [Queue -> Nat]
      BY <1>1, <3>2 DEF BusType
    <3> HIDE DEF d
    <3> QED  BY <1>1, <3>1, <3>3, <3>4 DEF BusType, d
  <2>4. Room(d)
    BY <1>1, <1>3, <2>2 DEF Room, FreeQueues, FreeWorkers
  <2> HIDE DEF d
  <2>5. PICK q \in Queue, w \in Worker :
              /\ \A m \in Name : d.queue[m] # q
              /\ \A x \in Worker : d.worker[x].on # q
              /\ d.worker[w] = NoWorker
              /\ NewQueue(d, new).servers = d.servers
              /\ NewQueue(d, new).queue = [d.queue EXCEPT ![new] = q]
              /\ NewQueue(d, new).worker = [d.worker EXCEPT ![w] = Loop(new)]
              /\ NewQueue(d, new).content = [d.content EXCEPT ![q] = <<>>]
    BY <2>3, <2>4, NewQueueIs
  <2>6. NewQueue(d, new).content[q] = <<>>
        /\ \A p \in Queue : p # q => NewQueue(d, new).content[p] = d.content[p]
    BY <2>3, <2>5 DEF BusType
  <2>7. /\ b.queue[old] \in Queue /\ b.queue[old] # q
        /\ d.content[b.queue[old]] = Append(b.content[b.queue[old]], Poison)
        /\ \A p \in Queue : p # b.queue[old] => d.content[p] = b.content[p]
    BY <1>1, <1>3, <2>2, <2>5 DEF BusType
  <2>8. Replaced(b, NewQueue(d, new), old, new, q, w)
    <3>1. d.queue = b.queue /\ d.worker = b.worker
      BY <1>1, <2>2
    <3>2. \A p \in Queue : p # q /\ p # b.queue[old] => NewQueue(d, new).content[p] = b.content[p]
      BY <2>6, <2>7
    <3>3. NewQueue(d, new).content[b.queue[old]] = Append(b.content[b.queue[old]], Poison)
      BY <2>6, <2>7
    <3> QED  BY <2>5, <2>6, <3>1, <3>2, <3>3 DEF Replaced
  <2>9. NewQueue(d, new).servers = (b.servers \cup {new}) \ {old}
    BY <1>1, <2>2, <2>5
  <2> QED  BY <1>3, <2>1, <2>8, <2>9
<1> QED  BY <1>2, <1>3

\* Both were free, and the queue has no event.
NewWorker(b, c, new, q, w) ==
    /\ \A m \in Name : b.queue[m] # q
    /\ \A x \in Worker : b.worker[x].on # q
    /\ q # None /\ c.queue[new] = q /\ \A m \in Name \ {new} : c.queue[m] = b.queue[m]
    /\ b.worker[w].pc = "none" /\ c.worker[w].pc = "loop" /\ c.worker[w].name = new
    /\ \A x \in Worker \ {w} : c.worker[x] = b.worker[x]
    /\ c.content[q] = <<>>
    /\ \A p \in Queue : HasReal(c.content[p]) => p # q /\ HasReal(b.content[p])

LEMMA ReplacedFacts ==
    ASSUME NEW b \in BusType, NEW c, NEW old \in Name, NEW new \in Name, NEW q \in Queue,
           NEW w \in Worker, b.queue[old] # None, Replaced(b, c, old, new, q, w)
    PROVE  NewWorker(b, c, new, q, w)
<1>1. q # None /\ c.queue[new] = q /\ \A m \in Name \ {new} : c.queue[m] = b.queue[m]
  BY EventQueueAssumption DEF Replaced, BusType, Queue
<1>2. c.worker[w] = Loop(new) /\ \A x \in Worker \ {w} : c.worker[x] = b.worker[x]
  BY DEF Replaced, BusType
<1>3. b.worker[w].pc = "none" /\ c.worker[w].pc = "loop" /\ c.worker[w].name = new
  BY <1>2 DEF Replaced, Loop, NoWorker
<1>4. ASSUME NEW p \in Queue, HasReal(c.content[p])
      PROVE  p # q /\ HasReal(b.content[p])
  <2>1. b.queue[old] \in Queue /\ b.content[b.queue[old]] \in Seq(Event)
    BY DEF BusType
  <2>2. HasReal(Append(b.content[b.queue[old]], Poison)) => HasReal(b.content[b.queue[old]])
    BY <2>1, RealAppend, PoisonType DEF Real, Poison
  <2>3. p # q
    BY <1>4, EmptySorted DEF Replaced
  <2>4. CASE p = b.queue[old]
    BY <1>4, <2>2, <2>4 DEF Replaced
  <2>5. CASE p # b.queue[old]
    BY <1>4, <2>3, <2>5 DEF Replaced
  <2> QED  BY <2>3, <2>4, <2>5
<1>5. /\ \A m \in Name : b.queue[m] # q
      /\ \A x \in Worker : b.worker[x].on # q
      /\ c.content[q] = <<>>
  BY DEF Replaced
<1> QED  BY <1>1, <1>2, <1>3, <1>4, <1>5 DEF NewWorker

\* Nobody has an event and all queues in use hold nothing but poison.
Clean(b) ==
    /\ OwnQueues(b)
    /\ \A w \in Worker : ~Busy(b.worker[w])
    /\ \A q \in Queue : HasReal(b.content[q]) =>
          /\ \A n \in Name : b.queue[n] # q
          /\ \A w \in Worker : b.worker[w].pc = "wait" => b.worker[w].on # q

QuietBus(b, nm) ==
    /\ \A q \in Queue : (\E n \in Name : b.queue[n] = q) => b.content[q] = <<>>
    /\ \A w \in Worker : b.worker[w].pc \in {"none", "wait"} /\ b.worker[w].name \in {None, nm}

LEMMA QuietIsClean ==
    ASSUME NEW b \in BusType, NEW nm \in Name, NEW r, NEW low, NEW high,
           BusInv(b, nm, r, low, high), QuietBus(b, nm)
    PROVE  Clean(b)
<1>1. \A q \in Queue : HasReal(b.content[q]) => \A n \in Name : b.queue[n] # q
  BY EmptySorted DEF QuietBus
<1>2. ASSUME NEW q \in Queue, HasReal(b.content[q]), NEW w \in Worker,
             b.worker[w].pc = "wait", b.worker[w].on = q
      PROVE  FALSE
  <2>1. Live(b, nm, r) /\ OfServer(b, nm, w)
    BY <1>2 DEF BusInv, RealEvents, OfServer
  <2>2. b.queue[nm] = q
    BY <1>2, <2>1 DEF BusInv, OneWorker
  <2> QED  BY <1>1, <1>2, <2>2
<1>3. \A w \in Worker : ~Busy(b.worker[w])
  BY DEF QuietBus, Busy
<1> QED  BY <1>1, <1>2, <1>3 DEF BusInv, Clean

LEMMA RenamedClean ==
    ASSUME NEW b \in BusType, NEW old \in Name, NEW new \in Name,
           b.queue[old] # None => Room(b), Clean(b)
    PROVE  Clean(Renamed(b, old, new))
<1> DEFINE c == Renamed(b, old, new)
<1>1. CASE b.queue[old] = None
  <2>1. c.queue = b.queue /\ c.worker = b.worker /\ c.content = b.content
    BY <1>1, RenamedIs
  <2> HIDE DEF c
  <2> QED  BY <2>1 DEF Clean, OwnQueues, c
<1>2. CASE b.queue[old] # None
  <2>1. PICK q \in Queue, w \in Worker : Replaced(b, c, old, new, q, w)
    BY <1>2, RenamedIs
  <2> HIDE DEF c
  <2>2. NewWorker(b, c, new, q, w)
    BY <1>2, <2>1, ReplacedFacts
  <2>4. OwnQueues(c)
    BY <2>2 DEF NewWorker, Clean, OwnQueues
  <2>5. \A x \in Worker : ~Busy(c.worker[x])
    BY <2>2 DEF NewWorker, Clean, Busy
  <2> QED  BY <2>2, <2>4, <2>5 DEF NewWorker, Clean, c
<1> QED  BY <1>1, <1>2

LEMMA CleanInv ==
    ASSUME NEW b \in BusType, Clean(b), NEW nm \in Name, NEW r, OneWorker(b, nm, r),
           NEW low, NEW high, low <= high
    PROVE  BusInv(b, nm, r, low, high)
<1>1. OneBusy(b, nm, r)
  BY DEF Clean, OneBusy, Busy
<1>2. RealEvents(b, nm, r)
  BY DEF Clean, RealEvents
<1>3. InOrder(b, nm, low, high)
  <2>1. b.queue[nm] # None => ~HasReal(b.content[b.queue[nm]])
    BY DEF Clean, BusType
  <2>2. b.queue[nm] # None => \A lo : Sorted(b.content[b.queue[nm]], lo, high)
    BY <2>1 DEF Sorted, HasReal
  <2> QED  BY <2>2 DEF InOrder, Clean, Busy
<1> QED  BY <1>1, <1>2, <1>3 DEF BusInv, Clean

\* The server gets a new name: what it left behind has nothing to do.
LEMMA RenameKeeps ==
    ASSUME NEW b \in BusType, Served(b), NEW nm \in Name, NEW new \in Name, new # nm,
           b.queue[nm] # None => Room(b), QuietBus(b, nm),
           NEW r, NEW low, NEW high, BusInv(b, nm, r, low, high)
    PROVE  BusInv(Renamed(b, nm, new), new, r, low, high)
<1> DEFINE c == Renamed(b, nm, new)
<1>1. Clean(c) /\ c \in BusType
  BY QuietIsClean, RenamedClean, RenamedBus
<1>2. \A x \in Worker : ~OfServer(b, new, x)
  BY EventQueueAssumption DEF QuietBus, OfServer
<1>3. OneWorker(c, new, r)
  <2>1. CASE b.queue[nm] = None
    <3>1. c.worker = b.worker
      BY <2>1, RenamedIs
    <3> QED  BY <1>2, <3>1 DEF OneWorker, OfServer
  <2>2. CASE b.queue[nm] # None
    <3>1. PICK q \in Queue, w \in Worker : Replaced(b, c, nm, new, q, w)
      BY <2>2, RenamedIs
    <3> HIDE DEF c
    <3>2. NewWorker(b, c, new, q, w)
      BY <2>2, <3>1, ReplacedFacts
    <3> QED  BY <1>2, <3>2 DEF NewWorker, OneWorker, OfServer
  <2> QED  BY <2>1, <2>2
<1>4. low <= high
  BY DEF BusInv, InOrder
<1> HIDE DEF c
<1> QED  BY <1>1, <1>3, <1>4, CleanInv DEF c

\* A rename that fails: the rollback takes the old name off the list.
LEMMA RollbackKeeps ==
    ASSUME NEW b \in BusType, Served(b), NEW nm \in Name, NEW new \in Name,
           b.queue[nm] # None => Room(b), QuietBus(b, nm),
           Renamed(b, nm, new).queue[nm] # None => Room(Renamed(b, nm, new)),
           NEW low, NEW high, BusInv(b, nm, FALSE, low, high)
    PROVE  BusInv(Renamed(Renamed(b, nm, new), nm, nm), nm, FALSE, low, high)
<1> DEFINE c == Renamed(b, nm, new)
           d == Renamed(c, nm, nm)
<1>1. Clean(c) /\ c \in BusType /\ Served(c)
  BY QuietIsClean, RenamedClean, RenamedBus
<1>2. c.queue[nm] # None => Room(c)
  OBVIOUS
<1> HIDE DEF c
<1>3. Clean(d) /\ d \in BusType /\ d.servers = (c.servers \cup {nm}) \ {nm}
  BY <1>1, <1>2, RenamedClean, RenamedBus, RenamedIs
<1> HIDE DEF d
<1>4. OneWorker(d, nm, FALSE)
  BY <1>3 DEF OneWorker, Live
<1>5. low <= high
  BY DEF BusInv, InOrder
<1>6. BusInv(d, nm, FALSE, low, high)
  BY <1>3, <1>4, <1>5, CleanInv
<1> QED  BY <1>6 DEF c, d

\* A registration that renames the server to the name it has takes it off the list, too.
LEMMA SelfRenameKeeps ==
    ASSUME NEW b \in BusType, NEW nm \in Name, b.queue[nm] # None => Room(b),
           NEW low, NEW high, BusInv(b, nm, FALSE, low, high),
           NEW y \in Worker, Busy(b.worker[y])
    PROVE  BusInv(Renamed(b, nm, nm), nm, FALSE, low, high)
<1> DEFINE c == Renamed(b, nm, nm)
<1>1. ~Live(c, nm, FALSE)
  BY RenamedIs DEF Live
<1>2. ASSUME NEW w \in Worker, b.worker[w].pc = "wait", b.worker[w].on \in Queue,
             HasReal(b.content[b.worker[w].on])
      PROVE  FALSE
  <2>1. Live(b, nm, FALSE) /\ OfServer(b, nm, w)
    BY <1>2 DEF BusInv, RealEvents, OfServer
  <2>2. OfServer(b, nm, y) /\ y # w
    BY <1>2 DEF BusInv, OneBusy, Busy, OfServer
  <2> QED  BY <2>1, <2>2 DEF BusInv, OneWorker
<1>3. OneWorker(c, nm, FALSE)
  BY <1>1 DEF OneWorker
<1>4. CASE b.queue[nm] = None
  <2>1. c.queue = b.queue /\ c.worker = b.worker /\ c.content = b.content
    BY <1>4, RenamedIs
  <2> HIDE DEF c
  <2>2. OwnQueues(c) /\ OneBusy(c, nm, FALSE) /\ InOrder(c, nm, low, high)
    BY <2>1 DEF BusInv, OwnQueues, OneBusy, InOrder
  <2>3. RealEvents(c, nm, FALSE)
    BY <1>2, <1>4, <2>1, EventQueueAssumption DEF BusInv, RealEvents, Queue
  <2> QED  BY <1>3, <2>2, <2>3 DEF BusInv, c
<1>5. CASE b.queue[nm] # None
  <2>1. PICK q \in Queue, w \in Worker : Replaced(b, c, nm, nm, q, w)
    BY <1>5, RenamedIs
  <2> HIDE DEF c
  <2>2. NewWorker(b, c, nm, q, w)
    BY <1>5, <2>1, ReplacedFacts
  <2>4. OwnQueues(c)
    <3>1. ASSUME NEW x \in Worker, NEW m \in Name, c.worker[x].pc = "wait", c.worker[x].on = c.queue[m]
          PROVE  c.worker[x].name = m
      BY <2>2, <3>1 DEF NewWorker, BusInv, OwnQueues
    <3>2. ASSUME NEW n \in Name, NEW m \in Name, c.queue[n] # None, c.queue[n] = c.queue[m]
          PROVE  n = m
      BY <2>2, <3>2 DEF NewWorker, BusInv, OwnQueues
    <3> QED  BY <3>1, <3>2 DEF OwnQueues
  <2>5. OneBusy(c, nm, FALSE)
    BY <2>2 DEF NewWorker, BusInv, OneBusy, Busy
  <2>6. RealEvents(c, nm, FALSE)
    <3>2. ASSUME NEW p \in Queue, HasReal(c.content[p]), NEW n \in Name
          PROVE  c.queue[n] # p
      <4>1. HasReal(b.content[p]) /\ p # q
        BY <2>2, <3>2 DEF NewWorker
      <4>2. b.queue[n] = p => n = nm
        BY <4>1 DEF BusInv, RealEvents
      <4> QED  BY <2>2, <4>1, <4>2 DEF NewWorker
    <3>3. ASSUME NEW p \in Queue, HasReal(c.content[p]), NEW x \in Worker, c.worker[x].pc = "wait"
          PROVE  c.worker[x].on # p
      BY <1>2, <2>2, <3>3 DEF NewWorker
    <3> QED  BY <3>2, <3>3 DEF RealEvents
  <2>7. InOrder(c, nm, low, high)
    BY <2>2, EmptySorted DEF NewWorker, BusInv, InOrder
  <2> QED  BY <1>3, <2>4, <2>5, <2>6, <2>7 DEF BusInv, c
<1> QED  BY <1>4, <1>5
-----------------------------------------------------------------------------
(* The steps keep the order.                                               *)

LEMMA BusFacts ==
    ASSUME IInv
    PROVE  /\ Bus \in BusType /\ Served(Bus) /\ name \in Name
           /\ last \in Nat /\ sent \in Nat
           /\ Bus.queue = queue /\ Bus.worker = worker /\ Bus.content = content
           /\ Bus.servers = servers
           /\ worker \in [Worker -> WorkerState] /\ queue \in [Name -> Queue \cup {None}]
           /\ content \in [Queue -> Seq(Event)]
BY DEF IInv, RestOK, Bus, BusType

\* The server sends an event nobody looks at.
LEMMA DroppedKeeps ==
    ASSUME NEW b \in BusType, NEW nm \in Name, NEW r, NEW low \in Nat, NEW high \in Nat,
           BusInv(b, nm, r, low, high)
    PROVE  BusInv(b, nm, r, low, high + 1)
<1>1. ASSUME NEW q \in Queue, NEW lo, Sorted(b.content[q], lo, high)
      PROVE  Sorted(b.content[q], lo, high + 1)
  <2>1. \A i \in 1..Len(b.content[q]) : b.content[q][i].no \in Nat
    BY EventNumbers DEF BusType
  <2> QED  BY <1>1, <2>1 DEF Sorted
<1>2. b.queue[nm] # None => b.queue[nm] \in Queue
  BY DEF BusType
<1> QED  BY <1>1, <1>2 DEF BusInv, InOrder

\* Events of the server are numbered one after the other.
LEMMA NextEvent ==
    ASSUME IInv, NEW kind \in {"register", "event"}, sent < MaxEvents
    PROVE  /\ [kind |-> kind, no |-> sent + 1] \in Event
           /\ [kind |-> kind, no |-> sent + 1].no = sent + 1
BY EventQueueAssumption DEF IInv, RestOK, Event, Kind

LEMMA IntakeOrder ==
    ASSUME IInv, OrderInv, NEW kind \in {"register", "event"}, Intake(kind)
    PROVE  OrderInv'
<1>1. /\ dcs = name /\ renaming = None /\ sent' = sent + 1
      /\ UNCHANGED <<remote, name, settings, dcs, status, renaming, last>>
  BY DEF Intake, OrderInv, NamesAgree, serverVars
<1>2. NamesAgree'
  BY <1>1 DEF OrderInv, NamesAgree
<1>3. CASE dcs \notin servers
  <2>1. Bus' = Bus
    BY <1>3 DEF Intake, busVars, Bus
  <2> QED  BY <1>1, <1>2, <2>1, BusFacts, DroppedKeeps DEF OrderInv
<1>4. CASE dcs \in servers
  <2> DEFINE e == [kind |-> kind, no |-> sent + 1]
             b == Queued(Bus, name)
  <2>1. e \in Event /\ e.no = sent + 1
    BY NextEvent DEF Intake
  <2>2. Bus.queue[name] = None => Room(Bus)
    BY <1>1, <1>4 DEF Intake, Bus
  <2>3. b \in BusType /\ Served(b) /\ b.queue[name] # None
    BY <2>2, QueuedBus, BusFacts
  <2>4. Live(Bus, name, remote)
    BY <1>1, <1>4, BusFacts DEF Live
  <2>5. BusInv(b, name, remote, last, sent) /\ Live(b, name, remote)
    <3>1. CASE Bus.queue[name] = None
      <4>1. \A w \in Worker : ~OfServer(Bus, name, w)
        BY <2>4, <3>1 DEF OrderInv, BusInv, OneWorker
      <4>2. NewQueue(Bus, name).servers = Bus.servers
        BY <2>2, <3>1, NewQueueIs, BusFacts
      <4> QED  BY <2>2, <2>4, <3>1, <4>1, <4>2, NewQueueKeeps, BusFacts DEF Queued, OrderInv, Live
    <3>2. CASE Bus.queue[name] # None
      BY <2>4, <3>2 DEF Queued, OrderInv
    <3> QED  BY <3>1, <3>2
  <2> HIDE DEF b, e
  <2>6. BusInv(Put(b, name, e), name, remote, last, sent + 1)
    BY <2>1, <2>3, <2>5, PutEvent, BusFacts
  <2>7. Bus' = Put(b, name, e)
    BY <1>1, <1>4, <2>1, <2>3, PutBus, BusBecomes, BusFacts DEF Intake, b, e
  <2> QED  BY <1>1, <1>2, <2>6, <2>7 DEF OrderInv
<1> QED  BY <1>3, <1>4

LEMMA IntakeRemoteOrder ==
    ASSUME IInv, OrderInv, NEW kind \in {"register", "event"}, IntakeRemote(kind)
    PROVE  OrderInv'
<1>1. /\ dcs = name /\ renaming = None /\ sent' = sent + 1 /\ remote
      /\ UNCHANGED <<remote, name, settings, dcs, status, renaming, last>>
  BY DEF IntakeRemote, OrderInv, NamesAgree, serverVars
<1>2. NamesAgree'
  BY <1>1 DEF OrderInv, NamesAgree
<1>3. CASE queue[dcs] = None
  <2>1. Bus' = Bus
    BY <1>3 DEF IntakeRemote, busVars, Bus
  <2> QED  BY <1>1, <1>2, <2>1, BusFacts, DroppedKeeps DEF OrderInv
<1>4. CASE queue[dcs] # None
  <2> DEFINE e == [kind |-> kind, no |-> sent + 1]
  <2>1. e \in Event /\ e.no = sent + 1
    BY NextEvent DEF IntakeRemote
  <2>2. Bus.queue[name] # None /\ Live(Bus, name, remote)
    BY <1>1, <1>4, BusFacts DEF Live
  <2> HIDE DEF e
  <2>3. BusInv(Put(Bus, name, e), name, remote, last, sent + 1)
    BY <2>1, <2>2, PutEvent, BusFacts DEF OrderInv
  <2>4. Bus' = Put(Bus, name, e)
    BY <1>1, <1>4, <2>1, <2>2, PutBus, BusBecomes, BusFacts DEF IntakeRemote, e
  <2> QED  BY <1>1, <1>2, <2>3, <2>4 DEF OrderInv
<1> QED  BY <1>3, <1>4

LEMMA QuietIsQuiet ==
    ASSUME IInv, Quiet
    PROVE  QuietBus(Bus, name)
BY BusFacts DEF Quiet, QuietBus

LEMMA RenameBeginsOrder ==
    ASSUME IInv, OrderInv, "hasty" \notin May, NEW new \in Name, RenameBegins(new)
    PROVE  OrderInv'
<1>1. /\ UNCHANGED <<busVars, serverVars, sent, last>> /\ ~remote /\ status = "SHUTDOWN" /\ Quiet
      /\ renaming' # name
  BY DEF RenameBegins
<1>2. Bus' = Bus /\ NamesAgree'
  BY <1>1 DEF busVars, serverVars, Bus, OrderInv, NamesAgree, Quiet
<1> QED  BY <1>1, <1>2 DEF OrderInv, serverVars

LEMMA RenameSucceedsOrder ==
    ASSUME IInv, OrderInv, RenameSucceeds
    PROVE  OrderInv'
<1>1. /\ renaming \in Name /\ renaming # name /\ Quiet /\ dcs = None
      /\ (queue[name] # None => Room(Bus)) /\ Becomes(Renamed(Bus, name, renaming))
      /\ name' = renaming /\ settings' = renaming /\ renaming' = None
      /\ UNCHANGED <<remote, dcs, status, sent, last>>
  BY DEF RenameSucceeds, OrderInv, NamesAgree, IInv, RestOK
<1>2. Bus.queue[name] # None => Room(Bus)
  BY <1>1, BusFacts
<1>3. BusInv(Renamed(Bus, name, renaming), renaming, remote, last, sent)
  BY <1>1, <1>2, QuietIsQuiet, RenameKeeps, BusFacts DEF OrderInv
<1>4. Bus' = Renamed(Bus, name, renaming)
  BY <1>1, <1>2, RenamedBus, BusBecomes, BusFacts
<1>5. NamesAgree'
  BY <1>1 DEF NamesAgree
<1> QED  BY <1>1, <1>3, <1>4, <1>5 DEF OrderInv

LEMMA RenameRemoteOrder ==
    ASSUME IInv, OrderInv, "hasty" \notin May, NEW new \in Name, RenameRemote(new)
    PROVE  OrderInv'
<1>1. /\ new # name /\ Quiet /\ dcs = None /\ renaming = None
      /\ (queue[name] # None => Room(Bus)) /\ Becomes(Renamed(Bus, name, new))
      /\ name' = new /\ settings' = new
      /\ UNCHANGED <<remote, dcs, status, renaming, sent, last>>
  BY DEF RenameRemote, OrderInv, NamesAgree
<1>2. Bus.queue[name] # None => Room(Bus)
  BY <1>1, BusFacts
<1>3. BusInv(Renamed(Bus, name, new), new, remote, last, sent)
  BY <1>1, <1>2, QuietIsQuiet, RenameKeeps, BusFacts DEF OrderInv
<1>4. Bus' = Renamed(Bus, name, new)
  BY <1>1, <1>2, RenamedBus, BusBecomes, BusFacts
<1>5. NamesAgree'
  BY <1>1 DEF NamesAgree
<1> QED  BY <1>1, <1>3, <1>4, <1>5 DEF OrderInv

LEMMA RenameFailsOrder ==
    ASSUME IInv, OrderInv, RenameFails
    PROVE  OrderInv'
<1> DEFINE b == Renamed(Bus, name, renaming)
<1>1. /\ renaming \in Name /\ Quiet /\ dcs = None /\ ~remote
      /\ queue[name] # None => (Room(Bus) /\ Room(b))
      /\ Becomes(Renamed(b, name, name)) /\ renaming' = None
      /\ UNCHANGED <<remote, name, settings, dcs, status, sent, last>>
  BY DEF RenameFails, OrderInv, NamesAgree, IInv, RestOK, serverVars
<1>2. Bus.queue[name] # None => Room(Bus)
  BY <1>1, BusFacts
<1>3. b.queue[name] # None => Room(b)
  <2>1. Bus.queue[name] = None => b.queue = Bus.queue
    BY <1>1, <1>2, RenamedIs, BusFacts
  <2> HIDE DEF b
  <2> QED  BY <1>1, <2>1, BusFacts
<1>4. remote = FALSE
  BY <1>1 DEF IInv, RestOK, EventQueueAssumption
<1>5. BusInv(Renamed(b, name, name), name, FALSE, last, sent)
  BY <1>1, <1>2, <1>3, <1>4, QuietIsQuiet, RollbackKeeps, BusFacts DEF OrderInv
<1>6. b \in BusType /\ Served(b)
  BY <1>1, <1>2, RenamedBus, BusFacts
<1> HIDE DEF b
<1>7. Bus' = Renamed(b, name, name)
  BY <1>1, <1>3, <1>6, RenamedBus, BusBecomes, BusFacts
<1>8. NamesAgree'
  BY <1>1 DEF NamesAgree, OrderInv
<1> QED  BY <1>1, <1>4, <1>5, <1>7, <1>8 DEF OrderInv

LEMMA ServerOrder ==
    ASSUME IInv, OrderInv, "hasty" \notin May, DcsStarts \/ DcsStops
    PROVE  OrderInv'
<1>1. /\ Bus' = Bus /\ UNCHANGED <<remote, name, settings, renaming, sent, last>>
      /\ UNCHANGED <<queue, content, worker>>
  BY DEF DcsStarts, DcsStops, busVars, Bus
<1>2. renaming = None /\ ((dcs' = settings /\ status' = "UP") \/ dcs' = None)
  <2>1. CASE DcsStarts
    BY <2>1 DEF DcsStarts
  <2>2. CASE DcsStops
    BY <2>2 DEF DcsStops, OrderInv, NamesAgree
  <2> QED  BY <2>1, <2>2
<1>3. NamesAgree'
  BY <1>1, <1>2 DEF NamesAgree, OrderInv
<1> QED  BY <1>1, <1>3 DEF OrderInv

\* Whatever the master lists, it is live for a remote server.
LEMMA ListKeeps ==
    ASSUME NEW b \in BusType, NEW c \in BusType, c.queue = b.queue, c.worker = b.worker,
           c.content = b.content, NEW nm \in Name, NEW low, NEW high,
           BusInv(b, nm, TRUE, low, high)
    PROVE  BusInv(c, nm, TRUE, low, high)
BY DEF BusInv, OwnQueues, OneBusy, OneWorker, OfServer, RealEvents, InOrder, Live

LEMMA RemoteOrder ==
    ASSUME IInv, IInv', OrderInv, UnregisterRemote \/ InitRemote
    PROVE  OrderInv'
<1>1. /\ remote = TRUE /\ renaming = None /\ status' \in {"UNREGISTERED", "SHUTDOWN", "UP"}
      /\ UNCHANGED <<remote, name, settings, dcs, renaming, sent, last>>
      /\ status' = "SHUTDOWN" => dcs = None
  BY DEF UnregisterRemote, InitRemote, OrderInv, NamesAgree, IInv, RestOK, EventQueueAssumption
<1>2. NamesAgree'
  BY <1>1 DEF NamesAgree, OrderInv
<1>3. CASE UnregisterRemote
  <2>1. Bus \in BusType /\ Bus' \in BusType
    BY DEF IInv
  <2>2. Bus'.queue = Bus.queue /\ Bus'.worker = Bus.worker /\ Bus'.content = Bus.content
    BY <1>3 DEF UnregisterRemote, Bus
  <2> HIDE DEF Bus
  <2>3. BusInv(Bus', name, TRUE, last, sent)
    BY <1>1, <2>1, <2>2, ListKeeps, BusFacts DEF OrderInv
  <2> QED  BY <1>1, <1>2, <2>3 DEF OrderInv
<1>4. CASE InitRemote
  <2> DEFINE c == [Bus EXCEPT !.servers = @ \cup {name}]
  <2>1. c \in BusType /\ c.queue = Bus.queue /\ c.worker = Bus.worker /\ c.content = Bus.content
    BY BusFacts DEF BusType
  <2>2. Served(c)
    BY <2>1, BusFacts DEF Served
  <2>3. c.queue[name] = None => Room(c)
    BY <1>4, <2>1, BusFacts DEF InitRemote, Room, FreeQueues, FreeWorkers
  <2>4. Becomes(Queued(c, name))
    BY <1>4 DEF InitRemote
  <2> HIDE DEF c
  <2>5. BusInv(c, name, TRUE, last, sent)
    BY <1>1, <2>1, ListKeeps, BusFacts DEF OrderInv
  <2>6. c.queue[name] = None => \A w \in Worker : ~OfServer(c, name, w)
    BY <2>5 DEF BusInv, OneWorker, Live
  <2>7. BusInv(Queued(c, name), name, TRUE, last, sent)
    BY <2>1, <2>3, <2>5, <2>6, NewQueueKeeps, BusFacts DEF Queued
  <2>8. Bus' = Queued(c, name)
    BY <2>1, <2>2, <2>3, <2>4, QueuedBus, BusBecomes, BusFacts
  <2> QED  BY <1>1, <1>2, <2>7, <2>8 DEF OrderInv
<1> QED  BY <1>3, <1>4

-----------------------------------------------------------------------------
(* The steps of a worker keep the order.                                   *)

LEMMA WorkNames ==
    ASSUME IInv, OrderInv, NEW w \in Worker, Work(w)
    PROVE  NamesAgree'
<1>1. /\ UNCHANGED <<remote, name, settings, dcs, renaming>>
      /\ status' = "SHUTDOWN" => status = "SHUTDOWN"
  BY DEF Work, WorkerLoops, WorkerTakes, Registers, RegisterFails, RegisterRenames, Handled, serverVars
<1>2. CASE renaming = None
  BY <1>1, <1>2 DEF NamesAgree, OrderInv
<1>3. CASE renaming # None
  <2>1. Quiet /\ status = "SHUTDOWN" /\ ~remote
    BY <1>3 DEF OrderInv, NamesAgree
  <2>2. worker[w].pc \in {"none", "wait"} /\ worker[w].name \in {None, name}
    BY <2>1 DEF Quiet
  <2>3. WorkerTakes(w) /\ worker[w].pc = "wait"
    BY <2>2 DEF Work, WorkerLoops, Registers, RegisterFails, RegisterRenames, Handled, WorkerTakes
  <2>4. worker[w].on \in Queue /\ worker[w].name = name /\ content[worker[w].on] # <<>>
    BY <2>2, <2>3, WorkerFacts, EventQueueAssumption DEF WorkerTakes
  <2>5. name \notin servers
    <3>1. SUFFICES ASSUME name \in servers PROVE FALSE
      OBVIOUS
    <3>2. Live(Bus, name, remote) /\ OfServer(Bus, name, w)
      BY <2>3, <2>4, <3>1, BusFacts DEF Live, OfServer
    <3>3. worker[w].on = queue[name]
      BY <2>3, <3>2, BusFacts DEF OrderInv, BusInv, OneWorker
    <3> QED  BY <2>1, <2>4, <3>3, BusFacts DEF Quiet
  <2>6. Dies(w) /\ status' = status
    BY <2>3, <2>4, <2>5 DEF WorkerTakes, serverVars
  <2>7. /\ \A x \in Worker : worker'[x].pc \in {"none", "wait"} /\ worker'[x].name \in {None, name}
        /\ \A n \in Name : queue'[n] \in {None, queue[n]}
        /\ \A q \in Queue : content'[q] = content[q] \/ (q = worker[w].on /\ content'[q] = Tail(content[q]))
    BY <2>1, <2>3, <2>4, <2>6, BusFacts DEF Dies, Quiet, NoWorker, WorkerTakes
  <2>8. \A q \in Queue : content[q] = <<>> => content'[q] = <<>>
    BY <2>4, <2>7
  <2>9. Quiet'
    BY <1>1, <2>1, <2>7, <2>8, EventQueueAssumption DEF Quiet, Queue
  <2> QED  BY <1>1, <2>1, <2>6, <2>9 DEF NamesAgree, OrderInv
<1> QED  BY <1>2, <1>3

\* The end of an event: the worker looks for the next one, or ends.
LEMMA FinishKeeps ==
    ASSUME IInv, Bus' \in BusType, NEW b \in BusType, b.queue = queue, b.worker = worker,
           b.servers = servers, servers' = servers, content' = b.content,
           NEW w \in Worker, worker[w].pc # "none", Finish(w) \/ Dies(w),
           NEW r, NEW low, NEW high, BusInv(b, name, r, low, high)
    PROVE  BusInv(Bus', name, r, low, high)
<1>1. Bus'.servers = b.servers /\ Bus'.content = b.content /\ Bus'.queue = queue' /\ Bus'.worker = worker'
  BY DEF Bus
<1>2. CASE Dies(w)
  <2>1. Bus'.worker = [b.worker EXCEPT ![w] = NoWorker]
        /\ Bus'.queue = [b.queue EXCEPT ![b.worker[w].name] = None]
    BY <1>1, <1>2 DEF Dies
  <2> HIDE DEF Bus
  <2> QED  BY <1>1, <2>1, DiesKeeps, BusFacts
<1>3. CASE Finish(w) /\ ~Dies(w)
  <2>1. /\ worker' = [worker EXCEPT ![w] = Loop(worker[w].name)] /\ UNCHANGED queue
        /\ queue[worker[w].name] # None
    BY <1>3 DEF Finish
  <2> DEFINE s == Loop(worker[w].name)
  <2>2. s.pc = "loop" /\ s.name = b.worker[w].name /\ (s.name = name => b.queue[name] # None)
    BY <2>1 DEF Loop
  <2>3. /\ Bus'.queue = b.queue /\ Bus'.worker = [b.worker EXCEPT ![w] = s]
        /\ b.worker[w].pc # "none" /\ name \in Name
    BY <1>1, <2>1, BusFacts
  <2> HIDE DEF Bus, s
  <2> QED  BY <1>1, <2>2, <2>3, GoesKeeps
<1> QED  BY <1>2, <1>3

LEMMA LoopsOrder ==
    ASSUME IInv, IInv', OrderInv, NEW w \in Worker, WorkerLoops(w)
    PROVE  OrderInv'
<1>1. /\ worker[w].pc # "none" /\ UNCHANGED <<servers, content, name, remote, last, sent>>
  BY DEF WorkerLoops, serverVars
<1>2. NamesAgree'
  BY WorkNames DEF Work
<1>3. Bus' \in BusType
  BY DEF IInv
<1>4. CASE queue[worker[w].name] = None
  <2>1. Dies(w)
    BY <1>4 DEF WorkerLoops
  <2>2. BusInv(Bus', name, remote, last, sent)
    BY <1>1, <1>3, <2>1, FinishKeeps, BusFacts DEF OrderInv
  <2> QED  BY <1>1, <1>2, <2>2 DEF OrderInv
<1>5. CASE queue[worker[w].name] # None
  <2> DEFINE s == [worker[w] EXCEPT !.pc = "wait", !.on = queue[worker[w].name]]
  <2>1. worker' = [worker EXCEPT ![w] = s] /\ UNCHANGED queue
    BY <1>5, BusFacts DEF WorkerLoops
  <2>2. s.pc = "wait" /\ s.on = queue[worker[w].name] /\ s.name = worker[w].name
    <3>1. worker[w] \in WorkerState
      BY BusFacts
    <3> QED  BY <1>1, <3>1 DEF WorkerState, NoWorker, Loop
  <2>3. /\ Bus \in BusType /\ Bus'.servers = Bus.servers /\ Bus'.content = Bus.content
        /\ Bus'.queue = Bus.queue /\ Bus'.worker = [Bus.worker EXCEPT ![w] = s]
        /\ s.name = Bus.worker[w].name /\ s.on = Bus.queue[s.name] /\ Bus.queue[s.name] # None
        /\ Bus.worker[w].pc # "none" /\ name \in Name /\ BusInv(Bus, name, remote, last, sent)
    BY <1>1, <1>5, <2>1, <2>2, BusFacts DEF Bus, OrderInv
  <2> HIDE DEF s, Bus
  <2>4. BusInv(Bus', name, remote, last, sent)
    BY <1>3, <2>2, <2>3, GoesKeeps
  <2> QED  BY <1>1, <1>2, <2>4 DEF OrderInv
<1> QED  BY <1>4, <1>5

\* A worker has an event, with number now, and handles it.
LEMMA HandleKeeps ==
    ASSUME NEW b \in BusType, NEW c \in BusType, NEW w \in Worker, b.worker[w].pc # "none",
           c.servers = b.servers, c.content = b.content, c.queue = b.queue,
           NEW s, c.worker = [b.worker EXCEPT ![w] = s], s.pc = "handle",
           s.name = b.worker[w].name, NEW nm \in Name, s.name = nm,
           NEW r, NEW low, NEW high, BusInv(b, nm, r, low, high),
           \A x \in Worker : Busy(b.worker[x]) => x = w, NEW now \in low..high,
           b.queue[nm] # None => Sorted(b.content[b.queue[nm]], now, high)
    PROVE  BusInv(c, nm, r, now, high)
<1>1. BusInv(c, nm, r, low, high)
  BY GoesKeeps
<1>2. \A x \in Worker : c.worker[x].pc # "register"
  BY DEF Busy, BusType
<1> QED  BY <1>1, <1>2, LastKeeps

LEMMA TakesOrder ==
    ASSUME IInv, IInv', OrderInv, NEW w \in Worker, WorkerTakes(w)
    PROVE  OrderInv' /\ last' >= last
<1> DEFINE q == worker[w].on
           e == Head(content[q])
           b == [Bus EXCEPT !.content = [content EXCEPT ![q] = Tail(@)]]
<1>1. /\ worker[w].pc = "wait" /\ content[q] # <<>> /\ q \in Queue /\ worker[w].name \in Name
      /\ content' = [content EXCEPT ![q] = Tail(@)]
      /\ UNCHANGED <<servers, name, remote, sent>>
  BY WorkerFacts DEF WorkerTakes, serverVars
<1>2. NamesAgree'
  BY WorkNames DEF Work
<1>3. /\ b \in BusType /\ b.servers = servers /\ b.queue = queue /\ b.worker = worker
      /\ b.content = content'
  <2>1. [content EXCEPT ![q] = Tail(@)] \in [Queue -> Seq(Event)]
    BY <1>1, BusFacts
  <2>2. content' \in [Queue -> Seq(Event)]
    BY <1>1, <2>1
  <2>3. b = [Bus EXCEPT !.content = content']
    BY <1>1
  <2> HIDE DEF b
  <2> QED  BY <2>2, <2>3, BusFacts DEF BusType
<1> HIDE DEF b
<1>4. BusInv(b, name, remote, last, sent)
  <2>1. Bus \in BusType /\ BusInv(Bus, name, remote, last, sent) /\ name \in Name
    BY BusFacts DEF OrderInv
  <2>2. /\ Bus.servers = servers /\ Bus.queue = queue /\ Bus.worker = worker
        /\ Bus.content = content
    BY BusFacts
  <2>3. Bus.content[q] # <<>> /\ b.content = [Bus.content EXCEPT ![q] = Tail(@)]
    BY <1>1, <1>3, <2>2
  <2>4. /\ b.servers = Bus.servers /\ b.queue = Bus.queue /\ b.worker = Bus.worker
        /\ q \in Queue /\ b \in BusType
    BY <1>1, <1>3, <2>2
  <2> QED  BY <2>1, <2>3, <2>4, TailKeeps
<1>5. Bus' \in BusType
  BY DEF IInv
<1>6. CASE (Dies(w) \/ Finish(w)) /\ UNCHANGED last
  <2>1. BusInv(Bus', name, remote, last, sent)
    BY <1>1, <1>3, <1>4, <1>5, <1>6, FinishKeeps
  <2>2. last \in Nat
    BY BusFacts
  <2> QED  BY <1>1, <1>2, <1>6, <2>1, <2>2 DEF OrderInv
<1>7. ASSUME NEW pc \in {"register", "handle"}, worker' = Goto(w, pc, e), UNCHANGED queue,
             e.kind # "poison", pc = "register" => ~remote /\ UNCHANGED last,
             pc = "handle" => last' = e.no
      PROVE  OrderInv' /\ last' >= last
  <2>1. content[q] \in Seq(Event) /\ Len(content[q]) \in Nat \ {0} /\ e = content[q][1]
    BY <1>1, BusFacts
  <2>2. Real(e) /\ HasReal(content[q])
    BY <1>7, <2>1 DEF Real, HasReal
  <2>3. Live(Bus, name, remote) /\ worker[w].name = name
    BY <1>1, <2>2, BusFacts DEF OrderInv, BusInv, RealEvents
  <2>4. queue[name] = q /\ \A x \in Worker : OfServer(Bus, name, x) => x = w
    BY <1>1, <2>3, BusFacts DEF OrderInv, BusInv, OneWorker, OfServer
  <2>5. \A x \in Worker : Busy(worker[x]) => x = w
    BY <2>4, BusFacts DEF OrderInv, BusInv, OneBusy, OfServer, Busy
  <2>6. Sorted(content[q], last, sent)
    BY <1>1, <2>4, BusFacts, EventQueueAssumption DEF OrderInv, BusInv, InOrder, Queue
  <2>7. Sorted(Tail(content[q]), e.no, sent) /\ e.no > last /\ e.no <= sent /\ e.no \in Nat
    <3>1. e.no \in Nat
      BY <2>1, EventNumbers
    <3>2. Sorted(Tail(content[q]), e.no, sent) /\ e.no > last /\ e.no <= sent
      BY <1>1, <2>1, <2>2, <2>6, SortedTail
    <3> QED  BY <3>1, <3>2
  <2>8. content'[q] = Tail(content[q])
    BY <1>1, BusFacts
  <2> DEFINE s == [pc |-> pc, name |-> worker[w].name, on |-> None, event |-> e]
  <2>9. /\ Bus'.servers = b.servers /\ Bus'.content = b.content /\ Bus'.queue = b.queue
        /\ Bus'.worker = [b.worker EXCEPT ![w] = s]
    BY <1>1, <1>3, <1>7, BusFacts DEF Bus, Goto
  <2>10. /\ s.pc = pc /\ s.name = b.worker[w].name /\ s.event = e /\ s.event.no \in last..sent
         /\ s.pc \in {"register", "handle"}
    BY <1>3, <2>7, BusFacts
  <2> HIDE DEF e, q, s, Bus
  <2>11. /\ s.pc = "register" /\ ~remote => BusInv(Bus', name, remote, last, sent)
         /\ s.pc = "handle" => BusInv(Bus', name, remote, s.event.no, sent)
    <3>1. /\ b.worker[w].pc # "none" /\ b.worker[w].name = name
          /\ \A x \in Worker : Busy(b.worker[x]) => x = w
          /\ b.queue[name] # None => Sorted(b.content[b.queue[name]], s.event.no, sent)
          /\ name \in Name /\ last \in Nat /\ sent \in Nat
      BY <1>1, <1>3, <2>3, <2>4, <2>5, <2>7, <2>8, <2>10, BusFacts
    <3>2. PICK c \in BusType : c = Bus'
      BY <1>5
    <3>3. /\ c.servers = b.servers /\ c.content = b.content /\ c.queue = b.queue
          /\ c.worker = [b.worker EXCEPT ![w] = s]
      BY <2>9, <3>2
    <3>4. /\ s.pc = "register" /\ ~remote => BusInv(c, name, remote, last, sent)
          /\ s.pc = "handle" => BusInv(c, name, remote, s.event.no, sent)
      <4>1. b \in BusType
        BY <1>3
      <4>2. s.pc \in {"register", "handle"} /\ s.name = b.worker[w].name /\ s.event.no \in last..sent
        BY <2>10
      <4>3. CASE s.pc = "register" /\ ~remote
        <5>1. BusInv(c, name, remote, last, sent)
          BY <1>4, <3>1, <3>3, <4>1, <4>2, <4>3, GoesKeeps
        <5> QED  BY <4>3, <5>1
      <4>4. CASE s.pc = "handle"
        <5>1. s.name = name /\ s.pc = "handle"
          BY <3>1, <4>2, <4>4
        <5>2. PICK now \in last..sent : now = s.event.no
          BY <4>2
        <5>3. b.queue[name] # None => Sorted(b.content[b.queue[name]], now, sent)
          BY <3>1, <5>2
        <5>4. BusInv(c, name, remote, now, sent)
          BY <1>4, <3>1, <3>3, <4>1, <4>2, <5>1, <5>3, HandleKeeps
        <5> QED  BY <4>4, <5>1, <5>2, <5>4
      <4> QED  BY <4>3, <4>4
    <3> QED  BY <3>2, <3>4
  <2>12. last \in Nat /\ (last' = last \/ last' > last)
    BY <1>7, <2>7, BusFacts
  <2> QED  BY <1>1, <1>2, <1>7, <2>10, <2>11, <2>12 DEF OrderInv
<1> QED
  <2>1. \/ (Dies(w) \/ Finish(w)) /\ UNCHANGED last
        \/ /\ worker' = Goto(w, "register", e) /\ UNCHANGED <<queue, last>> /\ ~remote
           /\ e.kind = "register"
        \/ /\ worker' = Goto(w, "handle", e) /\ last' = e.no /\ UNCHANGED queue
           /\ e.kind # "poison"
    BY DEF WorkerTakes, Handle
  <2> HIDE DEF e, q
  <2> QED  BY <1>6, <1>7, <2>1

LEMMA RegistersOrder ==
    ASSUME IInv, IInv', OrderInv, NEW w \in Worker, Registers(w)
    PROVE  OrderInv'
<1> DEFINE e == worker[w].event
           s == [pc |-> "handle", name |-> name, on |-> None, event |-> e]
<1>1. /\ worker[w].pc = "register" /\ worker' = Goto(w, "handle", e) /\ last' = e.no
      /\ UNCHANGED <<servers, queue, content, name, remote, sent>>
  BY DEF Registers, Handle, serverVars
<1>2. NamesAgree'
  BY WorkNames DEF Work
<1>3. /\ worker[w].name = name /\ \A x \in Worker : Busy(worker[x]) => x = w
      /\ e.no \in last..sent
      /\ queue[name] # None => Sorted(content[queue[name]], e.no, sent)
  BY <1>1, BusFacts DEF OrderInv, BusInv, OneBusy, InOrder, Busy
<1>4. /\ Bus'.servers = Bus.servers /\ Bus'.content = Bus.content /\ Bus'.queue = Bus.queue
      /\ Bus'.worker = [Bus.worker EXCEPT ![w] = s]
  BY <1>1, <1>3 DEF Bus, Goto
<1>5. s.pc = "handle" /\ s.name = Bus.worker[w].name /\ s.name = name
  BY <1>3, BusFacts
<1>6. Bus' \in BusType
  BY DEF IInv
<1> HIDE DEF e, s, Bus
<1>7. BusInv(Bus', name, remote, e.no, sent)
  <2>1. /\ Bus.worker[w].pc # "none" /\ name \in Name /\ Bus \in BusType
        /\ \A x \in Worker : Busy(Bus.worker[x]) => x = w
        /\ Bus.queue[name] # None => Sorted(Bus.content[Bus.queue[name]], e.no, sent)
        /\ BusInv(Bus, name, remote, last, sent)
    BY <1>1, <1>3, BusFacts DEF OrderInv
  <2> QED  BY <1>3, <1>4, <1>5, <1>6, <2>1, HandleKeeps
<1> QED  BY <1>1, <1>2, <1>7 DEF OrderInv

\* A server without a queue is taken from the list.
LEMMA UnlistKeeps ==
    ASSUME NEW b \in BusType, NEW c \in BusType, NEW nm \in Name, b.queue[nm] = None,
           c.servers \subseteq b.servers, c.queue = b.queue, c.worker = b.worker,
           c.content = b.content, NEW r, NEW low, NEW high, BusInv(b, nm, r, low, high)
    PROVE  BusInv(c, nm, r, low, high)
<1>1. Live(c, nm, r) => Live(b, nm, r)
  BY DEF Live
<1>2. OwnQueues(c) /\ OneBusy(c, nm, r) /\ OneWorker(c, nm, r) /\ InOrder(c, nm, low, high)
  BY <1>1 DEF BusInv, OwnQueues, OneBusy, OneWorker, InOrder, OfServer
<1>3. RealEvents(c, nm, r)
  <2>1. ASSUME NEW q \in Queue, HasReal(c.content[q]), NEW n \in Name
        PROVE  c.queue[n] # q
    BY <2>1, EventQueueAssumption DEF BusInv, RealEvents, Queue
  <2>2. ASSUME NEW q \in Queue, HasReal(c.content[q]), NEW w \in Worker
        PROVE  ~(c.worker[w].pc = "wait" /\ c.worker[w].on = q)
    BY <2>2 DEF BusInv, RealEvents, OneWorker, OfServer
  <2> QED  BY <2>1, <2>2 DEF RealEvents
<1> QED  BY <1>2, <1>3 DEF BusInv

LEMMA RegisterFailsOrder ==
    ASSUME IInv, IInv', OrderInv, NEW w \in Worker, RegisterFails(w)
    PROVE  OrderInv'
<1>1. /\ worker[w].pc = "register" /\ servers' \subseteq servers /\ Dies(w)
      /\ UNCHANGED <<content, name, remote, last, sent>>
  BY DEF RegisterFails, serverVars
<1>2. NamesAgree'
  BY WorkNames DEF Work
<1>3. worker[w].name = name
  BY <1>1, BusFacts DEF OrderInv, BusInv, OneBusy, Busy
<1> DEFINE b == [Bus EXCEPT !.queue = queue', !.worker = worker']
<1>4. /\ Bus'.servers = servers' /\ Bus'.content = content /\ Bus'.queue = queue'
      /\ Bus'.worker = worker' /\ Bus' \in BusType
  BY <1>1 DEF IInv, Bus
<1>5. /\ b \in BusType /\ b.servers = servers /\ b.content = content /\ b.queue = queue'
      /\ b.worker = worker'
  BY <1>4, BusFacts DEF BusType
<1>6. /\ b.queue = [Bus.queue EXCEPT ![Bus.worker[w].name] = None]
      /\ b.worker = [Bus.worker EXCEPT ![w] = NoWorker]
      /\ b.queue[name] = None
  <2>1. queue' = [queue EXCEPT ![worker[w].name] = None]
        /\ worker' = [worker EXCEPT ![w] = NoWorker]
    BY <1>1 DEF Dies
  <2> HIDE DEF b
  <2> QED  BY <1>3, <1>5, <2>1, BusFacts
<1> HIDE DEF b, Bus
<1>7. BusInv(b, name, remote, last, sent)
  <2>1. /\ b.servers = Bus.servers /\ b.content = Bus.content /\ Bus.worker[w].pc # "none"
        /\ name \in Name /\ Bus \in BusType /\ BusInv(Bus, name, remote, last, sent)
    BY <1>1, <1>5, BusFacts DEF OrderInv
  <2> QED  BY <1>5, <1>6, <2>1, DiesKeeps
<1>8. BusInv(Bus', name, remote, last, sent)
  BY <1>1, <1>4, <1>5, <1>6, <1>7, UnlistKeeps, BusFacts
<1> QED  BY <1>1, <1>2, <1>8 DEF OrderInv

LEMMA RegisterRenamesOrder ==
    ASSUME IInv, IInv', OrderInv, NEW w \in Worker, RegisterRenames(w)
    PROVE  OrderInv'
<1> DEFINE e == worker[w].event
           b == Renamed(Bus, name, name)
           s == [worker[w] EXCEPT !.pc = "handle"]
<1>1. /\ worker[w].pc = "register" /\ last' = e.no
      /\ UNCHANGED <<name, remote, sent>>
      /\ queue[name] # None => Room(Bus)
      /\ Becomes([b EXCEPT !.worker[w].pc = "handle"])
  BY DEF RegisterRenames, serverVars
<1>2. NamesAgree'
  BY WorkNames DEF Work
<1>3. /\ worker[w].name = name /\ \A x \in Worker : Busy(worker[x]) => x = w
      /\ remote = FALSE
  <2>1. ~remote /\ remote \in BOOLEAN
    BY <1>1, BusFacts, EventQueueAssumption DEF OrderInv, BusInv, OneBusy, IInv, RestOK
  <2> QED  BY <1>1, <2>1, BusFacts DEF OrderInv, BusInv, OneBusy, Busy
<1>4. Bus.queue[name] # None => Room(Bus)
  BY <1>1, BusFacts
<1>5. b \in BusType /\ b.worker[w] = worker[w]
  <2>1. Bus.worker[w] # NoWorker
    BY <1>1, WorkerFacts, BusFacts
  <2> QED  BY <1>4, <2>1, RenamedBus, BusFacts
<1>6. BusInv(b, name, FALSE, last, sent)
  <2>1. Busy(Bus.worker[w]) /\ BusInv(Bus, name, FALSE, last, sent)
    BY <1>1, <1>3, BusFacts DEF Busy, OrderInv
  <2> QED  BY <1>4, <2>1, SelfRenameKeeps, BusFacts
<1> HIDE DEF b
<1>7. /\ Bus'.servers = b.servers /\ Bus'.content = b.content /\ Bus'.queue = b.queue
      /\ Bus'.worker = [b.worker EXCEPT ![w] = s]
  BY <1>1, <1>5 DEF Becomes, Bus, BusType
<1>8. s.pc = "handle" /\ s.name = name
  <2>1. worker[w] \in WorkerState
    BY BusFacts
  <2> QED  BY <1>1, <1>3, <2>1 DEF WorkerState, NoWorker, Loop
<1>9. /\ \A x \in Worker : Busy(b.worker[x]) => x = w
      /\ e.no \in last..sent
      /\ b.queue[name] # None => Sorted(b.content[b.queue[name]], e.no, sent)
  BY <1>1, <1>5, <1>6 DEF BusInv, OneBusy, InOrder, Busy
<1>10. Bus' \in BusType
  BY DEF IInv
<1> HIDE DEF e, s, Bus
<1>11. BusInv(Bus', name, FALSE, e.no, sent)
  <2>1. b.worker[w].pc # "none" /\ s.name = b.worker[w].name /\ name \in Name
    BY <1>1, <1>3, <1>5, <1>8, BusFacts
  <2> QED  BY <1>5, <1>6, <1>7, <1>8, <1>9, <1>10, <2>1, HandleKeeps
<1> QED  BY <1>1, <1>2, <1>3, <1>11 DEF OrderInv

LEMMA HandledOrder ==
    ASSUME IInv, IInv', OrderInv, NEW w \in Worker, Handled(w)
    PROVE  OrderInv'
<1>1. /\ worker[w].pc = "handle" /\ Finish(w)
      /\ UNCHANGED <<servers, content, name, remote, last, sent>>
  BY DEF Handled
<1>2. NamesAgree'
  BY WorkNames DEF Work
<1>3. Bus' \in BusType
  BY DEF IInv
<1>4. BusInv(Bus', name, remote, last, sent)
  BY <1>1, <1>3, FinishKeeps, BusFacts DEF OrderInv
<1> QED  BY <1>1, <1>2, <1>4 DEF OrderInv

-----------------------------------------------------------------------------
LEMMA InitOrder == Init => OrderInv
<1> SUFFICES ASSUME Init PROVE OrderInv
  OBVIOUS
<1>1. NamesAgree
  BY DEF Init, NamesAgree
<1>2. /\ Bus.queue = [n \in Name |-> None] /\ Bus.content = [q \in Queue |-> <<>>]
      /\ Bus.worker = [w \in Worker |-> NoWorker] /\ last = 0 /\ sent = 0 /\ name \in Name
  BY DEF Init, Bus
<1>3. \A w \in Worker : Bus.worker[w].pc = "none"
  BY <1>2 DEF NoWorker
<1> HIDE DEF Bus
<1>4. OwnQueues(Bus) /\ OneBusy(Bus, name, remote) /\ OneWorker(Bus, name, remote)
  BY <1>2, <1>3 DEF OwnQueues, OneBusy, OneWorker, Busy, OfServer
<1>5. RealEvents(Bus, name, remote)
  BY <1>2 DEF RealEvents, HasReal
<1>6. InOrder(Bus, name, last, sent)
  BY <1>2, <1>3 DEF InOrder
<1> QED  BY <1>1, <1>4, <1>5, <1>6 DEF OrderInv, BusInv

LEMMA OrderStep == "hasty" \notin May /\ IInv /\ IInv' /\ OrderInv /\ [Next]_vars => OrderInv'
<1> SUFFICES ASSUME "hasty" \notin May, IInv, IInv', OrderInv, [Next]_vars PROVE OrderInv'
  OBVIOUS
<1>1. CASE UNCHANGED vars
  BY <1>1 DEF vars, busVars, serverVars, OrderInv, NamesAgree, Quiet, Bus
<1>2. ASSUME NEW w \in Worker, Work(w)
      PROVE  OrderInv'
  BY <1>2, LoopsOrder, TakesOrder, RegistersOrder, RegisterFailsOrder, RegisterRenamesOrder,
     HandledOrder DEF Work
<1> QED
  BY <1>1, <1>2, IntakeOrder, IntakeRemoteOrder, RenameBeginsOrder, RenameSucceedsOrder,
     RenameRemoteOrder, RenameFailsOrder, ServerOrder, RemoteOrder DEF Next

\* A server is renamed only when it has been shut down for a while.
Unhurried == "hasty" \notin May

LEMMA Ordered == Unhurried => (Spec => []OrderInv)
<1> SUFFICES ASSUME Unhurried PROVE Spec => []OrderInv
  OBVIOUS
<1>1. Init => OrderInv
  BY InitOrder
<1>2. IInv /\ IInv' /\ OrderInv /\ [Next]_vars => OrderInv'
  BY OrderStep DEF Unhurried
<1> QED  BY <1>1, <1>2, Invariant, PTL DEF Spec

\* No two events of the server are registered or handled at the same time, however
\* the queues and workers of its names come and go.
THEOREM OneEventAtATime == Unhurried => (Spec => []OneAtATime)
<1> SUFFICES ASSUME Unhurried PROVE Spec => []OneAtATime
  OBVIOUS
<1>1. OrderInv => OneAtATime
  <2> SUFFICES ASSUME OrderInv PROVE OneAtATime
    OBVIOUS
  <2> DEFINE B == {w \in Worker : worker[w].pc \in {"register", "handle"}}
  <2>1. \A w, x \in B : w = x
    BY DEF OrderInv, BusInv, OneBusy, Busy, Bus
  <2>2. B = {} \/ \E w \in Worker : B = {w}
    BY <2>1
  <2>3. Cardinality(B) <= 1
    BY <2>2, FS_EmptySet, FS_Singleton
  <2> QED  BY <2>3 DEF OneAtATime
<1> QED  BY <1>1, Ordered, PTL

\* An event is never handled after one the server sent later.
THEOREM EventsHandledInOrder == Unhurried => (Spec => HandledInOrder)
<1> SUFFICES ASSUME Unhurried PROVE Spec => HandledInOrder
  OBVIOUS
<1>1. IInv /\ IInv' /\ OrderInv /\ OrderInv' /\ [Next]_vars => [last' >= last]_last
  <2> SUFFICES ASSUME IInv, IInv', OrderInv, [Next]_vars, last' # last PROVE last' >= last
    OBVIOUS
  <2>1. PICK w \in Worker : WorkerTakes(w) \/ Registers(w) \/ RegisterRenames(w)
    BY DEF Next, Work, vars, busVars, serverVars, Intake, IntakeRemote, WorkerLoops,
       RegisterFails, Handled, RenameBegins, RenameRemote, RenameSucceeds, RenameFails,
       DcsStarts, DcsStops, UnregisterRemote, InitRemote
  <2>2. CASE Registers(w) \/ RegisterRenames(w)
    <3>1. worker[w].pc = "register" /\ last' = worker[w].event.no
      BY <2>2 DEF Registers, RegisterRenames, Handle
    <3> QED  BY <3>1, BusFacts DEF OrderInv, BusInv, InOrder
  <2>3. CASE WorkerTakes(w)
    BY <2>3, TakesOrder
  <2> QED  BY <2>1, <2>2, <2>3
<1> QED  BY <1>1, Ordered, Invariant, PTL DEF Spec, HandledInOrder
=============================================================================
