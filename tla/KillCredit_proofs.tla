-------------------------- MODULE KillCredit_proofs --------------------------
(***************************************************************************)
(* Proofs about who gets the kill.                                         *)
(*                                                                         *)
(* A player is looked at alone: his state, and the queue as it concerns    *)
(* him, in which the events of the others keep their places but are marked *)
(* as events of no interest.  Handling an event of his is then a change of *)
(* his state and of the mark of the first event, and the queue moves on by *)
(* one.  KillInv says of such a view that a kill is counted once, WatchInv *)
(* that none is lost; each has a lemma for every action.                   *)
(***************************************************************************)
EXTENDS KillCredit, TLAPS

-----------------------------------------------------------------------------
(* Types.                                                                  *)

\* A player in the air has a plane, and so have those who are shot at.
Planes ==
    /\ \A p \in Player : plane[p] = "air" => life[p] \in Lives
    /\ \A i \in DOMAIN queue : queue[i].kind \in {"shot", "hit"} => queue[i].life \in Lives

TypeInv == TypeOK /\ Planes

LEMMA EvType ==
    ASSUME TypeOK, NEW p \in Player, NEW by \in Killer,
           NEW kind \in {"takeoff", "shot", "hit", "land", "crash", "S_kill", "kill", "slot",
                         "disconnect", "kicked", "connect", "stop"}
    PROVE  /\ Ev(kind, p, by) \in Event /\ Ev(kind, p, by).kind = kind
           /\ Ev(kind, p, by).who = p /\ Ev(kind, p, by).by = by
           /\ Ev(kind, p, by).life = life[p]
BY DEF TypeOK, Ev, Event

\* Events at the end of the queue.
LEMMA QueuesType ==
    ASSUME NEW q \in Seq(Event), NEW more \in Seq(Event), NEW r, r = q \o more
    PROVE  /\ r \in Seq(Event) /\ Len(r) = Len(q) + Len(more)
           /\ \A i \in 1..Len(q) : r[i] = q[i]
           /\ \A i \in 1..Len(more) : r[Len(q) + i] = more[i]
           /\ \A i \in 1..Len(r) : i \in 1..Len(q) \/ (i > Len(q) /\ i - Len(q) \in 1..Len(more))
<1>1. /\ r \in Seq(Event) /\ Len(r) = Len(q) + Len(more) /\ Len(q) \in Nat /\ Len(more) \in Nat
  OBVIOUS
<1>2. \A i \in 1..Len(r) : i \in 1..Len(q) \/ (i > Len(q) /\ i - Len(q) \in 1..Len(more))
  BY <1>1
<1> QED  BY <1>1, <1>2

\* The first event leaves.
LEMMA RestType ==
    ASSUME NEW q \in Seq(Event), q # <<>>
    PROVE  /\ Head(q) \in Event /\ Head(q) = q[1] /\ Tail(q) \in Seq(Event)
           /\ Len(q) \in Nat \ {0} /\ Len(Tail(q)) = Len(q) - 1
           /\ \A i \in 1..(Len(q) - 1) : Tail(q)[i] = q[i + 1] /\ i + 1 \in 1..Len(q)
OBVIOUS

\* A few events in a row.
LEMMA Rows ==
    ASSUME NEW a \in Event, NEW b \in Event, NEW c \in Event
    PROVE  /\ <<a>> \in Seq(Event) /\ Len(<<a>>) = 1 /\ <<a>>[1] = a
           /\ <<a, b>> \in Seq(Event) /\ Len(<<a, b>>) = 2 /\ <<a, b>>[1] = a /\ <<a, b>>[2] = b
           /\ <<a>> \o <<b, c>> \in Seq(Event) /\ Len(<<a>> \o <<b, c>>) = 3
           /\ (<<a>> \o <<b, c>>)[1] = a /\ (<<a>> \o <<b, c>>)[2] = b /\ (<<a>> \o <<b, c>>)[3] = c
           /\ <<a, b>> \o <<c>> \in Seq(Event) /\ Len(<<a, b>> \o <<c>>) = 3
           /\ (<<a, b>> \o <<c>>)[1] = a /\ (<<a, b>> \o <<c>>)[2] = b /\ (<<a, b>> \o <<c>>)[3] = c
           /\ <<a>> \o <<b>> \in Seq(Event) /\ Len(<<a>> \o <<b>>) = 2
           /\ (<<a>> \o <<b>>)[1] = a /\ (<<a>> \o <<b>>)[2] = b
<1>1. /\ <<a>> \in Seq(Event) /\ Len(<<a>>) = 1 /\ <<a>>[1] = a
      /\ <<a, b>> \in Seq(Event) /\ Len(<<a, b>>) = 2 /\ <<a, b>>[1] = a /\ <<a, b>>[2] = b
  OBVIOUS
<1>2. /\ <<b>> \in Seq(Event) /\ Len(<<b>>) = 1 /\ <<b>>[1] = b
      /\ <<c>> \in Seq(Event) /\ Len(<<c>>) = 1 /\ <<c>>[1] = c
      /\ <<b, c>> \in Seq(Event) /\ Len(<<b, c>>) = 2 /\ <<b, c>>[1] = b /\ <<b, c>>[2] = c
  OBVIOUS
<1>3. ASSUME NEW s, s = <<a>> \o <<b, c>>
      PROVE  s \in Seq(Event) /\ Len(s) = 3 /\ s[1] = a /\ s[2] = b /\ s[3] = c
  BY <1>1, <1>2, <1>3
<1>4. ASSUME NEW s, s = <<a, b>> \o <<c>>
      PROVE  s \in Seq(Event) /\ Len(s) = 3 /\ s[1] = a /\ s[2] = b /\ s[3] = c
  BY <1>1, <1>2, <1>4
<1>5. ASSUME NEW s, s = <<a>> \o <<b>>
      PROVE  s \in Seq(Event) /\ Len(s) = 2 /\ s[1] = a /\ s[2] = b
  BY <1>1, <1>2, <1>5
<1> QED  BY <1>1, <1>3, <1>4, <1>5

\* Events are added at the end of the queue: the queue keeps its type, and Planes.
LEMMA AddTypes ==
    ASSUME TypeInv, NEW more \in Seq(Event), queue' = queue \o more,
           \A i \in 1..Len(more) : more[i].kind \in {"shot", "hit"} => more[i].life \in Lives
    PROVE  /\ queue' \in Seq(Event)
           /\ \A i \in DOMAIN queue' : queue'[i].kind \in {"shot", "hit"} => queue'[i].life \in Lives
<1> DEFINE r == queue'
           q == queue
<1>0. /\ q \in Seq(Event) /\ r = q \o more
      /\ \A i \in 1..Len(q) : q[i].kind \in {"shot", "hit"} => q[i].life \in Lives
  BY DEF TypeInv, TypeOK, Planes
<1> HIDE DEF r, q
<1>1. /\ r \in Seq(Event) /\ Len(r) = Len(q) + Len(more)
      /\ \A i \in 1..Len(q) : r[i] = q[i]
      /\ \A i \in 1..Len(more) : r[Len(q) + i] = more[i]
      /\ \A i \in 1..Len(r) : i \in 1..Len(q) \/ (i > Len(q) /\ i - Len(q) \in 1..Len(more))
  BY <1>0, QueuesType
<1>2. \A i \in 1..Len(r) : i > Len(q) => r[i] = more[i - Len(q)]
  <2> SUFFICES ASSUME NEW i \in 1..Len(r), i > Len(q)
               PROVE  r[i] = more[i - Len(q)]
    OBVIOUS
  <2>1. i - Len(q) \in 1..Len(more) /\ Len(q) + (i - Len(q)) = i
    BY <1>0, <1>1
  <2> QED  BY <1>1, <2>1
<1>3. \A i \in 1..Len(r) : r[i].kind \in {"shot", "hit"} => r[i].life \in Lives
  BY <1>0, <1>1, <1>2
<1> QED  BY <1>1, <1>3 DEF r

\* The first event leaves the queue.
LEMMA RestTypes ==
    ASSUME TypeInv, queue # <<>>
    PROVE  /\ Head(queue) \in Event /\ Head(queue) = queue[1] /\ Tail(queue) \in Seq(Event)
           /\ Head(queue).kind \in {"shot", "hit"} => Head(queue).life \in Lives
           /\ \A i \in DOMAIN Tail(queue) :
                 Tail(queue)[i].kind \in {"shot", "hit"} => Tail(queue)[i].life \in Lives
<1> DEFINE q == queue
<1>0. /\ q \in Seq(Event) /\ q # <<>>
      /\ \A i \in 1..Len(q) : q[i].kind \in {"shot", "hit"} => q[i].life \in Lives
  BY DEF TypeInv, TypeOK, Planes
<1> HIDE DEF q
<1>1. /\ Head(q) \in Event /\ Head(q) = q[1] /\ Tail(q) \in Seq(Event)
      /\ Len(q) \in Nat \ {0} /\ Len(Tail(q)) = Len(q) - 1
      /\ \A i \in 1..(Len(q) - 1) : Tail(q)[i] = q[i + 1] /\ i + 1 \in 1..Len(q)
  BY <1>0, RestType
<1>2. 1 \in 1..Len(q) /\ DOMAIN Tail(q) = 1..(Len(q) - 1)
  BY <1>1
<1> QED  BY <1>0, <1>1, <1>2 DEF q

\* The events that the bot sends itself: both, unless a ship or nobody is the killer.
LEMMA GiveTypes ==
    ASSUME NEW p \in Player, NEW t \in Threat
    PROVE  \E more \in Seq(Event) :
               /\ more = Reports(p, t)
               /\ Len(more) \in 0..2 /\ (t.by \in {"player", "AI"} => Len(more) = 2)
               /\ \A i \in 1..Len(more) :
                     /\ more[i].who = p
                     /\ \/ i = 1 /\ more[i].kind = "S_kill"
                        \/ i = 2 /\ more[i].kind = "kill" /\ more[i].life = t.life
<1> DEFINE a == [kind |-> "S_kill", who |-> p, by |-> t.by, life |-> t.life]
           b == [kind |-> "kill", who |-> p, by |-> t.by, life |-> t.life]
<1>1. t.by \in Killer /\ t.life \in 0..MaxLives
  BY DEF Threat, Lives
<1>2. /\ a \in Event /\ a.kind = "S_kill" /\ a.who = p
      /\ b \in Event /\ b.kind = "kill" /\ b.who = p /\ b.life = t.life
  BY <1>1 DEF Event
<1>3. \/ t.by = "nobody" /\ Reports(p, t) = <<>>
      \/ t.by = "ship" /\ Reports(p, t) = <<a>>
      \/ t.by \notin {"nobody", "ship"} /\ Reports(p, t) = <<a, b>>
  <2>1. CASE t.by = "nobody"
    BY <2>1 DEF Reports
  <2>2. CASE t.by = "ship"
    BY <2>2 DEF Reports
  <2>3. CASE t.by \notin {"nobody", "ship"}
    BY <2>3 DEF Reports
  <2> QED  BY <2>1, <2>2, <2>3
<1> HIDE DEF a, b
<1>4. PICK more : more = Reports(p, t)
  OBVIOUS
<1> DEFINE IsReport(i) == /\ more[i].who = p
                          /\ \/ i = 1 /\ more[i].kind = "S_kill"
                             \/ i = 2 /\ more[i].kind = "kill" /\ more[i].life = t.life
<1> SUFFICES /\ more \in Seq(Event)
             /\ Len(more) \in 0..2 /\ (t.by \in {"player", "AI"} => Len(more) = 2)
             /\ \A i \in 1..Len(more) : IsReport(i)
  BY <1>4
<1>5. CASE t.by = "nobody" /\ more = <<>>
  <2>1. more \in Seq(Event) /\ Len(more) = 0
    BY <1>5
  <2>2. \A i \in 1..Len(more) : FALSE
    BY <2>1
  <2> QED  BY <1>5, <2>1, <2>2
<1>6. CASE t.by = "ship" /\ more = <<a>>
  <2>1. more \in Seq(Event) /\ Len(more) = 1 /\ more[1] = a
    BY <1>2, <1>6
  <2>2. \A i \in 1..Len(more) : i = 1
    BY <2>1
  <2>3. IsReport(1)
    BY <1>2, <2>1
  <2> QED  BY <1>6, <2>1, <2>2, <2>3
<1>7. CASE t.by \notin {"nobody", "ship"} /\ more = <<a, b>>
  <2>1. more \in Seq(Event) /\ Len(more) = 2 /\ more[1] = a /\ more[2] = b
    BY <1>2, <1>7
  <2>2. \A i \in 1..Len(more) : i = 1 \/ i = 2
    BY <2>1
  <2>3. IsReport(1) /\ IsReport(2)
    BY <1>2, <2>1
  <2> HIDE DEF IsReport
  <2>4. \A i \in 1..Len(more) : IsReport(i)
    BY <2>2, <2>3
  <2> QED  BY <2>1, <2>4
<1> QED  BY <1>3, <1>4, <1>5, <1>6, <1>7

\* The game.
LEMMA GameTypes ==
    ASSUME TypeInv,
           NEW p \in Player,
           \/ Connect(p) \/ TakeSlot(p) \/ Respawn(p) \/ Takeoff(p) \/ Land(p)
           \/ \E by \in Killer : Crash(p, by) \/ \E kind \in {"shot", "hit"} : Fire(p, kind, by)
           \/ \E kind \in {"disconnect", "kicked"} : Disconnect(p, kind)
    PROVE  TypeInv'
<1>1. ASSUME NEW kind \in {"crash", "slot", "connect", "land", "disconnect", "kicked", "kill", "S_kill"},
             NEW by \in Killer
      PROVE  Ev(kind, p, by) \in Event /\ Ev(kind, p, by).kind \notin {"shot", "hit"}
  BY EvType DEF TypeInv
<1>2. ASSUME NEW e \in Event, e.kind \notin {"shot", "hit"} \/ e.life \in Lives, queue' = queue \o <<e>>
      PROVE  /\ queue' \in Seq(Event)
             /\ \A i \in DOMAIN queue' : queue'[i].kind \in {"shot", "hit"} => queue'[i].life \in Lives
  <2>1. /\ <<e>> \in Seq(Event)
        /\ \A i \in 1..Len(<<e>>) : <<e>>[i].kind \in {"shot", "hit"} => <<e>>[i].life \in Lives
    BY <1>2, Rows
  <2> QED  BY <1>2, <2>1, AddTypes
<1>3. CASE Connect(p)
  <2>1. PICK e \in Event : e.kind \notin {"shot", "hit"} /\ queue' = queue \o <<e>>
    BY <1>1, <1>3 DEF Connect, Queues, Killer
  <2> QED  BY <1>2, <1>3, <2>1 DEF Connect, Moves, Bot, plugin, TypeInv, TypeOK, Planes
<1>4. CASE TakeSlot(p)
  <2>1. PICK e \in Event : e.kind \notin {"shot", "hit"} /\ queue' = queue \o <<e>>
    BY <1>1, <1>4 DEF TakeSlot, Queues, Killer
  <2> QED  BY <1>2, <1>4, <2>1 DEF TakeSlot, Moves, Loses, Hurt, Heals, Bot, plugin, TypeInv, TypeOK, Planes
<1>5. CASE Respawn(p)
  BY <1>5 DEF Respawn, Moves, Bot, plugin, TypeInv, TypeOK, Planes
<1>6. CASE Takeoff(p)
  <2>1. life[p] + 1 \in Lives /\ life[p] \in Nat
    BY <1>6, KillAssumption DEF Takeoff, TypeInv, TypeOK, Lives
  <2>2. PICK e \in Event : e.kind \notin {"shot", "hit"} /\ queue' = queue \o <<e>>
    <3>1. [Ev("takeoff", p, "AI") EXCEPT !.life = life[p] + 1] =
             [kind |-> "takeoff", who |-> p, by |-> "AI", life |-> life[p] + 1]
      BY DEF Ev
    <3>2. [kind |-> "takeoff", who |-> p, by |-> "AI", life |-> life[p] + 1] \in Event
      BY <2>1 DEF Event, Killer, Lives
    <3>3. queue' = queue \o <<[kind |-> "takeoff", who |-> p, by |-> "AI", life |-> life[p] + 1]>>
      BY <1>6, <3>1 DEF Takeoff, Queues
    <3>4. [kind |-> "takeoff", who |-> p, by |-> "AI", life |-> life[p] + 1].kind \notin {"shot", "hit"}
      OBVIOUS
    <3> QED  BY <3>2, <3>3, <3>4
  <2>3. life' \in [Player -> 0..MaxLives] /\ life'[p] \in Lives /\ \A q \in Player : q # p => life'[q] = life[q]
    BY <1>6, <2>1 DEF Takeoff, TypeInv, TypeOK, Lives
  <2> QED  BY <1>2, <1>6, <2>2, <2>3 DEF Takeoff, Moves, Heals, Bot, plugin, TypeInv, TypeOK, Planes
<1>7. CASE Land(p)
  <2>1. PICK e \in Event : e.kind \notin {"shot", "hit"} /\ queue' = queue \o <<e>>
    BY <1>1, <1>7 DEF Land, Queues, Killer
  <2> QED  BY <1>2, <1>7, <2>1 DEF Land, Moves, Heals, Bot, plugin, TypeInv, TypeOK, Planes
<1>8. ASSUME NEW by \in Killer, Crash(p, by)
      PROVE  TypeInv'
  <2>1. PICK c \in Event, a \in Event, b \in Event :
               /\ {c.kind, a.kind, b.kind} \cap {"shot", "hit"} = {}
               /\ c = Ev("crash", p, by) /\ a = Ev("S_kill", p, by) /\ b = Ev("kill", p, by)
    BY <1>1
  <2>2. PICK more \in {<<c>>, <<c>> \o <<a, b>>, <<a, b>> \o <<c>>, <<c>> \o <<b>>, <<b>> \o <<c>>} :
               queue' = queue \o more
    BY <1>8, <2>1 DEF Crash, Queues
  <2>3. /\ more \in Seq(Event) /\ Len(more) \in 1..3
        /\ \A i \in 1..Len(more) : more[i] \in {a, b, c}
    <3>1. CASE more = <<c>>
      BY <3>1
    <3>2. CASE more = <<c>> \o <<a, b>>
      <4>1. more \in Seq(Event) /\ Len(more) = 3 /\ more[1] = c /\ more[2] = a /\ more[3] = b
        BY <3>2, Rows
      <4> QED  BY <4>1
    <3>3. CASE more = <<a, b>> \o <<c>>
      <4>1. more \in Seq(Event) /\ Len(more) = 3 /\ more[1] = a /\ more[2] = b /\ more[3] = c
        BY <3>3, Rows
      <4> QED  BY <4>1
    <3>4. CASE more = <<c>> \o <<b>>
      <4>1. more \in Seq(Event) /\ Len(more) = 2 /\ more[1] = c /\ more[2] = b
        BY <3>4, Rows
      <4> QED  BY <4>1
    <3>5. CASE more = <<b>> \o <<c>>
      <4>1. more \in Seq(Event) /\ Len(more) = 2 /\ more[1] = b /\ more[2] = c
        BY <3>5, Rows
      <4> QED  BY <4>1
    <3> QED  BY <2>2, <3>1, <3>2, <3>3, <3>4, <3>5
  <2>4. /\ queue' \in Seq(Event)
        /\ \A i \in DOMAIN queue' : queue'[i].kind \in {"shot", "hit"} => queue'[i].life \in Lives
    BY <2>1, <2>2, <2>3, AddTypes
  <2> QED  BY <1>8, <2>4 DEF Crash, Moves, Loses, Hurt, Heals, Bot, plugin, TypeInv, TypeOK, Planes
<1>9. ASSUME NEW by \in Killer, NEW kind \in {"shot", "hit"}, Fire(p, kind, by)
      PROVE  TypeInv'
  <2>1. PICK e \in Event : e.life \in Lives /\ queue' = queue \o <<e>>
    <3>1. plane[p] = "air" /\ queue' = queue \o <<Ev(kind, p, by)>>
      BY <1>9 DEF Fire, Queues
    <3>2. Ev(kind, p, by) \in Event /\ Ev(kind, p, by).life = life[p]
      BY <1>9, EvType DEF TypeInv
    <3> QED  BY <3>1, <3>2 DEF TypeInv, Planes
  <2>2. fires' \in 0..MaxFire
    BY <1>9, KillAssumption DEF Fire, TypeInv, TypeOK
  <2> QED  BY <1>2, <1>9, <2>1, <2>2 DEF Fire, Bot, plugin, TypeInv, TypeOK, Planes, Age
<1>10. ASSUME NEW kind \in {"disconnect", "kicked"}, Disconnect(p, kind)
       PROVE  TypeInv'
  <2>1. PICK e \in Event : e.kind \notin {"shot", "hit"} /\ queue' = queue \o <<e>>
    BY <1>1, <1>10 DEF Disconnect, Queues, Killer
  <2>2. /\ queue' \in Seq(Event)
        /\ \A i \in DOMAIN queue' : queue'[i].kind \in {"shot", "hit"} => queue'[i].life \in Lives
    BY <1>2, <2>1
  <2>3. lost' \in [Player -> SUBSET Lives]
    <3>1. CASE lost' = lost
      BY <3>1 DEF TypeInv, TypeOK
    <3>2. CASE Loses(p)
      BY <3>2 DEF Loses, Hurt, TypeInv, TypeOK, Planes
    <3> QED  BY <1>10, <3>1, <3>2 DEF Disconnect
  <2> QED  BY <1>10, <2>2, <2>3 DEF Disconnect, Moves, Heals, Bot, plugin, TypeInv, TypeOK, Planes
<1> QED  BY <1>3, <1>4, <1>5, <1>6, <1>7, <1>8, <1>9, <1>10

LEMMA StopTypes ==
    ASSUME TypeInv, NEW s \in Server, SimulationStop(s)
    PROVE  TypeInv'
<1>1. PICK e \in Event : e.kind \notin {"shot", "hit"} /\ queue' = queue \o <<e>>
  <2>1. PICK p \in Player : queue' = queue \o <<Ev("stop", p, "AI")>>
    BY DEF SimulationStop, Queues
  <2>2. Ev("stop", p, "AI") \in Event /\ Ev("stop", p, "AI").kind = "stop"
    BY EvType DEF TypeInv, Killer
  <2> QED  BY <2>1, <2>2
<1>2. /\ <<e>> \in Seq(Event)
      /\ \A i \in 1..Len(<<e>>) : <<e>>[i].kind \in {"shot", "hit"} => <<e>>[i].life \in Lives
  BY <1>1, Rows
<1>3. /\ queue' \in Seq(Event)
      /\ \A i \in DOMAIN queue' : queue'[i].kind \in {"shot", "hit"} => queue'[i].life \in Lives
  BY <1>1, <1>2, AddTypes
<1> QED  BY <1>3 DEF SimulationStop, Bot, plugin, TypeInv, TypeOK, Planes

LEMMA TickTypes ==
    ASSUME TypeInv, Tick
    PROVE  TypeInv'
<1>1. \A a \in Age : Older(a) \in Age
  BY DEF Age, Older
<1>2. \A f \in [Player -> {None} \cup Age] : Ages(f) \in [Player -> {None} \cup Age]
  BY <1>1 DEF Ages
<1>3. \A t \in Threat : [t EXCEPT !.age = Older(@)] \in Threat
  <2> SUFFICES ASSUME NEW t \in Threat
               PROVE  [t EXCEPT !.age = Older(@)] \in Threat
    OBVIOUS
  <2>1. Older(t.age) \in Age
    BY <1>1 DEF Threat
  <2> QED  BY <2>1 DEF Threat
<1>4. pending' \in [Player -> {None, Flying} \cup Threat]
  BY <1>3 DEF Tick, Threatened, TypeInv, TypeOK
<1> QED  BY <1>2, <1>4 DEF Tick, TypeInv, TypeOK, Planes

\* A kill more for plane l, or for none.
LEMMA KillLives ==
    ASSUME NEW f \in [Lives -> Nat], NEW l
    PROVE  [f EXCEPT ![l] = @ + 1] \in [Lives -> Nat]
<1> DEFINE g == [f EXCEPT ![l] = @ + 1]
<1>1. \A k \in Lives : g[k] = IF k = l THEN f[k] + 1 ELSE f[k]
  OBVIOUS
<1>2. \A k \in Lives : g[k] \in Nat
  BY <1>1
<1> QED  BY <1>2

\* The plugin.
LEMMA HandlerTypes ==
    ASSUME TypeInv,
           \/ HandleTakeoff \/ HandleFire \/ HandleLand \/ HandleSKill \/ HandleCrash \/ HandleKill
           \/ HandleConnect \/ HandleStop
    PROVE  TypeInv'
<1> DEFINE e == Head(queue)
<1>1. queue # <<>> /\ queue' = Tail(queue) /\ UNCHANGED world
  BY DEF HandleTakeoff, HandleFire, HandleLand, HandleSKill, HandleCrash, HandleKill,
         HandleConnect, HandleStop, Handles, Rest, Alone
<1>2. /\ e \in Event /\ e.who \in Player /\ queue' \in Seq(Event)
      /\ e.kind \in {"shot", "hit"} => e.life \in Lives
      /\ \A i \in DOMAIN queue' : queue'[i].kind \in {"shot", "hit"} => queue'[i].life \in Lives
  BY <1>1, RestTypes DEF Event
<1>3. CASE HandleTakeoff
  BY <1>1, <1>2, <1>3 DEF HandleTakeoff, Keeps, Alone, world, TypeInv, TypeOK, Planes
<1>4. CASE HandleFire
  <2>1. e.kind \in {"shot", "hit"}
    BY <1>4 DEF HandleFire, Handles
  <2>2. [kind |-> e.kind, by |-> e.by, life |-> e.life, age |-> "fresh"] \in Threat
    BY <1>2, <2>1 DEF Threat, Age, Event
  <2>3. pending' \in [Player -> {None, Flying} \cup Threat]
    BY <1>2, <1>4, <2>2 DEF HandleFire, TypeInv, TypeOK
  <2>4. UNCHANGED <<disconnected, awaiting, timers, kills>>
    BY <1>4 DEF HandleFire, Keeps, Alone
  <2> QED  BY <1>1, <1>2, <2>3, <2>4 DEF world, TypeInv, TypeOK, Planes
<1>5. CASE HandleLand \/ HandleStop \/ HandleConnect
  BY <1>1, <1>2, <1>5 DEF HandleLand, HandleStop, HandleConnect, Forgets, Keeps, Alone, world, TypeInv, TypeOK, Planes
<1>6. CASE HandleSKill
  BY <1>1, <1>2, <1>6 DEF HandleSKill, Forgets, Cancels, Releases, Alone, world, TypeInv, TypeOK, Planes
<1>7. CASE HandleCrash
  <2>1. Threatened(e.who) => pending[e.who] \in Threat
    BY <1>2 DEF Threatened, TypeInv, TypeOK
  <2>2. UNCHANGED <<disconnected, kills>> /\ pending' \in [Player -> {None, Flying} \cup Threat]
    BY <1>2, <1>7 DEF HandleCrash, Forgets, Alone, TypeInv, TypeOK
  <2>3. /\ timers' \in [Player -> SUBSET Threat]
        /\ awaiting' \in [Player -> {None} \cup Threat]
        /\ \A p \in Player : awaiting'[p] = None \/ awaiting'[p] \in timers'[p]
    <3>1. CASE UNCHANGED <<awaiting, timers>>
      BY <3>1 DEF TypeInv, TypeOK
    <3>2. CASE /\ Threatened(e.who)
               /\ timers' = [timers EXCEPT ![e.who] = (@ \ {awaiting[e.who]}) \cup {pending[e.who]}]
               /\ awaiting' = [awaiting EXCEPT ![e.who] = pending[e.who]]
      BY <1>2, <2>1, <3>2 DEF TypeInv, TypeOK
    <3> QED  BY <1>7, <3>1, <3>2 DEF HandleCrash, Keeps
  <2> QED  BY <1>1, <1>2, <2>2, <2>3 DEF world, TypeInv, TypeOK, Planes
<1>8. CASE HandleKill
  <2>1. kills' \in [Player -> [Lives -> Nat]]
    <3>1. kills' = [kills EXCEPT ![e.who] = [kills[e.who] EXCEPT ![e.life] = @ + 1]]
      BY <1>8 DEF HandleKill
    <3>2. kills[e.who] \in [Lives -> Nat]
      BY <1>2 DEF TypeInv, TypeOK
    <3>3. [kills[e.who] EXCEPT ![e.life] = @ + 1] \in [Lives -> Nat]
      BY <3>2, KillLives
    <3> QED  BY <3>1, <3>3 DEF TypeInv, TypeOK
  <2>2. UNCHANGED world /\ UNCHANGED disconnected
    BY <1>8 DEF HandleKill
  <2>3. /\ pending' \in [Player -> {None, Flying} \cup Threat]
        /\ timers' \in [Player -> SUBSET Threat]
        /\ awaiting' \in [Player -> {None} \cup Threat]
        /\ \A p \in Player : awaiting'[p] = None \/ awaiting'[p] \in timers'[p]
    <3>1. CASE UNCHANGED <<pending, awaiting, timers>>
      BY <3>1 DEF TypeInv, TypeOK
    <3>2. CASE Forgets(e.who) /\ Cancels(e.who)
      BY <1>2, <3>2 DEF Forgets, Cancels, Releases, TypeInv, TypeOK
    <3> QED  BY <1>8, <3>1, <3>2 DEF HandleKill
  <2> QED  BY <1>2, <2>1, <2>2, <2>3 DEF world, TypeInv, TypeOK, Planes
<1> QED  BY <1>3, <1>4, <1>5, <1>6, <1>7, <1>8

LEMMA GiverTypes ==
    ASSUME TypeInv, HandleSlot \/ HandleDisconnect \/ \E p \in Player : Fires(p)
    PROVE  TypeInv'
<1>1. ASSUME NEW p \in Player, NEW t \in Threat, NEW left \in Seq(Event), Sends(p, t, left),
             \A i \in DOMAIN left : left[i].kind \in {"shot", "hit"} => left[i].life \in Lives
      PROVE  /\ queue' \in Seq(Event)
             /\ \A i \in DOMAIN queue' : queue'[i].kind \in {"shot", "hit"} => queue'[i].life \in Lives
  <2>1. PICK more \in Seq(Event) :
               /\ more = Reports(p, t)
               /\ \A i \in 1..Len(more) : more[i].kind \in {"S_kill", "kill"}
    BY GiveTypes
  <2>2. queue' = left \o more
    BY <1>1, <2>1 DEF Sends
  <2> DEFINE r == queue'
  <2>3. /\ r \in Seq(Event) /\ Len(r) = Len(left) + Len(more)
        /\ \A i \in 1..Len(left) : r[i] = left[i]
        /\ \A i \in 1..Len(more) : r[Len(left) + i] = more[i]
        /\ \A i \in 1..Len(r) : i \in 1..Len(left) \/ (i > Len(left) /\ i - Len(left) \in 1..Len(more))
    BY <2>2, QueuesType
  <2> HIDE DEF r
  <2>4. \A i \in 1..Len(r) : i \in 1..Len(left) \/ r[i].kind \in {"S_kill", "kill"}
    <3> SUFFICES ASSUME NEW i \in 1..Len(r), i \notin 1..Len(left)
                 PROVE  r[i].kind \in {"S_kill", "kill"}
      OBVIOUS
    <3>1. i - Len(left) \in 1..Len(more) /\ Len(left) + (i - Len(left)) = i
      BY <2>3
    <3>2. r[i] = more[i - Len(left)]
      BY <2>3, <3>1
    <3> QED  BY <2>1, <3>1, <3>2
  <2>5. DOMAIN r = 1..Len(r) /\ DOMAIN left = 1..Len(left)
    BY <2>3
  <2>6. \A i \in DOMAIN r : r[i].kind \in {"shot", "hit"} => r[i].life \in Lives
    BY <1>1, <2>3, <2>4, <2>5
  <2> QED  BY <2>3, <2>6 DEF r
<1>2. \A p \in Player : Threatened(p) => pending[p] \in Threat
  BY DEF Threatened, TypeInv, TypeOK
<1>3. CASE HandleSlot
  <2>1. /\ queue # <<>> /\ Rest \in Seq(Event) /\ Head(queue).who \in Player
        /\ \A i \in DOMAIN Rest : Rest[i].kind \in {"shot", "hit"} => Rest[i].life \in Lives
    BY <1>3, RestTypes DEF HandleSlot, Handles, Rest, Event
  <2>2. /\ queue' \in Seq(Event)
        /\ \A i \in DOMAIN queue' : queue'[i].kind \in {"shot", "hit"} => queue'[i].life \in Lives
    BY <1>1, <1>2, <1>3, <2>1 DEF HandleSlot, Gives
  <2> QED  BY <1>3, <2>1, <2>2 DEF HandleSlot, Forgets, Gives, Releases, Alone, world, TypeInv, TypeOK, Planes
<1>4. CASE HandleDisconnect
  <2>1. /\ queue # <<>> /\ Rest \in Seq(Event) /\ Head(queue).who \in Player
        /\ \A i \in DOMAIN Rest : Rest[i].kind \in {"shot", "hit"} => Rest[i].life \in Lives
    BY <1>4, RestTypes DEF HandleDisconnect, Handles, Rest, Event
  <2>2. /\ queue' \in Seq(Event)
        /\ \A i \in DOMAIN queue' : queue'[i].kind \in {"shot", "hit"} => queue'[i].life \in Lives
    BY <1>1, <1>2, <1>4, <2>1 DEF HandleDisconnect, Gives
  <2>3. disconnected' \in [Player -> {None} \cup Age]
    BY <1>4, <2>1 DEF HandleDisconnect, TypeInv, TypeOK, Age
  <2> QED  BY <1>4, <2>1, <2>2, <2>3 DEF HandleDisconnect, Forgets, Gives, Releases, Alone, world, TypeInv, TypeOK, Planes
<1>5. ASSUME NEW p \in Player, Fires(p)
      PROVE  TypeInv'
  <2>1. PICK t \in timers[p] : /\ timers' = [timers EXCEPT ![p] = @ \ {t}]
                               /\ Sends(p, t, queue) /\ Releases(p)
    BY <1>5 DEF Fires
  <2>2. t \in Threat /\ queue \in Seq(Event)
    BY DEF TypeInv, TypeOK
  <2>3. /\ queue' \in Seq(Event)
        /\ \A i \in DOMAIN queue' : queue'[i].kind \in {"shot", "hit"} => queue'[i].life \in Lives
    BY <1>1, <2>1, <2>2 DEF TypeInv, Planes
  <2> QED  BY <1>5, <2>1, <2>3 DEF Fires, Releases, Alone, world, TypeInv, TypeOK, Planes
<1> QED  BY <1>3, <1>4, <1>5

LEMMA TypeInit == Init => TypeInv
<1>1. <<>> \in Seq(Event) /\ DOMAIN <<>> = {}
  OBVIOUS
<1> QED  BY <1>1, KillAssumption DEF Init, TypeInv, TypeOK, Planes

LEMMA TypeStep == TypeInv /\ [Next]_vars => TypeInv'
<1> SUFFICES ASSUME TypeInv, [Next]_vars
             PROVE  TypeInv'
  OBVIOUS
<1>1. CASE Next
  BY <1>1, GameTypes, StopTypes, TickTypes, HandlerTypes, GiverTypes DEF Next
<1>2. CASE UNCHANGED vars
  BY <1>2 DEF vars, world, plugin, TypeInv, TypeOK, Planes
<1> QED  BY <1>1, <1>2

\* Every variable of the plugin and of the game keeps its type, in particular a pilot in
\* the air has a plane.
THEOREM TypeCorrect == Spec => []TypeOK
BY TypeInit, TypeStep, PTL DEF Spec, TypeInv

-----------------------------------------------------------------------------
(* One player: v are the n events of the queue, s is his state.            *)

Settles == {"S_kill", "kill", "crash", "slot", "disconnect"}
Fired == {"shot", "hit"}
Ending == {"land", "crash", "slot", "disconnect", "kicked", "stop"}

Mark(e, p) == IF e.kind = "stop" \/ e.who = p THEN e ELSE [e EXCEPT !.kind = "connect"]
View(q, p) == [i \in 1..Len(q) |-> Mark(q[i], p)]
Of(p) == [plane |-> plane[p], life |-> life[p], hit |-> hit[p], lost |-> lost[p],
          pending |-> pending[p], awaiting |-> awaiting[p], timers |-> timers[p],
          kills |-> kills[p]]

Typed(v, n, s) ==
    /\ n \in Nat /\ v \in [1..n -> Event]
    /\ s.plane \in {"out", "spectator", "ground", "air", "down"}
    /\ s.life \in 0..MaxLives /\ s.hit \in {None} \cup Age /\ s.lost \subseteq Lives
    /\ s.pending \in {None, Flying} \cup Threat /\ s.timers \subseteq Threat
    /\ s.awaiting = None \/ s.awaiting \in s.timers
    /\ s.kills \in [Lives -> Nat]
    /\ s.plane = "air" => s.life \in Lives
    /\ \A i \in 1..n : v[i].kind \in Fired => v[i].life \in Lives

Feared(s) == s.pending \notin {None, Flying}
Cold(v, n, s) ==
    /\ ~Feared(s) /\ s.timers = {}
    /\ \A i \in 1..n : v[i].kind \notin Fired

\* While the end of his plane is to be handled, a player is not in the air again.
OverFirst(v, n, s) ==
    \A i \in 1..n : v[i].kind \in Settles =>
        s.plane # "air" /\ \A j \in i..n : v[j].kind \notin Fired \cup {"takeoff"}

\* The timer that runs is the one that is remembered, and he has nothing else to fear.
OneTimer(v, n, s) ==
    \A t \in s.timers :
        /\ s.awaiting = t /\ s.timers = {t} /\ t.life = s.life /\ s.kills[s.life] = 0
        /\ s.plane # "air" /\ ~Feared(s)
        /\ \A i \in 1..n : v[i].kind \notin Fired \cup {"takeoff"}

\* One report of the kill of his plane is on its way, and nobody can add another one
\* who has not yet heard of it.
OneReport(v, n, s) ==
    \A i \in 1..n : v[i].kind = "kill" =>
        /\ v[i].life = s.life /\ s.life \in Lives /\ s.kills[s.life] = 0
        /\ \A j \in 1..n : v[j].kind = "kill" => j = i
        /\ v[i].by = "AI" => Cold(v, n, s) \/ \E j \in 1..n : j < i /\ v[j].kind = "S_kill"
        /\ \A j \in 1..n : j < i /\ v[j].kind \in {"slot", "disconnect"} => Cold(v, n, s)

\* His plane was shot down at most once, and if so there is nothing more to come.
Counted(v, n, s) ==
    /\ \A k \in Lives : s.kills[k] <= 1 /\ (k > s.life => s.kills[k] = 0)
    /\ s.life \in Lives /\ s.kills[s.life] = 1 => Cold(v, n, s) /\ s.plane # "air"

\* What he fears is about the plane he has, unless he is about to take off in a new one.
Aims(v, n, s) ==
    /\ \A i \in 1..n : v[i].kind \in Fired =>
          v[i].life = s.life \/ \E j \in 1..n : i < j /\ v[j].kind = "takeoff"
    /\ Feared(s) => s.pending.life = s.life \/ \E j \in 1..n : v[j].kind = "takeoff"

KillInv(v, n, s) ==
    /\ OverFirst(v, n, s) /\ OneTimer(v, n, s) /\ OneReport(v, n, s)
    /\ Counted(v, n, s) /\ Aims(v, n, s)

-----------------------------------------------------------------------------
(* The queue moves on, and others put events into it.                      *)

\* The first event is of no interest any more.
LEMMA ShiftKills ==
    ASSUME NEW v, NEW w, NEW n \in Nat \ {0}, NEW s, KillInv(v, n, s),
           v[1].kind = "connect", w \in [1..(n - 1) -> Event],
           \A i \in 1..(n - 1) : w[i] = v[i + 1]
    PROVE  KillInv(w, n - 1, s)
<1>1. \A i \in 1..(n - 1) : i + 1 \in 1..n /\ w[i] = v[i + 1]
  OBVIOUS
<1>2. \A i \in 1..n : v[i].kind # "connect" =>
          i - 1 \in 1..(n - 1) /\ w[i - 1] = v[i]
  <2> SUFFICES ASSUME NEW i \in 1..n, v[i].kind # "connect"
               PROVE  i - 1 \in 1..(n - 1) /\ w[i - 1] = v[i]
    OBVIOUS
  <2>1. i # 1
    OBVIOUS
  <2>2. i - 1 \in 1..(n - 1) /\ (i - 1) + 1 = i
    BY <2>1
  <2> QED  BY <2>2
<1>3. Cold(v, n, s) => Cold(w, n - 1, s)
  BY <1>1 DEF Cold
<1>4. OverFirst(w, n - 1, s)
  <2> SUFFICES ASSUME NEW i \in 1..(n - 1), w[i].kind \in Settles
               PROVE  s.plane # "air" /\ \A j \in i..(n - 1) : w[j].kind \notin Fired \cup {"takeoff"}
    BY DEF OverFirst
  <2>1. /\ s.plane # "air"
        /\ \A j \in (i + 1)..n : v[j].kind \notin Fired \cup {"takeoff"}
    BY <1>1 DEF KillInv, OverFirst
  <2>2. \A j \in i..(n - 1) : j \in 1..(n - 1) /\ j + 1 \in (i + 1)..n
    OBVIOUS
  <2> QED  BY <1>1, <2>1, <2>2
<1>5. OneTimer(w, n - 1, s)
  BY <1>1 DEF KillInv, OneTimer
<1>6. OneReport(w, n - 1, s)
  <2> SUFFICES ASSUME NEW i \in 1..(n - 1), w[i].kind = "kill"
               PROVE  /\ w[i].life = s.life /\ s.life \in Lives /\ s.kills[s.life] = 0
                      /\ \A j \in 1..(n - 1) : w[j].kind = "kill" => j = i
                      /\ w[i].by = "AI" => \/ Cold(w, n - 1, s)
                                           \/ \E j \in 1..(n - 1) : j < i /\ w[j].kind = "S_kill"
                      /\ \A j \in 1..(n - 1) : j < i /\ w[j].kind \in {"slot", "disconnect"} =>
                            Cold(w, n - 1, s)
    BY DEF OneReport
  <2>1. i + 1 \in 1..n /\ v[i + 1] = w[i]
    BY <1>1
  <2>2. /\ v[i + 1].life = s.life /\ s.life \in Lives /\ s.kills[s.life] = 0
        /\ \A j \in 1..n : v[j].kind = "kill" => j = i + 1
        /\ v[i + 1].by = "AI" => \/ Cold(v, n, s)
                                 \/ \E j \in 1..n : j < i + 1 /\ v[j].kind = "S_kill"
        /\ \A j \in 1..n : j < i + 1 /\ v[j].kind \in {"slot", "disconnect"} => Cold(v, n, s)
    BY <2>1 DEF KillInv, OneReport
  <2>3. ASSUME NEW j \in 1..n, j < i + 1, v[j].kind = "S_kill"
        PROVE  \E k \in 1..(n - 1) : k < i /\ w[k].kind = "S_kill"
    <3>1. j - 1 \in 1..(n - 1) /\ w[j - 1] = v[j] /\ j - 1 < i
      BY <1>2, <2>3
    <3> QED  BY <2>3, <3>1
  <2>4. ASSUME NEW j \in 1..(n - 1), w[j].kind = "kill"
        PROVE  j = i
    <3>1. j + 1 \in 1..n /\ v[j + 1].kind = "kill"
      BY <1>1, <2>4
    <3>2. j + 1 = i + 1
      BY <2>2, <3>1
    <3> QED  BY <3>2
  <2>5. \A j \in 1..(n - 1) : j < i => j + 1 < i + 1
    OBVIOUS
  <2> QED  BY <1>1, <1>3, <2>1, <2>2, <2>3, <2>4, <2>5
<1>7. Counted(w, n - 1, s)
  BY <1>3 DEF KillInv, Counted
<1>8. Aims(w, n - 1, s)
  <2>1. ASSUME NEW j \in 1..n, v[j].kind = "takeoff"
        PROVE  j - 1 \in 1..(n - 1) /\ w[j - 1].kind = "takeoff"
    BY <1>2, <2>1
  <2>2. ASSUME NEW i \in 1..(n - 1), w[i].kind \in Fired, w[i].life # s.life
        PROVE  \E j \in 1..(n - 1) : i < j /\ w[j].kind = "takeoff"
    <3>1. PICK j \in 1..n : i + 1 < j /\ v[j].kind = "takeoff"
      BY <1>1, <2>2 DEF KillInv, Aims
    <3> QED  BY <2>1, <3>1
  <2>3. ASSUME Feared(s), s.pending.life # s.life
        PROVE  \E j \in 1..(n - 1) : w[j].kind = "takeoff"
    BY <2>1, <2>3 DEF KillInv, Aims
  <2> QED  BY <2>2, <2>3 DEF Aims
<1> QED  BY <1>4, <1>5, <1>6, <1>7, <1>8 DEF KillInv

\* Events of no interest at the end.
LEMMA NeutralKills ==
    ASSUME NEW v, NEW w, NEW n \in Nat, NEW m \in Nat, n <= m, NEW s, KillInv(v, n, s),
           \A i \in 1..n : w[i] = v[i],
           \A i \in 1..m : i > n => w[i].kind \in {"connect", "land", "kicked", "stop"}
    PROVE  KillInv(w, m, s)
<1>1. \A i \in 1..m : w[i].kind \notin {"connect", "land", "kicked", "stop"} =>
          i \in 1..n /\ w[i] = v[i]
  OBVIOUS
<1>2. \A i \in 1..n : i \in 1..m /\ w[i] = v[i]
  OBVIOUS
<1>3. Cold(v, n, s) => Cold(w, m, s)
  BY <1>1 DEF Cold, Fired
<1>4. OverFirst(w, m, s)
  <2> SUFFICES ASSUME NEW i \in 1..m, w[i].kind \in Settles
               PROVE  s.plane # "air" /\ \A j \in i..m : w[j].kind \notin Fired \cup {"takeoff"}
    BY DEF OverFirst
  <2>1. i \in 1..n /\ w[i] = v[i]
    BY <1>1 DEF Settles
  <2>2. s.plane # "air" /\ \A j \in i..n : v[j].kind \notin Fired \cup {"takeoff"}
    BY <2>1 DEF KillInv, OverFirst
  <2>3. \A j \in i..m : j \in 1..m /\ (j \in 1..n => j \in i..n)
    OBVIOUS
  <2> QED  BY <1>1, <2>2, <2>3 DEF Fired
<1>5. OneTimer(w, m, s)
  BY <1>1 DEF KillInv, OneTimer, Fired
<1>6. OneReport(w, m, s)
  BY <1>1, <1>2, <1>3 DEF KillInv, OneReport
<1>7. Counted(w, m, s)
  BY <1>3 DEF KillInv, Counted
<1>8. Aims(w, m, s)
  BY <1>1, <1>2 DEF KillInv, Aims, Fired
<1> QED  BY <1>4, <1>5, <1>6, <1>7, <1>8 DEF KillInv

-----------------------------------------------------------------------------
(* The plugin handles an event, whose mark changes.                        *)

Drops(v, w, n) ==
    /\ n \in Nat \ {0} /\ w[1].kind = "connect"
    /\ \A i \in 1..n : i # 1 => w[i] = v[i]

\* Fields of the state that KillInv is about, apart from the threats.
SamePlane(s, r) == r.plane = s.plane /\ r.life = s.life

LEMMA TakeoffKills ==
    ASSUME NEW v, NEW w, NEW n, NEW s, NEW r, KillInv(v, n, s), Typed(v, n, s), Drops(v, w, n),
           v[1].kind = "takeoff", SamePlane(s, r), r.timers = s.timers,
           r.awaiting = s.awaiting, r.kills = s.kills, r.pending = Flying
    PROVE  KillInv(w, n, r)
<1>1. /\ \A i \in 1..n : w[i].kind # "connect" => i # 1 /\ w[i] = v[i]
      /\ \A i \in 1..n : i # 1 => w[i] = v[i]
      /\ 1 \in 1..n /\ n \in Nat
  BY DEF Drops
<1>2. s.timers = {} /\ ~Feared(r)
  BY <1>1 DEF KillInv, OneTimer, Feared
<1>3. Cold(v, n, s) => Cold(w, n, r)
  BY <1>1, <1>2 DEF Cold, Fired
<1>4. OverFirst(w, n, r)
  <2>1. \A i \in 1..n : \A j \in i..n : j \in 1..n /\ (j = 1 => i = 1)
    BY <1>1
  <2> QED  BY <1>1, <2>1 DEF KillInv, OverFirst, Settles, Fired, SamePlane
<1>5. OneTimer(w, n, r)
  BY <1>2 DEF OneTimer
<1>6. OneReport(w, n, r)
  BY <1>1, <1>3 DEF KillInv, OneReport, SamePlane
<1>7. Counted(w, n, r)
  BY <1>3 DEF KillInv, Counted, SamePlane
<1>8. Aims(w, n, r)
  <2> SUFFICES ASSUME NEW i \in 1..n, w[i].kind \in Fired, w[i].life # s.life
               PROVE  \E j \in 1..n : i < j /\ w[j].kind = "takeoff"
    BY <1>2 DEF Aims, SamePlane
  <2>1. i # 1 /\ w[i] = v[i]
    BY <1>1 DEF Fired
  <2>2. PICK j \in 1..n : i < j /\ v[j].kind = "takeoff"
    BY <2>1 DEF KillInv, Aims
  <2>3. j # 1
    BY <2>1, <2>2
  <2> QED  BY <1>1, <2>2, <2>3
<1> QED  BY <1>4, <1>5, <1>6, <1>7, <1>8 DEF KillInv

\* An event at which the plugin forgets, and does nothing else.
LEMMA ForgetKills ==
    ASSUME NEW v, NEW w, NEW n, NEW s, NEW r, KillInv(v, n, s), Typed(v, n, s), Drops(v, w, n),
           v[1].kind \in {"land", "crash", "slot", "disconnect", "kicked", "stop"}, SamePlane(s, r),
           r.timers = s.timers, r.awaiting = s.awaiting, r.kills = s.kills, r.pending = None
    PROVE  KillInv(w, n, r)
<1>1. /\ \A i \in 1..n : w[i].kind # "connect" => i # 1 /\ w[i] = v[i]
      /\ \A i \in 1..n : i # 1 => w[i] = v[i]
      /\ \A i \in 1..n : v[i].kind \in {"kill", "S_kill", "takeoff"} => w[i] = v[i]
      /\ 1 \in 1..n /\ n \in Nat
  BY DEF Drops
<1>2. ~Feared(r)
  BY DEF Feared
<1>3. Cold(v, n, s) => Cold(w, n, r)
  BY <1>1, <1>2 DEF Cold, Fired
<1>4. OverFirst(w, n, r)
  <2>1. \A i \in 1..n : \A j \in i..n : j \in 1..n /\ (j = 1 => i = 1)
    BY <1>1
  <2> QED  BY <1>1, <2>1 DEF KillInv, OverFirst, Settles, Fired, SamePlane
<1>5. OneTimer(w, n, r)
  BY <1>1, <1>2 DEF KillInv, OneTimer, SamePlane, Fired
<1>6. OneReport(w, n, r)
  BY <1>1, <1>3 DEF KillInv, OneReport, SamePlane
<1>7. Counted(w, n, r)
  BY <1>3 DEF KillInv, Counted, SamePlane
<1>8. Aims(w, n, r)
  BY <1>1, <1>2 DEF KillInv, Aims, SamePlane, Fired
<1> QED  BY <1>4, <1>5, <1>6, <1>7, <1>8 DEF KillInv

\* A shot or a hit is noted or not.
LEMMA FireKills ==
    ASSUME NEW v, NEW w, NEW n, NEW s, NEW r, KillInv(v, n, s), Typed(v, n, s), Drops(v, w, n),
           v[1].kind \in Fired, SamePlane(s, r),
           r.timers = s.timers, r.awaiting = s.awaiting, r.kills = s.kills,
           r.pending = s.pending \/ r.pending.life = v[1].life
    PROVE  KillInv(w, n, r)
<1>1. /\ \A i \in 1..n : w[i].kind # "connect" => i # 1 /\ w[i] = v[i]
      /\ \A i \in 1..n : i # 1 => w[i] = v[i]
      /\ \A i \in 1..n : v[i].kind \in {"kill", "S_kill", "takeoff"} => w[i] = v[i]
      /\ 1 \in 1..n /\ n \in Nat
  BY DEF Drops, Fired
<1>2. s.timers = {} /\ ~Cold(v, n, s)
  BY <1>1 DEF KillInv, OneTimer, Cold
<1>4. OverFirst(w, n, r)
  <2>1. \A i \in 1..n : \A j \in i..n : j \in 1..n /\ (j = 1 => i = 1)
    BY <1>1
  <2> QED  BY <1>1, <2>1 DEF KillInv, OverFirst, Settles, Fired, SamePlane
<1>5. OneTimer(w, n, r)
  BY <1>2 DEF OneTimer
<1>6. OneReport(w, n, r)
  BY <1>1, <1>2 DEF KillInv, OneReport, SamePlane
<1>7. Counted(w, n, r)
  BY <1>2 DEF KillInv, Counted, SamePlane
<1>8. Aims(w, n, r)
  <2>1. \A i \in 1..n : w[i].kind \in Fired => w[i] = v[i] /\ i # 1
    BY <1>1 DEF Fired
  <2>2. \A i \in 1..n : w[i].kind \in Fired =>
            w[i].life = r.life \/ \E j \in 1..n : i < j /\ w[j].kind = "takeoff"
    BY <1>1, <2>1 DEF KillInv, Aims, SamePlane
  <2>3. r.pending.life = v[1].life => 
            r.pending.life = r.life \/ \E j \in 1..n : w[j].kind = "takeoff"
    BY <1>1 DEF KillInv, Aims, SamePlane
  <2>4. r.pending = s.pending /\ Feared(r) =>
            r.pending.life = r.life \/ \E j \in 1..n : w[j].kind = "takeoff"
    BY <1>1 DEF KillInv, Aims, SamePlane, Feared
  <2> QED  BY <2>2, <2>3, <2>4 DEF Aims
<1> QED  BY <1>4, <1>5, <1>6, <1>7, <1>8 DEF KillInv

\* DCS or the bot reports the kill: what is noted is forgotten, the timer cancelled.
LEMMA SKillKills ==
    ASSUME NEW v, NEW w, NEW n, NEW s, NEW r, KillInv(v, n, s), Typed(v, n, s), Drops(v, w, n),
           v[1].kind = "S_kill", SamePlane(s, r),
           r.timers = s.timers \ {s.awaiting}, r.kills = s.kills, r.pending = None
    PROVE  KillInv(w, n, r) /\ Cold(w, n, r)
<1>1. /\ \A i \in 1..n : w[i].kind # "connect" => i # 1 /\ w[i] = v[i]
      /\ \A i \in 1..n : i # 1 => w[i] = v[i]
      /\ 1 \in 1..n /\ n \in Nat
      /\ \A i \in 1..n : i \in 1..n
  BY DEF Drops
<1>2. r.timers = {} /\ ~Feared(r)
  BY DEF KillInv, OneTimer, Feared
<1>3. Cold(w, n, r)
  BY <1>1, <1>2 DEF KillInv, OverFirst, Cold, Fired, Settles
<1>4. OverFirst(w, n, r)
  <2>1. \A i \in 1..n : \A j \in i..n : j \in 1..n /\ (j = 1 => i = 1)
    BY <1>1
  <2> QED  BY <1>1, <2>1 DEF KillInv, OverFirst, Settles, Fired, SamePlane
<1>5. OneTimer(w, n, r)
  BY <1>2 DEF OneTimer
<1>6. OneReport(w, n, r)
  BY <1>1, <1>3 DEF KillInv, OneReport, SamePlane
<1>7. Counted(w, n, r)
  BY <1>3 DEF KillInv, Counted, SamePlane
<1>8. Aims(w, n, r)
  BY <1>2, <1>3 DEF Cold, Aims
<1> QED  BY <1>3, <1>4, <1>5, <1>6, <1>7, <1>8 DEF KillInv

\* The kill counts.
LEMMA KillKills ==
    ASSUME NEW v, NEW w, NEW n, NEW s, NEW r, KillInv(v, n, s), Typed(v, n, s), Drops(v, w, n),
           v[1].kind = "kill", SamePlane(s, r),
           r.kills = [s.kills EXCEPT ![v[1].life] = @ + 1],
           \/ v[1].by = "AI" /\ r.pending = s.pending /\ r.timers = s.timers
           \/ r.pending = None /\ r.timers = s.timers \ {s.awaiting}
    PROVE  KillInv(w, n, r) /\ r.kills[s.life] = 1 /\ v[1].life = s.life /\ s.life \in Lives
<1>1. /\ \A i \in 1..n : w[i].kind # "connect" => i # 1 /\ w[i] = v[i]
      /\ \A i \in 1..n : i # 1 => w[i] = v[i]
      /\ 1 \in 1..n /\ n \in Nat
      /\ \A i \in 1..n : v[i].kind = "kill" => i = 1
      /\ ~\E j \in 1..n : j < 1
  BY DEF Drops, KillInv, OneReport
<1>2. /\ v[1].life = s.life /\ s.life \in Lives /\ s.kills[s.life] = 0
      /\ \A i \in 1..n : v[i].kind \notin Fired \cup {"takeoff"}
      /\ s.plane # "air"
  BY <1>1 DEF KillInv, OneReport, OverFirst, Settles
<1>3. Cold(w, n, r)
  <2>1. CASE v[1].by = "AI" /\ r.pending = s.pending /\ r.timers = s.timers
    BY <1>1, <2>1 DEF KillInv, OneReport, Cold, Fired, Feared
  <2>2. CASE r.pending = None /\ r.timers = s.timers \ {s.awaiting}
    BY <1>1, <1>2, <2>2 DEF KillInv, OneTimer, Cold, Fired, Feared
  <2> QED  BY <2>1, <2>2
<1>4. OverFirst(w, n, r)
  <2>1. \A i \in 1..n : \A j \in i..n : j \in 1..n /\ (j = 1 => i = 1)
    BY <1>1
  <2> QED  BY <1>1, <2>1 DEF KillInv, OverFirst, Settles, Fired, SamePlane
<1>5. OneTimer(w, n, r)
  BY <1>3 DEF OneTimer, Cold
<1>6. OneReport(w, n, r)
  BY <1>1 DEF OneReport
<1>7. Counted(w, n, r) /\ r.kills[s.life] = 1
  <2>1. /\ s.kills \in [Lives -> Nat] /\ r.kills[s.life] = 1
        /\ \A k \in Lives : k # s.life => r.kills[k] = s.kills[k]
    BY <1>2 DEF Typed
  <2>2. \A k \in Lives : k > s.life => k # s.life
    BY <1>2 DEF Lives
  <2> QED  BY <1>2, <1>3, <2>1, <2>2 DEF KillInv, Counted, SamePlane
<1>8. Aims(w, n, r)
  BY <1>3 DEF Cold, Aims
<1> QED  BY <1>2, <1>4, <1>5, <1>6, <1>7, <1>8 DEF KillInv

\* A crash under fire starts the timer.
Scheduled(s, r) ==
    /\ Feared(s) /\ r.timers = (s.timers \ {s.awaiting}) \cup {s.pending}
    /\ r.awaiting = s.pending

LEMMA CrashKills ==
    ASSUME NEW v, NEW w, NEW n, NEW s, NEW r, KillInv(v, n, s), Typed(v, n, s), Drops(v, w, n),
           v[1].kind = "crash", SamePlane(s, r), Scheduled(s, r), r.kills = s.kills, r.pending = None
    PROVE  KillInv(w, n, r) /\ r.timers = {s.pending} /\ s.pending.life = s.life
<1>1. /\ \A i \in 1..n : w[i].kind # "connect" => i # 1 /\ w[i] = v[i]
      /\ \A i \in 1..n : i # 1 => w[i] = v[i]
      /\ \A i \in 1..n : v[i].kind \in {"kill", "S_kill", "takeoff"} => w[i] = v[i]
      /\ 1 \in 1..n /\ n \in Nat
  BY DEF Drops, Fired
<1>2. s.timers = {} /\ ~Cold(v, n, s) /\ r.timers = {s.pending} /\ ~Feared(r)
  BY DEF KillInv, OneTimer, Cold, Feared, Scheduled
<1>3. /\ \A i \in 1..n : v[i].kind \notin Fired \cup {"takeoff"}
      /\ s.plane # "air"
  BY <1>1 DEF KillInv, OverFirst, Settles
<1>4. OverFirst(w, n, r)
  <2>1. \A i \in 1..n : \A j \in i..n : j \in 1..n /\ (j = 1 => i = 1)
    BY <1>1
  <2> QED  BY <1>1, <2>1 DEF KillInv, OverFirst, Settles, Fired, SamePlane
<1>5. s.pending.life = s.life /\ s.pending \in Threat /\ s.pending.life \in Lives
  <2>1. s.pending \in Threat
    BY DEF Feared, Typed, Scheduled
  <2> QED  BY <1>3, <2>1 DEF KillInv, Aims, Threat, Scheduled
<1>6. OneTimer(w, n, r)
  <2>1. s.kills[s.life] = 0
    <3>1. s.life \in Lives /\ s.kills[s.life] \in Nat
      BY <1>5 DEF Typed
    <3>2. s.kills[s.life] <= 1 /\ s.kills[s.life] # 1
      BY <1>2, <3>1 DEF KillInv, Counted
    <3> QED  BY <3>1, <3>2
  <2> QED  BY <1>1, <1>2, <1>3, <1>5, <2>1 DEF OneTimer, Fired, SamePlane, Scheduled
<1>7. OneReport(w, n, r)
  BY <1>1, <1>2 DEF KillInv, OneReport, SamePlane
<1>8. Counted(w, n, r)
  BY <1>2 DEF KillInv, Counted, SamePlane
<1>9. Aims(w, n, r)
  BY <1>1, <1>2, <1>3 DEF Aims, Fired
<1> QED  BY <1>2, <1>4, <1>5, <1>6, <1>7, <1>8, <1>9 DEF KillInv

\* The bot's own reports on plane l, as many as it sends, come after n events.
Told(w, n, m, l) ==
    /\ m \in n..(n + 2)
    /\ \A i \in 1..m : i > n =>
          \/ i = n + 1 /\ w[i].kind = "S_kill"
          \/ i = n + 2 /\ w[i].kind = "kill" /\ w[i].life = l

\* Another seat, or a disconnect, under fire.
LEMMA GiveKills ==
    ASSUME NEW v, NEW w, NEW n, NEW m, NEW s, NEW r, KillInv(v, n, s), Typed(v, n, s), Drops(v, w, n),
           v[1].kind \in {"slot", "disconnect"}, SamePlane(s, r), Feared(s), r.kills = s.kills,
           r.timers = s.timers, r.pending = None,
           Told(w, n, m, s.pending.life)
    PROVE  KillInv(w, m, r) /\ s.pending.life = s.life
<1>1. /\ \A i \in 1..m : \/ i \in 1..n
                         \/ i = n + 1 /\ w[i].kind = "S_kill"
                         \/ i = n + 2 /\ w[i].kind = "kill" /\ w[i].life = s.pending.life
      /\ \A i \in 1..n : w[i].kind # "connect" => i # 1 /\ w[i] = v[i]
      /\ \A i \in 1..n : i # 1 => w[i] = v[i]
      /\ 1 \in 1..n /\ n \in Nat /\ m \in Nat
  <2>1. /\ \A i \in 1..n : w[i].kind # "connect" => i # 1 /\ w[i] = v[i]
        /\ \A i \in 1..n : i # 1 => w[i] = v[i]
        /\ 1 \in 1..n /\ n \in Nat
    BY DEF Drops
  <2>2. m \in Nat
    BY <2>1 DEF Told
  <2>3. \A i \in 1..m : i \in 1..n \/ i > n
    BY <2>1, <2>2
  <2>4. \A i \in 1..m : i > n => \/ i = n + 1 /\ w[i].kind = "S_kill"
                                 \/ i = n + 2 /\ w[i].kind = "kill" /\ w[i].life = s.pending.life
    BY DEF Told
  <2> QED  BY <2>1, <2>2, <2>3, <2>4
<1>2. s.timers = {} /\ ~Cold(v, n, s) /\ ~Feared(r) /\ r.timers = {}
  BY DEF KillInv, OneTimer, Cold, Feared
<1>3. /\ \A i \in 1..n : v[i].kind \notin Fired \cup {"takeoff"}
      /\ s.plane # "air"
  BY <1>1 DEF KillInv, OverFirst, Settles
<1>4. s.pending.life = s.life /\ s.pending \in Threat /\ s.pending.life \in Lives
  <2>1. s.pending \in Threat
    BY DEF Feared, Typed
  <2> QED  BY <1>3, <2>1 DEF KillInv, Aims, Threat
<1>5. s.kills[s.life] = 0
  <2>1. s.life \in Lives /\ s.kills[s.life] \in Nat
    BY <1>4 DEF Typed
  <2>2. s.kills[s.life] <= 1 /\ s.kills[s.life] # 1
    BY <1>2, <2>1 DEF KillInv, Counted
  <2> QED  BY <2>1, <2>2
<1>6. \A i \in 1..m : w[i].kind \notin Fired \cup {"takeoff"}
  BY <1>1, <1>3 DEF Fired
<1>7. Cold(w, m, r)
  BY <1>2, <1>6 DEF Cold
<1>8. \A i \in 1..n : v[i].kind # "kill"
  <2> SUFFICES ASSUME NEW i \in 1..n, v[i].kind = "kill"
               PROVE  FALSE
    OBVIOUS
  <2>1. 1 < i
    BY <1>1
  <2> QED  BY <1>1, <1>2, <2>1 DEF KillInv, OneReport
<1>9. OverFirst(w, m, r)
  <2>1. \A i \in 1..m : \A j \in i..m : j \in 1..m
    BY <1>1
  <2> QED  BY <1>3, <1>6, <2>1 DEF OverFirst, SamePlane
<1>10. OneTimer(w, m, r)
  BY <1>2 DEF OneTimer
<1>11. OneReport(w, m, r)
  <2>1. \A i \in 1..m : w[i].kind = "kill" => i = n + 2 /\ w[i].life = s.pending.life
    BY <1>1, <1>8
  <2> QED  BY <1>4, <1>5, <1>7, <2>1 DEF OneReport, SamePlane
<1>12. Counted(w, m, r)
  BY <1>5, <1>7 DEF KillInv, Counted, SamePlane
<1>13. Aims(w, m, r)
  BY <1>2, <1>6 DEF Aims
<1> QED  BY <1>4, <1>9, <1>10, <1>11, <1>12, <1>13 DEF KillInv

\* The timer fires, and no report is in the queue.
LEMMA TimerKills ==
    ASSUME NEW v, NEW w, NEW n, NEW m, NEW s, NEW r, NEW t \in s.timers, KillInv(v, n, s),
           Typed(v, n, s), SamePlane(s, r), r.kills = s.kills, r.pending = s.pending,
           r.timers = s.timers \ {t}, \A i \in 1..n : w[i] = v[i] /\ v[i].kind # "kill",
           Told(w, n, m, t.life)
    PROVE  KillInv(w, m, r) /\ t.life = s.life /\ s.timers = {t}
<1>1. /\ \A i \in 1..m : \/ i \in 1..n
                         \/ i = n + 1 /\ w[i].kind = "S_kill"
                         \/ i = n + 2 /\ w[i].kind = "kill" /\ w[i].life = t.life
      /\ n \in Nat /\ m \in Nat
  <2>1. n \in Nat
    BY DEF Typed
  <2>2. m \in Nat
    BY <2>1 DEF Told
  <2>3. \A i \in 1..m : i \in 1..n \/ i > n
    BY <2>1, <2>2
  <2>4. \A i \in 1..m : i > n => \/ i = n + 1 /\ w[i].kind = "S_kill"
                                 \/ i = n + 2 /\ w[i].kind = "kill" /\ w[i].life = t.life
    BY DEF Told
  <2> QED  BY <2>1, <2>2, <2>3, <2>4
<1>2. /\ r.timers = {} /\ ~Feared(r) /\ s.plane # "air" /\ s.kills[s.life] = 0
      /\ t.life = s.life /\ s.timers = {t}
      /\ \A i \in 1..n : v[i].kind \notin Fired \cup {"takeoff"}
  BY DEF KillInv, OneTimer, Feared
<1>3. t.life \in Lives
  BY DEF Typed, Threat
<1>4. \A i \in 1..m : w[i].kind \notin Fired \cup {"takeoff"}
  BY <1>1, <1>2 DEF Fired
<1>5. Cold(w, m, r)
  BY <1>2, <1>4 DEF Cold
<1>6. OverFirst(w, m, r)
  <2>1. \A i \in 1..m : \A j \in i..m : j \in 1..m
    BY <1>1
  <2> QED  BY <1>2, <1>4, <2>1 DEF OverFirst, SamePlane
<1>7. OneTimer(w, m, r)
  BY <1>2 DEF OneTimer
<1>8. OneReport(w, m, r)
  <2>1. \A i \in 1..m : w[i].kind = "kill" => i = n + 2 /\ w[i].life = t.life
    BY <1>1
  <2> QED  BY <1>2, <1>3, <1>5, <2>1 DEF OneReport, SamePlane
<1>9. Counted(w, m, r)
  BY <1>2, <1>5 DEF KillInv, Counted, SamePlane
<1>10. Aims(w, m, r)
  BY <1>2, <1>4 DEF Aims
<1> QED  BY <1>2, <1>6, <1>7, <1>8, <1>9, <1>10 DEF KillInv

-----------------------------------------------------------------------------
(* The player and DCS.                                                     *)

\* He is somewhere else on the ground, or what he fears is a little older.
LEMMA PlaceKills ==
    ASSUME NEW v, NEW n, NEW s, NEW r, KillInv(v, n, s),
           r.plane # "air" \/ r.plane = s.plane,
           r.life = s.life, r.kills = s.kills, r.timers = s.timers, r.awaiting = s.awaiting,
           Feared(r) <=> Feared(s), Feared(s) => r.pending.life = s.pending.life
    PROVE  KillInv(v, n, r)
<1>1. Cold(v, n, s) <=> Cold(v, n, r)
  BY DEF Cold
<1>2. OverFirst(v, n, r)
  BY DEF KillInv, OverFirst
<1>3. OneTimer(v, n, r)
  BY DEF KillInv, OneTimer
<1>4. OneReport(v, n, r)
  BY <1>1 DEF KillInv, OneReport
<1>5. Counted(v, n, r)
  BY <1>1 DEF KillInv, Counted
<1>6. Aims(v, n, r)
  BY DEF KillInv, Aims
<1> QED  BY <1>2, <1>3, <1>4, <1>5, <1>6 DEF KillInv

\* The same threats in the plugin.
SameThreats(s, r) ==
    r.kills = s.kills /\ r.timers = s.timers /\ r.awaiting = s.awaiting /\ r.pending = s.pending

\* A new plane, when everything about the last one is settled.
LEMMA NewPlaneKills ==
    ASSUME NEW v, NEW w, NEW n, NEW s, NEW r, KillInv(v, n, s), Typed(v, n, s),
           SameThreats(s, r), r.life = s.life + 1, s.timers = {},
           \A i \in 1..n : w[i] = v[i] /\ v[i].kind \notin Settles, w[n + 1].kind = "takeoff"
    PROVE  KillInv(w, n + 1, r)
<1>1. /\ \A i \in 1..(n + 1) : i \in 1..n \/ i = n + 1
      /\ n + 1 \in 1..(n + 1) /\ \A i \in 1..n : i < n + 1
      /\ n \in Nat /\ s.life \in Nat
  BY DEF Typed
<1>2. \A i \in 1..(n + 1) : w[i].kind \notin Settles
  BY <1>1 DEF Settles
<1>3. OverFirst(w, n + 1, r)
  BY <1>2 DEF OverFirst
<1>4. OneTimer(w, n + 1, r)
  BY DEF OneTimer, SameThreats
<1>5. OneReport(w, n + 1, r)
  BY <1>2 DEF OneReport, Settles
<1>6. Counted(w, n + 1, r)
  <2>1. \A k \in Lives : k \in Nat /\ (k >= s.life + 1 => k > s.life)
    BY <1>1 DEF Lives
  <2>2. \A k \in Lives : s.kills[k] <= 1 /\ (k >= s.life + 1 => s.kills[k] = 0)
    BY <2>1 DEF KillInv, Counted
  <2>3. \A k \in Lives : k > s.life + 1 => k >= s.life + 1
    BY <1>1, <2>1
  <2>4. s.life + 1 >= s.life + 1
    BY <1>1
  <2>5. r.life \in Lives => r.kills[r.life] # 1
    BY <2>2, <2>4 DEF SameThreats
  <2> QED  BY <2>2, <2>3, <2>5 DEF Counted, SameThreats
<1>7. Aims(w, n + 1, r)
  BY <1>1 DEF Aims, Fired
<1> QED  BY <1>3, <1>4, <1>5, <1>6, <1>7 DEF KillInv

\* A shot at the plane he flies.
LEMMA ShotKills ==
    ASSUME NEW v, NEW w, NEW n, NEW s, NEW r, KillInv(v, n, s), Typed(v, n, s),
           SameThreats(s, r), SamePlane(s, r), s.plane = "air",
           \A i \in 1..n : w[i] = v[i], w[n + 1].kind \in Fired, w[n + 1].life = s.life
    PROVE  KillInv(w, n + 1, r)
<1>1. /\ \A i \in 1..(n + 1) : i \in 1..n \/ i = n + 1
      /\ n + 1 \in 1..(n + 1) /\ \A i \in 1..n : i \in 1..(n + 1)
      /\ n \in Nat /\ s.life \in Nat
  BY DEF Typed
<1>2. \A i \in 1..(n + 1) : w[i].kind \notin Settles
  BY <1>1 DEF Settles, Fired, KillInv, OverFirst
<1>3. OverFirst(w, n + 1, r)
  BY <1>2 DEF OverFirst
<1>4. OneTimer(w, n + 1, r)
  BY DEF KillInv, OneTimer, SameThreats
<1>5. OneReport(w, n + 1, r)
  BY <1>2 DEF OneReport, Settles
<1>6. Counted(w, n + 1, r)
  BY DEF KillInv, Counted, SameThreats, SamePlane
<1>7. Aims(w, n + 1, r)
  BY <1>1 DEF KillInv, Aims, SameThreats, SamePlane, Feared
<1> QED  BY <1>3, <1>4, <1>5, <1>6, <1>7 DEF KillInv

\* He leaves his plane, and DCS says no more.
LEMMA LeaveKills ==
    ASSUME NEW v, NEW w, NEW n, NEW s, NEW r, KillInv(v, n, s), Typed(v, n, s),
           SameThreats(s, r), r.life = s.life, r.plane # "air",
           \A i \in 1..n : w[i] = v[i], w[n + 1].kind \in {"slot", "disconnect", "crash"}
    PROVE  KillInv(w, n + 1, r)
<1>1. /\ \A i \in 1..(n + 1) : i \in 1..n \/ i = n + 1
      /\ n + 1 \in 1..(n + 1) /\ \A i \in 1..n : i \in 1..(n + 1) /\ i < n + 1
      /\ n \in Nat /\ s.life \in Nat
  BY DEF Typed
<1>2. \A i \in 1..(n + 1) : w[i].kind \in Fired \cup {"takeoff", "kill"} => i \in 1..n /\ w[i] = v[i]
  BY <1>1 DEF Fired
<1>3. Cold(v, n, s) => Cold(w, n + 1, r)
  BY <1>2 DEF Cold, SameThreats, Feared
<1>4. OverFirst(w, n + 1, r)
  <2> SUFFICES ASSUME NEW i \in 1..(n + 1), w[i].kind \in Settles,
                      NEW j \in i..(n + 1), w[j].kind \in Fired \cup {"takeoff"}
               PROVE  FALSE
    BY DEF OverFirst
  <2>1. j \in 1..n /\ w[j] = v[j]
    BY <1>1, <1>2
  <2>2. i \in 1..n /\ j \in i..n
    BY <2>1, <1>1
  <2> QED  BY <2>1, <2>2 DEF KillInv, OverFirst
<1>5. OneTimer(w, n + 1, r)
  BY <1>2 DEF KillInv, OneTimer, SameThreats, Feared
<1>6. OneReport(w, n + 1, r)
  <2> SUFFICES ASSUME NEW i \in 1..(n + 1), w[i].kind = "kill"
               PROVE  /\ w[i].life = r.life /\ r.life \in Lives /\ r.kills[r.life] = 0
                      /\ \A j \in 1..(n + 1) : w[j].kind = "kill" => j = i
                      /\ w[i].by = "AI" => \/ Cold(w, n + 1, r)
                                           \/ \E j \in 1..(n + 1) : j < i /\ w[j].kind = "S_kill"
                      /\ \A j \in 1..(n + 1) : j < i /\ w[j].kind \in {"slot", "disconnect"} =>
                            Cold(w, n + 1, r)
    BY DEF OneReport
  <2>1. i \in 1..n /\ w[i] = v[i]
    BY <1>2
  <2>2. \A j \in 1..(n + 1) : j < i => j \in 1..n /\ w[j] = v[j]
    BY <1>1, <2>1
  <2> QED  BY <1>1, <1>2, <1>3, <2>1, <2>2 DEF KillInv, OneReport, SameThreats
<1>7. Counted(w, n + 1, r)
  BY <1>3 DEF KillInv, Counted, SameThreats
<1>8. Aims(w, n + 1, r)
  BY <1>1, <1>2 DEF KillInv, Aims, SameThreats, Feared
<1> QED  BY <1>4, <1>5, <1>6, <1>7, <1>8 DEF KillInv

\* He crashes, and DCS reports the kill of plane l before or after (event k), in full or
\* to players only.
Shot(v, w, n, m, l, k) ==
    /\ n \in Nat /\ m \in Nat /\ n <= m
    /\ \A i \in 1..n : w[i] = v[i]
    /\ \A i \in 1..m : i > n => w[i].kind \in {"S_kill", "kill", "crash"}
    /\ k \in 1..m /\ w[k].kind = "kill" /\ w[k].life = l
    /\ \A i \in 1..m : i > n /\ w[i].kind = "kill" => i = k
    /\ \A i \in 1..m : i > n /\ w[i].kind = "S_kill" => i < k
    /\ w[k].by = "AI" => \E j \in 1..m : j < k /\ w[j].kind = "S_kill"
    /\ \E c \in 1..m : w[c].kind = "crash" /\ c > n

LEMMA ReportKills ==
    ASSUME NEW v, NEW w, NEW n, NEW m, NEW s, NEW r, KillInv(v, n, s), Typed(v, n, s),
           SameThreats(s, r), r.life = s.life, s.plane = "air", r.plane # "air",
           NEW k, Shot(v, w, n, m, s.life, k)
    PROVE  KillInv(w, m, r)
<1>0. /\ n \in Nat /\ m \in Nat /\ n <= m
      /\ \A i \in 1..n : w[i] = v[i]
      /\ \A i \in 1..m : i > n => w[i].kind \in {"S_kill", "kill", "crash"}
      /\ k \in 1..m /\ w[k].kind = "kill" /\ w[k].life = s.life
      /\ \A i \in 1..m : i > n /\ w[i].kind = "kill" => i = k
      /\ w[k].by = "AI" => \E j \in 1..m : j < k /\ w[j].kind = "S_kill"
  BY DEF Shot
<1>1. /\ \A i \in 1..m : i \in 1..n \/ i > n
      /\ \A i \in 1..n : i \in 1..m
      /\ n \in Nat /\ s.life \in Lives
  BY <1>0 DEF Typed
<1>2. \A i \in 1..n : v[i].kind \notin Settles
  BY DEF KillInv, OverFirst
<1>3. s.kills[s.life] = 0
  <2>1. s.life \in Lives /\ s.kills[s.life] \in Nat
    BY <1>1 DEF Typed
  <2>2. s.kills[s.life] <= 1 /\ s.kills[s.life] # 1
    BY <2>1 DEF KillInv, Counted
  <2> QED  BY <2>1, <2>2
<1>4. s.timers = {}
  BY DEF KillInv, OneTimer
<1>5. \A i \in 1..m : w[i].kind \in Fired \cup {"takeoff"} => i \in 1..n /\ w[i] = v[i]
  BY <1>0, <1>1 DEF Fired
<1>6. \A i \in 1..m : w[i].kind \in Settles => i > n
  BY <1>0, <1>1, <1>2
<1>7. OverFirst(w, m, r)
  <2> SUFFICES ASSUME NEW i \in 1..m, w[i].kind \in Settles,
                      NEW j \in i..m, w[j].kind \in Fired \cup {"takeoff"}
               PROVE  FALSE
    BY DEF OverFirst
  <2>1. i > n /\ j \in 1..m
    BY <1>0, <1>6
  <2> QED  BY <1>0, <1>1, <1>5, <2>1
<1>8. OneTimer(w, m, r)
  BY <1>4 DEF OneTimer, SameThreats
<1>9. OneReport(w, m, r)
  <2>1. \A i \in 1..m : w[i].kind = "kill" => i = k
    BY <1>0, <1>6 DEF Settles
  <2>2. \A j \in 1..m : w[j].kind \notin {"slot", "disconnect"}
    BY <1>0, <1>1, <1>2 DEF Settles
  <2> QED  BY <1>0, <1>1, <1>3, <2>1, <2>2 DEF OneReport, SameThreats
<1>10. Counted(w, m, r)
  BY <1>3 DEF KillInv, Counted, SameThreats
<1>11. Aims(w, m, r)
  BY <1>0, <1>1, <1>5 DEF KillInv, Aims, SameThreats, Feared
<1> QED  BY <1>7, <1>8, <1>9, <1>10, <1>11 DEF KillInv

-----------------------------------------------------------------------------
(* What the plugin will have noted when it comes to event m, or, with m    *)
(* behind the last one, to the next event.                                 *)

Cut == Ending \cup {"S_kill", "kill"}

\* It watches the player.
Looks(v, n, s, m) ==
    \/ s.pending # None /\ \A j \in 1..n : j < m => v[j].kind \notin Cut
    \/ \E k \in 1..n : /\ k < m /\ v[k].kind = "takeoff"
                       /\ \A j \in 1..n : k < j /\ j < m => v[j].kind \notin Cut

\* It knows of a hit on plane l, in time.
Hot(s, l) == /\ Feared(s) /\ s.pending.kind = "hit" /\ s.pending.age # "old"
             /\ s.pending.life = l
HitBy(v, n, s, m, l) ==
    \/ Hot(s, l) /\ \A j \in 1..n : j < m => v[j].kind \notin Cut \cup {"takeoff"}
    \/ \E k \in 1..n : /\ k < m /\ v[k].kind = "hit" /\ v[k].life = l
                       /\ \A j \in 1..n : k < j /\ j < m => v[j].kind \notin Cut \cup {"takeoff"}

\* A player in the air is watched when the queue is served.
Seen(v, n, s) == s.plane = "air" => Looks(v, n, s, n + 1)

\* If he is not in the air, there is an event to come at which the plugin forgets.
Over(v, n, s) ==
    /\ Feared(s) => s.plane = "air" \/ \E j \in 1..n : v[j].kind \in Ending
    /\ \A i \in 1..n : v[i].kind \in Fired =>
          s.plane = "air" \/ \E j \in 1..n : i < j /\ v[j].kind \in Ending

\* The plugin knows of the last hit on a plane in the air, and how long ago it was.
Hits(v, n, s) ==
    s.plane = "air" /\ s.hit \in {"fresh", "recent"} =>
        /\ HitBy(v, n, s, n + 1, s.life)
        /\ (\A i \in 1..n : v[i].kind # "hit") => s.pending.age \in {"fresh", s.hit}

\* After S_EVENT_KILL comes the report that counts.
Reported(v, n, s) ==
    \A i \in 1..n : v[i].kind = "S_kill" => \E j \in 1..n : i < j /\ v[j].kind = "kill"

\* A plane lost to a hit has counted, or will: there is a report, a timer, or an event
\* at which the plugin will know of the hit.
Leaving == {"crash", "slot", "disconnect"}
Covered(v, n, s) ==
    \A l \in s.lost :
        \/ s.kills[l] >= 1
        \/ \E i \in 1..n : v[i].kind = "kill" /\ v[i].life = l
        \/ \E t \in s.timers : t.life = l
        \/ l = s.life /\ \E i \in 1..n :
               v[i].kind \in Leaving /\ Looks(v, n, s, i) /\ HitBy(v, n, s, i, l)

WatchInv(v, n, s) ==
    /\ Seen(v, n, s) /\ Over(v, n, s) /\ Hits(v, n, s) /\ Reported(v, n, s) /\ Covered(v, n, s)

\* What is known at an event does not depend on the ones after it.
LEMMA KnownBefore ==
    ASSUME NEW v, NEW w, NEW n \in Nat, NEW m \in Nat, NEW i \in 1..(n + 1), i <= m + 1, NEW s, NEW r,
           \A j \in 1..n : j < i => w[j] = v[j], r.pending = s.pending, NEW l
    PROVE  /\ Looks(v, n, s, i) => Looks(w, m, r, i)
           /\ HitBy(v, n, s, i, l) => HitBy(w, m, r, i, l)
<1>1. /\ \A j \in 1..m : j < i => j \in 1..n /\ w[j] = v[j]
      /\ \A j \in 1..n : j < i => j \in 1..m /\ w[j] = v[j]
  OBVIOUS
<1>2. Looks(v, n, s, i) => Looks(w, m, r, i)
  BY <1>1 DEF Looks
<1>3. HitBy(v, n, s, i, l) => HitBy(w, m, r, i, l)
  BY <1>1 DEF HitBy, Hot, Feared
<1> QED  BY <1>2, <1>3

\* The queue moves on.
LEMMA KnownShift ==
    ASSUME NEW v, NEW w, NEW n \in Nat \ {0}, NEW s, NEW i \in 2..(n + 1), NEW l,
           v[1].kind = "connect", \A j \in 1..(n - 1) : w[j] = v[j + 1]
    PROVE  /\ Looks(v, n, s, i) => Looks(w, n - 1, s, i - 1)
           /\ HitBy(v, n, s, i, l) => HitBy(w, n - 1, s, i - 1, l)
<1>1. \A j \in 1..(n - 1) : j + 1 \in 1..n /\ w[j] = v[j + 1] /\ (j < i - 1 <=> j + 1 < i)
  OBVIOUS
<1>2. \A k \in 1..n : v[k].kind # "connect" =>
          /\ k - 1 \in 1..(n - 1) /\ w[k - 1] = v[k] /\ (k < i <=> k - 1 < i - 1)
          /\ \A j \in 1..(n - 1) : k - 1 < j <=> k < j + 1
  <2> SUFFICES ASSUME NEW k \in 1..n, v[k].kind # "connect"
               PROVE  /\ k - 1 \in 1..(n - 1) /\ w[k - 1] = v[k] /\ (k < i <=> k - 1 < i - 1)
                      /\ \A j \in 1..(n - 1) : k - 1 < j <=> k < j + 1
    OBVIOUS
  <2>1. k # 1
    OBVIOUS
  <2>2. k - 1 \in 1..(n - 1) /\ (k - 1) + 1 = k /\ (k < i <=> k - 1 < i - 1)
    BY <2>1
  <2> QED  BY <2>2
<1>3. ASSUME Looks(v, n, s, i)
      PROVE  Looks(w, n - 1, s, i - 1)
  <2>1. CASE s.pending # None /\ \A j \in 1..n : j < i => v[j].kind \notin Cut
    BY <1>1, <2>1 DEF Looks
  <2>2. ASSUME NEW k \in 1..n, k < i, v[k].kind = "takeoff",
               \A j \in 1..n : k < j /\ j < i => v[j].kind \notin Cut
        PROVE  Looks(w, n - 1, s, i - 1)
    <3>1. k - 1 \in 1..(n - 1) /\ w[k - 1].kind = "takeoff" /\ k - 1 < i - 1
      BY <1>2, <2>2
    <3>2. \A j \in 1..(n - 1) : k - 1 < j /\ j < i - 1 => w[j].kind \notin Cut
      BY <1>1, <1>2, <2>2
    <3> QED  BY <3>1, <3>2 DEF Looks
  <2> QED  BY <1>3, <2>1, <2>2 DEF Looks
<1>4. ASSUME HitBy(v, n, s, i, l)
      PROVE  HitBy(w, n - 1, s, i - 1, l)
  <2>1. CASE Hot(s, l) /\ \A j \in 1..n : j < i => v[j].kind \notin Cut \cup {"takeoff"}
    BY <1>1, <2>1 DEF HitBy
  <2>2. ASSUME NEW k \in 1..n, k < i, v[k].kind = "hit", v[k].life = l,
               \A j \in 1..n : k < j /\ j < i => v[j].kind \notin Cut \cup {"takeoff"}
        PROVE  HitBy(w, n - 1, s, i - 1, l)
    <3>1. k - 1 \in 1..(n - 1) /\ w[k - 1] = v[k] /\ k - 1 < i - 1
      BY <1>2, <2>2
    <3>2. \A j \in 1..(n - 1) : k - 1 < j /\ j < i - 1 => w[j].kind \notin Cut \cup {"takeoff"}
      BY <1>1, <1>2, <2>2
    <3> QED  BY <2>2, <3>1, <3>2 DEF HitBy
  <2> QED  BY <1>4, <2>1, <2>2 DEF HitBy
<1> QED  BY <1>3, <1>4

\* An event before is handled: what is known stays known, and what it says is noted.
LEMMA KnownDrop ==
    ASSUME NEW v, NEW w, NEW n, NEW s, NEW r, Drops(v, w, n), NEW i \in 2..(n + 1), NEW l,
           v[1].kind = "takeoff" => r.pending # None,
           v[1].kind \notin Cut /\ s.pending # None => r.pending # None,
           /\ v[1].kind \notin Cut \cup {"takeoff"} /\ Hot(s, l)
           /\ \A j \in 1..n : j < i => v[j].kind \notin Cut \cup {"takeoff"}
           => Hot(r, l),
           Looks(v, n, s, i),
           v[1].kind = "hit" /\ v[1].life = l /\ s.pending # None => Hot(r, l)
    PROVE  /\ Looks(w, n, r, i)
           /\ HitBy(v, n, s, i, l) => HitBy(w, n, r, i, l)
<1>1. /\ \A j \in 1..n : j # 1 => w[j] = v[j]
      /\ \A j \in 1..n : j = 1 \/ 1 < j
      /\ 1 \in 1..n /\ n \in Nat /\ 1 < i /\ w[1].kind = "connect"
  BY DEF Drops
<1>2. "connect" \notin Cut \cup {"takeoff"} /\ "hit" \notin Cut \cup {"takeoff"}
      /\ "takeoff" \notin Cut
  BY DEF Cut, Ending
<1>3. Looks(w, n, r, i)
  <2>1. CASE s.pending # None /\ \A j \in 1..n : j < i => v[j].kind \notin Cut
    <3>1. r.pending # None
      BY <1>1, <2>1
    <3>2. \A j \in 1..n : j < i => w[j].kind \notin Cut
      BY <1>1, <1>2, <2>1
    <3> QED  BY <3>1, <3>2 DEF Looks
  <2>2. ASSUME NEW k \in 1..n, k < i, v[k].kind = "takeoff",
               \A j \in 1..n : k < j /\ j < i => v[j].kind \notin Cut
        PROVE  Looks(w, n, r, i)
    <3>1. CASE k = 1
      <4>1. \A j \in 1..n : j < i => w[j].kind \notin Cut
        BY <1>1, <1>2, <2>2, <3>1
      <4> QED  BY <2>2, <3>1, <4>1 DEF Looks
    <3>2. CASE k # 1
      <4>1. /\ w[k].kind = "takeoff"
            /\ \A j \in 1..n : k < j /\ j < i => w[j].kind \notin Cut
        BY <1>1, <1>2, <2>2, <3>2
      <4> QED  BY <2>2, <4>1 DEF Looks
    <3> QED  BY <3>1, <3>2
  <2> QED  BY <2>1, <2>2 DEF Looks
<1>4. ASSUME HitBy(v, n, s, i, l)
      PROVE  HitBy(w, n, r, i, l)
  <2>1. CASE Hot(s, l) /\ \A j \in 1..n : j < i => v[j].kind \notin Cut \cup {"takeoff"}
    <3>1. Hot(r, l)
      BY <1>1, <2>1
    <3>2. \A j \in 1..n : j < i => w[j].kind \notin Cut \cup {"takeoff"}
      BY <1>1, <1>2, <2>1
    <3> QED  BY <3>1, <3>2 DEF HitBy
  <2>2. ASSUME NEW k \in 1..n, k < i, v[k].kind = "hit", v[k].life = l,
               \A j \in 1..n : k < j /\ j < i => v[j].kind \notin Cut \cup {"takeoff"}
        PROVE  HitBy(w, n, r, i, l)
    <3>1. CASE k = 1
      <4>1. \A j \in 1..n : j < i => w[j].kind \notin Cut \cup {"takeoff"}
        BY <1>1, <1>2, <2>2, <3>1
      <4>2. \A j \in 1..n : j < i => v[j].kind # "takeoff"
        BY <1>1, <1>2, <2>2, <3>1
      <4>3. s.pending # None
        BY <4>2 DEF Looks
      <4> QED  BY <2>2, <3>1, <4>1, <4>3 DEF HitBy
    <3>2. CASE k # 1
      <4>1. /\ w[k] = v[k]
            /\ \A j \in 1..n : k < j /\ j < i => w[j].kind \notin Cut \cup {"takeoff"}
        BY <1>1, <1>2, <2>2, <3>2
      <4> QED  BY <2>2, <4>1 DEF HitBy
    <3> QED  BY <3>1, <3>2
  <2> QED  BY <1>4, <2>1, <2>2 DEF HitBy
<1> QED  BY <1>3, <1>4

-----------------------------------------------------------------------------
(* The queue moves on, and others put events into it.                      *)

LEMMA ShiftWatch ==
    ASSUME NEW v, NEW w, NEW n \in Nat \ {0}, NEW s, WatchInv(v, n, s),
           v[1].kind = "connect", \A i \in 1..(n - 1) : w[i] = v[i + 1]
    PROVE  WatchInv(w, n - 1, s)
<1>1. \A i \in 1..(n - 1) : i + 1 \in 1..n /\ w[i] = v[i + 1]
  OBVIOUS
<1>2. \A i \in 1..n : v[i].kind # "connect" =>
          i \in 2..(n + 1) /\ i - 1 \in 1..(n - 1) /\ w[i - 1] = v[i]
  <2> SUFFICES ASSUME NEW i \in 1..n, v[i].kind # "connect"
               PROVE  i \in 2..(n + 1) /\ i - 1 \in 1..(n - 1) /\ w[i - 1] = v[i]
    OBVIOUS
  <2>1. i # 1
    OBVIOUS
  <2>2. i \in 2..(n + 1) /\ i - 1 \in 1..(n - 1) /\ (i - 1) + 1 = i
    BY <2>1
  <2> QED  BY <2>2
<1>3. n + 1 \in 2..(n + 1) /\ (n + 1) - 1 = n /\ (n - 1) + 1 = n
  OBVIOUS
<1>4. Seen(w, n - 1, s)
  BY <1>3, KnownShift DEF WatchInv, Seen
<1>5. Over(w, n - 1, s)
  <2>1. \A j \in 1..n : v[j].kind \in Ending => j - 1 \in 1..(n - 1) /\ w[j - 1] = v[j]
    BY <1>2 DEF Ending
  <2>2. Feared(s) => s.plane = "air" \/ \E j \in 1..(n - 1) : w[j].kind \in Ending
    BY <2>1 DEF WatchInv, Over
  <2>3. ASSUME NEW i \in 1..(n - 1), w[i].kind \in Fired, s.plane # "air"
        PROVE  \E j \in 1..(n - 1) : i < j /\ w[j].kind \in Ending
    <3>1. PICK j \in 1..n : i + 1 < j /\ v[j].kind \in Ending
      BY <1>1, <2>3 DEF WatchInv, Over
    <3>2. j - 1 \in 1..(n - 1) /\ w[j - 1] = v[j] /\ i < j - 1
      BY <2>1, <3>1
    <3> QED  BY <3>1, <3>2
  <2> QED  BY <2>2, <2>3 DEF Over
<1>6. Hits(w, n - 1, s)
  <2>1. \A i \in 1..n : v[i].kind = "hit" => i - 1 \in 1..(n - 1) /\ w[i - 1] = v[i]
    BY <1>2
  <2>2. HitBy(v, n, s, n + 1, s.life) => HitBy(w, n - 1, s, n, s.life)
    BY <1>3, KnownShift
  <2> QED  BY <1>3, <2>1, <2>2 DEF WatchInv, Hits
<1>7. Reported(w, n - 1, s)
  <2> SUFFICES ASSUME NEW i \in 1..(n - 1), w[i].kind = "S_kill"
               PROVE  \E j \in 1..(n - 1) : i < j /\ w[j].kind = "kill"
    BY DEF Reported
  <2>1. PICK j \in 1..n : i + 1 < j /\ v[j].kind = "kill"
    BY <1>1 DEF WatchInv, Reported
  <2>2. j - 1 \in 1..(n - 1) /\ w[j - 1] = v[j] /\ i < j - 1
    BY <1>2, <2>1
  <2> QED  BY <2>1, <2>2
<1>8. Covered(w, n - 1, s)
  <2> SUFFICES ASSUME NEW l \in s.lost, ~(s.kills[l] >= 1),
                      \A t \in s.timers : t.life # l,
                      \A i \in 1..(n - 1) : w[i].kind = "kill" => w[i].life # l
               PROVE  l = s.life /\ \E i \in 1..(n - 1) : w[i].kind \in Leaving
                          /\ Looks(w, n - 1, s, i) /\ HitBy(w, n - 1, s, i, l)
    BY DEF Covered
  <2>1. \A i \in 1..n : v[i].kind = "kill" => v[i].life # l
    BY <1>2
  <2>2. PICK i \in 1..n : l = s.life /\ v[i].kind \in Leaving /\ Looks(v, n, s, i) /\ HitBy(v, n, s, i, l)
    BY <2>1 DEF WatchInv, Covered
  <2>3. i \in 2..(n + 1) /\ i - 1 \in 1..(n - 1) /\ w[i - 1] = v[i]
    BY <1>2, <2>2 DEF Leaving
  <2>4. Looks(w, n - 1, s, i - 1) /\ HitBy(w, n - 1, s, i - 1, l)
    BY <2>2, <2>3, KnownShift
  <2> QED  BY <2>2, <2>3, <2>4
<1> QED  BY <1>4, <1>5, <1>6, <1>7, <1>8 DEF WatchInv

\* Events of no interest at the end.
LEMMA NeutralWatch ==
    ASSUME NEW v, NEW w, NEW n \in Nat, NEW m \in Nat, n <= m, NEW s, WatchInv(v, n, s),
           \A i \in 1..n : w[i] = v[i], \A i \in 1..m : i > n => w[i].kind = "connect"
    PROVE  WatchInv(w, m, s)
<1>1. \A i \in 1..m : w[i].kind # "connect" => i \in 1..n /\ w[i] = v[i]
  OBVIOUS
<1>2. \A i \in 1..n : i \in 1..m /\ w[i] = v[i] /\ i \in 1..(n + 1) /\ i <= m + 1
  OBVIOUS
<1>3. "connect" \notin Cut \cup {"takeoff"}
  BY DEF Cut, Ending
<1>4. Seen(w, m, s)
  <2> SUFFICES ASSUME Looks(v, n, s, n + 1)
               PROVE  Looks(w, m, s, m + 1)
    BY DEF WatchInv, Seen
  <2>1. \A j \in 1..n : j < n + 1 /\ j < m + 1
    OBVIOUS
  <2> QED  BY <1>1, <1>2, <1>3, <2>1 DEF Looks
<1>5. Over(w, m, s)
  <2>1. "connect" \notin Ending /\ "connect" \notin Fired
    BY DEF Ending, Fired
  <2> QED  BY <1>1, <1>2, <2>1 DEF WatchInv, Over
<1>6. Hits(w, m, s)
  <2>1. ASSUME HitBy(v, n, s, n + 1, s.life)
        PROVE  HitBy(w, m, s, m + 1, s.life)
    <3>1. \A j \in 1..n : j < n + 1 /\ j < m + 1
      OBVIOUS
    <3> QED  BY <1>1, <1>2, <1>3, <2>1, <3>1 DEF HitBy
  <2> QED  BY <1>2, <2>1 DEF WatchInv, Hits
<1>7. Reported(w, m, s)
  BY <1>1, <1>2 DEF WatchInv, Reported
<1>8. Covered(w, m, s)
  <2>1. \A i \in 1..n : \A l : /\ Looks(v, n, s, i) => Looks(w, m, s, i)
                               /\ HitBy(v, n, s, i, l) => HitBy(w, m, s, i, l)
    BY <1>2, KnownBefore
  <2> QED  BY <1>2, <2>1 DEF WatchInv, Covered
<1> QED  BY <1>4, <1>5, <1>6, <1>7, <1>8 DEF WatchInv

-----------------------------------------------------------------------------
(* The plugin handles an event.                                            *)

\* What handling an event does not change.
Kept(s, r) == SamePlane(s, r) /\ r.hit = s.hit /\ r.lost = s.lost

\* Facts about the indices of the two views.
LEMMA DropIndex ==
    ASSUME NEW v, NEW w, NEW n, Drops(v, w, n)
    PROVE  /\ n \in Nat /\ 1 \in 1..n /\ n + 1 \in 2..(n + 1)
           /\ \A i \in 1..n : i # 1 => w[i] = v[i] /\ i \in 2..(n + 1)
           /\ \A i \in 1..n : w[i].kind # "connect" => i # 1 /\ w[i] = v[i]
           /\ \A i \in 1..n : \A j \in 1..n : i < j => j # 1
           /\ \A i \in 1..n : i # 1 => 1 < i
BY DEF Drops

\* A plane with a report of its kill, or a timer, is covered.
LEMMA DropCovers ==
    ASSUME NEW v, NEW w, NEW n, NEW s, NEW r, Drops(v, w, n), WatchInv(v, n, s), Kept(s, r),
           r.kills = s.kills, r.timers = s.timers, v[1].kind # "kill",
           v[1].kind \in Leaving => ~Hot(s, s.life),
           \A i \in 2..n : v[i].kind \in Leaving /\ Looks(v, n, s, i) /\ HitBy(v, n, s, i, s.life) =>
              Looks(w, n, r, i) /\ HitBy(w, n, r, i, s.life)
    PROVE  Covered(w, n, r)
<1>1. /\ \A i \in 1..n : i # 1 => w[i] = v[i] /\ i \in 2..n
      /\ 1 \in 1..n /\ \A k \in 1..n : ~(k < 1)
  BY DEF Drops
<1>2. \A i \in 1..n : v[i].kind = "kill" => w[i] = v[i]
  BY <1>1
<1>3. ASSUME NEW i \in 1..n, v[i].kind \in Leaving, Looks(v, n, s, i), HitBy(v, n, s, i, s.life)
      PROVE  w[i].kind \in Leaving /\ Looks(w, n, r, i) /\ HitBy(w, n, r, i, s.life)
  <2>1. i # 1
    BY <1>1, <1>3 DEF HitBy
  <2> QED  BY <1>1, <1>3, <2>1
<1> QED  BY <1>2, <1>3 DEF WatchInv, Covered, Kept, SamePlane

LEMMA DropReports ==
    ASSUME NEW v, NEW w, NEW n, NEW s, Drops(v, w, n), WatchInv(v, n, s)
    PROVE  Reported(w, n, s)
BY DropIndex DEF WatchInv, Reported

LEMMA TakeoffWatch ==
    ASSUME NEW v, NEW w, NEW n, NEW s, NEW r, KillInv(v, n, s), WatchInv(v, n, s),
           Drops(v, w, n), v[1].kind = "takeoff", Kept(s, r),
           r.timers = s.timers, r.kills = s.kills, r.pending = Flying
    PROVE  WatchInv(w, n, r)
<1>1. Flying # None /\ ~Feared(r) /\ "takeoff" \notin Ending /\ "connect" \notin Ending
  BY KillAssumption DEF Feared, Ending
<1>2. \A i \in 2..(n + 1) : \A l : Looks(v, n, s, i) =>
          /\ Looks(w, n, r, i)
          /\ HitBy(v, n, s, i, l) => HitBy(w, n, r, i, l)
  BY <1>1, KnownDrop
<1>3. Seen(w, n, r)
  BY <1>2, DropIndex DEF WatchInv, Seen, Kept, SamePlane
<1>4. Over(w, n, r)
  <2>1. \A i \in 1..n : w[i].kind \in Fired => i # 1 /\ w[i] = v[i]
    BY DropIndex DEF Fired
  <2> QED  BY <1>1, <2>1, DropIndex DEF WatchInv, Over, Kept, SamePlane
<1>5. Hits(w, n, r)
  <2> SUFFICES ASSUME s.plane = "air", s.hit \in {"fresh", "recent"}
               PROVE  /\ HitBy(w, n, r, n + 1, s.life)
                      /\ ~\A i \in 1..n : w[i].kind # "hit"
    BY DEF Hits, Kept, SamePlane
  <2>1. HitBy(v, n, s, n + 1, s.life) /\ Looks(v, n, s, n + 1)
    BY DEF WatchInv, Hits, Seen
  <2>2. HitBy(w, n, r, n + 1, s.life)
    BY <1>2, <2>1, DropIndex
  <2> QED  BY <1>1, <2>2 DEF HitBy, Hot
<1>6. Reported(w, n, r)
  BY DropReports DEF Reported
<1>7. Covered(w, n, r)
  <2>1. \A i \in 2..n : i \in 2..(n + 1)
    BY DropIndex
  <2> QED  BY <1>2, <2>1, DropCovers DEF Leaving
<1> QED  BY <1>3, <1>4, <1>5, <1>6, <1>7 DEF WatchInv

\* An event at which the plugin forgets, with nobody to be given a kill.
LEMMA ForgetWatch ==
    ASSUME NEW v, NEW w, NEW n, NEW s, NEW r, KillInv(v, n, s), WatchInv(v, n, s),
           Drops(v, w, n), v[1].kind \in Ending, Kept(s, r),
           v[1].kind \in Leaving => ~Hot(s, s.life),
           r.timers = s.timers, r.kills = s.kills, r.pending = None
    PROVE  WatchInv(w, n, r)
<1>1. /\ ~Feared(r) /\ v[1].kind \in Cut /\ v[1].kind \notin {"takeoff", "hit", "shot", "kill", "S_kill"}
      /\ "connect" \notin Ending
  BY DEF Feared, Ending, Cut
<1>2. \A i \in 2..(n + 1) : \A l : Looks(v, n, s, i) =>
          /\ Looks(w, n, r, i)
          /\ HitBy(v, n, s, i, l) => HitBy(w, n, r, i, l)
  BY <1>1, KnownDrop
<1>3. Seen(w, n, r)
  BY <1>2, DropIndex DEF WatchInv, Seen, Kept, SamePlane
<1>4. Over(w, n, r)
  <2>1. \A i \in 1..n : w[i].kind \in Fired => i # 1 /\ w[i] = v[i]
    BY DropIndex DEF Fired
  <2> QED  BY <1>1, <2>1, DropIndex DEF WatchInv, Over, Kept, SamePlane
<1>5. Hits(w, n, r)
  <2> SUFFICES ASSUME s.plane = "air", s.hit \in {"fresh", "recent"}
               PROVE  /\ HitBy(w, n, r, n + 1, s.life)
                      /\ ~\A i \in 1..n : w[i].kind # "hit"
    BY DEF Hits, Kept, SamePlane
  <2>1. HitBy(v, n, s, n + 1, s.life) /\ Looks(v, n, s, n + 1)
    BY DEF WatchInv, Hits, Seen
  <2>2. HitBy(w, n, r, n + 1, s.life)
    BY <1>2, <2>1, DropIndex
  <2> QED  BY <1>1, <2>2 DEF HitBy, Hot
<1>6. Reported(w, n, r)
  BY DropReports DEF Reported
<1>7. Covered(w, n, r)
  <2>1. \A i \in 2..n : i \in 2..(n + 1)
    BY DropIndex
  <2> QED  BY <1>1, <1>2, <2>1, DropCovers
<1> QED  BY <1>3, <1>4, <1>5, <1>6, <1>7 DEF WatchInv

\* A shot or a hit is noted, unless nobody watches or it is a shot at a plane that was hit.
LEMMA FireWatch ==
    ASSUME NEW v, NEW w, NEW n, NEW s, NEW r, KillInv(v, n, s), WatchInv(v, n, s),
           Typed(v, n, s), Drops(v, w, n), v[1].kind \in Fired, Kept(s, r),
           r.timers = s.timers, r.kills = s.kills,
           \/ /\ s.pending # None /\ r.pending \in Threat /\ r.pending.kind = v[1].kind
              /\ r.pending.life = v[1].life /\ r.pending.age = "fresh"
              /\ v[1].kind = "hit" \/ ~Hot(s, s.life)
           \/ r.pending = s.pending /\ (s.pending = None \/ v[1].kind = "shot")
    PROVE  WatchInv(w, n, r)
<1> DEFINE Notes == /\ s.pending # None /\ r.pending \in Threat /\ r.pending.kind = v[1].kind
                    /\ r.pending.life = v[1].life /\ r.pending.age = "fresh"
                    /\ v[1].kind = "hit" \/ ~Hot(s, s.life)
           Skips == r.pending = s.pending /\ (s.pending = None \/ v[1].kind = "shot")
<1>1. /\ v[1].kind \notin Cut \cup {"takeoff", "kill", "S_kill"} \cup Leaving
      /\ "connect" \notin Ending /\ v[1].kind \notin Ending
  BY DEF Fired, Cut, Ending, Leaving
<1>2. Notes => Feared(r) /\ r.pending # None
  BY KillAssumption DEF Feared, Threat, Flying
<1>3. v[1].kind = "hit" /\ s.pending # None => Notes /\ Hot(r, v[1].life)
  BY <1>2 DEF Hot
<1>4. ASSUME NEW i \in 2..(n + 1), Looks(v, n, s, i), \A j \in 1..n : j >= i => v[j].kind # "takeoff"
      PROVE  /\ Looks(w, n, r, i)
             /\ HitBy(v, n, s, i, s.life) => HitBy(w, n, r, i, s.life)
  <2>1. s.pending # None => r.pending # None
    BY <1>2
  <2>2. ASSUME Hot(s, s.life), \A j \in 1..n : j < i => v[j].kind \notin Cut \cup {"takeoff"}
        PROVE  Hot(r, s.life)
    <3>1. CASE Notes
      <4>1. \A j \in 1..n : v[j].kind # "takeoff"
        <5>1. \A j \in 1..n : j < i \/ j >= i
          BY DropIndex
        <5> QED  BY <1>4, <2>2, <5>1
      <4>2. v[1].life = s.life /\ v[1].kind = "hit"
        BY <2>2, <3>1, <4>1, DropIndex DEF KillInv, Aims
      <4> QED  BY <1>2, <3>1, <4>2 DEF Hot
    <3>2. CASE Skips
      BY <2>2, <3>2 DEF Hot, Feared
    <3> QED  BY <3>1, <3>2
  <2>3. v[1].kind = "hit" /\ v[1].life = s.life /\ s.pending # None => Hot(r, s.life)
    BY <1>3
  <2> HIDE DEF Notes, Skips
  <2> QED  BY <1>1, <1>4, <2>1, <2>2, <2>3, KnownDrop
<1>5. Seen(w, n, r)
  <2>1. \A j \in 1..n : ~(j >= n + 1)
    BY DropIndex
  <2> QED  BY <1>4, <2>1, DropIndex DEF WatchInv, Seen, Kept, SamePlane
<1>6. Over(w, n, r)
  <2>1. \A i \in 1..n : w[i].kind \in Fired => i # 1 /\ w[i] = v[i]
    BY DropIndex DEF Fired
  <2>2. s.plane = "air" \/ \E j \in 1..n : j # 1 /\ v[j].kind \in Ending
    BY <1>1, DropIndex DEF WatchInv, Over
  <2> QED  BY <1>1, <2>1, <2>2, DropIndex DEF WatchInv, Over, Kept, SamePlane
<1>7. Hits(w, n, r)
  <2> SUFFICES ASSUME s.plane = "air", s.hit \in {"fresh", "recent"}
               PROVE  /\ HitBy(w, n, r, n + 1, s.life)
                      /\ (\A i \in 1..n : w[i].kind # "hit") => r.pending.age \in {"fresh", s.hit}
    BY DEF Hits, Kept, SamePlane
  <2>1. HitBy(v, n, s, n + 1, s.life) /\ Looks(v, n, s, n + 1)
    BY DEF WatchInv, Hits, Seen
  <2>2. HitBy(w, n, r, n + 1, s.life)
    <3>1. \A j \in 1..n : ~(j >= n + 1)
      BY DropIndex
    <3> QED  BY <1>4, <2>1, <3>1, DropIndex
  <2>3. ASSUME \A i \in 1..n : w[i].kind # "hit"
        PROVE  r.pending.age \in {"fresh", s.hit}
    <3>1. CASE v[1].kind = "hit"
      <4>1. r.pending # None
        BY <2>2, <2>3 DEF HitBy, Hot, Feared
      <4> QED  BY <1>3, <3>1, <4>1
    <3>2. CASE v[1].kind # "hit"
      <4>1. \A i \in 1..n : v[i].kind # "hit"
        BY <2>3, <3>2, DropIndex
      <4>2. s.pending.age \in {"fresh", s.hit}
        BY <4>1 DEF WatchInv, Hits
      <4> QED  BY <4>2
    <3> QED  BY <3>1, <3>2
  <2> QED  BY <2>2, <2>3
<1>8. Reported(w, n, r)
  BY DropReports DEF Reported
<1>9. Covered(w, n, r)
  <2>1. \A i \in 2..n : i \in 2..(n + 1) /\ i \in 1..n /\ \A j \in 1..n : j >= i => j \in i..n
    BY DropIndex
  <2>2. \A i \in 2..n : v[i].kind \in Leaving => \A j \in 1..n : j >= i => v[j].kind # "takeoff"
    BY <2>1 DEF KillInv, OverFirst, Leaving, Settles
  <2> HIDE DEF Notes, Skips
  <2> QED  BY <1>1, <1>4, <2>1, <2>2, DropCovers
<1> QED  BY <1>5, <1>6, <1>7, <1>8, <1>9 DEF WatchInv

\* When the end of his plane is handled, there is nobody else to come who knows.
LEMMA NoneLater ==
    ASSUME NEW v, NEW n \in Nat \ {0}, NEW s, KillInv(v, n, s), v[1].kind \in Settles,
           v[1].kind \in Cut
    PROVE  /\ s.plane # "air"
           /\ \A i \in 1..n : v[i].kind \notin Fired \cup {"takeoff"}
           /\ \A i \in 1..n : i # 1 => ~Looks(v, n, s, i)
<1>1. 1 \in 1..n /\ \A i \in 1..n : i # 1 => 1 < i
  OBVIOUS
<1>2. s.plane # "air" /\ \A i \in 1..n : v[i].kind \notin Fired \cup {"takeoff"}
  BY <1>1 DEF KillInv, OverFirst
<1> QED  BY <1>1, <1>2 DEF Looks

LEMMA SKillWatch ==
    ASSUME NEW v, NEW w, NEW n, NEW s, NEW r, KillInv(v, n, s), WatchInv(v, n, s),
           Drops(v, w, n), v[1].kind = "S_kill", Kept(s, r), r.kills = s.kills, r.pending = None
    PROVE  WatchInv(w, n, r)
<1>1. /\ ~Feared(r) /\ r.plane # "air"
      /\ \A i \in 1..n : v[i].kind \notin Fired \cup {"takeoff"}
      /\ \A i \in 1..n : i # 1 => ~Looks(v, n, s, i)
  BY NoneLater DEF Feared, Settles, Cut, Drops, Kept, SamePlane
<1>2. Seen(w, n, r) /\ Hits(w, n, r)
  BY <1>1 DEF Seen, Hits
<1>3. Over(w, n, r)
  BY <1>1, DropIndex DEF Over, Fired
<1>4. Reported(w, n, r)
  BY DropReports DEF Reported
<1>5. Covered(w, n, r)
  <2>1. PICK j \in 1..n : j # 1 /\ v[j].kind = "kill"
    BY DropIndex DEF WatchInv, Reported
  <2>2. w[j].kind = "kill" /\ w[j].life = s.life
    BY <2>1, DropIndex DEF KillInv, OneReport
  <2>3. \A t \in s.timers : t.life = s.life
    BY DEF KillInv, OneTimer
  <2>4. \A i \in 1..n : v[i].kind = "kill" => w[i] = v[i]
    BY DropIndex
  <2> QED  BY <2>2, <2>3, <2>4 DEF WatchInv, Covered, Kept, SamePlane
<1> QED  BY <1>2, <1>3, <1>4, <1>5 DEF WatchInv

LEMMA KillWatch ==
    ASSUME NEW v, NEW w, NEW n, NEW s, NEW r, KillInv(v, n, s), WatchInv(v, n, s), Typed(v, n, s),
           Drops(v, w, n), v[1].kind = "kill", Kept(s, r), r.pending \in {None, s.pending},
           r.kills = [s.kills EXCEPT ![v[1].life] = @ + 1]
    PROVE  WatchInv(w, n, r)
<1>1. /\ r.plane # "air"
      /\ \A i \in 1..n : v[i].kind \notin Fired \cup {"takeoff"}
      /\ "kill" \notin Ending /\ "connect" \notin Ending
  BY NoneLater DEF Settles, Cut, Drops, Kept, SamePlane, Ending
<1>2. Seen(w, n, r) /\ Hits(w, n, r)
  BY <1>1 DEF Seen, Hits
<1>3. Over(w, n, r)
  <2>1. Feared(r) => Feared(s)
    BY DEF Feared
  <2>2. \A i \in 1..n : w[i].kind \notin Fired
    BY <1>1, DropIndex DEF Fired
  <2>3. s.plane # "air"
    BY <1>1 DEF Kept, SamePlane
  <2> QED  BY <1>1, <2>1, <2>2, <2>3, DropIndex DEF WatchInv, Over
<1>4. Reported(w, n, r)
  BY DropReports DEF Reported
<1>5. Covered(w, n, r)
  <2>1. v[1].life = s.life /\ s.life \in Lives /\ s.kills[s.life] = 0
    BY DropIndex DEF KillInv, OneReport
  <2>2. r.kills[s.life] = 1 /\ \A l \in Lives : l # s.life => r.kills[l] = s.kills[l]
    BY <2>1 DEF Typed
  <2>3. \A t \in s.timers : t.life = s.life
    BY DEF KillInv, OneTimer
  <2>4. \A i \in 1..n : v[i].kind = "kill" => v[i].life = s.life
    BY DEF KillInv, OneReport
  <2>5. \A l \in s.lost : l \in Lives /\ (l # s.life => s.kills[l] >= 1)
    BY <2>3, <2>4 DEF WatchInv, Covered, Typed
  <2>6. \A l \in s.lost : r.kills[l] >= 1
    BY <2>2, <2>5
  <2> QED  BY <2>6 DEF Covered, Kept
<1> QED  BY <1>2, <1>3, <1>4, <1>5 DEF WatchInv

LEMMA CrashWatch ==
    ASSUME NEW v, NEW w, NEW n, NEW s, NEW r, KillInv(v, n, s), WatchInv(v, n, s),
           Drops(v, w, n), v[1].kind = "crash", Kept(s, r), r.kills = s.kills, r.pending = None,
           s.timers = {}, r.timers = {s.pending}, s.pending.life = s.life
    PROVE  WatchInv(w, n, r)
<1>1. /\ ~Feared(r) /\ r.plane # "air"
      /\ \A i \in 1..n : v[i].kind \notin Fired \cup {"takeoff"}
  BY NoneLater DEF Feared, Settles, Cut, Ending, Drops, Kept, SamePlane
<1>2. Seen(w, n, r) /\ Hits(w, n, r)
  BY <1>1 DEF Seen, Hits
<1>3. Over(w, n, r)
  BY <1>1, DropIndex DEF Over, Fired
<1>4. Reported(w, n, r)
  BY DropReports DEF Reported
<1>5. Covered(w, n, r)
  <2>1. \A i \in 1..n : v[i].kind = "kill" => w[i] = v[i]
    BY DropIndex
  <2> QED  BY <2>1 DEF WatchInv, Covered, Kept, SamePlane
<1> QED  BY <1>2, <1>3, <1>4, <1>5 DEF WatchInv

LEMMA GiveWatch ==
    ASSUME NEW v, NEW w, NEW n, NEW s, NEW r, KillInv(v, n, s), WatchInv(v, n, s),
           Drops(v, w, n), v[1].kind \in {"slot", "disconnect"}, Kept(s, r), r.kills = s.kills,
           r.pending = None, s.timers = {}, r.timers = {},
           w[n + 1].kind = "S_kill", w[n + 2].kind = "kill", w[n + 2].life = s.life
    PROVE  WatchInv(w, n + 2, r)
<1>1. /\ ~Feared(r) /\ r.plane # "air"
      /\ \A i \in 1..n : v[i].kind \notin Fired \cup {"takeoff"}
  BY NoneLater DEF Feared, Settles, Cut, Ending, Drops, Kept, SamePlane
<1>2. /\ \A i \in 1..(n + 2) : i \in 1..n \/ i = n + 1 \/ i = n + 2
      /\ \A i \in 1..n : i \in 1..(n + 2) /\ i < n + 2
      /\ n + 1 \in 1..(n + 2) /\ n + 2 \in 1..(n + 2) /\ n + 1 < n + 2
  BY DropIndex
<1>3. Seen(w, n + 2, r) /\ Hits(w, n + 2, r)
  BY <1>1 DEF Seen, Hits
<1>4. Over(w, n + 2, r)
  BY <1>1, <1>2, DropIndex DEF Over, Fired
<1>5. Reported(w, n + 2, r)
  BY <1>2 DEF Reported
<1>6. Covered(w, n + 2, r)
  <2>1. \A i \in 1..n : v[i].kind = "kill" => w[i] = v[i]
    BY DropIndex
  <2> QED  BY <1>2, <2>1 DEF WatchInv, Covered, Kept, SamePlane
<1> QED  BY <1>3, <1>4, <1>5, <1>6 DEF WatchInv

LEMMA TimerWatch ==
    ASSUME NEW v, NEW w, NEW n \in Nat, NEW s, NEW r, NEW t \in s.timers, KillInv(v, n, s),
           WatchInv(v, n, s), Kept(s, r), r.kills = s.kills, r.pending = s.pending,
           \A i \in 1..n : w[i] = v[i],
           w[n + 1].kind = "S_kill", w[n + 2].kind = "kill", w[n + 2].life = s.life
    PROVE  WatchInv(w, n + 2, r)
<1>1. /\ ~Feared(r) /\ r.plane # "air"
      /\ \A i \in 1..n : v[i].kind \notin Fired \cup {"takeoff"}
      /\ \A x \in s.timers : x.life = s.life
  BY DEF KillInv, OneTimer, Feared, Kept, SamePlane
<1>2. /\ \A i \in 1..(n + 2) : i \in 1..n \/ i = n + 1 \/ i = n + 2
      /\ \A i \in 1..n : i \in 1..(n + 2) /\ i < n + 2
      /\ n + 1 \in 1..(n + 2) /\ n + 2 \in 1..(n + 2) /\ n + 1 < n + 2
  OBVIOUS
<1>3. Seen(w, n + 2, r) /\ Hits(w, n + 2, r)
  BY <1>1 DEF Seen, Hits
<1>4. Over(w, n + 2, r)
  BY <1>1, <1>2 DEF Over, Fired
<1>5. Reported(w, n + 2, r)
  BY <1>2 DEF Reported
<1>6. Covered(w, n + 2, r)
  BY <1>1, <1>2 DEF WatchInv, Covered, Kept, SamePlane
<1> QED  BY <1>3, <1>4, <1>5, <1>6 DEF WatchInv

-----------------------------------------------------------------------------
(* The player and DCS.                                                     *)

\* He is not in the air before and after.
LEMMA GroundWatch ==
    ASSUME NEW v, NEW n, NEW s, NEW r, WatchInv(v, n, s), SameThreats(s, r), r.life = s.life,
           r.lost = s.lost, s.plane # "air", r.plane # "air"
    PROVE  WatchInv(v, n, r)
<1>1. \A i \in 1..n : \A l : Looks(v, n, s, i) /\ HitBy(v, n, s, i, l) =>
                             Looks(v, n, r, i) /\ HitBy(v, n, r, i, l)
  BY DEF SameThreats, Looks, HitBy, Hot, Feared
<1>2. Covered(v, n, r)
  BY <1>1 DEF WatchInv, Covered, SameThreats
<1> QED  BY <1>2 DEF WatchInv, Seen, Over, Hits, Reported, Feared, SameThreats

\* A minute goes by.
LEMMA TickWatch ==
    ASSUME NEW v, NEW s, NEW r, WatchInv(v, 0, s), Typed(v, 0, s), Typed(v, 0, r),
           SamePlane(s, r), r.lost = s.lost, r.timers = s.timers, r.kills = s.kills,
           r.hit = IF s.hit = None THEN None ELSE Older(s.hit),
           r.pending = IF Feared(s) THEN [s.pending EXCEPT !.age = Older(@)] ELSE s.pending
    PROVE  WatchInv(v, 0, r)
<1>1. \A i \in 1..0 : FALSE
  OBVIOUS
<1>2. Feared(s) => s.pending \in Threat
  BY DEF Typed, Feared
<1>3. s.pending # None => r.pending # None
  BY <1>2, KillAssumption DEF Typed, Threat, Older, Age
<1>4. Feared(r) => Feared(s)
  BY DEF Feared
<1>5. Seen(v, 0, r)
  BY <1>1, <1>3 DEF WatchInv, Seen, Looks, SamePlane
<1>6. Over(v, 0, r)
  BY <1>1, <1>4 DEF WatchInv, Over, SamePlane
<1>7. Hits(v, 0, r)
  <2> SUFFICES ASSUME r.plane = "air", r.hit \in {"fresh", "recent"}
               PROVE  HitBy(v, 0, r, 0 + 1, r.life) /\ r.pending.age \in {"fresh", r.hit}
    BY DEF Hits
  <2>1. s.hit = "fresh" /\ r.hit = "recent"
    BY KillAssumption DEF Older, Typed, Age
  <2>2. Hot(s, s.life) /\ s.pending.age = "fresh"
    BY <1>1, <2>1 DEF WatchInv, Hits, HitBy, SamePlane
  <2>3. r.pending = [s.pending EXCEPT !.age = "recent"] /\ s.pending \in Threat
    BY <1>2, <2>2 DEF Hot, Older
  <2>4. r.pending \in Threat /\ r.pending.kind = "hit" /\ r.pending.age = "recent"
        /\ r.pending.life = s.pending.life
    BY <2>2, <2>3 DEF Threat, Age, Hot
  <2>5. Hot(r, r.life)
    BY <2>2, <2>4, KillAssumption DEF Hot, Feared, Flying, Threat, SamePlane
  <2> QED  BY <1>1, <2>1, <2>4, <2>5 DEF HitBy
<1>8. Reported(v, 0, r)
  BY <1>1 DEF Reported
<1>9. Covered(v, 0, r)
  BY <1>1 DEF WatchInv, Covered, SamePlane
<1> QED  BY <1>5, <1>6, <1>7, <1>8, <1>9 DEF WatchInv

\* Events at the end, which are handled after all that was known.
LEMMA AddIndex ==
    ASSUME NEW v, NEW w, NEW n \in Nat, NEW s, NEW r, \A i \in 1..n : w[i] = v[i],
           r.pending = s.pending
    PROVE  /\ \A i \in 1..(n + 1) : i \in 1..n \/ i = n + 1
           /\ \A i \in 1..n : i \in 1..(n + 1) /\ w[i] = v[i] /\ i < n + 1
           /\ n + 1 \in 1..(n + 1)
           /\ \A i \in 1..(n + 1) : \A l : /\ Looks(v, n, s, i) => Looks(w, n + 1, r, i)
                                           /\ HitBy(v, n, s, i, l) => HitBy(w, n + 1, r, i, l)
<1>1. /\ \A i \in 1..(n + 1) : i \in 1..n \/ i = n + 1
      /\ \A i \in 1..n : i \in 1..(n + 1) /\ w[i] = v[i] /\ i < n + 1
      /\ n + 1 \in 1..(n + 1)
  OBVIOUS
<1>2. ASSUME NEW i \in 1..(n + 1), NEW l
      PROVE  /\ Looks(v, n, s, i) => Looks(w, n + 1, r, i)
             /\ HitBy(v, n, s, i, l) => HitBy(w, n + 1, r, i, l)
  <2>1. i <= (n + 1) + 1 /\ n + 1 \in Nat
    OBVIOUS
  <2>2. \A j \in 1..n : j < i => w[j] = v[j]
    OBVIOUS
  <2> QED  BY <2>1, <2>2, KnownBefore
<1> QED  BY <1>1, <1>2

\* He lands, is kicked, or the game stops.
LEMMA EndWatch ==
    ASSUME NEW v, NEW w, NEW n \in Nat, NEW s, NEW r, WatchInv(v, n, s), SameThreats(s, r),
           r.life = s.life, r.lost = s.lost, r.plane # "air",
           \A i \in 1..n : w[i] = v[i], w[n + 1].kind \in {"land", "kicked", "stop"}
    PROVE  WatchInv(w, n + 1, r)
<1>0. /\ \A i \in 1..(n + 1) : i \in 1..n \/ i = n + 1
      /\ \A i \in 1..n : i \in 1..(n + 1) /\ w[i] = v[i] /\ i < n + 1
      /\ n + 1 \in 1..(n + 1)
      /\ \A i \in 1..(n + 1) : \A l : /\ Looks(v, n, s, i) => Looks(w, n + 1, r, i)
                                      /\ HitBy(v, n, s, i, l) => HitBy(w, n + 1, r, i, l)
  BY AddIndex DEF SameThreats
<1>1. Seen(w, n + 1, r) /\ Hits(w, n + 1, r)
  BY DEF Seen, Hits
<1>2. Over(w, n + 1, r)
  BY <1>0 DEF Over, Ending, Fired, SameThreats
<1>3. Reported(w, n + 1, r)
  BY <1>0 DEF WatchInv, Reported, SameThreats
<1>4. Covered(w, n + 1, r)
  BY <1>0 DEF WatchInv, Covered, SameThreats
<1> QED  BY <1>1, <1>2, <1>3, <1>4 DEF WatchInv

\* A new plane, when everything about the last one is settled.
LEMMA NewPlaneWatch ==
    ASSUME NEW v, NEW w, NEW n \in Nat, NEW s, NEW r, WatchInv(v, n, s), SameThreats(s, r),
           r.plane = "air", r.lost = s.lost, r.hit = None, s.timers = {},
           \A i \in 1..n : w[i] = v[i] /\ v[i].kind \notin Settles, w[n + 1].kind = "takeoff"
    PROVE  WatchInv(w, n + 1, r)
<1>0. /\ \A i \in 1..(n + 1) : i \in 1..n \/ i = n + 1
      /\ \A i \in 1..n : i \in 1..(n + 1) /\ w[i] = v[i] /\ i < n + 1
      /\ n + 1 \in 1..(n + 1)
      /\ \A i \in 1..(n + 1) : \A l : /\ Looks(v, n, s, i) => Looks(w, n + 1, r, i)
                                      /\ HitBy(v, n, s, i, l) => HitBy(w, n + 1, r, i, l)
  BY AddIndex DEF SameThreats
<1>1. Seen(w, n + 1, r)
  <2>1. n + 1 \in 1..(n + 1) /\ n + 1 < n + 1 + 1
    OBVIOUS
  <2>2. \A j \in 1..(n + 1) : ~(n + 1 < j)
    OBVIOUS
  <2> QED  BY <2>1, <2>2 DEF Seen, Looks
<1>2. Hits(w, n + 1, r)
  BY KillAssumption DEF Hits, Age
<1>3. Over(w, n + 1, r)
  BY DEF Over
<1>4. Reported(w, n + 1, r)
  BY <1>0 DEF Reported, Settles, SameThreats
<1>5. Covered(w, n + 1, r)
  <2>1. \A i \in 1..n : v[i].kind # "kill" /\ v[i].kind \notin Leaving
    BY DEF Settles, Leaving
  <2> QED  BY <2>1 DEF WatchInv, Covered, SameThreats
<1> QED  BY <1>1, <1>2, <1>3, <1>4, <1>5 DEF WatchInv

LEMMA ShotWatch ==
    ASSUME NEW v, NEW w, NEW n \in Nat, NEW s, NEW r, KillInv(v, n, s), WatchInv(v, n, s),
           SameThreats(s, r), SamePlane(s, r), r.lost = s.lost, s.plane = "air",
           r.hit = IF w[n + 1].kind = "hit" THEN "fresh" ELSE s.hit,
           \A i \in 1..n : w[i] = v[i], w[n + 1].kind \in Fired, w[n + 1].life = s.life
    PROVE  WatchInv(w, n + 1, r)
<1>0. /\ \A i \in 1..(n + 1) : i \in 1..n \/ i = n + 1
      /\ \A i \in 1..n : i \in 1..(n + 1) /\ w[i] = v[i] /\ i < n + 1
      /\ n + 1 \in 1..(n + 1)
      /\ \A i \in 1..(n + 1) : \A l : /\ Looks(v, n, s, i) => Looks(w, n + 1, r, i)
                                      /\ HitBy(v, n, s, i, l) => HitBy(w, n + 1, r, i, l)
  BY AddIndex DEF SameThreats
<1>1. \A i \in 1..n : v[i].kind \notin Settles
  BY DEF KillInv, OverFirst
<1>2. /\ \A i \in 1..(n + 1) : i < n + 1 + 1
      /\ n + 1 < n + 1 + 1 /\ \A j \in 1..(n + 1) : ~(n + 1 < j)
  OBVIOUS
<1>3. w[n + 1].kind \notin Cut \cup {"takeoff"}
  BY DEF Fired, Cut, Ending
<1>4. Seen(w, n + 1, r)
  <2>1. Looks(v, n, s, n + 1)
    BY DEF WatchInv, Seen
  <2> QED  BY <1>2, <1>3, <2>1, <1>0 DEF Seen, Looks, SameThreats
<1>5. Hits(w, n + 1, r)
  <2>1. CASE w[n + 1].kind = "hit"
    <3>1. HitBy(w, n + 1, r, n + 1 + 1, r.life)
      BY <1>2, <2>1, <1>0 DEF HitBy, SamePlane, SameThreats
    <3> QED  BY <2>1, <3>1, <1>0 DEF Hits, SameThreats
  <2>2. CASE w[n + 1].kind # "hit"
    <3> SUFFICES ASSUME s.hit \in {"fresh", "recent"}
                 PROVE  /\ HitBy(w, n + 1, r, n + 1 + 1, s.life)
                        /\ (\A i \in 1..(n + 1) : w[i].kind # "hit") => r.pending.age \in {"fresh", s.hit}
      BY <2>2 DEF Hits, SamePlane
    <3>1. /\ HitBy(v, n, s, n + 1, s.life)
          /\ (\A i \in 1..n : v[i].kind # "hit") => s.pending.age \in {"fresh", s.hit}
      BY DEF WatchInv, Hits
    <3>2. HitBy(w, n + 1, r, n + 1 + 1, s.life)
      BY <1>2, <1>3, <3>1, <1>0 DEF HitBy, Hot, Feared, SameThreats
    <3> QED  BY <3>1, <3>2, <1>0 DEF SameThreats
  <2> QED  BY <2>1, <2>2
<1>6. Over(w, n + 1, r)
  BY DEF Over, SamePlane
<1>7. Reported(w, n + 1, r)
  BY <1>1, <1>0 DEF Reported, Settles, Fired, SameThreats
<1>8. Covered(w, n + 1, r)
  <2>1. \A i \in 1..n : v[i].kind # "kill" /\ v[i].kind \notin Leaving
    BY <1>1 DEF Settles, Leaving
  <2> QED  BY <2>1 DEF WatchInv, Covered, SameThreats, SamePlane
<1> QED  BY <1>4, <1>5, <1>6, <1>7, <1>8 DEF WatchInv

\* He leaves his plane, and DCS says no more.
LEMMA LeaveWatch ==
    ASSUME NEW v, NEW w, NEW n \in Nat, NEW s, NEW r, WatchInv(v, n, s),
           SameThreats(s, r), r.life = s.life, r.plane # "air",
           r.lost = IF s.plane = "air" /\ s.hit \in {"fresh", "recent"}
                    THEN s.lost \cup {s.life} ELSE s.lost,
           \A i \in 1..n : w[i] = v[i], w[n + 1].kind \in Leaving
    PROVE  WatchInv(w, n + 1, r)
<1>0. /\ \A i \in 1..(n + 1) : i \in 1..n \/ i = n + 1
      /\ \A i \in 1..n : i \in 1..(n + 1) /\ w[i] = v[i] /\ i < n + 1
      /\ n + 1 \in 1..(n + 1)
      /\ \A i \in 1..(n + 1) : \A l : /\ Looks(v, n, s, i) => Looks(w, n + 1, r, i)
                                      /\ HitBy(v, n, s, i, l) => HitBy(w, n + 1, r, i, l)
  BY AddIndex DEF SameThreats
<1>1. Seen(w, n + 1, r) /\ Hits(w, n + 1, r)
  BY DEF Seen, Hits
<1>2. Over(w, n + 1, r)
  BY <1>0 DEF Over, Ending, Fired, Leaving, SameThreats
<1>3. Reported(w, n + 1, r)
  BY <1>0 DEF WatchInv, Reported, Leaving, SameThreats
<1>4. Covered(w, n + 1, r)
  <2>1. s.plane = "air" /\ s.hit \in {"fresh", "recent"} =>
           Looks(w, n + 1, r, n + 1) /\ HitBy(w, n + 1, r, n + 1, s.life)
    BY <1>0 DEF WatchInv, Seen, Hits, SameThreats
  <2>2. \A l \in s.lost :
            \/ r.kills[l] >= 1
            \/ \E i \in 1..(n + 1) : w[i].kind = "kill" /\ w[i].life = l
            \/ \E t \in r.timers : t.life = l
            \/ l = r.life /\ \E i \in 1..(n + 1) :
                   w[i].kind \in Leaving /\ Looks(w, n + 1, r, i) /\ HitBy(w, n + 1, r, i, l)
    BY <1>0 DEF WatchInv, Covered, SameThreats
  <2> QED  BY <2>1, <2>2, <1>0 DEF Covered, SameThreats
<1> QED  BY <1>1, <1>2, <1>3, <1>4 DEF WatchInv

\* He crashes, and DCS reports the kill before or after.
LEMMA ReportWatch ==
    ASSUME NEW v, NEW w, NEW n, NEW m, NEW s, NEW r, KillInv(v, n, s), WatchInv(v, n, s),
           SameThreats(s, r), r.life = s.life, s.plane = "air", r.plane # "air",
           r.lost \subseteq s.lost \cup {s.life}, NEW k, Shot(v, w, n, m, s.life, k)
    PROVE  WatchInv(w, m, r)
<1>0. /\ n \in Nat /\ m \in Nat /\ n <= m
      /\ \A i \in 1..n : w[i] = v[i]
      /\ \A i \in 1..m : i > n => w[i].kind \in {"S_kill", "kill", "crash"}
      /\ k \in 1..m /\ w[k].kind = "kill" /\ w[k].life = s.life
      /\ \A i \in 1..m : i > n /\ w[i].kind = "S_kill" => i < k
  BY DEF Shot
<1>7. PICK c \in 1..m : w[c].kind = "crash" /\ c > n
  BY DEF Shot
<1>1. /\ \A i \in 1..m : i \in 1..n \/ i > n
      /\ \A i \in 1..n : i \in 1..m /\ i < c
  BY <1>0, <1>7
<1>2. \A i \in 1..n : v[i].kind \notin Settles
  BY DEF KillInv, OverFirst
<1>3. Seen(w, m, r) /\ Hits(w, m, r)
  BY DEF Seen, Hits
<1>4. Over(w, m, r)
  BY <1>0, <1>1, <1>7 DEF Over, Ending, Fired
<1>5. Reported(w, m, r)
  BY <1>0, <1>1, <1>2 DEF Reported, Settles
<1>6. Covered(w, m, r)
  <2>1. \A i \in 1..n : v[i].kind # "kill" /\ v[i].kind \notin Leaving
    BY <1>2 DEF Settles, Leaving
  <2>2. \A l \in s.lost : s.kills[l] >= 1 \/ \E t \in s.timers : t.life = l
    BY <2>1 DEF WatchInv, Covered
  <2> QED  BY <1>0, <2>2 DEF Covered, SameThreats
<1> QED  BY <1>3, <1>4, <1>5, <1>6 DEF WatchInv

-----------------------------------------------------------------------------
(* All players.                                                            *)

\* What the runs leave out: nobody flies again before the kill of his last plane is
\* settled, no report is late, and DCS reports kills by the AI to the mission.
Orderly == May \cap {"quick", "late", "AI"} = {}

\* With several servers, the stop of one makes the plugin forget the players of all.
OneServer == \A s, t \in Server : s = t

\* The bot's own reports are complete: no ship shoots, and DCS says who does.
Complete == May \cap {"ship", "nobody"} = {}
Heard == OneServer /\ Complete

\* What holds of a player, with the queue q and the state s.
Good(q, p, s) ==
    /\ KillInv(View(q, p), Len(q), s)
    /\ Heard => WatchInv(View(q, p), Len(q), s)
PlayerInv(p) == Good(queue, p, Of(p))

LEMMA MarkIs ==
    ASSUME NEW e \in Event, NEW p
    PROVE  /\ Mark(e, p) \in Event
           /\ e.kind = "stop" \/ e.who = p => Mark(e, p) = e
           /\ e.kind # "stop" /\ e.who # p => Mark(e, p).kind = "connect"
BY DEF Mark, Event

LEMMA ViewIs ==
    ASSUME NEW q \in Seq(Event), NEW p
    PROVE  /\ View(q, p) \in [1..Len(q) -> Event]
           /\ \A i \in 1..Len(q) : View(q, p)[i] = Mark(q[i], p)
BY MarkIs DEF View

LEMMA ViewTail ==
    ASSUME NEW q \in Seq(Event), q # <<>>, NEW p
    PROVE  /\ Len(Tail(q)) = Len(q) - 1 /\ Len(q) \in Nat \ {0} /\ 1 \in 1..Len(q)
           /\ View(q, p)[1] = Mark(Head(q), p)
           /\ \A i \in 1..(Len(q) - 1) : View(Tail(q), p)[i] = View(q, p)[i + 1]
<1>1. /\ Head(q) = q[1] /\ Tail(q) \in Seq(Event)
      /\ Len(q) \in Nat \ {0} /\ Len(Tail(q)) = Len(q) - 1
      /\ \A i \in 1..(Len(q) - 1) : Tail(q)[i] = q[i + 1] /\ i + 1 \in 1..Len(q)
  BY RestType
<1>2. 1 \in 1..Len(q) /\ \A i \in 1..(Len(q) - 1) : i \in 1..Len(Tail(q))
  BY <1>1
<1>3. \A i \in 1..Len(q) : View(q, p)[i] = Mark(q[i], p)
  BY ViewIs
<1>4. \A i \in 1..Len(Tail(q)) : View(Tail(q), p)[i] = Mark(Tail(q)[i], p)
  BY <1>1, ViewIs
<1> QED  BY <1>1, <1>2, <1>3, <1>4

\* What the queue r looks like when events are put at the end of q.
Joined(q, more, r, p) ==
    /\ r \in Seq(Event) /\ Len(r) = Len(q) + Len(more) /\ Len(q) \in Nat /\ Len(more) \in Nat
    /\ \A i \in 1..Len(q) : View(r, p)[i] = View(q, p)[i]
    /\ \A i \in 1..Len(more) : View(r, p)[Len(q) + i] = Mark(more[i], p)
    /\ \A i \in 1..Len(r) : i > Len(q) =>
          \E j \in 1..Len(more) : i = Len(q) + j /\ View(r, p)[i] = Mark(more[j], p)

LEMMA ViewAdd ==
    ASSUME NEW q \in Seq(Event), NEW more \in Seq(Event), NEW p
    PROVE  Joined(q, more, q \o more, p)
<1>0. PICK r : r = q \o more
  OBVIOUS
<1>1. /\ r \in Seq(Event) /\ Len(r) = Len(q) + Len(more) /\ Len(q) \in Nat /\ Len(more) \in Nat
      /\ \A i \in 1..Len(q) : r[i] = q[i] /\ i \in 1..Len(r)
      /\ \A i \in 1..Len(more) : r[Len(q) + i] = more[i] /\ Len(q) + i \in 1..Len(r)
      /\ \A i \in 1..Len(r) : i > Len(q) => i - Len(q) \in 1..Len(more) /\ Len(q) + (i - Len(q)) = i
  <2>1. r \in Seq(Event) /\ Len(r) = Len(q) + Len(more) /\ Len(q) \in Nat /\ Len(more) \in Nat
    BY <1>0
  <2>2. /\ \A i \in 1..Len(q) : r[i] = q[i]
        /\ \A i \in 1..Len(more) : r[Len(q) + i] = more[i]
    BY <1>0, QueuesType
  <2>3. /\ \A i \in 1..Len(q) : i \in 1..Len(r)
        /\ \A i \in 1..Len(more) : Len(q) + i \in 1..Len(r)
        /\ \A i \in 1..Len(r) : i > Len(q) => i - Len(q) \in 1..Len(more) /\ Len(q) + (i - Len(q)) = i
    BY <2>1
  <2> QED  BY <2>1, <2>2, <2>3
<1>2. /\ \A i \in 1..Len(r) : View(r, p)[i] = Mark(r[i], p)
      /\ \A i \in 1..Len(q) : View(q, p)[i] = Mark(q[i], p)
  BY <1>1, ViewIs
<1>3. \A i \in 1..Len(q) : View(r, p)[i] = View(q, p)[i]
  BY <1>1, <1>2
<1>4. \A i \in 1..Len(more) : View(r, p)[Len(q) + i] = Mark(more[i], p)
  BY <1>1, <1>2
<1>5. ASSUME NEW i \in 1..Len(r), i > Len(q)
      PROVE  \E j \in 1..Len(more) : i = Len(q) + j /\ View(r, p)[i] = Mark(more[j], p)
  <2>1. i - Len(q) \in 1..Len(more) /\ Len(q) + (i - Len(q)) = i
    BY <1>1, <1>5
  <2> QED  BY <1>4, <2>1
<1> QED  BY <1>0, <1>1, <1>3, <1>4, <1>5 DEF Joined

LEMMA TailAdd ==
    ASSUME NEW q \in Seq(Event), NEW more \in Seq(Event), q # <<>>
    PROVE  /\ Tail(q \o more) = Tail(q) \o more /\ q \o more # <<>>
           /\ Head(q \o more) = Head(q)
<1>1. /\ Len(q) \in Nat \ {0} /\ Len(more) \in Nat
      /\ q \o more \in Seq(Event) /\ Len(q \o more) = Len(q) + Len(more)
  OBVIOUS
<1>2. q \o more # <<>> /\ Head(q \o more) = Head(q)
  BY <1>1
<1>3. Tail(q \o more) = Tail(q) \o more
  BY <1>1, <1>2
<1> QED  BY <1>2, <1>3

LEMMA PlayerTyped ==
    ASSUME TypeInv, NEW p \in Player
    PROVE  Typed(View(queue, p), Len(queue), Of(p))
<1> DEFINE v == View(queue, p)
<1>1. /\ queue \in Seq(Event) /\ Len(queue) \in Nat /\ v \in [1..Len(queue) -> Event]
      /\ \A i \in 1..Len(queue) : v[i] = Mark(queue[i], p) /\ queue[i] \in Event
  BY ViewIs DEF TypeInv, TypeOK
<1>2. \A i \in 1..Len(queue) : v[i].kind \in Fired => v[i].life \in Lives
  <2> SUFFICES ASSUME NEW i \in 1..Len(queue), v[i].kind \in Fired
               PROVE  v[i].life \in Lives
    OBVIOUS
  <2>1. v[i] = queue[i]
    BY <1>1, MarkIs DEF Fired
  <2>2. i \in DOMAIN queue
    BY <1>1
  <2> QED  BY <2>1, <2>2 DEF TypeInv, Planes, Fired
<1> HIDE DEF v
<1> QED  BY <1>1, <1>2 DEF Typed, Of, TypeInv, TypeOK, Planes, v

\* The first event is handled.
Muted(q, p) == [View(q, p) EXCEPT ![1] = [@ EXCEPT !.kind = "connect"]]

LEMMA MutedDrops ==
    ASSUME NEW q \in Seq(Event), q # <<>>, NEW p
    PROVE  Drops(View(q, p), Muted(q, p), Len(q)) /\ Muted(q, p) \in [1..Len(q) -> Event]
<1> DEFINE v == View(q, p)
<1>1. /\ v \in [1..Len(q) -> Event] /\ 1 \in 1..Len(q) /\ Len(q) \in Nat \ {0}
  BY ViewIs, ViewTail
<1>2. Muted(q, p) = [v EXCEPT ![1] = [v[1] EXCEPT !.kind = "connect"]]
  BY DEF Muted
<1>3. /\ [v[1] EXCEPT !.kind = "connect"] \in Event
      /\ [v[1] EXCEPT !.kind = "connect"].kind = "connect"
  BY <1>1 DEF Event
<1> HIDE DEF v
<1>4. /\ Muted(q, p) \in [1..Len(q) -> Event] /\ Muted(q, p)[1].kind = "connect"
      /\ \A i \in 1..Len(q) : i # 1 => Muted(q, p)[i] = v[i]
  BY <1>1, <1>2, <1>3
<1> QED  BY <1>1, <1>4 DEF Drops, v

LEMMA Handled ==
    ASSUME NEW q \in Seq(Event), q # <<>>, NEW p, NEW s,
           KillInv(Muted(q, p), Len(q), s), Heard => WatchInv(Muted(q, p), Len(q), s)
    PROVE  Good(Tail(q), p, s)
<1> DEFINE n == Len(q)
           v == View(Tail(q), p)
           w == Muted(q, p)
<1>1. /\ n \in Nat \ {0} /\ Len(Tail(q)) = n - 1 /\ Tail(q) \in Seq(Event)
      /\ \A i \in 1..(n - 1) : View(Tail(q), p)[i] = View(q, p)[i + 1]
  BY ViewTail
<1>2. v \in [1..(n - 1) -> Event]
  BY <1>1, ViewIs
<1>3. /\ w[1].kind = "connect"
      /\ \A i \in 1..n : i # 1 => w[i] = View(q, p)[i]
  BY MutedDrops DEF Drops
<1>4. \A i \in 1..(n - 1) : v[i] = w[i + 1]
  <2>1. \A i \in 1..(n - 1) : i + 1 \in 1..n /\ i + 1 # 1
    BY <1>1
  <2> QED  BY <1>1, <1>3, <2>1
<1>5. KillInv(w, n, s) /\ (Heard => WatchInv(w, n, s))
  OBVIOUS
<1>6. Good(Tail(q), p, s) <=> KillInv(v, n - 1, s) /\ (Heard => WatchInv(v, n - 1, s))
  BY <1>1 DEF Good
<1> HIDE DEF n, v, w
<1>7. KillInv(v, n - 1, s)
  BY <1>1, <1>2, <1>3, <1>4, <1>5, ShiftKills
<1>8. Heard => WatchInv(v, n - 1, s)
  BY <1>1, <1>3, <1>4, <1>5, ShiftWatch
<1> QED  BY <1>6, <1>7, <1>8

\* An event of somebody else, or one at which nothing is noted, is handled.
LEMMA Bystander ==
    ASSUME NEW q \in Seq(Event), q # <<>>, NEW p, NEW s, Good(q, p, s),
           Head(q).kind # "stop", Head(q).who # p \/ Head(q).kind = "connect"
    PROVE  Good(Tail(q), p, s)
<1> DEFINE n == Len(q)
           v == View(Tail(q), p)
           w == View(q, p)
<1>1. /\ n \in Nat \ {0} /\ Len(Tail(q)) = n - 1 /\ Tail(q) \in Seq(Event)
      /\ \A i \in 1..(n - 1) : v[i] = w[i + 1]
      /\ w[1] = Mark(Head(q), p) /\ Head(q) \in Event
  BY ViewTail
<1>2. v \in [1..(n - 1) -> Event]
  BY <1>1, ViewIs
<1>3. w[1].kind = "connect"
  BY <1>1, MarkIs
<1>4. Good(Tail(q), p, s) <=> KillInv(v, n - 1, s) /\ (Heard => WatchInv(v, n - 1, s))
  BY <1>1 DEF Good
<1>5. KillInv(w, n, s) /\ (Heard => WatchInv(w, n, s))
  BY DEF Good
<1> HIDE DEF n, v, w
<1>6. KillInv(v, n - 1, s)
  BY <1>1, <1>2, <1>3, <1>5, ShiftKills
<1>7. Heard => WatchInv(v, n - 1, s)
  BY <1>1, <1>3, <1>5, ShiftWatch
<1> QED  BY <1>4, <1>6, <1>7

\* Somebody else puts events into the queue.
LEMMA Others ==
    ASSUME NEW q \in Seq(Event), NEW more \in Seq(Event), NEW p, NEW s, Good(q, p, s),
           \A i \in 1..Len(more) : more[i].kind # "stop" /\ (more[i].who # p \/ more[i].kind = "connect")
    PROVE  Good(q \o more, p, s)
<1>0. PICK r : r = q \o more /\ Joined(q, more, r, p)
  BY ViewAdd
<1>1. /\ r \in Seq(Event) /\ Len(r) = Len(q) + Len(more) /\ Len(q) \in Nat /\ Len(more) \in Nat
      /\ \A i \in 1..Len(q) : View(r, p)[i] = View(q, p)[i]
      /\ \A i \in 1..Len(r) : i > Len(q) =>
            \E j \in 1..Len(more) : i = Len(q) + j /\ View(r, p)[i] = Mark(more[j], p)
  BY <1>0 DEF Joined
<1>2. \A j \in 1..Len(more) : Mark(more[j], p).kind = "connect"
  BY MarkIs
<1>3. \A i \in 1..Len(r) : i > Len(q) => View(r, p)[i].kind = "connect"
  <2> SUFFICES ASSUME NEW i \in 1..Len(r), i > Len(q)
               PROVE  View(r, p)[i].kind = "connect"
    OBVIOUS
  <2>1. PICK j \in 1..Len(more) : View(r, p)[i] = Mark(more[j], p)
    BY <1>1
  <2> QED  BY <1>2, <2>1
<1>6. Len(r) \in Nat /\ Len(q) <= Len(r)
  BY <1>1
<1>4. KillInv(View(r, p), Len(r), s)
  BY <1>1, <1>3, <1>6, NeutralKills DEF Good
<1>5. Heard => WatchInv(View(r, p), Len(r), s)
  BY <1>1, <1>3, <1>6, NeutralWatch DEF Good
<1> QED  BY <1>0, <1>4, <1>5 DEF Good

LEMMA OfIs ==
    ASSUME NEW p
    PROVE  /\ Of(p).plane = plane[p] /\ Of(p).life = life[p] /\ Of(p).hit = hit[p]
           /\ Of(p).lost = lost[p] /\ Of(p).pending = pending[p] /\ Of(p).awaiting = awaiting[p]
           /\ Of(p).timers = timers[p] /\ Of(p).kills = kills[p]
BY DEF Of

LEMMA NextOf ==
    ASSUME NEW p
    PROVE  /\ Of(p)'.plane = plane'[p] /\ Of(p)'.life = life'[p] /\ Of(p)'.hit = hit'[p]
           /\ Of(p)'.lost = lost'[p] /\ Of(p)'.pending = pending'[p]
           /\ Of(p)'.awaiting = awaiting'[p] /\ Of(p)'.timers = timers'[p]
           /\ Of(p)'.kills = kills'[p]
BY DEF Of

\* Nothing changes for a player.
LEMMA SameOf ==
    ASSUME NEW p, plane'[p] = plane[p], life'[p] = life[p], hit'[p] = hit[p], lost'[p] = lost[p],
           pending'[p] = pending[p], awaiting'[p] = awaiting[p], timers'[p] = timers[p],
           kills'[p] = kills[p]
    PROVE  Of(p)' = Of(p)
BY DEF Of

\* Events of others are put into the queue.
LEMMA OthersPlayer ==
    ASSUME TypeInv, NEW p \in Player, PlayerInv(p), Of(p)' = Of(p), NEW more \in Seq(Event),
           queue' = queue \o more,
           \A i \in 1..Len(more) : more[i].kind # "stop" /\ (more[i].who # p \/ more[i].kind = "connect")
    PROVE  PlayerInv(p)'
<1>1. queue \in Seq(Event)
  BY DEF TypeInv, TypeOK
<1>2. Good(queue \o more, p, Of(p))
  BY <1>1, Others DEF PlayerInv
<1>3. Good(queue', p, Of(p)')
  BY <1>2
<1> QED  BY <1>3 DEF PlayerInv

LEMMA OtherPlayer ==
    ASSUME TypeInv, NEW p \in Player, PlayerInv(p), Of(p)' = Of(p), NEW e \in Event,
           queue' = queue \o <<e>>, e.kind # "stop", e.who # p \/ e.kind = "connect"
    PROVE  PlayerInv(p)'
<1>0. PICK more : more = <<e>>
  OBVIOUS
<1>1. more \in Seq(Event) /\ Len(more) = 1 /\ more[1] = e
  BY <1>0
<1>2. \A i \in 1..Len(more) : more[i].kind # "stop" /\ (more[i].who # p \/ more[i].kind = "connect")
  BY <1>1
<1> QED  BY <1>0, <1>1, <1>2, OthersPlayer

\* The first event is of no interest to a player.
LEMMA BystanderPlayer ==
    ASSUME TypeInv, NEW p \in Player, PlayerInv(p), Of(p)' = Of(p), queue # <<>>,
           queue' = Tail(queue),
           Head(queue).kind # "stop", Head(queue).who # p \/ Head(queue).kind = "connect"
    PROVE  PlayerInv(p)'
<1>1. queue \in Seq(Event)
  BY DEF TypeInv, TypeOK
<1>2. Good(Tail(queue), p, Of(p))
  BY <1>1, Bystander DEF PlayerInv
<1>3. Good(queue', p, Of(p)')
  BY <1>2
<1> QED  BY <1>3 DEF PlayerInv

\* What the bot sends itself.
Rowed(more, p, l) ==
    /\ Len(more) \in 0..2 /\ (Complete => Len(more) = 2)
    /\ \A i \in 1..Len(more) :
          /\ more[i].who = p
          /\ \/ i = 1 /\ more[i].kind = "S_kill"
             \/ i = 2 /\ more[i].kind = "kill" /\ more[i].life = l
Given(p, l, left, x) == \E more \in Seq(Event) : x = left \o more /\ Rowed(more, p, l)

LEMMA GivenRow ==
    ASSUME NEW p \in Player, NEW t \in Threat, NEW left, Sends(p, t, left)
    PROVE  Given(p, t.life, left, queue')
<1>1. PICK more \in Seq(Event) :
          /\ more = Reports(p, t)
          /\ Len(more) \in 0..2 /\ (t.by \in {"player", "AI"} => Len(more) = 2)
          /\ \A i \in 1..Len(more) :
                /\ more[i].who = p
                /\ \/ i = 1 /\ more[i].kind = "S_kill"
                   \/ i = 2 /\ more[i].kind = "kill" /\ more[i].life = t.life
  BY GiveTypes
<1>2. Complete => t.by \in {"player", "AI"}
  BY DEF Complete, Threat, Killer
<1>3. queue' = left \o more
  BY <1>1 DEF Sends
<1>4. Rowed(more, p, t.life)
  BY <1>1, <1>2 DEF Rowed
<1> QED  BY <1>3, <1>4 DEF Given

\* Somebody else is given a kill.
LEMMA GivenPlayer ==
    ASSUME TypeInv, NEW p \in Player, PlayerInv(p), Of(p)' = Of(p), NEW q \in Player, q # p,
           NEW t \in Threat,
           \/ Sends(q, t, queue)
           \/ queue # <<>> /\ Head(queue).who = q /\ Head(queue).kind # "stop" /\ Sends(q, t, Rest)
    PROVE  PlayerInv(p)'
<1>1. queue \in Seq(Event) /\ Good(queue, p, Of(p))
  BY DEF TypeInv, TypeOK, PlayerInv
<1>2. ASSUME NEW left \in Seq(Event), Good(left, p, Of(p)), Sends(q, t, left)
      PROVE  PlayerInv(p)'
  <2>1. PICK more \in Seq(Event) : queue' = left \o more /\ Rowed(more, q, t.life)
    BY <1>2, GivenRow DEF Given
  <2>2. \A i \in 1..Len(more) : more[i].kind # "stop" /\ (more[i].who # p \/ more[i].kind = "connect")
    BY <2>1 DEF Rowed
  <2>3. Good(left \o more, p, Of(p))
    BY <1>2, <2>2, Others
  <2>4. Good(queue', p, Of(p)')
    BY <2>1, <2>3
  <2> QED  BY <2>4 DEF PlayerInv
<1>3. CASE Sends(q, t, queue)
  BY <1>1, <1>2, <1>3
<1>4. CASE queue # <<>> /\ Head(queue).who = q /\ Head(queue).kind # "stop" /\ Sends(q, t, Rest)
  <2>1. Good(Tail(queue), p, Of(p)) /\ Tail(queue) \in Seq(Event)
    BY <1>1, <1>4, Bystander, RestType
  <2> QED  BY <1>2, <1>4, <2>1 DEF Rest
<1> QED  BY <1>3, <1>4

\* The first event is the player's, or the stop of the game.
LEMMA OwnHead ==
    ASSUME TypeInv, NEW p \in Player, queue # <<>>,
           Head(queue).who = p \/ Head(queue).kind = "stop"
    PROVE  /\ Drops(View(queue, p), Muted(queue, p), Len(queue))
           /\ View(queue, p)[1] = Head(queue) /\ Head(queue) \in Event
           /\ Typed(View(queue, p), Len(queue), Of(p)) /\ queue \in Seq(Event)
<1>1. queue \in Seq(Event)
  BY DEF TypeInv, TypeOK
<1>2. View(queue, p)[1] = Mark(Head(queue), p) /\ Head(queue) \in Event
  BY <1>1, ViewTail, RestType
<1> QED  BY <1>1, <1>2, MutedDrops, MarkIs, PlayerTyped

\* An event of a player is handled.
LEMMA OwnHandled ==
    ASSUME TypeInv, NEW p \in Player, PlayerInv(p), queue # <<>>, Head(queue).who = p,
           \/ HandleTakeoff \/ HandleFire \/ HandleLand \/ HandleSKill \/ HandleCrash \/ HandleKill
    PROVE  PlayerInv(p)'
<1> DEFINE v == View(queue, p)
           w == Muted(queue, p)
           n == Len(queue)
           s == Of(p)
           r == Of(p)'
           e == Head(queue)
<1>1. /\ Drops(v, w, n) /\ v[1] = e /\ e \in Event /\ Typed(v, n, s)
      /\ KillInv(v, n, s) /\ (Heard => WatchInv(v, n, s))
  BY OwnHead DEF PlayerInv, Good
<1>2. /\ s.plane = plane[p] /\ s.life = life[p] /\ s.hit = hit[p]
      /\ s.lost = lost[p] /\ s.pending = pending[p] /\ s.awaiting = awaiting[p]
      /\ s.timers = timers[p] /\ s.kills = kills[p]
  BY OfIs
<1>3. /\ r.plane = plane'[p] /\ r.life = life'[p] /\ r.hit = hit'[p]
      /\ r.lost = lost'[p] /\ r.pending = pending'[p] /\ r.awaiting = awaiting'[p]
      /\ r.timers = timers'[p] /\ r.kills = kills'[p]
  BY NextOf
<1>4. queue' = Tail(queue) /\ UNCHANGED world
  BY DEF HandleTakeoff, HandleFire, HandleLand, HandleSKill, HandleCrash, HandleKill, Rest, Alone
<1>5. /\ pending \in [Player -> {None, Flying} \cup Threat]
      /\ timers \in [Player -> SUBSET Threat] /\ awaiting \in [Player -> {None} \cup Threat]
      /\ kills \in [Player -> [Lives -> Nat]]
  BY DEF TypeInv, TypeOK
<1>6. e.who = p /\ (e.kind \in Fired => e.life \in Lives)
  BY RestTypes DEF Fired
<1>7. Kept(s, r) /\ SamePlane(s, r)
  BY <1>2, <1>3, <1>4 DEF Kept, SamePlane, world
<1>8. KillInv(w, n, r) /\ (Heard => WatchInv(w, n, r)) => PlayerInv(p)'
  <2> SUFFICES ASSUME KillInv(w, n, r) /\ (Heard => WatchInv(w, n, r))
               PROVE  PlayerInv(p)'
    OBVIOUS
  <2>1. queue \in Seq(Event)
    BY OwnHead
  <2>2. Good(Tail(queue), p, r)
    BY <2>1, Handled
  <2>3. Good(queue', p, Of(p)')
    BY <2>2, <1>4
  <2> QED  BY <2>3 DEF PlayerInv
<1>9. Threatened(p) <=> Feared(s)
  BY <1>2 DEF Threatened, Feared
<1> HIDE DEF v, w, n, s, r, e
<1>10. CASE HandleTakeoff
  <2>1. /\ v[1].kind = "takeoff" /\ r.pending = Flying
        /\ r.timers = s.timers /\ r.awaiting = s.awaiting /\ r.kills = s.kills
    BY <1>1, <1>2, <1>3, <1>5, <1>6, <1>10 DEF HandleTakeoff, Handles, Keeps, Alone, e
  <2>2. KillInv(w, n, r)
    BY <1>1, <1>7, <2>1, TakeoffKills
  <2>3. Heard => WatchInv(w, n, r)
    BY <1>1, <1>7, <2>1, TakeoffWatch
  <2> QED  BY <1>8, <2>2, <2>3
<1>11. CASE HandleFire
  <2>1. /\ v[1].kind \in Fired
        /\ r.timers = s.timers /\ r.awaiting = s.awaiting /\ r.kills = s.kills
    BY <1>1, <1>2, <1>3, <1>11 DEF HandleFire, Handles, Keeps, Alone, e, Fired
  <2>2. \/ /\ s.pending # None /\ r.pending \in Threat /\ r.pending.kind = v[1].kind
           /\ r.pending.life = v[1].life /\ r.pending.age = "fresh"
           /\ v[1].kind = "hit" \/ ~Hot(s, s.life)
        \/ r.pending = s.pending /\ (s.pending = None \/ v[1].kind = "shot")
    <3> DEFINE threat == [kind |-> e.kind, by |-> e.by, life |-> e.life, age |-> "fresh"]
    <3>1. CASE /\ pending[p] # None /\ Replaces(p, e.kind)
               /\ pending' = [pending EXCEPT ![p] = threat]
      <4>1. /\ threat \in Threat /\ threat.kind = e.kind /\ threat.life = e.life
            /\ threat.age = "fresh"
        BY <1>1, <1>6, <2>1 DEF Threat, Age, Event, Fired
      <4>2. r.pending = threat
        BY <1>3, <1>5, <3>1
      <4>3. e.kind = "hit" \/ ~Hot(s, s.life)
        BY <1>2, <1>9, <3>1 DEF Replaces, Hot
      <4> HIDE DEF threat
      <4> QED  BY <1>1, <1>2, <3>1, <4>1, <4>2, <4>3
    <3>2. CASE /\ \/ pending[p] = None \/ ~Replaces(p, e.kind)
                  \/ e.kind = "shot" /\ Threatened(p) /\ pending[p].kind = "shot"
               /\ UNCHANGED pending
      <4>1. pending[p] = None \/ e.kind # "hit"
        BY <3>2 DEF Replaces
      <4> QED  BY <1>1, <1>2, <1>3, <2>1, <3>2, <4>1 DEF Fired
    <3> QED  BY <1>6, <1>11, <3>1, <3>2 DEF HandleFire, e
  <2>3. KillInv(w, n, r)
    BY <1>1, <1>7, <2>1, <2>2, FireKills
  <2>4. Heard => WatchInv(w, n, r)
    BY <1>1, <1>7, <2>1, <2>2, FireWatch
  <2> QED  BY <1>8, <2>3, <2>4
<1>12. CASE HandleLand
  <2>1. /\ v[1].kind = "land" /\ r.pending = None
        /\ r.timers = s.timers /\ r.awaiting = s.awaiting /\ r.kills = s.kills
    BY <1>1, <1>2, <1>3, <1>5, <1>6, <1>12 DEF HandleLand, Handles, Forgets, Keeps, Alone, e
  <2>2. KillInv(w, n, r)
    BY <1>1, <1>7, <2>1, ForgetKills
  <2>3. Heard => WatchInv(w, n, r)
    BY <1>1, <1>7, <2>1, ForgetWatch DEF Ending, Leaving
  <2> QED  BY <1>8, <2>2, <2>3
<1>13. CASE HandleSKill
  <2>1. /\ v[1].kind = "S_kill" /\ r.pending = None
        /\ r.timers = s.timers \ {s.awaiting} /\ r.kills = s.kills
    BY <1>1, <1>2, <1>3, <1>5, <1>6, <1>13 DEF HandleSKill, Handles, Forgets, Cancels, Releases, Alone, e
  <2>2. KillInv(w, n, r)
    BY <1>1, <1>7, <2>1, SKillKills
  <2>3. Heard => WatchInv(w, n, r)
    BY <1>1, <1>7, <2>1, SKillWatch
  <2> QED  BY <1>8, <2>2, <2>3
<1>14. CASE HandleCrash
  <2>1. v[1].kind = "crash" /\ r.pending = None /\ r.kills = s.kills
    BY <1>1, <1>2, <1>3, <1>5, <1>6, <1>14 DEF HandleCrash, Handles, Forgets, Alone, e
  <2>2. \/ Scheduled(s, r)
        \/ ~Hot(s, s.life) /\ r.timers = s.timers /\ r.awaiting = s.awaiting
    <3>1. CASE /\ Threatened(p) /\ InTime(pending[p])
               /\ timers' = [timers EXCEPT ![p] = (@ \ {awaiting[p]}) \cup {pending[p]}]
               /\ awaiting' = [awaiting EXCEPT ![p] = pending[p]]
      BY <1>2, <1>3, <1>5, <1>9, <3>1 DEF Scheduled
    <3>2. CASE /\ Threatened(p) => ~InTime(pending[p]) \/ pending[p].kind = "shot"
               /\ Keeps
      <4>1. Feared(s) => s.pending \in Threat
        BY <1>2, <1>5 DEF Feared
      <4>2. ~Hot(s, s.life)
        BY <1>2, <1>9, <3>2, <4>1 DEF Hot, InTime, Threat, Age
      <4> QED  BY <1>2, <1>3, <3>2, <4>2 DEF Keeps
    <3> QED  BY <1>6, <1>14, <3>1, <3>2 DEF HandleCrash, e
  <2>3. CASE Scheduled(s, r)
    <3>1. KillInv(w, n, r) /\ r.timers = {s.pending} /\ s.pending.life = s.life
      <4>1. KillInv(w, n, r)
        BY <1>1, <1>7, <2>1, <2>3, CrashKills
      <4>2. r.timers = {s.pending}
        BY <1>1, <1>7, <2>1, <2>3, <4>1, CrashKills
      <4>3. s.pending.life = s.life
        BY <1>1, <1>7, <2>1, <2>3, <4>1, CrashKills
      <4> QED  BY <4>1, <4>2, <4>3
    <3>2. s.timers = {}
      BY <1>1, <2>3 DEF KillInv, OneTimer, Scheduled
    <3>3. Heard => WatchInv(w, n, r)
      BY <1>1, <1>7, <2>1, <3>1, <3>2, CrashWatch
    <3> QED  BY <1>8, <3>1, <3>3
  <2>4. CASE ~Hot(s, s.life) /\ r.timers = s.timers /\ r.awaiting = s.awaiting
    <3>1. KillInv(w, n, r)
      BY <1>1, <1>7, <2>1, <2>4, ForgetKills
    <3>2. Heard => WatchInv(w, n, r)
      BY <1>1, <1>7, <2>1, <2>4, ForgetWatch DEF Ending
    <3> QED  BY <1>8, <3>1, <3>2
  <2> QED  BY <2>2, <2>3, <2>4
<1>15. CASE HandleKill
  <2>1. v[1].kind = "kill" /\ r.kills = [s.kills EXCEPT ![v[1].life] = @ + 1]
    BY <1>1, <1>2, <1>3, <1>5, <1>6, <1>15 DEF HandleKill, Handles, e
  <2>2. \/ v[1].by = "AI" /\ r.pending = s.pending /\ r.timers = s.timers
        \/ r.pending = None /\ r.timers = s.timers \ {s.awaiting}
    BY <1>1, <1>2, <1>3, <1>5, <1>6, <1>15 DEF HandleKill, Forgets, Cancels, Releases, e
  <2>3. KillInv(w, n, r)
    BY <1>1, <1>7, <2>1, <2>2, KillKills
  <2>4. Heard => WatchInv(w, n, r)
    BY <1>1, <1>7, <2>1, <2>2, KillWatch
  <2> QED  BY <1>8, <2>3, <2>4
<1> QED  BY <1>10, <1>11, <1>12, <1>13, <1>14, <1>15

\* The player is given a kill: queue x is q with the events of the bot.
Ended(q, x, p, l) ==
    /\ x \in Seq(Event) /\ Len(x) \in Nat
    /\ \A i \in 1..Len(q) : View(x, p)[i] = View(q, p)[i]
    /\ Told(View(x, p), Len(q), Len(x), l)
    /\ Complete => Len(x) = Len(q) + 2

LEMMA Members ==
    ASSUME NEW q \in Seq(Event)
    PROVE  \A i \in 1..Len(q) : q[i] \in Event
OBVIOUS

LEMMA OwnEnded ==
    ASSUME NEW q \in Seq(Event), NEW more \in Seq(Event), NEW p, NEW l, Rowed(more, p, l)
    PROVE  Ended(q, q \o more, p, l)
<1>1. PICK x : x = q \o more /\ Joined(q, more, x, p)
  BY ViewAdd
<1> DEFINE n == Len(q)
           m == Len(more)
<1>2. /\ x \in Seq(Event) /\ Len(x) = n + m /\ n \in Nat
      /\ \A i \in 1..n : View(x, p)[i] = View(q, p)[i]
      /\ \A i \in 1..Len(x) : i > n =>
            \E j \in 1..m : i = n + j /\ View(x, p)[i] = Mark(more[j], p)
  BY <1>1 DEF Joined
<1>3. \A j \in 1..m : more[j] \in Event
  BY Members
<1>4. \A j \in 1..m : /\ Mark(more[j], p) = more[j]
                      /\ \/ j = 1 /\ more[j].kind = "S_kill"
                         \/ j = 2 /\ more[j].kind = "kill" /\ more[j].life = l
  BY <1>3, MarkIs DEF Rowed
<1>5. m \in 0..2 /\ (Complete => m = 2)
  BY DEF Rowed
<1> HIDE DEF n, m
<1>6. Told(View(x, p), n, n + m, l)
  <2>1. n + m \in n..(n + 2)
    BY <1>2, <1>5
  <2> SUFFICES ASSUME NEW i \in 1..(n + m), i > n
               PROVE  \/ i = n + 1 /\ View(x, p)[i].kind = "S_kill"
                      \/ i = n + 2 /\ View(x, p)[i].kind = "kill" /\ View(x, p)[i].life = l
    BY <2>1 DEF Told
  <2>2. PICK j \in 1..m : i = n + j /\ View(x, p)[i] = more[j]
    BY <1>2, <1>4
  <2> QED  BY <1>4, <2>2
<1>7. n + m \in Nat /\ (Complete => n + m = n + 2)
  BY <1>2, <1>5
<1> QED  BY <1>1, <1>2, <1>6, <1>7 DEF Ended, n

LEMMA OwnGiven ==
    ASSUME NEW p \in Player, NEW t \in Threat, NEW q \in Seq(Event), Sends(p, t, q)
    PROVE  Ended(q, queue', p, t.life)
<1>1. PICK more \in Seq(Event) : queue' = q \o more /\ Rowed(more, p, t.life)
  BY GivenRow DEF Given
<1>2. Ended(q, q \o more, p, t.life)
  BY <1>1, OwnEnded
<1> QED  BY <1>1, <1>2

\* The same while the first event is handled.
LEMMA OwnLeft ==
    ASSUME NEW p \in Player, NEW t \in Threat, NEW q \in Seq(Event), q # <<>>,
           Sends(p, t, Tail(q))
    PROVE  \E x \in Seq(Event) :
               /\ queue' = Tail(x) /\ x # <<>> /\ Drops(View(q, p), Muted(x, p), Len(q))
               /\ Told(Muted(x, p), Len(q), Len(x), t.life)
               /\ Complete => Len(x) = Len(q) + 2
<1>1. PICK more \in Seq(Event) : queue' = Tail(q) \o more /\ Rowed(more, p, t.life)
  BY GivenRow DEF Given
<1>2. PICK x : x = q \o more /\ Ended(q, x, p, t.life)
  BY <1>1, OwnEnded
<1> DEFINE n == Len(q)
           m == Len(x)
<1>3. queue' = Tail(x) /\ x # <<>>
  BY <1>1, <1>2, TailAdd
<1>4. n \in Nat \ {0}
  OBVIOUS
<1>5. /\ x \in Seq(Event) /\ m \in Nat /\ m \in n..(n + 2)
      /\ \A i \in 1..n : View(x, p)[i] = View(q, p)[i]
      /\ Told(View(x, p), n, m, t.life) /\ (Complete => m = n + 2)
  BY <1>2 DEF Ended, Told
<1>6. /\ Muted(x, p)[1].kind = "connect"
      /\ \A i \in 1..m : i # 1 => Muted(x, p)[i] = View(x, p)[i]
  BY <1>3, <1>5, MutedDrops DEF Drops
<1> HIDE DEF n, m
<1>7. \A i \in 1..n : i \in 1..m
  BY <1>4, <1>5
<1>8. Drops(View(q, p), Muted(x, p), n)
  BY <1>4, <1>5, <1>6, <1>7 DEF Drops
<1>9. \A i \in 1..m : i > n => i # 1
  BY <1>4, <1>5
<1>10. Told(Muted(x, p), n, m, t.life)
  BY <1>5, <1>6, <1>9 DEF Told
<1> QED  BY <1>3, <1>5, <1>8, <1>10 DEF n, m

\* Another seat, or he has left.
LEMMA OwnGone ==
    ASSUME TypeInv, NEW p \in Player, PlayerInv(p), queue # <<>>, Head(queue).who = p,
           HandleSlot \/ HandleDisconnect
    PROVE  PlayerInv(p)'
<1> DEFINE v == View(queue, p)
           n == Len(queue)
           s == Of(p)
           r == Of(p)'
           e == Head(queue)
<1>1. /\ v[1] = e /\ e \in Event /\ Typed(v, n, s) /\ queue \in Seq(Event)
      /\ KillInv(v, n, s) /\ (Heard => WatchInv(v, n, s))
  BY OwnHead DEF PlayerInv, Good
<1>2. /\ s.plane = plane[p] /\ s.life = life[p] /\ s.hit = hit[p]
      /\ s.lost = lost[p] /\ s.pending = pending[p] /\ s.awaiting = awaiting[p]
      /\ s.timers = timers[p] /\ s.kills = kills[p]
  BY OfIs
<1>3. /\ r.plane = plane'[p] /\ r.life = life'[p] /\ r.hit = hit'[p]
      /\ r.lost = lost'[p] /\ r.pending = pending'[p] /\ r.awaiting = awaiting'[p]
      /\ r.timers = timers'[p] /\ r.kills = kills'[p]
  BY NextOf
<1>4. /\ UNCHANGED <<world, timers, kills>>
      /\ v[1].kind \in {"slot", "disconnect", "kicked"}
      /\ Forgets(p)
      /\ \/ v[1].kind # "kicked" /\ Threatened(p) /\ InTime(pending[p]) /\ Gives(p, pending[p], Rest)
         \/ /\ v[1].kind = "kicked" \/ ~Threatened(p) \/ ~InTime(pending[p])
            /\ queue' = Rest /\ UNCHANGED awaiting
  <2>1. CASE HandleSlot
    BY <1>1, <2>1 DEF HandleSlot, Handles, Alone
  <2>2. CASE HandleDisconnect
    BY <1>1, <2>2 DEF HandleDisconnect, Handles, Alone
  <2> QED  BY <2>1, <2>2
<1>5. /\ pending \in [Player -> {None, Flying} \cup Threat]
      /\ timers \in [Player -> SUBSET Threat] /\ awaiting \in [Player -> {None} \cup Threat]
  BY DEF TypeInv, TypeOK
<1>6. Kept(s, r) /\ SamePlane(s, r) /\ r.pending = None /\ r.timers = s.timers /\ r.kills = s.kills
  BY <1>2, <1>3, <1>4, <1>5 DEF Kept, SamePlane, world, Forgets
<1>7. Threatened(p) <=> Feared(s)
  BY <1>2 DEF Threatened, Feared
<1>8. CASE /\ v[1].kind = "kicked" \/ ~Threatened(p) \/ ~InTime(pending[p])
           /\ queue' = Rest /\ UNCHANGED awaiting
  <2> DEFINE w == Muted(queue, p)
  <2>1. Drops(v, w, n)
    BY OwnHead
  <2>2. Feared(s) => s.pending \in Threat
    BY <1>2, <1>5 DEF Feared
  <2>3. r.awaiting = s.awaiting /\ (v[1].kind \in Leaving => ~Hot(s, s.life))
    BY <1>2, <1>3, <1>7, <1>8, <2>2 DEF Hot, InTime, Threat, Age, Leaving
  <2> HIDE DEF v, w, n, s, r, e
  <2>4. KillInv(w, n, r)
    BY <1>1, <1>4, <1>6, <2>1, <2>3, ForgetKills
  <2>5. Heard => WatchInv(w, n, r)
    BY <1>1, <1>4, <1>6, <2>1, <2>3, ForgetWatch DEF Ending
  <2>6. Good(Tail(queue), p, r)
    BY <1>1, <2>4, <2>5, Handled DEF w, n
  <2>7. Good(queue', p, Of(p)')
    BY <1>8, <2>6 DEF Rest, r
  <2> QED  BY <2>7 DEF PlayerInv
<1>9. CASE v[1].kind # "kicked" /\ Threatened(p) /\ InTime(pending[p]) /\ Gives(p, pending[p], Rest)
  <2>1. pending[p] \in Threat /\ Feared(s)
    BY <1>5, <1>7, <1>9 DEF Threatened
  <2>2. Tail(queue) # queue
    BY <1>1
  <2>3. PICK x \in Seq(Event) :
               /\ queue' = Tail(x) /\ x # <<>> /\ Drops(View(queue, p), Muted(x, p), Len(queue))
               /\ Told(Muted(x, p), Len(queue), Len(x), pending[p].life)
               /\ Complete => Len(x) = Len(queue) + 2
    <3>1. PICK t : t = pending[p]
      OBVIOUS
    <3>2. t \in Threat /\ Sends(p, t, Tail(queue))
      BY <1>9, <2>1, <3>1 DEF Rest, Gives
    <3>3. \E x \in Seq(Event) :
               /\ queue' = Tail(x) /\ x # <<>> /\ Drops(View(queue, p), Muted(x, p), Len(queue))
               /\ Told(Muted(x, p), Len(queue), Len(x), t.life)
               /\ Complete => Len(x) = Len(queue) + 2
      BY <1>1, <3>2, OwnLeft
    <3> QED  BY <3>1, <3>3
  <2> DEFINE w == Muted(x, p)
             m == Len(x)
  <2>4. /\ Drops(v, w, n) /\ Told(w, n, m, s.pending.life)
        /\ n \in Nat /\ (Complete => m = n + 2)
    BY <1>1, <1>2, <2>3
  <2> HIDE DEF v, w, n, m, s, r, e
  <2>5. v[1].kind \in {"slot", "disconnect"}
    BY <1>4, <1>9
  <2>6. KillInv(w, m, r) /\ s.pending.life = s.life
    BY <1>1, <1>6, <2>1, <2>4, <2>5, GiveKills
  <2>8. s.timers = {} /\ r.timers = {}
    BY <1>1, <1>6, <2>1 DEF KillInv, OneTimer
  <2>9. Heard => WatchInv(w, m, r)
    <3> SUFFICES ASSUME Heard
                 PROVE  WatchInv(w, m, r)
      OBVIOUS
    <3>1. m = n + 2 /\ WatchInv(v, n, s)
      BY <1>1, <2>4 DEF Heard
    <3>2. n + 1 \in 1..m /\ n + 2 \in 1..m /\ n + 1 > n /\ n + 2 > n /\ n + 1 # n + 2
      BY <2>4, <3>1
    <3>3. w[n + 1].kind = "S_kill" /\ w[n + 2].kind = "kill" /\ w[n + 2].life = s.life
      BY <2>4, <2>6, <3>2 DEF Told
    <3>4. WatchInv(w, n + 2, r)
      BY <1>1, <1>6, <2>1, <2>4, <2>5, <2>8, <3>1, <3>3, GiveWatch
    <3> QED  BY <3>1, <3>4
  <2>10. Good(Tail(x), p, r)
    BY <2>3, <2>6, <2>9, Handled DEF w, m
  <2>11. Good(queue', p, Of(p)')
    BY <2>3, <2>10 DEF r
  <2> QED  BY <2>11 DEF PlayerInv
<1> QED  BY <1>4, <1>8, <1>9

\* DCS has not reported the kill.
LEMMA OwnFires ==
    ASSUME Orderly, TypeInv, NEW p \in Player, PlayerInv(p), Fires(p)
    PROVE  PlayerInv(p)'
<1> DEFINE v == View(queue, p)
           n == Len(queue)
           s == Of(p)
           r == Of(p)'
<1>1. /\ Typed(v, n, s) /\ queue \in Seq(Event) /\ n \in Nat
      /\ KillInv(v, n, s) /\ (Heard => WatchInv(v, n, s))
  BY PlayerTyped DEF PlayerInv, Good, TypeInv, TypeOK
<1>2. /\ s.plane = plane[p] /\ s.life = life[p] /\ s.hit = hit[p]
      /\ s.lost = lost[p] /\ s.pending = pending[p] /\ s.awaiting = awaiting[p]
      /\ s.timers = timers[p] /\ s.kills = kills[p]
  BY OfIs
<1>3. /\ r.plane = plane'[p] /\ r.life = life'[p] /\ r.hit = hit'[p]
      /\ r.lost = lost'[p] /\ r.pending = pending'[p] /\ r.awaiting = awaiting'[p]
      /\ r.timers = timers'[p] /\ r.kills = kills'[p]
  BY NextOf
<1>4. PICK t \in timers[p] :
         /\ \A i \in DOMAIN queue : queue[i].kind \in {"kill", "S_kill"} => queue[i].who # p
         /\ timers' = [timers EXCEPT ![p] = @ \ {t}]
         /\ Sends(p, t, queue)
  BY DEF Fires, Orderly
<1>5. timers \in [Player -> SUBSET Threat] /\ t \in Threat /\ UNCHANGED <<pending, world, kills>>
  BY DEF TypeInv, TypeOK, Fires, Alone
<1>6. /\ Kept(s, r) /\ SamePlane(s, r) /\ r.pending = s.pending /\ r.kills = s.kills
      /\ t \in s.timers /\ r.timers = s.timers \ {t}
  BY <1>2, <1>3, <1>4, <1>5 DEF Kept, SamePlane, world
<1>7. \A i \in 1..n : v[i].kind # "kill"
  <2> SUFFICES ASSUME NEW i \in 1..n
               PROVE  v[i].kind # "kill"
    OBVIOUS
  <2>1. v[i] = Mark(queue[i], p) /\ queue[i] \in Event /\ i \in DOMAIN queue
    BY <1>1, ViewIs
  <2> QED  BY <1>4, <2>1, MarkIs
<1>8. Ended(queue, queue', p, t.life)
  BY <1>1, <1>4, <1>5, OwnGiven
<1> DEFINE w == View(queue', p)
           m == Len(queue')
<1>9. /\ \A i \in 1..n : w[i] = v[i] /\ v[i].kind # "kill"
      /\ Told(w, n, m, t.life) /\ (Complete => m = n + 2)
  BY <1>7, <1>8 DEF Ended
<1> HIDE DEF v, w, n, m, s, r
<1>10. KillInv(w, m, r)
  BY <1>1, <1>6, <1>9, TimerKills
<1>11. t.life = s.life
  BY <1>1, <1>6 DEF KillInv, OneTimer
<1>12. Heard => WatchInv(w, m, r)
  <2> SUFFICES ASSUME Heard
               PROVE  WatchInv(w, m, r)
    OBVIOUS
  <2>1. m = n + 2 /\ WatchInv(v, n, s)
    BY <1>1, <1>9 DEF Heard
  <2>2. n + 1 \in 1..m /\ n + 2 \in 1..m /\ n + 1 > n /\ n + 2 > n /\ n + 1 # n + 2
    BY <1>1, <2>1
  <2>3. w[n + 1].kind = "S_kill" /\ w[n + 2].kind = "kill" /\ w[n + 2].life = s.life
    BY <1>9, <1>11, <2>2 DEF Told
  <2>4. WatchInv(w, n + 2, r)
    BY <1>1, <1>6, <1>9, <2>1, <2>3, TimerWatch
  <2> QED  BY <2>1, <2>4
<1>13. Good(queue', p, r)
  BY <1>10, <1>12 DEF Good, w, m
<1> QED  BY <1>13 DEF PlayerInv, r

-----------------------------------------------------------------------------
(* The game goes on.                                                       *)

LEMMA GameOthers ==
    ASSUME TypeInv, NEW p \in Player, PlayerInv(p), NEW q \in Player, q # p,
           \/ Connect(q) \/ TakeSlot(q) \/ Respawn(q) \/ Takeoff(q) \/ Land(q)
           \/ \E by \in Killer : Crash(q, by) \/ \E kind \in {"shot", "hit"} : Fire(q, kind, by)
           \/ \E kind \in {"disconnect", "kicked"} : Disconnect(q, kind)
    PROVE  PlayerInv(p)'
<1>1. Of(p)' = Of(p)
  <2>1. UNCHANGED <<pending, awaiting, timers, kills>>
    BY DEF Connect, TakeSlot, Respawn, Takeoff, Land, Crash, Fire, Disconnect, Bot, plugin
  <2>2. /\ plane'[p] = plane[p] /\ life'[p] = life[p] /\ hit'[p] = hit[p] /\ lost'[p] = lost[p]
    BY DEF Connect, TakeSlot, Respawn, Takeoff, Land, Crash, Fire, Disconnect, Moves, Heals, Loses,
           TypeInv, TypeOK
  <2> QED  BY <2>1, <2>2, SameOf
<1>2. TypeOK /\ queue \in Seq(Event)
  BY DEF TypeInv, TypeOK
<1>3. CASE Respawn(q)
  BY <1>1, <1>3 DEF Respawn, PlayerInv
<1>4. ASSUME NEW e \in Event, e.kind # "stop", e.who = q, Queues(<<e>>)
      PROVE  PlayerInv(p)'
  BY <1>1, <1>4, OtherPlayer DEF Queues
<1>5. CASE Connect(q) \/ TakeSlot(q) \/ Land(q)
  <2>1. PICK kind \in {"connect", "slot", "land"} : Queues(<<Ev(kind, q, "AI")>>)
    BY <1>5 DEF Connect, TakeSlot, Land
  <2>2. Ev(kind, q, "AI") \in Event /\ Ev(kind, q, "AI").kind = kind /\ Ev(kind, q, "AI").who = q
    BY <1>2, EvType DEF Killer
  <2> QED  BY <1>4, <2>1, <2>2
<1>6. CASE Takeoff(q)
  <2> DEFINE e == [Ev("takeoff", q, "AI") EXCEPT !.life = life[q] + 1]
  <2>1. e \in Event /\ e.kind = "takeoff" /\ e.who = q
    <3>1. life[q] + 1 \in 0..MaxLives
      BY <1>6, KillAssumption DEF Takeoff, TypeInv, TypeOK
    <3>2. Ev("takeoff", q, "AI") = [kind |-> "takeoff", who |-> q, by |-> "AI", life |-> life[q]]
      BY DEF Ev
    <3>3. e = [kind |-> "takeoff", who |-> q, by |-> "AI", life |-> life[q] + 1]
      BY <3>2
    <3> HIDE DEF e
    <3> QED  BY <3>1, <3>3 DEF Event, Killer
  <2>2. Queues(<<e>>)
    BY <1>6 DEF Takeoff
  <2> HIDE DEF e
  <2> QED  BY <1>4, <2>1, <2>2
<1>7. ASSUME NEW by \in Killer, NEW kind \in {"shot", "hit"}, Fire(q, kind, by)
      PROVE  PlayerInv(p)'
  <2>1. Queues(<<Ev(kind, q, by)>>)
    BY <1>7 DEF Fire
  <2>2. Ev(kind, q, by) \in Event /\ Ev(kind, q, by).kind = kind /\ Ev(kind, q, by).who = q
    BY <1>2, EvType
  <2> QED  BY <1>4, <2>1, <2>2
<1>8. ASSUME NEW kind \in {"disconnect", "kicked"}, Disconnect(q, kind)
      PROVE  PlayerInv(p)'
  <2>1. Queues(<<Ev(kind, q, "AI")>>)
    BY <1>8 DEF Disconnect
  <2>2. Ev(kind, q, "AI") \in Event /\ Ev(kind, q, "AI").kind = kind /\ Ev(kind, q, "AI").who = q
    BY <1>2, EvType DEF Killer
  <2> QED  BY <1>4, <2>1, <2>2
<1>9. ASSUME NEW by \in Killer, Crash(q, by)
      PROVE  PlayerInv(p)'
  <2> DEFINE a == Ev("crash", q, by)
             b == Ev("S_kill", q, by)
             c == Ev("kill", q, by)
  <2>1. /\ a \in Event /\ b \in Event /\ c \in Event
        /\ a.kind = "crash" /\ b.kind = "S_kill" /\ c.kind = "kill"
        /\ a.who = q /\ b.who = q /\ c.who = q
    BY <1>2, EvType
  <2>2. \/ Queues(<<a>>) \/ Queues(<<a>> \o <<b, c>>) \/ Queues(<<b, c>> \o <<a>>)
        \/ Queues(<<a>> \o <<c>>) \/ Queues(<<c>> \o <<a>>)
    BY <1>9 DEF Crash
  <2> HIDE DEF a, b, c
  <2>3. ASSUME NEW more \in Seq(Event), Queues(more), Len(more) \in 1..3,
               \A i \in 1..Len(more) : more[i] \in {a, b, c}
        PROVE  PlayerInv(p)'
    <3>1. \A i \in 1..Len(more) : more[i].kind # "stop" /\ (more[i].who # p \/ more[i].kind = "connect")
      BY <2>1, <2>3
    <3> QED  BY <1>1, <2>3, <3>1, OthersPlayer DEF Queues
  <2>4. CASE Queues(<<a>>)
    BY <1>4, <2>1, <2>4
  <2>5. CASE Queues(<<a>> \o <<b, c>>)
    <3>1. PICK more : more = <<a>> \o <<b, c>>
      OBVIOUS
    <3>2. more \in Seq(Event) /\ Len(more) = 3 /\ more[1] = a /\ more[2] = b /\ more[3] = c
      BY <2>1, <3>1, Rows
    <3>3. Len(more) \in 1..3 /\ \A i \in 1..Len(more) : more[i] \in {a, b, c}
      BY <3>2
    <3> QED  BY <2>3, <2>5, <3>1, <3>2, <3>3
  <2>6. CASE Queues(<<b, c>> \o <<a>>)
    <3>1. PICK more : more = <<b, c>> \o <<a>>
      OBVIOUS
    <3>2. more \in Seq(Event) /\ Len(more) = 3 /\ more[1] = b /\ more[2] = c /\ more[3] = a
      BY <2>1, <3>1, Rows
    <3>3. Len(more) \in 1..3 /\ \A i \in 1..Len(more) : more[i] \in {a, b, c}
      BY <3>2
    <3> QED  BY <2>3, <2>6, <3>1, <3>2, <3>3
  <2>7. CASE Queues(<<a>> \o <<c>>)
    <3>1. PICK more : more = <<a>> \o <<c>>
      OBVIOUS
    <3>2. more \in Seq(Event) /\ Len(more) = 2 /\ more[1] = a /\ more[2] = c
      BY <2>1, <3>1, Rows
    <3>3. Len(more) \in 1..3 /\ \A i \in 1..Len(more) : more[i] \in {a, b, c}
      BY <3>2
    <3> QED  BY <2>3, <2>7, <3>1, <3>2, <3>3
  <2>8. CASE Queues(<<c>> \o <<a>>)
    <3>1. PICK more : more = <<c>> \o <<a>>
      OBVIOUS
    <3>2. more \in Seq(Event) /\ Len(more) = 2 /\ more[1] = c /\ more[2] = a
      BY <2>1, <3>1, Rows
    <3>3. Len(more) \in 1..3 /\ \A i \in 1..Len(more) : more[i] \in {a, b, c}
      BY <3>2
    <3> QED  BY <2>3, <2>8, <3>1, <3>2, <3>3
  <2> QED  BY <2>2, <2>4, <2>5, <2>6, <2>7, <2>8
<1> QED  BY <1>3, <1>5, <1>6, <1>7, <1>8, <1>9

\* One event of the player, or the stop, at the end of the queue.
LEMMA OwnAdded ==
    ASSUME NEW q \in Seq(Event), NEW e \in Event, NEW p, e.who = p \/ e.kind = "stop",
           NEW s,
           KillInv(View(q \o <<e>>, p), Len(q) + 1, s),
           Heard => WatchInv(View(q \o <<e>>, p), Len(q) + 1, s)
    PROVE  Good(q \o <<e>>, p, s)
<1>1. Len(q \o <<e>>) = Len(q) + 1
  OBVIOUS
<1> QED  BY <1>1 DEF Good

OneMore(v, w, n, e) == /\ n \in Nat /\ w[n + 1] = e
                       /\ \A i \in 1..n : w[i] = v[i]

LEMMA OwnOneMore ==
    ASSUME NEW q \in Seq(Event), NEW e \in Event, NEW p, e.who = p \/ e.kind = "stop"
    PROVE  OneMore(View(q, p), View(q \o <<e>>, p), Len(q), e)
<1>0. PICK more : more = <<e>>
  OBVIOUS
<1>1. more \in Seq(Event) /\ Len(more) = 1 /\ more[1] = e /\ 1 \in 1..Len(more)
  BY <1>0
<1>2. PICK r : r = q \o more /\ Joined(q, more, r, p)
  BY <1>1, ViewAdd
<1>3. Mark(e, p) = e
  BY MarkIs
<1> QED  BY <1>0, <1>1, <1>2, <1>3 DEF Joined, OneMore

\* The player moves, and leaves the plugin alone.
LEMMA OwnMoves ==
    ASSUME TypeInv, NEW p \in Player, PlayerInv(p),
           \/ Connect(p) \/ TakeSlot(p) \/ Respawn(p) \/ Takeoff(p) \/ Land(p)
           \/ \E by \in Killer : Crash(p, by) \/ \E kind \in {"shot", "hit"} : Fire(p, kind, by)
           \/ \E kind \in {"disconnect", "kicked"} : Disconnect(p, kind)
    PROVE  /\ Typed(View(queue, p), Len(queue), Of(p)) /\ queue \in Seq(Event) /\ Len(queue) \in Nat
           /\ KillInv(View(queue, p), Len(queue), Of(p))
           /\ Heard => WatchInv(View(queue, p), Len(queue), Of(p))
           /\ SameThreats(Of(p), Of(p)')
<1>1. UNCHANGED <<pending, awaiting, timers, kills>>
  BY DEF Connect, TakeSlot, Respawn, Takeoff, Land, Crash, Fire, Disconnect, Bot, plugin
<1>2. SameThreats(Of(p), Of(p)')
  BY <1>1, OfIs, NextOf DEF SameThreats
<1>3. queue \in Seq(Event) /\ Len(queue) \in Nat
  BY DEF TypeInv, TypeOK
<1> QED  BY <1>2, <1>3, PlayerTyped DEF PlayerInv, Good

LEMMA OwnPlace ==
    ASSUME TypeInv, NEW p \in Player, PlayerInv(p), Connect(p) \/ Respawn(p)
    PROVE  PlayerInv(p)'
<1> DEFINE v == View(queue, p)
           n == Len(queue)
           s == Of(p)
           r == Of(p)'
<1>1. /\ queue \in Seq(Event) /\ SameThreats(s, r)
      /\ KillInv(v, n, s) /\ (Heard => WatchInv(v, n, s))
  BY OwnMoves
<1>2. /\ s.plane # "air" /\ r.plane # "air" /\ r.life = s.life /\ r.lost = s.lost
  <2>1. plane[p] # "air" /\ plane'[p] # "air" /\ life' = life /\ lost' = lost
    BY DEF Connect, Respawn, Moves, TypeInv, TypeOK
  <2> QED  BY <2>1, OfIs, NextOf
<1> HIDE DEF v, n, s, r
<1>3. KillInv(v, n, r)
  BY <1>1, <1>2, PlaceKills DEF SameThreats, Feared
<1>4. Heard => WatchInv(v, n, r)
  BY <1>1, <1>2, GroundWatch
<1>5. Good(queue, p, r)
  BY <1>3, <1>4 DEF Good, v, n
<1>6. CASE Respawn(p)
  <2>1. queue' = queue
    BY <1>6 DEF Respawn
  <2>2. Good(queue', p, Of(p)')
    BY <1>5, <2>1 DEF r
  <2> QED  BY <2>2 DEF PlayerInv
<1>7. CASE Connect(p)
  <2>1. PICK e : e = Ev("connect", p, "AI")
    OBVIOUS
  <2>2. e \in Event /\ e.kind = "connect" /\ queue' = queue \o <<e>>
    BY <1>7, <2>1, EvType DEF Connect, Queues, TypeInv, Killer
  <2>3. PICK more : more = <<e>>
    OBVIOUS
  <2>4. more \in Seq(Event) /\ Len(more) = 1 /\ more[1] = e
    BY <2>2, <2>3
  <2>5. \A i \in 1..Len(more) : more[i].kind # "stop" /\ (more[i].who # p \/ more[i].kind = "connect")
    BY <2>2, <2>4
  <2>6. Good(queue \o more, p, r)
    BY <1>1, <1>5, <2>4, <2>5, Others
  <2>7. Good(queue', p, Of(p)')
    BY <2>2, <2>3, <2>6 DEF r
  <2> QED  BY <2>7 DEF PlayerInv
<1> QED  BY <1>6, <1>7

\* What he was shot at with.
LEMMA LosesIs ==
    ASSUME TypeInv, NEW p \in Player, Loses(p)
    PROVE  lost'[p] = IF plane[p] = "air" /\ hit[p] \in {"fresh", "recent"}
                      THEN lost[p] \cup {life[p]} ELSE lost[p]
BY DEF Loses, Hurt, TypeInv, TypeOK

\* He leaves his plane, and there is no other report.
LEMMA OwnLeaves ==
    ASSUME TypeInv, NEW p \in Player, PlayerInv(p), NEW kind \in Leaving, NEW by \in Killer,
           Queues(<<Ev(kind, p, by)>>), Loses(p), plane'[p] # "air", life' = life,
           TakeSlot(p) \/ Disconnect(p, "disconnect") \/ Crash(p, by)
    PROVE  PlayerInv(p)'
<1>1. PICK e : e = Ev(kind, p, by)
  OBVIOUS
<1>2. e \in Event /\ e.kind = kind /\ e.who = p /\ queue' = queue \o <<e>>
  BY <1>1, EvType DEF Queues, TypeInv, Leaving
<1> DEFINE v == View(queue, p)
           w == View(queue \o <<e>>, p)
           n == Len(queue)
           s == Of(p)
           r == Of(p)'
<1>3. /\ Typed(v, n, s) /\ queue \in Seq(Event) /\ n \in Nat /\ SameThreats(s, r)
      /\ KillInv(v, n, s) /\ (Heard => WatchInv(v, n, s))
  BY OwnMoves
<1>4. OneMore(v, w, n, e)
  BY <1>2, <1>3, OwnOneMore
<1>5. /\ r.plane # "air" /\ r.life = s.life
      /\ r.lost = IF s.plane = "air" /\ s.hit \in {"fresh", "recent"}
                  THEN s.lost \cup {s.life} ELSE s.lost
  <2>1. lost'[p] = IF plane[p] = "air" /\ hit[p] \in {"fresh", "recent"}
                   THEN lost[p] \cup {life[p]} ELSE lost[p]
    BY LosesIs
  <2>2. r.lost = lost'[p] /\ s.lost = lost[p] /\ s.plane = plane[p] /\ s.hit = hit[p] /\ s.life = life[p]
    BY OfIs, NextOf
  <2>3. r.plane # "air" /\ r.life = s.life
    BY OfIs, NextOf
  <2> HIDE DEF r, s
  <2> QED  BY <2>1, <2>2, <2>3
<1> HIDE DEF v, w, n, s, r
<1>6. KillInv(w, n + 1, r)
  BY <1>2, <1>3, <1>4, <1>5, LeaveKills DEF OneMore, Leaving
<1>7. Heard => WatchInv(w, n + 1, r)
  BY <1>2, <1>3, <1>4, <1>5, LeaveWatch DEF OneMore
<1>8. Good(queue \o <<e>>, p, r)
  BY <1>2, <1>3, <1>6, <1>7, OwnAdded DEF w, n
<1>9. Good(queue', p, Of(p)')
  BY <1>2, <1>8 DEF r
<1> QED  BY <1>9 DEF PlayerInv

\* He lands or is kicked.
LEMMA OwnEnds ==
    ASSUME TypeInv, NEW p \in Player, PlayerInv(p), Land(p) \/ Disconnect(p, "kicked")
    PROVE  PlayerInv(p)'
<1>0. PICK kind \in {"land", "kicked"} : Queues(<<Ev(kind, p, "AI")>>)
  BY DEF Land, Disconnect
<1>1. PICK e : e = Ev(kind, p, "AI")
  OBVIOUS
<1>2. e \in Event /\ e.kind = kind /\ e.who = p /\ queue' = queue \o <<e>>
  BY <1>0, <1>1, EvType DEF Queues, TypeInv, Killer
<1> DEFINE v == View(queue, p)
           w == View(queue \o <<e>>, p)
           n == Len(queue)
           s == Of(p)
           r == Of(p)'
<1>3. /\ Typed(v, n, s) /\ queue \in Seq(Event) /\ n \in Nat /\ SameThreats(s, r)
      /\ KillInv(v, n, s) /\ (Heard => WatchInv(v, n, s))
  BY OwnMoves
<1>4. OneMore(v, w, n, e)
  BY <1>2, <1>3, OwnOneMore
<1>5. /\ r.plane # "air" /\ r.life = s.life /\ r.lost = s.lost
  <2>1. plane'[p] # "air" /\ life' = life /\ lost' = lost
    BY DEF Land, Disconnect, Moves, TypeInv, TypeOK
  <2> QED  BY <2>1, OfIs, NextOf
<1> HIDE DEF v, w, n, s, r
<1>6. KillInv(v, n, r)
  BY <1>3, <1>5, PlaceKills DEF SameThreats, Feared
<1>7. KillInv(w, n + 1, r)
  <2>1. \A i \in 1..(n + 1) : i > n => i = n + 1
    BY <1>3
  <2>2. /\ \A i \in 1..n : w[i] = v[i]
        /\ \A i \in 1..(n + 1) : i > n => w[i].kind \in {"connect", "land", "kicked", "stop"}
    BY <1>2, <1>4, <2>1 DEF OneMore
  <2>3. PICK m \in Nat : m = n + 1 /\ n <= m
    BY <1>3
  <2>4. KillInv(w, m, r)
    BY <1>3, <1>6, <2>2, <2>3, NeutralKills
  <2> QED  BY <2>3, <2>4
<1>8. Heard => WatchInv(w, n + 1, r)
  BY <1>2, <1>3, <1>4, <1>5, EndWatch DEF OneMore
<1>9. Good(queue \o <<e>>, p, r)
  BY <1>2, <1>3, <1>7, <1>8, OwnAdded DEF w, n
<1>10. Good(queue', p, Of(p)')
  BY <1>2, <1>9 DEF r
<1> QED  BY <1>10 DEF PlayerInv

\* A new plane: nothing about the last one is to come.
LEMMA OwnTakeoff ==
    ASSUME Orderly, TypeInv, NEW p \in Player, PlayerInv(p), Takeoff(p)
    PROVE  PlayerInv(p)'
<1>0. PICK e : e = [Ev("takeoff", p, "AI") EXCEPT !.life = life[p] + 1]
  OBVIOUS
<1>1. ~Unsettled(p) /\ life' = [life EXCEPT ![p] = @ + 1] /\ lost' = lost
  BY DEF Takeoff, Orderly
<1>2. e \in Event /\ e.kind = "takeoff" /\ e.who = p /\ queue' = queue \o <<e>>
  <2>1. life[p] + 1 \in 0..MaxLives
    BY KillAssumption DEF Takeoff, TypeInv, TypeOK
  <2>2. Ev("takeoff", p, "AI") = [kind |-> "takeoff", who |-> p, by |-> "AI", life |-> life[p]]
    BY DEF Ev
  <2>3. e = [kind |-> "takeoff", who |-> p, by |-> "AI", life |-> life[p] + 1]
    BY <1>0, <2>2
  <2>4. queue' = queue \o <<e>>
    BY <1>0 DEF Takeoff, Queues
  <2> QED  BY <2>1, <2>3, <2>4 DEF Event, Killer
<1> DEFINE v == View(queue, p)
           w == View(queue \o <<e>>, p)
           n == Len(queue)
           s == Of(p)
           r == Of(p)'
<1>3. /\ Typed(v, n, s) /\ queue \in Seq(Event) /\ n \in Nat /\ SameThreats(s, r)
      /\ KillInv(v, n, s) /\ (Heard => WatchInv(v, n, s))
  BY OwnMoves
<1>4. OneMore(v, w, n, e)
  BY <1>2, <1>3, OwnOneMore
<1>5. /\ r.plane = "air" /\ r.life = s.life + 1 /\ r.lost = s.lost /\ r.hit = None
      /\ s.timers = {}
  <2>1. /\ plane'[p] = "air" /\ life'[p] = life[p] + 1 /\ hit'[p] = None /\ timers[p] = {}
    BY <1>1 DEF Takeoff, Moves, Heals, Unsettled, TypeInv, TypeOK
  <2>2. /\ r.plane = plane'[p] /\ r.life = life'[p] /\ r.lost = lost'[p] /\ r.hit = hit'[p]
        /\ s.life = life[p] /\ s.lost = lost[p] /\ s.timers = timers[p]
    BY OfIs, NextOf
  <2> HIDE DEF r, s
  <2> QED  BY <1>1, <2>1, <2>2
<1>6. \A i \in 1..n : v[i].kind \notin Settles
  <2> SUFFICES ASSUME NEW i \in 1..n
               PROVE  v[i].kind \notin Settles
    OBVIOUS
  <2>1. v[i] = Mark(queue[i], p) /\ queue[i] \in Event /\ i \in DOMAIN queue
    BY <1>3, ViewIs
  <2>2. queue[i].who # p \/ queue[i].kind \notin Settles
    BY <1>1, <2>1 DEF Unsettled, Settles
  <2> QED  BY <2>1, <2>2, MarkIs DEF Settles
<1> HIDE DEF v, w, n, s, r
<1>7. KillInv(w, n + 1, r)
  BY <1>2, <1>3, <1>4, <1>5, <1>6, NewPlaneKills DEF OneMore
<1>8. Heard => WatchInv(w, n + 1, r)
  BY <1>2, <1>3, <1>4, <1>5, <1>6, NewPlaneWatch DEF OneMore
<1>9. Good(queue \o <<e>>, p, r)
  BY <1>2, <1>3, <1>7, <1>8, OwnAdded DEF w, n
<1>10. Good(queue', p, Of(p)')
  BY <1>2, <1>9 DEF r
<1> QED  BY <1>10 DEF PlayerInv

\* He is shot at, or hit.
LEMMA OwnFire ==
    ASSUME TypeInv, NEW p \in Player, PlayerInv(p), NEW by \in Killer, NEW kind \in {"shot", "hit"},
           Fire(p, kind, by)
    PROVE  PlayerInv(p)'
<1>1. PICK e : e = Ev(kind, p, by)
  OBVIOUS
<1>2. /\ e \in Event /\ e.kind = kind /\ e.who = p /\ e.life = life[p]
      /\ queue' = queue \o <<e>>
  BY <1>1, EvType DEF Fire, Queues, TypeInv
<1> DEFINE v == View(queue, p)
           w == View(queue \o <<e>>, p)
           n == Len(queue)
           s == Of(p)
           r == Of(p)'
<1>3. /\ Typed(v, n, s) /\ queue \in Seq(Event) /\ n \in Nat /\ SameThreats(s, r)
      /\ KillInv(v, n, s) /\ (Heard => WatchInv(v, n, s))
  BY OwnMoves
<1>4. OneMore(v, w, n, e)
  BY <1>2, <1>3, OwnOneMore
<1>5. /\ s.plane = "air" /\ SamePlane(s, r) /\ r.lost = s.lost /\ s.life = e.life
      /\ r.hit = IF e.kind = "hit" THEN "fresh" ELSE s.hit
  <2>1. /\ plane[p] = "air" /\ plane' = plane /\ life' = life /\ lost' = lost
        /\ hit'[p] = IF kind = "hit" THEN "fresh" ELSE hit[p]
    BY DEF Fire, TypeInv, TypeOK
  <2>2. /\ r.plane = plane'[p] /\ r.life = life'[p] /\ r.lost = lost'[p] /\ r.hit = hit'[p]
        /\ s.plane = plane[p] /\ s.life = life[p] /\ s.lost = lost[p] /\ s.hit = hit[p]
    BY OfIs, NextOf
  <2> HIDE DEF r, s
  <2> QED  BY <1>2, <2>1, <2>2 DEF SamePlane
<1> HIDE DEF v, w, n, s, r
<1>6. /\ \A i \in 1..n : w[i] = v[i]
      /\ w[n + 1].kind \in Fired /\ w[n + 1].life = s.life
      /\ r.hit = IF w[n + 1].kind = "hit" THEN "fresh" ELSE s.hit
  BY <1>2, <1>4, <1>5 DEF OneMore, Fired
<1>7. KillInv(w, n + 1, r)
  BY <1>3, <1>5, <1>6, ShotKills
<1>8. Heard => WatchInv(w, n + 1, r)
  BY <1>3, <1>5, <1>6, ShotWatch
<1>9. Good(queue \o <<e>>, p, r)
  BY <1>2, <1>3, <1>7, <1>8, OwnAdded DEF w, n
<1>10. Good(queue', p, Of(p)')
  BY <1>2, <1>9 DEF r
<1> QED  BY <1>10 DEF PlayerInv

\* He crashes, and DCS reports the kill.
LEMMA OwnReport ==
    ASSUME TypeInv, NEW p \in Player, PlayerInv(p), NEW by \in Killer, Crash(p, by),
           NEW more \in Seq(Event), queue' = queue \o more,
           \A i \in 1..Len(more) : more[i].who = p /\ more[i].kind \in {"crash", "S_kill", "kill"},
           NEW k \in 1..Len(more), more[k].kind = "kill", more[k].life = life[p],
           NEW c \in 1..Len(more), more[c].kind = "crash",
           \A i \in 1..Len(more) : more[i].kind = "kill" => i = k,
           \A i \in 1..Len(more) : more[i].kind = "S_kill" => i < k,
           more[k].by = "AI" => \E j \in 1..Len(more) : more[j].kind = "S_kill"
    PROVE  PlayerInv(p)'
<1> DEFINE x == queue'
           v == View(queue, p)
           w == View(x, p)
           n == Len(queue)
           m == Len(x)
           s == Of(p)
           r == Of(p)'
<1>1. /\ Typed(v, n, s) /\ queue \in Seq(Event) /\ n \in Nat /\ SameThreats(s, r)
      /\ KillInv(v, n, s) /\ (Heard => WatchInv(v, n, s))
  BY OwnMoves
<1>2. /\ s.plane = "air" /\ r.plane # "air" /\ r.life = s.life /\ s.life = life[p]
      /\ r.lost \subseteq s.lost \cup {s.life}
  <2>1. /\ plane[p] = "air" /\ plane'[p] # "air" /\ life' = life /\ Loses(p)
    BY DEF Crash, Moves, TypeInv, TypeOK
  <2>2. lost'[p] \subseteq lost[p] \cup {life[p]}
    BY <2>1, LosesIs
  <2>3. /\ r.plane = plane'[p] /\ r.life = life'[p] /\ r.lost = lost'[p]
        /\ s.plane = plane[p] /\ s.life = life[p] /\ s.lost = lost[p]
    BY OfIs, NextOf
  <2> HIDE DEF r, s
  <2> QED  BY <2>1, <2>2, <2>3
<1>3. Joined(queue, more, x, p)
  BY <1>1, ViewAdd
<1>4. \A i \in 1..Len(more) : more[i] \in Event /\ Mark(more[i], p) = more[i]
  BY Members, MarkIs
<1> HIDE DEF x, v, w, n, m, s, r
<1>5. /\ m = n + Len(more) /\ m \in Nat /\ n <= m /\ Len(more) \in Nat
      /\ \A i \in 1..n : w[i] = v[i]
      /\ \A i \in 1..Len(more) : w[n + i] = more[i]
      /\ \A i \in 1..m : i > n => \E j \in 1..Len(more) : i = n + j /\ w[i] = more[j]
  <2>1. /\ m = n + Len(more) /\ n \in Nat /\ Len(more) \in Nat
        /\ \A i \in 1..n : w[i] = v[i]
        /\ \A i \in 1..Len(more) : w[n + i] = Mark(more[i], p)
        /\ \A i \in 1..m : i > n => \E j \in 1..Len(more) : i = n + j /\ w[i] = Mark(more[j], p)
    BY <1>3 DEF Joined, m, n, v, w
  <2>2. m \in Nat /\ n <= m
    <3>1. m = n + Len(more) /\ n \in Nat /\ Len(more) \in Nat
      BY <2>1
    <3> QED  BY <3>1
  <2>3. \A i \in 1..m : i > n => \E j \in 1..Len(more) : i = n + j /\ w[i] = more[j]
    BY <1>4, <2>1
  <2> QED  BY <1>4, <2>1, <2>2, <2>3
<1>6. PICK k2 \in 1..m : k2 = n + k /\ w[k2] = more[k]
  <2>1. n + k \in 1..m
    BY <1>1, <1>5
  <2> QED  BY <1>5, <2>1
<1>7. PICK c2 \in 1..m : c2 = n + c /\ w[c2] = more[c] /\ c2 > n
  <2>1. n + c \in 1..m /\ n + c > n
    BY <1>1, <1>5
  <2> QED  BY <1>5, <2>1
<1>8. /\ \A i \in 1..m : i > n => w[i].kind \in {"S_kill", "kill", "crash"}
      /\ \A i \in 1..m : i > n /\ w[i].kind = "kill" => i = k2
      /\ \A i \in 1..m : i > n /\ w[i].kind = "S_kill" => i < k2
  <2> SUFFICES ASSUME NEW i \in 1..m, i > n
               PROVE  /\ w[i].kind \in {"S_kill", "kill", "crash"}
                      /\ w[i].kind = "kill" => i = k2
                      /\ w[i].kind = "S_kill" => i < k2
    OBVIOUS
  <2>1. PICK j \in 1..Len(more) : i = n + j /\ w[i] = more[j]
    BY <1>5
  <2>2. more[j].kind \in {"S_kill", "kill", "crash"}
    BY <2>1
  <2>3. more[j].kind = "kill" => j = k
    BY <2>1
  <2>4. more[j].kind = "S_kill" => j < k
    BY <2>1
  <2>5. j < k => i < k2
    BY <1>1, <1>6, <2>1
  <2> QED  BY <1>6, <2>1, <2>2, <2>3, <2>4, <2>5
<1>9. w[k2].by = "AI" => \E j \in 1..m : j < k2 /\ w[j].kind = "S_kill"
  <2> SUFFICES ASSUME more[k].by = "AI"
               PROVE  \E j \in 1..m : j < k2 /\ w[j].kind = "S_kill"
    BY <1>6
  <2>1. PICK j \in 1..Len(more) : more[j].kind = "S_kill"
    OBVIOUS
  <2>2. n + j \in 1..m /\ n + j > n
    BY <1>1, <1>5
  <2>3. w[n + j].kind = "S_kill"
    BY <1>5, <2>1
  <2> QED  BY <1>8, <2>2, <2>3
<1>10. w[k2].kind = "kill" /\ w[k2].life = s.life /\ w[c2].kind = "crash"
  BY <1>2, <1>6, <1>7
<1>14. Shot(v, w, n, m, s.life, k2)
  BY <1>1, <1>5, <1>7, <1>8, <1>9, <1>10 DEF Shot
<1>11. KillInv(w, m, r)
  BY <1>1, <1>2, <1>14, ReportKills
<1>12. Heard => WatchInv(w, m, r)
  BY <1>1, <1>2, <1>14, ReportWatch
<1>13. Good(x, p, r)
  BY <1>11, <1>12 DEF Good, w, m
<1> QED  BY <1>13 DEF PlayerInv, x, r

LEMMA OwnCrash ==
    ASSUME Orderly, TypeInv, NEW p \in Player, PlayerInv(p), NEW by \in Killer, Crash(p, by)
    PROVE  PlayerInv(p)'
<1> DEFINE a == Ev("crash", p, by)
           b == Ev("S_kill", p, by)
           c == Ev("kill", p, by)
<1>1. /\ a \in Event /\ b \in Event /\ c \in Event
      /\ a.kind = "crash" /\ b.kind = "S_kill" /\ c.kind = "kill"
      /\ a.who = p /\ b.who = p /\ c.who = p /\ c.life = life[p] /\ c.by = by
  BY EvType DEF TypeInv
<1>2. \/ Queues(<<a>>) \/ Queues(<<a>> \o <<b, c>>) \/ Queues(<<b, c>> \o <<a>>)
      \/ by = "player" /\ (Queues(<<a>> \o <<c>>) \/ Queues(<<c>> \o <<a>>))
  BY DEF Crash, Orderly
<1>3. CASE Queues(<<a>>)
  <2>1. /\ plane'[p] # "air" /\ life' = life /\ Loses(p)
    BY DEF Crash, Moves, TypeInv, TypeOK
  <2> QED  BY <1>3, <2>1, OwnLeaves DEF Leaving
<1> HIDE DEF a, b, c
<1>4. CASE Queues(<<a>> \o <<b, c>>)
  <2>1. PICK more : more = <<a>> \o <<b, c>>
    OBVIOUS
  <2>2. more \in Seq(Event) /\ Len(more) = 3 /\ more[1] = a /\ more[2] = b /\ more[3] = c
    BY <1>1, <2>1, Rows
  <2>3. /\ \A i \in 1..Len(more) : more[i].who = p /\ more[i].kind \in {"crash", "S_kill", "kill"}
        /\ 3 \in 1..Len(more) /\ more[3].kind = "kill" /\ more[3].life = life[p]
        /\ 1 \in 1..Len(more) /\ more[1].kind = "crash"
        /\ \A i \in 1..Len(more) : more[i].kind = "kill" => i = 3
        /\ \A i \in 1..Len(more) : more[i].kind = "S_kill" => i < 3
        /\ \E j \in 1..Len(more) : more[j].kind = "S_kill"
    BY <1>1, <2>2
  <2>4. queue' = queue \o more
    BY <1>4, <2>1 DEF Queues
  <2> QED  BY <2>2, <2>3, <2>4, OwnReport
<1>5. CASE Queues(<<b, c>> \o <<a>>)
  <2>1. PICK more : more = <<b, c>> \o <<a>>
    OBVIOUS
  <2>2. more \in Seq(Event) /\ Len(more) = 3 /\ more[1] = b /\ more[2] = c /\ more[3] = a
    BY <1>1, <2>1, Rows
  <2>3. /\ \A i \in 1..Len(more) : more[i].who = p /\ more[i].kind \in {"crash", "S_kill", "kill"}
        /\ 2 \in 1..Len(more) /\ more[2].kind = "kill" /\ more[2].life = life[p]
        /\ 3 \in 1..Len(more) /\ more[3].kind = "crash"
        /\ \A i \in 1..Len(more) : more[i].kind = "kill" => i = 2
        /\ \A i \in 1..Len(more) : more[i].kind = "S_kill" => i < 2
        /\ \E j \in 1..Len(more) : more[j].kind = "S_kill"
    BY <1>1, <2>2
  <2>4. queue' = queue \o more
    BY <1>5, <2>1 DEF Queues
  <2> QED  BY <2>2, <2>3, <2>4, OwnReport
<1>6. CASE by = "player" /\ Queues(<<a>> \o <<c>>)
  <2>1. PICK more : more = <<a>> \o <<c>>
    OBVIOUS
  <2>2. more \in Seq(Event) /\ Len(more) = 2 /\ more[1] = a /\ more[2] = c
    BY <1>1, <2>1, Rows
  <2>3. /\ \A i \in 1..Len(more) : more[i].who = p /\ more[i].kind \in {"crash", "S_kill", "kill"}
        /\ 2 \in 1..Len(more) /\ more[2].kind = "kill" /\ more[2].life = life[p]
        /\ 1 \in 1..Len(more) /\ more[1].kind = "crash"
        /\ \A i \in 1..Len(more) : more[i].kind = "kill" => i = 2
        /\ \A i \in 1..Len(more) : more[i].kind = "S_kill" => i < 2
        /\ more[2].by # "AI"
    BY <1>1, <1>6, <2>2
  <2>4. queue' = queue \o more
    BY <1>6, <2>1 DEF Queues
  <2> QED  BY <2>2, <2>3, <2>4, OwnReport
<1>7. CASE by = "player" /\ Queues(<<c>> \o <<a>>)
  <2>1. PICK more : more = <<c>> \o <<a>>
    OBVIOUS
  <2>2. more \in Seq(Event) /\ Len(more) = 2 /\ more[1] = c /\ more[2] = a
    BY <1>1, <2>1, Rows
  <2>3. /\ \A i \in 1..Len(more) : more[i].who = p /\ more[i].kind \in {"crash", "S_kill", "kill"}
        /\ 1 \in 1..Len(more) /\ more[1].kind = "kill" /\ more[1].life = life[p]
        /\ 2 \in 1..Len(more) /\ more[2].kind = "crash"
        /\ \A i \in 1..Len(more) : more[i].kind = "kill" => i = 1
        /\ \A i \in 1..Len(more) : more[i].kind = "S_kill" => i < 1
        /\ more[1].by # "AI"
    BY <1>1, <1>7, <2>2
  <2>4. queue' = queue \o more
    BY <1>7, <2>1 DEF Queues
  <2> QED  BY <2>2, <2>3, <2>4, OwnReport
<1> QED  BY <1>2, <1>3, <1>4, <1>5, <1>6, <1>7

\* The game stops on a server.
LEMMA StopPosted ==
    ASSUME TypeInv, NEW p \in Player, PlayerInv(p), NEW sv \in Server, SimulationStop(sv)
    PROVE  PlayerInv(p)'
<1>1. PICK q \in Player : Queues(<<Ev("stop", q, "AI")>>)
  BY DEF SimulationStop
<1>2. PICK e : e = Ev("stop", q, "AI")
  OBVIOUS
<1>3. e \in Event /\ e.kind = "stop" /\ queue' = queue \o <<e>>
  BY <1>1, <1>2, EvType DEF Queues, TypeInv, Killer
<1> DEFINE v == View(queue, p)
           w == View(queue \o <<e>>, p)
           n == Len(queue)
           s == Of(p)
           r == Of(p)'
<1>4. /\ queue \in Seq(Event) /\ n \in Nat
      /\ KillInv(v, n, s) /\ (Heard => WatchInv(v, n, s))
  BY DEF PlayerInv, Good, TypeInv, TypeOK
<1>5. SameThreats(s, r) /\ r.life = s.life /\ r.lost = s.lost
  <2>1. UNCHANGED <<pending, awaiting, timers, kills, life, lost>>
    BY DEF SimulationStop, Bot, plugin
  <2> QED  BY <2>1, OfIs, NextOf DEF SameThreats
<1>6. /\ r.plane # "air" \/ r.plane = s.plane
      /\ Heard => r.plane # "air"
  <2>1. plane'[p] = IF Home[p] = sv /\ plane[p] # "out" THEN "spectator" ELSE plane[p]
    BY DEF SimulationStop
  <2>2. Heard => Home[p] = sv
    BY KillAssumption DEF Heard, OneServer
  <2> QED  BY <2>1, <2>2, OfIs, NextOf
<1>7. OneMore(v, w, n, e)
  BY <1>3, <1>4, OwnOneMore
<1> HIDE DEF v, w, n, s, r
<1>8. KillInv(v, n, r)
  BY <1>4, <1>5, <1>6, PlaceKills DEF SameThreats, Feared
<1>9. KillInv(w, n + 1, r)
  <2>1. \A i \in 1..(n + 1) : i > n => i = n + 1
    BY <1>4
  <2>2. /\ \A i \in 1..n : w[i] = v[i]
        /\ \A i \in 1..(n + 1) : i > n => w[i].kind \in {"connect", "land", "kicked", "stop"}
    BY <1>3, <1>7, <2>1 DEF OneMore
  <2>3. PICK m \in Nat : m = n + 1 /\ n <= m
    BY <1>4
  <2>4. KillInv(w, m, r)
    BY <1>4, <1>8, <2>2, <2>3, NeutralKills
  <2> QED  BY <2>3, <2>4
<1>10. Heard => WatchInv(w, n + 1, r)
  BY <1>3, <1>4, <1>5, <1>6, <1>7, EndWatch DEF OneMore
<1>11. Good(queue \o <<e>>, p, r)
  BY <1>3, <1>4, <1>9, <1>10, OwnAdded DEF w, n
<1>12. Good(queue', p, Of(p)')
  BY <1>3, <1>11 DEF r
<1> QED  BY <1>12 DEF PlayerInv

\* The plugin hears of it.
LEMMA StopHandled ==
    ASSUME TypeInv, NEW p \in Player, PlayerInv(p), HandleStop
    PROVE  PlayerInv(p)'
<1> DEFINE v == View(queue, p)
           w == Muted(queue, p)
           n == Len(queue)
           s == Of(p)
           r == Of(p)'
<1>0. queue # <<>> /\ Head(queue).kind = "stop" /\ queue' = Tail(queue)
  BY DEF HandleStop, Handles, Rest
<1>1. /\ Drops(v, w, n) /\ v[1].kind = "stop" /\ Typed(v, n, s) /\ queue \in Seq(Event)
      /\ KillInv(v, n, s) /\ (Heard => WatchInv(v, n, s))
  BY <1>0, OwnHead DEF PlayerInv, Good
<1>2. /\ Kept(s, r) /\ SamePlane(s, r) /\ r.pending = None
      /\ r.timers = s.timers /\ r.awaiting = s.awaiting /\ r.kills = s.kills
  <2>1. UNCHANGED <<world, awaiting, timers, kills>> /\ pending'[p] = None
    BY DEF HandleStop, Keeps, Alone
  <2> QED  BY <2>1, OfIs, NextOf DEF Kept, SamePlane, world
<1> HIDE DEF v, w, n, s, r
<1>3. KillInv(w, n, r)
  BY <1>1, <1>2, ForgetKills
<1>4. Heard => WatchInv(w, n, r)
  BY <1>1, <1>2, ForgetWatch DEF Ending, Leaving
<1>5. Good(Tail(queue), p, r)
  BY <1>0, <1>1, <1>3, <1>4, Handled DEF w, n
<1>6. Good(queue', p, Of(p)')
  BY <1>0, <1>5 DEF r
<1> QED  BY <1>6 DEF PlayerInv

\* A minute goes by.
LEMMA MinuteGoesBy ==
    ASSUME TypeInv, TypeInv', NEW p \in Player, PlayerInv(p), Tick
    PROVE  PlayerInv(p)'
<1> DEFINE v == View(queue, p)
           s == Of(p)
           r == Of(p)'
<1>0. queue = <<>> /\ queue' = queue /\ Len(queue) = 0
  BY DEF Tick
<1>1. /\ KillInv(v, 0, s) /\ (Heard => WatchInv(v, 0, s)) /\ Typed(v, 0, s)
  BY <1>0, PlayerTyped DEF PlayerInv, Good
<1>2. Typed(v, 0, r)
  <2>1. v \in [1..0 -> Event]
    BY <1>1 DEF Typed
  <2> HIDE DEF v
  <2>2. /\ r.plane \in {"out", "spectator", "ground", "air", "down"}
        /\ r.life \in 0..MaxLives /\ r.hit \in {None} \cup Age /\ r.lost \subseteq Lives
        /\ r.pending \in {None, Flying} \cup Threat /\ r.timers \subseteq Threat
        /\ r.awaiting = None \/ r.awaiting \in r.timers
        /\ r.kills \in [Lives -> Nat]
        /\ r.plane = "air" => r.life \in Lives
    BY NextOf DEF TypeInv, TypeOK, Planes
  <2> HIDE DEF r
  <2> QED  BY <2>1, <2>2 DEF Typed
<1>3. /\ SamePlane(s, r) /\ r.lost = s.lost /\ r.timers = s.timers /\ r.kills = s.kills
      /\ r.awaiting = s.awaiting
      /\ r.hit = IF s.hit = None THEN None ELSE Older(s.hit)
      /\ r.pending = IF Feared(s) THEN [s.pending EXCEPT !.age = Older(@)] ELSE s.pending
  <2>1. /\ UNCHANGED <<plane, life, lost, timers, kills, awaiting>>
        /\ hit'[p] = IF hit[p] = None THEN None ELSE Older(hit[p])
        /\ pending'[p] = IF Threatened(p) THEN [pending[p] EXCEPT !.age = Older(@)] ELSE pending[p]
    BY DEF Tick, Ages
  <2>2. Threatened(p) <=> Feared(s)
    BY OfIs DEF Threatened, Feared
  <2>3. /\ s.hit = hit[p] /\ s.pending = pending[p] /\ r.hit = hit'[p] /\ r.pending = pending'[p]
    BY OfIs, NextOf
  <2>4. /\ SamePlane(s, r) /\ r.lost = s.lost /\ r.timers = s.timers /\ r.kills = s.kills
        /\ r.awaiting = s.awaiting
    BY <2>1, OfIs, NextOf DEF SamePlane
  <2> HIDE DEF r, s
  <2> QED  BY <2>1, <2>2, <2>3, <2>4
<1> HIDE DEF v, s, r
<1>4. /\ Feared(r) <=> Feared(s)
      /\ Feared(s) => r.pending.life = s.pending.life
  <2>1. CASE Feared(s)
    <3>1. s.pending \in Threat
      BY <1>1, <2>1 DEF Typed, Feared
    <3>2. r.pending = [s.pending EXCEPT !.age = Older(@)] /\ Older(s.pending.age) \in Age
      BY <1>3, <2>1 DEF Older, Age
    <3>3. r.pending \in Threat /\ r.pending.life = s.pending.life
      BY <3>1, <3>2 DEF Threat
    <3>4. r.pending # None /\ r.pending # Flying
      BY <3>3, KillAssumption DEF Threat, Flying
    <3> QED  BY <2>1, <3>3, <3>4 DEF Feared
  <2>2. CASE ~Feared(s)
    BY <1>3, <2>2 DEF Feared
  <2> QED  BY <2>1, <2>2
<1>5. KillInv(v, 0, r)
  BY <1>1, <1>3, <1>4, PlaceKills DEF SamePlane
<1>6. Heard => WatchInv(v, 0, r)
  BY <1>1, <1>2, <1>3, TickWatch
<1>7. Good(queue, p, r)
  BY <1>0, <1>5, <1>6 DEF Good, v
<1>8. Good(queue', p, Of(p)')
  BY <1>0, <1>7 DEF r
<1> QED  BY <1>8 DEF PlayerInv

\* An event of somebody else is handled.
LEMMA HandledOthers ==
    ASSUME TypeInv, NEW p \in Player, PlayerInv(p), queue # <<>>, Head(queue).who # p,
           \/ HandleTakeoff \/ HandleFire \/ HandleLand \/ HandleSKill \/ HandleCrash \/ HandleKill
           \/ HandleSlot \/ HandleDisconnect
    PROVE  PlayerInv(p)'
<1>0. Head(queue).who \in Player /\ UNCHANGED world
  BY RestTypes DEF Event, HandleTakeoff, HandleFire, HandleLand, HandleSKill, HandleCrash,
     HandleKill, HandleSlot, HandleDisconnect, Alone
<1>1. pending'[p] = pending[p] /\ awaiting'[p] = awaiting[p] /\ timers'[p] = timers[p]
  <2>1. CASE HandleTakeoff \/ HandleLand \/ HandleSKill
    BY <1>0, <2>1 DEF HandleTakeoff, HandleLand, HandleSKill, Forgets, Cancels, Releases, Keeps, TypeInv, TypeOK
  <2>2. CASE HandleFire
    BY <1>0, <2>2 DEF HandleFire, Keeps, TypeInv, TypeOK
  <2>3. CASE HandleCrash
    BY <1>0, <2>3 DEF HandleCrash, Forgets, Keeps, TypeInv, TypeOK
  <2>4. CASE HandleKill
    BY <1>0, <2>4 DEF HandleKill, Forgets, Cancels, Releases, TypeInv, TypeOK
  <2>5. CASE HandleSlot
    BY <1>0, <2>5 DEF HandleSlot, Forgets, Gives, Releases, TypeInv, TypeOK
  <2>6. CASE HandleDisconnect
    BY <1>0, <2>6 DEF HandleDisconnect, Forgets, Gives, Releases, TypeInv, TypeOK
  <2> QED  BY <2>1, <2>2, <2>3, <2>4, <2>5, <2>6
<1>2. kills'[p] = kills[p]
  <2>1. CASE HandleKill
    BY <1>0, <2>1 DEF HandleKill, TypeInv, TypeOK
  <2>2. CASE ~HandleKill
    BY <2>2 DEF HandleTakeoff, HandleFire, HandleLand, HandleSKill, HandleCrash, HandleSlot,
                HandleDisconnect, Alone
  <2> QED  BY <2>1, <2>2
<1>3. Of(p)' = Of(p)
  BY <1>0, <1>1, <1>2, SameOf DEF world
<1>4. Head(queue).kind # "stop"
  BY DEF HandleTakeoff, HandleFire, HandleLand, HandleSKill, HandleCrash, HandleKill,
         HandleSlot, HandleDisconnect, Handles
<1>5. \/ queue' = Tail(queue)
      \/ /\ Threatened(Head(queue).who)
         /\ Sends(Head(queue).who, pending[Head(queue).who], Rest)
  BY DEF HandleTakeoff, HandleFire, HandleLand, HandleSKill, HandleCrash, HandleKill,
         HandleSlot, HandleDisconnect, Rest, Gives
<1>6. CASE queue' = Tail(queue)
  BY <1>3, <1>4, <1>6, BystanderPlayer
<1>7. CASE /\ Threatened(Head(queue).who)
           /\ Sends(Head(queue).who, pending[Head(queue).who], Rest)
  <2>1. PICK q \in Player, t \in Threat : q = Head(queue).who /\ t = pending[q]
    BY <1>0, <1>7 DEF Threatened, TypeInv, TypeOK
  <2>2. q # p /\ Sends(q, t, Rest)
    BY <1>7, <2>1
  <2> QED  BY <1>3, <1>4, <2>1, <2>2, GivenPlayer
<1> QED  BY <1>5, <1>6, <1>7

LEMMA ConnectHandled ==
    ASSUME TypeInv, NEW p \in Player, PlayerInv(p), HandleConnect
    PROVE  PlayerInv(p)'
<1>1. UNCHANGED <<world, pending, awaiting, timers, kills>>
  BY DEF HandleConnect, Keeps, Alone
<1>2. Of(p)' = Of(p)
  BY <1>1, SameOf DEF world
<1>3. queue # <<>> /\ Head(queue).kind = "connect" /\ queue' = Tail(queue)
  BY DEF HandleConnect, Handles, Rest
<1> QED  BY <1>2, <1>3, BystanderPlayer

LEMMA FiresOthers ==
    ASSUME TypeInv, NEW p \in Player, PlayerInv(p), NEW q \in Player, q # p, Fires(q)
    PROVE  PlayerInv(p)'
<1>1. PICK t \in timers[q] : timers' = [timers EXCEPT ![q] = @ \ {t}] /\ Sends(q, t, queue) /\ Releases(q)
  BY DEF Fires
<1>2. t \in Threat
  BY DEF TypeInv, TypeOK
<1>3. UNCHANGED <<world, pending, kills>> /\ awaiting'[p] = awaiting[p] /\ timers'[p] = timers[p]
  BY <1>1 DEF Fires, Releases, Alone, TypeInv, TypeOK
<1>4. Of(p)' = Of(p)
  BY <1>3, SameOf DEF world
<1> QED  BY <1>1, <1>2, <1>4, GivenPlayer

\* No step of anybody breaks what holds of a player.
LEMMA PlayerStep ==
    ASSUME Orderly, TypeInv, TypeInv', NEW p \in Player, PlayerInv(p), Next
    PROVE  PlayerInv(p)'
<1>1. ASSUME NEW q \in Player,
             \/ Connect(q) \/ TakeSlot(q) \/ Respawn(q) \/ Takeoff(q) \/ Land(q)
             \/ \E by \in Killer : Crash(q, by) \/ \E kind \in {"shot", "hit"} : Fire(q, kind, by)
             \/ \E kind \in {"disconnect", "kicked"} : Disconnect(q, kind)
      PROVE  PlayerInv(p)'
  <2>1. CASE q # p
    BY <1>1, <2>1, GameOthers
  <2>2. CASE q = p
    <3>1. CASE Connect(p) \/ Respawn(p)
      BY <3>1, OwnPlace
    <3>2. CASE TakeSlot(p)
      <4>1. /\ Queues(<<Ev("slot", p, "AI")>>) /\ Loses(p) /\ life' = life /\ plane'[p] # "air"
        BY <3>2 DEF TakeSlot, Moves, TypeInv, TypeOK
      <4>2. "slot" \in Leaving /\ "AI" \in Killer
        BY DEF Leaving, Killer
      <4> QED  BY <3>2, <4>1, <4>2, OwnLeaves
    <3>3. CASE Takeoff(p)
      BY <3>3, OwnTakeoff
    <3>4. CASE Land(p) \/ Disconnect(p, "kicked")
      BY <3>4, OwnEnds
    <3>5. CASE Disconnect(p, "disconnect")
      <4>1. /\ Queues(<<Ev("disconnect", p, "AI")>>) /\ Loses(p) /\ life' = life /\ plane'[p] # "air"
        BY <3>5 DEF Disconnect, Moves, TypeInv, TypeOK
      <4>2. "disconnect" \in Leaving /\ "AI" \in Killer
        BY DEF Leaving, Killer
      <4> QED  BY <3>5, <4>1, <4>2, OwnLeaves
    <3>6. ASSUME NEW by \in Killer, Crash(p, by)
          PROVE  PlayerInv(p)'
      BY <3>6, OwnCrash
    <3>7. ASSUME NEW by \in Killer, NEW kind \in {"shot", "hit"}, Fire(p, kind, by)
          PROVE  PlayerInv(p)'
      BY <3>7, OwnFire
    <3> QED  BY <1>1, <2>2, <3>1, <3>2, <3>3, <3>4, <3>5, <3>6, <3>7
  <2> QED  BY <2>1, <2>2
<1>2. ASSUME NEW q \in Player, Fires(q)
      PROVE  PlayerInv(p)'
  BY <1>2, OwnFires, FiresOthers
<1>3. ASSUME NEW sv \in Server, SimulationStop(sv)
      PROVE  PlayerInv(p)'
  BY <1>3, StopPosted
<1>4. CASE \/ HandleTakeoff \/ HandleFire \/ HandleLand \/ HandleSKill \/ HandleCrash \/ HandleKill
  <2>1. queue # <<>>
    BY <1>4 DEF HandleTakeoff, HandleFire, HandleLand, HandleSKill, HandleCrash, HandleKill, Handles
  <2> QED  BY <1>4, <2>1, OwnHandled, HandledOthers
<1>5. CASE HandleSlot \/ HandleDisconnect
  <2>1. queue # <<>>
    BY <1>5 DEF HandleSlot, HandleDisconnect, Handles
  <2> QED  BY <1>5, <2>1, OwnGone, HandledOthers
<1>6. CASE HandleConnect
  BY <1>6, ConnectHandled
<1>7. CASE HandleStop
  BY <1>7, StopHandled
<1>8. CASE Tick
  BY <1>8, MinuteGoesBy
<1> QED  BY <1>1, <1>2, <1>3, <1>4, <1>5, <1>6, <1>7, <1>8 DEF Next

\* At the start there is nothing.
LEMMA PlayerInit ==
    ASSUME Init, NEW p \in Player
    PROVE  PlayerInv(p)
<1>1. Len(queue) = 0
  BY DEF Init
<1>2. /\ plane[p] = "out" /\ hit[p] = None /\ lost[p] = {} /\ pending[p] = None
      /\ timers[p] = {} /\ kills[p] = [n \in Lives |-> 0]
  BY DEF Init
<1> DEFINE s == Of(p)
           v == View(queue, p)
<1>3. /\ s.plane = "out" /\ s.hit = None /\ s.lost = {} /\ s.pending = None
      /\ s.timers = {} /\ \A n \in Lives : s.kills[n] = 0
  BY <1>2, OfIs
<1> HIDE DEF s, v
<1>4. ~Feared(s)
  BY <1>3 DEF Feared
<1>5. KillInv(v, 0, s)
  BY <1>3, <1>4 DEF KillInv, OverFirst, OneTimer, OneReport, Counted, Aims
<1>6. WatchInv(v, 0, s)
  BY <1>3, <1>4 DEF WatchInv, Seen, Over, Hits, Reported, Covered
<1> QED  BY <1>1, <1>5, <1>6 DEF PlayerInv, Good, s, v

Inv == TypeInv /\ \A p \in Player : PlayerInv(p)

LEMMA Invariance == Orderly => (Spec => []Inv)
<1> SUFFICES ASSUME Orderly
             PROVE  Spec => []Inv
  OBVIOUS
<1>1. Init => Inv
  BY TypeInit, PlayerInit DEF Inv
<1>2. Inv /\ [Next]_vars => Inv'
  <2> SUFFICES ASSUME Inv, [Next]_vars
               PROVE  Inv'
    OBVIOUS
  <2>1. TypeInv /\ TypeInv'
    BY TypeStep DEF Inv
  <2>2. ASSUME NEW p \in Player
        PROVE  PlayerInv(p)'
    <3>1. PlayerInv(p)
      BY DEF Inv
    <3>2. CASE Next
      BY <2>1, <3>1, <3>2, PlayerStep
    <3>3. CASE UNCHANGED vars
      <4>1. Of(p)' = Of(p) /\ queue' = queue
        BY <3>3, SameOf DEF vars, world, plugin
      <4> QED  BY <3>1, <4>1 DEF PlayerInv
    <3> QED  BY <3>2, <3>3
  <2> QED  BY <2>1, <2>2 DEF Inv
<1> QED  BY <1>1, <1>2, PTL DEF Spec

\* A plane is shot down once, whoever reports it: DCS, the timer that a crash under fire
\* starts, or the pilot who takes another seat or disconnects under fire, whoever fires.
THEOREM ShotDownOnce == Orderly => (Spec => []KilledOnce)
<1> SUFFICES ASSUME Orderly
             PROVE  Spec => []KilledOnce
  OBVIOUS
<1>1. Inv => KilledOnce
  <2> SUFFICES ASSUME Inv, NEW p \in Player, NEW n \in Lives
               PROVE  kills[p][n] <= 1
    BY DEF KilledOnce
  <2>1. KillInv(View(queue, p), Len(queue), Of(p)) /\ Of(p).kills = kills[p]
    BY OfIs DEF Inv, PlayerInv, Good
  <2> QED  BY <2>1 DEF KillInv, Counted
<1> QED  BY <1>1, Invariance, PTL

\* On one server, and without ships and killers that DCS does not name (for them the bot's
\* report fails), nobody takes a kill away: when all events about a player are handled and
\* no timer runs, every plane he gave up soon after a hit has counted.
THEOREM NoKillIsLost == Orderly /\ Heard => (Spec => []HitsCount)
<1> SUFFICES ASSUME Orderly, Heard
             PROVE  Spec => []HitsCount
  OBVIOUS
<1>1. Inv => HitsCount
  <2> SUFFICES ASSUME Inv, NEW p \in Player, queue = <<>>, timers[p] = {}, NEW n \in lost[p]
               PROVE  kills[p][n] >= 1
    BY DEF HitsCount
  <2>1. Len(queue) = 0
    OBVIOUS
  <2>2. WatchInv(View(queue, p), 0, Of(p))
    BY <2>1 DEF Inv, PlayerInv, Good
  <2>3. Of(p).kills = kills[p] /\ Of(p).lost = lost[p] /\ Of(p).timers = timers[p]
    BY OfIs
  <2> QED  BY <2>2, <2>3 DEF WatchInv, Covered
<1> QED  BY <1>1, Invariance, PTL

\* Under the same assumptions, with all events handled, the plugin watches every plane in the air, and
\* the threats it has noted are to the plane the player flies.
THEOREM PlanesAreWatched == Orderly /\ Heard => (Spec => []Watched)
<1> SUFFICES ASSUME Orderly, Heard
             PROVE  Spec => []Watched
  OBVIOUS
<1>1. Inv => Watched
  <2> SUFFICES ASSUME Inv, NEW p \in Player, queue = <<>>
               PROVE  /\ plane[p] = "air" => pending[p] # None
                      /\ Threatened(p) => plane[p] = "air" /\ pending[p].life = life[p]
    BY DEF Watched
  <2>1. Len(queue) = 0
    OBVIOUS
  <2>2. WatchInv(View(queue, p), 0, Of(p)) /\ KillInv(View(queue, p), 0, Of(p))
    BY <2>1 DEF Inv, PlayerInv, Good
  <2>3. Of(p).plane = plane[p] /\ Of(p).life = life[p] /\ Of(p).pending = pending[p]
    BY OfIs
  <2>4. Threatened(p) <=> Feared(Of(p))
    BY <2>3 DEF Threatened, Feared
  <2> QED  BY <2>2, <2>3, <2>4 DEF WatchInv, KillInv, Seen, Looks, Over, Aims
<1> QED  BY <1>1, Invariance, PTL

==============================================================================
