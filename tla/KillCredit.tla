---------------------------- MODULE KillCredit ----------------------------
(***************************************************************************)
(* Who gets the kill when a plane is lost (plugins/punishment/listener.py).*)
(* The plugin remembers the last threat to every plane in the air.  A pilot*)
(* who crashes, ejects, takes another seat or disconnects under fire gives *)
(* the kill to his opponent, by events the bot sends to itself, and is     *)
(* punished for taking another seat.  DCS reports kills too, or fails to,  *)
(* so after a crash the plugin waits for that report.                      *)
(*                                                                         *)
(* DCS and the players move planes and put events into the queue of the    *)
(* server; a worker handles them one after the other.                      *)
(***************************************************************************)
EXTENDS Naturals, Sequences, FiniteSets

CONSTANTS
    Player, Server, None,
    Home,      \* the server a player plays on
    May,       \* what may happen, see below
    MaxLives,  \* bound: planes of a player
    MaxFire,   \* bound: shots and hits
    MaxQueue   \* bound: events in the queue when the game goes on

\* Who shoots at a player: another player or the AI, by a plane, a helicopter or a ground
\* unit; a ship or a structure ("ship"); DCS does not say who ("nobody").
Killer == {"player", "AI"} \cup (May \cap {"ship", "nobody"})
\* Less than reslot_window, less than survival_window, more.
Age == {"fresh", "recent", "old"}
Lives == 1..MaxLives
Threat == [kind : {"shot", "hit"}, by : Killer, life : Lives, age : Age]
\* In the air, and nobody has shot at it: (-1, None).
Flying == [kind |-> "none", by |-> "AI", life |-> 0, age |-> "old"]

\* "quick": a pilot is in the air again before the kill of his last plane is settled;
\* "late": a report of DCS is still in the queue when the plugin gives up waiting;
\* "missing": DCS reports a kill to players but not to the mission (no S_EVENT_KILL);
\* "AI": the same for kills by the AI;
\* "ship", "nobody": these shoot too.
ASSUME KillAssumption ==
    /\ None \notin Player \cup Threat \cup Age \cup {Flying}
    /\ Home \in [Player -> Server]
    /\ May \subseteq {"quick", "late", "missing", "AI", "ship", "nobody"}
    /\ MaxLives \in Nat /\ MaxFire \in Nat /\ MaxQueue \in Nat

VARIABLES
    plane,         \* where a player is (DCS)
    life,          \* the number of his plane
    queue,         \* events of the servers, in the order they are handled
    pending,       \* pending_kill
    awaiting,      \* awaiting_task: the timer that is remembered
    timers,        \* timers that are running
    disconnected,  \* disconnected: who left under fire, and when
    hit,           \* history: the last hit on the plane, its age
    lost,          \* history: planes lost to a hit
    kills,         \* history: kills counted for each plane
    fires

world == <<plane, life, hit, lost, fires>>
plugin == <<pending, awaiting, timers, disconnected>>
vars == <<world, plugin, queue, kills>>

Event ==
    [kind : {"takeoff", "shot", "hit", "land", "crash", "S_kill", "kill", "slot", "disconnect",
             "kicked", "connect", "stop"},
     who : Player, by : Killer, life : 0..MaxLives]

TypeOK ==
    /\ plane \in [Player -> {"out", "spectator", "ground", "air", "down"}]
    /\ life \in [Player -> 0..MaxLives] /\ hit \in [Player -> {None} \cup Age]
    /\ lost \in [Player -> SUBSET Lives] /\ kills \in [Player -> [Lives -> Nat]]
    /\ queue \in Seq(Event) /\ fires \in 0..MaxFire
    /\ pending \in [Player -> {None, Flying} \cup Threat]
    /\ timers \in [Player -> SUBSET Threat]
    /\ awaiting \in [Player -> {None} \cup Threat]
    /\ \A p \in Player : awaiting[p] = None \/ awaiting[p] \in timers[p]
    /\ disconnected \in [Player -> {None} \cup Age]

Init ==
    /\ plane = [p \in Player |-> "out"] /\ life = [p \in Player |-> 0]
    /\ queue = <<>>
    /\ pending = [p \in Player |-> None] /\ awaiting = [p \in Player |-> None]
    /\ timers = [p \in Player |-> {}] /\ disconnected = [p \in Player |-> None]
    /\ hit = [p \in Player |-> None] /\ lost = [p \in Player |-> {}]
    /\ kills = [p \in Player |-> [n \in Lives |-> 0]]
    /\ fires = 0

Threatened(p) == pending[p] \notin {None, Flying}

-----------------------------------------------------------------------------
(* The game.                                                               *)

Ev(kind, p, by) == [kind |-> kind, who |-> p, by |-> by, life |-> life[p]]
Queues(events) == Len(queue) < MaxQueue /\ queue' = queue \o events
Moves(p, place) == plane' = [plane EXCEPT ![p] = place]
Bot == UNCHANGED <<plugin, kills>>

\* A plane that is given up after a hit no longer ago than survival_window is lost to it.
Hurt(p) == plane[p] = "air" /\ hit[p] \in {"fresh", "recent"}
Loses(p) == lost' = [lost EXCEPT ![p] = IF Hurt(p) THEN @ \cup {life[p]} ELSE @]
Heals(p) == hit' = [hit EXCEPT ![p] = None]

Connect(p) ==
    /\ plane[p] = "out"
    /\ Moves(p, "spectator") /\ Queues(<<Ev("connect", p, "AI")>>)
    /\ UNCHANGED <<life, hit, lost, fires>> /\ Bot

TakeSlot(p) ==
    /\ plane[p] # "out"
    /\ Moves(p, "ground") /\ Loses(p) /\ Heals(p) /\ Queues(<<Ev("slot", p, "AI")>>)
    /\ UNCHANGED <<life, fires>> /\ Bot

\* The same seat again, without an event.
Respawn(p) ==
    /\ plane[p] = "down"
    /\ Moves(p, "ground")
    /\ UNCHANGED <<life, hit, lost, fires, queue>> /\ Bot

\* Reports of his last plane that are still to come.
Unsettled(p) ==
    \/ timers[p] # {}
    \/ \E i \in DOMAIN queue : queue[i].who = p /\ queue[i].kind \in {"S_kill", "kill", "crash", "slot", "disconnect"}

\* Takeoff, or a start in the air.
Takeoff(p) ==
    /\ plane[p] = "ground" /\ life[p] < MaxLives
    /\ "quick" \in May \/ ~Unsettled(p)
    /\ Moves(p, "air") /\ Heals(p)
    /\ life' = [life EXCEPT ![p] = @ + 1]
    /\ Queues(<<[Ev("takeoff", p, "AI") EXCEPT !.life = life[p] + 1]>>)
    /\ UNCHANGED <<lost, fires>> /\ Bot

Fire(p, kind, by) ==
    /\ plane[p] = "air" /\ fires < MaxFire
    /\ fires' = fires + 1
    /\ hit' = IF kind = "hit" THEN [hit EXCEPT ![p] = "fresh"] ELSE hit
    /\ Queues(<<Ev(kind, p, by)>>)
    /\ UNCHANGED <<plane, life, lost>> /\ Bot

Land(p) ==
    /\ plane[p] = "air"
    /\ Moves(p, "ground") /\ Heals(p) /\ Queues(<<Ev("land", p, "AI")>>)
    /\ UNCHANGED <<life, lost, fires>> /\ Bot

\* S_EVENT_CRASH or S_EVENT_EJECTION.  DCS may report a kill, by a player or not, before
\* or after it, or have the plugin find out.
Crash(p, by) ==
    /\ plane[p] = "air" /\ by \in {"player", "AI"}
    /\ Moves(p, "down") /\ Loses(p) /\ Heals(p)
    /\ LET crash == <<Ev("crash", p, by)>>
           report == <<Ev("S_kill", p, by), Ev("kill", p, by)>>
           short == <<Ev("kill", p, by)>> IN
       \/ Queues(crash)
       \/ Hurt(p) /\ (Queues(crash \o report) \/ Queues(report \o crash))
       \/ /\ Hurt(p)
          /\ (by = "player" /\ "missing" \in May) \/ (by = "AI" /\ "AI" \in May)
          /\ Queues(crash \o short) \/ Queues(short \o crash)
    /\ UNCHANGED <<life, fires>> /\ Bot

\* A player leaves, or is kicked, which counts for nothing.
Disconnect(p, kind) ==
    /\ plane[p] # "out"
    /\ Moves(p, "out") /\ Heals(p) /\ Queues(<<Ev(kind, p, "AI")>>)
    /\ IF kind = "disconnect" THEN Loses(p) ELSE UNCHANGED lost
    /\ UNCHANGED <<life, fires>> /\ Bot

SimulationStop(s) ==
    /\ \E p \in Player : Home[p] = s /\ Queues(<<Ev("stop", p, "AI")>>)
    /\ plane' = [p \in Player |-> IF Home[p] = s /\ plane[p] # "out" THEN "spectator" ELSE plane[p]]
    /\ hit' = [p \in Player |-> IF Home[p] = s THEN None ELSE hit[p]]
    /\ UNCHANGED <<life, lost, fires>> /\ Bot

Older(age) == IF age = "fresh" THEN "recent" ELSE "old"
Ages(f) == [p \in Player |-> IF f[p] = None THEN None ELSE Older(f[p])]

\* A minute or more goes by: the queue is served and timers of ten seconds fire before.
Tick ==
    /\ queue = <<>> /\ \A p \in Player : timers[p] = {}
    /\ hit' = Ages(hit) /\ disconnected' = Ages(disconnected)
    /\ pending' = [p \in Player |-> IF Threatened(p) THEN [pending[p] EXCEPT !.age = Older(@)]
                                    ELSE pending[p]]
    /\ UNCHANGED <<plane, life, lost, fires, queue, awaiting, timers, kills>>

-----------------------------------------------------------------------------
(* The plugin.  e is the event at the head of the queue.                   *)

Handles(kind) == queue # <<>> /\ Head(queue).kind = kind
Rest == Tail(queue)
InTime(t) == t.age = "fresh" \/ (t.kind = "hit" /\ t.age = "recent")
Forgets(p) == pending' = [pending EXCEPT ![p] = None]

\* _give_kill(): the bot sends itself the events DCS did not send.  It fails at once when
\* the threat is nobody's, and in between when it is a ship's: there is no name for its
\* category, and the report that counts is not sent.
Reports(p, t) ==
    LET event(kind) == [kind |-> kind, who |-> p, by |-> t.by, life |-> t.life] IN
    CASE t.by = "nobody" -> <<>>
      [] t.by = "ship" -> <<event("S_kill")>>
      [] OTHER -> <<event("S_kill"), event("kill")>>
Sends(p, t, left) == queue' = left \o Reports(p, t)

Releases(p) == awaiting' = [awaiting EXCEPT ![p] = None]

\* A timer is forgotten, not cancelled, unless _give_kill() fails before.
Gives(p, t, left) ==
    /\ Sends(p, t, left)
    /\ IF t.by = "nobody" THEN UNCHANGED awaiting ELSE Releases(p)

Keeps == UNCHANGED <<awaiting, timers>>
Alone == UNCHANGED <<world, kills>>

HandleTakeoff ==
    /\ Handles("takeoff")
    /\ pending' = [pending EXCEPT ![Head(queue).who] = Flying]
    /\ queue' = Rest
    /\ UNCHANGED disconnected /\ Keeps /\ Alone

\* (Variant: a shot replaces whatever was noted.)
Replaces_Always(p, kind) == TRUE

\* A shot replaces an older one that is less of a threat, but no hit that is still hot.
Replaces(p, kind) ==
    \/ kind = "hit" \/ ~Threatened(p) \/ pending[p].kind = "shot"
    \/ pending[p].age = "old"

HandleFire ==
    /\ Handles("shot") \/ Handles("hit")
    /\ LET e == Head(queue)
           threat == [kind |-> e.kind, by |-> e.by, life |-> e.life, age |-> "fresh"] IN
       \/ /\ pending[e.who] # None /\ Replaces(e.who, e.kind)
          /\ pending' = [pending EXCEPT ![e.who] = threat]
       \/ /\ \/ pending[e.who] = None \/ ~Replaces(e.who, e.kind)
             \/ e.kind = "shot" /\ Threatened(e.who) /\ pending[e.who].kind = "shot"
          /\ UNCHANGED pending
    /\ queue' = Rest
    /\ UNCHANGED disconnected /\ Keeps /\ Alone

\* (Variant: who lands is watched on.)
HandleLand_Watched ==
    /\ Handles("land")
    /\ queue' = Rest
    /\ UNCHANGED <<pending, disconnected>> /\ Keeps /\ Alone

HandleLand ==
    /\ Handles("land")
    /\ Forgets(Head(queue).who) /\ queue' = Rest
    /\ UNCHANGED disconnected /\ Keeps /\ Alone

Cancels(p) ==
    /\ timers' = [timers EXCEPT ![p] = @ \ {awaiting[p]}]
    /\ Releases(p)

HandleSKill ==
    /\ Handles("S_kill")
    /\ Forgets(Head(queue).who) /\ Cancels(Head(queue).who) /\ queue' = Rest
    /\ UNCHANGED disconnected /\ Alone

\* _schedule_give_kill(): ten seconds for DCS to report the kill.  What becomes of a
\* missile that is still under way nobody knows.
HandleCrash ==
    /\ Handles("crash")
    /\ LET p == Head(queue).who IN
       /\ Forgets(p)
       /\ \/ /\ Threatened(p) /\ InTime(pending[p])
             /\ timers' = [timers EXCEPT ![p] = (@ \ {awaiting[p]}) \cup {pending[p]}]
             /\ awaiting' = [awaiting EXCEPT ![p] = pending[p]]
          \/ /\ Threatened(p) => ~InTime(pending[p]) \/ pending[p].kind = "shot"
             /\ Keeps
    /\ queue' = Rest
    /\ UNCHANGED disconnected /\ Alone

\* (Variant: the timer is forgotten, not cancelled.)
HandleKill_Uncancelled ==
    /\ Handles("kill")
    /\ LET e == Head(queue) IN
       /\ kills' = [kills EXCEPT ![e.who][e.life] = @ + 1]
       /\ IF e.by = "AI" THEN UNCHANGED <<pending, awaiting, timers>>
          ELSE /\ Forgets(e.who) /\ Releases(e.who) /\ UNCHANGED timers
    /\ queue' = Rest
    /\ UNCHANGED <<world, disconnected>>

\* The kill counts.  A kill by the AI has no initiator: the plugin does not look at it.
\* (_recreate_events() finds nothing to recreate: a crash has taken the threat, and
\* without a crash there is no timer.)
HandleKill ==
    /\ Handles("kill")
    /\ LET e == Head(queue) IN
       /\ kills' = [kills EXCEPT ![e.who][e.life] = @ + 1]
       /\ IF e.by = "AI" THEN UNCHANGED <<pending, awaiting, timers>>
          ELSE Forgets(e.who) /\ Cancels(e.who)
    /\ queue' = Rest
    /\ UNCHANGED <<world, disconnected>>

\* Another seat.
HandleSlot ==
    /\ Handles("slot")
    /\ LET p == Head(queue).who IN
       /\ Forgets(p)
       /\ IF Threatened(p) /\ InTime(pending[p]) THEN Gives(p, pending[p], Rest)
          ELSE queue' = Rest /\ UNCHANGED awaiting
    /\ UNCHANGED <<timers, disconnected>> /\ Alone

HandleDisconnect ==
    /\ Handles("disconnect") \/ Handles("kicked")
    /\ LET p == Head(queue).who IN
       /\ Forgets(p)
       /\ IF Handles("disconnect") /\ Threatened(p) /\ InTime(pending[p])
          THEN Gives(p, pending[p], Rest) /\ disconnected' = [disconnected EXCEPT ![p] = "fresh"]
          ELSE queue' = Rest /\ UNCHANGED <<awaiting, disconnected>>
    /\ UNCHANGED timers /\ Alone

\* Who comes back soon is punished, nothing else changes.
HandleConnect ==
    /\ Handles("connect")
    /\ disconnected' = [disconnected EXCEPT ![Head(queue).who] = None]
    /\ queue' = Rest
    /\ UNCHANGED pending /\ Keeps /\ Alone

\* The plugin forgets what it knows of all servers.
HandleStop ==
    /\ Handles("stop")
    /\ pending' = [p \in Player |-> None] /\ disconnected' = [p \in Player |-> None]
    /\ queue' = Rest
    /\ Keeps /\ Alone

\* DCS has not reported the kill in ten seconds.
Fires(p) ==
    /\ \E t \in timers[p] :
         /\ "late" \in May \/ \A i \in DOMAIN queue :
                queue[i].kind \in {"kill", "S_kill"} => queue[i].who # p
         /\ timers' = [timers EXCEPT ![p] = @ \ {t}]
         /\ Sends(p, t, queue) /\ Releases(p)
    /\ UNCHANGED <<pending, disconnected>> /\ Alone

Next ==
    \/ \E p \in Player :
         \/ Connect(p) \/ TakeSlot(p) \/ Respawn(p) \/ Takeoff(p) \/ Land(p) \/ Fires(p)
         \/ \E by \in Killer : Crash(p, by) \/ \E kind \in {"shot", "hit"} : Fire(p, kind, by)
         \/ \E kind \in {"disconnect", "kicked"} : Disconnect(p, kind)
    \/ \E s \in Server : SimulationStop(s)
    \/ HandleTakeoff \/ HandleFire \/ HandleLand \/ HandleSKill \/ HandleCrash \/ HandleKill
    \/ HandleSlot \/ HandleDisconnect \/ HandleConnect \/ HandleStop
    \/ Tick

Spec == Init /\ [][Next]_vars

-----------------------------------------------------------------------------
(* Properties.                                                             *)

\* A plane is shot down once, whoever reports it: DCS, the crash, the pilot who takes
\* another seat or disconnects, or several of them.
KilledOnce == \A p \in Player, n \in Lives : kills[p][n] <= 1

\* Nobody takes a kill away: when everything about a player is handled, a plane that was
\* given up within survival_window of a hit counts as shot down.  (Not if a ship or nobody
\* has hit it: see Reports.)
HitsCount ==
    \A p \in Player :
        queue = <<>> /\ timers[p] = {} => \A n \in lost[p] : kills[p][n] >= 1

\* The plugin watches every plane in the air, and none it has heard the end of: shots at
\* a player it does not watch are ignored.
Watched ==
    \A p \in Player : queue = <<>> =>
        /\ plane[p] = "air" => pending[p] # None
        /\ Threatened(p) => plane[p] = "air" /\ pending[p].life = life[p]
=============================================================================
