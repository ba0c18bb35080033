------------------------------ MODULE Credits ------------------------------
(***************************************************************************)
(* Credit points of a running campaign: the table CREDITS, the points and  *)
(* the deposit each player object keeps in memory (plugins/creditsystem),  *)
(* what planes cost (plugins/slotblocking), donations, votes, punishments. *)
(*                                                                         *)
(* Every change made through a player object writes the cached value back; *)
(* commands in Discord change the row itself when no server knows the      *)
(* player.  A payment awaits between the change of the points and that of  *)
(* the deposit; payments take turns (SlotBlockingListener.lock).  Events   *)
(* of a server are handled one after the other; payments, commands in      *)
(* Discord and punishments run beside them.                                *)
(***************************************************************************)
EXTENDS Integers, Sequences, SequencesExt, FiniteSets

CONSTANTS
    Player, Server, None,
    Task,       \* bound: coroutines at a time
    Payback,    \* slotblocking.yaml: payback on landing, or charge by usage
    Cost,       \* what a plane costs, and needs
    Kill,       \* points for a kill
    Gift,       \* points of a donation, a vote or a punishment
    MaxPoints,  \* creditsystem.yaml: max_points
    Start,      \* rows of CREDITS at the beginning
    May,        \* what may happen, see below
    MaxEvents,  \* bound: events of the game
    MaxOrders   \* bound: donations, votes, punishments, resets, restarts

Unread == -1
Account == [points : {Unread} \cup Nat, deposit : Nat]
Seat == [srv : Server, at : {"spectator", "slot", "air", "dead", "ended"}]
Payment == {"pay", "payback", "refund"}
Coroutine ==
    [kind : Payment \cup {"prep", "chat", "donate", "vote"},
     pc : {"lock", "audit", "read", "set", "asked", "look", "give"},
     who : Player, to : Player \cup {None},
     srv : Server \cup {None},     \* the server whose event or object it is about
     dest : Server \cup {None},    \* the server that knows the receiver
     read : Int,                   \* the credits it read
     taken : Nat]                  \* what the donor has lost

\* "roam": players change servers; "join": points change while the object of a player
\* is made; "vote", "reset": the row of a player with an object is overwritten;
\* "spend": he spends while he donates in Discord; "crowd": two give to the same player
\* in Discord; "broke": he cannot pay any more when he takes off, or when his payment is
\* his turn; "tip": he tips what he does not have; "ground": he earns points on the
\* ground; "quick": events during a payment; "quit": he leaves in the air; "fail": the
\* audit of a payment fails; "restart": the bot restarts while somebody flies or a
\* coroutine runs.
ASSUME CreditAssumption ==
    /\ None \notin Server /\ None \notin Player /\ None \notin Int
    /\ None \notin Account /\ None \notin Seat /\ None \notin Coroutine
    /\ Payback \in BOOLEAN
    /\ {Cost, Kill, Gift, MaxPoints} \subseteq Nat \ {0}
    /\ Start \subseteq {None} \cup (0..MaxPoints)
    /\ May \subseteq {"roam", "join", "vote", "reset", "spend", "crowd", "broke", "tip",
                      "ground", "quick", "quit", "fail", "restart"}
    /\ MaxEvents \in Nat /\ MaxOrders \in Nat

VARIABLES
    row,       \* CREDITS.points of each player, or None
    obj,       \* the CreditPlayer objects in server.players
    seat,      \* where a player is: server and place (DCS)
    task,      \* coroutines
    lock,      \* payments in the order they get the lock, the first one has it
    due,       \* history: the points a player should have
    paid,      \* history: paid for, or earned in, the present flight
    events, orders

history == <<due, paid>>
coroutines == <<task, lock>>
vars == <<row, obj, seat, coroutines, history, events, orders>>

Points(p) == IF row[p] = None THEN 0 ELSE row[p]

TypeOK ==
    /\ row \in [Player -> {None} \cup Int]
    /\ \A s \in Server, p \in Player : obj[s][p] = None \/ obj[s][p] \in Account
    /\ \A p \in Player : seat[p] = None \/ seat[p] \in Seat
    /\ \A t \in Task : task[t] = None \/ task[t] \in Coroutine
    /\ \A i \in DOMAIN lock : task[lock[i]] # None /\ task[lock[i]].kind \in Payment
    /\ due \in [Player -> 0..MaxPoints] /\ paid \in [Player -> Nat]
    /\ events \in 0..MaxEvents /\ orders \in 0..MaxOrders

Init ==
    /\ row \in [Player -> Start]
    /\ obj = [s \in Server |-> [p \in Player |-> None]]
    /\ seat = [p \in Player |-> None]
    /\ task = [t \in Task |-> None] /\ lock = <<>>
    /\ due = [p \in Player |-> Points(p)]
    /\ paid = [p \in Player |-> 0]
    /\ events = 0 /\ orders = 0

-----------------------------------------------------------------------------
(* Points.                                                                 *)

Clip(v) == IF v < 0 THEN 0 ELSE IF v > MaxPoints THEN MaxPoints ELSE v
Known(s, p) == obj[s][p] # None
Found(p) == {s \in Server : Known(s, p)}
Flies(p) == seat[p] # None /\ seat[p].at \in {"slot", "air", "dead", "ended"}

\* The getter of CreditPlayer.points reads the row once.
Value(s, p) == IF obj[s][p].points = Unread THEN Points(p) ELSE obj[s][p].points

\* The setter, after the getter: the cached value, clipped, becomes the row.
SetPoints(s, p, v, deposit) ==
    /\ obj' = [obj EXCEPT ![s][p] = [points |-> Clip(v), deposit |-> deposit]]
    /\ row' = IF v = Value(s, p) THEN row ELSE [row EXCEPT ![p] = Clip(v)]

Adds(s, p, change) == SetPoints(s, p, Value(s, p) + change, obj[s][p].deposit)

\* (Variant: whoever has any points may give.)
Affords_Some(v) == v > 0

\* What is given or paid for a vote has to be there.
Affords(v) == v >= Gift

\* The same change, as it should be.
Owes(p, change) == due' = [due EXCEPT ![p] = Clip(@ + change)]

-----------------------------------------------------------------------------
(* Coroutines and what the runs assume of the players.                     *)

Is(t, kind, pc) == task[t] # None /\ task[t].kind = kind /\ task[t].pc = pc
Paying(p) == \E t \in Task : task[t] # None /\ task[t].kind \in Payment /\ task[t].who = p
Joining(p) == \E t \in Task : task[t] # None /\ task[t].kind = "prep" /\ task[t].who = p
Donating(t) == task[t] # None /\ task[t].kind = "donate"
\* Handlers of a server are awaited before its next event.
Idle(s) == \A t \in Task : task[t] # None /\ task[t].srv = s => task[t].kind \notin {"prep", "chat"}

\* An order never asks for points that are needed: for the plane he takes off in, ...
Affordable(p) == "broke" \in May \/ Value(seat[p].srv, p) >= Cost
Spares(p, n) ==
    "broke" \in May \/ Value(seat[p].srv, p) - n >= Cost
        \/ ~\E t \in Task : Is(t, "pay", "lock") /\ task[t].who = p
\* ... for what he donates in Discord, ...
Keeps(p) == "spend" \in May \/ \A t \in Task : Donating(t) => task[t].who # p
\* ... or while his object is read.
Settled(p) == "join" \in May \/ ~Joining(p)
Calm(p) == "quick" \in May \/ ~Paying(p)

Coro(kind, pc, p, s) ==
    [kind |-> kind, pc |-> pc, who |-> p, to |-> None, srv |-> s, dest |-> None,
     read |-> 0, taken |-> 0]
Free(t) == task[t] = None
Becomes(t, c) == task' = [task EXCEPT ![t] = c]
Ends(t) == task' = [task EXCEPT ![t] = None]

\* asyncio.create_task(): the payment waits for the lock.
Creates(kind, p, s) ==
    \E t \in Task : Free(t) /\ Becomes(t, Coro(kind, "lock", p, s)) /\ lock' = Append(lock, t)

Order == orders < MaxOrders /\ orders' = orders + 1
Event(s) == events < MaxEvents /\ events' = events + 1 /\ Idle(s)
Beside == UNCHANGED <<events, orders>>

-----------------------------------------------------------------------------
(* Events of the game.                                                     *)

At(p, places) == seat[p] # None /\ seat[p].at \in places
Moves(p, place) == seat' = [seat EXCEPT ![p] = [@ EXCEPT !.at = place]]
Forfeits(p) == paid' = [paid EXCEPT ![p] = 0]
Deposit(s, p) == obj[s][p].deposit

\* An object a former visit has left is used as it is, a new one has to be read.
Join(p, s) ==
    /\ seat[p] = None /\ Event(s) /\ Settled(p)
    /\ "roam" \in May \/ Found(p) \subseteq {s}
    /\ "join" \in May \/ \A t \in Task : Donating(t) /\ task[t].pc # "asked" => p \notin {task[t].who, task[t].to}
    /\ seat' = [seat EXCEPT ![p] = [srv |-> s, at |-> "spectator"]]
    /\ IF Known(s, p) THEN UNCHANGED <<obj, task>>
       ELSE /\ obj' = [obj EXCEPT ![s][p] = [points |-> Unread, deposit |-> 0]]
            /\ \E t \in Task : Free(t) /\ Becomes(t, Coro("prep", "read", p, s))
    /\ UNCHANGED <<row, lock, history, orders>>

PrepReads(t) ==
    /\ Is(t, "prep", "read")
    /\ Becomes(t, [task[t] EXCEPT !.pc = "set", !.read = Points(task[t].who)])
    /\ UNCHANGED <<row, obj, seat, lock, history>> /\ Beside

PrepSets(t) ==
    /\ Is(t, "prep", "set")
    /\ obj' = [obj EXCEPT ![task[t].srv][task[t].who].points = task[t].read]
    /\ Ends(t)
    /\ UNCHANGED <<row, seat, lock, history>> /\ Beside

Leave(p) ==
    /\ seat[p] # None /\ Event(seat[p].srv) /\ Calm(p)
    /\ At(p, {"air"}) => "quit" \in May
    /\ seat' = [seat EXCEPT ![p] = None] /\ Forfeits(p)
    /\ UNCHANGED <<row, obj, coroutines, due, orders>>

\* DCS lets a player into a seat who has the points for it.  The deposit is cleared, or
\* the plane is charged by usage.
ChangeSlot(p, place) ==
    /\ seat[p] # None /\ Event(seat[p].srv) /\ Calm(p)
    /\ place = "slot" => Value(seat[p].srv, p) >= Cost /\ Keeps(p)
    /\ At(p, {"air"}) => "quit" \in May
    /\ Moves(p, place) /\ Forfeits(p)
    /\ IF Payback THEN obj' = [obj EXCEPT ![seat[p].srv][p].deposit = 0] /\ UNCHANGED coroutines
       ELSE IF place = "slot" THEN Creates("pay", p, seat[p].srv) /\ UNCHANGED obj
       ELSE UNCHANGED <<obj, coroutines>>
    /\ UNCHANGED <<row, due, orders>>

\* A plane without a deposit is charged.
Takeoff(p) ==
    /\ At(p, {"slot"}) /\ Event(seat[p].srv) /\ Calm(p) /\ Keeps(p)
    /\ Moves(p, "air")
    /\ IF Payback /\ Deposit(seat[p].srv, p) = 0
       THEN Affordable(p) /\ Creates("pay", p, seat[p].srv)
       ELSE UNCHANGED coroutines
    /\ UNCHANGED <<row, obj, history, orders>>

Land(p) ==
    /\ At(p, {"air"}) /\ Event(seat[p].srv) /\ Calm(p)
    /\ Moves(p, "slot")
    /\ IF Payback /\ Deposit(seat[p].srv, p) > 0 THEN Creates("payback", p, seat[p].srv)
       ELSE UNCHANGED coroutines
    /\ UNCHANGED <<row, obj, history, orders>>

\* Killed by an enemy.
Killed(p) ==
    /\ At(p, {"air"}) /\ Event(seat[p].srv) /\ Calm(p)
    /\ Moves(p, "dead") /\ Forfeits(p)
    /\ obj' = IF Payback THEN [obj EXCEPT ![seat[p].srv][p].deposit = 0] ELSE obj
    /\ UNCHANGED <<row, coroutines, due, orders>>

\* Killed by his own side: the deposit is paid back.
TeamKilled(p) ==
    /\ At(p, {"air"}) /\ Event(seat[p].srv) /\ Calm(p)
    /\ Moves(p, "dead")
    /\ IF Payback THEN Creates("payback", p, seat[p].srv) ELSE UNCHANGED coroutines
    /\ UNCHANGED <<row, obj, history, orders>>

\* The plane crashes, its pilot may have been killed before.
Crash(p) ==
    /\ At(p, {"air", "dead"}) /\ Event(seat[p].srv) /\ Calm(p)
    /\ Moves(p, "dead")
    /\ IF At(p, {"air"}) THEN Forfeits(p) ELSE UNCHANGED paid
    /\ obj' = IF Payback THEN [obj EXCEPT ![seat[p].srv][p].deposit = 0] ELSE obj
    /\ UNCHANGED <<row, coroutines, due, orders>>

\* A kill, or points from the mission (addUserPoints): added to points and deposit.
Earns(p) ==
    /\ At(p, {"air"}) \/ ("ground" \in May /\ seat[p] # None)
    /\ Event(seat[p].srv) /\ Calm(p)
    /\ LET s == seat[p].srv IN SetPoints(s, p, Value(s, p) + Kill, Deposit(s, p) + Kill)
    /\ Owes(p, Kill)
    /\ paid' = IF At(p, {"air"}) /\ Payback THEN [paid EXCEPT ![p] = @ + Kill] ELSE paid
    /\ UNCHANGED <<seat, coroutines, orders>>

\* mission_end: a refund for every object of the server, whoever it is.
MissionEnd(s) ==
    /\ Event(s)
    /\ \A p \in Player : Known(s, p) => Calm(p)
    /\ seat' = [p \in Player |-> IF Flies(p) /\ seat[p].srv = s
                                 THEN [seat[p] EXCEPT !.at = "ended"] ELSE seat[p]]
    /\ LET known == {p \in Player : Known(s, p)} IN
       IF ~Payback THEN UNCHANGED coroutines
       ELSE \E f \in [known -> {t \in Task : Free(t)}] :
              /\ \A p, q \in known : f[p] = f[q] => p = q
              /\ task' = [t \in Task |-> IF \E p \in known : f[p] = t
                                         THEN Coro("refund", "lock", CHOOSE p \in known : f[p] = t, s)
                                         ELSE task[t]]
              /\ \E order \in SetToSeqs({f[p] : p \in known}) : lock' = lock \o order
    /\ UNCHANGED <<row, obj, history, orders>>

-----------------------------------------------------------------------------
(* Payments.                                                               *)

Turn(t) == lock # <<>> /\ Head(lock) = t
Smaller(a, b) == IF a < b THEN a ELSE b

\* The task ends and leaves the lock.
Releases(t) == Ends(t) /\ lock' = Tail(lock)
Audits(t) == Becomes(t, [task[t] EXCEPT !.pc = "audit"]) /\ UNCHANGED lock

\* The deposit follows the audit, which may raise.
Notes(t, deposit) ==
    \/ obj' = [obj EXCEPT ![task[t].srv][task[t].who].deposit = deposit]
    \/ "fail" \in May /\ UNCHANGED obj

PayBegin(t) ==
    /\ Is(t, "pay", "lock") /\ Turn(t)
    /\ LET p == task[t].who
           s == task[t].srv
           v == Value(s, p) IN
       IF Deposit(s, p) # 0 THEN Releases(t) /\ UNCHANGED <<row, obj, history>>
       ELSE /\ SetPoints(s, p, v - Cost, Deposit(s, p)) /\ Owes(p, -Cost)
            /\ paid' = [paid EXCEPT ![p] = v - Clip(v - Cost)]
            /\ Audits(t)
    /\ UNCHANGED seat /\ Beside

\* (Variant: the deposit is not noted.)
PayEnd_Unnoted(t) ==
    /\ Is(t, "pay", "audit")
    /\ Releases(t)
    /\ UNCHANGED <<row, obj, seat, history>> /\ Beside

PayEnd(t) ==
    /\ Is(t, "pay", "audit")
    /\ IF Payback THEN Notes(t, Cost) ELSE UNCHANGED obj
    /\ Releases(t)
    /\ UNCHANGED <<row, seat, history>> /\ Beside

\* What is due is what was paid; at the end of the mission, for the plane only.
RefundDue(t) ==
    LET p == task[t].who IN IF task[t].kind = "refund" THEN Smaller(paid[p], Cost) ELSE paid[p]
Refund(t) ==
    LET p == task[t].who IN
    IF task[t].kind = "payback" THEN Deposit(task[t].srv, p)
    ELSE IF seat[p] = None \/ Flies(p) THEN Cost ELSE 0

PaybackBegin(t) ==
    /\ Is(t, "payback", "lock") \/ Is(t, "refund", "lock")
    /\ Turn(t)
    /\ LET p == task[t].who
           s == task[t].srv IN
       /\ Owes(p, RefundDue(t)) /\ Forfeits(p)
       /\ IF Deposit(s, p) = 0 THEN Releases(t) /\ UNCHANGED <<row, obj>>
          ELSE Adds(s, p, Refund(t)) /\ Audits(t)
    /\ UNCHANGED seat /\ Beside

PaybackEnd(t) ==
    /\ Is(t, "payback", "audit") \/ Is(t, "refund", "audit")
    /\ Notes(t, 0)
    /\ Releases(t)
    /\ UNCHANGED <<row, seat, history>> /\ Beside

-----------------------------------------------------------------------------
(* Donations, votes, punishments.                                          *)

\* -donate and -tip: both players are known to the server, its worker waits for the
\* audit.  A tip is not checked.
ChatDonate(p, q) ==
    /\ p # q /\ seat[p] # None /\ Order /\ Idle(seat[p].srv)
    /\ LET s == seat[p].srv
           v == Value(s, p) IN
       /\ Known(s, q)
       /\ \/ Affords(v) /\ Value(s, q) + Gift <= MaxPoints
          \/ "tip" \in May
       /\ Spares(p, Gift) /\ Keeps(p)
       /\ Adds(s, p, -Gift) /\ Owes(p, -Gift)
       /\ \E t \in Task :
            Free(t) /\ Becomes(t, [Coro("chat", "give", p, s) EXCEPT !.to = q, !.taken = v - Clip(v - Gift)])
    /\ UNCHANGED <<seat, lock, paid, events>>

ChatGives(t) ==
    /\ Is(t, "chat", "give")
    /\ Adds(task[t].srv, task[t].to, Gift) /\ Owes(task[t].to, Gift)
    /\ Ends(t)
    /\ UNCHANGED <<seat, lock, paid>> /\ Beside

\* -vote: starts a vote, which costs points.
ChatVote(p) ==
    /\ seat[p] # None /\ Idle(seat[p].srv) /\ Order
    /\ Affords(Value(seat[p].srv, p)) /\ Spares(p, Gift) /\ Keeps(p)
    /\ Adds(seat[p].srv, p, -Gift) /\ Owes(p, -Gift)
    /\ UNCHANGED <<seat, coroutines, paid, events>>

\* The punishment "credits" takes what is left.
Punish(p) ==
    /\ Order /\ Settled(p) /\ Keeps(p)
    /\ \E s \in Found(p) :
         /\ seat[p] # None => Spares(p, Gift)
         /\ Adds(s, p, -Gift) /\ Owes(p, -Gift)
    /\ UNCHANGED <<seat, coroutines, paid, events>>

\* /credits donate: the credits are read, ...
DonateAsk(p, q) ==
    /\ p # q /\ Order /\ Keeps(p) /\ Settled(p)
    /\ "crowd" \in May \/ \A t \in Task : Donating(t) => task[t].to # q
    /\ Affords(Points(p))
    /\ seat[p] # None => Spares(p, Gift)
    /\ \E t \in Task :
         Free(t) /\ Becomes(t, [Coro("donate", "asked", p, None) EXCEPT !.to = q, !.read = Points(p)])
    /\ UNCHANGED <<row, obj, seat, lock, history, events>>

AnyOf(servers) == IF servers = {} THEN None ELSE CHOOSE s \in servers : TRUE

\* ... the objects are looked up, ...
DonateLook(t) ==
    /\ Is(t, "donate", "asked")
    /\ Settled(task[t].who) /\ Settled(task[t].to)
    /\ Becomes(t, [task[t] EXCEPT !.pc = "look", !.srv = AnyOf(Found(task[t].who)),
                                  !.dest = AnyOf(Found(task[t].to))])
    /\ UNCHANGED <<row, obj, seat, lock, history>> /\ Beside

\* (Variant: the donor's row is always changed by SQL.)
DonateTakes_Row(t) ==
    /\ Is(t, "donate", "look")
    /\ LET p == task[t].who
           q == task[t].to
           s == task[t].srv
           has == IF task[t].dest = None THEN Points(q) ELSE Value(task[t].dest, q) IN
       IF has + Gift > MaxPoints THEN Ends(t) /\ UNCHANGED <<row, obj, due>>
       ELSE /\ Becomes(t, [task[t] EXCEPT !.pc = "give", !.srv = None, !.taken = Gift])
            /\ UNCHANGED <<row, obj, due>>
    /\ UNCHANGED <<seat, lock, paid>> /\ Beside

\* ... the cap is checked, the donor loses the points (by SQL: with the commit), ...
DonateTakes(t) ==
    /\ Is(t, "donate", "look")
    /\ LET p == task[t].who
           q == task[t].to
           s == task[t].srv
           has == IF task[t].dest = None THEN Points(q) ELSE Value(task[t].dest, q) IN
       IF has + Gift > MaxPoints THEN Ends(t) /\ UNCHANGED <<row, obj, due>>
       ELSE IF s = None
       THEN /\ Becomes(t, [task[t] EXCEPT !.pc = "give", !.taken = Gift])
            /\ UNCHANGED <<row, obj, due>>
       ELSE /\ Adds(s, p, -Gift) /\ Owes(p, -Gift)
            /\ Becomes(t, [task[t] EXCEPT !.pc = "give", !.taken = Value(s, p) - Clip(Value(s, p) - Gift)])
    /\ UNCHANGED <<seat, lock, paid>> /\ Beside

\* ... and the receiver gets them.
DonateGives(t) ==
    /\ Is(t, "donate", "give")
    /\ LET p == task[t].who
           q == task[t].to
           sql == task[t].srv = None
           left == IF sql /\ row[p] # None THEN [row EXCEPT ![p] = @ - Gift] ELSE row IN
       /\ due' = [due EXCEPT ![p] = IF sql THEN Clip(@ - Gift) ELSE @, ![q] = Clip(@ + Gift)]
       /\ IF task[t].dest = None
          THEN row' = [left EXCEPT ![q] = Points(q) + Gift] /\ UNCHANGED obj
          ELSE LET v == Clip(Value(task[t].dest, q) + Gift) IN
               /\ obj' = [obj EXCEPT ![task[t].dest][q].points = v]
               /\ row' = [left EXCEPT ![q] = v]
    /\ Ends(t)
    /\ UNCHANGED <<seat, lock, paid>> /\ Beside

\* /vote create: the credits are read before questions and selections, ...
VoteAsk(p) ==
    /\ Order /\ Settled(p) /\ Keeps(p)
    /\ Affords(Points(p))
    /\ \E t \in Task : Free(t) /\ Becomes(t, [Coro("vote", "asked", p, None) EXCEPT !.read = Points(p)])
    /\ UNCHANGED <<row, obj, seat, lock, history, events>>

\* ... and the row is written from what was read then.
VoteWrites(t) ==
    /\ Is(t, "vote", "asked")
    /\ LET p == task[t].who IN
       /\ "vote" \in May \/ (Found(p) = {} /\ row[p] = task[t].read /\ Keeps(p))
       /\ row' = IF row[p] = None THEN row ELSE [row EXCEPT ![p] = task[t].read - Gift]
       /\ Owes(p, -Gift)
    /\ Ends(t)
    /\ UNCHANGED <<obj, seat, lock, paid>> /\ Beside

\* /credits reset, for one player or all.
Reset(group) ==
    /\ Order /\ group # {}
    /\ \A p \in group : Keeps(p)
    /\ "reset" \in May \/ \A p \in group : Found(p) = {}
    /\ row' = [p \in Player |-> IF p \in group /\ row[p] # None THEN 0 ELSE row[p]]
    /\ due' = [p \in Player |-> IF p \in group THEN 0 ELSE due[p]]
    /\ UNCHANGED <<obj, seat, coroutines, paid, events>>

\* The bot restarts and registers the servers again: new objects for those who play.
BotRestart ==
    /\ Order
    /\ \/ "restart" \in May
       \/ (\A t \in Task : Free(t)) /\ (\A p \in Player : ~At(p, {"air"}))
    /\ obj' = [s \in Server |-> [p \in Player |-> IF seat[p] # None /\ seat[p].srv = s
                                    THEN [points |-> Points(p), deposit |-> 0] ELSE None]]
    /\ task' = [t \in Task |-> None] /\ lock' = <<>>
    /\ UNCHANGED <<row, seat, history, events>>

Next ==
    \/ \E p \in Player :
         \/ Leave(p) \/ Takeoff(p) \/ Land(p) \/ Killed(p) \/ TeamKilled(p) \/ Crash(p)
         \/ Earns(p) \/ ChatVote(p) \/ Punish(p) \/ VoteAsk(p)
         \/ \E s \in Server : Join(p, s)
         \/ \E place \in {"slot", "spectator"} : ChangeSlot(p, place)
         \/ \E q \in Player : ChatDonate(p, q) \/ DonateAsk(p, q)
    \/ \E s \in Server : MissionEnd(s)
    \/ \E t \in Task :
         \/ PrepReads(t) \/ PrepSets(t)
         \/ PayBegin(t) \/ PayEnd(t) \/ PaybackBegin(t) \/ PaybackEnd(t)
         \/ ChatGives(t) \/ DonateLook(t) \/ DonateTakes(t) \/ DonateGives(t) \/ VoteWrites(t)
    \/ \E group \in SUBSET Player : Reset(group)
    \/ BotRestart

Spec == Init /\ [][Next]_vars

-----------------------------------------------------------------------------
(* Properties.                                                             *)

\* Nobody's points are lost, invented or counted twice: whatever order events, payments,
\* donations, votes and punishments come in, the row of a player is what he should
\* have, and so is what any server remembers of him.  CreditPlayer.points writes back a
\* cached value, refunds give back a deposit noted long before.
Ledger ==
    \A p \in Player :
        /\ Points(p) = due[p]
        /\ \A s \in Server : Known(s, p) => Value(s, p) = due[p]

\* What a receiver is given the donor has lost: the check of the points, the look-up of
\* the objects and the two changes are separated by awaits.
GiftsArePaid ==
    \A t \in Task : task[t] # None /\ task[t].pc = "give" => task[t].taken = Gift

\* A plane in the air is paid for in full, and its deposit is what comes back on landing;
\* when planes are charged by usage it is paid for when its pilot has taken the seat.
\* The deposit says whether a plane is paid for, and kills are added to it.
FlightsArePaid ==
    \A p \in Player : ~Paying(p) =>
        /\ At(p, {"air"}) => paid[p] >= Cost
        /\ ~Payback /\ At(p, {"slot"}) => paid[p] >= Cost
        /\ Payback /\ seat[p] # None => Deposit(seat[p].srv, p) = paid[p]
=============================================================================
