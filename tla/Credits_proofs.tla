---------------------------- MODULE Credits_proofs ----------------------------
(***************************************************************************)
(* Proofs about credit points, deposits and gifts: for any number of       *)
(* players, servers, coroutines and orders the rows agree with what every  *)
(* player should have, gifts are paid for in full, and so are planes.      *)
(*                                                                         *)
(* The properties are about the ends of payments and donations.  What they *)
(* rest on is the invariant CInv: what is true of a player between his     *)
(* payments (PlayerOK), of a coroutine between two of its steps (PrepOK to *)
(* DonateOK), and of two coroutines that run beside one another (Apart).   *)
(* A step is about a group of players; GroupStep says what of the others   *)
(* stays as it was, and every action has its own lemma.                    *)
(***************************************************************************)
EXTENDS Credits, TLAPS

\* Nothing of what the comment on May names happens.
Regular == May = {}

\* The row of a player is what he should have; a server knows who plays on it.
Books(p) ==
    /\ due[p] \in 0..MaxPoints /\ Points(p) = due[p] /\ row[p] \in {None} \cup Int
    /\ paid[p] \in Nat
    /\ seat[p] # None => seat[p] \in Seat /\ Known(seat[p].srv, p)

\* One server knows a player, and remembers what he should have once it has read his row.
Object(s, p) ==
    Known(s, p) =>
        /\ obj[s][p] \in Account
        /\ \A r \in Server : Known(r, p) => r = s
        /\ seat[p] # None => seat[p].srv = s
        /\ \/ obj[s][p].points = due[p]
           \/ obj[s][p].points = Unread /\ Joining(p)

\* Between payments the deposit is what was paid and earned in the flight.
Flight(p) ==
    Payback /\ ~Paying(p) =>
        /\ IF At(p, {"air"}) THEN paid[p] >= Cost /\ Cost <= MaxPoints ELSE paid[p] = 0
        /\ \A s \in Server : Known(s, p) => obj[s][p].deposit = paid[p]

\* The object of a new player is being read; he does not fly yet.
PrepOK(c) ==
    c.kind = "prep" =>
        /\ c.pc \in {"read", "set"}
        /\ c.srv \in Server /\ Known(c.srv, c.who) /\ obj[c.srv][c.who].points = Unread
        /\ seat[c.who] # None /\ seat[c.who].at # "air"
        /\ c.pc = "set" => c.read = due[c.who]

\* The donor has lost the gift, the server knows the receiver.
ChatOK(c) ==
    c.kind = "chat" =>
        /\ c.pc = "give" /\ c.taken = Gift /\ c.srv \in Server /\ c.to \in Player
        /\ Known(c.srv, c.to)

\* Before a payment its points are there and the deposit is what was paid, after it they
\* are what the deposit is going to say.
PaymentOK(c) ==
    c.kind \in Payment =>
        /\ c.pc \in {"lock", "audit"} /\ c.srv \in Server /\ Known(c.srv, c.who)
        /\ c.kind = "pay" =>
              /\ seat[c.who] # None
              /\ c.pc = "lock" => due[c.who] >= Cost
        /\ c.kind # "pay" => Payback
        /\ Payback =>
              /\ c.kind = "pay" => At(c.who, {"air"}) /\ Cost <= MaxPoints
              /\ c.kind # "pay" => ~At(c.who, {"air"})
              /\ c.pc = "lock" => obj[c.srv][c.who].deposit = paid[c.who]
              /\ c.pc = "audit" => paid[c.who] = IF c.kind = "pay" THEN Cost ELSE 0
              /\ c.kind = "pay" /\ c.pc = "lock" => paid[c.who] = 0
              /\ c.kind = "refund" /\ c.pc = "lock" =>
                    paid[c.who] = 0 \/ (paid[c.who] >= Cost /\ At(c.who, {"ended"}))

VoteOK(c) == c.kind = "vote" => c.pc = "asked" /\ c.read >= Gift

\* The points for a gift are there, and those for a plane he has to pay.
Funds(p) ==
    /\ due[p] >= Gift
    /\ \A t \in Task : Is(t, "pay", "lock") /\ task[t].who = p => due[p] >= Gift + Cost

\* The servers that were found still know donor and receiver, the cap holds, and the
\* donor has the points until he has lost them.
DonateOK(c) ==
    c.kind = "donate" =>
        /\ c.pc \in {"asked", "look", "give"} /\ c.to \in Player \ {c.who}
        /\ c.pc \in {"look", "give"} =>
              /\ c.srv = None => Found(c.who) = {}
              /\ c.srv # None => Known(c.srv, c.who)
              /\ c.dest = None => Found(c.to) = {}
              /\ c.dest # None => Known(c.dest, c.to)
        /\ c.pc = "give" => c.taken = Gift /\ (c.dest = None => Points(c.to) + Gift <= MaxPoints)
        /\ c.pc \in {"asked", "look"} \/ c.srv = None => Funds(c.who)

\* Handlers of a server take turns, a player has one payment at a time, nobody pays or
\* looks for an object that is being read, and donations have different donors and
\* different receivers.
Handler == {"prep", "chat"}
Apart(c, d) ==
    /\ c.kind \in Handler /\ d.kind \in Handler => c.srv # d.srv
    /\ c.kind \in Payment /\ d.kind \in Payment => c.who # d.who
    /\ c.kind = "prep" /\ d.kind \in Payment => c.who # d.who
    /\ c.kind = "prep" /\ d.kind = "donate" /\ d.pc # "asked" => c.who \notin {d.who, d.to}
    /\ c.kind = "donate" /\ d.kind = "donate" => c.who # d.who /\ c.to # d.to

Coro1(t) ==
  task[t] # None =>
    /\ task[t] \in Coroutine
    /\ PrepOK(task[t]) /\ ChatOK(task[t]) /\ PaymentOK(task[t]) /\ VoteOK(task[t]) /\ DonateOK(task[t])

PlayerOK(p) == Books(p) /\ Flight(p) /\ \A s \in Server : Object(s, p)

Pairs == \A t, u \in Task : t # u /\ task[t] # None /\ task[u] # None => Apart(task[t], task[u])

CInv ==
  /\ \A p \in Player : PlayerOK(p)
  /\ \A t \in Task : Coro1(t)
  /\ Pairs

\* The types of what the properties are about; the lock and the bounds do not matter.
Types ==
    /\ row \in [Player -> {None} \cup Int]
    /\ obj \in [Server -> [Player -> {None} \cup Account]]
    /\ seat \in [Player -> {None} \cup Seat]
    /\ task \in [Task -> {None} \cup Coroutine]
    /\ due \in [Player -> 0..MaxPoints] /\ paid \in [Player -> Nat]

-----------------------------------------------------------------------------
(* Every step keeps the types.                                             *)

\* Clipped points are those of a row.
LEMMA ClipType ==
    ASSUME NEW v \in Int
    PROVE  Clip(v) \in 0..MaxPoints
BY CreditAssumption DEF Clip

\* What a server remembers of a player is a number, and so is his deposit.
LEMMA ValueType ==
    ASSUME Types, NEW s \in Server, NEW p \in Player, Known(s, p)
    PROVE  /\ Value(s, p) \in Int /\ obj[s][p] \in Account /\ obj[s][p].deposit \in Nat
           /\ Points(p) \in Int
BY DEF Types, Known, Value, Points, Account, Unread

\* What a server remembers of a player is what he should have.
LEMMA ValueIs ==
    ASSUME Types, CInv, NEW s \in Server, NEW p \in Player, Known(s, p)
    PROVE  Value(s, p) = due[p] /\ Value(s, p) \in 0..MaxPoints /\ Points(p) = due[p]
BY DEF CInv, PlayerOK, Books, Object, Value

\* An account becomes another one.
LEMMA AccountTypes ==
    ASSUME Types, NEW s \in Server, NEW p \in Player, NEW a \in Account
    PROVE  [obj EXCEPT ![s][p] = a] \in [Server -> [Player -> {None} \cup Account]]
BY DEF Types

\* A change of points.
LEMMA SetPointsTypes ==
    ASSUME Types, NEW s \in Server, NEW p \in Player, Known(s, p), NEW v \in Int, NEW d \in Nat,
           SetPoints(s, p, v, d)
    PROVE  /\ obj' \in [Server -> [Player -> {None} \cup Account]]
           /\ row' \in [Player -> {None} \cup Int]
<1>1. [points |-> Clip(v), deposit |-> d] \in Account
  BY ClipType DEF Account
<1>2. obj' \in [Server -> [Player -> {None} \cup Account]]
  BY <1>1, AccountTypes DEF SetPoints
<1>3. Clip(v) \in Int
  BY ClipType, CreditAssumption
<1>4. row' \in [Player -> {None} \cup Int]
  BY <1>3 DEF SetPoints, Types
<1> QED  BY <1>2, <1>4

\* A change of what is due.
LEMMA OwesTypes ==
    ASSUME Types, NEW p \in Player, NEW n \in Int, Owes(p, n)
    PROVE  due' \in [Player -> 0..MaxPoints]
<1>1. due[p] + n \in Int
  BY CreditAssumption DEF Types
<1> QED  BY <1>1, ClipType DEF Types, Owes

\* A coroutine as it begins.
LEMMA CoroType ==
    ASSUME NEW p \in Player, NEW s \in Server \cup {None},
           NEW kind \in Payment \cup {"prep", "chat", "donate", "vote"},
           NEW pc \in {"lock", "audit", "read", "set", "asked", "look", "give"}
    PROVE  Coro(kind, pc, p, s) \in Coroutine
BY DEF Coro, Coroutine

\* A gift in the chat as it begins.
LEMMA GiftType ==
    ASSUME NEW p \in Player, NEW q \in Player, NEW s \in Server, NEW n \in Nat
    PROVE  [Coro("chat", "give", p, s) EXCEPT !.to = q, !.taken = n] \in Coroutine
<1>1. PICK c \in Coroutine : c = Coro("chat", "give", p, s)
  BY CoroType
<1>2. [c EXCEPT !.to = q] \in Coroutine
  BY DEF Coroutine
<1>3. PICK d \in Coroutine : d = [c EXCEPT !.to = q]
  BY <1>2
<1>4. [d EXCEPT !.taken = n] \in Coroutine
  BY DEF Coroutine
<1> QED  BY <1>1, <1>3, <1>4

\* A payment is created.
LEMMA CreatesTypes ==
    ASSUME Types, NEW p \in Player, NEW s \in Server, NEW kind \in Payment, Creates(kind, p, s)
    PROVE  task' \in [Task -> {None} \cup Coroutine]
BY CoroType DEF Types, Creates, Becomes, Payment

\* A seat, and the next one on the same server.
LEMMA SeatTypes ==
    ASSUME Types, NEW p \in Player, seat[p] # None,
           NEW place \in {"spectator", "slot", "air", "dead", "ended"}
    PROVE  /\ seat[p].srv \in Server /\ seat[p] \in Seat
           /\ Moves(p, place) => seat' \in [Player -> {None} \cup Seat]
BY DEF Types, Seat, Moves

\* What happens to a player in the game keeps the types.
LEMMA GameTypes ==
    ASSUME Types, NEW p \in Player, Books(p),
           \/ Leave(p) \/ Takeoff(p) \/ Land(p) \/ Killed(p) \/ TeamKilled(p) \/ Crash(p)
           \/ \E s \in Server : Join(p, s)
           \/ \E place \in {"slot", "spectator"} : ChangeSlot(p, place)
    PROVE  Types'
<1>1. ASSUME NEW s \in Server, Join(p, s)
      PROVE  Types'
  <2>1. [srv |-> s, at |-> "spectator"] \in Seat /\ [points |-> Unread, deposit |-> 0] \in Account
    BY DEF Seat, Account
  <2>2. obj' \in [Server -> [Player -> {None} \cup Account]]
    <3>1. PICK a \in Account : a = [points |-> Unread, deposit |-> 0]
      BY <2>1
    <3>2. obj' = obj \/ obj' = [obj EXCEPT ![s][p] = a]
      BY <1>1, <3>1 DEF Join
    <3>3. obj \in [Server -> [Player -> {None} \cup Account]]
      BY DEF Types
    <3>4. [obj EXCEPT ![s][p] = a] \in [Server -> [Player -> {None} \cup Account]]
      BY <3>3, AccountTypes
    <3> QED  BY <3>2, <3>3, <3>4
  <2>3. task' \in [Task -> {None} \cup Coroutine]
    BY <1>1, CoroType DEF Join, Becomes, Types
  <2> QED  BY <1>1, <2>1, <2>2, <2>3 DEF Join, Types, history
<1>2. CASE Leave(p)
  BY <1>2 DEF Leave, Types, Forfeits, coroutines
<1> DEFINE s == seat[p].srv
<1>3. ASSUME seat[p] # None
      PROVE  [obj EXCEPT ![s][p].deposit = 0] \in [Server -> [Player -> {None} \cup Account]]
  <2>1. s \in Server /\ Known(s, p)
    BY <1>3, SeatTypes DEF Books
  <2>2. PICK a \in Account : a = [obj[s][p] EXCEPT !.deposit = 0]
    BY <2>1, ValueType DEF Account
  <2>3. [obj EXCEPT ![s][p].deposit = 0] = [obj EXCEPT ![s][p] = a]
    BY <2>2
  <2> QED  BY <2>1, <2>2, <2>3, AccountTypes
<1>4. ASSUME NEW place \in {"slot", "spectator"}, ChangeSlot(p, place)
      PROVE  Types'
  BY <1>3, <1>4, SeatTypes, CreatesTypes DEF ChangeSlot, Types, Forfeits, coroutines, Payment
<1>5. CASE Takeoff(p)
  BY <1>5, SeatTypes, CreatesTypes DEF Takeoff, Types, At, coroutines, history, Payment
<1>6. CASE Land(p)
  BY <1>6, SeatTypes, CreatesTypes DEF Land, Types, At, coroutines, history, Payment
<1>7. CASE Killed(p)
  BY <1>3, <1>7, SeatTypes DEF Killed, Types, At, coroutines, Forfeits
<1>8. CASE TeamKilled(p)
  BY <1>8, SeatTypes, CreatesTypes DEF TeamKilled, Types, At, coroutines, history, Payment
<1>9. CASE Crash(p)
  BY <1>3, <1>9, SeatTypes DEF Crash, Types, At, coroutines, Forfeits
<1> QED  BY <1>1, <1>2, <1>4, <1>5, <1>6, <1>7, <1>8, <1>9

\* Orders and points keep the types.
LEMMA OrderTypes ==
    ASSUME Types, CInv, NEW p \in Player,
           \/ Earns(p) \/ ChatVote(p) \/ Punish(p) \/ VoteAsk(p)
           \/ \E q \in Player : ChatDonate(p, q) \/ DonateAsk(p, q)
    PROVE  Types'
<1>1. ASSUME seat[p] # None
      PROVE  seat[p].srv \in Server /\ Known(seat[p].srv, p)
  BY <1>1, SeatTypes DEF CInv, PlayerOK, Books
<1> DEFINE s == seat[p].srv
<1>2. CASE Earns(p)
  <2>1. seat[p] # None
    BY <1>2 DEF Earns, At
  <2>2. s \in Server /\ Known(s, p) /\ Value(s, p) + Kill \in Int /\ Deposit(s, p) + Kill \in Nat /\ Kill \in Nat
    BY <1>1, <2>1, ValueType, CreditAssumption DEF Deposit
  <2>3. /\ obj' \in [Server -> [Player -> {None} \cup Account]]
        /\ row' \in [Player -> {None} \cup Int]
    BY <1>2, <2>2, SetPointsTypes DEF Earns
  <2>4. due' \in [Player -> 0..MaxPoints]
    BY <1>2, <2>2, OwesTypes DEF Earns
  <2>5. paid' \in [Player -> Nat]
    BY <1>2, <2>2 DEF Earns, Types
  <2> QED  BY <1>2, <2>3, <2>4, <2>5 DEF Earns, Types, coroutines
<1>3. ASSUME NEW r \in Server, Known(r, p), Adds(r, p, -Gift), Owes(p, -Gift)
      PROVE  /\ obj' \in [Server -> [Player -> {None} \cup Account]]
             /\ row' \in [Player -> {None} \cup Int]
             /\ due' \in [Player -> 0..MaxPoints]
  <2>1. -Gift \in Int /\ Value(r, p) + (-Gift) \in Int /\ obj[r][p].deposit \in Nat
    BY <1>3, ValueType, CreditAssumption
  <2> QED  BY <1>3, <2>1, SetPointsTypes, OwesTypes DEF Adds
<1>4. CASE ChatVote(p)
  BY <1>1, <1>3, <1>4 DEF ChatVote, Types, coroutines
<1>5. CASE Punish(p)
  BY <1>3, <1>5 DEF Punish, Types, coroutines, Found
<1>6. Points(p) \in Int
  BY DEF Points, Types
<1>7. CASE VoteAsk(p)
  <2>1. [Coro("vote", "asked", p, None) EXCEPT !.read = Points(p)] \in Coroutine
    BY <1>6 DEF Coro, Coroutine
  <2> QED  BY <1>7, <2>1 DEF VoteAsk, Types, Becomes, history
<1>8. ASSUME NEW q \in Player, DonateAsk(p, q)
      PROVE  Types'
  <2>1. [Coro("donate", "asked", p, None) EXCEPT !.to = q, !.read = Points(p)] \in Coroutine
    BY <1>6 DEF Coro, Coroutine
  <2>2. \E t \in Task : task' = [task EXCEPT ![t] =
                  [Coro("donate", "asked", p, None) EXCEPT !.to = q, !.read = Points(p)]]
    BY <1>8 DEF DonateAsk, Becomes
  <2>3. task' \in [Task -> {None} \cup Coroutine]
    BY <2>1, <2>2 DEF Types
  <2> QED  BY <1>8, <2>3 DEF DonateAsk, Types, history
<1>9. ASSUME NEW q \in Player, ChatDonate(p, q)
      PROVE  Types'
  <2>1. s \in Server /\ Known(s, p) /\ Value(s, p) \in 0..MaxPoints
    BY <1>1, <1>9, ValueIs DEF ChatDonate
  <2>2. PICK n \in Nat : n = Value(s, p) - Clip(Value(s, p) - Gift)
    BY <2>1, CreditAssumption DEF Clip
  <2>3. [Coro("chat", "give", p, s) EXCEPT !.to = q, !.taken = n] \in Coroutine
    BY <2>1, GiftType
  <2>4. \E t \in Task : task' = [task EXCEPT ![t] = [Coro("chat", "give", p, s) EXCEPT !.to = q, !.taken = n]]
    BY <1>9, <2>2 DEF ChatDonate, Becomes
  <2>5. task' \in [Task -> {None} \cup Coroutine]
    BY <2>3, <2>4 DEF Types
  <2> QED  BY <1>3, <1>9, <2>1, <2>5 DEF ChatDonate, Types
<1> QED  BY <1>2, <1>4, <1>5, <1>7, <1>8, <1>9

\* The end of a mission keeps the types.
LEMMA EndTypes ==
    ASSUME Types, NEW s \in Server, MissionEnd(s)
    PROVE  Types'
<1>1. seat' \in [Player -> {None} \cup Seat]
  <2>1. \A p \in Player : seat[p] # None => [seat[p] EXCEPT !.at = "ended"] \in Seat
    BY DEF Types, Seat
  <2> QED  BY <2>1 DEF MissionEnd, Types, Flies
<1>2. task' \in [Task -> {None} \cup Coroutine]
  <2>1. CASE ~Payback
    BY <2>1 DEF MissionEnd, coroutines, Types
  <2>2. CASE Payback
    <3> DEFINE known == {p \in Player : Known(s, p)}
    <3>1. PICK f \in [known -> {t \in Task : Free(t)}] :
              task' = [t \in Task |-> IF \E p \in known : f[p] = t
                                      THEN Coro("refund", "lock", CHOOSE p \in known : f[p] = t, s)
                                      ELSE task[t]]
      BY <2>2 DEF MissionEnd
    <3>2. ASSUME NEW t \in Task, \E p \in known : f[p] = t
          PROVE  Coro("refund", "lock", CHOOSE p \in known : f[p] = t, s) \in Coroutine
      <4>1. PICK p \in Player : p = CHOOSE q \in known : f[q] = t
        BY <3>2
      <4>2. Coro("refund", "lock", p, s) \in Coroutine
        BY CoroType DEF Payment
      <4> QED  BY <4>1, <4>2
    <3> QED  BY <3>1, <3>2 DEF Types
  <2> QED  BY <2>1, <2>2
<1> QED  BY <1>1, <1>2 DEF MissionEnd, Types, history

\* What a coroutine is, by its types and the invariant.
LEMMA TaskIs ==
    ASSUME Types, CInv, NEW t \in Task, task[t] # None
    PROVE  /\ task[t] \in Coroutine /\ task[t].who \in Player /\ task[t].to \in Player \cup {None}
           /\ task[t].srv \in Server \cup {None} /\ task[t].dest \in Server \cup {None}
           /\ PrepOK(task[t]) /\ ChatOK(task[t]) /\ PaymentOK(task[t]) /\ VoteOK(task[t])
           /\ DonateOK(task[t])
BY DEF Types, CInv, Coro1, Coroutine

\* A coroutine ends or goes on.
LEMMA EndsTypes ==
    ASSUME Types, NEW t \in Task
    PROVE  /\ Ends(t) => task' \in [Task -> {None} \cup Coroutine]
           /\ \A c \in Coroutine : Becomes(t, c) => task' \in [Task -> {None} \cup Coroutine]
BY DEF Types, Ends, Becomes

\* Payments keep the types.
LEMMA PaymentTypes ==
    ASSUME Types, CInv, NEW t \in Task,
           PayBegin(t) \/ PayEnd(t) \/ PaybackBegin(t) \/ PaybackEnd(t)
    PROVE  Types'
<1> DEFINE p == task[t].who
           s == task[t].srv
<1>1. /\ task[t] # None /\ task[t].kind \in Payment
  BY DEF PayBegin, PayEnd, PaybackBegin, PaybackEnd, Is, Payment
<1>2. p \in Player /\ s \in Server /\ Known(s, p) /\ task[t] \in Coroutine
  BY <1>1, TaskIs DEF PaymentOK
<1>3. Value(s, p) \in 0..MaxPoints /\ Deposit(s, p) \in Nat /\ paid[p] \in Nat /\ due[p] \in 0..MaxPoints
      /\ Value(s, p) = due[p]
  BY <1>2, ValueIs, ValueType DEF Deposit, Types
<1>4. /\ Cost \in Nat /\ -Cost \in Int /\ MaxPoints \in Nat
  BY CreditAssumption
<1>5. [task[t] EXCEPT !.pc = "audit"] \in Coroutine
  BY <1>2 DEF Coroutine
<1>6. task' \in [Task -> {None} \cup Coroutine]
  BY <1>5, EndsTypes DEF PayBegin, PayEnd, PaybackBegin, PaybackEnd, Releases, Audits
<1> HIDE DEF p, s
<1>7. CASE PayBegin(t)
  <2>1. Value(s, p) - Clip(Value(s, p) - Cost) \in Nat
    BY <1>3, <1>4 DEF Clip
  <2>2. CASE Deposit(s, p) # 0
    BY <1>6, <1>7, <2>2 DEF PayBegin, Types, history, p, s
  <2>3. CASE Deposit(s, p) = 0
    <3>1. /\ SetPoints(s, p, Value(s, p) - Cost, Deposit(s, p)) /\ Owes(p, -Cost) /\ seat' = seat
          /\ paid' = [paid EXCEPT ![p] = Value(s, p) - Clip(Value(s, p) - Cost)]
      BY <1>7, <2>3 DEF PayBegin, p, s
    <3>2. Value(s, p) - Cost \in Int
      BY <1>3, <1>4
    <3>3. due' \in [Player -> 0..MaxPoints]
      BY <1>2, <1>4, <3>1, OwesTypes
    <3>4. paid' \in [Player -> Nat]
      BY <1>2, <2>1, <3>1 DEF Types
    <3> QED  BY <1>2, <1>3, <1>6, <3>1, <3>2, <3>3, <3>4, SetPointsTypes DEF Types
  <2> QED  BY <2>2, <2>3
<1>8. ASSUME NEW n \in Nat
      PROVE  [obj EXCEPT ![s][p].deposit = n] \in [Server -> [Player -> {None} \cup Account]]
  <2>1. PICK a \in Account : a = [obj[s][p] EXCEPT !.deposit = n]
    BY <1>2, ValueType DEF Account
  <2>2. [obj EXCEPT ![s][p].deposit = n] = [obj EXCEPT ![s][p] = a]
    BY <2>1
  <2> QED  BY <1>2, <2>1, <2>2, AccountTypes
<1>9. CASE PayEnd(t)
  <2>1. obj' = obj \/ obj' = [obj EXCEPT ![s][p].deposit = Cost]
    BY <1>9 DEF PayEnd, Notes, p, s
  <2>2. obj' \in [Server -> [Player -> {None} \cup Account]]
    <3>1. obj \in [Server -> [Player -> {None} \cup Account]]
      BY DEF Types
    <3>2. [obj EXCEPT ![s][p].deposit = Cost] \in [Server -> [Player -> {None} \cup Account]]
      <4>1. Cost \in Nat
        BY CreditAssumption
      <4> QED  BY <1>8, <4>1
    <3> QED  BY <2>1, <3>1, <3>2
  <2> QED  BY <1>6, <1>9, <2>2 DEF PayEnd, Types, history
<1>10. CASE PaybackEnd(t)
  <2>1. obj' = obj \/ obj' = [obj EXCEPT ![s][p].deposit = 0]
    BY <1>10 DEF PaybackEnd, Notes, p, s
  <2>2. obj' \in [Server -> [Player -> {None} \cup Account]]
    <3>1. obj \in [Server -> [Player -> {None} \cup Account]]
      BY DEF Types
    <3>2. [obj EXCEPT ![s][p].deposit = 0] \in [Server -> [Player -> {None} \cup Account]]
      BY <1>8
    <3> QED  BY <2>1, <3>1, <3>2
  <2> QED  BY <1>6, <1>10, <2>2 DEF PaybackEnd, Types, history
<1>11. CASE PaybackBegin(t)
  <2>1. RefundDue(t) \in Int /\ Refund(t) \in Int
    BY <1>3, <1>4 DEF RefundDue, Refund, Smaller, p, s, Deposit
  <2>2. Owes(p, RefundDue(t)) /\ Forfeits(p) /\ seat' = seat
    BY <1>11 DEF PaybackBegin, p
  <2>3. due' \in [Player -> 0..MaxPoints]
    BY <1>2, <2>1, <2>2, OwesTypes
  <2>4. paid' \in [Player -> Nat]
    BY <2>2 DEF Forfeits, Types
  <2>5. UNCHANGED <<row, obj>> \/ SetPoints(s, p, Value(s, p) + Refund(t), obj[s][p].deposit)
    BY <1>11 DEF PaybackBegin, Adds, p, s
  <2>6. Value(s, p) + Refund(t) \in Int /\ obj[s][p].deposit \in Nat
    BY <1>3, <1>4, <2>1 DEF Deposit
  <2>7. /\ obj' \in [Server -> [Player -> {None} \cup Account]]
        /\ row' \in [Player -> {None} \cup Int]
    BY <1>2, <2>5, <2>6, SetPointsTypes DEF Types
  <2> QED  BY <1>6, <2>2, <2>3, <2>4, <2>7 DEF Types
<1> QED  BY <1>7, <1>9, <1>10, <1>11

\* The object of a player with other points.
LEMMA PointsTypes ==
    ASSUME Types, NEW s \in Server, NEW p \in Player, Known(s, p), NEW n \in Nat
    PROVE  [obj EXCEPT ![s][p].points = n] \in [Server -> [Player -> {None} \cup Account]]
<1>1. PICK a \in Account : a = [obj[s][p] EXCEPT !.points = n]
  BY ValueType DEF Account
<1>2. [obj EXCEPT ![s][p].points = n] = [obj EXCEPT ![s][p] = a]
  BY <1>1
<1> QED  BY <1>1, <1>2, AccountTypes

\* The other coroutines keep the types.
LEMMA CoroutineTypes ==
    ASSUME Types, CInv, NEW t \in Task,
           \/ PrepReads(t) \/ PrepSets(t) \/ ChatGives(t) \/ DonateLook(t) \/ DonateTakes(t)
           \/ DonateGives(t) \/ VoteWrites(t)
    PROVE  Types'
<1> DEFINE p == task[t].who
           q == task[t].to
           s == task[t].srv
           d == task[t].dest
<1>1. task[t] # None
  BY DEF PrepReads, PrepSets, ChatGives, DonateLook, DonateTakes, DonateGives, VoteWrites, Is
<1>2. /\ task[t] \in Coroutine /\ p \in Player /\ q \in Player \cup {None} /\ s \in Server \cup {None}
      /\ d \in Server \cup {None}
      /\ PrepOK(task[t]) /\ ChatOK(task[t]) /\ VoteOK(task[t]) /\ DonateOK(task[t])
  BY <1>1, TaskIs
<1>3. \A r \in Player : Points(r) \in Int /\ due[r] \in 0..MaxPoints
  BY DEF Types, Points
<1>4. /\ Gift \in Nat /\ -Gift \in Int /\ MaxPoints \in Nat
  BY CreditAssumption
<1>5. CASE PrepReads(t)
  <2>1. [task[t] EXCEPT !.pc = "set", !.read = Points(p)] \in Coroutine
    <3>1. PICK c \in Coroutine : c = [task[t] EXCEPT !.pc = "set"]
      BY <1>2 DEF Coroutine
    <3>2. [c EXCEPT !.read = Points(p)] \in Coroutine
      BY <1>2, <1>3 DEF Coroutine
    <3> QED  BY <3>1, <3>2
  <2> QED  BY <1>5, <2>1, EndsTypes DEF PrepReads, Types, history
<1>6. CASE PrepSets(t)
  <2>1. s \in Server /\ Known(s, p) /\ task[t].read = due[p] /\ due[p] \in Nat
    BY <1>2, <1>3, <1>4, <1>6 DEF PrepSets, Is, PrepOK
  <2>2. obj' \in [Server -> [Player -> {None} \cup Account]]
    BY <1>2, <1>6, <2>1, PointsTypes DEF PrepSets
  <2> QED  BY <1>6, <2>2, EndsTypes DEF PrepSets, Types, history
<1>7. CASE ChatGives(t)
  <2>1. s \in Server /\ q \in Player /\ Known(s, q)
    BY <1>2, <1>7 DEF ChatGives, Is, ChatOK
  <2>2. Value(s, q) + Gift \in Int /\ obj[s][q].deposit \in Nat
    BY <1>4, <2>1, ValueType
  <2>3. SetPoints(s, q, Value(s, q) + Gift, obj[s][q].deposit) /\ Owes(q, Gift)
    BY <1>7 DEF ChatGives, Adds
  <2>4. /\ obj' \in [Server -> [Player -> {None} \cup Account]]
        /\ row' \in [Player -> {None} \cup Int] /\ due' \in [Player -> 0..MaxPoints]
    BY <1>4, <2>1, <2>2, <2>3, SetPointsTypes, OwesTypes
  <2> QED  BY <1>7, <2>4, EndsTypes DEF ChatGives, Types
<1>8. CASE DonateLook(t)
  <2>1. \A r \in Player : AnyOf(Found(r)) \in Server \cup {None}
    BY DEF AnyOf, Found
  <2>2. q \in Player
    BY <1>2, <1>8 DEF DonateLook, DonateOK, Is
  <2>3. [task[t] EXCEPT !.pc = "look", !.srv = AnyOf(Found(p)), !.dest = AnyOf(Found(q))] \in Coroutine
    <3>1. PICK a \in Coroutine : a = [task[t] EXCEPT !.pc = "look"]
      BY <1>2 DEF Coroutine
    <3>2. PICK b \in Coroutine : b = [a EXCEPT !.srv = AnyOf(Found(p))]
      BY <1>2, <2>1 DEF Coroutine
    <3>3. [b EXCEPT !.dest = AnyOf(Found(q))] \in Coroutine
      BY <2>1, <2>2 DEF Coroutine
    <3> QED  BY <3>1, <3>2, <3>3
  <2> QED  BY <1>8, <2>3, EndsTypes DEF DonateLook, Types, history
<1>9. CASE DonateTakes(t)
  <2>1. ASSUME NEW n \in Nat
        PROVE  [task[t] EXCEPT !.pc = "give", !.taken = n] \in Coroutine
    <3>1. PICK a \in Coroutine : a = [task[t] EXCEPT !.pc = "give"]
      BY <1>2 DEF Coroutine
    <3>2. [a EXCEPT !.taken = n] \in Coroutine
      BY <2>1 DEF Coroutine
    <3> QED  BY <3>1, <3>2
  <2>2. ASSUME s # None
        PROVE  /\ s \in Server /\ Known(s, p) /\ Value(s, p) + (-Gift) \in Int /\ obj[s][p].deposit \in Nat
               /\ Value(s, p) - Clip(Value(s, p) - Gift) \in Nat
    <3>1. s \in Server /\ Known(s, p)
      BY <1>2, <1>9, <2>2 DEF DonateTakes, Is, DonateOK
    <3>2. Value(s, p) \in 0..MaxPoints /\ obj[s][p].deposit \in Nat
      BY <1>2, <3>1, ValueIs, ValueType
    <3> QED  BY <1>4, <3>1, <3>2 DEF Clip
  <2>3. \/ Ends(t) /\ UNCHANGED <<row, obj, due>>
        \/ Becomes(t, [task[t] EXCEPT !.pc = "give", !.taken = Gift]) /\ UNCHANGED <<row, obj, due>>
        \/ /\ s # None /\ SetPoints(s, p, Value(s, p) + (-Gift), obj[s][p].deposit) /\ Owes(p, -Gift)
           /\ Becomes(t, [task[t] EXCEPT !.pc = "give", !.taken = Value(s, p) - Clip(Value(s, p) - Gift)])
    BY <1>9 DEF DonateTakes, Adds
  <2>4. task' \in [Task -> {None} \cup Coroutine]
    BY <1>4, <2>1, <2>2, <2>3, EndsTypes
  <2>5. /\ obj' \in [Server -> [Player -> {None} \cup Account]]
        /\ row' \in [Player -> {None} \cup Int] /\ due' \in [Player -> 0..MaxPoints]
    <3>1. CASE UNCHANGED <<row, obj, due>>
      BY <3>1 DEF Types
    <3>2. CASE s # None /\ SetPoints(s, p, Value(s, p) + (-Gift), obj[s][p].deposit) /\ Owes(p, -Gift)
      BY <1>2, <1>4, <2>2, <3>2, SetPointsTypes, OwesTypes
    <3> QED  BY <2>3, <3>1, <3>2
  <2> QED  BY <1>9, <2>4, <2>5 DEF DonateTakes, Types
<1>10. CASE DonateGives(t)
  <2>1. q \in Player /\ (d # None => d \in Server /\ Known(d, q))
    BY <1>2, <1>10 DEF DonateGives, Is, DonateOK
  <2>2. due' \in [Player -> 0..MaxPoints]
    <3>1. Clip(due[p] - Gift) \in 0..MaxPoints /\ Clip(due[q] + Gift) \in 0..MaxPoints
      BY <1>2, <1>3, <1>4, <2>1, ClipType
    <3> QED  BY <1>10, <3>1 DEF DonateGives, Types
  <2> DEFINE left == IF s = None /\ row[p] # None THEN [row EXCEPT ![p] = @ - Gift] ELSE row
  <2>3. left \in [Player -> {None} \cup Int]
    BY <1>2, <1>4 DEF Types
  <2> HIDE DEF left
  <2>4. CASE d = None
    BY <1>3, <1>4, <1>10, <2>1, <2>2, <2>3, <2>4, EndsTypes DEF DonateGives, Types, left
  <2>5. CASE d # None
    <3>1. PICK v \in Nat : v = Clip(Value(d, q) + Gift)
      BY <1>4, <2>1, <2>5, ValueType, ClipType
    <3>2. obj' = [obj EXCEPT ![d][q].points = v] /\ row' = [left EXCEPT ![q] = v]
      BY <1>10, <2>5, <3>1 DEF DonateGives, left
    <3>3. obj' \in [Server -> [Player -> {None} \cup Account]]
      BY <2>1, <2>5, <3>2, PointsTypes
    <3>4. row' \in [Player -> {None} \cup Int]
      <4>1. PICK l \in [Player -> {None} \cup Int] : l = left
        BY <2>3
      <4>2. v \in {None} \cup Int
        OBVIOUS
      <4>3. [l EXCEPT ![q] = v] \in [Player -> {None} \cup Int]
        BY <4>2
      <4> QED  BY <3>2, <4>1, <4>3
    <3> QED  BY <1>10, <2>2, <3>3, <3>4, EndsTypes DEF DonateGives, Types
  <2> QED  BY <2>4, <2>5
<1>11. CASE VoteWrites(t)
  <2>1. task[t].read - Gift \in Int
    BY <1>2, <1>4 DEF Coroutine
  <2>2. due' \in [Player -> 0..MaxPoints]
    BY <1>2, <1>4, <1>11, OwesTypes DEF VoteWrites
  <2> QED  BY <1>2, <1>11, <2>1, <2>2, EndsTypes DEF VoteWrites, Types
<1> QED  BY <1>5, <1>6, <1>7, <1>8, <1>9, <1>10, <1>11

\* Resets and restarts keep the types.
LEMMA RestartTypes ==
    ASSUME Types, CInv, BotRestart \/ \E group \in SUBSET Player : Reset(group)
    PROVE  Types'
<1>1. CASE BotRestart
  <2>1. \A p \in Player : seat[p] # None => Points(p) \in Nat
    BY CreditAssumption DEF CInv, PlayerOK, Books
  <2>2. \A p \in Player : seat[p] # None => [points |-> Points(p), deposit |-> 0] \in Account
    BY <2>1 DEF Account
  <2> QED  BY <1>1, <2>2 DEF BotRestart, Types, history
<1>2. ASSUME NEW group \in SUBSET Player, Reset(group)
      PROVE  Types'
  BY <1>2, CreditAssumption DEF Reset, Types, coroutines
<1> QED  BY <1>1, <1>2

\* The initial states have the types.
LEMMA InitTypes ==
    ASSUME Init
    PROVE  Types
BY CreditAssumption DEF Init, Types, Points

\* Every step keeps the types.
LEMMA StepTypes ==
    ASSUME Types, CInv, Next
    PROVE  Types'
BY GameTypes, OrderTypes, EndTypes, PaymentTypes, CoroutineTypes, RestartTypes DEF Next, CInv, PlayerOK

-----------------------------------------------------------------------------
(* What an action leaves alone.                                            *)

Same(q) ==
    /\ row'[q] = row[q] /\ due'[q] = due[q] /\ paid'[q] = paid[q] /\ seat'[q] = seat[q]
    /\ \A s \in Server : obj'[s][q] = obj[s][q]
SameKnown(q) == \A s \in Server : obj'[s][q] # None <=> obj[s][q] # None

\* Nothing changes but players of a group and their coroutines, and those that no
\* flight and no object depends on.
Other == {"chat", "donate", "vote"}
Within(group) ==
    /\ \A q \in Player \ group : Same(q)
    /\ \A t \in Task : \/ task'[t] = task[t]
                       \/ /\ task[t] # None => task[t].who \in group \/ task[t].kind \in Other
                          /\ task'[t] # None => task'[t].who \in group \/ task'[t].kind \in Other

\* The others are what they were.
LEMMA OtherPlayers ==
    ASSUME Types, CInv, NEW group \in SUBSET Player, Within(group), NEW q \in Player \ group
    PROVE  PlayerOK(q)'
<1>1. Same(q) /\ PlayerOK(q)
  BY DEF Within, CInv
<1>2. Paying(q) => Paying(q)'
  BY DEF Paying, Within, Other, Payment
<1>3. Joining(q) => Joining(q)'
  BY DEF Joining, Within, Other
<1>4. Books(q)'
  BY <1>1 DEF Same, PlayerOK, Books, Points, Known, Seat
<1>5. Flight(q)'
  BY <1>1, <1>2 DEF Same, PlayerOK, Flight, Known, At
<1>6. \A s \in Server : Object(s, q)'
  BY <1>1, <1>3 DEF Same, PlayerOK, Object, Known
<1> QED  BY <1>4, <1>5, <1>6 DEF PlayerOK

\* A player who loses points, or whom a server knows, is still there to be given some.
Receives(q) ==
    /\ SameKnown(q)
    /\ \/ Points(q)' <= Points(q)
       \/ Found(q) # {}
       \/ \A t \in Task : Donating(t) /\ task[t].to = q => task'[t] # task[t]

\* So are coroutines of others.
LEMMA OtherCoroutines ==
    ASSUME Types, Types', CInv, NEW group \in SUBSET Player, Within(group),
           NEW t \in Task, task[t] # None, task'[t] = task[t], task[t].who \notin group,
           task[t].to \in group => Receives(task[t].to)
    PROVE  Coro1(t)'
<1> DEFINE p == task[t].who
           q == task[t].to
<1>1. /\ task[t] \in Coroutine /\ p \in Player /\ q \in Player \cup {None} 
      /\ task[t].srv \in Server \cup {None} /\ task[t].dest \in Server \cup {None}
      /\ PrepOK(task[t]) /\ ChatOK(task[t]) /\ PaymentOK(task[t]) /\ VoteOK(task[t]) /\ DonateOK(task[t])
  BY TaskIs
<1>2. Same(p) /\ SameKnown(p)
  BY <1>1 DEF Within, Same, SameKnown
<1>3. q \in Player => SameKnown(q) /\ (Points(q)' <= Points(q) \/ Found(q) # {} \/ task[t].kind # "donate")
  <2>1. CASE q \in Player \ group
    <3>1. Points(q) \in Int /\ Points(q)' = Points(q)
      BY <2>1 DEF Within, Same, Points, Types
    <3> QED  BY <2>1, <3>1 DEF Within, Same, SameKnown
  <2>2. CASE q \in group
    BY <2>2 DEF Receives, Donating
  <2> QED  BY <1>1, <2>1, <2>2
<1>4. PrepOK(task[t])'
  BY <1>1, <1>2 DEF PrepOK, Same, Known
<1>5. ChatOK(task[t])'
  BY <1>1, <1>3 DEF ChatOK, SameKnown, Known
<1>6. PaymentOK(task[t])'
  BY <1>1, <1>2 DEF PaymentOK, Same, Known, At
<1>7. VoteOK(task[t])'
  BY <1>1 DEF VoteOK
<1>8. DonateOK(task[t])'
  <2>1. \A u \in Task : Is(u, "pay", "lock")' /\ task'[u].who = p => Is(u, "pay", "lock") /\ task[u].who = p
    BY <1>1 DEF Within, Is, Other
  <2>2. CASE task[t].kind = "donate"
    <3>1. q \in Player \ {p}
      BY <1>1, <2>2 DEF DonateOK
    <3>2. Found(p)' = Found(p) /\ Found(q)' = Found(q)
      BY <1>2, <1>3, <3>1 DEF Found, Known, SameKnown
    <3>3. task[t].pc = "give" /\ task[t].dest = None => Points(q)' + Gift <= MaxPoints
      <4> HAVE task[t].pc = "give" /\ task[t].dest = None
      <4>1. Found(q) = {} /\ Points(q) + Gift <= MaxPoints
        BY <1>1, <2>2 DEF DonateOK
      <4>2. Points(q) \in Int /\ Points(q)' <= Points(q)
        BY <1>3, <2>2, <3>1, <4>1 DEF Types, Points
      <4>3. Points(q)' \in Int
        BY <3>1 DEF Types, Points
      <4> QED  BY <4>1, <4>2, <4>3, CreditAssumption
    <3>4. Funds(p) => Funds(p)'
      BY <1>2, <2>1 DEF Same, Funds
    <3> QED  BY <1>1, <1>2, <1>3, <2>1, <2>2, <3>1, <3>2, <3>3, <3>4 DEF DonateOK, Known, SameKnown
  <2> QED  BY <2>2 DEF DonateOK
<1> QED  BY <1>1, <1>4, <1>5, <1>6, <1>7, <1>8 DEF Coro1

\* Who is not in the group can still be given points.
LEMMA ReceivesOther ==
    ASSUME Types, NEW group \in SUBSET Player, Within(group), NEW q \in Player \ group
    PROVE  Receives(q)
<1>1. Same(q)
  BY DEF Within
<1>2. SameKnown(q) /\ Points(q)' = Points(q) /\ Points(q) \in Int
  BY <1>1 DEF Same, SameKnown, Points, Types
<1> QED  BY <1>2 DEF Receives

\* What a step has to leave to the coroutines of a player that do not go on in it.
OwnSafe(p) ==
    \A t \in Task : task[t] # None /\ task[t].who = p /\ task'[t] = task[t] =>
        /\ task[t].kind # "prep"
        /\ task[t].kind = "donate" /\ Funds(p) => Funds(p)'
        /\ task[t].kind \in Payment =>
              \/ PaymentOK(task[t])'
              \/ /\ seat'[p] = seat[p] /\ paid'[p] = paid[p]
                 /\ \A s \in Server : Known(s, p) => obj'[s][p].deposit = obj[s][p].deposit
                 /\ task[t].kind = "pay" /\ task[t].pc = "lock" => due'[p] >= Cost

\* The coroutines of the group that do not go on.
LEMMA OwnCoroutines ==
    ASSUME Types, Types', CInv, NEW t \in Task, task[t] # None, task'[t] = task[t],
           NEW group \in SUBSET Player, Within(group), \A q \in group : Receives(q),
           task[t].who \in group, OwnSafe(task[t].who)
    PROVE  Coro1(t)'
<1> DEFINE p == task[t].who
           q == task[t].to
<1>1. /\ task[t] \in Coroutine /\ p \in Player /\ q \in Player \cup {None} 
      /\ task[t].srv \in Server \cup {None} /\ task[t].dest \in Server \cup {None}
      /\ PrepOK(task[t]) /\ ChatOK(task[t]) /\ PaymentOK(task[t]) /\ VoteOK(task[t]) /\ DonateOK(task[t])
  BY TaskIs
<1>2. SameKnown(p) /\ (q \in Player => Receives(q))
  BY <1>1, ReceivesOther DEF Receives
<1>3. PrepOK(task[t])'
  BY <1>1 DEF PrepOK, OwnSafe
<1>4. ChatOK(task[t])'
  BY <1>1, <1>2 DEF ChatOK, Receives, SameKnown, Known
<1>5. VoteOK(task[t])'
  BY <1>1 DEF VoteOK
<1>6. PaymentOK(task[t])'
  <2>1. CASE task[t].kind \in Payment /\ ~PaymentOK(task[t])'
    BY <1>1, <1>2, <2>1 DEF PaymentOK, OwnSafe, SameKnown, Known, At
  <2> QED  BY <1>1, <2>1 DEF PaymentOK
<1>7. DonateOK(task[t])'
  <2>1. CASE task[t].kind = "donate"
    <3>1. /\ q \in Player \ {p} /\ SameKnown(q) /\ (Points(q)' <= Points(q) \/ Found(q) # {})
          /\ Funds(p) => Funds(p)'
      BY <1>1, <1>2, <2>1 DEF DonateOK, OwnSafe, Receives, Donating
    <3>2. Found(p)' = Found(p) /\ Found(q)' = Found(q)
      BY <1>2, <3>1 DEF Found, Known, SameKnown
    <3>3. task[t].pc = "give" /\ task[t].dest = None => Points(q)' + Gift <= MaxPoints
      <4> HAVE task[t].pc = "give" /\ task[t].dest = None
      <4>1. Found(q) = {} /\ Points(q) + Gift <= MaxPoints
        BY <1>1, <2>1 DEF DonateOK
      <4>2. Points(q) \in Int /\ Points(q)' <= Points(q) /\ Points(q)' \in Int
        BY <3>1, <4>1 DEF Types, Points
      <4> QED  BY <4>1, <4>2, CreditAssumption
    <3> QED  BY <1>1, <1>2, <2>1, <3>1, <3>2, <3>3 DEF DonateOK, Known, SameKnown
  <2> QED  BY <2>1 DEF DonateOK
<1> QED  BY <1>1, <1>3, <1>4, <1>5, <1>6, <1>7 DEF Coro1

\* What a step may do to coroutines when it is about a player.
TasksOK(p) ==
    \A t \in Task : \/ task'[t] = task[t]
                    \/ /\ task[t] # None => task[t].who = p \/ task[t].kind \in Other
                       /\ task'[t] # None => task'[t].who = p \/ task'[t].kind \in Other
                       /\ Coro1(t)'

\* A step that is about a group of players.
LEMMA GroupStep ==
    ASSUME Types, Types', CInv, NEW group \in SUBSET Player, Within(group), Pairs',
           \A p \in group : Receives(p) /\ OwnSafe(p) /\ PlayerOK(p)',
           \A t \in Task : task'[t] = task[t] \/ Coro1(t)'
    PROVE  CInv'
<1>1. \A q \in Player : PlayerOK(q)'
  BY OtherPlayers
<1>2. ASSUME NEW t \in Task, task[t] # None, task'[t] = task[t]
      PROVE  Coro1(t)'
  <2>1. CASE task[t].who \in group
    BY <1>2, <2>1, OwnCoroutines
  <2>2. CASE task[t].who \notin group
    BY <1>2, <2>2, OtherCoroutines
  <2> QED  BY <2>1, <2>2
<1>3. \A t \in Task : Coro1(t)'
  BY <1>2 DEF Coro1
<1> QED  BY <1>1, <1>3 DEF CInv

\* A step that is about one player.
LEMMA PlayerStep ==
    ASSUME Types, Types', CInv, NEW p \in Player, \A q \in Player \ {p} : Same(q), Receives(p),
           TasksOK(p), OwnSafe(p), PlayerOK(p)', Pairs'
    PROVE  CInv'
<1>1. Within({p})
  BY DEF Within, TasksOK
<1> QED  BY <1>1, GroupStep DEF TasksOK

\* A step that only coroutines know of.
LEMMA QuietStep ==
    ASSUME Types, Types', CInv, UNCHANGED <<row, obj, seat, due, paid>>, Pairs',
           \A t \in Task : \/ task'[t] = task[t]
                           \/ /\ task[t] # None => task[t].kind \in Other
                              /\ task'[t] # None => task'[t].kind \in Other
                              /\ Coro1(t)'
    PROVE  CInv'
<1>1. \A q \in Player : Same(q)
  BY DEF Same
<1>2. Within({})
  BY <1>1 DEF Within
<1>3. \A q \in Player : PlayerOK(q)'
  BY <1>2, OtherPlayers
<1>4. ASSUME NEW t \in Task, task[t] # None, task'[t] = task[t]
      PROVE  Coro1(t)'
  BY <1>2, <1>4, OtherCoroutines
<1>5. \A t \in Task : Coro1(t)'
  BY <1>4 DEF Coro1
<1> QED  BY <1>3, <1>5 DEF CInv

\* A donor keeps what he needs when he loses no points and no payment begins.
LEMMA FundsKept ==
    ASSUME Types, Types', NEW p \in Player, due'[p] >= due[p],
           \A u \in Task : Is(u, "pay", "lock")' /\ task'[u].who = p => Is(u, "pay", "lock") /\ task[u].who = p
    PROVE  Funds(p) => Funds(p)'
<1>1. due[p] \in Nat /\ due'[p] \in Nat /\ {Gift, Cost} \subseteq Nat
  BY CreditAssumption DEF Types
<1> QED  BY <1>1 DEF Funds

\* Pairs of coroutines, when one of them begins, goes on or ends.
LEMMA PairsKept ==
    ASSUME Types, Types', CInv, NEW t \in Task, \A u \in Task \ {t} : task'[u] = task[u],
           task'[t] # None => \A u \in Task \ {t} : task[u] # None =>
                                 Apart(task'[t], task[u]) /\ Apart(task[u], task'[t])
    PROVE  Pairs'
BY DEF CInv, Pairs

\* The same coroutines as before.
LEMMA PairsSame ==
    ASSUME CInv, task' = task
    PROVE  Pairs'
BY DEF CInv, Pairs

\* What a change of points does.
LEMMA Credited ==
    ASSUME Types, CInv, NEW s \in Server, NEW p \in Player, Known(s, p), NEW n \in Int, NEW d \in Nat,
           SetPoints(s, p, Value(s, p) + n, d), Owes(p, n)
    PROVE  /\ due'[p] = Clip(due[p] + n) /\ due'[p] \in 0..MaxPoints
           /\ Points(p)' = due'[p] /\ row'[p] \in {None} \cup Int
           /\ obj'[s][p] \in Account /\ obj'[s][p].points = due'[p] /\ obj'[s][p].deposit = d
           /\ \A q \in Player \ {p} : row'[q] = row[q] /\ due'[q] = due[q]
           /\ \A q \in Player \ {p}, r \in Server : obj'[r][q] = obj[r][q]
           /\ \A q \in Player : SameKnown(q)
           /\ \A r \in Server \ {s} : obj'[r][p] = None /\ obj[r][p] = None
<1>1. Value(s, p) = due[p] /\ due[p] \in 0..MaxPoints /\ Points(p) = due[p] /\ MaxPoints \in Nat
  BY ValueIs, CreditAssumption
<1>2. due'[p] = Clip(due[p] + n) /\ due'[p] \in 0..MaxPoints /\ \A q \in Player \ {p} : due'[q] = due[q]
  BY <1>1, ClipType DEF Owes, Types
<1>3. [points |-> Clip(due[p] + n), deposit |-> d] \in Account
  BY <1>1, ClipType DEF Account
<1>4. PICK a \in Account : a = [points |-> Clip(due[p] + n), deposit |-> d]
  BY <1>3
<1>5. a.points = due'[p] /\ a.deposit = d /\ a # None
  BY <1>2, <1>4, CreditAssumption
<1>6. obj' = [obj EXCEPT ![s][p] = a]
  BY <1>1, <1>4 DEF SetPoints
<1>7. \A r \in Server \ {s} : obj[r][p] = None
  BY DEF CInv, PlayerOK, Object, Known
<1>8. Points(p)' = due'[p] /\ row'[p] \in {None} \cup Int /\ \A q \in Player \ {p} : row'[q] = row[q]
  <2>1. CASE due[p] + n = due[p]
    BY <1>1, <1>2, <2>1 DEF SetPoints, Points, Clip, Types
  <2>2. CASE due[p] + n # due[p]
    <3>1. row' = [row EXCEPT ![p] = due'[p]]
      BY <1>1, <1>2, <2>2 DEF SetPoints
    <3>2. due'[p] # None /\ due'[p] \in Int
      BY <1>1, <1>2, CreditAssumption
    <3> QED  BY <3>1, <3>2 DEF Points, Types
  <2> QED  BY <2>1, <2>2
<1>9. /\ obj'[s][p] = a /\ \A r \in Server \ {s} : obj'[r][p] = obj[r][p]
      /\ \A q \in Player \ {p}, r \in Server : obj'[r][q] = obj[r][q]
  BY <1>6 DEF Types
<1>10. \A q \in Player : SameKnown(q)
  BY <1>5, <1>9 DEF SameKnown, Known
<1> QED  BY <1>2, <1>5, <1>7, <1>8, <1>9, <1>10

\* When the object of a player is not being read.
LEMMA NotJoining ==
    ASSUME Types, CInv, NEW p \in Player,
           \/ seat[p] # None /\ Idle(seat[p].srv)
           \/ Found(p) = {}
           \/ Regular /\ Settled(p)
           \/ Paying(p)
           \/ \E t \in Task : Donating(t) /\ task[t].pc # "asked" /\ p \in {task[t].who, task[t].to}
           \/ \E t \in Task : task[t] # None /\ task[t].kind = "chat" /\ task[t].to = p
    PROVE  ~Joining(p)
<1> SUFFICES ASSUME NEW u \in Task, task[u] # None, task[u].kind = "prep", task[u].who = p
             PROVE  FALSE
  BY DEF Joining
<1>1. /\ task[u].srv \in Server /\ Known(task[u].srv, p) /\ seat[p] # None
      /\ \A r \in Server : Known(r, p) => r = task[u].srv
      /\ task[u].srv = seat[p].srv
  <2>1. task[u].srv \in Server /\ Known(task[u].srv, p) /\ seat[p] # None
    BY TaskIs DEF PrepOK
  <2>2. Object(task[u].srv, p)
    BY <2>1 DEF CInv, PlayerOK
  <2> QED  BY <2>1, <2>2 DEF Object
<1>2. \A t \in Task : t # u /\ task[t] # None => Apart(task[t], task[u]) /\ Apart(task[u], task[t])
  BY DEF CInv, Pairs
<1>3. CASE seat[p] # None /\ Idle(seat[p].srv)
  BY <1>1, <1>3 DEF Idle
<1>4. CASE Found(p) = {}
  BY <1>1, <1>4 DEF Found
<1>5. CASE Regular /\ Settled(p)
  BY <1>5 DEF Regular, Settled, Joining
<1>6. CASE Paying(p)
  BY <1>2, <1>6 DEF Paying, Apart, Payment
<1>7. CASE \E t \in Task : Donating(t) /\ task[t].pc # "asked" /\ p \in {task[t].who, task[t].to}
  BY <1>2, <1>7 DEF Donating, Apart
<1>8. ASSUME NEW t \in Task, task[t] # None, task[t].kind = "chat", task[t].to = p
      PROVE  FALSE
  <2>1. task[t].srv \in Server /\ Known(task[t].srv, p)
    BY <1>8, TaskIs DEF ChatOK
  <2> QED  BY <1>1, <1>2, <1>8, <2>1 DEF Apart, Handler
<1> QED  BY <1>3, <1>4, <1>5, <1>6, <1>7, <1>8

\* No payment of a player is on its way.
LEMMA NotPaying ==
    ASSUME Types, CInv, NEW p \in Player, (Regular /\ Calm(p)) \/ Found(p) = {}
    PROVE  ~Paying(p)
BY TaskIs DEF Regular, Calm, Paying, PaymentOK, Found

\* Two coroutines at a time.
LEMMA Pair ==
    ASSUME CInv, NEW t \in Task, NEW u \in Task, t # u, task[t] # None, task[u] # None
    PROVE  Apart(task[t], task[u]) /\ Apart(task[u], task[t])
BY DEF CInv, Pairs

\* The books of a player whose points change.
LEMMA CreditedBooks ==
    ASSUME Types, CInv, NEW s \in Server, NEW p \in Player, Known(s, p), NEW n \in Int, NEW d \in Nat,
           SetPoints(s, p, Value(s, p) + n, d), Owes(p, n), paid'[p] \in Nat, seat'[p] = seat[p]
    PROVE  Books(p)' /\ \A r \in Server : Object(r, p)'
<1>1. /\ due'[p] \in 0..MaxPoints /\ Points(p)' = due'[p] /\ row'[p] \in {None} \cup Int
      /\ obj'[s][p] \in Account /\ obj'[s][p].points = due'[p]
      /\ \A r \in Server \ {s} : obj'[r][p] = None /\ obj[r][p] = None
  BY Credited
<1>2. seat[p] # None => seat[p] \in Seat /\ seat[p].srv = s
  BY DEF CInv, PlayerOK, Books, Object
<1>3. Books(p)'
  BY <1>1, <1>2, CreditAssumption DEF Books, Known
<1>4. \A r \in Server : Object(r, p)'
  BY <1>1, <1>2 DEF Object, Known
<1> QED  BY <1>3, <1>4

\* The points of one player change, and coroutines begin, go on or end.
LEMMA CreditedStep ==
    ASSUME Types, Types', CInv, NEW s \in Server, NEW p \in Player, Known(s, p),
           NEW n \in Int, NEW d \in Nat,
           SetPoints(s, p, Value(s, p) + n, d), Owes(p, n), seat' = seat,
           \A q \in Player \ {p} : paid'[q] = paid[q],
           TasksOK(p), OwnSafe(p), Pairs', Flight(p)'
    PROVE  CInv'
<1>1. /\ \A q \in Player : SameKnown(q)
      /\ \A q \in Player \ {p} : row'[q] = row[q] /\ due'[q] = due[q]
      /\ \A q \in Player \ {p}, r \in Server : obj'[r][q] = obj[r][q]
  BY Credited
<1>2. Books(p)' /\ \A r \in Server : Object(r, p)'
  BY CreditedBooks DEF Types
<1>3. PlayerOK(p)'
  BY <1>2 DEF PlayerOK
<1>4. \A q \in Player \ {p} : Same(q)
  BY <1>1 DEF Same
<1>5. Receives(p)
  BY <1>1 DEF Receives, Found
<1> QED  BY <1>3, <1>4, <1>5, PlayerStep

\* Points are taken for a vote or a punishment.
LEMMA ChargedStep ==
    ASSUME Types, Types', CInv, NEW s \in Server, NEW p \in Player, Known(s, p), ~Joining(p),
           Adds(s, p, -Gift), Owes(p, -Gift), UNCHANGED <<seat, paid>>,
           TasksOK(p), Pairs', Paying(p)' = Paying(p),
           \A t \in Task : task[t] # None /\ task[t].who = p /\ task'[t] = task[t] =>
               /\ task[t].kind # "donate"
               /\ task[t].kind = "pay" /\ task[t].pc = "lock" => Value(s, p) - Gift >= Cost
    PROVE  CInv'
<1> DEFINE d == obj[s][p].deposit
<1>1. d \in Nat /\ Value(s, p) = due[p] /\ due[p] \in 0..MaxPoints /\ -Gift \in Int
      /\ Gift \in Nat /\ Cost \in Nat /\ MaxPoints \in Nat
  BY ValueIs, ValueType, CreditAssumption
<1>2. SetPoints(s, p, Value(s, p) + (-Gift), d)
  BY DEF Adds
<1>3. /\ due'[p] = Clip(due[p] + (-Gift)) /\ due'[p] \in 0..MaxPoints
      /\ obj'[s][p].deposit = d
      /\ \A r \in Server \ {s} : obj'[r][p] = None /\ obj[r][p] = None
  BY <1>1, <1>2, Credited
<1>4. Flight(p)'
  <2>1. Flight(p) /\ Known(s, p)
    BY DEF CInv, PlayerOK
  <2> QED  BY <1>3, <2>1 DEF Flight, At, Known
<1>5. \A t \in Task : Is(t, "pay", "lock") /\ task[t].who = p /\ task'[t] = task[t] => due'[p] >= Cost
  BY <1>1, <1>3 DEF Clip, Is
<1>6. OwnSafe(p)
  BY <1>3, <1>5 DEF OwnSafe, Is, Known, Joining
<1>7. seat' = seat /\ \A q \in Player \ {p} : paid'[q] = paid[q]
  OBVIOUS
<1> HIDE DEF d
<1> QED  BY <1>1, <1>2, <1>4, <1>6, <1>7, CreditedStep

\* The server a player is on is the one that knows him.
LEMMA SeatKnown ==
    ASSUME Types, CInv, NEW p \in Player
    PROVE  /\ seat[p] # None => seat[p].srv \in Server /\ Known(seat[p].srv, p) /\ seat[p] \in Seat
           /\ \A s \in Server : Known(s, p) => obj[s][p] \in Account /\ \A r \in Server : Known(r, p) => r = s
           /\ \A s \in Server : Known(s, p) /\ seat[p] # None => s = seat[p].srv
<1>1. Books(p) /\ \A s \in Server : Object(s, p)
  BY DEF CInv, PlayerOK
<1>2. seat[p] # None => seat[p].srv \in Server /\ Known(seat[p].srv, p) /\ seat[p] \in Seat
  BY <1>1 DEF Books, Seat
<1> QED  BY <1>1, <1>2 DEF Object

\* -vote and the punishment "credits": who pays has not promised the points.
LEMMA ChargeStep ==
    ASSUME Types, Types', CInv, Regular, NEW p \in Player, ChatVote(p) \/ Punish(p)
    PROVE  CInv'
<1>1. \A t \in Task : task[t] # None /\ task[t].who = p => task[t].kind # "donate"
  BY DEF ChatVote, Punish, Keeps, Regular, Donating
<1>2. ASSUME NEW t \in Task, Is(t, "pay", "lock"), task[t].who = p
      PROVE  seat[p] # None
  BY <1>2, TaskIs DEF PaymentOK, Is, Payment
<1>3. ASSUME seat[p] # None, Spares(p, Gift)
      PROVE  \A t \in Task : Is(t, "pay", "lock") /\ task[t].who = p => Value(seat[p].srv, p) - Gift >= Cost
  BY <1>3 DEF Spares, Regular
<1>4. TasksOK(p) /\ Pairs' /\ Paying(p)' = Paying(p) /\ UNCHANGED <<seat, paid>>
  BY PairsSame DEF ChatVote, Punish, TasksOK, coroutines, Paying
<1>5. CASE ChatVote(p)
  <2>1. seat[p] # None /\ seat[p].srv \in Server /\ Known(seat[p].srv, p)
    BY <1>5, SeatKnown DEF ChatVote
  <2>2. ~Joining(p)
    BY <1>5, NotJoining DEF ChatVote
  <2> QED  BY <1>1, <1>3, <1>4, <1>5, <2>1, <2>2, ChargedStep DEF ChatVote, Is
<1>6. CASE Punish(p)
  <2>1. PICK s \in Server : /\ Known(s, p) /\ Adds(s, p, -Gift) /\ Owes(p, -Gift)
                            /\ seat[p] # None => Spares(p, Gift)
    BY <1>6 DEF Punish, Found
  <2>2. ~Joining(p)
    BY <1>6, NotJoining DEF Punish
  <2>3. \A t \in Task : Is(t, "pay", "lock") /\ task[t].who = p => Value(s, p) - Gift >= Cost
    <3>1. seat[p] # None => s = seat[p].srv
      BY <2>1, SeatKnown
    <3> QED  BY <1>2, <1>3, <2>1, <3>1
  <2> QED  BY <1>1, <1>4, <1>6, <2>1, <2>2, <2>3, ChargedStep DEF Punish, Is
<1> QED  BY <1>5, <1>6

\* Kills and the points of a mission: in the air they are added to the deposit, too.
LEMMA EarnsStep ==
    ASSUME Types, Types', CInv, Regular, NEW p \in Player, Earns(p)
    PROVE  CInv'
<1> DEFINE s == seat[p].srv
           d == Deposit(s, p) + Kill
<1>1. At(p, {"air"}) /\ seat[p] # None /\ s \in Server /\ Known(s, p)
  BY SeatKnown DEF Earns, Regular, At
<1>2. d \in Nat /\ due[p] \in 0..MaxPoints /\ {Kill, Cost, MaxPoints} \subseteq Nat /\ obj[s][p].deposit \in Nat
      /\ paid[p] \in Nat
  BY <1>1, ValueIs, ValueType, CreditAssumption DEF Deposit, Types
<1>3. /\ SetPoints(s, p, Value(s, p) + Kill, d) /\ Owes(p, Kill)
      /\ paid' = IF Payback THEN [paid EXCEPT ![p] = @ + Kill] ELSE paid
      /\ UNCHANGED <<seat, task>>
  BY <1>1 DEF Earns, coroutines
<1>4. ~Joining(p) /\ ~Paying(p)
  BY <1>1, NotJoining, NotPaying DEF Earns, Event
<1> HIDE DEF s, d
<1>5. /\ due'[p] = Clip(due[p] + Kill) /\ obj'[s][p].deposit = d
      /\ \A r \in Server \ {s} : obj'[r][p] = None /\ obj[r][p] = None
  BY <1>1, <1>2, <1>3, Credited
<1>6. due'[p] >= due[p]
  BY <1>2, <1>5 DEF Clip
<1>7. Flight(p)'
  <2>1. CASE Payback
    <3>1. paid'[p] = paid[p] + Kill
      BY <1>3, <2>1 DEF Types
    <3>2. paid[p] >= Cost /\ Cost <= MaxPoints /\ obj[s][p].deposit = paid[p]
      BY <1>1, <1>4, <2>1 DEF CInv, PlayerOK, Flight
    <3>3. At(p, {"air"})'
      BY <1>1, <1>3 DEF At
    <3>4. obj'[s][p].deposit = paid'[p] /\ paid'[p] >= Cost
      BY <1>2, <1>5, <3>1, <3>2 DEF d, s, Deposit
    <3> QED  BY <1>5, <3>2, <3>3, <3>4 DEF Flight, Known
  <2> QED  BY <2>1 DEF Flight
<1>8. \A t \in Task : task[t] # None /\ task[t].who = p => task[t].kind \notin Payment
  BY <1>4 DEF Paying
<1>9. \A q \in Player \ {p} : paid'[q] = paid[q]
  BY <1>3 DEF Types
<1>10. Pairs'
  BY <1>3, PairsSame
<1>11. Funds(p) => Funds(p)'
  BY <1>3, <1>6, FundsKept DEF Is
<1>12. OwnSafe(p)
  BY <1>4, <1>8, <1>11 DEF OwnSafe, Joining, Payment
<1>13. TasksOK(p) /\ Kill \in Int
  BY <1>2, <1>3 DEF TasksOK
<1> QED  BY <1>1, <1>2, <1>3, <1>7, <1>9, <1>10, <1>12, <1>13, CreditedStep

\* -donate and -tip: who is checked has the points, and loses as many as are given.
LEMMA ChatDonateStep ==
    ASSUME Types, Types', CInv, Regular, NEW p \in Player, NEW q \in Player, ChatDonate(p, q)
    PROVE  CInv'
<1> DEFINE s == seat[p].srv
<1>1. seat[p] # None /\ s \in Server /\ Known(s, p) /\ Known(s, q)
  BY SeatKnown DEF ChatDonate
<1>2. Value(s, p) = due[p] /\ due[p] \in 0..MaxPoints /\ Gift \in Nat /\ MaxPoints \in Nat /\ Value(s, p) >= Gift
  BY <1>1, ValueIs, CreditAssumption DEF ChatDonate, Affords, Regular
<1>3. ~Joining(p) /\ \A t \in Task : task[t] # None /\ task[t].who = p => task[t].kind # "donate"
  BY <1>1, NotJoining DEF ChatDonate, Keeps, Regular, Donating
<1>4. /\ Adds(s, p, -Gift) /\ Owes(p, -Gift) /\ UNCHANGED <<seat, paid>> /\ p # q /\ Idle(s)
      /\ Spares(p, Gift)
  BY DEF ChatDonate
<1>5. PICK t \in Task : Free(t) /\ Becomes(t, [Coro("chat", "give", p, s) EXCEPT !.to = q,
                                                 !.taken = Value(s, p) - Clip(Value(s, p) - Gift)])
  BY DEF ChatDonate
<1>6. Value(s, p) - Clip(Value(s, p) - Gift) = Gift
  BY <1>2 DEF Clip
<1>7. [Coro("chat", "give", p, s) EXCEPT !.to = q, !.taken = Gift] \in Coroutine
  BY <1>1, <1>2, GiftType
<1>8. PICK c \in Coroutine : c = [Coro("chat", "give", p, s) EXCEPT !.to = q, !.taken = Gift]
  BY <1>7
<1>9. c.kind = "chat" /\ c.pc = "give" /\ c.who = p /\ c.to = q /\ c.srv = s /\ c.taken = Gift
  BY <1>8 DEF Coro
<1> HIDE DEF s
<1>10. task[t] = None /\ task'[t] = c /\ \A u \in Task \ {t} : task'[u] = task[u]
  BY <1>5, <1>6, <1>8 DEF Free, Becomes, Types
<1>11. \A r \in Player : SameKnown(r)
  <2>1. -Gift \in Int /\ obj[s][p].deposit \in Nat /\ SetPoints(s, p, Value(s, p) + (-Gift), obj[s][p].deposit)
    BY <1>1, <1>2, <1>4, ValueType DEF Adds
  <2> QED  BY <1>1, <1>4, <2>1, Credited
<1>12. Coro1(t)'
  <2>1. PrepOK(c)' /\ PaymentOK(c)' /\ VoteOK(c)' /\ DonateOK(c)'
    BY <1>9 DEF PrepOK, PaymentOK, VoteOK, DonateOK, Payment
  <2>2. ChatOK(c)'
    BY <1>1, <1>9, <1>11 DEF ChatOK, Known, SameKnown
  <2> QED  BY <1>10, <2>1, <2>2 DEF Coro1, PrepOK, PaymentOK, VoteOK, DonateOK, ChatOK
<1>13. Pairs'
  <2>1. \A u \in Task \ {t} : task[u] # None => Apart(c, task[u]) /\ Apart(task[u], c)
    BY <1>4, <1>9 DEF Apart, Handler, Idle, Payment
  <2> QED  BY <1>10, <2>1, PairsKept
<1>14. TasksOK(p)
  BY <1>9, <1>10, <1>12 DEF TasksOK, Other
<1>15. Paying(p)' = Paying(p)
  <2>1. \A u \in Task : task'[u] = task[u] \/ (u = t /\ task[u] = None /\ task'[u].kind \notin Payment)
    BY <1>9, <1>10 DEF Payment
  <2> QED  BY <2>1, CreditAssumption DEF Paying
<1>16. \A u \in Task : Is(u, "pay", "lock") /\ task[u].who = p => Value(s, p) - Gift >= Cost
  BY <1>4 DEF Spares, Regular, s
<1> QED  BY <1>1, <1>3, <1>4, <1>13, <1>14, <1>15, <1>16, ChargedStep DEF Is

\* A coroutine that has ended.
LEMMA Ended ==
    ASSUME Types, Types', CInv, NEW t \in Task, Ends(t)
    PROVE  /\ task'[t] = None /\ \A u \in Task \ {t} : task'[u] = task[u]
           /\ Pairs' /\ Coro1(t)'
<1>1. task'[t] = None /\ \A u \in Task \ {t} : task'[u] = task[u]
  BY DEF Ends, Types
<1> QED  BY <1>1, PairsKept DEF Coro1

\* The receiver of a gift in the chat gets it.
LEMMA ChatGivesStep ==
    ASSUME Types, Types', CInv, NEW t \in Task, ChatGives(t)
    PROVE  CInv'
<1>1. PICK q \in Player, s \in Server :
           task[t] # None /\ task[t].kind = "chat" /\ task[t].to = q /\ task[t].srv = s /\ Known(s, q)
  BY TaskIs DEF ChatGives, Is, ChatOK
<1> DEFINE d == obj[s][q].deposit
<1>2. /\ SetPoints(s, q, Value(s, q) + Gift, d) /\ Owes(q, Gift) /\ Ends(t) /\ UNCHANGED <<seat, paid>>
  BY <1>1 DEF ChatGives, Adds
<1>3. d \in Nat /\ due[q] \in 0..MaxPoints /\ Gift \in Nat /\ Gift \in Int /\ MaxPoints \in Nat
  BY <1>1, ValueIs, ValueType, CreditAssumption
<1>4. ~Joining(q)
  BY <1>1, NotJoining
<1> HIDE DEF d
<1>5. /\ due'[q] = Clip(due[q] + Gift) /\ obj'[s][q].deposit = d
      /\ \A r \in Server \ {s} : obj'[r][q] = None /\ obj[r][q] = None
  BY <1>1, <1>2, <1>3, Credited
<1>6. due'[q] >= due[q]
  BY <1>3, <1>5 DEF Clip
<1>7. /\ task'[t] = None /\ \A u \in Task \ {t} : task'[u] = task[u]
      /\ Pairs' /\ Coro1(t)'
  BY <1>2, Ended
<1>8. TasksOK(q)
  BY <1>1, <1>7 DEF TasksOK, Other
<1>9. Paying(q)' = Paying(q)
  <2>1. \A u \in Task : task'[u] = task[u] \/ (u = t /\ task[u].kind \notin Payment /\ task'[u] = None)
    BY <1>1, <1>7 DEF Payment
  <2> QED  BY <2>1 DEF Paying
<1>10. Flight(q)'
  <2>1. Flight(q)
    BY <1>1 DEF CInv, PlayerOK
  <2> QED  BY <1>1, <1>2, <1>5, <1>9, <2>1 DEF Flight, At, Known, d
<1>11. Funds(q) => Funds(q)'
  BY <1>1, <1>6, <1>7, FundsKept DEF Is
<1>12. \A u \in Task : Is(u, "pay", "lock") /\ task[u].who = q => due'[q] >= Cost
  <2>1. \A u \in Task : Is(u, "pay", "lock") /\ task[u].who = q => due[q] >= Cost
    BY TaskIs DEF PaymentOK, Is, Payment
  <2> QED  BY <1>3, <1>5, <2>1, CreditAssumption DEF Clip
<1>13. OwnSafe(q)
  BY <1>2, <1>4, <1>5, <1>11, <1>12 DEF OwnSafe, Joining, Is, Known, d
<1>14. \A r \in Player \ {q} : paid'[r] = paid[r]
  BY <1>2
<1> QED  BY <1>1, <1>2, <1>3, <1>7, <1>8, <1>10, <1>13, <1>14, CreditedStep

\* A coroutine begins or goes on as c.
LEMMA Becoming ==
    ASSUME Types, Types', CInv, NEW t \in Task, NEW c \in Coroutine, Becomes(t, c),
           \A u \in Task \ {t} : task[u] # None => Apart(c, task[u]) /\ Apart(task[u], c),
           PrepOK(c)', ChatOK(c)', PaymentOK(c)', VoteOK(c)', DonateOK(c)'
    PROVE  /\ task'[t] = c /\ c # None /\ \A u \in Task \ {t} : task'[u] = task[u]
           /\ Pairs' /\ Coro1(t)'
<1>1. task'[t] = c /\ c # None /\ \A u \in Task \ {t} : task'[u] = task[u]
  BY CreditAssumption DEF Becomes, Types
<1>2. Pairs'
  BY <1>1, PairsKept
<1>3. Coro1(t)'
  BY <1>1 DEF Coro1, PrepOK, ChatOK, PaymentOK, VoteOK, DonateOK
<1> QED  BY <1>1, <1>2, <1>3

\* /vote create: who asks has the points.
LEMMA VoteAskStep ==
    ASSUME Types, Types', CInv, NEW p \in Player, VoteAsk(p)
    PROVE  CInv'
<1>1. PICK t \in Task : task[t] = None /\ Becomes(t, [Coro("vote", "asked", p, None) EXCEPT !.read = Points(p)])
  BY DEF VoteAsk, Free
<1>2. Points(p) \in Int /\ Points(p) >= Gift /\ UNCHANGED <<row, obj, seat, due, paid>>
  BY DEF VoteAsk, Affords, Types, Points, history
<1>3. [Coro("vote", "asked", p, None) EXCEPT !.read = Points(p)] \in Coroutine
  BY <1>2 DEF Coro, Coroutine
<1>4. PICK c \in Coroutine : c = [Coro("vote", "asked", p, None) EXCEPT !.read = Points(p)]
  BY <1>3
<1>5. c.kind = "vote" /\ c.pc = "asked" /\ c.read = Points(p)
  BY <1>4 DEF Coro
<1>6. PrepOK(c)' /\ ChatOK(c)' /\ PaymentOK(c)' /\ DonateOK(c)' /\ VoteOK(c)'
  BY <1>2, <1>5 DEF PrepOK, ChatOK, PaymentOK, DonateOK, VoteOK, Payment
<1>7. \A u \in Task \ {t} : task[u] # None => Apart(c, task[u]) /\ Apart(task[u], c)
  BY <1>5 DEF Apart, Handler, Payment
<1>8. task'[t] = c /\ (\A u \in Task \ {t} : task'[u] = task[u]) /\ Pairs' /\ Coro1(t)'
  BY <1>1, <1>4, <1>6, <1>7, Becoming
<1> QED  BY <1>1, <1>2, <1>5, <1>8, QuietStep DEF Other

\* /credits donate: who asks has the points and will not need them for a plane.
LEMMA DonateAskStep ==
    ASSUME Types, Types', CInv, Regular, NEW p \in Player, NEW q \in Player, DonateAsk(p, q)
    PROVE  CInv'
<1> DEFINE e == [Coro("donate", "asked", p, None) EXCEPT !.to = q, !.read = Points(p)]
<1>1. PICK t \in Task : task[t] = None /\ Becomes(t, e)
  BY DEF DonateAsk, Free
<1>2. /\ Points(p) \in Int /\ Points(p) >= Gift /\ p # q /\ UNCHANGED <<row, obj, seat, due, paid>>
      /\ Points(p) = due[p] /\ due[p] \in Nat
      /\ \A u \in Task : Donating(u) => task[u].who # p /\ task[u].to # q
  BY DEF DonateAsk, Affords, Types, Points, history, Keeps, Regular, CInv, PlayerOK, Books
<1>3. [Coro("donate", "asked", p, None) EXCEPT !.to = q, !.read = Points(p)] \in Coroutine
  BY <1>2 DEF Coro, Coroutine
<1>4. PICK c \in Coroutine : c = e
  BY <1>3
<1>5. c.kind = "donate" /\ c.pc = "asked" /\ c.who = p /\ c.to = q
  BY <1>4 DEF Coro
<1> HIDE DEF e
<1>6. Funds(p)
  <2>1. ASSUME NEW u \in Task, Is(u, "pay", "lock"), task[u].who = p
        PROVE  due[p] >= Gift + Cost
    <3>1. seat[p] # None
      BY <2>1, TaskIs DEF PaymentOK, Is, Payment
    <3>2. Value(seat[p].srv, p) = due[p]
      BY <3>1, SeatKnown, ValueIs
    <3>3. due[p] - Gift >= Cost
      BY <2>1, <3>1, <3>2 DEF DonateAsk, Spares, Regular
    <3>4. due[p] \in Nat /\ {Gift, Cost} \subseteq Nat
      BY <1>2, CreditAssumption
    <3> QED  BY <3>3, <3>4
  <2> QED  BY <1>2, <2>1 DEF Funds
<1>7. \A u \in Task \ {t} : task[u] # None => Apart(c, task[u]) /\ Apart(task[u], c)
  BY <1>2, <1>5 DEF Apart, Handler, Payment, Donating
<1>8. \A u \in Task \ {t} : task'[u] = task[u]
  BY <1>1, <1>4 DEF Becomes, Types
<1>9. Funds(p)'
  <2>1. \A u \in Task : Is(u, "pay", "lock")' => Is(u, "pay", "lock") /\ task'[u] = task[u]
    BY <1>1, <1>4, <1>5, <1>8 DEF Is, Becomes, Types
  <2> QED  BY <1>2, <1>6, <2>1 DEF Funds
<1>10. PrepOK(c)' /\ ChatOK(c)' /\ PaymentOK(c)' /\ DonateOK(c)' /\ VoteOK(c)'
  BY <1>2, <1>5, <1>9 DEF PrepOK, ChatOK, PaymentOK, DonateOK, VoteOK, Payment
<1>11. task'[t] = c /\ Pairs' /\ Coro1(t)'
  BY <1>1, <1>4, <1>7, <1>10, Becoming
<1> QED  BY <1>1, <1>2, <1>5, <1>8, <1>11, QuietStep DEF Other

\* The servers that know donor and receiver.
LEMMA DonateLookStep ==
    ASSUME Types, Types', CInv, Regular, NEW t \in Task, DonateLook(t)
    PROVE  CInv'
<1>1. /\ task[t] # None /\ task[t].kind = "donate" /\ task[t].pc = "asked" /\ task[t] \in Coroutine
      /\ task[t].who \in Player /\ DonateOK(task[t])
  BY TaskIs DEF DonateLook, Is
<1>2. PICK p \in Player, q \in Player : p = task[t].who /\ q = task[t].to /\ p # q
  BY <1>1 DEF DonateOK
<1>3. ~Joining(p) /\ ~Joining(q) /\ UNCHANGED <<row, obj, seat, due, paid>>
  BY <1>2, NotJoining DEF DonateLook, history
<1> DEFINE e == [task[t] EXCEPT !.pc = "look", !.srv = AnyOf(Found(p)), !.dest = AnyOf(Found(q))]
<1>4. Becomes(t, e)
  BY <1>2 DEF DonateLook
<1>5. ASSUME NEW r \in Player
      PROVE  /\ AnyOf(Found(r)) \in Server \cup {None}
             /\ AnyOf(Found(r)) = None => Found(r) = {}
             /\ AnyOf(Found(r)) # None => Known(AnyOf(Found(r)), r)
  BY CreditAssumption DEF AnyOf, Found
<1>6. e \in Coroutine
  <2>1. PICK a \in Coroutine : a = [task[t] EXCEPT !.pc = "look"]
    BY <1>1 DEF Coroutine
  <2>2. PICK b \in Coroutine : b = [a EXCEPT !.srv = AnyOf(Found(p))]
    BY <1>5, <2>1 DEF Coroutine
  <2>3. [b EXCEPT !.dest = AnyOf(Found(q))] \in Coroutine
    BY <1>5, <2>2 DEF Coroutine
  <2> QED  BY <2>1, <2>2, <2>3
<1>7. PICK c \in Coroutine : c = e
  BY <1>6
<1>8. /\ c.kind = "donate" /\ c.pc = "look" /\ c.who = p /\ c.to = q
      /\ c.srv = AnyOf(Found(p)) /\ c.dest = AnyOf(Found(q))
  BY <1>1, <1>2, <1>7 DEF Coroutine
<1>9. Becomes(t, c)
  BY <1>4, <1>7
<1> HIDE DEF e
<1>10. task'[t] = c /\ \A u \in Task \ {t} : task'[u] = task[u]
  BY <1>9 DEF Becomes, Types
<1>11. Funds(p)'
  <2>1. \A u \in Task : Is(u, "pay", "lock")' => Is(u, "pay", "lock") /\ task'[u] = task[u]
    BY <1>8, <1>10 DEF Is
  <2>2. Funds(p)
    BY <1>1, <1>2 DEF DonateOK
  <2> QED  BY <1>3, <2>1, <2>2 DEF Funds
<1>12. \A u \in Task \ {t} : task[u] # None => Apart(c, task[u]) /\ Apart(task[u], c)
  <2> TAKE u \in Task \ {t}
  <2> HAVE task[u] # None
  <2>1. Apart(task[t], task[u]) /\ Apart(task[u], task[t])
    BY <1>1, Pair
  <2> QED  BY <1>1, <1>2, <1>3, <1>8, <2>1 DEF Apart, Handler, Payment, Joining
<1>13. PrepOK(c)' /\ ChatOK(c)' /\ PaymentOK(c)' /\ VoteOK(c)'
  BY <1>8 DEF PrepOK, ChatOK, PaymentOK, VoteOK, Payment
<1>14. DonateOK(c)'
  <2>1. Found(p)' = Found(p) /\ Found(q)' = Found(q)
    BY <1>3 DEF Found, Known
  <2> QED  BY <1>2, <1>3, <1>5, <1>8, <1>11, <2>1 DEF DonateOK, Known
<1>15. Pairs' /\ Coro1(t)'
  BY <1>9, <1>12, <1>13, <1>14, Becoming
<1> QED  BY <1>1, <1>3, <1>8, <1>10, <1>15, QuietStep DEF Other

\* The donor loses the points, or is about to: the cap is checked in the same step.
LEMMA DonateTakesStep ==
    ASSUME Types, Types', CInv, NEW t \in Task, DonateTakes(t)
    PROVE  CInv'
<1>1. /\ task[t] # None /\ task[t].kind = "donate" /\ task[t].pc = "look" /\ task[t] \in Coroutine
      /\ DonateOK(task[t]) /\ task[t].srv \in Server \cup {None} /\ task[t].dest \in Server \cup {None}
  BY TaskIs DEF DonateTakes, Is
<1>2. PICK p \in Player, q \in Player, s \in Server \cup {None}, e \in Server \cup {None} :
           p = task[t].who /\ q = task[t].to /\ s = task[t].srv /\ e = task[t].dest /\ p # q
  BY <1>1, TaskIs DEF DonateOK
<1>3. /\ s = None => Found(p) = {}
      /\ s # None => s \in Server /\ Known(s, p)
      /\ e = None => Found(q) = {}
      /\ e # None => e \in Server /\ Known(e, q)
      /\ Funds(p)
  BY <1>1, <1>2 DEF DonateOK
<1>4. /\ due[p] \in 0..MaxPoints /\ Gift \in Nat /\ Cost \in Nat /\ MaxPoints \in Nat /\ due[p] >= Gift
      /\ s # None => Value(s, p) = due[p]
  BY <1>3, ValueIs, CreditAssumption DEF Types, Funds
<1>5. UNCHANGED <<seat, paid>>
  BY DEF DonateTakes
\* The coroutine that goes on.
<1> DEFINE g == [task[t] EXCEPT !.pc = "give", !.taken = Gift]
<1>6. /\ g \in Coroutine /\ g.kind = "donate" /\ g.pc = "give" /\ g.who = p /\ g.to = q
      /\ g.srv = s /\ g.dest = e /\ g.taken = Gift
  <2>1. PICK a \in Coroutine : a = [task[t] EXCEPT !.pc = "give"]
    BY <1>1 DEF Coroutine
  <2>2. [a EXCEPT !.taken = Gift] \in Coroutine
    BY <1>4 DEF Coroutine
  <2> QED  BY <1>1, <1>2, <2>1, <2>2 DEF Coroutine
<1>7. PICK c \in Coroutine : c = g
  BY <1>6
<1>8. /\ c.kind = "donate" /\ c.pc = "give" /\ c.who = p /\ c.to = q
      /\ c.srv = s /\ c.dest = e /\ c.taken = Gift
  BY <1>6, <1>7
<1>9. \/ Ends(t) /\ UNCHANGED <<row, obj, due>>
      \/ /\ e = None => Points(q) + Gift <= MaxPoints
         /\ Becomes(t, c)
         /\ \/ s = None /\ UNCHANGED <<row, obj, due>>
            \/ s # None /\ Adds(s, p, -Gift) /\ Owes(p, -Gift)
  <2>1. s # None => Value(s, p) - Clip(Value(s, p) - Gift) = Gift
    BY <1>4 DEF Clip
  <2>2. Points(q) \in Int
    BY DEF Types, Points
  <2> DEFINE has == IF e = None THEN Points(q) ELSE Value(e, q)
  <2>3. CASE has + Gift > MaxPoints
    BY <1>2, <2>3 DEF DonateTakes
  <2>4. CASE ~(has + Gift > MaxPoints) /\ s = None
    BY <1>2, <1>4, <1>7, <2>2, <2>4 DEF DonateTakes
  <2>5. CASE ~(has + Gift > MaxPoints) /\ s # None
    <3>1. /\ Becomes(t, [task[t] EXCEPT !.pc = "give", !.taken = Value(s, p) - Clip(Value(s, p) - Gift)])
          /\ Adds(s, p, -Gift) /\ Owes(p, -Gift)
      BY <1>2, <2>5 DEF DonateTakes
    <3>2. e = None => Points(q) + Gift <= MaxPoints
      BY <1>4, <2>2, <2>5
    <3> QED  BY <1>7, <2>1, <2>5, <3>1, <3>2
  <2> QED  BY <2>3, <2>4, <2>5
<1> HIDE DEF g
<1>10. PrepOK(c)' /\ ChatOK(c)' /\ PaymentOK(c)' /\ VoteOK(c)'
  BY <1>8 DEF PrepOK, ChatOK, PaymentOK, VoteOK, Payment
<1>11. \A u \in Task \ {t} : task[u] # None => Apart(c, task[u]) /\ Apart(task[u], c)
  <2> TAKE u \in Task \ {t}
  <2> HAVE task[u] # None
  <2>1. Apart(task[t], task[u]) /\ Apart(task[u], task[t])
    BY <1>1, Pair
  <2> QED  BY <1>1, <1>2, <1>8, <2>1 DEF Apart, Handler, Payment
<1>12. CASE Ends(t) /\ UNCHANGED <<row, obj, due>>
  <2>1. task'[t] = None /\ (\A u \in Task \ {t} : task'[u] = task[u]) /\ Pairs' /\ Coro1(t)'
    BY <1>12, Ended
  <2> QED  BY <1>1, <1>5, <1>12, <2>1, QuietStep DEF Other
<1>13. CASE Becomes(t, c) /\ s = None /\ UNCHANGED <<row, obj, due>> /\ (e = None => Points(q) + Gift <= MaxPoints)
  <2>1. task'[t] = c /\ \A u \in Task \ {t} : task'[u] = task[u]
    BY <1>13 DEF Becomes, Types
  <2>2. Funds(p)'
    <3>1. \A u \in Task : Is(u, "pay", "lock")' => Is(u, "pay", "lock") /\ task'[u] = task[u]
      BY <1>8, <2>1 DEF Is
    <3> QED  BY <1>3, <1>13, <3>1 DEF Funds
  <2>3. DonateOK(c)'
    <3>1. Found(p)' = Found(p) /\ Found(q)' = Found(q) /\ Points(q)' = Points(q)
      BY <1>13 DEF Found, Known, Points
    <3> QED  BY <1>2, <1>3, <1>8, <1>13, <2>2, <3>1 DEF DonateOK, Known
  <2>4. Pairs' /\ Coro1(t)'
    BY <1>10, <1>11, <1>13, <2>3, Becoming
  <2> QED  BY <1>1, <1>5, <1>8, <1>13, <2>1, <2>4, QuietStep DEF Other
<1>14. CASE /\ Becomes(t, c) /\ s # None /\ Adds(s, p, -Gift) /\ Owes(p, -Gift)
            /\ e = None => Points(q) + Gift <= MaxPoints
  <2>1. task'[t] = c /\ \A u \in Task \ {t} : task'[u] = task[u]
    BY <1>14 DEF Becomes, Types
  <2>2. /\ \A r \in Player : SameKnown(r)
        /\ \A r \in Player \ {p} : row'[r] = row[r]
    <3>1. -Gift \in Int /\ obj[s][p].deposit \in Nat /\ SetPoints(s, p, Value(s, p) + (-Gift), obj[s][p].deposit)
      BY <1>3, <1>4, <1>14, ValueType DEF Adds
    <3> QED  BY <1>3, <1>14, <3>1, Credited
  <2>3. DonateOK(c)'
    <3>1. Found(p)' = Found(p) /\ Found(q)' = Found(q) /\ Points(q)' = Points(q)
      BY <1>2, <2>2 DEF Found, Known, Points, SameKnown
    <3>2. (s # None => Known(s, p)') /\ (e # None => Known(e, q)')
      BY <1>3, <2>2 DEF Known, SameKnown
    <3> QED  BY <1>2, <1>3, <1>8, <1>14, <3>1, <3>2 DEF DonateOK
  <2>4. Pairs' /\ Coro1(t)'
    BY <1>10, <1>11, <1>14, <2>3, Becoming
  <2>5. TasksOK(p)
    BY <1>1, <1>2, <1>8, <2>1, <2>4 DEF TasksOK, Other
  <2>6. ~Joining(p)
    BY <1>1, <1>2, NotJoining DEF Donating
  <2>7. Paying(p)' = Paying(p)
    <3>1. \A u \in Task : task'[u] = task[u] \/ (u = t /\ task[u].kind \notin Payment /\ task'[u].kind \notin Payment)
      BY <1>1, <1>8, <2>1 DEF Payment
    <3> QED  BY <3>1 DEF Paying
  <2>8. ASSUME NEW u \in Task, task[u] # None, task[u].who = p, task'[u] = task[u]
        PROVE  /\ task[u].kind # "donate"
               /\ task[u].kind = "pay" /\ task[u].pc = "lock" => Value(s, p) - Gift >= Cost
    <3>1. u # t
      BY <1>1, <1>8, <2>1, <2>8
    <3>2. Apart(task[t], task[u])
      BY <1>1, <2>8, <3>1, Pair
    <3>3. task[u].kind = "pay" /\ task[u].pc = "lock" => due[p] >= Gift + Cost
      BY <1>3, <2>8 DEF Funds, Is
    <3> QED  BY <1>1, <1>2, <1>4, <1>14, <2>8, <3>2, <3>3 DEF Apart
  <2> QED  BY <1>3, <1>5, <1>14, <2>4, <2>5, <2>6, <2>7, <2>8, ChargedStep
<1> QED  BY <1>9, <1>12, <1>13, <1>14

\* The object of a player has another deposit, or the same.
NewDeposit(s, p) ==
    /\ \A q \in Player \ {p}, r \in Server : obj'[r][q] = obj[r][q]
    /\ \A r \in Server \ {s} : obj'[r][p] = obj[r][p]
    /\ obj'[s][p] \in Account /\ obj'[s][p].points = obj[s][p].points

\* What noting a deposit changes.
LEMMA Deposits ==
    ASSUME Types, NEW s \in Server, NEW p \in Player, Known(s, p)
    PROVE  /\ obj' = obj => NewDeposit(s, p)
           /\ \A n \in Nat : obj' = [obj EXCEPT ![s][p].deposit = n] =>
                                 NewDeposit(s, p) /\ obj'[s][p].deposit = n
<1>1. obj[s][p] \in Account
  BY ValueType
<1>2. ASSUME NEW n \in Nat, obj' = [obj EXCEPT ![s][p].deposit = n]
      PROVE  NewDeposit(s, p) /\ obj'[s][p].deposit = n
  <2>1. PICK a \in Account : a = [obj[s][p] EXCEPT !.deposit = n]
    BY <1>1 DEF Account
  <2>2. obj' = [obj EXCEPT ![s][p] = a]
    BY <1>2, <2>1
  <2>3. a.points = obj[s][p].points /\ a.deposit = n
    BY <1>1, <2>1 DEF Account
  <2>4. obj'[s][p] = a
    BY <2>2 DEF Types
  <2>5. /\ \A q \in Player \ {p}, r \in Server : obj'[r][q] = obj[r][q]
        /\ \A r \in Server \ {s} : obj'[r][p] = obj[r][p]
    BY <2>2 DEF Types
  <2> QED  BY <2>3, <2>4, <2>5 DEF NewDeposit
<1> QED  BY <1>1, <1>2 DEF NewDeposit

\* A player moves, his plane is paid for or forfeited, a payment begins or ends.
LEMMA FlightStep ==
    ASSUME Types, Types', CInv, NEW s \in Server, NEW p \in Player, Known(s, p), ~Joining(p),
           UNCHANGED <<row, due>>, NewDeposit(s, p),
           \A q \in Player \ {p} : seat'[q] = seat[q] /\ paid'[q] = paid[q],
           seat'[p] # None => seat[p] # None /\ seat'[p].srv = seat[p].srv,
           TasksOK(p), Pairs', Flight(p)',
           \A t \in Task : task[t] # None /\ task[t].who = p /\ task'[t] = task[t] =>
               /\ task[t].kind \notin Payment
               /\ task[t].kind = "donate" /\ Funds(p) => Funds(p)'
    PROVE  CInv'
<1>1. \A q \in Player \ {p} : Same(q)
  BY DEF Same, NewDeposit
<1>2. SameKnown(p) /\ Found(p) # {}
  BY CreditAssumption DEF SameKnown, NewDeposit, Known, Found
<1>3. Receives(p)
  BY <1>2 DEF Receives
<1>4. OwnSafe(p)
  BY DEF OwnSafe, Joining, Payment
<1>5. Books(p) /\ \A r \in Server : Object(r, p)
  BY DEF CInv, PlayerOK
<1>6. Books(p)'
  <2>1. seat'[p] # None => seat'[p] \in Seat
    BY DEF Types
  <2>2. (seat[p] # None => Known(seat[p].srv, p))'
    BY <1>2, <1>5, <2>1 DEF Books, Known, SameKnown, Seat
  <2>3. paid'[p] \in Nat
    BY DEF Types
  <2> QED  BY <1>5, <2>1, <2>2, <2>3 DEF Books, Points
<1>7. \A r \in Server : Object(r, p)'
  <2>1. \A r \in Server \ {s} : ~Known(r, p) /\ ~Known(r, p)'
    BY <1>5 DEF Object, Known, NewDeposit
  <2>2. Object(s, p)'
    BY <1>5, <2>1 DEF Object, Known, NewDeposit
  <2> QED  BY <2>1, <2>2 DEF Object
<1>8. PlayerOK(p)'
  BY <1>6, <1>7 DEF PlayerOK
<1> QED  BY <1>1, <1>3, <1>4, <1>8, PlayerStep

\* What is known of a payment.
LEMMA PaymentIs ==
    ASSUME Types, CInv, NEW t \in Task, task[t] # None, task[t].kind \in Payment
    PROVE  /\ task[t] \in Coroutine /\ task[t].who \in Player /\ task[t].srv \in Server
           /\ Known(task[t].srv, task[t].who) /\ ~Joining(task[t].who) /\ PaymentOK(task[t])
           /\ \A u \in Task \ {t} : task[u] # None /\ task[u].who = task[t].who => task[u].kind \notin Payment
<1>1. /\ task[t] \in Coroutine /\ task[t].who \in Player /\ task[t].srv \in Server
      /\ Known(task[t].srv, task[t].who) /\ PaymentOK(task[t])
  BY TaskIs DEF PaymentOK
<1>2. ~Joining(task[t].who)
  BY <1>1, NotJoining DEF Paying
<1>3. \A u \in Task \ {t} : task[u] # None => Apart(task[t], task[u])
  BY Pair
<1> QED  BY <1>1, <1>2, <1>3 DEF Apart

\* The end of a payment: the deposit is what was paid.
LEMMA PayEndStep ==
    ASSUME Types, Types', CInv, Regular, NEW t \in Task, PayEnd(t) \/ PaybackEnd(t)
    PROVE  CInv'
<1>1. task[t] # None /\ task[t].kind \in Payment /\ task[t].pc = "audit"
  BY DEF PayEnd, PaybackEnd, Is, Payment
<1>2. PICK p \in Player, s \in Server :
           /\ p = task[t].who /\ s = task[t].srv /\ Known(s, p) /\ ~Joining(p) /\ PaymentOK(task[t])
           /\ \A u \in Task \ {t} : task[u] # None /\ task[u].who = p => task[u].kind \notin Payment
  BY <1>1, PaymentIs
<1>3. /\ task'[t] = None /\ \A u \in Task \ {t} : task'[u] = task[u]
      /\ Pairs' /\ Coro1(t)'
  BY Ended DEF PayEnd, PaybackEnd, Releases
<1>4. UNCHANGED <<row, seat, due, paid>>
  BY DEF PayEnd, PaybackEnd, history
<1>5. PICK n \in Nat : (Payback => n = paid[p]) /\ (obj' = [obj EXCEPT ![s][p].deposit = n] \/ (~Payback /\ obj' = obj))
  <2>1. Cost \in Nat /\ 0 \in Nat
    BY CreditAssumption
  <2>2. CASE PayEnd(t)
    BY <1>1, <1>2, <2>1, <2>2 DEF PayEnd, Is, Notes, Regular, PaymentOK
  <2>3. CASE PaybackEnd(t)
    BY <1>1, <1>2, <2>1, <2>3 DEF PaybackEnd, Is, Notes, Regular, PaymentOK
  <2> QED  BY <2>2, <2>3
<1>6. NewDeposit(s, p) /\ (Payback => obj'[s][p].deposit = paid[p])
  BY <1>2, <1>5, Deposits
<1>7. TasksOK(p)
  BY <1>2, <1>3 DEF TasksOK
<1>8. Flight(p)'
  <2>1. CASE Payback
    <3>1. IF At(p, {"air"}) THEN paid[p] >= Cost /\ Cost <= MaxPoints ELSE paid[p] = 0
      BY <1>1, <1>2, <2>1, CreditAssumption DEF PaymentOK, Payment
    <3>2. \A r \in Server \ {s} : obj'[r][p] = None
      <4>1. \A r \in Server \ {s} : obj[r][p] = None
        BY <1>2, SeatKnown DEF Known
      <4> QED  BY <1>6, <4>1 DEF NewDeposit
    <3> QED  BY <1>4, <1>6, <2>1, <3>1, <3>2 DEF Flight, At, Known
  <2> QED  BY <2>1 DEF Flight
<1>9. Funds(p) => Funds(p)'
  <2>1. \A u \in Task : Is(u, "pay", "lock")' => Is(u, "pay", "lock") /\ task'[u] = task[u]
    BY <1>3 DEF Is
  <2> QED  BY <1>4, <2>1 DEF Funds
<1>10. \A u \in Task : task[u] # None /\ task[u].who = p /\ task'[u] = task[u] => task[u].kind \notin Payment
  BY <1>1, <1>2, <1>3
<1> QED  BY <1>2, <1>3, <1>4, <1>6, <1>7, <1>8, <1>9, <1>10, FlightStep

\* A payment whose audit is awaited.
LEMMA Auditing ==
    ASSUME Types, Types', CInv, NEW t \in Task, task[t] # None, task[t].kind \in Payment, Audits(t),
           NEW c \in Coroutine, c = [task[t] EXCEPT !.pc = "audit"], PaymentOK(c)'
    PROVE  /\ task'[t] = c /\ \A u \in Task \ {t} : task'[u] = task[u]
           /\ Pairs' /\ TasksOK(task[t].who) /\ Paying(task[t].who)
           /\ \E u \in Task : task'[u] # None /\ task'[u].kind \in Payment /\ task'[u].who = task[t].who
<1>1. c.kind = task[t].kind /\ c.pc = "audit" /\ c.who = task[t].who /\ c.srv = task[t].srv
  BY PaymentIs DEF Coroutine
<1>2. PrepOK(c)' /\ ChatOK(c)' /\ VoteOK(c)' /\ DonateOK(c)'
  BY <1>1 DEF PrepOK, ChatOK, VoteOK, DonateOK, Payment
<1>3. \A u \in Task \ {t} : task[u] # None => Apart(c, task[u]) /\ Apart(task[u], c)
  <2> TAKE u \in Task \ {t}
  <2> HAVE task[u] # None
  <2>1. Apart(task[t], task[u]) /\ Apart(task[u], task[t])
    BY Pair
  <2> QED  BY <1>1, <2>1 DEF Apart, Handler, Payment
<1>4. Becomes(t, c)
  BY DEF Audits
<1>5. task'[t] = c /\ c # None /\ (\A u \in Task \ {t} : task'[u] = task[u]) /\ Pairs' /\ Coro1(t)'
  BY <1>2, <1>3, <1>4, Becoming
<1>6. TasksOK(task[t].who)
  BY <1>1, <1>5 DEF TasksOK
<1> QED  BY <1>1, <1>5, <1>6 DEF Paying

\* A plane is paid: the points are there, and its deposit has not been noted.
LEMMA PayBeginStep ==
    ASSUME Types, Types', CInv, NEW t \in Task, PayBegin(t)
    PROVE  CInv'
<1>1. task[t] # None /\ task[t].kind = "pay" /\ task[t].pc = "lock" /\ task[t].kind \in Payment
  BY DEF PayBegin, Is, Payment
<1>2. PICK p \in Player, s \in Server :
           /\ p = task[t].who /\ s = task[t].srv /\ Known(s, p) /\ ~Joining(p) /\ PaymentOK(task[t])
           /\ task[t] \in Coroutine
           /\ \A u \in Task \ {t} : task[u] # None /\ task[u].who = p => task[u].kind \notin Payment
  BY <1>1, PaymentIs
<1>3. /\ Value(s, p) = due[p] /\ due[p] \in 0..MaxPoints /\ due[p] >= Cost
      /\ {Cost, Gift, MaxPoints} \subseteq Nat /\ obj[s][p].deposit \in Nat /\ seat[p] # None
      /\ Payback => obj[s][p].deposit = 0 /\ At(p, {"air"}) /\ Cost <= MaxPoints
  BY <1>1, <1>2, ValueIs, ValueType, CreditAssumption DEF PaymentOK
<1>4. CASE Deposit(s, p) # 0
  <2>1. Releases(t) /\ UNCHANGED <<row, obj, seat, due, paid>> /\ ~Payback
    BY <1>2, <1>3, <1>4 DEF PayBegin, Deposit, history
  <2>2. /\ task'[t] = None /\ (\A u \in Task \ {t} : task'[u] = task[u])
        /\ Pairs' /\ Coro1(t)'
    BY <2>1, Ended DEF Releases
  <2>3. NewDeposit(s, p)
    BY <1>2, <2>1, Deposits
  <2>4. TasksOK(p) /\ Flight(p)'
    BY <1>2, <2>1, <2>2 DEF TasksOK, Flight
  <2>5. Funds(p) => Funds(p)'
    BY <2>1, <2>2 DEF Funds, Is
  <2>6. \A u \in Task : task[u] # None /\ task[u].who = p /\ task'[u] = task[u] => task[u].kind \notin Payment
    BY <1>1, <1>2, <2>2
  <2> QED  BY <1>2, <2>1, <2>2, <2>3, <2>4, <2>5, <2>6, FlightStep
<1>5. CASE Deposit(s, p) = 0
  <2>1. /\ SetPoints(s, p, Value(s, p) - Cost, obj[s][p].deposit) /\ Owes(p, -Cost) /\ seat' = seat
        /\ paid' = [paid EXCEPT ![p] = Value(s, p) - Clip(Value(s, p) - Cost)]
        /\ Audits(t)
    BY <1>2, <1>5 DEF PayBegin, Deposit
  <2>2. Value(s, p) - Cost = Value(s, p) + (-Cost) /\ -Cost \in Int
        /\ Value(s, p) - Clip(Value(s, p) - Cost) = Cost
    BY <1>3 DEF Clip
  <2>3. SetPoints(s, p, Value(s, p) + (-Cost), obj[s][p].deposit)
    BY <2>1, <2>2
  <2>4. paid'[p] = Cost /\ \A q \in Player \ {p} : paid'[q] = paid[q]
    BY <2>1, <2>2 DEF Types
  <2>5. /\ due'[p] = due[p] - Cost /\ \A q \in Player : SameKnown(q)
    <3>1. PICK n \in Int : n = -Cost
      BY <2>2
    <3>2. SetPoints(s, p, Value(s, p) + n, obj[s][p].deposit) /\ Owes(p, n)
      BY <2>1, <2>3, <3>1
    <3>3. due'[p] = Clip(due[p] + n) /\ \A q \in Player : SameKnown(q)
      BY <1>2, <1>3, <3>2, Credited
    <3> QED  BY <1>3, <3>1, <3>3 DEF Clip
  <2>6. PICK c \in Coroutine : c = [task[t] EXCEPT !.pc = "audit"]
    BY <1>2 DEF Coroutine
  <2>7. c.kind = "pay" /\ c.pc = "audit" /\ c.who = p /\ c.srv = s
    BY <1>1, <1>2, <2>6 DEF Coroutine
  <2>8. PaymentOK(c)'
    <3>1. Known(s, p)' /\ (Payback => At(p, {"air"})') /\ seat'[p] # None
      BY <1>2, <1>3, <2>1, <2>5 DEF Known, SameKnown, At
    <3> QED  BY <1>3, <2>4, <2>7, <3>1 DEF PaymentOK
  <2>9. /\ task'[t] = c /\ (\A u \in Task \ {t} : task'[u] = task[u]) /\ Pairs' /\ TasksOK(p)
        /\ \E u \in Task : task'[u] # None /\ task'[u].kind \in Payment /\ task'[u].who = p
    BY <1>1, <1>2, <2>1, <2>6, <2>8, Auditing
  <2>10. Flight(p)'
    BY <2>9 DEF Flight, Paying
  <2>11. \A u \in Task : task[u] # None /\ task[u].who = p /\ task'[u] = task[u] => task[u].kind \notin Payment
    BY <1>1, <1>2, <2>7, <2>9
  <2>12. Funds(p) => Funds(p)'
    <3>1. Funds(p) => due[p] >= Gift + Cost
      BY <1>1, <1>2 DEF Funds, Is
    <3>2. \A u \in Task : ~(Is(u, "pay", "lock")' /\ task'[u].who = p)
      BY <1>2, <2>7, <2>9 DEF Is, Payment
    <3> QED  BY <1>3, <2>5, <3>1, <3>2 DEF Funds
  <2>13. OwnSafe(p)
    BY <1>2, <2>11, <2>12 DEF OwnSafe, Joining, Payment
  <2> QED  BY <1>2, <1>3, <2>1, <2>2, <2>3, <2>4, <2>9, <2>10, <2>13, CreditedStep
<1> QED  BY <1>4, <1>5

\* A deposit is paid back: it is what was paid.
LEMMA PaybackBeginStep ==
    ASSUME Types, Types', CInv, NEW t \in Task, PaybackBegin(t)
    PROVE  CInv'
<1>1. /\ task[t] # None /\ task[t].kind \in {"payback", "refund"} /\ task[t].pc = "lock"
      /\ task[t].kind \in Payment
  BY DEF PaybackBegin, Is, Payment
<1>2. PICK p \in Player, s \in Server :
           /\ p = task[t].who /\ s = task[t].srv /\ Known(s, p) /\ ~Joining(p) /\ PaymentOK(task[t])
           /\ task[t] \in Coroutine
           /\ \A u \in Task \ {t} : task[u] # None /\ task[u].who = p => task[u].kind \notin Payment
  BY <1>1, PaymentIs
<1>3. /\ Value(s, p) = due[p] /\ due[p] \in 0..MaxPoints /\ paid[p] \in Nat
      /\ {Cost, Gift, MaxPoints} \subseteq Nat /\ obj[s][p].deposit \in Nat
      /\ Payback /\ ~At(p, {"air"}) /\ obj[s][p].deposit = paid[p]
      /\ task[t].kind = "refund" => paid[p] = 0 \/ (paid[p] >= Cost /\ At(p, {"ended"}))
  BY <1>1, <1>2, ValueIs, ValueType, CreditAssumption DEF PaymentOK, Types
<1>4. /\ paid'[p] = 0 /\ (\A q \in Player \ {p} : paid'[q] = paid[q]) /\ seat' = seat
      /\ Owes(p, RefundDue(t))
  BY <1>2 DEF PaybackBegin, Forfeits, Types
<1>5. RefundDue(t) \in Nat /\ (paid[p] = 0 => RefundDue(t) = 0)
  BY <1>2, <1>3 DEF RefundDue, Smaller
<1>6. due'[p] = Clip(due[p] + RefundDue(t)) /\ \A q \in Player \ {p} : due'[q] = due[q]
  BY <1>4 DEF Owes, Types
<1>7. due'[p] >= due[p] /\ (RefundDue(t) = 0 => due'[p] = due[p])
  BY <1>3, <1>5, <1>6 DEF Clip
<1>8. CASE Deposit(s, p) = 0
  <2>1. Releases(t) /\ UNCHANGED <<row, obj>> /\ paid[p] = 0
    BY <1>2, <1>3, <1>8 DEF PaybackBegin, Deposit
  <2>2. due' = due
    BY <1>5, <1>6, <1>7, <2>1 DEF Types
  <2>3. /\ task'[t] = None /\ (\A u \in Task \ {t} : task'[u] = task[u])
        /\ Pairs' /\ Coro1(t)'
    BY <2>1, Ended DEF Releases
  <2>4. NewDeposit(s, p)
    BY <1>2, <2>1, Deposits
  <2>5. TasksOK(p)
    BY <1>2, <2>3 DEF TasksOK
  <2>6. Flight(p)'
    <3>1. \A r \in Server : Known(r, p) => r = s
      BY <1>2, SeatKnown
    <3> QED  BY <1>3, <1>4, <2>1, <3>1 DEF Flight, At, Known
  <2>7. Funds(p) => Funds(p)'
    BY <2>2, <2>3 DEF Funds, Is
  <2>8. \A u \in Task : task[u] # None /\ task[u].who = p /\ task'[u] = task[u] => task[u].kind \notin Payment
    BY <1>1, <1>2, <2>3
  <2> QED  BY <1>2, <1>4, <2>1, <2>2, <2>3, <2>4, <2>5, <2>6, <2>7, <2>8, FlightStep
<1>9. CASE Deposit(s, p) # 0
  <2>1. Adds(s, p, Refund(t)) /\ Audits(t) /\ paid[p] # 0
    BY <1>2, <1>3, <1>9 DEF PaybackBegin, Deposit
  <2>2. Refund(t) = RefundDue(t)
    <3>1. CASE task[t].kind = "payback"
      BY <1>2, <1>3, <3>1 DEF Refund, RefundDue, Deposit
    <3>2. CASE task[t].kind = "refund"
      BY <1>2, <1>3, <2>1, <3>2 DEF Refund, RefundDue, Smaller, At, Flies
    <3> QED  BY <1>1, <3>1, <3>2
  <2>3. SetPoints(s, p, Value(s, p) + RefundDue(t), obj[s][p].deposit) /\ RefundDue(t) \in Int
    BY <1>5, <2>1, <2>2 DEF Adds
  <2>4. \A q \in Player : SameKnown(q)
    BY <1>2, <1>3, <1>4, <2>3, Credited
  <2>5. PICK c \in Coroutine : c = [task[t] EXCEPT !.pc = "audit"]
    BY <1>2 DEF Coroutine
  <2>6. c.kind = task[t].kind /\ c.pc = "audit" /\ c.who = p /\ c.srv = s
    BY <1>1, <1>2, <2>5 DEF Coroutine
  <2>7. PaymentOK(c)'
    <3>1. Known(s, p)' /\ ~At(p, {"air"})'
      BY <1>2, <1>3, <1>4, <2>4 DEF Known, SameKnown, At
    <3> QED  BY <1>1, <1>3, <1>4, <2>6, <3>1 DEF PaymentOK
  <2>8. /\ task'[t] = c /\ (\A u \in Task \ {t} : task'[u] = task[u]) /\ Pairs' /\ TasksOK(p)
        /\ \E u \in Task : task'[u] # None /\ task'[u].kind \in Payment /\ task'[u].who = p
    BY <1>1, <1>2, <2>1, <2>5, <2>7, Auditing
  <2>9. Flight(p)'
    BY <2>8 DEF Flight, Paying
  <2>10. \A u \in Task : task[u] # None /\ task[u].who = p /\ task'[u] = task[u] => task[u].kind \notin Payment
    BY <1>1, <1>2, <2>6, <2>8
  <2>11. Funds(p) => Funds(p)'
    BY <1>7, <2>6, <2>8, FundsKept DEF Is
  <2>12. OwnSafe(p)
    BY <1>2, <2>10, <2>11 DEF OwnSafe, Joining, Payment
  <2>13. \A q \in Player \ {p} : paid'[q] = paid[q]
    BY <1>4
  <2> QED  BY <1>2, <1>3, <1>4, <2>3, <2>8, <2>9, <2>12, <2>13, CreditedStep
<1> QED  BY <1>8, <1>9

\* A payment begins to wait for its turn.
LEMMA Creating ==
    ASSUME Types, Types', CInv, NEW p \in Player, NEW s \in Server, NEW kind \in Payment,
           Creates(kind, p, s), ~Joining(p), ~Paying(p),
           NEW c \in Coroutine, c = Coro(kind, "lock", p, s), PaymentOK(c)'
    PROVE  /\ Pairs' /\ TasksOK(p)
           /\ \E u \in Task : task'[u] # None /\ task'[u].kind \in Payment /\ task'[u].who = p
           /\ kind # "pay" => \A u \in Task : Is(u, "pay", "lock")' => Is(u, "pay", "lock") /\ task'[u] = task[u]
<1>1. c.kind = kind /\ c.pc = "lock" /\ c.who = p /\ c.srv = s
  BY DEF Coro
<1>2. PrepOK(c)' /\ ChatOK(c)' /\ VoteOK(c)' /\ DonateOK(c)'
  BY <1>1 DEF PrepOK, ChatOK, VoteOK, DonateOK, Payment
<1>3. PICK t \in Task : task[t] = None /\ Becomes(t, c)
  BY DEF Creates, Free
<1>4. \A u \in Task \ {t} : task[u] # None => Apart(c, task[u]) /\ Apart(task[u], c)
  BY <1>1 DEF Apart, Handler, Payment, Joining, Paying
<1>5. task'[t] = c /\ c # None /\ (\A u \in Task \ {t} : task'[u] = task[u]) /\ Pairs' /\ Coro1(t)'
  BY <1>2, <1>3, <1>4, Becoming
<1>6. TasksOK(p)
  BY <1>1, <1>3, <1>5 DEF TasksOK
<1> QED  BY <1>1, <1>5, <1>6 DEF Is

\* A player takes another place on his server.
LEMMA Moved ==
    ASSUME Types, NEW p \in Player, seat[p] # None, NEW place \in {"spectator", "slot", "air", "dead", "ended"},
           Moves(p, place)
    PROVE  /\ seat'[p].srv = seat[p].srv /\ seat'[p].at = place /\ seat'[p] # None
           /\ \A q \in Player \ {p} : seat'[q] = seat[q]
<1>1. PICK e \in Seat : e = [seat[p] EXCEPT !.at = place]
  BY SeatTypes DEF Seat
<1>2. e.srv = seat[p].srv /\ e.at = place /\ e # None
  BY <1>1, SeatTypes, CreditAssumption DEF Seat
<1>3. seat' = [seat EXCEPT ![p] = e]
  BY <1>1 DEF Moves
<1> QED  BY <1>2, <1>3 DEF Types

\* What holds of a player to whom something happens in the game.
LEMMA InTheGame ==
    ASSUME Types, CInv, Regular, NEW p \in Player, seat[p] # None, Event(seat[p].srv), Calm(p)
    PROVE  /\ seat[p].srv \in Server /\ Known(seat[p].srv, p) /\ ~Joining(p) /\ ~Paying(p)
           /\ Value(seat[p].srv, p) = due[p] /\ due[p] \in 0..MaxPoints /\ Cost \in Nat \ {0}
           /\ MaxPoints \in Nat /\ paid[p] \in Nat
           /\ Payback => /\ IF At(p, {"air"}) THEN paid[p] >= Cost /\ Cost <= MaxPoints ELSE paid[p] = 0
                         /\ obj[seat[p].srv][p].deposit = paid[p]
           /\ \A r \in Server \ {seat[p].srv} : obj[r][p] = None
           /\ \A u \in Task : task[u] # None /\ task[u].who = p => task[u].kind \notin Payment
<1>1. seat[p].srv \in Server /\ Known(seat[p].srv, p)
  BY SeatKnown
<1>2. ~Joining(p) /\ ~Paying(p)
  BY NotJoining, NotPaying DEF Event
<1>3. Flight(p) /\ paid[p] \in Nat
  BY DEF CInv, PlayerOK, Types
<1>4. /\ Value(seat[p].srv, p) = due[p] /\ due[p] \in 0..MaxPoints /\ Cost \in Nat \ {0} /\ MaxPoints \in Nat
  BY <1>1, ValueIs, CreditAssumption
<1>5. \A r \in Server \ {seat[p].srv} : obj[r][p] = None
  BY <1>1, SeatKnown DEF Known
<1> QED  BY <1>1, <1>2, <1>3, <1>4, <1>5 DEF Flight, Paying

\* No coroutine begins or ends.
LEMMA SameTasks ==
    ASSUME CInv, task' = task
    PROVE  /\ Pairs' /\ \A p \in Player : TasksOK(p) /\ Paying(p)' = Paying(p)
           /\ \A u \in Task : Is(u, "pay", "lock")' => Is(u, "pay", "lock") /\ task'[u] = task[u]
BY PairsSame DEF TasksOK, Is, Paying

\* The flight ends, or does not begin, without a payment.
LEMMA ForfeitStep ==
    ASSUME Types, Types', CInv, Regular, NEW p \in Player,
           Leave(p) \/ Killed(p) \/ Crash(p)
    PROVE  CInv'
<1> DEFINE s == seat[p].srv
<1>1. seat[p] # None /\ Event(s) /\ Calm(p) /\ UNCHANGED <<row, due, task>>
  BY DEF Leave, Killed, Crash, At, coroutines
<1>2. PICK r \in Server :
           /\ r = s /\ Known(r, p) /\ ~Joining(p) /\ ~Paying(p)
           /\ \A u \in Task : task[u] # None /\ task[u].who = p => task[u].kind \notin Payment
           /\ Payback => /\ IF At(p, {"air"}) THEN paid[p] >= Cost ELSE paid[p] = 0
                         /\ obj[r][p].deposit = paid[p]
           /\ \A e \in Server \ {r} : obj[e][p] = None
  BY <1>1, InTheGame
<1>3. /\ \A q \in Player \ {p} : seat'[q] = seat[q] /\ paid'[q] = paid[q]
      /\ seat'[p] # None => seat'[p].srv = seat[p].srv
      /\ ~At(p, {"air"})'
      /\ Payback => paid'[p] = 0
  <2>1. CASE Leave(p)
    BY <1>1, <2>1 DEF Leave, Forfeits, Types, At
  <2>2. CASE Killed(p)
    BY <1>1, <2>2, Moved DEF Killed, Forfeits, Types, At
  <2>3. CASE Crash(p)
    BY <1>1, <1>2, <2>3, Moved DEF Crash, Forfeits, Types, At
  <2> QED  BY <2>1, <2>2, <2>3
<1>4. /\ NewDeposit(r, p) /\ (Payback => obj'[r][p].deposit = 0)
  <2>1. CASE Leave(p)
    <3>1. obj' = obj /\ ~At(p, {"air"})
      BY <2>1 DEF Leave, Regular
    <3> QED  BY <1>2, <3>1, Deposits
  <2>2. CASE Killed(p) \/ Crash(p)
    <3>1. obj' = IF Payback THEN [obj EXCEPT ![r][p].deposit = 0] ELSE obj
      BY <1>2, <2>2 DEF Killed, Crash
    <3> QED  BY <1>2, <3>1, Deposits
  <2> QED  BY <2>1, <2>2
<1>5. Flight(p)'
  <2>1. \A e \in Server \ {r} : obj'[e][p] = None
    BY <1>2, <1>4 DEF NewDeposit
  <2> QED  BY <1>3, <1>4, <2>1 DEF Flight, Known
<1>6. Pairs' /\ TasksOK(p) /\ (Funds(p) => Funds(p)')
  BY <1>1, SameTasks DEF Funds, Is
<1> HIDE DEF s
<1> QED  BY <1>1, <1>2, <1>3, <1>4, <1>5, <1>6, FlightStep

\* The flight ends and its deposit is to be paid back.
LEMMA LandStep ==
    ASSUME Types, Types', CInv, Regular, NEW p \in Player, Land(p) \/ TeamKilled(p)
    PROVE  CInv'
<1>1. /\ seat[p] # None /\ Event(seat[p].srv) /\ Calm(p) /\ At(p, {"air"})
      /\ UNCHANGED <<row, obj, due, paid>>
  BY DEF Land, TeamKilled, At, history
<1>2. PICK s \in Server :
           /\ s = seat[p].srv /\ Known(s, p) /\ ~Joining(p) /\ ~Paying(p)
           /\ \A u \in Task : task[u] # None /\ task[u].who = p => task[u].kind \notin Payment
           /\ Payback => paid[p] >= Cost /\ obj[s][p].deposit = paid[p]
           /\ Cost \in Nat \ {0}
  BY <1>1, InTheGame
<1>3. /\ \A q \in Player \ {p} : seat'[q] = seat[q] /\ paid'[q] = paid[q]
      /\ seat'[p] # None /\ seat'[p].srv = seat[p].srv /\ ~At(p, {"air"})'
  BY <1>1, Moved DEF Land, TeamKilled, At
<1>4. NewDeposit(s, p)
  BY <1>1, <1>2, Deposits
<1>5. CASE ~Payback
  <2>1. task' = task
    BY <1>5 DEF Land, TeamKilled, coroutines
  <2>2. Pairs' /\ TasksOK(p) /\ (Funds(p) => Funds(p)')
    BY <1>1, <2>1, SameTasks DEF Funds, Is
  <2>3. Flight(p)'
    BY <1>5 DEF Flight
  <2> QED  BY <1>1, <1>2, <1>3, <1>4, <2>2, <2>3, FlightStep
<1>6. CASE Payback
  <2>1. Creates("payback", p, s)
    <3>1. obj[s][p].deposit > 0
      BY <1>2, <1>6 DEF Types
    <3>2. CASE Land(p)
      BY <1>2, <1>6, <3>1, <3>2 DEF Land, Deposit
    <3>3. CASE TeamKilled(p)
      BY <1>2, <1>6, <3>3 DEF TeamKilled
    <3> QED  BY <3>2, <3>3
  <2>2. PICK c \in Coroutine : c = Coro("payback", "lock", p, s)
    BY CoroType DEF Payment
  <2>3. PaymentOK(c)'
    <3>1. c.kind = "payback" /\ c.pc = "lock" /\ c.who = p /\ c.srv = s
      BY <2>2 DEF Coro
    <3>2. Known(s, p)'
      BY <1>1, <1>2 DEF Known
    <3> QED  BY <1>1, <1>2, <1>3, <1>6, <3>1, <3>2 DEF PaymentOK
  <2>4. /\ Pairs' /\ TasksOK(p)
        /\ \E u \in Task : task'[u] # None /\ task'[u].kind \in Payment /\ task'[u].who = p
        /\ \A u \in Task : Is(u, "pay", "lock")' => Is(u, "pay", "lock") /\ task'[u] = task[u]
    BY <1>2, <2>1, <2>2, <2>3, Creating DEF Payment
  <2>5. Flight(p)' /\ (Funds(p) => Funds(p)')
    BY <1>1, <2>4 DEF Flight, Paying, Funds
  <2> QED  BY <1>1, <1>2, <1>3, <1>4, <2>4, <2>5, FlightStep
<1> QED  BY <1>5, <1>6

\* The plane has to be paid, and the points are there.
LEMMA PayCreated ==
    ASSUME Types, Types', CInv, NEW p \in Player, NEW s \in Server, Creates("pay", p, s),
           Known(s, p), ~Joining(p), ~Paying(p), Known(s, p)', seat'[p] # None, due'[p] >= Cost,
           Payback => At(p, {"air"})' /\ Cost <= MaxPoints /\ paid'[p] = 0 /\ obj'[s][p].deposit = 0
    PROVE  Pairs' /\ TasksOK(p) /\ Flight(p)'
<1>1. PICK c \in Coroutine : c = Coro("pay", "lock", p, s)
  BY CoroType DEF Payment
<1>2. c.kind = "pay" /\ c.pc = "lock" /\ c.who = p /\ c.srv = s
  BY <1>1 DEF Coro
<1>3. PaymentOK(c)'
  BY <1>2 DEF PaymentOK
<1>4. /\ Pairs' /\ TasksOK(p)
      /\ \E u \in Task : task'[u] # None /\ task'[u].kind \in Payment /\ task'[u].who = p
  BY <1>1, <1>3, Creating DEF Payment
<1> QED  BY <1>4 DEF Flight, Paying

\* A plane takes off: it has no deposit, so it is charged.
LEMMA TakeoffStep ==
    ASSUME Types, Types', CInv, Regular, NEW p \in Player, Takeoff(p)
    PROVE  CInv'
<1>1. /\ seat[p] # None /\ Event(seat[p].srv) /\ Calm(p) /\ ~At(p, {"air"})
      /\ UNCHANGED <<row, obj, due, paid>>
      /\ \A u \in Task : task[u] # None /\ task[u].who = p => task[u].kind # "donate"
  BY DEF Takeoff, At, history, Keeps, Regular, Donating
<1>2. PICK s \in Server :
           /\ s = seat[p].srv /\ Known(s, p) /\ ~Joining(p) /\ ~Paying(p)
           /\ \A u \in Task : task[u] # None /\ task[u].who = p => task[u].kind \notin Payment
           /\ Payback => paid[p] = 0 /\ obj[s][p].deposit = paid[p]
           /\ Value(s, p) = due[p] /\ due[p] \in 0..MaxPoints /\ Cost \in Nat \ {0} /\ MaxPoints \in Nat
  BY <1>1, InTheGame
<1>3. /\ \A q \in Player \ {p} : seat'[q] = seat[q] /\ paid'[q] = paid[q]
      /\ seat'[p] # None /\ seat'[p].srv = seat[p].srv /\ At(p, {"air"})'
  BY <1>1, Moved DEF Takeoff, At
<1>4. NewDeposit(s, p)
  BY <1>1, <1>2, Deposits
<1>5. Pairs' /\ TasksOK(p) /\ Flight(p)'
  <2>1. CASE ~Payback
    <3>1. task' = task
      BY <2>1 DEF Takeoff, coroutines
    <3> QED  BY <2>1, <3>1, SameTasks DEF Flight
  <2>2. CASE Payback
    <3>1. Affordable(p) /\ Creates("pay", p, s)
      BY <1>2, <2>2 DEF Takeoff, Deposit
    <3>2. due'[p] >= Cost /\ Cost <= MaxPoints
      BY <1>1, <1>2, <3>1 DEF Affordable, Regular
    <3>3. Known(s, p)' /\ paid'[p] = 0 /\ obj'[s][p].deposit = 0
      BY <1>1, <1>2, <2>2 DEF Known
    <3> QED  BY <1>2, <1>3, <3>1, <3>2, <3>3, PayCreated
  <2> QED  BY <2>1, <2>2
<1> QED  BY <1>1, <1>2, <1>3, <1>4, <1>5, FlightStep

\* A player changes seats; planes that are charged by usage are charged now.
LEMMA ChangeSlotStep ==
    ASSUME Types, Types', CInv, Regular, NEW p \in Player, NEW place \in {"slot", "spectator"},
           ChangeSlot(p, place)
    PROVE  CInv'
<1>1. /\ seat[p] # None /\ Event(seat[p].srv) /\ Calm(p) /\ ~At(p, {"air"})
      /\ UNCHANGED <<row, due>>
      /\ Moves(p, place) /\ Forfeits(p)
  BY DEF ChangeSlot, Regular
<1>2. PICK s \in Server :
           /\ s = seat[p].srv /\ Known(s, p) /\ ~Joining(p) /\ ~Paying(p)
           /\ \A u \in Task : task[u] # None /\ task[u].who = p => task[u].kind \notin Payment
           /\ Value(s, p) = due[p] /\ due[p] \in 0..MaxPoints /\ Cost \in Nat \ {0} /\ MaxPoints \in Nat
           /\ \A r \in Server \ {s} : obj[r][p] = None
  BY <1>1, InTheGame
<1>3. /\ \A q \in Player \ {p} : seat'[q] = seat[q] /\ paid'[q] = paid[q]
      /\ seat'[p] # None /\ seat'[p].srv = seat[p].srv /\ ~At(p, {"air"})' /\ paid'[p] = 0
  BY <1>1, Moved DEF At, Forfeits, Types
<1>4. /\ NewDeposit(s, p) /\ (Payback => obj'[s][p].deposit = 0)
  <2>1. obj' = IF Payback THEN [obj EXCEPT ![s][p].deposit = 0] ELSE obj
    BY <1>2 DEF ChangeSlot
  <2> QED  BY <1>2, <2>1, Deposits
<1>5. CASE Payback \/ place # "slot"
  <2>1. task' = task
    BY <1>5 DEF ChangeSlot, coroutines
  <2>2. Pairs' /\ TasksOK(p) /\ (Funds(p) => Funds(p)')
    BY <1>1, <2>1, SameTasks DEF Funds, Is
  <2>3. Flight(p)'
    <3>1. \A r \in Server \ {s} : obj'[r][p] = None
      BY <1>2, <1>4 DEF NewDeposit
    <3> QED  BY <1>3, <1>4, <3>1 DEF Flight, Known
  <2> QED  BY <1>1, <1>2, <1>3, <1>4, <2>2, <2>3, FlightStep
<1>6. CASE ~Payback /\ place = "slot"
  <2>1. Creates("pay", p, s) /\ Value(s, p) >= Cost /\ UNCHANGED obj
        /\ \A u \in Task : task[u] # None /\ task[u].who = p => task[u].kind # "donate"
    BY <1>2, <1>6 DEF ChangeSlot, Keeps, Regular, Donating
  <2>2. Known(s, p)' /\ due'[p] >= Cost
    BY <1>1, <1>2, <2>1 DEF Known
  <2>3. Pairs' /\ TasksOK(p) /\ Flight(p)'
    BY <1>2, <1>3, <1>6, <2>1, <2>2, PayCreated
  <2> QED  BY <1>1, <1>2, <1>3, <1>4, <2>1, <2>3, FlightStep
<1> QED  BY <1>5, <1>6

\* The row of a new player is read ...
LEMMA PrepReadsStep ==
    ASSUME Types, Types', CInv, NEW t \in Task, PrepReads(t)
    PROVE  CInv'
<1>1. PICK p \in Player, s \in Server :
           /\ task[t] # None /\ task[t].kind = "prep" /\ task[t].pc = "read" /\ task[t] \in Coroutine
           /\ p = task[t].who /\ s = task[t].srv /\ PrepOK(task[t])
  BY TaskIs DEF PrepReads, Is, PrepOK
<1>2. UNCHANGED <<row, obj, seat, due, paid>> /\ Points(p) = due[p] /\ due[p] \in Int
  BY CreditAssumption DEF PrepReads, history, CInv, PlayerOK, Books
<1> DEFINE e == [task[t] EXCEPT !.pc = "set", !.read = Points(p)]
<1>3. Becomes(t, e)
  BY <1>1 DEF PrepReads
<1>4. e \in Coroutine
  <2>1. PICK a \in Coroutine : a = [task[t] EXCEPT !.pc = "set"]
    BY <1>1 DEF Coroutine
  <2>2. [a EXCEPT !.read = Points(p)] \in Coroutine
    BY <1>2 DEF Coroutine
  <2> QED  BY <2>1, <2>2
<1>5. PICK c \in Coroutine : c = e
  BY <1>4
<1>6. c.kind = "prep" /\ c.pc = "set" /\ c.who = p /\ c.srv = s /\ c.read = due[p]
  BY <1>1, <1>2, <1>5 DEF Coroutine
<1>7. Becomes(t, c)
  BY <1>3, <1>5
<1> HIDE DEF e
<1>8. PrepOK(c)'
  BY <1>1, <1>2, <1>6 DEF PrepOK, Known
<1>9. ChatOK(c)' /\ PaymentOK(c)' /\ VoteOK(c)' /\ DonateOK(c)'
  BY <1>6 DEF ChatOK, PaymentOK, VoteOK, DonateOK, Payment
<1>10. ASSUME NEW u \in Task \ {t}, task[u] # None
       PROVE  Apart(task[t], task[u]) /\ Apart(task[u], task[t])
  BY <1>1, <1>10, Pair
<1>11. \A u \in Task \ {t} : task[u] # None => Apart(c, task[u]) /\ Apart(task[u], c)
  BY <1>1, <1>6, <1>10 DEF Apart, Handler, Payment
<1>12. task'[t] = c /\ c # None /\ (\A u \in Task \ {t} : task'[u] = task[u]) /\ Pairs' /\ Coro1(t)'
  BY <1>7, <1>8, <1>9, <1>11, Becoming
<1>13. Joining(p)' /\ Paying(p)' = Paying(p)
  <2>1. Joining(p)'
    BY <1>6, <1>12 DEF Joining
  <2>2. \A u \in Task : task'[u] = task[u] \/ (u = t /\ task[u].kind \notin Payment /\ task'[u].kind \notin Payment)
    BY <1>1, <1>6, <1>12 DEF Payment
  <2> QED  BY <2>1, <2>2 DEF Paying
<1>14. PlayerOK(p)'
  <2>1. Books(p) /\ Flight(p) /\ \A r \in Server : Object(r, p)
    BY DEF CInv, PlayerOK
  <2>2. Books(p)'
    BY <1>2, <2>1 DEF Books, Known, Points
  <2>3. Flight(p)'
    BY <1>2, <1>13, <2>1 DEF Flight, Known, At
  <2>4. \A r \in Server : Object(r, p)'
    BY <1>2, <1>13, <2>1 DEF Object, Known
  <2> QED  BY <2>2, <2>3, <2>4 DEF PlayerOK
<1>15. OwnSafe(p)
  <2>1. \A u \in Task : Is(u, "pay", "lock")' => Is(u, "pay", "lock") /\ task'[u] = task[u]
    BY <1>6, <1>12 DEF Is
  <2>2. Funds(p) => Funds(p)'
    BY <1>2, <2>1 DEF Funds
  <2>3. ASSUME NEW u \in Task, task[u] # None, task[u].who = p, task'[u] = task[u]
        PROVE  task[u].kind # "prep" /\ task[u].kind \notin Payment
    <3>1. u # t
      BY <1>1, <1>6, <1>12, <2>3
    <3>2. task[u].kind = "prep" => task[u].srv \in Server /\ Known(task[u].srv, p)
      BY <2>3, TaskIs DEF PrepOK
    <3>3. task[u].kind = "prep" => task[u].srv = s
      BY <1>1, <3>2, SeatKnown DEF PrepOK
    <3> QED  BY <1>1, <1>10, <2>3, <3>1, <3>3 DEF Apart, Handler
  <2> QED  BY <2>2, <2>3 DEF OwnSafe
<1>16. (\A q \in Player : Same(q)) /\ Receives(p)
  <2>1. \A q \in Player : Same(q)
    BY <1>2 DEF Same
  <2>2. SameKnown(p) /\ Points(p)' = Points(p) /\ Points(p) \in Int
    BY <1>2 DEF SameKnown, Points
  <2> QED  BY <2>1, <2>2 DEF Receives
<1>17. TasksOK(p)
  BY <1>1, <1>6, <1>12 DEF TasksOK
<1> QED  BY <1>12, <1>14, <1>15, <1>16, <1>17, PlayerStep

\* ... and becomes the points of his object.
LEMMA PrepSetsStep ==
    ASSUME Types, Types', CInv, NEW t \in Task, PrepSets(t)
    PROVE  CInv'
<1>1. PICK p \in Player, s \in Server :
           /\ task[t] # None /\ task[t].kind = "prep" /\ task[t] \in Coroutine
           /\ p = task[t].who /\ s = task[t].srv /\ Known(s, p) /\ task[t].read = due[p]
  BY TaskIs DEF PrepSets, Is, PrepOK
<1>2. /\ UNCHANGED <<row, seat, due, paid>> /\ obj' = [obj EXCEPT ![s][p].points = due[p]]
      /\ due[p] \in Nat
  BY <1>1, CreditAssumption DEF PrepSets, history, CInv, PlayerOK, Books
<1>3. /\ obj'[s][p] \in Account /\ obj'[s][p].points = due[p] /\ obj'[s][p].deposit = obj[s][p].deposit
      /\ \A q \in Player \ {p}, r \in Server : obj'[r][q] = obj[r][q]
      /\ \A r \in Server \ {s} : obj'[r][p] = obj[r][p]
  <2>1. obj[s][p] \in Account
    BY <1>1, ValueType
  <2>2. PICK a \in Account : a = [obj[s][p] EXCEPT !.points = due[p]]
    BY <1>2, <2>1 DEF Account
  <2>3. obj' = [obj EXCEPT ![s][p] = a]
    BY <1>2, <2>2
  <2>4. a.points = due[p] /\ a.deposit = obj[s][p].deposit
    BY <2>1, <2>2 DEF Account
  <2> QED  BY <2>3, <2>4 DEF Types
<1>4. task'[t] = None /\ (\A u \in Task \ {t} : task'[u] = task[u]) /\ Pairs' /\ Coro1(t)'
  BY Ended DEF PrepSets
<1>5. ASSUME NEW u \in Task \ {t}, task[u] # None
      PROVE  Apart(task[t], task[u]) /\ Apart(task[u], task[t])
  BY <1>1, <1>5, Pair
<1>6. Paying(p)' = Paying(p)
  <2>1. \A u \in Task : task'[u] = task[u] \/ (u = t /\ task[u].kind \notin Payment /\ task'[u] = None)
    BY <1>1, <1>4 DEF Payment
  <2> QED  BY <2>1 DEF Paying
<1>7. SameKnown(p)
  BY <1>1, <1>3, CreditAssumption DEF SameKnown, Known
<1>8. PlayerOK(p)'
  <2>1. Books(p) /\ Flight(p) /\ \A r \in Server : Object(r, p)
    BY DEF CInv, PlayerOK
  <2>2. Books(p)'
    BY <1>2, <1>7, <2>1 DEF Books, Known, Points, SameKnown, Seat
  <2>3. Flight(p)'
    <3>1. At(p, {"air"})' <=> At(p, {"air"})
      BY <1>2 DEF At
    <3>2. \A r \in Server : Known(r, p)' => Known(r, p) /\ obj'[r][p].deposit = obj[r][p].deposit
      BY <1>2, <1>3, <1>7 DEF Known, SameKnown
    <3> QED  BY <1>2, <1>6, <2>1, <3>1, <3>2 DEF Flight
  <2>4. \A r \in Server : Object(r, p)'
    <3>1. \A r \in Server \ {s} : ~Known(r, p) /\ ~Known(r, p)'
      BY <1>1, <1>3, <2>1 DEF Object, Known
    <3>2. Object(s, p)'
      BY <1>1, <1>2, <1>3, <2>1, <3>1 DEF Object, Known
    <3> QED  BY <3>1, <3>2 DEF Object
  <2> QED  BY <2>2, <2>3, <2>4 DEF PlayerOK
<1>9. OwnSafe(p)
  <2>1. \A u \in Task : Is(u, "pay", "lock")' => Is(u, "pay", "lock") /\ task'[u] = task[u]
    BY <1>4 DEF Is
  <2>2. Funds(p) => Funds(p)'
    BY <1>2, <2>1 DEF Funds
  <2>3. ASSUME NEW u \in Task, task[u] # None, task[u].who = p, task'[u] = task[u]
        PROVE  task[u].kind # "prep" /\ task[u].kind \notin Payment
    <3>1. u # t
      BY <1>1, <1>4, <2>3
    <3>2. task[u].kind = "prep" => task[u].srv \in Server /\ Known(task[u].srv, p)
      BY <2>3, TaskIs DEF PrepOK
    <3>3. task[u].kind = "prep" => task[u].srv = s
      BY <1>1, <3>2, SeatKnown
    <3> QED  BY <1>1, <1>5, <2>3, <3>1, <3>3 DEF Apart, Handler
  <2> QED  BY <2>2, <2>3 DEF OwnSafe
<1>10. (\A q \in Player \ {p} : Same(q)) /\ Receives(p)
  <2>1. \A q \in Player \ {p} : Same(q)
    BY <1>2, <1>3 DEF Same
  <2>2. Found(p) # {}
    BY <1>1 DEF Found
  <2> QED  BY <1>7, <2>1, <2>2 DEF Receives
<1>11. TasksOK(p)
  BY <1>1, <1>4 DEF TasksOK
<1> QED  BY <1>4, <1>8, <1>9, <1>10, <1>11, PlayerStep

\* What a gift, a payment and a vote need is what they needed, but for a new object.
LEMMA JoinCoroutines ==
    ASSUME Types, CInv, NEW p \in Player, NEW s \in Server, seat[p] = None, Found(p) = {},
           \A q \in Player \ {p}, r \in Server : obj'[r][q] = obj[r][q],
           \A r \in Server \ {s} : obj'[r][p] = obj[r][p],
           \A q \in Player \ {p} : seat'[q] = seat[q],
           UNCHANGED <<row, due, paid>>,
           \A u \in Task : Is(u, "pay", "lock")' => Is(u, "pay", "lock") /\ task'[u] = task[u],
           NEW t \in Task, task[t] # None, task'[t] = task[t],
           Donating(t) /\ task[t].pc # "asked" => p \notin {task[t].who, task[t].to}
    PROVE  Coro1(t)'
<1> DEFINE o == task[t].who
           q == task[t].to
<1>1. /\ task[t] \in Coroutine /\ o \in Player /\ q \in Player \cup {None}
      /\ task[t].srv \in Server \cup {None} /\ task[t].dest \in Server \cup {None}
      /\ PrepOK(task[t]) /\ ChatOK(task[t]) /\ PaymentOK(task[t]) /\ VoteOK(task[t]) /\ DonateOK(task[t])
  BY TaskIs
<1>2. \A r \in Server : ~Known(r, p)
  BY DEF Found
<1>3. PrepOK(task[t])'
  BY <1>1, <1>2 DEF PrepOK, Known
<1>4. ChatOK(task[t])'
  BY <1>1, <1>2 DEF ChatOK, Known
<1>5. PaymentOK(task[t])'
  BY <1>1, <1>2 DEF PaymentOK, Known, At, Payment
<1>6. VoteOK(task[t])'
  BY <1>1 DEF VoteOK
<1>7. DonateOK(task[t])'
  <2>1. CASE task[t].kind = "donate"
    <3>1. q \in Player \ {o} /\ (Funds(o) => Funds(o)')
      BY <1>1, <2>1 DEF DonateOK, Funds
    <3>2. CASE task[t].pc = "asked"
      BY <1>1, <2>1, <3>1, <3>2 DEF DonateOK
    <3>3. CASE task[t].pc # "asked"
      <4>1. o # p /\ q # p
        BY <2>1, <3>3 DEF Donating
      <4>2. Found(o)' = Found(o) /\ Found(q)' = Found(q) /\ Points(q)' = Points(q)
        BY <1>1, <3>1, <4>1 DEF Found, Known, Points
      <4>3. /\ task[t].srv # None => (Known(task[t].srv, o) => obj'[task[t].srv][o] # None)
            /\ task[t].dest # None => (Known(task[t].dest, q) => obj'[task[t].dest][q] # None)
        BY <1>1, <3>1, <4>1 DEF Known
      <4> QED  BY <1>1, <2>1, <3>1, <3>3, <4>2, <4>3 DEF DonateOK, Known
    <3> QED  BY <3>2, <3>3
  <2> QED  BY <2>1 DEF DonateOK
<1> QED  BY <1>1, <1>3, <1>4, <1>5, <1>6, <1>7 DEF Coro1

\* A player joins a server that does not know him.
LEMMA NewPlayer ==
    ASSUME Types, Types', CInv, Regular, NEW p \in Player, NEW s \in Server, Join(p, s), ~Known(s, p)
    PROVE  CInv'
<1>1. /\ seat[p] = None /\ Found(p) = {} /\ Idle(s) /\ ~Joining(p)
      /\ \A t \in Task : Donating(t) /\ task[t].pc # "asked" => p \notin {task[t].who, task[t].to}
      /\ seat' = [seat EXCEPT ![p] = [srv |-> s, at |-> "spectator"]]
      /\ UNCHANGED <<row, due, paid>>
  <2>1. Found(p) = {}
    BY DEF Join, Regular, Found
  <2> QED  BY <2>1, NotJoining DEF Join, Regular, Event, history
<1>2. PICK a \in Account : a = [points |-> Unread, deposit |-> 0]
  BY DEF Account
<1>3. a.points = Unread /\ a.deposit = 0 /\ a # None /\ obj' = [obj EXCEPT ![s][p] = a]
  BY <1>2, CreditAssumption DEF Join
<1>4. /\ obj'[s][p] = a
      /\ \A q \in Player \ {p}, r \in Server : obj'[r][q] = obj[r][q]
      /\ \A r \in Server \ {s} : obj'[r][p] = obj[r][p]
  BY <1>3 DEF Types
<1>5. PICK t \in Task : task[t] = None /\ Becomes(t, Coro("prep", "read", p, s))
  BY DEF Join, Free
<1>6. PICK c \in Coroutine : c = Coro("prep", "read", p, s)
  BY CoroType
<1>7. c.kind = "prep" /\ c.pc = "read" /\ c.who = p /\ c.srv = s
  BY <1>6 DEF Coro
<1>8. ~Paying(p)
  BY <1>1, NotPaying
<1>9. /\ seat'[p] = [srv |-> s, at |-> "spectator"] /\ seat'[p] # None
      /\ \A q \in Player \ {p} : seat'[q] = seat[q]
  BY <1>1, CreditAssumption DEF Types, Seat
<1>10. PrepOK(c)' /\ ChatOK(c)' /\ PaymentOK(c)' /\ VoteOK(c)' /\ DonateOK(c)'
  BY <1>3, <1>4, <1>7, <1>9 DEF PrepOK, ChatOK, PaymentOK, VoteOK, DonateOK, Payment, Known
<1>11. \A u \in Task \ {t} : task[u] # None => Apart(c, task[u]) /\ Apart(task[u], c)
  BY <1>1, <1>7, <1>8 DEF Apart, Handler, Payment, Idle, Paying, Donating
<1>12. task'[t] = c /\ c # None /\ (\A u \in Task \ {t} : task'[u] = task[u]) /\ Pairs' /\ Coro1(t)'
  BY <1>5, <1>6, <1>10, <1>11, Becoming
<1>13. \A u \in Task : Is(u, "pay", "lock")' => Is(u, "pay", "lock") /\ task'[u] = task[u]
  BY <1>7, <1>12 DEF Is
<1>14. \A u \in Task : Coro1(u)'
  <2>1. ASSUME NEW u \in Task, u # t, task[u] # None
        PROVE  Coro1(u)'
    BY <1>1, <1>4, <1>9, <1>12, <1>13, <2>1, JoinCoroutines
  <2> QED  BY <1>12, <2>1 DEF Coro1
<1>15. \A q \in Player \ {p} : PlayerOK(q)'
  <2>1. \A q \in Player \ {p} : Same(q)
    BY <1>1, <1>4, <1>9 DEF Same
  <2>2. Within({p})
    BY <1>5, <1>7, <1>12, <2>1 DEF Within
  <2> QED  BY <2>2, OtherPlayers
<1>16. PlayerOK(p)'
  <2>1. Books(p) /\ Flight(p)
    BY DEF CInv, PlayerOK
  <2>2. [srv |-> s, at |-> "spectator"] \in Seat /\ Known(s, p)'
    BY <1>3, <1>4 DEF Seat, Known
  <2>3. Books(p)'
    BY <1>1, <1>9, <2>1, <2>2 DEF Books, Points
  <2>4. \A r \in Server \ {s} : ~Known(r, p)'
    BY <1>1, <1>4 DEF Found, Known
  <2>5. Flight(p)'
    BY <1>1, <1>3, <1>4, <1>8, <1>9, <2>1, <2>4 DEF Flight, Known, At
  <2>6. Joining(p)'
    BY <1>7, <1>12 DEF Joining
  <2>7. \A r \in Server : Object(r, p)'
    BY <1>3, <1>4, <1>9, <2>4, <2>6 DEF Object, Known
  <2> QED  BY <2>3, <2>5, <2>7 DEF PlayerOK
<1> QED  BY <1>12, <1>14, <1>15, <1>16 DEF CInv

\* A player comes back to the server that knows him.
LEMMA KnownPlayer ==
    ASSUME Types, Types', CInv, Regular, NEW p \in Player, NEW s \in Server, Join(p, s), Known(s, p)
    PROVE  CInv'
<1>1. /\ seat[p] = None /\ ~Joining(p)
      /\ seat' = [seat EXCEPT ![p] = [srv |-> s, at |-> "spectator"]]
      /\ UNCHANGED <<row, obj, task, due, paid>>
  BY NotJoining DEF Join, Regular, history
<1>2. \A r \in Server : Known(r, p) => r = s
  BY SeatKnown
<1>3. /\ seat'[p] = [srv |-> s, at |-> "spectator"] /\ seat'[p] # None
      /\ \A q \in Player \ {p} : seat'[q] = seat[q]
  BY <1>1, CreditAssumption DEF Types, Seat
<1>4. Pairs' /\ TasksOK(p) /\ (Paying(p)' = Paying(p)) /\ (Funds(p) => Funds(p)')
  BY <1>1, SameTasks DEF Funds, Is
<1>5. PlayerOK(p)'
  <2>1. Books(p) /\ Flight(p) /\ \A r \in Server : Object(r, p)
    BY DEF CInv, PlayerOK
  <2>2. [srv |-> s, at |-> "spectator"] \in Seat
    BY DEF Seat
  <2>3. Books(p)'
    BY <1>1, <1>3, <2>1, <2>2 DEF Books, Known, Points
  <2>4. Flight(p)'
    BY <1>1, <1>3, <1>4, <2>1 DEF Flight, Known, At
  <2>5. \A r \in Server : Object(r, p)'
    BY <1>1, <1>2, <1>3, <2>1 DEF Object, Known, Joining
  <2> QED  BY <2>3, <2>4, <2>5 DEF PlayerOK
<1>6. ASSUME NEW u \in Task, task[u] # None, task[u].who = p, task[u].kind \in Payment
      PROVE  PaymentOK(task[u])'
  <2>1. PaymentOK(task[u])
    BY <1>6, TaskIs
  <2> QED  BY <1>1, <1>3, <1>6, <2>1 DEF PaymentOK, Known, At, Payment
<1>7. OwnSafe(p)
  BY <1>1, <1>4, <1>6 DEF OwnSafe, Joining
<1>8. (\A q \in Player \ {p} : Same(q)) /\ Receives(p)
  BY <1>1, <1>3 DEF Same, Receives, SameKnown, Found, Known
<1> QED  BY <1>4, <1>5, <1>7, <1>8, PlayerStep

\* /vote create: the row is written when no server knows the player.
LEMMA VoteWritesStep ==
    ASSUME Types, Types', CInv, Regular, NEW t \in Task, VoteWrites(t)
    PROVE  CInv'
<1>1. PICK p \in Player :
           /\ task[t] # None /\ task[t].kind = "vote" /\ task[t] \in Coroutine /\ task[t].who = p
           /\ task[t].read >= Gift /\ task[t].read \in Int
  BY TaskIs DEF VoteWrites, Is, VoteOK, Coroutine
<1>2. /\ Found(p) = {} /\ row[p] = task[t].read /\ UNCHANGED <<obj, seat, paid>>
      /\ \A u \in Task : task[u] # None /\ task[u].who = p => task[u].kind # "donate"
      /\ row' = IF row[p] = None THEN row ELSE [row EXCEPT ![p] = task[t].read - Gift]
      /\ Owes(p, -Gift) /\ Ends(t)
  BY <1>1 DEF VoteWrites, Regular, Keeps, Donating
<1>3. Books(p) /\ Flight(p) /\ due[p] \in 0..MaxPoints /\ Points(p) = due[p] /\ {Gift, MaxPoints} \subseteq Nat
      /\ row[p] # None /\ row[p] = due[p]
  BY <1>1, <1>2, CreditAssumption DEF CInv, PlayerOK, Books, Points
<1>4. /\ row'[p] = due[p] - Gift /\ due'[p] = Clip(due[p] + (-Gift))
      /\ \A q \in Player \ {p} : row'[q] = row[q] /\ due'[q] = due[q]
  BY <1>2, <1>3 DEF Types, Owes
<1>5. row'[p] = due'[p] /\ due'[p] <= due[p] /\ due'[p] \in 0..MaxPoints /\ row'[p] # None
  BY <1>1, <1>2, <1>3, <1>4, CreditAssumption DEF Clip
<1>6. task'[t] = None /\ (\A u \in Task \ {t} : task'[u] = task[u]) /\ Pairs' /\ Coro1(t)'
  BY <1>2, Ended
<1>7. ~Joining(p) /\ ~Paying(p)
  BY <1>2, NotJoining, NotPaying
<1>8. ~Paying(p)'
  BY <1>6, <1>7 DEF Paying
<1>9. PlayerOK(p)'
  <2>1. Books(p)'
    BY <1>2, <1>3, <1>5 DEF Books, Points, Known
  <2>2. Flight(p)'
    BY <1>2, <1>3, <1>7, <1>8 DEF Flight, At, Known
  <2>3. \A r \in Server : Object(r, p)'
    BY <1>2 DEF Object, Known, Found
  <2> QED  BY <2>1, <2>2, <2>3 DEF PlayerOK
<1>10. OwnSafe(p)
  BY <1>2, <1>7 DEF OwnSafe, Joining, Paying
<1>11. (\A q \in Player \ {p} : Same(q)) /\ Receives(p)
  <2>1. \A q \in Player \ {p} : Same(q)
    BY <1>2, <1>4 DEF Same
  <2>2. SameKnown(p) /\ Points(p)' <= Points(p)
    BY <1>2, <1>3, <1>5 DEF SameKnown, Points
  <2> QED  BY <2>1, <2>2 DEF Receives
<1>12. TasksOK(p)
  BY <1>1, <1>6 DEF TasksOK
<1> QED  BY <1>6, <1>9, <1>10, <1>11, <1>12, PlayerStep

\* /credits reset, for players no server knows.
LEMMA ResetStep ==
    ASSUME Types, Types', CInv, Regular, NEW group \in SUBSET Player, Reset(group)
    PROVE  CInv'
<1>1. /\ UNCHANGED <<obj, seat, task, paid>>
      /\ \A p \in group : Found(p) = {}
      /\ \A p \in group : \A u \in Task : task[u] # None /\ task[u].who = p => task[u].kind # "donate"
      /\ row' = [p \in Player |-> IF p \in group /\ row[p] # None THEN 0 ELSE row[p]]
      /\ due' = [p \in Player |-> IF p \in group THEN 0 ELSE due[p]]
  BY DEF Reset, Regular, Keeps, Donating, coroutines
<1>2. Within(group)
  <2>1. \A q \in Player \ group : Same(q)
    BY <1>1 DEF Same
  <2> QED  BY <1>1, <2>1 DEF Within
<1>3. Pairs' /\ \A p \in Player : Paying(p)' = Paying(p)
  BY <1>1, SameTasks
<1>4. ASSUME NEW p \in group
      PROVE  Receives(p) /\ OwnSafe(p) /\ PlayerOK(p)'
  <2>1. Books(p) /\ Flight(p) /\ Points(p) = due[p] /\ due[p] \in 0..MaxPoints /\ MaxPoints \in Nat
    BY CreditAssumption DEF CInv, PlayerOK, Books
  <2>2. Points(p)' = 0 /\ due'[p] = 0 /\ row'[p] \in {None} \cup Int
    BY <1>1, <2>1 DEF Points, Types
  <2>3. ~Joining(p) /\ ~Paying(p)
    BY <1>1, NotJoining, NotPaying
  <2>4. Receives(p)
    BY <1>1, <2>1, <2>2 DEF Receives, SameKnown
  <2>5. OwnSafe(p)
    BY <1>1, <2>3 DEF OwnSafe, Joining, Paying
  <2>6. Books(p)'
    BY <1>1, <2>1, <2>2 DEF Books, Known
  <2>7. Flight(p)'
    BY <1>1, <1>3, <2>1 DEF Flight, At, Known
  <2>8. \A r \in Server : Object(r, p)'
    BY <1>1 DEF Object, Known, Found
  <2> QED  BY <2>4, <2>5, <2>6, <2>7, <2>8 DEF PlayerOK
<1> QED  BY <1>1, <1>2, <1>3, <1>4, GroupStep

\* The bot restarts when nobody flies and no coroutine runs.
LEMMA BotRestartStep ==
    ASSUME Types, Types', CInv, Regular, BotRestart
    PROVE  CInv'
<1>1. /\ UNCHANGED <<row, seat, due, paid>>
      /\ (\A t \in Task : task[t] = None) /\ (\A p \in Player : ~At(p, {"air"}))
      /\ \A t \in Task : task'[t] = None
      /\ obj' = [s \in Server |-> [p \in Player |-> IF seat[p] # None /\ seat[p].srv = s
                                    THEN [points |-> Points(p), deposit |-> 0] ELSE None]]
  BY DEF BotRestart, Regular, Free, history
<1>2. ASSUME NEW p \in Player
      PROVE  PlayerOK(p)'
  <2>1. Books(p) /\ Flight(p) /\ due[p] \in 0..MaxPoints /\ Points(p) = due[p]
    BY DEF CInv, PlayerOK, Books
  <2>2. PICK a \in Account : a = [points |-> Points(p), deposit |-> 0]
    <3>1. Points(p) \in Nat
      BY <2>1, CreditAssumption
    <3> QED  BY <3>1 DEF Account
  <2>3. a.points = due[p] /\ a.deposit = 0 /\ a # None
    BY <2>1, <2>2, CreditAssumption
  <2>4. \A s \in Server : obj'[s][p] = IF seat[p] # None /\ seat[p].srv = s THEN a ELSE None
    BY <1>1, <2>2
  <2>5. Books(p)'
    BY <1>1, <2>1, <2>3, <2>4 DEF Books, Points, Known, Seat
  <2>6. Flight(p)'
    <3>1. ~Paying(p)
      BY <1>1 DEF Paying
    <3> QED  BY <1>1, <2>1, <2>3, <2>4, <3>1 DEF Flight, Known, At
  <2>7. \A s \in Server : Object(s, p)'
    BY <1>1, <2>3, <2>4 DEF Object, Known
  <2> QED  BY <2>5, <2>6, <2>7 DEF PlayerOK
<1>3. Pairs' /\ \A t \in Task : Coro1(t)'
  BY <1>1 DEF Pairs, Coro1
<1> QED  BY <1>2, <1>3 DEF CInv

\* The end of a mission: a refund for everybody the server knows.
LEMMA MissionEndStep ==
    ASSUME Types, Types', CInv, Regular, NEW s \in Server, MissionEnd(s)
    PROVE  CInv'
<1> DEFINE known == {p \in Player : Known(s, p)}
<1>1. /\ UNCHANGED <<row, obj, due, paid>> /\ Idle(s)
      /\ seat' = [p \in Player |-> IF Flies(p) /\ seat[p].srv = s
                                   THEN [seat[p] EXCEPT !.at = "ended"] ELSE seat[p]]
  BY DEF MissionEnd, Event, history
<1>2. ASSUME NEW p \in known
      PROVE  /\ ~Paying(p) /\ ~Joining(p)
             /\ paid[p] \in Nat
             /\ Payback => /\ IF At(p, {"air"}) THEN paid[p] >= Cost ELSE paid[p] = 0
                           /\ obj[s][p].deposit = paid[p]
             /\ seat[p] # None => seat[p].srv = s
             /\ \A r \in Server : Known(r, p) => r = s
  <2>1. ~Paying(p)
    BY <1>2, NotPaying DEF MissionEnd
  <2>2. ~Joining(p)
    <3>1. ASSUME NEW u \in Task, task[u] # None, task[u].kind = "prep", task[u].who = p
          PROVE  FALSE
      <4>1. task[u].srv \in Server /\ Known(task[u].srv, p)
        BY <3>1, TaskIs DEF PrepOK
      <4>2. task[u].srv = s
        BY <1>2, <4>1, SeatKnown
      <4> QED  BY <1>1, <3>1, <4>2 DEF Idle
    <3> QED  BY <3>1 DEF Joining
  <2>3. Flight(p) /\ paid[p] \in Nat
    BY DEF CInv, PlayerOK, Books
  <2>4. /\ seat[p] # None => seat[p].srv = s
        /\ \A r \in Server : Known(r, p) => r = s
    BY <1>2, SeatKnown
  <2> QED  BY <1>2, <2>1, <2>2, <2>3, <2>4 DEF Flight
<1>3. ASSUME NEW p \in known
      PROVE  /\ seat'[p] # None <=> seat[p] # None
             /\ seat'[p] # None => seat'[p] \in Seat /\ seat'[p].srv = s
             /\ ~At(p, {"air"})'
             /\ At(p, {"air"}) => At(p, {"ended"})'
  <2>1. CASE Flies(p)
    <3>1. seat[p] # None /\ seat[p].srv = s
      BY <1>2, <2>1 DEF Flies
    <3>2. PICK e \in Seat : e = [seat[p] EXCEPT !.at = "ended"]
      BY <3>1, SeatTypes DEF Seat
    <3>3. e.srv = s /\ e.at = "ended" /\ e # None
      BY <3>1, <3>2, SeatTypes, CreditAssumption DEF Seat
    <3>4. seat'[p] = e
      BY <1>1, <2>1, <3>1, <3>2
    <3> QED  BY <3>1, <3>3, <3>4 DEF At
  <2>2. CASE ~Flies(p)
    <3>1. seat'[p] = seat[p]
      BY <1>1, <2>2
    <3> QED  BY <1>2, <2>2, <3>1 DEF Types, At, Flies
  <2> QED  BY <2>1, <2>2
<1>4. \A q \in Player \ known : Same(q)
  <2>1. \A q \in Player \ known : seat'[q] = seat[q]
    BY <1>1, SeatKnown DEF Flies
  <2> QED  BY <1>1, <2>1 DEF Same
<1>5. /\ Within(known) /\ Pairs' /\ (\A t \in Task : task'[t] = task[t] \/ Coro1(t)')
      /\ \A t \in Task : Is(t, "pay", "lock")' => Is(t, "pay", "lock") /\ task'[t] = task[t]
      /\ \A p \in known : Payback => \E t \in Task : task'[t] # None /\ task'[t].kind \in Payment /\ task'[t].who = p
  <2>1. CASE ~Payback
    <3>1. task' = task
      BY <2>1 DEF MissionEnd, coroutines
    <3> QED  BY <1>4, <2>1, <3>1, SameTasks DEF Within
  <2>2. CASE Payback
    <3>1. PICK f \in [known -> {t \in Task : Free(t)}] :
              /\ \A p, q \in known : f[p] = f[q] => p = q
              /\ task' = [t \in Task |-> IF \E p \in known : f[p] = t
                                         THEN Coro("refund", "lock", CHOOSE p \in known : f[p] = t, s)
                                         ELSE task[t]]
      BY <2>2 DEF MissionEnd
    <3>2. ASSUME NEW p \in known
          PROVE  /\ f[p] \in Task /\ task[f[p]] = None
                 /\ task'[f[p]] = Coro("refund", "lock", p, s)
      <4>1. f[p] \in Task /\ task[f[p]] = None
        BY <3>1 DEF Free
      <4>2. (CHOOSE q \in known : f[q] = f[p]) = p
        BY <3>1
      <4> QED  BY <3>1, <4>1, <4>2
    <3>3. \A t \in Task : (\E p \in known : t = f[p]) \/ task'[t] = task[t]
      BY <3>1
    <3>4. ASSUME NEW p \in known
          PROVE  /\ Coro1(f[p])'
                 /\ task'[f[p]] # None /\ task'[f[p]].kind = "refund" /\ task'[f[p]].pc = "lock"
                 /\ task'[f[p]].who = p /\ task'[f[p]].srv = s
      <4>1. PICK c \in Coroutine : c = Coro("refund", "lock", p, s)
        BY CoroType DEF Payment
      <4>2. c.kind = "refund" /\ c.pc = "lock" /\ c.who = p /\ c.srv = s /\ c # None
        BY <4>1, CreditAssumption DEF Coro
      <4>3. task'[f[p]] = c
        BY <3>2, <4>1
      <4>4. Known(s, p)'
        BY <1>1 DEF Known
      <4>5. PaymentOK(c)'
        BY <1>1, <1>2, <1>3, <2>2, <4>2, <4>4 DEF PaymentOK
      <4>6. PrepOK(c)' /\ ChatOK(c)' /\ VoteOK(c)' /\ DonateOK(c)'
        BY <4>2 DEF PrepOK, ChatOK, VoteOK, DonateOK, Payment
      <4> QED  BY <4>2, <4>3, <4>5, <4>6 DEF Coro1, PrepOK, ChatOK, PaymentOK, VoteOK, DonateOK
    <3>5. Within(known)
      BY <1>4, <3>2, <3>3, <3>4 DEF Within
    <3>6. Pairs'
      <4> SUFFICES ASSUME NEW t \in Task, NEW u \in Task, t # u, task'[t] # None, task'[u] # None
                   PROVE  Apart(task'[t], task'[u])
        BY DEF Pairs
      <4>1. CASE task'[t] = task[t] /\ task'[u] = task[u]
        BY <4>1, Pair
      <4>2. ASSUME NEW p \in known, t = f[p], task'[u] = task[u]
            PROVE  Apart(task'[t], task'[u])
        BY <1>2, <3>4, <4>2 DEF Apart, Handler, Payment, Paying
      <4>3. ASSUME NEW p \in known, u = f[p], task'[t] = task[t]
            PROVE  Apart(task'[t], task'[u])
        BY <1>2, <3>4, <4>3 DEF Apart, Handler, Payment, Paying, Joining
      <4>4. ASSUME NEW p \in known, NEW q \in known, t = f[p], u = f[q]
            PROVE  Apart(task'[t], task'[u])
        BY <3>4, <4>4 DEF Apart, Handler, Payment
      <4> QED  BY <3>3, <4>1, <4>2, <4>3, <4>4
    <3>7. \A t \in Task : task'[t] = task[t] \/ Coro1(t)'
      BY <3>3, <3>4
    <3>8. \A t \in Task : Is(t, "pay", "lock")' => Is(t, "pay", "lock") /\ task'[t] = task[t]
      BY <3>3, <3>4 DEF Is
    <3> QED  BY <3>2, <3>4, <3>5, <3>6, <3>7, <3>8 DEF Payment
  <2> QED  BY <2>1, <2>2
<1> HIDE DEF known
<1>6. ASSUME NEW p \in known
      PROVE  Receives(p) /\ OwnSafe(p) /\ PlayerOK(p)'
  <2>1. p \in Player /\ Known(s, p)
    BY DEF known
  <2>2. Books(p) /\ \A r \in Server : Object(r, p)
    BY <2>1 DEF CInv, PlayerOK
  <2>3. Receives(p)
    BY <1>1, <2>1 DEF Receives, SameKnown, Found
  <2>4. Funds(p) => Funds(p)'
    BY <1>1, <1>5 DEF Funds
  <2>5. OwnSafe(p)
    BY <1>2, <2>4 DEF OwnSafe, Joining, Paying
  <2>6. Books(p)'
    BY <1>1, <1>3, <2>1, <2>2 DEF Books, Points, Known
  <2>7. Flight(p)'
    BY <1>5 DEF Flight, Paying
  <2>8. \A r \in Server : Object(r, p)'
    BY <1>1, <1>2, <1>3, <2>2 DEF Object, Known, Joining
  <2> QED  BY <2>3, <2>5, <2>6, <2>7, <2>8 DEF PlayerOK
<1>7. known \in SUBSET Player
  BY DEF known
<1> QED  BY <1>5, <1>6, <1>7, GroupStep

\* The receiver gets what the donor has lost, or loses now.
LEMMA DonateGivesStep ==
    ASSUME Types, Types', CInv, NEW t \in Task, DonateGives(t)
    PROVE  CInv'
<1>1. /\ task[t] # None /\ task[t].kind = "donate" /\ task[t].pc = "give" /\ task[t] \in Coroutine
      /\ DonateOK(task[t])
  BY TaskIs DEF DonateGives, Is
<1>2. PICK p \in Player, q \in Player, s \in Server \cup {None}, e \in Server \cup {None} :
           p = task[t].who /\ q = task[t].to /\ s = task[t].srv /\ e = task[t].dest /\ p # q
  BY <1>1, TaskIs DEF DonateOK
<1>3. /\ s = None => Found(p) = {} /\ Funds(p)
      /\ e = None => Found(q) = {} /\ Points(q) + Gift <= MaxPoints
      /\ e # None => e \in Server /\ Known(e, q)
  BY <1>1, <1>2 DEF DonateOK
<1>4. /\ Books(p) /\ Books(q) /\ Points(p) = due[p] /\ Points(q) = due[q]
      /\ due[p] \in 0..MaxPoints /\ due[q] \in 0..MaxPoints /\ {Gift, MaxPoints, Cost} \subseteq Nat \ {0}
      /\ s = None => due[p] >= Gift /\ row[p] # None /\ row[p] = due[p]
      /\ row[p] # None => row[p] = due[p]
  <2>1. /\ Books(p) /\ Books(q) /\ Points(p) = due[p] /\ Points(q) = due[q]
        /\ due[p] \in 0..MaxPoints /\ due[q] \in 0..MaxPoints /\ {Gift, MaxPoints, Cost} \subseteq Nat \ {0}
    BY CreditAssumption DEF CInv, PlayerOK, Books
  <2>2. s = None => due[p] >= Gift
    BY <1>3 DEF Funds
  <2> QED  BY <2>1, <2>2 DEF Points
<1>5. task'[t] = None /\ (\A u \in Task \ {t} : task'[u] = task[u]) /\ Pairs' /\ Coro1(t)'
  BY Ended DEF DonateGives
<1>6. ~Joining(p) /\ ~Joining(q)
  BY <1>1, <1>2, NotJoining DEF Donating
<1>7. UNCHANGED <<seat, paid>>
  BY DEF DonateGives
\* What happens to the row and the object of each.
<1> DEFINE left == IF s = None /\ row[p] # None THEN [row EXCEPT ![p] = @ - Gift] ELSE row
<1>8. /\ left[p] = IF s = None THEN due[p] - Gift ELSE row[p]
      /\ \A r \in Player \ {p} : left[r] = row[r]
      /\ left \in [Player -> {None} \cup Int]
  BY <1>4 DEF Types
<1>9. /\ due'[p] = IF s = None THEN due[p] - Gift ELSE due[p]
      /\ due'[q] = Clip(due[q] + Gift)
      /\ \A r \in Player \ {p, q} : due'[r] = due[r]
  <2>1. due' = [due EXCEPT ![p] = IF s = None THEN Clip(@ - Gift) ELSE @, ![q] = Clip(@ + Gift)]
    BY <1>2 DEF DonateGives
  <2>2. s = None => Clip(due[p] - Gift) = due[p] - Gift
    BY <1>4 DEF Clip
  <2> QED  BY <1>2, <2>1, <2>2 DEF Types
<1>10. due'[q] \in 0..MaxPoints /\ due'[q] >= due[q] /\ due'[p] \in 0..MaxPoints /\ due'[p] <= due[p]
       /\ (e = None => due'[q] = due[q] + Gift)
  <2>1. due'[q] \in 0..MaxPoints /\ due'[q] >= due[q] /\ (e = None => due'[q] = due[q] + Gift)
    BY <1>3, <1>4, <1>9 DEF Clip
  <2>2. due'[p] \in 0..MaxPoints /\ due'[p] <= due[p]
    BY <1>4, <1>9
  <2> QED  BY <2>1, <2>2
<1>11. /\ row' = [left EXCEPT ![q] = due'[q]]
       /\ \A r \in Player \ {q}, k \in Server : obj'[k][r] = obj[k][r]
       /\ \A k \in Server : Known(k, q) => /\ obj'[k][q] \in Account /\ obj'[k][q].points = due'[q]
                                             /\ obj'[k][q].deposit = obj[k][q].deposit
       /\ SameKnown(q)
  <2>1. CASE e = None
    <3>1. row' = [left EXCEPT ![q] = Points(q) + Gift] /\ obj' = obj
      BY <1>2, <2>1 DEF DonateGives
    <3> QED  BY <1>3, <1>4, <1>10, <2>1, <3>1 DEF Found, SameKnown
  <2>2. CASE e # None
    <3>1. Value(e, q) = due[q] /\ obj[e][q] \in Account /\ \A k \in Server : Known(k, q) => k = e
      BY <1>3, <2>2, ValueIs, SeatKnown
    <3>2. obj' = [obj EXCEPT ![e][q].points = due'[q]] /\ row' = [left EXCEPT ![q] = due'[q]]
      BY <1>2, <1>9, <2>2, <3>1 DEF DonateGives
    <3>3. PICK a \in Account : a = [obj[e][q] EXCEPT !.points = due'[q]]
      <4>1. due'[q] \in Nat
        BY <1>4, <1>10
      <4> QED  BY <3>1, <4>1 DEF Account
    <3>4. obj' = [obj EXCEPT ![e][q] = a]
      BY <3>2, <3>3
    <3>5. a.points = due'[q] /\ a.deposit = obj[e][q].deposit /\ a # None
      BY <3>1, <3>3, CreditAssumption DEF Account
    <3>6. obj'[e][q] = a /\ (\A k \in Server \ {e} : obj'[k][q] = obj[k][q])
          /\ \A r \in Player \ {q}, k \in Server : obj'[k][r] = obj[k][r]
      BY <1>3, <2>2, <3>4 DEF Types
    <3> QED  BY <1>3, <2>2, <3>1, <3>2, <3>5, <3>6 DEF Known, SameKnown
  <2> QED  BY <2>1, <2>2
<1>12. /\ row'[q] = due'[q] /\ row'[p] = left[p] /\ \A r \in Player \ {p, q} : row'[r] = row[r]
  <2>1. PICK l \in [Player -> {None} \cup Int] : l = left
    BY <1>8
  <2>2. row' = [l EXCEPT ![q] = due'[q]]
    BY <1>11, <2>1
  <2> QED  BY <1>2, <1>8, <2>1, <2>2
<1> HIDE DEF left
<1>13. Within({p, q})
  <2>1. \A r \in Player \ {p, q} : Same(r)
    BY <1>7, <1>9, <1>11, <1>12 DEF Same
  <2> QED  BY <1>1, <1>2, <1>5, <2>1 DEF Within
<1>14. \A r \in Player : Paying(r)' = Paying(r)
  <2>1. \A u \in Task : task'[u] = task[u] \/ (u = t /\ task[u].kind \notin Payment /\ task'[u] = None)
    BY <1>1, <1>5 DEF Payment
  <2> QED  BY <2>1 DEF Paying
<1>15. \A u \in Task : Is(u, "pay", "lock")' => Is(u, "pay", "lock") /\ task'[u] = task[u]
  BY <1>5 DEF Is
<1>16. \A u \in Task \ {t} : task[u] # None /\ task[u].kind = "donate" => task[u].who # p /\ task[u].to # q
  <2> TAKE u \in Task \ {t}
  <2> HAVE task[u] # None /\ task[u].kind = "donate"
  <2>1. Apart(task[t], task[u])
    BY <1>1, Pair
  <2> QED  BY <1>1, <1>2, <2>1 DEF Apart
<1>17. Receives(p) /\ OwnSafe(p) /\ PlayerOK(p)'
  <2>1. SameKnown(p) /\ \A k \in Server : obj'[k][p] = obj[k][p]
    BY <1>2, <1>11 DEF SameKnown
  <2>2. Points(p)' = due'[p] /\ row'[p] \in {None} \cup Int
    BY <1>4, <1>8, <1>9, <1>10, <1>12, CreditAssumption DEF Points
  <2>3. Receives(p)
    BY <1>4, <1>10, <2>1, <2>2 DEF Receives
  <2>4. ASSUME NEW u \in Task, task[u] # None, task[u].who = p, task'[u] = task[u]
        PROVE  /\ task[u].kind # "prep" /\ task[u].kind # "donate"
               /\ task[u].kind = "pay" /\ task[u].pc = "lock" => due'[p] >= Cost
    <3>1. u # t
      BY <1>1, <1>5, <2>4
    <3>2. PaymentOK(task[u])
      BY <2>4, TaskIs
    <3>3. task[u].kind = "pay" /\ task[u].pc = "lock" => due[p] >= Cost /\ s # None
      BY <1>3, <2>4, <3>2 DEF PaymentOK, Payment, Found
    <3> QED  BY <1>6, <1>9, <1>16, <2>4, <3>1, <3>3 DEF Joining
  <2>5. OwnSafe(p)
    BY <1>7, <2>1, <2>4 DEF OwnSafe
  <2>6. Flight(p) /\ \A r \in Server : Object(r, p)
    BY DEF CInv, PlayerOK
  <2>7. Books(p)'
    BY <1>4, <1>7, <1>10, <2>1, <2>2 DEF Books, Known, Seat
  <2>8. Flight(p)'
    BY <1>7, <1>14, <2>1, <2>6 DEF Flight, Known, At
  <2>9. \A r \in Server : Object(r, p)'
    <3>1. (s # None => due'[p] = due[p]) /\ (s = None => \A r \in Server : ~Known(r, p))
      BY <1>3, <1>9 DEF Found
    <3> QED  BY <1>6, <1>7, <2>1, <2>6, <3>1 DEF Object, Known
  <2> QED  BY <2>3, <2>5, <2>7, <2>8, <2>9 DEF PlayerOK
<1>18. Receives(q) /\ OwnSafe(q) /\ PlayerOK(q)'
  <2>1. Points(q)' = due'[q] /\ row'[q] \in {None} \cup Int
    BY <1>4, <1>10, <1>12, CreditAssumption DEF Points
  <2>2. Receives(q)
    BY <1>1, <1>5, <1>11, <1>16 DEF Receives, Donating
  <2>3. Funds(q) => Funds(q)'
    BY <1>10, <1>15, FundsKept
  <2>4. ASSUME NEW u \in Task, task[u] # None, task[u].who = q
        PROVE  /\ task[u].kind # "prep"
               /\ task[u].kind = "pay" /\ task[u].pc = "lock" => due'[q] >= Cost
    <3>1. PaymentOK(task[u])
      BY <2>4, TaskIs
    <3>2. task[u].kind = "pay" /\ task[u].pc = "lock" => due[q] >= Cost
      BY <2>4, <3>1 DEF PaymentOK, Payment
    <3> QED  BY <1>4, <1>6, <1>10, <2>4, <3>2 DEF Joining
  <2>5. OwnSafe(q)
    BY <1>7, <1>11, <2>3, <2>4 DEF OwnSafe
  <2>6. Flight(q) /\ \A r \in Server : Object(r, q)
    BY DEF CInv, PlayerOK
  <2>7. Books(q)'
    BY <1>4, <1>7, <1>10, <1>11, <2>1 DEF Books, Known, Seat, SameKnown
  <2>8. Flight(q)'
    BY <1>7, <1>11, <1>14, <2>6 DEF Flight, Known, At, SameKnown
  <2>9. \A r \in Server : Object(r, q)'
    BY <1>7, <1>11, <2>6 DEF Object, Known, SameKnown
  <2> QED  BY <2>2, <2>5, <2>7, <2>8, <2>9 DEF PlayerOK
<1> QED  BY <1>5, <1>13, <1>17, <1>18, GroupStep

-----------------------------------------------------------------------------
(* The invariant.                                                          *)

\* The invariant holds in the beginning.
LEMMA InitInv ==
    ASSUME Init
    PROVE  CInv
<1>1. ASSUME NEW p \in Player
      PROVE  PlayerOK(p)
  <2>1. row[p] \in {None} \cup 0..MaxPoints /\ due[p] = Points(p) /\ paid[p] = 0 /\ seat[p] = None
        /\ \A s \in Server : obj[s][p] = None
    BY CreditAssumption DEF Init
  <2>2. Points(p) \in 0..MaxPoints /\ MaxPoints \in Nat
    BY <2>1, CreditAssumption DEF Points
  <2> QED  BY <2>1, <2>2 DEF PlayerOK, Books, Flight, Object, Known, At
<1>2. \A t \in Task : task[t] = None
  BY DEF Init
<1> QED  BY <1>1, <1>2 DEF CInv, Coro1, Pairs

\* Every step keeps it, ...
LEMMA StepInv ==
    ASSUME Regular, Types, CInv, Next
    PROVE  CInv'
<1>1. Types'
  BY StepTypes
<1>2. ASSUME NEW p \in Player,
             \/ Leave(p) \/ Takeoff(p) \/ Land(p) \/ Killed(p) \/ TeamKilled(p) \/ Crash(p)
             \/ Earns(p) \/ ChatVote(p) \/ Punish(p) \/ VoteAsk(p)
             \/ \E s \in Server : Join(p, s)
             \/ \E place \in {"slot", "spectator"} : ChangeSlot(p, place)
             \/ \E q \in Player : ChatDonate(p, q) \/ DonateAsk(p, q)
      PROVE  CInv'
  BY <1>1, <1>2, ForfeitStep, TakeoffStep, LandStep, EarnsStep, ChargeStep, VoteAskStep, NewPlayer,
     KnownPlayer, ChangeSlotStep, ChatDonateStep, DonateAskStep
<1>3. ASSUME NEW t \in Task,
             \/ PrepReads(t) \/ PrepSets(t)
             \/ PayBegin(t) \/ PayEnd(t) \/ PaybackBegin(t) \/ PaybackEnd(t)
             \/ ChatGives(t) \/ DonateLook(t) \/ DonateTakes(t) \/ DonateGives(t) \/ VoteWrites(t)
      PROVE  CInv'
  BY <1>1, <1>3, PrepReadsStep, PrepSetsStep, PayBeginStep, PayEndStep, PaybackBeginStep,
     ChatGivesStep, DonateLookStep, DonateTakesStep, DonateGivesStep, VoteWritesStep
<1> QED  BY <1>1, <1>2, <1>3, MissionEndStep, ResetStep, BotRestartStep DEF Next

\* ... and so does a step that changes nothing.
LEMMA StutterInv ==
    ASSUME Types, CInv, UNCHANGED vars
    PROVE  Types' /\ CInv'
<1>1. UNCHANGED <<row, obj, seat, task, due, paid>>
  BY DEF vars, coroutines, history
<1>2. Types'
  BY <1>1 DEF Types
<1>3. Pairs'
  BY <1>1, SameTasks
<1> QED  BY <1>1, <1>2, <1>3, QuietStep

\* The inductive invariant.
LEMMA Invariant ==
    ASSUME Regular
    PROVE  Spec => [](Types /\ CInv)
<1>1. Init => Types /\ CInv
  BY InitTypes, InitInv
<1>2. Types /\ CInv /\ [Next]_vars => (Types /\ CInv)'
  BY StepTypes, StepInv, StutterInv
<1> QED  BY <1>1, <1>2, PTL DEF Spec

-----------------------------------------------------------------------------
(* The properties.                                                         *)

\* Whatever order events, payments, donations, votes and punishments come in: the row of
\* every player and what a server remembers of him are the points he should have
\* (CreditPlayer.points), as long as nothing happens that May names.
THEOREM LedgerKept ==
    ASSUME Regular
    PROVE  Spec => []Ledger
<1>1. Types /\ CInv => Ledger
  BY ValueIs DEF Ledger, CInv, PlayerOK, Books
<1> QED  BY <1>1, Invariant, PTL

\* What a receiver is given, in the chat or in Discord, his donor has lost in full.
THEOREM GiftsPaid ==
    ASSUME Regular
    PROVE  Spec => []GiftsArePaid
<1>1. Types /\ CInv => GiftsArePaid
  <2> SUFFICES ASSUME Types, CInv, NEW t \in Task, task[t] # None, task[t].pc = "give"
               PROVE  task[t].taken = Gift
    BY DEF GiftsArePaid
  <2>1. task[t] \in Coroutine /\ PrepOK(task[t]) /\ ChatOK(task[t]) /\ PaymentOK(task[t])
        /\ VoteOK(task[t]) /\ DonateOK(task[t])
    BY TaskIs
  <2> QED  BY <2>1 DEF PrepOK, ChatOK, PaymentOK, VoteOK, DonateOK, Coroutine
<1> QED  BY <1>1, Invariant, PTL

\* With payback.on_landing or refunds a plane in the air is paid for in full, and the
\* deposit of the player is what he has paid and earned in it.
THEOREM FlightsPaid ==
    ASSUME Regular, Payback
    PROVE  Spec => []FlightsArePaid
<1>1. Types /\ CInv => FlightsArePaid
  <2> SUFFICES ASSUME Types, CInv, NEW p \in Player, ~Paying(p)
               PROVE  /\ At(p, {"air"}) => paid[p] >= Cost
                      /\ Payback /\ seat[p] # None => Deposit(seat[p].srv, p) = paid[p]
    BY DEF FlightsArePaid
  <2>1. Flight(p)
    BY DEF CInv, PlayerOK
  <2>2. seat[p] # None => seat[p].srv \in Server /\ Known(seat[p].srv, p)
    BY SeatKnown
  <2> QED  BY <2>1, <2>2 DEF Flight, Deposit
<1> QED  BY <1>1, Invariant, PTL
=============================================================================
