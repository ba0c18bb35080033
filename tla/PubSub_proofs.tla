--------------------------- MODULE PubSub_proofs ---------------------------
(***************************************************************************)
(* Proofs about PubSub for any number of nodes, messages and faults: no    *)
(* message is lost unnoticed, the channel implements Mailbox, and handles  *)
(* a message once while nothing fails.                                     *)
(***************************************************************************)
EXTENDS PubSub, TLAPS

\* The variables the argument needs, with their types.
Types ==
    /\ table \subseteq Row /\ nextId \in Nat
    /\ dest \in [Node -> Seq(Address)] /\ taken \in [Node -> Nat]
    /\ hand \in [Node -> BOOLEAN]
    /\ writer \in [Node -> Worker \cup {"get", "insert"}]
    /\ batch \in [Node -> SUBSET Nat]
    /\ times \in [Message -> 0..2]
    /\ dropped \subseteq Message /\ readdressed \subseteq Message

\* The write worker has a message in hand from the queue to its INSERT.
WriterShape == \A n \in Node :
    /\ taken[n] <= Len(dest[n]) /\ Len(dest[n]) <= MaxMessages
    /\ hand[n] => taken[n] >= 1 /\ writer[n] \in {"insert", "connect", "backoff"}
    /\ writer[n] = "insert" => hand[n]
    /\ writer[n] = "off" => taken[n] = Len(dest[n]) /\ ~hand[n]

\* Rows are numbered from below and hold messages that were taken.
RowShape ==
    /\ \A r \in table : r.id < nextId /\ r.msg.num <= taken[r.msg.from]
    /\ \A q, r \in table : q.id = r.id => q = r

\* The read worker deletes only rows for which it has started a handler.
BatchHandled == \A n \in Node :
    /\ \A i \in batch[n] : i < nextId
    /\ \A r \in table : r.id \in batch[n] => Handled(r.msg)

\* Every message is accounted for.
Waiting(n, k) == k > taken[n] \/ (hand[n] /\ k = taken[n])
Accounted(n, k) ==
    Waiting(n, k) \/ InTable(Msg(n, k)) \/ Handled(Msg(n, k)) \/ Msg(n, k) \in dropped
AllAccounted == \A n \in Node : \A k \in 1..Len(dest[n]) : Accounted(n, k)

Core == Types /\ WriterShape /\ RowShape /\ BatchHandled /\ AllAccounted

-----------------------------------------------------------------------------
\* A published message is a Message, and different numbers are different ones.
LEMMA MsgType ==
    ASSUME WriterShape, Types, NEW n \in Node, NEW k \in 1..Len(dest[n])
    PROVE  Msg(n, k) \in Message /\ Msg(n, k).from = n /\ Msg(n, k).num = k
<1>1. Len(dest[n]) \in Nat /\ Len(dest[n]) <= MaxMessages
  BY DEF Types, WriterShape
<1> QED  BY <1>1, ChannelAssumption DEF Msg, Message

\* Handling messages never makes one unhandled.
LEMMA StartedHandles ==
    ASSUME Types, NEW rows \in SUBSET table, times' = Started(rows)
    PROVE  /\ times' \in [Message -> 0..2]
           /\ \A m \in Message : Handled(m)' <=> Handled(m) \/ \E r \in rows : r.msg = m
<1>1. times' \in [Message -> 0..2]
  BY DEF Types, Started
<1>2. ASSUME NEW m \in Message
      PROVE  Handled(m)' <=> Handled(m) \/ \E r \in rows : r.msg = m
  <2>1. times'[m] = LET hits == {r \in rows : r.msg = m}
                    IN  IF hits = {} THEN times[m]
                        ELSE IF times[m] = 0 /\ \E r \in hits : hits = {r} THEN 1 ELSE 2
    BY DEF Started
  <2>2. times[m] \in 0..2
    BY DEF Types
  <2>3. CASE {r \in rows : r.msg = m} = {}
    BY <2>1, <2>3 DEF Handled
  <2>4. CASE {r \in rows : r.msg = m} # {}
    BY <2>1, <2>2, <2>4 DEF Handled
  <2> QED  BY <2>3, <2>4
<1> QED  BY <1>1, <1>2

\* The write worker ends: everything in its queue and hand is dropped.
LEMMA EndsKeeps ==
    ASSUME Core, NEW n \in Node, NEW lost, WriterEnds(n, lost), lost \subseteq Message,
           \A k \in 1..Len(dest[n]) : Waiting(n, k) =>
               Msg(n, k) \in lost \/ InTable(Msg(n, k))',
           UNCHANGED <<dest, times>>, table \subseteq table'
    PROVE  WriterShape' /\ AllAccounted'
<1> USE DEF Core, Types
<1>1. WriterShape'
  BY DEF WriterEnds, WriterShape
<1>2. ASSUME NEW m \in Node, NEW k \in 1..Len(dest[m])
      PROVE  Accounted(m, k)'
  <2>1. Accounted(m, k)
    BY DEF AllAccounted
  <2>2. InTable(Msg(m, k)) => InTable(Msg(m, k))'
    BY DEF InTable, Msg
  <2>3. dropped' = dropped \cup lost
    BY DEF WriterEnds
  <2>4. CASE m = n
    BY <2>1, <2>2, <2>3, <2>4 DEF Accounted, Handled, Msg
  <2>5. CASE m # n
    <3>1. taken'[m] = taken[m] /\ hand'[m] = hand[m]
      BY <2>5 DEF WriterEnds
    <3> QED  BY <2>1, <2>2, <2>3, <3>1, Zenon DEF Accounted, Handled, Waiting, Msg
  <2> QED  BY <2>4, <2>5
<1> QED  BY <1>1, <1>2 DEF AllAccounted

-----------------------------------------------------------------------------
(* Each action keeps Core.                                                 *)

coreVars == <<table, nextId, dest, taken, hand, writer, batch, times, dropped, readdressed>>

\* What is in the queue or in hand is in Unwritten.
LEMMA UnwrittenMsgs ==
    ASSUME Core, NEW n \in Node
    PROVE  /\ Unwritten(n) \subseteq Message
           /\ \A k \in 1..Len(dest[n]) : Waiting(n, k) => Msg(n, k) \in Unwritten(n)
           /\ \A k \in 1..Len(dest[n]) : Waiting(n, k) /\ k # taken[n]
                => Msg(n, k) \in Unwritten(n) \ {Current(n)}
<1>1. \A k \in 1..Len(dest[n]) : Msg(n, k) \in Message /\ Msg(n, k).num = k
  BY MsgType DEF Core
<1>2. Unwritten(n) \subseteq Message
  BY <1>1 DEF Unwritten
<1>3. \A k \in 1..Len(dest[n]) : Waiting(n, k) => Msg(n, k) \in Unwritten(n)
  BY DEF Unwritten, Waiting
<1>4. ASSUME NEW k \in 1..Len(dest[n]), k # taken[n]
      PROVE  Msg(n, k) # Current(n)
  BY <1>4 DEF Msg, Current
<1> QED  BY <1>2, <1>3, <1>4

\* publish()
LEMMA PublishKeeps ==
    ASSUME Core, NEW n \in Node, Publish(n)
    PROVE  Core'
<1> USE ChannelAssumption DEF Core, Types, tableVars, readerVars
<1>1. PICK a \in Address : dest' = [dest EXCEPT ![n] = Append(@, a)]
  BY DEF Publish, Address
<1>2. /\ Len(dest[n]) \in Nat /\ Len(dest[n]) < MaxMessages /\ Len(dest'[n]) = Len(dest[n]) + 1
      /\ \A m \in Node \ {n} : dest'[m] = dest[m]
      /\ UNCHANGED <<tableVars, hand, writer, batch, times, readdressed>>
      /\ dest' \in [Node -> Seq(Address)]
  BY <1>1 DEF Publish
<1>3. Msg(n, Len(dest[n]) + 1) \in Message
  BY <1>2 DEF Msg, Message
<1>4. CASE writer[n] = "off"
  <2>1. /\ taken' = [taken EXCEPT ![n] = @ + 1]
        /\ dropped' = dropped \cup {Msg(n, Len(dest[n]) + 1)}
    BY <1>4 DEF Publish
  <2>2. Types'
    BY <1>2, <1>3, <2>1
  <2>3. WriterShape'
    BY <1>2, <1>4, <2>1 DEF WriterShape
  <2>4. RowShape'
    BY <1>2, <2>1 DEF RowShape, Row, Message
  <2>5. BatchHandled'
    BY <1>2 DEF BatchHandled, Handled
  <2>6. ASSUME NEW m \in Node, NEW k \in 1..Len(dest'[m])
        PROVE  Accounted(m, k)'
    <3>1. CASE m = n /\ k = Len(dest[n]) + 1
      BY <2>1, <3>1 DEF Accounted
    <3>2. CASE ~(m = n /\ k = Len(dest[n]) + 1)
      <4>1. k \in 1..Len(dest[m])
        BY <1>2, <3>2
      <4>2. Accounted(m, k)
        BY <4>1 DEF AllAccounted
      <4>3. ~Waiting(n, k) \/ m # n
        BY <1>4, <4>1 DEF WriterShape, Waiting
      <4>4. m # n => taken'[m] = taken[m]
        BY <2>1
      <4> QED  BY <1>2, <2>1, <4>2, <4>3, <4>4, Zenon
               DEF Accounted, Waiting, InTable, Handled, Msg
    <3> QED  BY <3>1, <3>2
  <2> QED  BY <2>2, <2>3, <2>4, <2>5, <2>6 DEF AllAccounted
<1>5. CASE writer[n] # "off"
  <2>1. UNCHANGED <<taken, dropped>>
    BY <1>5 DEF Publish
  <2>2. Types'
    BY <1>2, <2>1
  <2>3. WriterShape'
    <3>1. \A m \in Node : Len(dest[m]) \in Nat /\ Len(dest'[m]) >= Len(dest[m])
                        /\ Len(dest'[m]) <= MaxMessages
      <4>1. \A m \in Node : Len(dest[m]) \in Nat /\ Len(dest[m]) <= MaxMessages
        BY DEF WriterShape
      <4>2. Len(dest'[n]) \in Nat /\ Len(dest'[n]) >= Len(dest[n]) /\ Len(dest'[n]) <= MaxMessages
        BY <1>2, ChannelAssumption
      <4>3. \A m \in Node \ {n} : Len(dest'[m]) = Len(dest[m])
        BY <1>2
      <4>4. ASSUME NEW m \in Node
            PROVE  Len(dest[m]) \in Nat /\ Len(dest'[m]) >= Len(dest[m])
                   /\ Len(dest'[m]) <= MaxMessages
        <5>1. CASE m = n
          BY <4>1, <4>2, <5>1
        <5>2. CASE m # n
          BY <4>1, <4>3, <5>2
        <5> QED  BY <5>1, <5>2
      <4> QED  BY <4>4
    <3>2. UNCHANGED <<taken, hand, writer>>
      BY <1>2, <2>1
    <3>3. ASSUME NEW m \in Node
          PROVE  taken[m] <= Len(dest'[m])
      BY <3>1 DEF WriterShape
    <3>4. ASSUME NEW m \in Node, writer[m] = "off"
          PROVE  taken[m] = Len(dest'[m])
      BY <1>2, <1>5, <3>4 DEF WriterShape
    <3> QED  BY <3>1, <3>2, <3>3, <3>4, Zenon DEF WriterShape
  <2>4. RowShape' /\ BatchHandled'
    BY <1>2, <2>1 DEF RowShape, BatchHandled, Handled
  <2>5. ASSUME NEW m \in Node, NEW k \in 1..Len(dest'[m])
        PROVE  Accounted(m, k)'
    <3>1. CASE m = n /\ k = Len(dest[n]) + 1
      BY <1>2, <2>1, <3>1 DEF Accounted, Waiting, WriterShape
    <3>2. CASE ~(m = n /\ k = Len(dest[n]) + 1)
      <4>1. k \in 1..Len(dest[m])
        BY <1>2, <3>2
      <4>2. Accounted(m, k)
        BY <4>1 DEF AllAccounted
      <4> QED  BY <1>2, <2>1, <4>2 DEF Accounted, Waiting, InTable, Handled, Msg
    <3> QED  BY <3>1, <3>2
  <2> QED  BY <2>2, <2>3, <2>4, <2>5 DEF AllAccounted
<1> QED  BY <1>4, <1>5

\* The writer only moves on: (re)start, connection, back-off.
LEMMA WriterMoves ==
    ASSUME Core, NEW n \in Node, NEW w,
           writer' = [writer EXCEPT ![n] = w],
           w \in {"get", "insert", "connect", "backoff"},
           w = "get" => ~hand[n], w = "insert" => hand[n],
           UNCHANGED <<table, nextId, dest, taken, hand, batch, times, dropped, readdressed>>
    PROVE  Core'
<1> USE DEF Core, Types
<1>1. Types'
  BY DEF Worker
<1>2. WriterShape'
  BY DEF WriterShape
<1>3. RowShape' /\ BatchHandled' /\ AllAccounted'
  BY DEF RowShape, BatchHandled, Handled, AllAccounted, Accounted, Waiting, InTable, Msg
<1> QED  BY <1>1, <1>2, <1>3

\* The writer takes the next message.
LEMMA TakesKeeps ==
    ASSUME Core, NEW n \in Node, WriterTakes(n)
    PROVE  Core'
<1> USE DEF Core, Types, tableVars, readerVars, history
<1>1. /\ taken' = [taken EXCEPT ![n] = @ + 1] /\ hand' = [hand EXCEPT ![n] = TRUE]
      /\ writer' = [writer EXCEPT ![n] = "insert"]
      /\ UNCHANGED <<table, nextId, dest, batch, times, dropped, readdressed>>
      /\ taken[n] < Len(dest[n]) /\ ~hand[n]
  BY DEF WriterTakes, WriterShape
<1>2. Types'
  BY <1>1
<1>3. WriterShape'
  BY <1>1 DEF WriterShape
<1>4. RowShape' /\ BatchHandled'
  BY <1>1 DEF RowShape, BatchHandled, Handled, Row, Message
<1>5. ASSUME NEW m \in Node, NEW k \in 1..Len(dest[m])
      PROVE  Accounted(m, k)'
  <2>1. Accounted(m, k)
    BY DEF AllAccounted
  <2>2. Waiting(m, k) => Waiting(m, k)'
    BY <1>1 DEF Waiting
  <2> QED  BY <1>1, <2>1, <2>2 DEF Accounted, InTable, Handled, Msg
<1> QED  BY <1>1, <1>2, <1>3, <1>4, <1>5 DEF AllAccounted

\* The writer is through with its message: it is a row now, or dropped.
LEMMA ProceedsKeeps ==
    ASSUME Core, NEW n \in Node, NEW lost \in SUBSET Message, WriterProceeds(n, lost),
           writer[n] = "insert", Current(n) \in lost \/ \E r \in table' : r.msg = Current(n),
           UNCHANGED <<dest, times>>, table \subseteq table'
    PROVE  WriterShape' /\ AllAccounted' /\ taken' \in [Node -> Nat]
           /\ hand' \in [Node -> BOOLEAN]
           /\ writer' \in [Node -> Worker \cup {"get", "insert"}]
           /\ dropped' \subseteq Message /\ \A m \in Node : taken'[m] >= taken[m]
<1>1. CASE stop[n]
  <2> DEFINE all == lost \cup (Unwritten(n) \ {Current(n)})
  <2>1. WriterEnds(n, all)
    BY <1>1 DEF WriterProceeds
  <2>2. all \subseteq Message
    BY UnwrittenMsgs
  <2>3. ASSUME NEW k \in 1..Len(dest[n]), Waiting(n, k)
        PROVE  Msg(n, k) \in all \/ InTable(Msg(n, k))'
    <3>1. CASE k = taken[n]
      BY <3>1 DEF Current, InTable, Msg
    <3>2. CASE k # taken[n]
      BY <2>3, <3>2, UnwrittenMsgs
    <3> QED  BY <3>1, <3>2
  <2> HIDE DEF all
  <2>4. WriterShape' /\ AllAccounted'
    BY <2>1, <2>2, <2>3, EndsKeeps
  <2>5. /\ taken' \in [Node -> Nat] /\ hand' \in [Node -> BOOLEAN]
        /\ writer' \in [Node -> Worker \cup {"get", "insert"}]
        /\ dropped' \subseteq Message /\ \A m \in Node : taken'[m] >= taken[m]
    BY <2>1, <2>2 DEF WriterEnds, Core, Types, Worker, WriterShape
  <2> QED  BY <2>4, <2>5
<1>2. CASE ~stop[n]
  <2> USE DEF Core, Types
  <2>1. /\ hand' = [hand EXCEPT ![n] = FALSE] /\ writer' = [writer EXCEPT ![n] = "get"]
        /\ dropped' = dropped \cup lost /\ UNCHANGED taken
    BY <1>2 DEF WriterProceeds
  <2>2. WriterShape'
    BY <2>1 DEF WriterShape
  <2>3. ASSUME NEW m \in Node, NEW k \in 1..Len(dest[m])
        PROVE  Accounted(m, k)'
    <3>1. Accounted(m, k)
      BY DEF AllAccounted
    <3>2. InTable(Msg(m, k)) => InTable(Msg(m, k))'
      BY DEF InTable, Msg
    <3>3. CASE m = n /\ k = taken[n]
      BY <2>1, <3>3 DEF Accounted, Current, InTable, Msg
    <3>4. CASE ~(m = n /\ k = taken[n])
      <4>1. Waiting(m, k) => Waiting(m, k)'
        BY <2>1, <3>4 DEF Waiting
      <4> QED  BY <2>1, <3>1, <3>2, <4>1 DEF Accounted, Handled, Msg
    <3> QED  BY <3>3, <3>4
  <2> QED  BY <2>1, <2>2, <2>3 DEF AllAccounted, Worker
<1> QED  BY <1>1, <1>2

\* The INSERT of the message in hand.
RowAdded(n) == table' = table \cup {NewRow(n)} /\ nextId' = nextId + 1

LEMMA RowAddedShape ==
    ASSUME Core, NEW n \in Node, hand[n], RowAdded(n), UNCHANGED times,
           \A m \in Node : taken'[m] \in Nat /\ taken'[m] >= taken[m]
    PROVE  /\ table' \subseteq Row /\ nextId' \in Nat /\ RowShape'
           /\ \A m \in Node : /\ \A i \in batch[m] : i < nextId'
                               /\ \A r \in table' : r.id \in batch[m] => Handled(r.msg)
<1> USE DEF Core, Types
<1>1. taken[n] \in 1..Len(dest[n])
  BY DEF WriterShape
<1>2. Current(n) \in Message /\ Current(n).from = n /\ Current(n).num = taken[n]
  BY <1>1, MsgType DEF Current
<1>3. dest[n][taken[n]] \in Address
  BY <1>1
<1>4. NewRow(n) \in Row /\ NewRow(n).id = nextId /\ NewRow(n).msg = Current(n)
  BY <1>2, <1>3 DEF NewRow, Row
<1>5. table' \subseteq Row /\ nextId' \in Nat /\ table \subseteq table'
  BY <1>4 DEF RowAdded
<1>6. RowShape'
  <2>1. ASSUME NEW r \in table
        PROVE  r.id < nextId' /\ r.msg.num <= taken'[r.msg.from]
    BY DEF RowShape, RowAdded, Row, Message
  <2>2. NewRow(n).id < nextId' /\ NewRow(n).msg.num <= taken'[NewRow(n).msg.from]
    BY <1>2, <1>4 DEF RowAdded
  <2>3. \A q, r \in table' : q.id = r.id => q = r
    BY <1>4 DEF RowShape, RowAdded, Row
  <2> QED  BY <2>1, <2>2, <2>3 DEF RowShape, RowAdded
<1>7. ASSUME NEW m \in Node
      PROVE  /\ \A i \in batch[m] : i < nextId'
             /\ \A r \in table' : r.id \in batch[m] => Handled(r.msg)
  BY <1>4 DEF BatchHandled, RowAdded, Handled
<1> QED  BY <1>5, <1>6, <1>7

LEMMA RowAddedKeeps ==
    ASSUME Core, NEW n \in Node, hand[n], RowAdded(n), UNCHANGED <<dest, times, batch>>,
           \A m \in Node : taken'[m] \in Nat /\ taken'[m] >= taken[m]
    PROVE  table' \subseteq Row /\ nextId' \in Nat /\ RowShape' /\ BatchHandled'
  BY RowAddedShape DEF BatchHandled, Handled

\* The table as it was, while the writers move on.
LEMMA SameTableKeeps ==
    ASSUME Core, UNCHANGED <<table, nextId, times, batch>>,
           \A m \in Node : taken'[m] \in Nat /\ taken'[m] >= taken[m]
    PROVE  RowShape' /\ BatchHandled'
  BY DEF Core, Types, RowShape, BatchHandled, Handled, Row, Message

LEMMA InsertsKeeps ==
    ASSUME Core, NEW n \in Node, WriterInserts(n)
    PROVE  Core'
<1>1. /\ RowAdded(n) /\ WriterProceeds(n, {}) /\ writer[n] = "insert" /\ hand[n]
      /\ UNCHANGED <<dest, batch, times, readdressed>> /\ table \subseteq table'
  BY DEF WriterInserts, RowAdded, readerVars, Core, WriterShape
<1>2. \E r \in table' : r.msg = Current(n)
  <2>1. NewRow(n) \in table'
    BY <1>1 DEF RowAdded
  <2>2. NewRow(n).msg = Current(n)
    BY DEF NewRow
  <2> QED  BY <2>1, <2>2
<1>3. /\ WriterShape' /\ AllAccounted' /\ taken' \in [Node -> Nat] /\ hand' \in [Node -> BOOLEAN]
      /\ writer' \in [Node -> Worker \cup {"get", "insert"}] /\ dropped' \subseteq Message
      /\ \A m \in Node : taken'[m] >= taken[m]
  BY <1>1, <1>2, ProceedsKeeps
<1>4. /\ table' \subseteq Row /\ nextId' \in Nat /\ RowShape' /\ BatchHandled'
  BY <1>1, <1>3, RowAddedKeeps
<1> QED  BY <1>1, <1>3, <1>4 DEF Core, Types

LEMMA RejectsKeeps ==
    ASSUME Core, NEW n \in Node, WriterRejects(n)
    PROVE  Core'
<1>1. /\ WriterProceeds(n, {Current(n)}) /\ writer[n] = "insert" /\ hand[n]
      /\ UNCHANGED <<table, nextId, dest, batch, times, readdressed>>
  BY DEF WriterRejects, tableVars, readerVars, Core, WriterShape
<1>2. {Current(n)} \in SUBSET Message
  <2>1. taken[n] \in 1..Len(dest[n])
    BY <1>1 DEF Core, Types, WriterShape
  <2> QED  BY <2>1, MsgType DEF Current, Core
<1>3. /\ WriterShape' /\ AllAccounted' /\ taken' \in [Node -> Nat] /\ hand' \in [Node -> BOOLEAN]
      /\ writer' \in [Node -> Worker \cup {"get", "insert"}] /\ dropped' \subseteq Message
      /\ \A m \in Node : taken'[m] >= taken[m]
  BY <1>1, <1>2, ProceedsKeeps
<1>4. RowShape' /\ BatchHandled'
  BY <1>1, <1>3, SameTableKeeps
<1> QED  BY <1>1, <1>3, <1>4 DEF Core, Types

\* The write worker ends and drops all it has.
LEMMA EndsAllKeeps ==
    ASSUME Core, NEW n \in Node, NEW lost \in SUBSET Unwritten(n), WriterEnds(n, lost),
           \A k \in 1..Len(dest[n]) : Waiting(n, k) => Msg(n, k) \in lost,
           UNCHANGED <<dest, times, readdressed>>, table \subseteq table'
    PROVE  /\ WriterShape' /\ AllAccounted' /\ taken' \in [Node -> Nat]
           /\ hand' \in [Node -> BOOLEAN]
           /\ writer' \in [Node -> Worker \cup {"get", "insert"}]
           /\ dropped' \subseteq Message /\ \A m \in Node : taken'[m] >= taken[m]
<1>1. lost \subseteq Message
  BY UnwrittenMsgs
<1>2. WriterShape' /\ AllAccounted'
  BY <1>1, EndsKeeps
<1> QED  BY <1>1, <1>2 DEF WriterEnds, Core, Types, Worker, WriterShape

\* WriterRetries(): a back-off, or the end of the worker.
LEMMA RetriesKeeps ==
    ASSUME Core, NEW n \in Node, WriterRetries(n), writer[n] # "off",
           UNCHANGED <<dest, times, readdressed>>, table \subseteq table'
    PROVE  /\ WriterShape' /\ AllAccounted' /\ taken' \in [Node -> Nat]
           /\ hand' \in [Node -> BOOLEAN]
           /\ writer' \in [Node -> Worker \cup {"get", "insert"}]
           /\ dropped' \subseteq Message /\ \A m \in Node : taken'[m] >= taken[m]
<1>1. CASE WriterEnds(n, Unwritten(n))
  BY <1>1, UnwrittenMsgs, EndsAllKeeps
<1>2. CASE writer' = [writer EXCEPT ![n] = "backoff"] /\ UNCHANGED <<taken, hand, dropped>>
  <2> USE DEF Core, Types
  <2>1. WriterShape'
    BY <1>2 DEF WriterShape
  <2>2. ASSUME NEW m \in Node, NEW k \in 1..Len(dest[m])
        PROVE  Accounted(m, k)'
    BY <1>2 DEF AllAccounted, Accounted, Waiting, InTable, Handled, Msg
  <2> QED  BY <1>2, <2>1, <2>2 DEF AllAccounted, Worker
<1> QED  BY <1>1, <1>2 DEF WriterRetries

LEMMA LosesConnectionKeeps ==
    ASSUME Core, NEW n \in Node, WriterLosesConnection(n)
    PROVE  Core'
<1>1. /\ WriterRetries(n) /\ writer[n] = "insert" /\ hand[n]
      /\ UNCHANGED <<dest, batch, times, readdressed>> /\ table \subseteq table'
      /\ RowAdded(n) \/ UNCHANGED <<table, nextId>>
  BY DEF WriterLosesConnection, RowAdded, tableVars, readerVars, Core, WriterShape
<1>2. /\ WriterShape' /\ AllAccounted' /\ taken' \in [Node -> Nat] /\ hand' \in [Node -> BOOLEAN]
      /\ writer' \in [Node -> Worker \cup {"get", "insert"}] /\ dropped' \subseteq Message
      /\ \A m \in Node : taken'[m] >= taken[m]
  BY <1>1, RetriesKeeps
<1>3. table' \subseteq Row /\ nextId' \in Nat /\ RowShape' /\ BatchHandled'
  <2>1. CASE RowAdded(n)
    BY <1>1, <1>2, <2>1, RowAddedKeeps
  <2>2. CASE UNCHANGED <<table, nextId>>
    BY <1>1, <1>2, <2>2, SameTableKeeps DEF Core, Types
  <2> QED  BY <1>1, <2>1, <2>2
<1> QED  BY <1>1, <1>2, <1>3 DEF Core, Types

LEMMA CannotConnectKeeps ==
    ASSUME Core, NEW n \in Node, WriterCannotConnect(n)
    PROVE  Core'
<1>1. /\ WriterRetries(n) /\ writer[n] = "connect"
      /\ UNCHANGED <<table, nextId, dest, batch, times, readdressed>>
  BY DEF WriterCannotConnect, tableVars, readerVars
<1>2. /\ WriterShape' /\ AllAccounted' /\ taken' \in [Node -> Nat] /\ hand' \in [Node -> BOOLEAN]
      /\ writer' \in [Node -> Worker \cup {"get", "insert"}] /\ dropped' \subseteq Message
      /\ \A m \in Node : taken'[m] >= taken[m]
  BY <1>1, RetriesKeeps
<1>3. RowShape' /\ BatchHandled'
  BY <1>1, <1>2, SameTableKeeps
<1> QED  BY <1>1, <1>2, <1>3 DEF Core, Types

\* The worker ends at its None, or in its back-off.
LEMMA WriterStopsKeeps ==
    ASSUME Core, NEW n \in Node, WriterPoisoned(n) \/ WriterWakes(n)
    PROVE  Core'
<1>1. CASE writer' = [writer EXCEPT ![n] = "connect"] /\ UNCHANGED <<taken, hand, dropped>>
           /\ WriterWakes(n)
  <2>1. UNCHANGED <<table, nextId, dest, taken, hand, batch, times, dropped, readdressed>>
    BY <1>1 DEF WriterWakes, tableVars, readerVars
  <2> QED  BY <1>1, <2>1, WriterMoves
<1>2. CASE WriterEnds(n, Unwritten(n)) /\ WriterWakes(n)
  <2>1. UNCHANGED <<table, nextId, dest, batch, times, readdressed>>
    BY <1>2 DEF WriterWakes, tableVars, readerVars
  <2>2. /\ WriterShape' /\ AllAccounted' /\ taken' \in [Node -> Nat]
        /\ hand' \in [Node -> BOOLEAN] /\ writer' \in [Node -> Worker \cup {"get", "insert"}]
        /\ dropped' \subseteq Message /\ \A m \in Node : taken'[m] >= taken[m]
    BY <1>2, <2>1, EndsAllKeeps, UnwrittenMsgs
  <2>3. RowShape' /\ BatchHandled'
    BY <2>1, <2>2, SameTableKeeps
  <2> QED  BY <2>1, <2>2, <2>3 DEF Core, Types
<1>3. CASE WriterPoisoned(n)
  <2>1. /\ UNCHANGED <<table, nextId, dest, batch, times, readdressed>>
        /\ WriterEnds(n, {}) /\ writer[n] = "get" /\ taken[n] = Len(dest[n])
    BY <1>3 DEF WriterPoisoned, tableVars, readerVars
  <2>2. \A k \in 1..Len(dest[n]) : ~Waiting(n, k)
    <3>1. ~hand[n]
      BY <2>1 DEF WriterShape, Core
    <3>2. Len(dest[n]) \in Nat
      BY DEF Core, Types
    <3> QED  BY <2>1, <3>1, <3>2 DEF Waiting
  <2>3. /\ WriterShape' /\ AllAccounted' /\ taken' \in [Node -> Nat]
        /\ hand' \in [Node -> BOOLEAN] /\ writer' \in [Node -> Worker \cup {"get", "insert"}]
        /\ dropped' \subseteq Message /\ \A m \in Node : taken'[m] >= taken[m]
    BY <2>1, <2>2, EndsAllKeeps
  <2>4. RowShape' /\ BatchHandled'
    BY <2>1, <2>3, SameTableKeeps
  <2> QED  BY <2>1, <2>3, <2>4 DEF Core, Types
<1> QED  BY <1>1, <1>2, <1>3 DEF WriterWakes

\* do_read() starts handlers for the rows it found.
LEMMA SelectsKeeps ==
    ASSUME Core, NEW n \in Node, ReaderSelects(n)
    PROVE  Core'
<1> DEFINE rows == RowsTo(Mailbox(n))
<1>1. /\ times' = Started(rows) /\ batch' = [batch EXCEPT ![n] = {r.id : r \in rows}]
      /\ UNCHANGED <<table, nextId, dest, taken, hand, writer, dropped, readdressed>>
  BY DEF ReaderSelects, tableVars, writerVars
<1>2. rows \in SUBSET table
  BY DEF RowsTo
<1> HIDE DEF rows
<1>3. /\ times' \in [Message -> 0..2]
      /\ \A m \in Message : Handled(m)' <=> Handled(m) \/ \E r \in rows : r.msg = m
  BY <1>1, <1>2, StartedHandles DEF Core
<1> USE DEF Core, Types
<1>4. Types'
  BY <1>1, <1>2, <1>3 DEF Row
<1>5. WriterShape' /\ RowShape'
  BY <1>1 DEF WriterShape, RowShape
<1>6. BatchHandled'
  <2>1. ASSUME NEW m \in Node, NEW i \in batch'[m]
        PROVE  i < nextId
    BY <1>1, <1>2 DEF BatchHandled, RowShape
  <2>2. ASSUME NEW m \in Node, NEW r \in table, r.id \in batch'[m]
        PROVE  Handled(r.msg)'
    <3>1. r.msg \in Message
      BY DEF Row
    <3>2. CASE r.id \in batch[m]
      BY <1>3, <3>1, <3>2 DEF BatchHandled
    <3>3. CASE r.id \notin batch[m]
      <4>1. PICK q \in rows : q.id = r.id
        BY <1>1, <2>2, <3>3
      <4>2. q = r
        BY <1>2, <4>1 DEF RowShape
      <4> QED  BY <1>3, <3>1, <4>2
    <3> QED  BY <3>2, <3>3
  <2> QED  BY <1>1, <2>1, <2>2 DEF BatchHandled
<1>7. AllAccounted'
  BY <1>1, <1>3, MsgType DEF AllAccounted, Accounted, Waiting, InTable, Msg
<1> QED  BY <1>4, <1>5, <1>6, <1>7

\* Rows are deleted when they have a handler or are given up.
LEMMA RowsRemovedKeeps ==
    ASSUME Core, table' \subseteq table, dropped \subseteq dropped', dropped' \subseteq Message,
           \A r \in table \ table' : Handled(r.msg) \/ r.msg \in dropped'
                                     \/ \E q \in table' : q.msg = r.msg,
           batch' \in [Node -> SUBSET Nat], \A m \in Node : batch'[m] \subseteq batch[m],
           UNCHANGED <<nextId, dest, taken, hand, writer, times, readdressed>>
    PROVE  Core'
<1> USE DEF Core, Types
<1>1. Types' /\ WriterShape' /\ RowShape'
  BY DEF WriterShape, RowShape
<1>2. BatchHandled'
  BY DEF BatchHandled, Handled
<1>3. ASSUME NEW n \in Node, NEW k \in 1..Len(dest[n])
      PROVE  Accounted(n, k)'
  <2>1. Accounted(n, k)
    BY DEF AllAccounted
  <2>2. InTable(Msg(n, k)) => Handled(Msg(n, k)) \/ Msg(n, k) \in dropped'
                              \/ \E q \in table' : q.msg = Msg(n, k)
    BY DEF InTable
  <2> QED  BY <2>1, <2>2 DEF Accounted, Waiting, InTable, Handled, Msg
<1> QED  BY <1>1, <1>2, <1>3 DEF AllAccounted

LEMMA DeletesKeeps ==
    ASSUME Core, NEW n \in Node, ReaderDeletes(n) \/ ReaderLosesConnection(n)
    PROVE  Core'
<1>1. /\ table' = {r \in table : r.id \notin batch[n]} \/ UNCHANGED table
      /\ batch' = [batch EXCEPT ![n] = {}]
      /\ UNCHANGED <<nextId, dest, taken, hand, writer, times, dropped, readdressed>>
  BY DEF ReaderDeletes, ReaderLosesConnection, writerVars, history
<1>2. \A r \in table \ table' : Handled(r.msg)
  BY <1>1 DEF Core, BatchHandled
<1>3. batch' \in [Node -> SUBSET Nat] /\ \A m \in Node : batch'[m] \subseteq batch[m]
  BY <1>1 DEF Core, Types
<1>4. table' \subseteq table /\ dropped \subseteq dropped' /\ dropped' \subseteq Message
  BY <1>1 DEF Core, Types
<1> QED  BY <1>1, <1>2, <1>3, <1>4, RowsRemovedKeeps

\* Deleting unread rows gives up their messages.
LEMMA GivingUpKeeps ==
    ASSUME Core, NEW rows \in SUBSET table, table' = table \ rows,
           dropped' = dropped \cup {m \in GivenUp(rows) : ~Handled(m)},
           UNCHANGED <<nextId, dest, taken, hand, writer, batch, times, readdressed>>
    PROVE  Core'
<1>1. dropped \subseteq dropped' /\ dropped' \subseteq Message
  BY DEF Core, Types, GivenUp, Row
<1>2. ASSUME NEW r \in table \ table'
      PROVE  Handled(r.msg) \/ r.msg \in dropped' \/ \E q \in table' : q.msg = r.msg
  <2>1. r \in rows
    OBVIOUS
  <2>2. CASE \A p \in table \ rows : p.msg # r.msg
    BY <2>1, <2>2 DEF GivenUp
  <2>3. CASE ~\A p \in table \ rows : p.msg # r.msg
    BY <2>3
  <2> QED  BY <2>2, <2>3
<1>3. table' \subseteq table
  OBVIOUS
<1>4. batch' \in [Node -> SUBSET Nat] /\ \A m \in Node : batch'[m] \subseteq batch[m]
  BY DEF Core, Types
<1> QED  BY <1>1, <1>2, <1>3, <1>4, RowsRemovedKeeps

\* Nothing of this changes.
LEMMA SameKeeps ==
    ASSUME Core, UNCHANGED coreVars
    PROVE  Core'
<1> USE DEF Core, Types, coreVars
<1>1. Types'
  OBVIOUS
<1>2. WriterShape' /\ RowShape'
  BY DEF WriterShape, RowShape
<1>3. BatchHandled' /\ AllAccounted'
  BY DEF BatchHandled, AllAccounted, Accounted, Waiting, InTable, Handled, Msg
<1> QED  BY <1>1, <1>2, <1>3

LEMMA ClearsKeep ==
    ASSUME Core, NEW n \in Node, ClearAgent(n) \/ ClearExpired(n)
    PROVE  Core'
<1> USE DEF writerVars, readerVars
<1>1. CASE ClearAgent(n)
  <2>1. RowsTo(n) \in SUBSET table
    BY DEF RowsTo
  <2> QED  BY <1>1, <2>1, GivingUpKeeps DEF ClearAgent
<1>2. CASE ClearExpired(n)
  <2>1. UNCHANGED <<nextId, dest, taken, hand, writer, batch, times, readdressed>>
    BY <1>2 DEF ClearExpired
  <2>2. CASE UNCHANGED <<table, dropped>>
    BY <2>1, <2>2, SameKeeps DEF coreVars
  <2>3. ASSUME NEW k, LET old == {r \in table : r.id <= k}
                      IN  /\ table' = table \ old
                          /\ dropped' = dropped \cup {m \in GivenUp(old) : ~Handled(m)}
        PROVE  Core'
    <3>1. {r \in table : r.id <= k} \in SUBSET table
      OBVIOUS
    <3> QED  BY <2>1, <2>3, <3>1, GivingUpKeeps
  <2> QED  BY <1>2, <2>2, <2>3 DEF ClearExpired
<1> QED  BY <1>1, <1>2

\* Rows to the new master are readdressed.
LEMMA RenameKeeps ==
    ASSUME Core, NEW n \in Node, ClearRename(n)
    PROVE  Core'
<1> DEFINE New(r) == [r EXCEPT !.to = IF @ = n THEN Master ELSE @]
<1>1. /\ table' = {New(r) : r \in table}
      /\ readdressed' = readdressed \cup {r.msg : r \in RowsTo(n)}
      /\ UNCHANGED <<nextId, dest, taken, hand, writer, batch, times, dropped>>
  BY DEF ClearRename, writerVars, readerVars
<1>2. \A r \in table : New(r) \in Row /\ New(r).id = r.id /\ New(r).msg = r.msg
  BY DEF Core, Types, Row, Address
<1> HIDE DEF New
<1> USE DEF Core, Types
<1>3. Types'
  BY <1>1, <1>2 DEF RowsTo, Row
<1>4. WriterShape'
  BY <1>1 DEF WriterShape
<1>5. RowShape'
  <2>1. ASSUME NEW q \in table', NEW r \in table', q.id = r.id
        PROVE  q = r
    <3>1. PICK q0 \in table, r0 \in table : q = New(q0) /\ r = New(r0)
      BY <1>1
    <3>2. q0 = r0
      BY <1>2, <2>1, <3>1 DEF RowShape
    <3> QED  BY <3>1, <3>2
  <2>2. ASSUME NEW r \in table'
        PROVE  r.id < nextId /\ r.msg.num <= taken[r.msg.from]
    <3>1. PICK r0 \in table : r = New(r0)
      BY <1>1
    <3> QED  BY <1>2, <3>1 DEF RowShape
  <2> QED  BY <1>1, <2>1, <2>2 DEF RowShape
<1>7. BatchHandled'
  BY <1>1, <1>2 DEF BatchHandled, Handled
<1>6. ASSUME NEW m \in Node, NEW k \in 1..Len(dest[m])
      PROVE  Accounted(m, k)'
  <2>1. Accounted(m, k)
    BY DEF AllAccounted
  <2>2. InTable(Msg(m, k)) => \E q \in table' : q.msg = Msg(m, k)
    BY <1>1, <1>2 DEF InTable
  <2> QED  BY <1>1, <2>1, <2>2 DEF Accounted, Waiting, InTable, Handled, Msg
<1> QED  BY <1>1, <1>3, <1>4, <1>5, <1>6, <1>7 DEF AllAccounted

\* A process dies: its writer ends, its reader deletes nothing or all of its batch.
LEMMA EndedKeeps ==
    ASSUME Core, NEW n \in Node, WriterEnds(n, Unwritten(n)),
           UNCHANGED <<nextId, dest, times, readdressed>>,
           table' \subseteq table, \A r \in table \ table' : Handled(r.msg),
           batch' \in [Node -> SUBSET Nat], \A m \in Node : batch'[m] \subseteq batch[m]
    PROVE  Core'
<1> USE DEF Core, Types
<1>1. /\ taken' = [taken EXCEPT ![n] = Len(dest[n])] /\ hand' = [hand EXCEPT ![n] = FALSE]
      /\ writer' = [writer EXCEPT ![n] = "off"] /\ dropped' = dropped \cup Unwritten(n)
  BY DEF WriterEnds
<1>2. \A m \in Node : taken'[m] \in Nat /\ taken'[m] >= taken[m]
  BY <1>1 DEF WriterShape
<1>3. Types'
  BY <1>1, <1>2, UnwrittenMsgs DEF Worker
<1>4. WriterShape'
  BY <1>1 DEF WriterShape
<1>5. RowShape'
  BY <1>2 DEF RowShape, Row, Message
<1>6. BatchHandled'
  BY DEF BatchHandled, Handled
<1>7. ASSUME NEW m \in Node, NEW k \in 1..Len(dest[m])
      PROVE  Accounted(m, k)'
  <2>1. Accounted(m, k)
    BY DEF AllAccounted
  <2>2. InTable(Msg(m, k)) => Handled(Msg(m, k)) \/ \E q \in table' : q.msg = Msg(m, k)
    BY DEF InTable
  <2>3. CASE m = n
    BY <1>1, <2>1, <2>2, <2>3, UnwrittenMsgs DEF Accounted, InTable, Handled, Msg
  <2>4. CASE m # n
    <3>1. taken'[m] = taken[m] /\ hand'[m] = hand[m]
      BY <1>1, <2>4
    <3> QED  BY <1>1, <2>1, <2>2, <3>1, Zenon DEF Accounted, InTable, Handled, Waiting, Msg
  <2> QED  BY <2>3, <2>4
<1> QED  BY <1>3, <1>4, <1>5, <1>6, <1>7 DEF AllAccounted

LEMMA DiesKeeps ==
    ASSUME Core, NEW n \in Node, Die(n)
    PROVE  Core'
<1>1. /\ WriterEnds(n, Unwritten(n)) /\ batch' = [batch EXCEPT ![n] = {}]
      /\ UNCHANGED <<dest, times, readdressed>>
  BY DEF Die
<1>2. /\ batch' \in [Node -> SUBSET Nat] /\ \A m \in Node : batch'[m] \subseteq batch[m]
  BY <1>1 DEF Core, Types
<1>3. CASE UNCHANGED tableVars
  BY <1>1, <1>2, <1>3, EndedKeeps DEF tableVars
<1>4. CASE writer[n] = "insert" /\ RowAdded(n)
  <2>1. table \subseteq table'
    BY <1>4 DEF RowAdded
  <2>2. hand[n]
    BY <1>4 DEF Core, WriterShape
  <2>3. /\ WriterShape' /\ AllAccounted' /\ taken' \in [Node -> Nat]
        /\ hand' \in [Node -> BOOLEAN] /\ writer' \in [Node -> Worker \cup {"get", "insert"}]
        /\ dropped' \subseteq Message /\ \A m \in Node : taken'[m] >= taken[m]
    BY <1>1, <2>1, EndsAllKeeps, UnwrittenMsgs
  <2>4. /\ table' \subseteq Row /\ nextId' \in Nat /\ RowShape'
        /\ \A m \in Node : /\ \A i \in batch[m] : i < nextId'
                            /\ \A r \in table' : r.id \in batch[m] => Handled(r.msg)
    <3>1. \A m \in Node : taken'[m] \in Nat /\ taken'[m] >= taken[m]
      BY <2>3
    <3> QED  BY <1>1, <1>4, <2>2, <3>1, RowAddedShape
  <2>5. BatchHandled'
    BY <1>1, <1>2, <2>4 DEF BatchHandled, Handled
  <2> QED  BY <1>1, <1>2, <2>3, <2>4, <2>5 DEF Core, Types
<1>5. CASE table' = {r \in table : r.id \notin batch[n]} /\ UNCHANGED nextId
  <2>1. table' \subseteq table /\ \A r \in table \ table' : Handled(r.msg)
    BY <1>5 DEF Core, BatchHandled
  <2> QED  BY <1>1, <1>2, <1>5, <2>1, EndedKeeps
<1> QED  BY <1>3, <1>4, <1>5 DEF Die, RowAdded

-----------------------------------------------------------------------------
LEMMA CoreInit == Init => Core
<1> SUFFICES ASSUME Init
             PROVE  Core
  OBVIOUS
<1> USE DEF Init
<1>1. Types
  BY DEF Types, Worker
<1>2. WriterShape
  BY ChannelAssumption DEF WriterShape
<1>3. RowShape /\ BatchHandled /\ AllAccounted
  BY DEF RowShape, BatchHandled, AllAccounted
<1> QED  BY <1>1, <1>2, <1>3 DEF Core

LEMMA CoreStep == Core /\ [Next]_vars => Core'
<1> USE DEF tableVars, writerVars, readerVars, nodeVars, history
<1>1. CASE UNCHANGED vars
  BY <1>1, SameKeeps DEF coreVars, vars
<1>2. ASSUME Core, NEW n \in Node, Publish(n)
      PROVE  Core'
  BY <1>2, PublishKeeps
<1>3. ASSUME Core, NEW n \in Node, Write(n)
      PROVE  Core'
  <2>1. CASE WriterConnects(n)
    <3>1. /\ writer' = [writer EXCEPT ![n] = IF hand[n] THEN "insert" ELSE "get"]
          /\ UNCHANGED <<table, nextId, dest, taken, hand, batch, times, dropped, readdressed>>
      BY <2>1 DEF WriterConnects
    <3> DEFINE w == IF hand[n] THEN "insert" ELSE "get"
    <3>2. w \in {"get", "insert", "connect", "backoff"} /\ (w = "get" => ~hand[n])
          /\ (w = "insert" => hand[n])
      OBVIOUS
    <3>3. writer' = [writer EXCEPT ![n] = w]
      BY <3>1
    <3> HIDE DEF w
    <3> QED  BY <1>3, <3>1, <3>2, <3>3, WriterMoves
  <2> QED  BY <1>3, <2>1, TakesKeeps, InsertsKeeps, WriterStopsKeeps DEF Write
<1>4. ASSUME Core, NEW n \in Node, WriteFails(n)
      PROVE  Core'
  BY <1>4, CannotConnectKeeps, LosesConnectionKeeps, RejectsKeeps DEF WriteFails
<1>5. ASSUME Core, NEW n \in Node, Read(n) \/ ReadFails(n)
      PROVE  Core'
  <2>1. CASE ReaderConnects(n) \/ ReaderWakes(n) \/ ReaderPoisoned(n) \/ ReaderCannotRead(n)
    <3>1. UNCHANGED coreVars
      BY <2>1 DEF ReaderConnects, ReaderWakes, ReaderPoisoned, ReaderCannotRead, coreVars
    <3> QED  BY <1>5, <3>1, SameKeeps
  <2> QED  BY <1>5, <2>1, SelectsKeeps, DeletesKeeps DEF Read, ReadFails
<1>6. ASSUME Core, NEW n \in Node, Clear(n)
      PROVE  Core'
  BY <1>6, ClearsKeep, RenameKeeps DEF Clear
<1>7. ASSUME Core, NEW n \in Node, Start(n)
      PROVE  Core'
  <2>1. /\ writer' = [writer EXCEPT ![n] = "connect"]
        /\ UNCHANGED <<table, nextId, dest, taken, hand, batch, times, dropped, readdressed>>
    BY <1>7 DEF Start
  <2> QED  BY <1>7, <2>1, WriterMoves
<1>8. ASSUME Core, NEW n \in Node, SwitchRole(n) \/ Close(n) \/ Exit(n)
      PROVE  Core'
  <2>1. UNCHANGED coreVars
    BY <1>8 DEF SwitchRole, Close, Exit, coreVars
  <2> QED  BY <1>8, <2>1, SameKeeps
<1>9. ASSUME Core, NEW n \in Node, Die(n)
      PROVE  Core'
  BY <1>9, DiesKeeps
<1> QED  BY <1>1, <1>2, <1>3, <1>4, <1>5, <1>6, <1>7, <1>8, <1>9 DEF Next

\* Core is an invariant.
THEOREM CoreHolds == Spec => []Core
  BY CoreInit, CoreStep, PTL DEF Spec

\* Every published message is queued, in hand, a row, handled or given up, for any
\* number of nodes, messages, faults, shutdowns and role changes (PubSub._process_write,
\* _process_read, clear and close).
THEOREM NothingLost == Spec => []NoLoss
<1>1. ASSUME Core
      PROVE  NoLoss
  <2> SUFFICES ASSUME NEW n \in Node, NEW m \in Published(n)
               PROVE  m \in Unwritten(n) \/ InTable(m) \/ Handled(m) \/ m \in dropped
    BY DEF NoLoss
  <2>1. PICK k \in 1..Len(dest[n]) : m = Msg(n, k)
    BY DEF Published
  <2>2. Accounted(n, k)
    BY <1>1 DEF Core, AllAccounted
  <2> QED  BY <1>1, <2>1, <2>2, UnwrittenMsgs DEF Accounted
<1> QED  BY <1>1, CoreHolds, PTL

-----------------------------------------------------------------------------
(* The types of the remaining variables.                                   *)

Rest ==
    /\ up \in [Node -> BOOLEAN] /\ role \in [Node -> BOOLEAN]
    /\ stop \in [Node -> BOOLEAN]
    /\ reader \in [Node -> Worker \cup {"wait", "delete"}]
    /\ retries \in [Node -> [writer : 0..MaxRetries, reader : 0..MaxRetries]]
    /\ clearing \in [Node -> {"todo", "rename", "done"}]
    /\ faults \in 0..MaxFaults /\ switches \in 0..MaxSwitches
    /\ closes \in 0..MaxCloses

\* A reader that failed tries again or ends.
LEMMA ReaderRetriesType ==
    ASSUME Rest, NEW n \in Node, ReaderRetries(n)
    PROVE  /\ reader' \in [Node -> Worker \cup {"wait", "delete"}]
           /\ retries' \in [Node -> [writer : 0..MaxRetries, reader : 0..MaxRetries]]
<1>1. CASE retries[n].reader + 1 > MaxRetries
  BY <1>1 DEF Rest, ReaderRetries, Worker
<1>2. CASE ~(retries[n].reader + 1 > MaxRetries)
  <2>1. retries[n].reader + 1 \in 0..MaxRetries
    BY <1>2, ChannelAssumption DEF Rest
  <2>2. reader' = [reader EXCEPT ![n] = "backoff"]
    BY <1>2 DEF ReaderRetries
  <2>3. SetRetries(n, "reader", retries[n].reader + 1)
    BY <1>2 DEF ReaderRetries
  <2>4. retries' \in [Node -> [writer : 0..MaxRetries, reader : 0..MaxRetries]]
    BY <2>1, <2>3 DEF Rest, SetRetries
  <2> QED  BY <2>2, <2>4 DEF Rest, Worker
<1> QED  BY <1>1, <1>2

\* Every step keeps the types of these variables.
LEMMA RestStep == Rest /\ [Next]_vars => Rest'
<1> USE ChannelAssumption DEF Rest, tableVars, writerVars, readerVars, nodeVars, history,
        bounds, Fault, SwitchAllowed, SetRetries, Worker
<1>1. CASE UNCHANGED vars
  BY <1>1 DEF vars
<1>2. ASSUME Rest, NEW n \in Node,
             Publish(n) \/ WriterTakes(n) \/ WriterWakes(n) \/ WriterPoisoned(n)
      PROVE  Rest'
  BY <1>2 DEF Publish, WriterTakes, WriterWakes, WriterPoisoned
<1>3. ASSUME Rest, NEW n \in Node, WriterConnects(n) \/ WriterInserts(n)
      PROVE  Rest'
  <2>1. CASE WriterConnects(n)
    BY <1>3, <2>1 DEF WriterConnects
  <2>2. CASE WriterInserts(n)
    BY <1>3, <2>2 DEF WriterInserts
  <2> QED  BY <1>3, <2>1, <2>2
<1>4. ASSUME Rest, NEW n \in Node, WriteFails(n)
      PROVE  Rest'
  <2>1. CASE WriterCannotConnect(n)
    BY <1>4, <2>1 DEF WriterCannotConnect, WriterRetries
  <2>2. CASE WriterLosesConnection(n)
    BY <1>4, <2>2 DEF WriterLosesConnection, WriterRetries
  <2>3. CASE WriterRejects(n)
    BY <1>4, <2>3 DEF WriterRejects, WriterRetries
  <2> QED  BY <1>4, <2>1, <2>2, <2>3 DEF WriteFails
<1>5. ASSUME Rest, NEW n \in Node, Read(n)
      PROVE  Rest'
  BY <1>5 DEF Read, ReaderConnects, ReaderSelects, ReaderDeletes, ReaderWakes, ReaderPoisoned
<1>6. ASSUME Rest, NEW n \in Node, ReadFails(n)
      PROVE  Rest'
  <2>1. CASE ReaderCannotRead(n)
    BY <1>6, <2>1, ReaderRetriesType DEF ReaderCannotRead
  <2>2. CASE ReaderLosesConnection(n)
    BY <1>6, <2>2, ReaderRetriesType DEF ReaderLosesConnection
  <2> QED  BY <1>6, <2>1, <2>2 DEF ReadFails
<1>7. ASSUME Rest, NEW n \in Node, Clear(n)
      PROVE  Rest'
  <2>1. CASE ClearAgent(n)
    BY <1>7, <2>1 DEF ClearAgent
  <2>2. CASE ClearExpired(n)
    BY <1>7, <2>2 DEF ClearExpired
  <2>3. CASE ClearRename(n)
    BY <1>7, <2>3 DEF ClearRename
  <2> QED  BY <1>7, <2>1, <2>2, <2>3 DEF Clear
<1>8. ASSUME Rest, NEW n \in Node, Start(n) \/ SwitchRole(n)
      PROVE  Rest'
  <2>1. CASE Start(n)
    <3>1. role' \in [Node -> BOOLEAN] /\ switches' \in 0..MaxSwitches
      <4>1. CASE UNCHANGED <<role, switches>>
        BY <1>8, <4>1
      <4>2. CASE switches < MaxSwitches /\ switches' = switches + 1
                 /\ role' = [role EXCEPT ![n] = ~@]
        <5>1. switches' \in 0..MaxSwitches
          BY <1>8, <4>2
        <5>2. role' \in [Node -> BOOLEAN]
          BY <1>8, <4>2, Zenon
        <5> QED  BY <5>1, <5>2
      <4> QED  BY <2>1, <4>1, <4>2 DEF Start
    <3>2. retries' \in [Node -> [writer : 0..MaxRetries, reader : 0..MaxRetries]]
      BY <1>8, <2>1 DEF Start
    <3> QED  BY <1>8, <2>1, <3>1, <3>2 DEF Start
  <2>2. CASE SwitchRole(n)
    BY <1>8, <2>2 DEF SwitchRole
  <2> QED  BY <1>8, <2>1, <2>2
<1>9. ASSUME Rest, NEW n \in Node, Close(n) \/ Exit(n) \/ Die(n)
      PROVE  Rest'
  <2>1. CASE Close(n)
    BY <1>9, <2>1 DEF Close
  <2>2. CASE Exit(n)
    BY <1>9, <2>2 DEF Exit
  <2>3. CASE Die(n)
    BY <1>9, <2>3 DEF Die
  <2> QED  BY <1>9, <2>1, <2>2, <2>3
<1> QED  BY <1>1, <1>2, <1>3, <1>4, <1>5, <1>6, <1>7, <1>8, <1>9 DEF Next, Write

\* The type invariant of the channel (its table, both workers, clear() and close()).
THEOREM TypeCorrect == Spec => []TypeOK
<1>1. Init => Rest
  BY ChannelAssumption DEF Init, Rest, Worker
<1>2. Core /\ Rest => TypeOK
  BY ChannelAssumption DEF Core, Types, WriterShape, Rest, TypeOK
<1> QED  BY <1>1, <1>2, RestStep, CoreHolds, PTL DEF Spec

-----------------------------------------------------------------------------
(* The channel implements Mailbox.                                         *)

\* A row carries its message's address, unless it was readdressed.
RowAddress == \A r \in table :
    r.to = dest[r.msg.from][r.msg.num] \/ (r.to = Master /\ r.msg \in readdressed)

\* A message is readdressed with all that was sent before it to the same address.
Earlier(m) == {j \in 1..m.num - 1 : dest[m.from][j] = dest[m.from][m.num]}
MovedTogether == \A m \in readdressed :
    /\ m.num <= Len(dest[m.from])
    /\ \A j \in Earlier(m) :
           Handled(Msg(m.from, j)) \/ Msg(m.from, j) \in dropped \cup readdressed

Order == RowAddress /\ MovedTogether

\* The message of a row was sent, and not only since.
LEMMA RowSent ==
    ASSUME Core, NEW r \in table
    PROVE  /\ r.msg \in Message /\ r.msg.from \in Node /\ r.msg.num \in 1..taken[r.msg.from]
           /\ r.msg.num \in 1..Len(dest[r.msg.from])
           /\ r.msg = Msg(r.msg.from, r.msg.num)
<1>1. r.msg \in Message /\ r.msg.from \in Node /\ r.msg.num \in 1..MaxMessages
      /\ r.msg = Msg(r.msg.from, r.msg.num)
  BY DEF Core, Types, Row, Message, Msg
<1>2. r.msg.num <= taken[r.msg.from] /\ taken[r.msg.from] <= Len(dest[r.msg.from])
      /\ taken[r.msg.from] \in Nat /\ Len(dest[r.msg.from]) \in Nat
  BY <1>1 DEF Core, Types, RowShape, WriterShape
<1> QED  BY <1>1, <1>2, ChannelAssumption

\* What was taken before a row's message is out of the writer's hands.
LEMMA EarlierOut ==
    ASSUME Core, NEW r \in table, NEW j \in 1..r.msg.num - 1
    PROVE  /\ j \in 1..Len(dest[r.msg.from]) /\ Msg(r.msg.from, j) \in Message
           /\ InTable(Msg(r.msg.from, j)) \/ Handled(Msg(r.msg.from, j))
              \/ Msg(r.msg.from, j) \in dropped
<1> DEFINE s == r.msg.from
<1>1. s \in Node /\ r.msg.num \in 1..taken[s] /\ r.msg.num \in 1..Len(dest[s])
      /\ taken[s] \in Nat /\ Len(dest[s]) \in Nat
  BY RowSent DEF Core, Types
<1>2. j \in 1..Len(dest[s]) /\ j < taken[s]
  BY <1>1
<1>3. Accounted(s, j) /\ ~Waiting(s, j)
  BY <1>1, <1>2 DEF Core, AllAccounted, Waiting
<1> QED  BY <1>1, <1>2, <1>3, MsgType DEF Accounted, Core

\* Steps that send and handle nothing.
Quiet ==
    /\ UNCHANGED <<dest, times, readdressed>> /\ dropped \subseteq dropped'
    /\ \A m \in dropped' \ dropped : m.num \in 1..Len(dest[m.from])
    /\ \A r \in table' : r \in table \/ r.to = dest[r.msg.from][r.msg.num]

LEMMA QuietKeepsOrder ==
    ASSUME Core, Order, Quiet
    PROVE  Order'
<1>1. RowAddress'
  BY DEF Order, Quiet, RowAddress
<1>2. MovedTogether'
  BY DEF Order, Quiet, MovedTogether, Earlier, Handled, Msg
<1> QED  BY <1>1, <1>2 DEF Order

\* What the writer drops was sent.
LEMMA UnwrittenSent ==
    ASSUME Core, NEW n \in Node, NEW m \in Unwritten(n)
    PROVE  m.num \in 1..Len(dest[m.from])
  BY DEF Unwritten, Msg

LEMMA WriterQuiet ==
    ASSUME Core, NEW n \in Node,
           WriterRetries(n)
           \/ (\E lost \in SUBSET Unwritten(n) : WriterEnds(n, lost) \/ WriterProceeds(n, lost))
           \/ UNCHANGED dropped,
           UNCHANGED <<dest, times, readdressed>>,
           table' \subseteq table \/ RowAdded(n)
    PROVE  Quiet
<1>1. PICK lost \in SUBSET Unwritten(n) : dropped' = dropped \cup lost
  <2>1. CASE UNCHANGED dropped
    <3>1. dropped' = dropped \cup {}
      BY <2>1
    <3> QED  BY <3>1
  <2>2. CASE WriterRetries(n)
    <3>1. CASE WriterEnds(n, Unwritten(n))
      BY <3>1 DEF WriterEnds
    <3> QED  BY <2>1, <2>2, <3>1 DEF WriterRetries
  <2>3. ASSUME NEW l \in SUBSET Unwritten(n), WriterEnds(n, l) \/ WriterProceeds(n, l)
        PROVE  \E lost \in SUBSET Unwritten(n) : dropped' = dropped \cup lost
    <3>1. dropped' = dropped \cup l
          \/ dropped' = dropped \cup (l \cup (Unwritten(n) \ {Current(n)}))
      BY <2>3 DEF WriterEnds, WriterProceeds
    <3>2. l \cup (Unwritten(n) \ {Current(n)}) \in SUBSET Unwritten(n)
      OBVIOUS
    <3> QED  BY <3>1, <3>2
  <2> QED  BY <2>1, <2>2, <2>3
<1>2. NewRow(n).to = dest[NewRow(n).msg.from][NewRow(n).msg.num]
  BY DEF NewRow, Current, Msg
<1> QED  BY <1>1, <1>2, UnwrittenSent DEF Quiet, RowAdded

LEMMA WritesQuiet ==
    ASSUME Core, NEW n \in Node, Write(n) \/ WriteFails(n)
    PROVE  Quiet
<1> USE DEF tableVars, writerVars, readerVars, history
<1>1. CASE WriterConnects(n) \/ WriterTakes(n)
  BY <1>1, WriterQuiet DEF WriterConnects, WriterTakes
<1>2. CASE WriterInserts(n)
  <2>1. WriterProceeds(n, {}) /\ {} \in SUBSET Unwritten(n)
    BY <1>2 DEF WriterInserts
  <2> QED  BY <1>2, <2>1, WriterQuiet DEF WriterInserts, RowAdded
<1>3. CASE WriterWakes(n)
  <2>1. WriterEnds(n, Unwritten(n)) \/ UNCHANGED dropped
    BY <1>3 DEF WriterWakes
  <2> QED  BY <1>3, <2>1, WriterQuiet DEF WriterWakes
<1>4. CASE WriterPoisoned(n)
  <2>1. WriterEnds(n, {}) /\ {} \in SUBSET Unwritten(n)
    BY <1>4 DEF WriterPoisoned
  <2> QED  BY <1>4, <2>1, WriterQuiet DEF WriterPoisoned
<1>5. CASE WriterCannotConnect(n)
  BY <1>5, WriterQuiet DEF WriterCannotConnect
<1>6. CASE WriterLosesConnection(n)
  BY <1>6, WriterQuiet DEF WriterLosesConnection, RowAdded
<1>7. CASE WriterRejects(n)
  <2>1. hand[n] /\ taken[n] \in 1..Len(dest[n])
    BY <1>7 DEF WriterRejects, Core, Types, WriterShape
  <2>2. {Current(n)} \in SUBSET Unwritten(n)
    BY <2>1 DEF Current, Unwritten
  <2> QED  BY <1>7, <2>2, WriterQuiet DEF WriterRejects
<1> QED  BY <1>1, <1>2, <1>3, <1>4, <1>5, <1>6, <1>7 DEF Write, WriteFails

LEMMA ClearsQuiet ==
    ASSUME Core, NEW n \in Node, ClearAgent(n) \/ ClearExpired(n)
    PROVE  Quiet
<1> USE DEF writerVars, readerVars
<1>1. PICK rows \in SUBSET table :
          dropped' = dropped \/ dropped' = dropped \cup {m \in GivenUp(rows) : ~Handled(m)}
  BY DEF ClearAgent, ClearExpired, RowsTo
<1>2. table' \subseteq table /\ UNCHANGED <<dest, times, readdressed>>
  BY DEF ClearAgent, ClearExpired
<1>3. \A m \in GivenUp(rows) : m.num \in 1..Len(dest[m.from])
  BY RowSent DEF GivenUp
<1> QED  BY <1>1, <1>2, <1>3 DEF Quiet

LEMMA OthersQuiet ==
    ASSUME Core, NEW n \in Node,
           ReaderConnects(n) \/ ReaderDeletes(n) \/ ReaderWakes(n) \/ ReaderPoisoned(n)
           \/ ReadFails(n) \/ Start(n) \/ SwitchRole(n) \/ Close(n) \/ Exit(n) \/ Die(n)
    PROVE  Quiet
<1> USE DEF tableVars, writerVars, readerVars, nodeVars, history
<1>1. CASE ReaderConnects(n) \/ ReaderDeletes(n) \/ ReaderWakes(n) \/ ReaderPoisoned(n)
  BY <1>1 DEF ReaderConnects, ReaderDeletes, ReaderWakes, ReaderPoisoned, Quiet
<1>2. CASE ReadFails(n)
  BY <1>2 DEF ReadFails, ReaderCannotRead, ReaderLosesConnection, Quiet
<1>3. CASE Start(n) \/ SwitchRole(n) \/ Close(n) \/ Exit(n)
  BY <1>3 DEF Start, SwitchRole, Close, Exit, Quiet
<1>4. CASE Die(n)
  <2>1. WriterEnds(n, Unwritten(n)) /\ UNCHANGED <<dest, times, readdressed>>
    BY <1>4 DEF Die
  <2>2. table' \subseteq table \/ RowAdded(n)
    BY <1>4 DEF Die, RowAdded
  <2> QED  BY <2>1, <2>2, WriterQuiet
<1> QED  BY <1>1, <1>2, <1>3, <1>4

-----------------------------------------------------------------------------
\* publish() appends to the sender's sequence.
LEMMA SendsOrder ==
    ASSUME Core, Order, NEW n \in Node, Publish(n)
    PROVE  /\ Order'
           /\ \E a \in Address : dest' = [dest EXCEPT ![n] = Append(@, a)]
           /\ dropped' \subseteq dropped \cup {Msg(n, Len(dest[n]) + 1)}
           /\ dropped \subseteq dropped' /\ UNCHANGED <<times, readdressed>>
<1>1. PICK a \in Address : dest' = [dest EXCEPT ![n] = Append(@, a)]
  BY DEF Publish, Address
<1>2. /\ dropped' \subseteq dropped \cup {Msg(n, Len(dest[n]) + 1)} /\ dropped \subseteq dropped'
      /\ UNCHANGED <<table, times, readdressed>>
  BY DEF Publish, tableVars
<1>3. \A m \in Node : \A k \in 1..Len(dest[m]) : k \in 1..Len(dest'[m]) /\ dest'[m][k] = dest[m][k]
  BY <1>1 DEF Core, Types
<1>4. RowAddress'
  <2> SUFFICES ASSUME NEW r \in table
               PROVE  r.to = dest'[r.msg.from][r.msg.num]
                      \/ (r.to = Master /\ r.msg \in readdressed)
    BY <1>2 DEF RowAddress
  <2>1. dest'[r.msg.from][r.msg.num] = dest[r.msg.from][r.msg.num]
    BY <1>3, RowSent
  <2> QED  BY <2>1 DEF Order, RowAddress
<1>5. MovedTogether'
  <2> SUFFICES ASSUME NEW m \in readdressed
               PROVE  /\ m.num <= Len(dest'[m.from])
                      /\ \A j \in Earlier(m)' :
                             Handled(Msg(m.from, j)) \/ Msg(m.from, j) \in dropped' \cup readdressed
    BY <1>2 DEF MovedTogether, Handled, Msg
  <2>1. m.from \in Node /\ m.num \in 1..Len(dest[m.from])
    BY DEF Order, MovedTogether, Core, Types, Message
  <2>2. m.num <= Len(dest'[m.from])
    BY <1>3, <2>1
  <2>3. ASSUME NEW j \in Earlier(m)'
        PROVE  j \in Earlier(m)
    <3>1. j \in 1..m.num - 1 /\ dest'[m.from][j] = dest'[m.from][m.num]
      BY <2>3 DEF Earlier
    <3>2. j \in 1..Len(dest[m.from])
      BY <2>1, <3>1 DEF Core, Types
    <3> QED  BY <1>3, <2>1, <3>1, <3>2 DEF Earlier
  <2> QED  BY <1>2, <2>2, <2>3 DEF Order, MovedTogether
<1> QED  BY <1>1, <1>2, <1>4, <1>5 DEF Order

\* do_read() handles with a message all that was sent earlier to the same address.
LEMMA HandlesInOrder ==
    ASSUME Core, Order, NEW n \in Node, ReaderSelects(n)
    PROVE  /\ Order' /\ UNCHANGED <<dest, dropped, readdressed>>
           /\ \A m \in Message : Handled(m) => Handled(m)'
           /\ \A m \in Message : Handled(m)' /\ ~Handled(m) =>
                 /\ m.num \in 1..Len(dest[m.from])
                 /\ \A j \in Earlier(m) : \/ Msg(m.from, j) \in Message /\ Handled(Msg(m.from, j))'
                                         \/ Msg(m.from, j) \in dropped \cup readdressed
<1> DEFINE rows == RowsTo(Mailbox(n))
<1>1. times' = Started(rows) /\ UNCHANGED <<table, dest, dropped, readdressed>>
  BY DEF ReaderSelects, tableVars, writerVars
<1>2. rows \in SUBSET table /\ rows = {r \in table : r.to = Mailbox(n)}
  BY DEF RowsTo
<1> HIDE DEF rows
<1>3. \A m \in Message : Handled(m)' <=> Handled(m) \/ \E r \in rows : r.msg = m
  BY <1>1, <1>2, StartedHandles DEF Core
<1>4. Order'
  <2>1. ASSUME NEW m \in readdressed, NEW j \in Earlier(m), Handled(Msg(m.from, j))
        PROVE  Handled(Msg(m.from, j))'
    <3>1. m \in Message /\ m.num \in 1..Len(dest[m.from])
      BY DEF Order, MovedTogether, Core, Types, Message
    <3>2. j \in 1..Len(dest[m.from]) /\ m.from \in Node
      BY <3>1 DEF Earlier, Core, Types, Message
    <3>3. Msg(m.from, j) \in Message
      BY <3>2, MsgType DEF Core
    <3> QED  BY <1>3, <2>1, <3>3
  <2>2. RowAddress'
    BY <1>1 DEF Order, RowAddress
  <2>3. MovedTogether'
    <3> SUFFICES ASSUME NEW m \in readdressed
                 PROVE  /\ m.num <= Len(dest[m.from])
                        /\ \A j \in Earlier(m) : Handled(Msg(m.from, j))'
                                \/ Msg(m.from, j) \in dropped \cup readdressed
      BY <1>1 DEF MovedTogether, Earlier, Handled, Msg
    <3> QED  BY <2>1 DEF Order, MovedTogether
  <2> QED  BY <2>2, <2>3 DEF Order
<1>5. ASSUME NEW m \in Message, Handled(m)', ~Handled(m)
      PROVE  /\ m.num \in 1..Len(dest[m.from])
             /\ \A j \in Earlier(m) : \/ Msg(m.from, j) \in Message /\ Handled(Msg(m.from, j))'
                                     \/ Msg(m.from, j) \in dropped \cup readdressed
  <2>1. PICK r \in rows : r.msg = m
    BY <1>3, <1>5
  <2>2. r \in table /\ m.num \in 1..Len(dest[m.from])
    BY <1>2, <2>1, RowSent
  <2>3. ASSUME NEW j \in Earlier(m)
        PROVE  \/ Msg(m.from, j) \in Message /\ Handled(Msg(m.from, j))'
               \/ Msg(m.from, j) \in dropped \cup readdressed
    <3>1. CASE m \in readdressed
      <4>1. m.from \in Node /\ j \in 1..Len(dest[m.from])
        BY <2>2 DEF Earlier, Core, Types, Message
      <4>2. Msg(m.from, j) \in Message
        BY <4>1, MsgType DEF Core
      <4> QED  BY <1>3, <3>1, <4>2 DEF Order, MovedTogether
    <3>2. CASE m \notin readdressed
      <4>1. j \in 1..r.msg.num - 1 /\ dest[m.from][j] = dest[m.from][m.num]
        BY <2>1 DEF Earlier
      <4>2. Msg(m.from, j) \in Message /\ (InTable(Msg(m.from, j)) \/ Handled(Msg(m.from, j))
                                          \/ Msg(m.from, j) \in dropped)
        BY <2>1, <2>2, <4>1, EarlierOut
      <4>3. ASSUME InTable(Msg(m.from, j)), Msg(m.from, j) \notin readdressed
            PROVE  Handled(Msg(m.from, j))'
        <5>1. PICK q \in table : q.msg = Msg(m.from, j)
          BY <4>3 DEF InTable
        <5>2. q.to = dest[m.from][j]
          BY <4>3, <5>1 DEF Order, RowAddress, Msg
        <5>3. r.to = dest[m.from][m.num]
          BY <2>1, <2>2, <3>2 DEF Order, RowAddress
        <5>4. q \in rows
          BY <1>2, <2>1, <4>1, <5>1, <5>2, <5>3
        <5> QED  BY <1>3, <4>2, <5>1, <5>4
      <4> QED  BY <1>3, <4>2, <4>3
    <3> QED  BY <3>1, <3>2
  <2> QED  BY <2>2, <2>3
<1> QED  BY <1>1, <1>3, <1>4, <1>5

\* clear() readdresses the whole mailbox at once.
LEMMA RenamesTogether ==
    ASSUME Core, Order, NEW n \in Node, ClearRename(n)
    PROVE  /\ Order' /\ UNCHANGED <<dest, times, dropped>> /\ readdressed \subseteq readdressed'
           /\ \A m \in readdressed' \ readdressed : m.num \in 1..Len(dest[m.from])
<1> DEFINE New(r) == [r EXCEPT !.to = IF @ = n THEN Master ELSE @]
<1>1. /\ table' = {New(r) : r \in table}
      /\ readdressed' = readdressed \cup {r.msg : r \in RowsTo(n)}
      /\ UNCHANGED <<dest, times, dropped>>
  BY DEF ClearRename, writerVars, readerVars
<1>2. \A r \in table : New(r).msg = r.msg /\ New(r).to = IF r.to = n THEN Master ELSE r.to
  BY DEF Core, Types, Row
<1> HIDE DEF New
<1>3. RowAddress'
  <2> SUFFICES ASSUME NEW r \in table
               PROVE  New(r).to = dest[New(r).msg.from][New(r).msg.num]
                      \/ (New(r).to = Master /\ New(r).msg \in readdressed')
    BY <1>1 DEF RowAddress
  <2> QED  BY <1>1, <1>2 DEF Order, RowAddress, RowsTo
<1>4. ASSUME NEW m \in readdressed' \ readdressed
      PROVE  /\ m.num \in 1..Len(dest[m.from])
             /\ \A j \in Earlier(m) : Handled(Msg(m.from, j))
                                     \/ Msg(m.from, j) \in dropped \cup readdressed'
  <2>1. PICK r \in table : r.to = n /\ r.msg = m
    BY <1>1 DEF RowsTo
  <2>2. m.num \in 1..Len(dest[m.from]) /\ dest[m.from][m.num] = n
    BY <2>1, RowSent, ChannelAssumption DEF Order, RowAddress
  <2>3. ASSUME NEW j \in Earlier(m)
        PROVE  Handled(Msg(m.from, j)) \/ Msg(m.from, j) \in dropped \cup readdressed'
    <3>1. j \in 1..r.msg.num - 1 /\ dest[m.from][j] = n
      BY <2>1, <2>2 DEF Earlier
    <3>2. InTable(Msg(m.from, j)) \/ Handled(Msg(m.from, j)) \/ Msg(m.from, j) \in dropped
      BY <2>1, <3>1, EarlierOut
    <3>3. ASSUME NEW q \in table, q.msg = Msg(m.from, j)
          PROVE  q.msg \in readdressed'
      <4>1. q.to = n \/ q.msg \in readdressed
        BY <3>1, <3>3 DEF Order, RowAddress, Msg
      <4> QED  BY <1>1, <4>1 DEF RowsTo
    <3> QED  BY <3>2, <3>3 DEF InTable
  <2> QED  BY <2>2, <2>3
<1>5. MovedTogether'
  <2> SUFFICES ASSUME NEW m \in readdressed'
               PROVE  /\ m.num <= Len(dest[m.from])
                      /\ \A j \in Earlier(m) : Handled(Msg(m.from, j))
                              \/ Msg(m.from, j) \in dropped \cup readdressed'
    BY <1>1 DEF MovedTogether, Earlier, Handled, Msg
  <2>1. CASE m \in readdressed
    BY <1>1, <2>1 DEF Order, MovedTogether
  <2>2. CASE m \notin readdressed
    <3>1. Len(dest[m.from]) \in Nat
      BY <1>1, <1>4, <2>2, RowSent DEF Core, Types, RowsTo
    <3> QED  BY <1>4, <2>2, <3>1
  <2> QED  BY <2>1, <2>2
<1> QED  BY <1>1, <1>3, <1>4, <1>5 DEF Order

-----------------------------------------------------------------------------
LEMMA MailboxStep == Core /\ Order /\ [Next]_vars => Order' /\ [Promise!Next]_(Promise!vars)
<1> SUFFICES ASSUME Core, Order, [Next]_vars
             PROVE  Order' /\ [Promise!Next]_(Promise!vars)
  OBVIOUS
<1> USE DEF Promise!vars
<1>1. ASSUME Quiet
      PROVE  Order' /\ [Promise!Next]_(Promise!vars)
  <2>1. Order'
    BY <1>1, QuietKeepsOrder
  <2>2. Promise!Excuse
    BY <1>1 DEF Quiet, Promise!Excuse, Promise!IsSent, Handled
  <2> QED  BY <2>1, <2>2 DEF Promise!Next
<1>2. CASE UNCHANGED vars
  BY <1>2 DEF vars, tableVars, writerVars, history, Order, RowAddress, MovedTogether, Earlier,
              Handled, Msg
<1>3. ASSUME NEW n \in Node, Publish(n)
      PROVE  Order' /\ [Promise!Next]_(Promise!vars)
  <2>1. Order'
    BY <1>3, SendsOrder
  <2>2. Promise!Send(n)
    BY <1>3, SendsOrder DEF Promise!Send, Handled, Msg
  <2> QED  BY <2>1, <2>2 DEF Promise!Next
<1>4. ASSUME NEW n \in Node, ReaderSelects(n)
      PROVE  Order' /\ [Promise!Next]_(Promise!vars)
  <2>1. Order' /\ UNCHANGED <<dest, dropped, readdressed>>
    BY <1>4, HandlesInOrder
  <2>2. \A m \in Message : Handled(m) => Handled(m)'
    BY <1>4, HandlesInOrder
  <2>3. ASSUME NEW m \in Message, Handled(m)', ~Handled(m)
        PROVE  /\ m.num \in 1..Len(dest[m.from])
               /\ \A j \in 1..m.num - 1 : dest[m.from][j] = dest[m.from][m.num] =>
                      Msg(m.from, j) \in {k \in Message : Handled(k)'} \cup (dropped \cup readdressed)
    BY <1>4, <2>3, HandlesInOrder DEF Earlier
  <2>4. Promise!Handle
    BY <2>1, <2>2, <2>3 DEF Promise!Handle, Promise!IsSent, Promise!InOrder, Msg
  <2> QED  BY <2>1, <2>4 DEF Promise!Next
<1>5. ASSUME NEW n \in Node, ClearRename(n)
      PROVE  Order' /\ [Promise!Next]_(Promise!vars)
  <2>1. Order'
    BY <1>5, RenamesTogether
  <2>2. Promise!Excuse
    BY <1>5, RenamesTogether DEF Promise!Excuse, Promise!IsSent, Handled
  <2> QED  BY <2>1, <2>2 DEF Promise!Next
<1>6. ASSUME NEW n \in Node, Write(n) \/ WriteFails(n)
      PROVE  Quiet
  BY <1>6, WritesQuiet
<1>7. ASSUME NEW n \in Node, ClearAgent(n) \/ ClearExpired(n)
      PROVE  Quiet
  BY <1>7, ClearsQuiet
<1>8. ASSUME NEW n \in Node,
             ReaderConnects(n) \/ ReaderDeletes(n) \/ ReaderWakes(n) \/ ReaderPoisoned(n)
             \/ ReadFails(n) \/ Start(n) \/ SwitchRole(n) \/ Close(n) \/ Exit(n) \/ Die(n)
      PROVE  Quiet
  BY <1>8, OthersQuiet
<1> QED  BY <1>1, <1>2, <1>3, <1>4, <1>5, <1>6, <1>7, <1>8 DEF Next, Read, Clear

\* Through errors of the database, crashes, restarts and role changes, the channel
\* handles messages at least once and, per sender and address, in order.
THEOREM Implementation == Spec => MailboxSpec
<1>1. Init => Order /\ Promise!Init
  BY DEF Init, Order, RowAddress, MovedTogether, Promise!Init, Handled
<1> QED  BY <1>1, CoreHolds, MailboxStep, PTL DEF Spec, MailboxSpec, Promise!Spec


-----------------------------------------------------------------------------
(* As long as nothing fails, a message is handled once.                    *)

\* One node has the mailbox of the master, and a node that is down reads nothing.
Roles ==
    /\ \A n, m \in Node : role[n] /\ role[m] => n = m
    /\ \A n \in Node : clearing[n] = "rename" => role[n]
    /\ \A n \in Node : ~up[n] => reader[n] = "off"

\* The write worker is through with a message.
Done(m) == m.num <= taken[m.from] /\ ~(hand[m.from] /\ m.num = taken[m.from])

WrittenOnce ==
    /\ \A q, r \in table : q.msg = r.msg => q = r
    /\ \A m \in Message : Handled(m) \/ InTable(m) => Done(m)

\* The row of a message that was handled is about to be deleted by the one that reads it.
ReadOnce ==
    /\ \A m \in Message : times[m] <= 1
    /\ \A r \in table : Handled(r.msg) =>
          \E n \in Node : reader[n] = "delete" /\ r.id \in batch[n] /\ r.to = Mailbox(n)

Healthy == faults = 0 /\ switches = 0
Once == Healthy => Roles /\ WrittenOnce /\ ReadOnce

OnceParts == Roles /\ WrittenOnce /\ ReadOnce

\* Only one node reads a mailbox.
LEMMA OneReader ==
    ASSUME Rest, Roles, NEW n \in Node, NEW m \in Node, Mailbox(n) = Mailbox(m)
    PROVE  n = m
BY ChannelAssumption DEF Rest, Roles, Mailbox

LEMMA FaultEndsHealth ==
    ASSUME Rest, Healthy
    PROVE  (Fault => ~Healthy') /\ (SwitchAllowed => ~Healthy')
BY DEF Rest, Healthy, Fault, SwitchAllowed

\* Steps of a write worker, or of publish(), that write no row.
LEMMA NoRowOnce ==
    ASSUME OnceParts, UNCHANGED <<table, times, reader, batch, role, up, clearing>>,
           \A m \in Message : Done(m) => Done(m)'
    PROVE  OnceParts'
<1>1. Roles'
  BY DEF OnceParts, Roles
<1>2. WrittenOnce'
  BY DEF OnceParts, WrittenOnce, Handled, InTable
<1>3. ReadOnce'
  BY DEF OnceParts, ReadOnce, Handled, Mailbox
<1> QED  BY <1>1, <1>2, <1>3 DEF OnceParts

LEMMA EndsDone ==
    ASSUME Core, NEW n \in Node, NEW lost, WriterEnds(n, lost), UNCHANGED dest
    PROVE  \A m \in Message : Done(m) => Done(m)'
<1>1. taken[n] <= Len(dest[n]) /\ taken[n] \in Nat /\ Len(dest[n]) \in Nat
  BY DEF Core, Types, WriterShape
<1>2. taken'[n] = Len(dest[n]) /\ ~hand'[n]
      /\ \A m \in Node \ {n} : taken'[m] = taken[m] /\ hand'[m] = hand[m]
  BY DEF WriterEnds, Core, Types
<1>3. \A m \in Message : m.from \in Node /\ m.num \in Nat
  BY DEF Message
<1> QED  BY <1>1, <1>2, <1>3 DEF Done

LEMMA WriterOnce ==
    ASSUME Core, OnceParts, NEW n \in Node,
           Publish(n) \/ WriterConnects(n) \/ WriterTakes(n) \/ WriterWakes(n) \/ WriterPoisoned(n)
    PROVE  OnceParts'
<1>1. UNCHANGED <<table, times, reader, batch, role, up, clearing>>
  BY DEF Publish, WriterConnects, WriterTakes, WriterWakes, WriterPoisoned, tableVars, readerVars,
     nodeVars, history
<1>2. \A m \in Message : Done(m) => Done(m)'
  <2>1. \A m \in Message : m.from \in Node /\ m.num \in Nat
    BY DEF Message
  <2>2. \A m \in Node : taken[m] \in Nat
    BY DEF Core, Types
  <2>3. CASE Publish(n)
    <3>1. hand' = hand /\ (taken' = taken \/ (taken' = [taken EXCEPT ![n] = @ + 1] /\ ~hand[n]))
      BY <2>3 DEF Publish, Core, WriterShape
    <3>2. \A m \in Node : taken'[m] = taken[m] \/ (taken'[m] = taken[m] + 1 /\ ~hand[m])
      BY <3>1 DEF Core, Types
    <3>3. ASSUME NEW m \in Message, Done(m)
          PROVE  Done(m)'
      <4>1. m.from \in Node /\ m.num \in Nat /\ taken[m.from] \in Nat
        BY <2>1, <2>2
      <4>2. m.num <= taken[m.from] /\ ~(hand[m.from] /\ m.num = taken[m.from])
        BY <3>3 DEF Done
      <4>3. hand'[m.from] <=> hand[m.from]
        BY <3>1
      <4>4. taken'[m.from] = taken[m.from] \/ (taken'[m.from] = taken[m.from] + 1 /\ ~hand[m.from])
        BY <3>2, <4>1
      <4>5. m.num <= taken'[m.from] /\ ~(hand'[m.from] /\ m.num = taken'[m.from])
        BY <4>1, <4>2, <4>3, <4>4
      <4> QED  BY <4>5 DEF Done
    <3> QED  BY <3>3
  <2>4. CASE WriterTakes(n)
    <3>1. taken' = [taken EXCEPT ![n] = @ + 1] /\ hand' = [hand EXCEPT ![n] = TRUE]
      BY <2>4 DEF WriterTakes
    <3> QED  BY <2>1, <2>2, <3>1 DEF Done, Core, Types
  <2>5. CASE UNCHANGED <<taken, hand>>
    BY <2>5 DEF Done
  <2>6. CASE \E lost : WriterEnds(n, lost) /\ UNCHANGED dest
    BY <2>6, EndsDone
  <2>7. WriterConnects(n) \/ WriterWakes(n) \/ WriterPoisoned(n) =>
            UNCHANGED <<taken, hand>> \/ \E lost : WriterEnds(n, lost) /\ UNCHANGED dest
    BY DEF WriterConnects, WriterWakes, WriterPoisoned
  <2> QED  BY <2>3, <2>4, <2>5, <2>6, <2>7
<1> QED  BY <1>1, <1>2, NoRowOnce

\* The message in hand is in no row and was not handled.
LEMMA InsertsOnce ==
    ASSUME Core, OnceParts, NEW n \in Node, WriterInserts(n)
    PROVE  OnceParts'
<1>1. /\ table' = table \cup {NewRow(n)} /\ UNCHANGED <<dest, times, reader, batch, role, up, clearing>>
      /\ writer[n] = "insert" /\ WriterProceeds(n, {})
  BY DEF WriterInserts, readerVars, nodeVars
<1>2. hand[n] /\ taken[n] \in 1..Len(dest[n]) /\ Current(n) \in Message
      /\ Current(n).from = n /\ Current(n).num = taken[n]
  BY <1>1, MsgType DEF Core, Types, WriterShape, Current
<1>3. PICK c \in Message : c = Current(n)
  BY <1>2
<1>4. c.from = n /\ c.num = taken[n] /\ ~Handled(c) /\ ~InTable(c) /\ NewRow(n).msg = c
  BY <1>2, <1>3 DEF OnceParts, WrittenOnce, Done, NewRow
<1>5. taken'[n] >= taken[n] /\ ~hand'[n]
  BY <1>1, <1>2 DEF WriterProceeds, WriterEnds, Core, Types, WriterShape
<1>6. \A m \in Message : Done(m) => Done(m)'
  <2>1. CASE \E lost : WriterEnds(n, lost)
    BY <1>1, <2>1, EndsDone
  <2>2. CASE UNCHANGED taken /\ hand' = [hand EXCEPT ![n] = FALSE]
    <3>1. \A m \in Node : hand'[m] => hand[m]
      BY <2>2 DEF Core, Types
    <3>2. \A m \in Message : m.from \in Node
      BY DEF Message
    <3> QED  BY <2>2, <3>1, <3>2 DEF Done
  <2> QED  BY <1>1, <2>1, <2>2 DEF WriterProceeds
<1>7. Done(c)'
  BY <1>2, <1>4, <1>5 DEF Done, Core, Types
<1>8. Roles'
  BY <1>1 DEF OnceParts, Roles
<1>9. WrittenOnce'
  <2>1. \A q, r \in table' : q.msg = r.msg => q = r
    BY <1>1, <1>4 DEF OnceParts, WrittenOnce, InTable
  <2>2. UNCHANGED times
    BY DEF WriterInserts
  <2>3. \A m \in Message : Handled(m)' \/ InTable(m)' => Done(m)'
    BY <1>1, <1>4, <1>6, <1>7, <2>2 DEF OnceParts, WrittenOnce, InTable, Handled
  <2> QED  BY <2>1, <2>3 DEF WrittenOnce
<1>10. ReadOnce'
  BY <1>1, <1>4 DEF OnceParts, ReadOnce, Handled, Mailbox
<1> QED  BY <1>8, <1>9, <1>10 DEF OnceParts

LEMMA SelectsOnce ==
    ASSUME Core, Rest, OnceParts, NEW n \in Node, ReaderSelects(n)
    PROVE  OnceParts'
<1> DEFINE rows == RowsTo(Mailbox(n))
<1>1. /\ times' = Started(rows) /\ reader' = [reader EXCEPT ![n] = "delete"] /\ reader[n] = "wait"
      /\ batch' = [batch EXCEPT ![n] = {r.id : r \in rows}]
      /\ UNCHANGED <<table, taken, hand, role, up, clearing>>
  BY DEF ReaderSelects, tableVars, writerVars, nodeVars
<1>2. rows = {r \in table : r.to = Mailbox(n)}
  BY DEF RowsTo
<1> HIDE DEF rows
<1>3. /\ reader'[n] = "delete" /\ batch'[n] = {r.id : r \in rows}
      /\ \A m \in Node \ {n} : reader'[m] = reader[m] /\ batch'[m] = batch[m]
  BY <1>1 DEF Core, Types, Rest
<1>4. \A r \in rows : ~Handled(r.msg) /\ r.msg \in Message
  <2> SUFFICES ASSUME NEW r \in rows, Handled(r.msg) PROVE FALSE
    BY <1>2, RowSent
  <2>1. PICK m \in Node : reader[m] = "delete" /\ r.to = Mailbox(m)
    BY <1>2 DEF OnceParts, ReadOnce
  <2>2. m = n
    BY <1>2, <2>1, OneReader DEF OnceParts
  <2> QED  BY <1>1, <2>1, <2>2
<1>5. \A m \in Message : Handled(m)' <=> Handled(m) \/ \E r \in rows : r.msg = m
  BY <1>1, <1>2, StartedHandles DEF Core
<1>6. Roles'
  BY <1>1, <1>3 DEF OnceParts, Roles, Core, Rest
<1>7. WrittenOnce'
  BY <1>1, <1>2, <1>5 DEF OnceParts, WrittenOnce, InTable, Done
<1>8. ASSUME NEW m \in Message
      PROVE  times'[m] <= 1
  <2> DEFINE hits == {r \in rows : r.msg = m}
  <2>1. times'[m] = IF hits = {} THEN times[m]
                    ELSE IF times[m] = 0 /\ \E r \in hits : hits = {r} THEN 1 ELSE 2
    BY <1>1 DEF Started
  <2>2. times[m] \in 0..2 /\ times[m] <= 1
    BY DEF Core, Types, OnceParts, ReadOnce
  <2>3. CASE hits # {}
    <3>1. PICK r \in hits : TRUE
      BY <2>3
    <3>2. hits = {r}
      BY <1>2, <3>1 DEF OnceParts, WrittenOnce
    <3>3. times[m] = 0
      BY <1>4, <2>2, <3>1 DEF Handled
    <3> HIDE DEF hits
    <3> QED  BY <2>1, <2>3, <3>1, <3>2, <3>3
  <2> HIDE DEF hits
  <2> QED  BY <2>1, <2>2, <2>3
<1>9. ASSUME NEW r \in table', Handled(r.msg)'
      PROVE  \E m \in Node : reader'[m] = "delete" /\ r.id \in batch'[m] /\ r.to = Mailbox(m)'
  <2>0. r \in table /\ r.msg \in Message /\ \A m \in Node : Mailbox(m)' = Mailbox(m)
    BY <1>1, RowSent DEF Mailbox
  <2>1. CASE r \in rows
    BY <1>2, <1>3, <2>0, <2>1
  <2>2. CASE r \notin rows
    <3>1. Handled(r.msg)
      <4> SUFFICES ASSUME NEW q \in rows, q.msg = r.msg PROVE FALSE
        BY <1>5, <1>9, <2>0
      <4> QED  BY <1>2, <2>0, <2>2 DEF OnceParts, WrittenOnce
    <3>2. PICK m \in Node : reader[m] = "delete" /\ r.id \in batch[m] /\ r.to = Mailbox(m)
      BY <2>0, <3>1 DEF OnceParts, ReadOnce
    <3> QED  BY <1>1, <1>3, <2>0, <3>2
  <2> QED  BY <2>1, <2>2
<1>10. ReadOnce'
  BY <1>8, <1>9 DEF ReadOnce
<1> QED  BY <1>6, <1>7, <1>10 DEF OnceParts

\* Rows are deleted, by clear() or after they were handled.
LEMMA RowsGoOnce ==
    ASSUME OnceParts, table' \subseteq table, UNCHANGED <<times, taken, hand, role>>, Roles',
           \A r \in table' : \A n \in Node :
               reader[n] = "delete" /\ r.id \in batch[n]
               => reader'[n] = "delete" /\ r.id \in batch'[n]
    PROVE  OnceParts'
<1>1. WrittenOnce'
  BY DEF OnceParts, WrittenOnce, Handled, InTable, Done
<1>2. ReadOnce'
  BY DEF OnceParts, ReadOnce, Handled, Mailbox
<1> QED  BY <1>1, <1>2 DEF OnceParts

LEMMA ReaderOnce ==
    ASSUME Core, Rest, OnceParts, NEW n \in Node,
           ReaderConnects(n) \/ ReaderDeletes(n) \/ ReaderWakes(n) \/ ReaderPoisoned(n)
    PROVE  OnceParts'
<1>1. /\ UNCHANGED <<times, taken, hand, role, up, clearing>> /\ table' \subseteq table
      /\ \A m \in Node \ {n} : reader'[m] = reader[m] /\ batch'[m] = batch[m]
      /\ reader[n] # "off"
  BY DEF ReaderConnects, ReaderDeletes, ReaderWakes, ReaderPoisoned, tableVars, writerVars, nodeVars,
     history, Core, Types, Rest
<1>2. Roles'
  BY <1>1 DEF OnceParts, Roles
<1>3. \A r \in table' : reader[n] = "delete" => r.id \notin batch[n]
  BY DEF ReaderConnects, ReaderDeletes, ReaderWakes, ReaderPoisoned
<1> QED  BY <1>1, <1>2, <1>3, RowsGoOnce

LEMMA ClearsOnce ==
    ASSUME Core, Rest, OnceParts, NEW n \in Node, ClearAgent(n) \/ ClearExpired(n)
    PROVE  OnceParts'
<1>1. /\ UNCHANGED <<times, taken, hand, role, up, reader, batch>> /\ table' \subseteq table
      /\ clearing' = [clearing EXCEPT ![n] = "done"]
         \/ (role[n] /\ clearing' = [clearing EXCEPT ![n] = "rename"])
  BY DEF ClearAgent, ClearExpired, writerVars, readerVars
<1>2. Roles'
  BY <1>1 DEF OnceParts, Roles, Rest
<1> QED  BY <1>1, <1>2, RowsGoOnce

\* What is readdressed was addressed to the master by its name: nobody reads that.
LEMMA RenamesOnce ==
    ASSUME Core, Rest, OnceParts, NEW n \in Node, ClearRename(n)
    PROVE  OnceParts'
<1> DEFINE New(r) == [r EXCEPT !.to = IF @ = n THEN Master ELSE @]
<1>1. /\ table' = {New(r) : r \in table} /\ clearing' = [clearing EXCEPT ![n] = "done"]
      /\ UNCHANGED <<times, taken, hand, role, up, reader, batch>> /\ role[n]
  BY DEF ClearRename, writerVars, readerVars, OnceParts, Roles
<1>2. \A r \in table : New(r).msg = r.msg /\ New(r).id = r.id
                      /\ New(r).to = IF r.to = n THEN Master ELSE r.to
  BY DEF Core, Types, Row
<1> HIDE DEF New
<1>3. Roles'
  BY <1>1 DEF OnceParts, Roles, Rest
<1>4. WrittenOnce'
  BY <1>1, <1>2 DEF OnceParts, WrittenOnce, Handled, InTable, Done
<1>5. \A m \in Node : Mailbox(m)' = Mailbox(m) /\ Mailbox(m) # n
  BY <1>1, ChannelAssumption DEF Mailbox, OnceParts, Roles
<1>6. ReadOnce'
  <2>1. ASSUME NEW r \in table, Handled(r.msg)
        PROVE  \E m \in Node : reader[m] = "delete" /\ r.id \in batch[m] /\ New(r).to = Mailbox(m)
    BY <1>2, <1>5, <2>1 DEF OnceParts, ReadOnce
  <2>2. \A m : Handled(m)' <=> Handled(m)
    BY <1>1 DEF Handled
  <2>3. ASSUME NEW q \in table', Handled(q.msg)'
        PROVE  \E m \in Node : reader'[m] = "delete" /\ q.id \in batch'[m] /\ q.to = Mailbox(m)'
    <3>1. PICK r \in table : q = New(r)
      BY <1>1
    <3> QED  BY <1>1, <1>2, <1>5, <2>1, <2>2, <2>3, <3>1
  <2> QED  BY <1>1, <2>3 DEF OnceParts, ReadOnce
<1> QED  BY <1>3, <1>4, <1>6 DEF OnceParts

\* A node starts when its workers are off.
LEMMA NodeOnce ==
    ASSUME Core, Rest, OnceParts, NEW n \in Node,
           (Start(n) /\ UNCHANGED role) \/ Close(n) \/ Exit(n)
    PROVE  OnceParts'
<1>1. CASE Start(n) /\ UNCHANGED role
  <2>1. /\ UNCHANGED <<table, times, taken, hand, role, batch>> /\ reader[n] = "off"
        /\ reader' = [reader EXCEPT ![n] = "connect"] /\ up' = [up EXCEPT ![n] = TRUE]
        /\ clearing' = [clearing EXCEPT ![n] = "todo"]
    BY <1>1 DEF Start, OnceParts, Roles, tableVars, history
  <2>2. Roles'
    BY <2>1 DEF OnceParts, Roles, Rest
  <2>3. \A m \in Node : reader[m] = "delete" => reader'[m] = "delete"
    BY <2>1 DEF Rest
  <2> QED  BY <2>1, <2>2, <2>3, RowsGoOnce
<1>2. CASE Close(n) \/ Exit(n)
  <2>1. /\ UNCHANGED <<table, times, taken, hand, role, batch, reader, clearing>>
        /\ up' = up \/ (up' = [up EXCEPT ![n] = FALSE] /\ reader[n] = "off")
    BY <1>2 DEF Close, Exit, tableVars, writerVars, readerVars, history
  <2>2. Roles'
    BY <2>1 DEF OnceParts, Roles, Rest
  <2> QED  BY <2>1, <2>2, RowsGoOnce
<1> QED  BY <1>1, <1>2

LEMMA OnceStep == Core /\ Rest /\ Once /\ [Next]_vars => Once'
<1> SUFFICES ASSUME Core, Rest, Once, [Next]_vars, Healthy' PROVE OnceParts'
  BY DEF Once, OnceParts
<1>1. CASE UNCHANGED vars
  BY <1>1 DEF vars, tableVars, writerVars, readerVars, nodeVars, history, bounds, Once, OnceParts,
              Healthy, Roles, WrittenOnce, ReadOnce, Handled, InTable, Done, Mailbox
<1>2. ASSUME NEW n \in Node,
             \/ Publish(n) \/ Write(n) \/ WriteFails(n) \/ Read(n) \/ ReadFails(n)
             \/ Clear(n) \/ Start(n) \/ SwitchRole(n) \/ Close(n) \/ Exit(n) \/ Die(n)
      PROVE  OnceParts'
  <2>1. Healthy
    <3>1. faults' \in {faults, faults + 1} /\ switches' \in {switches, switches + 1}
      <4> USE DEF bounds, Fault, SwitchAllowed
      <4>1. CASE Publish(n) \/ Write(n) \/ WriteFails(n)
        BY <4>1 DEF Publish, Write, WriteFails, WriterConnects, WriterTakes, WriterInserts, WriterWakes,
           WriterPoisoned, WriterCannotConnect, WriterLosesConnection, WriterRejects
      <4>2. CASE Read(n) \/ ReadFails(n) \/ Clear(n)
        BY <4>2 DEF Read, ReadFails, Clear, ReaderConnects, ReaderSelects, ReaderDeletes, ReaderWakes,
           ReaderPoisoned, ReaderCannotRead, ReaderLosesConnection, ClearAgent, ClearExpired, ClearRename
      <4>3. CASE Start(n) \/ SwitchRole(n) \/ Close(n) \/ Exit(n) \/ Die(n)
        BY <4>3 DEF Start, SwitchRole, Close, Exit, Die
      <4> QED  BY <1>2, <4>1, <4>2, <4>3
    <3> QED  BY <3>1 DEF Healthy, Rest
  <2>2. OnceParts
    BY <2>1 DEF Once, OnceParts
  <2>3. ~Fault /\ ~SwitchAllowed
    BY <2>1, FaultEndsHealth
  <2>4. CASE Start(n)
    <3>1. UNCHANGED role
      BY <2>3, <2>4 DEF Start
    <3> QED  BY <2>2, <2>4, <3>1, NodeOnce
  <2>5. ~WriteFails(n) /\ ~ReadFails(n) /\ ~SwitchRole(n) /\ ~Die(n)
    BY <2>3 DEF WriteFails, ReadFails, SwitchRole, Die, WriterCannotConnect, WriterLosesConnection,
       WriterRejects, ReaderCannotRead, ReaderLosesConnection
  <2> QED
    BY <1>2, <2>2, <2>4, <2>5, WriterOnce, InsertsOnce, SelectsOnce, ReaderOnce, ClearsOnce,
       RenamesOnce, NodeOnce DEF Write, Read, Clear
<1> QED  BY <1>1, <1>2 DEF Next

\* As long as nothing fails and no role changes, no message is handled twice, for any
\* number of nodes, messages and regular shutdowns.
THEOREM HandledOnce == Spec => []OnceWhenHealthy
<1>1. Init => Once
  <2> SUFFICES ASSUME Init PROVE Roles /\ WrittenOnce /\ ReadOnce
    BY DEF Once
  <2>1. Roles
    BY DEF Init, Roles
  <2>2. WrittenOnce
    BY DEF Init, WrittenOnce, Handled, InTable
  <2>3. ReadOnce
    BY DEF Init, ReadOnce
  <2> QED  BY <2>1, <2>2, <2>3
<1>2. Once => OnceWhenHealthy
  BY DEF Once, Healthy, ReadOnce, OnceWhenHealthy
<1>3. Init => Rest
  BY ChannelAssumption DEF Init, Rest, Worker
<1> QED  BY <1>1, <1>2, <1>3, OnceStep, RestStep, CoreHolds, PTL DEF Spec
=============================================================================
