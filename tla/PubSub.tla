------------------------------- MODULE PubSub -------------------------------
(***************************************************************************)
(* A message channel of the cluster (core/pubsub.py): INTERCOM or          *)
(* BROADCASTS.  Each node process has a write_queue and a write worker     *)
(* that inserts its messages into a table, and a read worker that selects  *)
(* the rows addressed to its node (or to "Master"), starts a handler for   *)
(* each and deletes them.  Both workers reconnect with a back-off.         *)
(*                                                                         *)
(* A message is the number-th one its node published; so the write_queue   *)
(* of n is the interval taken[n]+1 .. Len(dest[n]).  Notifications only    *)
(* shorten the 5 s poll: the reader may select at any time.                *)
(***************************************************************************)
EXTENDS Naturals, Sequences, FiniteSets

CONSTANTS
    Node,         \* the nodes of the cluster
    Master,       \* the address of whichever node is the master
    MaxMessages,  \* bound: messages published
    MaxRetries,   \* max_retries of both workers
    MaxFaults,    \* bound: errors of the database, crashes, timeouts
    MaxSwitches,  \* bound: changes of a node's role
    MaxCloses,    \* bound: regular shutdowns
    MaxEvents     \* bound: all of these together

ASSUME ChannelAssumption ==
    /\ Master \notin Node
    /\ MaxMessages \in Nat /\ MaxRetries \in Nat \ {0}
    /\ MaxFaults \in Nat /\ MaxSwitches \in Nat /\ MaxCloses \in Nat
    /\ MaxEvents \in Nat

VARIABLES
    table,     \* the rows: their id, current address and message
    nextId,    \* the sequence that numbers the rows
    up,        \* the node process is running
    role,      \* node.master
    stop,      \* _stop_event
    dest,      \* the addresses of the messages a node has published so far
    taken,     \* how many of them its write worker has taken
    hand,      \* the worker has the last message it took still in hand
    writer,    \* where the write worker stands
    reader,    \* where the read worker stands
    batch,     \* the ids the read worker is about to delete
    retries,   \* of the writer and the reader
    clearing,  \* progress of clear(), called once by ServiceBus.start()
    times,     \* history: how often a handler was started for a message
    dropped,   \* history: messages that were given up,
    readdressed,  \* ... and messages to a node that became the master
    faults,    \* faults, role changes and shutdowns so far (bounded)
    switches,
    closes

tableVars  == <<table, nextId>>
writerVars == <<dest, taken, hand, writer>>
readerVars == <<reader, batch>>
nodeVars   == <<up, role, stop, clearing>>
history    == <<times, dropped, readdressed>>
bounds   == <<faults, switches, closes>>
vars == <<tableVars, writerVars, readerVars, nodeVars, retries, history, bounds>>

Address == Node \cup {Master}
Message == [from : Node, num : 1..MaxMessages]
Row == [id : Nat, to : Address, msg : Message]
Worker == {"off", "connect", "backoff"}

TypeOK ==
    /\ table \subseteq Row /\ nextId \in Nat
    /\ up \in [Node -> BOOLEAN] /\ role \in [Node -> BOOLEAN]
    /\ stop \in [Node -> BOOLEAN]
    /\ dest \in [Node -> Seq(Address)] /\ taken \in [Node -> 0..MaxMessages]
    /\ hand \in [Node -> BOOLEAN]
    /\ writer \in [Node -> Worker \cup {"get", "insert"}]
    /\ reader \in [Node -> Worker \cup {"wait", "delete"}]
    /\ batch \in [Node -> SUBSET Nat]
    /\ retries \in [Node -> [writer : 0..MaxRetries, reader : 0..MaxRetries]]
    /\ clearing \in [Node -> {"todo", "rename", "done"}]
    /\ times \in [Message -> 0..2] /\ dropped \subseteq Message
    /\ readdressed \subseteq Message
    /\ faults \in 0..MaxFaults /\ switches \in 0..MaxSwitches
    /\ closes \in 0..MaxCloses

Init ==
    /\ table = {} /\ nextId = 1
    /\ up = [n \in Node |-> FALSE]
    /\ \E m \in Node : role = [n \in Node |-> n = m]   \* from the first election
    /\ stop = [n \in Node |-> FALSE]
    /\ dest = [n \in Node |-> <<>>] /\ taken = [n \in Node |-> 0]
    /\ hand = [n \in Node |-> FALSE]
    /\ writer = [n \in Node |-> "off"] /\ reader = [n \in Node |-> "off"]
    /\ batch = [n \in Node |-> {}]
    /\ retries = [n \in Node |-> [writer |-> 0, reader |-> 0]]
    /\ clearing = [n \in Node |-> "todo"]
    /\ times = [m \in Message |-> 0] /\ dropped = {} /\ readdressed = {}
    /\ faults = 0 /\ switches = 0 /\ closes = 0

-----------------------------------------------------------------------------
\* Something may still happen in this instance.
MayHappen == faults + switches + closes < MaxEvents
Fault == MayHappen /\ faults < MaxFaults /\ faults' = faults + 1

\* The address a node reads, and the rows it finds there.
Mailbox(n) == IF role[n] THEN Master ELSE n
RowsTo(a) == {r \in table : r.to = a}

InTable(m) == \E r \in table : r.msg = m
Handled(m) == times[m] > 0
Msg(n, k) == [from |-> n, num |-> k]
Published(n) == {Msg(n, k) : k \in 1..Len(dest[n])}

\* What the write worker of n has not written: its queue and its hand.
Unwritten(n) ==
    {Msg(n, k) : k \in {i \in 1..Len(dest[n]) : i > taken[n] \/ (hand[n] /\ i = taken[n])}}
Current(n) == Msg(n, taken[n])
NewRow(n) == [id |-> nextId, to |-> dest[n][taken[n]], msg |-> Current(n)]

\* The write worker of n ends, its queue is not read any more.
WriterEnds(n, lost) ==
    /\ writer' = [writer EXCEPT ![n] = "off"]
    /\ taken' = [taken EXCEPT ![n] = Len(dest[n])]
    /\ hand' = [hand EXCEPT ![n] = FALSE]
    /\ dropped' = dropped \cup lost

-----------------------------------------------------------------------------
(* publish() and the write worker.                                         *)

\* send_to_node(): the master addresses a node, a node addresses the master.
Publish(n) ==
    /\ up[n] /\ Len(dest[n]) < MaxMessages
    /\ Cardinality(UNION {Published(s) : s \in Node}) < MaxMessages
    /\ \E a \in IF role[n] THEN Node \ {n} ELSE {Master} :
           dest' = [dest EXCEPT ![n] = Append(@, a)]
    /\ IF writer[n] = "off"
       THEN /\ taken' = [taken EXCEPT ![n] = @ + 1]
            /\ dropped' = dropped \cup {Msg(n, Len(dest[n]) + 1)}
       ELSE UNCHANGED <<taken, dropped>>
    /\ UNCHANGED <<tableVars, hand, writer, readerVars, nodeVars, retries, times,
                   readdressed, bounds>>

SetRetries(n, worker, k) == retries' = [retries EXCEPT ![n][worker] = k]

\* (Variant: the worker waits for the next message and forgets the pending one.)
WriterConnects_Waits(n) ==
    /\ writer[n] = "connect"
    /\ SetRetries(n, "writer", 0)
    /\ writer' = [writer EXCEPT ![n] = "get"]
    /\ UNCHANGED <<tableVars, dest, taken, hand, readerVars, nodeVars, history,
                   bounds>>

\* A connection resets the counter and the delay; a pending message goes first.
WriterConnects(n) ==
    /\ writer[n] = "connect"
    /\ SetRetries(n, "writer", 0)
    /\ writer' = [writer EXCEPT ![n] = IF hand[n] THEN "insert" ELSE "get"]
    /\ UNCHANGED <<tableVars, dest, taken, hand, readerVars, nodeVars, history,
                   bounds>>

\* The worker backs off, or gives up with a FatalException.
WriterRetries(n) ==
    IF retries[n].writer + 1 > MaxRetries
    THEN WriterEnds(n, Unwritten(n)) /\ UNCHANGED retries
    ELSE /\ writer' = [writer EXCEPT ![n] = "backoff"]
         /\ SetRetries(n, "writer", retries[n].writer + 1)
         /\ UNCHANGED <<taken, hand, dropped>>

WriterCannotConnect(n) ==
    /\ writer[n] = "connect" /\ Fault
    /\ WriterRetries(n)
    /\ UNCHANGED <<tableVars, dest, readerVars, nodeVars, times, readdressed, switches,
                   closes>>

\* await write_queue.get()
WriterTakes(n) ==
    /\ writer[n] = "get" /\ taken[n] < Len(dest[n])
    /\ taken' = [taken EXCEPT ![n] = @ + 1]
    /\ hand' = [hand EXCEPT ![n] = TRUE]
    /\ writer' = [writer EXCEPT ![n] = "insert"]
    /\ UNCHANGED <<tableVars, dest, readerVars, nodeVars, retries, history,
                   bounds>>

\* The worker is through with a message: after close() the loop ends, and what
\* is left in the queue is never written.
WriterProceeds(n, lost) ==
    IF stop[n]
    THEN WriterEnds(n, lost \cup (Unwritten(n) \ {Current(n)}))
    ELSE /\ hand' = [hand EXCEPT ![n] = FALSE]
         /\ writer' = [writer EXCEPT ![n] = "get"]
         /\ dropped' = dropped \cup lost
         /\ UNCHANGED taken

WriterInserts(n) ==
    /\ writer[n] = "insert"
    /\ table' = table \cup {NewRow(n)} /\ nextId' = nextId + 1
    /\ SetRetries(n, "writer", 0)
    /\ WriterProceeds(n, {})
    /\ UNCHANGED <<dest, readerVars, nodeVars, times, readdressed, bounds>>

\* (Variant: the message is forgotten with the connection.)
WriterLosesConnection_Forgets(n) ==
    /\ writer[n] = "insert" /\ Fault
    /\ writer' = [writer EXCEPT ![n] = "backoff"]
    /\ hand' = [hand EXCEPT ![n] = FALSE]
    /\ UNCHANGED <<tableVars, dest, taken, dropped, retries, readerVars, nodeVars,
                   times, readdressed, switches, closes>>

\* OperationalError of the INSERT: the row may have been committed all the same.
WriterLosesConnection(n) ==
    /\ writer[n] = "insert" /\ Fault
    /\ \/ table' = table \cup {NewRow(n)} /\ nextId' = nextId + 1
       \/ UNCHANGED tableVars
    /\ WriterRetries(n)
    /\ UNCHANGED <<dest, readerVars, nodeVars, times, readdressed, switches, closes>>

\* Any other error: the message is logged and dropped.
WriterRejects(n) ==
    /\ writer[n] = "insert" /\ Fault
    /\ WriterProceeds(n, {Current(n)})
    /\ UNCHANGED <<tableVars, dest, readerVars, nodeVars, retries, times, readdressed,
                   switches, closes>>

\* close() during the back-off ends the worker at once.
WriterWakes(n) ==
    /\ writer[n] = "backoff"
    /\ IF stop[n]
       THEN WriterEnds(n, Unwritten(n))
       ELSE writer' = [writer EXCEPT ![n] = "connect"] /\ UNCHANGED <<taken, hand, dropped>>
    /\ UNCHANGED <<tableVars, dest, readerVars, nodeVars, retries, times, readdressed,
                   bounds>>

\* The None that close() puts into the empty queue.
WriterPoisoned(n) ==
    /\ writer[n] = "get" /\ stop[n] /\ taken[n] = Len(dest[n])
    /\ WriterEnds(n, {})
    /\ UNCHANGED <<tableVars, dest, readerVars, nodeVars, retries, times, readdressed,
                   bounds>>

-----------------------------------------------------------------------------
(* The read worker.                                                        *)

ReaderConnects(n) ==
    /\ reader[n] = "connect"
    /\ SetRetries(n, "reader", 0)
    /\ reader' = [reader EXCEPT ![n] = "wait"]
    /\ UNCHANGED <<tableVars, writerVars, batch, nodeVars, history, bounds>>

ReaderRetries(n) ==
    IF retries[n].reader + 1 > MaxRetries
    THEN reader' = [reader EXCEPT ![n] = "off"] /\ UNCHANGED retries
    ELSE /\ reader' = [reader EXCEPT ![n] = "backoff"]
         /\ SetRetries(n, "reader", retries[n].reader + 1)

\* The connection cannot be opened, or it breaks in the SELECT.
ReaderCannotRead(n) ==
    /\ reader[n] \in {"connect", "wait"} /\ Fault
    /\ ReaderRetries(n)
    /\ UNCHANGED <<tableVars, writerVars, batch, nodeVars, history, switches, closes>>

\* Handlers are started for the messages of these rows (counted up to two).
Started(rows) ==
    [m \in Message |->
        LET hits == {r \in rows : r.msg = m}
        IN  IF hits = {} THEN times[m]
            ELSE IF times[m] = 0 /\ \E r \in hits : hits = {r} THEN 1 ELSE 2]

\* (Variant: one row at a time, in no order.)
ReaderSelects_OneRow(n) ==
    /\ reader[n] = "wait"
    /\ \E r \in RowsTo(Mailbox(n)) :
           times' = Started({r}) /\ batch' = [batch EXCEPT ![n] = {r.id}]
    /\ reader' = [reader EXCEPT ![n] = "delete"]
    /\ UNCHANGED <<tableVars, writerVars, nodeVars, retries, dropped, readdressed, bounds>>

\* do_read(): all rows of the mailbox, a handler is started for each.
ReaderSelects(n) ==
    /\ reader[n] = "wait"
    /\ LET rows == RowsTo(Mailbox(n)) IN
       /\ rows # {}
       /\ times' = Started(rows)
       /\ batch' = [batch EXCEPT ![n] = {r.id : r \in rows}]
    /\ reader' = [reader EXCEPT ![n] = "delete"]
    /\ UNCHANGED <<tableVars, writerVars, nodeVars, retries, dropped, readdressed, bounds>>

\* (Variant: the rows stay.)
ReaderDeletes_Nothing(n) ==
    /\ reader[n] = "delete"
    /\ batch' = [batch EXCEPT ![n] = {}]
    /\ reader' = [reader EXCEPT ![n] = IF stop[n] THEN "off" ELSE "wait"]
    /\ UNCHANGED <<tableVars, writerVars, nodeVars, retries, history, bounds>>

ReaderDeletes(n) ==
    /\ reader[n] = "delete"
    /\ table' = {r \in table : r.id \notin batch[n]}
    /\ batch' = [batch EXCEPT ![n] = {}]
    /\ reader' = [reader EXCEPT ![n] = IF stop[n] THEN "off" ELSE "wait"]
    /\ UNCHANGED <<nextId, writerVars, nodeVars, retries, history, bounds>>

\* OperationalError of the DELETE: its handlers run, the rows may still be there.
ReaderLosesConnection(n) ==
    /\ reader[n] = "delete" /\ Fault
    /\ \/ table' = {r \in table : r.id \notin batch[n]}
       \/ UNCHANGED table
    /\ batch' = [batch EXCEPT ![n] = {}]
    /\ ReaderRetries(n)
    /\ UNCHANGED <<nextId, writerVars, nodeVars, history, switches, closes>>

ReaderWakes(n) ==
    /\ reader[n] = "backoff"
    /\ reader' = [reader EXCEPT ![n] = IF stop[n] THEN "off" ELSE "connect"]
    /\ UNCHANGED <<tableVars, writerVars, batch, nodeVars, retries, history, bounds>>

\* close() ends the worker at its None; notifications before it cause one read.
ReaderPoisoned(n) ==
    /\ reader[n] = "wait" /\ stop[n]
    /\ reader' = [reader EXCEPT ![n] = "off"]
    /\ UNCHANGED <<tableVars, writerVars, batch, nodeVars, retries, history, bounds>>

-----------------------------------------------------------------------------
(* The node process.                                                       *)

SwitchAllowed == MayHappen /\ switches < MaxSwitches /\ switches' = switches + 1

\* __init__() of the channel, in the role of the first heartbeat.
Start(n) ==
    /\ ~up[n]
    /\ up' = [up EXCEPT ![n] = TRUE] /\ stop' = [stop EXCEPT ![n] = FALSE]
    /\ \/ UNCHANGED <<role, switches>>
       \/ SwitchAllowed /\ role' = [role EXCEPT ![n] = ~@]
    /\ writer' = [writer EXCEPT ![n] = "connect"]
    /\ reader' = [reader EXCEPT ![n] = "connect"]
    /\ retries' = [retries EXCEPT ![n] = [writer |-> 0, reader |-> 0]]
    /\ clearing' = [clearing EXCEPT ![n] = "todo"]
    /\ UNCHANGED <<tableVars, dest, taken, hand, batch, history, faults, closes>>

\* commit_claimed_master(): from now on the other mailbox is read.
SwitchRole(n) ==
    /\ up[n] /\ ~stop[n] /\ SwitchAllowed
    /\ role' = [role EXCEPT ![n] = ~@]
    /\ UNCHANGED <<tableVars, writerVars, readerVars, up, stop, clearing, retries,
                   history, faults, closes>>

\* What is given up when these rows are deleted unread.
GivenUp(rows) ==
    {r.msg : r \in {q \in rows : \A p \in table \ rows : p.msg # q.msg}}

\* clear() of an agent: the messages to this node are outdated.
ClearAgent(n) ==
    /\ up[n] /\ ~stop[n] /\ clearing[n] = "todo" /\ ~role[n]
    /\ table' = table \ RowsTo(n)
    /\ dropped' = dropped \cup {m \in GivenUp(RowsTo(n)) : ~Handled(m)}
    /\ clearing' = [clearing EXCEPT ![n] = "done"]
    /\ UNCHANGED <<nextId, writerVars, readerVars, up, role, stop, retries, times,
                   readdressed, bounds>>

\* clear() of the master: rows older than 300 s are deleted (if there are any) ...
ClearExpired(n) ==
    /\ up[n] /\ ~stop[n] /\ clearing[n] = "todo" /\ role[n]
    /\ \/ UNCHANGED <<table, dropped, faults>>
       \/ /\ Fault
          /\ \E k \in {r.id : r \in table} :
               LET old == {r \in table : r.id <= k} IN
               /\ table' = table \ old
               /\ dropped' = dropped \cup {m \in GivenUp(old) : ~Handled(m)}
    /\ clearing' = [clearing EXCEPT ![n] = "rename"]
    /\ UNCHANGED <<nextId, writerVars, readerVars, up, role, stop, retries, times,
                   readdressed,
                   switches, closes>>

\* ... and what was sent to this node is readdressed to the master.
ClearRename(n) ==
    /\ up[n] /\ ~stop[n] /\ clearing[n] = "rename"
    /\ table' = {[r EXCEPT !.to = IF @ = n THEN Master ELSE @] : r \in table}
    /\ readdressed' = readdressed \cup {r.msg : r \in RowsTo(n)}
    /\ clearing' = [clearing EXCEPT ![n] = "done"]
    /\ UNCHANGED <<nextId, writerVars, readerVars, up, role, stop, retries,
                   times, dropped, bounds>>

\* close(): also after a worker has given up, which shuts the node down.
Close(n) ==
    /\ up[n] /\ ~stop[n]
    /\ \/ "off" \in {writer[n], reader[n]} /\ UNCHANGED closes
       \/ MayHappen /\ closes < MaxCloses /\ closes' = closes + 1
    /\ stop' = [stop EXCEPT ![n] = TRUE]
    /\ UNCHANGED <<tableVars, writerVars, readerVars, up, role, clearing, retries,
                   history, faults, switches>>

\* Both workers have ended.
Exit(n) ==
    /\ up[n] /\ stop[n] /\ writer[n] = "off" /\ reader[n] = "off"
    /\ up' = [up EXCEPT ![n] = FALSE]
    /\ UNCHANGED <<tableVars, writerVars, readerVars, role, stop, clearing, retries,
                   history, bounds>>

\* The process dies, or close() cancels its workers after 30 s: an INSERT or a
\* DELETE under way takes effect or not.
Die(n) ==
    /\ up[n] /\ Fault
    /\ WriterEnds(n, Unwritten(n))
    /\ \/ UNCHANGED tableVars
       \/ /\ writer[n] = "insert"
          /\ table' = table \cup {NewRow(n)} /\ nextId' = nextId + 1
       \/ /\ reader[n] = "delete"
          /\ table' = {r \in table : r.id \notin batch[n]} /\ UNCHANGED nextId
    /\ reader' = [reader EXCEPT ![n] = "off"] /\ batch' = [batch EXCEPT ![n] = {}]
    /\ up' = [up EXCEPT ![n] = FALSE]
    /\ UNCHANGED <<dest, role, stop, clearing, retries, times, readdressed, switches,
                   closes>>

-----------------------------------------------------------------------------
Write(n) ==
    \/ WriterConnects(n) \/ WriterTakes(n) \/ WriterInserts(n) \/ WriterWakes(n)
    \/ WriterPoisoned(n)
WriteFails(n) ==
    \/ WriterCannotConnect(n) \/ WriterLosesConnection(n) \/ WriterRejects(n)
Read(n) ==
    \/ ReaderConnects(n) \/ ReaderSelects(n) \/ ReaderDeletes(n) \/ ReaderWakes(n)
    \/ ReaderPoisoned(n)
ReadFails(n) == ReaderCannotRead(n) \/ ReaderLosesConnection(n)
Clear(n) == ClearAgent(n) \/ ClearExpired(n) \/ ClearRename(n)

Next == \E n \in Node :
    \/ Publish(n) \/ Write(n) \/ WriteFails(n) \/ Read(n) \/ ReadFails(n)
    \/ Clear(n) \/ Start(n) \/ SwitchRole(n) \/ Close(n) \/ Exit(n) \/ Die(n)

Spec == Init /\ [][Next]_vars

\* The event loop of a running node runs its workers, and the main loop ends a
\* node whose worker has given up.
Fairness == \A n \in Node :
    /\ WF_vars(Write(n)) /\ WF_vars(Read(n)) /\ WF_vars(Exit(n))
    /\ WF_vars("off" \in {writer[n], reader[n]} /\ Close(n))

FairSpec == Spec /\ Fairness

-----------------------------------------------------------------------------
(* Properties.                                                             *)

\* No message gets lost on the way: it is queued, a row, handled or given up.
NoLoss ==
    \A n \in Node : \A m \in Published(n) :
        m \in Unwritten(n) \/ InTable(m) \/ Handled(m) \/ m \in dropped

\* The channel implements Mailbox: at least once and, per sender and address, in
\* the order in which the messages were published, whatever fails in between.
Promise == INSTANCE Mailbox WITH
    sent <- dest, handled <- {m \in Message : Handled(m)}, excused <- dropped \cup readdressed
MailboxSpec == Promise!Spec

\* As long as nothing fails and no role changes, no message is handled twice.
OnceWhenHealthy ==
    faults = 0 /\ switches = 0 => \A m \in Message : times[m] <= 1

Serves(n, a) == up[n] /\ ~stop[n] /\ Mailbox(n) = a

\* What n finds in its mailbox, or would find if it was written, and nobody has handled.
Unhandled(n) ==
    {m \in UNION {Published(s) : s \in Node} :
        /\ Serves(n, dest[m.from][m.num])
        /\ ~Handled(m) /\ m \notin dropped \cup readdressed}

\* A published message is handled in the end: no node goes on serving its address for
\* ever without it, unless it was given up or readdressed.  There are finitely many
\* messages, so this is to say that no node has one left, again and again.
EventuallyHandled == []<>(\A n \in Node : Unhandled(n) = {})
=============================================================================
