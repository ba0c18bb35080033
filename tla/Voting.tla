------------------------------- MODULE Voting -------------------------------
(***************************************************************************)
(* Votes of the players of a server (plugins/voting).  A vote is a         *)
(* VotingHandler with a timer; the server has one that people can vote in, *)
(* _all_votes[server.name].  It is created in the chat or in Discord,      *)
(* cancelled there, and ends with its timer, in a task that counts the     *)
(* votes, executes the winner, which takes a minute, and then removes the  *)
(* vote of the server.                                                     *)
(*                                                                         *)
(* Chat commands of a server are handled one after the other; Discord and  *)
(* the timers run beside them.                                             *)
(***************************************************************************)
EXTENDS Naturals, FiniteSets, SequencesExt, FiniteSetsExt, Functions

CONSTANTS
    Player,     \* who plays
    Guest,      \* who creates votes in Discord
    None,       \* Python's None
    Option,     \* what can be voted for
    Rules,      \* voting_rule
    Threshold,  \* voting_threshold, in percent
    May,        \* what may happen, see below
    MaxVotes    \* bound: votes

\* "race": votes are created in the chat while one is being created in Discord; "early",
\* "late": a vote is cancelled before its timer is set, or when it has gone off;
\* "choices": the options change during a vote; "twice": who creates a vote in Discord
\* also votes in the game.
ASSUME VotingAssumption ==
    /\ Guest \notin Player /\ None \notin Nat /\ Option # {} /\ IsFiniteSet(Option)
    /\ Rules \subseteq {"majority", "supermajority", "absolute", "unanimous"}
    /\ Threshold \in 0..100 /\ MaxVotes \in Nat
    /\ May \subseteq {"race", "early", "late", "choices", "twice"}

VARIABLES
    rule,      \* the rule of this server
    choices,   \* item.get_choices(): the first is to leave everything as it is
    active,    \* active players
    current,   \* _all_votes[server.name]
    creating,  \* votes being created: in the chat, by the guest in Discord
    pc,        \* where a vote stands
    votes,     \* handler.votes, the number of votes for each number
    voter,     \* handler.voter
    result,    \* the option that is executed
    ballots,   \* history: who meant what
    cancelled  \* history

history == <<ballots, cancelled>>
handlers == <<pc, votes, voter, result>>
vars == <<rule, choices, active, current, creating, handlers, history>>

Vote == 1..MaxVotes
Number == 0..(Cardinality(Option) + 1)
Open == {"starting", "open", "counting"}
UnderWay == Open \cup {"executing"}

NoVotes == [n \in Number |-> 0]

TypeOK ==
    /\ rule \in Rules /\ choices \in Seq(Option) /\ active \subseteq Player
    /\ current \in Vote \cup {None} /\ creating \subseteq {"chat", "Discord"}
    /\ pc \in [Vote -> {"none", "over", "failed", "cancelled"} \cup UnderWay]
    /\ votes \in [Vote -> [Number -> Nat]] /\ voter \in [Vote -> SUBSET Player]
    /\ result \in [Vote -> Option \cup {None}]
    /\ ballots \in [Vote -> SUBSET ((Player \cup {Guest}) \X Option)]
    /\ cancelled \subseteq Vote

OptionLists == UNION {Injection(1..k, Option) : k \in 1..Cardinality(Option)}

Init ==
    /\ rule \in Rules
    /\ choices = CHOOSE s \in OptionLists : Len(s) = Cardinality(Option)
    /\ active \in SUBSET Player
    /\ current = None /\ creating = {}
    /\ pc = [v \in Vote |-> "none"]
    /\ votes = [v \in Vote |-> NoVotes] /\ voter = [v \in Vote |-> {}]
    /\ result = [v \in Vote |-> None]
    /\ ballots = [v \in Vote |-> {}] /\ cancelled = {}

Total(v) == SumFunction(votes[v])
Most(v) == Max(Range(votes[v]))
Leads(v, n) == \A k \in Number : votes[v][k] <= votes[v][n]

-----------------------------------------------------------------------------
(* Creating a vote.                                                        *)

\* The handler is created, which starts the vote, and replaces the one of the server.
Creates(v) ==
    /\ pc[v] = "none" /\ \A u \in Vote : u < v => pc[u] # "none"
    /\ pc' = [pc EXCEPT ![v] = "starting"] /\ current' = v

Counts(v, n) == votes' = [votes EXCEPT ![v][n] = @ + 1]
Means(v, who, n) ==
    ballots' = IF n \in DOMAIN choices THEN [ballots EXCEPT ![v] = @ \cup {<<who, choices[n]>>}]
               ELSE ballots

\* (Variant: it is not asked whether there is a vote already.)
Free_Always(where) == creating' = creating \cup {where}

\* There is no vote on this server; the creation awaits credits, an audit, questions.
Free(where) ==
    /\ current = None
    /\ "race" \in May \/ creating = {}
    /\ creating' = creating \cup {where}

ChatAsk ==
    /\ "chat" \notin creating /\ active # {} /\ Free("chat")
    /\ UNCHANGED <<rule, choices, active, current, handlers, history>>

ChatCreate(v) ==
    /\ "chat" \in creating /\ creating' = creating \ {"chat"}
    /\ Creates(v)
    /\ UNCHANGED <<rule, choices, active, votes, voter, result, history>>

DiscordAsk ==
    /\ "Discord" \notin creating /\ Free("Discord")
    /\ UNCHANGED <<rule, choices, active, current, handlers, history>>

\* The vote of who creates it counts, and he is no voter.  If nobody plays, his wish is
\* fulfilled at once.
DiscordCreate(v, who, n) ==
    /\ "Discord" \in creating /\ creating' = creating \ {"Discord"}
    /\ active # {} /\ n \in DOMAIN choices \ {1}
    /\ who \in Player => "twice" \in May
    /\ Creates(v) /\ Counts(v, n) /\ Means(v, who, n)
    /\ UNCHANGED <<rule, choices, active, voter, result, cancelled>>

\* The creation ends before: no credits, wrong parameters, aborted.
GivesUp(where) ==
    /\ where \in creating /\ creating' = creating \ {where}
    /\ UNCHANGED <<rule, choices, active, current, handlers, history>>

-----------------------------------------------------------------------------
(* A vote.                                                                 *)

\* start(): the messages are out, the timer is set.
Starts(v) ==
    /\ pc[v] = "starting"
    /\ pc' = [pc EXCEPT ![v] = "open"]
    /\ UNCHANGED <<rule, choices, active, current, creating, votes, voter, result, history>>

\* (Variant: nobody looks who has voted.)
TypesNumber_Again(p, n) ==
    /\ p \in active /\ current # None /\ "chat" \notin creating
    /\ votes[current][n] <= Cardinality(Player)
    /\ Counts(current, n) /\ voter' = [voter EXCEPT ![current] = @ \cup {p}]
    /\ IF pc[current] \in Open THEN Means(current, p, n) ELSE UNCHANGED ballots
    /\ UNCHANGED <<rule, choices, active, current, creating, pc, result, cancelled>>

\* Any number is counted, also one that stands for nothing, as long as the server has
\* the vote.
TypesNumber(p, n) ==
    /\ p \in active /\ current # None /\ "chat" \notin creating
    /\ p \notin voter[current]
    /\ Counts(current, n) /\ voter' = [voter EXCEPT ![current] = @ \cup {p}]
    /\ IF pc[current] \in Open THEN Means(current, p, n) ELSE UNCHANGED ballots
    /\ UNCHANGED <<rule, choices, active, current, creating, pc, result, cancelled>>

TimerGoesOff(v) ==
    /\ pc[v] = "open"
    /\ pc' = [pc EXCEPT ![v] = "counting"]
    /\ UNCHANGED <<rule, choices, active, current, creating, votes, voter, result, history>>

\* check_vote(): enough people, and enough votes for the first of them.
Valid(v) ==
    /\ Total(v) > 0
    /\ 100 * Total(v) >= Threshold * (IF active = {} THEN 1 ELSE Cardinality(active))
    /\ rule = "supermajority" => 100 * Most(v) >= 33 * Total(v)
    /\ rule = "absolute" => 2 * Most(v) >= Total(v)
    /\ rule = "unanimous" => Most(v) = Total(v)

\* (Variant: the vote stays in the table.)
Removes_Nothing == UNCHANGED current

\* _all_votes.pop(server.name): whatever vote the server has.
Removes == current' = None

\* Nobody holds the handler any more.
Forgets(v) ==
    /\ votes' = [votes EXCEPT ![v] = NoVotes] /\ voter' = [voter EXCEPT ![v] = {}]
    /\ result' = [result EXCEPT ![v] = None] /\ ballots' = [ballots EXCEPT ![v] = {}]

\* Too few votes, or most of them for number 0.
NoResult(v) ==
    /\ pc[v] = "counting"
    /\ ~Valid(v) \/ (rule # "unanimous" /\ Leads(v, 0))
    /\ pc' = [pc EXCEPT ![v] = "over"] /\ Removes /\ Forgets(v)
    /\ UNCHANGED <<rule, choices, active, creating, cancelled>>

\* The option with the most votes; of several, the one that was voted for first.
HasResult(v, n) ==
    /\ pc[v] = "counting" /\ Valid(v) /\ rule # "unanimous"
    /\ Leads(v, n) /\ n \in DOMAIN choices
    /\ pc' = [pc EXCEPT ![v] = "executing"] /\ result' = [result EXCEPT ![v] = choices[n]]
    /\ UNCHANGED <<rule, choices, active, current, creating, votes, voter, history>>

\* end_vote() raises: there is no option of this number, or no vote for the next one,
\* as a unanimous result is taken for an index without being decreased first.
HasNoOption(v) ==
    /\ pc[v] = "counting" /\ Valid(v)
    /\ rule = "unanimous" \/ \E n \in Number : n > Len(choices) /\ Leads(v, n)
    /\ pc' = [pc EXCEPT ![v] = "failed"]
    /\ UNCHANGED <<rule, choices, active, current, creating, votes, voter, result, history>>

Executed(v) ==
    /\ pc[v] = "executing"
    /\ pc' = [pc EXCEPT ![v] = "over"] /\ Removes /\ Forgets(v)
    /\ UNCHANGED <<rule, choices, active, creating, cancelled>>

ExecutionFails(v) ==
    /\ pc[v] = "executing"
    /\ pc' = [pc EXCEPT ![v] = "failed"]
    /\ UNCHANGED <<rule, choices, active, current, creating, votes, voter, result, history>>

-----------------------------------------------------------------------------
(* Cancelling, and the game.                                               *)

\* The timer is cancelled if it is set and has not gone off.
Cancels(v) ==
    /\ pc[v] = "starting" => "early" \in May
    /\ pc[v] \in {"counting", "executing"} => "late" \in May
    /\ pc' = IF pc[v] = "open" THEN [pc EXCEPT ![v] = "cancelled"] ELSE pc
    /\ cancelled' = cancelled \cup {v}

\* (Variant: the vote is removed, its timer stays.)
ChatCancel_TimerStays ==
    /\ active # {} /\ current # None /\ "chat" \notin creating
    /\ pc[current] = "open" /\ cancelled' = cancelled \cup {current} /\ UNCHANGED pc
    /\ Removes
    /\ UNCHANGED <<rule, choices, active, creating, votes, voter, result, ballots>>

ChatCancel ==
    /\ active # {} /\ current # None /\ "chat" \notin creating
    /\ Cancels(current) /\ Removes
    /\ IF pc'[current] \in UnderWay THEN UNCHANGED <<votes, voter, result, ballots>>
       ELSE Forgets(current)
    /\ UNCHANGED <<rule, choices, active, creating>>

\* /vote cancel leaves the vote in the table.
DiscordCancel ==
    /\ current # None /\ Cancels(current)
    /\ UNCHANGED <<rule, choices, active, current, creating, votes, voter, result, ballots>>

Joins(p) ==
    /\ p \notin active /\ active' = active \cup {p}
    /\ UNCHANGED <<rule, choices, current, creating, handlers, history>>

\* A player leaves; his vote stays, and he is known by his UCID when he comes back.
Leaves(p) ==
    /\ p \in active /\ active' = active \ {p}
    /\ UNCHANGED <<rule, choices, current, creating, handlers, history>>

\* Missions are added to the list, removed, or get another index.
ChoicesChange ==
    /\ "choices" \in May \/ \A v \in Vote : pc[v] \notin Open
    /\ choices' \in {s \in OptionLists : s[1] = choices[1]}
    /\ UNCHANGED <<rule, active, current, creating, handlers, history>>

Proceeds(v) ==
    \/ Starts(v) \/ TimerGoesOff(v) \/ NoResult(v) \/ Executed(v)
    \/ HasNoOption(v) \/ ExecutionFails(v) \/ \E n \in Number : HasResult(v, n)

Next ==
    \/ ChatAsk \/ DiscordAsk \/ \E where \in {"chat", "Discord"} : GivesUp(where)
    \/ \E v \in Vote :
          \/ ChatCreate(v) \/ Proceeds(v)
          \/ \E who \in Player \cup {Guest}, n \in Number : DiscordCreate(v, who, n)
    \/ \E p \in Player, n \in Number : TypesNumber(p, n)
    \/ ChatCancel \/ DiscordCancel \/ ChoicesChange
    \/ \E p \in Player : Joins(p) \/ Leaves(p)

Spec == Init /\ [][Next]_vars

\* Timers go off and tasks go on.
FairSpec == Spec /\ \A v \in Vote : WF_vars(Proceeds(v))

-----------------------------------------------------------------------------
(* Properties.                                                             *)

\* A vote that goes on is the one people can vote in, see and cancel; no other hides it,
\* and none is executed behind its back.
OneVote == \A v \in Vote : pc[v] \in UnderWay => current = v

For(v, o) == {b \in ballots[v] : b[2] = o}

\* Who takes part does it once, every vote counts for what was meant, and what is executed
\* is what most of them wanted, and nobody has cancelled it.
Elected ==
    \A v \in Vote :
        /\ \A b, c \in ballots[v] : b[1] = c[1] => b = c
        /\ pc[v] \in Open => \A n \in DOMAIN choices : votes[v][n] = Cardinality(For(v, choices[n]))
        /\ pc[v] = "executing" =>
              /\ v \notin cancelled
              /\ \A o \in Option : Cardinality(For(v, result[v])) >= Cardinality(For(v, o))

\* The server is free for the next vote sometime, unless this one was cancelled in
\* Discord or its task has raised: then an admin has to cancel it in the chat.
VotingEnds ==
    \A v \in Vote : current = v ~> (current # v \/ pc[v] \in {"cancelled", "failed"})
=============================================================================
