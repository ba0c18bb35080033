---------------------------- MODULE MissionList ----------------------------
(***************************************************************************)
(* The mission list of a server.  While DCS runs, DCS has the list and the *)
(* bot sends it commands (plugins/mission/lua/commands.lua); otherwise the *)
(* bot edits serverSettings.lua itself (core/data/impl/serverimpl.py).     *)
(* Both write that file, and the bot reads it again whenever it changed:   *)
(* settings['missionList'] is the file.                                    *)
(*                                                                         *)
(* Missions are named by their index, in commands, in remote calls and in  *)
(* DCS.  Commands of people, coroutines of the file watcher, loads of the  *)
(* scheduler and the answers of DCS interleave at every await.             *)
(*                                                                         *)
(* A mission has two paths: its file, and the writable copy the bot makes  *)
(* in .dcssb when DCS has the file open.  STOPPED and PAUSED are merged    *)
(* with RUNNING, SHUTTING_DOWN with SHUTDOWN; listStartIndex is left out.  *)
(***************************************************************************)
EXTENDS Integers, Sequences, FiniteSets, SequencesExt

CONSTANTS
    Name,       \* missions
    Task,       \* bound: coroutines at a time
    Nil,        \* Python's None
    MayHappen,  \* see below
    MaxOrders,  \* bound: orders of people and changes of files
    MaxStops    \* bound: shutdowns

\* "delete": people delete missions; "unlink", "create", "back", "move": files of
\* the Missions folder are removed, appear, come back after they were listed and removed,
\* are renamed; "later": a load that waits for an empty server; "race": people do
\* not wait for each other; "loading": they do not wait while DCS loads;
\* "timeout": DCS answers too late.
VARIABLES
    status,   \* "SHUTDOWN", "LOADING" or "RUNNING"
    list,     \* missionList of serverSettings.lua
    dcs,      \* the list DCS has
    running,  \* the mission DCS runs: path or Nil
    onEmpty,  \* server.on_empty: what to load when the server is empty
    disk,     \* missions whose file exists
    deleted,  \* index of the listed files the watcher has seen deleted, or 0
    task,     \* coroutines
    toDcs,    \* commands on their way to DCS
    toBot,    \* answers on their way to the bot
    wanted,   \* history: the missions that should be listed
    orders, stops

dcsVars == <<status, dcs, running>>
fileVars == <<disk, deleted>>
listVars == <<status, list, dcs, running, onEmpty, disk, deleted, task, toDcs, toBot,
          wanted, orders, stops>>

Path == Name \X {"file", "copy"}
File(n) == <<n, "file">>
Twin(p) == <<p[1], IF p[2] = "file" THEN "copy" ELSE "file">>
Position(s, p) == SelectInSeq(s, LAMBDA q : q = p)
Listed(s) == {s[i][1] : i \in DOMAIN s}
\* A coroutine: what it does, for which mission, and what it keeps across awaits:
\* a path, an index, the list it read, the index of the mission that ran then.
Coroutine ==
    [kind : {"add", "delete", "replace", "load", "validate"},
     pc : {"scheduled", "asked", "files", "modify", "replaced", "start", "answer"},
     name : Name \cup {Nil}, path : Path \cup {Nil}, idx : Nat,
     read : Seq(Path), cur : Nat]
Request == [cmd : {"add", "delete", "replace", "start", "list"}, task : Task \cup {Nil},
            name : Name \cup {Nil}, path : Path \cup {Nil}, idx : Nat]
Answer == [task : Task \cup {Nil}, list : Seq(Path), ok : BOOLEAN]
Later == [name : Name, idx : Nat \ {0}]

ASSUME MissionAssumption ==
    /\ Name # {} /\ IsFiniteSet(Name)
    /\ Nil \notin Name \cup Path \cup Task \cup Coroutine \cup Later
    /\ MayHappen \subseteq {"delete", "unlink", "create", "back", "move", "later",
                         "race", "loading", "timeout"}
    /\ MaxOrders \in Nat /\ MaxStops \in Nat

ListTypeOK ==
    /\ status \in {"SHUTDOWN", "LOADING", "RUNNING"}
    /\ list \in Seq(Path) /\ dcs \in Seq(Path) /\ running \in Path \cup {Nil}
    /\ onEmpty \in Later \cup {Nil}
    /\ disk \subseteq Name /\ deleted \in [Name -> Nat] /\ wanted \subseteq Name
    /\ task \in [Task -> Coroutine \cup {Nil}]
    /\ \A t \in Task : task[t] # Nil /\ task[t].kind = "load" => task[t].cur > 0
    /\ toDcs \in Seq(Request) /\ toBot \in Seq(Answer)
    /\ orders \in 0..MaxOrders /\ stops \in 0..MaxStops

ListInit ==
    /\ status = "SHUTDOWN" /\ running = Nil /\ onEmpty = Nil
    /\ disk \in SUBSET Name
    /\ list = SetToSeq({File(n) : n \in disk}) /\ dcs = <<>>
    /\ deleted = [n \in Name |-> 0]
    /\ task = [t \in Task |-> Nil]
    /\ toDcs = <<>> /\ toBot = <<>>
    /\ wanted = disk
    /\ orders = 0 /\ stops = 0

-----------------------------------------------------------------------------
(* Coroutines.                                                             *)

Online == status = "RUNNING"

\* The files people and the watcher act on are not those of a mission change.
Patient == status = "LOADING" => "loading" \in MayHappen

Is(t, kind, pc) == task[t] # Nil /\ task[t].kind = kind /\ task[t].pc = pc
Busy(kinds) == \E t \in Task : task[t] # Nil /\ task[t].kind \in kinds
Keep(k, pc, n, p, i) ==
    [kind |-> k, pc |-> pc, name |-> n, path |-> p, idx |-> i, read |-> <<>>, cur |-> 1]
Becomes(t, c) == task' = [task EXCEPT ![t] = c]
Ends(t) == Becomes(t, Nil)

\* send_to_dcs_sync() sends a command; coroutine c of t waits for the answer.
\* Without a DCS process the datagram is lost.
Ask(t, c, cmd, p, i) ==
    /\ Becomes(t, c)
    /\ toDcs' = IF status = "SHUTDOWN" THEN toDcs
                ELSE Append(toDcs, [cmd |-> cmd, task |-> t, name |-> c.name, path |-> p, idx |-> i])

Order == orders < MaxOrders /\ orders' = orders + 1

\* What people wait for, unless they race: nobody deletes while somebody keeps
\* an index or a list, or adds a mission that is listed, which replaces it; nobody
\* adds the same mission twice at a time; nobody picks a mission in the moment
\* between a change by DCS and its answer.
Unindexed ==
    \/ "race" \in MayHappen
    \/ /\ onEmpty = Nil /\ ~Busy({"delete", "replace", "load"})
       /\ ~\E t \in Task : task[t] # Nil /\ task[t].kind = "add" /\ task[t].name \in Listed(list)
Alone(kind, n) ==
    \/ "race" \in MayHappen
    \/ CASE kind = "delete" -> Unindexed
         [] kind = "add" -> /\ ~\E t \in Task : task[t] # Nil /\ task[t].name = n
                            /\ n \in Listed(list) => ~Busy({"delete"})
         [] OTHER -> toBot = <<>> /\ ~Busy({"delete"})

\* The operation did not do what was asked: the list says what people have.
Failed(n) == wanted' = IF n \in Listed(list) THEN wanted \cup {n} ELSE wanted \ {n}

-----------------------------------------------------------------------------
(* addMission(), deleteMission() and replaceMission().                     *)

\* Coroutine c of t goes on after the answer; offline done follows at once.
ReplaceMission(t, i, p, c) ==
    IF Online
    THEN Ask(t, c, "replace", p, i) /\ UNCHANGED list
    ELSE /\ UNCHANGED toDcs
         /\ list' = [list EXCEPT ![i] = p]
         /\ Becomes(t, IF c.kind = "load" THEN [c EXCEPT !.pc = "start", !.read = list'] ELSE Nil)

\* (Variant: the copy of a mission is not looked for.)
AddMission_NoTwin(t, p, i) ==
    IF Position(list, p) > 0 THEN Ends(t) /\ UNCHANGED <<list, toDcs>>
    ELSE IF Online
         THEN Ask(t, Keep("add", "answer", p[1], p, i), "add", p, i) /\ UNCHANGED list
         ELSE /\ Ends(t) /\ UNCHANGED toDcs
              /\ list' = IF i \in 1..Len(list) THEN InsertAt(list, i, p) ELSE Append(list, p)

\* A mission that is listed is not added again: its other path is replaced.
AddMission(t, p, i) ==
    LET twin == Position(list, Twin(p)) IN
    IF twin > 0 THEN ReplaceMission(t, twin, p, Keep("replace", "answer", p[1], p, twin))
    ELSE IF Position(list, p) > 0 THEN Ends(t) /\ UNCHANGED <<list, toDcs>>
    ELSE IF Online
         THEN Ask(t, Keep("add", "answer", p[1], p, i), "add", p, i) /\ UNCHANGED list
         ELSE /\ Ends(t) /\ UNCHANGED toDcs
              /\ list' = IF i \in 1..Len(list) THEN InsertAt(list, i, p) ELSE Append(list, p)

\* It is refused if the id of the running mission in the table MISSIONS, any
\* number, is the index.
DeleteMission(t, i, n) ==
    \/ /\ Online
       /\ Ends(t) /\ Failed(n) /\ UNCHANGED <<list, toDcs>>
    \/ /\ Online
       /\ Ask(t, Keep("delete", "answer", n, Nil, i), "delete", Nil, i)
       /\ wanted' = wanted \ {n} /\ UNCHANGED list
    \/ /\ ~Online /\ i \in DOMAIN list
       /\ Ends(t) /\ list' = RemoveAt(list, i)
       /\ wanted' = wanted \ {n} /\ UNCHANGED toDcs
    \/ /\ ~Online /\ i \notin DOMAIN list
       /\ Ends(t) /\ Failed(n) /\ UNCHANGED <<list, toDcs>>

-----------------------------------------------------------------------------
(* Commands of people.                                                     *)

\* /mission add, and an upload.
OrderAdd(t, n) ==
    /\ task[t] = Nil /\ Patient /\ Alone("add", n) /\ Order
    /\ n \in disk
    /\ AddMission(t, File(n), 0)
    /\ wanted' = wanted \cup {n}
    /\ UNCHANGED <<dcsVars, fileVars, onEmpty, toBot, stops>>

\* /mission delete asks back; the running mission is refused here.
OrderDelete(t, i) ==
    /\ "delete" \in MayHappen /\ task[t] = Nil /\ Patient /\ Alone("delete", list[i][1]) /\ Order
    /\ Online => list[i] # running
    /\ Becomes(t, Keep("delete", "asked", list[i][1], Nil, i))
    /\ UNCHANGED <<dcsVars, fileVars, list, onEmpty, toDcs, toBot, wanted, stops>>

DeleteConfirmed(t) ==
    /\ Is(t, "delete", "asked") /\ Patient
    /\ \/ DeleteMission(t, task[t].idx, task[t].name)
       \/ Ends(t) /\ UNCHANGED <<list, toDcs, wanted>>
    /\ UNCHANGED <<dcsVars, fileVars, onEmpty, toBot, orders, stops>>

\* /mission rollback renames files, then the list gets the file.
OrderRollback(t, i) ==
    /\ task[t] = Nil /\ Patient /\ Alone("replace", list[i][1]) /\ Order
    /\ Online => list[i] # running
    /\ list[i][2] = "copy" /\ disk' = disk \cup {list[i][1]}
    /\ Becomes(t, Keep("replace", "files", list[i][1], Twin(list[i]), i))
    /\ UNCHANGED <<dcsVars, deleted, list, onEmpty, toDcs, toBot, wanted, stops>>

RollbackReplaces(t) ==
    /\ Is(t, "replace", "files") /\ Patient
    /\ ReplaceMission(t, task[t].idx, task[t].path, [task[t] EXCEPT !.pc = "answer"])
    /\ UNCHANGED <<dcsVars, fileVars, onEmpty, toBot, wanted, orders, stops>>

\* /mission load, later: the index is kept until the server is empty.
OrderLater(i) ==
    /\ "later" \in MayHappen /\ Online /\ Alone("load", list[i][1]) /\ Order
    /\ onEmpty' = [name |-> list[i][1], idx |-> i]
    /\ UNCHANGED <<dcsVars, fileVars, list, task, toDcs, toBot, wanted, stops>>

-----------------------------------------------------------------------------
(* loadMission().                                                          *)

\* The list and the index of the running mission are read, then the mission is
\* modified.  A running mission that is not listed is taken for another one.
LoadBegins(t, p, n) ==
    /\ list # <<>>
    /\ \E i \in DOMAIN list :
         /\ Position(list, running) > 0 => list[i] = running
         /\ Becomes(t, [Keep("load", "modify", n, p, 0) EXCEPT !.read = list, !.cur = i])

\* /mission load, which takes the place of a load that waits; a vote, the scheduler.
OrderLoad(t, i) ==
    /\ task[t] = Nil /\ Online /\ Alone("load", list[i][1]) /\ Order
    /\ LoadBegins(t, list[i], list[i][1])
    /\ onEmpty' \in {Nil, onEmpty}
    /\ UNCHANGED <<dcsVars, fileVars, list, toDcs, toBot, wanted, stops>>

\* onServerEmpty: an index that is too large becomes 1.
ServerEmpty(t) ==
    /\ onEmpty # Nil /\ Online /\ task[t] = Nil /\ Alone("load", onEmpty.name)
    /\ LET i == IF onEmpty.idx \in DOMAIN list THEN onEmpty.idx ELSE 1 IN
       list # <<>> /\ LoadBegins(t, list[i], onEmpty.name)
    /\ onEmpty' = Nil
    /\ UNCHANGED <<dcsVars, fileVars, list, toDcs, toBot, wanted, orders, stops>>

\* The mission is modified, in place or as a copy; a running mission is replaced.
LoadModified(t, q) ==
    /\ Is(t, "load", "modify") /\ q \in {task[t].path, Twin(task[t].path)}
    /\ LET c == [task[t] EXCEPT !.path = q] IN
       IF q # task[t].path /\ task[t].path = task[t].read[task[t].cur]
       THEN ReplaceMission(t, task[t].cur, q, [c EXCEPT !.pc = "replaced"])
       ELSE Becomes(t, [c EXCEPT !.pc = "start"]) /\ UNCHANGED <<list, toDcs>>
    /\ UNCHANGED <<dcsVars, fileVars, onEmpty, toBot, wanted, orders, stops>>

\* (Variant: the index counts from zero.)
LoadStarts_FromZero(t) ==
    /\ Is(t, "load", "start")
    /\ LET i == Position(task[t].read, task[t].path) IN
       Ask(t, [task[t] EXCEPT !.pc = "answer"], "start", task[t].path,
           IF i = task[t].cur \/ i = 0 THEN 0 ELSE i - 1)
    /\ UNCHANGED <<dcsVars, fileVars, list, onEmpty, toBot, wanted, orders, stops>>

\* DCS is told the index in the list that was read, or the path.
LoadStarts(t) ==
    /\ Is(t, "load", "start")
    /\ LET i == Position(task[t].read, task[t].path) IN
       Ask(t, [task[t] EXCEPT !.pc = "answer"], "start", task[t].path,
           IF i = task[t].cur THEN 0 ELSE i)
    /\ UNCHANGED <<dcsVars, fileVars, list, onEmpty, toBot, wanted, orders, stops>>

-----------------------------------------------------------------------------
(* The file watcher: a thread that computes an index and schedules a       *)
(* coroutine in the event loop.                                            *)

\* The copy is looked for first.  The index is remembered for the path that was listed:
\* that of the copy is of no use to a file that comes back.
OnDeleted(t, n) ==
    LET copy == Position(list, <<n, "copy">>)
        file == Position(list, File(n)) IN
    /\ deleted' = IF copy = 0 /\ file > 0 THEN [deleted EXCEPT ![n] = file] ELSE deleted
    /\ IF copy > 0 THEN Becomes(t, Keep("delete", "scheduled", n, Nil, copy))
       ELSE IF file > 0 THEN Becomes(t, Keep("delete", "scheduled", n, Nil, file))
       ELSE UNCHANGED task

Unlink(t, n) ==
    /\ "unlink" \in MayHappen /\ task[t] = Nil /\ Alone("delete", n) /\ Order
    /\ n \in disk /\ disk' = disk \ {n}
    /\ OnDeleted(t, n)
    /\ UNCHANGED <<dcsVars, list, onEmpty, toDcs, toBot, wanted, stops>>

\* on_created(): a file that was listed and deleted comes back to its place, any other
\* one is added at the end.
Create(t, n) ==
    /\ "create" \in MayHappen /\ task[t] = Nil /\ Alone("add", n) /\ Order
    /\ n \notin disk /\ disk' = disk \cup {n}
    /\ deleted[n] > 0 => "back" \in MayHappen
    /\ deleted' = [deleted EXCEPT ![n] = 0]
    /\ Becomes(t, Keep("add", "scheduled", n, File(n), deleted[n]))
    /\ UNCHANGED <<dcsVars, list, onEmpty, toDcs, toBot, wanted, stops>>

\* on_moved() passes its event, with the old path, to on_deleted() and
\* on_created(): nobody looks at the new path.
Move(t, n, m) ==
    /\ "move" \in MayHappen /\ task[t] = Nil /\ Alone("delete", n) /\ Order
    /\ n \in disk /\ m \notin disk /\ disk' = (disk \ {n}) \cup {m}
    /\ OnDeleted(t, n)
    /\ UNCHANGED <<dcsVars, list, onEmpty, toDcs, toBot, wanted, stops>>

Scheduled(t) ==
    /\ Patient
    /\ \/ /\ Is(t, "delete", "scheduled")
          /\ DeleteMission(t, task[t].idx, task[t].name)
       \/ /\ Is(t, "add", "scheduled")
          /\ AddMission(t, task[t].path, task[t].idx)
          /\ wanted' = wanted \cup {task[t].name}
    /\ UNCHANGED <<dcsVars, fileVars, onEmpty, toBot, orders, stops>>

-----------------------------------------------------------------------------
(* DCS: lua/commands.lua and the process.                                  *)

\* DCS takes the next command.
Takes(cmd) == Online /\ toDcs # <<>> /\ Head(toDcs).cmd = cmd /\ toDcs' = Tail(toDcs)

\* listMissions(), which ends every command on the list; saveSettings() before it.
Saves(s) ==
    /\ dcs' = s /\ list' = s
    /\ toBot' = Append(toBot, [task |-> Head(toDcs).task, list |-> s, ok |-> TRUE])

\* With an index, addMission() fails at its first use of current_missions, a
\* local variable that is declared later: nothing is saved, nothing answered.
LuaAdd ==
    /\ Takes("add")
    /\ LET s == Append(dcs, Head(toDcs).path) IN
       IF Head(toDcs).idx = 0 THEN Saves(s) ELSE dcs' = s /\ UNCHANGED <<list, toBot>>
    /\ UNCHANGED <<status, running, fileVars, onEmpty, task, wanted, orders, stops>>

LuaDelete ==
    /\ Takes("delete")
    /\ LET i == Head(toDcs).idx IN Saves(IF i \in DOMAIN dcs THEN RemoveAt(dcs, i) ELSE dcs)
    /\ UNCHANGED <<status, running, fileVars, onEmpty, task, wanted, orders, stops>>

LuaReplace ==
    /\ Takes("replace")
    /\ LET i == Head(toDcs).idx
           p == Head(toDcs).path IN
       Saves(IF i \in DOMAIN dcs THEN [dcs EXCEPT ![i] = p] ELSE Append(dcs, p))
    /\ UNCHANGED <<status, running, fileVars, onEmpty, task, wanted, orders, stops>>

LuaList ==
    /\ Takes("list")
    /\ toBot' = Append(toBot, [task |-> Head(toDcs).task, list |-> dcs, ok |-> TRUE])
    /\ UNCHANGED <<dcsVars, fileVars, list, onEmpty, task, wanted, orders, stops>>

\* startMission(), by index or by path.
LuaStart ==
    /\ Takes("start")
    /\ LET i == Head(toDcs).idx
           ok == i = 0 \/ i \in DOMAIN dcs IN
       /\ toBot' = Append(toBot, [task |-> Head(toDcs).task, list |-> <<>>, ok |-> ok])
       /\ IF ok
          THEN status' = "LOADING" /\ running' = IF i = 0 THEN Head(toDcs).path ELSE dcs[i]
          ELSE UNCHANGED <<status, running>>
    /\ UNCHANGED <<dcs, fileVars, list, onEmpty, task, wanted, orders, stops>>

\* set_status(): a mission that runs after LOADING has the list validated.
MissionRuns(t) ==
    /\ status = "LOADING" /\ toBot = <<>> /\ task[t] = Nil
    /\ status' = "RUNNING"
    /\ Ask(t, Keep("validate", "answer", Nil, Nil, 0), "list", Nil, 0)
    /\ UNCHANGED <<dcs, running, fileVars, list, onEmpty, toBot, wanted, orders, stops>>

\* Nobody removes a copy.
Stored(p) == p[2] = "copy" \/ p[1] \in disk

\* The missions of s whose path exists, in their order.
WithFile(s) ==
    LET kept == {i \in DOMAIN s : Stored(s[i])}
        places == 1..Cardinality(kept) IN
    {[k \in places |-> s[f[k]]] : f \in {g \in Bijection(places, kept) :
                                              \A j, k \in places : j < k => g[j] < g[k]}}

\* do_startup() drops missions without a file and starts DCS.
Startup ==
    /\ status = "SHUTDOWN" /\ status' = "LOADING"
    /\ list' \in WithFile(list) /\ dcs' = list' /\ list' # <<>>
    /\ list' # list => Unindexed
    /\ running' \in Range(list')
    /\ wanted' = {n \in wanted : n \in disk \/ <<n, "copy">> \in Range(list)}
    /\ UNCHANGED <<fileVars, onEmpty, task, toDcs, toBot, orders, stops>>

\* do_shutdown(): commands that DCS has not taken are lost.
Shutdown ==
    /\ Online /\ toBot = <<>> /\ stops < MaxStops /\ stops' = stops + 1
    /\ status' = "SHUTDOWN" /\ running' = Nil /\ dcs' = <<>> /\ toDcs' = <<>>
    /\ UNCHANGED <<fileVars, list, onEmpty, task, toBot, wanted, orders>>

-----------------------------------------------------------------------------
(* Answers.                                                                *)

\* The coroutine that waits goes on; an answer nobody waits for is ignored.
Answered ==
    /\ toBot # <<>> /\ toBot' = Tail(toBot)
    /\ LET a == Head(toBot)
           t == a.task IN
       IF t = Nil THEN UNCHANGED <<list, task>>
       ELSE CASE task[t].pc = "replaced" ->
                   Becomes(t, [task[t] EXCEPT !.pc = "start", !.read = list]) /\ UNCHANGED list
              [] task[t].kind \in {"add", "delete", "validate"} -> Ends(t) /\ list' = a.list
              [] OTHER -> Ends(t) /\ UNCHANGED list
    /\ UNCHANGED <<dcsVars, fileVars, onEmpty, toDcs, wanted, orders, stops>>

Waits(t) == task[t] # Nil /\ task[t].pc \in {"answer", "replaced"}
Nobody(q, t) == [i \in DOMAIN q |-> IF q[i].task = t THEN [q[i] EXCEPT !.task = Nil] ELSE q[i]]

\* wait_for() gives up.
TimesOut(t) ==
    /\ Waits(t)
    /\ \/ "timeout" \in MayHappen
       \/ \A i \in DOMAIN toDcs : toDcs[i].task # t
    /\ \A i \in DOMAIN toBot : toBot[i].task # t
    /\ Ends(t)
    /\ toDcs' = Nobody(toDcs, t)
    /\ IF task[t].kind \in {"add", "delete"} THEN Failed(task[t].name) ELSE UNCHANGED wanted
    /\ UNCHANGED <<dcsVars, fileVars, list, onEmpty, toBot, orders, stops>>

-----------------------------------------------------------------------------
Dcs == LuaAdd \/ LuaDelete \/ LuaReplace \/ LuaList \/ LuaStart
Steps(t) ==
    \/ DeleteConfirmed(t) \/ RollbackReplaces(t) \/ LoadStarts(t) \/ Scheduled(t)
    \/ \E p \in Path : LoadModified(t, p)
    \/ ServerEmpty(t) \/ MissionRuns(t) \/ TimesOut(t)
Orders(t) ==
    \/ \E n \in Name :
         OrderAdd(t, n) \/ Unlink(t, n) \/ Create(t, n) \/ \E m \in Name : Move(t, n, m)
    \/ \E i \in DOMAIN list :
         OrderDelete(t, i) \/ OrderRollback(t, i) \/ OrderLoad(t, i) \/ OrderLater(i)

ListNext ==
    \/ Dcs \/ Answered \/ Startup \/ Shutdown
    \/ \E t \in Task : Steps(t) \/ Orders(t)

ListSpec == ListInit /\ [][ListNext]_listVars

-----------------------------------------------------------------------------
(* Properties.                                                             *)

\* When nothing is under way, exactly the missions that were added and not
\* deleted are listed, each of them once: no operation acts on the wrong index,
\* no answer of DCS and no validation undoes what another one did.
ListIsWanted ==
    (\A t \in Task : task[t] = Nil) /\ toDcs = <<>> /\ toBot = <<>>
        => Listed(list) = wanted /\ Len(list) = Cardinality(wanted)

\* The mission DCS starts is the one that was asked for, although it is named by
\* an index of a list that was read before the mission was modified.
StartsWhatWasAsked ==
    [][status = "RUNNING" /\ status' = "LOADING" => running'[1] = Head(toDcs).name]_listVars

\* All missions of the folder are listed when nothing is under way: what the
\* documentation says of autoscan.
AutoAdded ==
    (\A t \in Task : task[t] = Nil) /\ toDcs = <<>> /\ toBot = <<>> => disk \subseteq Listed(list)

\* The running mission is not deleted from the list ("Can't delete the running
\* mission!"), neither by people nor by the watcher.
RunningKept ==
    [][(/\ toDcs # <<>> /\ Head(toDcs).cmd = "delete" /\ toDcs' = Tail(toDcs)
        /\ status' = "RUNNING" /\ running \in Range(dcs))
            => running \in Range(dcs')]_listVars
=============================================================================
