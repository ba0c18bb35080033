--------------------------- MODULE Missions_proofs ---------------------------
(***************************************************************************)
(* Proofs about what a server plays: its mission list, and the votes by    *)
(* which players may pick a mission.                                       *)
(*                                                                         *)
(* MissionList, for any missions, coroutines and bounds: types, that the   *)
(* list is right when nothing is under way, and that DCS starts the        *)
(* mission it was asked for.                                               *)
(*                                                                         *)
(* Voting, for any players, options, rules and thresholds and any number   *)
(* of votes: types, that the vote of the server is the one that goes on,   *)
(* and that what is executed was elected.                                  *)
(***************************************************************************)
EXTENDS MissionList, Voting, FiniteSetTheorems, WellFoundedInduction, TLAPS

-----------------------------------------------------------------------------
(* The mission list: what is shown of it.                                  *)

\* What the theorems are about: people wait for each other and for DCS, no file comes
\* back to its old place, and DCS answers in time.
Calm == MayHappen \cap {"back", "race", "loading", "timeout"} = {}

\* A coroutine that adds, replaces or loads knows its mission and its path; so does
\* the command it sends.
Framed == {c \in Coroutine : /\ c.kind = "load" => c.cur > 0
                             /\ c.kind \in {"add", "replace", "load"} => c.path \in Path
                             /\ c.kind # "validate" => c.name \in Name}
Asked == {r \in Request : r.cmd \in {"add", "replace", "start"} => r.path \in Path}
\* Every variable has its type, and more is known of coroutines and commands.
Known ==
    /\ status \in {"SHUTDOWN", "LOADING", "RUNNING"}
    /\ list \in Seq(Path) /\ dcs \in Seq(Path) /\ running \in Path \cup {Nil}
    /\ onEmpty \in Later \cup {Nil}
    /\ disk \subseteq Name /\ deleted \in [Name -> Nat] /\ wanted \subseteq Name
    /\ task \in [Task -> Framed \cup {Nil}]
    /\ toDcs \in Seq(Asked) /\ toBot \in Seq(Answer)
    /\ orders \in 0..MaxOrders /\ stops \in 0..MaxStops

Awaits(c) == c # Nil /\ c.pc \in {"answer", "replaced"}

\* Who waits for whom: a command and its answer belong to one coroutine, which waits.
Waiting ==
    /\ \A i \in DOMAIN toDcs : toDcs[i].task # Nil => toDcs[i].task \in Task /\ Awaits(task[toDcs[i].task])
    /\ \A i \in DOMAIN toBot : toBot[i].task # Nil => toBot[i].task \in Task /\ Awaits(task[toBot[i].task])
    /\ \A i, j \in DOMAIN toDcs : toDcs[i].task = toDcs[j].task /\ toDcs[i].task # Nil => i = j
    /\ \A i, j \in DOMAIN toBot : toBot[i].task = toBot[j].task /\ toBot[i].task # Nil => i = j
    /\ \A i \in DOMAIN toDcs, j \in DOMAIN toBot :
          toDcs[i].task = toBot[j].task => toDcs[i].task = Nil
    /\ status = "SHUTDOWN" => toDcs = <<>> /\ toBot = <<>>

\* The list that counts: that of DCS while there is one.
Base == IF status = "SHUTDOWN" THEN list ELSE dcs

\* In list s the mission at i is n; no mission is listed twice.
Named(s, i, n) == i \in DOMAIN s /\ s[i][1] = n
NoTwice(s) == \A i, j \in DOMAIN s : s[i][1] = s[j][1] => i = j
\* List b has the missions of s at their places, and perhaps more.
PartOf(s, b) == \A i \in DOMAIN s : Named(b, i, s[i][1])
Same(s, b) == PartOf(s, b) /\ PartOf(b, s)

\* The index and the list a coroutine keeps still fit list b.
FrameOK(c, b) ==
    /\ c.kind = "add" => c.pc = "answer" \/ (c.pc = "scheduled" /\ c.idx = 0 /\ c.path = File(c.name))
    /\ c.kind = "delete" => c.pc \in {"asked", "scheduled", "answer"}
                            /\ (c.pc # "answer" => Named(b, c.idx, c.name))
    /\ c.kind = "replace" => c.pc = "answer" \/ (c.pc = "files" /\ Named(b, c.idx, c.path[1]))
    /\ c.kind = "load" => /\ c.pc \in {"modify", "replaced", "start", "answer"} /\ c.path[1] = c.name
                          /\ c.pc \in {"modify", "start"} => PartOf(c.read, b)
                          /\ c.pc = "modify" => c.cur \in DOMAIN c.read
    /\ c.kind = "validate" => c.pc = "answer"
Frames == \A t \in Task : task[t] # Nil => FrameOK(task[t], Base)

\* A command is that of the coroutine that waits for it; when DCS takes it, its index
\* is that of the mission.
RequestOK(r, c, d, w) ==
    /\ c # Nil /\ r.name = c.name
    /\ \/ r.cmd = "add" /\ c.kind = "add" /\ c.pc = "answer" /\ r.idx = 0
          /\ r.path[1] = c.name /\ c.name \in w /\ c.name \notin Listed(d)
       \/ r.cmd = "delete" /\ c.kind = "delete" /\ c.pc = "answer" /\ r.idx = c.idx
          /\ Named(d, r.idx, c.name) /\ c.name \notin w
       \/ /\ r.cmd = "replace" /\ Named(d, r.idx, r.path[1])
          /\ (c.kind = "replace" /\ c.pc = "answer") \/ (c.kind = "load" /\ c.pc = "replaced")
       \/ r.cmd = "start" /\ c.kind = "load" /\ c.pc = "answer" /\ r.path[1] = c.name
          /\ (r.idx = 0 \/ Named(d, r.idx, c.name))
       \/ r.cmd = "list" /\ c.kind = "validate" /\ c.pc = "answer"
Requests ==
    \A i \in DOMAIN toDcs :
        toDcs[i].task \in Task /\ RequestOK(toDcs[i], task[toDcs[i].task], dcs, wanted)

\* What was answered was done.
ReplyOK(c, d, w) ==
    /\ c # Nil /\ (c.pc = "answer" \/ (c.pc = "replaced" /\ c.kind = "load"))
    /\ c.kind = "add" => c.name \in w /\ c.name \in Listed(d)
    /\ c.kind = "delete" => c.name \notin w /\ c.name \notin Listed(d)
Replies ==
    \A i \in DOMAIN toBot :
        toBot[i].task \in Task /\ ReplyOK(task[toBot[i].task], dcs, wanted)

\* Two coroutines that may be under way together.
Apart(c, d, b) ==
    /\ c.kind = "add" /\ d.kind \in {"add", "delete"} => c.name # d.name
    /\ c.kind = "delete" => d.kind \notin {"delete", "replace", "load"}
    /\ c.kind = "delete" /\ d.kind = "add" /\ d.pc = "scheduled" => d.name \notin Listed(b)
Exclusive ==
    \A t, u \in Task : t # u /\ task[t] # Nil /\ task[u] # Nil => Apart(task[t], task[u], Base)
\* A load that waits for an empty server still finds its mission at its index.
Reserved ==
    onEmpty # Nil => /\ \A t \in Task : task[t] # Nil => task[t].kind # "delete"
                     /\ Named(Base, onEmpty.idx, onEmpty.name)

\* Among the answers q after the k-th is that of a coroutine of f that adds n.
Adds(q, f, k, n) ==
    \E j \in DOMAIN q : j > k /\ f[q[j].task].kind = "add" /\ f[q[j].task].name = n
\* Compared with b, s lacks missions that are added, or still has, at x, mission n that is
\* deleted, and lacks those that are added after it.
UpToAdds(s, k, q, f, b) ==
    PartOf(s, b) /\ \A i \in DOMAIN b : i \notin DOMAIN s => Adds(q, f, k, b[i][1])
BeforeDelete(s, k, x, n, q, f, b) ==
    /\ Named(s, x, n)
    /\ \A i \in DOMAIN s : i < x => Named(b, i, s[i][1])
    /\ \A i \in DOMAIN s : i > x => Named(b, i - 1, s[i][1])
    /\ \A i \in DOMAIN b : i + 1 \notin DOMAIN s => Adds(q, f, k, b[i][1])
\* List s is the list b but for what the answers after the k-th will change.
View(s, k, q, f, b) ==
    \/ UpToAdds(s, k, q, f, b)
    \/ \E d \in DOMAIN q :
          /\ d > k /\ f[q[d].task].kind = "delete"
          /\ BeforeDelete(s, k, f[q[d].task].idx, f[q[d].task].name, q, f, b)
\* So are the file and every list that DCS has answered with.
Views ==
    /\ View(list, 0, toBot, task, Base)
    /\ \A k \in DOMAIN toBot :
          task[toBot[k].task].kind \in {"add", "delete", "validate"} =>
              View(toBot[k].list, k, toBot, task, Base)

\* Nobody waits for DCS to add or delete n.
Settled(n, q, f) ==
    \A t \in Task :
        f[t] # Nil /\ f[t].kind \in {"add", "delete"} /\ f[t].pc = "answer" /\ f[t].name = n
            => \E i \in DOMAIN q : q[i].task = t
\* Such a mission is wanted if it is listed.
WantedOK ==
    \A n \in Name : Settled(n, toBot, task) => (n \in wanted <=> n \in Listed(Base))

\* The inductive invariant.
Consistent ==
    /\ NoTwice(Base) /\ Frames /\ Requests /\ Replies /\ Exclusive /\ Reserved
    /\ Views /\ WantedOK

-----------------------------------------------------------------------------
(* Lists: positions, and what is taken away, put in or replaced.           *)

LEMMA Least ==
    ASSUME NEW S \in SUBSET Nat, S # {}
    PROVE  Min(S) \in S /\ \A n \in S : Min(S) <= n
<1>1. \E x \in S : \A y \in S : ~(<<y, x>> \in OpToRel(<, Nat))
  BY NatLessThanWellFounded, WFMin
<1>2. PICK x \in S : \A y \in S : ~(y < x)
  BY <1>1 DEF OpToRel
<1>3. \A y \in S : x <= y
  BY <1>2
<1> QED  BY <1>3 DEF Min

LEMMA PositionIs ==
    ASSUME NEW s \in Seq(Path), NEW p
    PROVE  /\ Position(s, p) \in Nat
           /\ Position(s, p) # 0 => Position(s, p) \in DOMAIN s /\ s[Position(s, p)] = p
           /\ Position(s, p) = 0 => \A i \in DOMAIN s : s[i] # p
<1> DEFINE I == {i \in 1..Len(s) : s[i] = p}
<1>1. Position(s, p) = IF I # {} THEN Min(I) ELSE 0
  BY DEF Position, SelectInSeq
<1>2. CASE I = {}
  BY <1>1, <1>2
<1>3. CASE I # {}
  <2>1. I \in SUBSET Nat
    OBVIOUS
  <2>2. Min(I) \in I
    BY <1>3, <2>1, Least
  <2> QED  BY <1>1, <1>3, <2>2
<1> QED  BY <1>2, <1>3

\* What a list is without one of its missions.
LEMMA RemoveIs ==
    ASSUME NEW s \in Seq(Path), NEW i \in DOMAIN s
    PROVE  /\ RemoveAt(s, i) \in Seq(Path) /\ Len(RemoveAt(s, i)) = Len(s) - 1
           /\ \A j \in 1..(Len(s) - 1) : RemoveAt(s, i)[j] = IF j < i THEN s[j] ELSE s[j + 1]
<1> DEFINE a == SubSeq(s, 1, i - 1)
           b == SubSeq(s, i + 1, Len(s))
<1>1. i \in 1..Len(s) /\ Len(s) \in Nat
  OBVIOUS
<1>2. /\ a \in Seq(Path) /\ Len(a) = i - 1 /\ \A j \in 1..(i - 1) : a[j] = s[j]
      /\ b \in Seq(Path) /\ Len(b) = Len(s) - i /\ \A j \in 1..(Len(s) - i) : b[j] = s[i + j]
  BY <1>1
<1> HIDE DEF a, b
<1>3. RemoveAt(s, i) = a \o b
  BY DEF RemoveAt, a, b
<1>4. a \o b \in Seq(Path) /\ Len(a \o b) = Len(s) - 1
  BY <1>1, <1>2
<1>5. ASSUME NEW j \in 1..(Len(s) - 1)
      PROVE  (a \o b)[j] = IF j < i THEN s[j] ELSE s[j + 1]
  <2>1. CASE j < i
    BY <1>1, <1>2, <2>1
  <2>2. CASE j >= i
    <3>1. (a \o b)[j] = b[j - (i - 1)]
      <4>1. j \in Len(a) + 1..Len(a) + Len(b) /\ Len(a) = i - 1
        BY <1>1, <1>2, <2>2
      <4>2. a \in Seq(Path) /\ b \in Seq(Path)
        BY <1>2
      <4>3. (a \o b)[j] = b[j - Len(a)]
        BY <4>1, <4>2
      <4> QED  BY <4>1, <4>3
    <3>2. j - (i - 1) \in 1..(Len(s) - i) /\ i + (j - (i - 1)) = j + 1
      BY <1>1, <2>2
    <3>3. b[j - (i - 1)] = s[i + (j - (i - 1))]
      BY <1>2, <3>2
    <3> QED  BY <2>2, <3>1, <3>2, <3>3
  <2>3. j \in Nat /\ i \in Nat
    BY <1>1
  <2>4. j < i \/ (j >= i /\ ~(j < i))
    BY <2>3
  <2> QED  BY <2>1, <2>2, <2>4
<1> QED  BY <1>3, <1>4, <1>5

LEMMA InsertType ==
    ASSUME NEW s \in Seq(Path), NEW i \in 1..Len(s), NEW p \in Path
    PROVE  InsertAt(s, i, p) \in Seq(Path)
<1>1. SubSeq(s, 1, i - 1) \in Seq(Path) /\ SubSeq(s, i, Len(s)) \in Seq(Path) /\ <<p>> \in Seq(Path)
  OBVIOUS
<1> QED  BY <1>1 DEF InsertAt

\* What a list is with another mission at an index.
LEMMA ExceptIs ==
    ASSUME NEW s \in Seq(Path), NEW i \in Nat, NEW p \in Path
    PROVE  /\ [s EXCEPT ![i] = p] \in Seq(Path) /\ Len([s EXCEPT ![i] = p]) = Len(s)
           /\ \A j \in DOMAIN s : [s EXCEPT ![i] = p][j] = IF j = i THEN p ELSE s[j]
<1>1. s \in [1..Len(s) -> Path] /\ Len(s) \in Nat
  OBVIOUS
<1> DEFINE r == [s EXCEPT ![i] = p]
<1>2. DOMAIN r = 1..Len(s) /\ \A j \in 1..Len(s) : r[j] = IF j = i THEN p ELSE s[j]
  OBVIOUS
<1>3. r \in [1..Len(s) -> Path]
  BY <1>1
<1>4. r \in Seq(Path) /\ Len(r) = Len(s)
  BY <1>1, <1>3
<1> QED  BY <1>2, <1>4

\* What a list is with one mission more.
LEMMA AppendIs ==
    ASSUME NEW s \in Seq(Path), NEW p \in Path
    PROVE  /\ Append(s, p) \in Seq(Path) /\ Len(Append(s, p)) = Len(s) + 1
           /\ Append(s, p)[Len(s) + 1] = p
           /\ \A j \in 1..Len(s) : Append(s, p)[j] = s[j]
OBVIOUS

\* What a list is without the missions whose file has gone.
LEMMA WithFileIs ==
    ASSUME NEW s \in Seq(Path), NEW r \in WithFile(s)
    PROVE  /\ r \in Seq(Path)
           /\ \E f : /\ f \in [DOMAIN r -> DOMAIN s]
                     /\ \A j, k \in DOMAIN r : f[j] = f[k] => j = k
                     /\ \A k \in DOMAIN r : r[k] = s[f[k]] /\ Stored(s[f[k]])
                     /\ \A i \in DOMAIN s : Stored(s[i]) => \E k \in DOMAIN r : f[k] = i
<1> DEFINE kept == {i \in DOMAIN s : Stored(s[i])}
           places == 1..Cardinality(kept)
<1>1. PICK f \in Bijection(places, kept) : r = [k \in places |-> s[f[k]]]
  BY DEF WithFile
<1>2. IsFiniteSet(kept)
  <2>1. 1 \in Int /\ Len(s) \in Int
    OBVIOUS
  <2>2. IsFiniteSet(1..Len(s))
    BY ONLY <2>1, FS_Interval
  <2>3. kept \subseteq 1..Len(s)
    OBVIOUS
  <2> QED  BY ONLY <2>2, <2>3, FS_Subset
<1>3. Cardinality(kept) \in Nat
  BY <1>2, FS_CardinalityType
<1>4. /\ f \in [places -> kept]
      /\ \A j, k \in places : f[j] = f[k] => j = k
      /\ \A i \in kept : \E k \in places : f[k] = i
  BY <1>1 DEF Bijection, Injection, Surjection, IsInjective
<1>5. DOMAIN r = places /\ \A k \in places : r[k] = s[f[k]]
  BY <1>1
<1>6. \A k \in places : s[f[k]] \in Path
  BY <1>4
<1>7. r \in Seq(Path)
  BY <1>3, <1>5, <1>6, <1>1
<1>8. \A k \in places : f[k] \in DOMAIN s /\ Stored(s[f[k]])
  BY <1>4
<1>9. \A i \in DOMAIN s : Stored(s[i]) => i \in kept
  OBVIOUS
<1>10. f \in [DOMAIN r -> DOMAIN s]
  BY <1>4, <1>5, <1>8
<1> HIDE DEF kept, places
<1> QED  BY <1>4, <1>5, <1>7, <1>8, <1>9, <1>10

-----------------------------------------------------------------------------
(* The mission list: types.                                                *)

TasksOK == task \in [Task -> Framed \cup {Nil}]

\* A coroutine takes a step: it may send a command, and then it waits.
Goes(t) ==
    /\ TasksOK' /\ toDcs' \in Seq(Asked)
    /\ \A u \in Task \ {t} : task'[u] = task[u]
    /\ \/ toDcs' = toDcs
       \/ \E r \in Asked : /\ status # "SHUTDOWN" /\ toDcs' = Append(toDcs, r) /\ r.task = t
                            /\ Awaits(task'[t])

LEMMA KnownIsTyped ==
    ASSUME Known
    PROVE  ListTypeOK
<1>1. task \in [Task -> Coroutine \cup {Nil}]
  BY DEF Known, Framed
<1>2. \A t \in Task : task[t] # Nil /\ task[t].kind = "load" => task[t].cur > 0
  BY DEF Known, Framed
<1>3. toDcs \in Seq(Request)
  <2>1. toDcs \in Seq(Asked)
    BY DEF Known
  <2>2. Asked \subseteq Request
    BY DEF Asked
  <2>3. \A i \in 1..Len(toDcs) : toDcs[i] \in Request
    BY <2>1, <2>2
  <2> QED  BY <2>1, <2>3
<1>4. /\ status \in {"SHUTDOWN", "LOADING", "RUNNING"}
      /\ list \in Seq(Path) /\ dcs \in Seq(Path) /\ running \in Path \cup {Nil}
      /\ onEmpty \in Later \cup {Nil}
      /\ disk \subseteq Name /\ deleted \in [Name -> Nat] /\ wanted \subseteq Name
      /\ toBot \in Seq(Answer) /\ orders \in 0..MaxOrders /\ stops \in 0..MaxStops
  BY DEF Known
<1> QED  BY <1>1, <1>2, <1>3, <1>4 DEF ListTypeOK

LEMMA KeepType ==
    ASSUME NEW k \in {"add", "delete", "replace", "load", "validate"},
           NEW pcn \in {"scheduled", "asked", "files", "modify", "replaced", "start", "answer"},
           NEW n \in Name \cup {Nil}, NEW p \in Path \cup {Nil}, NEW i \in Nat
    PROVE  /\ (k \in {"add", "replace", "load"} => p \in Path) /\ (k # "validate" => n \in Name)
                => Keep(k, pcn, n, p, i) \in Framed
           /\ Keep(k, pcn, n, p, i).kind = k /\ Keep(k, pcn, n, p, i).pc = pcn
           /\ Keep(k, pcn, n, p, i).name = n /\ Keep(k, pcn, n, p, i).path = p
           /\ Keep(k, pcn, n, p, i).idx = i
BY DEF Keep, Framed, Coroutine

LEMMA KeepDelete ==
    ASSUME NEW pcn \in {"asked", "scheduled", "answer"}, NEW n \in Name, NEW i \in Nat
    PROVE  LET c == Keep("delete", pcn, n, Nil, i) IN
           c \in Framed /\ c.kind = "delete" /\ c.pc = pcn /\ c.name = n /\ c.idx = i
BY KeepType

LEMMA KeepAnswer ==
    ASSUME NEW k \in {"add", "replace"}, NEW n \in Name, NEW p \in Path, NEW i \in Nat
    PROVE  LET c == Keep(k, "answer", n, p, i) IN
           c \in Framed /\ c.kind = k /\ c.pc = "answer" /\ c.name = n /\ c.path = p /\ c.idx = i
BY DEF Keep, Framed, Coroutine

LEMMA KeepValidate ==
    LET c == Keep("validate", "answer", Nil, Nil, 0) IN
    c \in Framed /\ c.kind = "validate" /\ c.pc = "answer" /\ c.name = Nil
BY DEF Keep, Framed, Coroutine

\* What a coroutine keeps when it goes on.
LEMMA NextPc ==
    ASSUME NEW c \in Framed, c.kind # "validate",
           NEW pcn \in {"scheduled", "asked", "files", "modify", "replaced", "start", "answer"}
    PROVE  /\ [c EXCEPT !.pc = pcn] \in Framed
           /\ [c EXCEPT !.pc = pcn].kind = c.kind /\ [c EXCEPT !.pc = pcn].pc = pcn
           /\ [c EXCEPT !.pc = pcn].name = c.name /\ [c EXCEPT !.pc = pcn].path = c.path
           /\ [c EXCEPT !.pc = pcn].idx = c.idx /\ [c EXCEPT !.pc = pcn].read = c.read
           /\ [c EXCEPT !.pc = pcn].cur = c.cur
BY DEF Framed, Coroutine

LEMMA NextRead ==
    ASSUME NEW c \in Framed, NEW s \in Seq(Path)
    PROVE  /\ [c EXCEPT !.pc = "start", !.read = s] \in Framed
           /\ [c EXCEPT !.pc = "start", !.read = s].kind = c.kind
           /\ [c EXCEPT !.pc = "start", !.read = s].pc = "start"
           /\ [c EXCEPT !.pc = "start", !.read = s].name = c.name
           /\ [c EXCEPT !.pc = "start", !.read = s].path = c.path
           /\ [c EXCEPT !.pc = "start", !.read = s].read = s
           /\ [c EXCEPT !.pc = "start", !.read = s].cur = c.cur
BY DEF Framed, Coroutine

LEMMA FrameOf ==
    ASSUME Known, NEW t \in Task, task[t] # Nil
    PROVE  /\ task[t] \in Framed
           /\ task[t].kind \in {"add", "delete", "replace", "load", "validate"}
           /\ task[t].pc \in {"scheduled", "asked", "files", "modify", "replaced", "start", "answer"}
           /\ task[t].idx \in Nat /\ task[t].cur \in Nat /\ task[t].read \in Seq(Path)
           /\ task[t].kind \in {"add", "replace", "load"} => task[t].path \in Path
           /\ task[t].kind # "validate" => task[t].name \in Name
           /\ task[t].kind = "load" => task[t].cur > 0
           /\ task[t].name \in Name \cup {Nil} /\ task[t].path \in Path \cup {Nil}
BY DEF Known, Framed, Coroutine

LEMMA BecomesTypes ==
    ASSUME Known, NEW t \in Task, NEW c, c \in Framed \/ c = Nil, Becomes(t, c)
    PROVE  TasksOK' /\ task'[t] = c /\ \A u \in Task \ {t} : task'[u] = task[u]
<1>1. task \in [Task -> Framed \cup {Nil}] /\ c \in Framed \cup {Nil}
  BY DEF Known
<1>2. task' = [task EXCEPT ![t] = c]
  BY DEF Becomes
<1>3. /\ task' \in [Task -> Framed \cup {Nil}] /\ task'[t] = c
      /\ \A u \in Task \ {t} : task'[u] = task[u]
  BY <1>1, <1>2
<1> QED  BY <1>3 DEF TasksOK

LEMMA BecomesGoes ==
    ASSUME Known, NEW t \in Task, NEW c, c \in Framed \/ c = Nil, Becomes(t, c), UNCHANGED toDcs
    PROVE  Goes(t)
BY BecomesTypes DEF Goes, Known

LEMMA GoesTyped ==
    ASSUME NEW t \in Task, Goes(t)
    PROVE  task' \in [Task -> Framed \cup {Nil}] /\ toDcs' \in Seq(Asked)
BY DEF Goes, TasksOK

LEMMA StaysGoes ==
    ASSUME Known, NEW t \in Task, UNCHANGED <<task, toDcs>>
    PROVE  Goes(t)
BY DEF Goes, Known, TasksOK

LEMMA AskTypes ==
    ASSUME Known, NEW t \in Task, NEW c, c \in Framed,
           NEW cmd \in {"add", "delete", "replace", "start", "list"},
           NEW p \in Path \cup {Nil}, NEW i \in Nat, Ask(t, c, cmd, p, i),
           cmd \in {"add", "replace", "start"} => p \in Path,
           c.pc \in {"answer", "replaced"}
    PROVE  Goes(t)
<1>1. TasksOK' /\ task'[t] = c /\ \A u \in Task \ {t} : task'[u] = task[u]
  BY BecomesTypes DEF Ask
<1>2. [cmd |-> cmd, task |-> t, name |-> c.name, path |-> p, idx |-> i] \in Asked
  BY DEF Framed, Coroutine, Request, Asked
<1>3. toDcs' \in Seq(Asked)
  BY <1>2 DEF Ask, Known
<1>4. Awaits(task'[t])
  <2>1. c # Nil
    BY MissionAssumption DEF Framed
  <2> QED  BY <1>1, <2>1 DEF Awaits
<1> DEFINE r == [cmd |-> cmd, task |-> t, name |-> c.name, path |-> p, idx |-> i]
<1>5. r \in Asked /\ r.task = t
  BY <1>2
<1>6. toDcs' = IF status = "SHUTDOWN" THEN toDcs ELSE Append(toDcs, r)
  BY DEF Ask
<1> HIDE DEF r
<1> QED  BY <1>1, <1>3, <1>4, <1>5, <1>6 DEF Goes

LEMMA ReplaceTypes ==
    ASSUME Known, NEW t \in Task, NEW i \in Nat, NEW p \in Path, NEW c, c \in Framed, c.kind # "validate",
           c.pc \in {"answer", "replaced"}, ReplaceMission(t, i, p, c)
    PROVE  Goes(t) /\ list' \in Seq(Path)
<1>1. CASE Online
  BY <1>1, AskTypes DEF ReplaceMission, Known
<1>2. CASE ~Online
  <2>1. list' = [list EXCEPT ![i] = p] /\ list' \in Seq(Path)
    <3>1. list \in Seq(Path)
      BY DEF Known
    <3>2. list' = [list EXCEPT ![i] = p]
      BY <1>2 DEF ReplaceMission
    <3> QED  BY <3>1, <3>2, ExceptIs
  <2>2. [c EXCEPT !.pc = "start", !.read = list'] \in Framed
    BY <2>1, NextRead
  <2>3. TasksOK' /\ \A u \in Task \ {t} : task'[u] = task[u]
    <3>1. CASE c.kind = "load"
      BY <1>2, <2>2, <3>1, BecomesTypes DEF ReplaceMission
    <3>2. CASE c.kind # "load"
      BY <1>2, <3>2, BecomesTypes DEF ReplaceMission
    <3> QED  BY <3>1, <3>2, ExceptIs
  <2> QED  BY <1>2, <2>1, <2>3 DEF ReplaceMission, Known, Goes
<1> QED  BY <1>1, <1>2

LEMMA TwinType ==
    ASSUME NEW p \in Path
    PROVE  Twin(p) \in Path /\ Twin(p)[1] = p[1] /\ Twin(p) # p /\ p[1] \in Name
BY DEF Twin, Path

LEMMA FileType ==
    ASSUME NEW n \in Name
    PROVE  File(n) \in Path /\ File(n)[1] = n
BY DEF File, Path

LEMMA AddTypes ==
    ASSUME Known, NEW t \in Task, NEW i \in Nat, NEW p \in Path, AddMission(t, p, i)
    PROVE  Goes(t) /\ list' \in Seq(Path)
<1> DEFINE twin == Position(list, Twin(p))
<1>1. list \in Seq(Path) /\ p[1] \in Name /\ twin \in Nat
  BY TwinType, PositionIs DEF Known
<1> HIDE DEF twin
<1>2. CASE twin > 0
  <2>1. ReplaceMission(t, twin, p, Keep("replace", "answer", p[1], p, twin))
    BY <1>2 DEF AddMission, twin
  <2> DEFINE c == Keep("replace", "answer", p[1], p, twin)
  <2>2. c \in Framed /\ c.kind = "replace" /\ c.pc = "answer"
    BY <1>1, KeepAnswer
  <2> HIDE DEF c
  <2> QED  BY <1>1, <2>1, <2>2, ReplaceTypes DEF c
<1>3. CASE ~(twin > 0) /\ Position(list, p) > 0
  BY <1>3, BecomesGoes DEF AddMission, Ends, twin, Known
<1>4. CASE ~(twin > 0) /\ ~(Position(list, p) > 0) /\ Online
  <2>1. Ask(t, Keep("add", "answer", p[1], p, i), "add", p, i) /\ UNCHANGED list
    BY <1>4 DEF AddMission, twin
  <2> DEFINE c == Keep("add", "answer", p[1], p, i)
  <2>2. c \in Framed /\ c.kind = "add" /\ c.pc = "answer"
    BY <1>1, KeepAnswer
  <2> HIDE DEF c
  <2> QED  BY <1>1, <2>1, <2>2, AskTypes DEF c
<1>5. CASE ~(twin > 0) /\ ~(Position(list, p) > 0) /\ ~Online
  <2>1. /\ Ends(t) /\ UNCHANGED toDcs
        /\ list' = IF i \in 1..Len(list) THEN InsertAt(list, i, p) ELSE Append(list, p)
    BY <1>5 DEF AddMission, twin
  <2>2. list' \in Seq(Path)
    BY <1>1, <2>1, InsertType, AppendIs
  <2> QED  BY <2>1, <2>2, BecomesGoes DEF Ends, Known
<1> QED  BY <1>2, <1>3, <1>4, <1>5

LEMMA DeleteTypes ==
    ASSUME Known, NEW t \in Task, NEW i \in Nat, NEW n \in Name,
           DeleteMission(t, i, n)
    PROVE  Goes(t) /\ list' \in Seq(Path) /\ wanted' \subseteq Name
<1>1. CASE Online /\ Ends(t) /\ Failed(n) /\ UNCHANGED <<list, toDcs>>
  <2>1. Listed(list) \subseteq Name
    BY TwinType DEF Listed, Known
  <2> QED  BY <1>1, <2>1, BecomesGoes DEF Ends, Failed, Known
<1>2. CASE /\ Online /\ wanted' = wanted \ {n} /\ UNCHANGED list
           /\ Ask(t, Keep("delete", "answer", n, Nil, i), "delete", Nil, i)
  <2>1. Keep("delete", "answer", n, Nil, i) \in Framed /\ Keep("delete", "answer", n, Nil, i).pc = "answer"
    BY KeepType
  <2>2. Goes(t)
    BY <1>2, <2>1, AskTypes
  <2> QED  BY <1>2, <2>2 DEF Known
<1>3. CASE /\ i \in DOMAIN list /\ Ends(t) /\ list' = RemoveAt(list, i)
           /\ wanted' = wanted \ {n} /\ UNCHANGED toDcs
  BY <1>3, BecomesGoes, RemoveIs DEF Ends, Known
<1>4. CASE Ends(t) /\ Failed(n) /\ UNCHANGED <<list, toDcs>>
  <2>1. Listed(list) \subseteq Name
    BY TwinType DEF Listed, Known
  <2> QED  BY <1>4, <2>1, BecomesGoes DEF Ends, Failed, Known
<1> QED  BY <1>1, <1>2, <1>3, <1>4 DEF DeleteMission

LEMMA ListInitTypes ==
    ASSUME ListInit
    PROVE  Known /\ NoTwice(list) /\ Listed(list) = disk
<1> DEFINE S == {File(n) : n \in disk}
           k == Cardinality(S)
           s == SetToSeq(S)
<1>1. disk \subseteq Name /\ IsFiniteSet(disk)
  BY MissionAssumption, FS_Subset DEF ListInit
<1>2. IsFiniteSet(S)
  <2>1. [n \in disk |-> File(n)] \in Surjection(disk, S)
    BY DEF Surjection
  <2> QED  BY <1>1, <2>1, FS_Surjection
<1>3. k \in Nat /\ ExistsBijection(1..k, S)
  BY <1>2, FS_CardinalityType
<1>4. \E f \in [1..k -> S] : IsInjective(f)
  <2>1. PICK f \in Bijection(1..k, S) : TRUE
    BY <1>3 DEF ExistsBijection
  <2>2. f \in [1..k -> S] /\ IsInjective(f)
    BY <2>1 DEF Bijection, Injection, IsInjective
  <2> QED  BY <2>2
<1>5. s \in [1..k -> S] /\ IsInjective(s)
  BY <1>4 DEF SetToSeq
<1>6. \A x \in S : \E i \in 1..k : s[i] = x
  <2>1. s \in Injection(1..k, S)
    BY <1>5 DEF Injection, IsInjective
  <2>2. Cardinality(1..k) = k
    BY <1>3, FS_Interval
  <2> HIDE DEF S, k, s
  <2>3. s \in Surjection(1..k, S)
    BY <1>2, <2>1, <2>2, FS_Injection DEF k
  <2> QED  BY <2>3 DEF Surjection
<1>7. list = s
  BY DEF ListInit
<1>8. \A x \in S : x \in Path /\ File(x[1]) = x /\ x[1] \in disk
  BY <1>1, FileType DEF File
<1>9. list \in Seq(Path) /\ DOMAIN list = 1..k
  <2> HIDE DEF S, k, s
  <2> QED  BY <1>3, <1>5, <1>7, <1>8
<1>10. NoTwice(list)
  <2>1. ASSUME NEW i \in DOMAIN list, NEW j \in DOMAIN list, list[i][1] = list[j][1]
        PROVE  i = j
    <3> HIDE DEF S, k, s
    <3>1. list[i] \in S /\ list[j] \in S
      BY <1>5, <1>7, <1>9, <2>1
    <3>2. list[i] = list[j]
      BY <1>8, <2>1, <3>1
    <3> QED  BY <1>5, <1>7, <1>9, <3>2 DEF IsInjective
  <2> QED  BY <2>1 DEF NoTwice
<1>11. Listed(list) = disk
  <2>1. ASSUME NEW n \in disk PROVE \E i \in DOMAIN list : list[i][1] = n
    <3>1. File(n) \in S /\ File(n)[1] = n
      BY <1>1, FileType
    <3> HIDE DEF S, k, s
    <3> QED  BY <1>6, <1>7, <1>9, <3>1
  <2>2. ASSUME NEW i \in DOMAIN list PROVE list[i][1] \in disk
    <3> HIDE DEF S, k, s
    <3> QED  BY <1>5, <1>7, <1>8, <1>9
  <2> QED  BY <2>1, <2>2 DEF Listed
<1>12. Known
  <2> HIDE DEF S, k, s
  <2>1. deleted \in [Name -> Nat] /\ dcs \in Seq(Path) /\ toDcs \in Seq(Asked) /\ toBot \in Seq(Answer)
    BY DEF ListInit
  <2>2. task \in [Task -> Framed \cup {Nil}]
    BY DEF ListInit
  <2>3. orders \in 0..MaxOrders /\ stops \in 0..MaxStops
    BY MissionAssumption DEF ListInit
  <2> QED  BY <1>1, <1>9, <2>1, <2>2, <2>3 DEF ListInit, Known
<1> QED  BY <1>10, <1>11, <1>12

\* What a load keeps when it begins.
Loading(n, p, s, i) == [Keep("load", "modify", n, p, 0) EXCEPT !.read = s, !.cur = i]

LEMMA LoadFrame ==
    ASSUME NEW n \in Name, NEW p \in Path, NEW s \in Seq(Path), NEW i \in Nat, i > 0
    PROVE  /\ Loading(n, p, s, i) \in Framed
           /\ Loading(n, p, s, i).kind = "load" /\ Loading(n, p, s, i).pc = "modify"
           /\ Loading(n, p, s, i).name = n /\ Loading(n, p, s, i).path = p
           /\ Loading(n, p, s, i).read = s /\ Loading(n, p, s, i).cur = i
<1> DEFINE d == Keep("load", "modify", n, p, 0)
           c == Loading(n, p, s, i)
<1>1. /\ d \in Coroutine /\ d.kind = "load" /\ d.pc = "modify" /\ d.name = n /\ d.path = p
  BY DEF Keep, Coroutine
<1>2. c = [d EXCEPT !.read = s, !.cur = i]
  BY DEF Loading
<1> HIDE DEF d, c
<1>3. /\ c \in Coroutine /\ c.kind = "load" /\ c.pc = "modify" /\ c.name = n /\ c.path = p
      /\ c.read = s /\ c.cur = i
  BY <1>1, <1>2 DEF Coroutine
<1>4. \A e \in Coroutine : e.kind = "load" /\ e.path \in Path /\ e.name \in Name /\ e.cur > 0 => e \in Framed
  BY DEF Framed
<1>5. c \in Framed
  BY <1>3, <1>4
<1> QED  BY <1>3, <1>5 DEF c

LEMMA LoadTypes ==
    ASSUME Known, NEW t \in Task, NEW p \in Path, NEW n \in Name, LoadBegins(t, p, n),
           UNCHANGED toDcs
    PROVE  Goes(t)
<1>1. PICK i \in DOMAIN list : Becomes(t, Loading(n, p, list, i))
  BY DEF LoadBegins, Loading
<1>2. list \in Seq(Path) /\ i \in Nat /\ i > 0
  BY <1>1 DEF Known
<1>3. Loading(n, p, list, i) \in Framed
  BY <1>2, LoadFrame
<1> QED  BY <1>1, <1>3, BecomesGoes

LEMMA NobodyIs ==
    ASSUME NEW q \in Seq(Asked), NEW t
    PROVE  Nobody(q, t) \in Seq(Asked)
<1>1. ASSUME NEW i \in DOMAIN q
      PROVE  (IF q[i].task = t THEN [q[i] EXCEPT !.task = Nil] ELSE q[i]) \in Asked
  BY DEF Asked, Request
<1>2. Nobody(q, t) \in [1..Len(q) -> Asked]
  BY <1>1 DEF Nobody
<1> QED  BY <1>2

LEMMA NobodyEmpty ==
    ASSUME NEW t
    PROVE  Nobody(<<>>, t) = <<>>
BY DEF Nobody

LEMMA OrderTypes ==
    ASSUME Known, Order
    PROVE  orders' \in 0..MaxOrders
BY MissionAssumption DEF Known, Order

\* A file that has gone: the index of its path is remembered, a deletion scheduled.
LEMMA GoneIs ==
    ASSUME Known, NEW t \in Task, NEW n \in Name, OnDeleted(t, n)
    PROVE  /\ deleted' \in [Name -> Nat]
           /\ \/ UNCHANGED task
              \/ \E i \in Nat : Named(list, i, n) /\ Becomes(t, Keep("delete", "scheduled", n, Nil, i))
<1> DEFINE copy == Position(list, <<n, "copy">>)
           file == Position(list, File(n))
<1>1. list \in Seq(Path) /\ deleted \in [Name -> Nat]
  BY DEF Known
<1>2. <<n, "copy">> \in Path /\ File(n) \in Path /\ File(n)[1] = n
  BY FileType DEF Path
<1>3. copy \in Nat /\ (copy > 0 => Named(list, copy, n))
  BY <1>1, <1>2, PositionIs DEF Named
<1>4. file \in Nat /\ (file > 0 => Named(list, file, n))
  BY <1>1, <1>2, PositionIs DEF Named
<1>5. /\ deleted' \in {deleted, [deleted EXCEPT ![n] = file]}
      /\ \/ UNCHANGED task
         \/ copy > 0 /\ Becomes(t, Keep("delete", "scheduled", n, Nil, copy))
         \/ file > 0 /\ Becomes(t, Keep("delete", "scheduled", n, Nil, file))
  BY DEF OnDeleted
<1> HIDE DEF copy, file
<1>6. deleted' \in [Name -> Nat]
  BY <1>1, <1>4, <1>5
<1> QED  BY <1>3, <1>4, <1>5, <1>6

LEMMA GoneTypes ==
    ASSUME Known, NEW t \in Task, NEW n \in Name, OnDeleted(t, n), UNCHANGED toDcs
    PROVE  Goes(t) /\ deleted' \in [Name -> Nat]
<1>1. ASSUME NEW i \in Nat, Becomes(t, Keep("delete", "scheduled", n, Nil, i))
      PROVE  Goes(t)
  <2>1. Keep("delete", "scheduled", n, Nil, i) \in Framed
    BY KeepType
  <2> QED  BY <1>1, <2>1, BecomesGoes
<1> QED  BY <1>1, GoneIs, StaysGoes

\* Commands of people and of the watcher.
LEMMA OrdersTypes ==
    ASSUME Known, NEW t \in Task, Orders(t)
    PROVE  /\ Known' /\ UNCHANGED <<status, toBot>>
           /\ (Goes(t) /\ task[t] = Nil) \/ UNCHANGED <<task, toDcs>>
<1> DEFINE Done == Known' /\ Goes(t) /\ UNCHANGED <<status, toBot>> /\ task[t] = Nil
<1>1. /\ list \in Seq(Path) /\ dcs \in Seq(Path) /\ disk \subseteq Name /\ wanted \subseteq Name
      /\ deleted \in [Name -> Nat]
      /\ \A i \in DOMAIN list : i \in Nat \ {0} /\ list[i] \in Path /\ list[i][1] \in Name
  BY TwinType DEF Known
<1>2. ASSUME NEW n \in Name, OrderAdd(t, n) PROVE Done
  <2>1. Goes(t) /\ list' \in Seq(Path)
    BY <1>2, FileType, AddTypes DEF OrderAdd
  <2>2. orders' \in 0..MaxOrders
    BY <1>2, OrderTypes DEF OrderAdd
  <2> QED  BY <1>2, <2>1, <2>2, GoesTyped DEF Known, TasksOK, OrderAdd, dcsVars, fileVars
<1>3. ASSUME NEW n \in Name, Unlink(t, n) PROVE Done
  <2>1. Goes(t) /\ deleted' \in [Name -> Nat]
    BY <1>3, GoneTypes DEF Unlink
  <2>2. orders' \in 0..MaxOrders
    BY <1>3, OrderTypes DEF Unlink
  <2> QED  BY <1>1, <1>3, <2>1, <2>2, GoesTyped DEF Known, TasksOK, Unlink, dcsVars
<1>4. ASSUME NEW n \in Name, NEW m \in Name, Move(t, n, m) PROVE Done
  <2>1. Goes(t) /\ deleted' \in [Name -> Nat]
    BY <1>4, GoneTypes DEF Move
  <2>2. orders' \in 0..MaxOrders
    BY <1>4, OrderTypes DEF Move
  <2> QED  BY <1>1, <1>4, <2>1, <2>2, GoesTyped DEF Known, TasksOK, Move, dcsVars
<1>5. ASSUME NEW n \in Name, Create(t, n) PROVE Done
  <2>1. deleted[n] \in Nat
    BY <1>1
  <2>2. Keep("add", "scheduled", n, File(n), deleted[n]) \in Framed
    BY <2>1, FileType, KeepType
  <2>3. Goes(t)
    BY <1>5, <2>2, BecomesGoes DEF Create
  <2>4. deleted' \in [Name -> Nat]
    BY <1>1, <1>5 DEF Create
  <2>5. orders' \in 0..MaxOrders
    BY <1>5, OrderTypes DEF Create
  <2> QED  BY <1>1, <1>5, <2>3, <2>4, <2>5, GoesTyped DEF Known, TasksOK, Create, dcsVars
<1>6. ASSUME NEW i \in DOMAIN list, OrderDelete(t, i) PROVE Done
  <2>1. Keep("delete", "asked", list[i][1], Nil, i) \in Framed
    <3>1. i \in Nat /\ list[i][1] \in Name
      BY <1>1
    <3> QED  BY <3>1, KeepType
  <2>2. Goes(t)
    BY <1>6, <2>1, BecomesGoes DEF OrderDelete
  <2>3. orders' \in 0..MaxOrders
    BY <1>6, OrderTypes DEF OrderDelete
  <2> QED  BY <1>6, <2>2, <2>3, GoesTyped DEF Known, TasksOK, OrderDelete, dcsVars, fileVars
<1>7. ASSUME NEW i \in DOMAIN list, OrderRollback(t, i) PROVE Done
  <2>1. Keep("replace", "files", list[i][1], Twin(list[i]), i) \in Framed
    BY <1>1, TwinType, KeepType
  <2>2. Goes(t)
    BY <1>7, <2>1, BecomesGoes DEF OrderRollback
  <2>3. orders' \in 0..MaxOrders
    BY <1>7, OrderTypes DEF OrderRollback
  <2>4. disk' \subseteq Name
    BY <1>1, <1>7 DEF OrderRollback
  <2> QED  BY <1>7, <2>2, <2>3, <2>4, GoesTyped DEF Known, TasksOK, OrderRollback, dcsVars
<1>8. ASSUME NEW i \in DOMAIN list, OrderLoad(t, i) PROVE Done
  <2>1. Goes(t)
    BY <1>1, <1>8, LoadTypes DEF OrderLoad
  <2>2. orders' \in 0..MaxOrders
    BY <1>8, OrderTypes DEF OrderLoad
  <2> QED  BY <1>8, <2>1, <2>2, GoesTyped DEF Known, TasksOK, OrderLoad, dcsVars, fileVars
<1>9. ASSUME NEW i \in DOMAIN list, OrderLater(i) PROVE Known' /\ UNCHANGED <<status, toBot, task, toDcs>>
  <2>1. onEmpty' \in Later
    BY <1>1, <1>9 DEF OrderLater, Later
  <2>2. orders' \in 0..MaxOrders
    BY <1>9, OrderTypes DEF OrderLater
  <2> QED  BY <1>9, <2>1, <2>2 DEF Known, OrderLater, dcsVars, fileVars
<1> QED  BY <1>2, <1>3, <1>4, <1>5, <1>6, <1>7, <1>8, <1>9 DEF Orders

\* Coroutines that go on.
LEMMA StepsTypes ==
    ASSUME Known, NEW t \in Task, Steps(t)
    PROVE  /\ Known' /\ UNCHANGED toBot
           /\ \/ TimesOut(t)
              \/ /\ Goes(t) /\ ~Awaits(task[t])
                 /\ status' = status \/ (status' = "RUNNING" /\ status # "SHUTDOWN")
<1> DEFINE Done == Known' /\ Goes(t) /\ UNCHANGED <<status, toBot>> /\ ~Awaits(task[t])
<1>1. /\ list \in Seq(Path) /\ dcs \in Seq(Path) /\ toBot \in Seq(Answer)
      /\ \A i \in DOMAIN list : i \in Nat \ {0} /\ list[i] \in Path /\ list[i][1] \in Name
  BY TwinType DEF Known
<1>2. ASSUME task[t] # Nil
      PROVE  /\ task[t] \in Framed
             /\ task[t].idx \in Nat /\ task[t].cur \in Nat /\ task[t].read \in Seq(Path)
             /\ task[t].kind \in {"add", "replace", "load"} => task[t].path \in Path
             /\ task[t].kind # "validate" => task[t].name \in Name
             /\ task[t].name \in Name \cup {Nil} /\ task[t].path \in Path \cup {Nil}
  BY <1>2, FrameOf
<1>3. CASE DeleteConfirmed(t)
  <2>1. Goes(t) /\ list' \in Seq(Path) /\ wanted' \subseteq Name
    <3>1. CASE DeleteMission(t, task[t].idx, task[t].name)
      BY <1>2, <1>3, <3>1, DeleteTypes DEF DeleteConfirmed, Is
    <3>2. CASE Ends(t) /\ UNCHANGED <<list, toDcs, wanted>>
      BY <3>2, BecomesGoes DEF Ends, Known
    <3> QED  BY <1>3, <3>1, <3>2 DEF DeleteConfirmed
  <2>8. Known'
    BY <1>3, <2>1, GoesTyped DEF Known, TasksOK, DeleteConfirmed, dcsVars, fileVars
  <2> QED  BY <1>3, <2>1, <2>8 DEF Awaits, Is, DeleteConfirmed, dcsVars, fileVars
<1>4. CASE RollbackReplaces(t)
  <2>1. task[t] # Nil /\ task[t].kind = "replace"
    BY <1>4 DEF RollbackReplaces, Is
  <2>2. [task[t] EXCEPT !.pc = "answer"] \in Framed /\ [task[t] EXCEPT !.pc = "answer"].kind = "replace"
        /\ [task[t] EXCEPT !.pc = "answer"].pc = "answer"
    BY <1>2, <2>1, NextPc
  <2>3. Goes(t) /\ list' \in Seq(Path)
    BY <1>2, <1>4, <2>1, <2>2, ReplaceTypes DEF RollbackReplaces
  <2>8. Known'
    BY <1>4, <2>3, GoesTyped DEF Known, TasksOK, RollbackReplaces, dcsVars, fileVars
  <2> QED  BY <1>4, <2>3, <2>8 DEF Awaits, Is, RollbackReplaces, dcsVars, fileVars
<1>5. CASE LoadStarts(t)
  <2> DEFINE i == Position(task[t].read, task[t].path)
             c == [task[t] EXCEPT !.pc = "answer"]
             x == IF i = task[t].cur THEN 0 ELSE i
  <2>1. task[t] # Nil /\ task[t].kind = "load" /\ c \in Framed /\ c.pc = "answer"
    BY <1>2, <1>5, NextPc DEF LoadStarts, Is
  <2>2. x \in Nat
    BY <1>2, <2>1, PositionIs
  <2>3. Ask(t, c, "start", task[t].path, x)
    BY <1>5 DEF LoadStarts
  <2> HIDE DEF c, x
  <2>4. Goes(t)
    BY <1>2, <2>1, <2>2, <2>3, AskTypes
  <2>8. Known'
    BY <1>5, <2>4, GoesTyped DEF Known, TasksOK, LoadStarts, dcsVars, fileVars
  <2> QED  BY <1>5, <2>4, <2>8 DEF Awaits, Is, LoadStarts, dcsVars, fileVars
<1>6. CASE Scheduled(t)
  <2>1. Goes(t) /\ list' \in Seq(Path) /\ wanted' \subseteq Name
    <3>1. CASE Is(t, "delete", "scheduled") /\ DeleteMission(t, task[t].idx, task[t].name)
      BY <1>2, <3>1, DeleteTypes DEF Is
    <3>2. CASE /\ Is(t, "add", "scheduled") /\ AddMission(t, task[t].path, task[t].idx)
               /\ wanted' = wanted \cup {task[t].name}
      BY <1>2, <3>2, AddTypes DEF Is, Known
    <3> QED  BY <1>6, <3>1, <3>2 DEF Scheduled
  <2>8. Known'
    BY <1>6, <2>1, GoesTyped DEF Known, TasksOK, Scheduled, dcsVars, fileVars
  <2> QED  BY <1>6, <2>1, <2>8 DEF Awaits, Is, Scheduled, dcsVars, fileVars
<1>7. CASE \E q \in Path : LoadModified(t, q)
  <2>1. PICK q \in Path : LoadModified(t, q)
    BY <1>7
  <2>2. task[t] # Nil /\ task[t].kind = "load"
    BY <2>1 DEF LoadModified, Is
  <2> DEFINE c == [task[t] EXCEPT !.path = q]
  <2>3. c \in Framed /\ c.kind = "load"
    BY <1>2, <2>2 DEF Framed, Coroutine
  <2>4. /\ [c EXCEPT !.pc = "replaced"] \in Framed /\ [c EXCEPT !.pc = "replaced"].kind = "load"
        /\ [c EXCEPT !.pc = "replaced"].pc = "replaced"
        /\ [c EXCEPT !.pc = "start"] \in Framed
    BY <2>3, NextPc
  <2>5. \/ ReplaceMission(t, task[t].cur, q, [c EXCEPT !.pc = "replaced"])
        \/ Becomes(t, [c EXCEPT !.pc = "start"]) /\ UNCHANGED <<list, toDcs>>
    BY <2>1 DEF LoadModified
  <2> HIDE DEF c
  <2>6. Goes(t) /\ list' \in Seq(Path)
    <3>1. CASE ReplaceMission(t, task[t].cur, q, [c EXCEPT !.pc = "replaced"])
      BY <1>2, <2>2, <2>4, <3>1, ReplaceTypes
    <3>2. CASE Becomes(t, [c EXCEPT !.pc = "start"]) /\ UNCHANGED <<list, toDcs>>
      BY <2>4, <3>2, BecomesGoes DEF Known
    <3> QED  BY <2>5, <3>1, <3>2
  <2>8. Known'
    BY <2>1, <2>6, GoesTyped DEF Known, TasksOK, LoadModified, dcsVars, fileVars
  <2> QED  BY <2>1, <2>6, <2>8 DEF Awaits, Is, LoadModified, dcsVars, fileVars
<1>8. CASE ServerEmpty(t)
  <2> DEFINE i == IF onEmpty.idx \in DOMAIN list THEN onEmpty.idx ELSE 1
  <2>1. onEmpty \in Later /\ list # <<>> /\ LoadBegins(t, list[i], onEmpty.name)
    BY <1>8 DEF ServerEmpty, Known
  <2>2. i \in DOMAIN list
    BY <1>1, <2>1
  <2>3. onEmpty.name \in Name
    BY <2>1 DEF Later
  <2> HIDE DEF i
  <2>4. Goes(t)
    BY <1>1, <1>8, <2>1, <2>2, <2>3, LoadTypes DEF ServerEmpty
  <2>8. Known'
    BY <1>8, <2>4, GoesTyped DEF Known, TasksOK, ServerEmpty, dcsVars, fileVars
  <2> QED  BY <1>8, <2>4, <2>8 DEF Awaits, Is, ServerEmpty, dcsVars, fileVars
<1>9. CASE MissionRuns(t)
  <2>1. Keep("validate", "answer", Nil, Nil, 0) \in Framed /\ Keep("validate", "answer", Nil, Nil, 0).pc = "answer"
    BY KeepType
  <2>2. Goes(t)
    BY <1>9, <2>1, AskTypes DEF MissionRuns
  <2>8. Known'
    BY <1>9, <2>2, GoesTyped DEF Known, TasksOK, MissionRuns, fileVars
  <2> QED  BY <1>9, <2>2, <2>8 DEF Awaits, MissionRuns, fileVars
<1>10. CASE TimesOut(t)
  <2>1. TasksOK'
    BY <1>10, BecomesTypes DEF TimesOut, Ends
  <2>2. toDcs' \in Seq(Asked)
    BY <1>10, NobodyIs DEF TimesOut, Known
  <2>3. wanted' \subseteq Name
    <3>1. Listed(list) \subseteq Name
      BY <1>1 DEF Listed
    <3> QED  BY <1>10, <3>1 DEF TimesOut, Failed, Known
  <2> QED  BY <1>10, <2>1, <2>2, <2>3 DEF Known, TasksOK, TimesOut, dcsVars, fileVars
<1> QED  BY <1>3, <1>4, <1>5, <1>6, <1>7, <1>8, <1>9, <1>10 DEF Steps

LEMMA HeadIs ==
    ASSUME Known, toDcs # <<>>
    PROVE  /\ Head(toDcs) \in Asked /\ Head(toDcs) = toDcs[1] /\ 1 \in DOMAIN toDcs
           /\ Tail(toDcs) \in Seq(Asked) /\ Len(Tail(toDcs)) = Len(toDcs) - 1
           /\ \A i \in DOMAIN Tail(toDcs) : i + 1 \in DOMAIN toDcs /\ Tail(toDcs)[i] = toDcs[i + 1]
           /\ Head(toDcs).task \in Task \cup {Nil} /\ Head(toDcs).idx \in Nat
           /\ Head(toDcs).path \in Path \cup {Nil}
           /\ Head(toDcs).cmd \in {"add", "replace", "start"} => Head(toDcs).path \in Path
<1>1. toDcs \in Seq(Asked)
  BY DEF Known
<1>2. /\ Head(toDcs) \in Asked /\ Head(toDcs) = toDcs[1] /\ 1 \in DOMAIN toDcs
      /\ Tail(toDcs) \in Seq(Asked) /\ Len(Tail(toDcs)) = Len(toDcs) - 1
      /\ \A i \in DOMAIN Tail(toDcs) : i + 1 \in DOMAIN toDcs /\ Tail(toDcs)[i] = toDcs[i + 1]
  BY <1>1
<1> QED  BY <1>2 DEF Asked, Request

LEMMA FirstAnswer ==
    ASSUME Known, toBot # <<>>
    PROVE  /\ Head(toBot) \in Answer /\ Head(toBot) = toBot[1] /\ 1 \in DOMAIN toBot
           /\ Tail(toBot) \in Seq(Answer) /\ Len(Tail(toBot)) = Len(toBot) - 1
           /\ \A i \in DOMAIN Tail(toBot) : i + 1 \in DOMAIN toBot /\ Tail(toBot)[i] = toBot[i + 1]
           /\ Head(toBot).list \in Seq(Path) /\ Head(toBot).task \in Task \cup {Nil}
<1>1. toBot \in Seq(Answer)
  BY DEF Known
<1>2. /\ Head(toBot) \in Answer /\ Head(toBot) = toBot[1] /\ 1 \in DOMAIN toBot
      /\ Tail(toBot) \in Seq(Answer) /\ Len(Tail(toBot)) = Len(toBot) - 1
      /\ \A i \in DOMAIN Tail(toBot) : i + 1 \in DOMAIN toBot /\ Tail(toBot)[i] = toBot[i + 1]
  BY <1>1
<1> QED  BY <1>2 DEF Answer

\* What a queue is with one message more.
LEMMA QueueGrows ==
    ASSUME NEW S, NEW q \in Seq(S), NEW r \in S
    PROVE  /\ DOMAIN Append(q, r) = DOMAIN q \cup {Len(q) + 1} /\ Append(q, r)[Len(q) + 1] = r
           /\ Len(q) + 1 \notin DOMAIN q /\ \A i \in DOMAIN q : Append(q, r)[i] = q[i] /\ i < Len(q) + 1
           /\ Len(Append(q, r)) = Len(q) + 1 /\ Len(q) \in Nat /\ DOMAIN q = 1..Len(q)
           /\ Append(q, r) \in Seq(S)
OBVIOUS

LEMMA WaitingGoes ==
    ASSUME Known, Waiting, NEW t \in Task, Goes(t), ~Awaits(task[t]), UNCHANGED toBot,
           status' = "SHUTDOWN" => status = "SHUTDOWN"
    PROVE  Waiting'
<1>1. toDcs \in Seq(Asked) /\ t # Nil
  BY MissionAssumption DEF Known
<1>2. \A u \in Task : Awaits(task[u]) => u # t /\ Awaits(task'[u])
  BY DEF Goes
<1>3. CASE toDcs' = toDcs
  BY <1>2, <1>3 DEF Waiting
<1>4. CASE \E r \in Asked : /\ status # "SHUTDOWN" /\ toDcs' = Append(toDcs, r) /\ r.task = t
                            /\ Awaits(task'[t])
  <2>1. PICK r \in Asked : status # "SHUTDOWN" /\ toDcs' = Append(toDcs, r) /\ r.task = t /\ Awaits(task'[t])
    BY <1>4
  <2> DEFINE n == Len(toDcs) + 1
  <2>2. /\ DOMAIN toDcs' = DOMAIN toDcs \cup {n} /\ toDcs'[n] = r /\ n \notin DOMAIN toDcs
        /\ \A i \in DOMAIN toDcs : toDcs'[i] = toDcs[i]
    BY <1>1, <2>1, QueueGrows
  <2> HIDE DEF n
  <2>3. \A i \in DOMAIN toDcs : toDcs[i].task # t
    BY <1>2, <1>1 DEF Waiting
  <2>4. \A i \in DOMAIN toBot : toBot[i].task # t
    BY <1>2, <1>1 DEF Waiting
  <2>5. \A i \in DOMAIN toDcs' : toDcs'[i].task # Nil => toDcs'[i].task \in Task /\ Awaits(task'[toDcs'[i].task])
    BY <1>2, <2>1, <2>2 DEF Waiting
  <2>6. \A i \in DOMAIN toBot : toBot[i].task # Nil => toBot[i].task \in Task /\ Awaits(task'[toBot[i].task])
    BY <1>2 DEF Waiting
  <2>7. \A i, j \in DOMAIN toDcs' : toDcs'[i].task = toDcs'[j].task /\ toDcs'[i].task # Nil => i = j
    BY <2>1, <2>2, <2>3 DEF Waiting
  <2>8. \A i \in DOMAIN toDcs', j \in DOMAIN toBot :
          toDcs'[i].task = toBot[j].task => toDcs'[i].task = Nil
    BY <2>1, <2>2, <2>4 DEF Waiting
  <2> QED  BY <2>1, <2>5, <2>6, <2>7, <2>8 DEF Waiting
<1> QED  BY <1>3, <1>4 DEF Goes

LEMMA WaitingTimesOut ==
    ASSUME Known, Waiting, NEW t \in Task, TimesOut(t)
    PROVE  Waiting'
<1>1. toDcs \in Seq(Asked) /\ t # Nil /\ UNCHANGED <<toBot, status>>
  BY MissionAssumption DEF Known, TimesOut, dcsVars
<1>2. \A u \in Task \ {t} : task'[u] = task[u]
  BY BecomesTypes DEF TimesOut, Ends
<1>3. /\ DOMAIN toDcs' = DOMAIN toDcs
      /\ \A i \in DOMAIN toDcs : toDcs'[i].task = IF toDcs[i].task = t THEN Nil ELSE toDcs[i].task
  <2>1. /\ DOMAIN toDcs' = DOMAIN toDcs
        /\ \A i \in DOMAIN toDcs : toDcs'[i] = IF toDcs[i].task = t THEN [toDcs[i] EXCEPT !.task = Nil]
                                               ELSE toDcs[i]
    BY DEF TimesOut, Nobody
  <2>2. \A i \in DOMAIN toDcs : [toDcs[i] EXCEPT !.task = Nil].task = Nil
    BY <1>1 DEF Asked, Request
  <2> QED  BY <2>1, <2>2
<1>4. \A i \in DOMAIN toBot : toBot[i].task # t
  BY DEF TimesOut
<1>5. \A u \in Task : Awaits(task[u]) /\ u # t => Awaits(task'[u])
  BY <1>2
<1>6. \A i \in DOMAIN toDcs' : toDcs'[i].task # Nil => toDcs'[i].task \in Task /\ Awaits(task'[toDcs'[i].task])
  BY <1>3, <1>5 DEF Waiting
<1>7. \A i \in DOMAIN toBot : toBot[i].task # Nil => toBot[i].task \in Task /\ Awaits(task'[toBot[i].task])
  BY <1>4, <1>5 DEF Waiting
<1>8. /\ \A i, j \in DOMAIN toDcs' : toDcs'[i].task = toDcs'[j].task /\ toDcs'[i].task # Nil => i = j
      /\ \A i \in DOMAIN toDcs', j \in DOMAIN toBot :
            toDcs'[i].task = toBot[j].task => toDcs'[i].task = Nil
  BY <1>1, <1>3 DEF Waiting
<1>9. status' = "SHUTDOWN" => toDcs' = <<>> /\ toBot' = <<>>
  BY <1>1, NobodyEmpty DEF Waiting, TimesOut
<1> QED  BY <1>1, <1>6, <1>7, <1>8, <1>9 DEF Waiting

\* DCS takes a command, and answers it or not.
LEMMA WaitingDcs ==
    ASSUME Known, Waiting, toDcs # <<>>, toDcs' = Tail(toDcs), UNCHANGED task, status' # "SHUTDOWN",
           \/ toBot' = toBot
           \/ \E a \in Answer : toBot' = Append(toBot, a) /\ a.task = Head(toDcs).task
    PROVE  Waiting'
<1> DEFINE h == Head(toDcs).task
<1>1. /\ h = toDcs[1].task /\ 1 \in DOMAIN toDcs
      /\ \A i \in DOMAIN toDcs' : i \in Nat /\ i + 1 \in DOMAIN toDcs /\ toDcs'[i] = toDcs[i + 1]
  BY HeadIs
<1>2. \A i \in DOMAIN toDcs' : toDcs'[i].task = h => h = Nil
  BY <1>1 DEF Waiting
<1>3. \A u : Awaits(task[u]) => Awaits(task'[u])
  OBVIOUS
<1>4. /\ \A i \in DOMAIN toDcs' : toDcs'[i].task # Nil => toDcs'[i].task \in Task /\ Awaits(task'[toDcs'[i].task])
      /\ \A i, j \in DOMAIN toDcs' : toDcs'[i].task = toDcs'[j].task /\ toDcs'[i].task # Nil => i = j
  BY <1>1, <1>3 DEF Waiting
<1>5. \A i \in DOMAIN toDcs', j \in DOMAIN toBot : toDcs'[i].task = toBot[j].task => toDcs'[i].task = Nil
  BY <1>1 DEF Waiting
<1>6. CASE toBot' = toBot
  BY <1>3, <1>4, <1>5, <1>6 DEF Waiting
<1>7. CASE \E a \in Answer : toBot' = Append(toBot, a) /\ a.task = h
  <2>1. PICK a \in Answer : toBot' = Append(toBot, a) /\ a.task = h
    BY <1>7
  <2> DEFINE n == Len(toBot) + 1
  <2>2. /\ DOMAIN toBot' = DOMAIN toBot \cup {n} /\ toBot'[n] = a /\ n \notin DOMAIN toBot
        /\ \A i \in DOMAIN toBot : toBot'[i] = toBot[i]
    <3>1. toBot \in Seq(Answer) /\ a \in Answer /\ toBot' = Append(toBot, a)
      BY <2>1 DEF Known
    <3> QED  BY ONLY <3>1, QueueGrows DEF n
  <2>3. h # Nil => h \in Task /\ Awaits(task'[h]) /\ \A j \in DOMAIN toBot : toBot[j].task # h
    BY <1>1, <1>3 DEF Waiting
  <2> HIDE DEF n, h
  <2>4. \A i \in DOMAIN toBot' : toBot'[i].task # Nil => toBot'[i].task \in Task /\ Awaits(task'[toBot'[i].task])
    BY <1>3, <2>1, <2>2, <2>3 DEF Waiting
  <2>5. \A i, j \in DOMAIN toBot' : toBot'[i].task = toBot'[j].task /\ toBot'[i].task # Nil => i = j
    BY <2>1, <2>2, <2>3 DEF Waiting
  <2>6. \A i \in DOMAIN toDcs', j \in DOMAIN toBot' : toDcs'[i].task = toBot'[j].task => toDcs'[i].task = Nil
    BY <1>2, <1>5, <2>1, <2>2, <2>3
  <2> QED  BY <1>4, <2>4, <2>5, <2>6 DEF Waiting
<1> QED  BY <1>6, <1>7

LEMMA WaitingAnswered ==
    ASSUME Known, Waiting, Answered
    PROVE  Waiting'
<1> DEFINE h == Head(toBot).task
<1>1. /\ toBot # <<>> /\ h = toBot[1].task /\ 1 \in DOMAIN toBot /\ UNCHANGED <<toDcs, status>>
      /\ \A i \in DOMAIN toBot' : i \in Nat /\ i + 1 \in DOMAIN toBot /\ toBot'[i] = toBot[i + 1]
  BY FirstAnswer DEF Answered, dcsVars
<1>2. /\ \A i \in DOMAIN toBot' : toBot'[i].task = h => h = Nil
      /\ \A i \in DOMAIN toDcs : toDcs[i].task = h => h = Nil
  <2> HIDE DEF h
  <2>1. \A i \in DOMAIN toDcs : toDcs[i].task = h => h = Nil
    BY <1>1 DEF Waiting
  <2>2. ASSUME NEW i \in DOMAIN toBot', toBot'[i].task = h, h # Nil
        PROVE  FALSE
    <3>1. i + 1 = 1
      BY <1>1, <2>2 DEF Waiting
    <3>2. i \in Nat /\ i # 0
      BY <1>1, FirstAnswer DEF Answered
    <3> QED  BY <3>1, <3>2
  <2> QED  BY <2>1, <2>2
<1>3. \A u \in Task : u # h => task'[u] = task[u]
  <2>1. CASE h = Nil
    BY <2>1 DEF Answered
  <2>2. CASE h # Nil /\ Becomes(h, [task[h] EXCEPT !.pc = "start", !.read = list])
    BY <2>2 DEF Becomes, Known
  <2>3. CASE h # Nil /\ Ends(h)
    BY <2>3 DEF Becomes, Ends, Known
  <2> QED  BY <2>1, <2>2, <2>3 DEF Answered
<1> HIDE DEF h
<1>4. \A u \in Task : Awaits(task[u]) /\ u # h => Awaits(task'[u])
  BY <1>3
<1>5. /\ \A i \in DOMAIN toDcs : toDcs[i].task # Nil => toDcs[i].task \in Task /\ Awaits(task'[toDcs[i].task])
  BY <1>2, <1>4 DEF Waiting
<1>6. \A i \in DOMAIN toBot' : toBot'[i].task # Nil => toBot'[i].task \in Task /\ Awaits(task'[toBot'[i].task])
  BY <1>1, <1>2, <1>4 DEF Waiting
<1>7. /\ \A i, j \in DOMAIN toBot' : toBot'[i].task = toBot'[j].task /\ toBot'[i].task # Nil => i = j
      /\ \A i \in DOMAIN toDcs, j \in DOMAIN toBot' : toDcs[i].task = toBot'[j].task => toDcs[i].task = Nil
  BY <1>1 DEF Waiting
<1> QED  BY <1>1, <1>5, <1>6, <1>7 DEF Waiting

LEMMA SavesTypes ==
    ASSUME Known, toDcs # <<>>, NEW s \in Seq(Path), Saves(s)
    PROVE  dcs' \in Seq(Path) /\ list' \in Seq(Path) /\ toBot' \in Seq(Answer)
<1>1. [task |-> Head(toDcs).task, list |-> s, ok |-> TRUE] \in Answer
  BY HeadIs DEF Answer
<1> QED  BY <1>1 DEF Saves, Known

\* DCS takes a command.
LEMMA DcsTypes ==
    ASSUME Known, Dcs
    PROVE  Known'
<1>1. toDcs # <<>> /\ status = "RUNNING" /\ dcs \in Seq(Path) /\ toDcs' = Tail(toDcs)
  BY DEF Dcs, LuaAdd, LuaDelete, LuaReplace, LuaList, LuaStart, Takes, Online, Known
<1>2. toDcs' \in Seq(Asked)
  BY <1>1, HeadIs
<1>3. CASE LuaAdd
  <2>1. Head(toDcs).path \in Path
    BY <1>1, <1>3, HeadIs DEF LuaAdd, Takes
  <2>2. Append(dcs, Head(toDcs).path) \in Seq(Path)
    BY <1>1, <2>1
  <2>3. dcs' \in Seq(Path) /\ list' \in Seq(Path) /\ toBot' \in Seq(Answer)
    BY <1>1, <1>3, <2>2, SavesTypes DEF LuaAdd, Known
  <2> QED  BY <1>2, <1>3, <2>3 DEF Known, LuaAdd, fileVars
<1>4. CASE LuaDelete
  <2>1. (IF Head(toDcs).idx \in DOMAIN dcs THEN RemoveAt(dcs, Head(toDcs).idx) ELSE dcs) \in Seq(Path)
    BY <1>1, RemoveIs
  <2>2. dcs' \in Seq(Path) /\ list' \in Seq(Path) /\ toBot' \in Seq(Answer)
    BY <1>1, <1>4, <2>1, SavesTypes DEF LuaDelete
  <2> QED  BY <1>2, <1>4, <2>2 DEF Known, LuaDelete, fileVars
<1>5. CASE LuaReplace
  <2> DEFINE i == Head(toDcs).idx
             p == Head(toDcs).path
             s == IF i \in DOMAIN dcs THEN [dcs EXCEPT ![i] = p] ELSE Append(dcs, p)
  <2>1. p \in Path /\ i \in Nat
    BY <1>1, <1>5, HeadIs DEF LuaReplace, Takes
  <2>2. s \in Seq(Path)
    BY <1>1, <2>1, ExceptIs, AppendIs
  <2>3. Saves(s)
    BY <1>5 DEF LuaReplace
  <2> HIDE DEF s
  <2>4. dcs' \in Seq(Path) /\ list' \in Seq(Path) /\ toBot' \in Seq(Answer)
    BY <1>1, <2>2, <2>3, SavesTypes
  <2> QED  BY <1>2, <1>5, <2>4 DEF Known, LuaReplace, fileVars
<1>6. CASE LuaList
  <2>1. [task |-> Head(toDcs).task, list |-> dcs, ok |-> TRUE] \in Answer
    BY <1>1, HeadIs DEF Answer
  <2> QED  BY <1>2, <1>6, <2>1 DEF Known, LuaList, fileVars, dcsVars
<1>7. CASE LuaStart
  <2> DEFINE ok == Head(toDcs).idx = 0 \/ Head(toDcs).idx \in DOMAIN dcs
  <2>1. [task |-> Head(toDcs).task, list |-> <<>>, ok |-> ok] \in Answer
    BY <1>1, HeadIs DEF Answer
  <2>2. toBot' \in Seq(Answer)
    BY <1>7, <2>1 DEF LuaStart, Known
  <2>3. status' \in {"SHUTDOWN", "LOADING", "RUNNING"} /\ running' \in Path \cup {Nil}
    <3>1. Head(toDcs).path \in Path
      BY <1>1, <1>7, HeadIs DEF LuaStart, Takes
    <3> QED  BY <1>1, <1>7, <3>1 DEF LuaStart, Known
  <2> QED  BY <1>2, <1>7, <2>2, <2>3 DEF Known, LuaStart, fileVars
<1> QED  BY <1>3, <1>4, <1>5, <1>6, <1>7 DEF Dcs

LEMMA DcsAnswers ==
    ASSUME Known, Dcs
    PROVE  \/ toBot' = toBot
           \/ \E a \in Answer : toBot' = Append(toBot, a) /\ a.task = Head(toDcs).task
<1>1. toDcs # <<>>
  BY DEF Dcs, LuaAdd, LuaDelete, LuaReplace, LuaList, LuaStart, Takes
<1> DEFINE h == Head(toDcs).task
<1>2. \A s \in Seq(Path), ok \in BOOLEAN :
        /\ [task |-> h, list |-> s, ok |-> ok] \in Answer /\ [task |-> h, list |-> s, ok |-> ok].task = h
  BY <1>1, HeadIs DEF Answer
<1>3. ASSUME NEW s, Saves(s), Known' PROVE \E a \in Answer : toBot' = Append(toBot, a) /\ a.task = h
  <2>1. s \in Seq(Path)
    BY <1>3 DEF Saves, Known
  <2> QED  BY <1>2, <1>3, <2>1 DEF Saves
<1>4. CASE LuaAdd
  BY <1>3, <1>4, DcsTypes DEF LuaAdd
<1>5. CASE LuaDelete
  BY <1>3, <1>5, DcsTypes DEF LuaDelete
<1>6. CASE LuaReplace
  BY <1>3, <1>6, DcsTypes DEF LuaReplace
<1>7. CASE LuaList
  BY <1>2, <1>7 DEF LuaList, Known
<1>8. CASE LuaStart
  <2>1. <<>> \in Seq(Path)
    OBVIOUS
  <2> QED  BY <1>2, <1>8, <2>1 DEF LuaStart
<1> QED  BY <1>4, <1>5, <1>6, <1>7, <1>8 DEF Dcs

LEMMA AnsweredTypes ==
    ASSUME Known, Waiting, Answered
    PROVE  Known'
<1>1. toBot # <<>> /\ toBot' = Tail(toBot) /\ toBot' \in Seq(Answer)
  BY FirstAnswer DEF Answered
<1> DEFINE t == Head(toBot).task
<1>2. TasksOK' /\ list' \in Seq(Path)
  <2>1. CASE t = Nil
    BY <2>1 DEF Answered, TasksOK, Known
  <2>2. CASE t # Nil /\ Becomes(t, [task[t] EXCEPT !.pc = "start", !.read = list]) /\ UNCHANGED list
    <3>1. t \in Task /\ task[t] # Nil
      BY <1>1, <2>2, FirstAnswer DEF Waiting, Awaits
    <3>2. [task[t] EXCEPT !.pc = "start", !.read = list] \in Framed
      BY <3>1, NextRead, FrameOf DEF Known
    <3> QED  BY <2>2, <3>1, <3>2, BecomesTypes DEF Known
  <2>3. CASE t # Nil /\ Ends(t) /\ list' \in {list, Head(toBot).list}
    BY <1>1, <2>3, FirstAnswer, BecomesTypes DEF Ends, Known
  <2> QED  BY <2>1, <2>2, <2>3 DEF Answered
<1> QED  BY <1>1, <1>2 DEF Answered, Known, TasksOK, dcsVars, fileVars

LEMMA StartupTypes ==
    ASSUME Known, Startup
    PROVE  Known'
<1>1. list' \in Seq(Path) /\ Range(list') \subseteq Path
  <2>1. list' \in Seq(Path)
    BY WithFileIs DEF Startup, Known
  <2> QED  BY <2>1 DEF Range
<1> QED  BY <1>1 DEF Startup, Known, fileVars

LEMMA ShutdownTypes ==
    ASSUME Known, Shutdown
    PROVE  Known'
<1>1. stops' \in 0..MaxStops
  BY MissionAssumption DEF Shutdown, Known
<1> QED  BY <1>1 DEF Shutdown, Known, fileVars

LEMMA ListTypesKept ==
    ASSUME Known, Waiting, [ListNext]_listVars
    PROVE  Known' /\ Waiting'
<1>1. CASE UNCHANGED listVars
  BY <1>1 DEF Known, Waiting, listVars
<1>2. CASE Dcs
  <2>1. toDcs # <<>> /\ toDcs' = Tail(toDcs) /\ UNCHANGED task /\ status' # "SHUTDOWN"
    BY <1>2 DEF Dcs, LuaAdd, LuaDelete, LuaReplace, LuaList, LuaStart, Takes, Online, dcsVars
  <2>2. \/ toBot' = toBot
        \/ \E a \in Answer : toBot' = Append(toBot, a) /\ a.task = Head(toDcs).task
    BY <1>2, DcsAnswers
  <2> QED  BY <1>2, <2>1, <2>2, DcsTypes, WaitingDcs
<1>3. CASE Answered
  BY <1>3, AnsweredTypes, WaitingAnswered
<1>4. CASE Startup
  BY <1>4, StartupTypes DEF Startup, Waiting
<1>5. CASE Shutdown
  BY <1>5, ShutdownTypes DEF Shutdown, Waiting
<1>6. ASSUME NEW t \in Task, Steps(t)
      PROVE  Known' /\ Waiting'
  BY <1>6, StepsTypes, WaitingGoes, WaitingTimesOut
<1>7. ASSUME NEW t \in Task, Orders(t)
      PROVE  Known' /\ Waiting'
  <2>1. CASE Goes(t) /\ task[t] = Nil
    BY <1>7, <2>1, OrdersTypes, WaitingGoes DEF Awaits
  <2>2. CASE UNCHANGED <<task, toDcs>>
    BY <1>7, <2>2, OrdersTypes DEF Waiting
  <2> QED  BY <1>7, <2>1, <2>2, OrdersTypes
<1> QED  BY <1>1, <1>2, <1>3, <1>4, <1>5, <1>6, <1>7 DEF ListNext

\* Every variable of the mission list has its type: whatever coroutines and DCS do,
\* a list of missions holds paths only, and a load keeps an index of DCS, from one.
THEOREM ListTyped == ListSpec => []ListTypeOK
<1>1. ListInit => Known /\ Waiting
  BY ListInitTypes DEF ListInit, Waiting
<1>2. Known /\ Waiting /\ [ListNext]_listVars => (Known /\ Waiting)'
  BY ListTypesKept
<1>3. Known => ListTypeOK
  BY KnownIsTyped
<1> QED  BY <1>1, <1>2, <1>3, PTL DEF ListSpec

-----------------------------------------------------------------------------
(* Lists that agree.                                                       *)

LEMMA SameIs ==
    ASSUME NEW s, NEW b, NEW c, PartOf(s, b)
    PROVE  /\ PartOf(s, s)
           /\ PartOf(b, c) => PartOf(s, c)
           /\ Listed(s) \subseteq Listed(b)
           /\ \A i, n : Named(s, i, n) => Named(b, i, n)
           /\ NoTwice(b) => NoTwice(s)
<1>1. \A i, n : Named(s, i, n) => Named(b, i, n)
  BY DEF PartOf, Named
<1>2. PartOf(s, s)
  BY DEF PartOf, Named
<1>3. PartOf(b, c) => PartOf(s, c)
  BY DEF PartOf, Named
<1>4. Listed(s) \subseteq Listed(b)
  BY DEF PartOf, Named, Listed
<1>5. NoTwice(b) => NoTwice(s)
  BY DEF PartOf, Named, NoTwice
<1> QED  BY <1>1, <1>2, <1>3, <1>4, <1>5

LEMMA SameRefl ==
    ASSUME NEW s
    PROVE  Same(s, s)
BY DEF Same, PartOf, Named

LEMMA SameListed ==
    ASSUME NEW s, NEW b, Same(s, b)
    PROVE  Listed(s) = Listed(b)
BY SameIs DEF Same

LEMMA NamedListed ==
    ASSUME NEW s, NEW i, NEW n, Named(s, i, n)
    PROVE  n \in Listed(s)
BY DEF Named, Listed

\* A coroutine keeps what fits a list when the list grows.
LEMMA FrameKept ==
    ASSUME NEW c, NEW b, NEW d, PartOf(b, d), FrameOK(c, b)
    PROVE  FrameOK(c, d)
<1>1. \A i, n : Named(b, i, n) => Named(d, i, n)
  BY SameIs
<1>2. PartOf(c.read, b) => PartOf(c.read, d)
  BY SameIs
<1> QED  BY <1>1, <1>2 DEF FrameOK

LEMMA ApartKept ==
    ASSUME NEW c, NEW d, NEW b, NEW e, Listed(e) \subseteq Listed(b), Apart(c, d, b)
    PROVE  Apart(c, d, e)
BY DEF Apart

LEMMA ViewKept ==
    ASSUME NEW s, NEW r, NEW b, NEW e, Same(s, r), Same(b, e), NEW k, NEW q, NEW f, NEW g,
           \A j \in DOMAIN q : f[q[j].task] = g[q[j].task],
           View(s, k, q, f, b)
    PROVE  View(r, k, q, g, e)
<1>1. \A n : Adds(q, f, k, n) => Adds(q, g, k, n)
  BY DEF Adds
<1>2. /\ DOMAIN s = DOMAIN r /\ \A i \in DOMAIN s : s[i][1] = r[i][1]
      /\ DOMAIN b = DOMAIN e /\ \A i \in DOMAIN b : b[i][1] = e[i][1]
  BY DEF Same, PartOf, Named
<1>3. CASE UpToAdds(s, k, q, f, b)
  <2>1. UpToAdds(r, k, q, g, e)
    BY <1>1, <1>2, <1>3 DEF UpToAdds, PartOf, Named
  <2> QED  BY <2>1 DEF View
<1>4. ASSUME NEW d \in DOMAIN q, d > k, f[q[d].task].kind = "delete",
             BeforeDelete(s, k, f[q[d].task].idx, f[q[d].task].name, q, f, b)
      PROVE  View(r, k, q, g, e)
  <2>1. BeforeDelete(r, k, g[q[d].task].idx, g[q[d].task].name, q, g, e)
    BY <1>1, <1>2, <1>4 DEF BeforeDelete, Named
  <2> QED  BY <1>4, <2>1 DEF View
<1> QED  BY <1>3, <1>4 DEF View

\* One answer more.
LEMMA ViewAppend ==
    ASSUME NEW s, NEW b, NEW k, NEW q \in Seq(Answer), NEW a \in Answer, NEW f, View(s, k, q, f, b)
    PROVE  View(s, k, Append(q, a), f, b)
<1> DEFINE p == Append(q, a)
<1>1. \A j \in DOMAIN q : j \in DOMAIN p /\ p[j] = q[j]
  BY QueueGrows
<1> HIDE DEF p
<1>2. \A n : Adds(q, f, k, n) => Adds(p, f, k, n)
  BY <1>1 DEF Adds
<1>3. CASE UpToAdds(s, k, q, f, b)
  BY <1>2, <1>3 DEF UpToAdds, View, p
<1>4. ASSUME NEW d \in DOMAIN q, d > k, f[q[d].task].kind = "delete",
             BeforeDelete(s, k, f[q[d].task].idx, f[q[d].task].name, q, f, b)
      PROVE  View(s, k, p, f, b)
  <2>1. BeforeDelete(s, k, f[p[d].task].idx, f[p[d].task].name, p, f, b)
    BY <1>1, <1>2, <1>4 DEF BeforeDelete
  <2> QED  BY <1>1, <1>4, <2>1 DEF View
<1> QED  BY <1>3, <1>4 DEF View, p

\* The first answer has arrived, or was not about the list.
LEMMA ViewTail ==
    ASSUME NEW s, NEW b, NEW k \in Nat, NEW m \in Nat, NEW q \in Seq(Answer), q # <<>>, NEW f, NEW g,
           \A j \in DOMAIN Tail(q) : f[Tail(q)[j].task] = g[Tail(q)[j].task],
           View(s, m, q, f, b),
           m = k + 1 \/ (m = 0 /\ k = 0 /\ f[q[1].task].kind \notin {"add", "delete"})
    PROVE  View(s, k, Tail(q), g, b)
<1> DEFINE p == Tail(q)
<1>1. \A j \in DOMAIN q : j \in Nat /\ (j > 1 => j - 1 \in DOMAIN p /\ p[j - 1] = q[j])
  OBVIOUS
<1>2. ASSUME NEW j \in DOMAIN q, j > m, f[q[j].task].kind \in {"add", "delete"}
      PROVE  /\ j - 1 \in DOMAIN p /\ j - 1 > k /\ p[j - 1] = q[j]
             /\ g[p[j - 1].task] = f[q[j].task]
  <2>1. j > 1
    BY <1>1, <1>2
  <2>2. j - 1 \in DOMAIN p /\ p[j - 1] = q[j]
    BY <1>1, <2>1
  <2>3. j - 1 > k
    <3>1. CASE m = k + 1
      BY <1>1, <1>2, <3>1
    <3>2. CASE k = 0
      BY <1>1, <2>1, <3>2
    <3> QED  BY <3>1, <3>2
  <2> QED  BY <2>2, <2>3
<1> HIDE DEF p
<1>3. \A n : Adds(q, f, m, n) => Adds(p, g, k, n)
  BY <1>2 DEF Adds
<1>4. CASE UpToAdds(s, m, q, f, b)
  BY <1>3, <1>4 DEF UpToAdds, View, p
<1>5. ASSUME NEW d \in DOMAIN q, d > m, f[q[d].task].kind = "delete",
             BeforeDelete(s, m, f[q[d].task].idx, f[q[d].task].name, q, f, b)
      PROVE  View(s, k, p, g, b)
  <2>1. d - 1 \in DOMAIN p /\ d - 1 > k /\ g[p[d - 1].task] = f[q[d].task]
    BY <1>2, <1>5
  <2>2. BeforeDelete(s, k, g[p[d - 1].task].idx, g[p[d - 1].task].name, p, g, b)
    BY <1>3, <1>5, <2>1 DEF BeforeDelete
  <2> QED  BY <1>5, <2>1, <2>2 DEF View
<1> QED  BY <1>4, <1>5 DEF View, p

\* DCS adds a mission to its list b: those who saw b see it one answer later.
LEMMA ViewAdds ==
    ASSUME NEW s, NEW b \in Seq(Path), NEW p \in Path, NEW q \in Seq(Answer), NEW a \in Answer,
           NEW k \in Nat, k <= Len(q), NEW f, f[a.task].kind = "add", f[a.task].name = p[1],
           View(s, k, q, f, b)
    PROVE  View(s, k, Append(q, a), f, Append(b, p))
<1> DEFINE r == Append(q, a)
           e == Append(b, p)
<1>1. /\ Len(q) + 1 \in DOMAIN r /\ r[Len(q) + 1] = a /\ Len(q) + 1 > k
      /\ \A j \in DOMAIN q : j \in DOMAIN r /\ r[j] = q[j]
  BY QueueGrows
<1>2. /\ DOMAIN e = DOMAIN b \cup {Len(b) + 1} /\ e[Len(b) + 1] = p
      /\ \A j \in DOMAIN b : e[j] = b[j]
  BY QueueGrows
<1> HIDE DEF r, e
<1>3. \A n : Adds(q, f, k, n) => Adds(r, f, k, n)
  BY <1>1 DEF Adds
<1>4. Adds(r, f, k, p[1])
  BY <1>1 DEF Adds
<1>5. \A i, n : Named(b, i, n) => Named(e, i, n)
  BY <1>2 DEF Named
<1>6. CASE UpToAdds(s, k, q, f, b)
  <2>1. UpToAdds(s, k, r, f, e)
    BY <1>2, <1>3, <1>4, <1>5, <1>6 DEF UpToAdds, PartOf
  <2> QED  BY <2>1 DEF View, r, e
<1>7. ASSUME NEW d \in DOMAIN q, d > k, f[q[d].task].kind = "delete",
             BeforeDelete(s, k, f[q[d].task].idx, f[q[d].task].name, q, f, b)
      PROVE  View(s, k, r, f, e)
  <2>1. BeforeDelete(s, k, f[r[d].task].idx, f[r[d].task].name, r, f, e)
    BY <1>1, <1>2, <1>3, <1>4, <1>5, <1>7 DEF BeforeDelete
  <2> QED  BY <1>1, <1>7, <2>1 DEF View
<1> QED  BY <1>6, <1>7 DEF View, r, e

\* DCS deletes the mission at x from its list b.
LEMMA ViewDeletes ==
    ASSUME NEW s \in Seq(Path), NEW b \in Seq(Path), NEW x \in DOMAIN b, NEW n, b[x][1] = n,
           NEW q \in Seq(Answer), NEW a \in Answer, NEW k \in Nat, k <= Len(q), NEW f,
           f[a.task].kind = "delete", f[a.task].idx = x, f[a.task].name = n,
           \A j \in DOMAIN q : f[q[j].task].kind # "delete"
                               /\ (f[q[j].task].kind = "add" => f[q[j].task].name # n),
           View(s, k, q, f, b)
    PROVE  View(s, k, Append(q, a), f, RemoveAt(b, x))
<1> DEFINE r == Append(q, a)
           e == RemoveAt(b, x)
           d == Len(q) + 1
<1>1. /\ d \in DOMAIN r /\ r[d] = a /\ d > k
      /\ \A j \in DOMAIN q : j \in DOMAIN r /\ r[j] = q[j]
  BY QueueGrows
<1>2. /\ x \in 1..Len(b) /\ Len(b) \in Nat /\ DOMAIN b = 1..Len(b) /\ DOMAIN s = 1..Len(s) /\ Len(s) \in Nat
  OBVIOUS
<1>3. /\ DOMAIN e = 1..(Len(b) - 1)
      /\ \A j \in 1..(Len(b) - 1) : e[j] = IF j < x THEN b[j] ELSE b[j + 1]
  BY RemoveIs
<1> HIDE DEF r, e, d
<1>4. \A m : Adds(q, f, k, m) => Adds(r, f, k, m)
  BY <1>1 DEF Adds
<1>5. UpToAdds(s, k, q, f, b)
  BY DEF View
<1>6. \A i \in DOMAIN s : i \in DOMAIN b /\ b[i][1] = s[i][1]
  BY <1>5 DEF UpToAdds, PartOf, Named
<1>7. ~Adds(q, f, k, n)
  BY DEF Adds
<1>8. x \in DOMAIN s
  BY <1>5, <1>7 DEF UpToAdds
<1>9. Named(s, x, n)
  BY <1>6, <1>8 DEF Named
<1>10. ASSUME NEW i \in DOMAIN s, i < x PROVE Named(e, i, s[i][1])
  <2>1. i \in 1..(Len(b) - 1) /\ e[i] = b[i]
    BY <1>2, <1>3, <1>6, <1>10
  <2> QED  BY <1>3, <1>6, <2>1 DEF Named
<1>11. ASSUME NEW i \in DOMAIN s, i > x PROVE Named(e, i - 1, s[i][1])
  <2>1. i - 1 \in 1..(Len(b) - 1) /\ ~(i - 1 < x) /\ (i - 1) + 1 = i
    BY <1>2, <1>6, <1>11
  <2>2. e[i - 1] = b[i]
    BY <1>3, <2>1
  <2> QED  BY <1>3, <1>6, <2>1, <2>2 DEF Named
<1>12. ASSUME NEW i \in DOMAIN e, i + 1 \notin DOMAIN s PROVE Adds(r, f, k, e[i][1])
  <2>1. i + 1 > x /\ i >= x /\ ~(i < x) /\ i + 1 \in DOMAIN b
    BY <1>2, <1>3, <1>8, <1>12
  <2>2. e[i] = b[i + 1]
    BY <1>3, <2>1
  <2> QED  BY <1>4, <1>5, <1>12, <2>1, <2>2 DEF UpToAdds
<1>13. BeforeDelete(s, k, f[r[d].task].idx, f[r[d].task].name, r, f, e)
  BY <1>1, <1>9, <1>10, <1>11, <1>12 DEF BeforeDelete
<1> QED  BY <1>1, <1>13 DEF View, r, e

\* A mission nobody adds or deletes is listed in both or in none.
LEMMA ViewListed ==
    ASSUME NEW s \in Seq(Path), NEW b \in Seq(Path), NEW q, NEW f, NEW k, NEW n, View(s, k, q, f, b),
           \A j \in DOMAIN q : f[q[j].task].kind \in {"add", "delete"} => f[q[j].task].name # n,
           \A j \in DOMAIN q : f[q[j].task].idx \in Nat
    PROVE  n \in Listed(s) <=> n \in Listed(b)
<1>1. /\ Len(b) \in Nat /\ DOMAIN b = 1..Len(b) /\ DOMAIN s = 1..Len(s) /\ Len(s) \in Nat
  OBVIOUS
<1>2. ~Adds(q, f, k, n)
  BY DEF Adds
<1>3. CASE UpToAdds(s, k, q, f, b)
  BY <1>2, <1>3 DEF UpToAdds, PartOf, Named, Listed
<1>4. ASSUME NEW d \in DOMAIN q, f[q[d].task].kind = "delete",
             NEW x, NEW m, x = f[q[d].task].idx, m = f[q[d].task].name,
             BeforeDelete(s, k, x, m, q, f, b)
      PROVE  n \in Listed(s) <=> n \in Listed(b)
  <2>1. x \in Nat /\ m # n /\ x \in DOMAIN s /\ s[x][1] = m
    BY <1>4 DEF BeforeDelete, Named
  <2>2. ASSUME NEW i \in DOMAIN s, s[i][1] = n PROVE n \in Listed(b)
    <3>1. i < x \/ i > x
      BY <1>1, <2>1, <2>2
    <3> QED  BY <1>4, <2>2, <3>1 DEF BeforeDelete, Named, Listed
  <2>3. ASSUME NEW i \in DOMAIN b, b[i][1] = n PROVE n \in Listed(s)
    <3>1. i + 1 \in DOMAIN s /\ i \in Nat \ {0}
      BY <1>1, <1>2, <1>4, <2>3 DEF BeforeDelete
    <3>2. CASE i < x
      <4>1. i \in DOMAIN s
        BY <1>1, <3>1
      <4> QED  BY <1>4, <2>3, <3>2, <4>1 DEF BeforeDelete, Named, Listed
    <3>3. CASE ~(i < x)
      <4>1. i + 1 > x /\ (i + 1) - 1 = i
        BY <2>1, <3>1, <3>3
      <4>2. Named(b, i, s[i + 1][1])
        BY <1>4, <3>1, <4>1 DEF BeforeDelete
      <4> QED  BY <2>3, <3>1, <4>2 DEF Named, Listed
    <3> QED  BY <3>2, <3>3
  <2> QED  BY <2>2, <2>3 DEF Listed
<1> QED  BY <1>3, <1>4 DEF View

\* What there is to see when nobody deletes, and when nobody waits.
LEMMA ViewStarts ==
    ASSUME NEW s, NEW b, NEW q, NEW f, NEW k, View(s, k, q, f, b),
           \A j \in DOMAIN q : f[q[j].task].kind # "delete"
    PROVE  PartOf(s, b)
BY DEF View, UpToAdds

LEMMA ViewSame ==
    ASSUME NEW s, NEW b, NEW f, NEW k, View(s, k, <<>>, f, b)
    PROVE  Same(s, b)
<1>1. UpToAdds(s, k, <<>>, f, b) /\ \A n : ~Adds(<<>>, f, k, n)
  BY DEF View, Adds
<1>2. \A i \in DOMAIN b : i \in DOMAIN s
  BY <1>1 DEF UpToAdds
<1>3. \A i \in DOMAIN s : i \in DOMAIN b /\ b[i][1] = s[i][1]
  BY <1>1 DEF UpToAdds, PartOf, Named
<1> QED  BY <1>2, <1>3 DEF Same, PartOf, Named

LEMMA ViewOfIt ==
    ASSUME NEW s, NEW k, NEW q, NEW f
    PROVE  View(s, k, q, f, s)
BY SameRefl DEF View, UpToAdds, Same

-----------------------------------------------------------------------------
(* A coroutine takes a step, and no list changes its missions.             *)

LEMMA BaseType ==
    ASSUME Known
    PROVE  Base \in Seq(Path) /\ list \in Seq(Path) /\ dcs \in Seq(Path)
BY DEF Known, Base

Unmessaged(t) ==
    /\ \A i \in DOMAIN toDcs : toDcs[i].task # t
    /\ \A i \in DOMAIN toBot : toBot[i].task # t

LEMMA NoMessage ==
    ASSUME Known, Waiting, NEW t \in Task, ~Awaits(task[t])
    PROVE  Unmessaged(t)
<1>1. t # Nil
  BY MissionAssumption
<1> QED  BY <1>1 DEF Unmessaged, Waiting

LEMMA RequestKept ==
    ASSUME NEW r, NEW c, NEW d, NEW e, NEW w, NEW x, RequestOK(r, c, d, w), Same(d, e),
           c.kind \in {"add", "delete"} => (c.name \in w <=> c.name \in x)
    PROVE  RequestOK(r, c, e, x)
<1>1. Listed(d) = Listed(e) /\ \A i, n : Named(d, i, n) => Named(e, i, n)
  BY SameListed, SameIs DEF Same
<1> QED  BY <1>1 DEF RequestOK

LEMMA ReplyKept ==
    ASSUME NEW c, NEW d, NEW e, NEW w, NEW x, ReplyOK(c, d, w), Listed(d) = Listed(e),
           c.kind \in {"add", "delete"} => (c.name \in w <=> c.name \in x)
    PROVE  ReplyOK(c, e, x)
BY DEF ReplyOK

Fits(t) ==
    /\ \A u \in Task \ {t} : task'[u] = task[u]
    /\ UNCHANGED <<toBot, dcs>> /\ Same(Base, Base') /\ Same(list, list')
    /\ task'[t] # Nil =>
          /\ FrameOK(task'[t], Base')
          /\ \A u \in Task \ {t} : task[u] # Nil =>
                Apart(task'[t], task[u], Base) /\ Apart(task[u], task'[t], Base)

Sends(t) ==
    \/ toDcs' = toDcs
    \/ \E r \in Asked : /\ toDcs' = Append(toDcs, r) /\ r.task = t
                        /\ RequestOK(r, task'[t], dcs, wanted')

LEMMA QuietStep ==
    ASSUME Known, Waiting, Consistent, NEW t \in Task, Unmessaged(t), Fits(t), Sends(t),
           \A u \in Task \ {t} : task[u] # Nil /\ task[u].kind \in {"add", "delete"} =>
               (task[u].name \in wanted' <=> task[u].name \in wanted),
           \A n \in Name : Settled(n, toBot, task') => (n \in wanted' <=> n \in Listed(Base)),
           onEmpty' # Nil => onEmpty' = onEmpty /\ (task'[t] # Nil => task'[t].kind # "delete")
    PROVE  Consistent'
<1>1. /\ PartOf(Base, Base') /\ PartOf(Base', Base) /\ Listed(Base) = Listed(Base')
      /\ toBot' = toBot /\ dcs' = dcs /\ \A u \in Task \ {t} : task'[u] = task[u]
  BY SameListed DEF Fits, Same
<1>2. NoTwice(Base')
  BY <1>1, SameIs DEF Consistent
<1>3. Frames'
  <2>1. ASSUME NEW u \in Task, task'[u] # Nil PROVE FrameOK(task'[u], Base')
    <3>1. CASE u = t
      BY <2>1, <3>1 DEF Fits
    <3>2. CASE u # t
      <4>1. FrameOK(task[u], Base) /\ task'[u] = task[u]
        BY <1>1, <2>1, <3>2 DEF Consistent, Frames
      <4> QED  BY <1>1, <4>1, FrameKept
    <3> QED  BY <3>1, <3>2
  <2> QED  BY <2>1 DEF Frames
<1>4. \A u \in Task \ {t} : \A r : RequestOK(r, task[u], dcs, wanted) => RequestOK(r, task'[u], dcs, wanted')
  <2>1. \A u \in Task \ {t} : \A r : RequestOK(r, task[u], dcs, wanted) => task[u] # Nil
    BY DEF RequestOK
  <2> QED  BY <1>1, <2>1, RequestKept, SameRefl
<1>5. Requests'
  <2>1. \A i \in DOMAIN toDcs : toDcs[i].task \in Task \ {t}
                                /\ RequestOK(toDcs[i], task'[toDcs[i].task], dcs, wanted')
    BY <1>4 DEF Consistent, Requests, Unmessaged
  <2>2. CASE toDcs' = toDcs
    BY <1>1, <2>1, <2>2 DEF Requests
  <2>3. CASE \E r \in Asked : /\ toDcs' = Append(toDcs, r) /\ r.task = t
                              /\ RequestOK(r, task'[t], dcs, wanted')
    <3>1. PICK r \in Asked : /\ toDcs' = Append(toDcs, r) /\ r.task = t
                             /\ RequestOK(r, task'[t], dcs, wanted')
      BY <2>3
    <3> DEFINE n == Len(toDcs) + 1
    <3>2. /\ DOMAIN toDcs' = DOMAIN toDcs \cup {n} /\ toDcs'[n] = r
          /\ \A i \in DOMAIN toDcs : toDcs'[i] = toDcs[i]
      BY <3>1, QueueGrows DEF Known
    <3> HIDE DEF n
    <3> QED  BY <1>1, <2>1, <3>1, <3>2 DEF Requests
  <2> QED  BY <2>2, <2>3 DEF Sends
<1>6. Replies'
  <2>1. ASSUME NEW i \in DOMAIN toBot
        PROVE  toBot[i].task \in Task /\ ReplyOK(task'[toBot[i].task], dcs, wanted')
    <3> DEFINE u == toBot[i].task
    <3>1. u \in Task \ {t} /\ ReplyOK(task[u], dcs, wanted) /\ task'[u] = task[u]
      BY <1>1 DEF Consistent, Replies, Unmessaged
    <3> HIDE DEF u
    <3>2. task[u] # Nil
      BY <3>1 DEF ReplyOK
    <3> QED  BY <3>1, <3>2, ReplyKept DEF u
  <2> QED  BY <1>1, <2>1 DEF Replies
<1>7. Exclusive'
  <2>1. ASSUME NEW u \in Task, NEW v \in Task, u # v, task'[u] # Nil, task'[v] # Nil
        PROVE  Apart(task'[u], task'[v], Base)
    <3>1. CASE u # t /\ v # t
      BY <1>1, <2>1, <3>1 DEF Consistent, Exclusive
    <3>2. CASE u = t
      BY <1>1, <2>1, <3>2 DEF Fits
    <3>3. CASE v = t
      BY <1>1, <2>1, <3>3 DEF Fits
    <3> QED  BY <3>1, <3>2, <3>3
  <2>2. ASSUME NEW u \in Task, NEW v \in Task, u # v, task'[u] # Nil, task'[v] # Nil
        PROVE  Apart(task'[u], task'[v], Base')
    BY <1>1, <2>1, <2>2, ApartKept
  <2> QED  BY <2>2 DEF Exclusive
<1>8. Reserved'
  <2>1. \A i, n : Named(Base, i, n) => Named(Base', i, n)
    BY <1>1, SameIs
  <2> QED  BY <1>1, <2>1 DEF Consistent, Reserved
<1>9. Views'
  <2>1. \A j \in DOMAIN toBot : task[toBot[j].task] = task'[toBot[j].task]
    BY <1>1 DEF Consistent, Replies, Unmessaged
  <2>2. View(list', 0, toBot, task', Base')
    BY <2>1, ViewKept DEF Consistent, Views, Fits
  <2>3. ASSUME NEW k \in DOMAIN toBot,
               task'[toBot[k].task].kind \in {"add", "delete", "validate"}
        PROVE  View(toBot[k].list, k, toBot, task', Base')
    <3>1. View(toBot[k].list, k, toBot, task, Base)
      BY <2>1, <2>3 DEF Consistent, Views
    <3> DEFINE s == toBot[k].list
    <3>2. Same(s, s) /\ Same(Base, Base') /\ View(s, k, toBot, task, Base)
      BY <3>1, SameRefl DEF Fits
    <3> HIDE DEF s
    <3>3. View(s, k, toBot, task', Base')
      BY <2>1, <3>2, ViewKept
    <3> QED  BY <3>3 DEF s
  <2> QED  BY <1>1, <2>2, <2>3 DEF Views
<1>10. WantedOK'
  BY <1>1 DEF WantedOK
<1> QED  BY <1>2, <1>3, <1>5, <1>6, <1>7, <1>8, <1>9, <1>10 DEF Consistent

\* The same, when nobody wants anything else.
LEMMA PlainStep ==
    ASSUME Known, Waiting, Consistent, NEW t \in Task, ~Awaits(task[t]), Fits(t), Sends(t),
           UNCHANGED wanted,
           onEmpty' # Nil => onEmpty' = onEmpty /\ (task'[t] # Nil => task'[t].kind # "delete")
    PROVE  Consistent'
<1>1. Unmessaged(t)
  BY NoMessage
<1>2. \A u \in Task \ {t} : task'[u] = task[u]
  BY DEF Fits
<1>3. ASSUME NEW n \in Name, Settled(n, toBot, task') PROVE n \in wanted' <=> n \in Listed(Base)
  <2>1. ASSUME NEW u \in Task, task[u] # Nil, task[u].kind \in {"add", "delete"},
               task[u].pc = "answer", task[u].name = n
        PROVE  \E i \in DOMAIN toBot : toBot[i].task = u
    <3>1. u # t
      BY <2>1 DEF Awaits
    <3> QED  BY <1>2, <1>3, <2>1, <3>1 DEF Settled
  <2>2. Settled(n, toBot, task)
    BY <2>1 DEF Settled
  <2> QED  BY <2>2 DEF Consistent, WantedOK
<1> QED  BY <1>1, <1>3, QuietStep

-----------------------------------------------------------------------------
(* What the file says, compared with the list that counts.                 *)

LEMMA AnswersAre ==
    ASSUME Known, Waiting, Consistent, NEW j \in DOMAIN toBot
    PROVE  /\ toBot[j].task \in Task /\ task[toBot[j].task] # Nil /\ Awaits(task[toBot[j].task])
           /\ task[toBot[j].task].idx \in Nat
           /\ ReplyOK(task[toBot[j].task], dcs, wanted)
<1> DEFINE u == toBot[j].task
<1>1. u \in Task /\ ReplyOK(task[u], dcs, wanted)
  BY DEF Consistent, Replies
<1> HIDE DEF u
<1>2. task[u] # Nil /\ Awaits(task[u])
  BY <1>1 DEF ReplyOK, Awaits
<1>3. task[u].idx \in Nat
  BY <1>1, <1>2, FrameOf
<1> QED  BY <1>1, <1>2, <1>3 DEF u

LEMMA ListedSame ==
    ASSUME Known, Waiting, Consistent, NEW n,
           \A u \in Task : Awaits(task[u]) /\ task[u].kind \in {"add", "delete"} => task[u].name # n
    PROVE  n \in Listed(list) <=> n \in Listed(Base)
<1>1. View(list, 0, toBot, task, Base)
  BY DEF Consistent, Views
<1>2. \A j \in DOMAIN toBot : /\ task[toBot[j].task].idx \in Nat
                              /\ task[toBot[j].task].kind \in {"add", "delete"}
                                    => task[toBot[j].task].name # n
  BY AnswersAre
<1> QED  BY <1>1, <1>2, BaseType, ViewListed

LEMMA ListStarts ==
    ASSUME Known, Waiting, Consistent, \A u \in Task : task[u] # Nil => task[u].kind # "delete"
    PROVE  PartOf(list, Base)
<1>1. View(list, 0, toBot, task, Base)
  BY DEF Consistent, Views
<1>2. \A j \in DOMAIN toBot : task[toBot[j].task].kind # "delete"
  BY AnswersAre
<1> QED  BY <1>1, <1>2, ViewStarts

LEMMA ListSame ==
    ASSUME Known, Waiting, Consistent, toBot = <<>>
    PROVE  Same(list, Base)
<1>1. View(list, 0, <<>>, task, Base)
  BY DEF Consistent, Views
<1> QED  BY <1>1, ViewSame

\* What Calm rules out.
LEMMA CalmMeans ==
    ASSUME Calm
    PROVE  /\ "back" \notin MayHappen /\ "race" \notin MayHappen
           /\ "loading" \notin MayHappen /\ "timeout" \notin MayHappen
           /\ Patient => status # "LOADING"
           /\ Unindexed => /\ onEmpty = Nil
                           /\ \A t \in Task : task[t] # Nil =>
                                 /\ task[t].kind \notin {"delete", "replace", "load"}
                                 /\ task[t].kind = "add" => task[t].name \notin Listed(list)
           /\ \A n : Alone("delete", n) => Unindexed
           /\ \A n : Alone("add", n) =>
                 /\ \A t \in Task : task[t] # Nil => task[t].name # n
                 /\ n \in Listed(list) => \A t \in Task : task[t] # Nil => task[t].kind # "delete"
           /\ \A n, k : Alone(k, n) /\ k \notin {"delete", "add"} =>
                 toBot = <<>> /\ \A t \in Task : task[t] # Nil => task[t].kind # "delete"
<1>1. /\ "back" \notin MayHappen /\ "race" \notin MayHappen
      /\ "loading" \notin MayHappen /\ "timeout" \notin MayHappen
  BY DEF Calm
<1>2. Patient => status # "LOADING"
  BY <1>1 DEF Patient
<1>3. Unindexed => /\ onEmpty = Nil
                   /\ \A t \in Task : task[t] # Nil =>
                         /\ task[t].kind \notin {"delete", "replace", "load"}
                         /\ task[t].kind = "add" => task[t].name \notin Listed(list)
  BY <1>1 DEF Unindexed, Busy
<1>4. \A n : Alone("delete", n) => Unindexed
  BY <1>1 DEF Alone
<1>5. \A n : Alone("add", n) =>
                 /\ \A t \in Task : task[t] # Nil => task[t].name # n
                 /\ n \in Listed(list) => \A t \in Task : task[t] # Nil => task[t].kind # "delete"
  BY <1>1 DEF Alone, Busy
<1>6. \A n, k : Alone(k, n) /\ k \notin {"delete", "add"} =>
                 toBot = <<>> /\ \A t \in Task : task[t] # Nil => task[t].kind # "delete"
  BY <1>1 DEF Alone, Busy
<1> QED  BY <1>1, <1>2, <1>3, <1>4, <1>5, <1>6

\* What becomes of a coroutine, and what it sends.
LEMMA AskIs ==
    ASSUME Known, NEW t \in Task, NEW c, c \in Framed, NEW p \in Path \cup {Nil}, NEW i \in Nat,
           NEW cmd \in {"add", "delete", "replace", "start", "list"}, Ask(t, c, cmd, p, i),
           cmd \in {"add", "replace", "start"} => p \in Path
    PROVE  /\ task'[t] = c /\ \A u \in Task \ {t} : task'[u] = task[u]
           /\ \/ status = "SHUTDOWN" /\ toDcs' = toDcs
              \/ \E r \in Asked : /\ status # "SHUTDOWN" /\ toDcs' = Append(toDcs, r)
                                  /\ r.cmd = cmd /\ r.task = t /\ r.name = c.name /\ r.path = p /\ r.idx = i
<1>1. task'[t] = c /\ \A u \in Task \ {t} : task'[u] = task[u]
  BY BecomesTypes DEF Ask
<1> DEFINE r == [cmd |-> cmd, task |-> t, name |-> c.name, path |-> p, idx |-> i]
<1>2. /\ r \in Asked /\ r.cmd = cmd /\ r.task = t /\ r.name = c.name /\ r.path = p /\ r.idx = i
  BY DEF Framed, Coroutine, Request, Asked
<1>3. toDcs' = IF status = "SHUTDOWN" THEN toDcs ELSE Append(toDcs, r)
  BY DEF Ask
<1> HIDE DEF r
<1> QED  BY <1>1, <1>2, <1>3

LEMMA NotNil ==
    ASSUME NEW c \in Framed
    PROVE  c # Nil
BY MissionAssumption DEF Framed

\* A mission's path in the list is replaced by its other one.
LEMMA ReplaceFits ==
    ASSUME Known, Waiting, Consistent, NEW t \in Task, NEW i \in Nat, NEW p \in Path, NEW c \in Framed,
           \/ c.kind = "replace" /\ c.pc = "answer"
           \/ c.kind = "load" /\ c.pc = "replaced" /\ c.path[1] = c.name,
           Named(Base, i, p[1]), \A u \in Task : task[u] # Nil => task[u].kind # "delete",
           UNCHANGED <<toBot, dcs, status>>, ReplaceMission(t, i, p, c)
    PROVE  Fits(t) /\ Sends(t) /\ (task'[t] = Nil \/ task'[t].kind = c.kind)
<1>1. list \in Seq(Path) /\ dcs \in Seq(Path) /\ c # Nil /\ PartOf(list, Base)
  BY BaseType, NotNil, ListStarts
<1>2. \A d : d.kind = c.kind => \A u \in Task \ {t} : task[u] # Nil =>
                                    Apart(d, task[u], Base) /\ Apart(task[u], d, Base)
  BY DEF Apart
<1>3. CASE Online
  <2>1. Ask(t, c, "replace", p, i) /\ list' = list /\ Base = dcs /\ Base' = Base
    BY <1>3 DEF ReplaceMission, Online, Base
  <2>2. task'[t] = c /\ \A u \in Task \ {t} : task'[u] = task[u]
    BY <2>1, AskIs
  <2>3. FrameOK(c, Base)
    BY DEF FrameOK
  <2>4. Fits(t)
    BY <1>2, <2>1, <2>2, <2>3, SameRefl DEF Fits
  <2>5. \A r : r.cmd = "replace" /\ r.name = c.name /\ r.path = p /\ r.idx = i
                  => RequestOK(r, c, dcs, wanted')
    BY <1>1, <2>1 DEF RequestOK
  <2>6. Sends(t)
    BY <2>1, <2>2, <2>5, AskIs DEF Sends
  <2> QED  BY <2>2, <2>4, <2>6
<1>4. CASE ~Online
  <2>1. list' = [list EXCEPT ![i] = p] /\ toDcs' = toDcs
        /\ Becomes(t, IF c.kind = "load" THEN [c EXCEPT !.pc = "start", !.read = list'] ELSE Nil)
    BY <1>4 DEF ReplaceMission
  <2>2. list' \in Seq(Path) /\ DOMAIN list' = DOMAIN list
        /\ \A j \in DOMAIN list : list'[j] = IF j = i THEN p ELSE list[j]
    BY <1>1, <2>1, ExceptIs
  <2>3. Same(list, list')
    <3>1. ASSUME NEW j \in DOMAIN list PROVE list'[j][1] = list[j][1]
      <4>1. CASE j = i
        BY <1>1, <2>2, <4>1 DEF PartOf, Named
      <4>2. CASE j # i
        BY <2>2, <4>2
      <4> QED  BY <4>1, <4>2
    <3> QED  BY <2>2, <3>1 DEF Same, PartOf, Named
  <2>4. Same(Base, Base')
    BY <2>3, SameRefl DEF Base
  <2>5. PartOf(list', Base')
    BY <1>1, <2>3, <2>4, SameIs DEF Same
  <2>6. CASE c.kind = "load"
    <3> DEFINE d == [c EXCEPT !.pc = "start", !.read = list']
    <3>1. d \in Framed /\ d.kind = "load" /\ d.pc = "start" /\ d.name = c.name /\ d.path = c.path /\ d.read = list'
      <4>1. c \in Framed /\ list' \in Seq(Path)
        BY <1>1, <2>2
      <4> QED  BY ONLY <4>1, <2>6, NextRead
    <3>2. FrameOK(d, Base')
      <4> HIDE DEF d
      <4> QED  BY <2>5, <2>6, <3>1 DEF FrameOK
    <3>3. Becomes(t, d)
      BY <2>1, <2>6
    <3> HIDE DEF d
    <3>4. task'[t] = d /\ \A u \in Task \ {t} : task'[u] = task[u]
      BY <3>1, <3>3, BecomesTypes
    <3> QED  BY <1>2, <2>1, <2>3, <2>4, <2>6, <3>1, <3>2, <3>4 DEF Fits, Sends
  <2>7. CASE c.kind # "load"
    <3>1. task'[t] = Nil /\ \A u \in Task \ {t} : task'[u] = task[u]
      BY <2>1, <2>7, BecomesTypes
    <3> QED  BY <2>1, <2>3, <2>4, <3>1 DEF Fits, Sends
  <2> QED  BY <2>6, <2>7
<1> QED  BY <1>3, <1>4

-----------------------------------------------------------------------------
(* Commands of people and of the watcher keep the list consistent.         *)

LEMMA Unchanged ==
    ASSUME Consistent, UNCHANGED <<status, list, dcs, toBot, toDcs, wanted, onEmpty, task>>
    PROVE  Consistent'
BY DEF Consistent, Frames, Requests, Replies, Exclusive, Reserved, Views, WantedOK, Base

\* Somebody is going to delete the mission at i.
LEMMA DeleteBegins ==
    ASSUME Known, Waiting, Consistent, Calm, NEW t \in Task, task[t] = Nil, Unindexed,
           NEW n \in Name, NEW i \in Nat, NEW pcn \in {"asked", "scheduled"}, Named(list, i, n),
           Becomes(t, Keep("delete", pcn, n, Nil, i)),
           UNCHANGED <<status, list, dcs, toBot, toDcs, wanted, onEmpty>>
    PROVE  Consistent'
<1> DEFINE c == Keep("delete", pcn, n, Nil, i)
<1>1. c \in Framed /\ c.kind = "delete" /\ c.pc = pcn /\ c.name = n /\ c.idx = i
  BY KeepType
<1> HIDE DEF c
<1>2. task'[t] = c /\ \A u \in Task \ {t} : task'[u] = task[u]
  BY <1>1, BecomesTypes DEF c
<1>3. /\ onEmpty = Nil
      /\ \A u \in Task : task[u] # Nil =>
            /\ task[u].kind \notin {"delete", "replace", "load"}
            /\ task[u].kind = "add" => task[u].name \notin Listed(list)
  BY CalmMeans
<1>4. PartOf(list, Base) /\ Base' = Base
  BY <1>3, ListStarts DEF Base
<1>5. Named(Base, i, n) /\ n \in Listed(list)
  BY <1>4, SameIs, NamedListed
<1>6. FrameOK(c, Base)
  BY <1>1, <1>5 DEF FrameOK
<1>7. ASSUME NEW u \in Task \ {t}, task[u] # Nil
      PROVE  Apart(c, task[u], Base) /\ Apart(task[u], c, Base)
  <2>1. task[u].kind = "add" => task[u].name # n
    BY <1>3, <1>5, <1>7
  <2>2. ASSUME task[u].kind = "add", task[u].pc = "scheduled" PROVE task[u].name \notin Listed(Base)
    <3>1. ASSUME NEW v \in Task, Awaits(task[v]), task[v].kind \in {"add", "delete"}
          PROVE  task[v].name # task[u].name
      BY <1>7, <2>2, <3>1 DEF Consistent, Exclusive, Apart, Awaits
    <3> QED  BY <1>3, <1>7, <2>2, <3>1, ListedSame
  <2> QED  BY <1>1, <1>3, <1>7, <2>1, <2>2 DEF Apart
<1>8. Fits(t)
  BY <1>2, <1>4, <1>6, <1>7, SameRefl DEF Fits
<1> QED  BY <1>3, <1>8, PlainStep DEF Awaits, Sends

LEMMA OrderDeleteKeeps ==
    ASSUME Known, Waiting, Consistent, Calm, NEW t \in Task, NEW i \in DOMAIN list, OrderDelete(t, i)
    PROVE  Consistent'
<1>1. i \in Nat /\ list[i] \in Path /\ list[i][1] \in Name
  BY TwinType DEF Known
<1>2. Unindexed /\ task[t] = Nil
  BY CalmMeans DEF OrderDelete
<1>3. Named(list, i, list[i][1])
  BY DEF Named
<1>4. /\ Becomes(t, Keep("delete", "asked", list[i][1], Nil, i))
      /\ UNCHANGED <<status, list, dcs, toBot, toDcs, wanted, onEmpty>>
  BY DEF OrderDelete, dcsVars
<1> QED  BY <1>1, <1>2, <1>3, <1>4, DeleteBegins

LEMMA GoneKeeps ==
    ASSUME Known, Waiting, Consistent, Calm, NEW t \in Task, NEW n \in Name, OnDeleted(t, n),
           task[t] = Nil, Alone("delete", n), UNCHANGED <<status, list, dcs, toBot, toDcs, wanted, onEmpty>>
    PROVE  Consistent'
<1>1. Unindexed
  BY CalmMeans
<1>2. ASSUME NEW i \in Nat, Named(list, i, n), Becomes(t, Keep("delete", "scheduled", n, Nil, i))
      PROVE  Consistent'
  BY <1>1, <1>2, DeleteBegins
<1> QED  BY <1>2, GoneIs, Unchanged

LEMMA UnlinkKeeps ==
    ASSUME Known, Waiting, Consistent, Calm, NEW t \in Task, NEW n \in Name, Unlink(t, n)
    PROVE  Consistent'
BY GoneKeeps DEF Unlink, dcsVars

LEMMA MoveKeeps ==
    ASSUME Known, Waiting, Consistent, Calm, NEW t \in Task, NEW n \in Name, NEW m \in Name, Move(t, n, m)
    PROVE  Consistent'
BY GoneKeeps DEF Move, dcsVars

LEMMA CreateKeeps ==
    ASSUME Known, Waiting, Consistent, Calm, NEW t \in Task, NEW n \in Name, Create(t, n)
    PROVE  Consistent'
<1> DEFINE c == Keep("add", "scheduled", n, File(n), 0)
<1>1. deleted[n] = 0
  BY CalmMeans DEF Create, Known
<1>2. c \in Framed /\ c.kind = "add" /\ c.pc = "scheduled" /\ c.name = n /\ c.path = File(n) /\ c.idx = 0
  BY FileType, KeepType
<1>3. Becomes(t, c) /\ task[t] = Nil /\ UNCHANGED <<status, list, dcs, toBot, toDcs, wanted, onEmpty>>
  BY <1>1 DEF Create, dcsVars
<1> HIDE DEF c
<1>4. task'[t] = c /\ \A u \in Task \ {t} : task'[u] = task[u]
  BY <1>2, <1>3, BecomesTypes
<1>5. /\ \A u \in Task : task[u] # Nil => task[u].name # n
      /\ n \in Listed(list) => \A u \in Task : task[u] # Nil => task[u].kind # "delete"
  BY CalmMeans DEF Create
<1>6. n \in Listed(list) <=> n \in Listed(Base)
  BY <1>5, ListedSame DEF Awaits
<1>7. FrameOK(c, Base) /\ Base' = Base
  BY <1>2, <1>3 DEF FrameOK, Base
<1>8. ASSUME NEW u \in Task \ {t}, task[u] # Nil
      PROVE  Apart(c, task[u], Base) /\ Apart(task[u], c, Base)
  BY <1>2, <1>5, <1>6, <1>8 DEF Apart
<1>9. Fits(t)
  BY <1>3, <1>4, <1>7, <1>8, SameRefl DEF Fits
<1> QED  BY <1>2, <1>3, <1>4, <1>9, PlainStep DEF Awaits, Sends

LEMMA OrderRollbackKeeps ==
    ASSUME Known, Waiting, Consistent, Calm, NEW t \in Task, NEW i \in DOMAIN list, OrderRollback(t, i)
    PROVE  Consistent'
<1> DEFINE n == list[i][1]
           p == Twin(list[i])
           c == Keep("replace", "files", n, p, i)
<1>1. i \in Nat /\ n \in Name /\ p \in Path /\ p[1] = n
  BY TwinType DEF Known
<1>2. c \in Framed /\ c.kind = "replace" /\ c.pc = "files" /\ c.name = n /\ c.path = p /\ c.idx = i
  BY <1>1, KeepType
<1>3. Becomes(t, c) /\ task[t] = Nil /\ UNCHANGED <<status, list, dcs, toBot, toDcs, wanted, onEmpty>>
  BY DEF OrderRollback, dcsVars
<1> HIDE DEF c
<1>4. task'[t] = c /\ \A u \in Task \ {t} : task'[u] = task[u]
  BY <1>2, <1>3, BecomesTypes
<1>5. toBot = <<>> /\ \A u \in Task : task[u] # Nil => task[u].kind # "delete"
  BY CalmMeans DEF OrderRollback
<1>6. Named(Base, i, p[1])
  BY <1>1, <1>5, ListSame DEF Same, PartOf
<1>7. FrameOK(c, Base) /\ Base' = Base
  BY <1>2, <1>3, <1>6 DEF FrameOK, Base
<1>8. ASSUME NEW u \in Task \ {t}, task[u] # Nil
      PROVE  Apart(c, task[u], Base) /\ Apart(task[u], c, Base)
  BY <1>2, <1>5, <1>8 DEF Apart
<1>9. Fits(t)
  BY <1>3, <1>4, <1>7, <1>8, SameRefl DEF Fits
<1> QED  BY <1>2, <1>3, <1>4, <1>9, PlainStep DEF Awaits, Sends

\* Somebody is going to load the mission at i.
LEMMA LoadKeeps ==
    ASSUME Known, Waiting, Consistent, NEW t \in Task, task[t] = Nil,
           NEW p \in Path, NEW n \in Name, p[1] = n, LoadBegins(t, p, n),
           toBot = <<>>, \A u \in Task : task[u] # Nil => task[u].kind # "delete",
           onEmpty' \in {Nil, onEmpty},
           UNCHANGED <<status, list, dcs, toBot, toDcs, wanted>>
    PROVE  Consistent'
<1>1. list \in Seq(Path)
  BY BaseType
<1>2. PICK j \in DOMAIN list : Becomes(t, Loading(n, p, list, j))
  BY DEF LoadBegins, Loading
<1> DEFINE c == Loading(n, p, list, j)
<1>3. j \in Nat /\ j > 0
  BY <1>1
<1>4. /\ c \in Framed /\ c.kind = "load" /\ c.pc = "modify" /\ c.name = n /\ c.path = p
      /\ c.read = list /\ c.cur = j
  BY <1>1, <1>3, LoadFrame
<1> HIDE DEF c
<1>5. task'[t] = c /\ \A u \in Task \ {t} : task'[u] = task[u]
  BY <1>2, <1>4, BecomesTypes DEF c
<1>6. PartOf(list, Base)
  BY ListSame DEF Same
<1>7. FrameOK(c, Base) /\ Base' = Base
  BY <1>2, <1>4, <1>6 DEF FrameOK, Base
<1>8. ASSUME NEW u \in Task \ {t}, task[u] # Nil
      PROVE  Apart(c, task[u], Base) /\ Apart(task[u], c, Base)
  BY <1>4, <1>8 DEF Apart
<1>9. Fits(t)
  BY <1>5, <1>7, <1>8, SameRefl DEF Fits
<1> QED  BY <1>4, <1>5, <1>9, PlainStep DEF Awaits, Sends

LEMMA OrderLoadKeeps ==
    ASSUME Known, Waiting, Consistent, Calm, NEW t \in Task, NEW i \in DOMAIN list, OrderLoad(t, i)
    PROVE  Consistent'
<1>1. toBot = <<>> /\ \A u \in Task : task[u] # Nil => task[u].kind # "delete"
  BY CalmMeans DEF OrderLoad
<1>2. list[i] \in Path /\ list[i][1] \in Name
  BY TwinType, BaseType
<1> QED  BY <1>1, <1>2, LoadKeeps DEF OrderLoad, dcsVars

LEMMA ServerEmptyKeeps ==
    ASSUME Known, Waiting, Consistent, Calm, NEW t \in Task, ServerEmpty(t)
    PROVE  Consistent'
<1>1. toBot = <<>> /\ \A u \in Task : task[u] # Nil => task[u].kind # "delete"
  BY CalmMeans DEF ServerEmpty
<1> DEFINE i == IF onEmpty.idx \in DOMAIN list THEN onEmpty.idx ELSE 1
<1>2. onEmpty # Nil /\ Named(Base, onEmpty.idx, onEmpty.name)
  BY DEF ServerEmpty, Consistent, Reserved
<1>3. Named(list, onEmpty.idx, onEmpty.name)
  BY <1>1, <1>2, ListSame, SameIs DEF Same
<1>4. i \in DOMAIN list /\ list[i][1] = onEmpty.name
  BY <1>3 DEF Named
<1>5. LoadBegins(t, list[i], list[i][1]) /\ list[i] \in Path /\ list[i][1] \in Name
  BY <1>4, BaseType, TwinType DEF ServerEmpty
<1> HIDE DEF i
<1> QED  BY <1>1, <1>4, <1>5, LoadKeeps DEF ServerEmpty, dcsVars

LEMMA OrderLaterKeeps ==
    ASSUME Known, Waiting, Consistent, Calm, NEW i \in DOMAIN list, OrderLater(i)
    PROVE  Consistent'
<1>1. toBot = <<>> /\ \A u \in Task : task[u] # Nil => task[u].kind # "delete"
  BY CalmMeans DEF OrderLater
<1>2. onEmpty' = [name |-> list[i][1], idx |-> i] /\ onEmpty'.name = list[i][1] /\ onEmpty'.idx = i
  BY DEF OrderLater
<1>3. Named(Base, i, list[i][1])
  BY <1>1, ListSame DEF Same, PartOf
<1>4. UNCHANGED <<status, list, dcs, toBot, toDcs, wanted, task>> /\ Base' = Base
  BY DEF OrderLater, dcsVars, Base
<1>5. Reserved'
  BY <1>1, <1>2, <1>3, <1>4 DEF Reserved
<1> QED  BY <1>4, <1>5 DEF Consistent, Frames, Requests, Replies, Exclusive, Views, WantedOK

-----------------------------------------------------------------------------
(* Coroutines that go on keep the list consistent.                         *)

LEMMA AppendListed ==
    ASSUME NEW s \in Seq(Path), NEW p \in Path, NoTwice(s), p[1] \notin Listed(s)
    PROVE  /\ Append(s, p) \in Seq(Path) /\ PartOf(s, Append(s, p))
           /\ Listed(Append(s, p)) = Listed(s) \cup {p[1]} /\ NoTwice(Append(s, p))
<1> DEFINE e == Append(s, p)
           n == Len(s) + 1
<1>1. /\ DOMAIN e = DOMAIN s \cup {n} /\ e[n] = p /\ n \notin DOMAIN s /\ e \in Seq(Path)
      /\ \A i \in DOMAIN s : e[i] = s[i]
  BY QueueGrows
<1> HIDE DEF e, n
<1>2. PartOf(s, e)
  BY <1>1 DEF PartOf, Named
<1>3. Listed(e) = Listed(s) \cup {p[1]}
  BY <1>1 DEF Listed
<1>4. \A i \in DOMAIN s : s[i][1] # p[1]
  BY DEF Listed
<1>5. NoTwice(e)
  BY <1>1, <1>4 DEF NoTwice
<1> QED  BY <1>1, <1>2, <1>3, <1>5 DEF e

LEMMA RemoveListed ==
    ASSUME NEW s \in Seq(Path), NEW x \in DOMAIN s, NoTwice(s)
    PROVE  /\ RemoveAt(s, x) \in Seq(Path)
           /\ Listed(RemoveAt(s, x)) = Listed(s) \ {s[x][1]} /\ NoTwice(RemoveAt(s, x))
<1> DEFINE e == RemoveAt(s, x)
           f == [j \in 1..(Len(s) - 1) |-> IF j < x THEN j ELSE j + 1]
<1>1. /\ e \in Seq(Path) /\ DOMAIN e = 1..(Len(s) - 1) /\ Len(s) \in Nat /\ x \in 1..Len(s)
      /\ \A j \in DOMAIN e : e[j] = s[f[j]]
  <2>1. /\ e \in Seq(Path) /\ Len(e) = Len(s) - 1
        /\ \A j \in 1..(Len(s) - 1) : e[j] = IF j < x THEN s[j] ELSE s[j + 1]
    BY RemoveIs
  <2> HIDE DEF e
  <2>2. DOMAIN e = 1..(Len(s) - 1) /\ Len(s) \in Nat /\ x \in 1..Len(s)
    BY <2>1
  <2>3. \A j \in DOMAIN e : e[j] = s[f[j]]
    BY <2>1, <2>2
  <2> QED  BY <2>1, <2>2, <2>3
<1>2. \A j \in DOMAIN e : f[j] \in DOMAIN s /\ f[j] # x
  BY <1>1
<1>3. \A j, k \in DOMAIN e : f[j] = f[k] => j = k
  BY <1>1
<1>4. ASSUME NEW i \in DOMAIN s, i # x PROVE \E j \in DOMAIN e : f[j] = i
  <2>1. i \in 1..Len(s)
    OBVIOUS
  <2>2. CASE i < x
    <3>1. i \in DOMAIN e /\ f[i] = i
      BY <1>1, <2>1, <2>2
    <3> QED  BY <3>1
  <2>3. CASE i > x
    <3>1. i - 1 \in DOMAIN e /\ f[i - 1] = i
      BY <1>1, <2>1, <2>3
    <3> QED  BY <3>1
  <2> QED  BY <1>1, <1>4, <2>1, <2>2, <2>3
<1> HIDE DEF e, f
<1>5. \A i \in DOMAIN s : i # x => s[i][1] # s[x][1]
  BY DEF NoTwice
<1>6. NoTwice(e)
  BY <1>1, <1>2, <1>3 DEF NoTwice
<1>7. ASSUME NEW m \in Listed(e) PROVE m \in Listed(s) \ {s[x][1]}
  <2>1. PICK j \in DOMAIN e : e[j][1] = m
    BY <1>7 DEF Listed
  <2> QED  BY <1>1, <1>2, <1>5, <2>1 DEF Listed
<1>8. ASSUME NEW m \in Listed(s), m # s[x][1] PROVE m \in Listed(e)
  <2>1. PICK i \in DOMAIN s : s[i][1] = m
    BY DEF Listed
  <2>2. PICK j \in DOMAIN e : f[j] = i
    BY <1>4, <1>8, <2>1
  <2> QED  BY <1>1, <2>1, <2>2 DEF Listed
<1> QED  BY <1>1, <1>6, <1>7, <1>8 DEF e

LEMMA EndsIs ==
    ASSUME Known, NEW t \in Task, Ends(t)
    PROVE  task'[t] = Nil /\ \A u \in Task \ {t} : task'[u] = task[u]
BY BecomesTypes DEF Ends

\* Without DCS nobody waits: the file is the list.
LEMMA OfflineStep ==
    ASSUME Known, Waiting, Consistent, NEW t \in Task, task'[t] = Nil,
           \A u \in Task \ {t} : task'[u] = task[u],
           status = "SHUTDOWN", UNCHANGED <<status, dcs, toDcs, toBot, onEmpty>>, NoTwice(list'),
           \A u \in Task \ {t} : task[u] # Nil => FrameOK(task[u], list'),
           \A u, v \in Task \ {t} : u # v /\ task[u] # Nil /\ task[v] # Nil =>
               Apart(task[u], task[v], list'),
           onEmpty # Nil => Named(list', onEmpty.idx, onEmpty.name),
           \A n \in Name : Settled(n, toBot, task') => (n \in wanted' <=> n \in Listed(list'))
    PROVE  Consistent'
<1>1. Base' = list' /\ toDcs = <<>> /\ toBot = <<>>
  BY DEF Base, Waiting
<1>2. Frames' /\ Exclusive'
  BY <1>1 DEF Frames, Exclusive
<1>3. Requests' /\ Replies'
  BY <1>1 DEF Requests, Replies
<1>4. Reserved'
  BY <1>1 DEF Reserved, Consistent
<1>5. Views'
  <2>1. View(list', 0, toBot', task', Base')
    BY <1>1, ViewOfIt
  <2> QED  BY <1>1, <2>1 DEF Views
<1>6. WantedOK'
  BY <1>1 DEF WantedOK
<1> QED  BY <1>1, <1>2, <1>3, <1>4, <1>5, <1>6 DEF Consistent

\* What settles a mission, when a coroutine that does not wait goes on.
LEMMA SettledBefore ==
    ASSUME NEW t \in Task, ~Awaits(task[t]), \A u \in Task \ {t} : task'[u] = task[u],
           NEW n, Settled(n, toBot, task')
    PROVE  Settled(n, toBot, task)
<1>1. ASSUME NEW u \in Task, task[u] # Nil, task[u].kind \in {"add", "delete"},
             task[u].pc = "answer", task[u].name = n
      PROVE  \E i \in DOMAIN toBot : toBot[i].task = u
  <2>1. u # t
    BY <1>1 DEF Awaits
  <2> QED  BY <1>1, <2>1 DEF Settled
<1> QED  BY <1>1 DEF Settled

LEMMA OfflineAdd ==
    ASSUME Known, Waiting, Consistent, NEW t \in Task, ~Awaits(task[t]), Ends(t),
           status = "SHUTDOWN", UNCHANGED <<status, dcs, toDcs, toBot, onEmpty>>,
           NEW p \in Path, p[1] \notin Listed(list), list' = Append(list, p), wanted' = wanted \cup {p[1]},
           \A u \in Task \ {t} : task[u] # Nil /\ task[u].kind \in {"add", "delete"} => task[u].name # p[1]
    PROVE  Consistent'
<1>1. Base = list /\ list \in Seq(Path) /\ NoTwice(list)
  BY BaseType DEF Base, Consistent
<1>2. PartOf(list, list') /\ NoTwice(list') /\ Listed(list') = Listed(list) \cup {p[1]}
  BY <1>1, AppendListed
<1>3. task'[t] = Nil /\ \A u \in Task \ {t} : task'[u] = task[u]
  BY EndsIs
<1>4. ASSUME NEW u \in Task \ {t}, task[u] # Nil PROVE FrameOK(task[u], list')
  <2>1. FrameOK(task[u], list)
    BY <1>1, <1>4 DEF Consistent, Frames
  <2> QED  BY <1>2, <2>1, FrameKept
<1>5. ASSUME NEW u \in Task \ {t}, NEW v \in Task \ {t}, u # v, task[u] # Nil, task[v] # Nil
      PROVE  Apart(task[u], task[v], list')
  BY <1>1, <1>2, <1>5 DEF Consistent, Exclusive, Apart
<1>6. onEmpty # Nil => Named(list', onEmpty.idx, onEmpty.name)
  BY <1>1, <1>2, SameIs DEF Consistent, Reserved
<1>7. ASSUME NEW n \in Name, Settled(n, toBot, task') PROVE n \in wanted' <=> n \in Listed(list')
  <2>1. Settled(n, toBot, task)
    BY <1>3, <1>7, SettledBefore
  <2> QED  BY <1>1, <1>2, <2>1 DEF Consistent, WantedOK
<1> QED  BY <1>2, <1>3, <1>4, <1>5, <1>6, <1>7, OfflineStep

LEMMA OfflineDelete ==
    ASSUME Known, Waiting, Consistent, NEW t \in Task, ~Awaits(task[t]), Ends(t),
           status = "SHUTDOWN", UNCHANGED <<status, dcs, toDcs, toBot, onEmpty>>,
           task[t] # Nil, task[t].kind = "delete",
           NEW x \in DOMAIN list, list' = RemoveAt(list, x), wanted' = wanted \ {list[x][1]}
    PROVE  Consistent'
<1>1. Base = list /\ list \in Seq(Path) /\ NoTwice(list)
  BY BaseType DEF Base, Consistent
<1>2. NoTwice(list') /\ Listed(list') = Listed(list) \ {list[x][1]}
  BY <1>1, RemoveListed
<1>3. task'[t] = Nil /\ \A u \in Task \ {t} : task'[u] = task[u]
  BY EndsIs
<1>4. /\ onEmpty = Nil
      /\ \A u \in Task \ {t} : task[u] # Nil => task[u].kind \notin {"delete", "replace", "load"}
  BY DEF Consistent, Exclusive, Apart, Reserved
<1>5. ASSUME NEW u \in Task \ {t}, task[u] # Nil PROVE FrameOK(task[u], list')
  BY <1>4, <1>5 DEF Consistent, Frames, FrameOK
<1>6. ASSUME NEW u \in Task \ {t}, NEW v \in Task \ {t}, u # v, task[u] # Nil, task[v] # Nil
      PROVE  Apart(task[u], task[v], list')
  BY <1>1, <1>2, <1>6 DEF Consistent, Exclusive, Apart
<1>7. ASSUME NEW n \in Name, Settled(n, toBot, task') PROVE n \in wanted' <=> n \in Listed(list')
  <2>1. Settled(n, toBot, task)
    BY <1>3, <1>7, SettledBefore
  <2> QED  BY <1>1, <1>2, <2>1 DEF Consistent, WantedOK
<1> QED  BY <1>2, <1>3, <1>4, <1>5, <1>6, <1>7, OfflineStep

LEMMA TwoPaths ==
    ASSUME NEW s \in Seq(Path), NEW p \in Path, Position(s, Twin(p)) = 0, Position(s, p) = 0
    PROVE  p[1] \notin Listed(s)
<1>1. \A i \in DOMAIN s : s[i] # p /\ s[i] # Twin(p)
  BY PositionIs
<1>2. \A q \in Path : q[1] = p[1] => q = p \/ q = Twin(p)
  BY DEF Path, Twin
<1> QED  BY <1>1, <1>2 DEF Listed

\* A mission that nobody else adds or deletes is added.
LEMMA AddKeeps ==
    ASSUME Known, Waiting, Consistent, NEW t \in Task, ~Awaits(task[t]), NEW p \in Path,
           status # "LOADING", UNCHANGED <<status, running, dcs, toBot, onEmpty>>,
           \A u \in Task \ {t} : task[u] # Nil /\ task[u].kind \in {"add", "delete"} => task[u].name # p[1],
           task[t] # Nil => task[t].kind # "delete",
           p[1] \in Listed(list) => \A u \in Task : task[u] # Nil => task[u].kind # "delete",
           onEmpty # Nil => \A u \in Task : task[u] # Nil => task[u].kind # "delete",
           AddMission(t, p, 0), wanted' = wanted \cup {p[1]}
    PROVE  Consistent'
<1> DEFINE n == p[1]
           twin == Position(list, Twin(p))
<1>1. /\ list \in Seq(Path) /\ dcs \in Seq(Path) /\ n \in Name /\ twin \in Nat /\ Position(list, p) \in Nat
      /\ twin # 0 => Named(list, twin, n)
      /\ Position(list, p) # 0 => n \in Listed(list)
  BY BaseType, TwinType, PositionIs DEF Named, Listed
<1>2. n \in Listed(list) <=> n \in Listed(Base)
  BY ListedSame DEF Awaits
<1>3. Unmessaged(t)
  BY NoMessage
<1>4. \A u \in Task \ {t} : task[u] # Nil /\ task[u].kind \in {"add", "delete"} =>
          (task[u].name \in wanted' <=> task[u].name \in wanted)
  OBVIOUS
<1>5. ASSUME n \in Listed(Base), \A u \in Task \ {t} : task'[u] = task[u]
      PROVE  \A m \in Name : Settled(m, toBot, task') => (m \in wanted' <=> m \in Listed(Base))
  <2>1. ASSUME NEW m \in Name, Settled(m, toBot, task') PROVE m \in wanted' <=> m \in Listed(Base)
    <3>1. Settled(m, toBot, task)
      BY <1>5, <2>1, SettledBefore
    <3> QED  BY <1>5, <3>1 DEF Consistent, WantedOK
  <2> QED  BY <2>1
<1>6. onEmpty' # Nil => onEmpty' = onEmpty
  OBVIOUS
<1>7. CASE twin > 0
  <2> DEFINE c == Keep("replace", "answer", n, p, twin)
  <2>1. c \in Framed /\ c.kind = "replace" /\ c.pc = "answer"
    BY <1>1, KeepAnswer
  <2>2. ReplaceMission(t, twin, p, c)
    BY <1>7 DEF AddMission
  <2>3. n \in Listed(list) /\ Named(list, twin, n)
    BY <1>1, <1>7, NamedListed
  <2>4. Named(Base, twin, n)
    BY <2>3, ListStarts, SameIs
  <2> HIDE DEF c, twin
  <2>5. Fits(t) /\ Sends(t) /\ (task'[t] = Nil \/ task'[t].kind = "replace")
    BY <1>1, <2>1, <2>2, <2>3, <2>4, ReplaceFits
  <2>6. \A u \in Task \ {t} : task'[u] = task[u]
    BY <2>5 DEF Fits
  <2> QED  BY <1>2, <1>3, <1>4, <1>5, <1>6, <2>3, <2>5, <2>6, QuietStep
<1>8. CASE ~(twin > 0) /\ Position(list, p) > 0
  <2>1. Ends(t) /\ UNCHANGED <<list, toDcs>>
    BY <1>8 DEF AddMission
  <2>2. task'[t] = Nil /\ \A u \in Task \ {t} : task'[u] = task[u]
    BY <2>1, EndsIs
  <2>3. Fits(t) /\ Sends(t)
    BY <2>1, <2>2, SameRefl DEF Fits, Sends, Base
  <2>4. n \in Listed(Base)
    BY <1>1, <1>2, <1>8
  <2> QED  BY <1>3, <1>4, <1>5, <1>6, <2>2, <2>3, <2>4, QuietStep
<1>9. CASE ~(twin > 0) /\ ~(Position(list, p) > 0) /\ Online
  <2> DEFINE c == Keep("add", "answer", n, p, 0)
  <2>1. c \in Framed /\ c.kind = "add" /\ c.pc = "answer" /\ c.name = n
    BY <1>1, KeepAnswer
  <2>2. Ask(t, c, "add", p, 0) /\ UNCHANGED list
    BY <1>9 DEF AddMission
  <2>3. n \notin Listed(Base) /\ Base = dcs /\ Base' = Base
    BY <1>1, <1>2, <1>9, <2>2, TwoPaths DEF Online, Base
  <2> HIDE DEF c, twin
  <2>4. task'[t] = c /\ \A u \in Task \ {t} : task'[u] = task[u]
    BY <2>1, <2>2, AskIs
  <2>5. c # Nil /\ FrameOK(c, Base)
    BY <2>1, NotNil DEF FrameOK
  <2>6. ASSUME NEW u \in Task \ {t}, task[u] # Nil
        PROVE  Apart(c, task[u], Base) /\ Apart(task[u], c, Base)
    BY <2>1, <2>6 DEF Apart
  <2>7. Fits(t)
    BY <2>2, <2>3, <2>4, <2>5, <2>6, SameRefl DEF Fits
  <2>8. \A r : r.cmd = "add" /\ r.name = c.name /\ r.path = p /\ r.idx = 0
                  => RequestOK(r, c, dcs, wanted')
    BY <2>1, <2>3, <2>5 DEF RequestOK
  <2>9. Sends(t)
    <3>1. p \in Path \cup {Nil} /\ 0 \in Nat
      OBVIOUS
    <3>2. \/ toDcs' = toDcs
          \/ \E r \in Asked : /\ toDcs' = Append(toDcs, r) /\ r.cmd = "add" /\ r.task = t
                               /\ r.name = c.name /\ r.path = p /\ r.idx = 0
      BY <2>1, <2>2, <3>1, AskIs
    <3> QED  BY <2>4, <2>8, <3>2 DEF Sends
  <2>10. ASSUME NEW m \in Name, Settled(m, toBot, task') PROVE m \in wanted' <=> m \in Listed(Base)
    <3>1. CASE m = n
      BY <1>3, <2>1, <2>4, <2>5, <2>10, <3>1 DEF Settled, Unmessaged
    <3>2. CASE m # n
      <4>1. Settled(m, toBot, task)
        BY <2>4, <2>10, SettledBefore
      <4> QED  BY <3>2, <4>1 DEF Consistent, WantedOK
    <3> QED  BY <3>1, <3>2
  <2> QED  BY <1>3, <1>4, <1>6, <2>1, <2>4, <2>7, <2>9, <2>10, QuietStep
<1>10. CASE ~(twin > 0) /\ ~(Position(list, p) > 0) /\ ~Online
  <2>1. /\ Ends(t) /\ UNCHANGED toDcs
        /\ list' = IF 0 \in 1..Len(list) THEN InsertAt(list, 0, p) ELSE Append(list, p)
    BY <1>10 DEF AddMission
  <2>2. list' = Append(list, p)
    BY <2>1
  <2>3. status = "SHUTDOWN"
    BY <1>10 DEF Online, Known
  <2>4. n \notin Listed(list)
    BY <1>1, <1>10, TwoPaths
  <2> QED  BY <2>1, <2>2, <2>3, <2>4, OfflineAdd
<1> QED  BY <1>7, <1>8, <1>9, <1>10

\* The mission that was to be deleted is deleted, or not.
LEMMA DeleteKeeps ==
    ASSUME Known, Waiting, Consistent, NEW t \in Task, task[t] # Nil, task[t].kind = "delete",
           task[t].pc # "answer", status # "LOADING",
           UNCHANGED <<status, running, dcs, toBot, onEmpty>>,
           DeleteMission(t, task[t].idx, task[t].name)
    PROVE  Consistent'
<1> DEFINE n == task[t].name
           i == task[t].idx
<1>1. /\ list \in Seq(Path) /\ dcs \in Seq(Path) /\ n \in Name /\ i \in Nat
      /\ FrameOK(task[t], Base)
  BY BaseType, FrameOf DEF Consistent, Frames
<1>2. ~Awaits(task[t]) /\ Named(Base, i, n)
  BY <1>1 DEF FrameOK, Awaits
<1>3. /\ onEmpty = Nil
      /\ \A u \in Task \ {t} : task[u] # Nil => task[u].kind \notin {"delete", "replace", "load"}
      /\ \A u \in Task \ {t} : task[u] # Nil /\ task[u].kind = "add" => task[u].name # n
  BY DEF Consistent, Exclusive, Apart, Reserved
<1>4. Unmessaged(t)
  BY <1>2, NoMessage
<1>5. n \in Listed(list) <=> n \in Listed(Base)
  BY <1>2, <1>3, ListedSame DEF Awaits
<1> HIDE DEF n, i
<1>6. CASE Online /\ Ends(t) /\ Failed(n) /\ UNCHANGED <<list, toDcs>>
  <2>1. task'[t] = Nil /\ \A u \in Task \ {t} : task'[u] = task[u]
    BY <1>6, EndsIs
  <2>2. Fits(t) /\ Sends(t)
    BY <1>6, <2>1, SameRefl DEF Fits, Sends, Base
  <2>3. \A m : m # n => (m \in wanted' <=> m \in wanted)
    BY <1>6 DEF Failed
  <2>4. n \in wanted' <=> n \in Listed(Base)
    BY <1>5, <1>6 DEF Failed
  <2>5. ASSUME NEW m \in Name, Settled(m, toBot, task') PROVE m \in wanted' <=> m \in Listed(Base)
    <3>1. Settled(m, toBot, task)
      BY <1>2, <2>1, <2>5, SettledBefore
    <3> QED  BY <2>3, <2>4, <3>1 DEF Consistent, WantedOK
  <2> QED  BY <1>3, <1>4, <2>1, <2>2, <2>3, <2>5, QuietStep
<1>7. CASE /\ Online /\ wanted' = wanted \ {n} /\ UNCHANGED list
           /\ Ask(t, Keep("delete", "answer", n, Nil, i), "delete", Nil, i)
  <2> DEFINE c == Keep("delete", "answer", n, Nil, i)
  <2>1. c \in Framed /\ c.kind = "delete" /\ c.pc = "answer" /\ c.name = n /\ c.idx = i
    BY <1>1, KeepDelete
  <2> HIDE DEF c
  <2>2. Ask(t, c, "delete", Nil, i)
    BY <1>7 DEF c
  <2>3. Base = dcs /\ Base' = Base
    BY <1>7 DEF Online, Base
  <2>4. task'[t] = c /\ \A u \in Task \ {t} : task'[u] = task[u]
    BY <2>1, <2>2, BecomesTypes DEF Ask
  <2>5. c # Nil /\ FrameOK(c, Base)
    BY <2>1, NotNil DEF FrameOK
  <2>6. ASSUME NEW u \in Task \ {t}, task[u] # Nil
        PROVE  Apart(c, task[u], Base) /\ Apart(task[u], c, Base)
    <3>1. task[u].kind = "add" /\ task[u].pc = "scheduled" => task[u].name \notin Listed(Base)
      BY <2>6 DEF Consistent, Exclusive, Apart
    <3> QED  BY <1>3, <2>1, <2>6, <3>1 DEF Apart
  <2>7. Fits(t)
    BY <1>7, <2>3, <2>4, <2>5, <2>6, SameRefl DEF Fits
  <2>8. \A r : r.cmd = "delete" /\ r.name = c.name /\ r.idx = i => RequestOK(r, c, dcs, wanted')
    BY <1>2, <1>7, <2>1, <2>3, <2>5 DEF RequestOK
  <2>9. Sends(t)
    <3> DEFINE r == [cmd |-> "delete", task |-> t, name |-> c.name, path |-> Nil, idx |-> i]
    <3>1. r \in Asked /\ r.cmd = "delete" /\ r.task = t /\ r.name = c.name /\ r.idx = i
      BY <1>1, <2>1 DEF Request, Asked
    <3>2. toDcs' = toDcs \/ toDcs' = Append(toDcs, r)
      BY <2>2 DEF Ask
    <3> HIDE DEF r
    <3> QED  BY <2>4, <2>8, <3>1, <3>2 DEF Sends
  <2>10. ASSUME NEW m \in Name, Settled(m, toBot, task') PROVE m \in wanted' <=> m \in Listed(Base)
    <3>1. CASE m = n
      BY <1>4, <2>1, <2>4, <2>5, <2>10, <3>1 DEF Settled, Unmessaged
    <3>2. CASE m # n
      <4>1. Settled(m, toBot, task)
        BY <1>2, <2>4, <2>10, SettledBefore
      <4> QED  BY <1>7, <3>2, <4>1 DEF Consistent, WantedOK
    <3> QED  BY <3>1, <3>2
  <2>11. \A u \in Task \ {t} : task[u] # Nil /\ task[u].kind \in {"add", "delete"} =>
             (task[u].name \in wanted' <=> task[u].name \in wanted)
    BY <1>3, <1>7
  <2> QED  BY <1>3, <1>4, <2>4, <2>7, <2>9, <2>10, <2>11, QuietStep
<1>8. CASE ~Online
  <2>1. status = "SHUTDOWN" /\ Base = list
    BY <1>8 DEF Online, Known, Base
  <2>2. i \in DOMAIN list /\ list[i][1] = n
    BY <1>2, <2>1 DEF Named
  <2>3. Ends(t) /\ list' = RemoveAt(list, i) /\ wanted' = wanted \ {n} /\ UNCHANGED toDcs
    BY <1>8, <2>2 DEF DeleteMission, n, i
  <2> QED  BY <1>2, <2>1, <2>2, <2>3, OfflineDelete
<1> QED  BY <1>6, <1>7, <1>8 DEF DeleteMission, n, i

LEMMA OrderAddKeeps ==
    ASSUME Known, Waiting, Consistent, Calm, NEW t \in Task, NEW n \in Name, OrderAdd(t, n)
    PROVE  Consistent'
<1> DEFINE p == File(n)
<1>1. p \in Path /\ p[1] = n
  BY FileType
<1>2. /\ task[t] = Nil /\ status # "LOADING" /\ AddMission(t, p, 0) /\ wanted' = wanted \cup {n}
      /\ UNCHANGED <<status, running, dcs, toBot, onEmpty>>
  BY CalmMeans DEF OrderAdd, dcsVars
<1>3. /\ \A u \in Task : task[u] # Nil => task[u].name # n
      /\ n \in Listed(list) => \A u \in Task : task[u] # Nil => task[u].kind # "delete"
  BY CalmMeans DEF OrderAdd
<1>4. onEmpty # Nil => \A u \in Task : task[u] # Nil => task[u].kind # "delete"
  BY DEF Consistent, Reserved
<1> HIDE DEF p
<1> QED  BY <1>1, <1>2, <1>3, <1>4, AddKeeps DEF Awaits

LEMMA ScheduledKeeps ==
    ASSUME Known, Waiting, Consistent, Calm, NEW t \in Task, Scheduled(t)
    PROVE  Consistent'
<1>1. status # "LOADING" /\ UNCHANGED <<status, running, dcs, toBot, onEmpty>>
  BY CalmMeans DEF Scheduled, dcsVars
<1>2. CASE Is(t, "delete", "scheduled") /\ DeleteMission(t, task[t].idx, task[t].name)
  BY <1>1, <1>2, DeleteKeeps DEF Is
<1>3. CASE /\ Is(t, "add", "scheduled") /\ AddMission(t, task[t].path, task[t].idx)
           /\ wanted' = wanted \cup {task[t].name}
  <2> DEFINE p == task[t].path
             n == task[t].name
  <2>1. task[t] # Nil /\ task[t].kind = "add" /\ task[t].pc = "scheduled" /\ ~Awaits(task[t])
    BY <1>3 DEF Is, Awaits
  <2>2. n \in Name /\ p = File(n) /\ task[t].idx = 0
    BY <2>1, FrameOf DEF Consistent, Frames, FrameOK
  <2>3. p \in Path /\ p[1] = n
    BY <2>2, FileType
  <2>4. AddMission(t, p, 0) /\ wanted' = wanted \cup {p[1]}
    BY <1>3, <2>2, <2>3
  <2>5. \A u \in Task \ {t} : task[u] # Nil /\ task[u].kind \in {"add", "delete"} => task[u].name # n
    BY <2>1 DEF Consistent, Exclusive, Apart
  <2>6. n \in Listed(list) <=> n \in Listed(Base)
    BY <2>1, <2>5, ListedSame DEF Awaits
  <2>7. n \in Listed(list) => \A u \in Task : task[u] # Nil => task[u].kind # "delete"
    BY <2>1, <2>6 DEF Consistent, Exclusive, Apart
  <2>8. onEmpty # Nil => \A u \in Task : task[u] # Nil => task[u].kind # "delete"
    BY DEF Consistent, Reserved
  <2> HIDE DEF p, n
  <2> QED  BY <1>1, <2>1, <2>3, <2>4, <2>5, <2>7, <2>8, AddKeeps
<1> QED  BY <1>2, <1>3 DEF Scheduled

LEMMA DeleteConfirmedKeeps ==
    ASSUME Known, Waiting, Consistent, Calm, NEW t \in Task, DeleteConfirmed(t)
    PROVE  Consistent'
<1>1. status # "LOADING" /\ UNCHANGED <<status, running, dcs, toBot, onEmpty>> /\ Is(t, "delete", "asked")
  BY CalmMeans DEF DeleteConfirmed, dcsVars
<1>2. CASE DeleteMission(t, task[t].idx, task[t].name)
  BY <1>1, <1>2, DeleteKeeps DEF Is
<1>3. CASE Ends(t) /\ UNCHANGED <<list, toDcs, wanted>>
  <2>1. task'[t] = Nil /\ \A u \in Task \ {t} : task'[u] = task[u]
    BY <1>3, EndsIs
  <2>2. Fits(t) /\ Sends(t)
    BY <1>1, <1>3, <2>1, SameRefl DEF Fits, Sends, Base
  <2>3. ~Awaits(task[t])
    BY <1>1 DEF Is, Awaits
  <2> QED  BY <1>1, <1>3, <2>1, <2>2, <2>3, PlainStep
<1> QED  BY <1>2, <1>3 DEF DeleteConfirmed

LEMMA RollbackReplacesKeeps ==
    ASSUME Known, Waiting, Consistent, Calm, NEW t \in Task, RollbackReplaces(t)
    PROVE  Consistent'
<1> DEFINE c == [task[t] EXCEPT !.pc = "answer"]
           p == task[t].path
           i == task[t].idx
<1>1. task[t] # Nil /\ task[t].kind = "replace" /\ task[t].pc = "files" /\ ~Awaits(task[t])
  BY DEF RollbackReplaces, Is, Awaits
<1>2. p \in Path /\ i \in Nat /\ task[t] \in Framed
  BY <1>1, FrameOf
<1>3. Named(Base, i, p[1])
  BY <1>1 DEF Consistent, Frames, FrameOK
<1>4. c \in Framed /\ c.kind = "replace" /\ c.pc = "answer"
  BY <1>1, <1>2, NextPc
<1>5. \A u \in Task : task[u] # Nil => task[u].kind # "delete"
  BY <1>1 DEF Consistent, Exclusive, Apart
<1>6. ReplaceMission(t, i, p, c) /\ UNCHANGED <<toBot, dcs, status, onEmpty, wanted>>
  BY DEF RollbackReplaces, dcsVars
<1> HIDE DEF c, p, i
<1>7. Fits(t) /\ Sends(t) /\ (task'[t] = Nil \/ task'[t].kind = "replace")
  BY <1>2, <1>3, <1>4, <1>5, <1>6, ReplaceFits
<1> QED  BY <1>1, <1>6, <1>7, PlainStep

LEMMA LoadPc ==
    ASSUME NEW c \in Framed, c.kind = "load", NEW pcn \in {"replaced", "start", "answer"},
           NEW e, e = [c EXCEPT !.pc = pcn]
    PROVE  /\ e \in Framed /\ e.kind = "load" /\ e.pc = pcn
           /\ e.name = c.name /\ e.path = c.path /\ e.read = c.read
BY DEF Framed, Coroutine

LEMMA LoadModifiedKeeps ==
    ASSUME Known, Waiting, Consistent, NEW t \in Task, NEW q \in Path, LoadModified(t, q)
    PROVE  Consistent'
<1> DEFINE a == task[t]
           c == [a EXCEPT !.path = q]
           d == [c EXCEPT !.pc = "replaced"]
           e == [c EXCEPT !.pc = "start"]
<1>1. a # Nil /\ a.kind = "load" /\ a.pc = "modify" /\ ~Awaits(task[t])
  BY DEF LoadModified, Is, Awaits
<1>2. /\ a \in Framed /\ a.path \in Path /\ a.cur \in Nat
      /\ a.path[1] = a.name /\ PartOf(a.read, Base) /\ a.cur \in DOMAIN a.read
  BY <1>1, FrameOf DEF Consistent, Frames, FrameOK
<1>3. q[1] = a.path[1]
  BY <1>2, TwinType DEF LoadModified
<1>4. c \in Framed /\ c.kind = "load" /\ c.name = a.name /\ c.path = q /\ c.read = a.read
  <2> HIDE DEF a
  <2> QED  BY <1>1, <1>2 DEF Framed, Coroutine
<1>5. UNCHANGED <<toBot, dcs, status, onEmpty, wanted>>
  BY DEF LoadModified, dcsVars
<1>6. \A u \in Task : task[u] # Nil => task[u].kind # "delete"
  BY <1>1 DEF Consistent, Exclusive, Apart
<1>7. CASE q # a.path /\ a.path = a.read[a.cur]
  <2>1. ReplaceMission(t, a.cur, q, d)
    BY <1>7 DEF LoadModified
  <2> HIDE DEF c
  <2> HIDE DEF d
  <2>2. d \in Framed /\ d.kind = "load" /\ d.pc = "replaced" /\ d.name = c.name /\ d.path = c.path
    BY <1>4, LoadPc DEF d
  <2>3. Named(Base, a.cur, q[1])
    BY <1>2, <1>3, <1>7 DEF PartOf
  <2> HIDE DEF a
  <2>5. d.path[1] = d.name
    BY <1>2, <1>3, <1>4, <2>2
  <2>4. Fits(t) /\ Sends(t) /\ (task'[t] = Nil \/ task'[t].kind = "load")
    BY <1>2, <1>5, <1>6, <2>1, <2>2, <2>3, <2>5, ReplaceFits
  <2> QED  BY <1>1, <1>5, <2>4, PlainStep
<1>8. CASE ~(q # a.path /\ a.path = a.read[a.cur])
  <2>1. Becomes(t, e) /\ UNCHANGED <<list, toDcs>>
    BY <1>8 DEF LoadModified
  <2> HIDE DEF c
  <2> HIDE DEF e
  <2>7. /\ e \in Framed /\ e.kind = "load" /\ e.pc = "start" /\ e.name = c.name /\ e.path = c.path
        /\ e.read = c.read
    BY <1>4, LoadPc DEF e
  <2> HIDE DEF a
  <2>2. /\ e \in Framed /\ e.kind = "load" /\ e.pc = "start" /\ e.path[1] = e.name /\ e.read = a.read
    BY <1>2, <1>3, <1>4, <2>7
  <2>3. task'[t] = e /\ \A u \in Task \ {t} : task'[u] = task[u]
    BY <2>1, <2>2, BecomesTypes
  <2>4. Base' = Base /\ FrameOK(e, Base)
    BY <1>2, <1>5, <2>1, <2>2 DEF FrameOK, Base
  <2>5. ASSUME NEW u \in Task \ {t}, task[u] # Nil
        PROVE  Apart(e, task[u], Base) /\ Apart(task[u], e, Base)
    BY <1>6, <2>2, <2>5 DEF Apart
  <2>6. Fits(t) /\ Sends(t)
    BY <1>5, <2>1, <2>3, <2>4, <2>5, SameRefl DEF Fits, Sends
  <2> QED  BY <1>1, <1>5, <2>2, <2>3, <2>6, PlainStep
<1> QED  BY <1>7, <1>8

LEMMA LoadStartsKeeps ==
    ASSUME Known, Waiting, Consistent, NEW t \in Task, LoadStarts(t)
    PROVE  Consistent'
<1> DEFINE a == task[t]
           e == [a EXCEPT !.pc = "answer"]
           i == Position(a.read, a.path)
           x == IF i = a.cur THEN 0 ELSE i
<1>1. a # Nil /\ a.kind = "load" /\ a.pc = "start" /\ ~Awaits(task[t])
  BY DEF LoadStarts, Is, Awaits
<1>2. /\ a \in Framed /\ a.path \in Path /\ a.read \in Seq(Path)
      /\ a.path[1] = a.name /\ PartOf(a.read, Base)
  BY <1>1, FrameOf DEF Consistent, Frames, FrameOK
<1>3. e \in Framed /\ e.kind = "load" /\ e.pc = "answer" /\ e.name = a.name /\ e.path = a.path
  BY <1>1, <1>2, NextPc
<1>4. i \in Nat /\ (i # 0 => Named(Base, i, a.name))
  BY <1>2, PositionIs DEF PartOf
<1>5. x \in Nat /\ (x = 0 \/ Named(Base, x, a.name))
  BY <1>4
<1>6. Ask(t, e, "start", a.path, x) /\ UNCHANGED <<toBot, dcs, status, onEmpty, wanted, list>>
  BY DEF LoadStarts, dcsVars
<1> HIDE DEF a, e, i, x
<1>7. task'[t] = e /\ \A u \in Task \ {t} : task'[u] = task[u]
  BY <1>3, <1>6, BecomesTypes DEF Ask
<1>8. \A u \in Task : task[u] # Nil => task[u].kind # "delete"
  BY <1>1 DEF Consistent, Exclusive, Apart, a
<1>9. Base' = Base /\ FrameOK(e, Base) /\ e # Nil
  BY <1>2, <1>3, <1>6, NotNil DEF FrameOK, Base
<1>10. ASSUME NEW u \in Task \ {t}, task[u] # Nil
       PROVE  Apart(e, task[u], Base) /\ Apart(task[u], e, Base)
  BY <1>3, <1>8, <1>10 DEF Apart
<1>11. Fits(t)
  BY <1>6, <1>7, <1>9, <1>10, SameRefl DEF Fits
<1>12. status # "SHUTDOWN" => Base = dcs
  BY DEF Base
<1>13. ASSUME status # "SHUTDOWN", NEW r, r.cmd = "start", r.name = e.name, r.path = a.path, r.idx = x
       PROVE  RequestOK(r, e, dcs, wanted')
  BY <1>2, <1>3, <1>5, <1>9, <1>12, <1>13 DEF RequestOK
<1>14. Sends(t)
  <2>1. a.path \in Path \cup {Nil}
    BY <1>2
  <2>2. \/ toDcs' = toDcs
        \/ \E r \in Asked : /\ status # "SHUTDOWN" /\ toDcs' = Append(toDcs, r) /\ r.cmd = "start"
                            /\ r.task = t /\ r.name = e.name /\ r.path = a.path /\ r.idx = x
    BY <1>2, <1>3, <1>5, <1>6, <2>1, AskIs
  <2> QED  BY <1>7, <1>13, <2>2 DEF Sends
<1> QED  BY <1>1, <1>3, <1>6, <1>7, <1>11, <1>14, PlainStep

LEMMA MissionRunsKeeps ==
    ASSUME Known, Waiting, Consistent, NEW t \in Task, MissionRuns(t)
    PROVE  Consistent'
<1> DEFINE e == Keep("validate", "answer", Nil, Nil, 0)
<1>1. task[t] = Nil /\ ~Awaits(task[t]) /\ status = "LOADING"
  BY DEF MissionRuns, Awaits
<1>2. e \in Framed /\ e.kind = "validate" /\ e.pc = "answer" /\ e.name = Nil
  BY KeepValidate
<1>3. Ask(t, e, "list", Nil, 0) /\ UNCHANGED <<toBot, dcs, onEmpty, wanted, list>> /\ status' = "RUNNING"
  BY DEF MissionRuns
<1> HIDE DEF e
<1>4. task'[t] = e /\ \A u \in Task \ {t} : task'[u] = task[u]
  BY <1>2, <1>3, BecomesTypes DEF Ask
<1>5. Base' = Base /\ FrameOK(e, Base) /\ e # Nil
  BY <1>1, <1>2, <1>3, NotNil DEF FrameOK, Base
<1>6. ASSUME NEW u \in Task \ {t}, task[u] # Nil
      PROVE  Apart(e, task[u], Base) /\ Apart(task[u], e, Base)
  BY <1>2, <1>6 DEF Apart
<1>7. Fits(t)
  BY <1>3, <1>4, <1>5, <1>6, SameRefl DEF Fits
<1>8. ASSUME NEW r, r.cmd = "list", r.name = e.name
      PROVE  RequestOK(r, e, dcs, wanted')
  BY <1>2, <1>5, <1>8 DEF RequestOK
<1>9. Sends(t)
  <2> DEFINE r == [cmd |-> "list", task |-> t, name |-> e.name, path |-> Nil, idx |-> 0]
  <2>1. r \in Asked /\ r.cmd = "list" /\ r.task = t /\ r.name = e.name
    BY <1>2 DEF Request, Asked
  <2>2. toDcs' = toDcs \/ toDcs' = Append(toDcs, r)
    BY <1>3 DEF Ask
  <2> HIDE DEF r
  <2> QED  BY <1>4, <1>8, <2>1, <2>2 DEF Sends
<1> QED  BY <1>1, <1>2, <1>3, <1>4, <1>7, <1>9, PlainStep

LEMMA TimesOutKeeps ==
    ASSUME Known, Waiting, Consistent, Calm, NEW t \in Task, TimesOut(t)
    PROVE  Consistent'
<1> DEFINE n == task[t].name
<1>1. Unmessaged(t)
  BY CalmMeans DEF TimesOut, Unmessaged
<1>2. /\ Ends(t) /\ UNCHANGED <<status, dcs, list, onEmpty, toBot>> /\ task[t] # Nil
      /\ IF task[t].kind \in {"add", "delete"} THEN Failed(n) ELSE UNCHANGED wanted
  BY DEF TimesOut, dcsVars, Waits
<1>3. toDcs' = toDcs
  <2>1. toDcs' = [i \in DOMAIN toDcs |-> toDcs[i]]
    BY <1>1 DEF TimesOut, Nobody, Unmessaged
  <2> QED  BY <2>1 DEF Known
<1>4. task'[t] = Nil /\ \A u \in Task \ {t} : task'[u] = task[u]
  BY <1>2, EndsIs
<1>5. Fits(t) /\ Sends(t)
  BY <1>2, <1>3, <1>4, SameRefl DEF Fits, Sends, Base
<1>6. CASE task[t].kind \in {"add", "delete"}
  <2>1. \A u \in Task \ {t} : task[u] # Nil /\ task[u].kind \in {"add", "delete"} => task[u].name # n
    BY <1>2, <1>6 DEF Consistent, Exclusive, Apart
  <2>2. n \in Listed(list) <=> n \in Listed(Base)
    <3>1. View(list, 0, toBot, task, Base)
      BY DEF Consistent, Views
    <3>2. \A j \in DOMAIN toBot : /\ task[toBot[j].task].idx \in Nat
                                  /\ task[toBot[j].task].kind \in {"add", "delete"}
                                        => task[toBot[j].task].name # n
      BY <1>1, <2>1, AnswersAre DEF Unmessaged
    <3> QED  BY <3>1, <3>2, BaseType, ViewListed
  <2>3. Failed(n)
    BY <1>2, <1>6
  <2>4. /\ n \in wanted' <=> n \in Listed(Base)
        /\ \A m : m # n => (m \in wanted' <=> m \in wanted)
    BY <2>2, <2>3 DEF Failed
  <2>5. ASSUME NEW m \in Name, Settled(m, toBot, task') PROVE m \in wanted' <=> m \in Listed(Base)
    <3>1. CASE m = n
      BY <2>4, <3>1
    <3>2. CASE m # n
      <4>1. Settled(m, toBot, task)
        BY <1>4, <2>5, <3>2 DEF Settled
      <4> QED  BY <2>4, <3>2, <4>1 DEF Consistent, WantedOK
    <3> QED  BY <3>1, <3>2
  <2> HIDE DEF n
  <2> QED  BY <1>1, <1>2, <1>4, <1>5, <2>1, <2>4, <2>5, QuietStep
<1>7. CASE task[t].kind \notin {"add", "delete"}
  <2>1. UNCHANGED wanted
    BY <1>2, <1>7
  <2>2. ASSUME NEW m \in Name, Settled(m, toBot, task') PROVE m \in wanted' <=> m \in Listed(Base)
    <3>1. Settled(m, toBot, task)
      BY <1>4, <1>7, <2>2 DEF Settled
    <3> QED  BY <2>1, <3>1 DEF Consistent, WantedOK
  <2> QED  BY <1>1, <1>2, <1>4, <1>5, <2>1, <2>2, QuietStep
<1> QED  BY <1>6, <1>7

-----------------------------------------------------------------------------
(* DCS takes a command.                                                    *)

LEMMA HeadOK ==
    ASSUME Known, Waiting, Consistent, toDcs # <<>>
    PROVE  /\ Head(toDcs).task \in Task /\ task[Head(toDcs).task] # Nil
           /\ RequestOK(Head(toDcs), task[Head(toDcs).task], dcs, wanted)
           /\ \A i \in DOMAIN toDcs : i # 1 => toDcs[i].task # Head(toDcs).task
           /\ \A j \in DOMAIN toBot : toBot[j].task # Head(toDcs).task
<1>1. Head(toDcs) = toDcs[1] /\ 1 \in DOMAIN toDcs
  BY HeadIs
<1>2. toDcs[1].task \in Task /\ RequestOK(toDcs[1], task[toDcs[1].task], dcs, wanted)
  BY <1>1 DEF Consistent, Requests
<1>3. toDcs[1].task # Nil /\ task[toDcs[1].task] # Nil
  BY <1>2, MissionAssumption DEF RequestOK
<1> QED  BY <1>1, <1>2, <1>3 DEF Waiting

\* A coroutine that is answered no longer holds up its mission.
LEMMA SettledSoon ==
    ASSUME Known, NEW a \in Answer, toBot' = Append(toBot, a), NEW n,
           task[a.task].kind \notin {"add", "delete"} \/ task[a.task].name # n,
           Settled(n, toBot', task)
    PROVE  Settled(n, toBot, task)
<1>1. /\ DOMAIN toBot' = DOMAIN toBot \cup {Len(toBot) + 1} /\ toBot'[Len(toBot) + 1] = a
      /\ \A i \in DOMAIN toBot : toBot'[i] = toBot[i]
  <2>1. toBot \in Seq(Answer) /\ a \in Answer /\ toBot' = Append(toBot, a)
    BY DEF Known
  <2> QED  BY ONLY <2>1, QueueGrows
<1>2. ASSUME NEW u \in Task, task[u] # Nil, task[u].kind \in {"add", "delete"},
             task[u].pc = "answer", task[u].name = n
      PROVE  \E i \in DOMAIN toBot : toBot[i].task = u
  <2>1. u # a.task
    BY <1>2
  <2>2. PICK i \in DOMAIN toBot' : toBot'[i].task = u
    BY <1>2 DEF Settled
  <2> QED  BY <1>1, <2>1, <2>2
<1> QED  BY <1>2 DEF Settled

\* What is left to show of a command that is answered.
LEMMA DcsStep ==
    ASSUME Known, Waiting, Consistent, toDcs # <<>>, toDcs' = Tail(toDcs),
           UNCHANGED <<task, onEmpty, wanted>>, status' # "SHUTDOWN",
           NEW a \in Answer, toBot' = Append(toBot, a), a.task = Head(toDcs).task,
           task[a.task].kind \in {"add", "delete", "validate"} => a.list = dcs',
           NoTwice(dcs'), \A u \in Task : task[u] # Nil => FrameOK(task[u], dcs'),
           \A i \in DOMAIN toDcs : i # 1 => RequestOK(toDcs[i], task[toDcs[i].task], dcs', wanted),
           ReplyOK(task[a.task], dcs', wanted),
           \A j \in DOMAIN toBot : ReplyOK(task[toBot[j].task], dcs', wanted),
           \A u, v \in Task : u # v /\ task[u] # Nil /\ task[v] # Nil => Apart(task[u], task[v], dcs'),
           onEmpty # Nil => Named(dcs', onEmpty.idx, onEmpty.name),
           View(list', 0, toBot', task, dcs'),
           \A k \in DOMAIN toBot : task[toBot[k].task].kind \in {"add", "delete", "validate"} =>
               View(toBot[k].list, k, toBot', task, dcs'),
           \A n \in Name : Settled(n, toBot', task) => (n \in wanted <=> n \in Listed(dcs'))
    PROVE  Consistent'
<1>1. Base' = dcs' /\ task' = task /\ wanted' = wanted /\ onEmpty' = onEmpty
  BY DEF Base
<1>2. /\ DOMAIN toBot' = DOMAIN toBot \cup {Len(toBot) + 1} /\ toBot'[Len(toBot) + 1] = a
      /\ \A i \in DOMAIN toBot : toBot'[i] = toBot[i]
  <2>1. toBot \in Seq(Answer) /\ a \in Answer /\ toBot' = Append(toBot, a)
    BY DEF Known
  <2> QED  BY ONLY <2>1, QueueGrows
<1>3. \A i \in DOMAIN toDcs' : i + 1 \in DOMAIN toDcs /\ i + 1 # 1 /\ toDcs'[i] = toDcs[i + 1]
  BY HeadIs
<1>4. Frames'
  BY <1>1 DEF Frames
<1>5. Requests'
  BY <1>1, <1>3 DEF Requests, Consistent
<1>6. Replies'
  BY <1>1, <1>2, HeadOK DEF Replies, Consistent
<1>7. Exclusive'
  BY <1>1 DEF Exclusive
<1>8. Reserved'
  BY <1>1 DEF Reserved, Consistent
<1>9. Views'
  <2>1. View(dcs', Len(toBot) + 1, toBot', task, dcs')
    BY ViewOfIt
  <2> QED  BY <1>1, <1>2, <2>1 DEF Views
<1>10. WantedOK'
  BY <1>1 DEF WantedOK
<1> QED  BY <1>1, <1>4, <1>5, <1>6, <1>7, <1>8, <1>9, <1>10 DEF Consistent

\* The missions of the list stay where they are.
LEMMA DcsSame ==
    ASSUME Known, Waiting, Consistent, toDcs # <<>>, toDcs' = Tail(toDcs),
           UNCHANGED <<task, onEmpty, wanted>>, status = "RUNNING", status' # "SHUTDOWN",
           NEW a \in Answer, toBot' = Append(toBot, a), a.task = Head(toDcs).task,
           Head(toDcs).cmd \in {"replace", "start", "list"}, Same(dcs, dcs'),
           list' \in {list, dcs'}, Head(toDcs).cmd = "list" => a.list = dcs'
    PROVE  Consistent'
<1>1. Base = dcs /\ PartOf(dcs, dcs') /\ PartOf(dcs', dcs) /\ Listed(dcs) = Listed(dcs')
  BY SameListed DEF Base, Same
<1>2. /\ task[a.task].kind \in {"replace", "load", "validate"} /\ task[a.task] # Nil
      /\ task[a.task].kind = "validate" => Head(toDcs).cmd = "list"
      /\ ReplyOK(task[a.task], dcs', wanted)
  BY HeadOK DEF RequestOK, ReplyOK
<1>3. NoTwice(dcs')
  BY <1>1, SameIs DEF Consistent
<1>4. \A u \in Task : task[u] # Nil => FrameOK(task[u], dcs')
  BY <1>1, FrameKept DEF Consistent, Frames
<1>5. \A i \in DOMAIN toDcs : RequestOK(toDcs[i], task[toDcs[i].task], dcs', wanted)
  BY RequestKept DEF Consistent, Requests
<1>6. \A j \in DOMAIN toBot : ReplyOK(task[toBot[j].task], dcs', wanted)
  BY <1>1, ReplyKept DEF Consistent, Replies
<1>7. \A u, v \in Task : u # v /\ task[u] # Nil /\ task[v] # Nil => Apart(task[u], task[v], dcs')
  BY <1>1, ApartKept DEF Consistent, Exclusive
<1>8. onEmpty # Nil => Named(dcs', onEmpty.idx, onEmpty.name)
  BY <1>1, SameIs DEF Consistent, Reserved
<1>9. ASSUME NEW s, NEW k, View(s, k, toBot, task, dcs) PROVE View(s, k, toBot', task, dcs')
  <2>1. View(s, k, toBot', task, dcs)
    BY <1>9, ViewAppend DEF Known
  <2> QED  BY <2>1, ViewKept, SameRefl
<1>10. View(list', 0, toBot', task, dcs')
  BY <1>1, <1>9, ViewOfIt DEF Consistent, Views
<1>11. \A k \in DOMAIN toBot : task[toBot[k].task].kind \in {"add", "delete", "validate"} =>
           View(toBot[k].list, k, toBot', task, dcs')
  BY <1>1, <1>9 DEF Consistent, Views
<1>12. \A n \in Name : Settled(n, toBot', task) => (n \in wanted <=> n \in Listed(dcs'))
  BY <1>1, <1>2, SettledSoon DEF Consistent, WantedOK
<1> QED  BY <1>2, <1>3, <1>4, <1>5, <1>6, <1>7, <1>8, <1>10, <1>11, <1>12, DcsStep

LEMMA SavesIs ==
    ASSUME Known, toDcs # <<>>, NEW s \in Seq(Path), Saves(s)
    PROVE  /\ dcs' = s /\ list' = s
           /\ \E a \in Answer : toBot' = Append(toBot, a) /\ a.task = Head(toDcs).task /\ a.list = s
<1> DEFINE a == [task |-> Head(toDcs).task, list |-> s, ok |-> TRUE]
<1>1. a \in Answer /\ a.task = Head(toDcs).task /\ a.list = s
  BY HeadIs DEF Answer
<1>2. dcs' = s /\ list' = s /\ toBot' = Append(toBot, a)
  BY DEF Saves
<1> HIDE DEF a
<1> QED  BY <1>1, <1>2

LEMMA LuaAddKeeps ==
    ASSUME Known, Waiting, Consistent, LuaAdd
    PROVE  Consistent'
<1> DEFINE h == Head(toDcs)
           t == h.task
           n == task[t].name
<1>1. /\ toDcs # <<>> /\ toDcs' = Tail(toDcs) /\ UNCHANGED <<task, onEmpty, wanted>>
      /\ status = "RUNNING" /\ status' # "SHUTDOWN" /\ h.cmd = "add"
  BY DEF LuaAdd, Takes, Online
<1>2. /\ task[t] # Nil /\ task[t].kind = "add" /\ task[t].pc = "answer" /\ t \in Task
      /\ h.idx = 0 /\ h.path[1] = n /\ n \in wanted /\ n \notin Listed(dcs)
  BY <1>1, HeadOK DEF RequestOK
<1>3. h.path \in Path /\ dcs \in Seq(Path) /\ list \in Seq(Path) /\ Base = dcs
  BY <1>1, HeadIs, BaseType DEF Base
<1> DEFINE s == Append(dcs, h.path)
<1>4. PartOf(dcs, s) /\ Listed(s) = Listed(dcs) \cup {n} /\ NoTwice(s) /\ s \in Seq(Path)
  <2> HIDE DEF h, n, t
  <2>1. NoTwice(dcs)
    BY <1>3 DEF Consistent
  <2> QED  BY <1>2, <1>3, <2>1, AppendListed
<1>5. Saves(s)
  BY <1>2 DEF LuaAdd
<1>6. PICK a \in Answer : toBot' = Append(toBot, a) /\ a.task = t /\ a.list = s
  BY <1>1, <1>4, <1>5, SavesIs
<1>7. dcs' = s /\ list' = s
  BY <1>1, <1>4, <1>5, SavesIs
<1>8. /\ \A i \in DOMAIN toDcs : i # 1 => toDcs[i].task # t /\ toDcs[i].task \in Task
                                          /\ RequestOK(toDcs[i], task[toDcs[i].task], dcs, wanted)
      /\ \A j \in DOMAIN toBot : toBot[j].task # t /\ toBot[j].task \in Task
                                 /\ ReplyOK(task[toBot[j].task], dcs, wanted)
  BY <1>1, HeadOK DEF Consistent, Requests, Replies
<1>9. \A i, m : Named(dcs, i, m) => Named(s, i, m)
  BY <1>4, SameIs
<1>10. \A k, d : View(d, k, toBot, task, dcs) /\ k \in Nat /\ k <= Len(toBot)
                    => View(d, k, toBot', task, s)
  <2>1. task[a.task].kind = "add" /\ task[a.task].name = h.path[1] /\ toBot \in Seq(Answer)
    BY <1>2, <1>6 DEF Known
  <2> HIDE DEF h, n, t
  <2> QED  BY <1>3, <1>6, <2>1, ViewAdds DEF s
<1> HIDE DEF h, t, n, s
<1>11. \A u \in Task \ {t} : task[u] # Nil /\ task[u].kind \in {"add", "delete"} => task[u].name # n
  BY <1>2 DEF Consistent, Exclusive, Apart, n
<1>12. \A u \in Task : task[u] # Nil => FrameOK(task[u], s)
  BY <1>3, <1>4, FrameKept DEF Consistent, Frames
<1>13. ASSUME NEW i \in DOMAIN toDcs, i # 1
       PROVE  RequestOK(toDcs[i], task[toDcs[i].task], s, wanted)
  <2> DEFINE c == task[toDcs[i].task]
             r == toDcs[i]
  <2>1. RequestOK(r, c, dcs, wanted) /\ (c.kind = "add" => c.name # n)
    BY <1>8, <1>11, <1>13 DEF RequestOK
  <2> HIDE DEF c, r
  <2>2. RequestOK(r, c, s, wanted)
    BY <1>4, <1>9, <2>1 DEF RequestOK
  <2> QED  BY <2>2 DEF c, r
<1>14. ASSUME NEW j \in DOMAIN toBot
       PROVE  ReplyOK(task[toBot[j].task], s, wanted)
  BY <1>4, <1>8, <1>11 DEF ReplyOK
<1>15. ReplyOK(task[t], s, wanted)
  BY <1>2, <1>4 DEF ReplyOK, n
<1>16. ASSUME NEW u \in Task, NEW v \in Task, u # v, task[u] # Nil, task[v] # Nil
       PROVE  Apart(task[u], task[v], s)
  <2>1. Apart(task[u], task[v], dcs)
    BY <1>3, <1>16 DEF Consistent, Exclusive
  <2>2. task[v].kind = "add" /\ task[v].pc = "scheduled" => task[v].name # n
    BY <1>2, <1>11, <1>16
  <2> QED  BY <1>4, <2>1, <2>2 DEF Apart
<1>17. onEmpty # Nil => Named(s, onEmpty.idx, onEmpty.name)
  BY <1>3, <1>9 DEF Consistent, Reserved
<1>18. View(s, 0, toBot', task, s)
  BY ViewOfIt
<1>19. ASSUME NEW k \in DOMAIN toBot, task[toBot[k].task].kind \in {"add", "delete", "validate"}
       PROVE  View(toBot[k].list, k, toBot', task, s)
  <2>1. k \in Nat /\ k <= Len(toBot)
    BY DEF Known
  <2> QED  BY <1>3, <1>10, <1>19, <2>1 DEF Consistent, Views
<1>20. ASSUME NEW m \in Name, Settled(m, toBot', task) PROVE m \in wanted <=> m \in Listed(s)
  <2>1. CASE m = n
    BY <1>2, <1>4, <2>1
  <2>2. CASE m # n
    <3>1. Settled(m, toBot, task)
      BY <1>6, <1>20, <2>2, SettledSoon DEF n
    <3> QED  BY <1>3, <1>4, <2>2, <3>1 DEF Consistent, WantedOK
  <2> QED  BY <2>1, <2>2
<1>21. a.task = Head(toDcs).task /\ a.list = dcs'
  BY <1>6, <1>7 DEF t, h
<1> QED  BY <1>1, <1>4, <1>6, <1>7, <1>12, <1>13, <1>14, <1>15, <1>16, <1>17, <1>18, <1>19, <1>20, <1>21, DcsStep

LEMMA LuaDeleteKeeps ==
    ASSUME Known, Waiting, Consistent, LuaDelete
    PROVE  Consistent'
<1> DEFINE h == Head(toDcs)
           t == h.task
           n == task[t].name
           x == h.idx
           s == RemoveAt(dcs, x)
<1>1. /\ toDcs # <<>> /\ toDcs' = Tail(toDcs) /\ UNCHANGED <<task, onEmpty, wanted>>
      /\ status = "RUNNING" /\ status' # "SHUTDOWN" /\ h.cmd = "delete"
  BY DEF LuaDelete, Takes, Online
<1>2. /\ task[t] # Nil /\ task[t].kind = "delete" /\ task[t].pc = "answer" /\ t \in Task
      /\ x = task[t].idx /\ Named(dcs, x, n) /\ n \notin wanted
  BY <1>1, HeadOK DEF RequestOK
<1>3. dcs \in Seq(Path) /\ list \in Seq(Path) /\ Base = dcs /\ NoTwice(dcs)
  BY <1>1, BaseType DEF Base, Consistent
<1>4. x \in DOMAIN dcs /\ dcs[x][1] = n
  BY <1>2 DEF Named
<1>5. s \in Seq(Path) /\ Listed(s) = Listed(dcs) \ {n} /\ NoTwice(s)
  <2> HIDE DEF h, n, t, x
  <2> QED  BY <1>3, <1>4, RemoveListed
<1>6. Saves(s)
  BY <1>4 DEF LuaDelete
<1>7. PICK a \in Answer : toBot' = Append(toBot, a) /\ a.task = t /\ a.list = s
  BY <1>1, <1>5, <1>6, SavesIs
<1>8. dcs' = s /\ list' = s
  BY <1>1, <1>5, <1>6, SavesIs
<1>9. a.task = Head(toDcs).task /\ a.list = dcs'
  BY <1>7, <1>8
<1>10. /\ \A i \in DOMAIN toDcs : i # 1 => toDcs[i].task # t /\ toDcs[i].task \in Task
                                           /\ RequestOK(toDcs[i], task[toDcs[i].task], dcs, wanted)
       /\ \A j \in DOMAIN toBot : toBot[j].task # t /\ toBot[j].task \in Task
                                  /\ ReplyOK(task[toBot[j].task], dcs, wanted)
  BY <1>1, HeadOK DEF Consistent, Requests, Replies
<1> HIDE DEF h, t, n, s, x
<1>11. /\ onEmpty = Nil
       /\ \A u \in Task \ {t} : task[u] # Nil => task[u].kind \notin {"delete", "replace", "load"}
       /\ \A u \in Task \ {t} : task[u] # Nil /\ task[u].kind = "add" => task[u].name # n
  BY <1>2 DEF Consistent, Exclusive, Apart, Reserved, n
<1>12. ASSUME NEW u \in Task, task[u] # Nil PROVE FrameOK(task[u], s)
  <2>1. FrameOK(task[u], dcs)
    BY <1>3, <1>12 DEF Consistent, Frames
  <2>2. CASE u = t
    BY <1>2, <2>1, <2>2 DEF FrameOK
  <2>3. CASE u # t
    BY <1>11, <1>12, <2>1, <2>3 DEF FrameOK
  <2> QED  BY <2>2, <2>3
<1>13. ASSUME NEW i \in DOMAIN toDcs, i # 1
       PROVE  RequestOK(toDcs[i], task[toDcs[i].task], s, wanted)
  <2> DEFINE c == task[toDcs[i].task]
             r == toDcs[i]
  <2>1. RequestOK(r, c, dcs, wanted) /\ c.kind \notin {"delete", "replace", "load"}
    BY <1>10, <1>11, <1>13 DEF RequestOK
  <2> HIDE DEF c, r
  <2>2. RequestOK(r, c, s, wanted)
    BY <1>5, <2>1 DEF RequestOK
  <2> QED  BY <2>2 DEF c, r
<1>14. ASSUME NEW j \in DOMAIN toBot
       PROVE  /\ ReplyOK(task[toBot[j].task], s, wanted)
              /\ task[toBot[j].task].kind # "delete"
              /\ task[toBot[j].task].kind = "add" => task[toBot[j].task].name # n
  <2> DEFINE c == task[toBot[j].task]
  <2>1. ReplyOK(c, dcs, wanted) /\ c.kind # "delete" /\ (c.kind = "add" => c.name # n)
    BY <1>10, <1>11 DEF ReplyOK
  <2> HIDE DEF c
  <2>2. ReplyOK(c, s, wanted)
    BY <1>5, <2>1 DEF ReplyOK
  <2> QED  BY <2>1, <2>2 DEF c
<1>15. ReplyOK(task[t], s, wanted)
  BY <1>2, <1>5 DEF ReplyOK, n
<1>16. \A u, v \in Task : u # v /\ task[u] # Nil /\ task[v] # Nil => Apart(task[u], task[v], s)
  <2>1. Listed(s) \subseteq Listed(dcs)
    BY <1>5
  <2> QED  BY <1>3, <2>1, ApartKept DEF Consistent, Exclusive
<1>17. View(s, 0, toBot', task, s)
  BY ViewOfIt
<1>18. ASSUME NEW k \in DOMAIN toBot, task[toBot[k].task].kind \in {"add", "delete", "validate"}
       PROVE  View(toBot[k].list, k, toBot', task, s)
  <2> DEFINE d == toBot[k].list
  <2>1. k \in Nat /\ k <= Len(toBot) /\ toBot \in Seq(Answer)
    BY DEF Known
  <2>2. d \in Seq(Path)
    <3>1. toBot[k] \in Answer
      BY <2>1
    <3> QED  BY <3>1 DEF Answer
  <2>3. View(d, k, toBot, task, dcs)
    BY <1>3, <1>18 DEF Consistent, Views
  <2>4. task[a.task].kind = "delete" /\ task[a.task].idx = x /\ task[a.task].name = n
    BY <1>2, <1>7 DEF n
  <2> HIDE DEF d
  <2>5. View(d, k, Append(toBot, a), task, RemoveAt(dcs, x))
    BY <1>3, <1>4, <1>14, <2>1, <2>2, <2>3, <2>4, ViewDeletes
  <2> QED  BY <1>7, <2>5 DEF d, s
<1>19. ASSUME NEW m \in Name, Settled(m, toBot', task) PROVE m \in wanted <=> m \in Listed(s)
  <2>1. CASE m = n
    BY <1>2, <1>5, <2>1
  <2>2. CASE m # n
    <3>1. Settled(m, toBot, task)
      BY <1>7, <1>19, <2>2, SettledSoon DEF n
    <3> QED  BY <1>3, <1>5, <2>2, <3>1 DEF Consistent, WantedOK
  <2> QED  BY <2>1, <2>2
<1> QED  BY <1>1, <1>5, <1>7, <1>8, <1>9, <1>11, <1>12, <1>13, <1>14, <1>15, <1>16, <1>17, <1>18, <1>19, DcsStep

LEMMA LuaReplaceKeeps ==
    ASSUME Known, Waiting, Consistent, LuaReplace
    PROVE  Consistent'
<1> DEFINE h == Head(toDcs)
           p == h.path
           i == h.idx
           s == [dcs EXCEPT ![i] = p]
<1>1. /\ toDcs # <<>> /\ toDcs' = Tail(toDcs) /\ UNCHANGED <<task, onEmpty, wanted>>
      /\ status = "RUNNING" /\ status' # "SHUTDOWN" /\ h.cmd = "replace"
  BY DEF LuaReplace, Takes, Online
<1>2. Named(dcs, i, p[1])
  BY <1>1, HeadOK DEF RequestOK
<1>3. p \in Path /\ i \in Nat /\ dcs \in Seq(Path)
  BY <1>1, HeadIs, BaseType
<1>4. Saves(s)
  BY <1>2 DEF LuaReplace, Named
<1> HIDE DEF h, p, i
<1>5. s \in Seq(Path) /\ Len(s) = Len(dcs) /\ \A j \in DOMAIN dcs : s[j] = IF j = i THEN p ELSE dcs[j]
  BY <1>3, ExceptIs
<1>6. Same(dcs, s)
  <2>1. DOMAIN s = DOMAIN dcs
    BY <1>3, <1>5
  <2> HIDE DEF s
  <2>2. \A j \in DOMAIN dcs : s[j][1] = dcs[j][1]
    BY <1>2, <1>5 DEF Named
  <2> QED  BY <2>1, <2>2 DEF Same, PartOf, Named
<1>7. PICK a \in Answer : toBot' = Append(toBot, a) /\ a.task = Head(toDcs).task /\ a.list = s
  BY <1>1, <1>4, <1>5, SavesIs
<1>8. dcs' = s /\ list' = s
  BY <1>1, <1>4, <1>5, SavesIs
<1> QED  BY <1>1, <1>6, <1>7, <1>8, DcsSame DEF h

LEMMA LuaListKeeps ==
    ASSUME Known, Waiting, Consistent, LuaList
    PROVE  Consistent'
<1> DEFINE a == [task |-> Head(toDcs).task, list |-> dcs, ok |-> TRUE]
<1>1. /\ toDcs # <<>> /\ toDcs' = Tail(toDcs) /\ UNCHANGED <<task, onEmpty, wanted, list, dcs>>
      /\ status = "RUNNING" /\ status' # "SHUTDOWN" /\ Head(toDcs).cmd = "list" /\ toBot' = Append(toBot, a)
  BY DEF LuaList, Takes, Online, dcsVars
<1>2. a \in Answer /\ a.task = Head(toDcs).task /\ a.list = dcs
  BY <1>1, HeadIs, BaseType DEF Answer
<1> HIDE DEF a
<1> QED  BY <1>1, <1>2, SameRefl, DcsSame

LEMMA LuaStartKeeps ==
    ASSUME Known, Waiting, Consistent, LuaStart
    PROVE  Consistent'
<1> DEFINE i == Head(toDcs).idx
           done == i = 0 \/ i \in DOMAIN dcs
           a == [task |-> Head(toDcs).task, list |-> <<>>, ok |-> done]
<1>1. /\ toDcs # <<>> /\ toDcs' = Tail(toDcs) /\ UNCHANGED <<task, onEmpty, wanted, list, dcs>>
      /\ status = "RUNNING" /\ status' # "SHUTDOWN" /\ Head(toDcs).cmd = "start" /\ toBot' = Append(toBot, a)
  BY DEF LuaStart, Takes, Online, dcsVars
<1>2. a \in Answer /\ a.task = Head(toDcs).task
  <2>1. done \in BOOLEAN /\ <<>> \in Seq(Path)
    OBVIOUS
  <2> HIDE DEF done
  <2> QED  BY <1>1, <2>1, HeadIs DEF Answer
<1> HIDE DEF a
<1> QED  BY <1>1, <1>2, SameRefl, DcsSame

-----------------------------------------------------------------------------
(* Answers, and the process of DCS.                                        *)

LEMMA AnsweredStep ==
    ASSUME Known, Waiting, Consistent, toBot # <<>>, toBot' = Tail(toBot), NEW t, t = Head(toBot).task,
           UNCHANGED <<status, dcs, onEmpty, toDcs, wanted>>, NEW e, task'[t] = e,
           \A u \in Task \ {t} : task'[u] = task[u],
           e # Nil => task[t].kind = "load" /\ e.kind = "load" /\ FrameOK(e, dcs),
           \/ list' = list /\ task[t].kind \notin {"add", "delete"}
           \/ list' = Head(toBot).list /\ task[t].kind \in {"add", "delete", "validate"}
    PROVE  Consistent'
<1>1. /\ t = toBot[1].task /\ 1 \in DOMAIN toBot /\ toBot \in Seq(Answer)
      /\ \A i \in DOMAIN toBot' : i + 1 \in DOMAIN toBot /\ toBot'[i] = toBot[i + 1]
      /\ \A i \in DOMAIN toBot' : i \in Nat /\ i + 1 # 1
  BY FirstAnswer DEF Known
<1>2. t \in Task /\ task[t] # Nil /\ t # Nil
  BY <1>1, AnswersAre, MissionAssumption
<1>3. status # "SHUTDOWN" /\ Base = dcs /\ Base' = dcs
  BY DEF Waiting, Base
<1>4. /\ \A i \in DOMAIN toDcs : toDcs[i].task # t
      /\ \A i \in DOMAIN toBot : i # 1 => toBot[i].task # t
  BY <1>1, <1>2 DEF Waiting
<1>5. NoTwice(Base')
  BY <1>3 DEF Consistent
<1>6. Frames'
  BY <1>3 DEF Consistent, Frames
<1>7. Requests'
  BY <1>4 DEF Consistent, Requests
<1>8. Replies'
  BY <1>1, <1>4 DEF Consistent, Replies
<1>9. Exclusive'
  <2>1. e # Nil => \A u \in Task : task[u] # Nil => task[u].kind # "delete"
    BY <1>2 DEF Consistent, Exclusive, Apart
  <2>2. e # Nil => \A d : (d.kind # "delete" => Apart(d, e, dcs)) /\ Apart(e, d, dcs)
    BY DEF Apart
  <2> QED  BY <1>2, <1>3, <2>1, <2>2 DEF Consistent, Exclusive
<1>10. Reserved'
  BY <1>3 DEF Consistent, Reserved
<1>11. \A j \in DOMAIN toBot' : task[toBot'[j].task] = task'[toBot'[j].task]
  BY <1>1, <1>4 DEF Consistent, Replies
<1>12. Views'
  <2>1. View(list', 0, toBot', task', dcs)
    <3>1. CASE list' = list /\ task[t].kind \notin {"add", "delete"}
      <4>1. View(list, 0, toBot, task, dcs)
        BY <1>3 DEF Consistent, Views
      <4>2. View(list, 0, Tail(toBot), task', dcs)
        BY <1>1, <1>11, <3>1, <4>1, ViewTail
      <4> QED  BY <3>1, <4>2
    <3>2. CASE list' = Head(toBot).list /\ task[t].kind \in {"add", "delete", "validate"}
      <4> DEFINE s == toBot[1].list
      <4>1. View(s, 1, toBot, task, dcs)
        BY <1>1, <1>3, <3>2 DEF Consistent, Views
      <4>2. list' = s
        BY <1>1, <3>2, FirstAnswer
      <4> HIDE DEF s
      <4>3. View(s, 0, Tail(toBot), task', dcs)
        BY <1>1, <1>11, <4>1, ViewTail
      <4> QED  BY <4>2, <4>3
    <3> QED  BY <3>1, <3>2
  <2>2. ASSUME NEW k \in DOMAIN toBot',
               task'[toBot'[k].task].kind \in {"add", "delete", "validate"}
        PROVE  View(toBot'[k].list, k, toBot', task', dcs)
    <3> DEFINE s == toBot[k + 1].list
               m == k + 1
    <3>1. m \in DOMAIN toBot /\ toBot'[k] = toBot[m] /\ k \in Nat /\ m \in Nat
      BY <1>1
    <3>2. task[toBot[m].task].kind \in {"add", "delete", "validate"}
      BY <1>11, <2>2, <3>1
    <3>3. View(s, m, toBot, task, dcs)
      BY <1>3, <3>1, <3>2 DEF Consistent, Views
    <3>4. m = k + 1 /\ toBot'[k].list = s
      BY <3>1
    <3> HIDE DEF s, m
    <3>5. View(s, k, Tail(toBot), task', dcs)
      BY <1>1, <1>11, <3>1, <3>3, <3>4, ViewTail
    <3> QED  BY <3>4, <3>5
  <2> QED  BY <1>3, <2>1, <2>2 DEF Views
<1>13. WantedOK'
  <2>1. ASSUME NEW n \in Name, Settled(n, toBot', task') PROVE Settled(n, toBot, task)
    <3>1. ASSUME NEW u \in Task, task[u] # Nil, task[u].kind \in {"add", "delete"},
                 task[u].pc = "answer", task[u].name = n
          PROVE  \E i \in DOMAIN toBot : toBot[i].task = u
      <4>1. CASE u = t
        BY <1>1, <4>1
      <4>2. CASE u # t
        <5>1. PICK i \in DOMAIN toBot' : toBot'[i].task = u
          BY <2>1, <3>1, <4>2 DEF Settled
        <5> QED  BY <1>1, <5>1
      <4> QED  BY <4>1, <4>2
    <3> QED  BY <3>1 DEF Settled
  <2> QED  BY <1>3, <2>1 DEF Consistent, WantedOK
<1> QED  BY <1>5, <1>6, <1>7, <1>8, <1>9, <1>10, <1>12, <1>13 DEF Consistent

LEMMA AnsweredKeeps ==
    ASSUME Known, Waiting, Consistent, Answered
    PROVE  Consistent'
<1> DEFINE t == Head(toBot).task
           e == [task[t] EXCEPT !.pc = "start", !.read = list]
<1>1. /\ toBot # <<>> /\ toBot' = Tail(toBot) /\ UNCHANGED <<status, dcs, onEmpty, toDcs, wanted>>
  BY DEF Answered, dcsVars
<1>2. t = toBot[1].task /\ 1 \in DOMAIN toBot
  BY <1>1, FirstAnswer
<1>3. t \in Task /\ task[t] # Nil /\ ReplyOK(task[t], dcs, wanted)
  BY <1>2, AnswersAre
<1>4. t # Nil /\ Base = dcs
  BY <1>1, <1>3, MissionAssumption DEF Base, Waiting
<1>5. task[t] \in Framed /\ task[t].kind \in {"add", "delete", "replace", "load", "validate"}
      /\ FrameOK(task[t], dcs)
  BY <1>3, <1>4, FrameOf DEF Consistent, Frames
<1>6. CASE task[t].pc = "replaced"
  <2>1. Becomes(t, e) /\ list' = list /\ task[t].kind = "load"
    BY <1>3, <1>4, <1>6 DEF Answered, ReplyOK
  <2>2. \A u \in Task : task[u] # Nil => task[u].kind # "delete"
    BY <1>3, <2>1 DEF Consistent, Exclusive, Apart
  <2>3. PartOf(list, dcs) /\ list \in Seq(Path)
    BY <1>4, <2>2, ListStarts, BaseType
  <2>4. /\ e \in Framed /\ e.kind = "load" /\ e.pc = "start" /\ e.name = task[t].name
        /\ e.path = task[t].path /\ e.read = list
    BY <1>5, <2>1, <2>3, NextRead
  <2>5. task[t].path[1] = task[t].name
    BY <1>5, <2>1 DEF FrameOK
  <2> HIDE DEF e, t
  <2>6. FrameOK(e, dcs)
    BY <2>3, <2>4, <2>5 DEF FrameOK
  <2>7. task'[t] = e /\ \A u \in Task \ {t} : task'[u] = task[u]
    BY <1>3, <2>1, <2>4, BecomesTypes
  <2>8. t = Head(toBot).task
    BY DEF t
  <2> QED  BY <1>1, <2>1, <2>4, <2>6, <2>7, <2>8, AnsweredStep
<1>7. CASE task[t].pc # "replaced"
  <2>1. /\ Ends(t)
        /\ \/ list' = list /\ task[t].kind \notin {"add", "delete"}
           \/ list' = Head(toBot).list /\ task[t].kind \in {"add", "delete", "validate"}
    BY <1>3, <1>4, <1>7 DEF Answered
  <2>2. t = Head(toBot).task
    OBVIOUS
  <2> HIDE DEF t
  <2>3. task'[t] = Nil /\ \A u \in Task \ {t} : task'[u] = task[u]
    BY <1>3, <2>1, EndsIs
  <2> QED  BY <1>1, <2>1, <2>2, <2>3, AnsweredStep
<1> QED  BY <1>6, <1>7

\* The missions without a file are dropped; nobody keeps an index then.
LEMMA StartupKeeps ==
    ASSUME Known, Waiting, Consistent, Calm, Startup
    PROVE  Consistent'
<1>1. /\ toDcs = <<>> /\ toBot = <<>> /\ Base = list /\ Base' = list'
      /\ UNCHANGED <<onEmpty, task, toDcs, toBot>>
      /\ wanted' = {n \in wanted : n \in disk \/ <<n, "copy">> \in Range(list)}
  BY DEF Startup, Waiting, Base
<1>2. list \in Seq(Path) /\ list' \in WithFile(list)
  BY BaseType DEF Startup
<1>3. PICK f : /\ f \in [DOMAIN list' -> DOMAIN list]
               /\ \A j, k \in DOMAIN list' : f[j] = f[k] => j = k
               /\ \A k \in DOMAIN list' : list'[k] = list[f[k]] /\ Stored(list[f[k]])
               /\ \A i \in DOMAIN list : Stored(list[i]) => \E k \in DOMAIN list' : f[k] = i
  BY <1>2, WithFileIs
<1>4. NoTwice(list')
  BY <1>1, <1>3 DEF Consistent, NoTwice
<1>5. \A n : n \in Listed(list') <=> n \in Listed(list) /\ (n \in disk \/ <<n, "copy">> \in Range(list))
  <2>1. \A i \in DOMAIN list : /\ list[i] \in Path
                               /\ Stored(list[i]) <=> list[i][1] \in disk \/ list[i] = <<list[i][1], "copy">>
    BY <1>2 DEF Path, Stored
  <2>2. ASSUME NEW k \in DOMAIN list'
        PROVE  list'[k][1] \in Listed(list) /\ (list'[k][1] \in disk \/ <<list'[k][1], "copy">> \in Range(list))
    BY <1>3, <2>1 DEF Listed, Range
  <2>3. ASSUME NEW n, n \in Listed(list), n \in disk \/ <<n, "copy">> \in Range(list)
        PROVE  n \in Listed(list')
    <3>1. PICK i \in DOMAIN list : list[i][1] = n /\ Stored(list[i])
      BY <2>3 DEF Listed, Range, Stored
    <3> QED  BY <1>3, <3>1 DEF Listed
  <2> QED  BY <2>2, <2>3 DEF Listed
<1>6. list' = list \/ /\ onEmpty = Nil
                      /\ \A t \in Task : task[t] # Nil => task[t].kind \notin {"delete", "replace", "load"}
  BY CalmMeans DEF Startup
<1>7. Frames'
  BY <1>1, <1>6 DEF Consistent, Frames, FrameOK
<1>8. Requests' /\ Replies'
  BY <1>1 DEF Requests, Replies
<1>9. Exclusive'
  BY <1>1, <1>5, ApartKept DEF Consistent, Exclusive
<1>10. Reserved'
  BY <1>1, <1>6 DEF Consistent, Reserved
<1>11. Views'
  <2>1. View(list', 0, toBot', task', Base')
    BY <1>1, ViewOfIt
  <2> QED  BY <1>1, <2>1 DEF Views
<1>12. WantedOK'
  BY <1>1, <1>5 DEF Consistent, WantedOK
<1> QED  BY <1>1, <1>4, <1>7, <1>8, <1>9, <1>10, <1>11, <1>12 DEF Consistent

\* The file is what DCS had, once its answers have arrived.
LEMMA ShutdownKeeps ==
    ASSUME Known, Waiting, Consistent, Shutdown
    PROVE  Consistent'
<1>1. /\ toDcs' = <<>> /\ toBot = <<>> /\ Base = dcs /\ Base' = list
      /\ UNCHANGED <<list, onEmpty, task, toBot, wanted>>
  BY DEF Shutdown, Base, Online
<1>2. PartOf(dcs, list) /\ PartOf(list, dcs) /\ Listed(list) = Listed(dcs)
  BY <1>1, ListSame, SameListed DEF Same
<1>3. NoTwice(list)
  BY <1>1, <1>2, SameIs DEF Consistent
<1>4. Frames'
  BY <1>1, <1>2, FrameKept DEF Consistent, Frames
<1>5. Requests' /\ Replies'
  BY <1>1 DEF Requests, Replies
<1>6. Exclusive'
  BY <1>1, <1>2, ApartKept DEF Consistent, Exclusive
<1>7. Reserved'
  BY <1>1, <1>2, SameIs DEF Consistent, Reserved
<1>8. Views'
  <2>1. View(list', 0, toBot', task', Base')
    BY <1>1, ViewOfIt
  <2> QED  BY <1>1, <2>1 DEF Views
<1>9. WantedOK'
  BY <1>1, <1>2 DEF Consistent, WantedOK
<1> QED  BY <1>1, <1>3, <1>4, <1>5, <1>6, <1>7, <1>8, <1>9 DEF Consistent

LEMMA ListInitConsistent ==
    ASSUME ListInit
    PROVE  Known /\ Waiting /\ Consistent
<1>1. /\ Known /\ NoTwice(list) /\ Listed(list) = disk /\ wanted = disk /\ Base = list
      /\ toDcs = <<>> /\ toBot = <<>> /\ onEmpty = Nil /\ \A t \in Task : task[t] = Nil
  BY ListInitTypes DEF ListInit, Base
<1>2. Waiting
  BY <1>1 DEF Waiting
<1>3. Frames /\ Requests /\ Replies /\ Exclusive /\ Reserved /\ WantedOK
  BY <1>1 DEF Frames, Requests, Replies, Exclusive, Reserved, WantedOK
<1>4. Views
  BY <1>1, ViewOfIt DEF Views
<1> QED  BY <1>1, <1>2, <1>3, <1>4 DEF Consistent

LEMMA ConsistentKept ==
    ASSUME Known, Waiting, Consistent, Calm, [ListNext]_listVars
    PROVE  Consistent'
<1>1. CASE UNCHANGED listVars
  BY <1>1 DEF Consistent, Base, Frames, Requests, Replies, Exclusive, Reserved, Views, WantedOK, listVars
<1>2. CASE Dcs
  BY <1>2, LuaAddKeeps, LuaDeleteKeeps, LuaReplaceKeeps, LuaListKeeps, LuaStartKeeps DEF Dcs
<1>3. CASE Answered \/ Startup \/ Shutdown
  BY <1>3, AnsweredKeeps, StartupKeeps, ShutdownKeeps
<1>4. ASSUME NEW t \in Task, Steps(t)
      PROVE  Consistent'
  BY <1>4, DeleteConfirmedKeeps, RollbackReplacesKeeps, LoadStartsKeeps, ScheduledKeeps,
     LoadModifiedKeeps, ServerEmptyKeeps, MissionRunsKeeps, TimesOutKeeps DEF Steps
<1>5. ASSUME NEW t \in Task, Orders(t)
      PROVE  Consistent'
  BY <1>5, OrderAddKeeps, UnlinkKeeps, CreateKeeps, MoveKeeps, OrderDeleteKeeps, OrderRollbackKeeps,
     OrderLoadKeeps, OrderLaterKeeps DEF Orders
<1> QED  BY <1>1, <1>2, <1>3, <1>4, <1>5 DEF ListNext

-----------------------------------------------------------------------------
(* What follows.                                                           *)

LEMMA ListedCount ==
    ASSUME NEW s \in Seq(Path), NoTwice(s)
    PROVE  Cardinality(Listed(s)) = Len(s)
<1> DEFINE n == Len(s)
           f == [i \in 1..n |-> s[i][1]]
<1>1. n \in Nat /\ DOMAIN s = 1..n
  OBVIOUS
<1> HIDE DEF n
<1>2. f \in Bijection(1..n, Listed(s))
  <2>1. f \in Surjection(1..n, Listed(s))
    BY <1>1 DEF Surjection, Listed
  <2>2. IsInjective(f)
    BY <1>1 DEF IsInjective, NoTwice
  <2>3. f \in Injection(1..n, Listed(s))
    BY <2>1, <2>2 DEF Injection, Surjection
  <2> QED  BY <2>1, <2>3 DEF Bijection
<1>3. IsFiniteSet(1..n) /\ Cardinality(1..n) = n
  BY <1>1, FS_Interval
<1>4. Cardinality(Listed(s)) = Cardinality(1..n)
  BY <1>2, <1>3, FS_Bijection DEF ExistsBijection
<1> QED  BY <1>3, <1>4 DEF n

LEMMA ConsistentIsWanted ==
    ASSUME Known, Waiting, Consistent
    PROVE  ListIsWanted
<1> SUFFICES ASSUME \A t \in Task : task[t] = Nil, toDcs = <<>>, toBot = <<>>
             PROVE  Listed(list) = wanted /\ Len(list) = Cardinality(wanted)
  BY DEF ListIsWanted
<1>1. PartOf(list, Base) /\ Listed(list) = Listed(Base) /\ list \in Seq(Path)
  BY ListSame, SameListed, BaseType DEF Same
<1>2. \A n \in Name : Settled(n, toBot, task)
  BY DEF Settled
<1>3. Listed(list) \subseteq Name /\ wanted \subseteq Name
  BY <1>1, TwinType DEF Listed, Known
<1>4. Listed(list) = wanted
  BY <1>1, <1>2, <1>3 DEF Consistent, WantedOK
<1>5. NoTwice(list)
  BY <1>1, SameIs DEF Consistent
<1> QED  BY <1>1, <1>4, <1>5, ListedCount

LEMMA StartIsAsked ==
    ASSUME Known, Waiting, Consistent, [ListNext]_listVars, status = "RUNNING", status' = "LOADING"
    PROVE  running'[1] = Head(toDcs).name
<1>1. LuaStart
  <2>1. ~UNCHANGED status
    OBVIOUS
  <2>2. ~(LuaAdd \/ LuaDelete \/ LuaReplace \/ LuaList)
    BY <2>1 DEF LuaAdd, LuaDelete, LuaReplace, LuaList, dcsVars
  <2>3. ~Answered /\ ~Startup /\ ~Shutdown
    BY <2>1 DEF Answered, Startup, Shutdown, dcsVars
  <2>4. \A t \in Task : ~Steps(t)
    BY <2>1 DEF Steps, DeleteConfirmed, RollbackReplaces, LoadStarts, Scheduled, LoadModified, ServerEmpty,
       MissionRuns, TimesOut, dcsVars
  <2>5. \A t \in Task : ~Orders(t)
    BY <2>1 DEF Orders, OrderAdd, Unlink, Create, Move, OrderDelete, OrderRollback, OrderLoad, OrderLater,
       dcsVars
  <2>6. ~UNCHANGED listVars
    BY <2>1 DEF listVars
  <2> QED  BY <2>2, <2>3, <2>4, <2>5, <2>6 DEF ListNext, Dcs
<1> DEFINE r == Head(toDcs)
           c == task[r.task]
<1>2. toDcs # <<>> /\ r.cmd = "start"
  BY <1>1 DEF LuaStart, Takes
<1>3. /\ r.name = c.name /\ r.path[1] = c.name /\ (r.idx = 0 \/ Named(dcs, r.idx, c.name))
  BY <1>2, HeadOK DEF RequestOK
<1>4. running' = IF r.idx = 0 THEN r.path ELSE dcs[r.idx]
  BY <1>1 DEF LuaStart
<1> HIDE DEF r, c
<1>5. r.idx # 0 => dcs[r.idx][1] = c.name
  BY <1>3 DEF Named
<1>6. running'[1] = r.name
  BY <1>3, <1>4, <1>5
<1> QED  BY <1>6 DEF r

\* If people wait for each other and for DCS (Calm), the list is right whenever nothing is
\* under way: exactly the missions that were added and not deleted are listed, each of
\* them once.  No index of a command is wrong when addMission(), deleteMission() or
\* replaceMission() of commands.lua use it, and no answer undoes what another one did.
THEOREM ListIsRight == Calm => (ListSpec => []ListIsWanted)
<1> SUFFICES ASSUME Calm PROVE ListSpec => []ListIsWanted
  OBVIOUS
<1>1. ListInit => Known /\ Waiting /\ Consistent
  BY ListInitConsistent
<1>2. Known /\ Waiting /\ Consistent /\ [ListNext]_listVars => (Known /\ Waiting /\ Consistent)'
  BY ListTypesKept, ConsistentKept
<1>3. Known /\ Waiting /\ Consistent => ListIsWanted
  BY ConsistentIsWanted
<1> QED  BY <1>1, <1>2, <1>3, PTL DEF ListSpec

\* If people wait, DCS starts the mission that was asked for, by the index or the path
\* that loadMission() gives startMission().
THEOREM StartsTheRightOne == Calm => (ListSpec => StartsWhatWasAsked)
<1> SUFFICES ASSUME Calm PROVE ListSpec => StartsWhatWasAsked
  OBVIOUS
<1>1. ListInit => Known /\ Waiting /\ Consistent
  BY ListInitConsistent
<1>2. Known /\ Waiting /\ Consistent /\ [ListNext]_listVars => (Known /\ Waiting /\ Consistent)'
  BY ListTypesKept, ConsistentKept
<1>3. Known /\ Waiting /\ Consistent /\ [ListNext]_listVars =>
          [status = "RUNNING" /\ status' = "LOADING" => running'[1] = Head(toDcs).name]_listVars
  BY StartIsAsked
<1> QED  BY <1>1, <1>2, <1>3, PTL DEF ListSpec, StartsWhatWasAsked

-----------------------------------------------------------------------------
(* The votes: what is shown of them.                                       *)

\* What OneVote is about: votes are created one at a time and cancelled while they are open.
Orderly == May \cap {"race", "early", "late"} = {}

\* What Elected is about: then too, the options of a vote stay as they are, and
\* who creates a vote in Discord does not vote in the game as well.
Honest == Orderly /\ May \cap {"choices", "twice"} = {}

\* The options that can be voted for are different ones, and there is a number for each.
ChoicesOK(s) ==
    /\ s \in Seq(Option) /\ Len(s) \in 1..Cardinality(Option)
    /\ \A i, j \in DOMAIN s : s[i] = s[j] => i = j

VoteTypes == TypeOK /\ ChoicesOK(choices)

\* Somebody creates a vote only while the server has none.
OneCreator ==
    /\ creating # {} => current = None
    /\ creating = {} \/ \E where \in {"chat", "Discord"} : creating = {where}
OneVoteInv == OneVote /\ OneCreator

\* A vote that is cancelled has been created and is over; one that the server has
\* has been created.
CancelledIsOver ==
    /\ \A v \in Vote : v \in cancelled => pc[v] \notin UnderWay \cup {"none"}
    /\ current # None => pc[current] # "none"

\* The ballots of a vote are those of its voters and of who has created it in Discord,
\* one of each; before it is created it has no ballots, voters and votes.
BallotsOK(v) ==
    /\ IsFiniteSet(ballots[v])
    /\ \A b \in ballots[v] : b[1] \in voter[v] \cup {Guest}
    /\ \A b, c \in ballots[v] : b[1] = c[1] => b = c
    /\ pc[v] = "none" => /\ ballots[v] = {} /\ voter[v] = {}
                         /\ \A n \in Number : votes[v][n] = 0

\* All ballots are for an option there is, and a vote is counted for each of them.
Counted(v) ==
    /\ \A b \in ballots[v] : \E i \in DOMAIN choices : b[2] = choices[i]
    /\ \A n \in DOMAIN choices : votes[v][n] = Cardinality(For(v, choices[n]))

\* What is executed has the most ballots.
MostBallots(v) ==
    \A o \in Option : Cardinality(For(v, result[v])) >= Cardinality(For(v, o))

VoteOK(v) ==
    /\ BallotsOK(v)
    /\ pc[v] \in Open => Counted(v)
    /\ pc[v] = "executing" => MostBallots(v)

CountInv == \A v \in Vote : VoteOK(v)

-----------------------------------------------------------------------------
(* Types.                                                                  *)

LEMMA OptionCount == Cardinality(Option) \in Nat \ {0}
BY VotingAssumption, FS_CardinalityType, FS_EmptySet

LEMMA OptionListsChoices ==
    ASSUME NEW s \in OptionLists
    PROVE  ChoicesOK(s)
<1>1. PICK k \in 1..Cardinality(Option) : s \in Injection(1..k, Option)
  BY DEF OptionLists
<1>2. s \in [1..k -> Option] /\ IsInjective(s) /\ k \in Nat
  BY <1>1, OptionCount DEF Injection
<1>3. s \in Seq(Option) /\ Len(s) = k /\ DOMAIN s = 1..k
  BY <1>2
<1> QED  BY <1>2, <1>3, OptionCount DEF ChoicesOK, IsInjective

LEMMA ChoicesStart ==
    ASSUME Init
    PROVE  choices \in OptionLists
<1> DEFINE N == Cardinality(Option)
<1>1. N \in Nat \ {0}
  BY OptionCount
<1>2. \E s \in OptionLists : Len(s) = N
  <2>1. PICK s \in Bijection(1..N, Option) : TRUE
    BY VotingAssumption, FS_CardinalityType DEF ExistsBijection
  <2>2. s \in Injection(1..N, Option) /\ N \in 1..N
    BY <1>1, <2>1 DEF Bijection
  <2>3. s \in [1..N -> Option]
    BY <2>2 DEF Injection
  <2>4. Len(s) = N
    BY <1>1, <2>3
  <2> QED  BY <2>2, <2>4 DEF OptionLists
<1> QED  BY <1>2 DEF Init

LEMMA InitVoteTypes ==
    ASSUME Init
    PROVE  VoteTypes
<1>1. ChoicesOK(choices)
  BY ChoicesStart, OptionListsChoices
<1>2. TypeOK
  BY <1>1 DEF Init, TypeOK, ChoicesOK, NoVotes, UnderWay, Open
<1> QED  BY <1>1, <1>2 DEF VoteTypes

\* A number that is counted.
LEMMA CountsTypes ==
    ASSUME TypeOK, NEW v \in Vote, NEW n \in Number, Counts(v, n)
    PROVE  /\ votes' \in [Vote -> [Number -> Nat]]
           /\ votes'[v][n] = votes[v][n] + 1
           /\ \A k \in Number \ {n} : votes'[v][k] = votes[v][k]
           /\ \A u \in Vote \ {v} : votes'[u] = votes[u]
<1>1. votes \in [Vote -> [Number -> Nat]]
  BY DEF TypeOK
<1>2. votes' = [votes EXCEPT ![v] = [votes[v] EXCEPT ![n] = votes[v][n] + 1]]
  BY DEF Counts
<1> QED  BY <1>1, <1>2

LEMMA MeansTypes ==
    ASSUME VoteTypes, NEW v \in Vote, NEW n \in Number, NEW who \in Player \cup {Guest},
           Means(v, who, n)
    PROVE  ballots' \in [Vote -> SUBSET ((Player \cup {Guest}) \X Option)]
<1>1. n \in DOMAIN choices => choices[n] \in Option
  BY DEF VoteTypes, ChoicesOK
<1> QED  BY <1>1 DEF Means, VoteTypes, TypeOK

LEMMA ForgetsTypes ==
    ASSUME TypeOK, NEW v \in Vote, Forgets(v)
    PROVE  /\ votes' \in [Vote -> [Number -> Nat]] /\ voter' \in [Vote -> SUBSET Player]
           /\ result' \in [Vote -> Option \cup {None}]
           /\ ballots' \in [Vote -> SUBSET ((Player \cup {Guest}) \X Option)]
<1>1. NoVotes \in [Number -> Nat]
  BY DEF NoVotes
<1>2. votes' \in [Vote -> [Number -> Nat]]
  BY <1>1 DEF TypeOK, Forgets
<1>3. ballots' \in [Vote -> SUBSET ((Player \cup {Guest}) \X Option)]
  BY DEF TypeOK, Forgets
<1>4. voter' \in [Vote -> SUBSET Player] /\ result' \in [Vote -> Option \cup {None}]
  BY DEF TypeOK, Forgets
<1> QED  BY <1>2, <1>3, <1>4

LEMMA VoteTypesStep ==
    ASSUME VoteTypes, [Next]_vars
    PROVE  VoteTypes'
<1> USE DEF VoteTypes, TypeOK, handlers, history
<1>1. CASE \/ ChatAsk \/ DiscordAsk \/ \E where \in {"chat", "Discord"} : GivesUp(where)
  BY <1>1 DEF ChatAsk, DiscordAsk, GivesUp, Free
<1>2. ASSUME NEW v \in Vote, ChatCreate(v)
      PROVE  VoteTypes'
  BY <1>2 DEF ChatCreate, Creates, UnderWay, Open
<1>3. ASSUME NEW v \in Vote, Proceeds(v)
      PROVE  VoteTypes'
  <2>1. CASE Starts(v) \/ TimerGoesOff(v) \/ HasNoOption(v) \/ ExecutionFails(v)
    BY <2>1 DEF Starts, TimerGoesOff, HasNoOption, ExecutionFails, UnderWay, Open
  <2>2. CASE NoResult(v) \/ Executed(v)
    BY <2>2, ForgetsTypes DEF NoResult, Executed, Removes
  <2>3. CASE \E n \in Number : HasResult(v, n)
    BY <2>3 DEF HasResult, ChoicesOK, UnderWay
  <2> QED  BY <1>3, <2>1, <2>2, <2>3 DEF Proceeds
<1>4. ASSUME NEW v \in Vote, NEW who \in Player \cup {Guest}, NEW n \in Number,
             DiscordCreate(v, who, n)
      PROVE  VoteTypes'
  BY <1>4, CountsTypes, MeansTypes DEF DiscordCreate, Creates, UnderWay, Open
<1>5. ASSUME NEW p \in Player, NEW n \in Number, TypesNumber(p, n)
      PROVE  VoteTypes'
  BY <1>5, CountsTypes, MeansTypes DEF TypesNumber
<1>6. CASE ChatCancel \/ DiscordCancel
  <2>1. CASE ChatCancel
    <3>1. pc' \in [Vote -> {"none", "over", "failed", "cancelled"} \cup UnderWay]
          /\ cancelled' \subseteq Vote
      BY <2>1 DEF ChatCancel, Cancels
    <3> QED  BY <2>1, <3>1, ForgetsTypes DEF ChatCancel, Removes
  <2>2. CASE DiscordCancel
    BY <2>2 DEF DiscordCancel, Cancels
  <2> QED  BY <1>6, <2>1, <2>2
<1>7. CASE ChoicesChange
  <2>1. ChoicesOK(choices')
    BY <1>7, OptionListsChoices DEF ChoicesChange
  <2> QED  BY <1>7, <2>1 DEF ChoicesChange, ChoicesOK
<1>8. CASE \E p \in Player : Joins(p) \/ Leaves(p)
  BY <1>8 DEF Joins, Leaves
<1>9. CASE UNCHANGED vars
  BY <1>9 DEF vars
<1> QED  BY <1>1, <1>2, <1>3, <1>4, <1>5, <1>6, <1>7, <1>8, <1>9 DEF Next

-----------------------------------------------------------------------------
(* One vote.                                                               *)

OneInv == OneVoteInv /\ CancelledIsOver

LEMMA InitOne ==
    ASSUME Init
    PROVE  OneInv
BY DEF Init, OneInv, OneVoteInv, OneVote, OneCreator, CancelledIsOver, UnderWay, Open

\* A creation finds the server without a vote, as nobody else creates one meanwhile.
LEMMA OneCreates ==
    ASSUME VoteTypes, OneInv, Orderly, NEW v \in Vote, Creates(v), UNCHANGED cancelled,
           NEW where \in creating, creating' = creating \ {where}
    PROVE  OneInv'
<1> USE DEF VoteTypes, TypeOK, OneInv, OneVoteInv, UnderWay, Open
<1>1. OneVote'
  BY VotingAssumption DEF Creates, OneVote, OneCreator, Vote
<1>2. OneCreator'
  BY DEF Creates, OneCreator
<1>3. CancelledIsOver'
  BY DEF Creates, CancelledIsOver
<1> QED  BY <1>1, <1>2, <1>3

\* Who cancels a vote finds it open, or over but still in the table.
LEMMA OneCancels ==
    ASSUME VoteTypes, OneInv, Orderly, current # None, Cancels(current),
           current' \in {current, None}, UNCHANGED creating
    PROVE  OneInv'
<1> USE DEF VoteTypes, TypeOK, OneInv, OneVoteInv, UnderWay, Open
<1>0. current \in Vote /\ pc[current] \notin {"none", "starting", "counting", "executing"}
  BY DEF Cancels, Orderly, CancelledIsOver
<1>1. /\ pc'[current] \notin UnderWay \cup {"none"}
      /\ \A u \in Vote \ {current} : pc'[u] = pc[u]
  BY <1>0 DEF Cancels
<1>2. OneVote'
  BY <1>0, <1>1 DEF OneVote
<1>3. OneCreator'
  BY DEF OneCreator
<1>4. CancelledIsOver'
  BY <1>0, <1>1 DEF Cancels, CancelledIsOver
<1> QED  BY <1>2, <1>3, <1>4

LEMMA OneStep ==
    ASSUME VoteTypes, OneInv, Orderly, [Next]_vars
    PROVE  OneInv'
<1> USE DEF VoteTypes, TypeOK, OneInv, OneVoteInv, OneVote, OneCreator, CancelledIsOver, UnderWay, Open,
            handlers, history
<1>1. CASE \/ ChatAsk \/ DiscordAsk \/ \E where \in {"chat", "Discord"} : GivesUp(where)
  BY <1>1 DEF ChatAsk, DiscordAsk, GivesUp, Free, Orderly
<1>2. ASSUME NEW v \in Vote, ChatCreate(v)
      PROVE  OneInv'
  BY <1>2, OneCreates DEF ChatCreate
<1>3. ASSUME NEW v \in Vote, Proceeds(v)
      PROVE  OneInv'
  <2>1. CASE \/ Starts(v) \/ TimerGoesOff(v) \/ HasNoOption(v) \/ ExecutionFails(v)
             \/ \E n \in Number : HasResult(v, n)
    <3>1. /\ v \in Vote /\ pc[v] \in UnderWay /\ pc'[v] \in UnderWay \cup {"failed"}
          /\ \A u \in Vote \ {v} : pc'[u] = pc[u]
          /\ UNCHANGED <<current, creating, cancelled>>
      BY <2>1 DEF Starts, TimerGoesOff, HasNoOption, ExecutionFails, HasResult
    <3>2. OneVote' /\ OneCreator'
      BY <3>1
    <3>3. CancelledIsOver'
      BY <3>1
    <3> QED  BY <3>2, <3>3
  <2>2. CASE NoResult(v) \/ Executed(v)
    BY <2>2 DEF NoResult, Executed, Removes
  <2> QED  BY <1>3, <2>1, <2>2 DEF Proceeds
<1>4. ASSUME NEW v \in Vote, NEW who \in Player \cup {Guest}, NEW n \in Number,
             DiscordCreate(v, who, n)
      PROVE  OneInv'
  BY <1>4, OneCreates DEF DiscordCreate
<1>5. ASSUME NEW p \in Player, NEW n \in Number, TypesNumber(p, n)
      PROVE  OneInv'
  BY <1>5 DEF TypesNumber
<1>6. CASE ChatCancel \/ DiscordCancel
  BY <1>6, OneCancels DEF ChatCancel, DiscordCancel, Removes, Cancels
<1>7. CASE ChoicesChange
  BY <1>7 DEF ChoicesChange
<1>8. CASE \E p \in Player : Joins(p) \/ Leaves(p)
  BY <1>8 DEF Joins, Leaves
<1>9. CASE UNCHANGED vars
  BY <1>9 DEF vars
<1> QED  BY <1>1, <1>2, <1>3, <1>4, <1>5, <1>6, <1>7, <1>8, <1>9 DEF Next

-----------------------------------------------------------------------------
(* What was elected.                                                       *)

LEMMA InitCount ==
    ASSUME Init
    PROVE  CountInv
BY FS_EmptySet DEF Init, CountInv, VoteOK, BallotsOK, NoVotes, Open

\* A vote nothing happens to.
LEMMA VoteStays ==
    ASSUME NEW v \in Vote, VoteOK(v), ballots'[v] = ballots[v], voter'[v] = voter[v],
           votes'[v] = votes[v], result'[v] = result[v],
           pc'[v] # "none" \/ pc[v] = "none",
           pc'[v] \in Open => pc[v] \in Open /\ UNCHANGED choices,
           pc'[v] = "executing" => pc[v] = "executing"
    PROVE  VoteOK(v)'
<1>1. BallotsOK(v)'
  BY DEF VoteOK, BallotsOK
<1>2. pc'[v] \in Open => Counted(v)'
  BY DEF VoteOK, Counted, For
<1>3. pc'[v] = "executing" => MostBallots(v)'
  BY DEF VoteOK, MostBallots, For
<1> QED  BY <1>1, <1>2, <1>3 DEF VoteOK, Open

\* A vote that is over and forgotten.
LEMMA VoteForgotten ==
    ASSUME TypeOK, NEW v \in Vote, Forgets(v), pc'[v] \notin UnderWay \cup {"none"}
    PROVE  VoteOK(v)'
<1>1. ballots'[v] = {} /\ voter'[v] = {}
  BY DEF TypeOK, Forgets
<1>2. BallotsOK(v)'
  BY <1>1, FS_EmptySet DEF BallotsOK
<1> QED  BY <1>2 DEF VoteOK, UnderWay, Open

\* Who has not voted yet votes: one vote more for what he means.
LEMMA OneMore ==
    ASSUME VoteTypes, UNCHANGED choices, NEW v \in Vote, NEW who \in Player \cup {Guest},
           NEW n \in Number, Counts(v, n), Means(v, who, n), BallotsOK(v), Counted(v),
           \A b \in ballots[v] : b[1] # who, voter[v] \subseteq voter'[v],
           who \in voter'[v] \cup {Guest}, pc'[v] # "none"
    PROVE  BallotsOK(v)' /\ Counted(v)'
<1>0. /\ votes'[v][n] = votes[v][n] + 1
      /\ \A k \in Number \ {n} : votes'[v][k] = votes[v][k]
  BY CountsTypes DEF VoteTypes
<1>1. DOMAIN choices \subseteq Number
  BY OptionCount DEF VoteTypes, ChoicesOK, Number
<1>2. CASE n \notin DOMAIN choices
  <2>1. ballots'[v] = ballots[v]
    BY <1>2 DEF Means
  <2>2. Counted(v)'
    BY <1>0, <1>1, <1>2, <2>1 DEF Counted, For
  <2> QED  BY <2>1, <2>2 DEF BallotsOK
<1>3. CASE n \in DOMAIN choices
  <2> DEFINE new == <<who, choices[n]>>
  <2>1. ballots'[v] = ballots[v] \cup {new} /\ new \notin ballots[v]
    BY <1>3 DEF Means, VoteTypes, TypeOK
  <2>2. IsFiniteSet(ballots'[v])
    BY <2>1, FS_AddElement DEF BallotsOK
  <2>3. For(v, choices[n])' = For(v, choices[n]) \cup {new} /\ new \notin For(v, choices[n])
    BY <2>1 DEF For
  <2>4. IsFiniteSet(For(v, choices[n]))
    BY FS_Subset DEF For, BallotsOK
  <2>5. Cardinality(For(v, choices[n])') = Cardinality(For(v, choices[n])) + 1
    BY <2>3, <2>4, FS_AddElement
  <2>6. \A k \in DOMAIN choices \ {n} : For(v, choices[k])' = For(v, choices[k])
    BY <1>3, <2>1 DEF For, VoteTypes, ChoicesOK
  <2>7. Counted(v)'
    <3>1. \A k \in DOMAIN choices : votes'[v][k] = Cardinality(For(v, choices[k])')
      BY <1>0, <1>1, <1>3, <2>5, <2>6 DEF Counted
    <3>2. \A b \in ballots'[v] : \E i \in DOMAIN choices : b[2] = choices[i]
      BY <1>3, <2>1 DEF Counted
    <3> QED  BY <3>1, <3>2 DEF Counted, For
  <2>8. BallotsOK(v)'
    BY <2>1, <2>2 DEF BallotsOK
  <2> QED  BY <2>7, <2>8
<1> QED  BY <1>2, <1>3

\* Whoever creates a vote in Discord has voted in it, and nobody else has.
LEMMA CountDiscord ==
    ASSUME VoteTypes, CountInv, Honest, NEW v \in Vote, NEW who \in Player \cup {Guest},
           NEW n \in Number, DiscordCreate(v, who, n)
    PROVE  CountInv'
<1>1. who = Guest /\ pc[v] = "none" /\ ballots[v] = {} /\ UNCHANGED <<choices, voter, result>>
  BY DEF DiscordCreate, Creates, Honest, CountInv, VoteOK, BallotsOK
<1>2. pc'[v] = "starting" /\ \A u \in Vote \ {v} : pc'[u] = pc[u]
  BY DEF DiscordCreate, Creates, VoteTypes, TypeOK
<1>3. BallotsOK(v) /\ Counted(v)
  <2>1. DOMAIN choices \subseteq Number
    BY OptionCount DEF VoteTypes, ChoicesOK, Number
  <2>2. \A i \in DOMAIN choices : For(v, choices[i]) = {}
    BY <1>1 DEF For
  <2>3. BallotsOK(v) /\ \A k \in Number : votes[v][k] = 0
    BY <1>1 DEF CountInv, VoteOK, BallotsOK
  <2> QED  BY <1>1, <2>1, <2>2, <2>3, FS_EmptySet DEF Counted
<1>4. Counts(v, n) /\ Means(v, who, n)
  BY DEF DiscordCreate
<1>5. VoteOK(v)'
  <2>1. BallotsOK(v)' /\ Counted(v)'
    BY <1>1, <1>2, <1>3, <1>4, OneMore
  <2> QED  BY <1>2, <2>1 DEF VoteOK, Open
<1>6. ASSUME NEW u \in Vote \ {v}
      PROVE  VoteOK(u)'
  <2>1. votes'[u] = votes[u] /\ ballots'[u] = ballots[u]
    BY <1>4, CountsTypes DEF Means, VoteTypes, TypeOK
  <2> QED  BY <1>1, <1>2, <1>6, <2>1, VoteStays DEF CountInv
<1> QED  BY <1>5, <1>6 DEF CountInv

\* Whoever types a number has not voted in this vote; when it is no longer open, his
\* number is counted and changes nothing.
LEMMA CountNumber ==
    ASSUME VoteTypes, OneInv, CountInv, NEW p \in Player, NEW n \in Number, TypesNumber(p, n)
    PROVE  CountInv'
<1>0. current \in Vote /\ pc[current] # "none"
  BY DEF TypesNumber, OneInv, CancelledIsOver, VoteTypes, TypeOK
<1> PICK v \in Vote : v = current
  BY <1>0
<1>1. v \in Vote /\ pc[v] # "none" /\ UNCHANGED <<choices, pc, result>> /\ Counts(v, n)
  BY <1>0 DEF TypesNumber
<1>2. voter' = [voter EXCEPT ![v] = @ \cup {p}] /\ p \notin voter[v] /\ p # Guest
  BY VotingAssumption DEF TypesNumber
<1>3. VoteOK(v)'
  <2>1. BallotsOK(v) /\ (pc[v] \in Open => Counted(v)) /\ (pc[v] = "executing" => MostBallots(v))
    BY <1>1 DEF CountInv, VoteOK
  <2>2. CASE pc[v] \in Open
    <3>1. Means(v, p, n)
      BY <2>2 DEF TypesNumber
    <3>2. \A b \in ballots[v] : b[1] # p
      BY <1>2, <2>1 DEF BallotsOK
    <3>3. voter[v] \subseteq voter'[v] /\ p \in voter'[v]
      BY <1>1, <1>2 DEF VoteTypes, TypeOK
    <3>4. BallotsOK(v)' /\ Counted(v)'
      BY <1>1, <2>1, <2>2, <3>1, <3>2, <3>3, OneMore
    <3> QED  BY <1>1, <2>2, <3>4 DEF VoteOK, Open
  <2>3. CASE pc[v] \notin Open
    <3>1. ballots' = ballots
      BY <2>3 DEF TypesNumber
    <3>2. voter[v] \subseteq voter'[v]
      BY <1>1, <1>2 DEF VoteTypes, TypeOK
    <3>3. BallotsOK(v)'
      BY <1>1, <2>1, <3>1, <3>2 DEF BallotsOK
    <3>4. pc[v] = "executing" => MostBallots(v)'
      BY <1>1, <2>1, <3>1 DEF MostBallots, For
    <3> QED  BY <1>1, <2>3, <3>3, <3>4 DEF VoteOK, Open
  <2> QED  BY <2>2, <2>3
<1>4. ASSUME NEW u \in Vote \ {v}
      PROVE  VoteOK(u)'
  <2>1. votes'[u] = votes[u] /\ ballots'[u] = ballots[u] /\ voter'[u] = voter[u]
    BY <1>1, <1>2, CountsTypes DEF TypesNumber, Means, VoteTypes, TypeOK
  <2> QED  BY <1>1, <2>1, VoteStays DEF CountInv
<1> QED  BY <1>1, <1>3, <1>4 DEF CountInv

\* The option that wins has the most votes, so the most ballots.
LEMMA CountResult ==
    ASSUME VoteTypes, CountInv, NEW v \in Vote, NEW n \in Number, HasResult(v, n)
    PROVE  CountInv'
<1>1. /\ pc[v] = "counting" /\ n \in DOMAIN choices /\ Leads(v, n)
      /\ UNCHANGED <<choices, votes, voter, ballots>>
  BY DEF HasResult, history
<1>2. /\ pc'[v] = "executing" /\ result'[v] = choices[n]
      /\ \A u \in Vote \ {v} : pc'[u] = pc[u] /\ result'[u] = result[u]
  BY DEF HasResult, VoteTypes, TypeOK
<1>3. BallotsOK(v) /\ Counted(v)
  BY <1>1 DEF CountInv, VoteOK, Open
<1>4. MostBallots(v)'
  <2>1. DOMAIN choices \subseteq Number
    BY OptionCount DEF VoteTypes, ChoicesOK, Number
  <2>2. \A k \in DOMAIN choices : Cardinality(For(v, choices[k])) <= Cardinality(For(v, choices[n]))
    BY <1>1, <1>3, <2>1 DEF Counted, Leads
  <2>3. ASSUME NEW o \in Option, \A k \in DOMAIN choices : choices[k] # o
        PROVE  Cardinality(For(v, o)) = 0
    <3>1. For(v, o) = {}
      BY <1>3, <2>3 DEF For, Counted
    <3> QED  BY <3>1, FS_EmptySet
  <2>4. Cardinality(For(v, choices[n])) \in Nat
    BY <1>3, FS_Subset, FS_CardinalityType DEF For, BallotsOK
  <2>5. \A o \in Option : Cardinality(For(v, choices[n])) >= Cardinality(For(v, o))
    <3> TAKE o \in Option
    <3>1. CASE \E k \in DOMAIN choices : choices[k] = o
      <4>1. PICK k \in DOMAIN choices : choices[k] = o
        BY <3>1
      <4>2. Cardinality(For(v, o)) \in Nat
        BY <1>3, FS_Subset, FS_CardinalityType DEF For, BallotsOK
      <4>3. Cardinality(For(v, o)) <= Cardinality(For(v, choices[n]))
        BY <2>2, <4>1
      <4> QED  BY <2>4, <4>2, <4>3
    <3>2. CASE \A k \in DOMAIN choices : choices[k] # o
      BY <2>3, <2>4, <3>2
    <3> QED  BY <3>1, <3>2
  <2> QED  BY <1>1, <1>2, <2>5 DEF MostBallots, For
<1>5. VoteOK(v)'
  <2>1. BallotsOK(v)'
    BY <1>1, <1>2, <1>3 DEF BallotsOK
  <2> QED  BY <1>2, <1>4, <2>1 DEF VoteOK, Open
<1>6. ASSUME NEW u \in Vote \ {v}
      PROVE  VoteOK(u)'
  BY <1>1, <1>2, VoteStays DEF CountInv
<1> QED  BY <1>5, <1>6 DEF CountInv

\* A vote that ends, or is cancelled in the chat, is forgotten, and no other is touched.
LEMMA CountForgets ==
    ASSUME VoteTypes, CountInv, NEW v \in Vote, Forgets(v), UNCHANGED choices,
           pc'[v] \notin UnderWay \cup {"none"}, \A u \in Vote \ {v} : pc'[u] = pc[u]
    PROVE  CountInv'
<1>1. VoteOK(v)'
  BY VoteForgotten DEF VoteTypes
<1>2. ASSUME NEW u \in Vote \ {v}
      PROVE  VoteOK(u)'
  <2>1. /\ ballots'[u] = ballots[u] /\ voter'[u] = voter[u] /\ votes'[u] = votes[u]
        /\ result'[u] = result[u]
    BY DEF Forgets, VoteTypes, TypeOK
  <2> QED  BY <2>1, VoteStays DEF CountInv
<1> QED  BY <1>1, <1>2 DEF CountInv

LEMMA CountStep ==
    ASSUME VoteTypes, OneInv, CountInv, Honest, [Next]_vars
    PROVE  CountInv'
<1> USE DEF handlers, history
<1>1. CASE UNCHANGED <<choices, pc, votes, voter, result, ballots>>
  BY <1>1, VoteStays DEF CountInv
<1>2. CASE \/ ChatAsk \/ DiscordAsk \/ \E where \in {"chat", "Discord"} : GivesUp(where)
           \/ \E p \in Player : Joins(p) \/ Leaves(p)
  BY <1>1, <1>2 DEF ChatAsk, DiscordAsk, GivesUp, Joins, Leaves
<1>3. ASSUME NEW v \in Vote, ChatCreate(v)
      PROVE  CountInv'
  <2>1. pc'[v] = "starting" /\ pc[v] = "none" /\ \A u \in Vote \ {v} : pc'[u] = pc[u]
    BY <1>3 DEF ChatCreate, Creates, VoteTypes, TypeOK
  <2>2. UNCHANGED <<choices, votes, voter, result, ballots>>
    BY <1>3 DEF ChatCreate
  <2>3. VoteOK(v)'
    <3>1. BallotsOK(v) /\ ballots[v] = {} /\ \A n \in Number : votes[v][n] = 0
      BY <2>1 DEF CountInv, VoteOK, BallotsOK
    <3>2. BallotsOK(v)'
      BY <2>1, <2>2, <3>1 DEF BallotsOK
    <3>3. DOMAIN choices \subseteq Number
      BY OptionCount DEF VoteTypes, ChoicesOK, Number
    <3>4. Counted(v)'
      BY <2>2, <3>1, <3>3, FS_EmptySet DEF Counted, For
    <3> QED  BY <2>1, <3>2, <3>4 DEF VoteOK
  <2>4. ASSUME NEW u \in Vote \ {v}
        PROVE  VoteOK(u)'
    BY <2>1, <2>2, VoteStays DEF CountInv
  <2> QED  BY <2>3, <2>4 DEF CountInv
<1>4. ASSUME NEW v \in Vote, Proceeds(v)
      PROVE  CountInv'
  <2>1. CASE Starts(v) \/ TimerGoesOff(v) \/ HasNoOption(v) \/ ExecutionFails(v)
    <3>1. /\ UNCHANGED <<choices, votes, voter, result, ballots>>
          /\ \A u \in Vote : /\ pc'[u] # "none" \/ pc[u] = "none"
                             /\ pc'[u] \in Open => pc[u] \in Open
                             /\ pc'[u] = "executing" => pc[u] = "executing"
      BY <2>1 DEF Starts, TimerGoesOff, HasNoOption, ExecutionFails, Open, VoteTypes, TypeOK
    <3> QED  BY <3>1, VoteStays DEF CountInv
  <2>2. CASE NoResult(v) \/ Executed(v)
    <3>1. /\ Forgets(v) /\ UNCHANGED choices /\ pc'[v] = "over"
          /\ \A u \in Vote \ {v} : pc'[u] = pc[u]
      BY <2>2 DEF NoResult, Executed, VoteTypes, TypeOK
    <3> QED  BY <3>1, CountForgets DEF UnderWay, Open
  <2>3. CASE \E n \in Number : HasResult(v, n)
    BY <2>3, CountResult
  <2> QED  BY <1>4, <2>1, <2>2, <2>3 DEF Proceeds
<1>5. ASSUME NEW v \in Vote, NEW who \in Player \cup {Guest}, NEW n \in Number,
             DiscordCreate(v, who, n)
      PROVE  CountInv'
  BY <1>5, CountDiscord
<1>6. ASSUME NEW p \in Player, NEW n \in Number, TypesNumber(p, n)
      PROVE  CountInv'
  BY <1>6, CountNumber
<1>7. CASE ChatCancel \/ DiscordCancel
  <2>1. /\ current \in Vote /\ UNCHANGED choices /\ pc[current] # "none"
        /\ \A u \in Vote : pc'[u] = pc[u] \/ pc'[u] = "cancelled"
        /\ \A u \in Vote \ {current} : pc'[u] = pc[u]
    BY <1>7 DEF ChatCancel, DiscordCancel, Cancels, VoteTypes, TypeOK, OneInv, CancelledIsOver
  <2>2. CASE Forgets(current) /\ pc'[current] \notin UnderWay
    BY <2>1, <2>2, CountForgets
  <2>3. CASE UNCHANGED <<votes, voter, result, ballots>>
    BY <2>1, <2>3, VoteStays DEF CountInv, Open
  <2> QED  BY <1>7, <2>2, <2>3 DEF ChatCancel, DiscordCancel
<1>8. CASE ChoicesChange
  <2>1. /\ UNCHANGED <<pc, votes, voter, result, ballots>>
        /\ \A v \in Vote : pc[v] \notin Open
    BY <1>8 DEF ChoicesChange, Honest
  <2> QED  BY <2>1, VoteStays DEF CountInv
<1>9. CASE UNCHANGED vars
  BY <1>1, <1>9 DEF vars
<1> QED  BY <1>2, <1>3, <1>4, <1>5, <1>6, <1>7, <1>8, <1>9 DEF Next

-----------------------------------------------------------------------------
(* The theorems about votes.                                               *)

\* The state of the votes has the types the code gives it.
THEOREM VotesTyped == Spec => []TypeOK
<1>1. Init => VoteTypes
  BY InitVoteTypes
<1>2. VoteTypes /\ [Next]_vars => VoteTypes'
  BY VoteTypesStep
<1>3. VoteTypes => TypeOK
  BY DEF VoteTypes
<1> QED  BY <1>1, <1>2, <1>3, PTL DEF Spec

\* If no vote is created in the chat while one is being created in Discord, and none is
\* cancelled before its timer is set or when it has gone off, a vote that goes on is
\* always the one the server has: no vote hides another or is executed unseen.
THEOREM OneVoteAtATime == Orderly => (Spec => []OneVote)
<1> SUFFICES ASSUME Orderly PROVE Spec => []OneVote
  OBVIOUS
<1>1. Init => VoteTypes /\ OneInv
  BY InitVoteTypes, InitOne
<1>2. VoteTypes /\ OneInv /\ [Next]_vars => VoteTypes' /\ OneInv'
  BY VoteTypesStep, OneStep
<1>3. OneInv => OneVote
  BY DEF OneInv, OneVoteInv
<1> QED  BY <1>1, <1>2, <1>3, PTL DEF Spec

\* If also the options of a vote stay as they are while it is open and nobody votes in
\* the game as well as in Discord, every ballot is counted once, and what is executed
\* has at least as many ballots as any other option and was not cancelled.
THEOREM ElectedIsExecuted == Honest => (Spec => []Elected)
<1> SUFFICES ASSUME Honest PROVE Spec => []Elected
  OBVIOUS
<1>1. Init => VoteTypes /\ OneInv /\ CountInv
  BY InitVoteTypes, InitOne, InitCount
<1>2. VoteTypes /\ OneInv /\ CountInv /\ [Next]_vars => VoteTypes' /\ OneInv' /\ CountInv'
  BY VoteTypesStep, OneStep, CountStep DEF Honest
<1>3. OneInv /\ CountInv => Elected
  <2>1. OneInv => \A v \in Vote : pc[v] = "executing" => v \notin cancelled
    BY DEF OneInv, CancelledIsOver, UnderWay
  <2>2. CountInv => Elected \/ \E v \in Vote : pc[v] = "executing" /\ v \in cancelled
    BY DEF CountInv, VoteOK, BallotsOK, Counted, MostBallots, Elected
  <2> QED  BY <2>1, <2>2
<1> QED  BY <1>1, <1>2, <1>3, PTL DEF Spec
=============================================================================
