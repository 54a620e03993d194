------------------------------ MODULE AdminFiles ------------------------------
(***************************************************************************)
(* The files of Asterisk that dialeradmin edits: queues.conf with the      *)
(* campaigns' members, agents.conf, and a campaign's script (one of them   *)
(* stands for all).  Each request is a process of its own and takes no     *)
(* lock: an edit reads the file, empties it and writes it anew, line by    *)
(* line; a new campaign or agent is appended.  The numbers of agents come  *)
(* from the database, which these pages never change.                      *)
(*                                                                         *)
(* Two processes that write a file at a time each write where they are:    *)
(* what it then holds is Garbage, of which nothing is said.                *)
(***************************************************************************)
EXTENDS Integers, SequencesExt

CONSTANTS
  Admins,                   \* the browsers
  Names,                    \* of campaigns,
  Within,                   \*   <<q, s>>: the name q occurs in the name s
  AgentNumbers,             \* of agents: closers' numbers begin at
  FirstAgent, FirstCloser,
  MaxOrders                  \* bound: requests, and changes of the staff

ASSUME AdminFilesAssumption ==
  /\ Within \subseteq Names \X Names /\ \A q \in Names : <<q, q>> \in Within
  /\ AgentNumbers \subseteq Nat /\ FirstAgent \in Nat /\ FirstCloser \in Nat /\ MaxOrders \in Nat

VARIABLES
  conf,    \* the lines of "queues", of "agents" and of "script"
  staff,   \* the database's agents
  known,   \* the agents Asterisk has read
  todo,    \* of a browser's request: the edits left
  work,    \*   and how far the first of them is
  missed,  \* history: Asterisk could not be told of the last edit
  orders    \* bound: how often something was asked for

filevars == <<conf, staff, known, todo, work, missed, orders>>

Line(is, of) == [is |-> is, of |-> of]
Garbage == Line("garbage", 0)
Other == Line("other", 0)
Task(op, name, number) == [op |-> op, name |-> name, number |-> number]
FileOf(e) ==
  IF e.op = "script" THEN "script" ELSE IF e.op \in {"agent", "delete", "edit"} THEN "agents" ELSE "queues"
Appends(e) == e.op \in {"create", "agent"}

\* What a file says.
Listed(lines, is) == {lines[i].of : i \in {j \in DOMAIN lines : lines[j].is = is}}
InSection(lines, q) ==
  {i \in DOMAIN lines :
     LET k == SelectLastInSubSeq(lines, 1, i, LAMBDA l : l.is = "section")
     IN  k # 0 /\ lines[k].of = q}
Members(lines) ==
  UNION {{<<q, lines[i].of>> : i \in {j \in InSection(lines, q) : lines[j].is = "member"}} : q \in Names}
\* Its lines that are no entries.
Others(lines, q) == Cardinality({i \in InSection(lines, q) : lines[i] = Other})

\* before, staff: history, what the edit found in the file and in the database.
NoWork == [stage |-> "idle", lines |-> <<>>, before |-> <<>>, staff |-> {}, alone |-> TRUE]
FilesInit ==
  /\ \E sections \in [1 .. Cardinality(Names) -> Names] :
       /\ IsInjective(sections)
       /\ conf = [queues |-> FlattenSeq([i \in DOMAIN sections |->
                                <<Line("section", sections[i]), Other, Line("member", FirstAgent)>>]),
                  script |-> <<Line("text", 0)>>,
                  agents |-> <<Other, Line("agent", FirstAgent), Line("agent", FirstAgent + 1)>>]
  /\ staff = {FirstAgent, FirstAgent + 1}
  /\ known = staff
  /\ todo = [u \in Admins |-> <<>>]
  /\ work = [u \in Admins |-> NoWork]
  /\ missed = FALSE /\ orders = 0
-------------------------------------------------------------------------------
(* The edits: loops over the lines *)

removeQueue(lines, q) ==
  FoldLeft(LAMBDA so, l :
             LET in == IF l.is = "section" THEN l.of = q ELSE so.in
             IN  [in |-> in, out |-> IF in THEN so.out ELSE Append(so.out, l)],
           [in |-> FALSE, out |-> <<>>], lines).out

\* After the first line of its section; a section once found is not left.
addQueueMember(lines, a, q) ==
  FoldLeft(LAMBDA so, l :
             LET in  == so.in \/ l = Line("section", q)
                 pos == so.pos \/ l.is # "member" \/ in
                 now == in /\ pos /\ ~ so.written
             IN  [in |-> in, pos |-> pos, written |-> so.written \/ now,
                  out |-> Append(so.out, l) \o IF now THEN <<Line("member", a)>> ELSE <<>>],
           [in |-> FALSE, pos |-> FALSE, written |-> FALSE, out |-> <<>>], lines).out

\* A slip the checks must catch: a section once found is not left.
removeQueueMemberOn(lines, a, q) ==
  FoldLeft(LAMBDA so, l :
             LET in == so.in \/ (l.is = "section" /\ <<q, l.of>> \in Within)
             IN  [in |-> in, out |-> IF in /\ l = Line("member", a) THEN so.out ELSE Append(so.out, l)],
           [in |-> FALSE, out |-> <<>>], lines).out

\* From each campaign whose name has q in it.
removeQueueMember(lines, a, q) ==
  FoldLeft(LAMBDA so, l :
             LET in == IF l.is = "section" THEN <<q, l.of>> \in Within ELSE so.in
             IN  [in |-> in, out |-> IF in /\ l = Line("member", a) THEN so.out ELSE Append(so.out, l)],
           [in |-> FALSE, out |-> <<>>], lines).out

Lacking(lines, is) == SelectSeq(lines, LAMBDA l : l.is # is)
\* A slip the checks must catch: the loop begins with the second agent.
deleteAgentShort(lines, a) ==
  Lacking(lines, "agent") \o
    [i \in 1 .. Cardinality(staff \ {a}) - 1 |-> Line("agent", SetToSortSeq(staff \ {a}, <)[i + 1])]

\* The agents' lines are written anew, from the database.
deleteAgent(lines, a) ==
  Lacking(lines, "agent") \o
    [i \in 1 .. Cardinality(staff \ {a}) |-> Line("agent", SetToSortSeq(staff \ {a}, <)[i])]
editAgent(lines, a) == Append(SelectSeq(lines, LAMBDA l : l # Line("agent", a)), Line("agent", a))

Result(e, lines) ==
  IF e.op = "script" THEN <<Line("text", e.number)>>
  ELSE IF Garbage \in ToSet(lines) THEN <<Garbage>>
  ELSE CASE e.op = "remove queue" -> removeQueue(lines, e.name)
         [] e.op = "add" -> addQueueMember(lines, e.number, e.name)
         [] e.op = "remove" -> removeQueueMember(lines, e.number, e.name)
         [] e.op = "delete" -> deleteAgent(lines, e.number)
         [] e.op = "edit" -> editAgent(lines, e.number)

createQueue(q) == <<Line("section", q), Other>>
Appended(e) == IF e.op = "create" THEN createQueue(e.name) ELSE <<Line("agent", e.number)>>

Highest(S, below) == Max(S \cup {below})
NextAgent == Highest({n \in staff : n < FirstCloser}, FirstAgent - 1) + 1
NextCloser == Highest({n \in staff : n >= FirstCloser}, FirstCloser - 1) + 1
-------------------------------------------------------------------------------
(* Requests *)

AtRest(u) == todo[u] = <<>> /\ work[u] = NoWork
Asks(u, edits) ==
  /\ AtRest(u) /\ orders < MaxOrders
  /\ orders' = orders + 1
  /\ todo' = [todo EXCEPT ![u] = edits]
  /\ UNCHANGED <<conf, staff, known, work, missed>>

\* One edit for each agent chosen.
EachOf(S, op, q) == [i \in 1 .. Cardinality(S) |-> Task(op, q, SetToSortSeq(S, <)[i])]
Chosen == {S \in SUBSET AgentNumbers : Cardinality(S) \in 1 .. 2}

doAdd(u) == \E q \in Names, S \in Chosen : Asks(u, EachOf(S, "add", q))
doRemove(u) == \E q \in Names, S \in Chosen : Asks(u, EachOf(S, "remove", q))
doRemoveQueue(u) == \E q \in Names : Asks(u, <<Task("remove queue", q, 0)>>)
\* The script of a new campaign is a copy of text 0, the default.
doFinishCreatingQueue(u) == \E q \in Names : Asks(u, <<Task("create", q, 0), Task("script", q, 0)>>)
doSaveScript(u) == \E q \in Names, t \in AgentNumbers : Asks(u, <<Task("script", q, t)>>)
doDeleteAgent(u) == \E S \in Chosen : Asks(u, EachOf(S, "delete", 0))
doFinishEditingAgent(u) == \E a \in AgentNumbers : Asks(u, <<Task("edit", 0, a)>>)
doFinishCreatingAgent(u) == Asks(u, <<Task("agent", 0, NextAgent)>>)
doFinishCreatingCloser(u) == Asks(u, <<Task("agent", 0, NextCloser)>>)

TaskOf(u) == Head(todo[u])
Busy(u, f) == todo[u] # <<>> /\ FileOf(TaskOf(u)) = f /\ work[u].stage \in {"read", "writing"}
Rewrites(u, f) == Busy(u, f) /\ ~ Appends(TaskOf(u)) /\ work[u].stage = "writing"
Rivals(u, f) == {v \in Admins \ {u} : Busy(v, f)}

\* The file is opened to be read, or to be appended to.
Begin(u) ==
  /\ todo[u] # <<>> /\ work[u] = NoWork
  /\ LET e == TaskOf(u)
         f == FileOf(e)
         start == [stage |-> IF Appends(e) THEN "writing" ELSE "read",
                   lines |-> IF Appends(e) THEN Appended(e) ELSE Result(e, conf[f]),
                   before |-> conf[f], staff |-> staff, alone |-> Rivals(u, f) = {}]
     IN  work' = [v \in Admins |-> IF v = u THEN start
                                   ELSE IF v \in Rivals(u, f) THEN [work[v] EXCEPT !.alone = FALSE]
                                   ELSE work[v]]
  /\ UNCHANGED <<conf, staff, known, todo, missed, orders>>

Mixed(u, f, lines) == IF \E v \in Admins \ {u} : Rewrites(v, f) THEN <<Garbage>> ELSE lines

Truncate(u) ==
  /\ work[u].stage = "read"
  /\ LET f == FileOf(TaskOf(u)) IN conf' = [conf EXCEPT ![f] = Mixed(u, f, <<>>)]
  /\ work' = [work EXCEPT ![u].stage = "writing"]
  /\ UNCHANGED <<staff, known, todo, missed, orders>>

WriteLine(u) ==
  /\ work[u].stage = "writing" /\ work[u].lines # <<>>
  /\ LET f == FileOf(TaskOf(u))
     IN  conf' = [conf EXCEPT ![f] = Mixed(u, f, Append(@, Head(work[u].lines)))]
  /\ work' = [work EXCEPT ![u].lines = Tail(@)]
  /\ UNCHANGED <<staff, known, todo, missed, orders>>

\* A slip the checks must catch: Asterisk is not told.
CloseUntold(u) ==
  /\ work[u].stage = "writing" /\ work[u].lines = <<>>
  /\ work' = [work EXCEPT ![u] = NoWork]
  /\ todo' = [todo EXCEPT ![u] = Tail(@)]
  /\ UNCHANGED <<conf, staff, known, missed, orders>>

Close(u) ==
  /\ work[u].stage = "writing" /\ work[u].lines = <<>>
  /\ work' = [work EXCEPT ![u] = [NoWork EXCEPT !.stage = IF FileOf(TaskOf(u)) = "agents" THEN "reload" ELSE "idle"]]
  /\ todo' = [todo EXCEPT ![u] = Tail(@)]
  /\ UNCHANGED <<conf, staff, known, missed, orders>>

reloadAgents(u) ==
  /\ work[u].stage = "reload"
  /\ known' = Listed(conf["agents"], "agent") /\ missed' = FALSE
  /\ work' = [work EXCEPT ![u] = NoWork]
  /\ UNCHANGED <<conf, staff, todo, orders>>

\* No connection: nobody catches the exception, and the other edits are not made.
reloadFails(u) ==
  /\ work[u].stage = "reload"
  /\ missed' = TRUE
  /\ work' = [work EXCEPT ![u] = NoWork] /\ todo' = [todo EXCEPT ![u] = <<>>]
  /\ UNCHANGED <<conf, staff, known, orders>>

\* The API creates or deletes an agent.
StaffChanges ==
  /\ orders < MaxOrders /\ orders' = orders + 1
  /\ \E a \in AgentNumbers : staff' \in {staff \cup {a}, staff \ {a}}
  /\ UNCHANGED <<conf, known, todo, work, missed>>

FilesNext ==
  \/ \E u \in Admins :
       \/ doAdd(u) \/ doRemove(u) \/ doRemoveQueue(u) \/ doFinishCreatingQueue(u) \/ doSaveScript(u)
       \/ doDeleteAgent(u) \/ doFinishEditingAgent(u) \/ doFinishCreatingAgent(u) \/ doFinishCreatingCloser(u)
       \/ Begin(u) \/ Truncate(u) \/ WriteLine(u) \/ Close(u) \/ reloadAgents(u) \/ reloadFails(u)
  \/ StaffChanges

FilesSpec == FilesInit /\ [][FilesNext]_filevars
-------------------------------------------------------------------------------
\* What an edit is for, on the file as a set of entries: their sections, their
\* members and, in the others' places, the lines that are no entries.
MeantFor(e, old, new) ==
  LET sections == Listed(old, "section")
      with(sects, members, others(_)) ==
        /\ Listed(new, "section") = sects /\ Members(new) = members
        /\ \A q \in Names : Others(new, q) = others(q)
      same(q) == Others(old, q)
      onemore(q) == Others(old, q) + (IF q = e.name THEN 1 ELSE 0)
      without(q) == IF q = e.name THEN 0 ELSE Others(old, q)
  IN  CASE e.op = "add" ->
             with(sections, Members(old) \cup ({e.name} \cap sections) \X {e.number}, same)
        [] e.op = "remove" ->
             with(sections, Members(old) \ ({q \in Names : <<e.name, q>> \in Within} \X {e.number}), same)
        [] e.op = "create" -> with(sections \cup {e.name}, Members(old), onemore)
        [] e.op = "remove queue" ->
             with(sections \ {e.name}, {m \in Members(old) : m[1] # e.name}, without)

\* A deletion lists the agents of the database but its own, whatever the file
\* had listed: one who was only in the file goes, one deleted before comes back.
MeantForAgents(e, old, new, found) ==
  /\ Lacking(new, "agent") = Lacking(old, "agent")
  /\ Listed(new, "agent") =
       IF e.op = "delete" THEN found \ {e.number} ELSE Listed(old, "agent") \cup {e.number}

\* An edit that no other one overlaps changes its own entry and keeps the rest:
\* other campaigns, their members (but for those in whose name its own occurs) and
\* the lines of a campaign that are no entries; or, but for a deletion, which goes
\* by the database, the other agents, and the lines of that file that are none.
EditsAreExact ==
  [][\A u \in Admins :
       LET e == TaskOf(u)
           f == FileOf(e)
           old == work[u].before
       IN  work[u].stage = "writing" /\ todo'[u] # todo[u] /\ work[u].alone /\ Garbage \notin ToSet(old) =>
             CASE f = "queues" -> MeantFor(e, old, conf[f])
               [] f = "agents" -> MeantForAgents(e, old, conf[f], work[u].staff)
               [] f = "script" -> conf[f] = <<Line("text", e.number)>>]_filevars

\* Whatever the requests do to one another, when they are done Asterisk has known
\* the agents that are in the file, unless it could not be told.
AsteriskHasTheFile ==
  (\A u \in Admins : work[u].stage # "reload" /\ ~ Busy(u, "agents")) =>
    missed \/ Garbage \in ToSet(conf["agents"]) \/ known = Listed(conf["agents"], "agent")
===============================================================================
