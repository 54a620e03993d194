------------------------------- MODULE MCDaemon -------------------------------
(***************************************************************************)
(* The liveness instance of Agents, and beside it what else the daemon     *)
(* keeps: the stream its events come from, the counters of the day and     *)
(* the reports over them.                                                  *)
(*                                                                         *)
(* The stream: an event of one line, two of two lines, columns of one and  *)
(* two characters, and reads of at most nine: every kind of cut and every  *)
(* pair of cuts in neighbouring events happens.  The first event stands    *)
(* for the banner and the answer to the login.                             *)
(*                                                                         *)
(* The days: a year of a month of one day and one of two, so that three    *)
(* days hold a month's end with the walk's 31st of a short month and a     *)
(* range with a day inside; the fourth is of another year.                 *)
(***************************************************************************)
EXTENDS MCAgents, AmiStream, Reports

MCTexts == { << <<2>>, <<1, 2>>, <<2, 1>>, <<1>> >>, << <<1, 1>>, <<1>>, <<1>>, <<2, 2>> >> }
TwoMonths == <<1, 2>>

\* Agents takes any event at any time and only counts: a behaviour is of one
\* part.
VARIABLE part

MCvars == <<vars, streamvars, countersvars, reportsvars, part>>
MCInit ==
  /\ Init /\ StreamInit /\ CountersInit /\ ReportsInit
  /\ part \in {"agents", "stream", "counters", "log"}
  /\ part # "agents" => now = 0 /\ \A a \in Agents : phone[a] = "none"
  /\ part # "stream" => text[1] = <<2>>
MCNext ==
  /\ \/ part = "agents" /\ Next /\ UNCHANGED <<streamvars, countersvars, reportsvars>>
     \/ part = "stream" /\ StreamNext /\ UNCHANGED <<vars, countersvars, reportsvars>>
     \/ part = "counters" /\ CountersNext /\ UNCHANGED <<vars, streamvars, reportsvars>>
     \/ part = "log" /\ ReportsNext /\ UNCHANGED <<vars, streamvars, countersvars>>
  /\ UNCHANGED part
MCSpec == MCInit /\ [][MCNext]_MCvars /\ WF_vars(Tick) /\ WF_vars(Refresh)
===============================================================================
