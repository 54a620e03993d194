------------------------------- MODULE CallStats -------------------------------
(***************************************************************************)
(* The statistics pages over the files of calls: stats.cpp with stats.h,   *)
(* newstats.cpp with newstats.h, which repeats it, and allstats.cpp.  A    *)
(* page reads the files and changes nothing.                               *)
(*                                                                         *)
(* Its figures are calls and dispositions; what it derives from them (the  *)
(* conversion, the numbers per hour) and the talk time are left out.  A    *)
(* row of no talk time is not shown.                                       *)
(***************************************************************************)
EXTENDS CallLog

CONSTANTS
  Calendar,  \* the date of each day, of the one before and of the one after
  Closers,   \* the agents numbered from 600
  Asked      \* bound: first and last day of the pages looked at

ASSUME CalendarAssumption ==
  /\ Calendar \in [0 .. LastDay + 1 -> [year : Nat, month : Nat, day : Nat]]
  /\ Asked \subseteq (0 .. LastDay + 1) \X (0 .. LastDay + 1)

\* The dispositions a page has columns for, as far as the form's boxes chose
\* them; those that use a lead up; and those that reached somebody.
Columns  == {"0", "2", "3", "4", "5", "6", "7", "8", "9", "10", "11", "12"}
Used     == {"6", "7", "8", "9", "10", "11", "12"}
Contacts == {"11", "12"}
-------------------------------------------------------------------------------
\* Slips the checks must catch: a range whose ends are compared field by field;
\* closers in the totals.
NotBeforeByField(d, e) == d.year >= e.year /\ d.month >= e.month /\ d.day >= e.day
InTotalsAll(p) == TRUE

\* The files a page took in are its parts: agent, campaign and the i-th time.
\* An entry is a part and the number of a line.
LineOf(e) == file[<<e[1][1], e[1][2]>>][e[2]]

\* CallEntry::Parse: whether the four fields before the disposition are there,
\* else the date is never set; and the disposition, "0" while there is none.
HasFields(line) == line.lead # EmptyLead
Disposition(line) ==
  CASE Len(line.dispo) = 0 -> IF HasFields(line) THEN "0" ELSE ""
    [] Len(line.dispo) = 1 -> line.dispo[1]
    [] Len(line.dispo) > 1 -> "run together"

\* isInRange; an entry whose date was never set is where it happens to be, in
\* the range if it is one of stray.
NotBefore(d, e) ==
  \/ d.year > e.year
  \/ d.year = e.year /\ (d.month > e.month \/ (d.month = e.month /\ d.day >= e.day))
isInRange(e, r) ==
  LET line == LineOf(e) IN
  IF HasFields(line)
  THEN NotBefore(Calendar[line.date], r.from) /\ NotBefore(r.to, Calendar[line.date])
  ELSE <<e[1][1], e[1][2], e[2]>> \in r.stray

GetStatFile(p, r) == {e \in {p} \X DOMAIN file[<<p[1], p[2]>>] : isInRange(e, r)}

size_in_range(entries) == Cardinality(entries)
NumDispos(dispos, entries) == Cardinality({e \in entries : Disposition(LineOf(e)) \in dispos})

\* What a Parse of the campaign for each agent, the i-th time, takes in, and
\* one of the agent for each campaign.
CampaignComposite(c, agents, times) == agents \X {c} \X (1 .. times)
AgentComposite(a, queues) == {a} \X queues \X {1}

\* The sums over the parts: the calls, the columns and two sums of columns.
Figures(parts, r) ==
  LET entries == UNION {GetStatFile(p, r) : p \in parts}
  IN  [calls    |-> size_in_range(entries),
       dispo    |-> [d \in Columns |-> NumDispos({d}, entries)],
       used     |-> NumDispos(Used, entries),
       contacts |-> NumDispos(Contacts, entries)]

\* What excludeClosers leaves of them in a total, and the rows.
InTotals(p) == p[1] \notin Closers
Total(parts, r)          == Figures({p \in parts : InTotals(p)}, r)
AgentRow(parts, a, r)    == Figures({p \in parts : p[1] = a}, r)
CampaignRow(parts, c, r) == Figures({p \in parts : p[2] = c}, r)
-------------------------------------------------------------------------------
\* The page of a campaign: the agents' row without the closers, and a row for
\* each agent of the list, closers too.
CampaignPage(parts, r) ==
  [total |-> Total(parts, r), rows |-> [a \in {p[1] : p \in parts} |-> AgentRow(parts, a, r)]]

\* The page of an agent: her row, a closer's too, and a row for each campaign.
AgentPage(parts, r) ==
  [total |-> Figures(parts, r), rows |-> [c \in {p[2] : p \in parts} |-> CampaignRow(parts, c, r)]]

\* allstats.cpp on a campaign: its files are taken in once, and then once more
\* for each campaign there is.
AllStatsParts(c, agents, queues) == CampaignComposite(c, agents, 1 + Cardinality(queues))
AllStatsPage(parts, r) == CampaignPage(parts, r)
-------------------------------------------------------------------------------
\* The lines whose date is never set.
Undated(c) ==
  UNION {{<<a, c, n>> : n \in {i \in DOMAIN file[<<a, c>>] : ~HasFields(file[<<a, c>>][i])}} : a \in Agents}

\* Each orderly call of the days asked for, and no other day's, is counted once
\* under its disposition, whatever else is in the files, and the rest of the
\* lines there is without one: on the campaign's page, in the agent's row and,
\* as the menu says, in the totals unless she is a closer; on the agent's page;
\* and on allstats as often as that takes the files in.
PagesTellTheCalls ==
  torn = {} =>
    \A c \in Campaigns, days \in Asked : \A stray \in SUBSET Undated(c) :
      LET r == [from |-> Calendar[days[1]], to |-> Calendar[days[2]], stray |-> stray]
          Exact(figures, list, times) ==
            LET lines == UNION {{a} \X {n \in DOMAIN file[<<a, c>>] :
                                         LET line == file[<<a, c>>][n] IN
                                         IF HasFields(line) THEN line.date \in days[1] .. days[2]
                                         ELSE <<a, c, n>> \in stray} : a \in list}
                Of(x) == file[<<x[1], c>>][x[2]]
                Given(ds) == {x \in lines : \E d \in ds : Of(x).dispo = <<d>>}
                Open == {x \in lines : HasFields(Of(x)) /\ Of(x).dispo = <<>>}
                Own(d) == {<<k.agent, k.line>> : k \in {kept[i] : i \in {j \in DOMAIN kept :
                             kept[j].campaign = c /\ kept[j].dispo = d}}} \cap lines
            IN  /\ figures.calls = times * Cardinality(lines)
                /\ figures.dispo["0"] = times * Cardinality(Open \cup Given({"0"}))
                /\ figures.used = times * Cardinality(Given(Used))
                /\ figures.contacts = times * Cardinality(Given(Contacts))
                /\ \A d \in Dispos \ {"0"} :
                     /\ Own(d) \subseteq Given({d})
                     /\ figures.dispo[d] = times * Cardinality(Given({d}))
          page == CampaignPage(CampaignComposite(c, Agents, 1), r)
          all == AllStatsPage(AllStatsParts(c, Agents, Campaigns), r)
      IN  /\ Exact(page.total, Agents \ Closers, 1)
          /\ Exact(all.total, Agents \ Closers, 1 + Cardinality(Campaigns))
          /\ \A a \in Agents :
               /\ Exact(page.rows[a], {a}, 1)
               /\ Exact(AgentPage(AgentComposite(a, Campaigns), r).rows[c], {a}, 1)
===============================================================================
