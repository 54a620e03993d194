------------------------------ MODULE CallHours ------------------------------
(***************************************************************************)
(* The hours at which a campaign's leads may be called.  The API's import  *)
(* puts rows into campaign_<name>; gnudialer --tzpopulate, or up.cgi after *)
(* an upload, then writes their time zones and their states' hours, one    *)
(* UPDATE after the other (tzpopulate.h, statepopulate.h); the daemon puts *)
(* a filter by these into its queries (tzfilter.h).                        *)
(*                                                                         *)
(* The setting usetzfilter is on.  Both may run while the daemon dials,    *)
(* one populating at a time, and each statement may fail.  Columns that    *)
(* are not there yet are as good as NULL: either way nothing is selected   *)
(* through the filter.  The table <name> that up.cgi fills is left out:    *)
(* nothing reads it.  So are the states' comments, the rest of the         *)
(* selections (Leads) and what an UPDATE costs.                            *)
(***************************************************************************)
EXTENDS Integers, Sequences

CONSTANTS
  Phones,      \* the leads, by their numbers
  ZoneOf,      \* the file of timezones/ that lists the lead's area code, or 0
  StatesTxt,   \* states.txt: of each state the lines that give hours
  StateOf,     \* the state that lists the lead's area code, or 0
  Places,      \* where the lead may be: the hours that the clock is ahead of UTC
               \*   there in winter, and the hours, UTC, of summer time there
  Stamps,      \* whether the table stamps a row that changes (it does when
               \*   tzpopulate added the column, and not when the API did)
  Earliest,    \* the setting tzearliest
  Latest,      \* the setting tzlatest
  CallToday,   \* the setting calltoday
  Static,      \* holidays.txt: the numbers of its static
  Dynamic,     \*   and of its dynamic lines, 0 for an L
  TmOf,        \* the days by number, as struct tm has them
  Offset,      \* hours the server's clock is ahead of UTC
  FirstHours,  \* bounds: the hours the clock may begin with,
  LastHours,   \*   and those it does not go past
  Outcomes,    \* dispositions a call may end with
  Unset        \* NULL

DayTypes == {"wday", "sat", "sun", "hol"}

ASSUME HoursAssumption ==
  /\ StatesTxt \in Seq(Seq([key : DayTypes \cup {"all"}, low : Nat, high : Nat]))
  /\ ZoneOf \in [Phones -> 0 .. 10] /\ StateOf \in [Phones -> 0 .. Len(StatesTxt)]
  /\ Earliest \in 0 .. 24 /\ Latest \in 0 .. 24
  /\ CallToday \in BOOLEAN /\ Stamps \in BOOLEAN
  /\ Places \in [Phones -> SUBSET [standard : Int, summer : SUBSET Nat]]
  /\ Offset \in -12 .. 14 /\ FirstHours \subseteq Nat /\ LastHours \subseteq Nat
  /\ Outcomes \subseteq Int /\ Unset \notin Int /\ Unset \notin [DayTypes -> [low : Nat, high : Nat]]

VARIABLES
  table,      \* the campaign's
  stage,      \* the statement of --tzpopulate that is next, 0 if none runs
  failed,     \* history: a statement of the last run did not succeed
  covered,    \* history: the rows that were there when the last run began
  clock,      \* hours, UTC
  isAHoliday, \* the daemon's
  placed      \* history: the calls of this hour

hoursvars == <<table, stage, failed, covered, clock, isAHoliday, placed>>

\* today: lastupdated is of today.
Hours == [DayTypes -> [low : Nat, high : Nat]]
RowType == [zone : 0 .. 10, hours : Hours \cup {Unset},
            disposition : Outcomes \cup {0, 1, Unset}, today : BOOLEAN]
NewRow == [zone |-> 0, hours |-> Unset, disposition |-> Unset, today |-> TRUE]

\* A call, the query that chose it, what kind of day the daemon took it for,
\* whether its row was of today and not yet called, and whether the table was
\* as a run of --tzpopulate without a failure leaves it.
Placed == [lead : Phones, query : {"main", "callback", "closer"}, daytype : DayTypes,
           fresh : BOOLEAN, ready : BOOLEAN]
-------------------------------------------------------------------------------
(* The table                                                                  *)

\* tzpopulate's files, west to east; a code is in one of them.
Zones ==
  <<[tzl |-> -10, tzh |-> -10], [tzl |-> -9, tzh |-> -9], [tzl |-> -8, tzh |-> -8],
    [tzl |-> -8, tzh |-> -7], [tzl |-> -7, tzh |-> -7], [tzl |-> -7, tzh |-> -6],
    [tzl |-> -6, tzh |-> -6], [tzl |-> -6, tzh |-> -5], [tzl |-> -5, tzh |-> -5],
    [tzl |-> -4, tzh |-> -4]>>

\* The files are right about winter.
ASSUME PlacesAssumption ==
  \A l \in Phones : ZoneOf[l] # 0 =>
    \A place \in Places[l] : place.standard \in {Zones[ZoneOf[l]].tzl, Zones[ZoneOf[l]].tzh}

\* State::Parse: of the lines that speak of a kind of day the last one counts,
\* else the FTC's hours do.
FTC == [low |-> 8, high |-> 21]
Parse(text) ==
  [d \in DayTypes |->
     LET said == {i \in DOMAIN text : text[i].key \in {d, "all"}} IN
     IF said = {} THEN FTC
     ELSE LET line == text[CHOOSE i \in said : \A j \in said : j <= i]
          IN  [low |-> line.low, high |-> line.high]]

Always == [d \in DayTypes |-> [low |-> 0, high |-> 24]]

createTzQuery(l, r, file) == IF ZoneOf[l] = file THEN [r EXCEPT !.zone = file] ELSE r

\* The statements of tzpopulate, and after them those of statepopulate, on a row.
tzpopulate(l, r, n) ==
  IF n > 1 THEN createTzQuery(l, r, n - 1)
  ELSE IF r.disposition = Unset THEN [r EXCEPT !.zone = 0, !.disposition = 1]
  ELSE r

\* A slip the checks must catch: the states first, and then the initial values.
statepopulateLast(l, r, n) ==
  IF n > Len(StatesTxt) THEN [r EXCEPT !.hours = Always]
  ELSE IF StateOf[l] = n THEN [r EXCEPT !.hours = Parse(StatesTxt[n])]
  ELSE r

statepopulate(l, r, n) ==
  IF n = 1 THEN [r EXCEPT !.hours = Always]
  ELSE IF StateOf[l] = n - 1 THEN [r EXCEPT !.hours = Parse(StatesTxt[n - 1])]
  ELSE r

TzStatements == 1 + Len(Zones)
Statements == TzStatements + 1 + Len(StatesTxt)
Statement(l, r, n) ==
  IF n <= TzStatements THEN tzpopulate(l, r, n) ELSE statepopulate(l, r, n - TzStatements)

\* The column is stamped when a row changes.
Stamp(r, new) == IF new = r THEN r ELSE [new EXCEPT !.today = @ \/ Stamps]
-------------------------------------------------------------------------------
(* The filter                                                                 *)

Day(t) == t \div 24
localtime(t) == TmOf[Day(t + Offset)]

\* StaticHoliday and DynamicHoliday, with their parsers: a static line's first
\* number goes into the day and its second into the month; both compare the
\* month with tm_mon, which counts from 0.
IsStaticToday(line, tm) == tm.mon = line[2] /\ tm.mday = line[1]
DaysIn(mon) == CASE mon + 1 \in {4, 6, 9, 11} -> 30 [] mon = 2 -> 28 [] OTHER -> 31
IsDynamicToday(line, tm) ==
  /\ line[2] = tm.wday /\ line[3] = tm.mon
  /\ IF line[1] = 0 THEN tm.mday + (7 - tm.wday) + 1 >= DaysIn(tm.mon)
     ELSE line[1] = tm.mday \div 7 + 1

isHoliday(t) ==
  \/ \E line \in Static : IsStaticToday(line, localtime(t))
  \/ \E line \in Dynamic : IsDynamicToday(line, localtime(t))

\* Daylight savings time, of the day in UTC.
isdst(t) ==
  LET tm == TmOf[Day(t)] IN
  IF \/ tm.mon \in 4 .. 8
     \/ tm.mon = 3 /\ tm.mday - 1 - tm.wday > 0
     \/ tm.mon = 9 /\ tm.mday + (7 - tm.wday) <= 31
  THEN 1 ELSE 0

tm_hour(t) == (t % 24) + isdst(t)

daytype(t) ==
  IF isAHoliday THEN "hol"
  ELSE CASE localtime(t).wday = 0 -> "sun" [] localtime(t).wday = 6 -> "sat" [] OTHER -> "wday"

\* Two slips: as it was when it "wouldn't work before 9 GMT" (ChangeLog), and
\* a last hour that counts.
WrappedOnce(hour) == hour
Wrapped(hour) == IF hour < 0 THEN hour + 24 ELSE hour

getFilterTo(r, t) ==
  /\ r.zone # 0 /\ r.hours # Unset
  /\ Wrapped(Zones[r.zone].tzl + tm_hour(t)) >= Earliest
  /\ Wrapped(Zones[r.zone].tzh + tm_hour(t)) <= Latest

getFilter(r, t) ==
  /\ r.zone # 0 /\ r.hours # Unset
  /\ LET own == r.hours[daytype(t)]
         low == Wrapped(Zones[r.zone].tzl + tm_hour(t))
         high == Wrapped(Zones[r.zone].tzh + tm_hour(t))
     IN  /\ low >= Earliest /\ high < Latest
         /\ low >= own.low /\ high < own.high

\* The three selections, as far as they tell hours: the main one, whose OR lets
\* rows of today pass without the filter, the agents' callbacks', and the
\* closers', which has no filter.
Fresh(r) == r.today /\ r.disposition = 1
Selects(query, r) ==
  CASE query = "main" ->
         \/ ~ CallToday /\ Fresh(r)
         \/ (CallToday \/ ~ r.today) /\ getFilter(r, clock)
    [] query = "callback" -> r.disposition = 0 /\ getFilter(r, clock)
    [] query = "closer" -> r.disposition = 12
-------------------------------------------------------------------------------
HoursInit ==
  /\ table = <<>> /\ stage = 0 /\ failed = FALSE /\ covered = {}
  /\ clock \in FirstHours
  /\ isAHoliday = isHoliday(clock)
  /\ placed = {}

\* importUploaded of the API: rows without zone, hours or disposition.
Import(new) ==
  /\ new # {} /\ new \cap DOMAIN table = {}
  /\ table' = [l \in DOMAIN table \cup new |-> IF l \in new THEN NewRow ELSE table[l]]
  /\ UNCHANGED <<stage, failed, covered, clock, isAHoliday, placed>>

\* gnudialer --tzpopulate, or the end of up.cgi.
Tzpopulate ==
  /\ stage = 0
  /\ stage' = 1
  /\ failed' = FALSE
  /\ covered' = DOMAIN table
  /\ UNCHANGED <<table, clock, isAHoliday, placed>>

\* The next statement, which is a process of its own and not looked after.
NextStage == stage' = IF stage = Statements THEN 0 ELSE stage + 1
Populate ==
  /\ stage > 0
  /\ table' = [l \in DOMAIN table |-> Stamp(table[l], Statement(l, table[l], stage))]
  /\ NextStage
  /\ UNCHANGED <<failed, covered, clock, isAHoliday, placed>>

PopulateFails ==
  /\ stage > 0
  /\ failed' = TRUE
  /\ NextStage
  /\ UNCHANGED <<table, covered, clock, isAHoliday, placed>>

\* One of the selections, as many of its rows as there are lines for; the
\* UPDATE of their attempts may stamp them.  A lead called again within the hour
\* would show nothing new.
Called == {p.lead : p \in placed}
Place(query, leads) ==
  /\ \A l \in leads : l \notin Called /\ Selects(query, table[l])
  /\ placed' = placed \cup {[lead |-> l, query |-> query, daytype |-> daytype(clock),
                             fresh |-> Fresh(table[l]), ready |-> stage = 0 /\ ~ failed] :
                            l \in leads}
  /\ table' = [l \in DOMAIN table |->
                 IF l \in leads THEN [table[l] EXCEPT !.today = @ \/ Stamps] ELSE table[l]]
  /\ UNCHANGED <<stage, failed, covered, clock, isAHoliday>>

\* A call's fate is written into the row by the daemon, or what the agent enters
\* by the API, with the time (stamped).
Outcome(l, d) ==
  /\ l \in DOMAIN table
  /\ \E stamped \in {Stamps, TRUE} :
       table' = [table EXCEPT ![l].disposition = d, ![l].today = @ \/ stamped]
  /\ UNCHANGED <<stage, failed, covered, clock, isAHoliday, placed>>

\* The daemon asks for holidays once, when it starts.
StartAnew ==
  /\ isAHoliday' = isHoliday(clock)
  /\ UNCHANGED <<table, stage, failed, covered, clock, placed>>

HourPasses ==
  /\ clock \notin LastHours
  /\ clock' = clock + 1
  /\ table' = [l \in DOMAIN table |->
                 [table[l] EXCEPT !.today = @ /\ Day(clock + Offset) = Day(clock' + Offset)]]
  /\ placed' = {}
  /\ UNCHANGED <<stage, failed, covered, isAHoliday>>

HoursNext ==
  \/ \E new \in SUBSET Phones : Import(new)
  \/ Tzpopulate
  \/ Populate
  \/ PopulateFails
  \/ \E leads \in SUBSET DOMAIN table \ {{}}, query \in {"main", "callback", "closer"} : Place(query, leads)
  \/ \E l \in Phones, d \in Outcomes : Outcome(l, d)
  \/ StartAnew
  \/ HourPasses

HoursSpec == HoursInit /\ [][HoursNext]_hoursvars
-------------------------------------------------------------------------------
HoursTypeOK ==
  /\ DOMAIN table \subseteq Phones
  /\ \A l \in DOMAIN table : table[l] \in RowType
  /\ stage \in 0 .. Statements
  /\ failed \in BOOLEAN
  /\ covered \subseteq DOMAIN table
  /\ clock \in Nat
  /\ isAHoliday \in BOOLEAN
  /\ placed \subseteq Placed

\* The clock where the lead may be, which goes by its own summer time, and the
\* clocks the filter takes for hers: those of her file's zones, by the summer
\* time of tzfilter.h.
Ahead(place, t)     == place.standard + (IF t \in place.summer THEN 1 ELSE 0)
HourThere(place, t) == (t + Ahead(place, t)) % 24
ZonesOf(l)          == {Zones[ZoneOf[l]].tzl, Zones[ZoneOf[l]].tzh}
Taken(l)            == {z + isdst(clock) : z \in ZonesOf(l)}
FilterHour(z, t)    == (t + isdst(t) + z) % 24

\* Her hour is one of the span, wherever she may be; when the filter takes no
\* clock like hers, an hour before or after it is.
Within(l, span) ==
  \A place \in Places[l] :
    \E e \in IF Ahead(place, clock) \in Taken(l) THEN {0} ELSE {-1, 1} :
      (HourThere(place, clock) + e) % 24 \in span.low .. span.high - 1

Own(l) == IF StateOf[l] = 0 THEN Always ELSE Parse(StatesTxt[StateOf[l]])

\* It is before midnight in one of her file's zones and after it in the other.
AtMidnight(l) ==
  /\ FilterHour(Zones[ZoneOf[l]].tzl, clock) = 23
  /\ FilterHour(Zones[ZoneOf[l]].tzh, clock) = 0

\* Chosen without the filter.
Unfiltered(p) == p.query = "closer" \/ (p.query = "main" /\ ~ CallToday /\ p.fresh)

InSettingsHours(p) ==
  ZoneOf[p.lead] # 0 /\ Within(p.lead, [low |-> Earliest, high |-> Latest])
InStateHours(p) == p.ready => Within(p.lead, Own(p.lead)[p.daytype])

\* While imports run, and whatever of them fails, no lead is called through the
\* filter before Earliest or from Latest on, by the clock of any place she may
\* be in, nor, when --tzpopulate has run through, at an hour that her state
\* forbids on the kind of day the daemon takes it for; but for the hour
\* AtMidnight is about, and for an hour where her summer time is not the code's.
CalledInHours ==
  \A p \in placed :
    \/ Unfiltered(p)
    \/ ZoneOf[p.lead] # 0 /\ AtMidnight(p.lead)
    \/ InSettingsHours(p) /\ InStateHours(p)

\* A run of --tzpopulate none of whose statements failed leaves each row that was
\* there when it began with its zone and its state's hours, also the rows that
\* an earlier one left half done, and calls, their outcomes and other imports
\* in between do not disturb it.
PopulatedRight ==
  stage = 0 /\ ~ failed =>
    \A l \in covered :
      /\ table[l].zone = ZoneOf[l] /\ table[l].hours = Own(l)
      /\ table[l].disposition # Unset

\* The filter is no stricter than that: a lead in her hours wherever she may be,
\* passes it, also when it is another day in Greenwich, if the clocks taken for
\* hers are those of the places she may be in.
CalledWheneverAllowed ==
  stage = 0 /\ ~ failed =>
    \A l \in covered :
      /\ ZoneOf[l] # 0
      /\ Taken(l) \subseteq {Ahead(place, clock) : place \in Places[l]}
      /\ Within(l, [low |-> Earliest, high |-> Latest]) /\ Within(l, Own(l)[daytype(clock)])
      => getFilter(table[l], clock)
-------------------------------------------------------------------------------
\* "Enter 0-0 if calls shouldn't be placed in a given situation" (states.txt),
\* whether an import runs or not: it is not so.
StateHoursKept ==
  \A p \in placed :
    ~ Unfiltered(p) => AtMidnight(p.lead) \/ Within(p.lead, Own(p.lead)[p.daytype])
===============================================================================
