-------------------------------- MODULE Reports --------------------------------
(***************************************************************************)
(* What the statistics pages (newstats.cpp, agenthours.cpp) make of the    *)
(* daemon's files of counters and of Asterisk's queue_log.                 *)
(*                                                                         *)
(* A range of days is walked by year, month 1 to 12 and day 1 to 31; each  *)
(* goes through mktime, which takes the 31st of a short month for a day of *)
(* the next, while the file's name says what was asked for.  getEpoch      *)
(* leaves tm_isdst uninitialised, so each of its results may be an hour    *)
(* off.  The calendar here has Months; the longest ends the inner loop.    *)
(***************************************************************************)
EXTENDS Counters, FiniteSetsExt

CONSTANTS
  Months,  \* the lengths of a year's months
  MaxLog   \* bound: lines of queue_log

ASSUME MonthsAssumption == Months \in Seq(Nat \ {0}) /\ Months # <<>> /\ MaxLog \in Nat

VARIABLES
  log,  \* the lines of queue_log about an agent: [type, at]
  clock \* its time, in units of which Hour and Day are multiples

reportsvars == <<log, clock>>

Hour == 2
Day == 8
Longest == Max(Range(Months))
Total(s) == FoldLeft(+, 0, s)
Year == Total(Months)

\* A day by its number, as the clock counts, and by its name.
Serial(n) == (n.year - 1) * Year + Total(SubSeq(Months, 1, n.month - 1)) + n.day
Asked(years) == [year : years, month : DOMAIN Months, day : 1 .. Longest]
Named(n) == n.day <= Months[n.month]
YearOf(d) == (d - 1) \div Year + 1
NameOf(d) == CHOOSE n \in Asked({YearOf(d)}) : Named(n) /\ Serial(n) = d

Ranges == {r \in Days \X Days : r[1] <= r[2]}
-----------------------------------------------------------------------------
\* LoadDateRange's start, and a slip the checks must catch: as it once was.
BeforeOnce(epoch) == epoch - Day
Before(epoch) == epoch - 1

\* SysDayStats::LoadDateRange: the names it may come to read.
LoadDateRange(r) ==
  LET names == Asked(YearOf(r[1]) .. YearOf(r[2]))
      Walk(start, end, off) ==
        IF end < start THEN {}
        ELSE {n \in names : Serial(n) * Day + off[n] \in start .. end}
  IN { Walk(Before(r[1] * Day + from), r[2] * Day + to, off) :
         from \in {0, Hour}, to \in {0, Hour}, off \in [names -> {0, Hour}] }

Loads == UNION {{[range |-> r, names |-> ns] : ns \in LoadDateRange(r)} : r \in Ranges}

\* SysDayStats: a file counts if there is one and its last line says something.
Valid(n) ==
  /\ Named(n)
  /\ Serial(n) \in DOMAIN file
  /\ LET f == file[Serial(n)] IN "ansmachs" \in DOMAIN f /\ f.ansmachs # Blank

\* The page's number of calls.
CallsOf(names) ==
  MapThenSumSet(LAMBDA n : IF Valid(n) THEN atoi(file[Serial(n)].calls) ELSE 0, names)
-----------------------------------------------------------------------------
\* AgentLoginHelperList::handleEntry: year, month and day one after the other.
NotBefore(n, m) ==
  \/ n.year > m.year
  \/ n.year = m.year /\ (n.month > m.month \/ (n.month = m.month /\ n.day >= m.day))
InRange(at, r) ==
  LET n == NameOf(at \div Day + 1) IN NotBefore(n, NameOf(r[1])) /\ NotBefore(NameOf(r[2]), n)

\* AgentLoginHelper, and a slip: NoteLogoff leaves loggedInTime.
NoteLogin(h, at) == [h EXCEPT !.loggedInTime = at]
NoteLogoffAgain(h, at) ==
  IF h.loggedInTime = 0 THEN h
  ELSE [h EXCEPT !.runningTotal = @ + at - h.loggedInTime]
NoteLogoff(h, at) ==
  IF h.loggedInTime = 0 THEN h
  ELSE [loggedInTime |-> 0, runningTotal |-> h.runningTotal + at - h.loggedInTime]

handleEntry(h, entry, r) ==
  CASE entry.type = "AGENTLOGIN" /\ InRange(entry.at, r) -> NoteLogin(h, entry.at)
    [] entry.type = "AGENTLOGOFF" -> NoteLogoff(h, entry.at)
    [] OTHER -> h

\* AgentLoginHelper::GetTimeLogged after Parse.
GetTimeLogged(r) ==
  LET h == FoldLeft(LAMBDA g, entry : handleEntry(g, entry, r),
                    [loggedInTime |-> 0, runningTotal |-> 0], log)
  IN IF h.loggedInTime = 0 THEN h.runningTotal ELSE h.runningTotal + clock - h.loggedInTime

ReportsInit == log = <<>> /\ clock = 1

\* Asterisk writes a line, some time after the one before.  It need not have
\* written the end of a session: it may have died.
LogEntry(type, gap) ==
  /\ Len(log) < MaxLog
  /\ clock + gap < LastDay * Day
  /\ clock' = clock + gap
  /\ log' = Append(log, [type |-> type, at |-> clock'])

TimePasses ==
  /\ clock + Hour < LastDay * Day
  /\ clock' = clock + Hour
  /\ UNCHANGED log

\* A page reads and writes nothing.
ReadPage == UNCHANGED reportsvars

ReportsNext ==
  \/ ReadPage
  \/ \E type \in {"AGENTLOGIN", "AGENTLOGOFF"}, gap \in {Hour, Day} : LogEntry(type, gap)
  \/ TimePasses
-----------------------------------------------------------------------------
\* The file of day d says what was counted on d: it was never torn, nobody
\* counted under the date after the day, and the day's own date is in it (one
\* written after midnight and before the refresh carries the day before's
\* counters, which a report then takes for d's).
Sound(d) ==
  /\ d \notin torn \cup late
  /\ ~ (writing # <<>> /\ d \in {opened, Date})
  /\ d \in DOMAIN file => file[d].datestring = Text(d)

\* The system's row of a campaign's report: whatever the hours by which mktime
\* is off, and at the ends of months and years, each day inside the range is
\* read exactly once with what the daemon counted on it, and no day outside.
\* The first and the last day are counted too or missed, as tm_isdst wills.
ReportIsExact ==
  counts > 0 =>
    LET Counted(ds) == MapThenSumSet(LAMBDA d : counted[d].calls, ds) IN
    \A l \in Loads :
      (\A d \in l.range[1] .. l.range[2] : Sound(d)) =>
      \E border \in SUBSET {l.range[1], l.range[2]} :
        CallsOf(l.names) = Counted((l.range[1] + 1 .. l.range[2] - 1) \cup border)

\* The logged hours: each second of a session that began in the range counts
\* once, also after the range's end and until now if it has not ended; a
\* session without an end counts from the last login.  Sessions that began
\* before the range do not count, and a logoff ends no session twice.
LoggedOnce ==
  log # <<>> => \A r \in Ranges :
    LET Login(e) == e.type = "AGENTLOGIN" /\ e.at \div Day + 1 \in r[1] .. r[2]
        Logoff(e) == e.type = "AGENTLOGOFF"
        kept == SelectSeq(log, LAMBDA e : Login(e) \/ Logoff(e))
        Counts(t) ==
          \E i \in DOMAIN kept :
            /\ Login(kept[i]) /\ kept[i].at <= t
            /\ i < Len(kept) => Logoff(kept[i + 1]) /\ t < kept[i + 1].at
    IN GetTimeLogged(r) = Cardinality({t \in 0 .. clock - 1 : Counts(t)})
================================================================================
