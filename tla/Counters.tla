------------------------------- MODULE Counters -------------------------------
(***************************************************************************)
(* The counters of a campaign (abnhelper.h, and what queue.h and the main  *)
(* loop do with them).  They live in memory, are written whenever calls or *)
(* abandons are counted, and read back at every refresh.  There is a file  *)
(* for each day; its lines say which day they are about.  A line in memory *)
(* or in a file is a text: blank, or one number.                           *)
(*                                                                         *)
(* Every std::endl flushes, so the daemon may leave any beginning of a     *)
(* file.  The file's name is the clock's day as it is opened, the date in  *)
(* it the day of the last refresh: around midnight they differ.            *)
(*                                                                         *)
(* disconnects, noanswers, busies and congestions are like ansmachs, which *)
(* stands for all five.                                                    *)
(***************************************************************************)
EXTENDS Integers, Sequences, SequencesExt

CONSTANTS
  LastDay,    \* bound: days
  MaxCounted  \* bound: times calls, abandons or machines are counted

ASSUME CountersAssumption == LastDay \in Nat \ {0} /\ MaxCounted \in Nat

VARIABLES
  day,      \* the clock's
  running,  \* the daemon is
  mem,      \* the campaign's AbnHelper
  file,     \* the files there are, each by its lines
  writing,  \* what Write has still to do
  opened,   \* the day of the file it opened last
  counts,   \* how often something was counted
  counted,  \* history: all calls and abandons counted under each date
  torn,     \* history: days of a file that could not be opened or was left half
  late      \* history: days whose counters were in use after the day's end

countersvars == <<day, running, mem, file, writing, opened, counts, counted, torn, late>>

Days == 1 .. LastDay
Layout == <<"calls", "totalcalls", "abandons", "totalabandons", "datestring", "ansmachs">>
Names == Range(Layout)
Blank == <<>>
Text(n) == <<n>>
atoi(t) == IF t = Blank THEN 0 ELSE t[1]
Plus(t, n) == Text(atoi(t) + n)
Zeros == [n \in Names |-> Text(0)]
With(f, x, y) == [z \in DOMAIN f \cup {x} |-> IF z = x THEN y ELSE f[z]]
\* What a file says, where it has no line nothing.
Said(f) == [n \in Names |-> IF n \in DOMAIN f THEN f[n] ELSE Blank]

\* A slip the checks must catch: the counters of another day are kept.
ReadAnyDay(d) ==
  IF d \notin DOMAIN file THEN [Zeros EXCEPT !.datestring = Text(d)]
  ELSE [Said(file[d]) EXCEPT !.datestring = Text(d)]

\* AbnHelper::Read into a new object.
Read(d) ==
  IF d \notin DOMAIN file THEN [Zeros EXCEPT !.datestring = Text(d)]
  ELSE LET got == Said(file[d]) IN
       IF got.datestring = Text(d) THEN got
       ELSE [got EXCEPT !.datestring = Text(d), !.calls = Text(0), !.abandons = Text(0),
                        !.ansmachs = Text(0)]

\* AbnHelper::Write.
Write == <<"open">> \o Layout

NotWriting == running /\ writing = <<>>
Date == atoi(mem.datestring)
Late == IF Date = day THEN {} ELSE {Date}
-----------------------------------------------------------------------------
CountersInit ==
  /\ day = 1
  /\ running = FALSE
  /\ mem = Zeros
  /\ file = <<>>
  /\ writing = <<>>
  /\ opened = 1
  /\ counts = 0
  /\ counted = [d \in Days |-> [calls |-> 0, abandons |-> 0]]
  /\ torn = {}
  /\ late = {}

\* The daemon's start, or a refresh: every campaign is a new object.
Load ==
  /\ writing = <<>>
  /\ running' = TRUE
  /\ mem' = Read(day)
  /\ UNCHANGED <<day, file, writing, opened, counts, counted, torn, late>>

Count ==
  /\ NotWriting
  /\ counts < MaxCounted
  /\ counts' = counts + 1
  /\ UNCHANGED <<day, running, file, opened, torn>>

\* A pass has put n leads into the cache: AddCallsDialed and WriteCalls.
CountCalls(n) ==
  /\ Count
  /\ mem' = [mem EXCEPT !.calls = Plus(@, n), !.totalcalls = Plus(@, n)]
  /\ counted' = [counted EXCEPT ![Date].calls = @ + n]
  /\ writing' = Write
  /\ late' = late \cup Late

\* No agent took the customer: IncrementAbandons, WriteAbn and WriteCalls.
CountAbandon ==
  /\ Count
  /\ mem' = [mem EXCEPT !.abandons = Plus(@, 1), !.totalabandons = Plus(@, 1)]
  /\ counted' = [counted EXCEPT ![Date].abandons = @ + 1]
  /\ writing' = Write \o Write
  /\ late' = late \cup Late

\* An answering machine: in memory alone, until calls or abandons are written.
CountMachine ==
  /\ Count
  /\ mem' = [mem EXCEPT !.ansmachs = Plus(@, 1)]
  /\ UNCHANGED <<counted, writing, late>>

Opens == running /\ writing # <<>> /\ Head(writing) = "open"

\* std::ofstream empties the file, or makes it.
Open ==
  /\ Opens
  /\ file' = With(file, day, <<>>)
  /\ opened' = day
  /\ writing' = Tail(writing)
  /\ UNCHANGED <<day, running, mem, counts, counted, torn, late>>

\* It cannot be opened: a message on cerr.
FailToOpen ==
  /\ Opens
  /\ torn' = torn \cup {day, Date}
  /\ writing' = SubSeq(writing, Len(Write) + 1, Len(writing))
  /\ UNCHANGED <<day, running, mem, file, opened, counts, counted, late>>

WriteLine ==
  /\ running /\ writing # <<>> /\ ~ Opens
  /\ LET n == Head(writing) IN file' = [file EXCEPT ![opened] = With(@, n, mem[n])]
  /\ writing' = Tail(writing)
  /\ UNCHANGED <<day, running, mem, opened, counts, counted, torn, late>>

\* The daemon refreshes at least once a day.
Midnight ==
  /\ day < LastDay
  /\ running => Date = day
  /\ day' = day + 1
  /\ late' = late \cup (IF Contains(writing, "open") THEN {day} ELSE {})
  /\ UNCHANGED <<running, mem, file, writing, opened, counts, counted, torn>>

\* The daemon ends, wherever it is; what it was writing is left as it is.
Ends ==
  /\ running
  /\ running' = FALSE
  /\ mem' = Zeros
  /\ writing' = <<>>
  /\ torn' = torn \cup (IF writing = <<>> THEN {} ELSE {opened, Date})
  /\ UNCHANGED <<day, file, opened, counts, counted, late>>

CountersNext ==
  \/ Load \/ CountAbandon \/ CountMachine
  \/ \E n \in 1 .. 2 : CountCalls(n)
  \/ Open \/ FailToOpen \/ WriteLine
  \/ Midnight \/ Ends

CountersSpec == CountersInit /\ [][CountersNext]_countersvars
-----------------------------------------------------------------------------
\* Refreshes, restarts, midnight and half-written files in any order: the
\* daemon's calls and abandons of the day, which pace its dialing, are exactly
\* those counted since the day began for it, unless a file of the day was torn
\* or could not be opened.  Even then they are no more than the totals.
DayIsExact ==
  running =>
    /\ Date \notin torn =>
         /\ atoi(mem.calls) = counted[Date].calls
         /\ atoi(mem.abandons) = counted[Date].abandons
    /\ atoi(mem.calls) <= atoi(mem.totalcalls)
    /\ atoi(mem.abandons) <= atoi(mem.totalabandons)
===============================================================================
