------------------------------- MODULE MCPlaced -------------------------------
(***************************************************************************)
(* The dialing pass on the instance of MCDialing, and beside it the hours  *)
(* at which the pass may call the leads it selects (CallHours), at the end *)
(* of October 2006, when the clocks went back on Sunday the 29th.  The two *)
(* share no variable; a behaviour is of one of them.                       *)
(***************************************************************************)
EXTENDS MCDialing, CallHours, TLC

VARIABLE part

\* Two states as states.txt has them; the file of codes in both Pacific and
\* Mountain time is the fourth.
Hour(key, low, high) == [key |-> key, low |-> low, high |-> high]
MCStatesTxt ==
  << <<Hour("wday", 8, 20), Hour("sat", 8, 20), Hour("sun", 0, 0), Hour("hol", 0, 0)>>,
     <<Hour("all", 9, 21)>> >>
MCZones  == [shared |-> 4, eastern |-> 9]
MCStates == [shared |-> 0, eastern |-> 1]
MCOffset == -5

\* Summer time ends on the 29th at two, by the clock of each zone.
Daylight(standard) == [standard |-> standard, summer |-> 0 .. 48 + 1 - (standard + 1)]
MCPlaces == [shared |-> {Daylight(-8), Daylight(-7)}, eastern |-> {Daylight(-5)}]

\* From Friday, October 27; the holiday is the 30th, as the program reads it.
MCTmOf == [n \in 0 .. 4 |-> [mon |-> 9, mday |-> 27 + n, wday |-> (5 + n) % 7]]
MCHolidays == {<<30, 9>>}

MCInit ==
  /\ Init /\ HoursInit
  /\ part \in {"pass", "hours"}
  /\ part = "pass" => \A t \in FirstHours : clock <= t
  /\ part = "hours" => now = 0
MCNext ==
  /\ UNCHANGED part
  /\ \/ part = "pass" /\ Next /\ UNCHANGED hoursvars
     \/ part = "hours" /\ HoursNext /\ UNCHANGED vars
MCSpec == MCInit /\ [][MCNext]_<<vars, hoursvars, part>>
===============================================================================
