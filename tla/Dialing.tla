------------------------------- MODULE Dialing --------------------------------
(***************************************************************************)
(* The dialing half of the daemon's main loop: call.h's CallCache, the     *)
(* pass over the campaigns that asks evaluate.h for a number of lines and  *)
(* fills the cache with leads, and CallAll.                                *)
(*                                                                         *)
(* A pass is: Begin (the clock is read, settings may be refreshed), the    *)
(* events, one DialCampaign for each campaign in turn, CallAll.  Time may  *)
(* pass anywhere in between.  The agents, the telephone network and the    *)
(* leads appear as the inputs of this half: how many agents are available, *)
(* which leads a query returns, which events come.                         *)
(***************************************************************************)
EXTENDS Evaluate, Sequences, FiniteSets

CONSTANTS
  Queues,        \* the active campaigns, in the order of the pass
  Settings,      \* their settings
  Leads,         \* lead numbers
  ClockMod,      \* the modulus of the clock (1000000 in the code)
  Word,          \* the modulus of unsigned integers (2^64, 2^32 for the lines)
  RefreshSoon,   \* 5: refresh allowed when more seconds than this have passed
  RefreshLate,   \* 20: refresh forced when more than this have passed
  MaxAgents,     \* bound: agents available to one campaign
  MaxCalls,      \* bound: the calls and abandons of a day are counted up to this
  MaxCache       \* bound: calls in the cache

Campaigns == {Queues[i] : i \in DOMAIN Queues}

ASSUME QueuesAssumption ==
  /\ Queues \in Seq(Campaigns) /\ Queues # <<>>
  /\ \A i, j \in DOMAIN Queues : Queues[i] = Queues[j] => i = j
ASSUME SettingsAssumption ==
  \A c \in Campaigns :
    /\ Settings[c].function \in Modes
    /\ Settings[c].maxratio \in Nat /\ Settings[c].maxabandons \in Nat
    /\ Settings[c].maxlines \in Nat /\ Settings[c].timeout \in Nat
    /\ Settings[c].usecallback \in BOOLEAN /\ Settings[c].usecloser \in BOOLEAN
ASSUME DialClockAssumption ==
  /\ ClockMod \in Nat /\ RefreshSoon \in Nat /\ RefreshLate \in Nat
  /\ Word \in Nat /\ \A c \in Campaigns : ClockMod + Settings[c].timeout < Word
  /\ RefreshSoon < RefreshLate /\ RefreshLate < ClockMod
  /\ \A c \in Campaigns : Settings[c].timeout + 1 < ClockMod
ASSUME BoundsAssumption ==
  /\ MaxAgents \in Nat /\ MaxCalls \in Nat /\ MaxCache \in Nat
  /\ IsFiniteSet(Leads)

VARIABLES
  now,       \* tv_sec % ClockMod
  turn,      \* 0: events; i: campaign Queues[i] is next; Len(Queues) + 1: CallAll
  current,   \* currentTime, read at the top of the pass
  updated,   \* timeSinceLastQueueUpdate
  cache,     \* the deque of TheCallCache
  avail,     \* what GetAvailAgents will find in the turn of the next campaign
  helper,    \* the calls and abandons of each campaign's AbnHelper
  strays     \* history: the calls placed that left the cache before their time
             \* was over, each with its place there to tell equal calls apart

vars == <<now, turn, current, updated, cache, avail, helper, strays>>

Clock == 0 .. ClockMod - 1

\* A call of the cache; its timeout in whole seconds.
Calls == [campaign : Campaigns, leadid : Leads, time : Clock, timeout : Nat,
          called : BOOLEAN, answered : BOOLEAN]

\* Subtraction of unsigned long integers.
Minus(x, y) == (x - y) % Word

\* Seconds since a call was put in the cache, whatever the clock did.
Age(call) == (now - call.time) % ClockMod
-------------------------------------------------------------------------------
Call(c, id) ==
  [campaign |-> c, leadid |-> id, time |-> now, timeout |-> Settings[c].timeout,
   called |-> FALSE, answered |-> FALSE]

\* CallCache::SetAnswered, every call of the lead.
SetAnswered(calls, c, id) ==
  [i \in DOMAIN calls |->
     [calls[i] EXCEPT !.answered =
        @ \/ (calls[i].campaign = c /\ calls[i].leadid = id)]]

\* A slip the checks must catch: a call is forgotten in its last second.
TimedOutEarly(call) == Minus(now, call.time) >= call.timeout

TimedOut(call) == Minus(now, call.time) > call.timeout

\* A slip the checks must catch: one call dropped where all those timed out at
\* the front should be.
PopOne(calls) == IF calls # <<>> /\ TimedOut(calls[1]) THEN Tail(calls) ELSE calls

\* The loop of CallCache::LinesDialing: timed out calls leave, but only from
\* the front of the deque, so that one with a longer timeout keeps those behind.
PopTimedOut(calls) ==
  LET kept == {i \in DOMAIN calls : ~ TimedOut(calls[i])}
      first == IF kept = {} THEN Len(calls) + 1
               ELSE CHOOSE i \in kept : \A j \in kept : i <= j
  IN  SubSeq(calls, first, Len(calls))

\* The count of LinesDialing: the campaign's calls nobody answered.
Lines(calls, c) ==
  Cardinality({i \in DOMAIN calls : calls[i].campaign = c /\ ~ calls[i].answered})

\* CallCache::AddCall for each row of a query's result.
AddCalls(calls, c, ids) == calls \o [i \in DOMAIN ids |-> Call(c, ids[i])]

\* What a SELECT may return: distinct leads, in the order asked for.
Rows(limit) ==
  {ids \in UNION {[1 .. n -> Leads] : n \in 0 .. Cardinality(Leads)} :
     /\ Len(ids) <= limit
     /\ \A i, j \in DOMAIN ids : i < j => ids[i] < ids[j]}

\* The calls the loop forgets while they still ring.
Strayed(calls) ==
  {[place |-> i, call |-> calls[i]] :
     i \in {j \in 1 .. Len(calls) - Len(PopTimedOut(calls)) :
             calls[j].called /\ ~ calls[j].answered /\ Age(calls[j]) <= calls[j].timeout}}

linestodial(c, calls) ==
  LET s == Settings[c] IN
  evaluate(s.function, Lines(calls, c), avail, s.maxratio, s.maxlines,
           s.maxabandons, helper[c].calls, helper[c].abandons)

\* maxlines - linestodial, which is unsigned.
remaininglines(c, calls) == Minus(Settings[c].maxlines, linestodial(c, calls))
-------------------------------------------------------------------------------
Init ==
  /\ now \in Clock
  /\ turn = 0
  /\ current = now
  /\ updated = 0
  /\ cache = <<>>
  /\ avail = 0
  /\ helper = [c \in Campaigns |-> [calls |-> 0, abandons |-> 0]]
  /\ strays = {}

\* The bound on lag: the loop does not stand still for a whole turn of the clock.
Tick ==
  /\ \A i \in DOMAIN cache : Age(cache[i]) < ClockMod - 1
  /\ now' = (now + 1) % ClockMod
  /\ strays' = {s \in strays : Age(s.call) < s.call.timeout}
  /\ UNCHANGED <<turn, current, updated, cache, avail, helper>>

\* The Queue event of a call that found an agent, or of any transfer.
Answered(c, id) ==
  /\ turn = 0
  /\ cache' = SetAnswered(cache, c, id)
  /\ strays' = {s \in strays : ~ (s.call.campaign = c /\ s.call.leadid = id)}
  /\ UNCHANGED <<now, turn, current, updated, avail, helper>>

\* The Abandon event.
Abandon(c) ==
  /\ turn = 0
  /\ helper' = [helper EXCEPT ![c].abandons = lesserOf(@ + 1, MaxCalls)]
  /\ UNCHANGED <<now, turn, current, updated, cache, avail, strays>>

\* AbnHelper::Read when its file is not of today.
NewDay == [c \in Campaigns |-> [calls |-> 0, abandons |-> 0]]

\* The top of the next pass.  Whether ten passes have gone by (t % 10 = 0) is
\* left open between the two limits; a refresh reads the queues anew, and their
\* counters from a file named for the day.
Begin ==
  /\ turn = Len(Queues) + 1
  /\ \A i \in DOMAIN cache : cache[i].called
  /\ turn' = 0
  /\ current' = now
  /\ \/ /\ Minus(now, updated) > RefreshSoon
        /\ updated' = now
        /\ helper' \in {helper, NewDay}
     \/ /\ Minus(now, updated) <= RefreshLate
        /\ UNCHANGED <<updated, helper>>
  /\ UNCHANGED <<now, cache, avail, strays>>

Turn(c) == turn \in DOMAIN Queues /\ Queues[turn] = c

\* The turn passes on, to a campaign with some number of available agents (the
\* Agents module's business), or to CallAll.
NextTurn ==
  /\ turn' = turn + 1
  /\ avail' \in (IF turn' \in DOMAIN Queues THEN 0 .. MaxAgents ELSE {0})

\* The events are all handled.
EndEvents ==
  /\ turn = 0
  /\ NextTurn
  /\ UNCHANGED <<now, current, updated, cache, helper, strays>>

\* One campaign of the pass: the main dialing, the closer callback and the
\* agent callbacks, each counted as calls dialed.
DialCampaign(c) ==
  LET s      == Settings[c]
      popped == PopTimedOut(cache)
      n      == linestodial(c, popped)
      left   == remaininglines(c, popped)
      window == left # 0 /\ Minus(current, updated) = RefreshSoon
  IN  /\ Turn(c)
      /\ \E new \in Rows(IF s.function \in {"closer", "inbound"} THEN 0 ELSE n),
            closer \in Rows(IF s.usecloser /\ window THEN 1 ELSE 0),
            callback \in Rows(IF s.usecallback /\ window THEN left ELSE 0) :
           LET ids == new \o closer \o callback IN
           /\ Len(popped) + Len(ids) <= MaxCache
           /\ cache' = AddCalls(popped, c, ids)
           /\ helper' = [helper EXCEPT ![c].calls = lesserOf(@ + Len(ids), MaxCalls)]
      /\ strays' = strays \cup Strayed(cache)
      /\ NextTurn
      /\ UNCHANGED <<now, current, updated>>

\* A slip the checks must catch: a loop that starts at the second call.
CallAllButFirst ==
  /\ turn = Len(Queues) + 1
  /\ \E i \in DOMAIN cache : ~ cache[i].called
  /\ cache' = [i \in DOMAIN cache |-> [cache[i] EXCEPT !.called = @ \/ i > 1]]
  /\ UNCHANGED <<now, turn, current, updated, avail, helper, strays>>

\* CallCache::CallAll in the daemon itself: every call not placed is placed.
CallAll ==
  /\ turn = Len(Queues) + 1
  /\ \E i \in DOMAIN cache : ~ cache[i].called
  /\ cache' = [i \in DOMAIN cache |-> [cache[i] EXCEPT !.called = TRUE]]
  /\ UNCHANGED <<now, turn, current, updated, avail, helper, strays>>

\* The daemon dies and is started again: the cache is lost, the helper's file
\* of today is not.  The history is of the calls of this life of the daemon.
Restart ==
  /\ cache' = <<>>
  /\ turn' = 0
  /\ current' = now
  /\ updated' = 0
  /\ avail' = 0
  /\ helper' \in {helper, NewDay}
  /\ strays' = {}
  /\ UNCHANGED now

Next ==
  \/ Tick \/ Begin \/ EndEvents \/ CallAll \/ Restart
  \/ \E c \in Campaigns :
       \/ DialCampaign(c) \/ Abandon(c)
       \/ \E id \in Leads : Answered(c, id)

Spec == Init /\ [][Next]_vars

\* The loop goes on by itself: its socket waits at most a second for events.
FairSpec ==
  /\ Spec
  /\ WF_vars(EndEvents) /\ WF_vars(Begin) /\ WF_vars(CallAll)
  /\ \A c \in Campaigns : WF_vars(DialCampaign(c))
-------------------------------------------------------------------------------
TypeOK ==
  /\ now \in Clock /\ current \in Clock /\ updated \in Clock
  /\ turn \in 0 .. Len(Queues) + 1
  /\ cache \in Seq(Calls) /\ Len(cache) <= MaxCache
  /\ avail \in 0 .. MaxAgents
  /\ helper \in [Campaigns -> [calls : 0 .. MaxCalls, abandons : 0 .. MaxCalls]]
  /\ strays \in SUBSET [place : Nat, call : Calls]

\* The campaigns whose lines come from the main dialing alone.
MainOnly == {c \in Campaigns : ~ Settings[c].usecallback /\ ~ Settings[c].usecloser}

\* Looking only at the front of the deque is enough, whatever the campaigns'
\* timeouts: after a campaign's turn no call of any campaign is counted that
\* is older than the longest timeout.
NoGhosts ==
  [][turn > 0 /\ turn' = turn + 1 =>
       \A i \in DOMAIN cache' : \E c \in Campaigns :
         (now - cache'[i].time) % ClockMod <= Settings[c].timeout]_vars

\* What that rests on: the calls stand in the deque in the order of their age,
\* also while the clock turns over.
OldestFirst ==
  \A i, j \in DOMAIN cache : i < j => Age(cache[i]) >= Age(cache[j])

\* The calls of a campaign that are out: those the cache counts, and those it
\* has forgotten although, by the time they were put in it, they still ring.  A
\* call of an earlier life of the daemon is not among them, nor is the second or
\* two by which its child's sleep delays a call.
Strays(c) == {s \in strays : s.call.campaign = c}
Out(c)    == Lines(cache, c) + Cardinality(Strays(c))

\* The clock has turned over since a call of the campaign was dialed that is
\* out and forgotten: the unsigned age of every call of before the turn is huge.
TurnedOver(c) == \E s \in Strays(c) : s.call.time > now

\* In mode "auto" a campaign has no more calls out than maxlines, counting those
\* the daemon forgot, through answers, timeouts of other campaigns' calls and
\* the deque's order; but at a turn of the clock twice as many, while calls of
\* before the turn ring on.
AutoWithinMaxLines ==
  \A c \in MainOnly :
    Settings[c].function = "auto" =>
      /\ Out(c) <= Settings[c].maxlines \/ TurnedOver(c)
      /\ Out(c) <= 2 * Settings[c].maxlines

\* In the modes paced by agents, a campaign's turn does not take its calls out
\* above maxratio for each available agent, and never above what they were when
\* there are already more; unless the clock turned over and calls of before the
\* turn, which the daemon forgot, are out.
RatioKept ==
  [][\A c \in MainOnly :
       /\ Turn(c) /\ Settings[c].function \in {"power", "predictive"}
       /\ Out(c)' > Out(c)
       => \/ Out(c)' <= greaterOf(avail, (Settings[c].maxratio * avail) \div Scale)
          \/ TurnedOver(c)']_vars

\* Predictive mode gives every available agent a line, up to maxlines, however
\* many calls were abandoned.
NoAgentIdle ==
  \A c \in Campaigns :
    Turn(c) /\ Settings[c].function = "predictive" =>
      LET calls == PopTimedOut(cache) IN
      Lines(calls, c) + linestodial(c, calls) >= lesserOf(avail, Settings[c].maxlines)

\* A call put in the cache is placed, unless it times out first or the daemon
\* dies with it.
CallsPlaced ==
  (\E i \in DOMAIN cache : ~ cache[i].called) ~> (\A i \in DOMAIN cache : cache[i].called)

\* What dialeradmin says of maxlines: no lead is called at this threshold.
WithinMaxLines ==
  \A c \in MainOnly : Lines(cache, c) <= Settings[c].maxlines
===============================================================================
