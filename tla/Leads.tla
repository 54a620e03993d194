-------------------------------- MODULE Leads ---------------------------------
(***************************************************************************)
(* The table of a campaign's leads, and everything that writes it: the     *)
(* daemon when it selects leads and when it reads of their calls' fates,   *)
(* the agents' screens through the API and through a user event, and the   *)
(* clock, on which the daemon's queries depend.                            *)
(*                                                                         *)
(* A row is read in one place and written in another long after: a lead    *)
(* stays as it was while its call is out, and an agent's screen writes     *)
(* back the whole row it was opened with.                                  *)
(***************************************************************************)
EXTENDS Integers, FiniteSets

CONSTANTS
  Ids,             \* the leads of the campaign
  NoLead,          \* the lead of a slot without a call
  Slots,           \* bound: calls that exist at a time
  DNC,             \* the leads whose numbers are in the table DNC
  CallToday,       \* the setting calltoday
  UseCallback,     \* the setting usecallback
  UseCloser,       \* the setting usecloser, with a closercam
  OnUpdate,        \* the table stamps a row whenever it changes: tzpopulate's
                   \* does, the one the API creates does not
  FilterAttempts,  \* 4 in the default filter
  AgentDispos,     \* the dispositions agents give
  MaxDials         \* bound: a lead is dialed this often

Dispositions == -8 .. 12

ASSUME LeadsAssumption ==
  /\ NoLead \notin Ids /\ DNC \subseteq Ids
  /\ {CallToday, UseCallback, UseCloser, OnUpdate} \subseteq BOOLEAN
  /\ FilterAttempts \in Nat /\ MaxDials \in Nat
  /\ AgentDispos \subseteq 0 .. 12 /\ 1 \notin AgentDispos

VARIABLES
  row,       \* the table
  calls,     \* the calls that exist, in slots
  dials,     \* history: how often each lead was put in the cache
  dialed,    \* history: whether it was today
  over,      \* history: whether it was while its row was on an agent's screen
  promised   \* history: an agent has agreed on a time that has not come

history == <<dials, dialed, over, promised>>
vars == <<row, calls, history>>

\* When to call back: cb_datetime is NULL, past, or to come.
Times == {"none", "due", "later"}

\* today: lastupdated is of today.  settled: it is some minutes ago.  closed:
\* closerdispo is not 0.
Row == [disposition : Dispositions, attempts : 0 .. MaxDials, today : BOOLEAN,
        settled : BOOLEAN, cb : Times, closed : BOOLEAN]

Stages == {"free", "cached", "ringing", "failed", "answered", "waiting", "picked",
           "talking", "closing"}

\* transfer: dialed into the context gdtransfer.  form: the columns of the row
\* as the agent's screen holds them.  dispo, cb: what the agent enters.  due:
\* what has not been delivered of it.
Form == [attempts : 0 .. MaxDials, cb : Times, closed : BOOLEAN]
Call == {call \in [lead : Ids \cup {NoLead}, stage : Stages, transfer : BOOLEAN, form : Form,
                  dispo : Dispositions, cb : Times, due : SUBSET {"api", "event"}] :
           call.stage # "free" \/ call.due # {} => call.lead \in Ids}

Blank == [attempts |-> 0, cb |-> "none", closed |-> FALSE]
New(l, transfer) ==
  [lead |-> l, stage |-> "cached", transfer |-> transfer, form |-> Blank, dispo |-> 0,
   cb |-> "none", due |-> {}]
Free == [New(NoLead, FALSE) EXCEPT !.stage = "free"]

FreeSlots == {x \in Slots : calls[x].stage = "free"}
-------------------------------------------------------------------------------
\* A slip the checks must catch: the table that does not stamp its rows.
StampNever(r) == r

\* What the table does to a row that changes.
Stamp(r) == IF OnUpdate THEN [r EXCEPT !.today = TRUE, !.settled = FALSE] ELSE r

Changed(l, r) == [row EXCEPT ![l] = r]

\* An UPDATE that sets the disposition; MySQL stamps only rows that change.
SetDisposition(r, d) == IF d = r.disposition THEN r ELSE Stamp([r EXCEPT !.disposition = d])

\* The default filter.
Filter(l) == row[l].disposition \in -5 .. 5 /\ row[l].attempts < FilterAttempts

\* The main query.  Its OR binds weaker than AND: a fresh lead of today passes
\* without the filter and without a look at the table DNC.
Selected(l) ==
  \/ ~ CallToday /\ row[l].today /\ row[l].disposition = 1
  \/ (CallToday \/ ~ row[l].today) /\ Filter(l) /\ l \notin DNC

\* The query for sales no closer has had.
CloserCallback(l) ==
  row[l].disposition = 12 /\ ~ row[l].closed /\ row[l].settled

\* A slip the checks must catch: callbacks before their time.
AgentCallbackEarly(l) == row[l].disposition = 0 /\ row[l].settled

\* The query for agents' callbacks: of the filters it reads only the setting
\* "filter", which is 0 by default.
AgentCallback(l) ==
  row[l].disposition = 0 /\ row[l].cb # "later" /\ row[l].settled

\* The disposition an OriginateResponse gives: by its reason, when the call failed.
\* Congestion on a lead already congested makes it a disconnected number.
FailureDisposition(reason, d) ==
  CASE reason = 0      -> -7
    [] reason \in {1, 3} -> -2
    [] reason = 5      -> -4
    [] reason = 8      -> IF d = -5 THEN -7 ELSE -5

\* The same of a call that was answered: a machine until an agent says otherwise.
SuccessDisposition(reason) ==
  CASE reason = 4      -> -3
    [] reason \in {1, 3} -> -2
    [] reason = 5      -> -4
    [] reason = 8      -> -5

\* The agent's screen holds the row of the call's lead.
OnScreen(l) ==
  \E x \in Slots : /\ calls[x].lead = l
                   /\ calls[x].stage = "talking" \/ "api" \in calls[x].due
-------------------------------------------------------------------------------
Init ==
  /\ row \in [Ids -> [disposition : {1}, attempts : {0}, today : BOOLEAN, settled : {TRUE},
                      cb : {"none", "due"}, closed : {FALSE}]]
  /\ calls = [x \in Slots |-> Free]
  /\ dials = [l \in Ids |-> 0]
  /\ dialed = [l \in Ids |-> FALSE]
  /\ over = [l \in Ids |-> FALSE]
  /\ promised = [l \in Ids |-> FALSE]

\* What the selection of the leads S does: each in a slot of its own.
InCache(S, transfer) ==
  \E slot \in [S -> FreeSlots] :
    /\ \A l, m \in S : slot[l] = slot[m] => l = m
    /\ calls' = [x \in Slots |->
                   IF \E l \in S : slot[l] = x
                   THEN New(CHOOSE l \in S : slot[l] = x, transfer) ELSE calls[x]]
    /\ dials' = [l \in Ids |-> IF l \in S THEN dials[l] + 1 ELSE dials[l]]
    /\ dialed' = [l \in Ids |-> dialed[l] \/ l \in S]
    /\ over' = [l \in Ids |-> over[l] \/ (l \in S /\ OnScreen(l))]
    /\ UNCHANGED promised

\* A slip the checks must catch: the daemon goes on although the UPDATE failed.
CountUnsure(S) ==
  \/ row' = [l \in Ids |-> IF l \in S THEN Stamp([row[l] EXCEPT !.attempts = row[l].attempts + 1])
                           ELSE row[l]]
  \/ row' = row

\* The UPDATE after a selection.  Should it fail, the daemon ends with what it
\* put in the cache (Restart).
Count(S) ==
  row' = [l \in Ids |-> IF l \in S THEN Stamp([row[l] EXCEPT !.attempts = row[l].attempts + 1])
                        ELSE row[l]]

\* The bound on dials and, with it, on attempts.
MayDial(l) == dials[l] < MaxDials /\ row[l].attempts < MaxDials

\* The main dialing of a pass.
DialMain ==
  \E S \in SUBSET {l \in Ids : Selected(l) /\ MayDial(l)} :
    S # {} /\ InCache(S, FALSE) /\ Count(S)

\* The closer callback of a pass: one lead at a time.
DialCloser ==
  /\ UseCloser
  /\ \E l \in Ids : CloserCallback(l) /\ MayDial(l) /\ InCache({l}, TRUE) /\ Count({l})

\* The agents' callbacks of a pass.  The closer section before has left its
\* "TRANSFER" in place.
DialCallbacks ==
  /\ UseCallback
  /\ \E S \in SUBSET {l \in Ids : AgentCallback(l) /\ MayDial(l)} :
       /\ S # {} /\ InCache(S, UseCloser)
       /\ row' = [l \in Ids |->
            IF l \in S THEN Stamp([row[l] EXCEPT !.attempts = row[l].attempts + 1, !.cb = "none"])
            ELSE row[l]]

\* CallAll: what is in the cache is dialed.
CallAll ==
  /\ \E x \in Slots : calls[x].stage = "cached"
  /\ calls' = [x \in Slots |->
                 IF calls[x].stage = "cached" THEN [calls[x] EXCEPT !.stage = "ringing"]
                 ELSE calls[x]]
  /\ UNCHANGED <<row, history>>

\* A call in the cache is forgotten, or the child that should originate it fails.
LoseCall(x) ==
  /\ calls[x].stage \in {"cached", "ringing"}
  /\ calls' = [calls EXCEPT ![x] = Free]
  /\ UNCHANGED <<row, history>>

\* The call goes from one stage to the next without a word to the daemon.
Moves(x, from, to) ==
  /\ calls[x].stage = from
  /\ calls' = [calls EXCEPT ![x].stage = to]
  /\ UNCHANGED <<row, history>>

\* The network's answer.
Fail(x) == Moves(x, "ringing", "failed")
Answer(x) == Moves(x, "ringing", "answered")

\* OriginateResponse with a failure.  It comes with the context of the call,
\* and only gdincoming is looked at.
OriginateFailure(x) ==
  LET l == calls[x].lead IN
  /\ calls[x].stage = "failed"
  /\ \E reason \in {0, 1, 3, 5, 8} :
       row' = IF calls[x].transfer THEN row
              ELSE Changed(l, SetDisposition(row[l],
                                FailureDisposition(reason, row[l].disposition)))
  /\ calls' = [calls EXCEPT ![x] = Free]
  /\ UNCHANGED history

\* OriginateResponse of a call answered.  The dialplan's own events come after it.
OriginateSuccess(x) ==
  LET l == calls[x].lead IN
  /\ calls[x].stage = "answered"
  /\ \E reason \in {1, 3, 4, 5, 8} :
       row' = IF calls[x].transfer THEN row
              ELSE Changed(l, SetDisposition(row[l], SuccessDisposition(reason)))
  /\ calls' = [calls EXCEPT ![x].stage = "waiting"]
  /\ UNCHANGED history

\* No daemon reads the response, or it gives another reason.
Unheard(x) ==
  /\ calls[x].stage \in {"failed", "answered"}
  /\ calls' = [calls EXCEPT ![x] =
                 IF calls[x].stage = "failed" THEN Free
                 ELSE [calls[x] EXCEPT !.stage = "waiting"]]
  /\ UNCHANGED <<row, history>>

\* The Fax event, if a daemon reads it; also a call that ends before any event.
Fax(x) ==
  LET l == calls[x].lead IN
  /\ calls[x].stage = "waiting" /\ ~ calls[x].transfer
  /\ row' \in {row, Changed(l, Stamp([row[l] EXCEPT !.disposition = -6]))}
  /\ calls' = [calls EXCEPT ![x] = Free]
  /\ UNCHANGED history

\* The Pickup event, if a daemon reads it: pickups + 1.
Pickup(x) ==
  LET l == calls[x].lead IN
  /\ calls[x].stage = "waiting" /\ ~ calls[x].transfer
  /\ row' \in {row, Changed(l, Stamp(row[l]))}
  /\ calls' = [calls EXCEPT ![x].stage = "picked"]
  /\ UNCHANGED history

Asked(x) == calls[x].stage = (IF calls[x].transfer THEN "waiting" ELSE "picked")

\* The customer hangs up, or has waited in vain: the Abandon event, abandons + 1,
\* except for transfers.
GiveUp(x) ==
  LET l == calls[x].lead IN
  /\ Asked(x)
  /\ \/ row' = row
     \/ ~ calls[x].transfer /\ row' = Changed(l, Stamp(row[l]))
  /\ calls' = [calls EXCEPT ![x] = Free]
  /\ UNCHANGED history

\* The customer joins an agent, whose screen reads the lead's row.
Bridge(x) ==
  LET r == row[calls[x].lead] IN
  /\ Asked(x)
  /\ calls' = [calls EXCEPT ![x].stage = "talking",
                 ![x].form = [attempts |-> r.attempts, cb |-> r.cb, closed |-> r.closed]]
  /\ UNCHANGED <<row, history>>

\* The agent chooses a disposition, and a time with a callback.  The screen
\* sends the form to the API and the event to the daemon.
Dispose(x, d, cb) ==
  /\ calls[x].stage = "talking"
  /\ IF d = 0 THEN cb \in {"due", "later"} ELSE cb = calls[x].form.cb
  /\ calls' = [calls EXCEPT ![x].stage = "closing", ![x].dispo = d, ![x].cb = cb,
                 ![x].due = {"api", "event"}]
  /\ UNCHANGED <<row, history>>

Delivered(x, m) ==
  calls' = [calls EXCEPT ![x] =
              IF calls[x].due = {m} THEN Free
              ELSE [calls[x] EXCEPT !.due = calls[x].due \ {m}]]

\* The API's updateLead: every column of the form is written back.
UpdateLead(x) ==
  LET call == calls[x] IN
  /\ "api" \in call.due
  /\ row' = Changed(call.lead,
       [disposition |-> call.dispo, attempts |-> call.form.attempts, today |-> TRUE,
        settled |-> FALSE, cb |-> call.cb, closed |-> call.form.closed])
  /\ Delivered(x, "api")
  /\ promised' = [promised EXCEPT ![call.lead] = call.dispo = 0 /\ call.cb = "later"]
  /\ UNCHANGED <<dials, dialed, over>>

\* The UserEventDispo in the daemon, of an agent or of a closer; whether the row
\* changes when the disposition does not depends on the agent's number in it.
UserEventDispo(x) ==
  LET l == calls[x].lead
      d == calls[x].dispo IN
  /\ "event" \in calls[x].due
  /\ \/ /\ \/ row' = Changed(l, SetDisposition(row[l], d))
           \/ row' = Changed(l, Stamp([row[l] EXCEPT !.disposition = d]))
        /\ promised' = [promised EXCEPT ![l] = promised[l] /\ d = 0]
     \/ /\ row' = Changed(l, Stamp([row[l] EXCEPT !.closed = (d # 0)]))
        /\ UNCHANGED promised
  /\ Delivered(x, "event")
  /\ UNCHANGED <<dials, dialed, over>>

\* The API or the daemon does not get it; the screen shows an error and goes on.
Undelivered(x, m) ==
  /\ m \in calls[x].due
  /\ Delivered(x, m)
  /\ UNCHANGED <<row, history>>

\* Some minutes pass.
Minutes ==
  /\ row' = [l \in Ids |-> [row[l] EXCEPT !.settled = TRUE]]
  /\ UNCHANGED <<calls, history>>

\* The time set for a callback comes.
TimeComes(l) ==
  /\ row[l].cb = "later"
  /\ row' = [row EXCEPT ![l].cb = "due"]
  /\ promised' = [promised EXCEPT ![l] = FALSE]
  /\ UNCHANGED <<calls, dials, dialed, over>>

\* Midnight.
NewDay ==
  /\ row' = [l \in Ids |-> [row[l] EXCEPT !.today = FALSE, !.settled = TRUE]]
  /\ dialed' = [l \in Ids |-> FALSE]
  /\ UNCHANGED <<calls, dials, over, promised>>

\* The daemon ends and is started again; its cache is lost.
Restart ==
  /\ calls' = [x \in Slots |-> IF calls[x].stage = "cached" THEN Free ELSE calls[x]]
  /\ UNCHANGED <<row, history>>

Next ==
  \/ DialMain \/ DialCloser \/ DialCallbacks \/ CallAll \/ Restart \/ Minutes \/ NewDay
  \/ \E l \in Ids : TimeComes(l)
  \/ \E x \in Slots :
       \/ LoseCall(x) \/ Fail(x) \/ Answer(x)
       \/ OriginateFailure(x) \/ OriginateSuccess(x) \/ Unheard(x)
       \/ Fax(x) \/ Pickup(x) \/ GiveUp(x) \/ Bridge(x)
       \/ \E d \in AgentDispos, cb \in Times : Dispose(x, d, cb)
       \/ UpdateLead(x) \/ UserEventDispo(x)
       \/ \E m \in {"api", "event"} : Undelivered(x, m)

Spec == Init /\ [][Next]_vars
-------------------------------------------------------------------------------
TypeOK ==
  /\ row \in [Ids -> Row]
  /\ calls \in [Slots -> Call]
  /\ dials \in [Ids -> 0 .. MaxDials]
  /\ {dialed, over, promised} \subseteq [Ids -> BOOLEAN]

\* The column attempts counts every call put in the cache, through failing
\* statements, restarts and agents' screens that write the row back, unless the
\* lead was dialed while its row was on such a screen.
AttemptsExact ==
  \A l \in Ids : ~ over[l] => row[l].attempts = dials[l]

\* With a table that stamps its rows and calltoday off, a lead dialed today is
\* dialed again only while it is still fresh, as a callback, or for a closer.
OncePerDay ==
  [][OnUpdate /\ ~ CallToday =>
       \A l \in Ids : dialed[l] /\ dials'[l] > dials[l] => row[l].disposition \in {0, 1, 12}]_vars

\* A callback agreed on for later is not dialed on the same day before its time,
\* whatever is delivered late, lost, or written by another call of the lead.
CallbackKept ==
  [][~ CallToday =>
       \A l \in Ids : promised[l] /\ row[l].today => dials'[l] = dials[l]]_vars

\* What dialeradmin says of calltoday: ONLY one attempt a day per record.
OneAttemptADay ==
  [][\A l \in Ids : dialed[l] => dials'[l] = dials[l]]_vars
===============================================================================
