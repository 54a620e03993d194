----------------------------- MODULE LeadsProofs ------------------------------
(***************************************************************************)
(* Theorems about Leads, for any leads, calls, settings and table.         *)
(***************************************************************************)
EXTENDS Leads, TLAPS

\* What a selection does to the calls: some of the slots take a new call.
CallsTaken(S, transfer) ==
  /\ calls' \in [Slots -> Call]
  /\ \A x \in Slots : \/ calls'[x] = calls[x]
                      \/ \E l \in S : calls'[x] = New(l, transfer)

\* What it does to the histories.
Dialed(S) ==
  /\ dials' = [l \in Ids |-> IF l \in S THEN dials[l] + 1 ELSE dials[l]]
  /\ dialed' = [l \in Ids |-> dialed[l] \/ l \in S]
  /\ over' = [l \in Ids |-> over[l] \/ (l \in S /\ OnScreen(l))]
  /\ promised' = promised

\* The rows of callbacks are counted, and lose their times.
CountedCallbacks(S) ==
  row' = [l \in Ids |->
            IF l \in S THEN Stamp([row[l] EXCEPT !.attempts = row[l].attempts + 1, !.cb = "none"])
            ELSE row[l]]

LEMMA NewTyped ==
  ASSUME NEW l \in Ids, NEW transfer \in BOOLEAN
  PROVE  New(l, transfer) \in Call
<1>1. Blank \in Form
  BY LeadsAssumption DEF Blank, Form, Times
<1>2. 0 \in Dispositions
  BY DEF Dispositions
<1>3. QED BY <1>1, <1>2 DEF New, Call, Stages, Times

LEMMA FreeTyped == Free \in Call /\ Free.due = {} /\ Free.stage = "free"
<1>1. Blank \in Form
  BY LeadsAssumption DEF Blank, Form, Times
<1>2. 0 \in Dispositions
  BY DEF Dispositions
<1>3. QED BY <1>1, <1>2 DEF Free, New, Call, Stages, Times

\* A selection takes slots with new calls of its leads and counts them as dialed.
LEMMA InCacheShape ==
  ASSUME calls \in [Slots -> Call], NEW S \in SUBSET Ids, NEW transfer \in BOOLEAN,
         InCache(S, transfer)
  PROVE  CallsTaken(S, transfer) /\ Dialed(S)
<1>1. PICK slot \in [S -> FreeSlots] :
        calls' = [x \in Slots |->
                    IF \E l \in S : slot[l] = x
                    THEN New(CHOOSE l \in S : slot[l] = x, transfer) ELSE calls[x]]
  BY DEF InCache
<1>2. ASSUME NEW x \in Slots
      PROVE  /\ calls'[x] \in Call
             /\ calls'[x] = calls[x] \/ \E l \in S : calls'[x] = New(l, transfer)
  <2>1. CASE \E l \in S : slot[l] = x
    <3>1. (CHOOSE l \in S : slot[l] = x) \in S
      BY <2>1
    <3>2. calls'[x] = New(CHOOSE l \in S : slot[l] = x, transfer)
      BY <1>1, <2>1
    <3>3. QED BY <3>1, <3>2, NewTyped
  <2>2. CASE ~ \E l \in S : slot[l] = x
    BY <1>1, <2>2
  <2>3. QED BY <2>1, <2>2
<1>3. calls' \in [Slots -> Call]
  BY <1>1, <1>2
<1>4. QED BY <1>2, <1>3 DEF CallsTaken, Dialed, InCache

\* The three ways to dial, as one: leads that may be dialed are taken and counted.
Dials(S, transfer) ==
  /\ CallsTaken(S, transfer) /\ Dialed(S)
  /\ \A l \in S : MayDial(l)
  /\ \/ Count(S) /\ \A l \in S : Selected(l) \/ CloserCallback(l)
     \/ CountedCallbacks(S) /\ \A l \in S : AgentCallback(l)

LEMMA DialShape ==
  ASSUME calls \in [Slots -> Call], DialMain \/ DialCloser \/ DialCallbacks
  PROVE  \E S \in SUBSET Ids, transfer \in BOOLEAN : Dials(S, transfer)
<1>1. CASE DialMain
  <2>1. PICK S \in SUBSET {l \in Ids : Selected(l) /\ MayDial(l)} :
          InCache(S, FALSE) /\ Count(S)
    BY <1>1 DEF DialMain
  <2>2. CallsTaken(S, FALSE) /\ Dialed(S)
    BY <2>1, InCacheShape
  <2>3. Dials(S, FALSE)
    BY <2>1, <2>2 DEF Dials
  <2>4. QED BY <2>3
<1>2. CASE DialCloser
  <2>1. PICK l \in Ids : CloserCallback(l) /\ MayDial(l) /\ InCache({l}, TRUE) /\ Count({l})
    BY <1>2 DEF DialCloser
  <2>2. CallsTaken({l}, TRUE) /\ Dialed({l})
    BY <2>1, InCacheShape
  <2>3. Dials({l}, TRUE)
    BY <2>1, <2>2 DEF Dials
  <2>4. QED BY <2>3
<1>3. CASE DialCallbacks
  <2>1. PICK S \in SUBSET {l \in Ids : AgentCallback(l) /\ MayDial(l)} :
          InCache(S, UseCloser) /\ CountedCallbacks(S)
    BY <1>3 DEF DialCallbacks, CountedCallbacks
  <2>2. UseCloser \in BOOLEAN
    BY LeadsAssumption
  <2>3. CallsTaken(S, UseCloser) /\ Dialed(S)
    BY <2>1, <2>2, InCacheShape
  <2>4. Dials(S, UseCloser)
    BY <2>1, <2>3 DEF Dials
  <2>5. QED BY <2>2, <2>4
<1>4. QED BY <1>1, <1>2, <1>3
-------------------------------------------------------------------------------
\* What an answer, an event or the clock writes keeps the row's type.
LEMMA WritesTyped ==
  ASSUME NEW r \in Row
  PROVE  /\ Stamp(r) \in Row
         /\ \A d \in Dispositions : SetDisposition(r, d) \in Row
         /\ \A d \in Dispositions : [r EXCEPT !.disposition = d] \in Row
         /\ \A b \in BOOLEAN : [r EXCEPT !.closed = b] \in Row
         /\ [r EXCEPT !.settled = TRUE] \in Row
         /\ [r EXCEPT !.today = FALSE, !.settled = TRUE] \in Row
         /\ [r EXCEPT !.cb = "due"] \in Row
<1>1. \A s \in Row : Stamp(s) \in Row
  BY DEF Stamp, Row
<1>2. \A d \in Dispositions : [r EXCEPT !.disposition = d] \in Row
  BY DEF Row
<1>3. \A d \in Dispositions : SetDisposition(r, d) \in Row
  BY <1>1, <1>2 DEF SetDisposition
<1>4. QED BY <1>1, <1>2, <1>3 DEF Row, Times

LEMMA FailureTyped ==
  ASSUME NEW reason \in {0, 1, 3, 5, 8}, NEW d
  PROVE  FailureDisposition(reason, d) \in Dispositions /\ FailureDisposition(reason, d) < 0
BY DEF FailureDisposition, Dispositions

LEMMA SuccessTyped ==
  ASSUME NEW reason \in {1, 3, 4, 5, 8}
  PROVE  SuccessDisposition(reason) \in Dispositions /\ SuccessDisposition(reason) < 0
BY DEF SuccessDisposition, Dispositions

\* Delivering a message leaves the call as it was, or its slot free.
LEMMA DeliveredShape ==
  ASSUME calls \in [Slots -> Call], NEW x \in Slots, NEW m, Delivered(x, m)
  PROVE  /\ calls' \in [Slots -> Call]
         /\ \A y \in Slots : y # x => calls'[y] = calls[y]
         /\ \/ calls'[x] = Free
            \/ calls'[x] = [calls[x] EXCEPT !.due = calls[x].due \ {m}]
<1>1. calls[x] \in Call /\ [calls[x] EXCEPT !.due = calls[x].due \ {m}] \in Call
  BY DEF Call
<1>2. Free \in Call
  BY FreeTyped
<1>3. QED BY <1>1, <1>2 DEF Delivered

\* A dialing keeps the types.
LEMMA DialTyped ==
  ASSUME TypeOK, NEW S \in SUBSET Ids, NEW transfer \in BOOLEAN, Dials(S, transfer)
  PROVE  TypeOK'
<1>1. calls' \in [Slots -> Call]
  BY DEF Dials, CallsTaken
<1>2. MaxDials \in Nat
  BY LeadsAssumption
<1>3. ASSUME NEW l \in S
      PROVE  /\ dials[l] + 1 \in 0 .. MaxDials
             /\ Stamp([row[l] EXCEPT !.attempts = row[l].attempts + 1]) \in Row
             /\ Stamp([row[l] EXCEPT !.attempts = row[l].attempts + 1, !.cb = "none"]) \in Row
  <2>1. /\ dials[l] \in 0 .. MaxDials /\ dials[l] < MaxDials
        /\ row[l] \in Row /\ row[l].attempts < MaxDials
    BY DEF TypeOK, Dials, MayDial
  <2>2. row[l].attempts + 1 \in 0 .. MaxDials
    BY <1>2, <2>1 DEF Row
  <2>3. /\ [row[l] EXCEPT !.attempts = row[l].attempts + 1] \in Row
        /\ [row[l] EXCEPT !.attempts = row[l].attempts + 1, !.cb = "none"] \in Row
    BY <2>1, <2>2 DEF Row, Times
  <2>4. dials[l] + 1 \in 0 .. MaxDials
    BY <1>2, <2>1
  <2>5. QED BY <2>3, <2>4, WritesTyped
<1>4. row' \in [Ids -> Row]
  BY <1>3 DEF TypeOK, Dials, Count, CountedCallbacks
<1>5. dials' \in [Ids -> 0 .. MaxDials]
  BY <1>3 DEF TypeOK, Dials, Dialed
<1>6. dialed' \in [Ids -> BOOLEAN] /\ over' \in [Ids -> BOOLEAN] /\ promised' \in [Ids -> BOOLEAN]
  BY DEF TypeOK, Dials, Dialed
<1>7. QED BY <1>1, <1>4, <1>5, <1>6 DEF TypeOK

\* The steps that leave the table and the histories alone.
Silent(x) ==
  \/ LoseCall(x) \/ Fail(x) \/ Answer(x) \/ Unheard(x) \/ Bridge(x)
  \/ \E d \in AgentDispos, cb \in Times : Dispose(x, d, cb)
  \/ \E m \in {"api", "event"} : Undelivered(x, m)

\* The steps that write a row without a word of an agent.
Report(x) == OriginateFailure(x) \/ OriginateSuccess(x) \/ Fax(x) \/ Pickup(x) \/ GiveUp(x)

LEMMA SilentTyped ==
  ASSUME TypeOK, NEW x \in Slots, Silent(x)
  PROVE  calls' \in [Slots -> Call] /\ UNCHANGED <<row, history>>
<1>t. calls \in [Slots -> Call] /\ calls[x] \in Call /\ Free \in Call
  BY FreeTyped DEF TypeOK
<1>0. UNCHANGED <<row, history>>
  BY DEF Silent, LoseCall, Fail, Answer, Moves, Unheard, Bridge, Dispose, Undelivered
<1>1. ASSUME calls[x].stage # "free", NEW to \in Stages
      PROVE  calls[x].lead \in Ids /\ [calls[x] EXCEPT !.stage = to] \in Call
  BY <1>t, <1>1 DEF Call
<1>2. CASE LoseCall(x)
  BY <1>0, <1>t, <1>2 DEF LoseCall
<1>3. CASE Fail(x) \/ Answer(x)
  <2>1. calls[x].stage # "free"
    BY <1>3 DEF Fail, Answer, Moves
  <2>2. \A to \in Stages : [calls EXCEPT ![x].stage = to] \in [Slots -> Call]
    BY <1>t, <1>1, <2>1
  <2>3. QED BY <1>0, <1>3, <2>2 DEF Fail, Answer, Moves, Stages
<1>4. CASE Unheard(x)
  BY <1>0, <1>t, <1>1, <1>4 DEF Unheard, Stages
<1>5. CASE Bridge(x)
  <2> DEFINE r == row[calls[x].lead]
             form == [attempts |-> r.attempts, cb |-> r.cb, closed |-> r.closed]
  <2>1. calls[x].stage # "free" /\ calls[x].lead \in Ids
    BY <1>t, <1>5 DEF Bridge, Asked, Call
  <2>2. form \in Form
    BY <2>1 DEF TypeOK, Row, Form
  <2>3. calls' = [calls EXCEPT ![x].stage = "talking", ![x].form = form]
    BY <1>5 DEF Bridge
  <2> HIDE DEF form
  <2>4. [calls[x] EXCEPT !.stage = "talking", !.form = form] \in Call
    BY <1>t, <2>1, <2>2 DEF Call, Stages
  <2>5. QED BY <1>0, <1>t, <2>3, <2>4
<1>6. ASSUME NEW d \in AgentDispos, NEW cb \in Times, Dispose(x, d, cb)
      PROVE  calls' \in [Slots -> Call]
  <2>1. d \in Dispositions
    BY LeadsAssumption DEF Dispositions
  <2>2. QED BY <1>t, <1>6, <2>1 DEF Dispose, Call, Stages
<1>7. ASSUME NEW m \in {"api", "event"}, Undelivered(x, m) PROVE calls' \in [Slots -> Call]
  BY <1>t, <1>7, DeliveredShape DEF Undelivered
<1>8. QED BY <1>0, <1>2, <1>3, <1>4, <1>5, <1>6, <1>7 DEF Silent

\* A row as an answer, an event or the clock leaves it: what counts is kept, and
\* a disposition written is that of a machine.
Quiet(r, s) ==
  /\ s \in Row /\ s.attempts = r.attempts /\ s.cb = r.cb
  /\ r.today => s.today
  /\ s.disposition = r.disposition \/ s.disposition < 0

LEMMA QuietWrites ==
  ASSUME NEW r \in Row
  PROVE  /\ Quiet(r, r) /\ Quiet(r, Stamp(r))
         /\ \A d \in Dispositions : d < 0 =>
              Quiet(r, SetDisposition(r, d)) /\ Quiet(r, Stamp([r EXCEPT !.disposition = d]))
<1>1. /\ Stamp(r).attempts = r.attempts /\ Stamp(r).cb = r.cb
      /\ Stamp(r).disposition = r.disposition /\ (r.today => Stamp(r).today)
  BY DEF Stamp, Row
<1>2. Quiet(r, r) /\ Quiet(r, Stamp(r))
  BY <1>1, WritesTyped DEF Quiet
<1>3. ASSUME NEW d \in Dispositions, d < 0
      PROVE  Quiet(r, Stamp([r EXCEPT !.disposition = d]))
  <2> DEFINE s == [r EXCEPT !.disposition = d]
  <2>1. s \in Row /\ s.attempts = r.attempts /\ s.cb = r.cb /\ s.today = r.today
        /\ s.disposition = d
    BY DEF Row
  <2>2. Stamp(s) \in Row
    BY <2>1, WritesTyped
  <2>3. /\ Stamp(s).attempts = s.attempts /\ Stamp(s).cb = s.cb
        /\ Stamp(s).disposition = s.disposition /\ (s.today => Stamp(s).today)
    BY <2>1 DEF Stamp, Row
  <2>4. QED BY <1>3, <2>1, <2>2, <2>3 DEF Quiet
<1>4. ASSUME NEW d \in Dispositions, d < 0 PROVE Quiet(r, SetDisposition(r, d))
  BY <1>2, <1>3, <1>4 DEF SetDisposition
<1>5. QED BY <1>2, <1>3, <1>4

\* A report leaves every row quiet, and every call typed.
LEMMA ReportShape ==
  ASSUME TypeOK, NEW x \in Slots, Report(x)
  PROVE  /\ row' \in [Ids -> Row] /\ \A l \in Ids : Quiet(row[l], row'[l])
         /\ calls' \in [Slots -> Call]
         /\ UNCHANGED history
<1>t. /\ calls \in [Slots -> Call] /\ calls[x] \in Call /\ Free \in Call
      /\ row \in [Ids -> Row]
  BY FreeTyped DEF TypeOK
<1> DEFINE o == calls[x].lead
<1>1. o \in Ids
  BY <1>t DEF Report, OriginateFailure, OriginateSuccess, Fax, Pickup, GiveUp, Asked, Call
<1>2. UNCHANGED history
  BY DEF Report, OriginateFailure, OriginateSuccess, Fax, Pickup, GiveUp
<1>3. \A to \in Stages : to # "free" => [calls[x] EXCEPT !.stage = to] \in Call
  BY <1>t, <1>1 DEF Call
<1>4. calls' \in [Slots -> Call]
  <2>1. \/ calls' = [calls EXCEPT ![x] = Free]
        \/ \E to \in {"waiting", "picked"} : calls' = [calls EXCEPT ![x].stage = to]
    BY DEF Report, OriginateFailure, OriginateSuccess, Fax, Pickup, GiveUp
  <2>2. QED BY <1>t, <1>3, <2>1 DEF Stages
<1>5. -6 \in Dispositions /\ -6 < 0
  BY DEF Dispositions
<1>6. row' = row \/ \E r : Quiet(row[o], r) /\ row' = Changed(o, r)
  <2>1. row[o] \in Row
    BY <1>t, <1>1
  <2>2. CASE OriginateFailure(x)
    <3>1. PICK reason \in {0, 1, 3, 5, 8} :
            row' = IF calls[x].transfer THEN row
                   ELSE Changed(o, SetDisposition(row[o],
                                     FailureDisposition(reason, row[o].disposition)))
      BY <2>2 DEF OriginateFailure
    <3>2. Quiet(row[o], SetDisposition(row[o], FailureDisposition(reason, row[o].disposition)))
      BY <2>1, FailureTyped, QuietWrites
    <3>3. QED BY <3>1, <3>2
  <2>3. CASE OriginateSuccess(x)
    <3>1. PICK reason \in {1, 3, 4, 5, 8} :
            row' = IF calls[x].transfer THEN row
                   ELSE Changed(o, SetDisposition(row[o], SuccessDisposition(reason)))
      BY <2>3 DEF OriginateSuccess
    <3>2. Quiet(row[o], SetDisposition(row[o], SuccessDisposition(reason)))
      BY <2>1, SuccessTyped, QuietWrites
    <3>3. QED BY <3>1, <3>2
  <2>4. CASE Fax(x)
    <3>1. Quiet(row[o], Stamp([row[o] EXCEPT !.disposition = -6]))
      BY <2>1, <1>5, QuietWrites
    <3>2. row' = row \/ row' = Changed(o, Stamp([row[o] EXCEPT !.disposition = -6]))
      BY <2>4 DEF Fax
    <3>3. QED BY <3>1, <3>2
  <2>5. CASE Pickup(x) \/ GiveUp(x)
    <3>1. Quiet(row[o], Stamp(row[o]))
      BY <2>1, QuietWrites
    <3>2. row' = row \/ row' = Changed(o, Stamp(row[o]))
      BY <2>5 DEF Pickup, GiveUp
    <3>3. QED BY <3>1, <3>2
  <2>6. QED BY <2>2, <2>3, <2>4, <2>5 DEF Report
<1>7. \A l \in Ids : Quiet(row[l], row[l])
  BY <1>t, QuietWrites
<1> HIDE DEF o
<1>8. CASE row' = row
  BY <1>t, <1>2, <1>4, <1>7, <1>8
<1>9. CASE \E r : Quiet(row[o], r) /\ row' = Changed(o, r)
  <2>1. PICK r : Quiet(row[o], r) /\ row' = [row EXCEPT ![o] = r]
    BY <1>9 DEF Changed
  <2>2. r \in Row
    BY <2>1 DEF Quiet
  <2>3. \A l \in Ids : row'[l] = IF l = o THEN r ELSE row[l]
    BY <1>t, <1>1, <2>1
  <2>4. QED BY <1>t, <1>1, <1>2, <1>4, <1>7, <2>1, <2>2, <2>3
<1>10. QED BY <1>6, <1>8, <1>9

\* The API's update, as one writes it to the row of a lead.
LEMMA UpdateShape ==
  ASSUME TypeOK, NEW x \in Slots, UpdateLead(x)
  PROVE  \E r \in Row :
           /\ row' = Changed(calls[x].lead, r) /\ row' \in [Ids -> Row]
           /\ r.attempts = calls[x].form.attempts /\ r.today /\ r.cb = calls[x].cb
           /\ r.disposition = calls[x].dispo
           /\ promised' = [promised EXCEPT ![calls[x].lead] = r.disposition = 0 /\ r.cb = "later"]
           /\ Delivered(x, "api") /\ UNCHANGED <<dials, dialed, over>>
<1> DEFINE c == calls[x]
           r == [disposition |-> c.dispo, attempts |-> c.form.attempts, today |-> TRUE,
                 settled |-> FALSE, cb |-> c.cb, closed |-> c.form.closed]
<1>1. c \in Call /\ row \in [Ids -> Row]
  BY DEF TypeOK
<1>2. r \in Row
  BY <1>1 DEF Call, Form, Row
<1>3. row' = Changed(c.lead, r)
  BY DEF UpdateLead
<1>4. row' \in [Ids -> Row]
  BY <1>1, <1>2, <1>3 DEF Changed
<1>5. promised' = [promised EXCEPT ![c.lead] = c.dispo = 0 /\ c.cb = "later"]
  BY DEF UpdateLead
<1>6. QED BY <1>2, <1>3, <1>4, <1>5 DEF UpdateLead

\* A user event's disposition, the agent's or the closer's: attempts and the
\* time of a callback are kept.
LEMMA EventShape ==
  ASSUME TypeOK, NEW x \in Slots, UserEventDispo(x)
  PROVE  \E r \in Row :
           LET l == calls[x].lead IN
           /\ row' = Changed(l, r) /\ row' \in [Ids -> Row]
           /\ r.attempts = row[l].attempts /\ r.cb = row[l].cb /\ (row[l].today => r.today)
           /\ \/ /\ r.disposition = calls[x].dispo
                 /\ promised' = [promised EXCEPT ![l] = promised[l] /\ r.disposition = 0]
              \/ r.disposition = row[l].disposition /\ promised' = promised
           /\ Delivered(x, "event") /\ UNCHANGED <<dials, dialed, over>>
<1> DEFINE l == calls[x].lead
           d == calls[x].dispo
           Kept(r) == /\ r \in Row /\ r.attempts = row[l].attempts /\ r.cb = row[l].cb
                      /\ row[l].today => r.today
           Own(r) == /\ Kept(r) /\ r.disposition = d
                     /\ row' = Changed(l, r)
                     /\ promised' = [promised EXCEPT ![l] = promised[l] /\ d = 0]
           Closers(r) == /\ Kept(r) /\ r.disposition = row[l].disposition
                         /\ row' = Changed(l, r) /\ promised' = promised
<1>1. calls[x] \in Call /\ row \in [Ids -> Row] /\ d \in Dispositions /\ l \in Ids
  BY DEF TypeOK, Call, UserEventDispo
<1>2. Delivered(x, "event") /\ UNCHANGED <<dials, dialed, over>>
  BY DEF UserEventDispo
<1>3. row[l] \in Row
  BY <1>1
<1>4. ASSUME NEW b \in BOOLEAN
      PROVE  LET r == Stamp([row[l] EXCEPT !.closed = b]) IN
             Kept(r) /\ r.disposition = row[l].disposition
  BY <1>3 DEF Stamp, Row
<1>5. LET r == Stamp([row[l] EXCEPT !.disposition = d]) IN Kept(r) /\ r.disposition = d
  BY <1>1, <1>3 DEF Stamp, Row
<1>6. LET r == SetDisposition(row[l], d) IN Kept(r) /\ r.disposition = d
  BY <1>3, <1>5 DEF SetDisposition
<1>7. \E r : Own(r) \/ Closers(r)
  <2>1. CASE row' = Changed(l, SetDisposition(row[l], d))
             /\ promised' = [promised EXCEPT ![l] = promised[l] /\ d = 0]
    BY <1>6, <2>1
  <2>2. CASE row' = Changed(l, Stamp([row[l] EXCEPT !.disposition = d]))
             /\ promised' = [promised EXCEPT ![l] = promised[l] /\ d = 0]
    BY <1>5, <2>2
  <2>3. CASE row' = Changed(l, Stamp([row[l] EXCEPT !.closed = (d # 0)])) /\ promised' = promised
    <3>1. (d # 0) \in BOOLEAN
      OBVIOUS
    <3>2. Closers(Stamp([row[l] EXCEPT !.closed = (d # 0)]))
      BY <1>4, <2>3, <3>1
    <3>3. QED BY <3>2
  <2>4. QED BY <2>1, <2>2, <2>3 DEF UserEventDispo
<1>8. PICK r : Own(r) \/ Closers(r)
  BY <1>7
<1>9. row' \in [Ids -> Row]
  BY <1>1, <1>8 DEF Changed
<1>10. QED BY <1>2, <1>8, <1>9

\* CallAll and a restart leave every call typed, and the rest alone.
LEMMA DaemonTyped ==
  ASSUME TypeOK, CallAll \/ Restart
  PROVE  calls' \in [Slots -> Call] /\ UNCHANGED <<row, history>>
<1>1. \A x \in Slots : /\ calls[x] \in Call
                       /\ calls[x].stage = "cached" => [calls[x] EXCEPT !.stage = "ringing"] \in Call
  BY DEF TypeOK, Call, Stages
<1>2. QED BY <1>1, FreeTyped DEF CallAll, Restart

\* The clock's steps, row by row.
LEMMA ClockShape ==
  ASSUME TypeOK, Minutes \/ NewDay \/ \E l \in Ids : TimeComes(l)
  PROVE  /\ row' \in [Ids -> Row]
         /\ \A l \in Ids : /\ row'[l].attempts = row[l].attempts
                           /\ row'[l].disposition = row[l].disposition
                           /\ row'[l].cb = row[l].cb \/ ~ promised'[l]
                           /\ row'[l].today = row[l].today \/ ~ dialed'[l]
                           /\ promised'[l] => promised[l]
                           /\ dialed'[l] => dialed[l]
         /\ dialed' \in [Ids -> BOOLEAN] /\ promised' \in [Ids -> BOOLEAN]
         /\ UNCHANGED <<calls, dials, over>>
<1>t. /\ row \in [Ids -> Row] /\ dialed \in [Ids -> BOOLEAN] /\ promised \in [Ids -> BOOLEAN]
      /\ \A l \in Ids : row[l] \in Row
  BY DEF TypeOK
<1>1. CASE Minutes
  <2>1. \A l \in Ids : /\ row'[l] = [row[l] EXCEPT !.settled = TRUE] /\ row'[l] \in Row
                       /\ row'[l].attempts = row[l].attempts /\ row'[l].cb = row[l].cb
                       /\ row'[l].disposition = row[l].disposition /\ row'[l].today = row[l].today
    BY <1>t, <1>1 DEF Minutes, Row
  <2>2. row' \in [Ids -> Row]
    BY <1>1, <2>1 DEF Minutes
  <2>3. QED BY <1>t, <1>1, <2>1, <2>2 DEF Minutes, history
<1>2. CASE NewDay
  <2>1. \A l \in Ids : /\ row'[l] = [row[l] EXCEPT !.today = FALSE, !.settled = TRUE]
                       /\ row'[l] \in Row /\ ~ dialed'[l]
                       /\ row'[l].attempts = row[l].attempts /\ row'[l].cb = row[l].cb
                       /\ row'[l].disposition = row[l].disposition
    BY <1>t, <1>2 DEF NewDay, Row
  <2>2. row' \in [Ids -> Row]
    BY <1>2, <2>1 DEF NewDay
  <2>3. QED BY <1>t, <1>2, <2>1, <2>2 DEF NewDay
<1>3. ASSUME NEW m \in Ids, TimeComes(m)
      PROVE  /\ row' \in [Ids -> Row]
             /\ \A l \in Ids : /\ row'[l].attempts = row[l].attempts
                               /\ row'[l].disposition = row[l].disposition
                               /\ row'[l].cb = row[l].cb \/ ~ promised'[l]
                               /\ row'[l].today = row[l].today
                               /\ promised'[l] => promised[l]
             /\ promised' \in [Ids -> BOOLEAN] /\ UNCHANGED <<calls, dials, dialed, over>>
  <2>1. row' = [row EXCEPT ![m] = [row[m] EXCEPT !.cb = "due"]]
    BY <1>t, <1>3 DEF TimeComes
  <2>2. [row[m] EXCEPT !.cb = "due"] \in Row
    BY <1>t, WritesTyped
  <2>3. QED BY <1>t, <1>3, <2>1, <2>2 DEF TimeComes, Row
<1>4. QED BY <1>t, <1>1, <1>2, <1>3

\* Every step is one of the kinds the lemmas above describe.
LEMMA Kinds ==
  ASSUME [Next]_vars
  PROVE  \/ DialMain \/ DialCloser \/ DialCallbacks
         \/ CallAll \/ Restart
         \/ Minutes \/ NewDay \/ \E l \in Ids : TimeComes(l)
         \/ \E x \in Slots : Silent(x) \/ Report(x) \/ UpdateLead(x) \/ UserEventDispo(x)
         \/ UNCHANGED vars
BY DEF Next, Silent, Report

LEMMA StepKeepsTypes ==
  ASSUME TypeOK, [Next]_vars
  PROVE  TypeOK'
<1>t. /\ row \in [Ids -> Row] /\ calls \in [Slots -> Call] /\ dials \in [Ids -> 0 .. MaxDials]
      /\ dialed \in [Ids -> BOOLEAN] /\ over \in [Ids -> BOOLEAN] /\ promised \in [Ids -> BOOLEAN]
  BY DEF TypeOK
<1>1. CASE DialMain \/ DialCloser \/ DialCallbacks
  BY <1>t, <1>1, DialShape, DialTyped
<1>2. CASE CallAll \/ Restart
  BY <1>t, <1>2, DaemonTyped DEF TypeOK, history
<1>3. CASE Minutes \/ NewDay \/ \E l \in Ids : TimeComes(l)
  BY <1>t, <1>3, ClockShape DEF TypeOK
<1>4. ASSUME NEW x \in Slots, Silent(x) PROVE TypeOK'
  BY <1>t, <1>4, SilentTyped DEF TypeOK, history
<1>5. ASSUME NEW x \in Slots, Report(x) PROVE TypeOK'
  BY <1>t, <1>5, ReportShape DEF TypeOK, history
<1>6. ASSUME NEW x \in Slots, UpdateLead(x) PROVE TypeOK'
  <2>1. /\ row' \in [Ids -> Row] /\ Delivered(x, "api") /\ UNCHANGED <<dials, dialed, over>>
        /\ \E b \in BOOLEAN : promised' = [promised EXCEPT ![calls[x].lead] = b]
    BY <1>6, UpdateShape
  <2>2. calls' \in [Slots -> Call]
    BY <1>t, <2>1, DeliveredShape
  <2>3. QED BY <1>t, <2>1, <2>2 DEF TypeOK
<1>7. ASSUME NEW x \in Slots, UserEventDispo(x) PROVE TypeOK'
  <2>1. /\ row' \in [Ids -> Row] /\ Delivered(x, "event") /\ UNCHANGED <<dials, dialed, over>>
        /\ \/ promised' = promised
           \/ \E b \in BOOLEAN : promised' = [promised EXCEPT ![calls[x].lead] = b]
    BY <1>t, <1>7, EventShape
  <2>2. calls' \in [Slots -> Call]
    BY <1>t, <2>1, DeliveredShape
  <2>3. QED BY <1>t, <2>1, <2>2 DEF TypeOK
<1>8. CASE UNCHANGED vars
  BY <1>8 DEF TypeOK, vars, history
<1>9. QED BY <1>1, <1>2, <1>3, <1>4, <1>5, <1>6, <1>7, <1>8, Kinds

LEMMA InitTyped == Init => TypeOK
<1> SUFFICES ASSUME Init PROVE TypeOK
  OBVIOUS
<1>1. MaxDials \in Nat /\ 0 \in 0 .. MaxDials /\ 1 \in Dispositions
  BY LeadsAssumption DEF Dispositions
<1>2. row \in [Ids -> Row]
  BY <1>1 DEF Init, Row, Times
<1>3. QED BY <1>1, <1>2, FreeTyped DEF Init, TypeOK

\* The table, the calls and the histories keep their types, for any leads, slots
\* and settings.
THEOREM LeadsTypeCorrect == Spec => []TypeOK
<1>1. TypeOK /\ [Next]_vars => TypeOK'
  BY StepKeepsTypes
<1>2. QED BY <1>1, InitTyped, PTL DEF Spec
-------------------------------------------------------------------------------
\* Only a lead one of the three queries selects is dialed.
LEMMA DialedIsSelected ==
  ASSUME TypeOK, [Next]_vars, NEW l \in Ids, dials'[l] # dials[l]
  PROVE  Selected(l) \/ CloserCallback(l) \/ AgentCallback(l)
<1>1. CASE DialMain \/ DialCloser \/ DialCallbacks
  <2>1. PICK S \in SUBSET Ids, transfer \in BOOLEAN : Dials(S, transfer)
    BY <1>1, DialShape DEF TypeOK
  <2>2. l \in S
    BY <2>1 DEF Dials, Dialed, TypeOK
  <2>3. QED BY <2>1, <2>2 DEF Dials
<1>2. CASE dials' = dials
  BY <1>2
<1>3. (Minutes \/ NewDay \/ \E m \in Ids : TimeComes(m)) => dials' = dials
  BY DEF Minutes, NewDay, TimeComes, history
<1>4. CallAll \/ Restart => dials' = dials
  BY DEF CallAll, Restart, history
<1>5. ASSUME NEW x \in Slots, Silent(x) \/ Report(x) PROVE dials' = dials
  BY <1>5, SilentTyped, ReportShape DEF history
<1>6. ASSUME NEW x \in Slots, UpdateLead(x) \/ UserEventDispo(x) PROVE dials' = dials
  BY <1>6 DEF UpdateLead, UserEventDispo
<1>7. UNCHANGED vars => dials' = dials
  BY DEF vars, history
<1>8. QED BY <1>1, <1>2, <1>3, <1>4, <1>5, <1>6, <1>7, Kinds

\* A dialing, row by row.
LEMMA DialRows ==
  ASSUME TypeOK, NEW S \in SUBSET Ids, NEW transfer \in BOOLEAN, Dials(S, transfer), NEW l \in Ids
  PROVE  /\ l \notin S => row'[l] = row[l]
         /\ l \in S => /\ row'[l].attempts = row[l].attempts + 1
                       /\ row'[l].disposition = row[l].disposition
                       /\ OnUpdate => row'[l].today
                       /\ row'[l].cb = row[l].cb \/ AgentCallback(l)
<1>1. row \in [Ids -> Row] /\ row[l] \in Row
  BY DEF TypeOK
<1>2. ASSUME NEW cb
      PROVE  LET r == Stamp([row[l] EXCEPT !.attempts = row[l].attempts + 1, !.cb = cb]) IN
             /\ r.attempts = row[l].attempts + 1 /\ r.disposition = row[l].disposition
             /\ OnUpdate => r.today
  BY <1>1 DEF Stamp, Row
<1>3. LET r == Stamp([row[l] EXCEPT !.attempts = row[l].attempts + 1]) IN
      /\ r.attempts = row[l].attempts + 1 /\ r.disposition = row[l].disposition
      /\ OnUpdate => r.today
      /\ r.cb = row[l].cb
  BY <1>1 DEF Stamp, Row
<1>4. CASE Count(S)
  BY <1>3, <1>4 DEF Count
<1>5. CASE CountedCallbacks(S) /\ \A m \in S : AgentCallback(m)
  BY <1>2, <1>5 DEF CountedCallbacks
<1>6. QED BY <1>4, <1>5 DEF Dials
-------------------------------------------------------------------------------
\* With a table that stamps its rows, the row of a lead dialed today is of today.
DialedToday == OnUpdate => \A l \in Ids : dialed[l] => row[l].today

\* The row of a lead promised a call back carries the time and no disposition
\* that the other queries select at any hour.
Promise ==
  \A l \in Ids : promised[l] => row[l].cb = "later" /\ row[l].disposition \in -8 .. 0

LEMMA StepKeepsDialedToday ==
  ASSUME TypeOK, DialedToday, [Next]_vars
  PROVE  DialedToday'
<1> SUFFICES ASSUME OnUpdate, NEW l \in Ids, dialed'[l] PROVE row'[l].today
  BY DEF DialedToday
<1>t. row \in [Ids -> Row] /\ row[l] \in Row
  BY DEF TypeOK
<1>i. dialed[l] => row[l].today
  BY DEF DialedToday
<1>1. CASE DialMain \/ DialCloser \/ DialCallbacks
  <2>1. PICK S \in SUBSET Ids, transfer \in BOOLEAN : Dials(S, transfer)
    BY <1>1, DialShape DEF TypeOK
  <2>2. dialed[l] \/ l \in S
    BY <2>1 DEF Dials, Dialed
  <2>3. QED BY <1>i, <2>1, <2>2, DialRows
<1>2. CASE UNCHANGED <<row, dialed>>
  BY <1>i, <1>2
<1>3. CASE Minutes \/ NewDay \/ \E m \in Ids : TimeComes(m)
  BY <1>i, <1>3, ClockShape
<1>4. CallAll \/ Restart => UNCHANGED <<row, dialed>>
  BY DEF CallAll, Restart, history
<1>5. ASSUME NEW x \in Slots, Silent(x) PROVE UNCHANGED <<row, dialed>>
  BY <1>5, SilentTyped DEF history
<1>6. ASSUME NEW x \in Slots, Report(x) PROVE row'[l].today
  BY <1>i, <1>6, ReportShape DEF history, Quiet
<1>7. ASSUME NEW x \in Slots, UpdateLead(x) PROVE row'[l].today
  <2>1. PICK r \in Row : row' = Changed(calls[x].lead, r) /\ r.today /\ UNCHANGED dialed
    BY <1>7, UpdateShape
  <2>2. QED BY <1>t, <1>i, <2>1 DEF Changed
<1>8. ASSUME NEW x \in Slots, UserEventDispo(x) PROVE row'[l].today
  <2>1. PICK r \in Row : /\ row' = Changed(calls[x].lead, r)
                         /\ row[calls[x].lead].today => r.today
                         /\ UNCHANGED dialed
    BY <1>8, EventShape
  <2>2. QED BY <1>t, <1>i, <2>1 DEF Changed
<1>9. UNCHANGED vars => UNCHANGED <<row, dialed>>
  BY DEF vars, history
<1>10. QED BY <1>1, <1>2, <1>3, <1>4, <1>5, <1>6, <1>7, <1>8, <1>9, Kinds

LEMMA StepKeepsPromise ==
  ASSUME TypeOK, Promise, [Next]_vars
  PROVE  Promise'
<1> DEFINE Held(r) == r.cb = "later" /\ r.disposition \in -8 .. 0
<1> SUFFICES ASSUME NEW l \in Ids, promised'[l] PROVE Held(row'[l])
  BY DEF Promise
<1>t. row \in [Ids -> Row] /\ row[l] \in Row /\ promised \in [Ids -> BOOLEAN]
  BY DEF TypeOK
<1>i. promised[l] => Held(row[l])
  BY DEF Promise
<1>1. CASE DialMain \/ DialCloser \/ DialCallbacks
  <2>1. PICK S \in SUBSET Ids, transfer \in BOOLEAN : Dials(S, transfer)
    BY <1>1, DialShape DEF TypeOK
  <2>2. promised[l] /\ Held(row[l])
    BY <1>i, <2>1 DEF Dials, Dialed
  <2>3. ~ AgentCallback(l)
    BY <2>2 DEF AgentCallback
  <2>4. row'[l].cb = row[l].cb /\ row'[l].disposition = row[l].disposition
    BY <2>1, <2>3, DialRows
  <2>5. QED BY <2>2, <2>4
<1>2. CASE UNCHANGED <<row, promised>>
  BY <1>i, <1>2
<1>3. CASE Minutes \/ NewDay \/ \E m \in Ids : TimeComes(m)
  BY <1>i, <1>3, ClockShape
<1>4. CallAll \/ Restart => UNCHANGED <<row, promised>>
  BY DEF CallAll, Restart, history
<1>5. ASSUME NEW x \in Slots, Silent(x) PROVE UNCHANGED <<row, promised>>
  BY <1>5, SilentTyped DEF history
<1>6. ASSUME NEW x \in Slots, Report(x) PROVE Held(row'[l])
  <2>1. Quiet(row[l], row'[l]) /\ promised' = promised
    BY <1>6, ReportShape DEF history
  <2>2. row'[l].cb = "later" /\ row'[l].disposition \in Dispositions
    BY <1>i, <2>1 DEF Quiet, Row
  <2>3. row'[l].disposition = row[l].disposition \/ row'[l].disposition < 0
    BY <2>1 DEF Quiet
  <2>4. QED BY <1>i, <2>1, <2>2, <2>3 DEF Dispositions
<1>7. ASSUME NEW x \in Slots, UpdateLead(x) PROVE Held(row'[l])
  <2>1. PICK r \in Row :
          /\ row' = Changed(calls[x].lead, r)
          /\ promised' = [promised EXCEPT ![calls[x].lead] = r.disposition = 0 /\ r.cb = "later"]
    BY <1>7, UpdateShape
  <2>2. CASE l = calls[x].lead
    <3>1. r.disposition = 0 /\ r.cb = "later"
      BY <1>t, <2>1, <2>2
    <3>2. row'[l] = r
      BY <1>t, <2>1, <2>2 DEF Changed
    <3>3. QED BY <3>1, <3>2
  <2>3. CASE l # calls[x].lead
    BY <1>t, <1>i, <2>1, <2>3 DEF Changed
  <2>4. QED BY <2>2, <2>3
<1>8. ASSUME NEW x \in Slots, UserEventDispo(x) PROVE Held(row'[l])
  <2> DEFINE o == calls[x].lead
  <2>1. PICK r \in Row :
          /\ row' = Changed(o, r) /\ r.cb = row[o].cb
          /\ \/ promised' = [promised EXCEPT ![o] = promised[o] /\ r.disposition = 0]
             \/ r.disposition = row[o].disposition /\ promised' = promised
    BY <1>8, EventShape
  <2> HIDE DEF o
  <2>2. CASE l = o
    <3>1. promised[l] /\ (r.disposition = 0 \/ r.disposition = row[l].disposition)
      BY <1>t, <2>1, <2>2
    <3>2. row'[l] = r
      BY <1>t, <2>1, <2>2 DEF Changed
    <3>3. QED BY <1>i, <2>1, <2>2, <3>1, <3>2
  <2>3. CASE l # o
    BY <1>t, <1>i, <2>1, <2>3 DEF Changed
  <2>4. QED BY <2>2, <2>3
<1>9. UNCHANGED vars => UNCHANGED <<row, promised>>
  BY DEF vars, history
<1>10. QED BY <1>1, <1>2, <1>3, <1>4, <1>5, <1>6, <1>7, <1>8, <1>9, Kinds

\* A lead dialed today is dialed again only fresh, as a callback, or for a closer:
\* its row is of today, which the main query passes over otherwise.
THEOREM LeadsOncePerDay == Spec => OncePerDay
<1>1. Init => TypeOK /\ DialedToday
  BY InitTyped DEF Init, DialedToday
<1>2. TypeOK /\ DialedToday /\ [Next]_vars => (TypeOK /\ DialedToday)'
  BY StepKeepsTypes, StepKeepsDialedToday
<1>3. TypeOK /\ DialedToday /\ [Next]_vars =>
        [OnUpdate /\ ~ CallToday =>
           \A l \in Ids : dialed[l] /\ dials'[l] > dials[l] =>
                            row[l].disposition \in {0, 1, 12}]_vars
  <2> SUFFICES ASSUME TypeOK, DialedToday, [Next]_vars, OnUpdate, ~ CallToday,
                      NEW l \in Ids, dialed[l], dials'[l] > dials[l]
               PROVE  row[l].disposition \in {0, 1, 12}
    OBVIOUS
  <2>1. dials[l] \in Int /\ dials'[l] \in Int
    BY StepKeepsTypes, LeadsAssumption DEF TypeOK
  <2>2. Selected(l) \/ CloserCallback(l) \/ AgentCallback(l)
    BY <2>1, DialedIsSelected
  <2>3. row[l].today
    BY DEF DialedToday
  <2>4. QED BY <2>2, <2>3 DEF Selected, CloserCallback, AgentCallback
<1>4. QED BY <1>1, <1>2, <1>3, PTL DEF Spec, OncePerDay

\* A callback agreed on for later is not dialed on the same day before its time.
THEOREM LeadsCallbackKept == Spec => CallbackKept
<1>1. Init => TypeOK /\ Promise
  BY InitTyped DEF Init, Promise
<1>2. TypeOK /\ Promise /\ [Next]_vars => (TypeOK /\ Promise)'
  BY StepKeepsTypes, StepKeepsPromise
<1>3. TypeOK /\ Promise /\ [Next]_vars =>
        [~ CallToday =>
           \A l \in Ids : promised[l] /\ row[l].today => dials'[l] = dials[l]]_vars
  <2> SUFFICES ASSUME TypeOK, Promise, [Next]_vars, ~ CallToday,
                      NEW l \in Ids, promised[l], row[l].today, dials'[l] # dials[l]
               PROVE  FALSE
    OBVIOUS
  <2>1. Selected(l) \/ CloserCallback(l) \/ AgentCallback(l)
    BY DialedIsSelected
  <2>2. row[l].cb = "later" /\ row[l].disposition \in -8 .. 0
    BY DEF Promise
  <2>3. QED BY <2>1, <2>2 DEF Selected, CloserCallback, AgentCallback
<1>4. QED BY <1>1, <1>2, <1>3, PTL DEF Spec, CallbackKept
-------------------------------------------------------------------------------
\* A call whose agent's form may still be written back.
Open(call) == call.stage = "talking" \/ "api" \in call.due

\* A form that may be written back has the attempts counted so far, unless the
\* lead was dialed while the form was open.
Forms ==
  \A x \in Slots :
    Open(calls[x]) /\ ~ over[calls[x].lead] => calls[x].form.attempts = dials[calls[x].lead]

\* No form is opened by the step, and those open are as they were.
Carried ==
  \A y \in Slots :
    Open(calls'[y]) => /\ Open(calls[y])
                       /\ calls'[y].lead = calls[y].lead /\ calls'[y].form = calls[y].form

LEMMA FormsCarried ==
  ASSUME TypeOK, Forms, Carried, UNCHANGED <<dials, over>>
  PROVE  Forms'
BY DEF Forms, Carried

LEMMA DeliveredCarried ==
  ASSUME TypeOK, NEW x \in Slots, NEW m, Delivered(x, m)
  PROVE  Carried
<1>1. calls \in [Slots -> Call] /\ calls[x] \in Call
  BY DEF TypeOK
<1>2. ASSUME NEW y \in Slots, Open(calls'[y])
      PROVE  Open(calls[y]) /\ calls'[y].lead = calls[y].lead /\ calls'[y].form = calls[y].form
  <2>1. CASE y # x
    BY <1>1, <1>2, <2>1, DeliveredShape
  <2>2. CASE y = x
    <3>1. calls'[x] = [calls[x] EXCEPT !.due = calls[x].due \ {m}]
      BY <1>1, <1>2, <2>2, DeliveredShape, FreeTyped DEF Open
    <3>2. QED BY <1>1, <1>2, <2>2, <3>1 DEF Open, Call
  <2>3. QED BY <2>1, <2>2
<1>3. QED BY <1>2 DEF Carried

\* A call that moves on, but not to an agent, or is gone, opens no form.
LEMMA MovedCarried ==
  ASSUME TypeOK, NEW x \in Slots, NEW to, to # "talking",
         calls' = [calls EXCEPT ![x] = Free] \/ calls' = [calls EXCEPT ![x].stage = to]
  PROVE  Carried
<1>1. calls \in [Slots -> Call] /\ calls[x] \in Call
  BY DEF TypeOK
<1>2. CASE calls' = [calls EXCEPT ![x] = Free]
  BY <1>1, <1>2, FreeTyped DEF Open, Carried
<1>3. CASE calls' = [calls EXCEPT ![x].stage = to]
  BY <1>1, <1>3 DEF Open, Carried, Call
<1>4. QED BY <1>2, <1>3

\* The steps other than a dialing and an agent's taking a call open no form.
LEMMA StepCarries ==
  ASSUME TypeOK, NEW x \in Slots, Silent(x) \/ Report(x), ~ Bridge(x)
  PROVE  Carried
<1>t. calls \in [Slots -> Call] /\ calls[x] \in Call
  BY DEF TypeOK
<1>1. CASE \E m : Delivered(x, m)
  BY <1>1, DeliveredCarried
<1>2. CASE \E to : to # "talking" /\ (\/ calls' = [calls EXCEPT ![x] = Free]
                                      \/ calls' = [calls EXCEPT ![x].stage = to])
  BY <1>2, MovedCarried
<1>3. ASSUME NEW d, NEW cb, Dispose(x, d, cb) PROVE Carried
  <2>1. /\ calls' = [calls EXCEPT ![x] = [calls[x] EXCEPT !.stage = "closing", !.dispo = d,
                                            !.cb = cb, !.due = {"api", "event"}]]
        /\ Open(calls[x])
    BY <1>t, <1>3 DEF Dispose, Open, Call
  <2>2. QED BY <1>t, <2>1 DEF Carried, Call
<1>4. LoseCall(x) \/ OriginateFailure(x) \/ Fax(x) \/ GiveUp(x) => calls' = [calls EXCEPT ![x] = Free]
  BY DEF LoseCall, OriginateFailure, Fax, GiveUp
<1>5. /\ Fail(x) => calls' = [calls EXCEPT ![x].stage = "failed"]
      /\ Answer(x) => calls' = [calls EXCEPT ![x].stage = "answered"]
      /\ OriginateSuccess(x) => calls' = [calls EXCEPT ![x].stage = "waiting"]
      /\ Pickup(x) => calls' = [calls EXCEPT ![x].stage = "picked"]
  BY DEF Fail, Answer, Moves, OriginateSuccess, Pickup
<1>6. Unheard(x) => \/ calls' = [calls EXCEPT ![x] = Free]
                    \/ calls' = [calls EXCEPT ![x].stage = "waiting"]
  BY <1>t DEF Unheard, Call
<1>7. ASSUME NEW m, Undelivered(x, m) PROVE \E n : Delivered(x, n)
  BY <1>7 DEF Undelivered
<1>8. QED BY <1>1, <1>2, <1>3, <1>4, <1>5, <1>6, <1>7 DEF Silent, Report

\* A dialing opens no form, and marks its leads whose forms are open.
LEMMA DialKeepsForms ==
  ASSUME TypeOK, Forms, AttemptsExact, NEW S \in SUBSET Ids, NEW transfer \in BOOLEAN,
         Dials(S, transfer)
  PROVE  Forms' /\ AttemptsExact'
<1>1. Carried
  <2>1. ASSUME NEW l \in S PROVE ~ Open(New(l, transfer))
    BY DEF Open, New
  <2>2. QED BY <2>1 DEF Carried, Dials, CallsTaken
<1>2. \A l \in Ids : /\ dials'[l] = IF l \in S THEN dials[l] + 1 ELSE dials[l]
                     /\ over'[l] = (over[l] \/ (l \in S /\ OnScreen(l)))
  BY DEF Dials, Dialed
<1>3. ASSUME NEW x \in Slots, Open(calls'[x]), ~ over'[calls'[x].lead]
      PROVE  calls'[x].form.attempts = dials'[calls'[x].lead]
  <2> DEFINE o == calls[x].lead
  <2>1. Open(calls[x]) /\ calls'[x].lead = o /\ calls'[x].form = calls[x].form
    BY <1>1, <1>3 DEF Carried
  <2>2. o \in Ids /\ OnScreen(o)
    BY <2>1 DEF Open, OnScreen, TypeOK, Call
  <2>3. o \notin S /\ ~ over[o]
    BY <1>2, <1>3, <2>1, <2>2
  <2>4. QED BY <1>2, <2>1, <2>2, <2>3 DEF Forms
<1>4. ASSUME NEW l \in Ids, ~ over'[l] PROVE row'[l].attempts = dials'[l]
  BY <1>2, <1>4, DialRows DEF AttemptsExact
<1>5. QED BY <1>3, <1>4 DEF Forms, AttemptsExact

LEMMA StepKeepsAttempts ==
  ASSUME TypeOK, Forms, AttemptsExact, [Next]_vars
  PROVE  Forms' /\ AttemptsExact'
<1>t. /\ row \in [Ids -> Row] /\ calls \in [Slots -> Call]
  BY DEF TypeOK
<1>1. CASE DialMain \/ DialCloser \/ DialCallbacks
  BY <1>1, DialShape, DialKeepsForms DEF TypeOK
<1>2. CASE CallAll \/ Restart
  <2>1. Carried
    BY <1>t, <1>2, FreeTyped DEF CallAll, Restart, Carried, Open, Call
  <2>2. UNCHANGED <<row, history>>
    BY <1>2 DEF CallAll, Restart
  <2>3. QED BY <2>1, <2>2, FormsCarried DEF AttemptsExact, history
<1>3. CASE Minutes \/ NewDay \/ \E l \in Ids : TimeComes(l)
  <2>1. /\ \A l \in Ids : row'[l].attempts = row[l].attempts
        /\ UNCHANGED <<calls, dials, over>>
    BY <1>3, ClockShape
  <2>2. QED BY <2>1 DEF Forms, AttemptsExact
<1>4. ASSUME NEW x \in Slots, Bridge(x) PROVE Forms' /\ AttemptsExact'
  <2> DEFINE o == calls[x].lead
             form == [attempts |-> row[o].attempts, cb |-> row[o].cb, closed |-> row[o].closed]
  <2>1. o \in Ids
    BY <1>t, <1>4 DEF Bridge, Asked, Call
  <2>2. UNCHANGED <<row, dials, over>>
    BY <1>4 DEF Bridge, history
  <2>3. \A y \in Slots : calls'[y] = IF y = x THEN [calls[x] EXCEPT !.stage = "talking", !.form = form]
                                     ELSE calls[y]
    BY <1>t, <1>4 DEF Bridge
  <2>4. calls'[x].lead = o /\ calls'[x].form.attempts = row[o].attempts
    <3>1. calls[x] \in Call
      BY <1>t
    <3>2. calls'[x] = [calls[x] EXCEPT !.stage = "talking", !.form = form]
      BY <2>3
    <3>3. calls'[x].lead = o /\ calls'[x].form = form
      BY <3>1, <3>2 DEF Call
    <3>4. QED BY <3>3
  <2>5. ~ over[o] => row[o].attempts = dials[o]
    BY <2>1 DEF AttemptsExact
  <2> HIDE DEF o
  <2>6. QED BY <2>2, <2>3, <2>4, <2>5 DEF Forms, AttemptsExact
<1>5. ASSUME NEW x \in Slots, Silent(x), ~ Bridge(x) PROVE Forms' /\ AttemptsExact'
  BY <1>5, SilentTyped, StepCarries, FormsCarried DEF AttemptsExact, history
<1>6. ASSUME NEW x \in Slots, Report(x), ~ Bridge(x) PROVE Forms' /\ AttemptsExact'
  <2>1. UNCHANGED <<dials, over>> /\ \A l \in Ids : row'[l].attempts = row[l].attempts
    BY <1>6, ReportShape DEF history, Quiet
  <2>2. QED BY <1>6, <2>1, StepCarries, FormsCarried DEF AttemptsExact
<1>7. ASSUME NEW x \in Slots, UpdateLead(x) PROVE Forms' /\ AttemptsExact'
  <2> DEFINE o == calls[x].lead
  <2>1. PICK r \in Row :
          /\ row' = Changed(o, r) /\ r.attempts = calls[x].form.attempts
          /\ Delivered(x, "api") /\ UNCHANGED <<dials, over>>
    BY <1>7, UpdateShape
  <2>2. Forms'
    BY <2>1, DeliveredCarried, FormsCarried
  <2>3. ~ over[o] => r.attempts = dials[o]
    BY <1>7, <2>1 DEF UpdateLead, Forms, Open
  <2> HIDE DEF o
  <2>4. QED BY <1>t, <2>1, <2>2, <2>3 DEF Changed, AttemptsExact
<1>8. ASSUME NEW x \in Slots, UserEventDispo(x) PROVE Forms' /\ AttemptsExact'
  <2> DEFINE o == calls[x].lead
  <2>1. PICK r \in Row :
          /\ row' = Changed(o, r) /\ r.attempts = row[o].attempts
          /\ Delivered(x, "event") /\ UNCHANGED <<dials, over>>
    BY <1>8, EventShape
  <2>2. Forms'
    BY <2>1, DeliveredCarried, FormsCarried
  <2> HIDE DEF o
  <2>3. QED BY <1>t, <2>1, <2>2 DEF Changed, AttemptsExact
<1>9. CASE UNCHANGED vars
  BY <1>9 DEF vars, history, Forms, AttemptsExact
<1>10. QED BY <1>1, <1>2, <1>3, <1>4, <1>5, <1>6, <1>7, <1>8, <1>9, Kinds

\* The column attempts counts every dialing of a lead, unless the lead was dialed
\* while its row was on an agent's screen.
THEOREM LeadsAttemptsExact == Spec => []AttemptsExact
<1>1. Init => TypeOK /\ Forms /\ AttemptsExact
  <2> SUFFICES ASSUME Init PROVE Forms /\ AttemptsExact
    BY InitTyped
  <2>1. \A x \in Slots : ~ Open(calls[x])
    BY FreeTyped DEF Init, Open
  <2>2. QED BY <2>1 DEF Init, Forms, AttemptsExact
<1>2. TypeOK /\ Forms /\ AttemptsExact /\ [Next]_vars => (TypeOK /\ Forms /\ AttemptsExact)'
  BY StepKeepsTypes, StepKeepsAttempts
<1>3. QED BY <1>1, <1>2, PTL DEF Spec
===============================================================================
