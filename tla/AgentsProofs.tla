----------------------------- MODULE AgentsProofs -----------------------------
(***************************************************************************)
(* Theorems about Agents for any number of agents, campaigns and seconds.  *)
(*                                                                         *)
(* Every step is of one of three kinds (StepKinds): the clock ticks; one   *)
(* available agent is handed a customer and marked as ready from now; or   *)
(* nobody is handed anything and every status that changes becomes either  *)
(* the time of day or one of the negative codes.  Spaced is inductive over *)
(* the three kinds, and the spacing of hand-outs and the refinement of     *)
(* HandOut follow from it.                                                 *)
(***************************************************************************)
EXTENDS Agents, TLAPS

USE AgentsAssumption, ClockAssumption, MembershipsAssumption,
    CloserAssumption, JoiningAssumption

\* The status codes are told apart from the clock.
Fresh(st) ==
  \A a \in Agents : st[a] = status[a] \/ st[a] = now \/ st[a] \notin Clock

Quiet ==
  /\ now' = now
  /\ rest' = rest
  /\ \A a \in Agents : joining'[a] = joining[a]
  /\ Fresh(status')

Joined ==
  /\ now' = now
  /\ rest' = rest
  /\ status' = status
  /\ \E a \in Agents : joining[a] > 0 /\ joining' = [joining EXCEPT ![a] = @ - 1]

Handed(a) ==
  /\ IsAvailable(status[a])
  /\ now' = now
  /\ rest' = [rest EXCEPT ![a] = 0]
  /\ joining' = [joining EXCEPT ![a] = @ + 1]
  /\ status'[a] = now
  /\ Fresh(status')
-------------------------------------------------------------------------------
\* The setters of agent.h keep a table of statuses, and write at one place.
LEMMA SettersTyped ==
  ASSUME now \in Clock, NEW st \in [Agents -> Status], NEW a \in Agents
  PROVE  /\ SetLoggedIn(st, a) \in [Agents -> Status]
         /\ SetOnWait(st, a) \in [Agents -> Status]
         /\ SetOnCall(st, a) \in [Agents -> Status]
         /\ SetOffline(st, a) \in [Agents -> Status]
         /\ SetOnPause(st, a) \in [Agents -> Status]
         /\ SetInCloseout(st, a) \in [Agents -> Status]
  BY DEF SetLoggedIn, SetOnWait, SetOnCall, SetOffline, SetOnPause, SetInCloseout,
         Status, OnCall, Offline, Paused, Closeout

\* The scan of the channels keeps a table of statuses and leaves alone the
\* agents who are not in the list.
LEMMA ScanTyped ==
  ASSUME TypeOK, NEW st \in [Agents -> Status], NEW k \in SUBSET Agents
  PROVE  /\ ParseAgentChannelStatus(st, k) \in [Agents -> Status]
         /\ \A a \in Agents \ k : ParseAgentChannelStatus(st, k)[a] = st[a]
<1>1. ASSUME NEW a \in Agents PROVE ChannelStatus(st[a], phone[a]) \in Status
  <2>1. phone[a] \in Phones /\ st[a] \in Status /\ now \in Status
    BY DEF TypeOK, Status
  <2>2. QED BY <2>1 DEF ChannelStatus, Phones, Status, OnCall, Offline
<1>2. QED BY <1>1 DEF ParseAgentChannelStatus

\* So does the scan of conf_bridges.
LEMMA BridgesTyped ==
  ASSUME now \in Clock, NEW st \in [Agents -> Status], NEW rows \in [Agents -> Rows]
  PROVE  /\ ParseAgentQueueStatus(st, rows) \in [Agents -> Status]
         /\ \A a \in Agents : rows[a] = "absent" => ParseAgentQueueStatus(st, rows)[a] = st[a]
<1>1. ASSUME NEW a \in Agents
      PROVE  (CASE rows[a] = "absent"    -> st[a]
                [] rows[a] = "offline"   -> Offline
                [] rows[a] = "paused"    -> Paused
                [] rows[a] = "available" -> OnCall
                [] rows[a] = "busy"      -> now) \in Status
  <2>1. rows[a] \in Rows /\ st[a] \in Status /\ now \in Status
    BY DEF Status
  <2>2. QED BY <2>1 DEF Rows, Status, OnCall, Offline, Paused
<1>2. QED BY <1>1 DEF ParseAgentQueueStatus

\* An agent chosen by LeastRecent is in the list, and available.
LEMMA ChosenAvailable ==
  ASSUME NEW st, NEW c, NEW a \in Agents, a \in LeastRecent(st, c)
  PROVE  a \in known /\ IsAvailable(st[a])
  BY DEF LeastRecent, Available

\* The history keeps its type where a handler writes it.
LEMMA HistoryTyped ==
  ASSUME left \in [Agents -> BOOLEAN], NEW a \in Agents
  PROVE  Leaves(a) \in [Agents -> BOOLEAN] /\ Returns(a) \in [Agents -> BOOLEAN]
  BY DEF Leaves, Returns

\* A handler that only writes statuses, of agents in the list.
LEMMA BecomesTyped ==
  ASSUME TypeOK, NEW st \in [Agents -> Status],
         \A a \in Agents \ known : st[a] = Offline,
         NEW lf \in [Agents -> BOOLEAN], Becomes(st, lf)
  PROVE  TypeOK'
  BY DEF TypeOK, Becomes, Clock

\* The death of the daemon leaves a state of the right type.
LEMMA GoneTyped == TypeOK /\ Gone => TypeOK'
  BY DEF TypeOK, Gone, Status, Clock

\* So does a hand-out.
LEMMA HandToTyped ==
  ASSUME TypeOK, NEW st \in [Agents -> Status],
         \A a \in Agents \ known : st[a] = Offline,
         NEW b \in Agents, NEW c, HandTo(b, st, c)
  PROVE  TypeOK'
<1>1. b \in known /\ SetOnWait(st, b) \in [Agents -> Status]
  BY ChosenAvailable, SettersTyped DEF HandTo, TypeOK
<1>2. \A a \in Agents \ known : SetOnWait(st, b)[a] = Offline
  BY <1>1 DEF SetOnWait
<1>3. joining' \in [Agents -> 0 .. MaxJoining] /\ rest' \in [Agents -> 0 .. Rested]
  BY DEF HandTo, TypeOK, Rested
<1>4. QED BY <1>1, <1>2, <1>3 DEF TypeOK, HandTo, Clock

\* Type correctness of every step.
LEMMA StepTyped == TypeOK /\ [Next]_vars => TypeOK'
<1> SUFFICES ASSUME TypeOK, [Next]_vars PROVE TypeOK'
  OBVIOUS
<1>t. now \in Clock /\ status \in [Agents -> Status] /\ known \in SUBSET Agents
  BY DEF TypeOK
<1>l. left \in [Agents -> BOOLEAN] /\ \A a \in Agents :
        Leaves(a) \in [Agents -> BOOLEAN] /\ Returns(a) \in [Agents -> BOOLEAN]
  BY HistoryTyped DEF TypeOK
<1>u. \A a \in Agents \ known : status[a] = Offline
  BY DEF TypeOK
<1>1. CASE Start
  <2>1. PICK k \in SUBSET Agents, m \in Memberships, rows \in [Agents -> Rows] :
          /\ \A a \in Agents \ k : rows[a] = "absent"
          /\ known' = k
          /\ member' = m
          /\ status' = ParseAgentChannelStatus(
                         ParseAgentQueueStatus(ParseAgentChannelStatus(status, k), rows), k)
    BY <1>1 DEF Start
  <2> DEFINE listed == ParseAgentChannelStatus(status, k)
             bridged == ParseAgentQueueStatus(listed, rows)
  <2>2. listed \in [Agents -> Status] /\ \A a \in Agents \ k : listed[a] = status[a]
    BY <1>t, ScanTyped
  <2>3. bridged \in [Agents -> Status] /\ \A a \in Agents \ k : bridged[a] = listed[a]
    <3>1. listed \in [Agents -> Status] /\ now \in Clock /\ rows \in [Agents -> Rows]
      BY <1>t, <2>2
    <3>2. /\ bridged \in [Agents -> Status]
          /\ \A a \in Agents : rows[a] = "absent" => bridged[a] = listed[a]
      <4> HIDE DEF listed
      <4>1. QED BY <3>1, BridgesTyped
    <3>3. QED BY <2>1, <3>2
  <2>4. status' \in [Agents -> Status] /\ \A a \in Agents \ k : status'[a] = bridged[a]
    BY <2>1, <2>3, ScanTyped
  <2>5. \A a \in Agents : status[a] = Offline
    BY <1>1, <1>u DEF Start, TypeOK
  <2>6. QED BY <1>1, <2>1, <2>2, <2>3, <2>4, <2>5 DEF Start, TypeOK, Clock
<1>2. CASE Die
  BY <1>2, GoneTyped DEF Die
<1>3. CASE Refresh
  <2>1. PICK k \in SUBSET Agents, m \in Memberships :
          /\ known' = known \cup k
          /\ member' = m
          /\ status' = ParseAgentChannelStatus(status, known \cup k)
    BY <1>3 DEF Refresh
  <2>2. /\ status' \in [Agents -> Status]
        /\ \A a \in Agents \ (known \cup k) : status'[a] = status[a]
    BY <1>t, <2>1, ScanTyped
  <2>3. left' \in [Agents -> BOOLEAN]
    BY <1>3, <1>l DEF Refresh, LeftAfterScan
  <2>4. QED BY <1>3, <1>u, <2>1, <2>2, <2>3 DEF Refresh, TypeOK, Clock
<1>4. CASE Tick
  BY <1>4 DEF Tick, TypeOK, Clock, Rested
<1>5. ASSUME NEW a \in Agents, AgentEvent(a) PROVE TypeOK'
  <2>1. CASE a \notin known
    BY <1>5, <2>1, GoneTyped DEF AgentEvent, QueueMemberPause, UserSetOnCall, UserSetOnWait,
      AgentLogin, AgentLogoff, Link, AgentPause, AgentUnPause
  <2>2. CASE a \in known
    <3>1. \/ Becomes(SetOnPause(status, a), Returns(a))
          \/ Becomes(SetLoggedIn(status, a), Returns(a))
          \/ Becomes(status, left) \/ Becomes(SetOnCall(status, a), Returns(a))
          \/ Becomes(SetOffline(status, a), Leaves(a)) \/ Becomes(SetOnWait(status, a), left)
      BY <1>5, <2>2 DEF AgentEvent, QueueMemberPause, UserSetOnCall, UserSetOnWait,
        AgentLogin, AgentLogoff, Link, AgentPause, AgentUnPause
    <3>2. \A b \in Agents \ known :
            /\ SetOnPause(status, a)[b] = Offline
            /\ SetLoggedIn(status, a)[b] = Offline
            /\ SetOnCall(status, a)[b] = Offline
            /\ SetOffline(status, a)[b] = Offline
            /\ SetOnWait(status, a)[b] = Offline
      BY <1>t, <1>u, <2>2 DEF SetOnPause, SetLoggedIn, SetOnCall, SetOffline, SetOnWait
    <3>3. /\ SetOnPause(status, a) \in [Agents -> Status]
          /\ SetLoggedIn(status, a) \in [Agents -> Status]
          /\ SetOnCall(status, a) \in [Agents -> Status]
          /\ SetOffline(status, a) \in [Agents -> Status]
          /\ SetOnWait(status, a) \in [Agents -> Status]
      BY <1>t, SettersTyped
    <3>4. PICK st \in [Agents -> Status], lf \in [Agents -> BOOLEAN] :
            Becomes(st, lf) /\ \A b \in Agents \ known : st[b] = Offline
      BY <1>t, <1>l, <1>u, <3>1, <3>2, <3>3
    <3>5. UNCHANGED <<up, now, known, member, phone, joining, rest>>
      BY <3>4 DEF Becomes
    <3>6. /\ status' \in [Agents -> Status] /\ left' \in [Agents -> BOOLEAN]
          /\ \A b \in Agents \ known : status'[b] = Offline
      BY <3>4 DEF Becomes
    <3>7. QED BY <3>5, <3>6 DEF TypeOK, Clock
  <2>3. QED BY <2>1, <2>2
<1>6. ASSUME NEW a \in Agents, RedirectEnds(a) PROVE TypeOK'
  <2>1. joining' \in [Agents -> 0 .. MaxJoining]
    BY <1>6 DEF RedirectEnds, TypeOK
  <2>2. QED BY <1>6, <2>1 DEF RedirectEnds, TypeOK, Clock
<1>7. ASSUME NEW a \in Agents, PhoneChanges(a) PROVE TypeOK'
  BY <1>7 DEF PhoneChanges, TypeOK, Clock
<1>8. ASSUME NEW c \in Campaigns, UserQueue(c) \/ UserQueueTransfer(c) PROVE TypeOK'
  BY <1>8, <1>t, <1>u, HandToTyped DEF UserQueue, UserQueueTransfer
<1>9. ASSUME NEW c \in Campaigns, NEW a \in Agents, CallHangup(a, c) PROVE TypeOK'
  <2>1. CASE c \notin DOMAIN member
    BY <1>9, <2>1, GoneTyped DEF CallHangup
  <2>2. CASE c \in DOMAIN member
    <3> DEFINE st == SetInCloseout(SetOnWait(status, a), a)
    <3>1. a \in known /\ Becomes(st, Returns(a))
      BY <1>9, <2>2 DEF CallHangup
    <3>2. st \in [Agents -> Status]
      BY <1>t, SettersTyped
    <3>3. \A b \in Agents \ known : st[b] = Offline
      BY <1>t, <1>u, <3>1 DEF SetInCloseout, SetOnWait
    <3>4. QED BY <1>l, <3>1, <3>2, <3>3, BecomesTyped
  <2>3. QED BY <2>1, <2>2
<1>10. ASSUME NEW c \in Campaigns, NEW a \in Agents, DispoHangup(a, c) PROVE TypeOK'
  <2>1. \A b \in Agents \ known : SetOnWait(status, a)[b] = Offline
    BY <1>10, <1>t, <1>u DEF DispoHangup, SetOnWait
  <2>2. QED BY <1>10, <1>t, <1>l, <2>1, SettersTyped, BecomesTyped DEF DispoHangup
<1>11. ASSUME NEW c \in Campaigns, NEW a \in Agents, DispoTransfer(a, c) PROVE TypeOK'
  <2> DEFINE waiting == IF a \in known THEN SetOnWait(status, a) ELSE status
  <2>1. waiting \in [Agents -> Status]
    BY <1>t, SettersTyped
  <2>2. \A b \in Agents \ known : waiting[b] = Offline
    BY <1>t, <1>u DEF SetOnWait
  <2>3. CASE \E b \in Agents : HandTo(b, waiting, Closer[c])
    BY <2>1, <2>2, <2>3, HandToTyped
  <2>4. CASE Becomes(waiting, left)
    BY <1>l, <2>1, <2>2, <2>4, BecomesTyped
  <2>5. QED BY <1>11, <2>3, <2>4 DEF DispoTransfer
<1>12. CASE UNCHANGED vars
  BY <1>12 DEF vars, TypeOK, Clock
<1>13. QED
  BY <1>1, <1>2, <1>3, <1>4, <1>5, <1>6, <1>7, <1>8, <1>9, <1>10, <1>11, <1>12
    DEF Next, CampaignEvent

\* Every state of Agents is of its type, for any agents, campaigns and clock.
THEOREM TypeCorrect == Spec => []TypeOK
<1>1. Init => TypeOK
  <2> SUFFICES ASSUME Init PROVE TypeOK
    OBVIOUS
  <2>1. joining \in [Agents -> 0 .. MaxJoining] /\ rest \in [Agents -> 0 .. Rested]
    BY DEF Init, Rested
  <2>2. status \in [Agents -> Status] /\ phone \in [Agents -> Phones]
    BY DEF Init, Status, Phones
  <2>3. QED BY <2>1, <2>2 DEF Init, TypeOK
<1>2. QED BY <1>1, StepTyped, PTL DEF Spec
-------------------------------------------------------------------------------
\* A positive status is a reading of the clock.
LEMMA PositiveStatus ==
  ASSUME NEW s \in Status
  PROVE  /\ s \in Int
         /\ s > 0 => s \in Clock
<1>1. CASE s \in Clock
  BY <1>1 DEF Clock
<1>2. CASE s \in {OnCall, Offline, Paused, Closeout}
  BY <1>2 DEF OnCall, Offline, Paused, Closeout
<1>3. QED BY <1>1, <1>2 DEF Status

\* What a setter writes at its agent is the time of day or a code.
LEMMA SettersFresh ==
  ASSUME status \in [Agents -> Status], NEW a \in Agents
  PROVE  /\ Fresh(status) /\ Fresh(SetLoggedIn(status, a)) /\ Fresh(SetOnWait(status, a))
         /\ Fresh(SetOnCall(status, a)) /\ Fresh(SetOffline(status, a))
         /\ Fresh(SetOnPause(status, a)) /\ Fresh(SetInCloseout(SetOnWait(status, a), a))
  BY DEF Fresh, SetLoggedIn, SetOnWait, SetOnCall, SetOffline, SetOnPause, SetInCloseout,
         Status, OnCall, Offline, Paused, Closeout, Clock

\* The scans add nothing but the time of day and codes to a fresh table.
LEMMA ScanFresh ==
  ASSUME TypeOK, NEW st \in [Agents -> Status], Fresh(st), NEW k \in SUBSET Agents
  PROVE  Fresh(ParseAgentChannelStatus(st, k))
<1>1. ASSUME NEW a \in Agents
      PROVE  ChannelStatus(st[a], phone[a]) \in {st[a], now, OnCall, Offline}
  <2>1. phone[a] \in Phones
    BY DEF TypeOK
  <2>2. QED BY <2>1 DEF ChannelStatus, Phones
<1>2. OnCall \notin Clock /\ Offline \notin Clock
  BY DEF OnCall, Offline, Clock
<1>3. QED BY <1>1, <1>2 DEF ParseAgentChannelStatus, Fresh

LEMMA BridgesFresh ==
  ASSUME NEW st \in [Agents -> Status], Fresh(st), NEW rows \in [Agents -> Rows]
  PROVE  Fresh(ParseAgentQueueStatus(st, rows))
<1>1. ASSUME NEW a \in Agents
      PROVE  (CASE rows[a] = "absent"    -> st[a]
                [] rows[a] = "offline"   -> Offline
                [] rows[a] = "paused"    -> Paused
                [] rows[a] = "available" -> OnCall
                [] rows[a] = "busy"      -> now) \in {st[a], now, OnCall, Offline, Paused}
  <2>1. rows[a] \in Rows
    OBVIOUS
  <2>2. QED BY <2>1 DEF Rows
<1>2. OnCall \notin Clock /\ Offline \notin Clock /\ Paused \notin Clock
  BY DEF OnCall, Offline, Paused, Clock
<1>3. QED BY <1>1, <1>2 DEF ParseAgentQueueStatus, Fresh

\* A handler that only writes fresh statuses is quiet, and so is death.
LEMMA BecomesQuiet ==
  ASSUME NEW st, Fresh(st), NEW lf, Becomes(st, lf)
  PROVE  Quiet
  BY DEF Becomes, Quiet, Fresh

LEMMA GoneQuiet == Gone => Quiet
<1>1. Offline \notin Clock
  BY DEF Offline, Clock
<1>2. QED BY <1>1 DEF Gone, Quiet, Fresh

\* A hand-out decided on fresh statuses finds an agent whose own status is as
\* it was: a status just written is not available.
LEMMA HandToHands ==
  ASSUME TypeOK, NEW st \in [Agents -> Status], Fresh(st),
         NEW b \in Agents, NEW c, HandTo(b, st, c)
  PROVE  Handed(b)
<1>1. IsAvailable(st[b])
  BY ChosenAvailable DEF HandTo
<1>2. now \in Int /\ st[b] \in Status /\ st[b] > 0
  <2>1. now \in Int
    BY DEF TypeOK, Clock
  <2>2. QED BY <1>1, <2>1 DEF IsAvailable
<1>4. st[b] \in Clock /\ st[b] \in Int
  BY <1>2, PositiveStatus
<1>3. st[b] # now
  BY <1>1, <1>2, <1>4 DEF IsAvailable
<1>5. st[b] = status[b]
  BY <1>3, <1>4 DEF Fresh
<1>6. st[b] # Offline
  BY <1>2 DEF Offline
<1>7. status'[b] = now /\ Fresh(status')
  BY <1>6 DEF HandTo, SetOnWait, Fresh
<1>8. QED BY <1>1, <1>5, <1>7 DEF HandTo, Handed

\* Every step ticks, hands a customer over, lets one arrive, or is quiet.
LEMMA StepKinds ==
  ASSUME TypeOK, [Next]_vars
  PROVE  Quiet \/ Tick \/ Joined \/ \E a \in Agents : Handed(a)
<1>t. status \in [Agents -> Status] /\ known \in SUBSET Agents
  BY DEF TypeOK
<1>u. Fresh(status)
  BY DEF Fresh
<1>1. CASE Start
  <2>1. PICK k \in SUBSET Agents, rows \in [Agents -> Rows] :
          status' = ParseAgentChannelStatus(
                      ParseAgentQueueStatus(ParseAgentChannelStatus(status, k), rows), k)
    BY <1>1 DEF Start
  <2> DEFINE listed == ParseAgentChannelStatus(status, k)
             bridged == ParseAgentQueueStatus(listed, rows)
  <2>2. listed \in [Agents -> Status] /\ Fresh(listed)
    BY <1>t, <1>u, ScanTyped, ScanFresh
  <2>3. bridged \in [Agents -> Status] /\ Fresh(bridged)
    BY <2>2, BridgesTyped, BridgesFresh DEF TypeOK
  <2>4. Fresh(status')
    BY <2>1, <2>3, ScanFresh
  <2>5. QED BY <1>1, <2>4 DEF Start, Quiet
<1>2. CASE Die
  BY <1>2, GoneQuiet DEF Die
<1>3. CASE Refresh
  <2>1. PICK k \in SUBSET Agents : status' = ParseAgentChannelStatus(status, known \cup k)
    BY <1>3 DEF Refresh
  <2>2. Fresh(status')
    BY <1>t, <1>u, <2>1, ScanFresh
  <2>3. QED BY <1>3, <2>2 DEF Refresh, Quiet
<1>4. CASE Tick
  BY <1>4
<1>5. ASSUME NEW a \in Agents, AgentEvent(a) PROVE Quiet
  <2>1. \/ Gone
        \/ \E lf \in {left, Leaves(a), Returns(a)} :
             \/ Becomes(SetOnPause(status, a), lf) \/ Becomes(SetLoggedIn(status, a), lf)
             \/ Becomes(status, lf) \/ Becomes(SetOnCall(status, a), lf)
             \/ Becomes(SetOffline(status, a), lf) \/ Becomes(SetOnWait(status, a), lf)
    BY <1>5 DEF AgentEvent, QueueMemberPause, UserSetOnCall, UserSetOnWait,
      AgentLogin, AgentLogoff, Link, AgentPause, AgentUnPause
  <2>2. QED BY <1>t, <2>1, SettersFresh, BecomesQuiet, GoneQuiet
<1>6. ASSUME NEW a \in Agents, RedirectEnds(a) PROVE Joined
  BY <1>6 DEF RedirectEnds, Joined
<1>7. ASSUME NEW a \in Agents, PhoneChanges(a) PROVE Quiet
  BY <1>7, <1>u DEF PhoneChanges, Quiet, Fresh
<1>8. ASSUME NEW c \in Campaigns, UserQueue(c) \/ UserQueueTransfer(c)
      PROVE  \E b \in Agents : Handed(b)
  BY <1>8, <1>t, <1>u, HandToHands DEF UserQueue, UserQueueTransfer
<1>9. ASSUME NEW c \in Campaigns, NEW a \in Agents, CallHangup(a, c) PROVE Quiet
  <2>1. Gone \/ Becomes(SetInCloseout(SetOnWait(status, a), a), Returns(a))
    BY <1>9 DEF CallHangup
  <2>2. QED BY <1>t, <2>1, SettersFresh, BecomesQuiet, GoneQuiet
<1>10. ASSUME NEW c \in Campaigns, NEW a \in Agents, DispoHangup(a, c) PROVE Quiet
  BY <1>10, <1>t, SettersFresh, BecomesQuiet DEF DispoHangup
<1>11. ASSUME NEW c \in Campaigns, NEW a \in Agents, DispoTransfer(a, c)
       PROVE  Quiet \/ \E b \in Agents : Handed(b)
  <2> DEFINE waiting == IF a \in known THEN SetOnWait(status, a) ELSE status
  <2>1. waiting \in [Agents -> Status] /\ Fresh(waiting)
    BY <1>t, <1>u, SettersTyped, SettersFresh DEF TypeOK
  <2>2. CASE \E b \in Agents : HandTo(b, waiting, Closer[c])
    BY <2>1, <2>2, HandToHands
  <2>3. CASE Becomes(waiting, left)
    BY <2>1, <2>3, BecomesQuiet
  <2>4. QED BY <1>11, <2>2, <2>3 DEF DispoTransfer
<1>12. CASE UNCHANGED vars
  BY <1>12, <1>u DEF vars, Quiet, Fresh
<1>13. QED
  BY <1>1, <1>2, <1>3, <1>4, <1>5, <1>6, <1>7, <1>8, <1>9, <1>10, <1>11, <1>12
    DEF Next, CampaignEvent

-------------------------------------------------------------------------------
\* Each kind of step preserves Spaced.
LEMMA StepSpaced ==
  ASSUME TypeOK, TypeOK', Spaced, [Next]_vars
  PROVE  Spaced'
<1> SUFFICES ASSUME NEW a \in Agents, status'[a] \in Clock
             PROVE  rest'[a] = Rested \/ now' - status'[a] <= rest'[a]
  BY DEF Spaced, Clock, Rested
<1>t. /\ now \in 0 .. ClockMod - 1 /\ now' \in 0 .. ClockMod - 1
      /\ rest[a] \in 0 .. Rested /\ rest'[a] \in 0 .. Rested
      /\ status'[a] \in 0 .. ClockMod - 1
      /\ rest \in [Agents -> 0 .. Rested]
  BY DEF TypeOK, Clock, Rested
<1>s. status[a] \in Clock => rest[a] = Rested \/ now - status[a] <= rest[a]
  BY DEF Spaced
<1>1. CASE Quiet
  <2>1. CASE status'[a] = status[a]
    BY <1>1, <1>s, <2>1 DEF Quiet
  <2>2. CASE status'[a] = now
    BY <1>1, <1>t, <2>2 DEF Quiet
  <2>3. QED BY <1>1, <2>1, <2>2 DEF Quiet, Fresh
<1>2. CASE Tick
  <2>1. status'[a] = status[a] /\ now' = (now + 1) % ClockMod
    BY <1>2 DEF Tick
  <2>2. rest'[a] = IF rest[a] < Rested THEN rest[a] + 1 ELSE Rested
    BY <1>2 DEF Tick
  <2>3. now' <= now + 1
    BY <1>t, <2>1
  <2>4. CASE rest[a] < Rested
    BY <1>t, <1>s, <2>1, <2>2, <2>3, <2>4 DEF Rested
  <2>5. CASE ~(rest[a] < Rested)
    BY <2>2, <2>5
  <2>6. QED BY <2>4, <2>5
<1>3. CASE Joined
  BY <1>3, <1>s DEF Joined
<1>4. ASSUME NEW b \in Agents, Handed(b)
      PROVE  rest'[a] = Rested \/ now' - status'[a] <= rest'[a]
  <2>1. CASE a = b
    BY <1>4, <1>t, <2>1 DEF Handed
  <2>2. CASE a # b
    <3>1. rest'[a] = rest[a] /\ now' = now
      BY <1>4, <1>t, <2>2 DEF Handed
    <3>2. CASE status'[a] = status[a]
      BY <1>s, <3>1, <3>2
    <3>3. CASE status'[a] = now
      BY <1>t, <3>1, <3>3
    <3>4. QED BY <1>4, <3>2, <3>3 DEF Handed, Fresh
  <2>3. QED BY <2>1, <2>2
<1>5. QED BY <1>1, <1>2, <1>3, <1>4, StepKinds

\* No agent has been ready for longer than since her last customer, whatever
\* the events and restarts: the invariant the wrap-up rests on.
THEOREM SpacedInvariant == Spec => []Spaced
<1>1. Init => Spaced
  BY DEF Init, Spaced
<1>2. TypeOK /\ TypeOK' /\ Spaced /\ [Next]_vars => Spaced'
  BY StepSpaced
<1>3. QED BY <1>1, <1>2, TypeCorrect, PTL DEF Spec

\* An available agent is rested.
LEMMA AvailableRested ==
  ASSUME TypeOK, Spaced, NEW a \in Agents, IsAvailable(status[a])
  PROVE  status[a] > 0 /\ rest[a] = Rested
<1>1. now \in Int /\ status[a] \in Status /\ status[a] > 0 /\ rest[a] \in 0 .. Rested
  BY DEF TypeOK, IsAvailable, Clock
<1>2. status[a] \in Clock /\ status[a] \in Int
  BY <1>1, PositiveStatus
<1>3. rest[a] = Rested \/ now - status[a] <= rest[a]
  BY <1>2 DEF Spaced
<1>4. QED BY <1>1, <1>2, <1>3 DEF IsAvailable, Rested

\* Customers reach the same agent more than WrapUp seconds apart.
THEOREM HandOutsAreSpaced == Spec => HandOutSpacing
<1>1. ASSUME TypeOK, Spaced, [Next]_vars
      PROVE  [\A a \in Agents : joining'[a] > joining[a] => rest[a] = Rested]_vars
  <2> SUFFICES ASSUME NEW a \in Agents, joining'[a] > joining[a]
               PROVE  rest[a] = Rested
    OBVIOUS
  <2>t. joining \in [Agents -> 0 .. MaxJoining]
    BY <1>1 DEF TypeOK
  <2>1. ~ Quiet
    BY <2>t DEF Quiet
  <2>2. ~ Tick
    BY <2>t DEF Tick
  <2>3. ~ Joined
    BY <2>t DEF Joined
  <2>4. PICK b \in Agents : Handed(b)
    BY <1>1, <2>1, <2>2, <2>3, StepKinds
  <2>5. a = b
    BY <2>4, <2>t DEF Handed
  <2>6. QED BY <1>1, <2>4, <2>5, AvailableRested DEF Handed
<1>2. QED BY <1>1, TypeCorrect, SpacedInvariant, PTL DEF Spec, HandOutSpacing
-------------------------------------------------------------------------------
\* Each kind of step is a step of HandOut.
LEMMA StepSimulates ==
  ASSUME TypeOK, TypeOK', Spaced, [Next]_vars
  PROVE  [HandOutSpec!Next]_(HandOutSpec!vars)
<1> DEFINE ready == {a \in Agents : status[a] > 0}
<1>r. ready' \in SUBSET Agents
  OBVIOUS
<1>t. joining \in [Agents -> 0 .. MaxJoining] /\ joining' \in [Agents -> 0 .. MaxJoining]
  BY DEF TypeOK
<1>1. CASE Quiet
  <2>a. rest' = rest /\ \A a \in Agents : joining'[a] = joining[a]
    BY <1>1 DEF Quiet
  <2>b. /\ joining  = [a \in Agents |-> joining[a]]
        /\ joining' = [a \in Agents |-> joining'[a]]
    BY <1>t
  <2>1. joining' = joining /\ rest' = rest
    BY <2>a, <2>b
  <2>2. HandOutSpec!Shift
    BY <1>r, <2>1 DEF HandOutSpec!Shift
  <2>3. QED BY <2>2 DEF HandOutSpec!Next
<1>2. CASE Tick
  <2>1. HandOutSpec!Second
    BY <1>2 DEF Tick, HandOutSpec!Second, HandOutSpec!Rested, Rested
  <2>2. QED BY <2>1 DEF HandOutSpec!Next
<1>3. CASE Joined
  <2>1. \E a \in Agents : HandOutSpec!Arrive(a)
    BY <1>3 DEF Joined, HandOutSpec!Arrive
  <2>2. QED BY <2>1 DEF HandOutSpec!Next
<1>4. ASSUME NEW a \in Agents, Handed(a) PROVE HandOutSpec!Next
  <2>1. status[a] > 0 /\ rest[a] = Rested
    BY <1>4, AvailableRested DEF Handed
  <2>2. HandOutSpec!Give(a)
    BY <1>4, <1>r, <2>1 DEF Handed, HandOutSpec!Give, HandOutSpec!Rested, Rested
  <2>3. QED BY <2>2 DEF HandOutSpec!Next
<1>5. QED BY <1>1, <1>2, <1>3, <1>4, StepKinds

\* The dialer's agents implement HandOut, for any number of agents.
THEOREM AgentsRefineHandOut == Spec => RefinesHandOut
<1>1. Init => HandOutSpec!Init
  <2> DEFINE ready == {a \in Agents : status[a] > 0}
  <2>1. ready \in SUBSET Agents
    OBVIOUS
  <2>2. QED BY <2>1 DEF Init, HandOutSpec!Init, HandOutSpec!Rested, Rested
<1>2. TypeOK /\ TypeOK' /\ Spaced /\ [Next]_vars
        => [HandOutSpec!Next]_(HandOutSpec!vars)
  BY StepSimulates
<1>3. QED
  BY <1>1, <1>2, TypeCorrect, SpacedInvariant, PTL DEF Spec, RefinesHandOut, HandOutSpec!Spec
-------------------------------------------------------------------------------
\* What the hand-out rests on: the history says of nobody that she left who is
\* not offline.
LeftIsOffline == \A a \in Agents : left[a] => status[a] = Offline

\* A setter that spares the offline agents, and nothing written of the others.
LEMMA WaitSparesTheGone ==
  ASSUME TypeOK, LeftIsOffline, NEW b \in Agents
  PROVE  /\ \A a \in Agents : left[a] => SetOnWait(status, b)[a] = Offline
         /\ \A a \in Agents : Leaves(b)[a] => SetOffline(status, b)[a] = Offline
         /\ \A a \in Agents : Returns(b)[a] =>
              /\ SetOnPause(status, b)[a] = Offline
              /\ SetLoggedIn(status, b)[a] = Offline
              /\ SetOnCall(status, b)[a] = Offline
              /\ SetInCloseout(SetOnWait(status, b), b)[a] = Offline
  BY DEF TypeOK, LeftIsOffline, Leaves, Returns, SetOnWait, SetOffline, SetOnPause,
    SetLoggedIn, SetOnCall, SetInCloseout

\* Every step keeps it.
LEMMA StepLeft ==
  ASSUME TypeOK, LeftIsOffline, [Next]_vars
  PROVE  LeftIsOffline'
<1>t. /\ status \in [Agents -> Status] /\ left \in [Agents -> BOOLEAN]
      /\ phone \in [Agents -> Phones] /\ known \in SUBSET Agents
  BY DEF TypeOK
<1>b. ASSUME NEW st, NEW lf, \A a \in Agents : lf[a] => st[a] = Offline, Becomes(st, lf)
      PROVE  LeftIsOffline'
  BY <1>b DEF Becomes, LeftIsOffline
<1>g. Gone => LeftIsOffline'
  BY DEF Gone, LeftIsOffline
<1>h. ASSUME NEW st \in [Agents -> Status], \A a \in Agents : left[a] => st[a] = Offline,
             NEW b \in Agents, NEW c, HandTo(b, st, c)
      PROVE  LeftIsOffline'
  BY <1>h DEF HandTo, LeftIsOffline, SetOnWait
<1>s. \A a \in Agents : left[a] => status[a] = Offline
  BY DEF LeftIsOffline
<1>1. CASE Start
  <2>1. PICK k \in SUBSET Agents, rows \in [Agents -> Rows] :
          /\ \A a \in Agents \ k : rows[a] = "absent"
          /\ status' = ParseAgentChannelStatus(
                         ParseAgentQueueStatus(ParseAgentChannelStatus(status, k), rows), k)
          /\ left' = [a \in Agents |->
               a \in k => LeftAfterScan(rows[a] \in {"absent", "offline"}, phone[a])]
    BY <1>1 DEF Start
  <2> DEFINE listed == ParseAgentChannelStatus(status, k)
             bridged == ParseAgentQueueStatus(listed, rows)
  <2>2. \A a \in Agents : status[a] = Offline
    BY <1>1 DEF Start, TypeOK
  <2>3. ASSUME NEW a \in Agents, a \notin k PROVE status'[a] = Offline
    BY <2>1, <2>2, <2>3 DEF ParseAgentChannelStatus, ParseAgentQueueStatus
  <2>4. ASSUME NEW a \in Agents, a \in k, left'[a] PROVE status'[a] = Offline
    <3>1. CASE phone[a] = "none"
      BY <2>1, <2>4, <3>1 DEF ParseAgentChannelStatus, ChannelStatus
    <3>2. CASE phone[a] = "bare" /\ rows[a] \in {"absent", "offline"}
      <4>1. listed[a] = Offline
        BY <2>2, <2>4, <3>2 DEF ParseAgentChannelStatus, ChannelStatus
      <4>2. bridged[a] = Offline
        BY <3>2, <4>1 DEF ParseAgentQueueStatus
      <4>3. QED BY <2>1, <2>4, <3>2, <4>2 DEF ParseAgentChannelStatus, ChannelStatus
    <3>3. QED BY <2>1, <2>4, <3>1, <3>2 DEF LeftAfterScan
  <2>5. QED BY <2>3, <2>4 DEF LeftIsOffline
<1>2. CASE Die
  BY <1>2, <1>g DEF Die
<1>3. CASE Refresh
  <2>1. PICK k \in SUBSET Agents :
          /\ status' = ParseAgentChannelStatus(status, known \cup k)
          /\ left' = [a \in Agents |->
               IF a \in known \cup k THEN LeftAfterScan(left[a], phone[a]) ELSE left[a]]
    BY <1>3 DEF Refresh
  <2>2. ASSUME NEW a \in Agents, left'[a] PROVE status'[a] = Offline
    <3>1. CASE a \in known \cup k
      BY <1>s, <2>1, <2>2, <3>1 DEF LeftAfterScan, ParseAgentChannelStatus, ChannelStatus
    <3>2. CASE a \notin known \cup k
      BY <1>s, <2>1, <2>2, <3>2 DEF ParseAgentChannelStatus
    <3>3. QED BY <3>1, <3>2
  <2>3. QED BY <2>2 DEF LeftIsOffline
<1>4. ASSUME UNCHANGED <<status, left>> PROVE LeftIsOffline'
  BY <1>4 DEF LeftIsOffline
<1>5. ASSUME NEW b \in Agents, AgentEvent(b) PROVE LeftIsOffline'
  <2>1. \/ Gone
        \/ Becomes(SetOnPause(status, b), Returns(b))
        \/ Becomes(SetLoggedIn(status, b), Returns(b))
        \/ Becomes(status, left) \/ Becomes(SetOnCall(status, b), Returns(b))
        \/ Becomes(SetOffline(status, b), Leaves(b)) \/ Becomes(SetOnWait(status, b), left)
    BY <1>5 DEF AgentEvent, QueueMemberPause, UserSetOnCall, UserSetOnWait,
      AgentLogin, AgentLogoff, Link, AgentPause, AgentUnPause
  <2>2. QED BY <1>b, <1>g, <1>s, <2>1, WaitSparesTheGone
<1>6. ASSUME NEW c \in Campaigns, CampaignEvent(c) PROVE LeftIsOffline'
  <2>1. CASE UserQueue(c) \/ UserQueueTransfer(c)
    BY <1>h, <1>s, <1>t, <2>1 DEF UserQueue, UserQueueTransfer
  <2>2. ASSUME NEW b \in Agents, CallHangup(b, c) PROVE LeftIsOffline'
    <3>1. Gone \/ Becomes(SetInCloseout(SetOnWait(status, b), b), Returns(b))
      BY <2>2 DEF CallHangup
    <3>2. QED BY <1>b, <1>g, <3>1, WaitSparesTheGone
  <2>3. ASSUME NEW b \in Agents, DispoHangup(b, c) PROVE LeftIsOffline'
    BY <1>b, <2>3, WaitSparesTheGone DEF DispoHangup
  <2>4. ASSUME NEW b \in Agents, DispoTransfer(b, c) PROVE LeftIsOffline'
    <3> DEFINE waiting == IF b \in known THEN SetOnWait(status, b) ELSE status
    <3>1. waiting \in [Agents -> Status] /\ \A a \in Agents : left[a] => waiting[a] = Offline
      BY <1>s, <1>t, SettersTyped, WaitSparesTheGone DEF TypeOK
    <3>2. Becomes(waiting, left) \/ \E a \in Agents : HandTo(a, waiting, Closer[c])
      BY <2>4 DEF DispoTransfer
    <3>3. QED BY <1>b, <1>h, <3>1, <3>2
  <2>5. QED BY <1>6, <2>1, <2>2, <2>3, <2>4 DEF CampaignEvent
<1>7. QED
  BY <1>1, <1>2, <1>3, <1>4, <1>5, <1>6
    DEF Next, Tick, RedirectEnds, PhoneChanges, vars

\* No customer is handed to an agent who left: dispositions and unpauses that
\* arrive late, however many and in whatever order, do not bring her back.
THEOREM TheGoneStayOut == Spec => GoneStayOut
<1>1. Init => LeftIsOffline
  BY DEF Init, LeftIsOffline
<1>2. TypeOK /\ LeftIsOffline /\ [Next]_vars => LeftIsOffline'
  BY StepLeft
<1>3. ASSUME TypeOK, LeftIsOffline, [Next]_vars
      PROVE  [\A a \in Agents : joining'[a] > joining[a] => ~left[a]]_vars
  <2> SUFFICES ASSUME NEW a \in Agents, joining'[a] > joining[a]
               PROVE  ~left[a]
    OBVIOUS
  <2>t. joining \in [Agents -> 0 .. MaxJoining]
    BY <1>3 DEF TypeOK
  <2>1. ~ Quiet /\ ~ Tick /\ ~ Joined
    BY <2>t DEF Quiet, Tick, Joined
  <2>2. PICK b \in Agents : Handed(b)
    BY <1>3, <2>1, StepKinds
  <2>3. a = b
    BY <2>2, <2>t DEF Handed
  <2>4. status[a] # Offline
    BY <2>2, <2>3 DEF Handed, IsAvailable, Offline
  <2>5. QED BY <1>3, <2>4 DEF LeftIsOffline
<1>4. QED BY <1>1, <1>2, <1>3, TypeCorrect, PTL DEF Spec, GoneStayOut
===============================================================================
