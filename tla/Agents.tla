-------------------------------- MODULE Agents --------------------------------
(***************************************************************************)
(* The agents as the dialer daemon sees them: agent.h, the agent scans of  *)
(* queue.h and every branch of gnudialer.cpp's event loop that changes or  *)
(* reads an agent's status.                                                *)
(*                                                                         *)
(* herStatus is one integer: -1 on a call, -2 offline, -3 paused, -4 in    *)
(* closeout, and otherwise the second (tv_sec % 1000000) at which the      *)
(* agent became ready.  The same number is therefore state, clock reading  *)
(* and sort key; the properties below are about what follows from that.    *)
(*                                                                         *)
(* Left out because no status depends on them: the agent's name, password, *)
(* channel names and herCalltime, and the campaign, the lead and the log   *)
(* of her calls, which CallLog models.                                     *)
(***************************************************************************)
EXTENDS Integers

CONSTANTS
  Agents,       \* agent numbers, as in queue membership and events
  Campaigns,    \* campaign names
  ClockMod,     \* the modulus of the clock (1000000 in the code)
  WrapUp,       \* the 5 of "now - status > 5"
  Memberships,  \* the queue snapshots ParseQueues may read from the database
  Closer,       \* the setting closercam of each campaign, or NoCampaign
  UseCloser,    \* the campaigns whose setting usecloser is true
  NoCampaign,   \* "none", "initialized" or empty
  MaxJoining    \* bound: forked redirects of one agent alive at once

ASSUME AgentsAssumption == Agents \subseteq Nat \ {0}
ASSUME ClockAssumption == ClockMod \in Nat /\ WrapUp \in Nat /\ WrapUp + 1 < ClockMod
ASSUME MembershipsAssumption ==
  /\ Memberships # {}
  /\ \A m \in Memberships : \A c \in DOMAIN m : c \in Campaigns /\ m[c] \subseteq Agents
ASSUME CloserAssumption ==
  /\ NoCampaign \notin Campaigns
  /\ Closer \in [Campaigns -> Campaigns \cup {NoCampaign}]
  /\ UseCloser \subseteq Campaigns
ASSUME JoiningAssumption == MaxJoining \in Nat \ {0}

VARIABLES
  up,        \* the daemon is running
  now,       \* tv_sec % ClockMod
  known,     \* the agents in ItsAgents
  status,    \* herStatus of each agent; Offline for those not in the list
  member,    \* ItsQueues: the members of each campaign of the snapshot
  phone,     \* what /ari/channels reports of each agent's telephone
  joining,   \* forked children redirecting a customer to the agent
  rest,      \* history: seconds since the agent's last hand-out (to WrapUp + 1)
  left       \* history: the dialer was told that the agent is gone, or found her
             \* telephone gone, and since then only a disposition or an unpause
             \* named her

vars == <<up, now, known, status, member, phone, joining, rest, left>>

Clock    == 0 .. ClockMod - 1
OnCall   == -1
Offline  == -2
Paused   == -3
Closeout == -4
Status   == {OnCall, Offline, Paused, Closeout} \cup Clock
Rested   == WrapUp + 1

\* The channel list's view of an agent: no channel; a channel with no
\* "connected" or "dialplan" object; a channel talking to a named party
\* outside any application; any other channel; a talking channel followed by
\* another.  What the scan does with longer lists is what it does with these.
Phones == {"none", "bare", "talking", "idle", "both"}

\* The row of conf_bridges for an agent, if there is one.
Rows == {"absent", "offline", "paused", "available", "busy"}
-------------------------------------------------------------------------------
\* Slips the checks must catch: SetOnWait without its offline test; a scan
\* without the wrap-up, one a second short of it and one a second over; a
\* channel scan that forgets the agents it did not see.
SetOnWaitAlways(st, a)     == [st EXCEPT ![a] = now]
IsAvailableAtOnce(s)       == s > 0
IsAvailableTooEarly(s)     == s > 0 /\ now - s >= WrapUp
IsAvailableNeverLast(s)    == s > 0 /\ now - s > WrapUp + 1
ChannelStatusUnseen(s, ph) == IF ph = "talking" THEN OnCall ELSE s

\* agent.h: the status setters.  SetOnWait leaves an offline agent offline.
SetLoggedIn(st, a)   == [st EXCEPT ![a] = now]
SetOnWait(st, a)     == [st EXCEPT ![a] = IF @ = Offline THEN @ ELSE now]
SetOnCall(st, a)     == [st EXCEPT ![a] = OnCall]
SetOffline(st, a)    == [st EXCEPT ![a] = Offline]
SetOnPause(st, a)    == [st EXCEPT ![a] = Paused]
SetInCloseout(st, a) == [st EXCEPT ![a] = Closeout]

\* agent.h ParseAgentChannelStatus, one agent: the status after the scan.
ChannelStatus(s, ph) ==
  CASE ph = "none"                               -> Offline
    [] ph = "talking"                            -> OnCall
    [] ph = "idle" /\ s \in {Offline, OnCall}    -> now
    [] ph = "idle" /\ s \notin {Offline, OnCall} -> s
    [] ph = "bare"                               -> s
    [] ph = "both"                               -> now

\* ... and of all the agents of the list k.
ParseAgentChannelStatus(st, k) ==
  [a \in Agents |-> IF a \in k THEN ChannelStatus(st[a], phone[a]) ELSE st[a]]

\* agent.h ParseAgentQueueStatus, for the rows of conf_bridges.
ParseAgentQueueStatus(st, rows) ==
  [a \in Agents |->
     CASE rows[a] = "absent"    -> st[a]
       [] rows[a] = "offline"   -> Offline
       [] rows[a] = "paused"    -> Paused
       [] rows[a] = "available" -> OnCall
       [] rows[a] = "busy"      -> now]
-------------------------------------------------------------------------------
\* The test both scans of queue.h make of an agent.
IsAvailable(s) == s > 0 /\ now - s > WrapUp

\* The members of a campaign GetAvailAgents counts, and LeastRecent chooses from.
Available(st, c) ==
  IF c \in DOMAIN member THEN {a \in known \cap member[c] : IsAvailable(st[a])} ELSE {}

\* queue.h LeastRecent: the available member ready the longest, the lower
\* number first (the list is sorted); empty when the code returns "0".
LeastRecent(st, c) ==
  {a \in Available(st, c) :
     \A b \in Available(st, c) : st[a] < st[b] \/ (st[a] = st[b] /\ a <= b)}
-------------------------------------------------------------------------------
\* The daemon gone, and its memory with it: killed by Asterisk's Shutdown
\* event, by an exception no handler catches (an unknown agent or campaign
\* given to where(), a failed fork, an ARI answer that is not JSON), or by
\* the operator.
Gone ==
  /\ up' = FALSE
  /\ known' = {}
  /\ status' = [a \in Agents |-> Offline]
  /\ left' = [a \in Agents |-> TRUE]
  /\ UNCHANGED <<now, member, phone, joining, rest>>

\* The history of who left: agent a is gone, or something came for her; and
\* what a scan of the channels says of an agent of whom l was true.
Leaves(a)  == [left EXCEPT ![a] = TRUE]
Returns(a) == [left EXCEPT ![a] = FALSE]
LeftAfterScan(l, ph) == ph = "none" \/ (ph = "bare" /\ l)

\* A change of status and history of a handler that touches nothing else.
Becomes(st, lf) ==
  /\ status' = st
  /\ left' = lf
  /\ UNCHANGED <<up, now, known, member, phone, joining, rest>>

\* The hand-out at the end of a handler: a closer or agent a of campaign c is
\* chosen on the statuses st, reserved by SetOnWait, and a child is forked to
\* redirect the customer.
HandTo(a, st, c) ==
  /\ a \in LeastRecent(st, c)
  /\ joining[a] < MaxJoining
  /\ status' = SetOnWait(st, a)
  /\ joining' = [joining EXCEPT ![a] = @ + 1]
  /\ rest' = [rest EXCEPT ![a] = 0]
  /\ UNCHANGED <<up, now, known, member, phone, left>>
-------------------------------------------------------------------------------
Init ==
  /\ up = FALSE
  /\ now \in Clock
  /\ known = {}
  /\ status = [a \in Agents |-> Offline]
  /\ member \in Memberships
  /\ phone = [a \in Agents |-> "none"]
  /\ joining = [a \in Agents |-> 0]
  /\ rest = [a \in Agents |-> Rested]
  /\ left = [a \in Agents |-> TRUE]

\* gnudialer.cpp main: ParseQueues, ParseAgentList, Initialize.  The list k is
\* what the database holds now; a conf_bridges row of an agent outside it
\* throws, and the daemon does not come up.
Start ==
  /\ ~up
  /\ \E k \in SUBSET Agents, m \in Memberships, rows \in [Agents -> Rows] :
       LET listed   == ParseAgentChannelStatus(status, k)
           bridged  == ParseAgentQueueStatus(listed, rows)
       IN  /\ \A a \in Agents \ k : rows[a] = "absent"
           /\ known' = k
           /\ member' = m
           /\ status' = ParseAgentChannelStatus(bridged, k)
           /\ left' = [a \in Agents |->
                 a \in k => LeftAfterScan(rows[a] \in {"absent", "offline"}, phone[a])]
  /\ up' = TRUE
  /\ UNCHANGED <<now, phone, joining, rest>>

Die == up /\ Gone

\* The periodic refresh: ParseAgentList (which never drops an agent), then
\* ParseQueues.
Refresh ==
  /\ up
  /\ \E k \in SUBSET Agents, m \in Memberships :
       /\ known' = known \cup k
       /\ member' = m
       /\ status' = ParseAgentChannelStatus(status, known \cup k)
       /\ left' = [a \in Agents |->
             IF a \in known \cup k THEN LeftAfterScan(left[a], phone[a]) ELSE left[a]]
  /\ UNCHANGED <<up, now, phone, joining, rest>>

\* Event QueueMemberPause: the agent is looked up with where(), which throws.
QueueMemberPause(a, isPaused) ==
  /\ up
  /\ \/ a \notin known /\ Gone
     \/ /\ a \in known
        /\ \/ isPaused /\ Becomes(SetOnPause(status, a), Returns(a))
           \/ ~isPaused /\ status[a] = Paused /\ Becomes(SetLoggedIn(status, a), Returns(a))
           \/ ~isPaused /\ status[a] # Paused /\ Becomes(status, left)

\* UserEvent SetOnCall and SetOnWait, also looked up with where().
UserSetOnCall(a) ==
  /\ up
  /\ \/ a \notin known /\ Gone
     \/ a \in known /\ Becomes(SetOnCall(status, a), Returns(a))

UserSetOnWait(a) ==
  /\ up
  /\ \/ a \notin known /\ Gone
     \/ a \in known /\ Becomes(SetLoggedIn(status, a), Returns(a))

\* Events Agentlogin, Agentlogoff and Link, and the manager's user events
\* AgentPause and AgentUnPause: ignored for an agent that does not exist.
AgentLogin(a)   == up /\ a \in known /\ Becomes(SetLoggedIn(status, a), Returns(a))
AgentLogoff(a)  == up /\ a \in known /\ Becomes(SetOffline(status, a), Leaves(a))
Link(a)         == up /\ a \in known /\ Becomes(SetOnCall(status, a), Returns(a))
AgentPause(a)   == up /\ a \in known /\ Becomes(SetOnPause(status, a), Returns(a))
AgentUnPause(a) == up /\ a \in known /\ Becomes(SetOnWait(status, a), left)

\* CRM_CallHangup of agent a on campaign c: talk time, then closeout.  The
\* campaign is looked up with where(), which throws when it is not there.
CallHangup(a, c) ==
  /\ up
  /\ a \in known
  /\ status[a] # Closeout
  /\ c # NoCampaign
  /\ \/ c \notin DOMAIN member /\ Gone
     \/ c \in DOMAIN member /\ Becomes(SetInCloseout(SetOnWait(status, a), a), Returns(a))

\* UserEventDispo of agent a on campaign c that ends in a hang-up: anything but
\* the sale of an agent whose campaign uses closers.
DispoHangup(a, c) ==
  /\ up
  /\ c \in DOMAIN member
  /\ a \in known
  /\ Becomes(SetOnWait(status, a), left)

\* UserEventDispo with Transfer and the sale disposition on a campaign that
\* uses closers: the agent waits, and the customer goes to a closer, or to
\* extension 699 when there is none.
DispoTransfer(a, c) ==
  LET waiting == IF a \in known THEN SetOnWait(status, a) ELSE status IN
  /\ up
  /\ c \in DOMAIN member \cap UseCloser
  /\ \/ \E b \in Agents : HandTo(b, waiting, Closer[c])
     \/ Available(waiting, Closer[c]) = {} /\ Becomes(waiting, left)

\* UserEvent Queue: a customer picked up and waits for an agent of c, or for
\* one of its closers when the event is a QueueTRANSFER.
UserQueue(c) ==
  /\ up
  /\ c \in DOMAIN member
  /\ \E b \in Agents : HandTo(b, status, c)

UserQueueTransfer(c) ==
  /\ up
  /\ c \in DOMAIN member
  /\ \E b \in Agents : HandTo(b, status, Closer[c])

\* doAriRedirect's child ends, the customer joined to the bridge or not.
RedirectEnds(a) ==
  /\ joining[a] > 0
  /\ joining' = [joining EXCEPT ![a] = @ - 1]
  /\ UNCHANGED <<up, now, known, status, member, phone, rest, left>>

\* The telephones, and the clock.
PhoneChanges(a) ==
  /\ \E ph \in Phones \ {phone[a]} : phone' = [phone EXCEPT ![a] = ph]
  /\ UNCHANGED <<up, now, known, status, member, joining, rest, left>>

Tick ==
  /\ now' = (now + 1) % ClockMod
  /\ rest' = [a \in Agents |-> IF rest[a] < Rested THEN rest[a] + 1 ELSE Rested]
  /\ UNCHANGED <<up, known, status, member, phone, joining, left>>

AgentEvent(a) ==
  \/ QueueMemberPause(a, TRUE) \/ QueueMemberPause(a, FALSE)
  \/ UserSetOnCall(a) \/ UserSetOnWait(a)
  \/ AgentLogin(a) \/ AgentLogoff(a) \/ Link(a)
  \/ AgentPause(a) \/ AgentUnPause(a)

CampaignEvent(c) ==
  \/ UserQueue(c) \/ UserQueueTransfer(c)
  \/ \E a \in Agents : CallHangup(a, c) \/ DispoHangup(a, c) \/ DispoTransfer(a, c)

Next ==
  \/ Start \/ Die \/ Refresh \/ Tick
  \/ \E a \in Agents : AgentEvent(a) \/ RedirectEnds(a) \/ PhoneChanges(a)
  \/ \E c \in Campaigns : CampaignEvent(c)

Spec == Init /\ [][Next]_vars

\* Time passes, and the main loop refreshes its settings at the latest when 20
\* seconds have gone by (at once after the clock wraps: the difference is
\* unsigned there).
FairSpec == Spec /\ WF_vars(Tick) /\ WF_vars(Refresh)
-------------------------------------------------------------------------------
TypeOK ==
  /\ up \in BOOLEAN
  /\ now \in Clock
  /\ known \in SUBSET Agents
  /\ ~up => known = {}
  /\ status \in [Agents -> Status]
  /\ \A a \in Agents \ known : status[a] = Offline
  /\ member \in Memberships
  /\ phone \in [Agents -> Phones]
  /\ joining \in [Agents -> 0 .. MaxJoining]
  /\ rest \in [Agents -> 0 .. Rested]
  /\ left \in [Agents -> BOOLEAN]

\* What makes the wrap-up work although only the time of readiness is stored:
\* an agent has never been ready for longer than since her last customer.  It
\* is what every setter that writes the clock, in every handler, must keep.
Spaced ==
  \A a \in Agents :
    status[a] \in Clock => rest[a] = Rested \/ now - status[a] <= rest[a]

\* A step that sends a customer to an agent finds her rested: customers reach
\* the same agent more than WrapUp seconds apart, whatever the order of dispo
\* events, pauses, refreshes and hang-ups between them, restarts included.
HandOutSpacing ==
  [][\A a \in Agents : joining'[a] > joining[a] => rest[a] = Rested]_vars

\* No customer is handed to an agent who left, whatever number of dispositions
\* and unpauses arrive for her afterwards, in whatever order: SetOnWait leaves
\* her offline.  It takes something else to bring her back: a login, a scan
\* that finds her telephone, or an event that sets her status without looking
\* at it.  The late hang-up of her last call is such an event (CRM_CallHangup
\* is ignored for an agent in closeout only), and so are a link and a pause:
\* behind each of them a disposition, or an unpause, makes an agent ready who
\* has no telephone, until the next scan (PhonelessGoOffline).
GoneStayOut ==
  [][\A a \in Agents : joining'[a] > joining[a] => ~left[a]]_vars

\* The dialer's agents implement HandOut: the ready agents are those whose
\* status is a clock reading that can ever be chosen.
HandOutSpec ==
  INSTANCE HandOut WITH ready <- {a \in Agents : status[a] > 0}

RefinesHandOut == HandOutSpec!Spec

\* An agent who stays ready becomes available, if she became ready early enough
\* before the clock wraps and not at its zero.
EventuallyAvailable ==
  \A a \in Agents : \A s \in 1 .. ClockMod - 2 - WrapUp :
    (status[a] = s) ~> (status[a] # s \/ IsAvailable(s))

\* An agent whose telephone is gone for good does not stay in the scans: she is
\* found offline again and again, whatever late events say of her.
PhonelessGoOffline ==
  \A a \in Agents : <>[](phone[a] = "none") => []<>(status[a] = Offline)

\* What queue.h's comment on the scan says of the test: it is the wrap-up time,
\* so that an agent who stays ready becomes available.
WrapUpEnds ==
  \A a \in Agents : \A s \in Clock :
    (status[a] = s) ~> (status[a] # s \/ IsAvailable(s))
===============================================================================
