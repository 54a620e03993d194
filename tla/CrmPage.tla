------------------------------- MODULE CrmPage -------------------------------
(***************************************************************************)
(* The page an agent works on (pages/crm/index.vue): what its buttons, the *)
(* events of Asterisk's websocket and the answers to its own requests do   *)
(* to the few refs its handlers share.  A handler runs up to its await,    *)
(* and its rest when the answer is there, in whatever order answers come.  *)
(*                                                                         *)
(* What the API and the daemon do with a request is Leads and Agents; here *)
(* it is served or fails, and makes the agent ready.  Left out: hold and   *)
(* three way calls, whose refs no other handler reads, and the hangup of   *)
(* the customer, whose answer changes nothing.                             *)
(***************************************************************************)
EXTENDS Naturals

CONSTANTS
  Campaigns,
  Queues,       \* the campaigns she may log in to
  Customers,    \* leads: [campaign, id]
  None,
  MaxCalls      \* bound on the calls to the agent

ASSUME PageAssumption ==
  /\ \A l \in Customers : l.campaign \in Campaigns
  /\ Queues \subseteq Campaigns
  /\ None \notin Campaigns /\ None \notin Customers
  /\ MaxCalls \in Nat

VARIABLES
  page,      \* the refs
  asked,     \* requests sent and not yet answered
  ready,     \* the daemon may give her a customer
  given,     \* how many it gave her
  of,        \* history: the lead of the last call
  searched,  \* history: leads she looked for since
  late       \* history: a lead asked for before that call had not come yet

pagevars == <<page, asked, ready, given, of, searched, late>>

Buttons == {"callback", "other"}

\* told: the daemon has heard of it.
Request(kind) ==
  [kind |-> kind, campaign |-> None, lead |-> None, dispo |-> "other", pause |-> FALSE, told |-> FALSE]
GetLead(l) == [Request("lead") EXCEPT !.campaign = l.campaign, !.lead = l]
GetStatus == Request("status")
SetOnWait == Request("wait")
SetPause(pause) == [Request("pause") EXCEPT !.pause = pause]
\* The form holds a copy of the lead and hands it on when there is one.
Save(p) ==
  IF p.lead = None THEN {}
  ELSE {[Request("save") EXCEPT !.campaign = p.leadCampaign, !.lead = p.lead, !.dispo = p.dispo]}
Dispo(p) == [Request("dispo") EXCEPT !.campaign = p.queue, !.lead = p.lead, !.dispo = p.dispo]

\* What a handler leaves: the refs, and the requests it sends.
Handled(p, requests) == page' = p /\ asked' = asked \cup requests

\* Bounds: she clicks when her other requests have been answered, but gives a
\* disposition also while leads are asked for.
Quiet == asked = {}
MayDispose == \A r \in asked : r.kind = "lead"

PageInit ==
  /\ page = [queue |-> None, running |-> FALSE, startable |-> FALSE, channel |-> FALSE,
             lead |-> None, leadCampaign |-> None, enabled |-> FALSE, dispo |-> "other",
             date |-> FALSE, modal |-> FALSE, pauseAfterCall |-> FALSE]
  /\ asked = {}
  /\ ready = FALSE
  /\ given = 0
  /\ of = None
  /\ searched = {}
  /\ late = FALSE
-----------------------------------------------------------------------------
(* The agent *)

\* handleSelectQueue, and the event that she was added to a queue.
SelectQueue(q) ==
  /\ Quiet /\ ~ page.modal
  /\ Handled([page EXCEPT !.queue = q, !.startable = FALSE], {GetStatus})
  /\ UNCHANGED <<ready, given, of, searched, late>>

togglePause ==
  /\ Quiet /\ ~ page.modal /\ page.queue # None /\ page.startable
  /\ Handled(page, {SetPause(page.running)})
  /\ UNCHANGED <<ready, given, of, searched, late>>

handleSearch(l) ==
  /\ Quiet /\ ~ page.modal /\ ~ page.running /\ page.queue = l.campaign
  /\ Handled(page, {[GetLead(l) EXCEPT !.kind = "search"]})
  /\ searched' = searched \cup {l}
  /\ UNCHANGED <<ready, given, of, late>>

handleDisposition(d) ==
  /\ MayDispose /\ ~ page.modal /\ page.enabled
  /\ LET p == [page EXCEPT !.dispo = d] IN
     IF d = "callback" /\ ~ page.date
     THEN Handled([p EXCEPT !.modal = TRUE], {})
     ELSE Handled(p, Save(p) \cup {Dispo(p)}
                     \cup (IF p.pauseAfterCall THEN {SetPause(page.running)} ELSE {SetOnWait}))
  /\ UNCHANGED <<ready, given, of, searched, late>>

\* The dialog for the date of a callback.
PickDate ==
  /\ page.modal
  /\ Handled([page EXCEPT !.date = TRUE], {})
  /\ UNCHANGED <<ready, given, of, searched, late>>
handleCBDateSelected ==
  /\ page.modal /\ page.date
  /\ Handled([page EXCEPT !.modal = FALSE], Save(page))
  /\ UNCHANGED <<ready, given, of, searched, late>>
CancelDate ==
  /\ page.modal
  /\ Handled([page EXCEPT !.modal = FALSE], {})
  /\ UNCHANGED <<ready, given, of, searched, late>>
-----------------------------------------------------------------------------
(* Events of Asterisk *)

\* A slip the checks must catch: the form keeps the last lead until the next is there.
BringePeerOver(l) == Handled([page EXCEPT !.channel = TRUE, !.enabled = TRUE], {GetLead(l)})

\* onBringePeer and getLead, up to its await.
BringePeer(l) ==
  Handled([page EXCEPT !.channel = TRUE, !.enabled = TRUE, !.lead = None], {GetLead(l)})

\* A customer is given to her; then again, after a hold.
Bridged(l) ==
  /\ ready /\ given < MaxCalls
  /\ BringePeer(l)
  /\ ready' = FALSE
  /\ given' = given + 1
  /\ of' = l
  /\ searched' = {}
  /\ late' = \E r \in asked : r.kind \in {"lead", "search"}
BridgedAgain ==
  /\ Quiet /\ page.channel
  /\ BringePeer(of)
  /\ UNCHANGED <<ready, given, of, searched, late>>

\* Her telephone's channel ends.
ChannelDestroyed ==
  /\ Handled([page EXCEPT !.queue = None, !.running = FALSE], {})
  /\ UNCHANGED <<ready, given, of, searched, late>>
-----------------------------------------------------------------------------
(* Requests *)

\* The daemon hears of what the API has told Asterisk, if it is there to hear it.
Told(r) ==
  /\ r.kind \in {"wait", "dispo"} /\ ~ r.told
  /\ ready' = TRUE
  /\ asked' = (asked \ {r}) \cup (IF r.kind = "dispo" THEN {[r EXCEPT !.told = TRUE]} ELSE {})
  /\ UNCHANGED <<page, given, of, searched, late>>

Answered(r, p, requests) == page' = p /\ asked' = (asked \ {r}) \cup requests

\* A row that is not there comes as null.
LeadComes(r) ==
  /\ r.kind \in {"lead", "search"}
  /\ \E found \in {r.lead, None} :
       Answered(r, [page EXCEPT !.lead = found, !.leadCampaign = r.campaign], {})

Saved(r) ==
  /\ r.kind = "save"
  /\ Answered(r, [page EXCEPT !.date = FALSE, !.lead = None, !.enabled = FALSE], {})
NotSaved(r) ==
  /\ r.kind = "save"
  /\ Answered(r, [page EXCEPT !.date = FALSE], {})

DispoAnswered(r) ==
  /\ r.kind = "dispo"
  /\ Answered(r, [page EXCEPT !.channel = FALSE], {})

\* The pause read back is that of whoever was paused first while the API listened.
PauseAnswered(r) ==
  /\ r.kind = "pause"
  /\ \E Paused, InUse \in BOOLEAN :
       Answered(r, [page EXCEPT !.running = IF InUse THEN ~ Paused ELSE @, !.pauseAfterCall = Paused],
                IF Paused THEN {} ELSE {SetOnWait})

StatusAnswered(r) ==
  /\ r.kind = "status"
  /\ \E active \in BOOLEAN : Answered(r, [page EXCEPT !.running = active, !.startable = TRUE], {})

\* An error is shown and that is all: the API has failed, before or after it
\* told anyone, or read no pause within its ten seconds.
Refused(r) == r.kind # "save" /\ Answered(r, page, {})

AnswerTo(r) ==
  /\ LeadComes(r) \/ Saved(r) \/ NotSaved(r) \/ DispoAnswered(r) \/ PauseAnswered(r) \/ StatusAnswered(r) \/ Refused(r)
  /\ UNCHANGED <<ready, given, of, searched, late>>

PageNext ==
  \/ \E q \in Queues : SelectQueue(q)
  \/ \E l \in Customers : handleSearch(l) \/ Bridged(l)
  \/ \E d \in Buttons : handleDisposition(d)
  \/ togglePause \/ PickDate \/ handleCBDateSelected \/ CancelDate
  \/ BridgedAgain \/ ChannelDestroyed
  \/ \E r \in asked : Told(r) \/ AnswerTo(r)

PageSpec == PageInit /\ [][PageNext]_pagevars
-----------------------------------------------------------------------------
\* A disposition is saved for the lead of the call, or for one the agent looked
\* for during it, in the campaign that lead was read from, and the daemon is told
\* of the same lead and disposition: whatever fails, whatever she clicks before an
\* answer is there, and in whatever order answers come.  The campaign it is told
\* is not the lead's but the one she is logged in to then (none, when her
\* telephone is gone), to which the daemon counts the disposition.  The exception
\* is an answer that brings a lead when already the next call is there; that is
\* what the page is exposed to.
SavesItsLead ==
  [][ \A r \in asked' \ asked : r.kind = "save" =>
        /\ r.campaign = r.lead.campaign
        /\ late \/ r.lead \in searched \cup {of}
        /\ \A told \in asked' \ asked : told.kind = "dispo" /\ ~ told.told =>
             told.lead = r.lead /\ told.dispo = r.dispo /\ told.campaign = page.queue ]_pagevars
==============================================================================
