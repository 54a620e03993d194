-------------------------------- MODULE CallLog --------------------------------
(***************************************************************************)
(* The files in which the daemon logs an agent's calls, one line a call,   *)
(* and their dispositions, which come later and from elsewhere:            *)
(* writeAgentLog (agent.h) appends a line when the agent hangs up, or when *)
(* she gives a disposition before that; writeDispo (dispo.h) ends the last *)
(* line with it, for the event of the agents' page and, in a process of    *)
(* its own, for astcrm's page (submitinfo.cpp) and for the telephone       *)
(* (dispo.cpp).                                                            *)
(*                                                                         *)
(* Agents models the clock in herStatus, when an agent is available and    *)
(* who is chosen: here she is Ready, and any ready agent may be chosen;    *)
(* the talk time, a difference of two readings, is left out.  The lists    *)
(* of agents and campaigns are fixed: an event of an agent unknown is      *)
(* ignored or kills the daemon, which is Restart.  A line is a record, and *)
(* its disposition the sequence of those written at its end.               *)
(***************************************************************************)
EXTENDS Integers, Sequences, FiniteSets

CONSTANTS
  Agents,       \* numbers of agents and closers
  Campaigns,    \* names of the campaigns
  Initialized,  \* "initialized", the campaign of an agent who had no call
  Leads,        \* lead ids
  NoLead,       \* "0", the lead of an agent who had no call
  EmptyLead,    \* "", what a scan of the channels may leave
  Dispos,       \* dispositions, as text
  Sale,         \* "12", the one that may hand the customer over
  Channels,     \* what /ari/channels may say of an agent's telephone
  Closer,       \* what astcrm finds as closercam of a campaign
  LastDay,      \* bound: days the files are written on
  Writers,      \* processes of astcrm and of the telephone's program
  MaxLines      \* bound: lines of all files

ASSUME LeadsAssumption == NoLead \notin Leads /\ EmptyLead \notin Leads
ASSUME CampaignsAssumption ==
  Initialized \notin Campaigns /\ Closer \in [Campaigns -> Campaigns \cup {Initialized}]
ASSUME ChannelsAssumption ==
  Channels \subseteq [kind : {"none", "bare", "idle"}, name : {<<>>}]
                       \cup [kind : {"talking", "both", "again"},
                             name : (Campaigns \X Leads) \cup {<<>>}]
ASSUME BoundsAssumption == LastDay \in Nat \ {0} /\ MaxLines \in Nat

VARIABLES
  today,   \* the local date, by the day's number
  agent,   \* herStatus, itsCampaign and itsLeadId of each agent
  file,    \* the lines of the file of each agent and campaign
  writer,  \* what a process found without disposition and is about to write to
  torn,    \* history: files written by another between its reading and writing
  call,    \* history: the agent's call, as long as all goes in order
  kept     \* history: the calls that went in order up to their disposition

logvars == <<today, agent, file, writer, torn, call, kept>>

Status == {"ready", "on call", "offline", "paused", "closeout"}

Names == Campaigns \cup {Initialized}
Files == Agents \X Names

-------------------------------------------------------------------------------
\* Slips the checks must catch: the comma not looked at; a disposition after
\* closeout that logs the call again.
HasNoDispoAlways(f) == f # <<>>
StillToLogAlways(g) == g.status # "paused"

\* agent.h ParseAgent and the setters of a status.
ParseAgent == [status |-> "offline", campaign |-> Initialized, lead |-> NoLead]
SetLoggedIn(g)   == [g EXCEPT !.status = "ready"]
SetOnWait(g)     == [g EXCEPT !.status = IF @ = "offline" THEN "offline" ELSE "ready"]
SetOnCall(g)     == [g EXCEPT !.status = "on call"]
SetOffline(g)    == [g EXCEPT !.status = "offline"]
SetOnPause(g)    == [g EXCEPT !.status = "paused"]
SetInCloseout(g) == [g EXCEPT !.status = "closeout"]

\* ParseAgentChannelStatus on the channels of an agent, two with both objects
\* at most ("both", "again"): on a name it did not know of the agent talks, on
\* none she waits again and has no lead.
Talks(g, name) ==
  IF g.status = "on call" THEN g
  ELSE [SetOnCall(g) EXCEPT
          !.lead = IF name = <<>> THEN @ ELSE name[2],
          !.campaign = IF name = <<>> THEN @ ELSE name[1]]
Idles(g) ==
  IF g.status \in {"offline", "on call"} THEN [SetLoggedIn(g) EXCEPT !.lead = EmptyLead] ELSE g

ParseAgentChannelStatus(g, ch) ==
  CASE ch.kind = "none"    -> SetOffline(g)
    [] ch.kind = "bare"    -> g
    [] ch.kind = "idle"    -> Idles(g)
    [] ch.kind = "talking" -> Talks(g, ch.name)
    [] ch.kind = "both"    -> Idles(Talks(g, ch.name))
    [] ch.kind = "again"   -> Talks(Idles(g), ch.name)

\* queue.h: the test of LeastRecent, and what the handler does to its choice.
IsAvailable(g) == g.status = "ready"
HandedOut(g, c, l) == SetOnWait([g EXCEPT !.campaign = c, !.lead = l])
-------------------------------------------------------------------------------
\* writeAgentLog's line, appended to the file of the agent's own campaign.
Line(g) == [lead |-> g.lead, date |-> today, dispo |-> <<>>]
writeAgentLog(f, a) == [f EXCEPT ![<<a, agent[a].campaign>>] = Append(@, Line(agent[a]))]

\* __writeDispo: what it reads is the comma that ends a line without one; what
\* it writes goes to the end of the file as it then is.
HasNoDispo(f) == f # <<>> /\ f[Len(f)].dispo = <<>>
WithDispo(line, d) == [line EXCEPT !.dispo = Append(@, d)]
Ended(f, d) == [f EXCEPT ![Len(f)] = WithDispo(@, d)]
writeDispo(f, d) == IF HasNoDispo(f) THEN Ended(f, d) ELSE f

Room == Cardinality(UNION {{k} \X (DOMAIN file[k]) : k \in Files}) < MaxLines

\* The dispositions that come by event and log the call themselves.
StillToLog(g) == g.status \notin {"closeout", "paused"}

\* A process between reading and writing.  Its seek to the end and its writing
\* are one step, and so is the daemon's own writeDispo: a file that two met at
\* is torn, and little is claimed of it.
Pending(k) == \E w \in Writers : writer[w] # <<>> /\ <<writer[w][1], writer[w][2]>> = k
Tears(ks) == torn' = torn \cup {k \in ks : Pending(k)}
-------------------------------------------------------------------------------
\* History.  A call is in order if, from hand-out to disposition, nothing is
\* said of the agent's status but that she talks, hung up or, before that, that
\* she is ready, and nobody else ends the call's line.
NoCall        == [campaign |-> Initialized, lead |-> NoLead, line |-> -1]
NewCall(c, l) == [campaign |-> c, lead |-> l, line |-> 0]

Hears(k, g, h) ==
  IF g = h \/ (k.line = 0 /\ h = [g EXCEPT !.status = h.status] /\ h.status # "paused")
  THEN k ELSE NoCall

Logged(k, n) == IF k.line = 0 THEN [k EXCEPT !.line = n] ELSE NoCall
-------------------------------------------------------------------------------
LogInit ==
  /\ today = 1
  /\ agent = [a \in Agents |-> ParseAgent]
  /\ file = [k \in Files |-> <<>>]
  /\ writer = [w \in Writers |-> <<>>]
  /\ torn = {}
  /\ call = [a \in Agents |-> NoCall]
  /\ kept = <<>>

NewDay ==
  /\ today < LastDay
  /\ today' = today + 1
  /\ UNCHANGED <<agent, file, writer, torn, call, kept>>

\* The daemon is killed and starts again, with the agents as ParseAgent leaves
\* them; the scans follow as Refresh, and the rows of the bridges set a status
\* as the events do.
Restart ==
  /\ agent' = [a \in Agents |-> ParseAgent]
  /\ call' = [a \in Agents |-> NoCall]
  /\ UNCHANGED <<today, file, writer, torn, kept>>

\* The events that set a status and nothing else.
Hear(a, g) ==
  /\ agent' = [agent EXCEPT ![a] = g]
  /\ call' = [call EXCEPT ![a] = Hears(@, agent[a], g)]
  /\ UNCHANGED <<today, file, writer, torn, kept>>

AgentLogin(a)   == Hear(a, SetLoggedIn(agent[a]))
AgentLogoff(a)  == Hear(a, SetOffline(agent[a]))
AgentPause(a)   == Hear(a, SetOnPause(agent[a]))
AgentUnPause(a) == Hear(a, SetOnWait(agent[a]))

\* Link and the user event SetOnCall.
UserSetOnCall(a) == Hear(a, SetOnCall(agent[a]))

\* ParseAgentList: the scan of the channels, all agents at once.
Refresh ==
  \E ch \in [Agents -> Channels] :
    /\ agent' = [a \in Agents |-> ParseAgentChannelStatus(agent[a], ch[a])]
    /\ call' = [a \in Agents |-> Hears(call[a], agent[a], agent'[a])]
    /\ UNCHANGED <<today, file, writer, torn, kept>>

\* UserEvent Queue: a customer picked up, and an agent is chosen.
UserQueue(a, c, l) ==
  /\ IsAvailable(agent[a])
  /\ agent' = [agent EXCEPT ![a] = HandedOut(@, c, l)]
  /\ call' = [call EXCEPT ![a] = NewCall(c, l)]
  /\ UNCHANGED <<today, file, writer, torn, kept>>

\* CRM_CallHangup.
CallHangup(a) ==
  LET k == <<a, agent[a].campaign>> IN
  /\ agent[a].status # "closeout"
  /\ Room
  /\ file' = writeAgentLog(file, a)
  /\ Tears({k})
  /\ agent' = [agent EXCEPT ![a] = SetInCloseout(SetOnWait(@))]
  /\ call' = [call EXCEPT ![a] = Logged(@, Len(file[k]) + 1)]
  /\ UNCHANGED <<today, writer, kept>>

\* UserEventDispo of campaign c, lead l and disposition d; a sale may hand the
\* customer to a closer b.
DispoFile(a, c, d) ==
  LET f == IF StillToLog(agent[a]) THEN writeAgentLog(file, a) ELSE file
  IN [f EXCEPT ![<<a, c>>] = writeDispo(@, d)]

DispoKept(a, c, l, d) ==
  IF call[a].line < 0 \/ call[a].campaign # c \/ call[a].lead # l THEN kept
  ELSE LET n == Len(file[<<a, c>>]) + 1
           k == IF call[a].line = 0 THEN Logged(call[a], n) ELSE call[a]
       IN Append(kept, [agent |-> a, campaign |-> c, lead |-> l, dispo |-> d,
                        line |-> k.line])

UserEventDispo(a, c, l, d) ==
  LET g == [agent EXCEPT ![a] = SetOnWait(@)]
      k == [call EXCEPT ![a] = NoCall]
  IN  /\ StillToLog(agent[a]) => Room
      /\ file' = DispoFile(a, c, d)
      /\ Tears({x \in Files : file'[x] # file[x]})
      /\ kept' = DispoKept(a, c, l, d)
      /\ \/ agent' = g /\ call' = k
         \/ \E b \in Agents :
              /\ d = Sale
              /\ IsAvailable(g[b])
              /\ agent' = [g EXCEPT ![b] = HandedOut(@, c, l)]
              /\ call' = [k EXCEPT ![b] = NewCall(c, l)]
      /\ UNCHANGED <<today, writer>>

\* submitinfo.cpp, and dispo.cpp: the file is that of the campaign or, on the
\* closers' page, of its closercam.
cam2closer(c) == Closer[c]

WriterReads(w, a, c, d) ==
  /\ writer[w] = <<>>
  /\ HasNoDispo(file[<<a, c>>])
  /\ writer' = [writer EXCEPT ![w] = <<a, c, d>>]
  /\ UNCHANGED <<today, agent, file, torn, call, kept>>

WriterWrites(w) ==
  /\ writer[w] # <<>>
  /\ LET a == writer[w][1]
         k == <<a, writer[w][2]>>
     IN  /\ file' = [file EXCEPT ![k] = Ended(@, writer[w][3])]
         /\ torn' = IF \E v \in Writers \ {w} : writer[v] # <<>> /\ <<writer[v][1], writer[v][2]>> = k
                    THEN torn \cup {k} ELSE torn
         /\ call' = [call EXCEPT ![a] = IF @.campaign = k[2] /\ @.line > 0 THEN NoCall ELSE @]
  /\ writer' = [writer EXCEPT ![w] = <<>>]
  /\ UNCHANGED <<today, agent, kept>>

AgentEvent(a) ==
  \/ AgentLogin(a) \/ AgentLogoff(a) \/ AgentPause(a) \/ AgentUnPause(a)
  \/ UserSetOnCall(a) \/ CallHangup(a)
  \/ \E c \in Campaigns, l \in Leads :
       UserQueue(a, c, l) \/ \E d \in Dispos : UserEventDispo(a, c, l, d)

WriterStep(w) ==
  \/ \E a \in Agents, c \in Campaigns, d \in Dispos :
       WriterReads(w, a, c, d) \/ (cam2closer(c) \in Campaigns /\ WriterReads(w, a, cam2closer(c), d))
  \/ WriterWrites(w)

LogNext ==
  \/ NewDay \/ Restart \/ Refresh
  \/ \E a \in Agents : AgentEvent(a)
  \/ \E w \in Writers : WriterStep(w)

LogSpec == LogInit /\ [][LogNext]_logvars
-------------------------------------------------------------------------------
LeadIds   == Leads \cup {NoLead, EmptyLead}
AgentType == [status : Status, campaign : Names, lead : LeadIds]
LineType  == [lead : LeadIds, date : 1 .. LastDay, dispo : Seq(Dispos)]
CallType  == [campaign : Names, lead : LeadIds, line : Int]
KeptType  == [agent : Agents, campaign : Campaigns, lead : Leads, dispo : Dispos, line : Nat]

TypeOK ==
  /\ today \in 1 .. LastDay
  /\ agent \in [Agents -> AgentType]
  /\ file \in [Files -> Seq(LineType)]
  /\ writer \in [Writers -> {<<>>} \cup (Agents \X Campaigns \X Dispos)]
  /\ torn \in SUBSET Files
  /\ call \in [Agents -> CallType]
  /\ kept \in Seq(KeptType)

\* A call whose events come in order has a line of its own, which says its lead
\* and its disposition: over hang-ups before and after the disposition, scans,
\* other agents' calls, the calls of other campaigns, restarts, and the other
\* programs that write to the files.
OrderlyCallsAreKept ==
  \A i \in DOMAIN kept :
    LET k == kept[i]
        f == file[<<k.agent, k.campaign>>]
    IN  /\ k.line \in DOMAIN f
        /\ <<k.agent, k.campaign>> \notin torn =>
             /\ f[k.line].lead = k.lead
             /\ f[k.line].dispo = <<k.dispo>>
        /\ \A j \in DOMAIN kept \ {i} :
             kept[j].agent = k.agent /\ kept[j].campaign = k.campaign => kept[j].line # k.line

\* Nothing that is in a file goes or changes, except that its last line gets a
\* disposition, and never a second one unless two programs met at the file.
Stays(f, g, met) ==
  \A n \in DOMAIN f :
    /\ n \in DOMAIN g
    /\ g[n] = [f[n] EXCEPT !.dispo = g[n].dispo]
    /\ g[n] # f[n] => n = Len(f) /\ (f[n].dispo = <<>> \/ met)

LinesStay == [][\A k \in Files : Stays(file[k], file'[k], k \in torn')]_logvars
===============================================================================
