---------------------------- MODULE CallLogProofs ----------------------------
(***************************************************************************)
(* Theorems about CallLog: of any number of agents, campaigns, programs    *)
(* and lines, a call in order keeps its line and its disposition, and      *)
(* nothing in a file changes otherwise.                                    *)
(***************************************************************************)
EXTENDS CallLog, TLAPS

\* A program that found a last line without disposition still finds it so,
\* unless another wrote to the file meanwhile.
WriterInv ==
  \A w \in Writers : writer[w] # <<>> =>
    LET k == <<writer[w][1], writer[w][2]>> IN
      /\ file[k] # <<>>
      /\ k \notin torn => HasNoDispo(file[k])

\* The line of a call disposed in order, in its file f; met says that two
\* programs met there.
Keeps(k, f, met) ==
  /\ k.line \in DOMAIN f
  /\ ~met => f[k.line].lead = k.lead /\ f[k.line].dispo = <<k.dispo>>
KeptInv ==
  \A i \in DOMAIN kept :
    LET k == <<kept[i].agent, kept[i].campaign>> IN Keeps(kept[i], file[k], k \in torn)

\* They were logged in the order they were disposed in.
Follows(k, h) == k.agent = h.agent /\ k.campaign = h.campaign => k.line < h.line
OrderInv == \A i, j \in DOMAIN kept : i < j => Follows(kept[i], kept[j])

\* An agent's call in order is the one she is said to have; its line is still
\* to be logged, or is the last of its file and without disposition.
Current(a) ==
  LET k == call[a]
      f == file[<<a, k.campaign>>]
  IN  /\ k.line >= 0 =>
           k.campaign \in Campaigns /\ agent[a].campaign = k.campaign /\ agent[a].lead = k.lead
      /\ k.line = 0 => StillToLog(agent[a])
      /\ k.line > 0 =>
           /\ agent[a].status = "closeout"
           /\ k.line = Len(f)
           /\ f[k.line].lead = k.lead /\ f[k.line].dispo = <<>>
           /\ \A i \in DOMAIN kept :
                kept[i].agent = a /\ kept[i].campaign = k.campaign => kept[i].line < k.line
CallInv == \A a \in Agents : Current(a)

LogInv == TypeOK /\ WriterInv /\ KeptInv /\ OrderInv /\ CallInv

\* What a step may do to the lines.
Held == \A k \in Files : Stays(file[k], file'[k], k \in torn')
-----------------------------------------------------------------------------
\* The setters of a status.
LEMMA Setters ==
  ASSUME NEW g \in AgentType
  PROVE  /\ SetLoggedIn(g) \in AgentType /\ SetOnWait(g) \in AgentType
         /\ SetOnCall(g) \in AgentType /\ SetOffline(g) \in AgentType
         /\ SetOnPause(g) \in AgentType /\ SetInCloseout(g) \in AgentType
         /\ SetLoggedIn(g).status = "ready" /\ SetOnCall(g).status = "on call"
         /\ SetOffline(g).status = "offline" /\ SetOnPause(g).status = "paused"
         /\ SetInCloseout(g).status = "closeout"
         /\ SetOnWait(g).status \in {"offline", "ready"}
BY DEF AgentType, Status, SetLoggedIn, SetOnWait, SetOnCall, SetOffline, SetOnPause, SetInCloseout

\* A scan leaves nobody in closeout who was not.
LEMMA ScanIsTyped ==
  ASSUME NEW g \in AgentType, NEW ch \in Channels
  PROVE  /\ ParseAgentChannelStatus(g, ch) \in AgentType
         /\ ParseAgentChannelStatus(g, ch) = g \/ ParseAgentChannelStatus(g, ch).status # "closeout"
<1>1. ASSUME NEW h \in AgentType
      PROVE  Idles(h) \in AgentType /\ (Idles(h) = h \/ Idles(h).status = "ready")
  BY <1>1 DEF Idles, SetLoggedIn, AgentType, Status, LeadIds
<1>2. ASSUME NEW h \in AgentType, NEW name, name = <<>> \/ name \in Campaigns \X Leads
      PROVE  Talks(h, name) \in AgentType /\ Talks(h, name).status = "on call"
  <2>1. CASE name = <<>>
    BY <1>2, <2>1 DEF Talks, SetOnCall, AgentType, Status
  <2>2. CASE name \in Campaigns \X Leads /\ name # <<>>
    BY <1>2, <2>2 DEF Talks, SetOnCall, AgentType, Status, LeadIds, Names
  <2>3. QED
    BY <1>2, <2>1, <2>2
<1>3. CASE ch.kind \in {"none", "bare", "idle"}
  BY <1>1, <1>3, Setters DEF ParseAgentChannelStatus
<1>4. CASE ch.kind \in {"talking", "both", "again"}
  <2>1. ch.name = <<>> \/ ch.name \in Campaigns \X Leads
    BY <1>4, ChannelsAssumption
  <2>2. Talks(g, ch.name) \in AgentType /\ Talks(g, ch.name).status = "on call"
    BY <1>2, <2>1
  <2>3. Talks(Idles(g), ch.name) \in AgentType /\ Talks(Idles(g), ch.name).status = "on call"
    BY <1>1, <1>2, <2>1
  <2>4. Idles(Talks(g, ch.name)) \in AgentType /\ Idles(Talks(g, ch.name)).status \in {"on call", "ready"}
    BY <1>1, <2>2
  <2>5. QED
    BY <1>4, <2>2, <2>3, <2>4 DEF ParseAgentChannelStatus
<1>5. ch.kind \in {"none", "bare", "idle", "talking", "both", "again"}
  BY ChannelsAssumption
<1>6. QED
  BY <1>3, <1>4, <1>5

\* A line at the end, and a disposition at the end of the last.
LEMMA Appends ==
  ASSUME NEW f \in Seq(LineType), NEW l \in LineType
  PROVE  /\ Append(f, l) \in Seq(LineType)
         /\ Append(f, l) # <<>> /\ Len(Append(f, l)) = Len(f) + 1
         /\ Append(f, l)[Len(f) + 1] = l
         /\ \A n \in 1 .. Len(f) : Append(f, l)[n] = f[n]
         /\ \A met : Stays(f, Append(f, l), met)
<1>1. /\ Append(f, l) \in Seq(LineType)
      /\ Append(f, l) # <<>> /\ Len(Append(f, l)) = Len(f) + 1
      /\ Append(f, l)[Len(f) + 1] = l
      /\ \A n \in 1 .. Len(f) : Append(f, l)[n] = f[n]
  OBVIOUS
<1>2. ASSUME NEW met, NEW n \in DOMAIN f
      PROVE  /\ n \in DOMAIN Append(f, l)
             /\ Append(f, l)[n] = f[n]
             /\ f[n] = [f[n] EXCEPT !.dispo = f[n].dispo]
  <2>1. n \in 1 .. Len(f) /\ f[n] \in LineType
    OBVIOUS
  <2>2. f[n] = [f[n] EXCEPT !.dispo = f[n].dispo]
    BY <2>1 DEF LineType
  <2>3. QED
    BY <2>1, <2>2, <1>1
<1>3. QED
  BY <1>1, <1>2 DEF Stays

LEMMA EndedIsTyped ==
  ASSUME NEW f \in Seq(LineType), f # <<>>, NEW d \in Dispos
  PROVE  /\ Ended(f, d) \in Seq(LineType)
         /\ Ended(f, d) # <<>> /\ Len(Ended(f, d)) = Len(f)
         /\ Ended(f, d)[Len(f)].lead = f[Len(f)].lead
         /\ Ended(f, d)[Len(f)].dispo = Append(f[Len(f)].dispo, d)
         /\ \A n \in 1 .. (Len(f) - 1) : Ended(f, d)[n] = f[n]
         /\ \A met : f[Len(f)].dispo = <<>> \/ met => Stays(f, Ended(f, d), met)
<1> DEFINE m == Len(f)
           line == WithDispo(f[m], d)
<1>1. m \in Nat /\ m >= 1 /\ f[m] \in LineType
  OBVIOUS
<1>2. /\ line \in LineType /\ line.lead = f[m].lead /\ line.dispo = Append(f[m].dispo, d)
      /\ line = [f[m] EXCEPT !.dispo = line.dispo]
  <2>1. f[m].dispo \in Seq(Dispos) /\ Append(f[m].dispo, d) \in Seq(Dispos)
    BY <1>1 DEF LineType
  <2> DEFINE ds == Append(f[m].dispo, d)
  <2>2. ds \in Seq(Dispos)
    BY <2>1
  <2>3. line = [f[m] EXCEPT !.dispo = ds]
    BY DEF WithDispo
  <2> HIDE DEF ds, line
  <2>4. line \in LineType /\ line.lead = f[m].lead /\ line.dispo = ds
    BY <1>1, <2>2, <2>3 DEF LineType
  <2>5. QED
    BY <2>3, <2>4 DEF ds
<1> HIDE DEF line
<1>3. Ended(f, d) = [f EXCEPT ![m] = line]
  BY DEF Ended, line
<1>4. /\ Ended(f, d) \in Seq(LineType) /\ Len(Ended(f, d)) = m /\ DOMAIN Ended(f, d) = 1 .. m
      /\ Ended(f, d)[m] = line
      /\ \A n \in 1 .. m : n # m => Ended(f, d)[n] = f[n]
  BY <1>1, <1>2, <1>3
<1>5. Ended(f, d) # <<>>
  <2>1. \A g \in Seq(LineType) : Len(g) >= 1 => g # <<>>
    OBVIOUS
  <2>2. QED
    BY <1>1, <1>4, <2>1
<1>6. ASSUME NEW met, f[m].dispo = <<>> \/ met, NEW n \in DOMAIN f
      PROVE  /\ n \in DOMAIN Ended(f, d)
             /\ Ended(f, d)[n] = [f[n] EXCEPT !.dispo = Ended(f, d)[n].dispo]
             /\ Ended(f, d)[n] # f[n] => n = m /\ (f[n].dispo = <<>> \/ met)
  <2>1. n \in 1 .. m /\ f[n] \in LineType
    OBVIOUS
  <2>2. CASE n = m
    BY <1>2, <1>4, <1>6, <2>1, <2>2
  <2>3. CASE n # m
    <3>1. f[n] = [f[n] EXCEPT !.dispo = f[n].dispo]
      BY <2>1 DEF LineType
    <3>2. QED
      BY <1>4, <2>1, <2>3, <3>1
  <2>4. QED
    BY <2>2, <2>3
<1>7. \A met : f[m].dispo = <<>> \/ met => Stays(f, Ended(f, d), met)
  BY <1>6 DEF Stays
<1>8. QED
  BY <1>1, <1>2, <1>4, <1>5, <1>7
-----------------------------------------------------------------------------
LEMMA KeptStays ==
  ASSUME NEW f \in Seq(LineType), NEW g \in Seq(LineType), NEW met, NEW later,
         Stays(f, g, later), met => later,
         NEW h \in KeptType, Keeps(h, f, met)
  PROVE  Keeps(h, g, later)
<1>1. h.line \in DOMAIN g
  BY DEF Keeps, Stays
<1>2. ASSUME ~later
      PROVE  g[h.line].lead = h.lead /\ g[h.line].dispo = <<h.dispo>>
  <2>1. f[h.line].lead = h.lead /\ f[h.line].dispo = <<h.dispo>>
    BY <1>2 DEF Keeps
  <2>2. <<h.dispo>> # <<>>
    OBVIOUS
  <2>3. g[h.line] = f[h.line]
    BY <1>2, <2>1, <2>2 DEF Keeps, Stays
  <2>4. QED
    BY <2>1, <2>3
<1>3. QED
  BY <1>1, <1>2 DEF Keeps

\* The files and the calls kept, when only a disposition or a line came.
LEMMA FileStep ==
  ASSUME TypeOK, KeptInv, TypeOK', kept' = kept, torn \subseteq torn',
         \A k \in Files : Stays(file[k], file'[k], k \in torn')
  PROVE  KeptInv'
<1> SUFFICES ASSUME NEW i \in DOMAIN kept
             PROVE  LET k == <<kept[i].agent, kept[i].campaign>> IN
                    Keeps(kept[i], file'[k], k \in torn')
  BY DEF KeptInv
<1> DEFINE k == <<kept[i].agent, kept[i].campaign>>
<1>1. kept[i] \in KeptType
  BY DEF TypeOK
<1>2. k \in Files
  BY <1>1 DEF KeptType, Files, Names
<1>3. file[k] \in Seq(LineType) /\ file'[k] \in Seq(LineType)
  BY <1>2 DEF TypeOK
<1>4. Keeps(kept[i], file[k], k \in torn)
  BY DEF KeptInv
<1>5. Stays(file[k], file'[k], k \in torn') /\ (k \in torn => k \in torn')
  BY <1>2
<1> DEFINE f == file[k]
           g == file'[k]
           met == k \in torn
           later == k \in torn'
<1>6. /\ f \in Seq(LineType) /\ g \in Seq(LineType) /\ Stays(f, g, later)
      /\ (met => later) /\ Keeps(kept[i], f, met)
  BY <1>3, <1>4, <1>5
<1>7. Keeps(kept[i], g, later)
  <2> HIDE DEF f, g, met, later
  <2>1. QED
    BY <1>1, <1>6, KeptStays
<1>8. QED
  BY <1>7

LEMMA NoFileStep ==
  ASSUME LogInv, UNCHANGED <<file, writer, torn, kept>>
  PROVE  WriterInv' /\ KeptInv' /\ OrderInv'
BY DEF LogInv, WriterInv, KeptInv, OrderInv, Follows, HasNoDispo

LEMMA HearsIsCurrent ==
  ASSUME NEW a \in Agents, TypeOK, Current(a), NEW h \in AgentType,
         h = agent[a] \/ h.status # "closeout",
         agent'[a] = h, call'[a] = Hears(call[a], agent[a], h), UNCHANGED <<file, kept>>
  PROVE  Current(a)' /\ call'[a] \in CallType
<1>1. agent[a] \in AgentType /\ call[a] \in CallType
  BY DEF TypeOK
<1>2. CASE h = agent[a]
  BY <1>1, <1>2 DEF Hears, Current
<1>3. CASE /\ h # agent[a] /\ call[a].line = 0 /\ h = [agent[a] EXCEPT !.status = h.status]
           /\ h.status # "paused"
  <2>1. call'[a] = call[a]
    BY <1>3 DEF Hears
  <2>2. h.campaign = agent[a].campaign /\ h.lead = agent[a].lead
    BY <1>1, <1>3 DEF AgentType
  <2>3. StillToLog(h)
    BY <1>3 DEF StillToLog
  <2>4. QED
    BY <1>1, <1>3, <2>1, <2>2, <2>3 DEF Current
<1>4. CASE /\ h # agent[a]
           /\ ~(call[a].line = 0 /\ h = [agent[a] EXCEPT !.status = h.status] /\ h.status # "paused")
  <2>1. call'[a] = NoCall
    BY <1>4 DEF Hears
  <2>2. NoCall.line = -1 /\ NoCall \in CallType
    BY DEF NoCall, CallType, Names, LeadIds
  <2>3. QED
    BY <2>1, <2>2 DEF Current
<1>5. QED
  BY <1>2, <1>3, <1>4

LEMMA NoneIsCurrent ==
  ASSUME NEW a \in Agents, call'[a] = NoCall
  PROVE  Current(a)' /\ call'[a] \in CallType
<1>1. NoCall.line = -1 /\ NoCall \in CallType
  BY DEF NoCall, CallType, Names, LeadIds
<1>2. QED
  BY <1>1 DEF Current

LEMMA NewIsCurrent ==
  ASSUME NEW a \in Agents, NEW g \in AgentType, IsAvailable(g), NEW c \in Campaigns, NEW l \in Leads,
         agent'[a] = HandedOut(g, c, l), call'[a] = NewCall(c, l)
  PROVE  Current(a)' /\ call'[a] \in CallType /\ agent'[a] \in AgentType
<1>1. agent'[a] \in AgentType /\ agent'[a].status = "ready"
      /\ agent'[a].campaign = c /\ agent'[a].lead = l
  BY DEF HandedOut, SetOnWait, IsAvailable, AgentType, Status, LeadIds, Names
<1>2. call'[a] \in CallType /\ call'[a].line = 0 /\ call'[a].campaign = c /\ call'[a].lead = l
  BY DEF NewCall, CallType, Names, LeadIds
<1>3. StillToLog(agent'[a])
  BY <1>1 DEF StillToLog
<1>4. QED
  BY <1>1, <1>2, <1>3 DEF Current

\* The call of an agent to whose file nothing happens.
LEMMA OthersAreCurrent ==
  ASSUME NEW a \in Agents, Current(a), TypeOK, agent'[a] = agent[a], call'[a] = call[a],
         \A c \in Campaigns : file'[<<a, c>>] = file[<<a, c>>],
         \A i \in DOMAIN kept' : kept'[i].agent = a =>
            i \in DOMAIN kept /\ kept'[i] = kept[i]
  PROVE  Current(a)' /\ call'[a] \in CallType
<1>1. call[a] \in CallType
  BY DEF TypeOK
<1>2. call[a].line > 0 => call[a].line >= 0
  BY <1>1 DEF CallType
<1>3. QED
  BY <1>1, <1>2 DEF Current
-----------------------------------------------------------------------------
LEMMA NewDayStep == ASSUME LogInv, NewDay PROVE LogInv'
<1>1. today' \in 1 .. LastDay
  BY BoundsAssumption DEF NewDay, LogInv, TypeOK
<1>2. UNCHANGED <<agent, file, writer, torn, call, kept>>
  BY DEF NewDay
<1>3. TypeOK'
  BY <1>1, <1>2 DEF LogInv, TypeOK
<1>4. WriterInv' /\ KeptInv' /\ OrderInv'
  BY <1>2, NoFileStep
<1>5. CallInv'
  BY <1>2 DEF LogInv, CallInv, Current
<1>6. QED
  BY <1>3, <1>4, <1>5 DEF LogInv

LEMMA RestartStep == ASSUME LogInv, Restart PROVE LogInv'
<1>1. UNCHANGED <<today, file, writer, torn, kept>>
  BY DEF Restart
<1>2. \A a \in Agents : Current(a)' /\ call'[a] \in CallType
  BY NoneIsCurrent DEF Restart
<1>3. ParseAgent \in AgentType
  BY DEF ParseAgent, AgentType, Status, Names, LeadIds
<1>4. agent' \in [Agents -> AgentType] /\ call' \in [Agents -> CallType]
  BY <1>2, <1>3 DEF Restart
<1>5. TypeOK'
  BY <1>1, <1>4 DEF LogInv, TypeOK
<1>6. WriterInv' /\ KeptInv' /\ OrderInv'
  BY <1>1, NoFileStep
<1>7. QED
  BY <1>2, <1>5, <1>6 DEF LogInv, CallInv

LEMMA HearStep ==
  ASSUME LogInv, NEW a \in Agents, NEW g \in AgentType, g.status # "closeout", Hear(a, g)
  PROVE  LogInv'
<1>1. UNCHANGED <<today, file, writer, torn, kept>>
  BY DEF Hear
<1>2. /\ agent'[a] = g /\ call'[a] = Hears(call[a], agent[a], g)
      /\ \A b \in Agents \ {a} : agent'[b] = agent[b] /\ call'[b] = call[b]
  BY DEF Hear, LogInv, TypeOK
<1>3. Current(a)' /\ call'[a] \in CallType
  BY <1>1, <1>2, HearsIsCurrent DEF LogInv, CallInv
<1>4. ASSUME NEW b \in Agents \ {a}
      PROVE  Current(b)' /\ call'[b] \in CallType
  BY <1>1, <1>2, OthersAreCurrent DEF LogInv, CallInv
<1>5. agent' \in [Agents -> AgentType] /\ call' \in [Agents -> CallType]
  BY <1>3, <1>4 DEF Hear, LogInv, TypeOK
<1>6. TypeOK'
  BY <1>1, <1>5 DEF LogInv, TypeOK
<1>7. WriterInv' /\ KeptInv' /\ OrderInv'
  BY <1>1, NoFileStep
<1>8. CallInv'
  BY <1>3, <1>4 DEF CallInv
<1>9. QED
  BY <1>6, <1>7, <1>8 DEF LogInv

LEMMA RefreshStep == ASSUME LogInv, Refresh PROVE LogInv'
<1>1. UNCHANGED <<today, file, writer, torn, kept>>
  BY DEF Refresh
<1>2. PICK ch \in [Agents -> Channels] :
        /\ agent' = [a \in Agents |-> ParseAgentChannelStatus(agent[a], ch[a])]
        /\ call' = [a \in Agents |-> Hears(call[a], agent[a], agent'[a])]
  BY DEF Refresh
<1>3. ASSUME NEW a \in Agents
      PROVE  Current(a)' /\ call'[a] \in CallType /\ agent'[a] \in AgentType
  <2> DEFINE h == agent'[a]
  <2>1. agent[a] \in AgentType /\ ch[a] \in Channels
    BY DEF LogInv, TypeOK
  <2>2. h = ParseAgentChannelStatus(agent[a], ch[a])
    BY <1>2
  <2>3. h \in AgentType /\ (h = agent[a] \/ h.status # "closeout")
    BY <2>1, <2>2, ScanIsTyped
  <2>4. call'[a] = Hears(call[a], agent[a], h)
    BY <1>2
  <2>5. agent'[a] = h
    OBVIOUS
  <2> HIDE DEF h
  <2>6. Current(a)' /\ call'[a] \in CallType
    BY <1>1, <2>3, <2>4, <2>5, HearsIsCurrent DEF LogInv, CallInv
  <2>7. QED
    BY <2>3, <2>5, <2>6
<1>4. agent' \in [Agents -> AgentType] /\ call' \in [Agents -> CallType]
  BY <1>2, <1>3
<1>5. TypeOK'
  BY <1>1, <1>4 DEF LogInv, TypeOK
<1>6. WriterInv' /\ KeptInv' /\ OrderInv'
  BY <1>1, NoFileStep
<1>7. QED
  BY <1>3, <1>5, <1>6 DEF LogInv, CallInv

LEMMA QueueStep ==
  ASSUME LogInv, NEW a \in Agents, NEW c \in Campaigns, NEW l \in Leads, UserQueue(a, c, l)
  PROVE  LogInv'
<1>1. UNCHANGED <<today, file, writer, torn, kept>>
  BY DEF UserQueue
<1>2. /\ agent[a] \in AgentType /\ IsAvailable(agent[a])
      /\ agent'[a] = HandedOut(agent[a], c, l) /\ call'[a] = NewCall(c, l)
      /\ \A b \in Agents \ {a} : agent'[b] = agent[b] /\ call'[b] = call[b]
  BY DEF UserQueue, LogInv, TypeOK
<1>3. Current(a)' /\ call'[a] \in CallType /\ agent'[a] \in AgentType
  BY <1>2, NewIsCurrent
<1>4. ASSUME NEW b \in Agents \ {a}
      PROVE  Current(b)' /\ call'[b] \in CallType
  BY <1>1, <1>2, OthersAreCurrent DEF LogInv, CallInv
<1>5. agent' \in [Agents -> AgentType] /\ call' \in [Agents -> CallType]
  BY <1>3, <1>4 DEF UserQueue, LogInv, TypeOK
<1>6. TypeOK'
  BY <1>1, <1>5 DEF LogInv, TypeOK
<1>7. WriterInv' /\ KeptInv' /\ OrderInv'
  BY <1>1, NoFileStep
<1>8. CallInv'
  BY <1>3, <1>4 DEF CallInv
<1>9. QED
  BY <1>6, <1>7, <1>8 DEF LogInv

LEMMA ReadStep ==
  ASSUME LogInv, NEW w \in Writers, NEW a \in Agents, NEW c \in Campaigns, NEW d \in Dispos,
         WriterReads(w, a, c, d)
  PROVE  LogInv'
<1>1. UNCHANGED <<today, agent, file, torn, call, kept>> /\ HasNoDispo(file[<<a, c>>])
  BY DEF WriterReads
<1>2. /\ writer' \in [Writers -> {<<>>} \cup (Agents \X Campaigns \X Dispos)]
      /\ writer'[w] = <<a, c, d>> /\ \A v \in Writers \ {w} : writer'[v] = writer[v]
  BY DEF WriterReads, LogInv, TypeOK
<1>3. TypeOK'
  BY <1>1, <1>2 DEF LogInv, TypeOK
<1>4. ASSUME NEW v \in Writers, writer'[v] # <<>>
      PROVE  LET k == <<writer'[v][1], writer'[v][2]>> IN
               file[k] # <<>> /\ (k \notin torn => HasNoDispo(file[k]))
  <2>1. CASE v = w
    <3>1. writer'[v][1] = a /\ writer'[v][2] = c
      BY <1>2, <2>1
    <3>2. file[<<a, c>>] # <<>>
      BY <1>1 DEF HasNoDispo
    <3>3. QED
      BY <1>1, <3>1, <3>2
  <2>2. CASE v # w
    BY <1>2, <1>4, <2>2 DEF LogInv, WriterInv
  <2>3. QED
    BY <2>1, <2>2
<1>5. WriterInv'
  BY <1>1, <1>4 DEF WriterInv, HasNoDispo
<1>6. KeptInv' /\ OrderInv' /\ CallInv'
  BY <1>1 DEF LogInv, KeptInv, OrderInv, Follows, CallInv, Current
<1>7. QED
  BY <1>3, <1>5, <1>6 DEF LogInv
-----------------------------------------------------------------------------
LEMMA StaysSame ==
  ASSUME NEW f \in Seq(LineType), NEW met
  PROVE  Stays(f, f, met)
<1>1. ASSUME NEW n \in DOMAIN f
      PROVE  f[n] = [f[n] EXCEPT !.dispo = f[n].dispo]
  <2>1. f[n] \in LineType
    OBVIOUS
  <2>2. QED
    BY <2>1 DEF LineType
<1>2. QED
  BY <1>1 DEF Stays

\* A file that is written to while a program is about to is torn.
LEMMA WritersMeet ==
  ASSUME LogInv, writer' = writer, torn \subseteq torn',
         \A k \in Files : file'[k] # file[k] => file'[k] # <<>> /\ (Pending(k) => k \in torn')
  PROVE  WriterInv'
<1> SUFFICES ASSUME NEW w \in Writers, writer[w] # <<>>
             PROVE  LET k == <<writer[w][1], writer[w][2]>> IN
                      file'[k] # <<>> /\ (k \notin torn' => HasNoDispo(file'[k]))
  BY DEF WriterInv, HasNoDispo
<1> DEFINE k == <<writer[w][1], writer[w][2]>>
<1>1. writer[w] \in Agents \X Campaigns \X Dispos
  BY DEF LogInv, TypeOK
<1>2. k \in Files
  BY <1>1 DEF Files, Names
<1>3. Pending(k)
  BY DEF Pending
<1>4. file[k] # <<>> /\ (k \notin torn => HasNoDispo(file[k]))
  BY DEF LogInv, WriterInv
<1>5. QED
  BY <1>2, <1>3, <1>4

LEMMA LoggedIsCurrent ==
  ASSUME NEW a \in Agents, NEW n \in Nat, NEW c \in Campaigns,
         call'[a].line = n + 1, call'[a].campaign = c,
         agent'[a].campaign = c, agent'[a].lead = call'[a].lead, agent'[a].status = "closeout",
         Len(file'[<<a, c>>]) = n + 1,
         file'[<<a, c>>][n + 1].lead = call'[a].lead, file'[<<a, c>>][n + 1].dispo = <<>>,
         \A i \in DOMAIN kept' :
            kept'[i].agent = a /\ kept'[i].campaign = c => kept'[i].line < n + 1
  PROVE  Current(a)'
BY DEF Current

LEMMA LineIsTyped ==
  ASSUME TypeOK, NEW a \in Agents
  PROVE  Line(agent[a]) \in LineType /\ Line(agent[a]).dispo = <<>> /\ Line(agent[a]).lead = agent[a].lead
<1>1. agent[a].lead \in LeadIds /\ <<>> \in Seq(Dispos)
  BY DEF TypeOK, AgentType
<1>2. QED
  BY <1>1 DEF Line, LineType, TypeOK

LEMMA HangupStep == ASSUME LogInv, NEW a \in Agents, CallHangup(a) PROVE LogInv' /\ Held
<1> DEFINE k == <<a, agent[a].campaign>>
           f == file[k]
           l == Line(agent[a])
<1>1. agent[a] \in AgentType /\ call[a] \in CallType /\ k \in Files /\ f \in Seq(LineType)
      /\ l \in LineType /\ l.dispo = <<>> /\ l.lead = agent[a].lead
  BY LineIsTyped DEF LogInv, TypeOK, AgentType, Files
<1>2. /\ agent[a].status # "closeout"
      /\ file' = [file EXCEPT ![k] = Append(f, l)]
      /\ torn' = torn \cup {x \in {k} : Pending(x)}
      /\ agent' = [agent EXCEPT ![a] = SetInCloseout(SetOnWait(agent[a]))]
      /\ call' = [call EXCEPT ![a] = Logged(call[a], Len(f) + 1)]
      /\ UNCHANGED <<today, writer, kept>>
  BY DEF CallHangup, writeAgentLog, Tears
<1> HIDE DEF k, f, l
<1>3. f = file[k]
  BY DEF f
<1>4. file'[k] = Append(f, l) /\ \A x \in Files \ {k} : file'[x] = file[x]
  BY <1>1, <1>2 DEF LogInv, TypeOK
<1>5. file' \in [Files -> Seq(LineType)] /\ torn' \in SUBSET Files /\ torn \subseteq torn'
  <2>1. Append(f, l) \in Seq(LineType)
    BY <1>1
  <2>2. QED
    BY <1>1, <1>2, <2>1 DEF LogInv, TypeOK
<1>6. /\ agent'[a] \in AgentType /\ agent'[a].status = "closeout"
      /\ agent'[a].campaign = agent[a].campaign /\ agent'[a].lead = agent[a].lead
      /\ \A b \in Agents \ {a} : agent'[b] = agent[b] /\ call'[b] = call[b]
      /\ call'[a] = Logged(call[a], Len(f) + 1)
  <2>1. /\ SetInCloseout(SetOnWait(agent[a])) \in AgentType
        /\ SetInCloseout(SetOnWait(agent[a])).status = "closeout"
    BY <1>1, Setters
  <2>2. SetInCloseout(SetOnWait(agent[a])).campaign = agent[a].campaign
        /\ SetInCloseout(SetOnWait(agent[a])).lead = agent[a].lead
    BY <1>1 DEF SetInCloseout, SetOnWait, AgentType
  <2>3. QED
    BY <1>2, <2>1, <2>2 DEF LogInv, TypeOK
<1>7. \A x \in Files : Stays(file[x], file'[x], x \in torn')
  <2>1. Stays(f, Append(f, l), k \in torn')
    BY <1>1, Appends
  <2>2. ASSUME NEW x \in Files \ {k}
        PROVE  Stays(file[x], file'[x], x \in torn')
    BY <1>4, StaysSame DEF LogInv, TypeOK
  <2>3. QED
    BY <1>3, <1>4, <2>1, <2>2
<1>8. Current(a)' /\ call'[a] \in CallType
  <2>1. CASE call[a].line # 0
    <3>1. call'[a] = NoCall
      BY <1>6, <2>1 DEF Logged
    <3>2. QED
      BY <3>1, NoneIsCurrent
  <2>2. CASE call[a].line = 0
    <3>1. PICK n \in Nat : n = Len(f)
      BY <1>1
    <3>2. /\ call'[a] = [call[a] EXCEPT !.line = n + 1]
          /\ call'[a] \in CallType /\ call'[a].line = n + 1
          /\ call'[a].campaign = call[a].campaign /\ call'[a].lead = call[a].lead
      BY <1>1, <1>6, <2>2, <3>1 DEF Logged, CallType
    <3>3. /\ call[a].campaign \in Campaigns /\ agent[a].campaign = call[a].campaign
          /\ agent[a].lead = call[a].lead
      <4>1. Current(a) /\ call[a].line >= 0
        BY <2>2 DEF LogInv, CallInv
      <4>2. QED
        BY <4>1 DEF Current
    <3>4. k = <<a, call[a].campaign>>
      BY <3>3 DEF k
    <3>5. Len(file'[k]) = n + 1 /\ file'[k][n + 1] = l
      BY <1>1, <1>4, <3>1, Appends
    <3>6. ASSUME NEW i \in DOMAIN kept, kept[i].agent = a, kept[i].campaign = call[a].campaign
          PROVE  kept[i].line < n + 1
      <4>1. kept[i].line \in DOMAIN f
        BY <1>3, <3>4, <3>6 DEF LogInv, KeptInv, Keeps
      <4>2. DOMAIN f = 1 .. n
        BY <1>1, <3>1
      <4>3. QED
        BY <4>1, <4>2
    <3>7. kept' = kept
      BY <1>2
    <3>8. Current(a)'
      <4>1. agent'[a].campaign = call[a].campaign /\ agent'[a].lead = call[a].lead
        BY <1>6, <3>3
      <4>2. l.lead = call[a].lead /\ l.dispo = <<>>
        BY <1>1, <3>3
      <4>3. \A i \in DOMAIN kept' : kept'[i].agent = a /\ kept'[i].campaign = call[a].campaign =>
              kept'[i].line < n + 1
        BY <3>6, <3>7
      <4>4. QED
        BY <1>6, <3>2, <3>3, <3>4, <3>5, <4>1, <4>2, <4>3, LoggedIsCurrent
    <3>9. QED
      BY <3>2, <3>8
  <2>3. QED
    BY <2>1, <2>2
<1>9. ASSUME NEW b \in Agents \ {a}
      PROVE  Current(b)' /\ call'[b] \in CallType
  <2>1. \A c \in Campaigns : file'[<<b, c>>] = file[<<b, c>>]
    BY <1>4 DEF k, Files, Names
  <2>2. QED
    BY <1>2, <1>6, <2>1, OthersAreCurrent DEF LogInv, CallInv
<1>10. TypeOK'
  <2>1. agent' \in [Agents -> AgentType] /\ call' \in [Agents -> CallType]
    BY <1>2, <1>6, <1>8, <1>9 DEF LogInv, TypeOK
  <2>2. QED
    BY <1>2, <1>5, <2>1 DEF LogInv, TypeOK
<1>11. KeptInv'
  BY <1>2, <1>5, <1>7, <1>10, FileStep DEF LogInv
<1>12. WriterInv'
  <2>1. \A x \in Files : file'[x] # file[x] => file'[x] # <<>> /\ (Pending(x) => x \in torn')
    BY <1>1, <1>2, <1>4, Appends
  <2>2. QED
    BY <1>2, <1>5, <2>1, WritersMeet
<1>13. OrderInv'
  BY <1>2 DEF LogInv, OrderInv, Follows
<1>14. QED
  BY <1>7, <1>8, <1>9, <1>10, <1>11, <1>12, <1>13 DEF LogInv, CallInv, Held

\* The call of an agent whose line, if she has one, is as it was.
LEMMA SameCallIsCurrent ==
  ASSUME NEW a \in Agents, TypeOK, Current(a), agent'[a] = agent[a], call'[a] = call[a], kept' = kept,
         call[a].line > 0 => file'[<<a, call[a].campaign>>] = file[<<a, call[a].campaign>>]
  PROVE  Current(a)' /\ call'[a] \in CallType
<1>1. call[a] \in CallType
  BY DEF TypeOK
<1>2. call[a].line > 0 => call[a].line >= 0
  BY <1>1 DEF CallType
<1>3. QED
  BY <1>1, <1>2 DEF Current

LEMMA WriteStep == ASSUME LogInv, NEW w \in Writers, WriterWrites(w) PROVE LogInv' /\ Held
<1> DEFINE a == writer[w][1]
           c == writer[w][2]
           d == writer[w][3]
           k == <<a, c>>
           f == file[k]
           Another == \E v \in Writers \ {w} : writer[v] # <<>> /\ <<writer[v][1], writer[v][2]>> = k
<1>1. /\ writer[w] # <<>>
      /\ file' = [file EXCEPT ![k] = Ended(f, d)]
      /\ torn' = IF Another THEN torn \cup {k} ELSE torn
      /\ call' = [call EXCEPT ![a] = IF call[a].campaign = k[2] /\ call[a].line > 0 THEN NoCall ELSE call[a]]
      /\ writer' = [writer EXCEPT ![w] = <<>>]
      /\ UNCHANGED <<today, agent, kept>>
  BY DEF WriterWrites
<1>2. writer[w] \in Agents \X Campaigns \X Dispos
  BY <1>1 DEF LogInv, TypeOK
<1>3. a \in Agents /\ c \in Campaigns /\ d \in Dispos /\ k \in Files /\ k[2] = c
  BY <1>2 DEF Files, Names
<1>4. f \in Seq(LineType) /\ f # <<>> /\ (k \notin torn => HasNoDispo(f))
  BY <1>1, <1>3 DEF LogInv, TypeOK, WriterInv
<1>5. call'[a] = IF call[a].campaign = c /\ call[a].line > 0 THEN NoCall ELSE call[a]
  BY <1>1, <1>3 DEF LogInv, TypeOK
<1>6. \A b \in Agents \ {a} : call'[b] = call[b]
  BY <1>1, <1>3 DEF LogInv, TypeOK
<1>7. writer'[w] = <<>> /\ \A v \in Writers \ {w} : writer'[v] = writer[v]
  BY <1>1 DEF LogInv, TypeOK
<1>8. f = file[k]
  OBVIOUS
<1>9. Another => k \in torn'
  BY <1>1
<1>10. torn \subseteq torn' /\ torn' \in SUBSET Files
  BY <1>1, <1>3 DEF LogInv, TypeOK
<1>11. k = <<a, c>>
  OBVIOUS
<1>12. Another <=> \E v \in Writers \ {w} : writer[v] # <<>> /\ <<writer[v][1], writer[v][2]>> = k
  OBVIOUS
<1> HIDE DEF a, c, d, k, f, Another
<1>13. file'[k] = Ended(f, d) /\ \A x \in Files \ {k} : file'[x] = file[x]
  BY <1>1, <1>3 DEF LogInv, TypeOK
<1>14. file' \in [Files -> Seq(LineType)]
  <2>1. Ended(f, d) \in Seq(LineType)
    BY <1>3, <1>4, EndedIsTyped
  <2>2. QED
    BY <1>1, <1>3, <2>1 DEF LogInv, TypeOK
<1>15. \A x \in Files : Stays(file[x], file'[x], x \in torn')
  <2>1. Stays(f, Ended(f, d), k \in torn')
    <3>1. CASE k \in torn
      <4>1. \A met : f[Len(f)].dispo = <<>> \/ met => Stays(f, Ended(f, d), met)
        BY <1>3, <1>4, EndedIsTyped
      <4>2. k \in torn'
        BY <1>10, <3>1
      <4>3. QED
        BY <4>1, <4>2
    <3>2. CASE k \notin torn
      <4>1. f[Len(f)].dispo = <<>>
        BY <1>4, <3>2 DEF HasNoDispo
      <4>2. QED
        BY <1>3, <1>4, <4>1, EndedIsTyped
    <3>3. QED
      BY <3>1, <3>2
  <2>2. ASSUME NEW x \in Files \ {k}
        PROVE  Stays(file[x], file'[x], x \in torn')
    BY <1>13, StaysSame DEF LogInv, TypeOK
  <2>3. QED
    BY <1>8, <1>13, <2>1, <2>2
<1>16. ASSUME NEW b \in Agents
       PROVE  Current(b)' /\ call'[b] \in CallType
  <2>1. CASE b = a /\ call'[a] = NoCall
    BY <2>1, NoneIsCurrent
  <2>2. CASE b = a /\ call'[a] # NoCall
    <3>1. call'[b] = call[b] /\ ~(call[b].campaign = c /\ call[b].line > 0)
      BY <1>5, <2>2
    <3>2. agent'[b] = agent[b] /\ kept' = kept
      BY <1>1
    <3>3. TypeOK /\ Current(b) /\ call[b] \in CallType
      BY DEF LogInv, TypeOK, CallInv
    <3>4. ASSUME call[b].line > 0
          PROVE  file'[<<b, call[b].campaign>>] = file[<<b, call[b].campaign>>]
      <4>1. call[b].campaign \in Names /\ call[b].campaign # c
        BY <3>1, <3>3, <3>4 DEF CallType
      <4>2. <<b, call[b].campaign>> # k /\ <<b, call[b].campaign>> \in Files
        BY <1>11, <4>1 DEF Files
      <4>3. QED
        BY <1>13, <4>2
    <3>5. QED
      BY <3>1, <3>2, <3>3, <3>4, SameCallIsCurrent
  <2>3. CASE b # a
    <3>1. \A x \in Campaigns : file'[<<b, x>>] = file[<<b, x>>]
      BY <1>11, <1>13, <2>3 DEF Files, Names
    <3>2. agent'[b] = agent[b] /\ call'[b] = call[b] /\ kept' = kept
      BY <1>1, <1>6, <2>3
    <3>3. QED
      BY <3>1, <3>2, OthersAreCurrent DEF LogInv, CallInv
  <2>4. QED
    BY <2>1, <2>2, <2>3
<1>17. TypeOK'
  <2>1. call' \in [Agents -> CallType]
    BY <1>1, <1>16 DEF LogInv, TypeOK
  <2>2. writer' \in [Writers -> {<<>>} \cup (Agents \X Campaigns \X Dispos)]
    BY <1>1 DEF LogInv, TypeOK
  <2>3. QED
    BY <1>1, <1>10, <1>14, <2>1, <2>2 DEF LogInv, TypeOK
<1>18. KeptInv'
  BY <1>1, <1>10, <1>15, <1>17, FileStep DEF LogInv
<1>19. ASSUME NEW v \in Writers, writer'[v] # <<>>
       PROVE  LET x == <<writer'[v][1], writer'[v][2]>> IN
                file'[x] # <<>> /\ (x \notin torn' => HasNoDispo(file'[x]))
  <2>1. v # w /\ writer'[v] = writer[v]
    BY <1>7, <1>19
  <2> DEFINE x == <<writer[v][1], writer[v][2]>>
  <2>2. x \in Files
    <3>1. writer[v] \in Agents \X Campaigns \X Dispos
      BY <1>19, <2>1 DEF LogInv, TypeOK
    <3>2. QED
      BY <3>1 DEF Files, Names
  <2>3. file[x] # <<>> /\ (x \notin torn => HasNoDispo(file[x]))
    BY <1>19, <2>1 DEF LogInv, WriterInv
  <2>4. CASE x = k
    <3>1. k \in torn'
      BY <1>9, <1>12, <1>19, <2>1, <2>4
    <3>2. Ended(f, d) # <<>>
      BY <1>3, <1>4, EndedIsTyped
    <3>3. QED
      BY <1>13, <2>1, <2>4, <3>1, <3>2
  <2>5. CASE x # k
    BY <1>10, <1>13, <2>1, <2>2, <2>3, <2>5
  <2>6. QED
    BY <2>4, <2>5
<1>20. WriterInv'
  BY <1>19 DEF WriterInv, HasNoDispo
<1>21. OrderInv'
  BY <1>1 DEF LogInv, OrderInv, Follows
<1>22. QED
  BY <1>15, <1>16, <1>17, <1>18, <1>20, <1>21 DEF LogInv, CallInv, Held

-----------------------------------------------------------------------------
\* writeDispo, on a file as it is and on one to which a line was just added.
LEMMA DispoWritten ==
  ASSUME NEW f \in Seq(LineType), NEW d \in Dispos
  PROVE  /\ writeDispo(f, d) \in Seq(LineType)
         /\ writeDispo(f, d) # f => writeDispo(f, d) # <<>>
         /\ \A met : Stays(f, writeDispo(f, d), met)
<1>1. CASE HasNoDispo(f)
  <2>1. f # <<>> /\ f[Len(f)].dispo = <<>> /\ writeDispo(f, d) = Ended(f, d)
    BY <1>1 DEF HasNoDispo, writeDispo
  <2>2. QED
    BY <2>1, EndedIsTyped
<1>2. CASE ~HasNoDispo(f)
  <2>1. writeDispo(f, d) = f
    BY <1>2 DEF writeDispo
  <2>2. QED
    BY <2>1, StaysSame
<1>3. QED
  BY <1>1, <1>2

LEMMA LoggedAndEnded ==
  ASSUME NEW f \in Seq(LineType), NEW l \in LineType, l.dispo = <<>>, NEW d \in Dispos,
         NEW g, g = writeDispo(Append(f, l), d)
  PROVE  /\ g \in Seq(LineType) /\ g # <<>>
         /\ Len(g) = Len(f) + 1
         /\ g[Len(f) + 1].lead = l.lead /\ g[Len(f) + 1].dispo = <<d>>
         /\ \A met : Stays(f, g, met)
<1> DEFINE h == Append(f, l)
<1>1. /\ h \in Seq(LineType) /\ h # <<>> /\ Len(h) = Len(f) + 1 /\ h[Len(f) + 1] = l
      /\ \A n \in 1 .. Len(f) : h[n] = f[n]
  BY Appends
<1>2. PICK m \in Nat : m = Len(f)
  OBVIOUS
<1>3. g = writeDispo(h, d)
  OBVIOUS
<1> HIDE DEF h
<1>4. h[Len(h)].dispo = <<>> /\ h[Len(h)].lead = l.lead /\ g = Ended(h, d)
  BY <1>1, <1>3 DEF writeDispo, HasNoDispo
<1>5. /\ g \in Seq(LineType) /\ g # <<>> /\ Len(g) = Len(h)
      /\ g[Len(h)].lead = h[Len(h)].lead
      /\ g[Len(h)].dispo = Append(h[Len(h)].dispo, d)
      /\ \A n \in 1 .. (Len(h) - 1) : g[n] = h[n]
  <2>1. /\ Ended(h, d) \in Seq(LineType) /\ Ended(h, d) # <<>> /\ Len(Ended(h, d)) = Len(h)
        /\ Ended(h, d)[Len(h)].lead = h[Len(h)].lead
        /\ Ended(h, d)[Len(h)].dispo = Append(h[Len(h)].dispo, d)
        /\ \A n \in 1 .. (Len(h) - 1) : Ended(h, d)[n] = h[n]
    BY <1>1, EndedIsTyped
  <2>2. g = Ended(h, d)
    BY <1>4
  <2>3. QED
    BY <2>1, <2>2, Zenon
<1>6. Append(<<>>, d) = <<d>>
  OBVIOUS
<1>7. Len(h) = m + 1 /\ Len(h) - 1 = m
  BY <1>1, <1>2
<1>8. ASSUME NEW n \in DOMAIN f
      PROVE  n \in DOMAIN g /\ g[n] = f[n] /\ f[n] = [f[n] EXCEPT !.dispo = f[n].dispo]
  <2>1. n \in 1 .. m /\ f[n] \in LineType
    BY <1>2
  <2>2. DOMAIN g = 1 .. (m + 1)
    BY <1>5, <1>7
  <2>3. f[n] = [f[n] EXCEPT !.dispo = f[n].dispo]
    BY <2>1 DEF LineType
  <2>4. g[n] = f[n]
    BY <1>1, <1>2, <1>5, <1>7, <2>1
  <2>5. QED
    BY <2>1, <2>2, <2>3, <2>4
<1>9. \A met : Stays(f, g, met)
  BY <1>8 DEF Stays
<1>10. QED
  BY <1>1, <1>4, <1>5, <1>6, <1>9

\* The files after a disposition that came by event.
LEMMA DispoFiles ==
  ASSUME TypeOK, NEW a \in Agents, NEW c \in Campaigns, NEW d \in Dispos, file' = DispoFile(a, c, d)
  PROVE  /\ file' \in [Files -> Seq(LineType)]
         /\ \A x \in Files : file'[x] # file[x] => file'[x] # <<>>
         /\ \A x \in Files : \A met : Stays(file[x], file'[x], met)
         /\ \A b \in Agents \ {a}, x \in Campaigns : file'[<<b, x>>] = file[<<b, x>>]
         /\ StillToLog(agent[a]) /\ agent[a].campaign = c =>
              file'[<<a, c>>] = writeDispo(Append(file[<<a, c>>], Line(agent[a])), d)
         /\ ~StillToLog(agent[a]) => file'[<<a, c>>] = writeDispo(file[<<a, c>>], d)
<1> DEFINE own == <<a, agent[a].campaign>>
           here == <<a, c>>
           l == Line(agent[a])
           F == IF StillToLog(agent[a]) THEN [file EXCEPT ![own] = Append(file[own], l)] ELSE file
<1>1. file' = [F EXCEPT ![here] = writeDispo(F[here], d)]
  BY DEF DispoFile, writeAgentLog
<1>2. /\ own \in Files /\ here \in Files /\ file \in [Files -> Seq(LineType)]
      /\ l \in LineType /\ l.dispo = <<>> /\ own[1] = a /\ here[1] = a
      /\ (own = here <=> agent[a].campaign = c)
  BY LineIsTyped DEF TypeOK, AgentType, Files, Names
<1>3. F = IF StillToLog(agent[a]) THEN [file EXCEPT ![own] = Append(file[own], l)] ELSE file
  OBVIOUS
<1>4. here = <<a, c>> /\ l = Line(agent[a])
  OBVIOUS
<1> HIDE DEF own, here, l, F
<1>5. F \in [Files -> Seq(LineType)]
  <2>1. Append(file[own], l) \in Seq(LineType)
    BY <1>2
  <2>2. QED
    BY <1>2, <1>3, <2>1
<1>6. file' \in [Files -> Seq(LineType)]
      /\ file'[here] = writeDispo(F[here], d) /\ \A x \in Files \ {here} : file'[x] = F[x]
  <2>1. writeDispo(F[here], d) \in Seq(LineType)
    BY <1>2, <1>5, DispoWritten
  <2>2. QED
    BY <1>1, <1>2, <1>5, <2>1
<1>7. CASE StillToLog(agent[a])
  <2>1. F[own] = Append(file[own], l) /\ \A x \in Files \ {own} : F[x] = file[x]
    BY <1>2, <1>3, <1>7
  <2>2. ASSUME NEW x \in Files
        PROVE  (file'[x] # file[x] => file'[x] # <<>> /\ x \in {own, here})
               /\ \A met : Stays(file[x], file'[x], met)
    <3>1. CASE x = own /\ x = here
      <4>1. file'[x] = writeDispo(Append(file[x], l), d)
        BY <1>6, <2>1, <3>1
      <4>2. QED
        BY <1>2, <3>1, <4>1, LoggedAndEnded
    <3>2. CASE x = own /\ x # here
      <4>1. file'[x] = Append(file[x], l)
        BY <1>6, <2>1, <3>2
      <4>2. QED
        BY <1>2, <3>2, <4>1, Appends
    <3>3. CASE x # own /\ x = here
      <4>1. file'[x] = writeDispo(file[x], d)
        BY <1>6, <2>1, <3>3
      <4>2. QED
        BY <1>2, <3>3, <4>1, DispoWritten
    <3>4. CASE x # own /\ x # here
      <4>1. file'[x] = file[x]
        BY <1>6, <2>1, <3>4
      <4>2. QED
        BY <1>2, <4>1, StaysSame
    <3>5. QED
      BY <3>1, <3>2, <3>3, <3>4
  <2>3. ASSUME NEW b \in Agents \ {a}, NEW x \in Campaigns
        PROVE  file'[<<b, x>>] = file[<<b, x>>]
    <3>1. <<b, x>> \in Files /\ <<b, x>>[1] # a
      BY DEF Files, Names
    <3>2. QED
      BY <1>2, <2>2, <3>1
  <2>4. agent[a].campaign = c => file'[here] = writeDispo(Append(file[here], l), d)
    BY <1>2, <1>6, <2>1
  <2>5. QED
    BY <1>4, <1>6, <1>7, <2>2, <2>3, <2>4
<1>8. CASE ~StillToLog(agent[a])
  <2>1. F = file
    BY <1>3, <1>8
  <2>2. ASSUME NEW x \in Files
        PROVE  (file'[x] # file[x] => file'[x] # <<>> /\ x = here)
               /\ \A met : Stays(file[x], file'[x], met)
    <3>1. CASE x = here
      BY <1>2, <1>6, <2>1, <3>1, DispoWritten
    <3>2. CASE x # here
      BY <1>2, <1>6, <2>1, <3>2, StaysSame
    <3>3. QED
      BY <3>1, <3>2
  <2>3. ASSUME NEW b \in Agents \ {a}, NEW x \in Campaigns
        PROVE  file'[<<b, x>>] = file[<<b, x>>]
    <3>1. <<b, x>> \in Files /\ <<b, x>>[1] # a
      BY DEF Files, Names
    <3>2. QED
      BY <1>2, <2>2, <3>1
  <2>4. QED
    BY <1>4, <1>6, <1>8, <2>1, <2>2, <2>3
<1>9. QED
  BY <1>7, <1>8

\* The call that is disposed in order: her line, hers alone.
LEMMA DisposedIsKept ==
  ASSUME LogInv, NEW a \in Agents, NEW c \in Campaigns, NEW l \in Leads, NEW d \in Dispos,
         file' = DispoFile(a, c, d), kept' = DispoKept(a, c, l, d), kept' # kept
  PROVE  \E e \in KeptType :
           /\ kept' = Append(kept, e) /\ e.agent = a /\ e.campaign = c
           /\ \A met : Keeps(e, file'[<<a, c>>], met)
           /\ \A i \in DOMAIN kept : Follows(kept[i], e)
<1> DEFINE f == file[<<a, c>>]
           g == file'[<<a, c>>]
           k == IF call[a].line = 0 THEN Logged(call[a], Len(f) + 1) ELSE call[a]
           e == [agent |-> a, campaign |-> c, lead |-> l, dispo |-> d, line |-> k.line]
<1>1. /\ ~(call[a].line < 0) /\ call[a].campaign = c /\ call[a].lead = l
      /\ kept' = Append(kept, e)
  BY DEF DispoKept
<1>2. /\ TypeOK /\ call[a] \in CallType /\ Current(a) /\ <<a, c>> \in Files
      /\ f \in Seq(LineType) /\ agent[a] \in AgentType
  BY DEF LogInv, TypeOK, CallInv, Files, Names
<1>3. call[a].line \in Int /\ call[a].line >= 0
  BY <1>1, <1>2 DEF CallType
<1>4. agent[a].campaign = c /\ agent[a].lead = l
  BY <1>1, <1>2, <1>3 DEF Current
<1>5. PICK m \in Nat : m = Len(f) /\ DOMAIN f = 1 .. m
  BY <1>2
<1>6. Line(agent[a]) \in LineType /\ Line(agent[a]).dispo = <<>> /\ Line(agent[a]).lead = l
  BY <1>2, <1>4, LineIsTyped
<1>7. ASSUME NEW i \in DOMAIN kept, kept[i].agent = a, kept[i].campaign = c
      PROVE  kept[i].line \in 1 .. m
  BY <1>5, <1>7 DEF LogInv, KeptInv, Keeps
<1>8. /\ StillToLog(agent[a]) => g = writeDispo(Append(f, Line(agent[a])), d)
      /\ ~StillToLog(agent[a]) => g = writeDispo(f, d)
  BY <1>2, <1>4, DispoFiles
<1>9. k = IF call[a].line = 0 THEN Logged(call[a], m + 1) ELSE call[a]
  BY <1>5
<1>10. f = file[<<a, c>>] /\ g = file'[<<a, c>>]
  OBVIOUS
<1>11. e = [agent |-> a, campaign |-> c, lead |-> l, dispo |-> d, line |-> k.line]
  OBVIOUS
<1> HIDE DEF f, g, k, e
<1>12. /\ k.line \in Nat /\ k.line \in DOMAIN g /\ g[k.line].lead = l /\ g[k.line].dispo = <<d>>
       /\ \A i \in DOMAIN kept : kept[i].agent = a /\ kept[i].campaign = c => kept[i].line < k.line
  <2>1. CASE call[a].line = 0
    <3>1. k.line = m + 1
      BY <1>2, <1>9, <2>1 DEF Logged, CallType
    <3>2. StillToLog(agent[a])
      BY <1>2, <2>1 DEF Current
    <3>3. /\ g \in Seq(LineType) /\ Len(g) = m + 1
          /\ g[m + 1].lead = l /\ g[m + 1].dispo = <<d>>
      BY <1>2, <1>5, <1>6, <1>8, <3>2, LoggedAndEnded
    <3>4. m + 1 \in DOMAIN g
      BY <3>3
    <3>5. ASSUME NEW i \in DOMAIN kept, kept[i].agent = a, kept[i].campaign = c
          PROVE  kept[i].line < m + 1
      BY <1>7, <3>5
    <3>6. QED
      BY <3>1, <3>3, <3>4, <3>5
  <2>2. CASE call[a].line # 0
    <3>1. call[a].line > 0 /\ k.line = call[a].line
      BY <1>3, <1>9, <2>2
    <3>2. /\ agent[a].status = "closeout" /\ k.line = m
          /\ f[m].lead = l /\ f[m].dispo = <<>>
      BY <1>1, <1>2, <1>5, <1>10, <3>1 DEF Current
    <3>3. \A i \in DOMAIN kept : kept[i].agent = a /\ kept[i].campaign = c => kept[i].line < k.line
      BY <1>1, <1>2, <3>1 DEF Current
    <3>4. f # <<>> /\ m >= 1
      BY <1>2, <1>5, <3>1, <3>2
    <3>5. g = Ended(f, d)
      BY <1>5, <1>8, <3>2, <3>4 DEF StillToLog, writeDispo, HasNoDispo
    <3>6. /\ g \in Seq(LineType) /\ Len(g) = m /\ g[m].lead = l
          /\ g[m].dispo = Append(<<>>, d)
      BY <1>2, <1>5, <3>2, <3>4, <3>5, EndedIsTyped
    <3>7. Append(<<>>, d) = <<d>> /\ m \in DOMAIN g
      BY <3>4, <3>6
    <3>8. QED
      BY <3>2, <3>3, <3>6, <3>7
  <2>3. QED
    BY <2>1, <2>2
<1>13. e \in KeptType /\ e.agent = a /\ e.campaign = c /\ e.lead = l /\ e.dispo = d /\ e.line = k.line
  BY <1>11, <1>12 DEF KeptType
<1>14. \A met : Keeps(e, g, met)
  BY <1>12, <1>13 DEF Keeps
<1>15. \A i \in DOMAIN kept : Follows(kept[i], e)
  BY <1>12, <1>13 DEF Follows
<1>16. QED
  BY <1>1, <1>10, <1>13, <1>14, <1>15

\* The calls kept, when one more may have been.
LEMMA KeptStep ==
  ASSUME LogInv, NEW a \in Agents, NEW c \in Campaigns,
         file' \in [Files -> Seq(LineType)], torn \subseteq torn', Held,
         \/ kept' = kept
         \/ \E e \in KeptType :
              /\ kept' = Append(kept, e) /\ e.agent = a /\ e.campaign = c
              /\ \A met : Keeps(e, file'[<<a, c>>], met)
              /\ \A i \in DOMAIN kept : Follows(kept[i], e)
  PROVE  /\ kept' \in Seq(KeptType)
         /\ \A i \in DOMAIN kept' : kept'[i].agent # a => i \in DOMAIN kept /\ kept'[i] = kept[i]
         /\ KeptInv' /\ OrderInv'
<1> DEFINE key(h) == <<h.agent, h.campaign>>
<1>1. kept \in Seq(KeptType)
  BY DEF LogInv, TypeOK
<1>2. ASSUME NEW i \in DOMAIN kept
      PROVE  Keeps(kept[i], file'[key(kept[i])], key(kept[i]) \in torn')
  <2> DEFINE x == key(kept[i])
             f == file[x]
             g == file'[x]
             met == x \in torn
             later == x \in torn'
  <2>1. kept[i] \in KeptType
    BY <1>1
  <2>2. x \in Files
    BY <2>1 DEF KeptType, Files, Names
  <2>3. /\ f \in Seq(LineType) /\ g \in Seq(LineType) /\ Stays(f, g, later)
        /\ (met => later)
    BY <2>2 DEF LogInv, TypeOK, Held
  <2>4. Keeps(kept[i], f, met)
    BY DEF LogInv, KeptInv
  <2>5. Keeps(kept[i], g, later)
    <3> HIDE DEF x, f, g, met, later
    <3>1. QED
      BY <2>1, <2>3, <2>4, KeptStays
  <2>6. QED
    BY <2>5
<1>3. CASE kept' = kept
  <2>1. KeptInv'
    BY <1>2, <1>3 DEF KeptInv
  <2>2. OrderInv'
    BY <1>3 DEF LogInv, OrderInv, Follows
  <2>3. QED
    BY <1>1, <1>3, <2>1, <2>2
<1>4. CASE \E e \in KeptType :
             /\ kept' = Append(kept, e) /\ e.agent = a /\ e.campaign = c
             /\ \A met : Keeps(e, file'[<<a, c>>], met)
             /\ \A i \in DOMAIN kept : Follows(kept[i], e)
  <2>1. PICK e \in KeptType :
             /\ kept' = Append(kept, e) /\ e.agent = a /\ e.campaign = c
             /\ \A met : Keeps(e, file'[<<a, c>>], met)
             /\ \A i \in DOMAIN kept : Follows(kept[i], e)
    BY <1>4
  <2>2. PICK m \in Nat : m = Len(kept) /\ DOMAIN kept = 1 .. m
    BY <1>1
  <2>3. /\ kept' \in Seq(KeptType) /\ DOMAIN kept' = 1 .. (m + 1) /\ kept'[m + 1] = e
        /\ \A i \in DOMAIN kept : kept'[i] = kept[i]
    BY <1>1, <2>1, <2>2
  <2>4. \A i \in 1 .. (m + 1) : i \in DOMAIN kept \/ i = m + 1
    BY <2>2
  <2>5. ASSUME NEW i \in DOMAIN kept'
        PROVE  Keeps(kept'[i], file'[key(kept'[i])], key(kept'[i]) \in torn')
    <3>1. CASE i \in DOMAIN kept
      BY <1>2, <2>3, <3>1
    <3>2. CASE i = m + 1
      <4>1. kept'[i] = e /\ key(e) = <<a, c>>
        BY <2>1, <2>3, <3>2
      <4>2. QED
        BY <2>1, <4>1
    <3>3. QED
      BY <2>3, <2>4, <3>1, <3>2
  <2>6. KeptInv'
    BY <2>5 DEF KeptInv
  <2>7. ASSUME NEW i \in DOMAIN kept', NEW j \in DOMAIN kept', i < j
        PROVE  Follows(kept'[i], kept'[j])
    <3>1. i \in 1 .. m /\ i \in DOMAIN kept
      BY <2>2, <2>3, <2>7
    <3>2. CASE j \in DOMAIN kept
      BY <2>3, <2>7, <3>1, <3>2 DEF LogInv, OrderInv
    <3>3. CASE j = m + 1
      BY <2>1, <2>3, <3>1, <3>3
    <3>4. QED
      BY <2>3, <2>4, <3>2, <3>3
  <2>8. OrderInv'
    BY <2>7 DEF OrderInv, Follows
  <2>9. QED
    BY <2>1, <2>3, <2>4, <2>6, <2>8
<1>5. QED
  BY <1>3, <1>4

LEMMA DispoStep ==
  ASSUME LogInv, NEW a \in Agents, NEW c \in Campaigns, NEW l \in Leads, NEW d \in Dispos,
         UserEventDispo(a, c, l, d)
  PROVE  LogInv' /\ Held
<1> DEFINE g == [agent EXCEPT ![a] = SetOnWait(agent[a])]
           k == [call EXCEPT ![a] = NoCall]
<1>1. /\ file' = DispoFile(a, c, d)
      /\ torn' = torn \cup {x \in Files : file'[x] # file[x] /\ Pending(x)}
      /\ kept' = DispoKept(a, c, l, d)
      /\ UNCHANGED <<today, writer>>
  BY DEF UserEventDispo, Tears
<1>2. \/ agent' = g /\ call' = k
      \/ \E b \in Agents : /\ IsAvailable(g[b])
                           /\ agent' = [g EXCEPT ![b] = HandedOut(g[b], c, l)]
                           /\ call' = [k EXCEPT ![b] = NewCall(c, l)]
  BY DEF UserEventDispo
<1>3. TypeOK /\ agent[a] \in AgentType /\ agent \in [Agents -> AgentType] /\ call \in [Agents -> CallType]
  BY DEF LogInv, TypeOK
<1>4. /\ g \in [Agents -> AgentType] /\ k[a] = NoCall /\ k \in [Agents -> CallType]
      /\ \A b \in Agents \ {a} : g[b] = agent[b] /\ k[b] = call[b]
  <2>1. SetOnWait(agent[a]) \in AgentType
    BY <1>3, Setters
  <2>2. NoCall \in CallType
    BY DEF NoCall, CallType, Names, LeadIds
  <2>3. QED
    BY <1>3, <2>1, <2>2
<1> HIDE DEF g, k
<1>5. /\ file' \in [Files -> Seq(LineType)]
      /\ \A x \in Files : file'[x] # file[x] => file'[x] # <<>>
      /\ \A x \in Files : \A met : Stays(file[x], file'[x], met)
      /\ \A b \in Agents \ {a}, x \in Campaigns : file'[<<b, x>>] = file[<<b, x>>]
  BY <1>1, <1>3, DispoFiles
<1>6. Held
  BY <1>5 DEF Held
<1>7. torn \subseteq torn' /\ torn' \in SUBSET Files
  BY <1>1, <1>3 DEF TypeOK
<1>8. WriterInv'
  <2>1. \A x \in Files : file'[x] # file[x] => file'[x] # <<>> /\ (Pending(x) => x \in torn')
    BY <1>1, <1>5
  <2>2. QED
    BY <1>1, <1>7, <2>1, WritersMeet
<1>9. \/ kept' = kept
      \/ \E e \in KeptType :
           /\ kept' = Append(kept, e) /\ e.agent = a /\ e.campaign = c
           /\ \A met : Keeps(e, file'[<<a, c>>], met)
           /\ \A i \in DOMAIN kept : Follows(kept[i], e)
  BY <1>1, DisposedIsKept
<1>10. /\ kept' \in Seq(KeptType)
       /\ \A i \in DOMAIN kept' : kept'[i].agent # a => i \in DOMAIN kept /\ kept'[i] = kept[i]
       /\ KeptInv' /\ OrderInv'
  BY <1>3, <1>5, <1>6, <1>7, <1>9, KeptStep DEF LogInv
<1>11. ASSUME NEW b \in Agents, b # a, agent'[b] = agent[b], call'[b] = call[b]
       PROVE  Current(b)' /\ call'[b] \in CallType /\ agent'[b] \in AgentType
  <2>1. \A x \in Campaigns : file'[<<b, x>>] = file[<<b, x>>]
    BY <1>5, <1>11
  <2>2. \A i \in DOMAIN kept' : kept'[i].agent = b => i \in DOMAIN kept /\ kept'[i] = kept[i]
    BY <1>10, <1>11
  <2>3. QED
    BY <1>3, <1>11, <2>1, <2>2, OthersAreCurrent DEF LogInv, CallInv
<1>12. /\ agent' \in [Agents -> AgentType] /\ call' \in [Agents -> CallType]
       /\ \A b \in Agents : Current(b)'
  <2>1. CASE agent' = g /\ call' = k
    <3>1. Current(a)'
      BY <1>4, <2>1, NoneIsCurrent
    <3>2. \A b \in Agents \ {a} : Current(b)'
      BY <1>4, <1>11, <2>1
    <3>3. QED
      BY <1>4, <2>1, <3>1, <3>2
  <2>2. CASE \E b \in Agents : /\ IsAvailable(g[b])
                               /\ agent' = [g EXCEPT ![b] = HandedOut(g[b], c, l)]
                               /\ call' = [k EXCEPT ![b] = NewCall(c, l)]
    <3>1. PICK b \in Agents : /\ IsAvailable(g[b])
                              /\ agent' = [g EXCEPT ![b] = HandedOut(g[b], c, l)]
                              /\ call' = [k EXCEPT ![b] = NewCall(c, l)]
      BY <2>2
    <3>2. /\ agent'[b] = HandedOut(g[b], c, l) /\ call'[b] = NewCall(c, l)
          /\ \A x \in Agents \ {b} : agent'[x] = g[x] /\ call'[x] = k[x]
      BY <1>4, <3>1
    <3>3. g[b] \in AgentType
      BY <1>4
    <3>4. Current(b)' /\ call'[b] \in CallType /\ agent'[b] \in AgentType
      BY <3>1, <3>2, <3>3, NewIsCurrent
    <3>5. ASSUME NEW x \in Agents \ {b}
          PROVE  Current(x)'
      <4>1. CASE x = a
        BY <1>4, <3>2, <4>1, NoneIsCurrent
      <4>2. CASE x # a
        BY <1>4, <1>11, <3>2, <4>2
      <4>3. QED
        BY <4>1, <4>2
    <3>6. agent' \in [Agents -> AgentType] /\ call' \in [Agents -> CallType]
      BY <1>4, <3>1, <3>4, <3>2
    <3>7. QED
      BY <3>4, <3>5, <3>6
  <2>3. QED
    BY <1>2, <2>1, <2>2
<1>13. TypeOK'
  BY <1>1, <1>3, <1>5, <1>7, <1>10, <1>12 DEF TypeOK
<1>14. QED
  BY <1>6, <1>8, <1>10, <1>12, <1>13 DEF LogInv, CallInv
-----------------------------------------------------------------------------
LEMMA LogStarts == ASSUME LogInit PROVE LogInv
<1>1. /\ today = 1 /\ agent = [a \in Agents |-> ParseAgent] /\ file = [k \in Files |-> <<>>]
      /\ writer = [w \in Writers |-> <<>>] /\ torn = {} /\ call = [a \in Agents |-> NoCall]
      /\ kept = <<>>
  BY DEF LogInit
<1>2. /\ ParseAgent \in AgentType
      /\ NoCall \in CallType /\ NoCall.line = -1
      /\ <<>> \in Seq(LineType) /\ <<>> \in Seq(KeptType) /\ today \in 1 .. LastDay
  BY <1>1, BoundsAssumption
     DEF ParseAgent, AgentType, NoCall, CallType, Status, Names, LeadIds
<1>3. TypeOK
  BY <1>1, <1>2 DEF TypeOK
<1>4. WriterInv
  BY <1>1 DEF WriterInv
<1>5. DOMAIN kept = {}
  BY <1>1
<1>6. KeptInv /\ OrderInv
  BY <1>5 DEF KeptInv, OrderInv
<1>7. CallInv
  BY <1>1, <1>2 DEF CallInv, Current
<1>8. QED
  BY <1>3, <1>4, <1>6, <1>7 DEF LogInv

LEMMA QuietIsHeld == ASSUME TypeOK, UNCHANGED file PROVE Held
BY StaysSame DEF TypeOK, Held

LEMMA LogStep == ASSUME LogInv, LogNext PROVE LogInv' /\ Held
<1> USE DEF LogNext
<1>1. TypeOK
  BY DEF LogInv
<1>2. CASE NewDay
  <2>1. UNCHANGED file
    BY <1>2 DEF NewDay
  <2>2. QED
    BY <1>1, <1>2, <2>1, NewDayStep, QuietIsHeld
<1>3. CASE Restart
  <2>1. UNCHANGED file
    BY <1>3 DEF Restart
  <2>2. QED
    BY <1>1, <1>3, <2>1, RestartStep, QuietIsHeld
<1>4. CASE Refresh
  <2>1. UNCHANGED file
    BY <1>4 DEF Refresh
  <2>2. QED
    BY <1>1, <1>4, <2>1, RefreshStep, QuietIsHeld
<1>5. ASSUME NEW a \in Agents, AgentEvent(a)
      PROVE  LogInv' /\ Held
  <2>1. ASSUME NEW g \in AgentType, g.status # "closeout", Hear(a, g)
        PROVE  LogInv' /\ Held
    <3>1. UNCHANGED file
      BY <2>1 DEF Hear
    <3>2. QED
      BY <1>1, <2>1, <3>1, HearStep, QuietIsHeld
  <2>2. agent[a] \in AgentType
    BY <1>1 DEF TypeOK
  <2>3. CASE AgentLogin(a)
    BY <2>1, <2>2, <2>3, Setters DEF AgentLogin
  <2>4. CASE AgentLogoff(a)
    BY <2>1, <2>2, <2>4, Setters DEF AgentLogoff
  <2>5. CASE AgentPause(a)
    BY <2>1, <2>2, <2>5, Setters DEF AgentPause
  <2>6. CASE AgentUnPause(a)
    <3>1. SetOnWait(agent[a]) \in AgentType /\ SetOnWait(agent[a]).status # "closeout"
      BY <2>2, Setters
    <3>2. QED
      BY <2>1, <2>6, <3>1 DEF AgentUnPause
  <2>7. CASE UserSetOnCall(a)
    BY <2>1, <2>2, <2>7, Setters DEF UserSetOnCall
  <2>8. CASE CallHangup(a)
    BY <2>8, HangupStep
  <2>9. ASSUME NEW c \in Campaigns, NEW l \in Leads, UserQueue(a, c, l)
        PROVE  LogInv' /\ Held
    <3>1. UNCHANGED file
      BY <2>9 DEF UserQueue
    <3>2. QED
      BY <1>1, <2>9, <3>1, QueueStep, QuietIsHeld
  <2>10. ASSUME NEW c \in Campaigns, NEW l \in Leads, NEW d \in Dispos, UserEventDispo(a, c, l, d)
         PROVE  LogInv' /\ Held
    BY <2>10, DispoStep
  <2>11. QED
    BY <1>5, <2>3, <2>4, <2>5, <2>6, <2>7, <2>8, <2>9, <2>10 DEF AgentEvent
<1>6. ASSUME NEW w \in Writers, WriterStep(w)
      PROVE  LogInv' /\ Held
  <2>1. ASSUME NEW a \in Agents, NEW c \in Campaigns, NEW d \in Dispos, WriterReads(w, a, c, d)
        PROVE  LogInv' /\ Held
    <3>1. UNCHANGED file
      BY <2>1 DEF WriterReads
    <3>2. QED
      BY <1>1, <2>1, <3>1, ReadStep, QuietIsHeld
  <2>2. CASE WriterWrites(w)
    BY <2>2, WriteStep
  <2>3. QED
    BY <1>6, <2>1, <2>2 DEF WriterStep
<1>7. QED
  BY <1>2, <1>3, <1>4, <1>5, <1>6

LEMMA LogStutters == ASSUME LogInv, UNCHANGED logvars PROVE LogInv'
<1>1. UNCHANGED <<today, agent, file, writer, torn, call, kept>>
  BY DEF logvars
<1>2. TypeOK'
  BY <1>1 DEF LogInv, TypeOK
<1>3. WriterInv' /\ KeptInv' /\ OrderInv'
  BY <1>1, NoFileStep
<1>4. CallInv'
  BY <1>1 DEF LogInv, CallInv, Current
<1>5. QED
  BY <1>2, <1>3, <1>4 DEF LogInv

LEMMA LogAlways == LogSpec => []LogInv
<1>1. LogInit => LogInv
  BY LogStarts
<1>2. LogInv /\ [LogNext]_logvars => LogInv'
  BY LogStep, LogStutters
<1>3. QED
  BY <1>1, <1>2, PTL DEF LogSpec

\* The files hold nothing but lines of their kind, an agent is never without a
\* campaign and a lead of the kinds the code gives her, and no program is about
\* to write what is not a disposition.
THEOREM LogTypeCorrect == LogSpec => []TypeOK
<1>1. LogInv => TypeOK
  BY DEF LogInv
<1>2. QED
  BY <1>1, LogAlways, PTL

\* writeAgentLog, writeDispo and the programs beside the daemon: every call
\* whose events came in order has, for ever, a line of its own, with its lead
\* and its disposition, unless two programs met at the file.
THEOREM CallsAreKept == LogSpec => []OrderlyCallsAreKept
<1>1. LogInv => OrderlyCallsAreKept
  <2> SUFFICES ASSUME LogInv, NEW i \in DOMAIN kept
               PROVE  LET k == kept[i]
                          f == file[<<k.agent, k.campaign>>]
                      IN  /\ k.line \in DOMAIN f
                          /\ <<k.agent, k.campaign>> \notin torn =>
                               /\ f[k.line].lead = k.lead
                               /\ f[k.line].dispo = <<k.dispo>>
                          /\ \A j \in DOMAIN kept \ {i} :
                               kept[j].agent = k.agent /\ kept[j].campaign = k.campaign
                                 => kept[j].line # k.line
    BY DEF OrderlyCallsAreKept
  <2>1. LET k == <<kept[i].agent, kept[i].campaign>> IN
          /\ kept[i].line \in DOMAIN file[k]
          /\ k \notin torn => /\ file[k][kept[i].line].lead = kept[i].lead
                              /\ file[k][kept[i].line].dispo = <<kept[i].dispo>>
    BY DEF LogInv, KeptInv, Keeps
  <2>2. ASSUME NEW j \in DOMAIN kept, j # i, kept[j].agent = kept[i].agent,
               kept[j].campaign = kept[i].campaign
        PROVE  kept[j].line # kept[i].line
    <3>1. kept \in Seq(KeptType)
      BY DEF LogInv, TypeOK
    <3>2. kept[i].line \in Nat /\ kept[j].line \in Nat /\ i \in Nat /\ j \in Nat
      <4>1. kept[i] \in KeptType /\ kept[j] \in KeptType
        BY <3>1
      <4>2. i \in Nat /\ j \in Nat
        BY <3>1
      <4>3. QED
        BY <4>1, <4>2 DEF KeptType
    <3>3. CASE i < j
      <4>1. kept[i].line < kept[j].line
        BY <2>2, <3>3 DEF LogInv, OrderInv, Follows
      <4>2. QED
        BY <3>2, <4>1
    <3>4. CASE j < i
      <4>1. kept[j].line < kept[i].line
        BY <2>2, <3>4 DEF LogInv, OrderInv, Follows
      <4>2. QED
        BY <3>2, <4>1
    <3>5. QED
      BY <2>2, <3>2, <3>3, <3>4
  <2>3. QED
    BY <2>1, <2>2
<1>2. QED
  BY <1>1, LogAlways, PTL

\* writeAgentLog and __writeDispo: no step takes a line away or changes it, but
\* for the disposition of the last one, which comes once unless two programs
\* met at the file.
THEOREM LinesAreNotRewritten == LogSpec => LinesStay
<1>1. LogInv /\ [LogNext]_logvars => [\A k \in Files : Stays(file[k], file'[k], k \in torn')]_logvars
  BY LogStep DEF Held
<1>2. QED
  BY <1>1, LogAlways, PTL DEF LogSpec, LinesStay
=============================================================================
