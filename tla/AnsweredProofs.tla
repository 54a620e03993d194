---------------------------- MODULE AnsweredProofs ----------------------------
(***************************************************************************)
(* Theorems about what other people, and the machine that listens, do to a *)
(* campaign, in the order MCAnswered runs them: the administrators' files  *)
(* and pages, the agent's page, and the detection of an answer.  The parts *)
(* share no variable and each has an inductive invariant of its own.       *)
(***************************************************************************)
EXTENDS CrmPage, Detect, AdminFiles, AdminPages, FiniteSetTheorems, SequenceTheorems, TLAPS

(* The files of Asterisk *)

\* A request that reads or writes has an edit it does so for.
WorkInv ==
  /\ "agents" \in DOMAIN conf
  /\ DOMAIN todo = Admins /\ DOMAIN work = Admins
  /\ \A u \in Admins : /\ "stage" \in DOMAIN work[u]
                       /\ work[u].stage \in {"read", "writing"} => todo[u] # <<>>
FilesInv == WorkInv /\ AsteriskHasTheFile

\* Nobody is writing agents.conf, and Asterisk is not yet to be told.
Settled == \A u \in Admins : work[u].stage # "reload" /\ ~ Busy(u, "agents")

LEMMA FilesInitInv == FilesInit => FilesInv
<1> SUFFICES ASSUME FilesInit PROVE FilesInv
  OBVIOUS
<1>1. /\ "agents" \in DOMAIN conf
      /\ conf["agents"] = <<Other, Line("agent", FirstAgent), Line("agent", FirstAgent + 1)>>
  BY DEF FilesInit
<1>2. Listed(conf["agents"], "agent") = {FirstAgent, FirstAgent + 1}
  <2> DEFINE lines == <<Other, Line("agent", FirstAgent), Line("agent", FirstAgent + 1)>>
  <2>1. /\ DOMAIN lines = {1, 2, 3}
        /\ lines[1].is = "other" /\ lines[2].is = "agent" /\ lines[3].is = "agent"
        /\ lines[2].of = FirstAgent /\ lines[3].of = FirstAgent + 1
    BY DEF Other, Line
  <2> HIDE DEF lines
  <2>2. {j \in DOMAIN lines : lines[j].is = "agent"} = {2, 3}
    BY <2>1
  <2>3. Listed(lines, "agent") = {FirstAgent, FirstAgent + 1}
    BY <2>1, <2>2 DEF Listed
  <2>4. QED BY <1>1, <2>3 DEF lines
<1>3. WorkInv
  BY <1>1 DEF FilesInit, WorkInv, NoWork
<1>4. known = {FirstAgent, FirstAgent + 1}
  BY DEF FilesInit
<1>5. QED BY <1>2, <1>3, <1>4 DEF FilesInv, AsteriskHasTheFile

\* What leaves agents.conf and what Asterisk knows alone, and settles nothing.
LEMMA NothingSettled ==
  ASSUME FilesInv, Settled' => Settled \/ missed',
         conf'["agents"] = conf["agents"], known' = known, missed' = missed
  PROVE  AsteriskHasTheFile'
BY DEF FilesInv, AsteriskHasTheFile, Settled

LEMMA AsksInv ==
  ASSUME FilesInv, NEW u \in Admins, NEW edits, Asks(u, edits)
  PROVE  FilesInv'
<1>1. /\ work[u].stage = "idle" /\ todo' = [todo EXCEPT ![u] = edits]
      /\ UNCHANGED <<conf, known, work, missed>>
  BY DEF Asks, AtRest, NoWork
<1>2. DOMAIN todo' = Admins /\ \A v \in Admins : v # u => todo'[v] = todo[v]
  BY <1>1 DEF FilesInv, WorkInv
<1>3. WorkInv'
  BY <1>1, <1>2 DEF FilesInv, WorkInv
<1>4. Settled' => Settled
  BY <1>1, <1>2 DEF Settled, Busy, TaskOf
<1>5. QED BY <1>1, <1>3, <1>4, NothingSettled DEF FilesInv

LEMMA BeginInv == ASSUME FilesInv, NEW u \in Admins, Begin(u) PROVE FilesInv'
<1>1. /\ todo[u] # <<>> /\ work[u].stage = "idle"
      /\ UNCHANGED <<conf, known, todo, missed>>
  BY DEF Begin, NoWork
<1>2. /\ DOMAIN work' = Admins
      /\ \A v \in Admins : "stage" \in DOMAIN work'[v]
      /\ work'[u].stage \in {"read", "writing"}
      /\ \A v \in Admins : v # u => work'[v].stage = work[v].stage
  BY DEF Begin, FilesInv, WorkInv
<1>3. WorkInv'
  BY <1>1, <1>2 DEF FilesInv, WorkInv
<1>4. Settled' => Settled
  BY <1>1, <1>2 DEF Settled, Busy, TaskOf
<1>5. QED BY <1>1, <1>3, <1>4, NothingSettled DEF FilesInv

\* A file emptied or longer by a line.
LEMMA WritesInv ==
  ASSUME FilesInv, NEW u \in Admins, work[u].stage \in {"read", "writing"},
         "agents" \in DOMAIN conf',
         FileOf(TaskOf(u)) # "agents" => conf'["agents"] = conf["agents"],
         DOMAIN work' = Admins, \A v \in Admins : "stage" \in DOMAIN work'[v],
         work'[u].stage = "writing",
         \A v \in Admins : v # u => work'[v].stage = work[v].stage,
         UNCHANGED <<known, todo, missed>>
  PROVE  FilesInv'
<1>1. todo[u] # <<>>
  BY DEF FilesInv, WorkInv
<1>2. WorkInv'
  BY <1>1 DEF FilesInv, WorkInv
<1>3. CASE FileOf(TaskOf(u)) = "agents"
  <2>1. Busy(u, "agents")'
    BY <1>1, <1>3 DEF Busy, TaskOf
  <2>2. QED BY <1>2, <2>1 DEF FilesInv, AsteriskHasTheFile
<1>4. CASE FileOf(TaskOf(u)) # "agents"
  <2>1. conf'["agents"] = conf["agents"]
    BY <1>4 DEF FilesInv, WorkInv
  <2>2. Settled' => Settled
    BY <1>4 DEF Settled, Busy, TaskOf
  <2>3. QED BY <1>2, <2>1, <2>2, NothingSettled DEF FilesInv
<1>5. QED BY <1>3, <1>4

LEMMA TruncateInv == ASSUME FilesInv, NEW u \in Admins, Truncate(u) PROVE FilesInv'
<1>1. /\ work[u].stage = "read" /\ work' = [work EXCEPT ![u].stage = "writing"]
      /\ conf' = [conf EXCEPT ![FileOf(TaskOf(u))] = Mixed(u, FileOf(TaskOf(u)), <<>>)]
      /\ UNCHANGED <<known, todo, missed>>
  BY DEF Truncate
<1>2. /\ DOMAIN work' = Admins /\ \A v \in Admins : "stage" \in DOMAIN work'[v]
      /\ work'[u].stage = "writing"
      /\ \A v \in Admins : v # u => work'[v].stage = work[v].stage
      /\ "agents" \in DOMAIN conf'
      /\ FileOf(TaskOf(u)) # "agents" => conf'["agents"] = conf["agents"]
  BY <1>1 DEF FilesInv, WorkInv
<1>3. QED BY <1>1, <1>2, WritesInv

LEMMA WriteLineInv == ASSUME FilesInv, NEW u \in Admins, WriteLine(u) PROVE FilesInv'
<1> DEFINE f == FileOf(TaskOf(u))
           lines == Mixed(u, f, Append(conf[f], Head(work[u].lines)))
<1>1. /\ work[u].stage = "writing" /\ work' = [work EXCEPT ![u].lines = Tail(work[u].lines)]
      /\ conf' = [conf EXCEPT ![f] = lines]
      /\ UNCHANGED <<known, todo, missed>>
  BY DEF WriteLine
<1> HIDE DEF lines
<1>2. /\ DOMAIN work' = Admins /\ \A v \in Admins : "stage" \in DOMAIN work'[v]
      /\ work'[u].stage = "writing"
      /\ \A v \in Admins : v # u => work'[v].stage = work[v].stage
      /\ "agents" \in DOMAIN conf'
      /\ FileOf(TaskOf(u)) # "agents" => conf'["agents"] = conf["agents"]
  BY <1>1 DEF FilesInv, WorkInv
<1>3. QED BY <1>1, <1>2, WritesInv

LEMMA CloseInv == ASSUME FilesInv, NEW u \in Admins, Close(u) PROVE FilesInv'
<1>1. /\ work[u].stage = "writing"
      /\ work' = [work EXCEPT ![u] = [NoWork EXCEPT !.stage =
                     IF FileOf(TaskOf(u)) = "agents" THEN "reload" ELSE "idle"]]
      /\ todo' = [todo EXCEPT ![u] = Tail(todo[u])]
      /\ UNCHANGED <<conf, known, missed>>
  BY DEF Close
<1>2. /\ DOMAIN work' = Admins /\ DOMAIN todo' = Admins
      /\ "stage" \in DOMAIN work'[u]
      /\ work'[u].stage = IF FileOf(TaskOf(u)) = "agents" THEN "reload" ELSE "idle"
      /\ \A v \in Admins : v # u => work'[v] = work[v] /\ todo'[v] = todo[v]
  BY <1>1 DEF FilesInv, WorkInv, NoWork
<1>3. WorkInv'
  BY <1>1, <1>2 DEF FilesInv, WorkInv
<1>4. Settled' => Settled
  <2> SUFFICES ASSUME Settled' PROVE Settled
    OBVIOUS
  <2>1. FileOf(TaskOf(u)) # "agents"
    BY <1>2 DEF Settled
  <2>2. QED BY <1>1, <1>2, <2>1 DEF Settled, Busy, TaskOf
<1>5. QED BY <1>1, <1>3, <1>4, NothingSettled DEF FilesInv

LEMMA ReloadInv ==
  ASSUME FilesInv, NEW u \in Admins, reloadAgents(u) \/ reloadFails(u)
  PROVE  FilesInv'
<1>1. /\ work' = [work EXCEPT ![u] = NoWork] /\ conf' = conf
      /\ todo' = todo \/ todo' = [todo EXCEPT ![u] = <<>>]
      /\ missed' \/ known' = Listed(conf["agents"], "agent")
  BY DEF reloadAgents, reloadFails
<1>2. WorkInv'
  BY <1>1 DEF FilesInv, WorkInv, NoWork
<1>3. AsteriskHasTheFile'
  BY <1>1 DEF AsteriskHasTheFile
<1>4. QED BY <1>2, <1>3 DEF FilesInv

\* Whatever requests overlap: when they are done, Asterisk knows the agents that
\* are in agents.conf, unless it could not be told or the file is garbage.
THEOREM AsteriskKnows == FilesSpec => []AsteriskHasTheFile
<1>1. FilesInit => FilesInv
  BY FilesInitInv
<1>2. FilesInv /\ [FilesNext]_filevars => FilesInv'
  <2> SUFFICES ASSUME FilesInv, [FilesNext]_filevars PROVE FilesInv'
    OBVIOUS
  <2>1. ASSUME NEW u \in Admins, NEW edits, Asks(u, edits) PROVE FilesInv'
    BY <2>1, AsksInv
  <2>2. ASSUME NEW u \in Admins, doAdd(u) \/ doRemove(u) \/ doRemoveQueue(u)
                 \/ doFinishCreatingQueue(u) \/ doSaveScript(u) \/ doDeleteAgent(u)
                 \/ doFinishEditingAgent(u) \/ doFinishCreatingAgent(u) \/ doFinishCreatingCloser(u)
        PROVE  FilesInv'
    BY <2>1, <2>2 DEF doAdd, doRemove, doRemoveQueue, doFinishCreatingQueue, doSaveScript, doDeleteAgent,
                      doFinishEditingAgent, doFinishCreatingAgent, doFinishCreatingCloser
  <2>3. ASSUME NEW u \in Admins, Begin(u) PROVE FilesInv'
    BY <2>3, BeginInv
  <2>4. ASSUME NEW u \in Admins, Truncate(u) \/ WriteLine(u) PROVE FilesInv'
    BY <2>4, TruncateInv, WriteLineInv
  <2>5. ASSUME NEW u \in Admins, Close(u) PROVE FilesInv'
    BY <2>5, CloseInv
  <2>6. ASSUME NEW u \in Admins, reloadAgents(u) \/ reloadFails(u) PROVE FilesInv'
    BY <2>6, ReloadInv
  <2>7. CASE StaffChanges
    BY <2>7 DEF StaffChanges, FilesInv, WorkInv, AsteriskHasTheFile, Busy, TaskOf
  <2>8. CASE UNCHANGED filevars
    BY <2>8 DEF filevars, FilesInv, WorkInv, AsteriskHasTheFile, Busy, TaskOf
  <2>9. QED BY <2>2, <2>3, <2>4, <2>5, <2>6, <2>7, <2>8 DEF FilesNext
<1>3. FilesInv => AsteriskHasTheFile
  BY DEF FilesInv
<1>4. QED BY <1>1, <1>2, <1>3, PTL DEF FilesSpec
-------------------------------------------------------------------------------
(* The pages administrators choose campaigns on *)

\* Buttons that change nothing of a campaign, nor do those of the page they lead to,
\* but for the menu's.
Harmless == {"login", "Main Menu", "Logout", "Finish Creating Agent", "Finish Creating Closer",
             "Finish Editing Agent", "Finish Creating Campaign", "Show Stats"}
Guarded == {"Backup Now", "Restore Now"}
\* Buttons of pages on which a campaign is chosen.
Choosing == {"Edit Globals", "Finish Creating Campaign"}

\* A page is the menu, hands on the campaign chosen, or can do no harm to any.
Carried(u) ==
  /\ \/ shown[u].buttons = MenuButtons
     \/ /\ shown[u].offers = {}
        /\ \/ shown[u].queue = chosen[u] /\ Choosing \cap shown[u].buttons = {}
           \/ shown[u].buttons \subseteq Harmless
  /\ request[u] = NoRequest \/ request[u].queue = chosen[u] \/ request[u].mode \in Harmless

\* A page offers to copy or to drop a table, and a request does so, only of a
\* campaign not started when the page was made.
Checked(u) ==
  /\ Guarded \cap shown[u].buttons # {} => shown[u].queue \notin active \ since[u]
  /\ request[u].mode \in Guarded => request[u].queue \notin active \ since[u]

PagesInv ==
  /\ DOMAIN shown = Browsers /\ DOMAIN request = Browsers
  /\ DOMAIN chosen = Browsers /\ DOMAIN since = Browsers
  /\ \A u \in Browsers :
       /\ request[u] = [mode |-> request[u].mode, queue |-> request[u].queue]
       /\ Carried(u) /\ Checked(u)

\* The menu does not change a campaign.
LEMMA ButtonSets ==
  /\ MenuButtons \cap Changing = {} /\ Harmless \cap Changing = {}
  /\ MenuButtons \cap Guarded = {} /\ Harmless \cap Guarded = {} /\ Guarded \subseteq Changing
  /\ "none" \notin Changing /\ "none" \notin Guarded
BY DEF MenuButtons, Changing, Harmless, Guarded

LEMMA NoRequestIs == NoRequest.mode = "none"
BY DEF NoRequest

\* Of each page: where its campaign comes from and what it offers.
PageFor(p, mode, q) ==
  \/ p.buttons = MenuButtons
  \/ /\ p.offers = {}
     /\ (p.queue = q /\ Choosing \cap p.buttons = {}) \/ p.buttons \subseteq Harmless
     /\ mode \in Harmless => p.buttons \subseteq Harmless
     /\ Guarded \cap p.buttons # {} => p.queue = q /\ q \notin active

\* A page of a campaign with buttons that neither copy nor drop.
LEMMA UnguardedPage ==
  ASSUME NEW mode, NEW q, NEW buttons, Guarded \cap buttons = {},
         (mode \notin Harmless /\ Choosing \cap buttons = {}) \/ buttons \subseteq Harmless
  PROVE  PageFor(Page(q, buttons), mode, q)
<1> DEFINE p == Page(q, buttons)
<1>1. p.queue = q /\ p.offers = {} /\ p.buttons = buttons \cup {"Main Menu", "Logout"}
  BY DEF Page, Plain
<1> HIDE DEF p
<1>2. /\ {"Main Menu", "Logout"} \subseteq Harmless /\ Guarded \cap {"Main Menu", "Logout"} = {}
      /\ Choosing \cap {"Main Menu", "Logout"} = {}
  BY DEF Harmless, Guarded, Choosing
<1>3. /\ Guarded \cap p.buttons = {} /\ (buttons \subseteq Harmless => p.buttons \subseteq Harmless)
      /\ Choosing \cap buttons = {} => Choosing \cap p.buttons = {}
  BY <1>1, <1>2
<1>4. PageFor(p, mode, q)
  BY <1>1, <1>3 DEF PageFor
<1>5. QED BY <1>4 DEF p

LEMMA HarmlessPage ==
  ASSUME NEW mode, NEW q, NEW r, NEW buttons, buttons \subseteq Harmless
  PROVE  PageFor(Page(r, buttons), mode, q)
<1> DEFINE p == Page(r, buttons)
<1>1. p.offers = {} /\ p.buttons = buttons \cup {"Main Menu", "Logout"}
  BY DEF Page, Plain
<1> HIDE DEF p
<1>2. p.buttons \subseteq Harmless
  BY <1>1 DEF Harmless
<1>3. Guarded \cap p.buttons = {}
  BY <1>2, ButtonSets
<1>4. PageFor(p, mode, q)
  BY <1>1, <1>2, <1>3 DEF PageFor
<1>5. QED BY <1>4 DEF p

\* The page of a copy, offered of a campaign that is stopped.
LEMMA GuardedPage ==
  ASSUME NEW mode, NEW q, NEW now \in Guarded, mode \notin Harmless
  PROVE  PageFor(IfStopped(q, now), mode, q)
<1>1. CASE q \in active
  <2>1. Guarded \cap {"Stop Campaign"} = {} /\ Choosing \cap {"Stop Campaign"} = {}
    BY DEF Guarded, Choosing
  <2>2. IfStopped(q, now) = Page(q, {"Stop Campaign"})
    BY <1>1 DEF IfStopped
  <2>3. QED BY <2>1, <2>2, UnguardedPage
<1>2. CASE q \notin active
  <2> DEFINE p == Page(q, {now})
  <2>1. IfStopped(q, now) = p
    BY <1>2 DEF IfStopped
  <2>2. p.queue = q /\ p.offers = {} /\ p.buttons = {now, "Main Menu", "Logout"}
    BY DEF Page, Plain
  <2> HIDE DEF p
  <2>3. Choosing \cap p.buttons = {}
    BY <2>2 DEF Choosing, Guarded
  <2>4. QED BY <1>2, <2>1, <2>2, <2>3 DEF PageFor
<1>3. QED BY <1>1, <1>2

LEMMA PagesFacts ==
  ASSUME NEW mode, NEW q, NEW p \in Pages(mode, q)
  PROVE  PageFor(p, mode, q)
<1>1. CASE mode \in {"login", "Main Menu"}
  <2>1. p \in showMenu(q)
    BY <1>1 DEF Pages
  <2>2. p.buttons = MenuButtons
    BY <2>1 DEF showMenu
  <2>3. QED BY <2>2 DEF PageFor
<1>2. CASE mode = "Logout"
  <2>1. p = Plain(NoName, {"login"})
    BY <1>2 DEF Pages, doLogout, LoginPage
  <2>2. p.offers = {} /\ p.buttons = {"login"}
    BY <2>1 DEF Plain
  <2>3. QED BY <2>2 DEF PageFor, Harmless, Guarded
<1>3. CASE mode = "Backup Data" \/ mode = "Restore Data"
  <2>1. p = IfStopped(q, "Backup Now") \/ p = IfStopped(q, "Restore Now")
    BY <1>3 DEF Pages, doBackupData, doRestoreData
  <2>4. {"Backup Now", "Restore Now"} \subseteq Guarded
    BY DEF Guarded
  <2>2. mode \notin Harmless
    BY <1>3 DEF Harmless
  <2>3. QED BY <2>1, <2>2, <2>4, GuardedPage
<1>4. CASE mode \in {"Create Agent", "Create Closer", "Edit Agent Info", "Agent Stats", "Agents Times",
                     "Show Stats", "Delete Agent/Closer", "Finish Creating Agent", "Finish Creating Closer",
                     "Finish Editing Agent"}
  <2>1. \E buttons \in SUBSET Harmless : p = Page(NoName, buttons)
    BY <1>4 DEF Pages, doCreateAgent, doCreateCloser, doEditAgentInfo, doShowAgentStats, doShowAgentTime,
                doShowStats, Done, Harmless
  <2>2. QED BY <2>1, HarmlessPage
<1>5. CASE mode \notin {"login", "Main Menu", "Logout", "Backup Data", "Restore Data",
                        "Create Agent", "Create Closer", "Edit Agent Info", "Agent Stats", "Agents Times",
                        "Show Stats", "Delete Agent/Closer", "Finish Creating Agent", "Finish Creating Closer",
                        "Finish Editing Agent"}
  <2>1. \E buttons : /\ p = Page(q, buttons) /\ Guarded \cap buttons = {}
                     /\ mode = "Finish Creating Campaign" => buttons = {}
                     /\ Choosing \cap buttons = {} \/ buttons = {"Finish Creating Campaign"}
    <3> DEFINE managing == {"Edit Campaign", "Edit Script", "Backup Data", "Restore Data",
                            "Create Reload Data", "Database Counts", "Remove Campaign"}
               sets == {{}, {"Add", "Remove"}, managing \cup {"Stop Campaign"}, managing \cup {"Start Campaign"},
                        {"Start Campaign"}, {"Save Script"}, {"Add Filter", "Del Filter", "Save Filter Settings"},
                        {"Save Campaign Settings"}, {"Save Global Settings"}, {"Finish Creating Campaign"},
                        {"Show Stats"}, {"Import Records"}, {"Export Records"}, {"Campaign Reload"}}
    <3>1. \A buttons \in sets : /\ Guarded \cap buttons = {}
                                /\ Choosing \cap buttons = {} \/ buttons = {"Finish Creating Campaign"}
      BY DEF Guarded, Choosing
    <3>2. managing \cup (IF q \in active THEN {"Stop Campaign"} ELSE {"Start Campaign"}) \in sets
      OBVIOUS
    <3>3. doManageCampaign(q) = Page(q, managing \cup (IF q \in active THEN {"Stop Campaign"} ELSE {"Start Campaign"}))
      BY DEF doManageCampaign
    <3>4. /\ {} \in sets /\ {"Add", "Remove"} \in sets /\ {"Start Campaign"} \in sets /\ {"Save Script"} \in sets
          /\ {"Add Filter", "Del Filter", "Save Filter Settings"} \in sets
          /\ {"Save Campaign Settings"} \in sets /\ {"Save Global Settings"} \in sets
          /\ {"Finish Creating Campaign"} \in sets /\ {"Show Stats"} \in sets
          /\ {"Import Records"} \in sets /\ {"Export Records"} \in sets /\ {"Campaign Reload"} \in sets
      OBVIOUS
    <3> HIDE DEF managing, sets
    <3>5. CASE mode \in {"Edit Campaign Members", "Manage Campaign", "Backup Now", "Restored", "Edit Script",
                         "Edit Filters", "Edit Campaign", "Edit Globals", "Create Campaign", "Campaign Stats",
                         "Import Data", "Export Sales", "Create Reload Data", "Database Counts",
                         "All DB Counts", "DB Counts Today"}
      <4>1. \/ p \in {showEditQueueMembers(q), doManageCampaign(q), doBackupNow(q), doRestoreNow(q),
                      doEditScript(q), doEditFilters(q), doEditQueue(q), doEditGlobals(q), doCreateQueue(q)}
            \/ p \in {doShowCampaignStats(q), doImportData(q), doExportSales(q), doReloadData(q),
                      doShowDBCounts(q), doShowAllDBCounts(q)}
        BY <3>5 DEF Pages
      <4>2. \E buttons \in sets : p = Page(q, buttons)
        BY <3>2, <3>3, <3>4, <4>1 DEF showEditQueueMembers, doBackupNow, doRestoreNow, doEditScript,
             doEditFilters, doEditQueue, doEditGlobals, doCreateQueue, doShowCampaignStats, doImportData,
             doExportSales, doReloadData, doShowDBCounts, doShowAllDBCounts
      <4>3. mode # "Finish Creating Campaign"
        BY <3>5
      <4>4. QED BY <3>1, <4>2, <4>3
    <3>6. CASE mode \notin {"Edit Campaign Members", "Manage Campaign", "Backup Now", "Restored", "Edit Script",
                            "Edit Filters", "Edit Campaign", "Edit Globals", "Create Campaign", "Campaign Stats",
                            "Import Data", "Export Sales", "Create Reload Data", "Database Counts",
                            "All DB Counts", "DB Counts Today"}
      <4>1. p = Page(q, {})
        BY <1>5, <3>6 DEF Pages, Done, doExportRecords, doDataReload
      <4>2. QED BY <3>1, <3>4, <4>1
    <3>7. QED BY <3>5, <3>6
  <2>2. mode \in Harmless => mode = "Finish Creating Campaign"
    BY <1>5 DEF Harmless
  <2>3. PICK buttons : /\ p = Page(q, buttons) /\ Guarded \cap buttons = {}
                       /\ mode = "Finish Creating Campaign" => buttons = {}
                       /\ Choosing \cap buttons = {} \/ buttons = {"Finish Creating Campaign"}
    BY <2>1
  <2>4. (mode \notin Harmless /\ Choosing \cap buttons = {}) \/ buttons \subseteq Harmless
    BY <2>2, <2>3 DEF Harmless
  <2>5. QED BY <2>3, <2>4, UnguardedPage
<1>6. QED BY <1>1, <1>2, <1>3, <1>4, <1>5

LEMMA PagesInitInv == PagesInit => PagesInv
<1> SUFFICES ASSUME PagesInit PROVE PagesInv
  OBVIOUS
<1>1. /\ DOMAIN shown = Browsers /\ DOMAIN request = Browsers
      /\ DOMAIN chosen = Browsers /\ DOMAIN since = Browsers
  BY DEF PagesInit
<1>2. ASSUME NEW u \in Browsers
      PROVE  /\ request[u] = [mode |-> "none", queue |-> NoName]
             /\ shown[u].offers = {} /\ shown[u].buttons = {"login"}
  BY DEF PagesInit, NoRequest, LoginPage, Plain
<1>3. ASSUME NEW u \in Browsers PROVE Carried(u) /\ Checked(u)
  <2>1. /\ request[u].mode \notin Guarded /\ Guarded \cap {"login"} = {} /\ {"login"} \subseteq Harmless
        /\ request[u] = NoRequest
    <3>1. request[u] = NoRequest
      BY <1>2 DEF NoRequest
    <3>2. Guarded \cap {"login"} = {} /\ {"login"} \subseteq Harmless /\ "none" \notin Guarded
      BY DEF Harmless, Guarded
    <3>3. QED BY <3>1, <3>2, NoRequestIs
  <2>2. QED BY <1>2, <2>1 DEF Carried, Checked
<1>4. QED BY <1>1, <1>2, <1>3 DEF PagesInv

\* What leaves a browser alone, but for campaigns stopped, or started since.
LEMMA OthersInv ==
  ASSUME PagesInv, NEW v \in Browsers,
         shown'[v] = shown[v], request'[v] = request[v], chosen'[v] = chosen[v],
         active' \ since'[v] \subseteq active \ since[v]
  PROVE  /\ request'[v] = [mode |-> request'[v].mode, queue |-> request'[v].queue]
         /\ Carried(v)' /\ Checked(v)'
BY DEF PagesInv, Carried, Checked

\* A request answered with a page.
LEMMA AnswersInv ==
  ASSUME PagesInv, NEW u \in Browsers, request[u] # NoRequest,
         Answers(u, request[u].mode, For(u)),
         DOMAIN since' = Browsers,
         active' \subseteq active \/ request[u].mode = "Start Campaign",
         \A v \in Browsers : v # u => active' \ since'[v] \subseteq active \ since[v]
  PROVE  PagesInv'
<1> DEFINE mode == request[u].mode
           q == request[u].queue
<1>1. PICK p \in Pages(mode, q) : shown' = [shown EXCEPT ![u] = p]
  BY DEF Answers, For
<1>2. request' = [request EXCEPT ![u] = NoRequest] /\ chosen' = chosen
  BY DEF Answers
<1>3. /\ DOMAIN shown' = Browsers /\ DOMAIN request' = Browsers
      /\ shown'[u] = p /\ request'[u] = NoRequest
      /\ \A v \in Browsers : v # u => shown'[v] = shown[v] /\ request'[v] = request[v]
  BY <1>1, <1>2 DEF PagesInv
<1>4. PageFor(p, mode, q)
  BY PagesFacts
<1>5. q = chosen[u] \/ mode \in Harmless
  BY DEF PagesInv, Carried
<1>6. Guarded \cap p.buttons # {} => p.queue \notin active'
  <2>1. CASE mode = "Start Campaign"
    <3>1. p = Page(q, {})
      BY <1>1, <2>1 DEF Pages, Done
    <3>2. p.buttons = {"Main Menu", "Logout"}
      BY <3>1 DEF Page, Plain
    <3>3. QED BY <3>2 DEF Guarded
  <2>2. CASE active' \subseteq active
    <3>1. MenuButtons \cap Guarded = {}
      BY ButtonSets
    <3>2. Guarded \cap p.buttons # {} => p.queue \notin active
      BY <1>4, <3>1 DEF PageFor
    <3>3. QED BY <2>2, <3>2
  <2>3. QED BY <2>1, <2>2
<1> HIDE DEF mode, q
<1>7. Carried(u)'
  <2>1. \/ p.buttons = MenuButtons
        \/ /\ p.offers = {}
           /\ (p.queue = chosen[u] /\ Choosing \cap p.buttons = {}) \/ p.buttons \subseteq Harmless
    BY <1>4, <1>5 DEF PageFor
  <2>2. QED BY <1>2, <1>3, <2>1 DEF Carried
<1>8. Checked(u)'
  <2>1. NoRequest.mode \notin Guarded
    BY NoRequestIs, ButtonSets
  <2>2. QED BY <1>3, <1>6, <2>1 DEF Checked
<1>9. request'[u] = [mode |-> request'[u].mode, queue |-> request'[u].queue]
  BY <1>3 DEF NoRequest
<1>10. ASSUME NEW v \in Browsers, v # u
       PROVE  /\ request'[v] = [mode |-> request'[v].mode, queue |-> request'[v].queue]
              /\ Carried(v)' /\ Checked(v)'
  <2>1. /\ shown'[v] = shown[v] /\ request'[v] = request[v] /\ chosen'[v] = chosen[v]
        /\ active' \ since'[v] \subseteq active \ since[v]
    BY <1>2, <1>3, <1>10
  <2>2. QED BY <2>1, OthersInv
<1>11. DOMAIN chosen' = Browsers
  BY <1>2 DEF PagesInv
<1>12. QED BY <1>3, <1>7, <1>8, <1>9, <1>10, <1>11 DEF PagesInv

LEMMA ClickInv == ASSUME PagesInv, NEW u \in Browsers, Click(u) PROVE PagesInv'
<1>1. PICK mode \in shown[u].buttons, q \in {shown[u].queue} \cup shown[u].offers :
        \E name \in IF mode = "Finish Creating Campaign" THEN Managed ELSE {q} :
          /\ request' = [request EXCEPT ![u] = [mode |-> mode, queue |-> name]]
          /\ chosen' = IF "Edit Globals" \in shown[u].buttons \/ mode = "Finish Creating Campaign"
                       THEN [chosen EXCEPT ![u] = name] ELSE chosen
  BY DEF Click
<1>2. PICK name \in IF mode = "Finish Creating Campaign" THEN Managed ELSE {q} :
          /\ request' = [request EXCEPT ![u] = [mode |-> mode, queue |-> name]]
          /\ chosen' = IF "Edit Globals" \in shown[u].buttons \/ mode = "Finish Creating Campaign"
                       THEN [chosen EXCEPT ![u] = name] ELSE chosen
  BY <1>1
<1>3. UNCHANGED <<shown, since, active>>
  BY DEF Click, datavars
<1>4. /\ DOMAIN request' = Browsers /\ request'[u] = [mode |-> mode, queue |-> name]
      /\ request'[u].mode = mode /\ request'[u].queue = name
      /\ \A v \in Browsers : v # u => request'[v] = request[v]
  BY <1>2 DEF PagesInv
<1>5. DOMAIN chosen' = Browsers /\ \A v \in Browsers : v # u => chosen'[v] = chosen[v]
  BY <1>2 DEF PagesInv
<1>6. mode = "Finish Creating Campaign" \/ name = q
  BY <1>2
<1>7. CASE shown[u].buttons = MenuButtons
  <2>1. chosen'[u] = name
    BY <1>2, <1>7 DEF MenuButtons, PagesInv
  <2>2. mode \notin Guarded /\ Guarded \cap shown[u].buttons = {}
    BY <1>7, ButtonSets
  <2>3. Carried(u)'
    BY <1>3, <1>4, <1>7, <2>1 DEF Carried
  <2>4. Checked(u)'
    BY <1>3, <1>4, <2>2 DEF Checked
  <2>5. QED BY <1>3, <1>4, <1>5, <2>3, <2>4, OthersInv DEF PagesInv
<1>8. CASE shown[u].buttons # MenuButtons
  <2>1. /\ shown[u].offers = {} /\ q = shown[u].queue
        /\ \/ shown[u].queue = chosen[u] /\ Choosing \cap shown[u].buttons = {}
           \/ shown[u].buttons \subseteq Harmless
    BY <1>1, <1>8 DEF PagesInv, Carried
  <2>2. CASE shown[u].buttons \subseteq Harmless
    <3>1. mode \in Harmless /\ mode \notin Guarded /\ Guarded \cap shown[u].buttons = {}
      BY <2>2, ButtonSets
    <3>2. Carried(u)'
      BY <1>3, <1>4, <2>1, <2>2, <3>1 DEF Carried
    <3>3. Checked(u)'
      BY <1>3, <1>4, <3>1 DEF Checked
    <3>4. QED BY <1>3, <1>4, <1>5, <3>2, <3>3, OthersInv DEF PagesInv
  <2>3. CASE shown[u].queue = chosen[u] /\ Choosing \cap shown[u].buttons = {}
    <3>1. chosen' = chosen /\ name = q
      BY <1>2, <1>6, <2>3 DEF Choosing
    <3>2. Carried(u)'
      BY <1>3, <1>4, <2>1, <2>3, <3>1 DEF Carried
    <3>3. Checked(u)
      BY DEF PagesInv
    <3>4. mode \in Guarded => Guarded \cap shown[u].buttons # {}
      OBVIOUS
    <3>5. Checked(u)'
      BY <1>3, <1>4, <2>1, <3>1, <3>3, <3>4 DEF Checked
    <3>6. QED BY <1>3, <1>4, <1>5, <3>2, <3>5, OthersInv DEF PagesInv
  <2>4. QED BY <2>1, <2>2, <2>3
<1>9. QED BY <1>7, <1>8

LEMMA ShowsInv == ASSUME PagesInv, NEW u \in Browsers, Shows(u) PROVE PagesInv'
<1>1. /\ request[u] # NoRequest /\ Answers(u, request[u].mode, For(u))
      /\ since' = [since EXCEPT ![u] = {}] /\ active' = active
  BY DEF Shows, Forgets, datavars
<1>2. DOMAIN since' = Browsers /\ \A v \in Browsers : v # u => since'[v] = since[v]
  BY <1>1 DEF PagesInv
<1>3. QED BY <1>1, <1>2, AnswersInv

LEMMA DiesInv == ASSUME PagesInv, NEW u \in Browsers, Dies(u) PROVE PagesInv'
<1>1. request' = [request EXCEPT ![u] = NoRequest] /\ UNCHANGED <<shown, chosen, since, active>>
  BY DEF Dies, datavars
<1>2. /\ DOMAIN request' = Browsers /\ request'[u] = NoRequest
      /\ \A v \in Browsers : v # u => request'[v] = request[v]
  BY <1>1 DEF PagesInv
<1>3. Carried(u)' /\ Checked(u)'
  BY <1>1, <1>2 DEF PagesInv, Carried, Checked, NoRequest, Guarded
<1>4. QED BY <1>1, <1>2, <1>3, OthersInv DEF PagesInv, NoRequest

LEMMA StartStopInv ==
  ASSUME PagesInv, NEW u \in Browsers, doStartQueue(u) \/ doStopQueue(u)
  PROVE  PagesInv'
<1>1. CASE doStartQueue(u)
  <2>1. /\ request[u].mode = "Start Campaign" /\ Answers(u, request[u].mode, For(u))
        /\ active' = active \cup {For(u)}
        /\ since' = [v \in Browsers |-> IF v = u THEN {} ELSE since[v] \cup {For(u)}]
    BY <1>1 DEF doStartQueue, Wants
  <2>2. request[u] # NoRequest
    BY <2>1, NoRequestIs
  <2>3. /\ DOMAIN since' = Browsers
        /\ \A v \in Browsers : v # u => active' \ since'[v] \subseteq active \ since[v]
    BY <2>1
  <2>4. Answers(u, request[u].mode, For(u)) /\ request[u].mode = "Start Campaign"
    BY <2>1
  <2>5. QED BY <2>2, <2>3, <2>4, AnswersInv
<1>2. CASE doStopQueue(u)
  <2>1. /\ request[u].mode = "Stop Campaign" /\ Answers(u, request[u].mode, For(u))
        /\ active' = active \ {For(u)} /\ since' = [since EXCEPT ![u] = {}]
    BY <1>2 DEF doStopQueue, Wants, Forgets
  <2>2. request[u] # NoRequest
    BY <2>1, NoRequestIs
  <2>3. /\ DOMAIN since' = Browsers
        /\ \A v \in Browsers : v # u => active' \ since'[v] \subseteq active \ since[v]
    BY <2>1 DEF PagesInv
  <2>4. Answers(u, request[u].mode, For(u)) /\ active' \subseteq active
    BY <2>1
  <2>5. QED BY <2>2, <2>3, <2>4, AnswersInv
<1>3. QED BY <1>1, <1>2

LEMMA CopiesInv ==
  ASSUME PagesInv, NEW u \in Browsers, BackUp(u) \/ Restore(u)
  PROVE  PagesInv'
<1>1. /\ request[u].mode \in {"Backup Now", "Restored"} /\ Answers(u, request[u].mode, For(u))
      /\ active' = active /\ since' = [since EXCEPT ![u] = {}]
  BY DEF BackUp, Restore, Wants, Forgets
<1>2. request[u] # NoRequest
  BY <1>1, NoRequestIs
<1>3. DOMAIN since' = Browsers /\ \A v \in Browsers : v # u => since'[v] = since[v]
  BY <1>1 DEF PagesInv
<1>4. QED BY <1>1, <1>2, <1>3, AnswersInv

LEMMA DropInv == ASSUME PagesInv, NEW u \in Browsers, Drop(u) PROVE PagesInv'
<1>1. /\ request[u].mode = "Restore Now" /\ request' = [request EXCEPT ![u].mode = "Restored"]
      /\ UNCHANGED <<shown, chosen, since, active>>
  BY DEF Drop, Wants
<1>2. /\ DOMAIN request' = Browsers
      /\ request'[u] = [mode |-> "Restored", queue |-> request[u].queue]
      /\ \A v \in Browsers : v # u => request'[v] = request[v]
  <2>1. request[u] = [mode |-> request[u].mode, queue |-> request[u].queue]
    BY DEF PagesInv
  <2>2. QED BY <1>1, <2>1 DEF PagesInv
<1>3. request[u].queue = chosen[u]
  <2>1. request[u] # NoRequest /\ request[u].mode \notin Harmless
    BY <1>1, NoRequestIs DEF Harmless
  <2>2. QED BY <2>1 DEF PagesInv, Carried
<1>4. Carried(u)' /\ Checked(u)'
  <2>1. request'[u].mode = "Restored" /\ request'[u].queue = request[u].queue /\ "Restored" \notin Guarded
    BY <1>2 DEF Guarded
  <2>2. QED BY <1>1, <1>3, <2>1 DEF PagesInv, Carried, Checked
<1>5. QED BY <1>1, <1>2, <1>4, OthersInv DEF PagesInv

\* What the API does to a campaign shows on no page.
LEMMA ApiInv ==
  ASSUME PagesInv, NEW q \in Managed, ApiCampaign(q) \/ ApiActive(q)
  PROVE  PagesInv'
<1>1. /\ UNCHANGED <<shown, request, chosen>>
      /\ \/ active' \subseteq active /\ since' = since
         \/ active' = active \cup {q} /\ since' = [u \in Browsers |-> since[u] \cup {q}]
  BY DEF ApiCampaign, ApiActive, Starts
<1>2. /\ DOMAIN since' = Browsers
      /\ \A v \in Browsers : active' \ since'[v] \subseteq active \ since[v]
  BY <1>1 DEF PagesInv
<1>3. QED BY <1>1, <1>2, OthersInv DEF PagesInv

\* Whatever pages lie between the menu and a request, and whatever others do: what
\* is changed belongs to the campaign chosen last, and a table is copied or dropped
\* only of a campaign stopped when the page was made, unless started since.
THEOREM PagesActOnChosen == PagesSpec => []ActsOnChosen
<1>1. PagesInit => PagesInv
  BY PagesInitInv
<1>2. PagesInv /\ [PagesNext]_pagesvars => PagesInv'
  <2> SUFFICES ASSUME PagesInv, [PagesNext]_pagesvars PROVE PagesInv'
    OBVIOUS
  <2>1. ASSUME NEW u \in Browsers, Click(u) \/ Shows(u) \/ Dies(u) PROVE PagesInv'
    BY <2>1, ClickInv, ShowsInv, DiesInv
  <2>2. ASSUME NEW u \in Browsers, doStartQueue(u) \/ doStopQueue(u) PROVE PagesInv'
    BY <2>2, StartStopInv
  <2>3. ASSUME NEW u \in Browsers, BackUp(u) \/ Restore(u) \/ Drop(u) PROVE PagesInv'
    BY <2>3, CopiesInv, DropInv
  <2>4. ASSUME NEW q \in Managed, ApiCampaign(q) \/ ApiActive(q) PROVE PagesInv'
    BY <2>4, ApiInv
  <2>5. CASE UNCHANGED pagesvars
    BY <2>5 DEF pagesvars, PagesInv, Carried, Checked
  <2>6. QED BY <2>1, <2>2, <2>3, <2>4, <2>5 DEF PagesNext
<1>3. PagesInv => ActsOnChosen
  <2> SUFFICES ASSUME PagesInv, NEW u \in Browsers
               PROVE  /\ request[u].mode \in Changing => request[u].queue = chosen[u]
                      /\ request[u].mode \in {"Backup Now", "Restore Now"} =>
                           request[u].queue \notin active \ since[u]
    BY DEF ActsOnChosen
  <2>1. request[u].mode \in Changing => request[u] # NoRequest /\ request[u].mode \notin Harmless
    BY ButtonSets DEF NoRequest
  <2>2. QED BY <2>1 DEF PagesInv, Carried, Checked, Guarded
<1>4. QED BY <1>1, <1>2, <1>3, PTL DEF PagesSpec
-------------------------------------------------------------------------------
(* The page of the agent *)

RefsType ==
  [queue : Campaigns \cup {None}, running : BOOLEAN, startable : BOOLEAN, channel : BOOLEAN,
   lead : Customers \cup {None}, leadCampaign : Campaigns \cup {None}, enabled : BOOLEAN,
   dispo : Buttons, date : BOOLEAN, modal : BOOLEAN, pauseAfterCall : BOOLEAN]
Kinds == {"lead", "search", "status", "wait", "pause", "save", "dispo"}
RequestType ==
  [kind : Kinds, campaign : Campaigns \cup {None}, lead : Customers \cup {None},
   dispo : Buttons, pause : BOOLEAN, told : BOOLEAN]
PageTypeOK ==
  /\ page \in RefsType
  /\ asked \subseteq RequestType
  /\ of \in Customers \cup {None}
  /\ searched \subseteq Customers
  /\ late \in BOOLEAN

\* A lead that may come is of this call, or was looked for in it, and is asked for
\* in its own campaign.
Asking(r) ==
  r.kind \in {"lead", "search"} =>
    /\ r.lead \in Customers /\ r.campaign = r.lead.campaign
    /\ late \/ r.lead \in searched \cup {of}

\* So is the lead the form shows; a telephone connected is so for a call.
FormInv ==
  /\ page.lead # None =>
       /\ page.leadCampaign = page.lead.campaign
       /\ late \/ page.lead \in searched \cup {of}
  /\ page.channel => of \in Customers
  /\ \A r \in asked : Asking(r)

PageInv == PageTypeOK /\ FormInv

\* Requests as the page makes them.
LEMMA RequestFacts ==
  ASSUME NEW kind \in Kinds
  PROVE  /\ Request(kind) \in RequestType /\ Request(kind).kind = kind /\ ~ Request(kind).told
         /\ \A pause \in BOOLEAN : SetPause(pause) \in RequestType /\ SetPause(pause).kind = "pause"
         /\ GetStatus \in RequestType /\ GetStatus.kind = "status"
         /\ SetOnWait \in RequestType /\ SetOnWait.kind = "wait"
BY DEF Request, RequestType, SetPause, GetStatus, SetOnWait, Kinds, Buttons

LEMMA GetLeadFacts ==
  ASSUME NEW l \in Customers
  PROVE  /\ GetLead(l) \in RequestType
         /\ GetLead(l).kind = "lead" /\ GetLead(l).lead = l /\ GetLead(l).campaign = l.campaign
         /\ [GetLead(l) EXCEPT !.kind = "search"] \in RequestType
         /\ [GetLead(l) EXCEPT !.kind = "search"].kind = "search"
         /\ [GetLead(l) EXCEPT !.kind = "search"].lead = l
         /\ [GetLead(l) EXCEPT !.kind = "search"].campaign = l.campaign
BY PageAssumption DEF GetLead, Request, RequestType, Kinds, Buttons

LEMMA DispoFacts ==
  ASSUME NEW p \in RefsType
  PROVE  /\ Dispo(p) \in RequestType /\ Dispo(p).kind = "dispo"
         /\ Dispo(p).lead = p.lead /\ Dispo(p).dispo = p.dispo /\ Dispo(p).campaign = p.queue
         /\ \A r \in Save(p) : /\ r \in RequestType /\ r.kind = "save" /\ p.lead # None
                               /\ r.lead = p.lead /\ r.campaign = p.leadCampaign /\ r.dispo = p.dispo
<1>1. /\ Dispo(p) \in RequestType /\ Dispo(p).kind = "dispo"
      /\ Dispo(p).lead = p.lead /\ Dispo(p).dispo = p.dispo /\ Dispo(p).campaign = p.queue
  BY DEF Dispo, Request, RequestType, RefsType, Kinds, Buttons
<1> DEFINE save == [Request("save") EXCEPT !.campaign = p.leadCampaign, !.lead = p.lead, !.dispo = p.dispo]
<1>2. /\ save \in RequestType /\ save.kind = "save"
      /\ save.lead = p.lead /\ save.campaign = p.leadCampaign /\ save.dispo = p.dispo
  BY DEF Request, RequestType, RefsType, Kinds, Buttons
<1>3. Save(p) = IF p.lead = None THEN {} ELSE {save}
  BY DEF Save
<1> HIDE DEF save
<1>4. QED BY <1>1, <1>2, <1>3

LEMMA PageInitInv == PageInit => PageInv
<1> SUFFICES ASSUME PageInit PROVE PageInv
  OBVIOUS
<1>1. page.lead = None /\ ~ page.channel /\ asked = {}
  BY DEF PageInit
<1>2. page \in RefsType
  BY DEF PageInit, RefsType, Buttons
<1>3. PageTypeOK
  BY <1>2 DEF PageInit, PageTypeOK
<1>4. FormInv
  BY <1>1 DEF FormInv
<1>5. QED BY <1>3, <1>4 DEF PageInv

\* What a handler does to the invariant: it keeps the form, or clears it, and sends
\* requests that ask for no lead, or for one of this call.
LEMMA HandledInv ==
  ASSUME PageInv, page' \in RefsType,
         \A r \in asked' : r \in asked \/ (r \in RequestType /\ Asking(r)'),
         page'.lead = None \/ (page'.lead = page.lead /\ page'.leadCampaign = page.leadCampaign),
         page'.channel => page.channel,
         UNCHANGED <<of, late>>, searched' \in SUBSET Customers, searched \subseteq searched'
  PROVE  PageInv'
<1>1. PageTypeOK'
  BY DEF PageInv, PageTypeOK
<1>2. \A r \in asked : Asking(r)'
  BY DEF PageInv, FormInv, Asking
<1>3. FormInv'
  BY <1>2 DEF PageInv, FormInv
<1>4. QED BY <1>1, <1>3 DEF PageInv

\* Requests other than for a lead.
LEMMA NoLead == ASSUME NEW r, r.kind \notin {"lead", "search"} PROVE Asking(r) /\ Asking(r)'
BY DEF Asking

\* What a step that sends a disposition to be saved sends.
SaveStep ==
  \A r \in asked' \ asked : r.kind = "save" =>
    /\ r.campaign = r.lead.campaign
    /\ late \/ r.lead \in searched \cup {of}
    /\ \A told \in asked' \ asked : told.kind = "dispo" /\ ~ told.told =>
         told.lead = r.lead /\ told.dispo = r.dispo /\ told.campaign = page.queue

LEMMA SelectQueueInv ==
  ASSUME PageInv, NEW q \in Queues, SelectQueue(q) PROVE PageInv' /\ SaveStep
<1>1. /\ page' = [page EXCEPT !.queue = q, !.startable = FALSE] /\ asked' = asked \cup {GetStatus}
      /\ UNCHANGED <<of, searched, late>>
  BY DEF SelectQueue, Handled
<1>2. page \in RefsType /\ q \in Campaigns /\ searched \subseteq Customers
  BY PageAssumption DEF PageInv, PageTypeOK
<1>3. /\ page' \in RefsType /\ page'.lead = page.lead /\ page'.leadCampaign = page.leadCampaign
      /\ page'.channel = page.channel
  BY <1>1, <1>2 DEF RefsType
<1>4. "status" \in Kinds
  BY DEF Kinds
<1>5. GetStatus \in RequestType /\ GetStatus.kind = "status"
  BY <1>4, RequestFacts
<1>6. PageInv'
  BY <1>1, <1>2, <1>3, <1>5, NoLead, HandledInv
<1>7. SaveStep
  BY <1>1, <1>5 DEF SaveStep
<1>8. QED BY <1>6, <1>7

LEMMA TogglePauseInv == ASSUME PageInv, togglePause PROVE PageInv' /\ SaveStep
<1>1. /\ page' = page /\ asked' = asked \cup {SetPause(page.running)} /\ UNCHANGED <<of, searched, late>>
  BY DEF togglePause, Handled
<1>2. page \in RefsType /\ page.running \in BOOLEAN /\ searched \subseteq Customers /\ "pause" \in Kinds
  BY DEF PageInv, PageTypeOK, RefsType, Kinds
<1>3. SetPause(page.running) \in RequestType /\ SetPause(page.running).kind = "pause"
  BY <1>2, RequestFacts
<1>4. PageInv'
  BY <1>1, <1>2, <1>3, NoLead, HandledInv
<1>5. SaveStep
  BY <1>1, <1>3 DEF SaveStep
<1>6. QED BY <1>4, <1>5

LEMMA SearchInv == ASSUME PageInv, NEW l \in Customers, handleSearch(l) PROVE PageInv' /\ SaveStep
<1> DEFINE search == [GetLead(l) EXCEPT !.kind = "search"]
<1>1. /\ page' = page /\ asked' = asked \cup {search} /\ searched' = searched \cup {l}
      /\ UNCHANGED <<of, late>>
  BY DEF handleSearch, Handled
<1>2. page \in RefsType /\ searched' \subseteq Customers
  BY <1>1 DEF PageInv, PageTypeOK
<1>3. search \in RequestType /\ search.kind = "search" /\ search.lead = l /\ search.campaign = l.campaign
  BY GetLeadFacts
<1> HIDE DEF search
<1>4. Asking(search)'
  BY <1>1, <1>3 DEF Asking
<1>5. PageInv'
  BY <1>1, <1>2, <1>3, <1>4, HandledInv
<1>6. SaveStep
  BY <1>1, <1>3 DEF SaveStep
<1>7. QED BY <1>5, <1>6

\* The disposition saved and the one the daemon is told are both of the form.
LEMMA DispositionInv ==
  ASSUME PageInv, NEW d \in Buttons, handleDisposition(d) PROVE PageInv' /\ SaveStep
<1> DEFINE p == [page EXCEPT !.dispo = d]
           last == IF p.pauseAfterCall THEN SetPause(page.running) ELSE SetOnWait
<1>1. UNCHANGED <<of, searched, late>>
  BY DEF handleDisposition
<1>2. page \in RefsType /\ searched \subseteq Customers /\ page.running \in BOOLEAN
      /\ "pause" \in Kinds
  BY DEF PageInv, PageTypeOK, RefsType, Kinds
<1>3. /\ p \in RefsType /\ p.lead = page.lead /\ p.leadCampaign = page.leadCampaign
      /\ p.channel = page.channel /\ p.queue = page.queue
  BY <1>2 DEF RefsType
<1>4. last \in RequestType /\ last.kind \in {"pause", "wait"}
  BY <1>2, RequestFacts
<1>5. \/ page' = [p EXCEPT !.modal = TRUE] /\ asked' = asked
      \/ page' = p /\ asked' = asked \cup Save(p) \cup {Dispo(p), last}
  BY DEF handleDisposition, Handled
<1> HIDE DEF p, last
<1>6. CASE page' = [p EXCEPT !.modal = TRUE] /\ asked' = asked
  <2>1. /\ page' \in RefsType /\ page'.lead = page.lead /\ page'.leadCampaign = page.leadCampaign
        /\ page'.channel = page.channel
    BY <1>3, <1>6 DEF RefsType
  <2>2. PageInv'
    BY <1>1, <1>2, <1>6, <2>1, HandledInv
  <2>3. QED BY <1>6, <2>2 DEF SaveStep
<1>7. CASE page' = p /\ asked' = asked \cup Save(p) \cup {Dispo(p), last}
  <2>1. /\ Dispo(p) \in RequestType /\ Dispo(p).kind = "dispo"
        /\ Dispo(p).lead = p.lead /\ Dispo(p).dispo = p.dispo /\ Dispo(p).campaign = p.queue
        /\ \A r \in Save(p) : /\ r \in RequestType /\ r.kind = "save" /\ p.lead # None
                              /\ r.lead = p.lead /\ r.campaign = p.leadCampaign /\ r.dispo = p.dispo
    BY <1>3, DispoFacts
  <2>2. \A r \in asked' : r \in asked \/ (r \in RequestType /\ r.kind \in {"save", "dispo", "pause", "wait"})
    BY <1>4, <1>7, <2>1
  <2>3. \A r \in asked' : r \in asked \/ (r \in RequestType /\ Asking(r)')
    BY <2>2, NoLead
  <2>4. PageInv'
    BY <1>1, <1>2, <1>3, <1>7, <2>3, HandledInv
  <2>5. SaveStep
    <3> SUFFICES ASSUME NEW r \in asked' \ asked, r.kind = "save"
                 PROVE  /\ r.campaign = r.lead.campaign
                        /\ late \/ r.lead \in searched \cup {of}
                        /\ \A told \in asked' \ asked : told.kind = "dispo" /\ ~ told.told =>
                             told.lead = r.lead /\ told.dispo = r.dispo /\ told.campaign = page.queue
      BY DEF SaveStep
    <3>1. r \in Save(p)
      BY <1>4, <1>7, <2>1
    <3>2. p.lead # None /\ r.lead = p.lead /\ r.campaign = p.leadCampaign /\ r.dispo = p.dispo
      BY <2>1, <3>1
    <3>3. \A told \in asked' \ asked : told.kind = "dispo" => told = Dispo(p)
      BY <1>4, <1>7, <2>1
    <3>4. QED BY <1>3, <2>1, <3>2, <3>3 DEF PageInv, FormInv
  <2>6. QED BY <2>4, <2>5
<1>8. QED BY <1>5, <1>6, <1>7

\* The dialog: its last click saves the form.
LEMMA DialogInv ==
  ASSUME PageInv, PickDate \/ handleCBDateSelected \/ CancelDate PROVE PageInv' /\ SaveStep
<1>1. UNCHANGED <<of, searched, late>>
  BY DEF PickDate, handleCBDateSelected, CancelDate
<1>2. page \in RefsType /\ searched \subseteq Customers
  BY DEF PageInv, PageTypeOK
<1>3. /\ asked' = asked \/ asked' = asked \cup Save(page)
      /\ page' = [page EXCEPT !.date = TRUE] \/ page' = [page EXCEPT !.modal = FALSE]
  BY DEF PickDate, handleCBDateSelected, CancelDate, Handled
<1>4. /\ page' \in RefsType /\ page'.lead = page.lead /\ page'.leadCampaign = page.leadCampaign
      /\ page'.channel = page.channel
  BY <1>2, <1>3 DEF RefsType
<1>5. \A r \in Save(page) : /\ r \in RequestType /\ r.kind = "save" /\ page.lead # None
                            /\ r.lead = page.lead /\ r.campaign = page.leadCampaign
  BY <1>2, DispoFacts
<1>6. \A r \in Save(page) : Asking(r)'
  BY <1>5, NoLead
<1>7. \A r \in asked' : r \in asked \/ (r \in RequestType /\ Asking(r)')
  BY <1>3, <1>5, <1>6
<1>8. PageInv'
  BY <1>1, <1>2, <1>4, <1>7, HandledInv
<1>9. SaveStep
  BY <1>3, <1>5 DEF SaveStep, PageInv, FormInv
<1>10. QED BY <1>8, <1>9

\* A customer: the form is empty until her lead has come.
LEMMA BridgedInv ==
  ASSUME PageInv, NEW l \in Customers, Bridged(l) PROVE PageInv' /\ SaveStep
<1>1. /\ page' = [page EXCEPT !.channel = TRUE, !.enabled = TRUE, !.lead = None]
      /\ asked' = asked \cup {GetLead(l)} /\ of' = l /\ searched' = {}
      /\ late' = \E r \in asked : r.kind \in {"lead", "search"}
  BY DEF Bridged, BringePeer, Handled
<1>2. /\ GetLead(l) \in RequestType /\ GetLead(l).kind = "lead"
      /\ GetLead(l).lead = l /\ GetLead(l).campaign = l.campaign
  BY GetLeadFacts
<1>3. page' \in RefsType /\ page'.lead = None
  BY <1>1 DEF PageInv, PageTypeOK, RefsType
<1>4. PageTypeOK'
  BY <1>1, <1>2, <1>3 DEF PageInv, PageTypeOK
<1>5. Asking(GetLead(l))'
  BY <1>1, <1>2 DEF Asking
<1>6. \A r \in asked : Asking(r)'
  BY <1>1 DEF PageInv, FormInv, Asking
<1>7. PageInv'
  BY <1>1, <1>3, <1>4, <1>5, <1>6 DEF PageInv, FormInv
<1>8. SaveStep
  BY <1>1, <1>2 DEF SaveStep
<1>9. QED BY <1>7, <1>8

LEMMA BridgedAgainInv == ASSUME PageInv, BridgedAgain PROVE PageInv' /\ SaveStep
<1>1. /\ page.channel /\ page' = [page EXCEPT !.channel = TRUE, !.enabled = TRUE, !.lead = None]
      /\ asked' = asked \cup {GetLead(of)} /\ UNCHANGED <<of, searched, late>>
  BY DEF BridgedAgain, BringePeer, Handled
<1>2. of \in Customers /\ page \in RefsType /\ searched \subseteq Customers
  BY <1>1 DEF PageInv, PageTypeOK, FormInv
<1>3. /\ GetLead(of) \in RequestType /\ GetLead(of).kind = "lead"
      /\ GetLead(of).lead = of /\ GetLead(of).campaign = of.campaign
  BY <1>2, GetLeadFacts
<1>4. page' \in RefsType /\ page'.lead = None
  BY <1>1, <1>2 DEF RefsType
<1>5. Asking(GetLead(of))'
  BY <1>1, <1>2, <1>3 DEF Asking
<1>6. PageInv'
  BY <1>1, <1>2, <1>3, <1>4, <1>5, HandledInv
<1>7. SaveStep
  BY <1>1, <1>3 DEF SaveStep
<1>8. QED BY <1>6, <1>7

LEMMA DestroyedInv == ASSUME PageInv, ChannelDestroyed PROVE PageInv' /\ SaveStep
<1>1. /\ page' = [page EXCEPT !.queue = None, !.running = FALSE] /\ asked' = asked
      /\ UNCHANGED <<of, searched, late>>
  BY DEF ChannelDestroyed, Handled
<1>2. page \in RefsType /\ searched \subseteq Customers
  BY DEF PageInv, PageTypeOK
<1>3. /\ page' \in RefsType /\ page'.lead = page.lead /\ page'.leadCampaign = page.leadCampaign
      /\ page'.channel = page.channel
  BY <1>1, <1>2 DEF RefsType
<1>4. PageInv'
  BY <1>1, <1>2, <1>3, HandledInv
<1>5. QED BY <1>1, <1>4 DEF SaveStep

LEMMA ToldInv == ASSUME PageInv, NEW r \in asked, Told(r) PROVE PageInv' /\ SaveStep
<1> DEFINE told == [r EXCEPT !.told = TRUE]
<1>1. /\ r.kind \in {"wait", "dispo"} /\ asked' \subseteq asked \cup {told}
      /\ UNCHANGED <<page, of, searched, late>>
  BY DEF Told
<1>2. r \in RequestType /\ page \in RefsType /\ searched \subseteq Customers
  BY DEF PageInv, PageTypeOK
<1>3. told \in RequestType /\ told.kind = r.kind
  BY <1>2 DEF RequestType
<1> HIDE DEF told
<1>4. Asking(told)'
  BY <1>1, <1>3, NoLead
<1>5. PageInv'
  BY <1>1, <1>2, <1>3, <1>4, HandledInv
<1>6. SaveStep
  BY <1>1, <1>3 DEF SaveStep
<1>7. QED BY <1>5, <1>6

\* The lead an answer brings is the one it was asked for.
LEMMA LeadComesInv ==
  ASSUME PageInv, NEW r \in asked, LeadComes(r), UNCHANGED <<of, searched, late>>
  PROVE  PageInv' /\ SaveStep
<1>1. PICK found \in {r.lead, None} :
        page' = [page EXCEPT !.lead = found, !.leadCampaign = r.campaign] /\ asked' = asked \ {r}
  BY DEF LeadComes, Answered
<1>2. /\ r \in RequestType /\ page \in RefsType
      /\ r.lead \in Customers /\ r.campaign = r.lead.campaign
      /\ late \/ r.lead \in searched \cup {of}
  BY DEF LeadComes, PageInv, PageTypeOK, FormInv, Asking
<1>3. r.campaign \in Campaigns \cup {None} /\ found \in Customers \cup {None}
  BY <1>2 DEF RequestType
<1>4. /\ page' \in RefsType /\ page'.lead = found /\ page'.leadCampaign = r.campaign
      /\ page'.channel = page.channel
  BY <1>1, <1>2, <1>3 DEF RefsType
<1>5. PageTypeOK'
  BY <1>1, <1>4 DEF PageInv, PageTypeOK
<1>6. \A s \in asked' : Asking(s)'
  BY <1>1 DEF PageInv, FormInv, Asking
<1>7. FormInv'
  BY <1>1, <1>2, <1>4, <1>6 DEF PageInv, FormInv
<1>8. QED BY <1>1, <1>5, <1>7 DEF PageInv, SaveStep

LEMMA AnswerInv == ASSUME PageInv, NEW r \in asked, AnswerTo(r) PROVE PageInv' /\ SaveStep
<1>1. UNCHANGED <<of, searched, late>>
  BY DEF AnswerTo
<1>2. page \in RefsType /\ searched \subseteq Customers /\ SetOnWait \in RequestType /\ SetOnWait.kind = "wait"
  <2>1. "wait" \in Kinds
    BY DEF Kinds
  <2>2. QED BY <2>1, RequestFacts DEF PageInv, PageTypeOK
<1>3. CASE LeadComes(r)
  BY <1>1, <1>3, LeadComesInv
<1>4. CASE ~ LeadComes(r)
  <2>1. /\ asked' \subseteq asked \cup {SetOnWait}
        /\ page' \in RefsType
        /\ page'.lead = None \/ (page'.lead = page.lead /\ page'.leadCampaign = page.leadCampaign)
        /\ page'.channel => page.channel
    <3>1. CASE Saved(r)
      BY <1>2, <3>1 DEF Saved, Answered, RefsType
    <3>2. CASE NotSaved(r)
      BY <1>2, <3>2 DEF NotSaved, Answered, RefsType
    <3>3. CASE DispoAnswered(r)
      BY <1>2, <3>3 DEF DispoAnswered, Answered, RefsType
    <3>4. CASE PauseAnswered(r)
      <4>1. PICK Paused, InUse \in BOOLEAN :
              Answered(r, [page EXCEPT !.running = IF InUse THEN ~ Paused ELSE page.running,
                                       !.pauseAfterCall = Paused],
                       IF Paused THEN {} ELSE {SetOnWait})
        BY <3>4 DEF PauseAnswered
      <4>2. (IF InUse THEN ~ Paused ELSE page.running) \in BOOLEAN
        BY <1>2 DEF RefsType
      <4>3. QED BY <1>2, <4>1, <4>2 DEF Answered, RefsType
    <3>5. CASE StatusAnswered(r)
      BY <1>2, <3>5 DEF StatusAnswered, Answered, RefsType
    <3>6. CASE Refused(r)
      BY <1>2, <3>6 DEF Refused, Answered
    <3>7. QED BY <1>4, <3>1, <3>2, <3>3, <3>4, <3>5, <3>6 DEF AnswerTo
  <2>2. PageInv'
    BY <1>1, <1>2, <2>1, NoLead, HandledInv
  <2>3. SaveStep
    BY <1>2, <2>1 DEF SaveStep
  <2>4. QED BY <2>2, <2>3
<1>5. QED BY <1>3, <1>4

\* Whatever fails, and in whatever order clicks and answers come: a disposition is
\* saved for the call's lead, or one looked for in the call, in its own campaign, and
\* the daemon is told of the same lead and disposition, under the campaign the agent
\* is logged in to (handleDisposition and what it leaves to its child).
THEOREM PageSavesItsLead == PageSpec => SavesItsLead
<1>1. PageInit => PageInv
  BY PageInitInv
<1>2. PageInv /\ PageNext => PageInv' /\ SaveStep
  <2> SUFFICES ASSUME PageInv, PageNext PROVE PageInv' /\ SaveStep
    OBVIOUS
  <2>1. ASSUME NEW q \in Queues, SelectQueue(q) PROVE PageInv' /\ SaveStep
    BY <2>1, SelectQueueInv
  <2>2. ASSUME NEW l \in Customers, handleSearch(l) \/ Bridged(l) PROVE PageInv' /\ SaveStep
    BY <2>2, SearchInv, BridgedInv
  <2>3. ASSUME NEW d \in Buttons, handleDisposition(d) PROVE PageInv' /\ SaveStep
    BY <2>3, DispositionInv
  <2>4. CASE togglePause BY <2>4, TogglePauseInv
  <2>5. CASE PickDate \/ handleCBDateSelected \/ CancelDate
    BY <2>5, DialogInv
  <2>6. CASE BridgedAgain BY <2>6, BridgedAgainInv
  <2>7. CASE ChannelDestroyed BY <2>7, DestroyedInv
  <2>8. ASSUME NEW r \in asked, Told(r) \/ AnswerTo(r) PROVE PageInv' /\ SaveStep
    BY <2>8, ToldInv, AnswerInv
  <2>9. QED BY <2>1, <2>2, <2>3, <2>4, <2>5, <2>6, <2>7, <2>8 DEF PageNext
<1>3. PageInv /\ UNCHANGED pagevars => PageInv'
  BY DEF pagevars, PageInv, PageTypeOK, FormInv, Asking
<1>4. PageInv /\ [PageNext]_pagevars => [SaveStep]_pagevars
  BY <1>2
<1>5. PageInv /\ [PageNext]_pagevars => PageInv'
  BY <1>2, <1>3
<1>6. QED BY <1>1, <1>4, <1>5, PTL DEF PageSpec, SavesItsLead, SaveStep
-------------------------------------------------------------------------------
(* The detection *)

DetType ==
  [app : {"machine", "fax", "background"}, options : OptionSets \cup {{}}, exten : {"s", "fax", "talk"},
   at : {"listening", "returned"}, res : Int, clock : Nat, quiet : Nat, notsilent : BOOLEAN,
   start : Nat, fax : BOOLEAN, dtmf : BOOLEAN, talk : Int, machine : BOOLEAN, noise : Nat,
   round : Nat, toduration : Int]
Frame == [at : Nat, quiet : BOOLEAN]

\* Frames take time.
TimesInv ==
  /\ heard \in Seq(Frame)
  /\ \A i \in 1 .. Len(heard) : heard[i].at + (Len(heard) - i) <= det.clock
  /\ \A i, k \in 1 .. Len(heard) : i < k => heard[i].at + (k - i) <= heard[k].at

\* The silence counted is the one the frames end with.
RunInv ==
  /\ det.quiet <= Len(heard)
  /\ \A i \in (Len(heard) - det.quiet) + 1 .. Len(heard) : heard[i].quiet
  /\ det.quiet < Len(heard) => ~ heard[Len(heard) - det.quiet].quiet

\* The token that is open began at det.start; without one the silence is long.
Opens(i) == i = 1 \/ LongAt(i - 1)
OpenAt(i) ==
  /\ Opens(i)
  /\ det.start = heard[i].at
  /\ \A m \in i .. Len(heard) : ~ LongAt(m)
OpenInv ==
  /\ det.notsilent => \E i \in 1 .. Len(heard) : OpenAt(i)
  /\ ~ det.notsilent => Len(heard) = 0 \/ LongAt(Len(heard))

Length(i, k) == heard[k].at - heard[i].at - sildur
TalkAt(i, k) == i < k /\ IsToken(i, k) /\ Qualified(Length(i, k))
TalkInv ==
  /\ \A i, k \in 1 .. Len(heard) : TalkAt(i, k) => det.talk = Length(i, k)
  /\ det.talk # Nothing => \E i, k \in 1 .. Len(heard) : TalkAt(i, k) /\ det.talk = Length(i, k)

ListensInv == Listening => det.talk = Nothing /\ RunInv /\ OpenInv

NotQuiet == {i \in DOMAIN heard : ~ heard[i].quiet}
NoiseInv ==
  /\ det.noise = Cardinality(NotQuiet)
  /\ ~ Listening => (det.machine <=> det.noise >= machinetime)

DetectInv ==
  /\ det \in DetType
  /\ TimesInv
  /\ det.app = "machine" => NoiseInv
  /\ det.app # "machine" /\ "t" \notin det.options => TalkInv /\ ListensInv
  /\ det.app # "machine" /\ "t" \in det.options => det.talk = Nothing

LEMMA Numbers ==
  /\ sildur \in Nat /\ sildur > 0 /\ mindur \in Nat /\ mindur > 0 /\ maxdur \in Int
  /\ duration \in Nat /\ duration > 0
BY DetectAssumption

\* One more frame: those before it and what they were judged to be stay.
LEMMA Grown ==
  ASSUME heard \in Seq(Frame), NEW f \in Frame, heard' = Append(heard, f)
  PROVE  /\ heard' \in Seq(Frame) /\ Len(heard) \in Nat /\ Len(heard') = Len(heard) + 1
         /\ heard'[Len(heard) + 1] = f
         /\ \A i \in 1 .. Len(heard) : heard'[i] = heard[i]
         /\ \A k \in 1 .. Len(heard) : LongAt(k)' <=> LongAt(k)
         /\ \A i, k \in 1 .. Len(heard) : (TalkAt(i, k)' <=> TalkAt(i, k)) /\ Length(i, k)' = Length(i, k)
<1>1. /\ heard' \in Seq(Frame) /\ Len(heard) \in Nat /\ Len(heard') = Len(heard) + 1
      /\ heard'[Len(heard) + 1] = f
      /\ \A i \in 1 .. Len(heard) : heard'[i] = heard[i]
  OBVIOUS
<1>2. ASSUME NEW k \in 1 .. Len(heard) PROVE LongAt(k)' <=> LongAt(k)
  BY <1>1, Numbers DEF LongAt
<1>3. ASSUME NEW i \in 1 .. Len(heard), NEW k \in 1 .. Len(heard)
      PROVE  (TalkAt(i, k)' <=> TalkAt(i, k)) /\ Length(i, k)' = Length(i, k)
  <2>1. Length(i, k)' = Length(i, k)
    BY <1>1 DEF Length
  <2>2. LongAt(k)' <=> LongAt(k)
    BY <1>2
  <2>3. i = 1 \/ (LongAt(i - 1)' <=> LongAt(i - 1))
    <3>1. CASE i # 1
      <4>1. i - 1 \in 1 .. Len(heard)
        BY <1>1, <3>1
      <4>2. QED BY <4>1, <1>2
    <3>2. QED BY <3>1
  <2>4. ASSUME NEW m \in i .. k - 1 PROVE LongAt(m)' <=> LongAt(m)
    <3>1. m \in 1 .. Len(heard)
      BY <1>1
    <3>2. QED BY <3>1, <1>2
  <2>5. IsToken(i, k)' <=> IsToken(i, k)
    BY <2>2, <2>3, <2>4 DEF IsToken
  <2>6. QED BY <2>1, <2>5 DEF TalkAt, Qualified
<1>4. QED BY <1>1, <1>2, <1>3

\* The silence counted tells whether it is long.
LEMMA RunTells ==
  heard \in Seq(Frame) /\ RunInv /\ det.quiet \in Nat => (LongAt(Len(heard)) <=> det.quiet > sildur)
<1> SUFFICES ASSUME heard \in Seq(Frame), RunInv, det.quiet \in Nat
             PROVE  LongAt(Len(heard)) <=> det.quiet > sildur
  OBVIOUS
<1>1. Len(heard) \in Nat
  OBVIOUS
<1>2. CASE det.quiet > sildur
  <2>1. \A i \in Len(heard) - sildur .. Len(heard) : i \in (Len(heard) - det.quiet) + 1 .. Len(heard)
    BY <1>1, <1>2, Numbers
  <2>2. QED BY <1>1, <1>2, <2>1, Numbers DEF LongAt, RunInv
<1>3. CASE ~ (det.quiet > sildur)
  <2>1. Len(heard) > sildur => Len(heard) - det.quiet \in Len(heard) - sildur .. Len(heard)
    BY <1>1, <1>3, Numbers
  <2>2. Len(heard) > sildur => det.quiet < Len(heard)
    BY <1>1, <1>3, Numbers
  <2>3. QED BY <1>3, <2>1, <2>2 DEF LongAt, RunInv
<1>4. QED BY <1>2, <1>3

\* The next frame counts to it.
LEMMA RunGrows ==
  ASSUME heard \in Seq(Frame), RunInv, det.quiet \in Nat, NEW f \in Frame, heard' = Append(heard, f),
         det'.quiet = IF f.quiet THEN det.quiet + 1 ELSE 0
  PROVE  RunInv'
<1>1. /\ Len(heard) \in Nat /\ Len(heard') = Len(heard) + 1 /\ heard'[Len(heard) + 1] = f
      /\ \A i \in 1 .. Len(heard) : heard'[i] = heard[i]
  OBVIOUS
<1> DEFINE n == Len(heard)
           q == det.quiet
<1>2. n \in Nat /\ q \in Nat /\ q <= n /\ Len(heard') = n + 1 /\ heard'[n + 1] = f
  BY <1>1 DEF RunInv
<1>3. \A i \in (n - q) + 1 .. n : heard[i].quiet
  BY DEF RunInv
<1>4. q < n => ~ heard[n - q].quiet
  BY DEF RunInv
<1>5. CASE f.quiet
  <2>1. det'.quiet = q + 1
    BY <1>5
  <2>2. ASSUME NEW i \in (n - q) + 1 .. n + 1 PROVE heard'[i].quiet
    <3>1. CASE i = n + 1
      BY <1>2, <1>5, <3>1
    <3>2. CASE i # n + 1
      <4>1. i \in (n - q) + 1 .. n /\ i \in 1 .. n
        BY <1>2, <3>2
      <4>2. QED BY <1>1, <1>3, <4>1
    <3>3. QED BY <3>1, <3>2
  <2>3. ASSUME q + 1 < n + 1 PROVE ~ heard'[n - q].quiet
    <3>1. n - q \in 1 .. n /\ q < n
      BY <1>2, <2>3
    <3>2. QED BY <1>1, <1>4, <3>1
  <2>4. (n + 1) - (q + 1) = n - q
    BY <1>2
  <2>5. q + 1 <= n + 1
    BY <1>2
  <2> HIDE DEF n, q
  <2>6. QED BY <1>2, <2>1, <2>2, <2>3, <2>4, <2>5 DEF RunInv
<1>6. CASE ~ f.quiet
  <2>1. det'.quiet = 0
    BY <1>6
  <2>2. (n + 1) - 0 = n + 1 /\ 0 <= n + 1 /\ ((n + 1) - 0) + 1 .. n + 1 = {}
    BY <1>2
  <2> HIDE DEF n, q
  <2>3. QED BY <1>2, <1>6, <2>1, <2>2 DEF RunInv
<1>7. QED BY <1>5, <1>6

\* A frame more does not hurry the clock.
LEMMA TimesGrow ==
  ASSUME TimesInv, det.clock \in Nat, NEW gap \in Nat, NEW quiet \in BOOLEAN,
         det'.clock = det.clock + gap + 1,
         heard' = Append(heard, [at |-> det.clock + gap + 1, quiet |-> quiet])
  PROVE  TimesInv'
<1> DEFINE f == [at |-> det.clock + gap + 1, quiet |-> quiet]
           n == Len(heard)
           c == det.clock
<1>1. f \in Frame /\ heard \in Seq(Frame) /\ f.at = c + gap + 1
  BY DEF Frame, TimesInv
<1>2. /\ heard' \in Seq(Frame) /\ n \in Nat /\ Len(heard') = n + 1 /\ heard'[n + 1] = f
      /\ \A i \in 1 .. n : heard'[i] = heard[i]
  BY <1>1, Grown
<1>3. \A i \in 1 .. n : heard[i].at \in Nat
  <2> SUFFICES ASSUME NEW i \in 1 .. n PROVE heard[i].at \in Nat
    OBVIOUS
  <2>1. heard[i] \in Frame
    BY <1>1
  <2>2. QED BY <2>1 DEF Frame
<1>4. \A i \in 1 .. n : heard[i].at + (n - i) <= c
  BY DEF TimesInv
<1>5. \A i, k \in 1 .. n : i < k => heard[i].at + (k - i) <= heard[k].at
  BY DEF TimesInv
<1>6. c \in Nat /\ det'.clock = c + gap + 1
  OBVIOUS
<1> HIDE DEF f, n, c
<1>7. ASSUME NEW i \in 1 .. n PROVE heard'[i].at + ((n + 1) - i) <= c + gap + 1
  <2>1. PICK a \in Nat : heard'[i].at = a /\ a + (n - i) <= c
    BY <1>2, <1>3, <1>4
  <2>2. a + ((n + 1) - i) <= c + gap + 1
    BY <1>2, <1>6, <2>1
  <2>3. QED BY <2>1, <2>2
<1>8. ASSUME NEW i \in 1 .. n + 1 PROVE heard'[i].at + ((n + 1) - i) <= c + gap + 1
  <2>1. CASE i = n + 1
    <3>1. heard'[i].at = c + gap + 1 /\ (n + 1) - i = 0
      BY <1>1, <1>2, <2>1
    <3>2. c + gap + 1 \in Nat /\ (c + gap + 1) + 0 <= c + gap + 1
      BY <1>6
    <3>3. QED BY <3>1, <3>2
  <2>2. CASE i # n + 1
    <3>1. i \in 1 .. n
      BY <1>2, <2>2
    <3>2. QED BY <1>7, <3>1
  <2>3. QED BY <2>1, <2>2
<1>9. ASSUME NEW i \in 1 .. n + 1, NEW k \in 1 .. n + 1, i < k
      PROVE  heard'[i].at + (k - i) <= heard'[k].at
  <2>1. i \in 1 .. n
    BY <1>2, <1>9
  <2>2. CASE k = n + 1
    <3>1. heard'[k].at = c + gap + 1
      BY <1>1, <1>2, <2>2
    <3>2. QED BY <1>7, <2>1, <2>2, <3>1
  <2>3. CASE k # n + 1
    <3>1. k \in 1 .. n
      BY <1>2, <2>3
    <3>2. QED BY <1>2, <1>5, <1>9, <2>1, <3>1
  <2>4. QED BY <2>2, <2>3
<1>10. QED BY <1>2, <1>6, <1>8, <1>9 DEF TimesInv

\* A frame of silence before the silence is long makes it long only when sildur
\* frames of silence were before it: the token is longer than that.
IsLongEnough == \A i, k \in 1 .. Len(heard) : i < k /\ IsToken(i, k) => k - i >= sildur
LEMMA LongEnough == heard \in Seq(Frame) => IsLongEnough
<1> SUFFICES ASSUME heard \in Seq(Frame), NEW i \in 1 .. Len(heard), NEW k \in 1 .. Len(heard),
                    i < k, IsToken(i, k)
             PROVE  k - i >= sildur
  BY DEF IsLongEnough
<1>1. Len(heard) \in Nat
  OBVIOUS
<1>2. /\ k > sildur /\ \A j \in k - sildur .. k : heard[j].quiet
      /\ \A m \in i .. k - 1 : ~ LongAt(m)
      /\ i = 1 \/ LongAt(i - 1)
  BY DEF IsToken, LongAt
<1>3. CASE i = 1
  BY <1>1, <1>2, <1>3, Numbers
<1>4. CASE LongAt(i - 1)
  <2>1. /\ i - 1 > sildur /\ \A j \in (i - 1) - sildur .. i - 1 : heard[j].quiet
    BY <1>4 DEF LongAt
  <2>2. ~ LongAt(i)
    BY <1>1, <1>2
  <2>3. ~ heard[i].quiet
    <3> SUFFICES ASSUME heard[i].quiet PROVE LongAt(i)
      BY <2>2
    <3>1. i > sildur
      BY <2>1, Numbers
    <3>2. ASSUME NEW j \in i - sildur .. i PROVE heard[j].quiet
      <4>1. j = i \/ j \in (i - 1) - sildur .. i - 1
        BY Numbers
      <4>2. QED BY <2>1, <4>1
    <3>3. QED BY <3>1, <3>2 DEF LongAt
  <2>4. i \notin k - sildur .. k
    BY <1>2, <2>3
  <2>5. QED BY <2>4, Numbers
<1>5. QED BY <1>2, <1>3, <1>4

\* A token that ends at a frame has one beginning.
BeginsOnce ==
  \A i, j, k \in Nat \ {0} : i < k /\ j < k /\ IsToken(i, k) /\ IsToken(j, k) => i = j
LEMMA OneToken == BeginsOnce
<1> SUFFICES ASSUME NEW i \in Nat \ {0}, NEW j \in Nat \ {0}, NEW k \in Nat \ {0},
                    i < k, j < k, IsToken(i, k), IsToken(j, k)
             PROVE  i = j
  BY DEF BeginsOnce
<1>1. /\ i = 1 \/ LongAt(i - 1)
      /\ \A m \in i .. k - 1 : ~ LongAt(m)
  BY DEF IsToken
<1>2. /\ j = 1 \/ LongAt(j - 1)
      /\ \A m \in j .. k - 1 : ~ LongAt(m)
  BY DEF IsToken
<1>3. ~ (i < j)
  <2> SUFFICES ASSUME i < j PROVE FALSE
    OBVIOUS
  <2>1. j # 1 /\ j - 1 \in i .. k - 1
    OBVIOUS
  <2>2. QED BY <2>1, <1>1, <1>2 DEF IsToken
<1>4. ~ (j < i)
  <2> SUFFICES ASSUME j < i PROVE FALSE
    OBVIOUS
  <2>1. i # 1 /\ i - 1 \in j .. k - 1
    OBVIOUS
  <2>2. QED BY <2>1, <1>1, <1>2 DEF IsToken
<1>5. QED BY <1>3, <1>4

\* The frame with which the silence is long ends the token that is open.
LEMMA TokenEnds ==
  ASSUME heard \in Seq(Frame), NEW f \in Frame, heard' = Append(heard, f),
         NEW n \in Nat, n = Len(heard), NEW i \in 1 .. n, OpenAt(i), LongAt(n + 1)'
  PROVE  IsToken(i, n + 1)' /\ \A j \in 1 .. n : IsToken(j, n + 1)' => j = i
<1>1. /\ heard' \in Seq(Frame) /\ n \in Nat /\ Len(heard') = n + 1
      /\ \A k \in 1 .. n : LongAt(k)' <=> LongAt(k)
  BY Grown
<1>2. i \in 1 .. n /\ Opens(i) /\ \A m \in i .. n : ~ LongAt(m)
  BY DEF OpenAt
<1>3. i = 1 \/ LongAt(i - 1)'
  <2>1. CASE i # 1
    <3>1. i - 1 \in 1 .. n
      BY <1>1, <1>2, <2>1
    <3>2. QED BY <1>1, <1>2, <2>1, <3>1 DEF Opens
  <2>2. QED BY <2>1
<1>4. ASSUME NEW m \in i .. (n + 1) - 1 PROVE ~ LongAt(m)'
  <2>1. m \in 1 .. n /\ m \in i .. n
    BY <1>1, <1>2
  <2>2. QED BY <1>1, <1>2, <2>1
<1>5. IsToken(i, n + 1)'
  BY <1>3, <1>4 DEF IsToken
<1>6. BeginsOnce'
  BY OneToken, PTL
<1>7. \A a, b, k \in Nat \ {0} : a < k /\ b < k /\ IsToken(a, k)' /\ IsToken(b, k)' => a = b
  BY <1>6 DEF BeginsOnce
<1>8. ASSUME NEW j \in 1 .. n, IsToken(j, n + 1)' PROVE j = i
  <2>1. {i, j, n + 1} \subseteq Nat \ {0} /\ i < n + 1 /\ j < n + 1
    BY <1>1, <1>2
  <2>2. QED BY <1>5, <1>7, <1>8, <2>1
<1>9. QED BY <1>5, <1>8

\* Without a token open, or with a silence not long, no token ends.
LEMMA NoTokenEnds ==
  ASSUME heard \in Seq(Frame), NEW f \in Frame, heard' = Append(heard, f),
         NEW n \in Nat, n = Len(heard), ~ LongAt(n + 1)' \/ LongAt(n)
  PROVE  \A j \in 1 .. n : ~ IsToken(j, n + 1)'
<1>1. /\ heard' \in Seq(Frame) /\ n \in Nat /\ Len(heard') = n + 1
      /\ \A k \in 1 .. n : LongAt(k)' <=> LongAt(k)
  BY Grown
<1>2. SUFFICES ASSUME NEW j \in 1 .. n, IsToken(j, n + 1)' PROVE FALSE
  OBVIOUS
<1>3. LongAt(n + 1)' /\ \A m \in j .. (n + 1) - 1 : ~ LongAt(m)'
  BY <1>2 DEF IsToken
<1>4. n \in j .. (n + 1) - 1 /\ n \in 1 .. n
  BY <1>1, <1>2
<1>5. ~ LongAt(n)
  BY <1>1, <1>3, <1>4
<1>6. QED BY <1>3, <1>5

\* Talk stays what it was with a frame that ends no token of the right length.
LEMMA TalkStays ==
  ASSUME heard \in Seq(Frame), NEW f \in Frame, heard' = Append(heard, f), TalkInv, det'.talk = det.talk,
         NEW n \in Nat, n = Len(heard), \A j \in 1 .. n : ~ TalkAt(j, n + 1)'
  PROVE  TalkInv'
<1>1. /\ n \in Nat /\ Len(heard') = n + 1
      /\ \A i, k \in 1 .. n : (TalkAt(i, k)' <=> TalkAt(i, k)) /\ Length(i, k)' = Length(i, k)
  BY Grown
<1>2. /\ \A i, k \in 1 .. n : TalkAt(i, k) => det.talk = Length(i, k)
      /\ det.talk # Nothing => \E i, k \in 1 .. n : TalkAt(i, k) /\ det.talk = Length(i, k)
      /\ \A j \in 1 .. n : ~ TalkAt(j, n + 1)'
  BY DEF TalkInv
<1>3. ASSUME NEW i \in 1 .. n + 1, NEW k \in 1 .. n + 1, TalkAt(i, k)'
      PROVE  det'.talk = Length(i, k)'
  <2>1. i < k
    BY <1>3 DEF TalkAt
  <2>2. i \in 1 .. n /\ (k = n + 1 \/ k \in 1 .. n)
    BY <1>1, <2>1
  <2>3. QED BY <1>1, <1>2, <1>3, <2>2
<1>4. ASSUME det'.talk # Nothing
      PROVE  \E i, k \in 1 .. n + 1 : TalkAt(i, k)' /\ det'.talk = Length(i, k)'
  <2>1. PICK i \in 1 .. n, k \in 1 .. n : TalkAt(i, k) /\ det.talk = Length(i, k)
    BY <1>2, <1>4
  <2>2. i \in 1 .. n + 1 /\ k \in 1 .. n + 1
    BY <1>1
  <2>3. QED BY <1>1, <2>1, <2>2
<1>5. QED BY <1>1, <1>3, <1>4 DEF TalkInv

\* What a frame does to the application before it is looked at.
LEMMA Frames ==
  ASSUME det \in DetType, NEW gap \in Nat, NEW quiet \in BOOLEAN
  PROVE  LET now == [Silence(After(gap), quiet) EXCEPT !.res = IF quiet THEN 1 ELSE 0] IN
         /\ now \in DetType /\ After(gap) \in DetType
         /\ \A d \in {now, After(gap)} :
              /\ d.clock = det.clock + gap + 1 /\ d.app = det.app /\ d.options = det.options
              /\ d.at = det.at /\ d.talk = det.talk
              /\ d.notsilent = det.notsilent /\ d.start = det.start
         /\ now.quiet = IF quiet THEN det.quiet + 1 ELSE 0
<1>1. det.clock + gap + 1 \in Nat /\ det.quiet + 1 \in Nat
  BY DEF DetType
<1> DEFINE clock == det.clock + gap + 1
           d == After(gap)
<1>2. d = [det EXCEPT !.clock = clock]
  BY DEF After
<1> HIDE DEF clock
<1>3. /\ d \in DetType /\ d.clock = clock /\ d.app = det.app /\ d.options = det.options
      /\ d.at = det.at /\ d.talk = det.talk /\ d.quiet = det.quiet
      /\ d.notsilent = det.notsilent /\ d.start = det.start
  BY <1>1, <1>2 DEF DetType, clock
<1> DEFINE silent == IF quiet THEN det.quiet + 1 ELSE 0
           res == IF quiet THEN 1 ELSE 0
           now == [Silence(d, quiet) EXCEPT !.res = res]
<1>4. silent \in Nat /\ res \in Int
  BY <1>1
<1>5. now = [[d EXCEPT !.quiet = silent] EXCEPT !.res = res]
  BY <1>3 DEF Silence
<1> HIDE DEF d, silent, res
<1>6. /\ now \in DetType /\ now.clock = clock /\ now.app = det.app /\ now.options = det.options
      /\ now.at = det.at /\ now.talk = det.talk /\ now.quiet = silent
      /\ now.notsilent = det.notsilent /\ now.start = det.start
  <2> DEFINE e == [d EXCEPT !.quiet = silent]
  <2>1. /\ e \in DetType /\ e.clock = clock /\ e.app = det.app /\ e.options = det.options
        /\ e.at = det.at /\ e.talk = det.talk /\ e.quiet = silent
        /\ e.notsilent = det.notsilent /\ e.start = det.start
    BY <1>3, <1>4 DEF DetType
  <2>2. now = [e EXCEPT !.res = res]
    BY <1>5
  <2> HIDE DEF e, now
  <2>3. QED BY <1>4, <2>1, <2>2 DEF DetType
<1>7. QED BY <1>3, <1>6 DEF clock, silent, d, res

\* An open token has begun by the last frame.
LEMMA Began ==
  ASSUME TimesInv, NEW i \in 1 .. Len(heard), OpenAt(i)
  PROVE  det.start \in Nat /\ det.start + (Len(heard) - i) <= det.clock
<1>1. heard[i] \in Frame /\ heard[i].at + (Len(heard) - i) <= det.clock
  BY DEF TimesInv
<1>2. QED BY <1>1 DEF OpenAt, Frame

\* What a frame does to the token.
LEMMA AudioInv ==
  ASSUME heard \in Seq(Frame), NEW f \in Frame, heard' = Append(heard, f), OpenInv,
         NEW n \in Nat, n = Len(heard), ~ LongAt(n + 1)', det'.notsilent,
         det.notsilent => det'.start = det.start, ~ det.notsilent => det'.start = f.at
  PROVE  OpenInv'
<1>1. /\ Len(heard') = n + 1 /\ heard'[n + 1] = f
      /\ \A i \in 1 .. n : heard'[i] = heard[i]
      /\ \A k \in 1 .. n : LongAt(k)' <=> LongAt(k)
  BY Grown
<1>2. ASSUME NEW i \in 1 .. n + 1, i = 1 \/ LongAt(i - 1) PROVE Opens(i)'
  <2>1. CASE i = 1
    BY <2>1 DEF Opens
  <2>2. CASE i # 1
    <3>1. i - 1 \in 1 .. n
      BY <2>2
    <3>2. QED BY <1>1, <1>2, <2>2, <3>1 DEF Opens
  <2>3. QED BY <2>1, <2>2
<1>3. CASE det.notsilent
  <2>1. PICK i \in 1 .. n : OpenAt(i)
    BY <1>3 DEF OpenInv
  <2>2. Opens(i)'
    BY <1>2, <2>1 DEF OpenAt, Opens
  <2>3. \A m \in i .. n + 1 : ~ LongAt(m)'
    <3> SUFFICES ASSUME NEW m \in i .. n + 1 PROVE ~ LongAt(m)'
      OBVIOUS
    <3>1. CASE m = n + 1
      BY <3>1
    <3>2. CASE m # n + 1
      <4>1. m \in i .. n /\ m \in 1 .. n
        BY <3>2
      <4>2. QED BY <1>1, <2>1, <4>1 DEF OpenAt
    <3>3. QED BY <3>1, <3>2
  <2>4. det'.start = heard'[i].at
    BY <1>1, <1>3, <2>1 DEF OpenAt
  <2>5. i \in 1 .. n + 1
    OBVIOUS
  <2>6. QED BY <1>1, <2>2, <2>3, <2>4, <2>5 DEF OpenInv, OpenAt
<1>4. CASE ~ det.notsilent
  <2>1. n = 0 \/ LongAt(n)
    BY <1>4 DEF OpenInv
  <2>2. n + 1 = 1 \/ LongAt((n + 1) - 1)
    <3>1. (n + 1) - 1 = n /\ (n = 0 => n + 1 = 1)
      OBVIOUS
    <3>2. QED BY <2>1, <3>1
  <2>3. n + 1 \in 1 .. n + 1 /\ \A m \in n + 1 .. n + 1 : m = n + 1
    OBVIOUS
  <2>4. Opens(n + 1)'
    BY <1>2, <2>2, <2>3
  <2>5. det'.start = heard'[n + 1].at
    BY <1>1, <1>4
  <2>6. \A m \in n + 1 .. n + 1 : ~ LongAt(m)'
    BY <2>3
  <2>7. QED BY <1>1, <2>3, <2>4, <2>5, <2>6 DEF OpenInv, OpenAt
<1>5. QED BY <1>3, <1>4

\* An application returns with its other locals.
LEMMA Returned ==
  ASSUME NEW d \in DetType, NEW res \in Int
  PROVE  LET e == Returns(d, res) IN
         /\ e \in DetType /\ e.clock = d.clock /\ e.app = d.app /\ e.options = d.options
         /\ e.at = "returned" /\ e.talk = d.talk /\ e.quiet = d.quiet
         /\ e.noise = d.noise /\ e.machine = d.machine
BY DEF Returns, DetType

\* What a long silence does to the application.
Ms(d) == IF d.clock - d.start > sildur THEN d.clock - d.start - sildur ELSE 0
LEMMA Judged ==
  ASSUME NEW d \in DetType, det' \in Token(d)
  PROVE  /\ det' \in DetType /\ det'.clock = d.clock /\ det'.app = d.app /\ det'.options = d.options
         /\ det'.quiet = d.quiet
         /\ IF d.notsilent /\ Qualified(Ms(d))
            THEN det'.at = "returned" /\ det'.talk = Ms(d)
            ELSE det'.at = d.at /\ det'.talk = d.talk /\ ~ det'.notsilent
<1>1. Ms(d) \in Int
  BY Numbers DEF Ms, DetType
<1>2. CASE d.notsilent /\ Qualified(Ms(d))
  <2>1. det' \in {Returns([d EXCEPT !.talk = Ms(d), !.exten = exten], 0) : exten \in {d.exten, "talk"}}
    BY <1>2 DEF Token, Ms
  <2>2. PICK exten \in {"s", "fax", "talk"} : det' = Returns([d EXCEPT !.talk = Ms(d), !.exten = exten], 0)
    BY <2>1 DEF DetType
  <2> DEFINE ms == Ms(d)
  <2>3. ms \in Int
    BY <1>1
  <2>4. det' = Returns([d EXCEPT !.talk = ms, !.exten = exten], 0)
    BY <2>2
  <2> HIDE DEF ms
  <2>5. /\ det' \in DetType /\ det'.clock = d.clock /\ det'.app = d.app /\ det'.options = d.options
        /\ det'.at = "returned" /\ det'.talk = ms /\ det'.quiet = d.quiet
    <3> DEFINE e == [d EXCEPT !.talk = ms, !.exten = exten]
    <3>1. /\ e \in DetType /\ e.clock = d.clock /\ e.app = d.app /\ e.options = d.options
          /\ e.talk = ms /\ e.quiet = d.quiet
      BY <2>3 DEF DetType
    <3>2. det' = Returns(e, 0)
      BY <2>4
    <3> HIDE DEF e
    <3>3. QED BY <3>1, <3>2, Returned
  <2>6. QED BY <1>2, <2>5 DEF ms
<1>3. CASE ~ (d.notsilent /\ Qualified(Ms(d)))
  <2>1. det' = [d EXCEPT !.notsilent = FALSE]
    BY <1>3 DEF Token, Ms
  <2>2. /\ det' \in DetType /\ det'.clock = d.clock /\ det'.app = d.app /\ det'.options = d.options
        /\ det'.at = d.at /\ det'.talk = d.talk /\ det'.quiet = d.quiet /\ ~ det'.notsilent
    BY <2>1 DEF DetType
  <2>3. QED BY <1>3, <2>2
<1>4. QED BY <1>2, <1>3

\* A talk has a length.
LEMMA TalkHasLength ==
  ASSUME NEW ms \in Int, Qualified(ms) PROVE ms # Nothing
BY Numbers DEF Qualified, Nothing

\* A long silence after an open token.
LEMMA TokenInv ==
  ASSUME TimesInv, TalkInv, det.talk = Nothing, OpenInv, det.notsilent, det.clock \in Nat,
         NEW gap \in Nat, NEW f \in Frame, f.at = det.clock + gap + 1, heard' = Append(heard, f),
         NEW n \in Nat, n = Len(heard), LongAt(n + 1)',
         NEW ms, ms = IF f.at - det.start > sildur THEN f.at - det.start - sildur ELSE 0,
         IF Qualified(ms) THEN det'.talk = ms ELSE det'.talk = det.talk
  PROVE  TalkInv'
<1>1. heard \in Seq(Frame)
  BY DEF TimesInv
<1>2. /\ heard' \in Seq(Frame) /\ Len(heard') = n + 1 /\ heard'[n + 1] = f
      /\ \A i \in 1 .. n : heard'[i] = heard[i]
      /\ \A i, k \in 1 .. n : (TalkAt(i, k)' <=> TalkAt(i, k)) /\ Length(i, k)' = Length(i, k)
  BY <1>1, Grown
<1>3. PICK i \in 1 .. n : OpenAt(i)
  BY DEF OpenInv
<1>4. IsToken(i, n + 1)' /\ \A j \in 1 .. n : IsToken(j, n + 1)' => j = i
  BY <1>1, <1>3, TokenEnds
<1>5. (heard \in Seq(Frame) => IsLongEnough)'
  BY LongEnough, PTL
<1>6. (n + 1) - i >= sildur
  <2>1. i \in 1 .. n + 1 /\ n + 1 \in 1 .. n + 1 /\ i < n + 1
    OBVIOUS
  <2>2. QED BY <1>2, <1>4, <1>5, <2>1 DEF IsLongEnough
<1>7. det.start \in Nat /\ det.start + (n - i) <= det.clock
  BY <1>3, Began
<1>8. f.at - det.start >= sildur /\ f.at - det.start \in Int
  <2>1. PICK s \in Nat, c \in Nat : s = det.start /\ c = det.clock
    BY <1>7
  <2>2. (c + gap + 1) - s >= sildur
    BY <1>6, <1>7, <2>1, Numbers
  <2>3. QED BY <2>1, <2>2
<1>9. Length(i, n + 1)' = f.at - det.start - sildur
  <2>1. heard'[i].at = det.start
    BY <1>2, <1>3 DEF OpenAt
  <2>2. QED BY <1>2, <2>1 DEF Length
<1>10. ms = Length(i, n + 1)' /\ ms \in Int
  <2>1. PICK x \in Int : x = f.at - det.start
    BY <1>8
  <2>2. ms = (IF x > sildur THEN x - sildur ELSE 0) /\ x >= sildur /\ Length(i, n + 1)' = x - sildur
    BY <1>8, <1>9, <2>1
  <2>3. QED BY <2>2, Numbers
<1>11. CASE Qualified(ms)
  <2>1. \A j, k \in 1 .. n : ~ TalkAt(j, k)'
    <3> SUFFICES ASSUME NEW j \in 1 .. n, NEW k \in 1 .. n, TalkAt(j, k) PROVE FALSE
      BY <1>2
    <3>1. Length(j, k) = Nothing /\ Qualified(Length(j, k))
      BY DEF TalkInv, TalkAt
    <3>2. QED BY <3>1, TalkHasLength DEF Nothing
  <2>2. ASSUME NEW j \in 1 .. n + 1, NEW k \in 1 .. n + 1, TalkAt(j, k)'
        PROVE  det'.talk = Length(j, k)'
    <3>1. j < k
      BY <2>2 DEF TalkAt
    <3>2. j \in 1 .. n /\ (k = n + 1 \/ k \in 1 .. n)
      BY <3>1
    <3>3. k = n + 1
      BY <2>1, <2>2, <3>2
    <3>4. j = i
      BY <1>4, <2>2, <3>2, <3>3 DEF TalkAt
    <3>5. QED BY <1>10, <1>11, <3>3, <3>4
  <2>3. i < n + 1 /\ i \in 1 .. n + 1 /\ n + 1 \in 1 .. n + 1
    OBVIOUS
  <2>4. Qualified(Length(i, n + 1))'
    BY <1>10, <1>11 DEF Qualified
  <2>5. TalkAt(i, n + 1)'
    BY <1>4, <2>3, <2>4 DEF TalkAt
  <2>6. QED BY <1>2, <1>10, <1>11, <2>2, <2>3, <2>5 DEF TalkInv
<1>12. CASE ~ Qualified(ms)
  <2>1. ASSUME NEW j \in 1 .. n, TalkAt(j, n + 1)' PROVE FALSE
    <3>1. j = i /\ Qualified(Length(j, n + 1))'
      BY <1>4, <2>1 DEF TalkAt
    <3>2. QED BY <1>10, <1>12, <3>1 DEF Qualified
  <2>2. QED BY <1>1, <1>12, <2>1, TalkStays
<1>13. QED BY <1>11, <1>12

\* A frame of voice.
LEMMA VoiceInv ==
  ASSUME DetectInv, NEW gap \in Nat, NEW quiet \in BOOLEAN, HearVoice(gap, quiet)
  PROVE  DetectInv'
<1> DEFINE f == [at |-> det.clock + gap + 1, quiet |-> quiet]
           d == After(gap)
           now == [Silence(d, quiet) EXCEPT !.res = IF quiet THEN 1 ELSE 0]
<1>1. /\ det \in DetType /\ TimesInv /\ heard \in Seq(Frame)
      /\ Listening /\ det.at = "listening" /\ det.app \in {"fax", "background"} /\ det.clock \in Nat
      /\ det.quiet \in Nat
  BY DEF DetectInv, TimesInv, HearVoice, Detecting, Listening, DetType
<1>2. /\ now \in DetType /\ d \in DetType
      /\ \A e \in {now, d} : /\ e.clock = det.clock + gap + 1 /\ e.app = det.app /\ e.options = det.options
                             /\ e.at = det.at /\ e.talk = det.talk
                             /\ e.notsilent = det.notsilent /\ e.start = det.start
      /\ now.quiet = IF quiet THEN det.quiet + 1 ELSE 0
  BY <1>1, Frames
<1>3. det' \in Voice(d, quiet) /\ heard' = Append(heard, f)
  BY <1>2 DEF HearVoice
<1>4. f \in Frame /\ f.at = det.clock + gap + 1 /\ f.quiet = quiet
  BY <1>1 DEF Frame
<1>5. PICK n \in Nat : n = Len(heard)
  BY <1>1
<1>6. CASE "t" \in det.options
  <2>1. det' = d \/ det' = [d EXCEPT !.res = 1]
    BY <1>2, <1>3, <1>6 DEF Voice, Left
  <2> HIDE DEF d
  <2>2. /\ det' \in DetType /\ det'.app = det.app /\ det'.options = det.options /\ det'.talk = det.talk
        /\ det'.clock = det.clock + gap + 1
    BY <1>2, <2>1 DEF DetType
  <2>3. TimesInv'
    BY <1>1, <1>3, <2>2, TimesGrow
  <2>4. QED BY <1>1, <1>6, <2>2, <2>3 DEF DetectInv
<1>7. CASE "t" \notin det.options
  <2>1. det' \in IF now.quiet > sildur THEN Token(now) ELSE Audio(now)
    BY <1>2, <1>3, <1>7 DEF Voice
  <2>2. TalkInv /\ det.talk = Nothing /\ RunInv /\ OpenInv
    BY <1>1, <1>7 DEF DetectInv, ListensInv
  <2> HIDE DEF f, d, now
  <2>3. Len(heard') = n + 1
    BY <1>1, <1>3, <1>4, <1>5, Grown
  <2>4. ASSUME det'.quiet = now.quiet, det' \in DetType
        PROVE  RunInv' /\ (LongAt(n + 1)' <=> now.quiet > sildur)
    <3>1. RunInv'
      BY <1>1, <1>2, <1>3, <1>4, <2>2, <2>4, RunGrows
    <3>2. (heard \in Seq(Frame) /\ RunInv /\ det.quiet \in Nat => (LongAt(Len(heard)) <=> det.quiet > sildur))'
      BY RunTells, PTL
    <3>3. heard' \in Seq(Frame) /\ det'.quiet \in Nat
      BY <1>1, <1>3, <1>4, <2>4, Grown DEF DetType
    <3>4. QED BY <2>3, <2>4, <3>1, <3>2, <3>3
  <2>5. CASE now.quiet > sildur
    <3>1. /\ det' \in DetType /\ det'.clock = now.clock /\ det'.app = now.app /\ det'.options = now.options
          /\ det'.quiet = now.quiet
          /\ IF now.notsilent /\ Qualified(Ms(now))
             THEN det'.at = "returned" /\ det'.talk = Ms(now)
             ELSE det'.at = now.at /\ det'.talk = now.talk /\ ~ det'.notsilent
      BY <1>2, <2>1, <2>5, Judged
    <3>2. TimesInv'
      BY <1>1, <1>2, <1>3, <3>1, TimesGrow DEF f
    <3>3. LongAt(n + 1)' /\ RunInv'
      BY <2>4, <2>5, <3>1
    <3>4. CASE det.notsilent
      <4>1. Ms(now) = IF f.at - det.start > sildur THEN f.at - det.start - sildur ELSE 0
        BY <1>2, <1>4 DEF Ms
      <4>2. IF Qualified(Ms(now)) THEN det'.talk = Ms(now) ELSE det'.talk = det.talk
        BY <1>2, <3>1, <3>4
      <4>3. TalkInv'
        BY <1>1, <1>3, <1>4, <1>5, <2>2, <3>3, <3>4, <4>1, <4>2, TokenInv
      <4>4. ListensInv'
        BY <1>2, <2>2, <2>3, <3>1, <3>3, <3>4 DEF ListensInv, Listening, OpenInv
      <4>5. QED BY <1>1, <1>2, <1>7, <3>1, <3>2, <4>3, <4>4 DEF DetectInv
    <3>5. CASE ~ det.notsilent
      <4>1. det'.at = det.at /\ det'.talk = det.talk /\ ~ det'.notsilent
        BY <1>2, <3>1, <3>5
      <4>2. n = 0 \/ LongAt(n)
        BY <1>5, <2>2, <3>5 DEF OpenInv
      <4>3. n # 0
        BY <3>3, Numbers DEF LongAt
      <4>4. \A j \in 1 .. n : ~ IsToken(j, n + 1)'
        BY <1>1, <1>3, <1>4, <1>5, <4>2, <4>3, NoTokenEnds
      <4>5. TalkInv'
        BY <1>1, <1>3, <1>4, <1>5, <2>2, <4>1, <4>4, TalkStays DEF TalkAt
      <4>6. ListensInv'
        BY <2>2, <2>3, <3>3, <4>1 DEF ListensInv, OpenInv
      <4>7. QED BY <1>1, <1>2, <1>7, <3>1, <3>2, <4>5, <4>6 DEF DetectInv
    <3>6. QED BY <3>4, <3>5
  <2>6. CASE ~ (now.quiet > sildur)
    <3>1. det' = IF now.notsilent THEN now ELSE [now EXCEPT !.notsilent = TRUE, !.start = now.clock]
      BY <2>1, <2>6 DEF Audio
    <3>2. now.clock \in Nat
      BY <1>2 DEF DetType
    <3>3. /\ det' \in DetType /\ det'.clock = now.clock /\ det'.app = now.app /\ det'.options = now.options
          /\ det'.at = now.at /\ det'.talk = now.talk /\ det'.quiet = now.quiet /\ det'.notsilent
          /\ det'.start = IF now.notsilent THEN now.start ELSE now.clock
      BY <1>2, <3>1, <3>2 DEF DetType
    <3>4. ~ LongAt(n + 1)' /\ RunInv'
      BY <2>4, <2>6, <3>3
    <3>5. TimesInv'
      BY <1>1, <1>2, <1>3, <3>3, TimesGrow DEF f
    <3>6. \A j \in 1 .. n : ~ IsToken(j, n + 1)'
      BY <1>1, <1>3, <1>4, <1>5, <3>4, NoTokenEnds
    <3>7. TalkInv'
      BY <1>1, <1>2, <1>3, <1>4, <1>5, <2>2, <3>3, <3>6, TalkStays DEF TalkAt
    <3>8. OpenInv'
      <4>1. /\ det.notsilent => det'.start = det.start
            /\ ~ det.notsilent => det'.start = f.at
        BY <1>2, <1>4, <3>3
      <4>2. QED BY <1>1, <1>3, <1>4, <1>5, <2>2, <3>3, <3>4, <4>1, AudioInv
    <3>9. ListensInv'
      BY <1>2, <2>2, <3>3, <3>4, <3>8 DEF ListensInv
    <3>10. QED BY <1>1, <1>2, <1>7, <3>3, <3>5, <3>7, <3>9 DEF DetectInv
  <2>7. QED BY <2>5, <2>6
<1>8. QED BY <1>6, <1>7

\* A step that hears no frame, and returns or goes on as it was.
LEMMA NoFrameInv ==
  ASSUME DetectInv, UNCHANGED heard, det' \in DetType,
         det'.app = det.app, det'.options = det.options, det'.talk = det.talk, det'.noise = det.noise,
         det'.clock >= det.clock,
         det.app = "machine" /\ ~ Listening' => (det'.machine <=> det'.noise >= machinetime),
         det.app # "machine" /\ Listening' =>
           /\ Listening
           /\ det'.quiet = det.quiet /\ det'.notsilent = det.notsilent /\ det'.start = det.start
  PROVE  DetectInv'
<1>1. det \in DetType /\ TimesInv
  BY DEF DetectInv
<1>2. TimesInv'
  <2>1. heard \in Seq(Frame) /\ Len(heard) \in Nat
    BY <1>1 DEF TimesInv
  <2>2. ASSUME NEW i \in 1 .. Len(heard) PROVE heard[i].at + (Len(heard) - i) <= det'.clock
    <3>1. heard[i] \in Frame /\ heard[i].at + (Len(heard) - i) <= det.clock
      BY <1>1, <2>1 DEF TimesInv
    <3>2. PICK a \in Nat, n \in Nat, c \in Nat, e \in Nat :
            a = heard[i].at /\ n = Len(heard) /\ c = det.clock /\ e = det'.clock
      BY <1>1, <2>1, <3>1 DEF Frame, DetType
    <3>3. a + (n - i) <= c /\ c <= e
      BY <3>1, <3>2
    <3>4. a + (n - i) <= e
      BY <3>2, <3>3
    <3>5. QED BY <3>2, <3>4
  <2>3. QED BY <1>1, <2>1, <2>2 DEF TimesInv
<1>3. \A i, k : (LongAt(i)' <=> LongAt(i)) /\ (TalkAt(i, k)' <=> TalkAt(i, k)) /\ Length(i, k)' = Length(i, k)
  BY DEF LongAt, TalkAt, IsToken, Length, Qualified
<1>4. TalkInv => TalkInv'
  BY <1>3 DEF TalkInv
<1>5. det.app = "machine" /\ NoiseInv => NoiseInv'
  BY DEF NoiseInv, NotQuiet
<1>6. det.app # "machine" /\ ListensInv => ListensInv'
  <2> SUFFICES ASSUME det.app # "machine", ListensInv, Listening' PROVE ListensInv'
    BY DEF ListensInv
  <2>1. RunInv /\ OpenInv /\ det.talk = Nothing
    BY DEF ListensInv
  <2>2. RunInv'
    BY <2>1 DEF RunInv
  <2>3. OpenInv'
    BY <1>3, <2>1 DEF OpenInv, OpenAt, Opens
  <2>4. QED BY <2>1, <2>2, <2>3 DEF ListensInv
<1>7. QED BY <1>1, <1>2, <1>4, <1>5, <1>6 DEF DetectInv

LEMMA ToneInv == ASSUME DetectInv, NEW tone \in {"fax", "digit"}, HearTone(tone) PROVE DetectInv'
<1>1. /\ det \in DetType /\ det.app \in {"fax", "background"} /\ UNCHANGED heard /\ Listening
      /\ det' \in Tone(det, tone)
  BY DEF DetectInv, HearTone, Detecting
<1>2. \/ det' \in FaxTone(det)
      \/ det' \in Digit(det)
      \/ det' = Left(det)
  BY <1>1 DEF Tone
<1>3. CASE det' = Left(det)
  <2>1. /\ det' \in DetType /\ det'.app = det.app /\ det'.options = det.options /\ det'.talk = det.talk
        /\ det'.noise = det.noise /\ det'.clock = det.clock /\ det'.quiet = det.quiet
        /\ det'.notsilent = det.notsilent /\ det'.start = det.start
    BY <1>1, <1>3 DEF Left, DetType
  <2>2. det'.clock >= det.clock
    BY <1>1, <2>1 DEF DetType
  <2>3. QED BY <1>1, <2>1, <2>2, NoFrameInv
<1>4. CASE det' \in FaxTone(det) \/ (det' \in Digit(det) /\ det' # Left(det))
  <2>1. PICK d \in DetType, res \in Int :
          /\ det' = Returns(d, res)
          /\ d.app = det.app /\ d.options = det.options /\ d.talk = det.talk
          /\ d.noise = det.noise /\ d.clock = det.clock
    <3>1. CASE det' \in FaxTone(det)
      <4>1. CASE det.exten = "fax"
        BY <1>1, <3>1, <4>1 DEF FaxTone
      <4>2. CASE det.exten # "fax"
        <5>1. PICK exten \in {"s", "fax", "talk"} : det' = Returns([det EXCEPT !.fax = TRUE, !.exten = exten], 0)
          BY <1>1, <3>1, <4>2 DEF FaxTone, DetType
        <5> DEFINE d == [det EXCEPT !.fax = TRUE, !.exten = exten]
        <5>2. /\ d \in DetType /\ d.app = det.app /\ d.options = det.options /\ d.talk = det.talk
              /\ d.noise = det.noise /\ d.clock = det.clock
          BY <1>1 DEF DetType
        <5>3. det' = Returns(d, 0) /\ 0 \in Int
          BY <5>1
        <5> HIDE DEF d
        <5>4. QED BY <5>2, <5>3
      <4>3. QED BY <4>1, <4>2
    <3>2. CASE det' \in Digit(det) /\ det' # Left(det)
      <4> DEFINE d == [det EXCEPT !.dtmf = TRUE]
      <4>1. /\ d \in DetType /\ d.app = det.app /\ d.options = det.options /\ d.talk = det.talk
            /\ d.noise = det.noise /\ d.clock = det.clock
        BY <1>1 DEF DetType
      <4>2. det' = Returns(d, 0) \/ det' = Returns(d, Key)
        BY <3>2 DEF Digit
      <4>3. 0 \in Int /\ Key \in Int
        BY DEF Key
      <4> HIDE DEF d
      <4>4. QED BY <4>1, <4>2, <4>3
    <3>3. QED BY <1>4, <3>1, <3>2
  <2>2. /\ det' \in DetType /\ det'.app = det.app /\ det'.options = det.options /\ det'.talk = det.talk
        /\ det'.noise = det.noise /\ det'.clock = det.clock /\ det'.at = "returned"
    BY <2>1, Returned
  <2>3. det'.clock >= det.clock
    BY <1>1, <2>2 DEF DetType
  <2>4. QED BY <1>1, <2>2, <2>3, NoFrameInv DEF Listening
<1>5. QED BY <1>2, <1>3, <1>4

\* What ends an application without a tone.
LEMMA EndsInv ==
  ASSUME DetectInv, (\E gap \in 0 .. MaxGap : TimeUp(gap)) \/ StreamEnds \/ HangUp
  PROVE  DetectInv'
<1>1. /\ det \in DetType /\ det.app \in {"fax", "background"} /\ UNCHANGED heard
      /\ det.res \in Int /\ 0 \in Int /\ Nothing \in Int
  BY DEF DetectInv, TimeUp, StreamEnds, HangUp, Detecting, DetType, Nothing
<1>2. PICK d \in DetType, res \in Int :
        /\ det' = Returns(d, res)
        /\ d.app = det.app /\ d.options = det.options /\ d.talk = det.talk
        /\ d.noise = det.noise /\ d.clock >= det.clock
  <2>1. ASSUME NEW gap \in 0 .. MaxGap, TimeUp(gap)
        PROVE  /\ det' = Returns(After(gap), 0)
               /\ After(gap) \in DetType /\ After(gap).app = det.app /\ After(gap).options = det.options
               /\ After(gap).talk = det.talk /\ After(gap).noise = det.noise
               /\ After(gap).clock >= det.clock
    <3>1. det.clock \in Nat /\ gap \in Nat
      BY <1>1, DetectAssumption DEF DetType
    <3>2. det.clock + gap + 1 \in Nat /\ det.clock + gap + 1 >= det.clock
      BY <3>1
    <3> DEFINE c == det.clock + gap + 1
    <3>3. After(gap) = [det EXCEPT !.clock = c]
      BY DEF After
    <3>4. c \in Nat /\ c >= det.clock
      BY <3>2
    <3> HIDE DEF c
    <3>5. /\ After(gap) \in DetType /\ After(gap).app = det.app /\ After(gap).options = det.options
          /\ After(gap).talk = det.talk /\ After(gap).noise = det.noise /\ After(gap).clock = c
      BY <1>1, <3>3, <3>4 DEF DetType
    <3>6. QED BY <2>1, <3>4, <3>5 DEF TimeUp
  <2>2. ASSUME StreamEnds \/ HangUp
        PROVE  (\E res \in Int : det' = Returns(det, res)) /\ det.clock >= det.clock
    BY <1>1, <2>2 DEF StreamEnds, HangUp, DetType
  <2>3. QED BY <1>1, <2>1, <2>2
<1>3. /\ det' \in DetType /\ det'.app = det.app /\ det'.options = det.options /\ det'.talk = det.talk
      /\ det'.noise = det.noise /\ det'.clock >= det.clock /\ det'.at = "returned"
  BY <1>2, Returned
<1>4. QED BY <1>1, <1>3, NoFrameInv DEF Listening

\* MachineDetect's rounds: what it heard stays, and it judges by it.
LEMMA RoundEnds ==
  ASSUME NEW d \in DetType, NEW e, e = GotSilence(d)
  PROVE  /\ e \in DetType /\ e.app = d.app /\ e.options = d.options /\ e.talk = d.talk
         /\ e.noise = d.noise /\ e.clock = d.clock
         /\ e.at = d.at \/ (e.at = "returned" /\ (e.machine <=> e.noise >= machinetime))
<1>1. CASE d.round + 1 >= iterations
  <2> DEFINE j == [d EXCEPT !.machine = d.noise >= machinetime]
  <2>1. (d.noise >= machinetime) \in BOOLEAN
    OBVIOUS
  <2>2. /\ j \in DetType /\ j.app = d.app /\ j.options = d.options /\ j.talk = d.talk
        /\ j.noise = d.noise /\ j.clock = d.clock /\ (j.machine <=> d.noise >= machinetime)
    BY <2>1 DEF DetType
  <2>3. e = Returns(j, 0)
    BY <1>1 DEF GotSilence, Judge
  <2> HIDE DEF j
  <2>4. /\ e \in DetType /\ e.app = d.app /\ e.options = d.options /\ e.talk = d.talk
        /\ e.noise = d.noise /\ e.clock = d.clock /\ e.at = "returned" /\ e.machine = j.machine
    BY <2>2, <2>3, Returned
  <2>5. e.machine <=> e.noise >= machinetime
    BY <2>2, <2>4
  <2>6. QED BY <2>4, <2>5
<1>2. CASE ~ (d.round + 1 >= iterations)
  <2>1. d.round + 1 \in Nat /\ duration \in Int
    BY Numbers DEF DetType
  <2> DEFINE r == d.round + 1
  <2>2. e = [d EXCEPT !.round = r, !.quiet = 0, !.toduration = duration]
    BY <1>2 DEF GotSilence
  <2> DEFINE x == [d EXCEPT !.round = r, !.quiet = 0]
  <2>3. /\ x \in DetType /\ x.app = d.app /\ x.options = d.options /\ x.talk = d.talk
        /\ x.noise = d.noise /\ x.clock = d.clock /\ x.at = d.at
    BY <2>1 DEF DetType
  <2>4. e = [x EXCEPT !.toduration = duration]
    BY <2>2
  <2> HIDE DEF x
  <2>5. /\ e \in DetType /\ e.app = d.app /\ e.options = d.options /\ e.talk = d.talk
        /\ e.noise = d.noise /\ e.clock = d.clock /\ e.at = d.at
    BY <2>1, <2>3, <2>4 DEF DetType
  <2>6. QED BY <2>5
<1>3. QED BY <1>1, <1>2

LEMMA JudgeInv ==
  ASSUME DetectInv, WaitTimeout \/ WaitFails
  PROVE  DetectInv'
<1>1. det \in DetType /\ det.app = "machine" /\ UNCHANGED heard
  BY DEF DetectInv, WaitTimeout, WaitFails, Machine
<1>2. CASE WaitTimeout
  <2> DEFINE c == det.clock + det.toduration
             d == [det EXCEPT !.clock = c]
  <2>1. c \in Nat /\ c >= det.clock
    BY <1>1, <1>2 DEF WaitTimeout, DetType
  <2>2. det' = GotSilence(d) /\ Listening
    BY <1>2 DEF WaitTimeout, Machine
  <2> HIDE DEF c
  <2>3. /\ d \in DetType /\ d.app = det.app /\ d.options = det.options /\ d.talk = det.talk
        /\ d.noise = det.noise /\ d.clock = c /\ d.at = det.at
    BY <1>1, <2>1 DEF DetType
  <2> HIDE DEF d
  <2>4. /\ det' \in DetType /\ det'.app = det.app /\ det'.options = det.options /\ det'.talk = det.talk
        /\ det'.noise = det.noise /\ det'.clock = c
        /\ det'.at = "listening" \/ (det'.machine <=> det'.noise >= machinetime)
    BY <2>2, <2>3, RoundEnds DEF Listening
  <2>5. QED BY <1>1, <2>1, <2>4, NoFrameInv DEF Listening
<1>3. CASE WaitFails
  <2> DEFINE j == [det EXCEPT !.machine = det.noise >= machinetime]
  <2>1. (det.noise >= machinetime) \in BOOLEAN /\ det.clock >= det.clock
    BY <1>1 DEF DetType
  <2>2. /\ j \in DetType /\ j.app = det.app /\ j.options = det.options /\ j.talk = det.talk
        /\ j.noise = det.noise /\ j.clock = det.clock /\ (j.machine <=> det.noise >= machinetime)
    BY <1>1, <2>1 DEF DetType
  <2>3. PICK res \in Int : det' = Returns(j, res)
    BY <1>3 DEF WaitFails, Judge, Nothing
  <2> HIDE DEF j
  <2>4. /\ det' \in DetType /\ det'.app = det.app /\ det'.options = det.options /\ det'.talk = det.talk
        /\ det'.noise = det.noise /\ det'.clock = det.clock /\ (det'.machine <=> det'.noise >= machinetime)
    BY <2>2, <2>3, Returned
  <2>5. QED BY <1>1, <2>1, <2>4, NoFrameInv
<1>4. QED BY <1>2, <1>3

\* One more frame that is not silent is one more in what was heard.
LEMMA NoiseGrows ==
  ASSUME heard \in Seq(Frame), NEW f \in Frame, heard' = Append(heard, f)
  PROVE  /\ Cardinality(NotQuiet) \in Nat
         /\ Cardinality(NotQuiet') = IF f.quiet THEN Cardinality(NotQuiet) ELSE Cardinality(NotQuiet) + 1
<1> DEFINE n == Len(heard)
<1>1. /\ n \in Nat /\ Len(heard') = n + 1 /\ heard'[n + 1] = f /\ heard' \in Seq(Frame)
      /\ \A i \in 1 .. n : heard'[i] = heard[i]
  BY Grown
<1>2. DOMAIN heard = 1 .. n /\ DOMAIN heard' = 1 .. n + 1
  BY <1>1
<1>3. n + 1 \notin 1 .. n /\ 1 .. n + 1 = (1 .. n) \cup {n + 1}
  BY <1>1
<1>4. IsFiniteSet(NotQuiet)
  <2>1. IsFiniteSet(1 .. n)
    BY <1>1, FS_Interval
  <2>2. NotQuiet \subseteq 1 .. n
    BY <1>2 DEF NotQuiet
  <2>3. QED BY <2>1, <2>2, FS_Subset
<1>5. n + 1 \notin NotQuiet
  BY <1>2, <1>3 DEF NotQuiet
<1>6. NotQuiet' = IF f.quiet THEN NotQuiet ELSE NotQuiet \cup {n + 1}
  BY <1>1, <1>2, <1>3 DEF NotQuiet
<1>7. QED BY <1>4, <1>5, <1>6, FS_CardinalityType, FS_AddElement

LEMMA WaitVoiceInv ==
  ASSUME DetectInv, NEW gap \in Nat, NEW quiet \in BOOLEAN, WaitVoice(gap, quiet)
  PROVE  DetectInv'
<1> DEFINE f == [at |-> det.clock + gap + 1, quiet |-> quiet]
           d == After(gap)
           now == Silence(d, quiet)
           then == IF quiet THEN [now EXCEPT !.toduration = @ - now.quiet]
                   ELSE [now EXCEPT !.toduration = duration, !.noise = @ + 1]
           noise == IF quiet THEN det.noise ELSE det.noise + 1
           silent == IF quiet THEN det.quiet + 1 ELSE 0
           left == IF quiet THEN det.toduration - silent ELSE duration
           clock == det.clock + gap + 1
<1>1. /\ det \in DetType /\ TimesInv /\ heard \in Seq(Frame) /\ det.app = "machine" /\ NoiseInv
      /\ det.at = "listening"
  BY DEF DetectInv, TimesInv, WaitVoice, Machine, Listening
<1>2. noise \in Nat /\ silent \in Nat /\ left \in Int /\ clock \in Nat
  BY <1>1, Numbers DEF DetType
<1>3. d = [det EXCEPT !.clock = clock]
  BY DEF After
<1>4. f \in Frame /\ f.quiet = quiet
  BY <1>2 DEF Frame
<1>5. det.quiet + 1 = silent \/ ~ quiet
  OBVIOUS
<1> HIDE DEF clock
<1>6. /\ d \in DetType /\ d.clock = clock /\ d.app = det.app /\ d.options = det.options
      /\ d.at = det.at /\ d.talk = det.talk /\ d.quiet = det.quiet /\ d.noise = det.noise
      /\ d.toduration = det.toduration
  BY <1>1, <1>2, <1>3 DEF DetType
<1> HIDE DEF d
<1>7. now = [d EXCEPT !.quiet = silent]
  BY <1>6 DEF Silence
<1> HIDE DEF silent
<1>8. /\ now \in DetType /\ now.clock = clock /\ now.app = det.app /\ now.options = det.options
      /\ now.at = det.at /\ now.talk = det.talk /\ now.quiet = silent /\ now.noise = det.noise
      /\ now.toduration = det.toduration
  BY <1>2, <1>6, <1>7 DEF DetType
<1> HIDE DEF now
<1>9. then = [[now EXCEPT !.toduration = left] EXCEPT !.noise = noise]
  <2>1. CASE quiet
    <3>1. then = [now EXCEPT !.toduration = left] /\ noise = now.noise
      BY <1>8, <2>1
    <3>2. [now EXCEPT !.toduration = left].noise = now.noise
      BY <1>8 DEF DetType
    <3> DEFINE e == [now EXCEPT !.toduration = left]
    <3>3. e \in DetType
      BY <1>2, <1>8 DEF DetType
    <3> HIDE DEF left
    <3>4. [e EXCEPT !.noise = e.noise] = e
      BY <3>3 DEF DetType
    <3>5. QED BY <3>1, <3>2, <3>4
  <2>2. CASE ~ quiet
    <3>1. left = duration /\ noise = now.noise + 1
      BY <1>8, <2>2
    <3>2. then = [now EXCEPT !.toduration = left, !.noise = now.noise + 1]
      BY <2>2, <3>1
    <3>3. QED BY <3>1, <3>2
  <2>3. QED BY <2>1, <2>2
<1> HIDE DEF left, noise
<1>10. /\ then \in DetType /\ then.clock = clock /\ then.app = det.app /\ then.options = det.options
       /\ then.at = det.at /\ then.talk = det.talk /\ then.noise = noise
  BY <1>2, <1>8, <1>9 DEF DetType
<1>11. det' = IF now.quiet >= duration - gap THEN GotSilence(then) ELSE then
  BY DEF WaitVoice, WaitedFor, d, now
<1>12. heard' = Append(heard, f)
  BY <1>6 DEF WaitVoice, d, clock
<1> HIDE DEF then
<1>13. /\ det' \in DetType /\ det'.app = det.app /\ det'.options = det.options /\ det'.noise = noise
       /\ det'.clock = clock
       /\ det'.at = "listening" \/ (det'.machine <=> det'.noise >= machinetime)
  BY <1>1, <1>10, <1>11, RoundEnds
<1>14. TimesInv'
  BY <1>1, <1>12, <1>13, TimesGrow DEF clock, DetType
<1> HIDE DEF f
<1>15. noise = Cardinality(NotQuiet')
  BY <1>1, <1>4, <1>12, NoiseGrows DEF NoiseInv, noise
<1>16. NoiseInv'
  BY <1>13, <1>15 DEF NoiseInv, Listening
<1>17. QED BY <1>1, <1>13, <1>14, <1>16 DEF DetectInv

LEMMA DetectInitInv == DetectInit => DetectInv
<1> SUFFICES ASSUME DetectInit PROVE DetectInv
  OBVIOUS
<1>1. PICK app \in {"machine", "fax", "background"}, options \in OptionSets \cup {{}}, exten \in {"s", "fax"} :
        det = Started(app, options, exten)
  BY DEF DetectInit, MachineDetect, NVFaxDetect, NVBackgroundDetect
<1>2. heard = <<>> /\ heard \in Seq(Frame) /\ Len(heard) = 0 /\ DOMAIN heard = {}
  BY DEF DetectInit
<1>3. /\ det \in DetType /\ det.at = "listening" /\ det.talk = Nothing /\ ~ det.notsilent
      /\ det.quiet = 0 /\ det.noise = 0
  <2>1. duration \in Int /\ Nothing \in Int
    BY Numbers DEF Nothing
  <2>2. QED BY <1>1, <2>1 DEF Started, DetType
<1>4. TimesInv
  BY <1>2 DEF TimesInv
<1>5. TalkInv /\ ListensInv
  BY <1>2, <1>3 DEF TalkInv, ListensInv, RunInv, OpenInv
<1>6. NoiseInv
  <2>1. NotQuiet = {}
    BY <1>2 DEF NotQuiet
  <2>2. QED BY <1>3, <2>1, FS_EmptySet DEF NoiseInv, Listening
<1>7. QED BY <1>3, <1>4, <1>5, <1>6 DEF DetectInv

\* Talk is announced as soon as a token with a silence after it is of the right
\* length, with that length, and not otherwise; MachineDetect judges by all it heard.
THEOREM TokensAreHeardRight == DetectSpec => []HeardRight
<1>1. DetectInit => DetectInv
  BY DetectInitInv
<1>2. DetectInv /\ [DetectNext]_detvars => DetectInv'
  <2> SUFFICES ASSUME DetectInv, [DetectNext]_detvars PROVE DetectInv'
    OBVIOUS
  <2>1. ASSUME NEW gap \in 0 .. MaxGap, NEW quiet \in BOOLEAN,
               HearVoice(gap, quiet) \/ WaitVoice(gap, quiet)
        PROVE  DetectInv'
    <3>1. gap \in Nat
      BY DetectAssumption
    <3>2. QED BY <2>1, <3>1, VoiceInv, WaitVoiceInv
  <2>2. ASSUME NEW tone \in {"fax", "digit"}, HearTone(tone) PROVE DetectInv'
    BY <2>2, ToneInv
  <2>3. CASE (\E gap \in 0 .. MaxGap : TimeUp(gap)) \/ StreamEnds \/ HangUp
    BY <2>3, EndsInv
  <2>4. CASE WaitTimeout \/ WaitFails
    BY <2>4, JudgeInv
  <2>5. CASE UNCHANGED detvars
    <3>1. det \in DetType /\ det.clock >= det.clock /\ UNCHANGED <<det, heard>>
      BY <2>5 DEF detvars, DetectInv, DetType
    <3>2. det.app = "machine" /\ ~ Listening => (det.machine <=> det.noise >= machinetime)
      BY DEF DetectInv, NoiseInv
    <3>3. QED BY <3>1, <3>2, NoFrameInv DEF Listening
  <2>6. QED BY <2>1, <2>2, <2>3, <2>4, <2>5 DEF DetectNext
<1>3. DetectInv => HeardRight
  <2> SUFFICES ASSUME DetectInv PROVE HeardRight
    OBVIOUS
  <2>1. DOMAIN heard = 1 .. Len(heard) /\ heard \in Seq(Frame) /\ det.talk \in Int
    BY DEF DetectInv, TimesInv, DetType
  <2>2. \A ms : ms \in Talks <=>
          \E i, k \in 1 .. Len(heard) : i < k /\ IsToken(i, k) /\ ms = Length(i, k)
    <3>1. ASSUME NEW ms, ms \in Talks
          PROVE  \E i, k \in 1 .. Len(heard) : i < k /\ IsToken(i, k) /\ ms = Length(i, k)
      <4>1. PICK ik \in {x \in (DOMAIN heard) \X (DOMAIN heard) : x[1] < x[2] /\ IsToken(x[1], x[2])} :
              ms = heard[ik[2]].at - heard[ik[1]].at - sildur
        BY <3>1 DEF Talks
      <4>2. PICK i \in 1 .. Len(heard), k \in 1 .. Len(heard) : i = ik[1] /\ k = ik[2]
        BY <2>1
      <4>3. i < k /\ IsToken(i, k) /\ ms = Length(i, k)
        BY <4>1, <4>2 DEF Length
      <4>4. QED BY <4>3
    <3>2. ASSUME NEW ms, NEW i \in 1 .. Len(heard), NEW k \in 1 .. Len(heard),
                 i < k, IsToken(i, k), ms = Length(i, k)
          PROVE  ms \in Talks
      <4>1. <<i, k>> \in {x \in (DOMAIN heard) \X (DOMAIN heard) : x[1] < x[2] /\ IsToken(x[1], x[2])}
        BY <2>1, <3>2
      <4>2. QED BY <3>2, <4>1 DEF Talks, Length
    <3>3. QED BY <3>1, <3>2
  <2>3. CASE det.app # "machine" /\ "t" \in det.options
    BY <2>3 DEF DetectInv, HeardRight
  <2>4. CASE det.app # "machine" /\ "t" \notin det.options
    <3>1. TalkInv
      BY <2>4 DEF DetectInv
    <3>2. \A ms \in Talks : Qualified(ms) => ms = det.talk
      BY <2>2, <3>1 DEF TalkInv, TalkAt
    <3>3. det.talk # Nothing => det.talk \in Talks /\ Qualified(det.talk)
      BY <2>2, <3>1 DEF TalkInv, TalkAt
    <3>4. ~ Qualified(Nothing)
      BY TalkHasLength DEF Nothing
    <3>5. QED BY <2>4, <3>2, <3>3, <3>4 DEF HeardRight
  <2>5. CASE det.app = "machine"
    BY <2>5 DEF DetectInv, NoiseInv, NotQuiet, HeardRight, Listening
  <2>6. QED BY <2>3, <2>4, <2>5
<1>4. QED BY <1>1, <1>2, <1>3, PTL DEF DetectSpec
===============================================================================
