------------------------------ MODULE AdminPages ------------------------------
(***************************************************************************)
(* dialeradmin, page by page.  The program keeps nothing between two       *)
(* requests: the campaign an administrator works on is a hidden field of   *)
(* her page, and what she may ask for next are its buttons.  Whatever a    *)
(* page found out is old when she clicks.                                  *)
(*                                                                         *)
(* What a request then does to settings is Settings', to the files of      *)
(* Asterisk and scripts AdminFiles'; here it is the request alone.  Pages  *)
(* no button leads to (Print Record, Callist Build, System Stats, All      *)
(* Campaign Stats) are left out.                                           *)
(***************************************************************************)
EXTENDS FiniteSets

CONSTANTS
  Browsers,   \* of the administrators
  Managed,    \* the campaigns' names
  NoName      \* no campaign: an empty field

ASSUME PagesAssumption == NoName \notin Managed

VARIABLES
  shown,    \* what each browser shows
  request,  \* the request under way
  listed,   \* the campaigns of the database,
  active,   \*   those started,
  tables,   \*   and those with their table
  backup,   \* the campaigns with a copy of their table
  chosen,   \* history: the campaign last chosen on a menu, or named as a new one
  since     \* history: the campaigns started since a browser's page was made

pagesvars == <<shown, request, listed, active, tables, backup, chosen, since>>
datavars == <<listed, active, tables, backup>>

NoRequest == [mode |-> "none", queue |-> NoName]
-------------------------------------------------------------------------------
(* Pages: the campaign of the hidden field, or the one a menu offers first;   *)
(* the campaigns offered; the buttons                                         *)

Plain(q, buttons) == [queue |-> q, offers |-> {}, buttons |-> buttons]
\* main puts two buttons under what the page is about.
Page(q, buttons) == Plain(q, buttons \cup {"Main Menu", "Logout"})

LoginPage == Plain(NoName, {"login"})
doLogout == LoginPage

\* The campaign of the field is selected, the first one if there is no field,
\* none if it is not in the list.
MenuButtons ==
  {"Create Campaign", "Import Data", "Edit Campaign Members", "Manage Campaign", "Edit Filters",
   "Campaign Stats", "Export Sales", "Create Agent", "Create Closer", "Delete Agent/Closer",
   "Edit Agent Info", "Agent Stats", "Agents Times", "Edit Globals", "All DB Counts",
   "DB Counts Today", "Logout"}
Offered(q) == IF q = NoName /\ listed # {} THEN listed ELSE {IF q \in listed THEN q ELSE NoName}
showMenu(q) == {[queue |-> first, offers |-> listed, buttons |-> MenuButtons] : first \in Offered(q)}

showEditQueueMembers(q) == Page(q, {"Add", "Remove"})
doManageCampaign(q) ==
  Page(q, {"Edit Campaign", "Edit Script", "Backup Data", "Restore Data", "Create Reload Data",
           "Database Counts", "Remove Campaign"}
          \cup (IF q \in active THEN {"Stop Campaign"} ELSE {"Start Campaign"}))

IfStopped(q, now) == Page(q, IF q \in active THEN {"Stop Campaign"} ELSE {now})
doBackupData(q) == IfStopped(q, "Backup Now")
doRestoreData(q) == IfStopped(q, "Restore Now")
doBackupNow(q) == Page(q, {"Start Campaign"})
doRestoreNow(q) == Page(q, {"Start Campaign"})

\* A slip the checks must catch: the campaign's field has no name.
doEditScriptUnnamed(q) == Page(NoName, {"Save Script"})
doEditScript(q) == Page(q, {"Save Script"})
doEditFilters(q) == Page(q, {"Add Filter", "Del Filter", "Save Filter Settings"})
doEditQueue(q) == Page(q, {"Save Campaign Settings"})
doEditGlobals(q) == Page(q, {"Save Global Settings"})

doCreateQueue(q) == Page(q, {"Finish Creating Campaign"})
doCreateAgent == Page(NoName, {"Finish Creating Agent"})
doCreateCloser == Page(NoName, {"Finish Creating Closer"})
doEditAgentInfo == Page(NoName, {"Finish Editing Agent"})

doShowAgentStats == Page(NoName, {"Show Stats"})
doShowAgentTime == Page(NoName, {"Show Stats"})
doShowCampaignStats(q) == Page(q, {"Show Stats"})
doShowStats == Page(NoName, {})

\* Two forms: the first goes to up.cgi.
doImportData(q) == Page(q, {"Import Records"})
doExportSales(q) == Page(q, {"Export Records"})
doReloadData(q) == Page(q, {"Campaign Reload"})

doShowDBCounts(q) == Page(q, {})
doShowAllDBCounts(q) == Page(q, {})

\* Requests that show what was done and keep the campaign's field.
Done(q) == Page(q, {})
\* Two of them copy rows of the campaign into files of /tmp, and change none.
doExportRecords(q) == Done(q)
doDataReload(q) == Done(q)
-------------------------------------------------------------------------------
(* Requests *)

\* Requests that read a campaign's settings; without them, the process ends.
Reading == {"Manage Campaign", "Start Campaign", "Stop Campaign", "Edit Campaign", "Edit Filters",
            "Save Campaign Settings", "Save Filter Settings", "Backup Data", "Restore Data",
            "Database Counts", "Export Records"}

\* Requests that change something of the campaign in the field.
Changing == {"Start Campaign", "Stop Campaign", "Remove Campaign", "Add", "Remove", "Backup Now",
             "Restore Now", "Save Script", "Save Campaign Settings", "Add Filter", "Del Filter",
             "Save Filter Settings", "Import Records", "Export Records", "Campaign Reload"}

Pages(mode, q) ==
  CASE mode \in {"login", "Main Menu"} -> showMenu(q)
    [] mode = "Logout" -> {doLogout}
    [] mode = "Edit Campaign Members" -> {showEditQueueMembers(q)}
    [] mode = "Manage Campaign" -> {doManageCampaign(q)}
    [] mode = "Backup Data" -> {doBackupData(q)}
    [] mode = "Restore Data" -> {doRestoreData(q)}
    [] mode = "Backup Now" -> {doBackupNow(q)}
    [] mode = "Restored" -> {doRestoreNow(q)}
    [] mode = "Edit Script" -> {doEditScript(q)}
    [] mode = "Edit Filters" -> {doEditFilters(q)}
    [] mode = "Edit Campaign" -> {doEditQueue(q)}
    [] mode = "Edit Globals" -> {doEditGlobals(q)}
    [] mode = "Create Campaign" -> {doCreateQueue(q)}
    [] mode = "Create Agent" -> {doCreateAgent}
    [] mode = "Create Closer" -> {doCreateCloser}
    [] mode = "Edit Agent Info" -> {doEditAgentInfo}
    [] mode = "Agent Stats" -> {doShowAgentStats}
    [] mode = "Agents Times" -> {doShowAgentTime}
    [] mode = "Campaign Stats" -> {doShowCampaignStats(q)}
    [] mode = "Show Stats" -> {doShowStats}
    [] mode = "Import Data" -> {doImportData(q)}
    [] mode = "Export Sales" -> {doExportSales(q)}
    [] mode = "Create Reload Data" -> {doReloadData(q)}
    [] mode = "Export Records" -> {doExportRecords(q)}
    [] mode = "Campaign Reload" -> {doDataReload(q)}
    [] mode = "Database Counts" -> {doShowDBCounts(q)}
    [] mode \in {"All DB Counts", "DB Counts Today"} -> {doShowAllDBCounts(q)}
    [] mode \in {"Delete Agent/Closer", "Finish Creating Agent", "Finish Creating Closer",
                 "Finish Editing Agent"} -> {Done(NoName)}
    [] OTHER -> {Done(q)}

PagesInit ==
  /\ shown = [u \in Browsers |-> LoginPage]
  /\ request = [u \in Browsers |-> NoRequest]
  /\ listed = Managed /\ tables = Managed
  /\ active \in SUBSET Managed
  /\ backup = {}
  /\ chosen = [u \in Browsers |-> NoName]
  /\ since = [u \in Browsers |-> {}]

\* On a menu she may choose another campaign; the page of a new one asks its name.
Click(u) ==
  /\ request[u] = NoRequest
  /\ \E mode \in shown[u].buttons, q \in {shown[u].queue} \cup shown[u].offers :
       \E name \in IF mode = "Finish Creating Campaign" THEN Managed ELSE {q} :
         /\ request' = [request EXCEPT ![u] = [mode |-> mode, queue |-> name]]
         /\ chosen' = IF "Edit Globals" \in shown[u].buttons \/ mode = "Finish Creating Campaign"
                      THEN [chosen EXCEPT ![u] = name] ELSE chosen
  /\ UNCHANGED <<shown, since, datavars>>

Starts(q) == since' = [u \in Browsers |-> since[u] \cup {q}]

\* The page a request ends with; other pages stay as they are.
Answers(u, mode, q) ==
  /\ \E p \in Pages(mode, q) : shown' = [shown EXCEPT ![u] = p]
  /\ request' = [request EXCEPT ![u] = NoRequest]
  /\ UNCHANGED chosen
Forgets(u) == since' = [since EXCEPT ![u] = {}]

Wants(u, mode) == request[u].mode = mode /\ (mode \in Reading => request[u].queue \in listed)
For(u) == request[u].queue

\* The others show, or have their effects in other modules.
Shows(u) ==
  /\ request[u] # NoRequest /\ Wants(u, request[u].mode)
  /\ request[u].mode \notin {"Start Campaign", "Stop Campaign", "Backup Now", "Restore Now",
                             "Restored"}
  /\ Answers(u, request[u].mode, For(u)) /\ Forgets(u)
  /\ UNCHANGED datavars

\* No settings, or a wrong password: no page, and she goes back to the one before.
Dies(u) ==
  /\ \/ request[u].mode \in Reading /\ For(u) \notin listed
     \/ request[u].mode = "login"
  /\ request' = [request EXCEPT ![u] = NoRequest]
  /\ UNCHANGED <<shown, chosen, since, datavars>>

doStartQueue(u) ==
  /\ Wants(u, "Start Campaign")
  /\ active' = active \cup {For(u)}
  /\ Answers(u, "Start Campaign", For(u))
  /\ since' = [v \in Browsers |-> IF v = u THEN {} ELSE since[v] \cup {For(u)}]
  /\ UNCHANGED <<listed, tables, backup>>

doStopQueue(u) ==
  /\ Wants(u, "Stop Campaign")
  /\ active' = active \ {For(u)}
  /\ Answers(u, "Stop Campaign", For(u)) /\ Forgets(u)
  /\ UNCHANGED <<listed, tables, backup>>

\* BACKUP TABLE may fail, as when there is a copy already; the page says Complete.
BackUp(u) ==
  /\ Wants(u, "Backup Now")
  /\ backup' \in {backup, backup \cup ({For(u)} \cap tables)}
  /\ Answers(u, "Backup Now", For(u)) /\ Forgets(u)
  /\ UNCHANGED <<listed, active, tables>>

\* DROP TABLE, then RESTORE TABLE, which needs a copy and no table.
Drop(u) ==
  /\ Wants(u, "Restore Now")
  /\ tables' \in {tables, tables \ {For(u)}}
  /\ request' = [request EXCEPT ![u].mode = "Restored"]
  /\ UNCHANGED <<shown, chosen, since, listed, active, backup>>

Restore(u) ==
  /\ Wants(u, "Restored")
  /\ tables' \in {tables, tables \cup ({For(u)} \cap backup)}
  /\ Answers(u, "Restored", For(u)) /\ Forgets(u)
  /\ UNCHANGED <<listed, active, backup>>

\* The API creates a campaign, started at once, and deletes one.
ApiCampaign(q) ==
  /\ IF q \in listed
     THEN listed' = listed \ {q} /\ tables' = tables \ {q} /\ active' = active \ {q} /\ UNCHANGED since
     ELSE listed' = listed \cup {q} /\ tables' = tables \cup {q} /\ active' = active \cup {q} /\ Starts(q)
  /\ UNCHANGED <<shown, request, backup, chosen>>

\* It edits the setting "active".
ApiActive(q) ==
  /\ q \in listed
  /\ \/ active' = active \cup {q} /\ Starts(q)
     \/ active' = active \ {q} /\ UNCHANGED since
  /\ UNCHANGED <<shown, request, listed, tables, backup, chosen>>

PagesNext ==
  \/ \E u \in Browsers :
       \/ Click(u) \/ Shows(u) \/ Dies(u) \/ doStartQueue(u) \/ doStopQueue(u) \/ BackUp(u)
       \/ Drop(u) \/ Restore(u)
  \/ \E q \in Managed : ApiCampaign(q) \/ ApiActive(q)

PagesSpec == PagesInit /\ [][PagesNext]_pagesvars
-------------------------------------------------------------------------------
\* Whatever pages lie between the menu and a request, and whatever others do
\* meanwhile: what is changed belongs to the campaign chosen last, although each
\* page has to hand it on; and a table is only dropped or copied of a campaign
\* that was stopped when the page was made, unless it was started since, which
\* nobody checks.
ActsOnChosen ==
  \A u \in Browsers :
    /\ request[u].mode \in Changing => request[u].queue = chosen[u]
    /\ request[u].mode \in {"Backup Now", "Restore Now"} =>
         request[u].queue \notin active \ since[u]
===============================================================================
