------------------------------ MODULE Settings ------------------------------
(***************************************************************************)
(* The settings of a campaign: rows of the tables settings and filters     *)
(* that three programs share, each in statements of their own and without  *)
(* transactions.  The API (gd_api) creates and deletes campaigns row by    *)
(* row and edits single rows.  The CGI (dialeradmin.cpp) reads all rows    *)
(* and writes all of them back (queue.h, Write).  The daemon               *)
(* (gnudialer.cpp) does the same once when it starts (settings.h), reads   *)
(* them at every refresh, and throws out of its loop in a dialing pass     *)
(* that misses one of them.  One campaign, one server.                     *)
(***************************************************************************)
EXTENDS Naturals, Sequences

CONSTANTS
  Requests,         \* CGI processes
  Daemon,           \* the daemon, where it writes settings
  None,             \* no row, no value
  Parameters,       \* of the rows, "active" one of them
  CampaignForm,     \* those of the page Edit Campaign
  FilterForm,       \* those of the page Edit Filters
  Supplied,         \* those resetFilterSettings adds when they are missing
  Required,         \* those a dialing pass asks for
  Defaults,         \* Setting::$defaultSettings, a sequence of [parameter, value]
  DefaultFilters,   \* Filter::$defaultFilters, a sequence of filters
  Foreign,          \* what another campaign's rows and filters are
  Numbers,          \* positions a filter may be given
  Budgets           \* bounds: how many pages, edits, campaigns and starts of the daemon

Writers == Requests \cup {Daemon}
Values == {"true", "false"}
NoRows == [p \in Parameters |-> None]
Rows == [Parameters -> Values \cup {None}]
Filters == [number : Nat, on : BOOLEAN]

ASSUME SettingsAssumption ==
  /\ Daemon \notin Requests
  /\ None \notin Values
  /\ "active" \in Required /\ Required \subseteq Parameters
  /\ CampaignForm \subseteq Parameters /\ FilterForm \subseteq Parameters
  /\ Supplied \subseteq Parameters
  /\ Defaults \in Seq([parameter : Parameters, value : Values])
  /\ DefaultFilters \in Seq(Filters)
  /\ Foreign \in [row : Rows, list : Seq(Filters)]
  /\ Numbers \subseteq Nat
  /\ Budgets \subseteq [pages : Nat, edits : Nat, campaigns : Nat, starts : Nat]

VARIABLES
  campaign,   \* the number of the campaign of this name that is listed, or 0
  made,       \* how many there have been
  queue,      \* its row in queues exists
  leads,      \* its table campaign_... exists
  row,        \* its rows in settings
  stray,      \* its row in settings whose parameter is "filters", which Write makes
  table,      \* its rows in filters, ORDER BY position
  api,        \* what the API is creating or deleting
  writer,     \* the CGI processes and the daemon as they rewrite settings
  dmn,        \* the daemon and its snapshot
  left,       \* what is left of the bounds
  stale,      \* history: parameters whose row changed since a writer read it
  whole       \* history: the campaign was complete, or absent, when the daemon
              \* started, and the API has left it so

dbvars == <<campaign, made, queue, leads, row, stray, table>>
history == <<stale, whole>>
vars == <<dbvars, api, writer, dmn, left, history>>
-----------------------------------------------------------------------------
(***************************************************************************)
(* Reading                                                                 *)
(***************************************************************************)

StrayList == IF stray = None THEN <<>> ELSE << stray >>

\* getCampaignByName and getCampaignSettings.  A campaign that is not listed
\* leaves the id uninitialised: it is nobody's, or another campaign's.
Readable ==
  IF campaign # 0 THEN {[row |-> row, list |-> StrayList]}
  ELSE {[row |-> NoRows, list |-> <<>>], Foreign}

\* getCampaignFilters, for the campaign whose settings were read.
FiltersOf(id) == IF id # 0 /\ id = campaign THEN table ELSE <<>>

NoSnap == [here |-> FALSE, vals |-> NoRows, list |-> <<>>]
Current == IF campaign = 0 THEN NoSnap
           ELSE [here |-> TRUE, vals |-> row, list |-> StrayList \o table]

\* A pass over the campaigns throws: GetSetting finds no active, or the
\* campaign is active and another setting is missing.
Fatal(snap) ==
  /\ snap.here
  /\ \/ snap.vals["active"] = None
     \/ snap.vals["active"] = "true" /\ \E p \in Required : snap.vals[p] = None
-----------------------------------------------------------------------------
(***************************************************************************)
(* Writing: a request, or the daemon's start, from its reads to its last   *)
(* row                                                                     *)
(***************************************************************************)

Idle == [at |-> "idle", page |-> "none", vals |-> NoRows, given |-> NoRows,
         id |-> 0, to |-> 0, list |-> <<>>, todo |-> {}]

PageParams(page) ==
  CASE page = "campaign" -> CampaignForm
    [] page = "filters" -> FilterForm
    [] page \in {"start", "stop"} -> {"active"}
    [] OTHER -> {}

Becomes(w, record) == writer' = [writer EXCEPT ![w] = record]

\* doEditQueue, doEditFilters: the form shows the settings as they are.  The
\* page fails when one is missing.
OpenForm(r) ==
  /\ writer[r].at = "idle" /\ left.pages > 0
  /\ left' = [left EXCEPT !.pages = @ - 1]
  /\ \E page \in {"campaign", "filters"}, read \in Readable :
       /\ \A p \in PageParams(page) : read.row[p] # None
       /\ Becomes(r, [Idle EXCEPT !.at = "form", !.page = page, !.vals = read.row])
  /\ UNCHANGED <<dbvars, api, dmn>>

\* Save Campaign Settings, Save Filter Settings: the fields come back, some
\* of them changed.
Submit(r) ==
  /\ writer[r].at = "form"
  /\ \E given \in Rows :
       /\ \A p \in Parameters \ PageParams(writer[r].page) : given[p] = None
       /\ Becomes(r, [writer[r] EXCEPT !.at = "rows", !.given = given])
  /\ UNCHANGED <<dbvars, api, dmn, left>>

\* Start Campaign, Stop Campaign, Add Filter, Del Filter.
Press(r) ==
  /\ writer[r].at = "idle" /\ left.pages > 0
  /\ left' = [left EXCEPT !.pages = @ - 1]
  /\ \E page \in {"start", "stop", "add", "del"} :
       Becomes(r, [Idle EXCEPT !.at = "rows", !.page = page, !.given =
         CASE page = "start" -> [NoRows EXCEPT !["active"] = "true"]
           [] page = "stop" -> [NoRows EXCEPT !["active"] = "false"]
           [] OTHER -> NoRows])
  /\ UNCHANGED <<dbvars, api, dmn>>

\* A slip the checks must catch: the form's request writes back what the
\* form's page had read, of all settings.
ReadRowsNot(w) ==
  /\ writer[w].at = "rows"
  /\ \E read \in Readable :
       Becomes(w, [writer[w] EXCEPT !.at = "filters", !.id = campaign, !.list = read.list,
         !.vals = [p \in Parameters |->
           IF writer[w].given[p] # None THEN writer[w].given[p]
           ELSE IF writer[w].page \in {"campaign", "filters"} THEN writer[w].vals[p]
           ELSE read.row[p]]])
  /\ UNCHANGED <<dbvars, api, dmn, left>>

\* ParseQueue reads the settings, SetSetting puts the page's fields over
\* them; it throws when there is no row of one, and nothing is written.
\* resetFilterSettings adds those it misses.
ReadRows(w) ==
  /\ writer[w].at = "rows"
  /\ \E read \in Readable :
       LET shown == PageParams(writer[w].page)
           given == [p \in Parameters |->
                      IF w = Daemon /\ p \in Supplied /\ read.row[p] = None THEN "false"
                      ELSE writer[w].given[p]]
           vals == [p \in Parameters |->
                     IF given[p] # None THEN given[p]
                     ELSE IF p \in shown THEN writer[w].vals[p] ELSE read.row[p]]
       IN  Becomes(w, IF \E p \in shown : read.row[p] = None THEN Idle
                      ELSE [writer[w] EXCEPT !.at = "filters", !.id = campaign,
                              !.list = read.list, !.given = given, !.vals = vals])
  /\ UNCHANGED <<dbvars, api, dmn, left>>

Has(list, n) == \E i \in DOMAIN list : list[i].number = n

\* What a page makes of the filters it has read.  Those ticked on the form
\* are told by their place in the list; without any, the first is enabled.
\* doAddFilter leaves the number uninitialised when there is no filter.
Edited(page, list) ==
  CASE page = "filters" ->
         {[i \in DOMAIN list |-> [list[i] EXCEPT !.on = i \in ticked \/ (ticked = {} /\ i = 1)]] :
            ticked \in SUBSET (DOMAIN list)}
    [] page = "reset" -> {[i \in DOMAIN list |-> [list[i] EXCEPT !.on = i = 1]]}
    [] page = "add" ->
         {IF Has(list, n) THEN list ELSE Append(list, [number |-> n, on |-> FALSE]) :
            n \in IF list = <<>> THEN Numbers ELSE {Len(list)}}
    [] page = "del" -> {SelectSeq(list, LAMBDA f : f.number # n) : n \in Numbers}
    [] OTHER -> {list}

\* ParseQueue reads the filters, and the page edits them; GetSetting(0,
\* "filters") throws when there are none, which ends the daemon's start.
ReadFilters(w) ==
  /\ writer[w].at = "filters"
  /\ LET list == writer[w].list \o FiltersOf(writer[w].id)
         throws == list = <<>> /\ writer[w].page \in {"filters", "reset"}
     IN  IF throws
         THEN /\ Becomes(w, Idle)
              /\ dmn' = IF w = Daemon THEN [dmn EXCEPT !.at = "dead"] ELSE dmn
         ELSE /\ \E edited \in Edited(writer[w].page, list) :
                   Becomes(w, [writer[w] EXCEPT !.at = "find", !.list = edited])
              /\ UNCHANGED dmn
  /\ UNCHANGED <<dbvars, api, left>>

\* Write: getQueueIdByCode.  Without a queue nothing is written.
FindQueue(w) ==
  /\ writer[w].at = "find"
  /\ Becomes(w, IF ~queue THEN Idle
                ELSE [writer[w] EXCEPT !.at = "write", !.to = campaign,
                        !.todo = {p \in Parameters : writer[w].vals[p] # None}])
  /\ UNCHANGED <<dbvars, api, dmn, left>>

\* What is left of a Write after one of its rows.
After(w, todo, list) ==
  IF todo = {} /\ list = <<>> THEN Idle
  ELSE [writer[w] EXCEPT !.todo = todo, !.list = list]

\* The queue the rows are for is still there: an upsert for another fails on
\* the foreign key, which is caught, and the next row is tried.
Reaches(w) == queue /\ writer[w].to = campaign

\* A slip the checks must catch: a row whose value changes is deleted and
\* written again.
WriteRowAnew(w) ==
  /\ writer[w].at = "write"
  /\ \E p \in writer[w].todo :
       \/ /\ row[p] \notin {None, writer[w].vals[p]}
          /\ row' = [row EXCEPT ![p] = None]
          /\ UNCHANGED writer
       \/ /\ row[p] \in {None, writer[w].vals[p]}
          /\ Becomes(w, After(w, writer[w].todo \ {p}, writer[w].list))
          /\ row' = IF Reaches(w) THEN [row EXCEPT ![p] = writer[w].vals[p]] ELSE row
  /\ UNCHANGED <<campaign, made, queue, leads, stray, table, api, dmn, left>>

\* INSERT ... ON DUPLICATE KEY UPDATE of one setting, in the order the SELECT
\* gave, which is any.  Any of them may fail, which is caught.
WriteRow(w) ==
  /\ writer[w].at = "write"
  /\ \E p \in writer[w].todo :
       /\ Becomes(w, After(w, writer[w].todo \ {p}, writer[w].list))
       /\ \/ row' = IF Reaches(w) THEN [row EXCEPT ![p] = writer[w].vals[p]] ELSE row
          \/ UNCHANGED row
  /\ UNCHANGED <<campaign, made, queue, leads, stray, table, api, dmn, left>>

\* The filters follow.  All have the parameter "filters", so they are one
\* row, which keeps the last.
WriteFilter(w) ==
  /\ writer[w].at = "write" /\ writer[w].todo = {} /\ writer[w].list # <<>>
  /\ Becomes(w, After(w, {}, Tail(writer[w].list)))
  /\ \/ stray' = IF Reaches(w) THEN Head(writer[w].list) ELSE stray
     \/ UNCHANGED stray
  /\ UNCHANGED <<campaign, made, queue, leads, row, table, api, dmn, left>>
-----------------------------------------------------------------------------
(***************************************************************************)
(* The API                                                                 *)
(***************************************************************************)

Doing(at, n) == [at |-> at, next |-> n]

\* A request that edits one row.
Edit ==
  /\ left.edits > 0
  /\ left' = [left EXCEPT !.edits = @ - 1]
  /\ UNCHANGED <<campaign, made, queue, leads, api, writer, dmn>>

\* SettingsController: create one that is missing (the key is unique), update
\* or delete one that is there.
EditSetting ==
  /\ Edit /\ queue
  /\ \E p \in Parameters, value \in Values \cup {None} :
       /\ value # row[p]
       /\ row' = [row EXCEPT ![p] = value]
  /\ UNCHANGED <<stray, table>>

DeleteStray ==
  /\ Edit /\ stray # None
  /\ stray' = None
  /\ UNCHANGED <<row, table>>

\* ORDER BY position: a new filter comes behind those before it; among equals
\* the order is any.
Inserted(list, f) ==
  {SubSeq(list, 1, i) \o << f >> \o SubSeq(list, i + 1, Len(list)) :
     i \in {j \in 0..Len(list) : \A k \in DOMAIN list :
              (list[k].number < f.number => k <= j) /\ (list[k].number > f.number => k > j)}}

Without(list, i) == SubSeq(list, 1, i - 1) \o SubSeq(list, i + 1, Len(list))

\* FilterController, create: without a position (0 counts as none) it is five
\* behind the number of filters.
AddFilter ==
  /\ Edit /\ queue
  /\ \E n \in (Numbers \ {0}) \cup {Len(table) + 5}, on \in BOOLEAN :
       table' \in Inserted(table, [number |-> n, on |-> on])
  /\ UNCHANGED <<row, stray>>

\* FilterController, update and delete.
EditFilter ==
  /\ Edit
  /\ \E i \in DOMAIN table :
       \/ table' = Without(table, i)
       \/ \E n \in Numbers, on \in BOOLEAN :
            table' \in Inserted(Without(table, i), [number |-> n, on |-> on])
  /\ UNCHANGED <<row, stray>>

\* CampaignController, create: the campaign, its queue, its settings and
\* filters one by one, its table.  The code is unique.
CreateCampaign ==
  /\ api.at = "idle" /\ campaign = 0 /\ left.campaigns > 0
  /\ left' = [left EXCEPT !.campaigns = @ - 1]
  /\ campaign' = made + 1 /\ made' = made + 1
  /\ api' = Doing("queue", 0)
  /\ UNCHANGED <<queue, leads, row, stray, table, writer, dmn>>

CreateQueue ==
  /\ api.at = "queue"
  /\ queue' = TRUE
  /\ api' = Doing("settings", 1)
  /\ UNCHANGED <<campaign, made, leads, row, stray, table, writer, dmn, left>>

\* A row somebody has made meanwhile violates the key, and the request ends.
CreateSetting ==
  /\ api.at = "settings"
  /\ IF api.next > Len(Defaults) THEN api' = Doing("filters", 1) /\ UNCHANGED row
     ELSE LET d == Defaults[api.next]
          IN  IF row[d.parameter] # None THEN api' = Doing("idle", 0) /\ UNCHANGED row
              ELSE /\ row' = [row EXCEPT ![d.parameter] = d.value]
                   /\ api' = Doing("settings", api.next + 1)
  /\ UNCHANGED <<campaign, made, queue, leads, stray, table, writer, dmn, left>>

CreateFilter ==
  /\ api.at = "filters"
  /\ IF api.next > Len(DefaultFilters) THEN api' = Doing("table", 0) /\ UNCHANGED table
     ELSE /\ table' \in Inserted(table, DefaultFilters[api.next])
          /\ api' = Doing("filters", api.next + 1)
  /\ UNCHANGED <<campaign, made, queue, leads, row, stray, writer, dmn, left>>

CreateTable ==
  /\ api.at = "table"
  /\ leads' = TRUE
  /\ api' = Doing("idle", 0)
  /\ UNCHANGED <<campaign, made, queue, row, stray, table, writer, dmn, left>>

\* CampaignController, delete: the table, the queue with its rows, the
\* campaign.  DROP TABLE fails where a creation has not come so far.
DropTable ==
  /\ api.at = "idle" /\ campaign # 0 /\ leads /\ left.campaigns > 0
  /\ left' = [left EXCEPT !.campaigns = @ - 1]
  /\ leads' = FALSE
  /\ api' = Doing("drop queue", 0)
  /\ UNCHANGED <<campaign, made, queue, row, stray, table, writer, dmn>>

DropQueue ==
  /\ api.at = "drop queue"
  /\ queue' = FALSE /\ row' = NoRows /\ stray' = None /\ table' = <<>>
  /\ api' = Doing("drop campaign", 0)
  /\ UNCHANGED <<campaign, made, leads, writer, dmn, left>>

DropCampaign ==
  /\ api.at = "drop campaign"
  /\ campaign' = 0
  /\ api' = Doing("idle", 0)
  /\ UNCHANGED <<made, queue, leads, row, stray, table, writer, dmn, left>>

\* A request may end between two of its statements: nothing is rolled back.
ApiFails ==
  /\ api.at # "idle"
  /\ api' = Doing("idle", 0)
  /\ UNCHANGED <<dbvars, writer, dmn, left>>
-----------------------------------------------------------------------------
(***************************************************************************)
(* The daemon                                                              *)
(***************************************************************************)

Down == [at |-> "down", starting |-> FALSE, vals |-> NoRows, list |-> <<>>,
         id |-> 0, snap |-> NoSnap]

Start ==
  /\ dmn.at \in {"down", "dead"} /\ left.starts > 0
  /\ left' = [left EXCEPT !.starts = @ - 1]
  /\ dmn' = [Down EXCEPT !.at = "names", !.starting = TRUE]
  /\ UNCHANGED <<dbvars, api, writer>>

\* After ParseQueues: the start resets the filters of the campaigns it found,
\* a refresh goes on to the pass.
Parsed(snap) ==
  IF dmn.starting /\ snap.here
  THEN /\ dmn' = [dmn EXCEPT !.at = "reset", !.snap = snap]
       /\ Becomes(Daemon, [Idle EXCEPT !.at = "rows", !.page = "reset"])
  ELSE /\ dmn' = [dmn EXCEPT !.at = "pass", !.starting = FALSE, !.snap = snap]
       /\ UNCHANGED writer

\* A slip the checks must catch: the campaigns of the last time stay.
ListCampaignsNot ==
  /\ dmn.at = "names"
  /\ IF campaign = 0 THEN Parsed(dmn.snap)
     ELSE dmn' = [dmn EXCEPT !.at = "rows"] /\ UNCHANGED writer
  /\ UNCHANGED <<dbvars, api, left>>

\* ParseQueues forgets the campaigns it had and lists them anew.
ListCampaigns ==
  /\ dmn.at = "names"
  /\ IF campaign = 0 THEN Parsed(NoSnap)
     ELSE dmn' = [dmn EXCEPT !.at = "rows"] /\ UNCHANGED writer
  /\ UNCHANGED <<dbvars, api, left>>

ParseRows ==
  /\ dmn.at = "rows"
  /\ \E read \in Readable :
       dmn' = [dmn EXCEPT !.at = "filters", !.vals = read.row, !.list = read.list,
                 !.id = campaign]
  /\ UNCHANGED <<dbvars, api, writer, left>>

ParseFilters ==
  /\ dmn.at = "filters"
  /\ Parsed([here |-> TRUE, vals |-> dmn.vals, list |-> dmn.list \o FiltersOf(dmn.id)])
  /\ UNCHANGED <<dbvars, api, left>>

\* resetFilterSettings has written; the daemon dials by what it read before.
Started ==
  /\ dmn.at = "reset" /\ writer[Daemon].at = "idle"
  /\ dmn' = [dmn EXCEPT !.at = "pass", !.starting = FALSE]
  /\ UNCHANGED <<dbvars, api, writer, left>>

\* A pass over the campaigns; what GetSetting throws ends the program.
Pass ==
  /\ dmn.at = "pass"
  /\ dmn' = [dmn EXCEPT !.at = IF Fatal(dmn.snap) THEN "dead" ELSE "loop"]
  /\ UNCHANGED <<dbvars, api, writer, left>>

\* The settings are read again after twenty seconds at the latest.
Refresh ==
  /\ dmn.at = "loop"
  /\ dmn' = [dmn EXCEPT !.at = "names"]
  /\ UNCHANGED <<dbvars, api, writer, left>>

Kill ==
  /\ dmn.at \notin {"down", "dead"}
  /\ dmn' = Down
  /\ Becomes(Daemon, Idle)
  /\ UNCHANGED <<dbvars, api, left>>
-----------------------------------------------------------------------------
(***************************************************************************)
(* The specification                                                       *)
(***************************************************************************)

\* A dialing pass and a start find what they ask for.
Complete ==
  campaign # 0 =>
    /\ queue /\ table # <<>>
    /\ \A p \in Required : row[p] # None

\* The parameters a writer takes anew in a step: all for a form, and for a
\* request those the form did not show.
Fresh(w) ==
  CASE writer[w].at = "idle" /\ writer'[w].at = "form" -> Parameters
    [] writer[w].at = "rows" /\ writer'[w].at = "filters" ->
         Parameters \ PageParams(writer[w].page)
    [] OTHER -> {}

\* What the history variables follow in every step.
History(whether) ==
  /\ stale' = [w \in Writers |->
       IF writer'[w].at = "idle" THEN {}
       ELSE IF Fresh(w) # {} /\ campaign = 0 THEN Parameters
       ELSE (stale[w] \ Fresh(w)) \cup {p \in Parameters : row'[p] # row[p]}]
  /\ whole' = whether

Init ==
  /\ \/ /\ campaign = 0 /\ made = 0 /\ queue = FALSE /\ leads = FALSE
        /\ row = NoRows /\ table = <<>>
     \/ /\ campaign = 1 /\ made = 1 /\ queue = TRUE /\ leads = TRUE
        /\ row \in [Parameters -> Values] /\ table = DefaultFilters
  /\ stray = None
  /\ api = Doing("idle", 0)
  /\ writer = [w \in Writers |-> Idle]
  /\ dmn = Down
  /\ left \in Budgets
  /\ stale = [w \in Writers |-> {}]
  /\ whole = Complete

Request(w) ==
  \/ ReadRows(w) \/ ReadFilters(w) \/ FindQueue(w) \/ WriteRow(w) \/ WriteFilter(w)

Api ==
  \/ EditSetting \/ DeleteStray \/ AddFilter \/ EditFilter
  \/ CreateCampaign \/ CreateQueue \/ CreateSetting \/ CreateFilter \/ CreateTable
  \/ DropTable \/ DropQueue \/ DropCampaign \/ ApiFails

Loop == ListCampaigns \/ ParseRows \/ ParseFilters \/ Started \/ Pass \/ Refresh

Next ==
  \/ /\ \/ \E r \in Requests : OpenForm(r) \/ Submit(r) \/ Press(r)
        \/ \E w \in Writers : Request(w)
        \/ Loop \/ Kill
     /\ History(whole)
  \/ Api /\ History(whole /\ Complete' /\ campaign' = campaign)
  \/ Start /\ History(Complete')

\* A daemon that runs goes on: reads and writes return, and the loop comes to
\* its next refresh.
Fairness == WF_vars(Loop /\ History(whole)) /\ WF_vars(Request(Daemon) /\ History(whole))

Spec == Init /\ [][Next]_vars /\ Fairness
-----------------------------------------------------------------------------
(***************************************************************************)
(* Properties                                                              *)
(***************************************************************************)

\* The variables have their types.
TypeOK ==
  /\ campaign \in 0..made /\ made \in Nat
  /\ queue \in BOOLEAN /\ leads \in BOOLEAN
  /\ row \in Rows
  /\ stray \in Filters \cup {None} /\ table \in Seq(Filters)
  /\ api \in [at : {"idle", "queue", "settings", "filters", "table",
                    "drop queue", "drop campaign"}, next : Nat]
  /\ writer \in [Writers ->
       [at : {"idle", "form", "rows", "filters", "find", "write"},
        page : {"none", "campaign", "filters", "start", "stop", "add", "del", "reset"},
        vals : Rows, given : Rows, id : Nat, to : Nat, list : Seq(Filters),
        todo : SUBSET Parameters]]
  /\ dmn \in [at : {"down", "dead", "names", "rows", "filters", "reset", "pass", "loop"},
              starting : BOOLEAN, vals : Rows, list : Seq(Filters), id : Nat,
              snap : [here : BOOLEAN, vals : Rows, list : Seq(Filters)]]
  /\ left \in [pages : Nat, edits : Nat, campaigns : Nat, starts : Nat]
  /\ stale \in [Writers -> SUBSET Parameters] /\ whole \in BOOLEAN

\* Two who save settings at the same time: Write writes every row, but one
\* its page was not given a value for keeps the value it has, unless it was
\* changed between the request's reading and its writing.
EntriesAreKept ==
  [][\A w \in Writers, p \in Parameters :
       (/\ writer[w].at = "write" /\ writer'[w] # writer[w]
        /\ writer[w].given[p] = None /\ p \notin stale[w]) => row'[p] = row[p]]_vars

\* No saving of pages, editing of rows or restart, in whatever order, ends
\* the daemon's loop, as long as the API deletes none of the rows a pass asks
\* for: a reader between two statements of a writer still finds them all.
SurvivesEdits == dmn.at = "dead" => ~whole

\* Once nobody edits, a daemon that runs comes to dial by what the tables
\* say: campaigns, settings and filters.
Settles ==
  (<>[][UNCHANGED dbvars]_vars) =>
    <>[](dmn.at \in {"down", "dead"} \/ dmn.starting \/ dmn.snap = Current)
=============================================================================
