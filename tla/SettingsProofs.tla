--------------------------- MODULE SettingsProofs ---------------------------
(***************************************************************************)
(* Proofs about Settings: saving a page keeps the entries it was not given *)
(* a value for, and edits do not end the daemon; and about ConfigSync: a   *)
(* server marked synced has loaded its members.  All for any parameters,   *)
(* forms, defaults, requests, queues and agents.                           *)
(***************************************************************************)
EXTENDS Settings, ConfigSync, SequenceTheorems, TLAPS

-----------------------------------------------------------------------------
(***************************************************************************)
(* Entries are kept                                                        *)
(***************************************************************************)

\* The parts of a writer.
Parts == {"at", "page", "vals", "given", "id", "to", "list", "todo"}

\* What is true of every writer: a form that is open has no fields yet.
WriterOK(r) ==
  /\ DOMAIN r = Parts
  /\ r.at \in {"idle", "form", "rows", "filters", "find", "write"}
  /\ r.todo \subseteq Parameters
  /\ r.at = "form" => r.given = NoRows

\* The parameters whose value a writer holds from its reading, at its stage.
Held(r) ==
  CASE r.at = "form" -> PageParams(r.page)
    [] r.at = "rows" -> PageParams(r.page)
    [] r.at \in {"filters", "find", "write"} -> Parameters
    [] OTHER -> {}

\* A value held, and neither given nor changed since, is the row's.
Keeps(w) ==
  \A p \in Held(writer[w]) :
    writer[w].given[p] = None /\ p \notin stale[w] => writer[w].vals[p] = row[p]

KeepInv ==
  /\ DOMAIN row = Parameters
  /\ DOMAIN writer = Writers
  /\ \A w \in Writers : WriterOK(writer[w]) /\ Keeps(w)

LEMMA HeldAre == \A r : Held(r) \subseteq Parameters
<1>1. \A page : PageParams(page) \subseteq Parameters
  BY SettingsAssumption DEF PageParams
<1>2. QED BY <1>1 DEF Held

LEMMA IdleOK == WriterOK(Idle) /\ Held(Idle) = {}
  BY DEF WriterOK, Idle, Parts, Held

LEMMA KeepInit == Init => KeepInv
<1>1. SUFFICES ASSUME Init PROVE KeepInv
  OBVIOUS
<1>2. DOMAIN row = Parameters
  BY <1>1 DEF Init, NoRows
<1>3. \A w \in Writers : writer[w] = Idle
  BY <1>1 DEF Init
<1>4. QED BY <1>1, <1>2, <1>3, IdleOK DEF Init, KeepInv, Keeps

\* A writer that goes on with what it holds keeps it.
LEMMA SameKeeps ==
  ASSUME KeepInv, NEW whether, History(whether), NEW w \in Writers,
         writer'[w].at # "idle", Fresh(w) = {},
         Held(writer'[w]) \subseteq Held(writer[w]),
         \A p \in Held(writer'[w]) : writer'[w].given[p] = None =>
           writer[w].given[p] = None /\ writer'[w].vals[p] = writer[w].vals[p]
  PROVE  Keeps(w)'
<1>1. SUFFICES ASSUME NEW p \in Held(writer'[w]), writer'[w].given[p] = None, p \notin stale'[w]
               PROVE  writer'[w].vals[p] = row'[p]
  BY DEF Keeps, Held, PageParams
<1>2. p \in Parameters
  BY HeldAre
<1>3. stale'[w] = stale[w] \cup {q \in Parameters : row'[q] # row[q]}
  BY DEF History
<1>4. p \notin stale[w] /\ row'[p] = row[p]
  BY <1>1, <1>2, <1>3
<1>5. QED BY <1>1, <1>4 DEF KeepInv, Keeps

\* A step of one writer, or of none.
LEMMA OneChanges ==
  ASSUME KeepInv, NEW whether, History(whether), DOMAIN row' = Parameters,
         NEW w \in Writers, NEW r, Becomes(w, r), WriterOK(r), Keeps(w)'
  PROVE  KeepInv'
<1>1. writer' = [writer EXCEPT ![w] = r] /\ DOMAIN writer' = Writers /\ writer'[w] = r
  BY DEF Becomes, KeepInv
<1>2. ASSUME NEW v \in Writers, v # w PROVE Keeps(v)' /\ writer'[v] = writer[v]
  <2>1. writer'[v] = writer[v]
    BY <1>1, <1>2 DEF KeepInv
  <2>2. CASE writer[v].at = "idle"
    BY <2>1, <2>2 DEF Keeps, Held, PageParams
  <2>3. CASE writer[v].at # "idle"
    <3>1. Fresh(v) = {}
      BY <2>1, <2>3 DEF Fresh
    <3>2. QED BY <2>1, <2>3, <3>1, SameKeeps
  <2>4. QED BY <2>1, <2>2, <2>3
<1>3. \A v \in Writers : WriterOK(writer[v])'
  BY <1>1, <1>2 DEF KeepInv, WriterOK, Parts, NoRows
<1>4. QED BY <1>1, <1>2, <1>3 DEF KeepInv

LEMMA NoneChanges ==
  ASSUME KeepInv, NEW whether, History(whether), DOMAIN row' = Parameters, writer' = writer
  PROVE  KeepInv'
<1>1. ASSUME NEW v \in Writers PROVE Keeps(v)'
  <2>2. CASE writer[v].at = "idle"
    BY <2>2 DEF Keeps, Held, PageParams
  <2>3. CASE writer[v].at # "idle"
    <3>1. Fresh(v) = {}
      BY <2>3 DEF Fresh
    <3>2. QED BY <2>3, <3>1, SameKeeps
  <2>4. QED BY <2>2, <2>3
<1>2. \A v \in Writers : WriterOK(writer[v])'
  BY DEF KeepInv, WriterOK, Parts, NoRows
<1>3. QED BY <1>1, <1>2 DEF KeepInv

\* A writer that falls idle holds nothing.
LEMMA FallsIdle ==
  ASSUME KeepInv, NEW whether, History(whether), DOMAIN row' = Parameters,
         NEW w \in Writers, Becomes(w, Idle)
  PROVE  KeepInv'
<1>1. writer'[w] = Idle
  BY DEF Becomes, KeepInv
<1>2. Keeps(w)'
  BY <1>1, IdleOK DEF Keeps, Held, PageParams
<1>3. QED BY <1>2, IdleOK, OneChanges

LEMMA OpenFormKeeps ==
  ASSUME KeepInv, NEW whether, History(whether), NEW w \in Requests, OpenForm(w)
  PROVE  KeepInv'
<1>1. PICK page \in {"campaign", "filters"}, read \in Readable :
        Becomes(w, [Idle EXCEPT !.at = "form", !.page = page, !.vals = read.row])
  BY DEF OpenForm
<1> DEFINE r == [Idle EXCEPT !.at = "form", !.page = page, !.vals = read.row]
<1>2. w \in Writers /\ row' = row /\ writer[w].at = "idle"
  BY DEF OpenForm, dbvars, Writers
<1>3. WriterOK(r) /\ r.at = "form" /\ r.vals = read.row
  BY DEF Idle, WriterOK, Parts
<1>4. writer'[w] = r
  BY <1>1, <1>2 DEF Becomes, KeepInv
<1>5. Fresh(w) = Parameters
  BY <1>2, <1>3, <1>4 DEF Fresh
<1>6. "active" \in Parameters
  BY SettingsAssumption
<1>7. Keeps(w)'
  <2>1. CASE campaign = 0
    <3>1. stale'[w] = Parameters
      BY <1>2, <1>3, <1>4, <1>5, <1>6, <2>1 DEF History
    <3>2. QED BY <3>1, HeldAre DEF Keeps, Held, PageParams
  <2>2. CASE campaign # 0
    <3>1. read.row = row
      BY <2>2 DEF Readable
    <3>2. QED BY <1>2, <1>3, <1>4, <3>1 DEF Keeps, Held, PageParams
  <2>3. QED BY <2>1, <2>2
<1>8. DOMAIN row' = Parameters
  BY <1>2 DEF KeepInv
<1> HIDE DEF r
<1>9. Becomes(w, r)
  BY <1>1 DEF r
<1>10. QED BY <1>2, <1>3, <1>7, <1>8, <1>9, OneChanges

LEMMA SubmitKeeps ==
  ASSUME KeepInv, NEW whether, History(whether), NEW w \in Requests, Submit(w)
  PROVE  KeepInv'
<1>1. PICK given \in Rows : Becomes(w, [writer[w] EXCEPT !.at = "rows", !.given = given])
  BY DEF Submit
<1> DEFINE r == [writer[w] EXCEPT !.at = "rows", !.given = given]
<1>2. w \in Writers /\ row' = row /\ writer[w].at = "form" /\ WriterOK(writer[w])
  BY DEF Submit, dbvars, Writers, KeepInv
<1>3. /\ WriterOK(r) /\ r.at = "rows" /\ r.vals = writer[w].vals /\ r.page = writer[w].page
      /\ writer[w].given = NoRows
  BY <1>2 DEF WriterOK, Parts
<1>4. writer'[w] = r
  BY <1>1, <1>2 DEF Becomes, KeepInv
<1>5. Fresh(w) = {} /\ Held(r) = Held(writer[w])
  BY <1>2, <1>3, <1>4 DEF Fresh, Held
<1>6. \A p \in Held(r) : writer[w].given[p] = None
  BY <1>3, HeldAre DEF NoRows
<1>7. DOMAIN row' = Parameters
  BY <1>2 DEF KeepInv
<1> HIDE DEF r
<1>8. Keeps(w)'
  BY <1>2, <1>3, <1>4, <1>5, <1>6, SameKeeps
<1>9. Becomes(w, r)
  BY <1>1 DEF r
<1>10. QED BY <1>2, <1>3, <1>7, <1>8, <1>9, OneChanges

LEMMA PressKeeps ==
  ASSUME KeepInv, NEW whether, History(whether), NEW w \in Requests, Press(w)
  PROVE  KeepInv'
<1>1. PICK page \in {"start", "stop", "add", "del"} :
        Becomes(w, [Idle EXCEPT !.at = "rows", !.page = page, !.given =
          CASE page = "start" -> [NoRows EXCEPT !["active"] = "true"]
            [] page = "stop" -> [NoRows EXCEPT !["active"] = "false"]
            [] OTHER -> NoRows])
  BY DEF Press
<1> DEFINE given == CASE page = "start" -> [NoRows EXCEPT !["active"] = "true"]
                      [] page = "stop" -> [NoRows EXCEPT !["active"] = "false"]
                      [] OTHER -> NoRows
           r == [Idle EXCEPT !.at = "rows", !.page = page, !.given = given]
<1>2. w \in Writers /\ row' = row /\ writer[w].at = "idle"
  BY DEF Press, dbvars, Writers
<1>3. \A p \in PageParams(page) : given[p] # None
  BY SettingsAssumption DEF PageParams, NoRows, Values
<1> HIDE DEF given
<1>4. WriterOK(r) /\ r.at = "rows" /\ r.given = given /\ r.page = page
  BY DEF Idle, WriterOK, Parts
<1>5. writer'[w] = r
  BY <1>1, <1>2 DEF Becomes, KeepInv, given
<1>6. Keeps(w)'
  BY <1>3, <1>4, <1>5 DEF Keeps, Held
<1>7. DOMAIN row' = Parameters
  BY <1>2 DEF KeepInv
<1>8. Becomes(w, r)
  BY <1>1 DEF given
<1> HIDE DEF r
<1>9. QED BY <1>2, <1>4, <1>6, <1>7, <1>8, OneChanges

LEMMA ReadRowsKeeps ==
  ASSUME KeepInv, NEW whether, History(whether), NEW w \in Writers, ReadRows(w)
  PROVE  KeepInv'
<1>1. row' = row /\ DOMAIN row' = Parameters /\ writer[w].at = "rows" /\ WriterOK(writer[w])
  BY DEF ReadRows, dbvars, KeepInv
<1> DEFINE shown == PageParams(writer[w].page)
           given(read) == [p \in Parameters |->
             IF w = Daemon /\ p \in Supplied /\ read.row[p] = None THEN "false"
             ELSE writer[w].given[p]]
           vals(read) == [p \in Parameters |->
             IF given(read)[p] # None THEN given(read)[p]
             ELSE IF p \in shown THEN writer[w].vals[p] ELSE read.row[p]]
           r(read) == [writer[w] EXCEPT !.at = "filters", !.id = campaign,
                        !.list = read.list, !.given = given(read), !.vals = vals(read)]
<1>2. PICK read \in Readable : Becomes(w, Idle) \/ Becomes(w, r(read))
  BY DEF ReadRows
<1>3. CASE Becomes(w, Idle)
  BY <1>1, <1>3, FallsIdle
<1>4. CASE Becomes(w, r(read))
  <2>1. /\ WriterOK(r(read)) /\ r(read).at = "filters"
        /\ r(read).given = given(read) /\ r(read).vals = vals(read)
    BY <1>1 DEF WriterOK, Parts
  <2>2. writer'[w] = r(read)
    BY <1>4 DEF Becomes, KeepInv
  <2>3. Held(r(read)) = Parameters /\ Held(writer[w]) = shown
    BY <1>1, <2>1 DEF Held
  <2>4. Fresh(w) = Parameters \ shown
    BY <1>1, <2>1, <2>2 DEF Fresh
  <2>5. ASSUME NEW p \in Parameters, given(read)[p] = None, p \notin stale'[w]
        PROVE  vals(read)[p] = row[p]
    <3>1. "false" # None
      BY SettingsAssumption DEF Values
    <3>2. writer[w].given[p] = None
      BY <2>5, <3>1
    <3>3. CASE p \in shown
      <4>1. vals(read)[p] = writer[w].vals[p]
        BY <2>5, <3>3
      <4>2. stale'[w] = Parameters \/ stale[w] \ (Parameters \ shown) \subseteq stale'[w]
        BY <2>1, <2>2, <2>4 DEF History
      <4>3. p \notin stale[w]
        BY <2>5, <3>3, <4>2
      <4>4. QED BY <2>3, <3>2, <3>3, <4>1, <4>3 DEF KeepInv, Keeps
    <3>4. CASE p \notin shown
      <4>1. vals(read)[p] = read.row[p] /\ Fresh(w) # {}
        BY <2>4, <2>5, <3>4
      <4>2. campaign # 0
        BY <2>1, <2>2, <2>5, <4>1 DEF History
      <4>3. QED BY <4>1, <4>2 DEF Readable
    <3>5. QED BY <3>3, <3>4
  <2> HIDE DEF r, given, vals
  <2>6. Keeps(w)'
    BY <1>1, <2>1, <2>2, <2>3, <2>5 DEF Keeps, Held
  <2>7. QED BY <1>1, <1>4, <2>1, <2>6, OneChanges
<1>5. QED BY <1>2, <1>3, <1>4

\* A writer that goes on from its reads to its last row.
LEMMA GoesOnKeeps ==
  ASSUME KeepInv, NEW whether, History(whether), DOMAIN row' = Parameters,
         NEW w \in Writers, writer[w].at \in {"filters", "find", "write"},
         NEW r, Becomes(w, r), WriterOK(r), r.at \in {"find", "write"},
         r.given = writer[w].given, r.vals = writer[w].vals
  PROVE  KeepInv'
<1>1. writer'[w] = r
  BY DEF Becomes, KeepInv
<1>2. Fresh(w) = {} /\ Held(r) = Held(writer[w])
  BY <1>1 DEF Fresh, Held
<1>3. Keeps(w)'
  BY <1>1, <1>2, SameKeeps
<1>4. QED BY <1>3, OneChanges

LEMMA ReadFiltersKeeps ==
  ASSUME KeepInv, NEW whether, History(whether), NEW w \in Writers, ReadFilters(w)
  PROVE  KeepInv'
<1>1. DOMAIN row' = Parameters /\ writer[w].at = "filters" /\ WriterOK(writer[w])
  BY DEF ReadFilters, dbvars, KeepInv
<1>2. CASE Becomes(w, Idle)
  BY <1>1, <1>2, FallsIdle
<1>3. ASSUME NEW edited, Becomes(w, [writer[w] EXCEPT !.at = "find", !.list = edited])
      PROVE  KeepInv'
  <2> DEFINE r == [writer[w] EXCEPT !.at = "find", !.list = edited]
  <2>1. WriterOK(r) /\ r.at = "find" /\ r.given = writer[w].given /\ r.vals = writer[w].vals
    BY <1>1 DEF WriterOK, Parts
  <2>2. Becomes(w, r)
    BY <1>3
  <2> HIDE DEF r
  <2>3. QED BY <1>1, <2>1, <2>2, GoesOnKeeps
<1>4. QED BY <1>2, <1>3 DEF ReadFilters

LEMMA FindQueueKeeps ==
  ASSUME KeepInv, NEW whether, History(whether), NEW w \in Writers, FindQueue(w)
  PROVE  KeepInv'
<1>1. DOMAIN row' = Parameters /\ writer[w].at = "find" /\ WriterOK(writer[w])
  BY DEF FindQueue, dbvars, KeepInv
<1> DEFINE r == [writer[w] EXCEPT !.at = "write", !.to = campaign,
                   !.todo = {p \in Parameters : writer[w].vals[p] # None}]
<1>2. Becomes(w, Idle) \/ Becomes(w, r)
  BY DEF FindQueue
<1>3. WriterOK(r) /\ r.at = "write" /\ r.given = writer[w].given /\ r.vals = writer[w].vals
  BY <1>1 DEF WriterOK, Parts
<1> HIDE DEF r
<1>4. QED BY <1>1, <1>2, <1>3, FallsIdle, GoesOnKeeps

LEMMA AfterIs ==
  ASSUME NEW w, WriterOK(writer[w]), writer[w].at = "write", NEW todo \in SUBSET Parameters, NEW list
  PROVE  \/ After(w, todo, list) = Idle
         \/ /\ WriterOK(After(w, todo, list)) /\ After(w, todo, list).at = "write"
            /\ After(w, todo, list).given = writer[w].given
            /\ After(w, todo, list).vals = writer[w].vals
  BY DEF After, WriterOK, Parts

LEMMA AfterKeeps ==
  ASSUME KeepInv, NEW whether, History(whether), DOMAIN row' = Parameters,
         NEW w \in Writers, writer[w].at = "write",
         NEW todo \in SUBSET Parameters, NEW list, Becomes(w, After(w, todo, list))
  PROVE  KeepInv'
<1>1. WriterOK(writer[w])
  BY DEF KeepInv
<1>2. CASE After(w, todo, list) = Idle
  BY <1>2, FallsIdle
<1>3. CASE After(w, todo, list) # Idle
  BY <1>1, <1>3, AfterIs, GoesOnKeeps
<1>4. QED BY <1>2, <1>3

LEMMA WriteRowKeeps ==
  ASSUME KeepInv, NEW whether, History(whether), NEW w \in Writers, WriteRow(w)
  PROVE  KeepInv'
<1>1. PICK p \in writer[w].todo : Becomes(w, After(w, writer[w].todo \ {p}, writer[w].list))
  BY DEF WriteRow
<1>2. writer[w].at = "write" /\ DOMAIN row' = Parameters
  BY DEF WriteRow, KeepInv
<1>3. writer[w].todo \ {p} \in SUBSET Parameters
  BY DEF KeepInv, WriterOK
<1>4. QED BY <1>1, <1>2, <1>3, AfterKeeps

LEMMA WriteFilterKeeps ==
  ASSUME KeepInv, NEW whether, History(whether), NEW w \in Writers, WriteFilter(w)
  PROVE  KeepInv'
<1>1. /\ writer[w].at = "write" /\ DOMAIN row' = Parameters
      /\ Becomes(w, After(w, {}, Tail(writer[w].list)))
  BY DEF WriteFilter, KeepInv
<1>2. QED BY <1>1, AfterKeeps

\* The API leaves the writers alone, and rows stay rows.
LEMMA ApiIs ==
  ASSUME Api, DOMAIN row = Parameters
  PROVE  writer' = writer /\ dmn' = dmn /\ DOMAIN row' = Parameters
<1>1. CASE EditSetting \/ DeleteStray \/ AddFilter \/ EditFilter
  BY <1>1 DEF EditSetting, DeleteStray, AddFilter, EditFilter, Edit
<1>2. CASE CreateCampaign \/ CreateQueue \/ CreateFilter \/ CreateTable
  BY <1>2 DEF CreateCampaign, CreateQueue, CreateFilter, CreateTable
<1>3. CASE CreateSetting
  BY <1>3 DEF CreateSetting
<1>4. CASE DropTable \/ DropQueue \/ DropCampaign
  BY <1>4 DEF DropTable, DropQueue, DropCampaign, NoRows
<1>5. CASE ApiFails
  BY <1>5 DEF ApiFails, dbvars
<1>6. QED BY <1>1, <1>2, <1>3, <1>4, <1>5 DEF Api

\* The daemon leaves the tables alone, and touches its own writer only.
LEMMA DaemonIs ==
  ASSUME Loop \/ Kill \/ Start
  PROVE  /\ UNCHANGED dbvars
         /\ \/ UNCHANGED writer
            \/ Becomes(Daemon, Idle)
            \/ Becomes(Daemon, [Idle EXCEPT !.at = "rows", !.page = "reset"])
  BY DEF Loop, Kill, Start, ListCampaigns, ParseRows, ParseFilters, Started, Pass, Refresh, Parsed

LEMMA DaemonKeeps ==
  ASSUME KeepInv, NEW whether, History(whether), Loop \/ Kill \/ Start
  PROVE  KeepInv'
<1> DEFINE r == [Idle EXCEPT !.at = "rows", !.page = "reset"]
<1>1. row' = row /\ DOMAIN row' = Parameters
  BY DaemonIs DEF dbvars, KeepInv
<1>2. Daemon \in Writers
  BY DEF Writers
<1>3. CASE Becomes(Daemon, r)
  <2>1. WriterOK(r) /\ Held(r) = {}
    BY DEF WriterOK, Idle, Parts, Held, PageParams
  <2>2. writer'[Daemon] = r
    BY <1>2, <1>3 DEF Becomes, KeepInv
  <2> HIDE DEF r
  <2>3. Keeps(Daemon)'
    BY <2>1, <2>2 DEF Keeps, Held, PageParams
  <2>4. QED BY <1>1, <1>2, <1>3, <2>1, <2>3, OneChanges
<1>4. QED BY <1>1, <1>2, <1>3, DaemonIs, NoneChanges, FallsIdle

LEMMA KeepStep == KeepInv /\ [Next]_vars => KeepInv'
<1>1. SUFFICES ASSUME KeepInv, [Next]_vars PROVE KeepInv'
  OBVIOUS
<1>2. CASE UNCHANGED vars
  BY <1>1, <1>2 DEF KeepInv, Keeps, Held, PageParams, WriterOK, Parts, NoRows, vars, dbvars, history
<1>3. ASSUME NEW w \in Requests, OpenForm(w) \/ Submit(w) \/ Press(w), History(whole)
      PROVE  KeepInv'
  BY <1>1, <1>3, OpenFormKeeps, SubmitKeeps, PressKeeps
<1>4. ASSUME NEW w \in Writers, Request(w), History(whole) PROVE KeepInv'
  BY <1>1, <1>4, ReadRowsKeeps, ReadFiltersKeeps, FindQueueKeeps, WriteRowKeeps, WriteFilterKeeps
     DEF Request
<1>5. CASE (Loop \/ Kill) /\ History(whole)
  BY <1>1, <1>5, DaemonKeeps
<1>6. CASE Api /\ History(whole /\ Complete' /\ campaign' = campaign)
  <2>1. writer' = writer /\ DOMAIN row' = Parameters
    BY <1>1, <1>6, ApiIs DEF KeepInv
  <2>2. QED BY <1>1, <1>6, <2>1, NoneChanges
<1>7. CASE Start /\ History(Complete')
  BY <1>1, <1>7, DaemonKeeps
<1>8. QED BY <1>1, <1>2, <1>3, <1>4, <1>5, <1>6, <1>7 DEF Next

LEMMA KeepAlways == Spec => []KeepInv
<1>1. Init => KeepInv
  BY KeepInit
<1>2. KeepInv /\ [Next]_vars => KeepInv'
  BY KeepStep
<1>3. QED BY <1>1, <1>2, PTL DEF Spec

\* What EntriesAreKept asks of a step.
KeepsEntries ==
  \A w \in Writers, p \in Parameters :
    (/\ writer[w].at = "write" /\ writer'[w] # writer[w]
     /\ writer[w].given[p] = None /\ p \notin stale[w]) => row'[p] = row[p]

LEMMA KeepsEntriesStep == KeepInv /\ [Next]_vars => KeepsEntries
<1>1. SUFFICES ASSUME KeepInv, [Next]_vars, NEW w \in Writers, NEW p \in Parameters,
                      writer[w].at = "write", writer'[w] # writer[w],
                      writer[w].given[p] = None, p \notin stale[w]
               PROVE  row'[p] = row[p]
  BY DEF KeepsEntries
<1>2. CASE row' = row
  BY <1>2
<1>3. ASSUME NEW v \in Writers, WriteRow(v) PROVE row'[p] = row[p]
  <2>1. PICK q \in writer[v].todo :
          /\ \E r : Becomes(v, r)
          /\ row' = [row EXCEPT ![q] = writer[v].vals[q]] \/ row' = row
    BY <1>3 DEF WriteRow
  <2>2. v = w
    BY <1>1, <2>1 DEF Becomes, KeepInv
  <2>3. writer[w].vals[p] = row[p]
    <3>1. Held(writer[w]) = Parameters
      BY <1>1 DEF Held
    <3>2. QED BY <1>1, <3>1 DEF KeepInv, Keeps
  <2>4. QED BY <1>1, <2>1, <2>2, <2>3 DEF KeepInv
<1>4. CASE Api
  BY <1>1, <1>4, ApiIs DEF KeepInv
<1>5. CASE Loop \/ Kill \/ Start
  BY <1>2, <1>5, DaemonIs DEF dbvars
<1>6. ASSUME NEW v \in Requests, OpenForm(v) \/ Submit(v) \/ Press(v) PROVE row' = row
  BY <1>6 DEF OpenForm, Submit, Press, dbvars
<1>7. ASSUME NEW v \in Writers, Request(v) PROVE row' = row \/ WriteRow(v)
  BY <1>7 DEF Request, ReadRows, ReadFilters, FindQueue, WriteFilter, dbvars
<1>8. CASE UNCHANGED vars
  BY <1>1, <1>8 DEF vars
<1>9. QED BY <1>1, <1>2, <1>3, <1>4, <1>5, <1>6, <1>7, <1>8 DEF Next

\* Saving a page keeps every entry it was not given a value for, unless the
\* entry changed between its reading and its writing (Queue::Write).
THEOREM SavingKeepsEntries == Spec => EntriesAreKept
<1>1. KeepInv /\ [Next]_vars => [KeepsEntries]_vars
  BY KeepsEntriesStep
<1>2. Spec => []KeepInv
  BY KeepAlways
<1>3. Spec => [][KeepsEntries]_vars
  BY <1>1, <1>2, PTL DEF Spec
<1>4. QED BY <1>3 DEF EntriesAreKept, KeepsEntries
-----------------------------------------------------------------------------
(***************************************************************************)
(* Edits do not end the daemon                                             *)
(***************************************************************************)

LEMMA InsertedTyped ==
  ASSUME NEW list \in Seq(Filters), NEW f \in Filters
  PROVE  Inserted(list, f) \subseteq Seq(Filters)
<1>1. ASSUME NEW i \in 0..Len(list)
      PROVE  SubSeq(list, 1, i) \o << f >> \o SubSeq(list, i + 1, Len(list)) \in Seq(Filters)
  <2>1. SubSeq(list, 1, i) \in Seq(Filters)
    BY <1>1, SubSeqProperties
  <2>2. SubSeq(list, i + 1, Len(list)) \in Seq(Filters)
    BY <1>1, SubSeqProperties
  <2>3. << f >> \in Seq(Filters)
    OBVIOUS
  <2>4. SubSeq(list, 1, i) \o << f >> \in Seq(Filters)
    BY <2>1, <2>3, ConcatProperties
  <2>5. QED BY <2>2, <2>4, ConcatProperties
<1>2. QED BY <1>1 DEF Inserted

LEMMA WithoutTyped ==
  ASSUME NEW list \in Seq(Filters), NEW i \in DOMAIN list
  PROVE  Without(list, i) \in Seq(Filters)
<1>1. i \in 1..Len(list)
  OBVIOUS
<1>2. SubSeq(list, 1, i - 1) \in Seq(Filters)
  BY <1>1, SubSeqProperties
<1>3. SubSeq(list, i + 1, Len(list)) \in Seq(Filters)
  BY <1>1, SubSeqProperties
<1>4. QED BY <1>2, <1>3, ConcatProperties DEF Without

\* The rows of filters are a sequence of filters.
TableInv ==
  /\ table \in Seq(Filters)
  /\ api.next \in Nat
  /\ api.at = "filters" => api.next > 0

LEMMA TableInit == Init => TableInv
<1>1. <<>> \in Seq(Filters) /\ DefaultFilters \in Seq(Filters)
  BY EmptySeq, SettingsAssumption
<1>2. ASSUME Init PROVE TableInv
  <2>1. table \in Seq(Filters)
    BY <1>1, <1>2 DEF Init
  <2>2. api = [at |-> "idle", next |-> 0]
    BY <1>2 DEF Init, Doing
  <2>3. QED BY <2>1, <2>2 DEF TableInv
<1>3. QED BY <1>2

LEMMA TableApi == TableInv /\ Api => TableInv'
<1>1. SUFFICES ASSUME TableInv, Api PROVE TableInv'
  OBVIOUS
<1>2. CASE EditSetting \/ DeleteStray
  BY <1>1, <1>2 DEF TableInv, EditSetting, DeleteStray, Edit
<1>3. CASE AddFilter
  <2>1. PICK n \in (Numbers \ {0}) \cup {Len(table) + 5}, on \in BOOLEAN :
          table' \in Inserted(table, [number |-> n, on |-> on])
    BY <1>3 DEF AddFilter
  <2>2. Len(table) \in Nat
    BY <1>1 DEF TableInv
  <2>3. [number |-> n, on |-> on] \in Filters
    BY <2>1, <2>2, SettingsAssumption DEF Filters
  <2>4. QED BY <1>1, <1>3, <2>1, <2>3, InsertedTyped DEF TableInv, AddFilter, Edit
<1>4. CASE EditFilter
  <2>1. PICK i \in DOMAIN table :
          \/ table' = Without(table, i)
          \/ \E n \in Numbers, on \in BOOLEAN :
               table' \in Inserted(Without(table, i), [number |-> n, on |-> on])
    BY <1>4 DEF EditFilter
  <2>2. \A n \in Numbers, on \in BOOLEAN : [number |-> n, on |-> on] \in Filters
    BY SettingsAssumption DEF Filters
  <2>3. Without(table, i) \in Seq(Filters)
    BY <1>1, WithoutTyped DEF TableInv
  <2>4. table' \in Seq(Filters)
    BY <2>1, <2>2, <2>3, InsertedTyped
  <2>5. QED BY <1>1, <1>4, <2>4 DEF TableInv, EditFilter, Edit
<1>5. CASE CreateCampaign \/ CreateQueue \/ CreateSetting \/ CreateTable
  BY <1>1, <1>5 DEF TableInv, CreateCampaign, CreateQueue, CreateSetting, CreateTable, Doing
<1>6. CASE CreateFilter
  <2>1. CASE api.next > Len(DefaultFilters)
    BY <1>1, <1>6, <2>1 DEF TableInv, CreateFilter, Doing
  <2>2. CASE ~(api.next > Len(DefaultFilters))
    <3>1. api.next \in 1..Len(DefaultFilters)
      BY <1>1, <1>6, <2>2, SettingsAssumption DEF TableInv, CreateFilter
    <3>2. DefaultFilters[api.next] \in Filters
      BY <3>1, SettingsAssumption
    <3>3. table' \in Seq(Filters)
      BY <1>1, <1>6, <2>2, <3>2, InsertedTyped DEF TableInv, CreateFilter
    <3>4. QED BY <1>1, <1>6, <2>2, <3>3 DEF TableInv, CreateFilter, Doing
  <2>3. QED BY <2>1, <2>2
<1>7. CASE DropTable \/ DropQueue \/ DropCampaign \/ ApiFails
  <2>1. table' \in Seq(Filters)
    BY <1>1, <1>7, EmptySeq DEF TableInv, DropTable, DropQueue, DropCampaign, ApiFails, dbvars
  <2>2. PICK at \in {"drop queue", "drop campaign", "idle"} : api' = [at |-> at, next |-> 0]
    BY <1>7 DEF DropTable, DropQueue, DropCampaign, ApiFails, Doing
  <2>3. api'.at = at /\ api'.next = 0
    BY <2>2
  <2>4. at # "filters"
    OBVIOUS
  <2>5. api'.next \in Nat
    <3>1. 0 \in Nat
      OBVIOUS
    <3>2. QED BY <2>3, <3>1
  <2>6. QED BY <2>1, <2>3, <2>4, <2>5 DEF TableInv
<1>8. QED BY <1>1, <1>2, <1>3, <1>4, <1>5, <1>6, <1>7 DEF Api

LEMMA TableStep == TableInv /\ [Next]_vars => TableInv'
<1>1. SUFFICES ASSUME TableInv, [Next]_vars PROVE TableInv'
  OBVIOUS
<1>2. CASE UNCHANGED <<table, api>>
  BY <1>1, <1>2 DEF TableInv
<1>3. CASE Loop \/ Kill \/ Start
  BY <1>2, <1>3
     DEF dbvars, Loop, Kill, Start, ListCampaigns, ParseRows, ParseFilters, Started, Pass, Refresh
<1>4. ASSUME NEW w \in Requests, OpenForm(w) \/ Submit(w) \/ Press(w)
      PROVE  UNCHANGED <<table, api>>
  BY <1>4 DEF OpenForm, Submit, Press, dbvars
<1>5. ASSUME NEW w \in Writers, Request(w) PROVE UNCHANGED <<table, api>>
  BY <1>5 DEF Request, ReadRows, ReadFilters, FindQueue, WriteRow, WriteFilter, dbvars
<1>6. CASE UNCHANGED vars
  BY <1>2, <1>6 DEF vars, dbvars
<1>7. QED BY <1>1, <1>2, <1>3, <1>4, <1>5, <1>6, TableApi DEF Next

LEMMA NotEmpty ==
  ASSUME NEW list, NEW x, list = <<>> \/ list = << x >>,
         NEW more \in Seq(Filters), more # <<>>
  PROVE  list \o more # <<>>
<1> DEFINE S == Filters \cup {x}
<1>1. list \in Seq(S)
  <2>1. << x >> \in Seq(S)
    OBVIOUS
  <2>2. QED BY <2>1, EmptySeq
<1>2. more \in Seq(S)
  BY SeqMonotonic
<1>3. Len(list) \in Nat /\ Len(more) \in Nat \ {0}
  BY <1>1, <1>2, EmptySeq, LenProperties
<1>4. Len(list \o more) = Len(list) + Len(more)
  BY <1>1, <1>2, ConcatProperties
<1>5. QED BY <1>3, <1>4, EmptySeq

\* The parts of the daemon.
DmnParts == {"at", "starting", "vals", "list", "id", "snap"}

\* Values that lack nothing a pass asks for.
Enough(vals) == \A p \in Required : vals[p] # None

\* What the daemon holds while its campaign is whole.
Alive ==
  /\ Complete
  /\ dmn.at # "dead"
  /\ dmn.at = "rows" => campaign # 0
  /\ dmn.at = "filters" => campaign # 0 /\ Enough(dmn.vals)
  /\ dmn.snap.here => Enough(dmn.snap.vals)
  /\ writer[Daemon].at = "rows" => campaign # 0
  /\ writer[Daemon].at = "filters" =>
       /\ campaign # 0 /\ writer[Daemon].id = campaign
       /\ writer[Daemon].list = <<>> \/ \E x : writer[Daemon].list = << x >>

\* A writer writes rows that have a value.
AliveInv ==
  /\ DOMAIN dmn = DmnParts
  /\ \A w \in Writers : writer[w].at = "write" =>
       \A p \in writer[w].todo : writer[w].vals[p] # None
  /\ whole => Alive

\* The inductive invariant.
LiveInv == KeepInv /\ TableInv /\ AliveInv

LEMMA AliveInit == Init => AliveInv
<1>1. SUFFICES ASSUME Init PROVE AliveInv
  OBVIOUS
<1>2. \A w \in Writers : writer[w] = Idle
  BY <1>1 DEF Init
<1>3. Daemon \in Writers
  BY DEF Writers
<1>4. \A w \in Writers : writer[w].at = "idle"
  BY <1>2 DEF Idle
<1>5. dmn = Down /\ whole = Complete
  BY <1>1 DEF Init
<1>6. QED BY <1>3, <1>4, <1>5 DEF AliveInv, Alive, Down, DmnParts, NoSnap

\* What one writer's step leaves of the others.
LEMMA OthersSame ==
  ASSUME KeepInv, NEW w \in Writers, NEW r, Becomes(w, r)
  PROVE  writer'[w] = r /\ \A v \in Writers \ {w} : writer'[v] = writer[v]
  BY DEF Becomes, KeepInv

\* A request's step that changes no table, and none of the daemon's.
LEMMA PageStep ==
  ASSUME LiveInv, whole' = whole, UNCHANGED <<dbvars, dmn>>,
         NEW w \in Requests, NEW r, Becomes(w, r), r.at # "write"
  PROVE  AliveInv'
<1>1. w \in Writers /\ Daemon \in Writers /\ Daemon # w
  BY SettingsAssumption DEF Writers
<1>2. writer'[w] = r /\ \A v \in Writers \ {w} : writer'[v] = writer[v]
  BY <1>1, OthersSame DEF LiveInv
<1>3. writer'[Daemon] = writer[Daemon]
  BY <1>1, <1>2
<1>4. QED BY <1>2, <1>3 DEF LiveInv, AliveInv, Alive, Complete, Enough, dbvars, DmnParts

LEMMA PagesAlive ==
  ASSUME LiveInv, whole' = whole, NEW w \in Requests, OpenForm(w) \/ Submit(w) \/ Press(w)
  PROVE  AliveInv'
<1>1. w \in Writers /\ UNCHANGED <<dbvars, dmn>>
  BY DEF Writers, OpenForm, Submit, Press
<1>2. DOMAIN writer[w] = Parts
  BY <1>1 DEF LiveInv, KeepInv, WriterOK
<1>3. \E r : Becomes(w, r) /\ r.at # "write"
  <2>1. CASE OpenForm(w)
    <3>1. PICK page, read : Becomes(w, [Idle EXCEPT !.at = "form", !.page = page, !.vals = read.row])
      BY <2>1 DEF OpenForm
    <3>2. [Idle EXCEPT !.at = "form", !.page = page, !.vals = read.row].at = "form"
      BY DEF Idle
    <3>3. QED BY <3>1, <3>2
  <2>2. CASE Submit(w)
    <3>1. PICK given : Becomes(w, [writer[w] EXCEPT !.at = "rows", !.given = given])
      BY <2>2 DEF Submit
    <3>2. [writer[w] EXCEPT !.at = "rows", !.given = given].at = "rows"
      BY <1>2 DEF Parts
    <3>3. QED BY <3>1, <3>2
  <2>3. CASE Press(w)
    <3>1. PICK page, given :
            Becomes(w, [Idle EXCEPT !.at = "rows", !.page = page, !.given = given])
      BY <2>3 DEF Press
    <3>2. [Idle EXCEPT !.at = "rows", !.page = page, !.given = given].at = "rows"
      BY DEF Idle
    <3>3. QED BY <3>1, <3>2
  <2>4. QED BY <2>1, <2>2, <2>3
<1>4. QED BY <1>1, <1>3, PageStep

LEMMA ReadRowsAlive ==
  ASSUME LiveInv, whole' = whole, NEW w \in Writers, ReadRows(w)
  PROVE  AliveInv'
<1>1. DOMAIN writer[w] = Parts /\ Daemon \in Writers /\ UNCHANGED <<dbvars, dmn>>
  BY DEF LiveInv, KeepInv, WriterOK, Writers, ReadRows
<1>2. PICK read \in Readable : \E given, vals :
        \/ Becomes(w, Idle)
        \/ Becomes(w, [writer[w] EXCEPT !.at = "filters", !.id = campaign,
                         !.list = read.list, !.given = given, !.vals = vals])
  BY DEF ReadRows
<1>3. PICK r : /\ Becomes(w, r)
               /\ \/ r.at = "idle"
                  \/ r.at = "filters" /\ r.id = campaign /\ r.list = read.list
  <2>0. PICK given, vals :
          \/ Becomes(w, Idle)
          \/ Becomes(w, [writer[w] EXCEPT !.at = "filters", !.id = campaign,
                           !.list = read.list, !.given = given, !.vals = vals])
    BY <1>2
  <2> DEFINE r == [writer[w] EXCEPT !.at = "filters", !.id = campaign,
                     !.list = read.list, !.given = given, !.vals = vals]
  <2>1. r.at = "filters" /\ r.id = campaign /\ r.list = read.list
    BY <1>1 DEF Parts
  <2>2. Idle.at = "idle"
    BY DEF Idle
  <2>3. Becomes(w, Idle) \/ Becomes(w, r)
    BY <2>0
  <2> HIDE DEF r
  <2>4. QED BY <2>1, <2>2, <2>3
<1>4. writer'[w] = r /\ \A v \in Writers \ {w} : writer'[v] = writer[v]
  BY <1>3, OthersSame DEF LiveInv
<1>5. campaign # 0 => read.list = <<>> \/ \E x : read.list = << x >>
  BY <1>2 DEF Readable, StrayList
<1>6. writer[w].at = "rows"
  BY DEF ReadRows
<1>7. QED BY <1>1, <1>3, <1>4, <1>5, <1>6
          DEF LiveInv, AliveInv, Alive, Complete, Enough, dbvars, DmnParts

LEMMA ReadFiltersAlive ==
  ASSUME LiveInv, whole' = whole, NEW w \in Writers, ReadFilters(w)
  PROVE  AliveInv'
<1>1. /\ DOMAIN writer[w] = Parts /\ Daemon \in Writers /\ UNCHANGED dbvars
      /\ writer[w].at = "filters"
  BY DEF LiveInv, KeepInv, WriterOK, Writers, ReadFilters
<1> DEFINE list == writer[w].list \o FiltersOf(writer[w].id)
<1>2. PICK r : Becomes(w, r) /\ r.at \in {"idle", "find"}
  <2>1. \/ Becomes(w, Idle)
        \/ \E edited : Becomes(w, [writer[w] EXCEPT !.at = "find", !.list = edited])
    BY DEF ReadFilters
  <2>2. \A edited : [writer[w] EXCEPT !.at = "find", !.list = edited].at = "find"
    BY <1>1 DEF Parts
  <2>3. Idle.at = "idle"
    BY DEF Idle
  <2>4. QED BY <2>1, <2>2, <2>3
<1>3. writer'[w] = r /\ \A v \in Writers \ {w} : writer'[v] = writer[v]
  BY <1>2, OthersSame DEF LiveInv
<1>4. ASSUME whole PROVE dmn' = dmn
  <2>1. CASE w # Daemon
    BY <2>1 DEF ReadFilters
  <2>2. CASE w = Daemon
    <3>1. /\ campaign # 0 /\ writer[w].id = campaign /\ table # <<>> /\ table \in Seq(Filters)
          /\ writer[w].list = <<>> \/ \E x : writer[w].list = << x >>
      BY <1>1, <1>4, <2>2 DEF LiveInv, AliveInv, Alive, Complete, TableInv
    <3>2. list # <<>>
      BY <3>1, NotEmpty DEF FiltersOf
    <3>3. QED BY <3>2 DEF ReadFilters
  <2>3. QED BY <2>1, <2>2
<1>5. DOMAIN dmn' = DmnParts
  BY DEF LiveInv, AliveInv, ReadFilters, DmnParts
<1>6. QED BY <1>1, <1>2, <1>3, <1>4, <1>5
          DEF LiveInv, AliveInv, Alive, Complete, Enough, dbvars

LEMMA FindQueueAlive ==
  ASSUME LiveInv, whole' = whole, NEW w \in Writers, FindQueue(w)
  PROVE  AliveInv'
<1>1. DOMAIN writer[w] = Parts /\ Daemon \in Writers /\ UNCHANGED <<dbvars, dmn>>
  BY DEF LiveInv, KeepInv, WriterOK, Writers, FindQueue
<1>2. PICK r : /\ Becomes(w, r)
               /\ \/ r.at = "idle"
                  \/ r.at = "write" /\ \A p \in r.todo : r.vals[p] # None
  <2> DEFINE r == [writer[w] EXCEPT !.at = "write", !.to = campaign,
                     !.todo = {p \in Parameters : writer[w].vals[p] # None}]
  <2>1. r.at = "write" /\ \A p \in r.todo : r.vals[p] # None
    BY <1>1 DEF Parts
  <2>2. Idle.at = "idle"
    BY DEF Idle
  <2>3. Becomes(w, Idle) \/ Becomes(w, r)
    BY DEF FindQueue
  <2> HIDE DEF r
  <2>4. QED BY <2>1, <2>2, <2>3
<1>3. writer'[w] = r /\ \A v \in Writers \ {w} : writer'[v] = writer[v]
  BY <1>2, OthersSame DEF LiveInv
<1>4. QED BY <1>1, <1>2, <1>3 DEF LiveInv, AliveInv, Alive, Complete, Enough, dbvars, DmnParts

LEMMA AfterLeaves ==
  ASSUME NEW w, DOMAIN writer[w] = Parts, writer[w].at = "write",
         NEW todo \in SUBSET writer[w].todo, NEW list,
         \A p \in writer[w].todo : writer[w].vals[p] # None
  PROVE  LET r == After(w, todo, list)
         IN  \/ r.at = "idle"
             \/ r.at = "write" /\ \A p \in r.todo : r.vals[p] # None
  BY DEF After, Idle, Parts

LEMMA WriteAlive ==
  ASSUME LiveInv, whole' = whole, NEW w \in Writers, WriteRow(w) \/ WriteFilter(w)
  PROVE  AliveInv'
<1>1. /\ DOMAIN writer[w] = Parts /\ Daemon \in Writers /\ writer[w].at = "write"
      /\ UNCHANGED <<campaign, queue, table, dmn>>
      /\ \A p \in writer[w].todo : writer[w].vals[p] # None
  BY DEF LiveInv, KeepInv, WriterOK, AliveInv, Writers, WriteRow, WriteFilter
<1>2. /\ \E todo \in SUBSET writer[w].todo : \E list : Becomes(w, After(w, todo, list))
      /\ row' = row \/ \E p \in writer[w].todo : row' = [row EXCEPT ![p] = writer[w].vals[p]]
  <2>1. CASE WriteRow(w)
    <3>1. PICK p \in writer[w].todo :
            /\ Becomes(w, After(w, writer[w].todo \ {p}, writer[w].list))
            /\ row' = row \/ row' = [row EXCEPT ![p] = writer[w].vals[p]]
      BY <2>1 DEF WriteRow
    <3>2. writer[w].todo \ {p} \in SUBSET writer[w].todo
      OBVIOUS
    <3>3. QED BY <3>1, <3>2
  <2>2. CASE WriteFilter(w)
    <3>1. Becomes(w, After(w, {}, Tail(writer[w].list))) /\ row' = row
      BY <2>2 DEF WriteFilter
    <3>2. QED BY <3>1
  <2>3. QED BY <2>1, <2>2
<1>3. PICK r : /\ Becomes(w, r)
               /\ \/ r.at = "idle"
                  \/ r.at = "write" /\ \A p \in r.todo : r.vals[p] # None
  BY <1>1, <1>2, AfterLeaves
<1>4. writer'[w] = r /\ \A v \in Writers \ {w} : writer'[v] = writer[v]
  BY <1>3, OthersSame DEF LiveInv
<1>5. Enough(row) => Enough(row')
  BY <1>1, <1>2, SettingsAssumption DEF Enough, LiveInv, KeepInv
<1>6. Complete => Complete'
  BY <1>1, <1>5 DEF Complete, Enough
<1>7. QED BY <1>1, <1>3, <1>4, <1>6 DEF LiveInv, AliveInv, Alive, Enough, DmnParts

LEMMA ApiAlive ==
  ASSUME LiveInv, Api, whole' = (whole /\ Complete' /\ campaign' = campaign)
  PROVE  AliveInv'
<1>1. writer' = writer /\ dmn' = dmn
  BY ApiIs DEF LiveInv, KeepInv
<1>2. QED BY <1>1 DEF LiveInv, AliveInv, Alive, Enough, DmnParts

LEMMA ParsedAlive ==
  ASSUME LiveInv, whole' = whole, UNCHANGED dbvars, NEW snap, Parsed(snap),
         dmn.at # "dead",
         whole /\ snap.here => campaign # 0 /\ Enough(snap.vals)
  PROVE  AliveInv'
<1>1. DOMAIN dmn = DmnParts /\ Daemon \in Writers
  BY DEF LiveInv, AliveInv, Writers
<1>2. dmn'.at \in {"reset", "pass"} /\ dmn'.snap = snap /\ DOMAIN dmn' = DmnParts
  BY <1>1 DEF Parsed, DmnParts
<1>3. CASE writer' = writer
  BY <1>2, <1>3 DEF LiveInv, AliveInv, Alive, Complete, Enough, dbvars
<1>4. CASE writer' # writer
  <2> DEFINE r == [Idle EXCEPT !.at = "rows", !.page = "reset"]
  <2>1. snap.here /\ Becomes(Daemon, r)
    BY <1>4 DEF Parsed
  <2>2. writer'[Daemon] = r /\ \A v \in Writers \ {Daemon} : writer'[v] = writer[v]
    BY <1>1, <2>1, OthersSame DEF LiveInv
  <2>3. r.at = "rows"
    BY DEF Idle
  <2> HIDE DEF r
  <2>4. QED BY <1>2, <2>1, <2>2, <2>3 DEF LiveInv, AliveInv, Alive, Complete, Enough, dbvars
<1>5. QED BY <1>3, <1>4

LEMMA LoopAlive ==
  ASSUME LiveInv, whole' = whole, Loop
  PROVE  AliveInv'
<1>1. DOMAIN dmn = DmnParts /\ UNCHANGED dbvars
  BY DaemonIs DEF LiveInv, AliveInv
<1>2. CASE ListCampaigns
  <2>1. CASE campaign = 0
    <3>1. Parsed(NoSnap) /\ dmn.at = "names" /\ ~NoSnap.here
      BY <1>2, <2>1 DEF ListCampaigns, NoSnap
    <3>2. QED BY <1>1, <3>1, ParsedAlive
  <2>2. CASE campaign # 0
    <3>1. dmn' = [dmn EXCEPT !.at = "rows"] /\ writer' = writer
      BY <1>2, <2>2 DEF ListCampaigns
    <3>2. QED BY <1>1, <2>2, <3>1
              DEF LiveInv, AliveInv, Alive, Complete, Enough, dbvars, DmnParts
  <2>3. QED BY <2>1, <2>2
<1>3. CASE ParseRows
  <2>1. PICK read \in Readable :
          dmn' = [dmn EXCEPT !.at = "filters", !.vals = read.row, !.list = read.list, !.id = campaign]
    BY <1>3 DEF ParseRows
  <2>2. dmn.at = "rows" /\ writer' = writer
    BY <1>3 DEF ParseRows
  <2>3. whole => campaign # 0 /\ Enough(read.row)
    BY <2>1, <2>2 DEF LiveInv, AliveInv, Alive, Complete, Enough, Readable
  <2>4. QED BY <1>1, <2>1, <2>2, <2>3
            DEF LiveInv, AliveInv, Alive, Complete, Enough, dbvars, DmnParts
<1>4. CASE ParseFilters
  <2> DEFINE snap == [here |-> TRUE, vals |-> dmn.vals, list |-> dmn.list \o FiltersOf(dmn.id)]
  <2>1. Parsed(snap) /\ dmn.at = "filters" /\ snap.vals = dmn.vals
    BY <1>4 DEF ParseFilters
  <2>2. whole => campaign # 0 /\ Enough(dmn.vals)
    BY <2>1 DEF LiveInv, AliveInv, Alive
  <2> HIDE DEF snap
  <2>3. QED BY <1>1, <2>1, <2>2, ParsedAlive
<1>5. CASE Started \/ Refresh
  <2>1. writer' = writer /\ dmn'.at \in {"pass", "names"} /\ dmn'.snap = dmn.snap
    BY <1>1, <1>5 DEF Started, Refresh, DmnParts
  <2>2. DOMAIN dmn' = DmnParts /\ dmn.at # "dead"
    BY <1>1, <1>5 DEF Started, Refresh
  <2>3. QED BY <1>1, <2>1, <2>2 DEF LiveInv, AliveInv, Alive, Complete, Enough, dbvars
<1>6. CASE Pass
  <2>1. whole => ~Fatal(dmn.snap)
    BY SettingsAssumption DEF LiveInv, AliveInv, Alive, Enough, Fatal
  <2>2. writer' = writer /\ dmn' = [dmn EXCEPT !.at = IF Fatal(dmn.snap) THEN "dead" ELSE "loop"]
    BY <1>6 DEF Pass
  <2>3. QED BY <1>1, <2>1, <2>2
            DEF LiveInv, AliveInv, Alive, Complete, Enough, dbvars, DmnParts
<1>7. QED BY <1>2, <1>3, <1>4, <1>5, <1>6 DEF Loop

LEMMA KillAlive ==
  ASSUME LiveInv, whole' = whole, Kill
  PROVE  AliveInv'
<1>1. dmn' = Down /\ Becomes(Daemon, Idle) /\ UNCHANGED dbvars /\ Daemon \in Writers
  BY DEF Kill, Writers
<1>2. writer'[Daemon] = Idle /\ \A v \in Writers \ {Daemon} : writer'[v] = writer[v]
  BY <1>1, OthersSame DEF LiveInv
<1>3. QED BY <1>1, <1>2
          DEF LiveInv, AliveInv, Alive, Complete, Enough, dbvars, Down, Idle, DmnParts, NoSnap

\* A start takes the tables as they are; before it the daemon's writer rests.
LEMMA StartAlive ==
  ASSUME LiveInv, writer[Daemon].at = "idle", whole' = Complete', Start
  PROVE  AliveInv'
<1>1. dmn' = [Down EXCEPT !.at = "names", !.starting = TRUE] /\ writer' = writer
  BY DEF Start
<1>2. QED BY <1>1 DEF LiveInv, AliveInv, Alive, Enough, Down, DmnParts, NoSnap

\* The daemon's writer is busy only in the daemon's start.
RestInv == writer[Daemon].at # "idle" => dmn.at = "reset"

LEMMA RestStep == LiveInv /\ RestInv /\ [Next]_vars => RestInv'
<1>1. SUFFICES ASSUME LiveInv, RestInv, [Next]_vars PROVE RestInv'
  OBVIOUS
<1>2. Daemon \in Writers /\ DOMAIN dmn = DmnParts /\ Idle.at = "idle"
  BY <1>1 DEF Writers, LiveInv, AliveInv, Idle
<1>3. CASE UNCHANGED <<writer, dmn>>
  BY <1>1, <1>3 DEF RestInv
<1>4. ASSUME NEW w \in Requests, OpenForm(w) \/ Submit(w) \/ Press(w) PROVE RestInv'
  <2>1. w \in Writers /\ w # Daemon /\ dmn' = dmn /\ \E r : Becomes(w, r)
    BY <1>4, SettingsAssumption DEF Writers, OpenForm, Submit, Press
  <2>2. writer'[Daemon] = writer[Daemon]
    BY <1>1, <1>2, <2>1, OthersSame DEF LiveInv
  <2>3. QED BY <1>1, <2>1, <2>2 DEF RestInv
<1>5. ASSUME NEW w \in Writers, Request(w) PROVE RestInv'
  <2>1. writer[w].at # "idle" /\ \E r : Becomes(w, r)
    <3>1. CASE ReadRows(w) \/ FindQueue(w)
      BY <3>1 DEF ReadRows, FindQueue
    <3>2. CASE ReadFilters(w)
      BY <3>2 DEF ReadFilters
    <3>3. CASE WriteRow(w) \/ WriteFilter(w)
      BY <3>3 DEF WriteRow, WriteFilter
    <3>4. QED BY <1>5, <3>1, <3>2, <3>3 DEF Request
  <2>2. dmn' = dmn \/ (w = Daemon /\ Becomes(Daemon, Idle))
    <3>1. CASE ReadFilters(w)
      <4>1. (Becomes(w, Idle) /\ w = Daemon) \/ dmn' = dmn
        BY <3>1 DEF ReadFilters
      <4>2. QED BY <4>1 DEF Becomes
    <3>2. CASE ReadRows(w) \/ FindQueue(w)
      <4>1. dmn' = dmn
        BY <3>2 DEF ReadRows, FindQueue
      <4>2. QED BY <4>1
    <3>3. CASE WriteRow(w) \/ WriteFilter(w)
      <4>1. dmn' = dmn
        BY <3>3 DEF WriteRow, WriteFilter
      <4>2. QED BY <4>1
    <3>4. QED BY <1>5, <3>1, <3>2, <3>3 DEF Request
  <2>3. CASE dmn' = dmn
    <3>1. w # Daemon => writer'[Daemon] = writer[Daemon]
      BY <1>1, <1>2, <2>1, OthersSame DEF LiveInv
    <3>2. QED BY <1>1, <2>1, <2>3, <3>1 DEF RestInv
  <2>4. CASE Becomes(Daemon, Idle)
    BY <1>1, <1>2, <2>4, OthersSame DEF LiveInv, RestInv
  <2>5. QED BY <2>2, <2>3, <2>4
<1>6. CASE Api
  BY <1>1, <1>3, <1>6, ApiIs DEF LiveInv, KeepInv
<1>7. CASE ListCampaigns \/ ParseFilters
  <2>1. /\ dmn.at # "reset"
        /\ writer' = writer \/ dmn'.at = "reset"
    BY <1>2, <1>7 DEF ListCampaigns, ParseFilters, Parsed, DmnParts
  <2>2. QED BY <1>1, <2>1 DEF RestInv
<1>8. CASE ParseRows \/ Started \/ Pass \/ Refresh \/ Start
  <2>1. writer' = writer /\ (dmn.at # "reset" \/ writer[Daemon].at = "idle")
    BY <1>8 DEF ParseRows, Started, Pass, Refresh, Start
  <2>2. QED BY <1>1, <2>1 DEF RestInv
<1>9. CASE Kill
  BY <1>1, <1>2, <1>9, OthersSame DEF Kill, LiveInv, RestInv
<1>10. CASE UNCHANGED vars
  BY <1>3, <1>10 DEF vars
<1>11. QED BY <1>1, <1>4, <1>5, <1>6, <1>7, <1>8, <1>9, <1>10 DEF Next, Loop

LEMMA AliveStep == LiveInv /\ RestInv /\ [Next]_vars => AliveInv'
<1>1. SUFFICES ASSUME LiveInv, RestInv, [Next]_vars PROVE AliveInv'
  OBVIOUS
<1>2. ASSUME NEW w \in Requests, OpenForm(w) \/ Submit(w) \/ Press(w), History(whole)
      PROVE  AliveInv'
  <2>1. whole' = whole
    BY <1>2 DEF History
  <2>2. QED BY <1>1, <1>2, <2>1, PagesAlive
<1>3. ASSUME NEW w \in Writers, Request(w), History(whole) PROVE AliveInv'
  <2>1. whole' = whole
    BY <1>3 DEF History
  <2>2. QED BY <1>1, <1>3, <2>1, ReadRowsAlive, ReadFiltersAlive, FindQueueAlive, WriteAlive
            DEF Request
<1>4. CASE (Loop \/ Kill) /\ History(whole)
  <2>1. whole' = whole
    BY <1>4 DEF History
  <2>2. QED BY <1>1, <1>4, <2>1, LoopAlive, KillAlive
<1>5. CASE Api /\ History(whole /\ Complete' /\ campaign' = campaign)
  <2>1. whole' = (whole /\ Complete' /\ campaign' = campaign)
    BY <1>5 DEF History
  <2>2. QED BY <1>1, <1>5, <2>1, ApiAlive
<1>6. CASE Start /\ History(Complete')
  <2>1. whole' = Complete'
    BY <1>6 DEF History
  <2>2. writer[Daemon].at = "idle"
    BY <1>1, <1>6 DEF RestInv, Start
  <2>3. QED BY <1>1, <1>6, <2>1, <2>2, StartAlive
<1>7. CASE UNCHANGED vars
  BY <1>1, <1>7 DEF LiveInv, AliveInv, Alive, Complete, Enough, vars, dbvars, history, DmnParts
<1>8. QED BY <1>1, <1>2, <1>3, <1>4, <1>5, <1>6, <1>7 DEF Next

\* No order of saving pages, editing rows, killing and starting ends the
\* daemon's loop while the API leaves the campaign its rows (GetSetting's
\* throw, and the catch at the end of main).
THEOREM EditsLeaveTheDaemonAlive == Spec => []SurvivesEdits
<1>1. Init => LiveInv /\ RestInv
  <2>1. Init => RestInv
    BY DEF Init, RestInv, Idle, Writers
  <2>2. QED BY <2>1, KeepInit, TableInit, AliveInit DEF LiveInv
<1>2. LiveInv /\ RestInv /\ [Next]_vars => (LiveInv /\ RestInv)'
  BY KeepStep, TableStep, AliveStep, RestStep DEF LiveInv
<1>3. LiveInv => SurvivesEdits
  BY DEF LiveInv, AliveInv, Alive, SurvivesEdits
<1>4. QED BY <1>1, <1>2, <1>3, PTL DEF Spec
-----------------------------------------------------------------------------
(***************************************************************************)
(* The configuration agent                                                 *)
(***************************************************************************)

\* How far a run of the agent has come with what the database holds, if
\* nobody has changed it since the run began to read.
Copied ==
  /\ sync.at = "write agents" => sync.agents = Config.agents
  /\ sync.at \in {"queues", "write queues", "mark", "reload"} => file.agents = Config.agents
  /\ sync.at = "write queues" => \A q \in Queues \ sync.todo : file.queues[q] = members[q]
  /\ sync.at \in {"mark", "reload"} => file = Config

SyncInv ==
  /\ SyncTypeOK
  /\ sync.at \in {"agents", "write agents", "queues", "write queues", "mark"} => ~synced
  /\ ~behind => Copied
  /\ synced /\ sync.at = "idle" /\ ~behind /\ ~unloaded => loaded = Config

LEMMA ConfigIs ==
  /\ Config.queues = members
  /\ members \in [Queues -> SUBSET Agents] => Config \in Text
<1>1. ASSUME members \in [Queues -> SUBSET Agents]
      PROVE  UNION {members[q] : q \in Queues} \in SUBSET Agents
  BY <1>1
<1>2. QED BY <1>1 DEF Config, Text

LEMMA TextEqual ==
  ASSUME NEW s \in Text, NEW t \in Text, s.agents = t.agents,
         \A q \in Queues : s.queues[q] = t.queues[q]
  PROVE  s = t
  BY DEF Text

LEMMA NothingTyped == Nothing \in Text
  BY DEF Nothing, Text

LEMMA SyncInvInit == SyncInit => SyncInv
<1>1. SUFFICES ASSUME SyncInit PROVE SyncInv
  OBVIOUS
<1>2. sync = [at |-> "idle", agents |-> {}, todo |-> {}]
  BY <1>1 DEF SyncInit, Resting
<1>3. SyncTypeOK
  <2>1. /\ members \in [Queues -> SUBSET Agents] /\ changes = 0
        /\ synced = FALSE /\ behind = FALSE /\ unloaded = FALSE
        /\ file \in Text /\ loaded \in Text
    BY <1>1, NothingTyped DEF SyncInit
  <2>2. sync \in [at : {"idle"}, agents : SUBSET Agents, todo : SUBSET Queues]
    BY <1>2
  <2>3. QED BY <2>1, <2>2 DEF SyncTypeOK
<1>4. Copied
  BY <1>2 DEF Copied
<1>5. QED BY <1>1, <1>2, <1>3, <1>4 DEF SyncInit, SyncInv

\* What a step that leaves the database alone shows of the invariant.
LEMMA RunStep ==
  ASSUME SyncInv, UNCHANGED <<members, changes>>,
         synced' \in BOOLEAN, behind' \in BOOLEAN, unloaded' \in BOOLEAN,
         file' \in Text, loaded' \in Text,
         sync' \in [at : {"idle", "agents", "write agents", "queues", "write queues",
                          "mark", "reload"},
                    agents : SUBSET Agents, todo : SUBSET Queues]
  PROVE  SyncTypeOK' /\ Config' = Config
  BY DEF SyncInv, SyncTypeOK, Config

\* A run that ends, before or after its mark, leaves no claim it did not keep.
LEMMA Ends ==
  ASSUME SyncInv, UNCHANGED <<members, synced, loaded, changes, behind>>,
         file' \in Text, sync' = Resting, sync.at # "idle", sync.at # "reload",
         unloaded' = unloaded
  PROVE  SyncInv'
<1>1. sync' \in [at : {"idle"}, agents : SUBSET Agents, todo : SUBSET Queues]
  BY DEF Resting
<1>2. SyncTypeOK' /\ Config' = Config
  BY <1>1, RunStep DEF SyncInv, SyncTypeOK
<1>3. ~synced
  BY DEF SyncInv, SyncTypeOK
<1>4. QED BY <1>1, <1>2, <1>3 DEF SyncInv, Copied

LEMMA SyncInvStep == SyncInv /\ [SyncNext]_syncvars => SyncInv'
<1>1. SUFFICES ASSUME SyncInv, [SyncNext]_syncvars PROVE SyncInv'
  OBVIOUS
<1>2. SyncTypeOK
  BY <1>1 DEF SyncInv
<1>3. CASE UpdateAgents
  <2>1. members' \in [Queues -> SUBSET Agents]
    BY <1>2, <1>3 DEF UpdateAgents, SyncTypeOK
  <2>2. UNCHANGED <<synced, file, loaded, sync, unloaded>> /\ behind' = TRUE /\ changes' \in Nat
    <3>1. changes' = changes + 1 /\ changes \in Nat
      BY <1>2, <1>3 DEF UpdateAgents, SyncTypeOK
    <3>2. UNCHANGED <<synced, file, loaded, sync, unloaded>> /\ behind' = TRUE
      BY <1>3 DEF UpdateAgents
    <3>3. QED BY <3>1, <3>2
  <2>3. SyncTypeOK'
    BY <1>2, <2>1, <2>2 DEF SyncTypeOK
  <2>4. QED BY <1>1, <2>2, <2>3 DEF SyncInv
<1>4. CASE AskForSync
  <2>1. /\ synced' = FALSE /\ UNCHANGED <<members, file, loaded, sync, changes, behind, unloaded>>
    BY <1>4 DEF AskForSync
  <2>2. SyncTypeOK' /\ Config' = Config
    BY <1>1, <1>2, <2>1, RunStep DEF SyncTypeOK
  <2>3. QED BY <1>1, <2>1, <2>2 DEF SyncInv, Copied
<1>5. CASE CheckUnsynced
  <2>1. /\ ~synced /\ UNCHANGED <<members, synced, file, loaded, changes>>
        /\ behind' = FALSE /\ unloaded' = FALSE
        /\ sync' \in [at : {"agents"}, agents : SUBSET Agents, todo : SUBSET Queues]
    BY <1>5 DEF CheckUnsynced, Resting
  <2>2. SyncTypeOK' /\ Config' = Config
    BY <1>1, <1>2, <2>1, RunStep DEF SyncTypeOK
  <2>3. QED BY <2>1, <2>2 DEF SyncInv, Copied
<1>6. CASE FetchAgents
  <2>1. /\ sync.at = "agents" /\ UNCHANGED <<members, synced, file, loaded, changes, behind, unloaded>>
        /\ sync' = [sync EXCEPT !.at = "write agents", !.agents = Config.agents]
    BY <1>6 DEF FetchAgents
  <2>2. Config.agents \in SUBSET Agents
    BY <1>2, ConfigIs DEF SyncTypeOK, Text
  <2>3. /\ sync' \in [at : {"write agents"}, agents : SUBSET Agents, todo : SUBSET Queues]
        /\ sync'.agents = Config.agents
    BY <1>2, <2>1, <2>2 DEF SyncTypeOK
  <2>4. SyncTypeOK' /\ Config' = Config
    BY <1>1, <1>2, <2>1, <2>3, RunStep DEF SyncTypeOK
  <2>5. QED BY <1>1, <2>1, <2>3, <2>4 DEF SyncInv, Copied
<1>7. CASE WriteAgents
  <2>1. /\ sync.at = "write agents"
        /\ UNCHANGED <<members, synced, loaded, changes, behind, unloaded>>
    BY <1>7 DEF WriteAgents
  <2>2. CASE file' = [file EXCEPT !.agents = sync.agents] /\ At("queues")
    <3>1. file' \in Text /\ file'.agents = sync.agents
      BY <1>2, <2>2 DEF SyncTypeOK, Text
    <3>2. sync' \in [at : {"queues"}, agents : SUBSET Agents, todo : SUBSET Queues]
      BY <1>2, <2>2 DEF SyncTypeOK, At
    <3>3. SyncTypeOK' /\ Config' = Config
      BY <1>1, <1>2, <2>1, <3>1, <3>2, RunStep DEF SyncTypeOK
    <3>4. QED BY <1>1, <2>1, <3>1, <3>2, <3>3 DEF SyncInv, Copied
  <2>3. CASE \E part \in SUBSET sync.agents :
               file' = [file EXCEPT !.agents = part] /\ sync' = Resting
    <3>1. file' \in Text
      BY <1>2, <2>3 DEF SyncTypeOK, Text
    <3>2. QED BY <1>1, <2>1, <2>3, <3>1, Ends
  <2>4. QED BY <1>7, <2>2, <2>3 DEF WriteAgents
<1>8. CASE FetchQueues
  <2>1. /\ sync.at = "queues" /\ UNCHANGED <<members, synced, loaded, changes, behind, unloaded>>
        /\ sync' = [sync EXCEPT !.at = "write queues", !.todo = Queues]
        /\ file' = [file EXCEPT !.queues = Nothing.queues]
    BY <1>8 DEF FetchQueues
  <2>2. file' \in Text /\ file'.agents = file.agents
    BY <1>2, <2>1, NothingTyped DEF SyncTypeOK, Text
  <2>3. /\ sync' \in [at : {"write queues"}, agents : SUBSET Agents, todo : SUBSET Queues]
        /\ sync'.todo = Queues
    BY <1>2, <2>1 DEF SyncTypeOK
  <2>4. SyncTypeOK' /\ Config' = Config
    BY <1>1, <1>2, <2>1, <2>2, <2>3, RunStep DEF SyncTypeOK
  <2>5. QED BY <1>1, <2>1, <2>2, <2>3, <2>4 DEF SyncInv, Copied
<1>9. CASE WriteQueue
  <2>1. PICK q \in sync.todo :
          /\ file' = [file EXCEPT !.queues[q] = members[q]]
          /\ sync' = [sync EXCEPT !.todo = @ \ {q},
                        !.at = IF sync.todo = {q} THEN "mark" ELSE @]
    BY <1>9 DEF WriteQueue
  <2>2. /\ sync.at = "write queues" /\ q \in Queues
        /\ UNCHANGED <<members, synced, loaded, changes, behind, unloaded>>
    BY <1>2, <1>9 DEF WriteQueue, SyncTypeOK
  <2>3. /\ file' \in Text /\ file'.agents = file.agents
        /\ file'.queues = [file.queues EXCEPT ![q] = members[q]]
    BY <1>2, <2>1, <2>2 DEF SyncTypeOK, Text
  <2>4. /\ sync' \in [at : {"write queues", "mark"}, agents : SUBSET Agents, todo : SUBSET Queues]
        /\ sync'.todo = sync.todo \ {q}
        /\ sync'.at = "mark" => sync.todo = {q}
    BY <1>2, <2>1, <2>2 DEF SyncTypeOK
  <2>5. SyncTypeOK' /\ Config' = Config
    BY <1>1, <1>2, <2>2, <2>3, <2>4, RunStep DEF SyncTypeOK
  <2>6. ASSUME ~behind, NEW r \in Queues \ (sync.todo \ {q}) PROVE file'.queues[r] = members[r]
    <3>1. DOMAIN file.queues = Queues
      BY <1>2 DEF SyncTypeOK, Text
    <3>2. r # q => file.queues[r] = members[r]
      BY <1>1, <2>2, <2>6 DEF SyncInv, Copied
    <3>3. QED BY <2>2, <2>3, <3>1, <3>2
  <2>7. ASSUME ~behind, sync.todo = {q} PROVE file' = Config
    <3>1. \A r \in Queues : file'.queues[r] = Config.queues[r]
      BY <2>6, <2>7, ConfigIs
    <3>2. file'.agents = Config.agents
      BY <1>1, <2>2, <2>3, <2>7 DEF SyncInv, Copied
    <3>3. Config \in Text
      BY <1>2, ConfigIs DEF SyncTypeOK
    <3>4. QED BY <2>3, <3>1, <3>2, <3>3, TextEqual
  <2>8. ~behind => file.agents = Config.agents
    BY <1>1, <2>2 DEF SyncInv, Copied
  <2>9. ~behind => Copied'
    BY <2>2, <2>3, <2>4, <2>5, <2>6, <2>7, <2>8 DEF Copied
  <2>10. QED BY <1>1, <2>2, <2>4, <2>5, <2>9 DEF SyncInv
<1>10. CASE MarkSynced
  <2>1. /\ sync.at = "mark" /\ synced' = TRUE /\ sync' = [sync EXCEPT !.at = "reload"]
        /\ UNCHANGED <<members, file, loaded, changes, behind, unloaded>>
    BY <1>10 DEF MarkSynced, At
  <2>2. sync' \in [at : {"reload"}, agents : SUBSET Agents, todo : SUBSET Queues]
    BY <1>2, <2>1 DEF SyncTypeOK
  <2>3. SyncTypeOK' /\ Config' = Config
    BY <1>1, <1>2, <2>1, <2>2, RunStep DEF SyncTypeOK
  <2>4. QED BY <1>1, <2>1, <2>2, <2>3 DEF SyncInv, Copied
<1>11. CASE Reload
  <2>1. /\ sync.at = "reload" /\ UNCHANGED <<members, synced, file, changes, behind>>
        /\ \/ loaded' = file /\ unloaded' = unloaded
           \/ unloaded' = TRUE /\ loaded' = loaded
        /\ sync' \in [at : {"idle"}, agents : SUBSET Agents, todo : SUBSET Queues]
    <3>1. Resting \in [at : {"idle"}, agents : SUBSET Agents, todo : SUBSET Queues]
      BY DEF Resting
    <3>2. QED BY <1>11, <3>1 DEF Reload
  <2>2. SyncTypeOK' /\ Config' = Config
    BY <1>1, <1>2, <2>1, RunStep DEF SyncTypeOK
  <2>3. QED BY <1>1, <2>1, <2>2 DEF SyncInv, Copied
<1>12. CASE SyncDies
  <2>1. /\ sync.at # "idle" /\ sync' = Resting /\ unloaded' = (unloaded \/ sync.at = "reload")
        /\ UNCHANGED <<members, synced, file, loaded, changes, behind>>
    BY <1>12 DEF SyncDies
  <2>2. CASE sync.at # "reload"
    BY <1>1, <1>2, <2>1, <2>2, Ends DEF SyncTypeOK
  <2>3. CASE sync.at = "reload"
    <3>1. /\ unloaded' = TRUE
          /\ sync' \in [at : {"idle"}, agents : SUBSET Agents, todo : SUBSET Queues]
      BY <2>1, <2>3 DEF Resting
    <3>2. SyncTypeOK' /\ Config' = Config
      BY <1>1, <1>2, <2>1, <3>1, RunStep DEF SyncTypeOK
    <3>3. QED BY <1>1, <2>1, <3>1, <3>2 DEF SyncInv, Copied
  <2>4. QED BY <2>2, <2>3
<1>13. CASE UNCHANGED syncvars
  <2>1. UNCHANGED <<members, synced, file, loaded, sync, changes, behind, unloaded>>
    BY <1>13 DEF syncvars
  <2>2. SyncTypeOK' /\ Config' = Config
    BY <1>1, <1>2, <2>1, RunStep DEF SyncTypeOK
  <2>3. QED BY <1>1, <2>1, <2>2 DEF SyncInv, Copied
<1>14. QED BY <1>1, <1>3, <1>4, <1>5, <1>6, <1>7, <1>8, <1>9, <1>10, <1>11, <1>12, <1>13
           DEF SyncNext

\* What servers.synced promises after runs that ended anywhere: files and
\* Asterisk agree with the database (gnudialer_agent.py, main).
THEOREM SyncedIsLoaded == SyncSpec => []SyncedMeansLoaded
<1>1. SyncInv => SyncedMeansLoaded
  BY DEF SyncInv, SyncedMeansLoaded
<1>2. QED BY <1>1, SyncInvInit, SyncInvStep, PTL DEF SyncSpec
=============================================================================
