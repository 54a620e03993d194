# GnuDialer 2.0 in TLA+

GnuDialer is a predictive dialer. A daemon (`src/gnudialer/gnudialer.cpp`) calls
the leads of campaigns through Asterisk, ahead of the agents' needs, and hands
every customer who answers to an agent who waits. This directory models the
daemon's decisions: who is available, how many lines to dial, which calls are
out, what a late or unexpected event does to all of it. TLC checks small
instances of the models, TLAPS proves the main results for every instance.

Run a check with `tlc -config MCAgents_safety.cfg MCAgents`, a proof with
`tlapm AgentsProofs.tla`.

## 1. The system

| part | where | state | operations |
|---|---|---|---|
| agents | `agent.h`, event branches of `gnudialer.cpp` | `herStatus`: one integer that is state, clock reading and sort key at once | login, logoff, pause, unpause, on call, wait, closeout; channel scan; `conf_bridges` scan |
| queues | `queue.h`, `settings.h` | snapshot of the active campaigns, their settings and members; replaced at each refresh | `ParseQueues`, `GetAvailAgents`, `LeastRecent` |
| call cache | `call.h` | deque of calls: campaign, lead, time, timeout, called, answered | `AddCall`, `SetAnswered`, `LinesDialing` (which also forgets timed out calls), `CallAll` |
| hosts | `asterisk.h` | list of Asterisk hosts with weights | `Rotate` (`pop_front`, for a host that is lost, is never reached) |
| pacing | `evaluate.h` | none | `evaluate` in modes auto, power, predictive (preview, inbound and closer dial nothing) |
| counters | `abnhelper.h` | calls, abandons and failures of the day, in memory and in a file per day | increments, `Write`, `Read` at each refresh |
| main loop | `gnudialer.cpp` | clock of the pass, time of the last refresh, the AMI stream | refresh, events, one dialing pass, `CallAll` |
| lead tables | MySQL `campaign_*` | disposition, attempts, lastupdated, cb_datetime | selection by the daemon; writes by the daemon, the API and the CRM |
| API, front end | `gd_api`, `gd_front` | dispositions, `synced` flags | user events to the daemon, writes to the leads |
| configuration agent | `gnudialer_agent.py` | configuration files, `servers.synced` | write, mark synced, reload |
| AMI websocket relay | `AmiWsServer/ami_ws_server.cpp` | the admin's connection, a socket per Asterisk server, a child per server | open, close and fail handlers, `onMessage`, `handle_action`, `listenToAMI` |
| websocket library | `AmiWsServer/websocketpp` | per connection: session and handshake state, parser, send queue, write lock, timers | accept, handshake, frames, close handshake, termination |
| settings | tables `settings`, `filters`, `queues`, `campaigns` | a row per parameter of a campaign's queue, a row per filter | the CGI and the daemon's start rewrite all rows, the API edits single ones, creates and deletes campaigns row by row |
| administration | `dialeradmin.cpp`, `adminwork.h` | hidden fields of the page shown; `queues.conf`, `agents.conf`, scripts | pages and the requests of their buttons; edits that rewrite a file |
| files of calls | `agent.h` 50-128, `dispo.h`, `submitinfo.cpp`, `dispo.cpp` | a file per agent and campaign, a line per call; in the daemon the agent's campaign and lead, and by her status whether her line is logged | `writeAgentLog`, `writeDispo`, of the daemon and of programs beside it |
| calling hours | `Admin/LeadController.php`; `tzpopulate.h`, `statepopulate.h`, `up.cpp`; `tzfilter.h`, `isholiday.h` | each lead's zones and its state's hours, in its row; the daemon's `isAHoliday` | the API's import of rows; `--tzpopulate`, statement by statement; `getFilter` in the queries |
| reports | `newstats.cpp`, `stats.cpp`, `allstats.cpp`, `agenthours.cpp` | none of their own | read the logs and the files of calls |

One pass of the daemon is: read the clock; perhaps refresh agents and queues;
read what Asterisk sent (for at most a second) and handle the events; for each
active campaign count lines and available agents, `evaluate`, select leads into
the cache; `CallAll`. Children are forked to place calls, to redirect a
customer to an agent's conference, to hang up; they share nothing with the
daemon afterwards.

What is hard about it, and what correctness means:

* **Readiness is a time modulo 1000000.** An agent is available when
  `status > 0 && now - status > 5`. That one test keeps two customers from
  reaching the same agent within the wrap-up, orders agents by longest wait,
  and excludes offline, paused and talking agents. It is right only if every
  handler that refreshes a status keeps "ready for no longer than since the last
  customer", and it is wrong when the clock wraps.
* **Events come late and in any order**, from several sources (Asterisk, CRM,
  API): dispositions after logoff, pauses of agents who left, hang-ups twice,
  names of campaigns no longer there. Some end the daemon.
* **Refreshes and restarts** rebuild statuses from the channel list and
  `conf_bridges` between any two events.
* **The call cache is shared** by campaigns with different timeouts, but
  calls leave it only at the front; the age of a call is an unsigned difference
  over the same wrapping clock.
* **Pacing limits** (maxlines, maxratio, maxabandons) are compared with numbers
  that answers, timeouts and arriving agents change between passes.
* **A lead's row is read in one place and written in another long after**: selected by one
  query and changed only when its call is answered or fails, copied to an agent's screen and
  written back whole. Correct are: every call counted, one attempt a day, callbacks at their time, no number of
  the DNC table.
* **Settings are shared without transactions.** `Queue::Write` puts back every row as it was read, one
  statement at a time, while the API edits rows and the daemon reads them; a dialing pass that misses one
  row ends the daemon.

* **The files of calls have several writers and no lock.** A call is logged by its hang-up or by its disposition,
  whichever comes first, and its disposition written by the daemon or by a CGI program that has read the last line before.
  Correct is: each call whose events come in order keeps one line of its own, with its lead and disposition, and the
  statistics count it once.
* **Calling hours are the law's**: hours of UTC, of zones, of states and of the server meet in one expression around midnight,
  over columns that `--tzpopulate` rewrites in steps while the daemon reads them.

`PROJECT.json` lists every hazard at its line with the properties that cover it.

## 2. Modules

| module | models | lines |
|---|---|---|
| `HandOut` | abstract: customers are handed to ready, rested agents | promise only |
| `Agents` | statuses, scans, all event branches, refresh, start, death | `agent.h`, `queue.h` 791-984, `gnudialer.cpp` 692-2565 |
| `Evaluate` | the pacing arithmetic | `evaluate.h` |
| `Dialing` | the call cache, the pass over the campaigns, callbacks, daily counters, restart | `call.h`, `abnhelper.h`, `gnudialer.cpp` 2618-3131 |
| `AmiStream` | how the manager's stream is cut into events | `gnudialer.cpp` 829-977, `SocketFunctions.h` |
| `Origination` | the hosts' turns and the forked children that place the calls | `asterisk.h`, `call.h` 93-217, 348-419 |
| `Counters` | the day's counters in memory and in files | `abnhelper.h`, `queue.h` 274-296, 615-660 |
| `Reports` | what the statistics pages read of them and of `queue_log` | `newstats.h` 46-171, 665-854, `newstats.cpp` |
| `CallLog` | agents' files of calls, the daemon's state they are written from, and the programs that write them beside the daemon | `agent.h` 50-196, 474-575, `dispo.h` 121-151, `submitinfo.cpp`, `cam2closer.h`, `dispo.cpp`, `gnudialer.cpp` 1289-1833, 2145-2565 |
| `CallStats` | what the pages of statistics count in them | `stats.h`, `newstats.h` 225-660, `stats.cpp`, `newstats.cpp`, `allstats.cpp` |
| `CallHours` | imported rows, their zones and hours, holidays, the filter and the calls it lets through | `Admin/LeadController.php` 108-199, `tzfilter.h`, `isholiday.h`, `state.h`, `statepopulate.h`, `tzpopulate.h`, `up.cpp` 93-210, `gnudialer.cpp` 709-718, 2697-2911 |
| `Leads` | a campaign's table of leads and everything that writes it | `gnudialer.cpp` 1039-1286, 1460-1608, 1974-2142, 2669-3113, `LeadController.php`, the lead's form of the CRM |
| `CrmPage` | the agent's page: its clicks, events and answers over the refs they share | `crm/index.vue` 185-224, 272-317, 353-438, 441-646, `LeadForm.vue` |
| `Detect` | what the dialplan's detectors make of the frames of an answered call | `dsp/app_machinedetect.c`, `dsp/app_nv_faxdetect.c`, `dsp/app_nv_backgrounddetect.c` |
| `WsFrames` | bytes and frames: the parser of a connection | `frame.hpp`, `hybi13.hpp`, `utf8_validator.hpp`, `close.hpp` |
| `WsLife` | abstract: how the library calls a program's handlers | promise only |
| `WsConnection` | a connection's life: handshake, reads, writes, close handshake, timers | `connection_impl.hpp`, `connection.hpp`, `transport/asio` |
| `WsHandshake` | the bytes of the opening request and the answer to it | `http/impl/request.hpp`, `http/impl/parser.hpp`, `connection_impl.hpp` 774-940, 1129-1290, `processor.hpp` |
| `AmiRelay` | the relay: both of the above, its handlers, main and the Asterisk servers | `ami_ws_server.cpp` |
| `Settings` | the rows of a campaign's settings and filters and the three programs that share them | `queue.h` 40-905, `settings.h`, `adminwork.h`, the settings' pages of `dialeradmin.cpp`, `Admin/*Controller.php` |
| `ConfigSync` | the configuration agent's run against changes of the members | `gnudialer_agent.py` |
| `AdminFiles` | the administrators' edits of Asterisk's files, line by line | `adminwork.h`, their requests in `dialeradmin.cpp` |
| `AdminPages` | the CGI page by page: which campaign a request is about, and what it may ask for | `dialeradmin.cpp` but for the import |
| `MCAgents`, `MCDaemon`, `MCDialing`, `MCOrigination`, `MCLeads`, `MCAnswered`, `MCCalls`, `MCPlaced`, `MCRelay`, `MCSettings` | instances for TLC | |
| `AgentsProofs`, `DialingProofs`, `LeadsProofs`, `WsConnectionProofs`, `SettingsProofs`, `CallLogProofs` | theorems about the modules they are named for; `DialingProofs` also about `Evaluate` and `Origination`, `WsConnectionProofs` about `AmiRelay`, `SettingsProofs` about `ConfigSync` | |
| `CalendarProofs` | theorems about `CallHours` and `Counters` | |
| `AnsweredProofs` | theorems about `AdminFiles`, `AdminPages`, `CrmPage` and `Detect`, which `MCAnswered` runs | |

### Agents

`status[a]` is `herStatus`, `member` the queue snapshot, `known` the agent list
(which never shrinks while the daemon lives), `phone` what `/ari/channels` says
of each agent's telephone, `joining` the forked redirects under way. `rest` is a
history variable: seconds since the agent was last handed a customer; no action
reads it. So is `left`: the agent logged off or a scan found no telephone of hers, and nothing but dispositions
and unpauses has come for her since. Every branch of the event loop that touches a status is one action;
the branch's lookups decide between ignoring an unknown name (`exists`) and
death (`where` throws out of the loop). The environment is free: telephones change
at will, events name any agent and campaign at any time, the database returns any
agent list and any of the `Memberships` at each refresh.

Left out: names, passwords, channels and talk time, which no decision reads; the campaign and the lead of an agent,
and what is logged of her calls, are in `CallLog`.

### Dialing

`turn` says where the pass is: 0 for the events, then each campaign, then
`CallAll`. `current` and `updated` are `currentTime` and
`timeSinceLastQueueUpdate`. The number of available agents is an input at each
campaign's turn (it is the `Agents` module's business), as are the rows a query
returns. `DialCampaign` is the whole body of the loop over the campaigns:
timed out calls leave the cache, `evaluate`, the main selection, the closer callback
and the agent callbacks, counters included. A death of the daemon at any point
loses the cache and keeps today's counters.

Settings are constants here: a refresh may change them in the code. Calls and
abandons are counted up to `MaxCalls`, the cache holds up to `MaxCache` calls.
`strays` is a history variable, the calls that a turn of the clock made `LinesDialing` pop although they still ring
(`Strayed`); `Out` counts them with the cache's lines, `TurnedOver` says that one of them is from before the turn.
A call's time runs from its being put in the cache, as the code's does, although its child may sleep up to two seconds (`call.h:104`) before it dials; calls of an earlier life of
the daemon are not counted, by it or by `Out`. No call gets older than one turn of the clock (`Tick`'s guard: the loop does not
stand still for 1000000 seconds). The fork of `DoCall` succeeds or ends the
daemon (`Restart`); what the child then does is `Origination`.

### AmiStream, Origination

`AmiStream` knows a character by its place in the text, so what a cut does to an event can be seen: the
rest of a line does not wait for the next read, each piece loses its last character (the CR, if the cut was not in the line),
only the block outlives the read. A second without a text is the event NoEvent, and so is a connection
that was closed: `recv` returns 0 and the daemon, which says it will try again (`gnudialer.cpp:963`), reads silence for ever. The
login's two reads take whatever has come. `damaged` and `heard` are history variables.

`Origination` reads the hosts' file line by line (the line after a host is its ARI line, whatever it says), gives each
host as many calls in a row as its weight, marks the daemon's own copy of a call and forks. The children come late, fail, or outlive the daemon; an
unreachable host or a trunk without its placeholder loses the call and nobody learns of it.

### Counters, Reports

The counters of one campaign. A line, in memory or in a file, is a text: blank or one number; a file holds the lines
written so far. Each line is a step, because `std::endl` flushes, and the daemon may die between two. The file's
name is taken from the clock as it is opened, the date in it from the last refresh. `counted`, `torn` and `late` are history variables.
`ansmachs` stands for the five counters that change in memory alone; what they gained since the last write is
lost at each refresh, which is why no property is about them.

`Reports` is the walk of `LoadDateRange` over all names of days, the 31st of short months included, each through a `mktime` that may be an hour
off (`tm_isdst` is never set, `newstats.h:778`), and the fold of `queue_log`'s lines about an agent into logged hours. `stats.h` is an older
copy of the latter. The sums over agents' files of calls are in `CallStats`.

### CallLog, CallStats

`agent[a]` is what an `Agent` of the daemon holds for the log: status, as far as the log asks for it (`Status`), campaign and lead. `file` has a
sequence of lines per agent and campaign, also for the campaign "initialized" of an agent who had no call; a line is its lead, its day and its dispositions
(more than one where two programs met). `writer` holds the programs beside the daemon (`submitinfo.cpp` with `cam2closer.h`, `dispo.cpp`) between their reading
of the last line and their writing. A line is appended in two places, `CallHangup` and the disposition events, if the hang-up was not there
yet (`StillToLog`); the scans of the telephones (`Refresh`) change status, campaign and lead at any time. History variables: `call` follows an agent's call as long as its
events come in order, `kept` are the calls that did so up to their disposition, `torn` the files another writer wrote to between a program's reading and writing. `MaxLines` bounds
the lines of all files, `LastDay` the clock, `Writers` the programs at a time.

`CallStats` is the pages' arithmetic over those files: the range of days compared field by field, the counts by disposition, rows of agents,
rows of campaigns, totals without closers. Averages and talk time, quotients of what is counted, are left out; so is
`dispo.cpp` with five arguments, which appends a line of its own and which no dialplan of the repository runs.

### CallHours

`table` holds of each row the zone (the file of area codes it was found in, 0 for none), the state's hours (`Unset` for NULL), disposition and
whether it is of `today`. `Import` is the API's, which adds rows with none of them to `campaign_<name>`. `Tzpopulate` begins what `gnudialer --tzpopulate` and the end of `up.cgi` do to
that table: `stage` is the statement it is at, the initial values, ten zones, hours of the whole day, then each state; each may
fail, and the daemon calls and the API imports meanwhile. `failed` and `covered` (the rows there at its beginning) are history variables. The table `<name>` without the prefix that `up.cgi` itself
creates and fills (`up.cpp:163`, `:181`) is not in the model: neither `--tzpopulate` nor the daemon reads it.
`clock` is the hour of UTC, `TmOf` the days as `struct tm`
has them, `Offset` what the server's local time differs by. `Place` is one of the three selections with its UPDATE, restricted to what tells hours.
The filter's SQL is `getFilter`; a row of no zone, or of hours that are NULL, does not pass. `placed` are the calls of the hour.
`isdst` is the code's rule of summer time. What the properties compare with is the lead's own clock: `Places` gives, of each place a lead may be in, its
hours ahead of UTC and the hours of summer time there, as the law has them and not as the code. Where the two differ (`Taken`), the properties allow one hour and no more.
Left out: comments in states.txt (which swallow the line after them), the rest of the selections (`Leads`).

### Leads

`row[l]` keeps of a lead's row what the queries read: `disposition`, `attempts`,
whether `lastupdated` is of today (`today`) and some minutes ago (`settled`; the two and the three minutes
of the queries are not told apart), `cb_datetime` as none, past or to come, and whether `closerdispo` is set. `calls` are the calls
that exist, from the cache to the agent's last message, each in a slot: its stage, the
context it was dialed into (`transfer`), the columns of the row the agent's screen holds
(`form`), what the agent entered, and which of the two messages of the screen, the API's
update and the user event, are still under way (`due`). `dials`, `dialed`, `over` and `promised` are history
variables; no guard reads them, but for the bound `MaxDials`.

The three selections of a pass are `DialMain`, `DialCloser` and `DialCallbacks`; each is the SELECT, the loop
with `AddCall` and the UPDATE in one step, and the LIMIT is "any leads that qualify". An UPDATE that fails ends the
daemon (`return 1`), which loses the cache: for the table that is a pass that did not happen. The OriginateResponses, the dialplan's user events, and the
two messages of the screen are one action each; any of them may be lost (no daemon, no connection, a failing `mysql`, whose
result nobody looks at). The screen's messages are delivered in any order and
late, after other calls of the same lead. Two details of the code matter for the
model: an UPDATE that changes nothing does not stamp `lastupdated`, and the variable `transfer` stays
`TRANSFER` when the callbacks are dialed after the closer section, so their OriginateResponses carry
the context gdtransfer and are ignored.

Assumed of Asterisk: the OriginateResponse of a call is sent before the dialplan's events of it.
The two ways to create the table, with and without ON UPDATE, are the
constant `OnUpdate`. Left out: the columns only the ORDER BY reads (pickups, abandons), the filters by area,
the filter by time zone (`CallHours`), manual changes of a row, and the API's records of dispositions. The API's update is not placed between a SELECT and its UPDATE.

### CrmPage

`page` holds the refs that more than one handler reads or writes, `asked` the requests under way; a handler's part before its `await` is
one action, its part after it another, taken for any request and with any answer the API may give, an error too. `ready` stands for the daemon: a
SetOnWait or a disposition it hears of lets it give her a customer, whose BRIDGEPEER event is `Bridged`. `of`, `searched` and `late` are history variables.
She clicks when her requests have been answered, and gives a disposition also while a lead is asked for (`Quiet`, `MayDispose`: bounds of the model,
the page lets her click at any time). Calls are customers' calls: their name names a lead.

### Detect

`det` is the application that runs on a channel: its locals and the channel's variables it sets. Time goes in frames; `Voice`, `Tone`, the time
and the end of the file are actions, and a line may suppress `MaxGap` frames in a row. `ast_dsp_silence`
is what the code uses of it: the silence so far. NVFaxDetect and NVBackgroundDetect share the token
(`Token`, `Audio`) and differ in what ends them. `heard` is a history variable, by which `HeardRight` counts the tokens anew. MachineDetect's
`do_waiting` makes a detector for each silence it waits for. Left out: recording formats, the arguments' parsing, DTMF's digits.

### AdminFiles, AdminPages

`conf` holds a file as its lines, as far as an edit tells them apart: a section, a member, an agent, another line, a text. A request is a
list of edits (one for each agent chosen), each of which reads the file, empties it and writes it line by line, or
appends; edits of the agents then tell Asterisk. Two that write a file at a time leave `Garbage`, of which nothing is said.
`missed` and the work's `before` are history.

`shown[u]` is a browser's page: the campaign of its hidden field or, on the menu, those offered, and its buttons. `request[u]` is what she clicked, until
the process ends. `listed`, `active`, `tables` and `backup` are what the database says, which the API and the other browsers change meanwhile; Write's
row by row is `Settings`. `chosen` and `since` are history variables.

Left out: texts and layout, pages no button leads to, several values of one field, passwords.

### WsFrames, WsHandshake, WsConnection, AmiRelay

The relay is a websocket server. `WsFrames` is a function: `Parse(parser, bytes)` takes what
one read brought and returns the parser's new state and the list of outcomes (a message,
a ping, a pong, a close frame, an error) that the loop of `handle_read_frame` will come to. Frames
are bytes, the two length extensions, the mask whose key is turned from read to read, and the UTF-8 automaton
included; "malformed" stands for every parse error, which the connection treats alike. As in
the code, `finalize_message` completes the UTF-8 check only when the last frame itself is a text frame: a text of several
frames is delivered though it ends inside a character, and `Tell` of `HearsWhatIsSent` says so.

`WsHandshake` is the request before the frames, read by read: what `consume` keeps of a line that has not ended, what each line does, what the whole then asks of
the processor, and the bytes that came behind it. A line is a header's name, a value as far as a decision reads it, and a length; "get" stands for a whole good request line.
`Requests` of `WsConnection` are its outcomes. `laps` is a history variable.

`WsConnection` holds one record per connection. The session state and the internal state are two fields,
as in the code; `reads` and `writes` count the asynchronous calls under way, `posted` the
`write_frame`s posted, `due` the timers that expired and whose handler is still queued (to cancel them no longer
helps), `loose` a close timer whose handle was overwritten. All handlers run on one thread, one at a time:
`busy` is the connection whose `handle_read_frame` is in its loop, which calls the program between two frames.
`heard`, `sent` and `life` are what the outside saw. `Terminate` can come from any of them, and what
was queued before it is still run after it.

`AmiRelay` puts the bytes of `Streams` through the parsers, gives the handlers of
`ami_ws_server.cpp` their state (`admin_hdl`, `amiSockets`) and runs `main` beside them, which inserts the map entry of a server
before the connected socket is in it. `CliCommand` reads its answer on the server's only thread and with no
timeout: `waiting` names the server it waits for, and no other handler runs meanwhile. A message for a server
whose entry is still null ends the process (`up`); one whose JSON has a field of another type gets no answer; a failing
`pipe` or `fork` returns from `main` with the thread still joinable, which ends it too.
The children forked for the servers work on copies of the connection and reach no client, so they have no actions.

Left out: the library's client role, proxies, TLS, the frames of draft 0, permessage-deflate (not configured), subprotocols, the text of the response, and the iostream, debug and stub transports.

### Settings, ConfigSync

One campaign on one server. `row` are its settings, `table` its filters in the order the daemon reads them,
`queue` and `leads` say whether its row in `queues` and its table exist. `writer` holds a CGI process, or the daemon as it
starts, from its reads to its last row: the form's page, the request with the fields given, `ParseQueue` in two
reads, `getQueueIdByCode`, then one statement a step in any order (the SELECT has no ORDER BY). Each may
fail, which the code catches and forgets. The daemon reads in the same steps; `Pass` throws where `GetSetting` would.
All filters are written under one parameter, so what is left of them is one row of `settings`, `stray`, which is read
before the table's filters; the table `filters` itself the CGI never changes. A campaign that is not
listed leaves the id it is read by uninitialised: `Readable` is then nothing or another campaign's rows (`Foreign`).
The API's steps are the statements of its requests; a request may end between two.
`stale` and `whole` are history variables: no guard reads them.

`ConfigSync` is the same database from the other side: a run reads the members statement by statement, writes the two
files, sets `synced`, then asks Asterisk to reload. Nothing in the repository sets `synced` back to 0: that is the operator's.

Left out: the server's number (reads use 1, writes `getServerId()`; both are the one server), settings' text, that a value is cut at a colon,
failing SELECTs, other tables, two runs of the agent at a time.

## 3. Runs

| run | shows | bounds |
|---|---|---|
| `agents_safety` | customers of one agent are more than the wrap-up apart; however many dispositions and unpauses come late, no customer goes to an agent who left (`GoneStayOut`: a late hang-up, link or pause is named as what brings her back); `Agents` implements `HandOut` | 2 agents, 2 campaigns one of which closes for the other, 2 snapshots, clock of 5 s, wrap-up 1 s, 2 redirects per agent |
| `agents_live` | an agent who becomes ready early enough becomes available; one whose telephone is gone is found offline. Beside it: whatever the cuts, an event is lost only if a cut or a silence fell into it; the day's counters are those counted; a report reads each day once; logged hours | 1 agent, clock of 7 s, wrap-up 2 s; texts of 4 events of one or two lines, reads of up to 9 characters; 4 days in months of 1 and 2, 2 counts, 3 lines of the log |
| `agents_wrap` (violated) | an agent ready at second 0 or close to the wrap never becomes available | as `agents_live` |
| `dialing_safety` | no ghost lines; of the calls out, those counted that the daemon forgot at a turn of the clock: auto keeps within maxlines, and within twice that at a turn, pacing keeps the ratio but at a turn. Beside it: calls through the filter keep to the settings' and the states' hours by the lead's own clock, and whoever may be called passes the filter | 2 campaigns (auto, timeout 2; predictive, timeout 1), 1 lead each, clock of 4 s, up to 2 agents, 3 calls. Hours: 2 leads, one of an area code in two zones, one of a state with 0-0 on Sundays and holidays; settings 9-21, server in New York; Saturday evening to Sunday morning, October 28, 2006, the night the clocks went back, and a holiday's morning |
| `dialing_live` | every call put in the cache is placed, times out or is lost with the daemon. Beside it: hosts get calls by their weights; no call is asked for twice | 1 campaign with callbacks and closers, 2 leads, clock of 5 s; 5 files of hosts, 5 calls |
| `dialing_maxlines` (violated) | calls out exceed maxlines in predictive mode | 1 campaign |
| `leads_safety` | every call counted in `attempts`; one dialing a day but for the cases the queries name; callbacks kept. Beside it: what the agent's page saves belongs to the call; detectors announce talk, and machines, by what was heard; an edit of a file that no other overlaps changes its own entry and keeps the rest, a deletion leaves the database's agents but its own (`EditsAreExact`), and Asterisk is told of the agents; what a page's request changes belongs to the campaign chosen | 1 lead, 2 calls at a time, 3 dialings, agents' dispositions 0 and 12, callbacks and closers on, calltoday off; the page: 2 campaigns of which she works for one, a lead in each, 2 calls; detection: up to 6 frames of voice, 1 suppressed, talk of 2 frames ended by 2 silent ones; files: 2 campaigns, one's name in the other's, 2 requests by one or two; pages: 1 browser, 2 campaigns, the API |
| `leads_once` (violated) | a fresh lead of today is dialed again, although its number is in the table DNC | 1 lead, 2 calls, no callbacks |
| `calls` | an orderly call keeps a line with its lead and disposition; no line changes but for its one disposition; the pages' counts over New Year are those of the orderly calls, once each, closers in their rows only | files of 2 lines; an agent alone with 2 campaigns, one the closers' of the other, and 2 programs beside the daemon, 2 days; an agent and a closer in 1 campaign, 2 dispositions, 1 day; restarts; ranges of 2 days, one over the turn of the year |
| `hours_import` (violated) | while `--tzpopulate` runs, a lead is called when her state forbids it | as the hours of `dialing_safety` |
| `relay` | one read and one write at a time; no queued frame without a wake-up; nothing after a close frame; messages arrive whole and in order, however they are cut; `admin_hdl` names a connection not ended; the connection implements `WsLife`; handshakes end. Beside it: an opening request gets the answer its lines call for, however it is cut | 2 clients, one of them with 7 conversations in reads of one byte or of all the rest, the other silent; messages of up to 4 bytes; 1 Asterisk server; 18 opening requests, reads of up to 6 characters, a head of up to 60 |
| `settings` | saving keeps what others changed before it read; no reader misses a row between two statements; the daemon comes to dial by the tables; a server marked synced has the files loaded | 2 requests, 4 parameters of which 2 are required, up to 2 filters in the table at first 1; two of: pages, edits, campaigns created or deleted, starts. Beside it `ConfigSync`: 2 queues, 2 agents, 2 changes |

Type correctness is proved (`TypeCorrect`, `DialingTypeCorrect`, `LeadsTypeCorrect`, `LogTypeCorrect`, `HoursTypeCorrect`), and no run checks it.

Why the bounds are enough: a clock a little longer than wrap-up or timeout lets
the wrap fall before, inside and after every interval the code measures, which is all
that distinguishes clock readings; a second agent suffices for the order of choice and
for being one's own closer; two snapshots suffice for a campaign and a membership
that come and go; two campaigns with different timeouts suffice for one call to hide
another in the deque; leads do not influence one another in `Leads`, two calls of one suffice for a late message of the first
to meet the second, and three dialings for each kind of selection to follow the others. The conversations of `relay` hold a
character cut between fragments with a ping inside, a fragmented text that ends inside a character, two refused close frames, a fragment out of order, a message over the limit,
a mistyped message and one that is no text, and a command with an action behind it; a second client is enough for `admin_hdl` to move. In `settings` each pair of writers meets, which is what a hazard of shared rows
needs; four parameters give each combination of shown on a page or not, and required or not. `Settings` and `ConfigSync` share no
row, so a behaviour is of the one or the other. In `CallLog` two lines suffice for a disposition to find the line before its own, and two programs for one to write between another's read and write. `CallHours` needs a lead of one zone
and one of two, and hours on both sides of midnight in each place, in summer, in winter and between the UTC day's end of summer time and the place's; the theorems cover every hour, calendar and place. An event of two lines with neighbours on both sides is enough for each kind of cut and each pair of cuts;
four days with a month's and a year's end, for a range with a day inside and for each way `mktime` moves a name. Evaluate's arithmetic is linear, and the theorems below cover
all its values.

## 4. Fairness

`Agents`: weak fairness of `Tick` (time passes) and of `Refresh`. The refresh is due
at the latest after 20 seconds, and at once when the clock wraps because the difference
is unsigned; the loop reaches it because its socket read times out after a second.
It is not claimed of a daemon that died: `Refresh` is then disabled.

`Dialing`: weak fairness of the loop's own steps (`EndEvents`, `DialCampaign`, `CallAll`,
`Begin`): nothing but the daemon's death stops it. Time, answers and the death
itself are not fair.

`AmiRelay`: weak fairness of the handlers of the server's thread (`asio`'s loop) and of timers; strong fairness
of `Timeout`, which is enabled only between the other handlers; weak fairness of the answer of a server that was asked, or of
its hanging up: without that the thread stays in `recv`. What clients send, failing reads and
writes and the main thread's progress are not fair.

`Settings`: weak fairness of the daemon's loop and of its own writing at the start (database calls return). Requests may
stop anywhere, the API too. `ConfigSync` claims no liveness: nothing runs the agent by itself.

## 5. Findings

* **Wrap-up across the clock's wrap** (`agents_wrap`). `queue.h:970` calls the test the
  wrap-up time. An agent who becomes ready at second 0, in the last six seconds before
  the wrap, or who is still waiting when it comes, is not available
  however long she waits; with 1000000 seconds this happens every eleven and a
  half days, until another event refreshes her status.
* **maxlines in predictive mode** (`dialing_maxlines`). `dialeradmin.cpp:1472` says no lead is
  called when the threshold has been reached. `evaluate.h:114` compares maxlines
  with the lines to add. Auto mode keeps the limit (`AutoWithinMaxLines`), but for the turn of the clock: the unsigned age of `call.h:385`
  is then huge for calls that still ring, `LinesDialing` pops them, and the campaign dials maxlines calls on top of them. The ratio of the other modes is exceeded the same way (`TurnedOver` of `RatioKept`).
* **One attempt a day** (`leads_once`). `dialeradmin.cpp:1437` promises it when calltoday is off. The query of
  `gnudialer.cpp:2702` admits every lead of today on disposition 1, and that stays until the
  OriginateResponse: a lead imported today is dialed again by the next pass, while its call is out.
  `OncePerDay` is what holds: no other lead is dialed twice by the main query, and only with a table that stamps its
  rows, which the API's tables (`DynamicTableCreator.php:48`) do not.
  For want of parentheses around the OR, this alternative asks no filter either, nor the table DNC, of which `dialeradmin.cpp:1448` promises a realtime
  check: the run's lead is on it.
* **Hours while `--tzpopulate` runs** (`hours_import`). `states.txt:6` lets a state forbid calls. `statepopulate.h` opens the hours of all rows, also those
  long imported, before it narrows them state by state, while the daemon dials.

Seen while modelling, without a run. Of agents: `CRM_CallHangup` is ignored for status -4 only (`gnudialer.cpp:2507`), so the late hang-up of an agent who logged off (-2) puts
her in closeout, and the disposition behind it makes her ready; `AgentPause` and an unpause do the same (`:2145`). A customer may then be handed to an agent without a telephone until the next scan (`Returns` of `GoneStayOut`
names these events; `PhonelessGoOffline` is what ends it). In pacing: `dialeradmin.cpp:1417` and `:1465` describe maxabandons as a percentage that stops dialing; `evaluate.h:103` multiplies by it
without dividing by 100, and gives idle agents lines in any case. Callbacks are dialed only in passes with exactly five seconds since the refresh (`gnudialer.cpp:2918`).

In the files of calls: `agent.h:554` empties the lead of an agent whose telephone a scan finds without a name, also during a call; the line then logged
does not have the fields `stats.h:282` shows, and its date, uninitialised, is compared all the same (`:246`). `gnudialer.cpp:1576` says not to use the agent's campaign; two
lines on, `writeAgentLog` does, and after a restart of the daemon that is another one.

In the calling hours: `dialeradmin.cpp:1486` promises that no lead is called before the first time or after the last, but for area codes in two zones the filter compares one zone with
the first and the other with the last, and between 23 o'clock in the one and 0 in the other both hold (`AtMidnight`, which `CalledInHours` excepts). The hour is the lead's, the weekday
the server's (`tzfilter.h:30`), so a state that forbids Sundays may be called on its Sunday.
Summer time is one rule for all zones (`tzfilter.h:50`), and `CalledInHours` allows an hour where it is not the lead's own: it is that of before 2007, so in the weeks from the second Sunday of March to the first of April, and
from the last of October to the first of November, every lead's clock is taken for an hour earlier than it is, and on an April 1 that is a Sunday it starts a week late; it goes by the UTC day, so on the last evening of summer time New York's 21 o'clock is taken for 20; and it
is added for Hawaii, where the filter's 9 is 8 o'clock all summer, and for Arizona, whose codes (480, 520, 602, 623, 928) `pacificmountain.final` lists as two zones although in each half of the year one is always right. Rows come
from two programs that do not agree on the table: `up.cpp:163` and `:181` create and fill `<campaign>`, while `tzpopulate.h:25` and `statepopulate.h:29`, which it then runs, and the daemon use
`campaign_<campaign>`: what `up.cgi` uploads is never called. The API fills the right table and leaves a file of that name (`helpers.php:49`), for which the script of `gd_api/README.md:24` runs `gnudialer --tzpopulate campaign_<campaign>`: that
populates `campaign_campaign_<campaign>`. `holidays.txt:7-12` gives the order of its numbers;
`isholiday.h` reads the static ones the other way round and compares months with `tm_mon`, so that Christmas is none, and what it finds is kept for as long as the daemon runs (`gnudialer.cpp:712`).

In the leads: the CRM always sends `TRANSFER` (`crm/index.vue:442`), so closerdispo is set only by
the dialplan's closers, and a sale is dialed for a closer every three minutes without end as long as nobody sets it; and
the API writes back the whole row the screen was opened with, which `AttemptsExact` has to except.

On the agent's page: an answer to getLead or to a search that comes when the next call is there puts the old call's lead in its form, and an answer to a
save then clears that form and disables its buttons (`late` excepts the first from `SavesItsLead`). Pausing during a call makes the disposition call
togglePause (`crm/index.vue:437`), which then ends the pause. A callback whose date is picked in the dialog only saves the form: no hangup, no user event,
no SetOnWait (`:272`); a date picked and cancelled goes with the next save. UserEventDispo names the campaign she is logged in to, not the lead's (`:447`): `SavesItsLead` says that the row saved is the call's lead in its own campaign, and that the daemon hears the same lead
and disposition under the queue's campaign.
The API takes the first QueueMemberPause it reads, whoever's. `isChannel2OnHold` is never reset for a new call, and `handle3WayTransfer` calls an `onError` that
useFetch does not return (`:734`).

In the detectors: a silence must be longer than sildur, where `app_nv_faxdetect.c:44` says at least; the first frame counts as audio though it is silent, so the first token begins with the call. Their result is the local the
last step left in it: after a silent frame the end of the file returns 1, with the option t the milliseconds that were left to wait. MachineDetect takes the whole
silence off its timeout with each silent frame (`app_machinedetect.c:128`), so a wait of 700 ms ends after about 280, or, once it is below 0, never by itself.

In the daemon: the example of the hosts' file lists one line per host, the code takes each second line for ARI parameters, so its two hosts would be one. A
campaign's totals, kept "throughout the life of the campaign" (`abnhelper.h:21`), start at 0 each day there is no file yet. A call counted after midnight and before
the refresh is written to the new day's file under the old date: until the next count a report shows the old day's numbers for both days (`Sound` excepts it). A half-written file
costs the day's counters. The child forked for a customer of a campaign whose name contains "none" does not exit (`gnudialer.cpp:1882`, `:1951`): it runs on as a second daemon.
`allstats.cpp` parses the agents' files once for each queue, so its sums are multiples; a campaign's total excludes agents from 600 on, its rows do not.

In the settings: the CGI's pages Add Filter and Del Filter and the reset at the start act on copies of the filters that end up as one row of
`settings`; the table `filters` never changes, whatever the page says (`dialeradmin.cpp:763`), and Save Global Settings writes
nothing (`:695`), as there is no campaign "general". A campaign made by the API has no `prn_` settings, so the CGI's
form for it throws. Creating and deleting a campaign row by row can end the daemon: a campaign is listed before its settings exist, and is
still listed after they are gone (`whole` excepts this from `SurvivesEdits`).

In the CGI's files: Remove takes a member out of every campaign whose name contains the one chosen (`adminwork.h:247`). An agent made by the CGI is in
`agents.conf` only, and the next deletion writes the database's agents, so he is lost then, and deleting two agents at once brings the first back
(`:383`). The number of a new agent is one more than the database's highest: two made in a row share it, and after 599 comes 600, a closer. A campaign made by the CGI is never listed, as its settings'
`Write` is commented out (`settings.h:147`). Two requests at a time lose edits or mix their lines; of a campaign's settings, `Write` undoes an edit made since they were read, which `EntriesAreKept` excepts (`stale`). On its pages: `OccurencesOf` counts from the second
character on, so a field that comes first is not counted (`post.h`); that a campaign must be stopped is looked at only when the page is made; the table is dropped before it is restored, whether
there is a copy or not (`dialeradmin.cpp:589`).

In the library: `sizeof` counts the delimiter's final zero, so each line of a request, and each read that ends before the head does, costs more of the limit of
16000 bytes than it is long (`request.hpp:68`): a head near the limit is accepted or refused by its cuts. A request with a Content-Length waits for a body though the comment says an upgrade does not (`:99`). Draft 0's third key must come with the last bytes of the head.

`hybi13.hpp:536` says to "ensure that text messages end on a valid UTF8 code point", and looks at the opcode of the last frame, which of a fragmented message is continuation: such a text may end inside a character.

In the relay: an action for the server is reported as a success whatever the write to its socket returned, an earlier admin
connection is not restored when the newer one closes, and one server that accepts a command and does not answer stops the relay for all.

The mode preview dials nothing because `evaluate.h:93` compares instead of
assigning; `dialeradmin.cpp:1417` says it is power mode with ratio 1. This can be
read off `Evaluate` and has no run.

## 6. Proofs

All theorems hold for any agents, campaigns, settings, clock modulus and wrap-up that
satisfy the named assumptions of the modules.

`AgentsProofs`

* `TypeCorrect`: `Spec => []TypeOK`; one lemma per kind of scan and handler.
* `SpacedInvariant`: a ready agent has not been ready for longer than since her last
  customer. It is inductive with `TypeOK`. It is the reason the wrap-up works: the
  code stores no time of the last customer, only a readiness that every handler may
  refresh forward and none may set back. The proof classifies every handler by what it
  writes: a constant below zero, the clock, or what was there.
* `HandOutsAreSpaced`: hence an agent who passes `IsAvailable` is rested.
* `AgentsRefineHandOut`: `Spec` implements `HandOut!Spec` with `ready` read as
  `status[a] > 0`.
* `TheGoneStayOut`: no customer goes to an agent who left. The invariant is that an agent of the list of whom `left` is true is offline, which dispositions and unpauses keep
  because `SetOnWait` looks; all others end `left`.

`DialingProofs`

* Of `evaluate.h`: no mode asks for a negative number (`EvaluateNat`), auto mode never
  passes maxlines (`AutoBound`), predictive mode gives each idle agent a line up to
  maxlines and adds at most maxlines (`PredictiveBounds`).
* `DialingTypeCorrect`: `Spec => []TypeOK`. `DialShape` says once what a campaign's
  turn does to the cache (a suffix of it, then new calls of that campaign), and
  everything below rests on it and on `PopSuffix`, `LinesPop`, `LinesAdd`: what popping and
  adding do to the deque and to the count of lines.
* `AutoKeepsMaxLines`, `PacingKeepsRatio`, `PredictiveLeavesNoAgentIdle`: the bounds of
  `evaluate.h` carried through the pass. No step but a campaign's own turn adds to its
  lines (`OthersAddNone`), and that turn adds at most what `evaluate` says (`OwnTurnAdds`). The calls the daemon forgot are those of before a turn
  of the clock that still ring (`StrayedBeforeTurn`), and while any of them does, the cache has only calls of after the turn (`BeforeTurn`): none is forgotten twice, nor is any added to
  them before the clock turns again. `AutoCounts`: of the cache's calls there are maxlines at most, and so of the forgotten, which were all in the cache together; hence twice maxlines.
* `DequeIsOldestFirst` and `NoGhostsLeft`: the invariant is `Ordered`, the calls by age and
  the timeouts those of their campaigns. Popping only at the front is right because a call
  behind the first one kept is no older than it, and one that is kept is really young: an
  unsigned difference across the wrap is huge and counts as timed out (`YoungCall`).
  `Tick`'s bound on lag makes the ages of all calls grow together (`TickAges`).
* `EveryCallAskedOnce`: the invariant `HostsInv` (`HostsInvariant`) says where an order can be. A call not yet marked
  is with no child and nobody was asked for it; a marked one is with at most one child, and with none once it was asked for;
  an id not yet given out is with nobody, which is what lets a restart, whose children live on, fill an empty cache again.

`LeadsProofs`

* `LeadsTypeCorrect`: `Spec => []TypeOK`. `DialShape` and the shapes of the other writers (`ReportShape`, `UpdateShape`, `EventShape`,
  `ClockShape`) say once what each does to rows and calls; the theorems below cite them.
* `LeadsAttemptsExact`: the invariant is `Forms`, a form that may still be written back holds the
  attempts counted so far unless the lead was dialed while it was open. Only the bridge opens a form (`StepCarries`), and
  a dialing marks the leads whose forms are open (`DialKeepsForms`).
* `LeadsOncePerDay`: the invariant is `DialedToday`, the row of a lead dialed today is of today; every writer keeps or renews
  the stamp.
* `LeadsCallbackKept`: the invariant is `Promise`, a promised lead's row carries the time and no disposition
  above 0: machines' answers are negative, and whatever an agent of another call enters takes the promise back.

`WsConnectionProofs`

* The invariant `Good` is of one record, and a connection's steps change no other: `Before` (nothing is sent until the
  handshake is), `Reading` and `Writing` (how reads and writes follow from the two states), `Flagged` (the write
  lock is held exactly while a write is under way), `Posted` (a queued frame has a wake-up), `Lived` (handlers called and
  states agree), `Sent` (nothing after a close frame). One lemma per helper says it keeps it, one per handler that the
  step does.
* `ReadsAndWritesAreSingle`, `FramesAreNotForgotten`, `CloseEndsTheWriting` and `TypeCorrect` are its parts.
* `ImplementsLife`: every step is one of `WsLife` or none; `Terminate`, reachable from timers, failing reads, failing writes and the
  loop, calls the close or the fail handler once because the internal state, not the session's, decides.

* `RelayImplementsConnection`, the relay takes only steps of the library, so all of these hold
of it; `AdminFollowsConnections`, hence `admin_hdl` is a connection of which no end was told.

`SettingsProofs`

* `SavingKeepsEntries`: the invariant is `KeepInv`, a value a writer holds, was not given and nobody has changed since its read, is the row's.
* `EditsLeaveTheDaemonAlive`: the invariant is `RestInv` (while `whole`, the campaign is `Complete`) with `AliveInv` (what the daemon has read
  so far suffices for a pass): upserts replace a row, they never take one away.
* `SyncedIsLoaded`: the invariant `SyncInv` follows a run from its first read, what it has read and written so far is what the database says, unless `behind`.

`CallLogProofs`

* `LogTypeCorrect`: lines, agents and programs have their types.
* `CallsAreKept`: the invariant `LogInv` follows a call from the hand-out to its disposition. `CallInv`: while the events come in order, the
  agent's lead and campaign are the call's, and her status says whether its line is still to be logged; once it is, it is the last of its file. `KeptInv`: a call that was
  disposed of stands where it was logged, with its lead and its disposition. `OrderInv`: calls of a file were logged in the order they were disposed in, so no two share a line, and the
  last line without a disposition is that of the call that is being disposed of. `WriterInv`: what a program has read of the last line is so, unless
  another was there in between. Every handler of a status event is one of a few shapes, and one lemma per shape says what it keeps.
* `LinesAreNotRewritten`: the action property from the same invariant.

`CalendarProofs`, of `CallHours`

* `HoursInvariant`: `HoursInv` holds. Beside the properties it has `ZoneInv`, no row is in a zone not its own, whatever
  failed; and `ImportInv`, which says of each row what the statements carried out so far have made of it (`Brought`), if none failed and the row was there when they began. One lemma
  (`StatementOnRow`) says that a statement does its part for a row and leaves the others' parts; calls, outcomes and the clock change none of them (`RowsStay`).
* `ImportsAreWhole` is `ImportInv` at the end of a run of `--tzpopulate`.
* `CallsKeepHours`: `HoursAgree`, hours added modulo 24 and wrapped once below zero are the hour of a clock that goes by the code's summer time, for any hour of
  UTC; and `SpanKept`, the lower zone's hour above one bound and the upper zone's below the other keep both zones in between, unless midnight
  is between the zones, as the hours of two neighbouring zones differ by one or wrap. `HourAtPlace`: the clock of any
  place is one of the two, or an hour off one of them; that uses `PlacesAssumption`, a place's winter time is that of one of its file's zones. `ImportInv` gives that the hours compared are the
  state's, once `--tzpopulate` is through; a row imported meanwhile has them or none (`HoursSo`), and none does not pass.
* `FilterLetsThrough`: the converse, for the hours in which the clocks the filter takes for hers are those of the places she may be in; midnight is no exception.

`CalendarProofs`, of `Counters`

* `CountersAreExact`: what the property says of memory comes from the day's file at a refresh, so the invariant `CountersInv`
  (`CountersInvariant`) follows both. `DiskInv`: between two writes the file of a day that was not torn holds the day's counts, or
  there is none and nothing was counted. `WritingInv`: a write has left in the file exactly the lines before those it has still to
  write, so a file without its date is known for half a one. `DatesInv`: nothing is counted for a day before it has come, and the
  date in memory lags by at most one day; it is why the file written between midnight and the refresh is not taken for the new day's.
  `OrderInv`: the totals are at least the day's numbers, in memory and in every file that has come to its date.

`AnsweredProofs`

* `AsteriskKnows`: the invariant `FilesInv` adds to the property that a request which reads or writes has an edit it does so for. While
  anybody is writing agents.conf, or is about to tell Asterisk, nothing is promised; the last to finish tells Asterisk what is there.
* `PagesActOnChosen`: the invariant `PagesInv` is of each browser. `Carried`: the page shown is the menu, or carries the campaign chosen
  and offers no other, or leads nowhere but to harmless pages; so does the request under way. `Checked`: a page offers to copy or drop
  a table only of a campaign that was not active when it was made, or has been started since. One lemma per page says `PageFor` of it.
* `PageSavesItsLead`: the invariant `PageInv` says that the lead in the form, and every lead still asked for, is of this call or was looked
  for in it, unless an answer was late over the call's beginning, and that each is asked for in its own campaign. `HandledInv` says once
  what keeps it; a handler that sends a disposition takes the saved lead and its campaign from the same form, and tells the daemon that lead under the queue's campaign.
* `TokensAreHeardRight`: `HeardRight` speaks of the frames heard, the code of four counters. `DetectInv` ties them: the silence counted is
  the run of quiet frames at the end (`RunInv`, so `RunTells` when it is long), `start` is the time of the first frame after the last
  long silence (`OpenInv`), frames take time (`TimesInv`), and talk is announced for exactly the tokens of the right length (`TalkInv`). A
  token has one beginning (`OneToken`) and lasts at least `sildur` frames (`LongEnough`): that is why the code's `IF ms > sildur` loses no
  talk, though a line that suppresses silence makes clock and frames disagree. The machine's noise is the number of frames that were not
  quiet, through all rounds (`NoiseGrows`).

Only model-checked:

* liveness, which is out of the prover's reach: `EventuallyAvailable`, `PhonelessGoOffline`, `Settles`, `CallsPlaced`, `HandshakesEnd`;
* what a fold over a sequence or a set of any size computes, which takes induction over data: `DamageIsLocal` (pieces, lines and blocks of a
  stream), `HearsWhatIsSent` and `HandshakeIsWhole` (the parsers), `EditsAreExact` (loops over the lines of a file),
  `ReportIsExact` and `LoggedOnce` (sums over days and over a log), `SharesKept` (the sum of the hosts' weights);
* what counts elements of sets, over any number of files and lines: `PagesTellTheCalls`;
* the runs that end in a violation.

## 7. Not modelled, and the plan

Not modelled: of websocketpp the client role, drafts before 13, TLS, proxies, permessage-deflate and the transports other than asio, which the
relay does not use; logs that nothing reads back; talk time; how an upload's lines are cut into fields; `doRedirect`, which nothing calls; the front end but for the agent's page; Asterisk itself beyond what the
daemon sees of it; reads of the database that fail.

Planned, in this order:

1. `Leads`, extended by the API's records of dispositions, created by the daemon's child after the bridge and
   closed by the API, so that an early disposition leaves one open.
2. `Dialer`: `Agents` and `Dialing` composed, with available agents computed
   and answered calls handed out; `Dialing`'s free input shown to include it.
