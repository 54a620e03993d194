------------------------------ MODULE AmiRelay ------------------------------
(***************************************************************************)
(* The AMI websocket relay, AmiWsServer/ami_ws_server.cpp: a thread runs   *)
(* the websocket server (WsConnection) and its handlers, which take        *)
(* actions from clients to the manager ports of the Asterisk servers; the  *)
(* main thread meanwhile connects to the servers one after another and     *)
(* forks a child for each.  The bytes a client sends arrive in reads of    *)
(* any size and go through the parser (WsFrames).                          *)
(***************************************************************************)
EXTENDS WsConnection, WsFrames

CONSTANTS
  Sites,          \* what the server may meet, by number: [script, servers], the
                  \* frames each client sends and what getAmiServers() returns
  ReadSizes,      \* how many bytes a read may bring
  Meaning(_)      \* what onMessage makes of a payload: [what, server]

VARIABLES
  site,       \* the one of Sites that is met
  pos,        \* how many of their bytes the server has read
  parser,     \* the parser of each connection
  admin,      \* admin_hdl
  started,    \* how many servers main has come to
  sockets,    \* amiSockets: absent, null (inserted, not assigned), open, dead
  unread,     \* some answer of the server waits in the socket
  waiting,    \* the server whose answer the thread waits for in a recv
  up          \* the process runs

clientvars == <<site, pos, parser>>
amivars == <<started, sockets, unread, up>>
relayvars == <<con, busy, site, pos, parser, admin, started, sockets, unread,
               waiting, up>>

ServerList == Sites[site].servers
Servers == Range(ServerList)

\* The bytes a client sends once its request is answered.
Streams == [i \in DOMAIN Sites |->
             [c \in Connections |-> EncodeAll(Sites[i].script[c])]]
Stream(c) == Streams[site][c]

RelayInit ==
  /\ Init
  /\ site \in DOMAIN Sites
  /\ pos = [c \in Connections |-> 0]
  /\ parser = [c \in Connections |-> NewParser]
  /\ admin = None
  /\ started = 0
  /\ sockets = [s \in Servers |-> "absent"]
  /\ unread = [s \in Servers |-> FALSE]
  /\ waiting = None
  /\ up = TRUE
-----------------------------------------------------------------------------
(***************************************************************************)
(* The handlers of main                                                    *)
(***************************************************************************)

\* A slip the checks must catch: the close handler leaves admin_hdl as it is.
AdminStays ==
  admin' = LET opened == {c \in Connections : con[c].life = "silent" /\ con'[c].life = "opened"}
           IN  IF opened # {} THEN CHOOSE c \in opened : TRUE ELSE admin

\* What the open, close and fail handlers called in a step do to admin_hdl:
\* the newest connection takes it, and loses it when it ends.
AdminFollows ==
  admin' = LET opened == {c \in Connections : con[c].life = "silent" /\ con'[c].life = "opened"}
           IN  IF opened # {} THEN CHOOSE c \in opened : TRUE
               ELSE IF admin # None /\ con'[admin].life = "opened" THEN admin ELSE None

\* The steps of a connection that neither read frames nor run the program's
\* code for more than its open, close and fail handlers.
ConnectionStep(c) ==
  /\ up
  /\ \/ Accept(c) \/ AcceptFails(c)
     \/ \E request \in Requests \cup {"more"} : ReadHandshake(c, request)
     \/ ReadHandshakeFails(c) \/ WriteResponseFails(c) \/ ReadFramesFails(c)
     \/ WriteFrame(c) \/ HandleWrite(c) \/ HandleWriteFails(c)
     \/ TimerExpires(c) \/ LooseTimerExpires(c) \/ Timeout(c)
  /\ AdminFollows
  /\ UNCHANGED <<clientvars, amivars, waiting>>

\* The next n bytes of a client go through its parser.
Arrive(c, n) ==
  LET r == Parse(parser[c], SubSeq(Stream(c), pos[c] + 1, pos[c] + n))
  IN  /\ pos[c] + n <= Len(Stream(c))
      /\ pos' = [pos EXCEPT ![c] = pos[c] + n]
      /\ parser' = [parser EXCEPT ![c] = r.p]
      /\ UNCHANGED site

ParsedOut(c, n) == Parse(parser[c], SubSeq(Stream(c), pos[c] + 1, pos[c] + n)).out

\* A read of frames, while the socket is not shut down.
RelayReadFrames(c) ==
  /\ up /\ con[c].state # "closed"
  /\ \E n \in ReadSizes \cup {Len(Stream(c)) - pos[c]} :
       n > 0 /\ Arrive(c, n) /\ ReadFrames(c, ParsedOut(c, n))
  /\ AdminFollows
  /\ UNCHANGED <<amivars, waiting>>

\* The response is written; some bytes of frames may have come with the
\* request, and none is parsed unless the connection opens.
RelayWriteResponse(c) ==
  /\ up
  /\ \E n \in ReadSizes \cup {0} :
       /\ n = 0 \/ (con[c].state = "connecting" /\ con[c].status = 101)
       /\ Arrive(c, n) /\ WriteResponse(c, ParsedOut(c, n))
  /\ AdminFollows
  /\ UNCHANGED <<amivars, waiting>>
-----------------------------------------------------------------------------
(***************************************************************************)
(* onMessage and handle_action                                             *)
(***************************************************************************)

\* The loop of c comes to a message its message handler is called with.
HearsNow(c) ==
  /\ busy = c /\ waiting = None
  /\ Head(con[c].work).kind = "message" /\ con[c].state = "open"

Asked(c) == Meaning(Head(con[c].work).bytes)

\* No server is asked: a reply says what is wrong, but none does when a field
\* of the JSON has another type than the code expects.
RelayRefuses(c) ==
  /\ up /\ HearsNow(c)
  /\ \/ Asked(c).what \in {"garbage", "incomplete"} /\ Process(c, 1)
     \/ Asked(c).what = "mistyped" /\ Process(c, 0)
     \/ /\ Asked(c).what \in {"action", "command"}
        /\ sockets[Asked(c).server] = "absent"
        /\ Process(c, 1)
  /\ AdminFollows
  /\ UNCHANGED <<clientvars, amivars, waiting>>

\* The action is written to the server's socket; the client is told of success
\* whatever became of it.
RelayActs(c) ==
  /\ up /\ HearsNow(c)
  /\ Asked(c).what = "action" /\ sockets[Asked(c).server] \in {"open", "dead"}
  /\ Process(c, 1)
  /\ AdminFollows
  /\ UNCHANGED <<clientvars, amivars, waiting>>

\* A CLI command is written, and the thread waits for what the server sends
\* next, in a recv that has no timeout.
RelayAsks(c) ==
  /\ up /\ HearsNow(c)
  /\ Asked(c).what = "command" /\ sockets[Asked(c).server] \in {"open", "dead"}
  /\ waiting' = Asked(c).server
  /\ UNCHANGED <<con, busy, clientvars, amivars, admin>>

\* The recv returns: with what was unread, or with nothing from a dead socket.
RelayHears(c) ==
  /\ up /\ busy = c /\ waiting # None
  /\ unread[waiting] \/ sockets[waiting] = "dead"
  /\ unread' = [unread EXCEPT ![waiting] = FALSE]
  /\ waiting' = None
  /\ Process(c, 1)
  /\ AdminFollows
  /\ UNCHANGED <<clientvars, started, sockets, up>>

\* The lookup finds a server main has inserted and not yet assigned: the null
\* pointer is used, and the process ends.
RelayCrashes(c) ==
  /\ up /\ HearsNow(c)
  /\ Asked(c).what \in {"action", "command"} /\ sockets[Asked(c).server] = "null"
  /\ up' = FALSE
  /\ UNCHANGED <<con, busy, clientvars, admin, started, sockets, unread, waiting>>

\* Any other outcome of the read.
RelayProcesses(c) ==
  /\ up /\ waiting = None
  /\ busy = c /\ ~HearsNow(c)
  /\ Process(c, 0)
  /\ AdminFollows
  /\ UNCHANGED <<clientvars, amivars, waiting>>
-----------------------------------------------------------------------------
(***************************************************************************)
(* The main thread, and the servers                                        *)
(***************************************************************************)

\* The socket of the next server is made, and its key inserted.
MainInserts ==
  /\ up /\ started < Len(ServerList)
  /\ sockets[ServerList[started + 1]] = "absent"
  /\ sockets' = [sockets EXCEPT ![ServerList[started + 1]] = "null"]
  /\ UNCHANGED <<con, busy, clientvars, admin, started, unread, waiting, up>>

\* The pointer is assigned: to a socket that is connected or is not.
MainAssigns ==
  /\ up /\ started < Len(ServerList)
  /\ sockets[ServerList[started + 1]] = "null"
  /\ \E socket \in {"open", "dead"} :
       sockets' = [sockets EXCEPT ![ServerList[started + 1]] = socket]
  /\ UNCHANGED <<con, busy, clientvars, admin, started, unread, waiting, up>>

\* fork.  The child has copies of admin_hdl and of the connections: what it
\* sends to the admin is queued in its copy, for an io_service that nobody
\* runs there, until it exits, and nothing of it comes back.
MainForks ==
  /\ up /\ started < Len(ServerList)
  /\ sockets[ServerList[started + 1]] \in {"open", "dead"}
  /\ started' = started + 1
  /\ UNCHANGED <<con, busy, clientvars, admin, sockets, unread, waiting, up>>

\* pipe or fork fails: main returns while the thread still runs, which ends
\* the process.
MainFails ==
  /\ up /\ started < Len(ServerList)
  /\ sockets[ServerList[started + 1]] \in {"open", "dead"}
  /\ up' = FALSE
  /\ UNCHANGED <<con, busy, clientvars, admin, started, sockets, unread, waiting>>

\* A server sends its banner, or answers.
AmiSends(s) ==
  /\ up /\ sockets[s] = "open" /\ ~unread[s]
  /\ unread' = [unread EXCEPT ![s] = TRUE]
  /\ UNCHANGED <<con, busy, clientvars, admin, started, sockets, waiting, up>>

AmiHangsUp(s) ==
  /\ up /\ sockets[s] = "open"
  /\ sockets' = [sockets EXCEPT ![s] = "dead"]
  /\ UNCHANGED <<con, busy, clientvars, admin, started, unread, waiting, up>>

Handler(c) ==
  \/ ConnectionStep(c) \/ RelayReadFrames(c) \/ RelayWriteResponse(c)
  \/ RelayRefuses(c) \/ RelayActs(c) \/ RelayAsks(c) \/ RelayHears(c)
  \/ RelayCrashes(c) \/ RelayProcesses(c)

RelayNext ==
  \/ \E c \in Connections : Handler(c)
  \/ MainInserts \/ MainAssigns \/ MainForks \/ MainFails
  \/ \E s \in Servers : AmiSends(s) \/ AmiHangsUp(s)

\* Time passes, so timers expire.  The io_service keeps its handlers in a
\* queue, so the handler of an expired timer runs in the end though others
\* keep coming; a loop that has begun goes on.  A server that is asked
\* answers or hangs up.
Fairness ==
  /\ \A c \in Connections :
       /\ WF_relayvars(up /\ TimerExpires(c) /\ AdminFollows /\ UNCHANGED <<clientvars, amivars, waiting>>)
       /\ SF_relayvars(up /\ Timeout(c) /\ AdminFollows /\ UNCHANGED <<clientvars, amivars, waiting>>)
       /\ WF_relayvars(RelayRefuses(c) \/ RelayActs(c) \/ RelayAsks(c) \/ RelayHears(c)
                       \/ RelayCrashes(c) \/ RelayProcesses(c))
  /\ WF_relayvars(\E s \in Servers : waiting = s /\ (AmiSends(s) \/ AmiHangsUp(s)))

RelaySpec == RelayInit /\ [][RelayNext]_relayvars /\ Fairness
-----------------------------------------------------------------------------
(***************************************************************************)
(* Properties                                                              *)
(***************************************************************************)

\* What the frames of a client tell the program: the messages, up to the first
\* frame that closes the connection or breaks a rule of RFC 6455.  One rule is
\* not kept: a text in several frames may end inside a character, since it is
\* the last frame's opcode that says whether the end is looked at.  part is the
\* message some of whose fragments came, ended says no more is told.
Tell(acc, f) ==
  LET whole == acc.part \o f.payload
      text == IF acc.open THEN acc.op = Opcode.text ELSE f.op = Opcode.text
      broken == \/ f.op = Opcode.close
                \/ IsControl(f.op) /\ ~f.fin
                \/ ~IsControl(f.op) /\ (acc.open <=> f.op # Opcode.continuation)
                \/ ~IsControl(f.op) /\ Len(whole) > MaxMessageSize
                \/ ~IsControl(f.op) /\ text /\ Utf8Decode(Utf8Accept, whole) = Utf8Reject
                \/ f.op = Opcode.text /\ f.fin /\ ~Utf8Valid(whole)
  IN  IF acc.ended \/ broken THEN [acc EXCEPT !.ended = TRUE]
      ELSE CASE IsControl(f.op) -> acc
        [] ~IsControl(f.op) /\ f.fin ->
             [acc EXCEPT !.told = Append(@, whole), !.part = <<>>, !.open = FALSE]
        [] OTHER -> [acc EXCEPT !.part = whole, !.open = TRUE,
                                !.op = IF acc.open THEN @ ELSE f.op]

Told(frames) ==
  FoldLeft(Tell, [told |-> <<>>, part |-> <<>>, open |-> FALSE, op |-> 0, ended |-> FALSE], frames)

TellsSites == [i \in DOMAIN Sites |-> [c \in Connections |-> Told(Sites[i].script[c])]]

\* The message handler is called with the messages the client sent, whole and
\* in order, however its frames are cut into reads and whatever control
\* frames come between fragments; with all of them, on a connection that is
\* still open when its bytes are read; and with none of those that Tell says
\* break a rule.
HearsWhatIsSent ==
  \A c \in Connections :
    LET told == TellsSites[site][c]
    IN  /\ IsPrefix(con[c].heard, told.told)
        /\ con[c].state = "open" /\ busy # c /\ pos[c] = Len(Stream(c)) =>
             con[c].heard = told.told /\ ~told.ended

\* The admin connection is one whose end the program has not been told of.
AdminIsOpen == admin # None => con[admin].life = "opened"

\* A handshake ends: a client that stops in the middle of the opening or the
\* closing handshake does not keep its connection, while the server runs.
HandshakesEnd ==
  \A c \in Connections :
    /\ con[c].state = "connecting" /\ con[c].istate # "accepting" ~>
         con[c].state # "connecting" \/ ~up
    /\ con[c].state = "closing" ~> con[c].state = "closed" \/ ~up
=============================================================================
