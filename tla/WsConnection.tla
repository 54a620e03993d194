---------------------------- MODULE WsConnection ----------------------------
(***************************************************************************)
(* The server side of websocketpp::connection over the asio transport: the *)
(* opening handshake, the loop that reads frames, the queue of frames to   *)
(* write, the closing handshake and the two handshake timers.  One thread  *)
(* runs the io_service, so a handler runs to its end before the next one   *)
(* begins; the loop over the frames of a read calls the program's message  *)
(* handler, which is a step for each frame here.                           *)
(*                                                                         *)
(* A connection is a record, and the functions of connection_impl.hpp that *)
(* change it are operators from a record to a record.                      *)
(***************************************************************************)
EXTENDS Integers, Sequences

CONSTANTS
  Connections,    \* the connection objects of the endpoint
  None            \* no connection

ASSUME NoneIsNoConnection == None \notin Connections

VARIABLES
  con,      \* connection -> its record
  busy      \* the connection whose loop over the frames of a read is running

wsvars == <<con, busy>>

States == {"connecting", "open", "closing", "closed"}              \* session::state
IStates == {"accepting", "request", "response", "frames"}          \* istate, of a server
Timers == {"none", "open", "close"}                                \* set for a handshake
Lives == {"silent", "opened", "closed", "failed"}                  \* handlers called

\* What the parser makes of the bytes of a read.
Kinds == {"message", "ping", "pong", "close", "badclose", "error"}
Payloads == Seq(0..255)
Outcomes == [kind : Kinds, bytes : Payloads]
Works == Seq(Outcomes)

\* Frames to write; the close frames of a server are terminal.
FrameKinds == {"data", "pong", "close"}
Frames == Seq(FrameKinds)
Terminal(frame) == frame = "close"

\* What a client's first bytes may be, and the status of the response to each:
\* process_handshake_request, initialize_processor, write_http_response_error.
Requests == {"upgrade", "plain", "bad_version", "other_version", "short_key3",
             "malformed", "bad_uri", "no_key"}

StatusOf(request) ==
  CASE request = "upgrade" -> 101
    [] request = "plain" -> 426
    [] request = "short_key3" -> 500
    [] OTHER -> 400

NewConnection ==
  [ state  |-> "connecting",  \* m_state
    istate |-> "accepting",   \* m_internal_state
    timer  |-> "none",        \* what m_handshake_timer is set for
    loose  |-> FALSE,         \* a close timer runs that m_handshake_timer no longer holds
    due    |-> {},            \* expired timers whose handlers are queued
    reads  |-> 0,             \* async reads under way
    writes |-> 0,             \* async writes under way
    status |-> 0,             \* of the response to the handshake
    queue  |-> <<>>,          \* m_send_queue
    current |-> <<>>,         \* m_current_msgs
    flag   |-> FALSE,         \* m_write_flag
    posted |-> 0,             \* write_frame handlers in the io_service
    clean  |-> FALSE,         \* m_was_clean
    work   |-> <<>>,          \* outcomes the running loop has not come to
    life   |-> "silent",      \* the last of the open, close and fail handlers called
    heard  |-> <<>>,          \* payloads the message handler was called with
    sent   |-> <<>> ]         \* frames handed to the socket

Init ==
  /\ con = [c \in Connections |-> NewConnection]
  /\ busy = None
-----------------------------------------------------------------------------
(***************************************************************************)
(* What the functions of a connection do to its record                     *)
(***************************************************************************)

\* terminate and handle_terminate: the shutdown of a plain socket calls back
\* at once, so the close or fail handler is called before terminate returns.
Terminate(r) ==
  [r EXCEPT !.timer = "none",
            !.state = "closed",
            !.life = CASE r.state = "connecting" -> "failed"
                       [] r.state = "closed" -> r.life
                       [] OTHER -> "closed"]

\* write_push, and the dispatch of write_frame unless a write is under way.
Push(r, frame) ==
  [r EXCEPT !.queue = Append(r.queue, frame),
            !.posted = IF r.flag THEN r.posted ELSE r.posted + 1]

\* send, pong: nothing is queued unless the connection is open.
Send(r, frame) == IF r.state = "open" THEN Push(r, frame) ELSE r

\* A slip the checks must catch: no timer is set when a close is acknowledged.
SendCloseFrameUntimed(r, ack) ==
  Push([r EXCEPT !.state = "closing", !.clean = r.clean \/ ack], "close")

\* send_close_frame: a timer for the peer's answer replaces the one held,
\* which is not cancelled.
SendCloseFrame(r, ack) ==
  Push([r EXCEPT !.state = "closing",
                 !.clean = r.clean \/ ack,
                 !.loose = r.loose \/ r.timer = "close",
                 !.timer = "close"], "close")

\* close, and its failure on a connection that is not open.
CloseOnError(r) ==
  IF r.state = "open" THEN SendCloseFrame(r, FALSE) ELSE Terminate(r)

\* The message handler runs only on an open connection; it sends some
\* replies.
HearMessage(r, payload, replies) ==
  LET heard == [r EXCEPT !.heard = Append(r.heard, payload)]
  IN  CASE r.state # "open" -> r
        [] r.state = "open" /\ replies = 0 -> heard
        [] OTHER -> Send(heard, "data")

\* process_control_frame on a close frame.
HearClose(r) ==
  CASE r.state = "open" -> SendCloseFrame(r, TRUE)
    [] r.state = "closing" /\ ~r.clean -> Terminate([r EXCEPT !.clean = TRUE])
    [] OTHER -> r

\* A close frame whose code or reason is refused is acknowledged in every
\* state but closed, another close frame in the queue or not.
HearBadClose(r) ==
  IF r.state = "closed" THEN r ELSE SendCloseFrame(r, TRUE)

HearOutcome(r, o, replies) ==
  CASE o.kind = "message" -> HearMessage(r, o.bytes, replies)
    [] o.kind = "ping" -> Send(r, "pong")
    [] o.kind = "pong" -> r
    [] o.kind = "close" -> HearClose(r)
    [] o.kind = "badclose" -> HearBadClose(r)
    [] o.kind = "error" -> CloseOnError(r)

\* The rest of the loop: more outcomes, or read_frame at its end.
Loop(r, work) ==
  IF work = <<>> THEN [r EXCEPT !.work = <<>>, !.reads = r.reads + 1]
                 ELSE [r EXCEPT !.work = work]

\* The loop leaves at a refused frame and reads no more.
AfterOutcome(r, o) ==
  IF o.kind = "error" THEN [r EXCEPT !.work = <<>>] ELSE Loop(r, Tail(r.work))

\* A step of connection c that leaves it with record r.
Becomes(c, r) ==
  /\ con' = [con EXCEPT ![c] = r]
  /\ busy' = IF r.work # <<>> THEN c ELSE IF busy = c THEN None ELSE busy

\* The thread is between two handlers.
Idle == busy = None
-----------------------------------------------------------------------------
(***************************************************************************)
(* The opening handshake                                                   *)
(***************************************************************************)

\* handle_accept, start, handle_transport_init, read_handshake.
Accept(c) ==
  /\ Idle
  /\ con[c].istate = "accepting" /\ con[c].state = "connecting"
  /\ Becomes(c, [con[c] EXCEPT !.istate = "request", !.timer = "open", !.reads = 1])

AcceptFails(c) ==
  /\ Idle
  /\ con[c].istate = "accepting" /\ con[c].state = "connecting"
  /\ Becomes(c, Terminate(con[c]))

\* handle_read_handshake: the request goes on, or is answered.
ReadHandshake(c, request) ==
  LET r == [con[c] EXCEPT !.reads = con[c].reads - 1]
  IN  /\ Idle
      /\ con[c].istate = "request" /\ con[c].reads > 0
      /\ Becomes(c, CASE r.state = "closed" -> r
                      [] r.state # "closed" /\ request = "more" -> con[c]
                      [] OTHER -> [r EXCEPT !.istate = "response", !.status = StatusOf(request),
                                            !.writes = r.writes + 1])

ReadHandshakeFails(c) ==
  /\ Idle
  /\ con[c].istate = "request" /\ con[c].reads > 0
  /\ Becomes(c, Terminate([con[c] EXCEPT !.reads = con[c].reads - 1]))

\* The connection is open: the open handler, then the bytes that came with
\* the request.
Opened(r, work) ==
  Loop([r EXCEPT !.timer = "none", !.istate = "frames", !.state = "open",
                 !.life = "opened"], work)

\* A slip the checks must catch: a response written after the handshake timed
\* out opens the connection all the same.
WriteResponseLate(c, work) ==
  /\ Idle
  /\ work \in Works
  /\ con[c].istate = "response" /\ con[c].writes > 0
  /\ Becomes(c, Opened([con[c] EXCEPT !.writes = con[c].writes - 1], work))

\* handle_write_http_response.
WriteResponse(c, work) ==
  LET r == [con[c] EXCEPT !.writes = con[c].writes - 1]
  IN  /\ Idle
      /\ work \in Works
      /\ con[c].istate = "response" /\ con[c].writes > 0
      /\ Becomes(c, CASE r.state = "closed" -> r
                      [] r.state # "closed" /\ r.status # 101 -> Terminate(r)
                      [] OTHER -> Opened(r, work))

WriteResponseFails(c) ==
  /\ Idle
  /\ con[c].istate = "response" /\ con[c].writes > 0
  /\ Becomes(c, Terminate([con[c] EXCEPT !.writes = con[c].writes - 1]))
-----------------------------------------------------------------------------
(***************************************************************************)
(* Frames                                                                  *)
(***************************************************************************)

\* handle_read_frame: the loop begins.
ReadFrames(c, work) ==
  /\ Idle
  /\ work \in Works
  /\ con[c].istate = "frames" /\ con[c].reads > 0
  /\ Becomes(c, Loop([con[c] EXCEPT !.reads = con[c].reads - 1], work))

ReadFramesFails(c) ==
  /\ Idle
  /\ con[c].istate = "frames" /\ con[c].reads > 0
  /\ Becomes(c, Terminate([con[c] EXCEPT !.reads = con[c].reads - 1]))

\* One turn of the loop.
Process(c, replies) ==
  LET o == Head(con[c].work)
  IN  /\ busy = c
      /\ Becomes(c, AfterOutcome(HearOutcome(con[c], o, replies), o))

\* A slip the checks must catch: a terminal frame does not end the batch.
IsBatchWhole(queue, n) == n = Len(queue)

\* The frames one write takes: all of them, or those up to the first
\* terminal one.
IsBatch(queue, n) ==
  /\ n = Len(queue) \/ Terminal(queue[n])
  /\ \A i \in 1..(n - 1) : ~Terminal(queue[i])

\* A slip the checks must catch: a posted write_frame does not look at the flag.
WriteFrameUnflagged(c) ==
  /\ Idle
  /\ con[c].posted > 0 /\ con[c].queue # <<>>
  /\ Becomes(c, [con[c] EXCEPT !.posted = con[c].posted - 1, !.current = con[c].queue,
                               !.queue = <<>>, !.flag = TRUE, !.writes = con[c].writes + 1,
                               !.sent = con[c].sent \o con[c].queue])

\* write_frame: nothing to do while a write is under way.
WriteFrame(c) ==
  LET r == [con[c] EXCEPT !.posted = con[c].posted - 1]
  IN  /\ Idle
      /\ r.posted >= 0
      /\ \/ /\ r.flag \/ r.queue = <<>>
            /\ Becomes(c, r)
         \/ /\ ~r.flag
            /\ \E n \in 1..Len(r.queue) :
                 LET batch == SubSeq(r.queue, 1, n)
                 IN  /\ IsBatch(r.queue, n)
                     /\ Becomes(c, [r EXCEPT !.queue = SubSeq(r.queue, n + 1, Len(r.queue)),
                                             !.current = batch, !.flag = TRUE,
                                             !.writes = r.writes + 1,
                                             !.sent = r.sent \o batch])

\* A slip the checks must catch: frames queued during a write wait for the
\* next send.
HandleWriteForgets(c) ==
  LET r == [con[c] EXCEPT !.writes = con[c].writes - 1, !.current = <<>>]
      last == con[c].current[Len(con[c].current)]
  IN  /\ Idle
      /\ con[c].istate = "frames" /\ con[c].writes > 0
      /\ Becomes(c, IF Terminal(last) THEN Terminate(r) ELSE [r EXCEPT !.flag = FALSE])

\* handle_write_frame: after a terminal frame the flag stays up, and no frame
\* is written again.
HandleWrite(c) ==
  LET r == [con[c] EXCEPT !.writes = con[c].writes - 1, !.current = <<>>]
      last == con[c].current[Len(con[c].current)]
  IN  /\ Idle
      /\ con[c].istate = "frames" /\ con[c].writes > 0
      /\ Becomes(c, IF Terminal(last) THEN Terminate(r)
                    ELSE [r EXCEPT !.flag = FALSE,
                                   !.posted = IF r.queue = <<>> THEN r.posted ELSE r.posted + 1])

HandleWriteFails(c) ==
  /\ Idle
  /\ con[c].istate = "frames" /\ con[c].writes > 0
  /\ Becomes(c, Terminate([con[c] EXCEPT !.writes = con[c].writes - 1, !.current = <<>>]))
-----------------------------------------------------------------------------
(***************************************************************************)
(* The timers                                                              *)
(***************************************************************************)

\* A timer expires and its handler is queued: to cancel it no longer helps.
TimerExpires(c) ==
  /\ con[c].timer # "none"
  /\ Becomes(c, [con[c] EXCEPT !.due = con[c].due \cup {con[c].timer}, !.timer = "none"])

LooseTimerExpires(c) ==
  /\ con[c].loose
  /\ Becomes(c, [con[c] EXCEPT !.due = con[c].due \cup {"close"}, !.loose = FALSE])

\* handle_open_handshake_timeout, handle_close_handshake_timeout: whatever
\* the connection has come to meanwhile, it is terminated.
Timeout(c) ==
  /\ Idle
  /\ \E t \in con[c].due :
       Becomes(c, Terminate([con[c] EXCEPT !.due = con[c].due \ {t}]))
-----------------------------------------------------------------------------
Next ==
  \E c \in Connections :
    \/ Accept(c) \/ AcceptFails(c)
    \/ \E request \in Requests \cup {"more"} : ReadHandshake(c, request)
    \/ ReadHandshakeFails(c)
    \/ \E work : WriteResponse(c, work) \/ ReadFrames(c, work)
    \/ WriteResponseFails(c) \/ ReadFramesFails(c)
    \/ \E replies \in 0..1 : Process(c, replies)
    \/ WriteFrame(c) \/ HandleWrite(c) \/ HandleWriteFails(c)
    \/ TimerExpires(c) \/ LooseTimerExpires(c) \/ Timeout(c)

Spec == Init /\ [][Next]_wsvars
-----------------------------------------------------------------------------
(***************************************************************************)
(* Properties                                                              *)
(***************************************************************************)

Records ==
  [ state : States, istate : IStates, timer : Timers, loose : BOOLEAN, due : SUBSET Timers,
    reads : Nat, writes : Nat, status : Nat, queue : Frames, current : Frames,
    flag : BOOLEAN, posted : Nat, clean : BOOLEAN, work : Works, life : Lives,
    heard : Seq(Payloads), sent : Frames ]

TypeOK ==
  /\ con \in [Connections -> Records]
  /\ busy \in Connections \cup {None}

\* asio composes async reads and writes of several calls each: two of a kind at
\* the same time would mix their bytes, and reads share one buffer.  However
\* handlers, timers and sends interleave, a connection has one of each at most.
OneReadOneWrite == \A c \in Connections : con[c].reads <= 1 /\ con[c].writes <= 1

\* A frame in the send queue of a connection that is not closed has a
\* write_frame posted for it or a write under way whose handler will post one:
\* no wake-up is lost between write_push, write_frame and handle_write_frame.
NoFrameForgotten ==
  \A c \in Connections :
    con[c].queue # <<>> /\ con[c].state # "closed" => con[c].posted > 0 \/ con[c].writes > 0

\* A close frame is the last frame handed to the socket, though a refused
\* close frame of the peer queues another one, and replies may be queued
\* behind the first.
CloseIsLast ==
  \A c \in Connections : \A i \in 1..(Len(con[c].sent) - 1) : ~Terminal(con[c].sent[i])

\* The program's handlers are called as the abstract specification says.
Life == INSTANCE WsLife WITH life <- [c \in Connections |-> con[c].life],
                             heard <- [c \in Connections |-> Len(con[c].heard)]
KeepsItsPromises == Life!Spec
=============================================================================
