------------------------- MODULE WsConnectionProofs -------------------------
(***************************************************************************)
(* Theorems about WsConnection.  Every function of a connection is an      *)
(* operator from record to record, so the invariant is a predicate of a    *)
(* record, Good, with one lemma for each operator.  Then two about         *)
(* AmiRelay: its steps are steps of the connections, so these theorems     *)
(* hold of it, and admin_hdl follows them.                                 *)
(***************************************************************************)
EXTENDS AmiRelay, TLAPS

NoClose(frames) == \A i \in 1..Len(frames) : frames[i] # "close"
CloseLast(frames) == \A i \in 1..(Len(frames) - 1) : frames[i] # "close"

\* Before the frames begin, nothing is queued or written.
Before(r) ==
  r.istate # "frames" =>
    /\ r.state \in {"connecting", "closed"}
    /\ r.queue = <<>> /\ r.posted = 0 /\ r.flag = FALSE /\ r.sent = <<>>
    /\ r.work = <<>>

\* One read: none while the response is written or a loop runs.
Reading(r) ==
  /\ r.reads <= 1
  /\ r.istate \in {"accepting", "response"} => r.reads = 0
  /\ r.work # <<>> => r.reads = 0

\* One write: of the response, or of the frames the flag stands for.
Writing(r) ==
  /\ r.writes <= 1
  /\ r.istate \in {"accepting", "request"} => r.writes = 0
  /\ r.istate = "frames" => /\ r.state # "connecting"
                            /\ r.writes = 1 => r.flag = TRUE /\ r.current # <<>>

\* The flag comes down when a write ends, unless it ends the connection.
Flagged(r) == r.flag = TRUE /\ r.state # "closed" => r.writes = 1

Posted(r) == r.flag = FALSE /\ r.queue # <<>> => r.posted > 0

Lived(r) ==
  /\ r.state = "connecting" <=> r.life = "silent"
  /\ r.state \in {"open", "closing"} <=> r.life = "opened"

\* No close frame is out while a frame can still be written.
Sent(r) ==
  /\ CloseLast(r.sent)
  /\ r.flag = FALSE => NoClose(r.sent)
  /\ r.istate = "frames" /\ r.writes = 1 /\ r.current[Len(r.current)] # "close" => NoClose(r.sent)

Fair(r) == r \in Records /\ Before(r) /\ Reading(r) /\ Writing(r) /\ Posted(r) /\ Lived(r) /\ Sent(r)
Good(r) == Fair(r) /\ Flagged(r)

IInv ==
  /\ con \in [Connections -> Records]
  /\ \A c \in Connections : Good(con[c])
  /\ busy \in Connections \cup {None}
  /\ \A c \in Connections : con[c].work # <<>> <=> busy = c
-----------------------------------------------------------------------------
LEMMA TerminateIsGood ==
  ASSUME NEW r, Fair(r)
  PROVE  /\ Good(Terminate(r))
         /\ Terminate(r).work = r.work /\ Terminate(r).istate = r.istate
         /\ Terminate(r).reads = r.reads
<1> DEFINE t == Terminate(r)
<1>1. r \in Records
  BY DEF Fair
<1>2. /\ t.state = "closed" /\ t.istate = r.istate /\ t.reads = r.reads /\ t.writes = r.writes
      /\ t.queue = r.queue /\ t.current = r.current /\ t.flag = r.flag /\ t.posted = r.posted
      /\ t.work = r.work /\ t.sent = r.sent
      /\ t.life = CASE r.state = "connecting" -> "failed" [] r.state = "closed" -> r.life [] OTHER -> "closed"
  BY <1>1 DEF Terminate, Records
<1>3. t \in Records
  <2> DEFINE life == CASE r.state = "connecting" -> "failed" [] r.state = "closed" -> r.life [] OTHER -> "closed"
  <2>1. life \in Lives /\ "closed" \in States /\ "none" \in Timers
    BY <1>1 DEF Records, Lives, States, Timers
  <2> HIDE DEF life
  <2>2. [r EXCEPT !.timer = "none", !.state = "closed", !.life = life] \in Records
    BY <1>1, <2>1 DEF Records
  <2>3. QED
    BY <2>2 DEF Terminate, life
<1> HIDE DEF t
<1>4. Before(t) /\ Reading(t)
  BY <1>1, <1>2 DEF Fair, Before, Reading, Records
<1>5. Writing(t) /\ Posted(t) /\ Flagged(t)
  BY <1>1, <1>2 DEF Fair, Writing, Posted, Flagged, Records
<1>6. Lived(t)
  BY <1>1, <1>2 DEF Fair, Lived, Records, States, Lives
<1>7. Sent(t)
  BY <1>1, <1>2 DEF Fair, Sent
<1>8. QED
  BY <1>2, <1>3, <1>4, <1>5, <1>6, <1>7 DEF Fair, Good, t

LEMMA NewIsGood == Good(NewConnection) /\ NewConnection.work = <<>>
<1> DEFINE t == NewConnection
<1>1. /\ t.state = "connecting" /\ t.istate = "accepting" /\ t.reads = 0 /\ t.writes = 0
      /\ t.queue = <<>> /\ t.current = <<>> /\ t.flag = FALSE /\ t.posted = 0
      /\ t.work = <<>> /\ t.sent = <<>> /\ t.life = "silent"
  BY DEF NewConnection
<1>2. t \in Records
  <2>1. /\ "connecting" \in States /\ "accepting" \in IStates /\ "none" \in Timers
        /\ "silent" \in Lives /\ <<>> \in Frames /\ <<>> \in Works /\ <<>> \in Seq(Payloads)
        /\ {} \in SUBSET Timers
    BY DEF States, IStates, Timers, Lives, Frames, Works
  <2>2. QED
    BY <2>1 DEF NewConnection, Records
<1> HIDE DEF t
<1>3. /\ Before(t) /\ Reading(t) /\ Writing(t) /\ Posted(t) /\ Flagged(t) /\ Lived(t)
  BY <1>1 DEF Before, Reading, Writing, Posted, Flagged, Lived
<1>4. Sent(t)
  BY <1>1 DEF Sent, NoClose, CloseLast
<1>5. QED
  BY <1>1, <1>2, <1>3, <1>4 DEF Fair, Good, t

LEMMA PushIsGood ==
  ASSUME NEW r, Good(r), NEW f \in FrameKinds, r.istate = "frames"
  PROVE  /\ Good(Push(r, f))
         /\ Push(r, f).work = r.work /\ Push(r, f).istate = r.istate
         /\ Push(r, f).reads = r.reads
<1> DEFINE t == Push(r, f)
<1>1. r \in Records
  BY DEF Good, Fair
<1>2. /\ t.state = r.state /\ t.istate = r.istate /\ t.reads = r.reads /\ t.writes = r.writes
      /\ t.current = r.current /\ t.flag = r.flag
      /\ t.posted = IF r.flag THEN r.posted ELSE r.posted + 1
      /\ t.work = r.work /\ t.sent = r.sent /\ t.life = r.life
  BY <1>1 DEF Push, Records
<1>3. t \in Records
  <2> DEFINE posted == IF r.flag THEN r.posted ELSE r.posted + 1
             queue == Append(r.queue, f)
  <2>1. posted \in Nat /\ queue \in Frames
    BY <1>1 DEF Records, Frames
  <2> HIDE DEF posted, queue
  <2>2. [r EXCEPT !.queue = queue, !.posted = posted] \in Records
    BY <1>1, <2>1 DEF Records
  <2>3. QED
    BY <2>2 DEF Push, posted, queue
<1> HIDE DEF t
<1>4. Before(t) /\ Reading(t) /\ Writing(t) /\ Flagged(t) /\ Lived(t) /\ Sent(t)
  BY <1>1, <1>2 DEF Good, Fair, Before, Reading, Writing, Flagged, Lived, Sent
<1>5. Posted(t)
  BY <1>1, <1>2 DEF Posted, Records
<1>6. QED
  BY <1>2, <1>3, <1>4, <1>5 DEF Fair, Good, t

LEMMA SendCloseIsGood ==
  ASSUME NEW r, Good(r), NEW ack \in BOOLEAN, r.istate = "frames", r.state # "closed"
  PROVE  /\ Good(SendCloseFrame(r, ack))
         /\ SendCloseFrame(r, ack).work = r.work /\ SendCloseFrame(r, ack).istate = r.istate
         /\ SendCloseFrame(r, ack).reads = r.reads
<1> DEFINE t == [r EXCEPT !.state = "closing", !.clean = r.clean \/ ack,
                          !.loose = r.loose \/ r.timer = "close", !.timer = "close"]
<1>1. r \in Records
  BY DEF Good, Fair
<1>2. /\ t.state = "closing" /\ t.istate = r.istate /\ t.reads = r.reads /\ t.writes = r.writes
      /\ t.queue = r.queue /\ t.current = r.current /\ t.flag = r.flag /\ t.posted = r.posted
      /\ t.work = r.work /\ t.sent = r.sent /\ t.life = r.life
  BY <1>1 DEF Records
<1>3. t \in Records
  <2>1. /\ (r.clean \/ ack) \in BOOLEAN /\ (r.loose \/ r.timer = "close") \in BOOLEAN
        /\ "closing" \in States /\ "close" \in Timers
    BY DEF States, Timers
  <2>2. QED
    BY <1>1, <2>1 DEF Records
<1> HIDE DEF t
<1>4. Before(t) /\ Reading(t) /\ Posted(t) /\ Sent(t)
  BY <1>1, <1>2 DEF Good, Fair, Before, Reading, Posted, Sent
<1>5. Writing(t) /\ Flagged(t)
  BY <1>1, <1>2 DEF Good, Fair, Writing, Flagged
<1>6. Lived(t)
  BY <1>1, <1>2 DEF Good, Fair, Lived, Writing, Records, States
<1>7. Good(t) /\ t.work = r.work /\ t.istate = r.istate /\ t.reads = r.reads
  BY <1>2, <1>3, <1>4, <1>5, <1>6 DEF Fair, Good
<1>8. SendCloseFrame(r, ack) = Push(t, "close")
  BY DEF SendCloseFrame, t
<1>9. QED
  BY <1>7, <1>8, PushIsGood DEF FrameKinds

Kept(r, t) == t.work = r.work /\ t.istate = r.istate /\ t.reads = r.reads

\* Changes that no part of the invariant looks at.
LEMMA HeardIsGood ==
  ASSUME NEW r, Good(r), NEW payload \in Payloads
  PROVE  LET t == [r EXCEPT !.heard = Append(r.heard, payload)]
         IN  Good(t) /\ Kept(r, t) /\ t.state = r.state
<1> DEFINE t == [r EXCEPT !.heard = Append(r.heard, payload)]
<1>1. r \in Records
  BY DEF Good, Fair
<1>2. /\ t.state = r.state /\ t.istate = r.istate /\ t.reads = r.reads /\ t.writes = r.writes
      /\ t.queue = r.queue /\ t.current = r.current /\ t.flag = r.flag /\ t.posted = r.posted
      /\ t.work = r.work /\ t.sent = r.sent /\ t.life = r.life
  BY <1>1 DEF Records
<1>3. t \in Records
  <2>1. Append(r.heard, payload) \in Seq(Payloads)
    BY <1>1 DEF Records
  <2>2. QED
    BY <1>1, <2>1 DEF Records
<1> HIDE DEF t
<1>4. Good(t) /\ Kept(r, t) /\ t.state = r.state
  BY <1>2, <1>3 DEF Good, Fair, Before, Reading, Writing, Flagged, Posted, Lived, Sent, Kept
<1>5. QED
  BY <1>4 DEF t

LEMMA CleanIsGood ==
  ASSUME NEW r, Good(r)
  PROVE  LET t == [r EXCEPT !.clean = TRUE]
         IN  Good(t) /\ Kept(r, t)
<1> DEFINE t == [r EXCEPT !.clean = TRUE]
<1>1. r \in Records
  BY DEF Good, Fair
<1>2. /\ t.state = r.state /\ t.istate = r.istate /\ t.reads = r.reads /\ t.writes = r.writes
      /\ t.queue = r.queue /\ t.current = r.current /\ t.flag = r.flag /\ t.posted = r.posted
      /\ t.work = r.work /\ t.sent = r.sent /\ t.life = r.life
  BY <1>1 DEF Records
<1>3. t \in Records
  BY <1>1 DEF Records
<1> HIDE DEF t
<1>4. Good(t) /\ Kept(r, t)
  BY <1>2, <1>3 DEF Good, Fair, Before, Reading, Writing, Flagged, Posted, Lived, Sent, Kept
<1>5. QED
  BY <1>4 DEF t

LEMMA SendIsGood ==
  ASSUME NEW r, Good(r), NEW f \in FrameKinds, r.istate = "frames"
  PROVE  Good(Send(r, f)) /\ Kept(r, Send(r, f))
BY PushIsGood DEF Send, Kept

LEMMA HearMessageIsGood ==
  ASSUME NEW r, Good(r), r.istate = "frames", NEW payload \in Payloads, NEW replies \in 0..1
  PROVE  Good(HearMessage(r, payload, replies)) /\ Kept(r, HearMessage(r, payload, replies))
<1> DEFINE t == [r EXCEPT !.heard = Append(r.heard, payload)]
<1>1. Good(t) /\ Kept(r, t)
  BY HeardIsGood
<1>2. HearMessage(r, payload, replies) \in {r, t, Send(t, "data")}
  BY DEF HearMessage
<1> HIDE DEF t
<1>3. Good(Send(t, "data")) /\ Kept(t, Send(t, "data"))
  BY <1>1, SendIsGood DEF Kept, FrameKinds
<1>4. QED
  BY <1>1, <1>2, <1>3 DEF Kept

LEMMA HearCloseIsGood ==
  ASSUME NEW r, Good(r), r.istate = "frames"
  PROVE  /\ Good(HearClose(r)) /\ Kept(r, HearClose(r))
         /\ Good(HearBadClose(r)) /\ Kept(r, HearBadClose(r))
         /\ Good(CloseOnError(r)) /\ Kept(r, CloseOnError(r))
<1>1. Good(Terminate(r)) /\ Kept(r, Terminate(r))
  BY TerminateIsGood DEF Good, Kept
<1>2. r.state # "closed" => /\ Good(SendCloseFrame(r, TRUE)) /\ Kept(r, SendCloseFrame(r, TRUE))
                            /\ Good(SendCloseFrame(r, FALSE)) /\ Kept(r, SendCloseFrame(r, FALSE))
  BY SendCloseIsGood DEF Kept
<1>3. /\ Good(Terminate([r EXCEPT !.clean = TRUE]))
      /\ Kept(r, Terminate([r EXCEPT !.clean = TRUE]))
  BY CleanIsGood, TerminateIsGood DEF Good, Kept
<1>4. Kept(r, r)
  BY DEF Kept
<1>5. HearClose(r) \in {r, Terminate([r EXCEPT !.clean = TRUE])} \/ (r.state = "open" /\ HearClose(r) = SendCloseFrame(r, TRUE))
  BY DEF HearClose
<1>6. QED
  BY <1>1, <1>2, <1>3, <1>4, <1>5 DEF HearBadClose, CloseOnError

LEMMA HearOutcomeIsGood ==
  ASSUME NEW r, Good(r), r.istate = "frames", NEW o \in Outcomes, NEW replies \in 0..1
  PROVE  Good(HearOutcome(r, o, replies)) /\ Kept(r, HearOutcome(r, o, replies))
<1>1. o.kind \in Kinds /\ o.bytes \in Payloads
  BY DEF Outcomes
<1>2. Good(HearMessage(r, o.bytes, replies)) /\ Kept(r, HearMessage(r, o.bytes, replies))
  BY <1>1, HearMessageIsGood
<1>3. Good(Send(r, "pong")) /\ Kept(r, Send(r, "pong"))
  BY SendIsGood DEF FrameKinds
<1>4. Kept(r, r)
  BY DEF Kept
<1>5. \/ o.kind = "message" /\ HearOutcome(r, o, replies) = HearMessage(r, o.bytes, replies)
      \/ o.kind = "ping" /\ HearOutcome(r, o, replies) = Send(r, "pong")
      \/ o.kind = "pong" /\ HearOutcome(r, o, replies) = r
      \/ o.kind = "close" /\ HearOutcome(r, o, replies) = HearClose(r)
      \/ o.kind = "badclose" /\ HearOutcome(r, o, replies) = HearBadClose(r)
      \/ o.kind = "error" /\ HearOutcome(r, o, replies) = CloseOnError(r)
  BY <1>1 DEF Kinds, HearOutcome
<1>6. QED
  BY <1>2, <1>3, <1>4, <1>5, HearCloseIsGood

\* The loop goes on with some work, or a read begins.
LEMMA LoopIsGood ==
  ASSUME NEW r, Good(r), r.istate = "frames", r.reads = 0, NEW w \in Works
  PROVE  Good(Loop(r, w)) /\ Loop(r, w).work = w
<1>1. r \in Records /\ <<>> \in Works
  BY DEF Good, Fair, Works
<1>2. CASE w = <<>>
  <2> DEFINE t == [r EXCEPT !.work = <<>>, !.reads = r.reads + 1]
  <2>1. /\ t.state = r.state /\ t.istate = r.istate /\ t.reads = 1 /\ t.writes = r.writes
        /\ t.queue = r.queue /\ t.current = r.current /\ t.flag = r.flag /\ t.posted = r.posted
        /\ t.work = <<>> /\ t.sent = r.sent /\ t.life = r.life
    BY <1>1 DEF Records
  <2>2. t \in Records
    <3>1. r.reads + 1 \in Nat
      BY <1>1 DEF Records
    <3>2. QED
      BY <1>1, <3>1 DEF Records
  <2> HIDE DEF t
  <2>3. Good(t)
    BY <2>1, <2>2 DEF Good, Fair, Before, Reading, Writing, Flagged, Posted, Lived, Sent
  <2>4. QED
    BY <2>1, <2>3, <1>2 DEF Loop, t
<1>3. CASE w # <<>>
  <2> DEFINE t == [r EXCEPT !.work = w]
  <2>1. /\ t.state = r.state /\ t.istate = r.istate /\ t.reads = 0 /\ t.writes = r.writes
        /\ t.queue = r.queue /\ t.current = r.current /\ t.flag = r.flag /\ t.posted = r.posted
        /\ t.work = w /\ t.sent = r.sent /\ t.life = r.life
    BY <1>1 DEF Records
  <2>2. t \in Records
    BY <1>1 DEF Records
  <2> HIDE DEF t
  <2>3. Good(t)
    BY <2>1, <2>2 DEF Good, Fair, Before, Reading, Writing, Flagged, Posted, Lived, Sent
  <2>4. QED
    BY <2>1, <2>3, <1>3 DEF Loop, t
<1>4. QED
  BY <1>2, <1>3

LEMMA AfterOutcomeIsGood ==
  ASSUME NEW r, Good(r), r.istate = "frames", r.reads = 0, r.work # <<>>, NEW o
  PROVE  Good(AfterOutcome(r, o))
<1>1. r \in Records /\ <<>> \in Works
  BY DEF Good, Fair, Works
<1>2. Tail(r.work) \in Works
  BY <1>1 DEF Records, Works
<1>3. Good(Loop(r, Tail(r.work)))
  BY <1>2, LoopIsGood
<1> DEFINE t == [r EXCEPT !.work = <<>>]
<1>4. /\ t.state = r.state /\ t.istate = r.istate /\ t.reads = r.reads /\ t.writes = r.writes
      /\ t.queue = r.queue /\ t.current = r.current /\ t.flag = r.flag /\ t.posted = r.posted
      /\ t.work = <<>> /\ t.sent = r.sent /\ t.life = r.life
  BY <1>1 DEF Records
<1>5. t \in Records
  BY <1>1 DEF Records
<1> HIDE DEF t
<1>6. Good(t)
  BY <1>4, <1>5 DEF Good, Fair, Before, Reading, Writing, Flagged, Posted, Lived, Sent
<1>7. QED
  BY <1>3, <1>6 DEF AfterOutcome, t

-----------------------------------------------------------------------------
(***************************************************************************)
(* What the handlers start from                                            *)
(***************************************************************************)

\* A read ends.
LEMMA ReadDoneIsGood ==
  ASSUME NEW r, Good(r), r.reads > 0
  PROVE  LET t == [r EXCEPT !.reads = r.reads - 1]
         IN  Good(t) /\ t.istate = r.istate /\ t.reads = 0 /\ t.state = r.state /\ t.work = r.work
<1> DEFINE t == [r EXCEPT !.reads = r.reads - 1]
<1>1. r \in Records
  BY DEF Good, Fair
<1>2. /\ t.state = r.state /\ t.istate = r.istate /\ t.reads = r.reads - 1 /\ t.writes = r.writes
      /\ t.queue = r.queue /\ t.current = r.current /\ t.flag = r.flag /\ t.posted = r.posted
      /\ t.work = r.work /\ t.sent = r.sent /\ t.life = r.life
  BY <1>1 DEF Records
<1>3. t \in Records
  <2>1. r.reads - 1 \in Nat
    BY <1>1 DEF Records, States, IStates, Timers, Lives, Frames
  <2>2. QED
    BY <1>1, <2>1 DEF Records
<1> HIDE DEF t
<1>4. Good(t) /\ t.istate = r.istate /\ t.reads = 0 /\ t.state = r.state
  BY <1>1, <1>2, <1>3 DEF Good, Fair, Before, Reading, Writing, Flagged, Posted, Lived, Sent, Records
<1>5. QED
  BY <1>2, <1>4 DEF t

\* The response is written.
LEMMA ResponseDoneIsGood ==
  ASSUME NEW r, Good(r), r.writes > 0, r.istate = "response"
  PROVE  LET t == [r EXCEPT !.writes = r.writes - 1]
         IN  Good(t) /\ t.istate = r.istate /\ t.reads = 0 /\ t.writes = 0 /\ t.state = r.state /\ t.work = r.work
<1> DEFINE t == [r EXCEPT !.writes = r.writes - 1]
<1>1. r \in Records
  BY DEF Good, Fair
<1>2. /\ t.state = r.state /\ t.istate = r.istate /\ t.reads = r.reads /\ t.writes = r.writes - 1
      /\ t.queue = r.queue /\ t.current = r.current /\ t.flag = r.flag /\ t.posted = r.posted
      /\ t.work = r.work /\ t.sent = r.sent /\ t.life = r.life
  BY <1>1 DEF Records
<1>3. t \in Records
  <2>1. r.writes - 1 \in Nat
    BY <1>1 DEF Records, States, IStates, Timers, Lives, Frames
  <2>2. QED
    BY <1>1, <2>1 DEF Records
<1> HIDE DEF t
<1>4. Good(t) /\ t.istate = r.istate /\ t.reads = 0 /\ t.writes = 0 /\ t.state = r.state
  BY <1>1, <1>2, <1>3 DEF Good, Fair, Before, Reading, Writing, Flagged, Posted, Lived, Sent, Records
<1>5. QED
  BY <1>2, <1>4 DEF t

\* The first read of an accepted connection.
LEMMA AcceptedIsGood ==
  ASSUME NEW r, Good(r), r.istate = "accepting", r.state = "connecting"
  PROVE  LET t == [r EXCEPT !.istate = "request", !.timer = "open", !.reads = 1]
         IN  Good(t) /\ t.work = r.work
<1> DEFINE t == [r EXCEPT !.istate = "request", !.timer = "open", !.reads = 1]
<1>1. r \in Records
  BY DEF Good, Fair
<1>2. /\ t.state = r.state /\ t.istate = "request" /\ t.reads = 1 /\ t.writes = r.writes
      /\ t.queue = r.queue /\ t.current = r.current /\ t.flag = r.flag /\ t.posted = r.posted
      /\ t.work = r.work /\ t.sent = r.sent /\ t.life = r.life
  BY <1>1 DEF Records
<1>3. t \in Records
  <2>1. "request" \in IStates /\ "open" \in Timers
    BY <1>1 DEF Records, States, IStates, Timers, Lives, Frames
  <2>2. QED
    BY <1>1, <2>1 DEF Records
<1> HIDE DEF t
<1>4. Good(t)
  BY <1>1, <1>2, <1>3 DEF Good, Fair, Before, Reading, Writing, Flagged, Posted, Lived, Sent, Records
<1>5. QED
  BY <1>2, <1>4 DEF t

\* The request is answered.
LEMMA RespondingIsGood ==
  ASSUME NEW r, Good(r), r.istate = "request", r.reads = 0, NEW status \in Nat
  PROVE  LET t == [r EXCEPT !.istate = "response", !.status = status, !.writes = r.writes + 1]
         IN  Good(t) /\ t.work = r.work
<1> DEFINE t == [r EXCEPT !.istate = "response", !.status = status, !.writes = r.writes + 1]
<1>1. r \in Records
  BY DEF Good, Fair
<1>2. /\ t.state = r.state /\ t.istate = "response" /\ t.reads = r.reads /\ t.writes = r.writes + 1
      /\ t.queue = r.queue /\ t.current = r.current /\ t.flag = r.flag /\ t.posted = r.posted
      /\ t.work = r.work /\ t.sent = r.sent /\ t.life = r.life
  BY <1>1 DEF Records
<1>3. t \in Records
  <2>1. "response" \in IStates /\ r.writes + 1 \in Nat
    BY <1>1 DEF Records, States, IStates, Timers, Lives, Frames
  <2>2. QED
    BY <1>1, <2>1 DEF Records
<1> HIDE DEF t
<1>4. Good(t)
  BY <1>1, <1>2, <1>3 DEF Good, Fair, Before, Reading, Writing, Flagged, Posted, Lived, Sent, Records
<1>5. QED
  BY <1>2, <1>4 DEF t

\* A write_frame that has nothing to do.
LEMMA EmptyQueueIsGood ==
  ASSUME NEW r, Good(r), r.posted > 0, r.flag \/ r.queue = <<>>
  PROVE  LET t == [r EXCEPT !.posted = r.posted - 1]
         IN  Good(t) /\ t.work = r.work
<1> DEFINE t == [r EXCEPT !.posted = r.posted - 1]
<1>1. r \in Records
  BY DEF Good, Fair
<1>2. /\ t.state = r.state /\ t.istate = r.istate /\ t.reads = r.reads /\ t.writes = r.writes
      /\ t.queue = r.queue /\ t.current = r.current /\ t.flag = r.flag /\ t.posted = r.posted - 1
      /\ t.work = r.work /\ t.sent = r.sent /\ t.life = r.life
  BY <1>1 DEF Records
<1>3. t \in Records
  <2>1. r.posted - 1 \in Nat
    BY <1>1 DEF Records, States, IStates, Timers, Lives, Frames
  <2>2. QED
    BY <1>1, <2>1 DEF Records
<1> HIDE DEF t
<1>4. Good(t)
  BY <1>1, <1>2, <1>3 DEF Good, Fair, Before, Reading, Writing, Flagged, Posted, Lived, Sent, Records
<1>5. QED
  BY <1>2, <1>4 DEF t

\* The timers are not part of the invariant.
LEMMA TimerDueIsGood ==
  ASSUME NEW r, Good(r), NEW due \in SUBSET Timers, NEW timer \in Timers
  PROVE  LET t == [r EXCEPT !.due = due, !.timer = timer]
         IN  Good(t) /\ t.work = r.work
<1> DEFINE t == [r EXCEPT !.due = due, !.timer = timer]
<1>1. r \in Records
  BY DEF Good, Fair
<1>2. /\ t.state = r.state /\ t.istate = r.istate /\ t.reads = r.reads /\ t.writes = r.writes
      /\ t.queue = r.queue /\ t.current = r.current /\ t.flag = r.flag /\ t.posted = r.posted
      /\ t.work = r.work /\ t.sent = r.sent /\ t.life = r.life
  BY <1>1 DEF Records
<1>3. t \in Records
  <2>1. due \in SUBSET Timers
    BY <1>1 DEF Records, States, IStates, Timers, Lives, Frames
  <2>2. QED
    BY <1>1, <2>1 DEF Records
<1> HIDE DEF t
<1>4. Good(t)
  BY <1>1, <1>2, <1>3 DEF Good, Fair, Before, Reading, Writing, Flagged, Posted, Lived, Sent, Records
<1>5. QED
  BY <1>2, <1>4 DEF t

LEMMA LooseDueIsGood ==
  ASSUME NEW r, Good(r), NEW due \in SUBSET Timers, NEW loose \in BOOLEAN
  PROVE  LET t == [r EXCEPT !.due = due, !.loose = loose]
         IN  Good(t) /\ t.work = r.work
<1> DEFINE t == [r EXCEPT !.due = due, !.loose = loose]
<1>1. r \in Records
  BY DEF Good, Fair
<1>2. /\ t.state = r.state /\ t.istate = r.istate /\ t.reads = r.reads /\ t.writes = r.writes
      /\ t.queue = r.queue /\ t.current = r.current /\ t.flag = r.flag /\ t.posted = r.posted
      /\ t.work = r.work /\ t.sent = r.sent /\ t.life = r.life
  BY <1>1 DEF Records
<1>3. t \in Records
  <2>1. due \in SUBSET Timers
    BY <1>1 DEF Records, States, IStates, Timers, Lives, Frames
  <2>2. QED
    BY <1>1, <2>1 DEF Records
<1> HIDE DEF t
<1>4. Good(t)
  BY <1>1, <1>2, <1>3 DEF Good, Fair, Before, Reading, Writing, Flagged, Posted, Lived, Sent, Records
<1>5. QED
  BY <1>2, <1>4 DEF t

LEMMA DueIsGood ==
  ASSUME NEW r, Good(r), NEW due \in SUBSET Timers
  PROVE  LET t == [r EXCEPT !.due = due]
         IN  Good(t) /\ t.work = r.work
<1> DEFINE t == [r EXCEPT !.due = due]
<1>1. r \in Records
  BY DEF Good, Fair
<1>2. /\ t.state = r.state /\ t.istate = r.istate /\ t.reads = r.reads /\ t.writes = r.writes
      /\ t.queue = r.queue /\ t.current = r.current /\ t.flag = r.flag /\ t.posted = r.posted
      /\ t.work = r.work /\ t.sent = r.sent /\ t.life = r.life
  BY <1>1 DEF Records
<1>3. t \in Records
  <2>1. due \in SUBSET Timers
    BY <1>1 DEF Records, States, IStates, Timers, Lives, Frames
  <2>2. QED
    BY <1>1, <2>1 DEF Records
<1> HIDE DEF t
<1>4. Good(t)
  BY <1>1, <1>2, <1>3 DEF Good, Fair, Before, Reading, Writing, Flagged, Posted, Lived, Sent, Records
<1>5. QED
  BY <1>2, <1>4 DEF t

\* The connection opens.
LEMMA OpenedRecordIsGood ==
  ASSUME NEW r, Good(r), r.istate = "response", r.state = "connecting", r.writes = 0
  PROVE  LET t == [r EXCEPT !.timer = "none", !.istate = "frames", !.state = "open", !.life = "opened"]
         IN  Good(t) /\ t.istate = "frames" /\ t.reads = 0 /\ t.work = r.work
<1> DEFINE t == [r EXCEPT !.timer = "none", !.istate = "frames", !.state = "open", !.life = "opened"]
<1>1. r \in Records
  BY DEF Good, Fair
<1>2. /\ t.state = "open" /\ t.istate = "frames" /\ t.reads = r.reads /\ t.writes = r.writes
      /\ t.queue = r.queue /\ t.current = r.current /\ t.flag = r.flag /\ t.posted = r.posted
      /\ t.work = r.work /\ t.sent = r.sent /\ t.life = "opened"
  BY <1>1 DEF Records
<1>3. t \in Records
  <2>1. "frames" \in IStates /\ "open" \in States /\ "none" \in Timers /\ "opened" \in Lives
    BY <1>1 DEF Records, States, IStates, Timers, Lives, Frames
  <2>2. QED
    BY <1>1, <2>1 DEF Records
<1> HIDE DEF t
<1>4. Good(t) /\ t.istate = "frames" /\ t.reads = 0
  BY <1>1, <1>2, <1>3 DEF Good, Fair, Before, Reading, Writing, Flagged, Posted, Lived, Sent, Records
<1>5. QED
  BY <1>2, <1>4 DEF t

\* write_frame takes a batch: only its last frame may be a close.
LEMMA BatchIsGood ==
  ASSUME NEW r, Good(r), r.posted > 0, r.flag = FALSE, r.istate = "frames",
         NEW n \in 1..Len(r.queue), IsBatch(r.queue, n)
  PROVE  LET t == [r EXCEPT !.posted = r.posted - 1,
                            !.queue = SubSeq(r.queue, n + 1, Len(r.queue)),
                            !.current = SubSeq(r.queue, 1, n), !.flag = TRUE,
                            !.writes = r.writes + 1,
                            !.sent = r.sent \o SubSeq(r.queue, 1, n)]
         IN  Good(t) /\ t.work = r.work
<1> DEFINE batch == SubSeq(r.queue, 1, n)
           rest == SubSeq(r.queue, n + 1, Len(r.queue))
           sent == r.sent \o batch
           t == [r EXCEPT !.posted = r.posted - 1, !.queue = rest, !.current = batch,
                          !.flag = TRUE, !.writes = r.writes + 1, !.sent = sent]
<1>1. r \in Records /\ r.queue \in Seq(FrameKinds) /\ r.sent \in Seq(FrameKinds)
  BY DEF Good, Fair, Records, Frames
<1>2. /\ batch \in Seq(FrameKinds) /\ Len(batch) = n /\ \A i \in 1..n : batch[i] = r.queue[i]
      /\ rest \in Seq(FrameKinds)
  BY <1>1
<1>3. \A i \in 1..(n - 1) : batch[i] # "close"
  BY <1>1, <1>2 DEF IsBatch, Terminal
<1> HIDE DEF batch, rest
<1>4. sent \in Seq(FrameKinds) /\ Len(sent) = Len(r.sent) + n
  BY <1>1, <1>2
<1>5. \A i \in 1..Len(r.sent) : sent[i] = r.sent[i]
  BY <1>1, <1>2
<1>6. \A i \in 1..n : sent[Len(r.sent) + i] = batch[i]
  BY <1>1, <1>2
<1>7. NoClose(r.sent) /\ r.writes = 0
  BY <1>1 DEF Good, Fair, Sent, Writing, Records
<1>8. \A i \in (Len(r.sent) + 1)..(Len(sent)) : sent[i] = batch[i - Len(r.sent)] /\ i - Len(r.sent) \in 1..n
  <2>1. SUFFICES ASSUME NEW i \in (Len(r.sent) + 1)..(Len(sent))
                 PROVE  sent[i] = batch[i - Len(r.sent)] /\ i - Len(r.sent) \in 1..n
    OBVIOUS
  <2>2. i - Len(r.sent) \in 1..n /\ Len(r.sent) + (i - Len(r.sent)) = i
    BY <1>1, <1>2, <1>4
  <2>3. QED
    BY <2>2, <1>6
<1>9. Len(r.sent) \in Nat /\ Len(sent) \in Nat
  BY <1>1, <1>4
<1> HIDE DEF sent
<1>10. ASSUME NEW i \in 1..Len(sent), i # Len(sent) \/ batch[n] # "close"
       PROVE  sent[i] # "close"
  <2>1. CASE i \in 1..Len(r.sent)
    BY <2>1, <1>5, <1>7 DEF NoClose
  <2>2. CASE i \in (Len(r.sent) + 1)..(Len(sent))
    <3>1. sent[i] = batch[i - Len(r.sent)] /\ i - Len(r.sent) \in 1..n
      BY <2>2, <1>8
    <3>2. i - Len(r.sent) = n => i = Len(sent)
      BY <1>4, <1>9
    <3>3. i - Len(r.sent) \in 1..(n - 1) \/ i - Len(r.sent) = n
      BY <3>1
    <3>4. QED
      BY <3>1, <3>2, <3>3, <1>3, <1>10
  <2>3. QED
    BY <2>1, <2>2, <1>9
<1>11. CloseLast(sent) /\ (batch[n] # "close" => NoClose(sent))
  BY <1>9, <1>10 DEF CloseLast, NoClose
<1>12. /\ t.state = r.state /\ t.istate = r.istate /\ t.reads = r.reads /\ t.writes = 1
       /\ t.queue = rest /\ t.current = batch /\ t.flag = TRUE /\ t.posted = r.posted - 1
       /\ t.work = r.work /\ t.sent = sent /\ t.life = r.life
  BY <1>1, <1>7 DEF Records
<1>13. t \in Records
  <2>1. r.posted - 1 \in Nat /\ r.writes + 1 \in Nat /\ rest \in Frames /\ batch \in Frames
        /\ sent \in Frames
    BY <1>1, <1>2, <1>4 DEF Records, Frames
  <2>2. QED
    BY <1>1, <2>1 DEF Records
<1> HIDE DEF t
<1>14. Before(t) /\ Reading(t) /\ Flagged(t) /\ Posted(t) /\ Lived(t)
  BY <1>12 DEF Good, Fair, Before, Reading, Flagged, Posted, Lived
<1>15. Writing(t)
  BY <1>2, <1>12 DEF Good, Fair, Writing
<1>16. Sent(t)
  BY <1>2, <1>11, <1>12 DEF Sent
<1>17. Good(t) /\ t.work = r.work
  BY <1>12, <1>13, <1>14, <1>15, <1>16 DEF Good, Fair
<1>18. QED
  BY <1>17 DEF t, batch, rest, sent

\* The write of frames is over: one is left that a terminated connection, or
\* one whose flag comes down, may have.
LEMMA WrittenIsFair ==
  ASSUME NEW r, Good(r), r.writes > 0, r.istate = "frames"
  PROVE  LET t == [r EXCEPT !.writes = r.writes - 1, !.current = <<>>]
         IN  Fair(t) /\ t.work = r.work
<1> DEFINE t == [r EXCEPT !.writes = r.writes - 1, !.current = <<>>]
<1>1. r \in Records
  BY DEF Good, Fair
<1>2. r.writes = 1
  BY <1>1 DEF Good, Fair, Writing, Records
<1>3. /\ t.state = r.state /\ t.istate = r.istate /\ t.reads = r.reads /\ t.writes = 0
      /\ t.queue = r.queue /\ t.current = <<>> /\ t.flag = r.flag /\ t.posted = r.posted
      /\ t.work = r.work /\ t.sent = r.sent /\ t.life = r.life
  BY <1>1, <1>2 DEF Records
<1>4. t \in Records
  <2>1. r.writes - 1 \in Nat /\ <<>> \in Frames
    BY <1>2 DEF Frames
  <2>2. QED
    BY <1>1, <2>1 DEF Records
<1> HIDE DEF t
<1>5. Fair(t)
  BY <1>2, <1>3, <1>4 DEF Good, Fair, Before, Reading, Writing, Posted, Lived, Sent
<1>6. QED
  BY <1>3, <1>5 DEF t

LEMMA UnflaggedIsGood ==
  ASSUME NEW r, Good(r), r.writes > 0, r.istate = "frames",
         ~Terminal(r.current[Len(r.current)]),
         NEW posted \in Nat, r.queue # <<>> => posted > 0
  PROVE  LET t == [r EXCEPT !.writes = r.writes - 1, !.current = <<>>,
                            !.flag = FALSE, !.posted = posted]
         IN  Good(t) /\ t.work = r.work
<1> DEFINE t == [r EXCEPT !.writes = r.writes - 1, !.current = <<>>, !.flag = FALSE,
                          !.posted = posted]
<1>1. r \in Records
  BY DEF Good, Fair
<1>2. r.writes = 1 /\ NoClose(r.sent)
  BY <1>1 DEF Good, Fair, Writing, Records, Sent, Terminal
<1>3. /\ t.state = r.state /\ t.istate = r.istate /\ t.reads = r.reads /\ t.writes = 0
      /\ t.queue = r.queue /\ t.current = <<>> /\ t.flag = FALSE /\ t.posted = posted
      /\ t.work = r.work /\ t.sent = r.sent /\ t.life = r.life
  BY <1>1, <1>2 DEF Records
<1>4. t \in Records
  <2>1. r.writes - 1 \in Nat /\ <<>> \in Frames
    BY <1>2 DEF Frames
  <2>2. QED
    BY <1>1, <2>1 DEF Records
<1> HIDE DEF t
<1>5. Good(t)
  BY <1>2, <1>3, <1>4 DEF Good, Fair, Before, Reading, Writing, Flagged, Posted, Lived, Sent
<1>6. QED
  BY <1>3, <1>5 DEF t
-----------------------------------------------------------------------------
(***************************************************************************)
(* What a step tells the program                                           *)
(***************************************************************************)
Quiet(r, t) == t.life = r.life /\ t.heard = r.heard

LifeStep(r, t) ==
  \/ Quiet(r, t)
  \/ r.life = "silent" /\ t.life \in {"opened", "failed"} /\ t.heard = r.heard
  \/ r.life = "opened" /\ t.life = "closed" /\ t.heard = r.heard
  \/ r.life = "opened" /\ t.life = "opened" /\ Len(t.heard) = Len(r.heard) + 1

LEMMA TerminateLife ==
  ASSUME NEW r, Fair(r)
  PROVE  LifeStep(r, Terminate(r))
<1> DEFINE t == Terminate(r)
<1>1. r \in Records
  BY DEF Fair
<1>2. /\ t.heard = r.heard
      /\ t.life = CASE r.state = "connecting" -> "failed" [] r.state = "closed" -> r.life [] OTHER -> "closed"
  BY <1>1 DEF Terminate, Records
<1>3. r.state \in States /\ r.life \in Lives
  BY <1>1 DEF Records
<1> HIDE DEF t
<1>4. LifeStep(r, t)
  BY <1>2, <1>3 DEF Fair, Lived, States, Lives, LifeStep, Quiet
<1>5. QED
  BY <1>4 DEF t

LEMMA SendQuiet ==
  ASSUME NEW r, r \in Records, NEW f
  PROVE  Quiet(r, Push(r, f)) /\ Quiet(r, Send(r, f))
BY DEF Quiet, Push, Send, Records

LEMMA SendCloseQuiet ==
  ASSUME NEW r, Good(r), NEW ack \in BOOLEAN, r.istate = "frames", r.state # "closed"
  PROVE  Quiet(r, SendCloseFrame(r, ack))
BY DEF Quiet, Push, SendCloseFrame, Records, Good, Fair

LEMMA HearMessageLife ==
  ASSUME NEW r, Good(r), NEW payload \in Payloads, NEW replies \in 0..1
  PROVE  LifeStep(r, HearMessage(r, payload, replies))
<1> DEFINE t == [r EXCEPT !.heard = Append(r.heard, payload)]
<1>1. r \in Records /\ r.heard \in Seq(Payloads)
  BY DEF Good, Fair, Records
<1>2. t \in Records /\ t.life = r.life /\ t.heard = Append(r.heard, payload) /\ t.state = r.state
  BY <1>1, HeardIsGood DEF Good, Fair, Records
<1>3. Len(t.heard) = Len(r.heard) + 1
  BY <1>1, <1>2
<1>4. r.state = "open" => r.life = "opened"
  BY DEF Good, Fair, Lived
<1>5. HearMessage(r, payload, replies) \in {r, t, Send(t, "data")}
  BY DEF HearMessage
<1> HIDE DEF t
<1>6. Quiet(t, Send(t, "data"))
  BY <1>2, SendQuiet
<1>7. CASE r.state # "open"
  <2>1. HearMessage(r, payload, replies) = r
    BY <1>7 DEF HearMessage
  <2>2. QED
    BY <2>1 DEF LifeStep, Quiet
<1>8. CASE r.state = "open"
  BY <1>2, <1>3, <1>4, <1>5, <1>6, <1>8 DEF LifeStep, Quiet
<1>9. QED
  BY <1>7, <1>8

LEMMA HearOutcomeLife ==
  ASSUME NEW r, Good(r), r.istate = "frames", NEW o \in Outcomes, NEW replies \in 0..1
  PROVE  LifeStep(r, HearOutcome(r, o, replies))
<1>1. o.kind \in Kinds /\ o.bytes \in Payloads /\ r \in Records
  BY DEF Outcomes, Good, Fair
<1>2. LifeStep(r, HearMessage(r, o.bytes, replies))
  BY <1>1, HearMessageLife
<1>3. LifeStep(r, r) /\ LifeStep(r, Send(r, "pong"))
  BY <1>1, SendQuiet DEF LifeStep, Quiet
<1>4. r.state # "closed" => /\ LifeStep(r, SendCloseFrame(r, TRUE))
                            /\ LifeStep(r, SendCloseFrame(r, FALSE))
  BY SendCloseQuiet DEF LifeStep
<1>5. LifeStep(r, Terminate(r))
  BY TerminateLife DEF Good
<1>6. LifeStep(r, Terminate([r EXCEPT !.clean = TRUE]))
  <2> DEFINE t == [r EXCEPT !.clean = TRUE]
  <2>1. Good(t) /\ Quiet(r, t)
    <3>1. t.life = r.life /\ t.heard = r.heard
      BY <1>1 DEF Records
    <3>2. Good(t)
      BY CleanIsGood
    <3>3. QED
      BY <3>1, <3>2 DEF Quiet
  <2> HIDE DEF t
  <2>2. LifeStep(t, Terminate(t))
    BY <2>1, TerminateLife DEF Good
  <2>3. QED
    BY <2>1, <2>2 DEF LifeStep, Quiet, t
<1>7. LifeStep(r, HearClose(r)) /\ LifeStep(r, HearBadClose(r)) /\ LifeStep(r, CloseOnError(r))
  <2>1. HearClose(r) \in {r, Terminate([r EXCEPT !.clean = TRUE])} \/ (r.state = "open" /\ HearClose(r) = SendCloseFrame(r, TRUE))
    BY DEF HearClose
  <2>2. QED
    BY <2>1, <1>3, <1>4, <1>5, <1>6 DEF HearBadClose, CloseOnError
<1>8. \/ o.kind = "message" /\ HearOutcome(r, o, replies) = HearMessage(r, o.bytes, replies)
      \/ o.kind = "ping" /\ HearOutcome(r, o, replies) = Send(r, "pong")
      \/ o.kind = "pong" /\ HearOutcome(r, o, replies) = r
      \/ o.kind = "close" /\ HearOutcome(r, o, replies) = HearClose(r)
      \/ o.kind = "badclose" /\ HearOutcome(r, o, replies) = HearBadClose(r)
      \/ o.kind = "error" /\ HearOutcome(r, o, replies) = CloseOnError(r)
  BY <1>1 DEF Kinds, HearOutcome
<1>9. QED
  BY <1>2, <1>3, <1>7, <1>8

LEMMA LoopQuiet ==
  ASSUME NEW r \in Records, NEW w, NEW o
  PROVE  Quiet(r, Loop(r, w)) /\ Quiet(r, AfterOutcome(r, o))
BY DEF Quiet, Loop, AfterOutcome, Records
-----------------------------------------------------------------------------
(***************************************************************************)
(* The actions: each makes a good record of a good one, and tells the      *)
(* program what it may.                                                    *)
(***************************************************************************)
GoodStep(c, t) ==
  /\ Good(t) /\ LifeStep(con[c], t)
  /\ Becomes(c, t)
  /\ t.work # <<>> => busy \in {None, c}

\* Between handlers no loop runs.
LEMMA IdleFacts ==
  ASSUME IInv, NEW c \in Connections
  PROVE  /\ Good(con[c]) /\ con[c] \in Records
         /\ Idle => con[c].work = <<>>
BY NoneIsNoConnection DEF IInv, Good, Fair, Idle

LEMMA AcceptStep ==
  ASSUME IInv, NEW c \in Connections, Accept(c) \/ AcceptFails(c)
  PROVE  \E t : GoodStep(c, t)
<1> DEFINE r == con[c]
           a == [r EXCEPT !.istate = "request", !.timer = "open", !.reads = 1]
<1>1. Good(r) /\ r \in Records /\ r.work = <<>>
  BY IdleFacts DEF Accept, AcceptFails
<1>2. CASE Accept(c)
  <2>1. Good(a) /\ a.work = <<>>
    BY <1>1, <1>2, AcceptedIsGood DEF Accept
  <2>2. Quiet(r, a)
    BY <1>1 DEF Quiet, Records
  <2>3. GoodStep(c, a)
    BY <1>2, <2>1, <2>2 DEF Accept, GoodStep, LifeStep
  <2>4. QED
    BY <2>3
<1>3. CASE AcceptFails(c)
  <2>1. Good(Terminate(r)) /\ Terminate(r).work = <<>> /\ LifeStep(r, Terminate(r))
    BY <1>1, TerminateIsGood, TerminateLife DEF Good
  <2>2. GoodStep(c, Terminate(r))
    BY <1>3, <2>1 DEF AcceptFails, GoodStep
  <2>3. QED
    BY <2>2
<1>4. QED
  BY <1>2, <1>3

\* The record of a connection one of whose reads, or the write of whose
\* response, is over.
LEMMA ReadDone ==
  ASSUME IInv, NEW c \in Connections, Idle, con[c].reads > 0
  PROVE  LET r == [con[c] EXCEPT !.reads = con[c].reads - 1]
         IN  /\ Good(r) /\ r.work = <<>> /\ r.istate = con[c].istate /\ r.state = con[c].state
             /\ r.reads = 0 /\ Quiet(con[c], r) /\ r \in Records
             /\ Good(Terminate(r)) /\ Terminate(r).work = <<>> /\ LifeStep(con[c], Terminate(r))
<1> DEFINE r == [con[c] EXCEPT !.reads = con[c].reads - 1]
<1>1. Good(con[c]) /\ con[c] \in Records /\ con[c].work = <<>>
  BY IdleFacts
<1>2. /\ Good(r) /\ r.work = <<>> /\ r.istate = con[c].istate /\ r.state = con[c].state /\ r.reads = 0
  BY <1>1, ReadDoneIsGood
<1>3. Quiet(con[c], r)
  BY <1>1 DEF Quiet, Records
<1> HIDE DEF r
<1>4. Good(Terminate(r)) /\ Terminate(r).work = <<>> /\ LifeStep(r, Terminate(r)) /\ r \in Records
  BY <1>2, TerminateIsGood, TerminateLife DEF Good, Fair
<1>5. LifeStep(con[c], Terminate(r))
  BY <1>3, <1>4 DEF LifeStep, Quiet
<1>6. QED
  BY <1>2, <1>3, <1>4, <1>5 DEF r

LEMMA ResponseDone ==
  ASSUME IInv, NEW c \in Connections, Idle, con[c].writes > 0, con[c].istate = "response"
  PROVE  LET r == [con[c] EXCEPT !.writes = con[c].writes - 1]
         IN  /\ Good(r) /\ r.work = <<>> /\ r.istate = con[c].istate /\ r.state = con[c].state
             /\ r.reads = 0 /\ r.writes = 0 /\ Quiet(con[c], r) /\ r \in Records
             /\ Good(Terminate(r)) /\ Terminate(r).work = <<>> /\ LifeStep(con[c], Terminate(r))
<1> DEFINE r == [con[c] EXCEPT !.writes = con[c].writes - 1]
<1>1. Good(con[c]) /\ con[c] \in Records /\ con[c].work = <<>>
  BY IdleFacts
<1>2. /\ Good(r) /\ r.work = <<>> /\ r.istate = con[c].istate /\ r.state = con[c].state
      /\ r.reads = 0 /\ r.writes = 0
  BY <1>1, ResponseDoneIsGood
<1>3. Quiet(con[c], r)
  BY <1>1 DEF Quiet, Records
<1> HIDE DEF r
<1>4. Good(Terminate(r)) /\ Terminate(r).work = <<>> /\ LifeStep(r, Terminate(r)) /\ r \in Records
  BY <1>2, TerminateIsGood, TerminateLife DEF Good, Fair
<1>5. LifeStep(con[c], Terminate(r))
  BY <1>3, <1>4 DEF LifeStep, Quiet
<1>6. QED
  BY <1>2, <1>3, <1>4, <1>5 DEF r

LEMMA HandshakeStep ==
  ASSUME IInv, NEW c \in Connections,
         NEW request \in Requests \cup {"more"}, ReadHandshake(c, request) \/ ReadHandshakeFails(c)
  PROVE  \E t : GoodStep(c, t)
<1> DEFINE r == [con[c] EXCEPT !.reads = con[c].reads - 1]
           same == con[c]
           answered == [r EXCEPT !.istate = "response", !.status = StatusOf(request),
                                 !.writes = r.writes + 1]
<1>1. Idle /\ con[c].reads > 0 /\ con[c].istate = "request"
  BY DEF ReadHandshake, ReadHandshakeFails
<1>2. /\ Good(r) /\ r.work = <<>> /\ r.istate = "request" /\ r.state = con[c].state
      /\ r.reads = 0 /\ Quiet(con[c], r) /\ r \in Records
      /\ Good(Terminate(r)) /\ Terminate(r).work = <<>> /\ LifeStep(con[c], Terminate(r))
  BY <1>1, ReadDone
<1>3. same = con[c] /\ Good(con[c]) /\ con[c].work = <<>>
  BY <1>1, IdleFacts DEF Records
<1>4. Good(answered) /\ answered.work = <<>> /\ Quiet(con[c], answered)
  <2>1. StatusOf(request) \in Nat
    BY DEF StatusOf
  <2> HIDE DEF r
  <2>2. Good(answered) /\ answered.work = <<>>
    BY <1>2, <2>1, RespondingIsGood
  <2>3. Quiet(r, answered)
    BY <1>2 DEF Quiet, Records
  <2>4. QED
    BY <1>2, <2>2, <2>3 DEF Quiet
<1>5. CASE ReadHandshake(c, request)
  <2>1. Becomes(c, r) \/ Becomes(c, same) \/ Becomes(c, answered)
    BY <1>5 DEF ReadHandshake
  <2> HIDE DEF r, same, answered
  <2>2. GoodStep(c, r) \/ GoodStep(c, same) \/ GoodStep(c, answered)
    BY <1>2, <1>3, <1>4, <2>1 DEF GoodStep, LifeStep, Quiet
  <2>3. QED
    BY <2>2
<1>6. CASE ReadHandshakeFails(c)
  <2>1. GoodStep(c, Terminate(r))
    BY <1>2, <1>6 DEF ReadHandshakeFails, GoodStep
  <2>2. QED
    BY <2>1
<1>7. QED
  BY <1>5, <1>6

LEMMA ResponseStep ==
  ASSUME IInv, NEW c \in Connections, NEW work, WriteResponse(c, work) \/ WriteResponseFails(c)
  PROVE  \E t : GoodStep(c, t)
<1> DEFINE r == [con[c] EXCEPT !.writes = con[c].writes - 1]
           o == [r EXCEPT !.timer = "none", !.istate = "frames", !.state = "open",
                          !.life = "opened"]
<1>1. Idle /\ con[c].writes > 0 /\ con[c].istate = "response"
  BY DEF WriteResponse, WriteResponseFails
<1>2. /\ Good(r) /\ r.work = <<>> /\ r.istate = "response" /\ r.state = con[c].state
      /\ r.reads = 0 /\ r.writes = 0 /\ Quiet(con[c], r) /\ r \in Records
      /\ Good(Terminate(r)) /\ Terminate(r).work = <<>> /\ LifeStep(con[c], Terminate(r))
  BY <1>1, ResponseDone
<1>3. CASE WriteResponse(c, work)
  <2>1. work \in Works
    BY <1>3 DEF WriteResponse
  <2>2. \/ Becomes(c, r) \/ Becomes(c, Terminate(r))
        \/ r.state # "closed" /\ Becomes(c, Loop(o, work))
    BY <1>3 DEF WriteResponse, Opened
  <2>3. r.state # "closed" => r.state = "connecting" /\ r.life = "silent"
    BY <1>2 DEF Good, Fair, Before, Lived
  <2> HIDE DEF r
  <2>4. ASSUME r.state # "closed"
        PROVE  Good(o) /\ o.istate = "frames" /\ o.reads = 0 /\ o.life = "opened" /\ o.heard = r.heard
    <3>1. o.life = "opened" /\ o.heard = r.heard
      BY <1>2 DEF Records
    <3>2. Good(o) /\ o.istate = "frames" /\ o.reads = 0
      BY <1>2, <2>3, <2>4, OpenedRecordIsGood
    <3>3. QED
      BY <3>1, <3>2
  <2> HIDE DEF o
  <2>5. ASSUME r.state # "closed"
        PROVE  Good(Loop(o, work)) /\ LifeStep(con[c], Loop(o, work))
    <3>1. Good(Loop(o, work)) /\ Quiet(o, Loop(o, work))
      BY <2>1, <2>4, <2>5, LoopIsGood, LoopQuiet DEF Good, Fair
    <3>2. QED
      BY <3>1, <1>2, <2>3, <2>4, <2>5 DEF LifeStep, Quiet
  <2>6. GoodStep(c, r) \/ GoodStep(c, Terminate(r)) \/ GoodStep(c, Loop(o, work))
    BY <1>1, <1>2, <2>2, <2>5 DEF GoodStep, LifeStep, Idle
  <2>7. QED
    BY <2>6
<1>4. CASE WriteResponseFails(c)
  <2>1. GoodStep(c, Terminate(r))
    BY <1>2, <1>4 DEF WriteResponseFails, GoodStep
  <2>2. QED
    BY <2>1
<1>5. QED
  BY <1>3, <1>4

LEMMA ReadFramesStep ==
  ASSUME IInv, NEW c \in Connections, NEW work, ReadFrames(c, work) \/ ReadFramesFails(c)
  PROVE  \E t : GoodStep(c, t)
<1> DEFINE r == [con[c] EXCEPT !.reads = con[c].reads - 1]
<1>1. Idle /\ con[c].reads > 0 /\ con[c].istate = "frames"
  BY DEF ReadFrames, ReadFramesFails
<1>2. /\ Good(r) /\ r.istate = "frames" /\ r.reads = 0 /\ Quiet(con[c], r) /\ r \in Records
      /\ Good(Terminate(r)) /\ Terminate(r).work = <<>> /\ LifeStep(con[c], Terminate(r))
  BY <1>1, ReadDone
<1>3. CASE ReadFrames(c, work)
  <2>1. work \in Works /\ Becomes(c, Loop(r, work))
    BY <1>3 DEF ReadFrames
  <2> HIDE DEF r
  <2>2. Good(Loop(r, work)) /\ Quiet(r, Loop(r, work))
    BY <1>2, <2>1, LoopIsGood, LoopQuiet
  <2>3. GoodStep(c, Loop(r, work))
    BY <1>1, <1>2, <2>1, <2>2 DEF GoodStep, LifeStep, Quiet, Idle
  <2>4. QED
    BY <2>3
<1>4. CASE ReadFramesFails(c)
  <2>1. GoodStep(c, Terminate(r))
    BY <1>2, <1>4 DEF ReadFramesFails, GoodStep
  <2>2. QED
    BY <2>1
<1>5. QED
  BY <1>3, <1>4

LEMMA ProcessStep ==
  ASSUME IInv, NEW c \in Connections, NEW replies \in 0..1, Process(c, replies)
  PROVE  \E t : GoodStep(c, t)
<1> DEFINE r == con[c]
           o == Head(con[c].work)
           h == HearOutcome(r, o, replies)
<1>1. /\ Good(r) /\ r \in Records /\ r.work # <<>> /\ busy = c
  BY IdleFacts DEF Process, IInv
<1>2. r.istate = "frames" /\ r.reads = 0
  BY <1>1 DEF Good, Fair, Before, Reading, Records, IStates
<1>3. o \in Outcomes
  BY <1>1 DEF Records, Works
<1>4. Good(h) /\ Kept(r, h) /\ LifeStep(r, h)
  BY <1>1, <1>2, <1>3, HearOutcomeIsGood, HearOutcomeLife
<1> HIDE DEF o, h
<1>5. Good(AfterOutcome(h, o)) /\ Quiet(h, AfterOutcome(h, o))
  BY <1>1, <1>2, <1>4, AfterOutcomeIsGood, LoopQuiet DEF Kept, Good, Fair
<1>6. Becomes(c, AfterOutcome(h, o))
  BY DEF Process, h, o
<1>7. LifeStep(r, AfterOutcome(h, o))
  BY <1>4, <1>5 DEF LifeStep, Quiet
<1>8. GoodStep(c, AfterOutcome(h, o))
  BY <1>1, <1>5, <1>6, <1>7 DEF GoodStep
<1>9. QED
  BY <1>8

LEMMA WriteFrameStep ==
  ASSUME IInv, NEW c \in Connections, WriteFrame(c)
  PROVE  \E t : GoodStep(c, t)
<1> DEFINE r == con[c]
           s == [r EXCEPT !.posted = r.posted - 1]
           B(n) == [r EXCEPT !.posted = r.posted - 1,
                             !.queue = SubSeq(r.queue, n + 1, Len(r.queue)),
                             !.current = SubSeq(r.queue, 1, n), !.flag = TRUE,
                             !.writes = r.writes + 1,
                             !.sent = r.sent \o SubSeq(r.queue, 1, n)]
<1>1. Good(r) /\ r \in Records /\ r.work = <<>> /\ Idle
  BY IdleFacts DEF WriteFrame
<1>2. s.posted = r.posted - 1 /\ s.flag = r.flag /\ s.queue = r.queue /\ s.writes = r.writes
      /\ s.sent = r.sent /\ Quiet(r, s)
  BY <1>1 DEF Records, Quiet
<1>3. r.posted > 0 /\ r.posted \in Nat /\ r.flag \in BOOLEAN
  <2>1. r.posted \in Nat /\ r.flag \in BOOLEAN
    BY <1>1 DEF Records
  <2>2. s.posted >= 0
    BY DEF WriteFrame
  <2> HIDE DEF s
  <2>3. QED
    BY <1>2, <2>1, <2>2
<1>4. r.istate = "frames"
  BY <1>1, <1>3 DEF Good, Fair, Before
<1>5. CASE r.flag \/ r.queue = <<>>
  <2>1. Becomes(c, s)
    <3>1. \/ Becomes(c, s)
          \/ ~r.flag /\ \E n \in 1..Len(r.queue) : TRUE
      BY <1>2 DEF WriteFrame
    <3>2. r.queue = <<>> => 1..Len(r.queue) = {}
      OBVIOUS
    <3>3. QED
      BY <1>5, <3>1, <3>2
  <2>2. Good(s) /\ s.work = <<>>
    BY <1>1, <1>3, <1>5, EmptyQueueIsGood
  <2>3. GoodStep(c, s)
    BY <1>2, <2>1, <2>2 DEF GoodStep, LifeStep
  <2>4. QED
    BY <2>3
<1>6. CASE ~(r.flag \/ r.queue = <<>>)
  <2>1. PICK n \in 1..Len(r.queue) : IsBatch(r.queue, n) /\ Becomes(c, B(n))
    BY <1>6, <1>2 DEF WriteFrame
  <2>2. Good(B(n)) /\ B(n).work = <<>>
    BY <1>1, <1>3, <1>4, <1>6, <2>1, BatchIsGood
  <2>3. Quiet(r, B(n))
    BY <1>1 DEF Records, Quiet
  <2>4. GoodStep(c, B(n))
    BY <2>1, <2>2, <2>3 DEF GoodStep, LifeStep
  <2>5. QED
    BY <2>4
<1>7. QED
  BY <1>5, <1>6

LEMMA HandleWriteStep ==
  ASSUME IInv, NEW c \in Connections, HandleWrite(c) \/ HandleWriteFails(c)
  PROVE  \E t : GoodStep(c, t)
<1> DEFINE r == con[c]
           s == [r EXCEPT !.writes = r.writes - 1, !.current = <<>>]
           posted == IF r.queue = <<>> THEN r.posted ELSE r.posted + 1
           u == [r EXCEPT !.writes = r.writes - 1, !.current = <<>>, !.flag = FALSE,
                          !.posted = posted]
<1>1. Good(r) /\ r \in Records /\ r.work = <<>> /\ r.writes > 0 /\ r.istate = "frames"
  BY IdleFacts DEF HandleWrite, HandleWriteFails
<1>2. Fair(s) /\ s.work = <<>> /\ Quiet(r, s) /\ s.queue = r.queue /\ s.posted = r.posted
  <2>1. Quiet(r, s) /\ s.queue = r.queue /\ s.posted = r.posted
    BY <1>1 DEF Records, Quiet
  <2>2. Fair(s) /\ s.work = <<>>
    BY <1>1, WrittenIsFair
  <2>3. QED
    BY <2>1, <2>2
<1>3. Good(Terminate(s)) /\ Terminate(s).work = <<>> /\ LifeStep(r, Terminate(s))
  <2> HIDE DEF s
  <2>1. Good(Terminate(s)) /\ Terminate(s).work = <<>> /\ LifeStep(s, Terminate(s))
    BY <1>2, TerminateIsGood, TerminateLife
  <2>2. QED
    BY <1>2, <2>1 DEF LifeStep, Quiet
<1>4. CASE Becomes(c, Terminate(s))
  <2>1. GoodStep(c, Terminate(s))
    BY <1>3, <1>4 DEF GoodStep
  <2>2. QED
    BY <2>1
<1>5. CASE ~Terminal(r.current[Len(r.current)]) /\ Becomes(c, u)
  <2>1. posted \in Nat /\ (r.queue # <<>> => posted > 0)
    BY <1>1 DEF Records
  <2>2. Quiet(r, u)
    BY <1>1 DEF Records, Quiet
  <2> HIDE DEF posted
  <2>3. Good(u) /\ u.work = <<>>
    BY <1>1, <1>5, <2>1, UnflaggedIsGood
  <2>4. GoodStep(c, u)
    BY <1>5, <2>2, <2>3 DEF GoodStep, LifeStep
  <2>5. QED
    BY <2>4
<1>6. u = [s EXCEPT !.flag = FALSE, !.posted = IF s.queue = <<>> THEN s.posted ELSE s.posted + 1]
  BY <1>1, <1>2 DEF Records
<1>7. \/ Becomes(c, Terminate(s))
      \/ ~Terminal(r.current[Len(r.current)]) /\ Becomes(c, u)
  BY <1>6 DEF HandleWrite, HandleWriteFails
<1>8. QED
  BY <1>4, <1>5, <1>7

LEMMA TimerStep ==
  ASSUME IInv, NEW c \in Connections, TimerExpires(c) \/ LooseTimerExpires(c) \/ Timeout(c)
  PROVE  \E t : GoodStep(c, t)
<1> DEFINE r == con[c]
           expired == [r EXCEPT !.due = r.due \cup {r.timer}, !.timer = "none"]
           loose == [r EXCEPT !.due = r.due \cup {"close"}, !.loose = FALSE]
           handled(t) == [r EXCEPT !.due = r.due \ {t}]
<1>1. Good(r) /\ r \in Records /\ (r.work # <<>> => busy \in {None, c})
  BY IdleFacts DEF IInv
<1>2. CASE TimerExpires(c)
  <2>1. r.due \cup {r.timer} \in SUBSET Timers /\ "none" \in Timers
    BY <1>1 DEF Records, Timers
  <2>2. Good(expired) /\ expired.work = r.work
    BY <1>1, <2>1, TimerDueIsGood
  <2>3. Quiet(r, expired)
    BY <1>1 DEF Records, Quiet
  <2>4. GoodStep(c, expired)
    BY <1>1, <1>2, <2>2, <2>3 DEF GoodStep, LifeStep, TimerExpires
  <2>5. QED
    BY <2>4
<1>3. CASE LooseTimerExpires(c)
  <2>1. r.due \cup {"close"} \in SUBSET Timers
    BY <1>1 DEF Records, Timers
  <2>2. Good(loose) /\ loose.work = r.work
    BY <1>1, <2>1, LooseDueIsGood
  <2>3. Quiet(r, loose)
    BY <1>1 DEF Records, Quiet
  <2>4. GoodStep(c, loose)
    BY <1>1, <1>3, <2>2, <2>3 DEF GoodStep, LifeStep, LooseTimerExpires
  <2>5. QED
    BY <2>4
<1>4. CASE Timeout(c)
  <2>1. PICK t \in r.due : Becomes(c, Terminate(handled(t)))
    BY <1>4 DEF Timeout
  <2>2. r.due \ {t} \in SUBSET Timers
    BY <1>1 DEF Records
  <2>3. Good(handled(t)) /\ handled(t).work = r.work
    BY <1>1, <2>2, DueIsGood
  <2>4. Quiet(r, handled(t))
    BY <1>1 DEF Records, Quiet
  <2> DEFINE h == handled(t)
  <2>5. Good(h) /\ Quiet(r, h) /\ h.work = r.work /\ Becomes(c, Terminate(h))
    BY <2>1, <2>3, <2>4
  <2> HIDE DEF h
  <2>6. Good(Terminate(h)) /\ Terminate(h).work = r.work /\ LifeStep(h, Terminate(h))
    BY <2>5, TerminateIsGood, TerminateLife DEF Good
  <2>7. GoodStep(c, Terminate(h))
    BY <1>1, <2>5, <2>6 DEF GoodStep, LifeStep, Quiet
  <2>8. QED
    BY <2>7
<1>5. QED
  BY <1>2, <1>3, <1>4
-----------------------------------------------------------------------------
(***************************************************************************)
(* The theorems                                                            *)
(***************************************************************************)
LEMMA GoodStepKeeps ==
  ASSUME IInv, NEW c \in Connections, NEW t, GoodStep(c, t)
  PROVE  IInv'
<1>1. t \in Records /\ Good(t)
  BY DEF GoodStep, Good, Fair
<1>2. con' = [con EXCEPT ![c] = t] /\ con \in [Connections -> Records]
  BY DEF GoodStep, Becomes, IInv
<1>3. con' \in [Connections -> Records] /\ con'[c] = t
      /\ \A d \in Connections \ {c} : con'[d] = con[d]
  BY <1>1, <1>2
<1>4. \A d \in Connections : Good(con'[d])
  BY <1>1, <1>3 DEF IInv
<1>5. busy' = IF t.work # <<>> THEN c ELSE IF busy = c THEN None ELSE busy
  BY DEF GoodStep, Becomes
<1>6. busy' \in Connections \cup {None}
  BY <1>5 DEF IInv
<1>7. ASSUME NEW d \in Connections
      PROVE  con'[d].work # <<>> <=> busy' = d
  <2>1. /\ con[c].work # <<>> <=> busy = c
        /\ con[d].work # <<>> <=> busy = d
        /\ t.work # <<>> => busy \in {None, c}
        /\ None # c /\ None # d
    BY NoneIsNoConnection DEF IInv, GoodStep
  <2>2. CASE d = c
    BY <1>3, <1>5, <2>1, <2>2
  <2>3. CASE d # c
    <3>1. con'[d].work = con[d].work
      BY <1>3, <2>3
    <3>2. busy' = d <=> busy = d
      BY <1>5, <2>1, <2>3
    <3>3. QED
      BY <2>1, <3>1, <3>2
  <2>4. QED
    BY <2>2, <2>3
<1>8. QED
  BY <1>3, <1>4, <1>6, <1>7 DEF IInv, Good, Fair, Before, Reading, Writing, Flagged, Posted, Lived, Sent

\* Every step is a good step of some connection.
LEMMA NextIsGood ==
  ASSUME IInv, Next
  PROVE  \E c \in Connections : \E t : GoodStep(c, t)
<1>1. PICK c \in Connections :
        \/ Accept(c) \/ AcceptFails(c)
        \/ \E request \in Requests \cup {"more"} : ReadHandshake(c, request)
        \/ ReadHandshakeFails(c)
        \/ \E work : WriteResponse(c, work) \/ ReadFrames(c, work)
        \/ WriteResponseFails(c) \/ ReadFramesFails(c)
        \/ \E replies \in 0..1 : Process(c, replies)
        \/ WriteFrame(c) \/ HandleWrite(c) \/ HandleWriteFails(c)
        \/ TimerExpires(c) \/ LooseTimerExpires(c) \/ Timeout(c)
  BY DEF Next
<1>2. \E t : GoodStep(c, t)
  BY <1>1, AcceptStep, HandshakeStep, ResponseStep, ReadFramesStep, ProcessStep, WriteFrameStep,
     HandleWriteStep, TimerStep
<1>3. QED
  BY <1>2

LEMMA InitIsGood == Init => IInv
BY NewIsGood, NoneIsNoConnection DEF Init, IInv, Good, Fair
\* The invariant holds of every run.
LEMMA Invariance == Spec => []IInv
<1>1. IInv /\ [Next]_wsvars => IInv'
  <2> SUFFICES ASSUME IInv, [Next]_wsvars
               PROVE  IInv'
    OBVIOUS
  <2>1. CASE Next
    BY <2>1, NextIsGood, GoodStepKeeps
  <2>2. CASE UNCHANGED wsvars
    BY <2>2 DEF wsvars, IInv
  <2>3. QED
    BY <2>1, <2>2
<1>2. QED
  BY <1>1, InitIsGood, PTL DEF Spec

\* Every part of a connection's record keeps its type.
THEOREM TypeCorrect == Spec => []TypeOK
<1>1. IInv => TypeOK
  BY DEF IInv, TypeOK
<1>2. QED
  BY <1>1, Invariance, PTL

\* A connection never has two reads or two writes under way, whatever was sent
\* and whichever timers expired meanwhile (read_frame, write_frame).
THEOREM ReadsAndWritesAreSingle == Spec => []OneReadOneWrite
<1>1. IInv => OneReadOneWrite
  BY DEF IInv, Good, Fair, Reading, Writing, OneReadOneWrite
<1>2. QED
  BY <1>1, Invariance, PTL

\* No frame stays in the send queue with nobody to write it (write_push,
\* write_frame, handle_write_frame).
THEOREM FramesAreNotForgotten == Spec => []NoFrameForgotten
<1>1. ASSUME IInv, NEW c \in Connections, con[c].queue # <<>>, con[c].state # "closed"
      PROVE  con[c].posted > 0 \/ con[c].writes > 0
  <2>1. con[c].flag \in BOOLEAN
    BY <1>1 DEF IInv, Records
  <2>2. QED
    BY <1>1, <2>1 DEF IInv, Good, Fair, Posted, Flagged
<1>2. IInv => NoFrameForgotten
  BY <1>1 DEF NoFrameForgotten
<1>3. QED
  BY <1>2, Invariance, PTL

\* Nothing is handed to the socket after a close frame (write_frame, terminal
\* messages).
THEOREM CloseEndsTheWriting == Spec => []CloseIsLast
<1>1. IInv => CloseIsLast
  BY DEF IInv, Good, Fair, Sent, CloseLast, CloseIsLast, Terminal
<1>2. QED
  BY <1>1, Invariance, PTL

\* A step of one connection is a step of WsLife, or changes nothing it sees.
LEMMA StepIsLifeStep ==
  ASSUME IInv, NEW c \in Connections, NEW t, GoodStep(c, t)
  PROVE  Life!Next \/ UNCHANGED Life!vars
<1> DEFINE lives == [d \in Connections |-> con[d].life]
           counts == [d \in Connections |-> Len(con[d].heard)]
<1>1. con' = [con EXCEPT ![c] = t] /\ con \in [Connections -> Records] /\ LifeStep(con[c], t)
  BY DEF GoodStep, Becomes, IInv
<1>2. con[c].heard \in Seq(Payloads)
  BY <1>1 DEF Records
<1>3. lives' = [lives EXCEPT ![c] = t.life] /\ counts' = [counts EXCEPT ![c] = Len(t.heard)]
  BY <1>1
<1>4. lives[c] = con[c].life /\ counts[c] = Len(con[c].heard)
  OBVIOUS
<1>5. lives \in [Connections -> {con[d].life : d \in Connections}]
      /\ counts \in [Connections -> {Len(con[d].heard) : d \in Connections}]
  OBVIOUS
<1> HIDE DEF lives, counts
<1>6. CASE Quiet(con[c], t)
  <2>1. lives' = lives /\ counts' = counts
    BY <1>3, <1>4, <1>5, <1>6 DEF Quiet
  <2>2. QED
    BY <2>1 DEF Life!vars, lives, counts
<1>7. CASE con[c].life = "silent" /\ t.life \in {"opened", "failed"} /\ t.heard = con[c].heard
  <2>1. counts' = counts
    BY <1>3, <1>4, <1>5, <1>7
  <2>2. lives[c] = "silent" /\ (\/ lives' = [lives EXCEPT ![c] = "opened"]
                               \/ lives' = [lives EXCEPT ![c] = "failed"])
    BY <1>3, <1>4, <1>7
  <2>3. QED
    BY <2>1, <2>2 DEF Life!Next, Life!Open, Life!Fail, lives, counts
<1>8. CASE con[c].life = "opened" /\ t.life = "closed" /\ t.heard = con[c].heard
  <2>1. counts' = counts
    BY <1>3, <1>4, <1>5, <1>8
  <2>2. lives[c] = "opened" /\ lives' = [lives EXCEPT ![c] = "closed"]
    BY <1>3, <1>4, <1>8
  <2>3. QED
    BY <2>1, <2>2 DEF Life!Next, Life!Close, lives, counts
<1>9. CASE con[c].life = "opened" /\ t.life = "opened" /\ Len(t.heard) = Len(con[c].heard) + 1
  <2>1. lives' = lives
    BY <1>3, <1>4, <1>5, <1>9
  <2>2. lives[c] = "opened" /\ counts' = [counts EXCEPT ![c] = counts[c] + 1]
    BY <1>3, <1>4, <1>9
  <2>3. QED
    BY <2>1, <2>2 DEF Life!Next, Life!Hear, lives, counts
<1>10. QED
  BY <1>1, <1>6, <1>7, <1>8, <1>9 DEF LifeStep

\* The connection implements WsLife: for every connection the program hears of
\* a failure once and alone, or of an opening, then of messages, then of one
\* close (handle_accept .. handle_terminate).
THEOREM ImplementsLife == Spec => KeepsItsPromises
<1>1. Init => Life!Init
  BY DEF Init, NewConnection, Life!Init
<1>2. IInv /\ [Next]_wsvars => [Life!Next]_(Life!vars)
  <2> SUFFICES ASSUME IInv, [Next]_wsvars
               PROVE  [Life!Next]_(Life!vars)
    OBVIOUS
  <2>1. CASE Next
    BY <2>1, NextIsGood, StepIsLifeStep
  <2>2. CASE UNCHANGED wsvars
    BY <2>2 DEF wsvars, Life!vars
  <2>3. QED
    BY <2>1, <2>2
<1>3. QED
  BY <1>1, <1>2, Invariance, PTL DEF Spec, KeepsItsPromises, Life!Spec
-----------------------------------------------------------------------------
LEMMA NextBy ==
  ASSUME NEW c \in Connections,
         \/ Accept(c) \/ AcceptFails(c)
         \/ \E request \in Requests \cup {"more"} : ReadHandshake(c, request)
         \/ ReadHandshakeFails(c)
         \/ \E work : WriteResponse(c, work) \/ ReadFrames(c, work)
         \/ WriteResponseFails(c) \/ ReadFramesFails(c)
         \/ \E replies \in 0..1 : Process(c, replies)
         \/ WriteFrame(c) \/ HandleWrite(c) \/ HandleWriteFails(c)
         \/ TimerExpires(c) \/ LooseTimerExpires(c) \/ Timeout(c)
  PROVE  Next
BY DEF Next

\* What the handlers of a connection do to the connections and to admin_hdl.
LEMMA HandlerSteps ==
  ASSUME NEW c \in Connections, Handler(c)
  PROVE  \/ Next /\ AdminFollows
         \/ UNCHANGED <<con, busy, admin>>
<1>1. CASE ConnectionStep(c)
  BY <1>1, NextBy DEF ConnectionStep
<1>2. CASE RelayReadFrames(c)
  <2>1. PICK n \in ReadSizes \cup {Len(Stream(c)) - pos[c]} : ReadFrames(c, ParsedOut(c, n))
    BY <1>2 DEF RelayReadFrames
  <2>2. \E work : WriteResponse(c, work) \/ ReadFrames(c, work)
    BY <2>1
  <2>3. QED
    BY <1>2, <2>2, NextBy DEF RelayReadFrames
<1>3. CASE RelayWriteResponse(c)
  <2>1. PICK n \in ReadSizes \cup {0} : WriteResponse(c, ParsedOut(c, n))
    BY <1>3 DEF RelayWriteResponse
  <2>2. \E work : WriteResponse(c, work) \/ ReadFrames(c, work)
    BY <2>1
  <2>3. QED
    BY <1>3, <2>2, NextBy DEF RelayWriteResponse
<1>4. CASE RelayRefuses(c) \/ RelayActs(c) \/ RelayHears(c) \/ RelayProcesses(c)
  <2>1. (Process(c, 0) \/ Process(c, 1)) /\ AdminFollows
    BY <1>4 DEF RelayRefuses, RelayActs, RelayHears, RelayProcesses
  <2>2. \E replies \in 0..1 : Process(c, replies)
    <3>1. 0 \in 0..1 /\ 1 \in 0..1
      OBVIOUS
    <3>2. QED
      BY <2>1, <3>1
  <2>3. QED
    BY <2>1, <2>2, NextBy
<1>5. CASE RelayAsks(c) \/ RelayCrashes(c)
  BY <1>5 DEF RelayAsks, RelayCrashes
<1>6. QED
  BY <1>1, <1>2, <1>3, <1>4, <1>5 DEF Handler

LEMMA OtherSteps ==
  ASSUME RelayNext, ~ \E c \in Connections : Handler(c)
  PROVE  UNCHANGED <<con, busy, admin>>
BY DEF RelayNext, MainInserts, MainAssigns, MainForks, MainFails, AmiSends, AmiHangsUp

\* The relay is a user of the connections: nothing it does is more than a
\* handler, a send or a timer of WsConnection (ami_ws_server.cpp main).
THEOREM RelayImplementsConnection == RelaySpec => Spec
<1>1. RelayInit => Init
  BY DEF RelayInit
<1>2. [RelayNext]_relayvars => [Next]_wsvars
  <2>1. CASE \E c \in Connections : Handler(c)
    BY <2>1, HandlerSteps DEF wsvars
  <2>2. CASE RelayNext /\ ~ \E c \in Connections : Handler(c)
    BY <2>2, OtherSteps DEF wsvars
  <2>3. CASE UNCHANGED relayvars
    BY <2>3 DEF relayvars, wsvars
  <2>4. QED
    BY <2>1, <2>2, <2>3
<1>3. QED
  BY <1>1, <1>2, PTL DEF RelaySpec, Spec

\* The handle the relay sends events to is that of a connection whose end it
\* has not been told of, whatever the order of opens, closes and failures
\* (the open, close and fail handlers of ami_ws_server.cpp main).
THEOREM AdminFollowsConnections == RelaySpec => []AdminIsOpen
<1> DEFINE AInv == admin \in Connections \cup {None} /\ AdminIsOpen
<1>1. RelayInit => AInv
  BY DEF RelayInit, AdminIsOpen
<1>2. AInv /\ [RelayNext]_relayvars => AInv'
  <2> SUFFICES ASSUME AInv, [RelayNext]_relayvars
               PROVE  AInv'
    OBVIOUS
  <2>1. CASE AdminFollows
    <3> DEFINE opened == {c \in Connections : con[c].life = "silent" /\ con'[c].life = "opened"}
    <3>1. CASE opened # {}
      <4>1. admin' \in opened
        <5>1. admin' = CHOOSE c \in opened : TRUE
          BY <2>1, <3>1 DEF AdminFollows
        <5>2. QED
          BY <3>1, <5>1
      <4>2. QED
        BY <4>1 DEF AdminIsOpen
    <3>2. CASE opened = {}
      <4>1. admin' = IF admin # None /\ con'[admin].life = "opened" THEN admin ELSE None
        BY <2>1, <3>2 DEF AdminFollows
      <4>2. QED
        BY <4>1 DEF AdminIsOpen
    <3>3. QED
      BY <3>1, <3>2
  <2>2. CASE UNCHANGED <<con, busy, admin>>
    BY <2>2 DEF AdminIsOpen
  <2>3. UNCHANGED relayvars => UNCHANGED <<con, busy, admin>>
    BY DEF relayvars
  <2>4. QED
    BY <2>1, <2>2, <2>3, HandlerSteps, OtherSteps
<1>3. QED
  BY <1>1, <1>2, PTL DEF RelaySpec
=============================================================================
