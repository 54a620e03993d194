----------------------------- MODULE WsHandshake -----------------------------
(***************************************************************************)
(* The request that opens a connection, from its first byte to the status  *)
(* of the response: http::parser::request's consume, which a read feeds    *)
(* with whatever has come, and connection's handle_read_handshake with     *)
(* what it asks of the processor.  What comes behind the request is kept   *)
(* for the parser of frames (WsFrames); timers and failing reads are       *)
(* WsConnection's, of whose Requests this is the origin.                   *)
(*                                                                         *)
(* A character is known by its place, <<line, column>>; a line by what it  *)
(* says and how long it is.  Behind the blank line come the characters of  *)
(* line 0.                                                                 *)
(***************************************************************************)
EXTENDS Integers, Sequences, SequencesExt, FiniteSetsExt

CONSTANTS
  Clients,        \* requests: [lines, tail], lines of [what, says, length]
  MaxRead,        \* connection_read_buffer_size
  MaxHeaderSize,  \* max_header_size
  MaxBodySize,    \* max_body_size
  KeySize         \* the bytes of draft 0's third key

ASSUME HandshakeAssumption ==
  /\ MaxRead \in Nat \ {0} /\ MaxHeaderSize \in Nat /\ MaxBodySize \in Nat /\ KeySize \in Nat
  /\ \A c \in Clients : c.tail \in Nat /\ \A i \in DOMAIN c.lines : c.lines[i].length \in Nat \ {0}

VARIABLES
  client,   \* who has connected
  got,      \* characters read of it
  laps,     \* history: reads that ended before the blank line did
  request,  \* m_request and what m_buf holds of a line
  answer    \* the response's status; 0: none yet

handshakevars == <<client, got, laps, request, answer>>

CRLF == << <<0, 1>>, <<0, 2>> >>
LineText(i) == [col \in 1 .. client.lines[i].length |-> <<i, col>>] \o CRLF
Preamble == FlattenSeq([i \in DOMAIN client.lines |-> LineText(i)]) \o CRLF
Sent == Preamble \o [i \in 1 .. client.tail |-> <<0, i + 2>>]

\* A length as it is read off a header, and the drafts there is a processor for.
Number(text) == CASE text = "2" -> 2 [] text = "9" -> 9 [] OTHER -> 0
Processors == {"0", "7", "8", "13"}

\* A header said several times is one with all the values, the first in front;
\* a blank one gives way to the next.
Values(headers, name) == SelectSeq(headers, LAMBDA l : l.what = name /\ l.says # "")
Says(headers, name) == Values(headers, name) # <<>>
Leading(headers, name) == IF Says(headers, name) THEN Values(headers, name)[1].says ELSE ""
Mentions(headers, name) == \E i \in DOMAIN headers : headers[i].what = name /\ headers[i].says = "token"

NewRequest ==
  [method |-> "", headers |-> <<>>, buf |-> <<>>, bytes |-> 0, need |-> 0,
   ready |-> FALSE, left |-> <<>>, status |-> 0]
-----------------------------------------------------------------------------
\* A line by itself: process, process_header with append_header, or the end
\* of the head.  A body is waited for whether or not this is an upgrade.
TakeLine(r, text) ==
  LET s == [r EXCEPT !.buf = <<>>, !.bytes = @ + Len(text) + 3]
      line == client.lines[text[1][1]]  \* of a line that is not blank
  IN
  CASE s.bytes > MaxHeaderSize -> [s EXCEPT !.status = 431]
    [] text = <<>> /\ s.bytes <= MaxHeaderSize ->
         LET body == Leading(s.headers, "Content-Length") IN
         CASE s.method = "" \/ ~ Says(s.headers, "Host") -> [s EXCEPT !.status = 400]
           [] s.method # "" /\ Says(s.headers, "Host") /\ Number(body) > MaxBodySize ->
                [s EXCEPT !.status = 413]
           [] OTHER -> [s EXCEPT !.need = Number(body), !.ready = Number(body) = 0]
    [] OTHER ->
         CASE s.method = "" /\ line.what = "request" -> [s EXCEPT !.method = line.says]
           [] s.method # "" /\ line.what \notin {"request", "garbage"} ->
                [s EXCEPT !.headers = Append(@, line)]
           [] OTHER -> [s EXCEPT !.status = 400]

TakeChar(r, c) ==
  CASE r.status # 0 -> r
    [] r.status = 0 /\ r.ready -> [r EXCEPT !.left = Append(@, c)]
    [] r.status = 0 /\ r.need > 0 -> [r EXCEPT !.need = @ - 1, !.ready = r.need = 1]
    [] OTHER -> LET buf == Append(r.buf, c) IN
                IF IsSuffix(CRLF, buf) THEN TakeLine(r, SubSeq(buf, 1, Len(buf) - 2))
                ELSE [r EXCEPT !.buf = buf]

InHead(r) == r.status = 0 /\ ~ r.ready /\ r.need = 0

\* A slip the checks must catch: the rest of a line is not kept.
ConsumeAndForget(r, chunk) == FoldLeft(TakeChar, [r EXCEPT !.buf = <<>>], chunk)

\* request::consume.  What sizeof counts of a delimiter is one more than it has,
\* and the search that comes to the end of the buffer pays for one as well.
Consume(r, chunk) ==
  LET s == FoldLeft(TakeChar, r, chunk) IN
  CASE ~ InHead(s) -> s
    [] InHead(s) /\ s.bytes + Len(s.buf) + 3 > MaxHeaderSize -> [s EXCEPT !.status = 431]
    [] OTHER -> [s EXCEPT !.bytes = @ + 3]
-----------------------------------------------------------------------------
IsWebsocketHandshake(r) == Mentions(r.headers, "Upgrade") /\ Mentions(r.headers, "Connection")
Version(r) == IF Says(r.headers, "Version") THEN Leading(r.headers, "Version") ELSE "0"
\* get_uri_from_host: what follows the last colon is the port.
UriValid(r) ==
  LET ports == SelectSeq(Values(r.headers, "Host"), LAMBDA l : l.says # "name") IN
  ports # <<>> => Last(ports).says # "badport"

\* validate_handshake of drafts 7 to 13, and of draft 0.
KeysThere(r) ==
  IF Version(r) = "0" THEN Says(r.headers, "Key1") /\ Says(r.headers, "Key2")
  ELSE Says(r.headers, "Key")
\* negotiate_extensions: a list of which nothing can be parsed.
ExtensionsParse(r) == Version(r) # "0" => Leading(r.headers, "Extensions") # "malformed"

\* initialize_processor, then process_handshake_request.
Status(r) ==
  CASE r.status # 0 -> r.status
    [] r.status = 0 /\ ~ IsWebsocketHandshake(r) -> IF UriValid(r) THEN 426 ELSE 400
    [] OTHER ->
       CASE Version(r) \notin Processors -> 400
         [] Version(r) = "0" /\ Len(r.left) < KeySize -> 500
         [] OTHER ->
            IF r.method = "get" /\ KeysThere(r) /\ ExtensionsParse(r) /\ UriValid(r)
            THEN 101 ELSE 400

\* The bytes the connection keeps for handle_read_frame: m_buf_cursor of them.
Leftover(r) ==
  IF IsWebsocketHandshake(r) /\ Version(r) = "0" THEN SubSeq(r.left, KeySize + 1, Len(r.left))
  ELSE r.left

HandshakeInit ==
  /\ client \in Clients
  /\ got = 0
  /\ laps = 0
  /\ request = NewRequest
  /\ answer = 0

\* handle_read_handshake.
ReadRequest(n) ==
  /\ answer = 0
  /\ got + n <= Len(Sent)
  /\ got' = got + n
  /\ LET r == Consume(request, SubSeq(Sent, got + 1, got + n)) IN
     /\ request' = r
     /\ laps' = IF InHead(r) THEN laps + 1 ELSE laps
     /\ answer' = IF r.status # 0 \/ r.ready THEN Status(r) ELSE 0
  /\ UNCHANGED client

\* The library goes on with the response; the model with the frames that come.
Answered == answer # 0 /\ UNCHANGED handshakevars
\* The client sends no more.
Waits == answer = 0 /\ got = Len(Sent) /\ UNCHANGED handshakevars

HandshakeNext ==
  \/ \E n \in 1 .. MaxRead : ReadRequest(n)
  \/ Answered \/ Waits
-----------------------------------------------------------------------------
(* What the request as a whole asks for *)

All == client.lines
Wrong == {i \in DOMAIN All : (i = 1) # (All[i].what = "request") \/ All[i].what = "garbage"}
Chars(i, each) == FoldLeft(LAMBDA sum, l : sum + l.length + each, 0, SubSeq(All, 1, i))
Cost == Chars(Len(All), 3) + 3 + 3 * laps
Body == Number(Leading(All, "Content-Length"))
End == Len(Preamble) + Body

IsUpgrade == Mentions(All, "Upgrade") /\ Mentions(All, "Connection")
IsDraft0 == IsUpgrade /\ Leading(All, "Version") \in {"", "0"}
Acceptable ==
  /\ All # <<>> /\ Wrong = {} /\ All[1].says = "get" /\ IsUpgrade
  /\ Says(All, "Host")
  /\ \A i \in DOMAIN All : All[i].what = "Host" /\ All[i].says = "badport" =>
       \E j \in i + 1 .. Len(All) : All[j].what = "Host" /\ All[j].says = "port"
  /\ IF IsDraft0 THEN Says(All, "Key1") /\ Says(All, "Key2")
     ELSE /\ Leading(All, "Version") \in {"7", "8", "13"}
          /\ Says(All, "Key") /\ Leading(All, "Extensions") # "malformed"
  /\ Body <= MaxBodySize

\* Up to where a request must come to be answered: the line that is wrong, the
\* head if its body is too large, else the body's end.
Due == CASE Wrong # {} -> Chars(Min(Wrong), 2)
         [] Wrong = {} /\ Body > MaxBodySize -> Len(Preamble)
         [] OTHER -> IF All # <<>> /\ Says(All, "Host") THEN End ELSE Len(Preamble)

\* However a request is cut into reads, its answer is the one its lines call
\* for, given when the last byte it needs is there and not before, and every
\* byte behind it goes to the frames' parser, each once and in order.  Cuts
\* matter in two ways only: each read costs three bytes of the limit on the
\* head (and one that ends inside the last delimiter one more), and the third
\* key of draft 0 must come with the end of the head.
HandshakeIsWhole ==
  /\ answer # 431 => (answer # 0 <=> got >= Due)
  /\ answer = 101 =>
       /\ Acceptable
       /\ Leftover(request) = SubSeq(Sent, End + 1 + (IF IsDraft0 THEN KeySize ELSE 0), got)
  /\ Acceptable /\ answer \notin {0, 101, 431} =>
       answer = 500 /\ IsDraft0 /\ got < End + KeySize
  /\ answer = 431 => Cost + 1 > MaxHeaderSize
  /\ answer \notin {0, 431} /\ Wrong = {} => Cost <= MaxHeaderSize
==============================================================================
