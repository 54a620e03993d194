------------------------------ MODULE WsFrames ------------------------------
(***************************************************************************)
(* The frames of a WebSocket, byte by byte: the parser of                  *)
(* processors/hybi13.hpp with the headers of frame.hpp, the close payload  *)
(* of close.hpp and the automaton of utf8_validator.hpp.  A parser is a    *)
(* record; the bytes of a read go through it in one Parse, whatever frame  *)
(* they begin or end in, as in the loop of connection::handle_read_frame.  *)
(* Bytes are 0..255; header bits are taken by div and %.                   *)
(***************************************************************************)
EXTENDS Integers, SequencesExt

CONSTANT MaxMessageSize    \* bytes of a data message, config/core.hpp

Opcode == [continuation |-> 0, text |-> 1, binary |-> 2, close |-> 8,
           ping |-> 9, pong |-> 10]
IsControl(op) == op >= 8
Reserved(op) == op \in 3..7 \cup 11..15

\* The fields of the two bytes of a basic header.
Fin(h) == h[1] >= 128
Rsv(h) == (h[1] \div 16) % 8
Op(h) == h[1] % 16
Masked(h) == h[2] >= 128
BasicSize(h) == h[2] % 128

Size16 == 126              \* basic sizes that announce a longer size field
Size64 == 127
MaxBasicSize == 125
MaxExtendedSize == 65535

\* Bytes of the size field, and of the header after its first two bytes.
SizeField(h) ==
  CASE BasicSize(h) = Size16 -> 2
    [] BasicSize(h) = Size64 -> 8
    [] OTHER -> 0
ExtendedLength(h) == SizeField(h) + IF Masked(h) THEN 4 ELSE 0

\* The number that big-endian bytes spell.  Sizes are 64 bits wide in the code
\* and TLC's integers 32: a size within 2^31 of 2^64 is that much below zero,
\* every other size of 2^31 or more is Huge.
Huge == 2147483647
BigEndian(bytes) == FoldLeft(LAMBDA n, b : n * 256 + b, 0, bytes)
JumboSize(bytes) ==
  CASE \A i \in 1..4 : bytes[i] = 255 /\ bytes[5] >= 128 ->
         BigEndian([SubSeq(bytes, 5, 8) EXCEPT ![1] = @ - 256])
    [] \A i \in 1..4 : bytes[i] = 0 /\ bytes[5] < 128 -> BigEndian(SubSeq(bytes, 5, 8))
    [] OTHER -> Huge
PayloadSize(h, ext) ==
  CASE SizeField(h) = 0 -> BasicSize(h)
    [] SizeField(h) = 2 -> BigEndian(SubSeq(ext, 1, 2))
    [] OTHER -> JumboSize(ext)

\* The collected bytes and the announced ones are more than a message may
\* have; their sum wraps at 2^64, as size_t does.
OverLimit(collected, size) ==
  IF size >= 0 THEN size > MaxMessageSize - collected
  ELSE collected + size \notin 0..MaxMessageSize
MaskingKey(h, ext) ==
  IF Masked(h) THEN SubSeq(ext, SizeField(h) + 1, SizeField(h) + 4)
               ELSE <<0, 0, 0, 0>>
-----------------------------------------------------------------------------
(***************************************************************************)
(* Masks and text                                                          *)
(***************************************************************************)
Bytes == 0..255
XorOfNibbles == [a, b \in 0..15 |->
  FoldSet(LAMBDA i, sum : sum + ((((a \div 2^i) + (b \div 2^i)) % 2) * 2^i), 0, 0..3)]
Xor(a, b) == 16 * XorOfNibbles[a \div 16, b \div 16] + XorOfNibbles[a % 16, b % 16]

\* byte_mask_circ: the bytes unmasked with a key prepared for the first of
\* them, and the key turned to where the next bytes will need it.
Mask(bytes, key) == [i \in DOMAIN bytes |-> Xor(bytes[i], key[((i - 1) % 4) + 1])]
Turned(key, n) == [i \in 1..4 |-> key[((i - 1 + n) % 4) + 1]]

\* The classes of bytes and the transitions of the validator's table.
ByteClass(b) ==
  CASE b <= 127 -> 0
    [] b \in 128..143 -> 1
    [] b \in 144..159 -> 9
    [] b \in 160..191 -> 7
    [] b \in 194..223 -> 2
    [] b = 224 -> 10
    [] b = 237 -> 4
    [] b \in (225..239) \ {237} -> 3
    [] b = 240 -> 11
    [] b \in 241..243 -> 6
    [] b = 244 -> 5
    [] OTHER -> 8
Utf8Accept == 0
Utf8Reject == 1
Utf8Moves ==
  { <<0, 0, 0>>, <<0, 2, 2>>, <<0, 3, 3>>, <<0, 4, 5>>, <<0, 5, 8>>, <<0, 6, 7>>,
    <<0, 10, 4>>, <<0, 11, 6>> }
  \cup ({2} \X {1, 7, 9} \X {0}) \cup ({3} \X {1, 7, 9} \X {2}) \cup ({4} \X {7} \X {2})
  \cup ({5} \X {1, 9} \X {2}) \cup ({6} \X {7, 9} \X {3}) \cup ({7} \X {1, 7, 9} \X {3})
  \cup ({8} \X {1} \X {3})
Utf8Table == [state \in 0..8, byte \in Bytes |->
  LET to == {m[3] : m \in {m \in Utf8Moves : m[1] = state /\ m[2] = ByteClass(byte)}}
  IN  IF to = {} THEN Utf8Reject ELSE CHOOSE s \in to : TRUE]
Utf8Move(state, byte) == Utf8Table[state, byte]
Utf8Decode(state, bytes) == FoldLeft(Utf8Move, state, bytes)
Utf8Valid(bytes) == Utf8Decode(Utf8Accept, bytes) = Utf8Accept
-----------------------------------------------------------------------------
(***************************************************************************)
(* The parser                                                              *)
(***************************************************************************)
NoMessage == [live |-> FALSE, op |-> 0, bytes |-> <<>>, key |-> <<0, 0, 0, 0>>,
              utf8 |-> Utf8Accept]
NewMessage(op, key) == [NoMessage EXCEPT !.live = TRUE, !.op = op, !.key = key]

\* data is the message whose fragments are being collected, control the
\* control frame that may come between them, current the one being filled.
NewParser ==
  [state |-> "HEADER_BASIC", need |-> 2, head |-> <<0, 0>>, ext |-> <<>>,
   msg |-> [data |-> NoMessage, control |-> NoMessage], current |-> "data",
   failed |-> FALSE]

Failed(p) == [p EXCEPT !.failed = TRUE]
ResetHeaders(p) ==
  [p EXCEPT !.state = "HEADER_BASIC", !.need = 2, !.head = <<0, 0>>, !.ext = <<>>]

\* A slip the checks must catch: a data frame between fragments is taken.
BasicHeaderErrorLax(h, fresh) ==
  \/ IsControl(Op(h)) /\ (BasicSize(h) > MaxBasicSize \/ ~Fin(h))
  \/ Rsv(h) # 0
  \/ Reserved(Op(h))
  \/ fresh /\ Op(h) = Opcode.continuation
  \/ ~Masked(h)

\* A basic header is refused (validate_incoming_basic_header, and consume,
\* which knows whether a data message is being collected: fresh says not).
BasicHeaderError(h, fresh) ==
  \/ IsControl(Op(h)) /\ (BasicSize(h) > MaxBasicSize \/ ~Fin(h))
  \/ Rsv(h) # 0
  \/ Reserved(Op(h))
  \/ ~IsControl(Op(h)) /\ (fresh <=> Op(h) = Opcode.continuation)
  \/ ~Masked(h)

\* A size in more bytes than it needs.
ExtendedHeaderError(h, size) ==
  \/ BasicSize(h) = Size16 /\ size <= MaxBasicSize
  \/ BasicSize(h) = Size64 /\ size \in 0..MaxExtendedSize

\* copy_basic_header_bytes: two bytes at once if they are there, else the one
\* that is missing.
BasicHeader(p, buf) ==
  LET n == IF p.need = 2 /\ Len(buf) > 1 THEN 2 ELSE 1
      head == IF p.need = 2 THEN SubSeq(buf, 1, n) \o SubSeq(p.head, n + 1, 2)
                            ELSE <<p.head[1], buf[1]>>
      q == [p EXCEPT !.head = head, !.need = @ - n]
  IN  [used |-> n,
       p |-> IF q.need > 0 THEN q
             ELSE IF BasicHeaderError(head, ~p.msg.data.live) THEN Failed(q)
             ELSE [q EXCEPT !.state = "HEADER_EXTENDED", !.ext = <<>>,
                            !.need = ExtendedLength(head)]]

\* The message a frame's payload goes to: a new control message, a new data
\* message, or the one being collected, with the key of the new frame.
BeginPayload(p, size, key) ==
  LET q == [p EXCEPT !.state = "APPLICATION", !.need = IF size < 0 THEN Huge ELSE size]
      collected == IF p.msg.data.live THEN Len(p.msg.data.bytes) ELSE 0
  IN  IF IsControl(Op(p.head))
      THEN [q EXCEPT !.current = "control", !.msg.control = NewMessage(Op(p.head), key)]
      ELSE IF OverLimit(collected, size) THEN Failed(q)
      ELSE [q EXCEPT !.current = "data",
                     !.msg.data = IF p.msg.data.live THEN [@ EXCEPT !.key = key]
                                  ELSE NewMessage(Op(p.head), key)]

ExtendedHeader(p, buf) ==
  LET n == Min({p.need, Len(buf)})
      ext == p.ext \o SubSeq(buf, 1, n)
      q == [p EXCEPT !.ext = ext, !.need = @ - n]
      size == PayloadSize(p.head, ext)
  IN  [used |-> n,
       p |-> IF q.need > 0 THEN q
             ELSE IF ExtendedHeaderError(p.head, size) THEN Failed(q)
             ELSE BeginPayload(q, size, MaskingKey(p.head, ext))]

\* process_payload_bytes: the bytes unmasked and appended, text validated as
\* it comes; the state of the validator stays with the message.
Fill(m, bytes) ==
  LET plain == Mask(bytes, m.key)
  IN  [m EXCEPT !.bytes = @ \o plain, !.key = Turned(@, Len(bytes)),
                !.utf8 = IF m.op = Opcode.text THEN Utf8Decode(@, plain) ELSE @]

\* finalize_message looks at the opcode of the last frame of the message.
Finalize(p) ==
  IF Op(p.head) = Opcode.text /\ p.msg[p.current].utf8 # Utf8Accept
  THEN Failed(p)
  ELSE [p EXCEPT !.state = "READY"]

Payload(p, buf) ==
  LET n == Min({p.need, Len(buf)})
      m == IF n = 0 THEN p.msg[p.current] ELSE Fill(p.msg[p.current], SubSeq(buf, 1, n))
      q == [p EXCEPT !.msg[p.current] = m, !.need = @ - n]
  IN  [used |-> n,
       p |-> IF m.utf8 = Utf8Reject THEN Failed(q)
             ELSE IF q.need > 0 THEN q
             ELSE IF Fin(p.head) THEN Finalize(q) ELSE ResetHeaders(q)]

\* get_message: the finished message leaves the parser.
Taken(p) == ResetHeaders([p EXCEPT !.msg[p.current] = NoMessage])
-----------------------------------------------------------------------------
(***************************************************************************)
(* What the connection makes of a finished message                         *)
(***************************************************************************)
InvalidCode(code) == code <= 999 \/ code >= 5000 \/ code \in {1005, 1006, 1015}
ReservedCode(code) == code \in 1016..2999 \/ code = 1004

\* extract_code and extract_reason accept the payload of a close frame.
CloseIsValid(bytes) ==
  \/ Len(bytes) = 0
  \/ /\ Len(bytes) >= 2
     /\ LET code == BigEndian(SubSeq(bytes, 1, 2))
        IN  ~InvalidCode(code) /\ ~ReservedCode(code)
     /\ Utf8Valid(SubSeq(bytes, 3, Len(bytes)))

Outcome(kind, bytes) == [kind |-> kind, bytes |-> bytes]
OutcomeOf(m) ==
  CASE m.op = Opcode.ping -> Outcome("ping", m.bytes)
    [] m.op = Opcode.pong -> Outcome("pong", m.bytes)
    [] m.op = Opcode.close -> Outcome(IF CloseIsValid(m.bytes) THEN "close" ELSE "badclose", m.bytes)
    [] OTHER -> Outcome("message", m.bytes)

\* One turn of the loop over the bytes of a read: a refusal or a finished
\* message is handed on, else the next header or payload bytes are taken.
Turn(r) ==
  IF r.done THEN r
  ELSE IF r.p.failed THEN [r EXCEPT !.done = TRUE, !.out = Append(@, Outcome("error", <<>>))]
  ELSE IF r.p.state = "READY"
       THEN [r EXCEPT !.p = Taken(@), !.out = Append(@, OutcomeOf(r.p.msg[r.p.current]))]
  ELSE IF r.buf = <<>> /\ r.p.need > 0 THEN r
  ELSE   LET step == CASE r.p.state = "HEADER_BASIC" -> BasicHeader(r.p, r.buf)
                       [] r.p.state = "HEADER_EXTENDED" -> ExtendedHeader(r.p, r.buf)
                       [] OTHER -> Payload(r.p, r.buf)
         IN  [r EXCEPT !.p = step.p, !.buf = SubSeq(@, step.used + 1, Len(@))]

\* The bytes of a read, consumed until they are used up or refused: the
\* parser they leave and the outcomes they had, in order.  A turn takes a
\* byte, ends a payload or hands a message on, and a frame has six bytes at
\* least, so two turns a byte and a few are enough.
Parse(p, buf) ==
  LET start == [p |-> p, buf |-> buf, out |-> <<>>, done |-> FALSE]
  IN  FoldLeft(LAMBDA r, i : Turn(r), start, [i \in 1..(2 * Len(buf) + 4) |-> i])
-----------------------------------------------------------------------------
(***************************************************************************)
(* The frames of a peer, [fin, op, key, payload], as frame.hpp lays a      *)
(* masked frame out, and what RFC 6455 makes of them.                      *)
(***************************************************************************)
Encode(f) ==
  LET n == Len(f.payload)
      size == IF n <= MaxBasicSize THEN <<128 + n>>
              ELSE <<128 + Size16, n \div 256, n % 256>>
  IN  <<(IF f.fin THEN 128 ELSE 0) + f.op>> \o size \o f.key \o Mask(f.payload, f.key)
EncodeAll(frames) == FlattenSeq([i \in DOMAIN frames |-> Encode(frames[i])])
=============================================================================
