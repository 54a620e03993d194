------------------------------ MODULE AmiStream ------------------------------
(***************************************************************************)
(* How the daemon cuts the manager's stream into events (gnudialer.cpp's   *)
(* main loop, Socket.h).  A turn of the loop reads once: what has arrived, *)
(* at most MaxRecv characters, or nothing within a second, which stands    *)
(* for the event NoEvent.  The text of one read is cut at its line feeds,  *)
(* each piece loses its last character whatever that is, an empty piece    *)
(* has the block analysed and emptied, and any other is a line of it.      *)
(* Only the block outlives the read: the rest of a line does not wait for  *)
(* the next.                                                               *)
(*                                                                         *)
(* A character is known by its place in the text: <<event, line, column>>. *)
(* After the text the connection is silent or closed, which reads alike.   *)
(***************************************************************************)
EXTENDS Integers, Sequences, SequencesExt, FiniteSetsExt

CONSTANTS
  Texts,    \* what the manager may send: events as sequences of line lengths
  MaxRecv   \* MAXRECV

ASSUME TextsAssumption ==
  \A t \in Texts : \A e \in DOMAIN t :
    t[e] # <<>> /\ \A l \in DOMAIN t[e] : t[e][l] \in Nat \ {0}
ASSUME RecvAssumption == MaxRecv \in Nat \ {0}

VARIABLES
  text,     \* the events
  read,     \* characters of them the daemon has taken from the socket
  greeting, \* reads of the login still to come, whose text is not looked at
  block,    \* the lines of the block so far
  heard,    \* history: the events handled whole and alone, in order
  damaged   \* history: the events a read cut inside, or a silence fell into

streamvars == <<text, read, greeting, block, heard, damaged>>

CR == <<0, 0, 1>>
LF == <<0, 0, 2>>
Idle == <<0, 0, 3>>   \* what "Event: NoEvent" says

Line(e, l) == [i \in 1 .. text[e][l] |-> <<e, l, i>>] \o <<CR, LF>>
Body(e) == FlattenSeq([l \in DOMAIN text[e] |-> Line(e, l)])
Stream == FlattenSeq([e \in DOMAIN text |-> Body(e) \o <<CR, LF>>])
NoEvent == <<Idle, CR, LF, CR, LF>>

\* The lines of event e as the daemon has them when nothing went wrong.
Lines(e) == [l \in DOMAIN text[e] |-> [i \in 1 .. text[e][l] |-> <<e, l, i>>]]
\* The characters before event e, and up to the end of its last line.
Begin(e) == Len(FlattenSeq([d \in 1 .. e - 1 |-> Body(d) \o <<CR, LF>>]))
End(e) == Begin(e) + Len(Body(e))
-----------------------------------------------------------------------------
StreamInit ==
  /\ text \in Texts
  /\ read = 0
  /\ greeting = 2
  /\ block = <<>>
  /\ heard = <<>>
  /\ damaged = {}

\* The analysis of a block: the handlers look for lines they know, and
\* NoEvent is none of them.
Analysed(b) ==
  LET lines == SelectSeq(b, LAMBDA l : l # <<Idle>>) IN
  SelectSeq([e \in DOMAIN text |-> e], LAMBDA e : Lines(e) = lines)

\* A slip the checks must catch: a block analysed and not emptied.
PieceKept(s) ==
  LET line == IF s.line = <<>> THEN <<>> ELSE Front(s.line) IN
  IF line = <<>> THEN [s EXCEPT !.line = <<>>, !.heard = @ \o Analysed(s.block)]
  ELSE [s EXCEPT !.line = <<>>, !.block = Append(@, line)]

\* The end of a piece: its last character goes.
Piece(s) ==
  LET line == IF s.line = <<>> THEN <<>> ELSE Front(s.line) IN
  IF line = <<>> THEN [line |-> <<>>, block |-> <<>>, heard |-> s.heard \o Analysed(s.block)]
  ELSE [s EXCEPT !.line = <<>>, !.block = Append(@, line)]

\* std::getline over the text of one read: what follows the last line feed
\* is a piece if it is not empty.
Feed(chunk) ==
  LET Take(s, c) == IF c = LF THEN Piece(s) ELSE [s EXCEPT !.line = Append(@, c)]
      fed == FoldLeft(Take, [line |-> <<>>, block |-> block, heard |-> heard], chunk)
  IN IF fed.line = <<>> THEN fed ELSE Piece(fed)

Handle(chunk) ==
  LET fed == Feed(chunk) IN
  /\ block' = fed.block
  /\ heard' = fed.heard

\* The login reads the banner and the answer (event 1 here), or what there is of
\* them: the answer may come late, and the first event early.
Login(n) ==
  /\ greeting > 0
  /\ greeting' = greeting - 1
  /\ read' = read + n
  /\ damaged' = damaged \cup {e \in DOMAIN text : Begin(e) < read + n}
  /\ UNCHANGED <<text, block, heard>>

\* A turn of the loop that reads n characters.
Receive(n) ==
  /\ greeting = 0
  /\ Handle(SubSeq(Stream, read + 1, read + n))
  /\ read' = read + n
  /\ damaged' = damaged \cup {e \in DOMAIN text :
       /\ Begin(e) < read + n /\ read + n < End(e) - 1 /\ Stream[read + n] # LF}
  /\ UNCHANGED <<text, greeting>>

\* A turn without a text.
Silence ==
  /\ greeting = 0
  /\ Handle(NoEvent)
  /\ damaged' = damaged \cup {e \in DOMAIN text : Begin(e) < read /\ read < End(e) - 1}
  /\ UNCHANGED <<text, read, greeting>>

StreamNext ==
  \/ \E n \in 0 .. Min({MaxRecv, Len(Stream) - read}) : Login(n)
  \/ \E n \in 1 .. Min({MaxRecv, Len(Stream) - read}) : Receive(n)
  \/ Silence
-----------------------------------------------------------------------------
\* Damage is local: however the stream is cut into reads, an event is handled
\* whole, once and in its place, unless a cut fell inside one of its lines (or
\* between the CR and the LF of any but the last), or a second's silence
\* before its last line was read, or the login took a part of it.  The rest
\* of a damaged event never joins the next one, since whatever a cut leaves
\* of the empty line after an event empties the block.  So a cut costs one
\* event, not the dialer's hearing.
DamageIsLocal ==
  LET Whole(e) == /\ e \notin damaged
                  /\ End(e) < read \/ (End(e) <= read + 1 /\ block = <<>>)
  IN
  /\ heard = SelectSeq([e \in DOMAIN text |-> e], Whole)
  /\ \A i, j \in DOMAIN block : block[i] # <<Idle>> /\ block[i][1][1] = block[j][1][1]
==============================================================================
