------------------------------ MODULE MCRelay ------------------------------
(***************************************************************************)
(* AmiRelay with two clients and one server.  The first client's frames    *)
(* are one of several conversations, the second sends none.  Beside it the *)
(* request of one client, cut in every way into reads of up to six.        *)
(***************************************************************************)
EXTENDS AmiRelay, WsHandshake, TLC

CONSTANTS c1, c2, s1

Key == <<55, 250, 33, 61>>
Frame(fin, op, payload) == [fin |-> fin, op |-> op, key |-> Key, payload |-> payload]

\* Payloads and what they ask.
Action == <<97>>
Command == <<99>>
MCMeaning(payload) ==
  CASE payload = Action -> [what |-> "action", server |-> s1]
    [] payload = Command -> [what |-> "command", server |-> s1]
    [] payload = <<109>> -> [what |-> "mistyped", server |-> s1]
    [] OTHER -> [what |-> "garbage", server |-> s1]

Goodbye == Frame(TRUE, 8, <<3, 232>>)

\* Fragments of a text, cut inside a character, with a ping between them.
Fragments ==
  << Frame(FALSE, 1, <<226, 130>>), Frame(TRUE, 9, <<>>), Frame(TRUE, 0, <<172>>), Goodbye >>
\* A text in two frames that ends inside a character.
Torn == << Frame(FALSE, 1, <<226, 130>>), Frame(TRUE, 0, <<>>), Goodbye >>
\* Two refused close frames.
Goodbyes == << Frame(TRUE, 8, <<3>>), Frame(TRUE, 8, <<0, 1>>) >>
\* A data frame where a continuation is due.
Broken == << Frame(FALSE, 2, <<1>>), Frame(TRUE, 1, Action) >>
\* A message that grows past the limit.
Long == << Frame(FALSE, 1, <<97, 97, 97>>), Frame(TRUE, 0, <<97, 97>>) >>
\* A message whose JSON is mistyped, and one that is not text.
Odd == << Frame(TRUE, 1, <<109>>), Frame(TRUE, 1, <<226>>) >>
\* A command, and an action behind it.
Orders == << Frame(TRUE, 1, Command), Frame(TRUE, 1, Action) >>

Site(first, servers) == [script |-> (c1 :> first @@ c2 :> <<>>), servers |-> servers]
MCSites ==
  << Site(Fragments, <<>>), Site(Goodbyes, <<>>), Site(Broken, <<>>), Site(Long, <<>>),
     Site(Odd, <<>>), Site(Orders, <<s1>>), Site(Torn, <<>>) >>
-----------------------------------------------------------------------------
Line(what, says, length) == [what |-> what, says |-> says, length |-> length]
Get == Line("request", "get", 1)
Post == Line("request", "other", 1)
Host(says) == Line("Host", says, 1)
Upgrades == <<Line("Upgrade", "token", 1), Line("Connection", "token", 1)>>
Draft13 == <<Line("Version", "13", 1), Line("Key", "k", 1)>>
Draft0 == <<Line("Key1", "k", 1), Line("Key2", "k", 1)>>
Plain == <<Get, Host("name")>>
BodyOf(length) == <<Line("Content-Length", length, 1)>>

\* A good request with frames behind it, and requests that are wrong in one
\* line: the first, a header's, the one that ends the head.  Then draft 0, a
\* body that fits and one that does not, and a head at the limit.
MCClients ==
  { [lines |-> Plain \o Upgrades \o Draft13 \o more, tail |-> 4] :
      more \in {<<>>, <<Line("Extensions", "malformed", 1)>>, BodyOf("2"), BodyOf("9"),
                <<Line("other", "x", 30)>>} }
  \cup { [lines |-> lines, tail |-> 2] :
      lines \in { <<>>, <<Get>>, Plain, <<Host("name"), Get>>,
                  <<Post, Host("name")>> \o Upgrades \o Draft13,
                  <<Get, Host(""), Host("badport"), Host("port")>> \o Upgrades \o Draft13,
                  <<Get, Host("badport"), Host("name")>> \o Upgrades \o Draft13,
                  Plain \o <<Line("garbage", "", 2)>> \o Upgrades,
                  Plain \o Upgrades \o <<Line("Version", "13", 1)>>,
                  Plain \o Upgrades \o <<Line("Version", "9", 1), Line("Key", "k", 1)>>,
                  Plain \o Upgrades \o <<Line("Version", "text", 1), Line("Key", "k", 1)>> } }
  \cup { [lines |-> Plain \o Upgrades \o Draft0, tail |-> 3] }

\* AmiRelay takes any request at any time: a behaviour is of the one or of the
\* other.
VARIABLE part

MCvars == <<relayvars, handshakevars, part>>
MCInit ==
  /\ RelayInit /\ HandshakeInit /\ part \in {"relay", "handshake"}
  /\ part = "relay" => client.lines = <<>>
  /\ part = "handshake" => site = 1
MCNext ==
  /\ \/ part = "relay" /\ RelayNext /\ UNCHANGED handshakevars
     \/ part = "handshake" /\ HandshakeNext /\ UNCHANGED relayvars
  /\ UNCHANGED part
MCSpec == MCInit /\ [][MCNext]_MCvars /\ Fairness
=============================================================================
