------------------------------- MODULE WsLife -------------------------------
(***************************************************************************)
(* What the WebSocket library promises the program that uses it, with      *)
(* nothing of how it keeps it: for every connection either the fail        *)
(* handler is called, once and alone, or the open handler is, then the     *)
(* message handler any number of times, then the close handler, once.      *)
(* The module WsConnection implements it (WsConnectionProofs).             *)
(***************************************************************************)
EXTENDS Naturals

CONSTANT Connections

VARIABLES
  life,      \* the last of the open, close and fail handlers called, per connection
  heard      \* how often its message handler was called

vars == <<life, heard>>

Init ==
  /\ life = [c \in Connections |-> "silent"]
  /\ heard = [c \in Connections |-> 0]

Open(c) ==
  /\ life[c] = "silent"
  /\ life' = [life EXCEPT ![c] = "opened"]
  /\ UNCHANGED heard

Fail(c) ==
  /\ life[c] = "silent"
  /\ life' = [life EXCEPT ![c] = "failed"]
  /\ UNCHANGED heard

Hear(c) ==
  /\ life[c] = "opened"
  /\ heard' = [heard EXCEPT ![c] = @ + 1]
  /\ UNCHANGED life

Close(c) ==
  /\ life[c] = "opened"
  /\ life' = [life EXCEPT ![c] = "closed"]
  /\ UNCHANGED heard

Next == \E c \in Connections : Open(c) \/ Fail(c) \/ Hear(c) \/ Close(c)

Spec == Init /\ [][Next]_vars
=============================================================================
