------------------------------- MODULE HandOut -------------------------------
(***************************************************************************)
(* What the dialer promises its agents, with nothing of how it keeps it:   *)
(* some agents are ready, a customer is handed only to a ready agent, and  *)
(* two customers handed to the same agent are more than WrapUp seconds     *)
(* apart.  The module Agents implements it (AgentsProofs proves so).       *)
(***************************************************************************)
EXTENDS Naturals

CONSTANTS
  Agents,    \* the agent numbers
  WrapUp     \* seconds of rest an agent is owed after a hand-out

VARIABLES
  ready,     \* the agents who could be handed a customer once rested
  rest,      \* seconds since the agent's last hand-out, counted to WrapUp + 1
  joining    \* customers on their way to each agent

vars == <<ready, rest, joining>>

Rested == WrapUp + 1

Init ==
  /\ ready \in SUBSET Agents
  /\ rest = [a \in Agents |-> Rested]
  /\ joining = [a \in Agents |-> 0]

\* A second passes; the count of rest stops once the agent is rested.
Second ==
  /\ rest' = [a \in Agents |-> IF rest[a] < Rested THEN rest[a] + 1 ELSE Rested]
  /\ UNCHANGED <<ready, joining>>

\* A rested, ready agent is handed a customer.
Give(a) ==
  /\ a \in ready
  /\ rest[a] = Rested
  /\ rest' = [rest EXCEPT ![a] = 0]
  /\ joining' = [joining EXCEPT ![a] = @ + 1]
  /\ ready' \in SUBSET Agents

\* A customer reaches the agent, or is lost on the way.
Arrive(a) ==
  /\ joining[a] > 0
  /\ joining' = [joining EXCEPT ![a] = @ - 1]
  /\ UNCHANGED <<ready, rest>>

\* Agents come and go, pause and resume; the dialer itself may restart.
Shift ==
  /\ ready' \in SUBSET Agents
  /\ UNCHANGED <<rest, joining>>

Next ==
  \/ Second
  \/ Shift
  \/ \E a \in Agents : Give(a) \/ Arrive(a)

Spec == Init /\ [][Next]_vars
===============================================================================
