-------------------------------- MODULE MCCalls --------------------------------
(***************************************************************************)
(* CallLog and the pages over its files, CallStats, on small instances: an *)
(* agent alone with two campaigns, one the closers' of the other, and with *)
(* a program that writes beside the daemon; and an agent and a closer to   *)
(* whom she hands sales over, in one campaign.                             *)
(***************************************************************************)
EXTENDS CallStats, TLC

VARIABLE part

MCCloser == "c1" :> "c2" @@ "c2" :> Initialized

Channel(kind, name) == [kind |-> kind, name |-> name]
MCChannels ==
  {Channel("none", <<>>), Channel("idle", <<>>)}
    \cup {Channel(kind, <<"c1", l>>) : kind \in {"talking", "both"}, l \in Leads}

\* Days on both sides of New Year's.
MCCalendar ==
  [n \in 0 .. LastDay + 1 |->
     IF n = 0 THEN [year |-> 2024, month |-> 12, day |-> 31]
     ELSE [year |-> 2025, month |-> 1, day |-> n]]
MCAsked == {<<0, 1>>, <<2, 3>>}

\* The agent alone; all dispositions are sales.
Alone ==
  /\ \A a \in Agents \ {1} : agent[a] = ParseAgent /\ \A c \in Names : file[<<a, c>>] = <<>>
  /\ \A w \in Writers : writer[w] # <<>> => writer[w][3] = Sale
  /\ \A k \in Files : \A n \in DOMAIN file[k] : file[k][n].dispo \in Seq({Sale})

\* The two of one campaign on one day, and no program.
Together ==
  /\ today = 1
  /\ \A a \in Agents : agent[a].campaign # "c2"
  /\ \A w \in Writers : writer[w] = <<>>

MCInit == LogInit /\ part \in {"alone", "together"}
MCNext ==
  /\ UNCHANGED part
  /\ LogNext
  /\ part = "alone" => Alone'
  /\ part = "together" => Together'

MCSpec == MCInit /\ [][MCNext]_<<logvars, part>>
===============================================================================
