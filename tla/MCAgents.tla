------------------------------- MODULE MCAgents -------------------------------
(***************************************************************************)
(* Instances of Agents for TLC.  "sales" hands its sales to the closers of *)
(* "close"; the second snapshot is what the queues look like after an      *)
(* administrator moved an agent and deleted the closing campaign.          *)
(***************************************************************************)
EXTENDS Agents

MCCampaigns == {"sales", "close"}
MCNone == "none"
MCCloser == [c \in MCCampaigns |-> IF c = "sales" THEN "close" ELSE MCNone]
MCUseCloser == {"sales"}

TwoAgents == {1, 2}
MCMemberships ==
  { [c \in MCCampaigns |-> IF c = "sales" THEN {1, 2} ELSE {2}],
    [c \in {"sales"} |-> {1}] }

OneAgent == {1}
MCMemberships1 == { [c \in {"sales"} |-> {1}], [c \in {"sales"} |-> {}] }
===============================================================================
