----------------------------- MODULE MCOrigination ----------------------------
(***************************************************************************)
(* The liveness instance of Dialing, and beside it what becomes of the     *)
(* calls CallAll places.  Files: the one of the example (its commented     *)
(* host is the first one's ARI line), weights of 2 and 1 among comments,   *)
(* three equal hosts, and two files the daemon does not start with; calls  *)
(* for nearly two rounds.                                                  *)
(***************************************************************************)
EXTENDS MCDialing, Origination

Host(weight) == [comment |-> FALSE, fields |-> 5, weight |-> weight]
Ari == [comment |-> FALSE, fields |-> 4, weight |-> 0]
Remark == [comment |-> TRUE, fields |-> 5, weight |-> 4]

MCFiles ==
  { <<Host(1), Remark>>, <<Remark, Host(2), Ari, Remark, Host(1), Ari>>,
    <<Host(1), Ari, Host(1), Ari, Host(1), Ari>>, <<Remark, Ari>>, <<Host(1), Remark, Host(2)>> }

\* A behaviour is of the passes or of the hosts.
VARIABLE part

MCvars == <<vars, hostvars, part>>
MCInit ==
  /\ Init /\ HostsInit /\ part \in {"passes", "hosts"}
  /\ part = "passes" => Len(hosts) = 1
  /\ part = "hosts" => now = 0
MCNext ==
  /\ \/ part = "passes" /\ Next /\ UNCHANGED hostvars
     \/ part = "hosts" /\ HostsNext /\ UNCHANGED vars
  /\ UNCHANGED part
MCFairness ==
  /\ WF_vars(EndEvents) /\ WF_vars(Begin) /\ WF_vars(CallAll)
  /\ \A c \in Campaigns : WF_vars(DialCampaign(c))
MCSpec == MCInit /\ [][MCNext]_MCvars /\ MCFairness
===============================================================================
