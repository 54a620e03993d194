----------------------------- MODULE MCSettings -----------------------------
(***************************************************************************)
(* Model-checking instance of Settings and of ConfigSync beside it: the    *)
(* two share the database, but no row.  Four parameters: "active" and      *)
(* "maxlines" are required, "maxlines" and "prn" are on the page Edit      *)
(* Campaign, "skip" on Edit Filters; a campaign the API makes lacks "prn"  *)
(* and has no "skip" before the last of its defaults.  The budgets let     *)
(* pages, edits, and campaigns of the API meet in pairs.                   *)
(***************************************************************************)
EXTENDS Settings, ConfigSync

CONSTANTS r1, r2, q1, q2, a1, a2

MCRequests == {r1, r2}
MCParameters == {"active", "maxlines", "prn", "skip"}
MCCampaignForm == {"maxlines", "prn"}
MCFilterForm == {"skip"}
MCSupplied == {"skip"}
MCRequired == {"active", "maxlines"}
MCDefaults == << [parameter |-> "active", value |-> "true"],
                 [parameter |-> "maxlines", value |-> "false"] >>
MCDefaultFilters == << [number |-> 0, on |-> TRUE] >>
MCForeign == [row |-> [p \in MCParameters |-> "true"], list |-> <<>>]
MCNumbers == {0, 1}

Budget(pages, edits, campaigns, starts) ==
  [pages |-> pages, edits |-> edits, campaigns |-> campaigns, starts |-> starts]

MCBudgets ==
  {Budget(2, 0, 0, 0), Budget(1, 1, 0, 0), Budget(1, 0, 0, 1), Budget(0, 1, 0, 2),
   Budget(0, 0, 1, 2), Budget(1, 0, 1, 0)}

MCQueues == {q1, q2}
MCAgents == {a1, a2}

\* The settings' programs and the agents' synchronisation share no row: a
\* behaviour is of the one or of the other.
VARIABLE part

MCvars == <<vars, syncvars, part>>
MCInit ==
  /\ Init /\ SyncInit /\ part \in {"settings", "members"}
  /\ \A p \in Parameters \ {"active"} : row[p] # "true"
  /\ \A q \in Queues : part = "settings" => members[q] = {}
  /\ part = "members" => campaign = 0 /\ left = Budget(2, 0, 0, 0)
MCNext ==
  /\ \/ part = "settings" /\ Next /\ UNCHANGED syncvars
     \/ part = "members" /\ SyncNext /\ UNCHANGED vars
  /\ UNCHANGED part
MCSpec == MCInit /\ [][MCNext]_MCvars /\ Fairness
=============================================================================
