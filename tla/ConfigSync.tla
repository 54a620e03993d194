----------------------------- MODULE ConfigSync -----------------------------
(***************************************************************************)
(* The configuration agent (gnudialer_agent.py): run by hand or by a timer, *)
(* it copies agents and queue members of its server from the database into *)
(* Asterisk's files when the server's row says synced = 0, sets synced to  *)
(* 1, and has Asterisk reload the files.  The members are changed through  *)
(* the API (QueueController, updateAgents) at any time, each statement is  *)
(* a transaction of its own, and the agent may end between any two.        *)
(***************************************************************************)
EXTENDS Naturals

CONSTANTS
  Queues,      \* queues of the server with status > 0
  Agents,      \* agents of the server
  MaxChanges   \* bound: changes of members

ASSUME ConfigSyncAssumption == MaxChanges \in Nat

VARIABLES
  members,  \* agent_queue: the agents of each queue
  synced,   \* servers.synced is not 0
  file,     \* gnudialer_agents.conf and gnudialer_queues.conf
  loaded,   \* the same as Asterisk has loaded them
  sync,     \* a run of the agent: where it is, what it holds, queues to write
  changes,  \* members have been changed so often
  behind,   \* history: a change since a run began to read
  unloaded  \* history: a run ended, or Asterisk was out of reach, after synced was set

syncvars == <<members, synced, file, loaded, sync, changes, behind, unloaded>>

Text == [agents : SUBSET Agents, queues : [Queues -> SUBSET Agents]]
Nothing == [agents |-> {}, queues |-> [q \in Queues |-> {}]]
Resting == [at |-> "idle", agents |-> {}, todo |-> {}]

\* What the files should say: the agents of any queue, the members of each.
Config == [agents |-> UNION {members[q] : q \in Queues}, queues |-> members]

SyncInit ==
  /\ members \in [Queues -> SUBSET Agents]
  /\ synced = FALSE
  /\ file = Nothing /\ loaded = Nothing
  /\ sync = Resting
  /\ changes = 0
  /\ behind = FALSE /\ unloaded = FALSE
-----------------------------------------------------------------------------
(***************************************************************************)
(* The database                                                            *)
(***************************************************************************)

\* attach, detach.  It does not touch servers.synced.
UpdateAgents ==
  /\ changes < MaxChanges
  /\ changes' = changes + 1
  /\ \E q \in Queues, some \in (SUBSET Agents) \ {{}} :
       \/ members' = [members EXCEPT ![q] = @ \cup some]
       \/ members' = [members EXCEPT ![q] = @ \ some]
  /\ behind' = TRUE
  /\ UNCHANGED <<synced, file, loaded, sync, unloaded>>

\* The operator asks for a run.
AskForSync ==
  /\ synced' = FALSE
  /\ UNCHANGED <<members, file, loaded, sync, changes, behind, unloaded>>
-----------------------------------------------------------------------------
(***************************************************************************)
(* A run                                                                   *)
(***************************************************************************)

At(stage) == sync' = [sync EXCEPT !.at = stage]

\* A slip the checks must catch: synced is set where it is read.
CheckUnsyncedAndMark ==
  /\ sync.at = "idle" /\ ~synced
  /\ sync' = [Resting EXCEPT !.at = "agents"]
  /\ synced' = TRUE /\ behind' = FALSE /\ unloaded' = FALSE
  /\ UNCHANGED <<members, file, loaded, changes>>

\* check_unsynced: without synced = 0 the run ends at once.
CheckUnsynced ==
  /\ sync.at = "idle" /\ ~synced
  /\ sync' = [Resting EXCEPT !.at = "agents"]
  /\ behind' = FALSE /\ unloaded' = FALSE
  /\ UNCHANGED <<members, synced, file, loaded, changes>>

FetchAgents ==
  /\ sync.at = "agents"
  /\ sync' = [sync EXCEPT !.at = "write agents", !.agents = Config.agents]
  /\ UNCHANGED <<members, synced, file, loaded, changes, behind, unloaded>>

\* Opening a file for writing empties it; a run that ends while it writes
\* leaves a part.
WriteAgents ==
  /\ sync.at = "write agents"
  /\ \/ file' = [file EXCEPT !.agents = sync.agents] /\ At("queues")
     \/ \E part \in SUBSET sync.agents :
          file' = [file EXCEPT !.agents = part] /\ sync' = Resting
  /\ UNCHANGED <<members, synced, loaded, changes, behind, unloaded>>

FetchQueues ==
  /\ sync.at = "queues"
  /\ sync' = [sync EXCEPT !.at = "write queues", !.todo = Queues]
  /\ file' = [file EXCEPT !.queues = Nothing.queues]
  /\ UNCHANGED <<members, synced, loaded, changes, behind, unloaded>>

\* The members of each queue are fetched as its section is written.
WriteQueue ==
  /\ sync.at = "write queues"
  /\ \E q \in sync.todo :
       /\ file' = [file EXCEPT !.queues[q] = members[q]]
       /\ sync' = [sync EXCEPT !.todo = @ \ {q},
                     !.at = IF sync.todo = {q} THEN "mark" ELSE @]
  /\ UNCHANGED <<members, synced, loaded, changes, behind, unloaded>>

\* update_queues_synced_status
MarkSynced ==
  /\ sync.at = "mark"
  /\ synced' = TRUE
  /\ At("reload")
  /\ UNCHANGED <<members, file, loaded, changes, behind, unloaded>>

\* ami_core_reload: every exception is printed and forgotten.
Reload ==
  /\ sync.at = "reload"
  /\ \/ loaded' = file /\ UNCHANGED unloaded
     \/ unloaded' = TRUE /\ UNCHANGED loaded
  /\ sync' = Resting
  /\ UNCHANGED <<members, synced, file, changes, behind>>

\* The run ends between two steps.
SyncDies ==
  /\ sync.at # "idle"
  /\ sync' = Resting
  /\ unloaded' = (unloaded \/ sync.at = "reload")
  /\ UNCHANGED <<members, synced, file, loaded, changes, behind>>

SyncNext ==
  \/ UpdateAgents \/ AskForSync
  \/ CheckUnsynced \/ FetchAgents \/ WriteAgents \/ FetchQueues \/ WriteQueue
  \/ MarkSynced \/ Reload \/ SyncDies

SyncSpec == SyncInit /\ [][SyncNext]_syncvars
-----------------------------------------------------------------------------
(***************************************************************************)
(* Properties                                                              *)
(***************************************************************************)

\* The variables have their types.
SyncTypeOK ==
  /\ members \in [Queues -> SUBSET Agents]
  /\ synced \in BOOLEAN /\ behind \in BOOLEAN /\ unloaded \in BOOLEAN
  /\ file \in Text /\ loaded \in Text
  /\ sync \in [at : {"idle", "agents", "write agents", "queues", "write queues",
                     "mark", "reload"},
               agents : SUBSET Agents, todo : SUBSET Queues]
  /\ changes \in Nat

\* A server marked synced runs with the agents and members of the database,
\* whatever runs ended early before: unless they were changed after the last
\* run began to read, or that run could not have Asterisk reload.
SyncedMeansLoaded ==
  synced /\ sync.at = "idle" /\ ~behind /\ ~unloaded => loaded = Config
=============================================================================
