SPECIFICATION MCSpec
CONSTANTS
  r1 = r1
  r2 = r2
  q1 = q1
  q2 = q2
  a1 = a1
  a2 = a2
  Daemon = Daemon
  None = None
  Requests <- MCRequests
  Parameters <- MCParameters
  CampaignForm <- MCCampaignForm
  FilterForm <- MCFilterForm
  Supplied <- MCSupplied
  Required <- MCRequired
  Defaults <- MCDefaults
  DefaultFilters <- MCDefaultFilters
  Foreign <- MCForeign
  Numbers <- MCNumbers
  Budgets <- MCBudgets
  Queues <- MCQueues
  Agents <- MCAgents
  MaxChanges = 2
CHECK_DEADLOCK FALSE
INVARIANTS
  SurvivesEdits
  SyncedMeansLoaded
PROPERTIES
  EntriesAreKept
  Settles
