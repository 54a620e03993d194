SPECIFICATION MCSpec
CONSTANTS
  Scale = 2
  Queues <- OneQueue
  Settings <- CallbackSettings
  Leads <- TwoLeads
  ClockMod = 5
  Word = 1000
  RefreshSoon = 1
  RefreshLate = 2
  MaxAgents = 1
  MaxCalls = 0
  MaxCache = 3
  Files <- MCFiles
  MaxPlaced = 5
INVARIANTS
  SharesKept
  AskedOnce
PROPERTIES
  CallsPlaced
