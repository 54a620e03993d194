SPECIFICATION Spec
CONSTANTS
  Scale = 2
  Queues <- OneQueue
  Settings <- OneSettings
  Leads <- OneLead
  ClockMod = 4
  Word = 1000
  RefreshSoon = 1
  RefreshLate = 2
  MaxAgents = 2
  MaxCalls = 1
  MaxCache = 4
INVARIANTS
  WithinMaxLines
