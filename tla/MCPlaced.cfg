SPECIFICATION MCSpec
CONSTANTS
  Scale = 2
  Queues <- TwoQueues
  Settings <- TwoSettings
  Leads <- OneLead
  ClockMod = 4
  Word = 1000
  RefreshSoon = 1
  RefreshLate = 2
  MaxAgents = 2
  MaxCalls = 1
  MaxCache = 3
  Phones = {"shared", "eastern"}
  ZoneOf <- MCZones
  StatesTxt <- MCStatesTxt
  StateOf <- MCStates
  Places <- MCPlaces
  Stamps = FALSE
  Earliest = 9
  Latest = 21
  CallToday = TRUE
  Static <- MCHolidays
  Dynamic = {}
  TmOf <- MCTmOf
  Offset <- MCOffset
  FirstHours = {24, 47, 55, 86}
  LastHours = {24, 50, 55, 87}
  Outcomes = {0, 12}
  Unset = Unset
INVARIANTS
  AutoWithinMaxLines
  CalledInHours
  CalledWheneverAllowed
PROPERTIES
  NoGhosts
  RatioKept
