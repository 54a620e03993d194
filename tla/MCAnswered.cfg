SPECIFICATION MCSpec
CONSTANTS
  Ids = {l}
  NoLead = NoLead
  Slots = {x, y}
  DNC = {}
  CallToday = FALSE
  UseCallback = TRUE
  UseCloser = TRUE
  OnUpdate = TRUE
  FilterAttempts = 2
  AgentDispos <- Agreed
  MaxDials = 3
  Campaigns = {a, b}
  Queues = {a}
  Customers <- PageCustomers
  None = None
  MaxCalls = 2
  sildur = 1
  mindur = 1
  maxdur = 3
  waitdur = 7
  Second = 2
  duration = 4
  iterations = 2
  machinetime = 3
  OptionSets <- SomeOptions
  MaxHeard = 6
  MaxGap = 1
  short = short
  long = long
  Admins = {u1, u2}
  Names = {short, long}
  Within <- MCWithin
  AgentNumbers = {1, 2}
  FirstAgent = 1
  FirstCloser = 3
  MaxOrders = 2
  Browsers = {u1}
  NoName = NoName
  Managed = {short, long}
SYMMETRY MCSymmetry
INVARIANTS AttemptsExact HeardRight AsteriskHasTheFile ActsOnChosen
PROPERTIES OncePerDay CallbackKept SavesItsLead EditsAreExact
