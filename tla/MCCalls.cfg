SPECIFICATION MCSpec
CONSTANTS
  Agents = {1, 2}
  Campaigns = {"c1", "c2"}
  Initialized = "initialized"
  Leads = {l7}
  NoLead = l0
  EmptyLead = l
  Dispos = {"7", "12"}
  Sale = "12"
  Closer <- MCCloser
  Channels <- MCChannels
  LastDay = 2
  Writers = {"astcrm", "telephone"}
  MaxLines = 2
  Calendar <- MCCalendar
  Closers = {2}
  Asked <- MCAsked
INVARIANTS
  OrderlyCallsAreKept
  PagesTellTheCalls
PROPERTIES
  LinesStay
