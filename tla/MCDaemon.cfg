SPECIFICATION MCSpec
CONSTANTS
  Agents <- OneAgent
  Campaigns <- MCCampaigns
  ClockMod = 7
  WrapUp = 2
  Memberships <- MCMemberships1
  Closer <- MCCloser
  UseCloser <- MCUseCloser
  NoCampaign <- MCNone
  MaxJoining = 1
  Texts <- MCTexts
  MaxRecv = 9
  LastDay = 4
  MaxCounted = 2
  Months <- TwoMonths
  MaxLog = 3
INVARIANTS
  DamageIsLocal
  DayIsExact
  ReportIsExact
  LoggedOnce
PROPERTIES
  EventuallyAvailable
  PhonelessGoOffline
