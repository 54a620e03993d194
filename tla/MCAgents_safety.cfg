SPECIFICATION Spec
CONSTANTS
  Agents <- TwoAgents
  Campaigns <- MCCampaigns
  ClockMod = 5
  WrapUp = 1
  Memberships <- MCMemberships
  Closer <- MCCloser
  UseCloser <- MCUseCloser
  NoCampaign <- MCNone
  MaxJoining = 2
PROPERTIES
  HandOutSpacing
  GoneStayOut
  RefinesHandOut
