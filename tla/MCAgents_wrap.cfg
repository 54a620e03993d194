SPECIFICATION FairSpec
CONSTANTS
  Agents <- OneAgent
  Campaigns <- MCCampaigns
  ClockMod = 7
  WrapUp = 2
  Memberships <- MCMemberships1
  Closer <- MCCloser
  UseCloser <- MCUseCloser
  NoCampaign <- MCNone
  MaxJoining = 1
PROPERTIES
  WrapUpEnds
