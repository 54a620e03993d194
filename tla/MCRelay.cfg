SPECIFICATION MCSpec
CONSTANTS
  c1 = c1
  c2 = c2
  s1 = s1
  None = None
  Connections = {c1, c2}
  MaxMessageSize = 4
  Sites <- MCSites
  ReadSizes = {1}
  Meaning <- MCMeaning
  Clients <- MCClients
  MaxRead = 6
  MaxHeaderSize = 60
  MaxBodySize = 4
  KeySize = 2
INVARIANTS
  OneReadOneWrite
  NoFrameForgotten
  CloseIsLast
  HearsWhatIsSent
  AdminIsOpen
  HandshakeIsWhole
PROPERTIES
  KeepsItsPromises
  HandshakesEnd
CHECK_DEADLOCK FALSE
