SPECIFICATION Spec
CONSTANTS
  Ids = {l}
  NoLead = NoLead
  Slots = {x, y}
  DNC = {l}
  CallToday = FALSE
  UseCallback = FALSE
  UseCloser = FALSE
  OnUpdate = TRUE
  FilterAttempts = 2
  AgentDispos <- Agreed
  MaxDials = 2
PROPERTY OneAttemptADay
