SPECIFICATION FairSpec
CONSTANTS
  Cores = {c1, c2}
  c1 = c1
  c2 = c2
  Clients = {"ser"}
  FaultKinds = {}
  MaxFaults = 0
  Punctual = TRUE
  Overlap = TRUE
  Prompt = TRUE
  MayRemove = TRUE
CHECK_DEADLOCK FALSE
PROPERTY RemovalEnds
