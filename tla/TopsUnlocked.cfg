SPECIFICATION Spec
CONSTANTS
  Cores = {c1, c2}
  c1 = c1
  c2 = c2
  Clients = {"sync", "ser"}
  FaultKinds = {}
  MaxFaults = 0
  Punctual = TRUE
  Overlap = TRUE
  Prompt = FALSE
  MayRemove = FALSE
CHECK_DEADLOCK FALSE
PROPERTY ActsUnderLock
