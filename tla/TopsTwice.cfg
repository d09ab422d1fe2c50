SPECIFICATION FairSpec
CONSTANTS
  Cores = {c1, c2}
  c1 = c1
  c2 = c2
  Clients = {"sync", "ser"}
  FaultKinds = {"mute"}
  MaxFaults = 1
  Punctual = TRUE
  Overlap = TRUE
  Prompt = TRUE
  MayRemove = FALSE
CHECK_DEADLOCK FALSE
PROPERTY LockIsReleased
