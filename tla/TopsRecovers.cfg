SPECIFICATION FairSpec
CONSTANTS
  Cores = {c1, c2}
  c1 = c1
  c2 = c2
  Clients = {"sync", "ser"}
  FaultKinds = {"mute", "wrong", "firmware"}
  MaxFaults = 2
  Punctual = TRUE
  Overlap = FALSE
  Prompt = TRUE
  MayRemove = TRUE
CHECK_DEADLOCK FALSE
PROPERTY FailureIsRecovered
PROPERTY LockIsReleased
PROPERTY SuccessMeansAlive
PROPERTY RemovalEnds
