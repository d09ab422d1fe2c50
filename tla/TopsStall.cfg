SPECIFICATION Spec
CONSTANTS
  Cores = {c1}
  c1 = c1
  Clients = {"sync", "ser"}
  FaultKinds = {"mute", "deaf", "wrong", "clock", "firmware"}
  MaxFaults = 2
  Punctual = FALSE
  Overlap = TRUE
  Prompt = FALSE
  MayRemove = FALSE
CHECK_DEADLOCK FALSE
INVARIANT IInv
INVARIANT FreezeInv
INVARIANT StallInv
