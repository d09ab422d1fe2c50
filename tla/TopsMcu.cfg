SPECIFICATION Spec
CONSTANTS
  Cores = {c1, c2}
  c1 = c1
  c2 = c2
  Clients = {"sync", "ser"}
  FaultKinds = {"mute", "deaf", "wrong", "clock", "firmware"}
  MaxFaults = 1
  Punctual = TRUE
  Overlap = TRUE
  Prompt = FALSE
  MayRemove = FALSE
CHECK_DEADLOCK FALSE
SYMMETRY Symmetry
INVARIANT IInv
INVARIANT StalledInCallback
PROPERTY PowerCutIsQuiet
PROPERTY IsFreeze
