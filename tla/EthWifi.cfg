SPECIFICATION Spec
CONSTANTS
  c2 = c2
  c1 = c1
  Chips = {c1, c2}
  MacCount = 1
  FixedLink = {1}
  NetsysV3 = TRUE
  Triggers = {"monitor", "switch", "debugfs"}
  HotPlug = TRUE
  UserOps = FALSE
  OpenMayFail = TRUE
  MaxForce = 1
  MaxDone = 2
  MaxOwed = 2
INVARIANT IInv
INVARIANT ChipsAreQuiet
PROPERTY WdmaIsReset
PROPERTY IsRound
