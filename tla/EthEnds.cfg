SPECIFICATION Spec
CONSTANTS
  c1 = c1
  Chips = {c1}
  MacCount = 1
  FixedLink = {1}
  NetsysV3 = FALSE
  Triggers = {"monitor", "switch", "debugfs"}
  HotPlug = FALSE
  UserOps = FALSE
  OpenMayFail = FALSE
  MaxForce = 1
  MaxDone = 1
  MaxOwed = 1
INVARIANT EndAsDocumented
