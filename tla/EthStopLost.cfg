SPECIFICATION Spec
CONSTANTS
  Chips = {}
  MacCount = 1
  FixedLink = {1}
  NetsysV3 = FALSE
  Triggers = {"monitor", "switch", "debugfs"}
  HotPlug = FALSE
  UserOps = FALSE
  OpenMayFail = FALSE
  MaxForce = 1
  MaxDone = 1
  MaxOwed = 1
PROPERTY OthersAreStopped
