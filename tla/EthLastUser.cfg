SPECIFICATION Spec
CONSTANTS
  Chips = {}
  MacCount = 2
  FixedLink = {1}
  NetsysV3 = FALSE
  Triggers = {"timeout", "fault"}
  HotPlug = FALSE
  UserOps = FALSE
  OpenMayFail = TRUE
  MaxForce = 1
  MaxDone = 1
  MaxOwed = 1
INVARIANT UpIsServed
