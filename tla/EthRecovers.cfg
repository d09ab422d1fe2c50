SPECIFICATION FairSpec
CONSTANTS
  Chips = {c1}
  c1 = c1
  MacCount = 2
  FixedLink = {1}
  NetsysV3 = FALSE
  Triggers = {"monitor", "switch", "timeout", "link", "fault"}
  HotPlug = FALSE
  UserOps = TRUE
  OpenMayFail = FALSE
  MaxForce = 1
  MaxDone = 1
  MaxOwed = 1
INVARIANT UpIsServed
PROPERTY HangIsRecovered
PROPERTY IsFairRound
