CONSTANTS
  BlockCount = 8
  MgmtStart = 2
  SpareBlocks = 2
  CreateFlags = {TRUE}
  FactoryBad = {}
  Weak = {0, 1, 2, 3, 4, 5, 6, 7}
  Values = {v}
  Calls = {"erase", "write", "markbad"}
  MaxCalls = 3
  MaxFaults = 2
  MaxBoots = 1
SPECIFICATION Spec
INVARIANT BadBlocksStored
CHECK_DEADLOCK FALSE
