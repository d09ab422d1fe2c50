CONSTANTS
  BlockCount = 7
  MgmtStart = 1
  SpareBlocks = 1
  CreateFlags = {TRUE}
  FactoryBad = {}
  Weak = {0, 1, 2, 3, 4, 5, 6}
  Values = {v}
  Calls = {"erase", "write", "markbad"}
  MaxCalls = 1
  MaxFaults = 14
  MaxBoots = 1
SPECIFICATION FairSpec
PROPERTY EveryCallReturns
CHECK_DEADLOCK FALSE
