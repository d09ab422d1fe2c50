CONSTANTS
  BlockCount = 12
  MgmtStart = 2
  SpareBlocks = 2
  CreateFlags = {TRUE}
  FactoryBad = {9}
  Weak = {0, 1, 10}
  Values = {v}
  Calls = {"erase"}
  MaxCalls = 2
  MaxFaults = 3
  MaxBoots = 1
SPECIFICATION Spec
INVARIANT NoSharedBlock
CHECK_DEADLOCK FALSE
