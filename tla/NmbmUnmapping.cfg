CONSTANTS
  BlockCount = 8
  MgmtStart = 2
  SpareBlocks = 2
  CreateFlags = {TRUE}
  FactoryBad = {}
  Weak = {0, 1, 2, 3, 4, 5, 6, 7}
  Values = {v}
  Calls = {"erase", "write"}
  MaxCalls = 3
  MaxFaults = 2
  MaxBoots = 1
SPECIFICATION Spec
INVARIANT UnmappingStored
CHECK_DEADLOCK FALSE
