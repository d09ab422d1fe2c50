CONSTANTS
  BlockCount = 10
  MgmtStart = 2
  SpareBlocks = 2
  CreateFlags = {TRUE}
  FactoryBad = {}
  Weak = {}
  Values = {v}
  Calls = {"erase", "detach"}
  MaxCalls = 2
  MaxFaults = 0
  MaxBoots = 3
SPECIFICATION Spec
INVARIANT TornOnlyInMemory
CHECK_DEADLOCK FALSE
