CONSTANTS
  BlockCount = 10
  MgmtStart = 3
  SpareBlocks = 1
  CreateFlags = {TRUE, FALSE}
  FactoryBad = {1}
  Weak = {0, 2, 3, 4, 5, 6, 7, 8, 9}
  Values = {v}
  Calls = {"erase", "write", "read", "detach"}
  MaxCalls = 2
  MaxFaults = 1
  MaxBoots = 3
SPECIFICATION Spec
INVARIANT FindInv
INVARIANT CountIdentifies
PROPERTY SignatureKept
CHECK_DEADLOCK FALSE
