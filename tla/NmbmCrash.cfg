CONSTANTS
  BlockCount = 12
  MgmtStart = 2
  SpareBlocks = 2
  CreateFlags = {TRUE}
  FactoryBad = {}
  Weak = {0, 2, 3, 4, 5, 6, 7, 8, 9, 10, 11}
  Values = {v}
  Calls = {"erase", "write"}
  MaxCalls = 2
  MaxFaults = 2
  MaxBoots = 3
SPECIFICATION Spec
PROPERTY IsLogicDisk
PROPERTY KeepsFormat
PROPERTY TablesSpareData
CHECK_DEADLOCK FALSE
