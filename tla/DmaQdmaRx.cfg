SPECIFICATION Spec
CONSTANTS
  Monitors <- QdmaRx
  WdmaCount = 2
  Pointers = {0, 1}
PROPERTY HangIsSeen
