SPECIFICATION Spec
CONSTANTS
  Monitors <- WdmaAndQdma
  WdmaCount = 2
  Pointers = {0, 1}
PROPERTY HangIsSeen
PROPERTY WdmaComesFirst
