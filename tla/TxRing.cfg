SPECIFICATION FairSpec
CONSTANTS
  Devs = {d1, d2}
  d1 = d1
  d2 = d2
  Size = 5
  Thresh = 1
  MaxNeed = 2
  Budget = 1
  MaxMore = 1
INVARIANT IInv
INVARIANT BqlBalanced
PROPERTY IsTxQueue
PROPERTY StoppedIsWoken
