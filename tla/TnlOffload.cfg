SPECIFICATION FairSpec
CONSTANTS
  Slots = {s1, s2}
  Tunnels = {t1, t2}
  Addresses = {t1, t2}
  Macs = {m1}
  Local <- OwnAddress
  Nobody = nobody
  MaxFaults = 1
  Circumstances <- OneByOne
CHECK_DEADLOCK FALSE
INVARIANT QueuedIsListed
INVARIANT ThreadIsSafe
INVARIANT TableIsCurrent
INVARIANT PacketsAreSteered
PROPERTY SubmittedIsSynced
