SPECIFICATION Spec
CONSTANTS
  Slots = {s1, s2}
  Tunnels = {t1, t2}
  Addresses = {t1, t2}
  Macs = {m1, m2}
  Local <- OwnAddress
  Nobody = nobody
  MaxFaults = 1
  Circumstances <- MacChanges
CHECK_DEADLOCK FALSE
INVARIANT QueuedIsListed
INVARIANT ThreadIsSafe
INVARIANT TableIsCurrent
INVARIANT PacketsAreSteered
INVARIANT SafeInv
INVARIANT TableInv
INVARIANT SteerInv
