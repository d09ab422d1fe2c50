SPECIFICATION Spec
CONSTANTS
  Slots = {s1, s2}
  Tunnels = {t1, t2}
  Addresses = {t1, t2}
  Macs = {m1}
  Local <- OneAddress
  Nobody = nobody
  MaxFaults = 1
  Circumstances <- MacChanges
CHECK_DEADLOCK FALSE
INVARIANT ThreadIsSafe
