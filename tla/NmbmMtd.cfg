CONSTANTS
  Users = {u1, u2}
  Rebooters = {r1, r2}
  Pages = 2
SPECIFICATION FairSpec
INVARIANT OneAtATime
PROPERTY SuspendIsFinal
PROPERTY SomebodyGetsIt
CHECK_DEADLOCK FALSE
