CONSTANTS
  Users = {u1, u2}
  Rebooters = {r1, r2}
  Pages = 2
SPECIFICATION FairSpec
CHECK_DEADLOCK FALSE
PROPERTY PanicGoesThrough
