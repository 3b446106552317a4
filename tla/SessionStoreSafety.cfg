CONSTANTS
  Sess = {s1, s2}
  Refs = {r1, r2}
  Requests = {q1, q2}
  Sweeper = Sweeper
  Closer = Closer
  None = None
  Limit = 3
  IdleTimeout = 0
  MaxLifetime = 1
  MaxTime = 1
SPECIFICATION Spec
SYMMETRY Interchangeable
INVARIANTS LimitHeld OneOwner MarkedStaysExpired
CHECK_DEADLOCK FALSE
