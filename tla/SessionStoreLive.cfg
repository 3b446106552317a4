CONSTANTS
  Sess = {s1, s2}
  Refs = {r1}
  Requests = {q1}
  Sweeper = Sweeper
  Closer = Closer
  None = None
  Limit = 2
  IdleTimeout = 1
  MaxLifetime = 2
  MaxTime = 3
SPECIFICATION FairSpec
PROPERTIES ImplementsLedger NoConnectionLeaks ExpiredSessionsClose
CHECK_DEADLOCK FALSE
