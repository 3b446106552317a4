CONSTANTS
  Writes = {w1, w2}
  Reads = {r1}
  ConfigOps = {w2, r1}
  Connector = Connector
  Closer = Closer
  Conns = {c1, c2, c3}
  None = None
SPECIFICATION FairSpec
INVARIANTS NeverRepeated OwnIdentity NoStrayConnection
PROPERTIES ImplementsContract EveryCallReturns
CHECK_DEADLOCK FALSE
