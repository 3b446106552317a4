CONSTANTS
  None = None
  r1 = r1
  r2 = r2
  Requests = {r1, r2}
  Slots = 1
  MaxPageSize = 2
  PageSize = 2
  Directories <- MCDirectories
  Workloads <- MCWorkloads
SPECIFICATION FairSpec
INVARIANTS AskedUnderSlot Gapless SaysWhenShort
PROPERTY EveryRequestEnds
