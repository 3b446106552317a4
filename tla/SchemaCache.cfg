CONSTANTS
  Goroutines = {c1, c2, c3}
  Nil = Nil
  Failed = Failed
  MaxGens = 2
  MaxOthers = 1
  MaxFaults = 1
SPECIFICATION FairCacheSpec
PROPERTIES CacheFresh EveryReaderAnswered
CHECK_DEADLOCK FALSE
