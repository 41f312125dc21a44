SPECIFICATION Spec
CONSTANTS
  LocalTTL = 2
  RemoteTTLs = {0, 1, 2, 4}
  MaxDelay = 2
  MaxTime = 9
  MaxVersion = 2
INVARIANTS StalenessBounded OutlivesByDelay
