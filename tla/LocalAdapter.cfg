SPECIFICATION Spec
CONSTANTS
  p1 = p1
  p2 = p2
  p3 = p3
  v1 = v1
  v2 = v2
  v3 = v3
  k1 = k1
  k2 = k2
  h1 = h1
  Procs = {p1, p2}
  Views = {v1, v2, v3}
  NamespaceOf <- TwoForOne
  Keys = {k1}
  SlotOf <- OneSlot
  TTLs = {2}
  Owned = TRUE
  Free = Free
  NoRecord = NoRecord
  Second = 2
  MaxSecond = 2
  MaxTime = 3
  MaxSequence = 1
INVARIANTS TypeOK NoUseAfterClose LivesUntilDeadline
PROPERTY CallsReturn
