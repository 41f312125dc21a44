SPECIFICATION Spec
CONSTANTS
  c1 = c1
  c2 = c2
  k1 = k1
  k2 = k2
  Clients = {c1, c2}
  Cleaner = Cleaner
  Keys = {k1}
  PatternKeys = {}
  NoKey = NoKey
  NoItem = NoItem
  DefaultExpiration = 1
  Expires <- SomeExpires
  MaxTime = 3
  MaxItems = 3
INVARIANTS TypeOK HitsAreFresh
PROPERTIES NoLostWrite CleanerEnds
