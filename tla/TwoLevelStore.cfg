SPECIFICATION Spec
CONSTANTS
  a = a
  b = b
  c1 = c1
  c2 = c2
  c3 = c3
  k1 = k1
  k2 = k2
  Instances = {a}
  Clients = {c1, c2, c3}
  Keys = {k1}
  HomeOf <- OneHome
  Calls <- MutatorCalls
  ShardCount = 2
  ShardOf <- SameShard
  PatternKeys = {k1}
  NoKey = NoKey
  NoCall = NoCall
  Subscribed = {}
  L1Patterns = TRUE
  Timers = TRUE
  Lossy = FALSE
  RemoteMayFail = TRUE
  LocalMayFail = FALSE
  MaxMutations = 2
  MaxLateForgets = 1
SYMMETRY Readers
INVARIANTS TypeOK NoResurrection ReadsAfterInvalidation
PROPERTIES DebtsArePaid NewerBackfillStays
