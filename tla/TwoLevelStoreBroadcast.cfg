SPECIFICATION Spec
CONSTANTS
  a = a
  b = b
  c1 = c1
  c2 = c2
  c3 = c3
  k1 = k1
  k2 = k2
  Instances = {a, b}
  Clients = {c1, c3}
  Keys = {k1}
  HomeOf <- TwoHomes
  Calls <- BroadcastCalls
  ShardCount = 1
  ShardOf <- SameShard
  PatternKeys = {k1}
  NoKey = NoKey
  NoCall = NoCall
  Subscribed = {a, b}
  L1Patterns = TRUE
  Timers = FALSE
  Lossy = FALSE
  RemoteMayFail = FALSE
  LocalMayFail = FALSE
  MaxMutations = 2
  MaxLateForgets = 0
INVARIANTS StaleIsOwed ClosedIsQuiet
PROPERTIES Convergence ImplementsCoherentCache
