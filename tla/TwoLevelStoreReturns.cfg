SPECIFICATION Spec
CONSTANTS
  a = a
  b = b
  c1 = c1
  c2 = c2
  c3 = c3
  k1 = k1
  k2 = k2
  Instances = {a}
  Clients = {c1, c2, c3}
  Keys = {k1}
  HomeOf <- OneHome
  Calls <- ForgetCalls
  ShardCount = 1
  ShardOf <- SameShard
  PatternKeys = {}
  NoKey = NoKey
  NoCall = NoCall
  Subscribed = {}
  L1Patterns = TRUE
  Timers = TRUE
  Lossy = FALSE
  RemoteMayFail = FALSE
  LocalMayFail = TRUE
  MaxMutations = 1
  MaxLateForgets = 1
PROPERTIES GetReturns
