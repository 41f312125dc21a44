SPECIFICATION Spec
CONSTANTS
  r1 = r1
  r2 = r2
  r3 = r3
  main = main
  tenant = tenant
  value = value
  k = k
  Requests = {r1, r2, r3}
  Stores = {main, tenant, value}
  Keys = {k}
  Identified = {main, tenant}
  Deployments <- SomeDeployments
  NoResponse = NoResponse
  Legacy = Legacy
  Outdated = {main}
  Failed = Failed
  Own = Own
  StoreMayFail = TRUE
SYMMETRY Symmetry
INVARIANTS TypeOK AnsweredOnce SharedSafely NoSharedWriter OneLeader
PROPERTY NewerEntryStays
