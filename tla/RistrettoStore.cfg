SPECIFICATION Spec
CONSTANTS
  c1 = c1
  c2 = c2
  k1 = k1
  k2 = k2
  Clients = {c1, c2}
  Keys = {k1, k2}
  PatternKeys = {k1}
  NoKey = NoKey
  NoClient = NoClient
  PruneEvery = 2
  BufferSize = 2
  MaxSets = 2
SYMMETRY Symmetry
INVARIANTS TypeOK PatternDeletes HeldIsTracked
