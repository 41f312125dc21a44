SPECIFICATION Spec
CONSTANTS
  n1 = n1
  n2 = n2
  k1 = k1
  k2 = k2
  k3 = k3
  Nodes = {n1, n2}
  Keys = {k1, k2, k3}
  Matching = {k1, k2}
  Named = {k1, k2}
  Router = Router
  MayFail = TRUE
  MaxStores = 1
  MaxMoves = 1
SYMMETRY Symmetry
INVARIANTS TypeOK SuccessIsComplete CountIsTrue
