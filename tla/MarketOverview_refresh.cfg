SPECIFICATION Spec
CONSTANTS
  k1 = k1
  k2 = k2
  k3 = k3
  Keys = {k1, k2, k3}
  Threads = {h1, w1}
  Workers = {w1}
  Sparse <- MCSparse
  Requested = {k1, k2}
  Sectors <- MCSectors
  None = None
  Capacity = 2
  TTL = 2
  MaxTime = 2
INVARIANT RefreshIsFresh
