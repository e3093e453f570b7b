SPECIFICATION PartsSpec
CONSTANTS
  Targets = {t1, t2}
  NoTarget = notarget
  Workers = {k1, k2}
  Burst = 2
  MaxInits = 3
  W = 5
  MaxSeq = 15
  Sources = {r, d}
  Trusted = {r}
  Clients = {a, b}
  Nobody = nobody
  Cap = 1
  MaxFlows = 3
INVARIANTS
  PartsTypeOK
  OneWorker
  ArithmeticIsSlidingWindow
  PathToldRight
PROPERTIES
  Probed
  WorkersEnd
