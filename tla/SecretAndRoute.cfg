SPECIFICATION BothSpec
CONSTANTS
  Procs = {p1, p2}
  Keys = {k1, k2}
  MaxCrashes = 2
  N = 2
  Layouts <- TwoLayouts
  Rtts = {39, 44, 48}
  Margin = 5
INVARIANTS
  BothTypeOK
  OneKey
  GameSentRight
  NearBest
