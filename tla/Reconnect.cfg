SPECIFICATION FairSpec
CONSTANTS
  Relays = {r}
  Directs = {d}
  Punches = {p}
  None = None
  Mode = "auto"
  StaleRounds = 2
  RetryRounds = 2
  MaxFaults = 2
INVARIANTS
  TypeOK
PROPERTIES
  Reconnects
  AllRecover
  FastFailover
