SPECIFICATION FairSpec
CONSTANTS
  Relays = {r}
  Directs = {}
  Punches = {p}
  None = None
  Mode = "auto"
  StaleRounds = 2
  RetryRounds = 2
  MaxFaults = 0
PROPERTIES
  PunchRecovers
