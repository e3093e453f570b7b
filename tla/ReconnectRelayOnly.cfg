SPECIFICATION FairSpec
CONSTANTS
  Relays = {r}
  Directs = {}
  Punches = {}
  None = None
  Mode = "relay-only"
  StaleRounds = 2
  RetryRounds = 2
  MaxFaults = 1
PROPERTIES
  Reconnects
