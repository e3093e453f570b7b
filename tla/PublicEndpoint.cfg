SPECIFICATION FairSpec
CONSTANTS
  Nats = {n1, n2}
  Ext = ext
  Unknown = unknown
  Clients = {c1}
  IDs = {1, 2}
  MaxMoves = 1
INVARIANTS
  TypeOK
  MappingReleased
  DiscoveryReachesSessions
PROPERTIES
  UPnPWins
  FollowsNat
