SPECIFICATION FairSpec
CONSTANTS
  Addrs = {home, other}
  Home = home
  NoAddr = noaddr
  MaxSockets = 2
INVARIANTS
  TypeOK
  OneUpstream
  UpstreamIsRead
PROPERTIES
  RepliesFollowGame
  StopReturns
