SPECIFICATION FairSpec
CONSTANTS
  Addrs = {home}
  Home = home
  NoAddr = noaddr
  MaxSockets = 2
PROPERTIES
  PurgedHoldsNoSocket
