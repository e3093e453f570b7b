SPECIFICATION Spec
CONSTANTS
  Nats = {n1}
  Ext = ext
  Unknown = unknown
  Clients = {c1}
  IDs = {1}
  MaxMoves = 0
INVARIANTS
  UPnPReachesSessions
