SPECIFICATION PartsSpec
CONSTANTS
  InitMode = "relay-only"
  Endpoints = {e1}
  NoEndpoint = noendpoint
  MaxPunches = 1
  MaxListed = 2
  MaxSwitches = 2
  Configured = {c}
  Advertised = {e}
  Sockets = {p}
  Nothing = nothing
INVARIANTS
  PartsTypeOK
  RelayOnlyClean
  RouteListed
  ForbiddenRouteIsFixed
  StopLeavesNothing
PROPERTIES
  StopReturns
