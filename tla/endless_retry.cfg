CONSTANTS
  Clients = {c1}
  ProviderRefs = {r1}
  PortalRefs = {q1}
  Codes = {k1, k2, k3}
  None = None
  MaxCount = 1
  MaxFaults = 1
SPECIFICATION FairSpec
PROPERTIES CancelledReturns
CHECK_DEADLOCK FALSE

