CONSTANTS
  Clients = {c1, c2}
  ProviderRefs = {r1}
  PortalRefs = {q1}
  Codes = {k1, k2, k3, k4}
  None = None
  MaxCount = 1
  MaxFaults = 1
SPECIFICATION FairSpec
INVARIANTS SalesInv AnswersAgree OneCreation CodesHandedOnce ConnectedIsPaid
PROPERTIES CallsReturn
