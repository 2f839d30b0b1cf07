SPECIFICATION MCSpec
CONSTANTS
  Zones <- TwoZones
  MaxGen = 2
  MaxUpdated = 1
  MaxSize = 2
  MaxConfig = 2
  Addresses = "managed"
  RetainManagedEIPs = FALSE
  CreateFirst = FALSE
  MaxFaults = 1
  MaxCrashes = 1
  GatewayCount = 2
  MaxEdits = 2
  MaxGcpFaults = 2
  Agents = {a1, a2, a3}
  AddressAgents = {a1, a2}
  None = none
  Canonical = canonical
  Attempts = 4
  MaxFailures = 2
  MaxUnknowns = 2
  MaxAddressFaults = 2
  MaxOwners = 2
INVARIANTS
  TypeOK LiveGatewayIsWhole StateDescribesPools NoUnknownPool
  GcpTypeOK AgentsKeepTheirStore SharedIsKept
  RoutesTypeOK OneFailureKeepsRoute IdentityTypeOK SuccessIsTrue
PROPERTIES
  CleanupIsComplete DestroyRestoresRoutes OthersEditsAreKept GcpDestroyIsComplete
  FastNeverInterrupts GatewayConverges OwnerGetsAll
\* A gateway nobody wants any more is destroyed, and that is the end.
CHECK_DEADLOCK FALSE
