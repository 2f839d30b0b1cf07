SPECIFICATION FairSpec
CONSTANTS
  Agents = {a1, a2}
  NoAgent = none
  RouteTables <- TwoRoutes
  SharedEIP = TRUE
  Clouds = {"aws", "gcp"}
  EventualReads = FALSE
  MaxTries = 2
  MaxGen = 6
  MaxFaults <- OnceOnAws
  MaxStalls <- OnceOnGcp
  MaxCrashes <- OnceOnAws
  MaxHandovers = 1
INVARIANTS OneMutatorPerProcess FenceBoundsLosses
PROPERTIES LeaseFollowsTraffic ActiveHasTraffic Converges
