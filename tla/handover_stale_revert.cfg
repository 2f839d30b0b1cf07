SPECIFICATION Spec
CONSTANTS
  Agents = {a1, a2}
  NoAgent = none
  RouteTables <- OneRoute
  SharedEIP = TRUE
  Clouds = {"aws"}
  EventualReads = FALSE
  MaxTries = 2
  MaxGen = 6
  MaxFaults <- Never
  MaxStalls <- Once
  MaxCrashes <- Never
  MaxHandovers = 1
PROPERTY RevertNeedsLease
