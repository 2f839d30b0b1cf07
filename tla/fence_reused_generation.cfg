SPECIFICATION Spec
CONSTANTS
  Agents = {a1, a2}
  NoAgent = none
  RouteTables <- TwoRoutes
  SharedEIP = TRUE
  Clouds = {"aws"}
  EventualReads = FALSE
  MaxTries = 2
  MaxGen = 6
  MaxFaults <- Once
  MaxStalls <- Never
  MaxCrashes <- Once
  MaxHandovers = 1
INVARIANT FenceBoundsStrayMutations
