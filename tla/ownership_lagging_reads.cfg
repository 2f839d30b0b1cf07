SPECIFICATION Spec
CONSTANTS
  Agents = {a1, a2}
  NoAgent = none
  RouteTables <- OneRoute
  SharedEIP = TRUE
  Clouds = {"aws"}
  EventualReads = TRUE
  MaxTries = 2
  MaxGen = 2
  MaxFaults <- Once
  MaxStalls <- Never
  MaxCrashes <- Once
  MaxHandovers = 0
INVARIANT TypeOK
PROPERTIES LiveLeaseIsTheOwners TakeoverIsComplete
\* The bound on generations stops every behaviour in the end.
CHECK_DEADLOCK FALSE
