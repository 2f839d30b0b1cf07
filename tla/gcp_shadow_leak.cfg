SPECIFICATION FairSpec
CONSTANTS
  Agents = {a1, a2}
  None = none
  Canonical = canonical
  Attempts = 4
  MaxFailures = 1
  MaxUnknowns = 0
  MaxOwners = 2
PROPERTY TrafficConverges
\* Once the owner has the route, nothing happens.
CHECK_DEADLOCK FALSE
