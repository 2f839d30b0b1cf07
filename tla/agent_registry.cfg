SPECIFICATION Spec
CONSTANTS
  Agents = {a1, a2}
  NoAgent = none
  Clouds = {"aws", "gcp"}
  Generations = TRUE
  TTL = 3
  Skew = 1
  Settle = 4
  MaxEvents = 2
SYMMETRY Symmetry
INVARIANTS TypeOK GoneIsNotSelected StandbyIsSelectable
