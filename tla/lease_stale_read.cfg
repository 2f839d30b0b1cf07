SPECIFICATION Spec
CONSTANTS
  Agents = {a1, a2}
  NoAgent = none
  Backend = "dynamodb"
  TTL = 2
  MaxSkew = 0
  MaxTime = 4
  MaxGen = 3
  MaxLate = 0
INVARIANT MutualExclusion
