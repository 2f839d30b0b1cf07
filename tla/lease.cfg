SPECIFICATION MCSpec
CONSTANTS
  Agents = {a1, a2, a3}
  Pair = {b1, b2}
  NoAgent = none
  Backend = "firestore"
  TTL = 2
  MaxSkew = 2
  MaxTime = 5
  MaxGen = 4
  MaxLate = 0
SYMMETRY Symmetry
INVARIANTS TypeOK MutualExclusion HeldIsCurrent
PROPERTIES ImplementsContract TakeoverWaitsInDynamo
