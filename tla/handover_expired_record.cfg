SPECIFICATION Spec
CONSTANTS
  Agents = {a1, a2}
  NoAgent = none
  Requests = {q1}
  Execs = {e1, e2}
  PeerAPI = TRUE
  MaxFaults = 1
  MaxCalls = 3
INVARIANT DuplicatesAreIdempotent
\* Without a request, nothing happens.
CHECK_DEADLOCK FALSE
