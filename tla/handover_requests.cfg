SPECIFICATION FairSpec
CONSTANTS
  Agents = {a1, a2}
  NoAgent = none
  Requests = {q1, q2}
  Execs = {e1, e2, e3}
  PeerAPI = TRUE
  MaxFaults = 1
  MaxCalls = 2
INVARIANTS TypeOK AtMostOnce CompletedIsTrue
PROPERTIES TerminalIsFinal EveryRequestIsAnswered
\* Without a request, nothing happens.
CHECK_DEADLOCK FALSE
