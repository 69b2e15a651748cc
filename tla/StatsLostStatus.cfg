CONSTANTS
  Requests = {r1, r2}
  Workers = {w1}
  Pollers = {}
  NoTask = NoTask
  EnvSet = FALSE
  BadRequests = FALSE
  Shutdowns = FALSE
SPECIFICATION Spec
INVARIANTS
  StatusTruthful
CHECK_DEADLOCK FALSE
