CONSTANTS
  Requests = {r1, r2}
  Workers = {w1, w2}
  Pollers = {}
  NoTask = NoTask
  EnvSet = FALSE
  BadRequests = TRUE
  Shutdowns = TRUE
SPECIFICATION FairSpec
PROPERTIES
  TaskRuns
CHECK_DEADLOCK FALSE
