CONSTANTS
  Requests = {r1, r2}
  Workers = {w1, w2}
  Pollers = {p1}
  NoTask = NoTask
  EnvSet = FALSE
  BadRequests = TRUE
  Shutdowns = TRUE
SPECIFICATION Spec
SYMMETRY Interchangeable
INVARIANTS
  TakenOnce
  AnswersRight
  DrainsBeforeReturn
PROPERTIES
  DoneStays
CHECK_DEADLOCK FALSE
