CONSTANTS
  Tasks = {t1, t2, t3}
  NoTask = NoTask
  SO_MAX_PRIO = 1
  TimeQuantum = 2
  NumEvents = 1
  MAX_NO_THREADS = 3
  MaxCalls = 6
  AllocFails = TRUE
  LoneWait = TRUE
SPECIFICATION Spec
SYMMETRY Interchangeable
INVARIANTS
  MutualExclusion
  PriorityRespected
  DoneIsLast
  NoUseAfterFree
CHECK_DEADLOCK FALSE
