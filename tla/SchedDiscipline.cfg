CONSTANTS
  Tasks = {t1, t2, t3}
  NoTask = NoTask
  SO_MAX_PRIO = 1
  TimeQuantum = 2
  NumEvents = 2
  MAX_NO_THREADS = 3
  MaxCalls = 5
  AllocFails = TRUE
  LoneWait = FALSE
SPECIFICATION FairSpec
PROPERTIES
  IsOneProcessor
  FifoAmongEquals
  QuantumEnforced
  ReadyRuns
  EndCompletes
CHECK_DEADLOCK FALSE
