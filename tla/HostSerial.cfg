CONSTANTS
  Tasks = {t1, t2, t3}
  Null = Null
  Quantum = 1
  Durations = {1, 2}
  Priorities = {1, 2}
  Overlap = FALSE
SPECIFICATION FairSpec
INVARIANTS
  WorkLeftExact
PROPERTIES
  PicksHighest
  AddedFinishes
  ShutdownEnds
CHECK_DEADLOCK FALSE
