CONSTANTS
  Tasks = {t1, t2, t3}
  Null = Null
  Quantum = 1
  Durations = {1, 2}
  Priorities = {1, 2}
  Overlap = TRUE
SPECIFICATION Spec
SYMMETRY Interchangeable
INVARIANTS
  FinishOnce
  PreemptionNests
CHECK_DEADLOCK FALSE
