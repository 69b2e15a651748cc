CONSTANTS
  Word = 65536
  MaxTtl = 4
SPECIFICATION HeaderSpec
INVARIANTS
  AddsUp
CHECK_DEADLOCK FALSE
