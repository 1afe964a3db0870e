CONSTANTS
  Callers = {c1}
  Slots = {s1, s2}
  MaxWrites = 2
  AbortsOnError = TRUE
  Null = Null
SPECIFICATION Spec
INVARIANTS AllInside
CHECK_DEADLOCK FALSE
