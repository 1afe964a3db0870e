CONSTANTS
  Callers = {c1, c2}
  Slots = {s1, s2}
  MaxWrites = 2
  AbortsOnError = TRUE
  Null = Null
SPECIFICATION Spec
INVARIANTS TypeOK PoolClean Exclusive
PROPERTIES KeepsPromise
SYMMETRY Symmetry
CHECK_DEADLOCK FALSE
