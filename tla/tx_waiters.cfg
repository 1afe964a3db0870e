CONSTANTS
  Callers = {c1, c2}
  Slots = {s1, s2}
  MaxWrites = 1
  AbortsOnError = FALSE
  Null = Null
SPECIFICATION FairSpec
PROPERTIES WaitersServed
CHECK_DEADLOCK FALSE
