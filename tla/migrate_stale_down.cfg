CONSTANTS
  Procs = {p1, p2}
  a = a
  b = b
  c = c
  first = first
  second = second
  rival = rival
  Objects = {a, b, c}
  Steps = {first, second, rival}
  Makes <- MCMakes
  Null = Null
SPECIFICATION Spec
INVARIANTS Whole
