CONSTANTS
  t1 = t1
  Tables = {t1}
  Queries = {q1, q2}
  Procs = {p1}
  Calls = {c1}
  TableOf <- MCTableOf
  Null = Null
  MaxVersion = 1
  MaxWire = 1
  MaxHeld = 2
SPECIFICATION Spec
INVARIANT RowsAreOwn
