CONSTANTS
  t1 = t1
  Tables = {t1}
  Queries = {q1}
  Procs = {p1, p2}
  Calls = {c1, c2}
  TableOf <- MCTableOf
  Null = Null
  MaxVersion = 2
  MaxWire = 1
  MaxHeld = 2
SPECIFICATION Spec
INVARIANTS TypeOK L1Fresh L2Fresh
CONSTRAINT FewHeld
SYMMETRY Symmetry
