CONSTANTS
  k1 = k1
  k2 = k2
  Keys = {k1, k2}
  k3 = k3
  t1 = t1
  t2 = t2
  Tags = {t1}
  Namespaces = {default}
  DefaultNs = default
  Nodes = {1, 2, 3}
  Tasks = {1, 2}
  Null = Null
  Strategy = "fifo"
  MaxSize = 2
  MaxBytes = 1
  DefaultTtl = 0
  SlidingTtl = 0
  Ttls = {0}
  Sizes = {0}
  MaxNow = 1
SPECIFICATION Spec
INVARIANTS TypeOK IndexedUnlessRaced
PROPERTY InvalidateTagDropsAll
SYMMETRY KeySymmetry
