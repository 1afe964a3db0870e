CONSTANTS
  k1 = k1
  k2 = k2
  k3 = k3
  Keys = {k1, k2, k3}
  t1 = t1
  t2 = t2
  Tags = {}
  Namespaces = {default}
  DefaultNs = default
  Nodes = {1, 2, 3, 4}
  Tasks = {1}
  Null = Null
  Strategy = "lru"
  MaxSize = 2
  MaxBytes = 4
  DefaultTtl = 0
  SlidingTtl = 0
  Ttls = {0, 1}
  Sizes = {1, 3}
  MaxNow = 3
SPECIFICATION Spec
INVARIANTS ListIsMap WithinLimits TailIsLeastRecent
SYMMETRY KeySymmetry
CONSTRAINT ExpiredUnread
