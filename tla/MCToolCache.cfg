CONSTANTS
  k1 = k1
  k2 = k2
  v1 = v1
  v2 = v2
  d1 = d1
  d2 = d2
  Miss = Miss
  Key = {k1, k2}
  Value = {v1, v2}
  Dep = {d1, d2}
  DepList <- MCDepList
  MaxVersion = 3
SPECIFICATION CacheSpec
INVARIANT VersionsReached
PROPERTY StaleStaysStale
PROPERTY ImplementsAbstractCache
SYMMETRY MCSymmetry
