CONSTANTS
  f = f
  c0 = c0
  c1 = c1
  Absent = Absent
  Written = Written
  ReadDep = ReadDep
  WriteDep = WriteDep
  Miss = Miss
  Path = {f}
  Content = {c0}
  Key <- MCCall
  Value <- MCValue
  Dep <- MCDep
  DepList <- MCDepList
  CallLists <- MCCallLists
  MaxVersion = 5
  MaxTurns = 2
  MaxCost = 2
  CacheTools = TRUE
  ObserveFiles = TRUE
  MaxExternal = 1
  FailureLimits = {}
  Thresholds = {}
  DefaultLimit = 2
  DefaultThreshold <- MCDefaultThreshold
  MaxRecords = 0
SPECIFICATION Spec
INVARIANT RecordsInEmissionOrder
