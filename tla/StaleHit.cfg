CONSTANTS
  f = f
  c0 = c0
  c1 = c1
  Absent = Absent
  Written = Written
  ReadDep = ReadDep
  WriteDep = WriteDep
  Miss = Miss
  Path = {f}
  Content = {c0, c1}
  Key <- MCCall
  Value <- MCValue
  Dep <- MCDep
  DepList <- MCDepList
  CallLists <- MCStaleLists
  MaxVersion = 5
  MaxTurns = 3
  MaxCost = 0
  CacheTools = TRUE
  ObserveFiles = TRUE
  MaxExternal = 0
  FailureLimits = {}
  Thresholds = {}
  DefaultLimit = 2
  DefaultThreshold <- MCDefaultThreshold
  MaxRecords = 0
SPECIFICATION Spec
PROPERTY HitsAreAsGoodAsRunning
