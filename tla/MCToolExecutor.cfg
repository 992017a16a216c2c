CONSTANTS
  a = a
  b = b
  Resource = {a, b}
  ClaimSets <- MCClaimSets
  MaxCalls = 3
SPECIFICATION FairSpec
INVARIANT GroupsConflictFree
INVARIANT NoNeedlessSerialisation
INVARIANT ConflictsKeepOrder
INVARIANT ComponentsUsePrefixOfGroups
INVARIANT ScheduleIsFirstFit
INVARIANT NoConflictingOverlap
INVARIANT GroupBarrier
INVARIANT ConflictingCallsInOrder
INVARIANT RecordsInGroupOrder
INVARIANT NoWorkerOutlivesExecute
INVARIANT ForkHeldWhileRunning
PROPERTY ExecuteEnds
