CONSTANTS
  a = a
  b = b
  Resource = {a, b}
  ClaimSets <- MCClaimSets
  MaxCalls = 3
SPECIFICATION Spec
INVARIANT ForksOutliveWorkers
