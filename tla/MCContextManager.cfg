CONSTANTS
  Facts <- MCFacts
  MaxLength = 18
  MaxFaults = 2
  ToolResults <- MCToolResults
  HardKeys <- MCHardKeys
  Budget = 20
  GoalTokens = 1
  MaxRecords = 3
SPECIFICATION Spec
INVARIANT ReloadIsFaithful
INVARIANT DigestIsRebuildable
