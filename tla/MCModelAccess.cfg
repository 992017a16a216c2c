CONSTANTS
  FailureLimits = {1, 2}
  Thresholds <- MCThresholds
  DefaultLimit = 2
  DefaultThreshold <- MCDefaultThreshold
  MaxRecords = 3
  AttemptLimits = {0, 3}
  InitialBackoff = 2
  MaxBackoff = 3
  Multiplier = 2
  ScriptLength = 1
SPECIFICATION Spec
INVARIANT PinHasEvidence
PROPERTY OnlySmallAnswersBringChoresDown
PROPERTY PinEndsOnlyByClear
PROPERTY RequestChargedByRole
