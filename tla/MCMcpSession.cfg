CONSTANTS
  MaxCalls = 4
  MaxStrays = 2
SPECIFICATION FairSpec
INVARIANT BehindByStrays
INVARIANT AnswerOutlivesStream
PROPERTY EndOfStreamFreesCaller
