CONSTANTS
  Threads = {t1, t2}
  Sinks = {plain, caller}
  Reentrant = {caller}
  None = none
  Modulus = 4
  MaxEvents = 3
  MaxEdges = 1
  MaxSinks = 2
SPECIFICATION FairSpec
INVARIANT DeliveredInLogOrder
INVARIANT NumbersGrow
PROPERTY CallReturns
