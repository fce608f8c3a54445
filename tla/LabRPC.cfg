CONSTANTS
  c1 = c1
  c2 = c2
  Client = {c1, c2}
  MaxCalls = 2
  MaxInstances = 2
  reliable = FALSE
SPECIFICATION NetFairSpec
INVARIANTS NetTypeOK AcknowledgedIsSaved
PROPERTY CallReturns
CHECK_DEADLOCK FALSE
