CONSTANTS
  NShards = 3
  MaxGid = 5
  MaxNum = 4
  MaxArgs = 2
SPECIFICATION FairSpec
INVARIANTS CfgTypeOK CheckConfig MovesAreNeeded
PROPERTY RebalanceEnds
CHECK_DEADLOCK FALSE
