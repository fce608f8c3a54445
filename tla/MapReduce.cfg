CONSTANTS
  w1 = w1
  w2 = w2
  Worker = {w1, w2}
  NMap = 2
  nReduce = 2
  Mortal = {w1}
  Unreadable = {0}
SPECIFICATION JobFairSpec
INVARIANTS JobTypeOK OutputComplete InputsReady
PROPERTY JobFinishes
CHECK_DEADLOCK FALSE
