CONSTANTS
  c1 = c1
  c2 = c2
  l = l
  Empty = Empty
  Absent = Absent
  Clerk = {c1, c2}
  Key = {l}
  Value = {c1, c2, Empty}
  MaxVersion = 5
SPECIFICATION FairSpec
INVARIANT MutualExclusion
PROPERTY AcquireProgress
CHECK_DEADLOCK FALSE
