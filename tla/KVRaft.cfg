CONSTANTS
  c1 = c1
  c2 = c2
  k1 = k1
  v1 = v1
  Absent = Absent
  Clerk = {c1, c2}
  N = 2
  Key = {k1}
  Value = {v1}
  Empty = v1
  MaxVersion = 1
  MaxRequests = 1
  MaxOps = 2
  MaxTerm = 2
  MaxRestarts = 0
  Snapshotting = FALSE
SPECIFICATION Spec
PROPERTY ImplementsService
CHECK_DEADLOCK FALSE
