CONSTANTS
  c1 = c1
  k1 = k1
  v1 = v1
  Absent = Absent
  Clerk = {c1}
  N = 2
  Key = {k1}
  Value = {v1}
  Empty = v1
  MaxVersion = 2
  MaxRequests = 2
  MaxOps = 3
  MaxTerm = 1
  MaxRestarts = 1
  Snapshotting = TRUE
SPECIFICATION Spec
INVARIANTS TypeOK ReplicasAgree
PROPERTY ImplementsService
CHECK_DEADLOCK FALSE
