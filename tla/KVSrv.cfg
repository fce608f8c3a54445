CONSTANTS
  c1 = c1
  c2 = c2
  k1 = k1
  v1 = v1
  v2 = v2
  Clerk = {c1, c2}
  Key = {k1}
  Value = {v1, v2}
  Empty = v1
  Absent = Absent
  MaxVersion = 3
SPECIFICATION KVFairSpec
INVARIANT KVTypeOK
PROPERTIES ImplementsService CallsReturn
