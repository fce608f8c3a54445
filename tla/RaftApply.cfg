CONSTANTS
  s1 = s1
  s2 = s2
  c = c
  Server = {s1, s2}
  Command = {c}
  NoCommand = NoCommand
  NotVoted = NotVoted
  MaxTerm = 2
  MaxLogIndex = 2
  MaxInFlight = 2
  MaxBoots = 0
  MaxPreempted = 0
  Candidates = {s1, s2}
  Appliers = {s1, s2}
  Snapshotters = {s1, s2}
SPECIFICATION Spec
SYMMETRY Symmetry
INVARIANTS
  TypeOK
  LogIndexing
  SnapshotCoversLog
  ApplyInOrder
CHECK_DEADLOCK FALSE
