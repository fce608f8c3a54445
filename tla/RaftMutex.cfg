CONSTANTS
  s1 = s1
  s2 = s2
  s3 = s3
  c = c
  Server = {s1, s2, s3}
  Command = {c}
  NoCommand = NoCommand
  NotVoted = NotVoted
  MaxTerm = 2
  MaxLogIndex = 1
  MaxInFlight = 1
  MaxBoots = 0
  MaxPreempted = 0
  Candidates = {s1, s2, s3}
  Appliers = {s1}
  Snapshotters = {s1}
SPECIFICATION Spec
INVARIANTS
  MutexReleased
CHECK_DEADLOCK FALSE
