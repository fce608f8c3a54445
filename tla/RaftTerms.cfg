CONSTANTS
  s1 = s1
  s2 = s2
  s3 = s3
  c = c
  Server = {s1, s2, s3}
  Command = {c}
  NoCommand = NoCommand
  NotVoted = NotVoted
  MaxTerm = 4
  MaxLogIndex = 1
  MaxInFlight = 1
  MaxBoots = 1
  MaxPreempted = 1
  Candidates = {s1, s2}
  Appliers = {}
  Snapshotters = {}
SPECIFICATION Spec
SYMMETRY Symmetry
INVARIANTS
  VoteDurable
  ElectionSafety
  LeaderCompleteness
  PersistentState
CHECK_DEADLOCK FALSE
