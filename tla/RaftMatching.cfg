CONSTANTS
  s1 = s1
  s2 = s2
  s3 = s3
  c = c
  Server = {s1, s2, s3}
  Command = {c}
  NoCommand = NoCommand
  NotVoted = NotVoted
  MaxTerm = 3
  MaxLogIndex = 2
  MaxInFlight = 2
  MaxBoots = 0
  MaxPreempted = 0
  Candidates = {s1, s2}
  Appliers = {}
  Snapshotters = {}
SPECIFICATION Spec
CONSTRAINT Overtaking
SYMMETRY Symmetry
INVARIANTS
  LogMatching
  CommitCovered
  NextIndexInBounds
  MatchIndexSound
PROPERTIES
  CommitNeverRetreats
  ImplementsAgreedLog
CHECK_DEADLOCK FALSE
