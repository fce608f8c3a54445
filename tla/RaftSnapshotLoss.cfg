CONSTANTS
  s1 = s1
  s2 = s2
  s3 = s3
  c = c
  Server = {s1, s2, s3}
  Command = {c}
  NoCommand = NoCommand
  NotVoted = NotVoted
  MaxTerm = 2
  MaxLogIndex = 2
  MaxInFlight = 2
  MaxBoots = 0
  MaxPreempted = 0
  Candidates = {s1, s2, s3}
  Appliers = {s1, s2}
  Snapshotters = {s1}
  First = s1
  Second = s2
SPECIFICATION Spec
CONSTRAINT Narrowed
INVARIANTS
  StateMachineSafety
CHECK_DEADLOCK FALSE
