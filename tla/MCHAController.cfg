CONSTANTS
  n1 = n1
  j1 = j1
  p1 = p1
  p2 = p2
  p3 = p3
  Nodes = {n1}
  Jobs = {j1}
  Pods = {p1, p2, p3}
  JobOf <- JobOfPod
  NodeOf <- NodeOfPod
  MaxConcurrentRestores = 2
  MaxRestoreAttempts = 1
  MaxSeq = 2
  MaxFaults = 1
  MaxApiErrors = 1
  MaxCrashes = 1
  MaxRecreations = 1
  NodeNameIndexed = TRUE
SPECIFICATION FairSpec
INVARIANTS
  CheckpointUsable
  RestoreSourceStable
  RestoringExplained
PROPERTIES
  RestoresDrain
  CheckpointsDense
CHECK_DEADLOCK FALSE
