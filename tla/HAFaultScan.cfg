CONSTANTS
  n1 = n1
  j1 = j1
  p1 = p1
  p2 = p1
  p3 = p1
  Nodes = {n1}
  Jobs = {j1}
  Pods = {p1}
  JobOf <- JobOfPod
  NodeOf <- NodeOfPod
  MaxConcurrentRestores = 2
  MaxRestoreAttempts = 2
  MaxSeq = 1
  MaxFaults = 2
  MaxApiErrors = 0
  MaxCrashes = 0
  MaxRecreations = 0
  NodeNameIndexed = FALSE
SPECIFICATION Spec
PROPERTY
  FaultsReachJobs
CHECK_DEADLOCK FALSE
