CONSTANTS
  Nodes = {n1, n2}
  PollInterval = 2
  Threshold = 3
  MaxChanges = 4
  MaxRestarts = 1
SPECIFICATION FairDetectorSpec
PROPERTIES
  NoAlarmWhenRecentlySeenReady
  DeadNodeIsDeclared
  ImplementsNodeFaults
