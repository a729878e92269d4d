CONSTANTS
  Tasks = {t1, t2, t3}
  Workers = {w1, w2}
  ChannelBuffer = 1
  MaxRetries = 2
SPECIFICATION FairSpec
INVARIANTS
  NoTaskLostOrDoubled
  CountersExact
PROPERTIES
  EveryTaskSettles
  ShutdownReturns
CHECK_DEADLOCK FALSE
