CONSTANTS
  Requests = {r1, r2}
  Source = src
  Targets = {t1, t2}
SPECIFICATION FairSpec
INVARIANTS
  DoneMeansMoved
  OneCurrentCopy
  StatusTracksMigration
PROPERTY EveryMigrationEnds
CHECK_DEADLOCK FALSE
