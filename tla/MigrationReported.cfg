CONSTANTS
  Requests = {r1, r2}
  Source = src
  Targets = {t1, t2}
SPECIFICATION Spec
INVARIANT ReportedMoveHappened
CHECK_DEADLOCK FALSE
