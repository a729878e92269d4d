SPECIFICATION Spec
CONSTANTS
  Callers = {c1, c2}
  Keys = {k1, k2}
  TTL = 2
  FetchTimeout = 1
INVARIANTS
  ServedNotTooOld
  WaitBounded
PROPERTIES
  NoErrorOnceKnown
  RefreshesSpaced
  EveryCallReturns
