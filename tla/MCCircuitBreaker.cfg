CONSTANTS
  Callers = {c1, c2, c3}
  MaxFailures = 2
  OpenDuration = 2
  MaxOutages = 4
SPECIFICATION FairBreakerSpec
INVARIANTS
  StateMatchesFailures
PROPERTIES
  NoCallWhileSuspended
  RecoversWhenHealthy
