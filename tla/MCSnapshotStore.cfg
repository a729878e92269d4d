CONSTANTS
  Snaps = {1, 2, 3}
  Images = {core, pages}
  Meta = meta
  Contents = {first, second}
  Clients = {c1, c2}
  Keep = 1
  MaxCalls = 4
SPECIFICATION Spec
SYMMETRY AnyName
INVARIANTS
  AnnouncedComplete
  LoadComplete
  NewestKept
  PruneReachesLimit
CHECK_DEADLOCK FALSE
