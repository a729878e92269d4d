CONSTANTS
  Snaps = {1, 2, 3}
  Images = {core, pages}
  Meta = meta
  Contents = {first, second}
  Clients = {c1, c2}
  Keep = 1
  MaxCalls = 4
SPECIFICATION Spec
SYMMETRY AnyName
INVARIANT LoadedExists
CHECK_DEADLOCK FALSE
