CONSTANTS
  Callers = {t1, t2, t3}
  Requests = {1, 2}
  PhysicalCap = 3
  VirtualCap = 5
  Modulus = 8
SPECIFICATION OversubSpec
SYMMETRY AnyThread
INVARIANTS
  VirtualExact
  SplitExactUnlessFreeRaces
