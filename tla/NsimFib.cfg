CONSTANTS
  Prefixes4 = {p4}
  Prefixes6 = {p6}
  Infos4 = {i1}
  Infos6 = {r1, r2, r3}
  None = None
  FibMax = 2
  MaxPaths = 2
  MaxQueue = 2
  MaxRetries = 2
  MaxFailed = 1
SPECIFICATION FibSpec
SYMMETRY InfoSymmetry
INVARIANTS OccupancyExact TableFollowsKernel EventsScheduled
