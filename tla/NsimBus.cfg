CONSTANTS
  Writers = {w1}
  Module = module
  Ids = {1, 2}
  Slots = {1}
  Functions = {0, 1}
  Objs = {d1, d2}
  None = None
  PciRaces = FALSE
SPECIFICATION FairSpec
CHECK_DEADLOCK FALSE
INVARIANTS FunctionsMatch PortUseReady ExitWaits
PROPERTIES ExitCompletes
