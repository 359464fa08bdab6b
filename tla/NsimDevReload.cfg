CONSTANTS
  PortCount = 1
  PfIndices = {0, 1}
  VfBase = 2
  VfCounts = {0, 1, 2}
  DefaultVfs = 1
  Uses = {}
SPECIFICATION Spec
INVARIANTS WpcHasDpll
