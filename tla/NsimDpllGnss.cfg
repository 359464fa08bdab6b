CONSTANTS
  SysfsWriters = {}
  Gnss = gnss
  HoldoverTicks = 2
SPECIFICATION FairSpec
INVARIANTS SignalOwnsStatus
PROPERTIES LossEndsInFreerun NavReportsLoss
