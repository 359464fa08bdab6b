CONSTANTS
  w1 = w1
  SysfsWriters = {w1}
  Gnss = gnss
  HoldoverTicks = 1
SPECIFICATION Spec
INVARIANTS TypeOK NoLostNotification HoldoverHasTimer NothingArmedWhenFreed
