CONSTANTS
  f1 = f1
  Files = {f1}
  Sysfs = sysfs
  r1 = r1
  Readers = {r1}
  Channels = {0}
  N = 3
  Batch = 2
  MaxEvents = 4
  NoFile = NoFile
SPECIFICATION FairSpec
INVARIANTS NoLostWakeup
PROPERTIES ImplementsFifo UnregisterCompletes
