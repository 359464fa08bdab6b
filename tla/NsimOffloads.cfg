CONSTANTS
  Netdevs = {e1, e2}
  NoNetdev = NoNetdev
  MaxCount = 3
  Nhids = {1, 2}
  Sizes = {1, 2, 3}
  Resilient = {2}
  NhMax = 4
SPECIFICATION Spec
INVARIANTS StatsExact HeldIsThere 
