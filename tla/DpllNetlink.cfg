CONSTANTS
  Owners = {o1, o2}
  Devices = {d1, d2}
  Direct = Direct
  Pins = {mux}
  Children = {child}
  PinIdx <- DistinctIdx
  MaxReg = 1
  MaxAllocs = 3
  PinIds = 100
  AllocFails = TRUE
  SettledParents = TRUE
  ObjId <- Ids
  Settable = {mux}
  Values = {0, 1}
  Default = 0
  Fits = 1
SPECIFICATION NlSpec
SYMMETRY OwnerSymmetry
INVARIANTS RefsAgree ServedIsAlive CountsHolders DumpExact DevicesAgree CallsReachOwners
