CONSTANTS
  MaxVclocks = 3
  s1 = s1
  Setters = {s1}
  HasCycles = FALSE
  RegisterFails = TRUE
  None = None
SPECIFICATION VcSpec
INVARIANTS IndexIsChildren NoOrphans
