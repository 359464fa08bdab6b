CONSTANTS
  Sec = 6
  IdlePoll = 1
  Slack = 1
  MaxDelay = 1
  MaxLatency = 1
  Offsets = {0, 2}
  Preempt = TRUE
  MaxTime = 18
  MaxStores = 1
  MaxEnables = 2
  Pins = {0, 1}
  Requests <- MCRequests
  NExt = 1
  NPer = 0
SPECIFICATION SpecPins
CHECK_DEADLOCK FALSE
INVARIANTS NoSecondMissed StampOnDelayedEdge QuietWhenFreed InputKeepsPin
PROPERTIES NoSpuriousEdge
