SPECIFICATION Spec
CHECK_DEADLOCK FALSE
CONSTANTS
  c1 = c1
  c2 = c2
  c3 = c3
  t1 = t1
  t2 = t2
  NoTrunk = NoTrunk
  Calls <- ThreeCalls
  Trunks <- TwoTrunks
  maxConcurrentCalls <- OneSlotEach
  weight <- Weights
  MaxCrashes = 0
  Faults = {"declined_error"}
INVARIANT CapacityRespected
