SPECIFICATION Spec
CHECK_DEADLOCK FALSE
CONSTANTS
  c1 = c1
  c2 = c2
  c3 = c3
  t1 = t1
  t2 = t2
  NoTrunk = NoTrunk
  Calls <- TwoCalls
  Trunks <- TwoTrunks
  maxConcurrentCalls <- ThreeSlots
  weight <- Weights
  MaxCrashes = 1
  Faults = {"transition_error", "declined_error", "redis_error", "ack_lost", "expires_in_use"}
INVARIANT TypeOK
INVARIANT CountsExpire
INVARIANT RoomsAreDeleted
PROPERTY CapacityComesBack
