SPECIFICATION Spec
CHECK_DEADLOCK FALSE
CONSTANTS
  MaxRetries = 3
  MaxStalledCount = 0
  MaxReplays = 2
  MaxCrashes = 0
  Faults = {"store_error", "answer_lost", "endpoint_patched"}
INVARIANT AttemptsBounded
PROPERTY ImplementsDelivery
