SPECIFICATION Spec
CHECK_DEADLOCK FALSE
CONSTANTS
  MaxRetries = 2
  MaxStalledCount = 1
  MaxReplays = 0
  MaxCrashes = 1
  Faults = {"answer_lost", "lock_lost"}
INVARIANT DeliveredMeansAccepted
INVARIANT DeadMeansExhausted
PROPERTY EveryRowSettles
