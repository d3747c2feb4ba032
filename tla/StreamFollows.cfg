SPECIFICATION Spec
CHECK_DEADLOCK FALSE
CONSTANTS
  NumRows = 1
  GraceTicks = 2
  MaxReplays = 1
  MaxFaults = 1
  MaxWire = 1
  Faults = {"net_drop", "read_error"}
INVARIANT QuietPageIsSettled
INVARIANT NoStreamIsReopened
PROPERTY PageNeverGoesBack
PROPERTY EveryStreamEnds
PROPERTY EndIsShown
PROPERTY OpenRowsAreFollowed
