SPECIFICATION Spec
CHECK_DEADLOCK FALSE
CONSTANTS
  r1 = r1
  r2 = r2
  r3 = r3
  k1 = k1
  NoKey = NoKey
  NoCall = NoCall
  Requests <- ThreeRequests
  key <- WithBrowser
  Faults = {"request_dies", "room_fails"}
INVARIANT OneCallPerNumber
INVARIANT AnswersNameTheCall
PROPERTY EveryOwnCallEnds
