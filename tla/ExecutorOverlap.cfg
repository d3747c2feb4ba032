SPECIFICATION Spec
CONSTANTS
  e1 = e1
  e2 = e2
  stt = stt
  tts = tts
  Scenarios <- MCShortScenarios
  Plans <- MCStubPlans
  Endpoints <- MCOneEndpoint
  Subscribed <- MCOneSubscribed
  Legs <- MCPriced
  Priced <- MCPriced
  StubRecording = FALSE
  MaxStalledCount = 1
  MaxCrashes = 0
  Faults = {"ack_lost", "lock_lost"}
CHECK_DEADLOCK FALSE
INVARIANTS
  EventsExplainStatus
  JobsMatchRows
