SPECIFICATION Spec
CONSTANTS
  e1 = e1
  e2 = e2
  stt = stt
  tts = tts
  Scenarios <- MCScenarios
  Plans <- MCSipPlans
  Endpoints <- MCEndpoints
  Subscribed <- MCSubscribed
  Legs <- MCLegs
  Priced <- MCPriced
  StubRecording = TRUE
  MaxStalledCount = 1
  MaxCrashes = 2
  Faults = {"runner_error", "store_error"}
CHECK_DEADLOCK FALSE
INVARIANTS
  BilledAtMostOnce
  TranscriptExact
PROPERTIES
  ImplementsLifecycle
