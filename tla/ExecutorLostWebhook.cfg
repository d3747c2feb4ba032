SPECIFICATION Spec
CONSTANTS
  e1 = e1
  e2 = e2
  stt = stt
  tts = tts
  Scenarios <- MCScenarios
  Plans <- MCStubPlans
  Endpoints <- MCEndpoints
  Subscribed <- MCSubscribed
  Legs <- MCLegs
  Priced <- MCPriced
  StubRecording = TRUE
  MaxStalledCount = 1
  MaxCrashes = 1
  Faults = {}
CHECK_DEADLOCK FALSE
PROPERTIES
  EveryEndpointNotified
