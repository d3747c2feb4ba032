SPECIFICATION Spec
CONSTANTS
  e1 = e1
  e2 = e2
  stt = stt
  tts = tts
  Scenarios <- MCAllScenarios
  Plans <- MCAllPlans
  Endpoints <- MCEndpoints
  Subscribed <- MCSubscribed
  Legs <- MCLegs
  Priced <- MCPriced
  StubRecording = TRUE
  MaxStalledCount = 1
  MaxCrashes = 1
  Faults = {"runner_error"}
CHECK_DEADLOCK FALSE
INVARIANTS
  RunnersAreLegal
PROPERTIES
  NotifiedUnlessCrashed
  BilledUnlessCrashed
  EveryCallEnds
