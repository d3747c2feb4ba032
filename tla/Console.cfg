SPECIFICATION ConsoleSpec
CHECK_DEADLOCK FALSE
CONSTANTS
  Pages = {"agents", "trunks", "webhooks", "calls", "settings", "playground"}
  Tabs = {"tab1", "tab2"}
  AgentNames = {"a1"}
  InitialAgents <- OneAgent
  Edits <- ToCascade
  ModelNames = {"m1"}
  RowNames = {"r1", "r2"}
  InitialRows <- OneRow
  InitialPrices <- TwoPrices
  Texts = {"", "tiny", "rate", "huge", "negative"}
  NumberOf <- Numbers
  RateLimit = 1000
  MaxRequests = 2
  MaxFaults = 1
  Faults = {"request_lost", "api_fails", "answer_lost", "session_ends", "agent_deleted"}
  NumTurns = 2
  outcome = "completed"
  MaxStarts = 2
  MaxMishaps = 1
  Mishaps = {"post_fails", "join_fails", "agent_drops", "page_drops", "delete_fails"}
INVARIANT FieldsFitMode
INVARIANT BilledInOneMode
INVARIANT SavedMeansServed
INVARIANT QuietPageShowsTheTables
INVARIANT RatesWereTyped
INVARIANT WholeTranscript
INVARIANT CompletedMeansSaid
PROPERTY NoFormHangs
PROPERTY EverySessionEnds
PROPERTY ConnectedPageSeesTheEnd
