--------------------------- MODULE MCCallExecutor ---------------------------
(***************************************************************************)
(* Finite instances of CallExecutor: the runners' plans, two webhook       *)
(* endpoints - one for both event types, one for transcripts only - and    *)
(* two provider legs of which one has no price.                            *)
(***************************************************************************)
EXTENDS CallExecutor, CallRunner, TLC

CONSTANTS e1, e2, stt, tts

MCEndpoints == {e1, e2}
MCSubscribed ==
  (e1 :> WebhookEventTypes) @@ (e2 :> {"post_call_transcription"})
MCLegs == {stt, tts}
MCPriced == {stt}

MCScenarios == {Booking(2), Failure, UnknownScenario}
MCAllScenarios == {Greeting, Failure, UnknownScenario} \cup
  {Scenario(outcome, 1, FALSE) : outcome \in {"busy", "trunk_failure"}}
MCShortScenarios == {UnknownScenario, Scenario("trunk_failure", 0, TRUE)}
MCOneEndpoint == {e1}
MCOneSubscribed == (e1 :> WebhookEventTypes)

MCStubPlans == [s \in Scenarios |-> StubCallRunnerPlans(s)]
MCSipPlans == [s \in Scenarios |-> SipPlans(s, 1)]

(* Every runner: which one a deployment uses is CALL_RUNNER and channel.   *)
MCAllPlans ==
  [s \in Scenarios |-> StubCallRunnerPlans(s) \cup BrowserPlans(s) \cup SipPlans(s, 1)]

(* What EventLogExplainsStatus assumes of the runners.                     *)
ASSUME RunnersExplain == PlansExplain
=============================================================================
