----------------------------- MODULE CallRunner -----------------------------
(***************************************************************************)
(* What a CallRunner reports to the executor: the sequence of              *)
(* CallTransitions it passes to onTransition when nothing throws.  There   *)
(* are three runners: StubCallRunner (CALL_RUNNER=stub), and               *)
(* RealCallRunner for a browser call and for a SIP call.  What depends on  *)
(* the world - which trunk answers, when a participant drops - makes a     *)
(* runner's reports a set of sequences, its plans.  A runner that throws   *)
(* half way stops inside a plan, which is the executor's business.         *)
(***************************************************************************)
EXTENDS CallStatus, Integers, Sequences

NoTurn == 0

(* A CallTransition.  turn is the payload of a transcript_turn.            *)
Transition(eventType, status) ==
  [eventType |-> eventType, status |-> status, turn |-> NoTurn]

TranscriptTurn(k) ==
  [eventType |-> "transcript_turn", status |-> NoStatus, turn |-> k]

(* A scenario is its outcome, its number of turns and whether it carries   *)
(* usage.  A call whose scenario is unknown runs as "completed" without    *)
(* turns and without usage.                                                *)
Scenario(outcome, turns, usage) ==
  [outcome |-> outcome, turns |-> turns, usage |-> usage]

UnknownScenario == Scenario("completed", 0, FALSE)

(* The fixtures a call may name (stub-scenarios.ts): demo_greeting,        *)
(* demo_failure and demo_booking, the last one cut to `BookingTurns` turns.*)
Greeting == Scenario("completed", 1, TRUE)
Failure  == Scenario("failed", 1, TRUE)
Booking(BookingTurns) == Scenario("completed", BookingTurns, TRUE)

-----------------------------------------------------------------------------
computeStubPreTurnSteps(outcome) ==
  LET dialing  == Transition("call_dialing", "DIALING")
      ringing  == Transition("call_ringing", "RINGING")
      answered == Transition("call_in_progress", "IN_PROGRESS")
      failed(status) == Transition("call_failed", status)
  IN CASE outcome = "trunk_failure" ->
            [steps |-> <<dialing, failed("FAILED")>>, walkTurns |-> FALSE]
       [] outcome = "busy" ->
            [steps |-> <<dialing, ringing, failed("BUSY")>>, walkTurns |-> FALSE]
       [] outcome = "no_answer" ->
            [steps |-> <<dialing, ringing, failed("NO_ANSWER")>>, walkTurns |-> FALSE]
       [] OTHER ->
            [steps |-> <<dialing, ringing, answered>>, walkTurns |-> TRUE]

computeStubFinalStep(outcome) ==
  IF outcome = "completed" THEN Transition("call_completed", "COMPLETED")
                           ELSE Transition("call_failed", "FAILED")

Turns(n) == [k \in 1..n |-> TranscriptTurn(k)]

-----------------------------------------------------------------------------
(* StubCallRunner.run: no outside world, one plan.                         *)
StubCallRunnerPlans(scenario) ==
  LET pre == computeStubPreTurnSteps(scenario.outcome)
  IN {IF pre.walkTurns
      THEN pre.steps \o Turns(scenario.turns) \o <<computeStubFinalStep(scenario.outcome)>>
      ELSE pre.steps}

(* Mutation: an answered SIP call walks the pre-turn steps once more.      *)
VoiceSessionRedials(scenario, alreadyInProgress) ==
  LET pre == computeStubPreTurnSteps(scenario.outcome)
  IN {IF pre.walkTurns
      THEN pre.steps \o Turns(scenario.turns) \o <<computeStubFinalStep(scenario.outcome)>>
      ELSE pre.steps}

(* StubVoiceSession.run: the room may be lost before any turn or after the *)
(* last one, and then the call is dropped instead of taking its final step.*)
VoiceSessionPlans(scenario, alreadyInProgress) ==
  LET pre == IF alreadyInProgress
             THEN [steps |-> <<>>, walkTurns |-> TRUE]
             ELSE computeStubPreTurnSteps(scenario.outcome)
      dropped == Transition("call_dropped", "CALL_DROPPED")
  IN IF pre.walkTurns
     THEN {pre.steps \o Turns(scenario.turns) \o <<computeStubFinalStep(scenario.outcome)>>}
          \cup {pre.steps \o Turns(k) \o <<dropped>> : k \in 0..scenario.turns}
     ELSE {pre.steps}

(* RealCallRunner.dialSip with `trunks` candidate trunks: k of them fail   *)
(* (failover_triggered), then one answers, the callee is busy or does not  *)
(* answer, or no trunk is left with capacity.                              *)
SipDialPlans(trunks) ==
  LET dialing == <<Transition("call_dialing", "DIALING")>>
      failovers(k) == [i \in 1..k |-> Transition("failover_triggered", NoStatus)]
      answered == <<Transition("call_ringing", "RINGING"),
                    Transition("call_in_progress", "IN_PROGRESS")>>
      refused(status) == <<Transition("call_failed", status)>>
      exhausted == <<Transition("call_initiation_failure", "FAILED")>>
  IN [answered    |-> {dialing \o failovers(k) \o answered : k \in 0..trunks-1},
      notAnswered |-> {dialing \o failovers(k) \o refused(s) :
                         k \in 0..trunks-1, s \in {"BUSY", "NO_ANSWER"}}
                      \cup {dialing \o failovers(k) \o exhausted : k \in 0..trunks}]

(* RealCallRunner.run for a browser call and for a SIP call.               *)
BrowserPlans(scenario) == VoiceSessionPlans(scenario, FALSE)

SipPlans(scenario, trunks) ==
  LET dial == SipDialPlans(trunks)
  IN dial.notAnswered
     \cup {d \o s : d \in dial.answered, s \in VoiceSessionPlans(scenario, TRUE)}
=============================================================================
