--------------------------- MODULE OutcomeMapper ----------------------------
(***************************************************************************)
(* The webhook payload of an ended call (outcome-mapper.ts and             *)
(* transcript-extractor.ts), computed from the call's status and its       *)
(* CallEvent history.  An event is [eventType, turn]; a transcript is the  *)
(* sequence of the turns it carries, without texts and times.              *)
(***************************************************************************)
EXTENDS CallStatus, Integers, Sequences

HasEvent(events, eventType) ==
  \E i \in 1..Len(events) : events[i].eventType = eventType

(* A call_initiation_failure event always carries the reason               *)
(* trunk_unavailable: RealCallRunner.dialSip is the only one to write it.  *)
inferFailureReason(status, events) ==
  CASE status = "BUSY"         -> "busy"
    [] status = "NO_ANSWER"    -> "no_answer"
    [] status = "CALL_DROPPED" -> "unknown"
    [] OTHER -> IF HasEvent(events, "call_initiation_failure") THEN "trunk_unavailable"
                ELSE IF HasEvent(events, "call_failed") THEN "provider_error"
                ELSE "unknown"

(* filter and map, event by event.                                         *)
extractTranscript(events) ==
  LET turnsOf[n \in 0..Len(events)] ==
        IF n = 0 THEN <<>>
        ELSE IF events[n].eventType = "transcript_turn"
             THEN Append(turnsOf[n-1], events[n].turn) ELSE turnsOf[n-1]
  IN turnsOf[Len(events)]

NoReason == "no_reason"

(* The payload; its type is NoEvent where the code returns undefined.      *)
mapCallOutcomeToWebhookPayload(status, events) ==
  IF status = "COMPLETED"
  THEN [type |-> WebhookEventOf(status), reason |-> NoReason,
        transcript |-> extractTranscript(events)]
  ELSE [type |-> WebhookEventOf(status),
        reason |-> IF WebhookEventOf(status) = NoEvent
                   THEN NoReason ELSE inferFailureReason(status, events),
        transcript |-> <<>>]
=============================================================================
