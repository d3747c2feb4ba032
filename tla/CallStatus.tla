----------------------------- MODULE CallStatus -----------------------------
(***************************************************************************)
(* The call lifecycle table shared by the API, the worker and the console  *)
(* (packages/contracts/src/call-status.ts).  NoStatus stands for the       *)
(* absent `status` of a CallTransition.                                    *)
(***************************************************************************)

CallStatuses ==
  {"QUEUED", "DIALING", "RINGING", "IN_PROGRESS",
   "COMPLETED", "FAILED", "NO_ANSWER", "BUSY", "CALL_DROPPED"}

TERMINAL_CALL_STATUSES ==
  {"COMPLETED", "FAILED", "NO_ANSWER", "BUSY", "CALL_DROPPED"}

NoStatus == "none"

CALL_STATUS_TRANSITIONS ==
  [from \in CallStatuses |->
     CASE from = "QUEUED"      -> {"DIALING", "FAILED"}
       [] from = "DIALING"     -> {"RINGING", "FAILED", "NO_ANSWER", "BUSY"}
       [] from = "RINGING"     -> {"IN_PROGRESS", "NO_ANSWER", "BUSY", "FAILED"}
       [] from = "IN_PROGRESS" -> {"COMPLETED", "FAILED", "CALL_DROPPED"}
       [] OTHER                -> {}]

isValidStatusTransition(from, to) == to \in CALL_STATUS_TRANSITIONS[from]

(* The webhook event a call in each status produces (outcome-mapper.ts):   *)
(* NoEvent for a call that has not ended.                                  *)
WebhookEventTypes == {"post_call_transcription", "call_initiation_failure"}

NoEvent == "no_event"

WebhookEventOf(status) ==
  IF status = "COMPLETED" THEN "post_call_transcription"
  ELSE IF status \in {"FAILED", "NO_ANSWER", "BUSY", "CALL_DROPPED"}
       THEN "call_initiation_failure"
       ELSE NoEvent
=============================================================================
