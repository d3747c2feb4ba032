--------------------------- MODULE CallLifecycle ----------------------------
(***************************************************************************)
(* What the worker promises for one call, without jobs, events or          *)
(* failures: the status moves along the lifecycle table and never leaves a *)
(* terminal status; once it is there - and only for the status it ended in *)
(* - each subscribed endpoint may get one webhook, each leg of a completed *)
(* call may be billed, and the call may be recorded.                       *)
(***************************************************************************)
EXTENDS CallStatus

CONSTANTS Endpoints, Subscribed, Legs

VARIABLES
  status,
  webhooks,   \* the <<event type, endpoint>> pairs issued
  billed,     \* the legs billed
  recorded

lifecycleVars == <<status, webhooks, billed, recorded>>

LifecycleInit ==
  /\ status = "QUEUED"
  /\ webhooks = {}
  /\ billed = {}
  /\ recorded = FALSE

Advance ==
  /\ \E to \in CallStatuses : isValidStatusTransition(status, to) /\ status' = to
  /\ UNCHANGED <<webhooks, billed, recorded>>

IssueWebhook(e) ==
  /\ status \in TERMINAL_CALL_STATUSES
  /\ WebhookEventOf(status) \in Subscribed[e]
  /\ <<WebhookEventOf(status), e>> \notin webhooks
  /\ webhooks' = webhooks \cup {<<WebhookEventOf(status), e>>}
  /\ UNCHANGED <<status, billed, recorded>>

Bill(l) ==
  /\ status = "COMPLETED"
  /\ l \notin billed
  /\ billed' = billed \cup {l}
  /\ UNCHANGED <<status, webhooks, recorded>>

Record ==
  /\ status = "COMPLETED"
  /\ ~recorded
  /\ recorded' = TRUE
  /\ UNCHANGED <<status, webhooks, billed>>

LifecycleNext ==
  \/ Advance
  \/ \E e \in Endpoints : IssueWebhook(e)
  \/ \E l \in Legs : Bill(l)
  \/ Record

LifecycleSpec == LifecycleInit /\ [][LifecycleNext]_lifecycleVars
=============================================================================
