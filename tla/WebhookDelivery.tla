-------------------------- MODULE WebhookDelivery --------------------------
(***************************************************************************)
(* What webhook delivery promises for one outbox row: attempts are made    *)
(* one at a time and only while the row is open; DELIVERED is written only *)
(* after the endpoint accepted an attempt, DEAD only when MaxRetries       *)
(* attempts have been counted; a settled row is reopened by a replay and   *)
(* by nothing else.                                                        *)
(***************************************************************************)
EXTENDS Naturals

CONSTANTS
  Attempts,    \* the identities of POST requests
  MaxRetries   \* WebhookOutbox.maxRetries

VARIABLES
  status,      \* the row's WebhookDeliveryStatus
  retryCount,  \* failed attempts counted so far
  sent,        \* the attempts made
  accepted,    \* those the endpoint accepted
  pending      \* the attempt whose outcome is not written yet, as a set

dvars == <<status, retryCount, sent, accepted, pending>>

OpenStatuses == {"PENDING", "RETRY_PENDING"}
SettledStatuses == {"DELIVERED", "DEAD"}
WebhookDeliveryStatuses == OpenStatuses \cup SettledStatuses

DeliveryInit ==
  /\ status = "PENDING"
  /\ retryCount = 0
  /\ sent = {} /\ accepted = {} /\ pending = {}

Send(a) ==
  /\ status \in OpenStatuses /\ pending = {} /\ a \notin sent
  /\ sent' = sent \cup {a}
  /\ pending' = {a}
  /\ accepted' \in {accepted, accepted \cup {a}}
  /\ UNCHANGED <<status, retryCount>>

MarkDelivered ==
  /\ status \in OpenStatuses /\ pending # {} /\ pending \subseteq accepted
  /\ status' = "DELIVERED"
  /\ pending' = {}
  /\ UNCHANGED <<retryCount, sent, accepted>>

Retry ==
  /\ status \in OpenStatuses /\ pending # {} /\ retryCount + 1 < MaxRetries
  /\ status' = "RETRY_PENDING"
  /\ retryCount' = retryCount + 1
  /\ pending' = {}
  /\ UNCHANGED <<sent, accepted>>

GiveUp ==
  /\ status \in OpenStatuses /\ pending # {} /\ retryCount + 1 >= MaxRetries
  /\ status' = "DEAD"
  /\ pending' = {}
  /\ UNCHANGED <<retryCount, sent, accepted>>

(* The outcome could not be written: the row is left open.                 *)
Abandon ==
  /\ pending # {}
  /\ pending' = {}
  /\ UNCHANGED <<status, retryCount, sent, accepted>>

Replay ==
  /\ status \in SettledStatuses
  /\ status' = "PENDING"
  /\ UNCHANGED <<retryCount, sent, accepted, pending>>

DeliveryNext ==
  \/ \E a \in Attempts : Send(a)
  \/ MarkDelivered \/ Retry \/ GiveUp \/ Abandon \/ Replay

DeliverySpec == DeliveryInit /\ [][DeliveryNext]_dvars
=============================================================================
