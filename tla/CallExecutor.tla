---------------------------- MODULE CallExecutor ----------------------------
(***************************************************************************)
(* The call-executor worker: processCallExecutorJob for ONE call, run by   *)
(* every delivery BullMQ makes of the call's job, with the rows it writes  *)
(* in Postgres and the webhook-dispatcher jobs it adds in Redis.           *)
(*                                                                         *)
(* Jobs of different calls touch disjoint rows, so one call is enough; the *)
(* trunk slots calls compete for are not in this module.                   *)
(*                                                                         *)
(* BullMQ delivers at least once.  The job has one attempt (a processor    *)
(* that throws is not retried), but a job whose lock expired - its worker  *)
(* died, or was too slow to renew the lock - goes back to wait, at most    *)
(* MaxStalledCount times, and is then delivered again.  A worker that lost *)
(* only its lock keeps running the processor.                              *)
(***************************************************************************)
EXTENDS CallStatus, OutcomeMapper, Integers, Sequences, FiniteSets

CONSTANTS
  Scenarios,        \* the scenarios a call's job may carry
  Plans,            \* Plans[s]: what the runner may report for scenario s
  Endpoints,        \* the enabled webhook endpoints
  Subscribed,       \* Subscribed[e]: the event types endpoint e asks for
  Legs,             \* the provider legs the agent's voice mode is billed for
  Priced,           \* the legs that have a PriceTable row
  StubRecording,    \* RECORDING_MODE = stub
  MaxStalledCount,  \* BullMQ: how often a stalled job is put back (1)
  MaxCrashes,       \* bound: worker processes that die while they run the job
  Faults            \* what else may go wrong, of FaultKinds

(* runner_error: the runner throws (LiveKit, SIP or provider failure).     *)
(* store_error:  a Postgres or Redis call fails without having effect.     *)
(* ack_lost:     a status update takes effect and fails all the same.      *)
(* lock_lost:    a job's lock expires while its processor is running.      *)
FaultKinds == {"runner_error", "store_error", "ack_lost", "lock_lost"}

EventTypes ==
  {"call_queued", "call_dialing", "call_ringing", "call_in_progress",
   "transcript_turn", "failover_triggered", "call_completed", "call_failed",
   "call_initiation_failure", "call_dropped", "cost_unpriced_leg"}

CallEvents == [eventType : EventTypes, turn : Nat]

CallTransitions ==
  [eventType : EventTypes, status : CallStatuses \cup {NoStatus}, turn : Nat]

ASSUME PlansAssumption == Plans \in [Scenarios -> SUBSET Seq(CallTransitions)]
ASSUME SubscribedAssumption == Subscribed \in [Endpoints -> SUBSET WebhookEventTypes]
ASSUME PricedAssumption == Priced \subseteq Legs
ASSUME StalledAssumption == MaxStalledCount \in Nat
ASSUME CrashesAssumption == MaxCrashes \in Nat
ASSUME FaultsAssumption == Faults \subseteq FaultKinds

(* Delivery number r of the job is run r of the processor.                 *)
Runs == 1..MaxStalledCount+1
NoRun == 0

VARIABLES
  (* Postgres *)
  callStatus,     \* Call.status
  events,         \* the call's CallEvent rows, in order of creation
  outbox,         \* the call's WebhookOutbox rows
  callCosts,      \* callCosts[l]: number of CallCost rows of leg l
  recording,      \* whether the call has a Recording row
  (* Redis *)
  dispatchJobs,   \* the webhook-dispatcher jobs added, by their outbox row's key
  jobState,       \* the call-executor job: "waiting", "active" or "finished"
  owner,          \* the run that holds the job's lock, NoRun if none
  deliveries,     \* how many runs have been started
  (* the job's data, and each run of the processor *)
  scenario,
  pc,
  currentStatus,  \* the processor's local copy of the status
  plan, step,     \* what the runner reports, and its next transition
  finalCall,      \* `finalCall`: the status re-read in the finally block
  finalEvents,    \* `events`: the history re-read in the finally block
  endpoints,      \* endpoints still to handle in enqueueWebhooksForCall
  endpoint,       \* the one whose outbox row was just inserted
  legs            \* legs still to handle in meterCallCost

dbVars == <<callStatus, events, outbox, callCosts, recording>>
queueVars == <<dispatchJobs, jobState, owner, deliveries>>
runnerVars == <<scenario, currentStatus, plan, step>>
finallyVars == <<finalCall, finalEvents, endpoints, endpoint, legs>>
vars == <<dbVars, queueVars, pc, runnerVars, finallyVars>>

NotRead == "not_read"
NoEndpoint == "no_endpoint"
NoEvents == <<>>

-----------------------------------------------------------------------------
Init ==
  /\ callStatus = "QUEUED"
  /\ events = <<[eventType |-> "call_queued", turn |-> 0]>>
  /\ outbox = {}
  /\ callCosts = [l \in Legs |-> 0]
  /\ recording = FALSE
  /\ dispatchJobs = {}
  /\ jobState = "waiting"
  /\ owner = NoRun
  /\ deliveries = 0
  /\ scenario \in Scenarios
  /\ pc = [r \in Runs |-> "idle"]
  /\ currentStatus = [r \in Runs |-> NoStatus]
  /\ plan = [r \in Runs |-> <<>>]
  /\ step = [r \in Runs |-> 1]
  /\ finalCall = [r \in Runs |-> NotRead]
  /\ finalEvents = [r \in Runs |-> NoEvents]
  /\ endpoints = [r \in Runs |-> {}]
  /\ endpoint = [r \in Runs |-> NoEndpoint]
  /\ legs = [r \in Runs |-> {}]

(* Where run r goes next.                                                  *)
GoTo(r, label) == pc' = [pc EXCEPT ![r] = label] /\ UNCHANGED jobState

(* The processor returns or throws.  BullMQ finishes the job if the run    *)
(* still holds its lock; either way there is no further attempt.           *)
Leave(r) ==
  /\ pc' = [pc EXCEPT ![r] = "done"]
  /\ jobState' = IF owner = r THEN "finished" ELSE jobState

(* Mutation: the finally block is skipped when the try block threw.        *)
EnterFinallyUnlessThrown(r, st) ==
  IF st \in TERMINAL_CALL_STATUSES /\ pc[r] = "run" THEN GoTo(r, "reread") ELSE Leave(r)

(* The head of the finally block, entered with local status st.            *)
EnterFinally(r, st) ==
  IF st \in TERMINAL_CALL_STATUSES THEN GoTo(r, "reread") ELSE Leave(r)

LogEvent(eventType, turn) ==
  events' = Append(events, [eventType |-> eventType, turn |-> turn])

-----------------------------------------------------------------------------
(* BullMQ: delivery, and the stalled-job check.                            *)

Deliver(r) ==
  /\ jobState = "waiting"
  /\ r = deliveries + 1
  /\ jobState' = "active"
  /\ owner' = r
  /\ deliveries' = r
  /\ pc' = [pc EXCEPT ![r] = "load"]
  /\ UNCHANGED <<dbVars, dispatchJobs, runnerVars, finallyVars>>

(* The job's lock is gone: back to wait, or failed for good.               *)
MoveStalledJob ==
  /\ jobState' = IF deliveries <= MaxStalledCount THEN "waiting" ELSE "finished"
  /\ owner' = NoRun
  /\ UNCHANGED <<dbVars, dispatchJobs, deliveries, pc, runnerVars, finallyVars>>

StalledAfterCrash ==
  /\ jobState = "active"
  /\ owner \in Runs /\ pc[owner] = "crashed"
  /\ MoveStalledJob

LockExpires ==
  /\ "lock_lost" \in Faults
  /\ jobState = "active"
  /\ owner \in Runs /\ pc[owner] \notin {"crashed", "done"}
  /\ MoveStalledJob

Live(r) == pc[r] \notin {"idle", "done", "crashed"}

Crash(r) ==
  /\ Live(r)
  /\ Cardinality({q \in Runs : pc[q] = "crashed"}) < MaxCrashes
  /\ GoTo(r, "crashed")
  /\ UNCHANGED <<dbVars, dispatchJobs, owner, deliveries, runnerVars, finallyVars>>

-----------------------------------------------------------------------------
(* The processor, up to the end of its try block.                          *)

(* Mutation: a job whose call has already ended is run again.              *)
LoadEndedCall(r) ==
  /\ pc[r] = "load"
  /\ GoTo(r, "run")
  /\ currentStatus' = [currentStatus EXCEPT ![r] = callStatus]
  /\ \E p \in Plans[scenario] : plan' = [plan EXCEPT ![r] = p]
  /\ UNCHANGED <<dbVars, dispatchJobs, owner, deliveries, scenario, step, finallyVars>>

(* findBySid; a call that has already ended makes the job stale.  Nothing  *)
(* is awaited between the read and the runner, so the run also fixes what  *)
(* its runner is going to report.                                          *)
Load(r) ==
  /\ pc[r] = "load"
  /\ IF callStatus \in TERMINAL_CALL_STATUSES
     THEN /\ Leave(r)
          /\ UNCHANGED <<currentStatus, plan>>
     ELSE /\ GoTo(r, "run")
          /\ currentStatus' = [currentStatus EXCEPT ![r] = callStatus]
          /\ \E p \in Plans[scenario] : plan' = [plan EXCEPT ![r] = p]
  /\ UNCHANGED <<dbVars, dispatchJobs, owner, deliveries, scenario, step, finallyVars>>

(* Mutation: onTransition does not consult the lifecycle table.            *)
AppendEventUnchecked(r) ==
  /\ pc[r] = "run" /\ step[r] <= Len(plan[r])
  /\ LET t == plan[r][step[r]]
     IN /\ LogEvent(t.eventType, t.turn)
        /\ IF t.status \in {NoStatus, currentStatus[r]}
           THEN /\ step' = [step EXCEPT ![r] = @ + 1]
                /\ UNCHANGED <<pc, jobState>>
           ELSE /\ GoTo(r, "update")
                /\ UNCHANGED step
  /\ UNCHANGED <<callStatus, outbox, callCosts, recording, dispatchJobs, owner,
                 deliveries, scenario, currentStatus, plan, finallyVars>>

(* Mutation: the event is left out when the status changes.                *)
AppendEventOrUpdate(r) ==
  /\ pc[r] = "run" /\ step[r] <= Len(plan[r])
  /\ LET t == plan[r][step[r]]
     IN IF t.status \in {NoStatus, currentStatus[r]}
        THEN /\ LogEvent(t.eventType, t.turn)
             /\ step' = [step EXCEPT ![r] = @ + 1]
             /\ UNCHANGED <<pc, jobState>>
        ELSE /\ GoTo(r, IF isValidStatusTransition(currentStatus[r], t.status)
                        THEN "update" ELSE "catch")
             /\ UNCHANGED <<events, step>>
  /\ UNCHANGED <<callStatus, outbox, callCosts, recording, dispatchJobs, owner,
                 deliveries, scenario, currentStatus, plan, finallyVars>>

(* onTransition: the event is appended first; then a status that differs   *)
(* from the local one is checked against the table.                        *)
AppendEvent(r) ==
  /\ pc[r] = "run" /\ step[r] <= Len(plan[r])
  /\ LET t == plan[r][step[r]]
     IN /\ LogEvent(t.eventType, t.turn)
        /\ IF t.status \in {NoStatus, currentStatus[r]}
           THEN /\ step' = [step EXCEPT ![r] = @ + 1]
                /\ UNCHANGED <<pc, jobState>>
           ELSE /\ GoTo(r, IF isValidStatusTransition(currentStatus[r], t.status)
                           THEN "update" ELSE "catch")
                /\ UNCHANGED step
  /\ UNCHANGED <<callStatus, outbox, callCosts, recording, dispatchJobs, owner,
                 deliveries, scenario, currentStatus, plan, finallyVars>>

UpdateStatus(r) ==
  /\ pc[r] = "update"
  /\ LET to == plan[r][step[r]].status
     IN /\ callStatus' = to
        /\ currentStatus' = [currentStatus EXCEPT ![r] = to]
  /\ step' = [step EXCEPT ![r] = @ + 1]
  /\ GoTo(r, "run")
  /\ UNCHANGED <<events, outbox, callCosts, recording, dispatchJobs, owner,
                 deliveries, scenario, plan, finallyVars>>

RunnerReturns(r) ==
  /\ pc[r] = "run" /\ step[r] > Len(plan[r])
  /\ EnterFinally(r, currentStatus[r])
  /\ UNCHANGED <<dbVars, dispatchJobs, owner, deliveries, runnerVars, finallyVars>>

RunnerThrows(r) ==
  /\ "runner_error" \in Faults
  /\ pc[r] = "run"
  /\ GoTo(r, "catch")
  /\ UNCHANGED <<dbVars, dispatchJobs, owner, deliveries, runnerVars, finallyVars>>

-----------------------------------------------------------------------------
(* The catch block.                                                        *)

(* Mutation: the catch block logs the failure and leaves the status alone. *)
CatchAppendOnly(r) ==
  /\ pc[r] = "catch"
  /\ LogEvent("call_failed", 0)
  /\ EnterFinally(r, currentStatus[r])
  /\ UNCHANGED <<callStatus, outbox, callCosts, recording, dispatchJobs, owner,
                 deliveries, runnerVars, finallyVars>>

CatchAppend(r) ==
  /\ pc[r] = "catch"
  /\ LogEvent("call_failed", 0)
  /\ IF isValidStatusTransition(currentStatus[r], "FAILED")
     THEN GoTo(r, "catchUpdate")
     ELSE EnterFinally(r, currentStatus[r])
  /\ UNCHANGED <<callStatus, outbox, callCosts, recording, dispatchJobs, owner,
                 deliveries, runnerVars, finallyVars>>

CatchUpdate(r) ==
  /\ pc[r] = "catchUpdate"
  /\ callStatus' = "FAILED"
  /\ currentStatus' = [currentStatus EXCEPT ![r] = "FAILED"]
  /\ EnterFinally(r, "FAILED")
  /\ UNCHANGED <<events, outbox, callCosts, recording, dispatchJobs, owner,
                 deliveries, scenario, plan, step, finallyVars>>

-----------------------------------------------------------------------------
(* The finally block of an ended call.  The call and its events are read   *)
(* by two concurrent queries (Promise.all), in either order.               *)

RereadCall(r) ==
  /\ pc[r] \in {"reread", "rereadCall"}
  /\ finalCall' = [finalCall EXCEPT ![r] = callStatus]
  /\ GoTo(r, IF pc[r] = "reread" THEN "rereadEvents" ELSE "list")
  /\ UNCHANGED <<dbVars, dispatchJobs, owner, deliveries, runnerVars,
                 finalEvents, endpoints, endpoint, legs>>

RereadEvents(r) ==
  /\ pc[r] \in {"reread", "rereadEvents"}
  /\ finalEvents' = [finalEvents EXCEPT ![r] = events]
  /\ GoTo(r, IF pc[r] = "reread" THEN "rereadCall" ELSE "list")
  /\ UNCHANGED <<dbVars, dispatchJobs, owner, deliveries, runnerVars,
                 finalCall, endpoints, endpoint, legs>>

(* enqueueWebhooksForCall: the endpoints to notify ...                     *)
ListEndpoints(r) ==
  /\ pc[r] = "list"
  /\ endpoints' = [endpoints EXCEPT ![r] =
                     {e \in Endpoints : WebhookEventOf(finalCall[r]) \in Subscribed[e]}]
  /\ GoTo(r, "create")
  /\ UNCHANGED <<dbVars, dispatchJobs, owner, deliveries, runnerVars,
                 finalCall, finalEvents, endpoint, legs>>

RowKey(eventType, e) == <<eventType, e>>

(* Mutation: the idempotency key is not unique.                            *)
CreateOutboxRowAlways(r, e) ==
  LET payload == mapCallOutcomeToWebhookPayload(finalCall[r], finalEvents[r])
  IN /\ pc[r] = "create" /\ e \in endpoints[r]
     /\ endpoints' = [endpoints EXCEPT ![r] = @ \ {e}]
     /\ outbox' = outbox \cup {[endpoint |-> e, eventType |-> payload.type,
                    reason |-> payload.reason, transcript |-> payload.transcript]}
     /\ endpoint' = [endpoint EXCEPT ![r] = e]
     /\ GoTo(r, "queueAdd")
     /\ UNCHANGED <<callStatus, events, callCosts, recording, dispatchJobs, owner,
                    deliveries, runnerVars, finalCall, finalEvents, legs>>

(* ... an outbox row for each, unless its idempotency key is taken ...     *)
CreateOutboxRow(r, e) ==
  LET payload == mapCallOutcomeToWebhookPayload(finalCall[r], finalEvents[r])
      row == [endpoint |-> e, eventType |-> payload.type,
              reason |-> payload.reason, transcript |-> payload.transcript]
      inserted == ~ \E o \in outbox : /\ o.endpoint = e
                                      /\ o.eventType = payload.type
  IN /\ pc[r] = "create" /\ e \in endpoints[r]
     /\ endpoints' = [endpoints EXCEPT ![r] = @ \ {e}]
     /\ IF inserted
        THEN /\ outbox' = outbox \cup {row}
             /\ endpoint' = [endpoint EXCEPT ![r] = e]
             /\ GoTo(r, "queueAdd")
        ELSE UNCHANGED <<outbox, endpoint, pc, jobState>>
     /\ UNCHANGED <<callStatus, events, callCosts, recording, dispatchJobs, owner,
                    deliveries, runnerVars, finalCall, finalEvents, legs>>

(* ... and, for a row just inserted, its dispatch job.                     *)
AddDispatchJob(r) ==
  /\ pc[r] = "queueAdd"
  /\ dispatchJobs' = dispatchJobs \cup
                       {RowKey(WebhookEventOf(finalCall[r]), endpoint[r])}
  /\ GoTo(r, "create")
  /\ UNCHANGED <<dbVars, owner, deliveries, runnerVars, finallyVars>>

EnqueueReturns(r) ==
  /\ pc[r] = "create" /\ endpoints[r] = {}
  /\ GoTo(r, "meter")
  /\ UNCHANGED <<dbVars, dispatchJobs, owner, deliveries, runnerVars, finallyVars>>

(* Mutation: an unpriced leg ends the loop.                                *)
MeterLegOrReturn(r, l) ==
  /\ pc[r] = "meterLegs" /\ l \in legs[r]
  /\ legs' = [legs EXCEPT ![r] = IF l \in Priced THEN @ \ {l} ELSE {}]
  /\ IF l \in Priced
     THEN /\ callCosts' = [callCosts EXCEPT ![l] = @ + 1]
          /\ UNCHANGED events
     ELSE /\ LogEvent("cost_unpriced_leg", 0)
          /\ UNCHANGED callCosts
  /\ UNCHANGED <<callStatus, outbox, recording, queueVars, pc, runnerVars,
                 finalCall, finalEvents, endpoints, endpoint>>

(* meterCallCost: one CallCost row per priced leg of a completed call with *)
(* usage, a cost_unpriced_leg event per other leg.  There is no unique key *)
(* on CallCost.                                                            *)
MeterStart(r) ==
  /\ pc[r] = "meter"
  /\ legs' = [legs EXCEPT ![r] =
                IF finalCall[r] = "COMPLETED" /\ scenario.usage THEN Legs ELSE {}]
  /\ GoTo(r, "meterLegs")
  /\ UNCHANGED <<dbVars, dispatchJobs, owner, deliveries, runnerVars,
                 finalCall, finalEvents, endpoints, endpoint>>

MeterLeg(r, l) ==
  /\ pc[r] = "meterLegs" /\ l \in legs[r]
  /\ legs' = [legs EXCEPT ![r] = @ \ {l}]
  /\ IF l \in Priced
     THEN /\ callCosts' = [callCosts EXCEPT ![l] = @ + 1]
          /\ UNCHANGED events
     ELSE /\ LogEvent("cost_unpriced_leg", 0)
          /\ UNCHANGED callCosts
  /\ UNCHANGED <<callStatus, outbox, recording, queueVars, pc, runnerVars,
                 finalCall, finalEvents, endpoints, endpoint>>

MeterReturns(r) ==
  /\ pc[r] = "meterLegs" /\ legs[r] = {}
  /\ GoTo(r, "record")
  /\ UNCHANGED <<dbVars, dispatchJobs, owner, deliveries, runnerVars, finallyVars>>

(* recordCallStub: look for a Recording row, then store the file and       *)
(* create the row, whose callSid is unique.                                *)
FindRecording(r) ==
  /\ pc[r] = "record"
  /\ IF finalCall[r] = "COMPLETED" /\ StubRecording /\ ~recording
     THEN GoTo(r, "createRecording")
     ELSE Leave(r)
  /\ UNCHANGED <<dbVars, dispatchJobs, owner, deliveries, runnerVars, finallyVars>>

CreateRecording(r) ==
  /\ pc[r] = "createRecording"
  /\ recording' = TRUE
  /\ Leave(r)
  /\ UNCHANGED <<callStatus, events, outbox, callCosts, dispatchJobs, owner,
                 deliveries, runnerVars, finallyVars>>

-----------------------------------------------------------------------------
(* A Postgres or Redis call rejects.  Where run r awaits one, the          *)
(* exception goes to the enclosing catch: the try block's, none for a call *)
(* made outside of it or in the catch block itself (the finally block runs *)
(* with the local status as it is), the .catch() of each side effect.      *)
StoreError(r) ==
  /\ "store_error" \in Faults
  /\ \/ /\ pc[r] \in {"load", "reread", "rereadCall", "rereadEvents",
                       "record", "createRecording"}
        /\ Leave(r)
     \/ /\ pc[r] = "update" \/ (pc[r] = "run" /\ step[r] <= Len(plan[r]))
        /\ GoTo(r, "catch")
     \/ /\ pc[r] \in {"catch", "catchUpdate"}
        /\ EnterFinally(r, currentStatus[r])
     \/ /\ pc[r] \in {"list", "queueAdd"} \/ (pc[r] = "create" /\ endpoints[r] # {})
        /\ GoTo(r, "meter")
     \/ /\ pc[r] = "meter" \/ (pc[r] = "meterLegs" /\ legs[r] # {})
        /\ GoTo(r, "record")
  /\ UNCHANGED <<dbVars, dispatchJobs, owner, deliveries, runnerVars, finallyVars>>

(* updateStatus commits, but its answer is lost: the row changes and the   *)
(* local status does not.                                                  *)
UpdateAckLost(r) ==
  /\ "ack_lost" \in Faults
  /\ \/ /\ pc[r] = "update"
        /\ callStatus' = plan[r][step[r]].status
        /\ GoTo(r, "catch")
     \/ /\ pc[r] = "catchUpdate"
        /\ callStatus' = "FAILED"
        /\ EnterFinally(r, currentStatus[r])
  /\ UNCHANGED <<events, outbox, callCosts, recording, dispatchJobs, owner,
                 deliveries, runnerVars, finallyVars>>

-----------------------------------------------------------------------------
(* What Node.js runs of its own accord once a run is delivered.            *)
Progress(r) ==
  \/ Load(r) \/ AppendEvent(r) \/ UpdateStatus(r) \/ RunnerReturns(r)
  \/ CatchAppend(r) \/ CatchUpdate(r)
  \/ RereadCall(r) \/ RereadEvents(r) \/ ListEndpoints(r)
  \/ \E e \in Endpoints : CreateOutboxRow(r, e)
  \/ AddDispatchJob(r) \/ EnqueueReturns(r)
  \/ MeterStart(r) \/ (\E l \in Legs : MeterLeg(r, l)) \/ MeterReturns(r)
  \/ FindRecording(r) \/ CreateRecording(r)

Mishap(r) ==
  Crash(r) \/ RunnerThrows(r) \/ StoreError(r) \/ UpdateAckLost(r)

Next ==
  \/ \E r \in Runs : Deliver(r) \/ Progress(r) \/ Mishap(r)
  \/ StalledAfterCrash
  \/ LockExpires

(* A worker is up and polls the queue, a delivered run is never suspended  *)
(* for ever, and the stalled-job check runs periodically.  No mishap is    *)
(* owed.                                                                   *)
Fairness ==
  /\ \A r \in Runs : WF_vars(Deliver(r)) /\ WF_vars(Progress(r))
  /\ WF_vars(StalledAfterCrash)

Spec == Init /\ [][Next]_vars /\ Fairness

-----------------------------------------------------------------------------
(* Properties.                                                             *)

Labels ==
  {"idle", "load", "run", "update", "catch", "catchUpdate", "reread",
   "rereadCall", "rereadEvents", "list", "create", "queueAdd", "meter",
   "meterLegs", "record", "createRecording", "done", "crashed"}

OutboxRowOK(o) ==
  o.endpoint \in Endpoints /\ o.eventType \in WebhookEventTypes

(* The type invariant.                                                     *)
TypeOK ==
  /\ callStatus \in CallStatuses
  /\ events \in Seq(CallEvents)
  /\ \A o \in outbox : OutboxRowOK(o)
  /\ callCosts \in [Legs -> Nat]
  /\ recording \in BOOLEAN
  /\ dispatchJobs \subseteq WebhookEventTypes \X Endpoints
  /\ jobState \in {"waiting", "active", "finished"}
  /\ owner \in Runs \cup {NoRun}
  /\ deliveries \in 0..MaxStalledCount+1
  /\ scenario \in Scenarios
  /\ pc \in [Runs -> Labels]
  /\ currentStatus \in [Runs -> CallStatuses \cup {NoStatus}]
  /\ plan \in [Runs -> Seq(CallTransitions)]
  /\ step \in [Runs -> Nat \ {0}]
  /\ finalCall \in [Runs -> CallStatuses \cup {NotRead}]
  /\ finalEvents \in [Runs -> Seq(CallEvents)]
  /\ endpoints \in [Runs -> SUBSET Endpoints]
  /\ endpoint \in [Runs -> Endpoints \cup {NoEndpoint}]
  /\ legs \in [Runs -> SUBSET Legs]

(* The executor implements the lifecycle it promises: whatever crashes,    *)
(* redeliveries, exceptions and store errors happen, the stored status     *)
(* moves along the table only, and webhooks, costs and the recording are   *)
(* those of the status the call ended in.                                  *)
Lifecycle == INSTANCE CallLifecycle WITH
  status   <- callStatus,
  webhooks <- {<<o.eventType, o.endpoint>> : o \in outbox},
  billed   <- {l \in Legs : callCosts[l] > 0},
  recorded <- recording

ImplementsLifecycle == Lifecycle!LifecycleSpec

(* CallCost has no unique key, so only the order of reads, writes and      *)
(* redeliveries keeps a leg from being billed twice.                       *)
BilledAtMostOnce == \A l \in Legs : callCosts[l] <= 1

(* The transcript a customer is sent holds each turn of the conversation   *)
(* once and in order, although a redelivered job replays the scenario into *)
(* the same event log.                                                     *)
TranscriptExact ==
  \A o \in outbox :
    o.eventType = "post_call_transcription" =>
      o.transcript = [k \in 1..scenario.turns |-> k]

(* The event log explains the row: no run ever stores a status whose event *)
(* has not been appended before.                                           *)
EventsExplainStatus ==
  /\ callStatus = "RINGING"      => HasEvent(events, "call_ringing")
  /\ callStatus = "IN_PROGRESS"  => HasEvent(events, "call_in_progress")
  /\ callStatus = "COMPLETED"    => HasEvent(events, "call_completed")
  /\ callStatus = "CALL_DROPPED" => HasEvent(events, "call_dropped")
  /\ callStatus \in {"FAILED", "BUSY", "NO_ANSWER"} =>
        HasEvent(events, "call_failed") \/ HasEvent(events, "call_initiation_failure")

(* The dispatcher drops a job whose outbox row it cannot find, so a job    *)
(* must never be added before its row exists - and one row per endpoint    *)
(* and event type, however many runs race to create it.                    *)
JobsMatchRows ==
  /\ \A j \in dispatchJobs : \E o \in outbox : <<o.eventType, o.endpoint>> = j
  /\ \A o1, o2 \in outbox :
        <<o1.eventType, o1.endpoint>> = <<o2.eventType, o2.endpoint>> => o1 = o2

(* The runners and the lifecycle table agree: a call that is executed by   *)
(* its first delivery never meets IllegalTransitionError.                  *)
RunnersAreLegal ==
  \A r \in Runs :
    deliveries = 1 /\ pc[r] = "run" /\ step[r] <= Len(plan[r]) =>
      LET to == plan[r][step[r]].status
      IN to \in {NoStatus, currentStatus[r]} \/ isValidStatusTransition(currentStatus[r], to)

(* Every call ends: no call is left in DIALING, RINGING or IN_PROGRESS.    *)
EveryCallEnds == <>[](callStatus \in TERMINAL_CALL_STATUSES)

(* An ended call gets an outbox row and a dispatch job for every enabled   *)
(* endpoint subscribed to its event.  A worker that dies before it has     *)
(* stored the final status costs no notification, and no bill below: the   *)
(* job is delivered again.  One that dies in the finally block does: the   *)
(* redelivered job is a no-op.                                             *)
Notified(e) ==
  WebhookEventOf(callStatus) \in Subscribed[e] =>
    RowKey(WebhookEventOf(callStatus), e) \in dispatchJobs

CrashedInWrapUp ==
  \E r \in Runs : pc[r] = "crashed" /\ currentStatus[r] \in TERMINAL_CALL_STATUSES

NotifiedUnlessCrashed ==
  (callStatus \in TERMINAL_CALL_STATUSES) ~>
    (CrashedInWrapUp \/ \A e \in Endpoints : Notified(e))

(* A completed call with usage is billed for every priced leg and, under   *)
(* stub recording, recorded.                                               *)
BilledUnlessCrashed ==
  (callStatus = "COMPLETED") ~>
    \/ CrashedInWrapUp
    \/ /\ scenario.usage => \A l \in Priced : callCosts[l] = 1
       /\ StubRecording => recording

-----------------------------------------------------------------------------
(* What the code's own words say and the code does not keep: TLC finds     *)
(* each of these violated (README, "What the model shows not to hold").    *)

(* docs/architecture.md:204: the status moves along the table only.  Two   *)
(* runs that overlap (lock_lost) each check against their own copy of it.  *)
LegalStatusSteps ==
  [][isValidStatusTransition(callStatus, callStatus')]_callStatus

(* docs/architecture.md:385: "Every terminal call fires a webhook per      *)
(* enabled `WebhookEndpoint`".                                             *)
EveryEndpointNotified ==
  (callStatus \in TERMINAL_CALL_STATUSES) ~> (\A e \in Endpoints : Notified(e))

-----------------------------------------------------------------------------
(* The inductive invariants of the proofs.                                 *)

(* The event that goes with a status is of this type.                      *)
Names(eventType, status) ==
  /\ status = "RINGING" => eventType = "call_ringing"
  /\ status = "IN_PROGRESS" => eventType = "call_in_progress"
  /\ status = "COMPLETED" => eventType = "call_completed"
  /\ status = "CALL_DROPPED" => eventType = "call_dropped"
  /\ status \in {"FAILED", "BUSY", "NO_ANSWER"} =>
       eventType \in {"call_failed", "call_initiation_failure"}

(* A runner reports no status without the event that goes with it.         *)
PlansExplain ==
  \A s \in Scenarios : \A p \in Plans[s] : \A i \in 1..Len(p) : Names(p[i].eventType, p[i].status)

WrapUp == {"reread", "rereadCall", "rereadEvents", "list", "create", "queueAdd",
           "meter", "meterLegs", "record", "createRecording"}
Body == {"run", "update", "catch", "catchUpdate"} \cup WrapUp

(* Of every run, whatever its faults: what is read and checked at one      *)
(* point of the processor still holds where it is used.                    *)
RunOK(r) ==
  /\ pc[r] \in Body => currentStatus[r] \in CallStatuses
  /\ pc[r] = "update" =>
       /\ step[r] <= Len(plan[r])
       /\ plan[r][step[r]].status \in CallStatuses
       /\ isValidStatusTransition(currentStatus[r], plan[r][step[r]].status)
  /\ pc[r] = "catchUpdate" => isValidStatusTransition(currentStatus[r], "FAILED")
  /\ pc[r] \in WrapUp \ {"reread", "rereadCall"} => finalCall[r] \in CallStatuses
  /\ pc[r] = "create" =>
       \A e \in endpoints[r] : WebhookEventOf(finalCall[r]) \in Subscribed[e]
  /\ pc[r] = "queueAdd" =>
       /\ endpoint[r] \in Endpoints
       /\ \A e \in endpoints[r] : WebhookEventOf(finalCall[r]) \in Subscribed[e]
       /\ \E o \in outbox : /\ o.endpoint = endpoint[r]
                            /\ o.eventType = WebhookEventOf(finalCall[r])

RunsInv == TypeOK /\ JobsMatchRows /\ \A r \in Runs : RunOK(r)

(* No two runs overlap, and the local status is the stored one.            *)
SingleWriter == {"ack_lost", "lock_lost"} \cap Faults = {}

(* Nothing goes wrong but crashes and what the runner throws.              *)
OnlyRunnerErrors == Faults \subseteq {"runner_error"}

OneLiveRun == \A r \in Runs : Live(r) => owner = r /\ jobState = "active"

LocalStatusIsStored(r) == pc[r] \in Body => currentStatus[r] = callStatus

WrapUpIsFinal(r) ==
  /\ pc[r] \in WrapUp => callStatus \in TERMINAL_CALL_STATUSES
  /\ pc[r] \in WrapUp \ {"reread", "rereadCall"} => finalCall[r] = callStatus

OutputsMatchStatus ==
  /\ \A o \in outbox : /\ callStatus \in TERMINAL_CALL_STATUSES
                       /\ o.eventType = WebhookEventOf(callStatus)
  /\ \A l \in Legs : callCosts[l] > 0 => callStatus = "COMPLETED"
  /\ recording => callStatus = "COMPLETED"

(* A leg waits in meterCallCost only while nobody has billed it.           *)
LegsUnbilled(r) ==
  /\ pc[r] \in Body \ {"meterLegs", "record", "createRecording"} =>
       \A l \in Legs : callCosts[l] = 0
  /\ pc[r] = "meterLegs" =>
       \A l \in legs[r] : callCosts[l] = 0 /\ callStatus = "COMPLETED"
  /\ pc[r] = "createRecording" => callStatus = "COMPLETED"

SoleRunOK(r) == LocalStatusIsStored(r) /\ WrapUpIsFinal(r) /\ LegsUnbilled(r)

SingleWriterInv ==
  /\ RunsInv
  /\ OneLiveRun
  /\ \A r \in Runs : SoleRunOK(r)
  /\ OutputsMatchStatus
  /\ BilledAtMostOnce

(* Of a plan: the status the call has when its i-th transition is          *)
(* reported, and the last turn reported by then (0 if none was).           *)
StatusBefore(p, i, status) ==
  \/ status = "QUEUED" /\ \A j \in 1..(i-1) : p[j].status = NoStatus
  \/ \E j \in 1..(i-1) : /\ p[j].status = status /\ status # NoStatus
                         /\ \A k \in (j+1)..(i-1) : p[k].status = NoStatus

IsTurn(t) == t.eventType = "transcript_turn"

SaidBefore(p, i, n) ==
  \/ n = 0 /\ \A j \in 1..(i-1) : ~IsTurn(p[j])
  \/ \E j \in 1..(i-1) : /\ IsTurn(p[j]) /\ p[j].turn = n
                         /\ \A k \in (j+1)..(i-1) : ~IsTurn(p[k])

(* A runner dials first, reports legal statuses, the turns one after the   *)
(* other while the call is in progress, and completes after the last one.  *)
TransitionOK(p, i, turns) ==
  /\ p[i].status # NoStatus =>
       \A st \in CallStatuses :
         StatusBefore(p, i, st) => isValidStatusTransition(st, p[i].status)
  /\ IsTurn(p[i]) => /\ p[i].status = NoStatus /\ p[i].turn > 0
                     /\ StatusBefore(p, i, "IN_PROGRESS") /\ SaidBefore(p, i, p[i].turn - 1)
  /\ p[i].status = "COMPLETED" => SaidBefore(p, i, turns)

Proper(p, turns) ==
  p # <<>> /\ p[1].status = "DIALING" /\ \A i \in 1..Len(p) : TransitionOK(p, i, turns)

PlansAreProper == \A s \in Scenarios : \A p \in Plans[s] : Proper(p, s.turns)

(* A run that has not begun has its plan before it.                        *)
FreshRuns ==
  \A r \in Runs : /\ r > deliveries => pc[r] = "idle"
                  /\ pc[r] \in {"idle", "load"} => step[r] = 1

(* The first delivery finds the call queued and follows its plan.          *)
FirstRunInv ==
  \A r \in Runs : deliveries <= 1 =>
    /\ deliveries = 0 \/ pc[r] = "load" => callStatus = "QUEUED"
    /\ pc[r] \in {"run", "update"} =>
         plan[r] \in Plans[scenario] /\ StatusBefore(plan[r], step[r], currentStatus[r])

(* The turns said are 1..n.                                                *)
Said(log, n) == extractTranscript(log) = [k \in 1..n |-> k]

(* A redelivered run that finds the call beyond DIALING fails at its first *)
(* transition; any other begins before anything has been said.             *)
TurnsInPlan(r) ==
  pc[r] \in {"run", "update"} =>
    /\ plan[r] \in Plans[scenario]
    /\ step[r] = 1 \/ LET n == Len(extractTranscript(events))
                      IN  /\ StatusBefore(plan[r], step[r], currentStatus[r])
                          /\ SaidBefore(plan[r], step[r], n) /\ Said(events, n)

TranscriptInv ==
  /\ callStatus \in {"QUEUED", "DIALING", "RINGING"} => Said(events, 0)
  /\ callStatus = "COMPLETED" => Said(events, scenario.turns)
  /\ \A r \in Runs :
       /\ TurnsInPlan(r)
       /\ pc[r] \in WrapUp \ {"reread", "rereadEvents"} /\ callStatus = "COMPLETED" =>
            Said(finalEvents[r], scenario.turns)
  /\ TranscriptExact

(* Of the job: a run that is over has ended the call, or its worker died   *)
(* and the job was put back, as often as BullMQ does.                      *)
JobAccounted ==
  /\ \A r \in Runs : /\ r < deliveries => pc[r] = "crashed"
                     /\ r = deliveries /\ jobState = "waiting" => pc[r] = "crashed"
                     /\ pc[r] = "done" => callStatus \in TERMINAL_CALL_STATUSES
                     /\ pc[r] = "run" => step[r] <= Len(plan[r]) + 1
  /\ jobState = "active" => owner = deliveries
  /\ jobState = "finished" =>
       /\ deliveries \in Runs
       /\ pc[deliveries] = "done" \/ (pc[deliveries] = "crashed" /\ deliveries = MaxStalledCount + 1)

(* A runner that returns has reported how the call ended.                  *)
PlansEndCalls ==
  \A s \in Scenarios : \A p \in Plans[s] : \A st \in CallStatuses :
    StatusBefore(p, Len(p) + 1, st) => st \in TERMINAL_CALL_STATUSES

(* What is left of EveryCallEnds when nothing is said of fairness: a job   *)
(* BullMQ is done with has ended its call, unless every delivery of it met *)
(* a worker that died.                                                     *)
FinishedJobEnded ==
  jobState = "finished" =>
    callStatus \in TERMINAL_CALL_STATUSES \/ \A r \in Runs : pc[r] = "crashed"

(* Where the finally block stands: who has been notified, what is billed.  *)
Billed == callStatus = "COMPLETED" /\ scenario.usage => \A l \in Priced : callCosts[l] = 1
Recorded == callStatus = "COMPLETED" /\ StubRecording => recording
WrappedUp == (\A e \in Endpoints : Notified(e)) /\ Billed /\ Recorded

(* An endpoint is notified or still on the list, a priced leg billed or    *)
(* still on the list, at every await of the finally block.                 *)
WrapUpSoFar(r) ==
  /\ pc[r] \in {"create", "queueAdd"} =>
       \A e \in Endpoints \ endpoints[r] : Notified(e) \/ (pc[r] = "queueAdd" /\ e = endpoint[r])
  /\ pc[r] \in {"meter", "meterLegs", "record", "createRecording"} =>
       \A e \in Endpoints : Notified(e)
  /\ pc[r] = "meterLegs" /\ callStatus = "COMPLETED" /\ scenario.usage =>
       \A l \in Priced \ legs[r] : callCosts[l] = 1
  /\ pc[r] \in {"record", "createRecording"} => Billed

(* No outbox row without its dispatch job, but the one just created.       *)
RowsAreQueued ==
  \A o \in outbox :
    \/ <<o.eventType, o.endpoint>> \in dispatchJobs
    \/ CrashedInWrapUp
    \/ \E r \in Runs : pc[r] = "queueAdd" /\ endpoint[r] = o.endpoint

WrapUpInv ==
  /\ CrashedInWrapUp => callStatus \in TERMINAL_CALL_STATUSES /\ \A r \in Runs : pc[r] \notin Body
  /\ \A r \in Runs : WrapUpSoFar(r) /\ (pc[r] \in {"idle", "load"} => currentStatus[r] = NoStatus)
  /\ RowsAreQueued
  /\ callStatus \in TERMINAL_CALL_STATUSES =>
       CrashedInWrapUp \/ WrappedUp \/ \E r \in Runs : pc[r] \in Body

(* What is left of NotifiedUnlessCrashed and BilledUnlessCrashed: once the *)
(* job is finished, an ended call has all its webhooks queued, every       *)
(* priced leg billed and its recording stored, unless a worker died in the *)
(* finally block.                                                          *)
EndedCallIsWrappedUp ==
  callStatus \in TERMINAL_CALL_STATUSES /\ jobState = "finished" => CrashedInWrapUp \/ WrappedUp
=============================================================================
