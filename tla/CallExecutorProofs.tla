-------------------------- MODULE CallExecutorProofs ------------------------
(***************************************************************************)
(* Theorems about the call executor, for every set of scenarios, plans,    *)
(* endpoints and legs and any number of redeliveries.                      *)
(***************************************************************************)
EXTENDS CallExecutor, CallRunner, SequenceTheorems, WellFoundedInduction, TLAPS

(* An ended call has exactly one event type; a call in progress has none.  *)
LEMMA EventOfStatus ==
  ASSUME NEW s
  PROVE  /\ s \in TERMINAL_CALL_STATUSES => WebhookEventOf(s) \in WebhookEventTypes
         /\ WebhookEventOf(s) = NoEvent \/ WebhookEventOf(s) \in WebhookEventTypes
         /\ NoEvent \notin WebhookEventTypes
         /\ WebhookEventOf(s) # NoEvent => s \in TERMINAL_CALL_STATUSES
  BY DEF WebhookEventOf, WebhookEventTypes, NoEvent, TERMINAL_CALL_STATUSES

(* The type of a payload depends on the status alone.                      *)
LEMMA PayloadType ==
  ASSUME NEW s, NEW h
  PROVE  mapCallOutcomeToWebhookPayload(s, h).type = WebhookEventOf(s)
  BY DEF mapCallOutcomeToWebhookPayload

(* FAILED is one of the statuses.                                          *)
LEMMA StatusFacts ==
  /\ {"QUEUED", "DIALING", "RINGING", "IN_PROGRESS"} \subseteq CallStatuses
  /\ TERMINAL_CALL_STATUSES \subseteq CallStatuses
  /\ "FAILED" \in CallStatuses /\ "FAILED" \in TERMINAL_CALL_STATUSES
  /\ NoStatus \notin CallStatuses
  BY DEF CallStatuses, TERMINAL_CALL_STATUSES, NoStatus

LEMMA SingletonSeq ==
  ASSUME NEW S, NEW x \in S
  PROVE  <<x>> \in Seq(S)
  OBVIOUS

LEMMA LoggedEventType ==
  ASSUME NEW t \in EventTypes, NEW n \in Nat,
         events \in Seq(CallEvents), LogEvent(t, n)
  PROVE  events' \in Seq(CallEvents)
  BY DEF LogEvent, CallEvents

LEMMA NextTransition ==
  ASSUME TypeOK, NEW r \in Runs, step[r] <= Len(plan[r])
  PROVE  plan[r][step[r]] \in CallTransitions
  BY DEF TypeOK

-----------------------------------------------------------------------------
LEMMA InitRunsInv == Init => RunsInv
<1> SUFFICES ASSUME Init PROVE RunsInv
  OBVIOUS
<1>1. TypeOK
  <2>1. events \in Seq(CallEvents)
    <3>1. [eventType |-> "call_queued", turn |-> 0] \in CallEvents
      BY DEF CallEvents, EventTypes
    <3> QED BY <3>1, SingletonSeq DEF Init
  <2>2. deliveries \in 0..MaxStalledCount+1
    BY StalledAssumption DEF Init
  <2>3. plan \in [Runs -> Seq(CallTransitions)]
    BY DEF Init
  <2>4. finalEvents \in [Runs -> Seq(CallEvents)]
    BY DEF Init, NoEvents
  <2>5. callCosts \in [Legs -> Nat] /\ step \in [Runs -> Nat \ {0}]
    BY DEF Init
  <2>6. pc \in [Runs -> Labels] /\ callStatus \in CallStatuses
    BY DEF Init, Labels, CallStatuses
  <2> QED BY <2>1, <2>2, <2>3, <2>4, <2>5, <2>6 DEF Init, TypeOK
<1>2. JobsMatchRows
  BY DEF Init, JobsMatchRows
<1>3. \A r \in Runs : RunOK(r)
  BY DEF Init, RunOK, Body, WrapUp
<1> QED BY <1>1, <1>2, <1>3 DEF RunsInv

-----------------------------------------------------------------------------
(* BullMQ's steps move a run to another point of the processor at most.    *)
LEMMA QueueStep ==
  ASSUME RunsInv, (\E r \in Runs : Deliver(r) \/ Crash(r)) \/ StalledAfterCrash \/ LockExpires
  PROVE  RunsInv'
<1>1. CASE \E r \in Runs : Deliver(r)
  <2> PICK r \in Runs : Deliver(r)
    BY <1>1
  <2>1. TypeOK'
    BY DEF RunsInv, TypeOK, Deliver, Runs, Labels, dbVars, runnerVars, finallyVars
  <2>2. JobsMatchRows'
    BY DEF RunsInv, JobsMatchRows, Deliver, dbVars
  <2>3. \A q \in Runs : RunOK(q)'
    BY DEF RunsInv, TypeOK, RunOK, Deliver, Body, WrapUp, dbVars, runnerVars, finallyVars
  <2> QED BY <2>1, <2>2, <2>3 DEF RunsInv
<1>2. CASE \E r \in Runs : Crash(r)
  <2> PICK r \in Runs : Crash(r)
    BY <1>2
  <2>1. TypeOK'
    BY DEF RunsInv, TypeOK, Crash, GoTo, Labels, dbVars, runnerVars, finallyVars
  <2>2. JobsMatchRows'
    BY DEF RunsInv, JobsMatchRows, Crash, dbVars
  <2>3. \A q \in Runs : RunOK(q)'
    BY DEF RunsInv, TypeOK, RunOK, Crash, GoTo, Body, WrapUp, dbVars, runnerVars, finallyVars
  <2> QED BY <2>1, <2>2, <2>3 DEF RunsInv
<1>3. CASE StalledAfterCrash \/ LockExpires
  <2> MoveStalledJob
    BY <1>3 DEF StalledAfterCrash, LockExpires
  <2>1. TypeOK'
    BY DEF RunsInv, TypeOK, MoveStalledJob, dbVars, runnerVars, finallyVars
  <2>2. JobsMatchRows'
    BY DEF RunsInv, JobsMatchRows, MoveStalledJob, dbVars
  <2>3. \A q \in Runs : RunOK(q)'
    BY DEF RunsInv, RunOK, MoveStalledJob, dbVars, runnerVars, finallyVars
  <2> QED BY <2>1, <2>2, <2>3 DEF RunsInv
<1> QED BY <1>1, <1>2, <1>3

-----------------------------------------------------------------------------
(* The try and catch blocks, when nothing is lost.                         *)
LEMMA RunnerStep ==
  ASSUME RunsInv, NEW r \in Runs,
         Load(r) \/ AppendEvent(r) \/ UpdateStatus(r) \/ RunnerReturns(r)
           \/ RunnerThrows(r) \/ CatchAppend(r) \/ CatchUpdate(r)
  PROVE  RunsInv'
<1> USE DEF RunsInv
<1>1. CASE Load(r)
  <2>1. TypeOK'
    <3>1. plan' \in [Runs -> Seq(CallTransitions)]
      <4>1. plan \in [Runs -> Seq(CallTransitions)] /\ Plans[scenario] \subseteq Seq(CallTransitions)
        BY PlansAssumption DEF TypeOK
      <4>2. plan' = plan \/ \E p \in Plans[scenario] : plan' = [plan EXCEPT ![r] = p]
        BY <1>1 DEF Load
      <4> QED BY <4>1, <4>2
    <3>2. currentStatus' \in [Runs -> CallStatuses \cup {NoStatus}]
      BY <1>1 DEF TypeOK, Load
    <3>3. pc' \in [Runs -> Labels] /\ jobState' \in {"waiting", "active", "finished"}
      BY <1>1 DEF TypeOK, Load, GoTo, Leave, Labels
    <3> QED BY <1>1, <3>1, <3>2, <3>3 DEF TypeOK, Load, dbVars, finallyVars
  <2>2. JobsMatchRows'
    BY <1>1 DEF JobsMatchRows, Load, dbVars
  <2>3. ASSUME NEW q \in Runs PROVE RunOK(q)'
    <3>1. /\ finalCall' = finalCall /\ endpoints' = endpoints /\ endpoint' = endpoint
          /\ outbox' = outbox /\ step' = step
      BY <1>1 DEF Load, dbVars, finallyVars
    <3>2. CASE q # r
      <4>1. pc'[q] = pc[q] /\ currentStatus'[q] = currentStatus[q] /\ plan'[q] = plan[q]
        BY <1>1, <3>2 DEF TypeOK, Load, GoTo, Leave
      <4> QED BY <3>1, <4>1 DEF RunOK
    <3>3. CASE q = r
      <4>1. pc'[r] = "done" \/ (pc'[r] = "run" /\ currentStatus'[r] \in CallStatuses)
        BY <1>1 DEF TypeOK, Load, GoTo, Leave
      <4> QED BY <3>3, <4>1 DEF RunOK, Body, WrapUp
    <3> QED BY <3>2, <3>3
  <2> QED BY <2>1, <2>2, <2>3
<1>2. CASE AppendEvent(r)
  <2> DEFINE t == plan[r][step[r]]
  <2>1. t \in CallTransitions
    BY <1>2, NextTransition DEF AppendEvent
  <2>2. events' \in Seq(CallEvents)
    BY <1>2, <2>1, LoggedEventType DEF AppendEvent, TypeOK, CallTransitions
  <2>3. TypeOK'
    <3>1. step' \in [Runs -> Nat \ {0}]
      <4>1. step' = step \/ step' = [step EXCEPT ![r] = step[r] + 1]
        BY <1>2 DEF AppendEvent
      <4>2. step \in [Runs -> Nat \ {0}] /\ step[r] + 1 \in Nat \ {0}
        BY DEF TypeOK
      <4> QED BY <4>1, <4>2
    <3>2. pc' \in [Runs -> Labels] /\ jobState' = jobState
      BY <1>2 DEF TypeOK, AppendEvent, GoTo, Labels
    <3> QED BY <1>2, <2>2, <3>1, <3>2 DEF TypeOK, AppendEvent, finallyVars
  <2>4. JobsMatchRows'
    BY <1>2 DEF JobsMatchRows, AppendEvent
  <2>5. ASSUME NEW q \in Runs PROVE RunOK(q)'
    <3>1. /\ finalCall' = finalCall /\ endpoints' = endpoints /\ endpoint' = endpoint
          /\ outbox' = outbox /\ currentStatus' = currentStatus /\ plan' = plan
      BY <1>2 DEF AppendEvent, finallyVars
    <3>2. CASE q # r
      <4>1. pc'[q] = pc[q] /\ step'[q] = step[q]
        BY <1>2, <3>2 DEF TypeOK, AppendEvent, GoTo
      <4> QED BY <3>1, <4>1 DEF RunOK
    <3>3. CASE q = r
      <4>1. currentStatus[r] \in CallStatuses
        BY <1>2 DEF AppendEvent, RunOK, Body
      <4>2. \/ pc'[r] \in {"run", "catch"}
            \/ /\ pc'[r] = "update" /\ step'[r] = step[r]
               /\ t.status # NoStatus /\ isValidStatusTransition(currentStatus[r], t.status)
        BY <1>2 DEF TypeOK, AppendEvent, GoTo
      <4>3. t.status # NoStatus => t.status \in CallStatuses
        BY <2>1 DEF CallTransitions
      <4>4. step[r] <= Len(plan[r])
        BY <1>2 DEF AppendEvent
      <4> HIDE DEF t
      <4>5. CASE pc'[r] \in {"run", "catch"}
        BY <3>1, <3>3, <4>1, <4>5 DEF RunOK, Body, WrapUp
      <4>6. CASE pc'[r] = "update"
        BY <3>1, <3>3, <4>1, <4>2, <4>3, <4>4, <4>6 DEF RunOK, Body, WrapUp, t
      <4> QED BY <4>2, <4>5, <4>6
    <3> QED BY <3>2, <3>3
  <2> QED BY <2>3, <2>4, <2>5
<1>3. CASE UpdateStatus(r)
  <2>1. plan[r][step[r]].status \in CallStatuses
    BY <1>3 DEF UpdateStatus, RunOK
  <2>2. TypeOK'
    BY <1>3, <2>1 DEF TypeOK, UpdateStatus, GoTo, Labels, finallyVars
  <2>3. JobsMatchRows'
    BY <1>3 DEF JobsMatchRows, UpdateStatus
  <2>4. \A q \in Runs : RunOK(q)'
    BY <1>3, <2>1 DEF TypeOK, RunOK, UpdateStatus, GoTo, Body, WrapUp, finallyVars
  <2> QED BY <2>2, <2>3, <2>4
<1>4. CASE RunnerReturns(r)
  <2>1. TypeOK'
    BY <1>4 DEF TypeOK, RunnerReturns, EnterFinally, GoTo, Leave, Labels, dbVars, runnerVars, finallyVars
  <2>2. JobsMatchRows'
    BY <1>4 DEF JobsMatchRows, RunnerReturns, dbVars
  <2>3. \A q \in Runs : RunOK(q)'
    BY <1>4 DEF TypeOK, RunOK, RunnerReturns, EnterFinally, GoTo, Leave, Body, WrapUp,
                dbVars, runnerVars, finallyVars
  <2> QED BY <2>1, <2>2, <2>3
<1>5. CASE RunnerThrows(r)
  <2>1. TypeOK'
    BY <1>5 DEF TypeOK, RunnerThrows, GoTo, Labels, dbVars, runnerVars, finallyVars
  <2>2. JobsMatchRows'
    BY <1>5 DEF JobsMatchRows, RunnerThrows, dbVars
  <2>3. \A q \in Runs : RunOK(q)'
    BY <1>5 DEF TypeOK, RunOK, RunnerThrows, GoTo, Body, WrapUp, dbVars, runnerVars, finallyVars
  <2> QED BY <2>1, <2>2, <2>3
<1>6. CASE CatchAppend(r)
  <2>1. events' \in Seq(CallEvents)
    BY <1>6, LoggedEventType DEF CatchAppend, TypeOK, EventTypes
  <2>2. TypeOK'
    BY <1>6, <2>1 DEF TypeOK, CatchAppend, EnterFinally, GoTo, Leave, Labels, runnerVars, finallyVars
  <2>3. JobsMatchRows'
    BY <1>6 DEF JobsMatchRows, CatchAppend
  <2>4. \A q \in Runs : RunOK(q)'
    BY <1>6 DEF TypeOK, RunOK, CatchAppend, EnterFinally, GoTo, Leave, Body, WrapUp,
                runnerVars, finallyVars
  <2> QED BY <2>2, <2>3, <2>4
<1>7. CASE CatchUpdate(r)
  <2>1. TypeOK'
    BY <1>7, StatusFacts DEF TypeOK, CatchUpdate, EnterFinally, GoTo, Leave, Labels, finallyVars
  <2>2. JobsMatchRows'
    BY <1>7 DEF JobsMatchRows, CatchUpdate
  <2>3. \A q \in Runs : RunOK(q)'
    BY <1>7, StatusFacts DEF TypeOK, RunOK, CatchUpdate, EnterFinally, GoTo, Leave, Body, WrapUp,
                finallyVars
  <2> QED BY <2>1, <2>2, <2>3
<1> QED BY <1>1, <1>2, <1>3, <1>4, <1>5, <1>6, <1>7

(* The finally block.                                                      *)
LEMMA WrapUpStep ==
  ASSUME RunsInv, NEW r \in Runs,
         RereadCall(r) \/ RereadEvents(r) \/ ListEndpoints(r)
           \/ (\E e \in Endpoints : CreateOutboxRow(r, e))
           \/ AddDispatchJob(r) \/ EnqueueReturns(r)
  PROVE  RunsInv'
<1> USE DEF RunsInv
<1>1. CASE RereadCall(r)
  <2>1. TypeOK'
    BY <1>1 DEF TypeOK, RereadCall, GoTo, Labels, dbVars, runnerVars
  <2>2. JobsMatchRows'
    BY <1>1 DEF JobsMatchRows, RereadCall, dbVars
  <2>3. \A q \in Runs : RunOK(q)'
    BY <1>1 DEF TypeOK, RunOK, RereadCall, GoTo, Body, WrapUp, dbVars, runnerVars
  <2> QED BY <2>1, <2>2, <2>3
<1>2. CASE RereadEvents(r)
  <2>1. TypeOK'
    BY <1>2 DEF TypeOK, RereadEvents, GoTo, Labels, dbVars, runnerVars
  <2>2. JobsMatchRows'
    BY <1>2 DEF JobsMatchRows, RereadEvents, dbVars
  <2>3. \A q \in Runs : RunOK(q)'
    BY <1>2 DEF TypeOK, RunOK, RereadEvents, GoTo, Body, WrapUp, dbVars, runnerVars
  <2> QED BY <2>1, <2>2, <2>3
<1>3. CASE ListEndpoints(r)
  <2>1. TypeOK'
    BY <1>3 DEF TypeOK, ListEndpoints, GoTo, Labels, dbVars, runnerVars
  <2>2. JobsMatchRows'
    BY <1>3 DEF JobsMatchRows, ListEndpoints, dbVars
  <2>3. \A q \in Runs : RunOK(q)'
    BY <1>3 DEF TypeOK, RunOK, ListEndpoints, GoTo, Body, WrapUp, dbVars, runnerVars
  <2> QED BY <2>1, <2>2, <2>3
<1>4. CASE \E e \in Endpoints : CreateOutboxRow(r, e)
  <2> PICK e \in Endpoints : CreateOutboxRow(r, e)
    BY <1>4
  <2> DEFINE payload == mapCallOutcomeToWebhookPayload(finalCall[r], finalEvents[r])
             row == [endpoint |-> e, eventType |-> payload.type,
                     reason |-> payload.reason, transcript |-> payload.transcript]
             inserted == ~ \E o \in outbox : /\ o.endpoint = e
                                             /\ o.eventType = payload.type
  <2>1. payload.type = WebhookEventOf(finalCall[r])
    BY PayloadType
  <2>2. WebhookEventOf(finalCall[r]) \in WebhookEventTypes
    <3>1. WebhookEventOf(finalCall[r]) \in Subscribed[e]
      BY DEF CreateOutboxRow, RunOK
    <3> QED BY <3>1, SubscribedAssumption
  <2>3. row.endpoint = e /\ row.eventType = payload.type
    OBVIOUS
  <2>4. outbox' = IF inserted THEN outbox \cup {row} ELSE outbox
    BY DEF CreateOutboxRow
  <2>5. TypeOK'
    <3>1. \A o \in outbox' : OutboxRowOK(o)
      BY <2>1, <2>2, <2>3, <2>4 DEF TypeOK, OutboxRowOK
    <3>2. endpoint' \in [Runs -> Endpoints \cup {NoEndpoint}]
      BY DEF TypeOK, CreateOutboxRow
    <3>3. endpoints' \in [Runs -> SUBSET Endpoints]
      BY DEF TypeOK, CreateOutboxRow
    <3>4. pc' \in [Runs -> Labels] /\ jobState' = jobState
      BY DEF TypeOK, CreateOutboxRow, GoTo, Labels
    <3> QED BY <3>1, <3>2, <3>3, <3>4 DEF TypeOK, CreateOutboxRow, runnerVars
  <2>6. JobsMatchRows'
    <3>1. dispatchJobs' = dispatchJobs /\ outbox \subseteq outbox'
      BY <2>4 DEF CreateOutboxRow
    <3>2. ASSUME NEW o1 \in outbox', NEW o2 \in outbox',
                 <<o1.eventType, o1.endpoint>> = <<o2.eventType, o2.endpoint>>
          PROVE  o1 = o2
      BY <2>3, <2>4, <3>2 DEF JobsMatchRows
    <3> QED BY <3>1, <3>2 DEF JobsMatchRows
  <2>7. ASSUME NEW q \in Runs PROVE RunOK(q)'
    <3>1. /\ finalCall' = finalCall /\ currentStatus' = currentStatus
          /\ plan' = plan /\ step' = step
          /\ outbox \subseteq outbox'
      BY <2>4 DEF CreateOutboxRow, runnerVars
    <3>2. CASE q # r
      BY <3>1, <3>2 DEF TypeOK, RunOK, CreateOutboxRow, GoTo
    <3>3. CASE q = r
      <4>1. RunOK(r) /\ pc[r] = "create"
        BY DEF CreateOutboxRow
      <4>2. /\ finalCall[r] \in CallStatuses /\ currentStatus[r] \in CallStatuses
            /\ \A x \in endpoints[r] : WebhookEventOf(finalCall[r]) \in Subscribed[x]
        BY <4>1 DEF RunOK, Body, WrapUp
      <4>3. endpoints'[r] \subseteq endpoints[r]
        BY DEF CreateOutboxRow, TypeOK
      <4>4. CASE inserted
        <5>1. pc'[r] = "queueAdd" /\ endpoint'[r] = e /\ row \in outbox'
          BY <2>4, <4>4 DEF CreateOutboxRow, GoTo, TypeOK
        <5> HIDE DEF row
        <5> QED BY <2>1, <2>3, <3>1, <3>3, <4>2, <4>3, <5>1 DEF RunOK, Body, WrapUp
      <4>5. CASE ~inserted
        <5>1. pc'[r] = "create"
          BY <4>1, <4>5 DEF CreateOutboxRow
        <5> QED BY <3>1, <3>3, <4>2, <4>3, <5>1 DEF RunOK, Body, WrapUp
      <4> QED BY <4>4, <4>5
    <3> QED BY <3>2, <3>3
  <2> QED BY <2>5, <2>6, <2>7
<1>5. CASE AddDispatchJob(r)
  <2> DEFINE key == RowKey(WebhookEventOf(finalCall[r]), endpoint[r])
  <2>1. PICK o \in outbox : <<o.eventType, o.endpoint>> = key
    BY <1>5 DEF AddDispatchJob, RunOK, RowKey
  <2>2. key \in WebhookEventTypes \X Endpoints
    BY <2>1 DEF TypeOK, OutboxRowOK, RowKey
  <2>3. TypeOK'
    BY <1>5, <2>2 DEF TypeOK, AddDispatchJob, GoTo, Labels, dbVars, runnerVars, finallyVars
  <2>4. JobsMatchRows'
    BY <1>5, <2>1 DEF JobsMatchRows, AddDispatchJob, dbVars
  <2>5. \A q \in Runs : RunOK(q)'
    BY <1>5 DEF TypeOK, RunOK, AddDispatchJob, GoTo, Body, WrapUp, dbVars, runnerVars, finallyVars
  <2> QED BY <2>3, <2>4, <2>5
<1>6. CASE EnqueueReturns(r)
  <2>1. TypeOK'
    BY <1>6 DEF TypeOK, EnqueueReturns, GoTo, Labels, dbVars, runnerVars, finallyVars
  <2>2. JobsMatchRows'
    BY <1>6 DEF JobsMatchRows, EnqueueReturns, dbVars
  <2>3. \A q \in Runs : RunOK(q)'
    BY <1>6 DEF TypeOK, RunOK, EnqueueReturns, GoTo, Body, WrapUp, dbVars, runnerVars, finallyVars
  <2> QED BY <2>1, <2>2, <2>3
<1> QED BY <1>1, <1>2, <1>3, <1>4, <1>5, <1>6

(* The side effects after the webhooks.                                    *)
LEMMA MeterAndRecordStep ==
  ASSUME RunsInv, NEW r \in Runs,
         MeterStart(r) \/ (\E l \in Legs : MeterLeg(r, l)) \/ MeterReturns(r)
           \/ FindRecording(r) \/ CreateRecording(r)
  PROVE  RunsInv'
<1> USE DEF RunsInv
<1>1. CASE MeterStart(r)
  <2>1. TypeOK'
    BY <1>1 DEF TypeOK, MeterStart, GoTo, Labels, dbVars, runnerVars
  <2>2. JobsMatchRows'
    BY <1>1 DEF JobsMatchRows, MeterStart, dbVars
  <2>3. \A q \in Runs : RunOK(q)'
    BY <1>1 DEF TypeOK, RunOK, MeterStart, GoTo, Body, WrapUp, dbVars, runnerVars
  <2> QED BY <2>1, <2>2, <2>3
<1>2. CASE \E l \in Legs : MeterLeg(r, l)
  <2> PICK l \in Legs : MeterLeg(r, l)
    BY <1>2
  <2>1. events' \in Seq(CallEvents)
    BY LoggedEventType DEF MeterLeg, TypeOK, EventTypes
  <2>2. callCosts' \in [Legs -> Nat]
    <3>1. callCosts' = callCosts \/ callCosts' = [callCosts EXCEPT ![l] = callCosts[l] + 1]
      BY DEF MeterLeg
    <3>2. callCosts \in [Legs -> Nat] /\ callCosts[l] + 1 \in Nat
      BY DEF TypeOK
    <3> QED BY <3>1, <3>2
  <2>3. TypeOK'
    BY <2>1, <2>2 DEF TypeOK, MeterLeg, queueVars, runnerVars
  <2>4. JobsMatchRows'
    BY DEF JobsMatchRows, MeterLeg, queueVars
  <2>5. \A q \in Runs : RunOK(q)'
    BY DEF RunOK, MeterLeg, Body, WrapUp, queueVars, runnerVars
  <2> QED BY <2>3, <2>4, <2>5
<1>3. CASE MeterReturns(r)
  <2>1. TypeOK'
    BY <1>3 DEF TypeOK, MeterReturns, GoTo, Labels, dbVars, runnerVars, finallyVars
  <2>2. JobsMatchRows'
    BY <1>3 DEF JobsMatchRows, MeterReturns, dbVars
  <2>3. \A q \in Runs : RunOK(q)'
    BY <1>3 DEF TypeOK, RunOK, MeterReturns, GoTo, Body, WrapUp, dbVars, runnerVars, finallyVars
  <2> QED BY <2>1, <2>2, <2>3
<1>4. CASE FindRecording(r)
  <2>1. TypeOK'
    BY <1>4 DEF TypeOK, FindRecording, GoTo, Leave, Labels, dbVars, runnerVars, finallyVars
  <2>2. JobsMatchRows'
    BY <1>4 DEF JobsMatchRows, FindRecording, dbVars
  <2>3. \A q \in Runs : RunOK(q)'
    BY <1>4 DEF TypeOK, RunOK, FindRecording, GoTo, Leave, Body, WrapUp, dbVars, runnerVars, finallyVars
  <2> QED BY <2>1, <2>2, <2>3
<1>5. CASE CreateRecording(r)
  <2>1. TypeOK'
    BY <1>5 DEF TypeOK, CreateRecording, Leave, Labels, runnerVars, finallyVars
  <2>2. JobsMatchRows'
    BY <1>5 DEF JobsMatchRows, CreateRecording
  <2>3. \A q \in Runs : RunOK(q)'
    BY <1>5 DEF TypeOK, RunOK, CreateRecording, Leave, Body, WrapUp, runnerVars, finallyVars
  <2> QED BY <2>1, <2>2, <2>3
<1> QED BY <1>1, <1>2, <1>3, <1>4, <1>5

(* Failing database and Redis calls.                                       *)
LEMMA StoreStep ==
  ASSUME RunsInv, NEW r \in Runs, StoreError(r) \/ UpdateAckLost(r)
  PROVE  RunsInv'
<1> USE DEF RunsInv
<1>1. CASE StoreError(r)
  <2> DEFINE Targets == {"done", "catch", "reread", "meter", "record"}
  <2>1. /\ pc' = [pc EXCEPT ![r] = pc'[r]] /\ pc'[r] \in Targets
        /\ jobState' \in {jobState, "finished"}
    BY <1>1 DEF TypeOK, StoreError, EnterFinally, GoTo, Leave
  <2>2. UNCHANGED <<dbVars, dispatchJobs, owner, deliveries, runnerVars, finallyVars>>
    BY <1>1 DEF StoreError
  <2>3. TypeOK'
    BY <2>1, <2>2 DEF TypeOK, Labels, dbVars, runnerVars, finallyVars
  <2>4. JobsMatchRows'
    BY <2>2 DEF JobsMatchRows, dbVars
  <2>5. ASSUME NEW q \in Runs PROVE RunOK(q)'
    <3>1. CASE q # r
      <4>1. pc'[q] = pc[q]
        BY <2>1, <3>1 DEF TypeOK
      <4> QED BY <2>2, <4>1 DEF RunOK, dbVars, runnerVars, finallyVars
    <3>2. CASE q = r
      <4>1. pc[r] \in Body \/ pc'[r] = "done"
        BY <1>1 DEF StoreError, Leave, TypeOK, Body, WrapUp
      <4>2. pc'[r] \in {"meter", "record"} => pc[r] \in WrapUp \ {"reread", "rereadCall"}
        BY <1>1 DEF StoreError, EnterFinally, GoTo, Leave, TypeOK, WrapUp
      <4> QED BY <2>1, <2>2, <3>2, <4>1, <4>2 DEF RunOK, Body, WrapUp, dbVars, runnerVars, finallyVars
    <3> QED BY <3>1, <3>2
  <2> QED BY <2>3, <2>4, <2>5
<1>2. CASE UpdateAckLost(r)
  <2>1. callStatus' \in CallStatuses
    BY <1>2, StatusFacts DEF UpdateAckLost, RunOK
  <2>2. TypeOK'
    BY <1>2, <2>1 DEF TypeOK, UpdateAckLost, EnterFinally, GoTo, Leave, Labels, runnerVars, finallyVars
  <2>3. JobsMatchRows'
    BY <1>2 DEF JobsMatchRows, UpdateAckLost
  <2>4. \A q \in Runs : RunOK(q)'
    BY <1>2 DEF TypeOK, RunOK, UpdateAckLost, EnterFinally, GoTo, Leave, Body, WrapUp,
                runnerVars, finallyVars
  <2> QED BY <2>2, <2>3, <2>4
<1> QED BY <1>1, <1>2

LEMMA RunsInvStep == RunsInv /\ [Next]_vars => RunsInv'
<1> SUFFICES ASSUME RunsInv, [Next]_vars PROVE RunsInv'
  OBVIOUS
<1>1. CASE Next
  BY <1>1, QueueStep, RunnerStep, WrapUpStep, MeterAndRecordStep, StoreStep
  DEF Next, Progress, Mishap
<1>2. CASE UNCHANGED vars
  BY <1>2 DEF RunsInv, TypeOK, JobsMatchRows, RunOK, vars, dbVars, queueVars, runnerVars, finallyVars
<1> QED BY <1>1, <1>2

(* Every variable of the executor keeps its type, whatever goes wrong.     *)
THEOREM TypeCorrect == Spec => []TypeOK
<1>1. Spec => []RunsInv
  BY InitRunsInv, RunsInvStep, PTL DEF Spec
<1>2. RunsInv => TypeOK
  BY DEF RunsInv
<1> QED BY <1>1, <1>2, PTL

(* However many runs race, crash or fail, the outbox has one row per       *)
(* endpoint and event type, and no dispatch job is without its row.        *)
THEOREM JobsAlwaysMatchRows == Spec => []JobsMatchRows
<1>1. Spec => []RunsInv
  BY InitRunsInv, RunsInvStep, PTL DEF Spec
<1>2. RunsInv => JobsMatchRows
  BY DEF RunsInv
<1> QED BY <1>1, <1>2, PTL

-----------------------------------------------------------------------------
(* Without lost locks and lost acknowledgements there is one writer.       *)

LEMMA InitSingleWriterInv == Init => SingleWriterInv
<1> SUFFICES ASSUME Init PROVE SingleWriterInv
  OBVIOUS
<1>1. RunsInv
  BY InitRunsInv
<1>2. OneLiveRun
  BY DEF Init, OneLiveRun, Live
<1>3. \A r \in Runs : SoleRunOK(r)
  BY DEF Init, SoleRunOK, LocalStatusIsStored, WrapUpIsFinal, LegsUnbilled, Body, WrapUp
<1>4. OutputsMatchStatus
  BY DEF Init, OutputsMatchStatus
<1>5. BilledAtMostOnce
  BY DEF Init, BilledAtMostOnce
<1> QED BY <1>1, <1>2, <1>3, <1>4, <1>5 DEF SingleWriterInv

(* What is left to show of a step of the live run r: the other runs are    *)
(* outside of the processor.                                               *)
LEMMA StepOfLiveRun ==
  ASSUME SingleWriterInv, RunsInv', NEW r \in Runs, Live(r),
         \A q \in Runs \ {r} : pc'[q] = pc[q], owner' = owner,
         jobState' = jobState \/ pc'[r] \in {"done", "crashed"},
         SoleRunOK(r)', OutputsMatchStatus', BilledAtMostOnce'
  PROVE  SingleWriterInv'
<1>1. owner = r /\ jobState = "active"
  BY DEF SingleWriterInv, OneLiveRun
<1>2. ASSUME NEW q \in Runs \ {r} PROVE pc'[q] \in {"idle", "done", "crashed"}
  BY <1>1, <1>2 DEF SingleWriterInv, OneLiveRun, Live
<1>3. OneLiveRun'
  BY <1>1, <1>2 DEF OneLiveRun, Live
<1>4. ASSUME NEW q \in Runs PROVE SoleRunOK(q)'
  <2>1. CASE q # r
    BY <1>2, <2>1 DEF SoleRunOK, LocalStatusIsStored, WrapUpIsFinal, LegsUnbilled, Body, WrapUp
  <2>2. CASE q = r
    BY <2>2
  <2> QED BY <2>1, <2>2
<1> QED BY <1>3, <1>4 DEF SingleWriterInv

LEMMA SoleQueueStep ==
  ASSUME SingleWriter, SingleWriterInv, RunsInv',
         (\E r \in Runs : Deliver(r) \/ Crash(r)) \/ StalledAfterCrash \/ LockExpires
  PROVE  SingleWriterInv'
<1> USE DEF SingleWriterInv
<1>1. OutputsMatchStatus' /\ BilledAtMostOnce'
  <2>1. UNCHANGED dbVars
    BY DEF Deliver, Crash, StalledAfterCrash, LockExpires, MoveStalledJob
  <2> QED BY <2>1 DEF OutputsMatchStatus, BilledAtMostOnce, dbVars
<1>2. CASE \E r \in Runs : Deliver(r)
  <2> PICK r \in Runs : Deliver(r)
    BY <1>2
  <2>1. \A q \in Runs : pc[q] \in {"idle", "done", "crashed"}
    BY DEF OneLiveRun, Live, Deliver
  <2>2. /\ \A q \in Runs \ {r} : pc'[q] = pc[q]
        /\ pc'[r] = "load" /\ owner' = r /\ jobState' = "active"
    BY DEF Deliver, RunsInv, TypeOK
  <2>3. OneLiveRun'
    BY <2>1, <2>2 DEF OneLiveRun, Live
  <2>4. \A q \in Runs : SoleRunOK(q)'
    BY <2>1, <2>2 DEF SoleRunOK, LocalStatusIsStored, WrapUpIsFinal, LegsUnbilled, Body, WrapUp
  <2> QED BY <1>1, <2>3, <2>4
<1>3. CASE \E r \in Runs : Crash(r)
  <2> PICK r \in Runs : Crash(r)
    BY <1>3
  <2>1. \A q \in Runs \ {r} : pc'[q] = pc[q]
    BY DEF Crash, GoTo, RunsInv, TypeOK
  <2>2. Live(r) /\ owner' = owner /\ jobState' = jobState /\ pc'[r] = "crashed"
    BY DEF Crash, GoTo, RunsInv, TypeOK
  <2>3. SoleRunOK(r)'
    BY <2>2 DEF SoleRunOK, LocalStatusIsStored, WrapUpIsFinal, LegsUnbilled, Body, WrapUp
  <2> QED BY <1>1, <2>1, <2>2, <2>3, StepOfLiveRun
<1>4. CASE StalledAfterCrash
  <2>1. \A q \in Runs : pc[q] \in {"idle", "done", "crashed"}
    BY <1>4 DEF StalledAfterCrash, OneLiveRun, Live
  <2>2. pc' = pc
    BY <1>4 DEF StalledAfterCrash, MoveStalledJob
  <2>3. OneLiveRun' /\ \A q \in Runs : SoleRunOK(q)'
    BY <2>1, <2>2 DEF OneLiveRun, Live, SoleRunOK, LocalStatusIsStored, WrapUpIsFinal,
                     LegsUnbilled, Body, WrapUp
  <2> QED BY <1>1, <2>3
<1>5. CASE LockExpires
  BY <1>5 DEF LockExpires, SingleWriter
<1> QED BY <1>2, <1>3, <1>4, <1>5

(* What each step of the processor leaves alone.                           *)
LEMMA LocalStep ==
  ASSUME TypeOK, NEW r \in Runs, Progress(r) \/ Mishap(r)
  PROVE  /\ Live(r) /\ owner' = owner
         /\ \A q \in Runs \ {r} : pc'[q] = pc[q]
         /\ jobState' = jobState \/ pc'[r] \in {"done", "crashed"}
<1> USE DEF TypeOK, GoTo, Leave, EnterFinally, Live, queueVars
<1>1. CASE Load(r) \/ AppendEvent(r) \/ UpdateStatus(r) \/ RunnerReturns(r) \/ RunnerThrows(r)
  BY <1>1 DEF Load, AppendEvent, UpdateStatus, RunnerReturns, RunnerThrows
<1>2. CASE CatchAppend(r) \/ CatchUpdate(r) \/ RereadCall(r) \/ RereadEvents(r) \/ ListEndpoints(r)
  BY <1>2 DEF CatchAppend, CatchUpdate, RereadCall, RereadEvents, ListEndpoints
<1>3. CASE \E e \in Endpoints : CreateOutboxRow(r, e)
  BY <1>3 DEF CreateOutboxRow
<1>4. CASE AddDispatchJob(r) \/ EnqueueReturns(r) \/ MeterStart(r) \/ MeterReturns(r)
  BY <1>4 DEF AddDispatchJob, EnqueueReturns, MeterStart, MeterReturns
<1>5. CASE \E l \in Legs : MeterLeg(r, l)
  BY <1>5 DEF MeterLeg
<1>6. CASE FindRecording(r) \/ CreateRecording(r) \/ Crash(r)
  BY <1>6 DEF FindRecording, CreateRecording, Crash
<1>7. CASE StoreError(r)
  BY <1>7 DEF StoreError
<1>8. CASE UpdateAckLost(r)
  BY <1>8 DEF UpdateAckLost
<1> QED BY <1>1, <1>2, <1>3, <1>4, <1>5, <1>6, <1>7, <1>8 DEF Progress, Mishap

(* The status the live run writes is a legal successor, and it is written  *)
(* before anything is sent or billed.                                      *)
LEMMA SoleRunnerStep ==
  ASSUME SingleWriterInv, NEW r \in Runs,
         Load(r) \/ AppendEvent(r) \/ UpdateStatus(r) \/ RunnerReturns(r)
           \/ RunnerThrows(r) \/ CatchAppend(r) \/ CatchUpdate(r)
  PROVE  SoleRunOK(r)' /\ OutputsMatchStatus' /\ BilledAtMostOnce'
<1> USE DEF SingleWriterInv, RunsInv, TypeOK, SoleRunOK, LocalStatusIsStored, WrapUpIsFinal,
            LegsUnbilled, Body, WrapUp
<1>1. CASE Load(r)
  <2>1. UNCHANGED dbVars
    BY <1>1 DEF Load
  <2>2. OutputsMatchStatus' /\ BilledAtMostOnce'
    BY <2>1 DEF dbVars, OutputsMatchStatus, BilledAtMostOnce
  <2>3. CASE callStatus \in TERMINAL_CALL_STATUSES
    BY <1>1, <2>2, <2>3 DEF Load, Leave
  <2>4. CASE callStatus \notin TERMINAL_CALL_STATUSES
    <3>1. pc'[r] = "run" /\ currentStatus'[r] = callStatus
      BY <1>1, <2>4 DEF Load, GoTo
    <3>2. \A l \in Legs : callCosts[l] = 0
      BY <2>4 DEF OutputsMatchStatus, TERMINAL_CALL_STATUSES
    <3> QED BY <2>1, <2>2, <3>1, <3>2 DEF dbVars
  <2> QED BY <2>3, <2>4
<1>2. CASE AppendEvent(r)
  <2>1. /\ UNCHANGED <<callStatus, outbox, callCosts, recording, currentStatus>>
        /\ pc[r] = "run" /\ pc'[r] \in {"run", "update", "catch"}
    BY <1>2 DEF AppendEvent, GoTo
  <2> QED BY <2>1 DEF OutputsMatchStatus, BilledAtMostOnce
<1>3. CASE UpdateStatus(r)
  <2>1. /\ UNCHANGED <<outbox, callCosts, recording>>
        /\ pc[r] = "update" /\ pc'[r] = "run" /\ currentStatus'[r] = callStatus'
    BY <1>3 DEF UpdateStatus, GoTo
  <2>2. isValidStatusTransition(callStatus, callStatus')
    BY <1>3 DEF UpdateStatus, RunOK
  <2>3. callStatus \notin TERMINAL_CALL_STATUSES
    BY <2>2 DEF isValidStatusTransition, CALL_STATUS_TRANSITIONS, TERMINAL_CALL_STATUSES
  <2>4. "COMPLETED" \in TERMINAL_CALL_STATUSES
    BY DEF TERMINAL_CALL_STATUSES
  <2> QED BY <2>1, <2>3, <2>4 DEF OutputsMatchStatus, BilledAtMostOnce
<1>4. CASE RunnerReturns(r)
  <2>1. UNCHANGED <<dbVars, currentStatus>> /\ pc[r] = "run"
    BY <1>4 DEF RunnerReturns, runnerVars
  <2>2. pc'[r] = "done" \/ (pc'[r] = "reread" /\ callStatus \in TERMINAL_CALL_STATUSES)
    BY <1>4 DEF RunnerReturns, EnterFinally, GoTo, Leave
  <2> QED BY <2>1, <2>2 DEF dbVars, OutputsMatchStatus, BilledAtMostOnce
<1>5. CASE RunnerThrows(r)
  <2>1. UNCHANGED <<dbVars, currentStatus>> /\ pc[r] = "run" /\ pc'[r] = "catch"
    BY <1>5 DEF RunnerThrows, runnerVars, GoTo
  <2> QED BY <2>1 DEF dbVars, OutputsMatchStatus, BilledAtMostOnce
<1>6. CASE CatchAppend(r)
  <2>1. UNCHANGED <<callStatus, outbox, callCosts, recording, currentStatus>> /\ pc[r] = "catch"
    BY <1>6 DEF CatchAppend, runnerVars
  <2>2. \/ pc'[r] \in {"done", "catchUpdate"}
        \/ pc'[r] = "reread" /\ callStatus \in TERMINAL_CALL_STATUSES
    BY <1>6 DEF CatchAppend, EnterFinally, GoTo, Leave
  <2> QED BY <2>1, <2>2 DEF OutputsMatchStatus, BilledAtMostOnce
<1>7. CASE CatchUpdate(r)
  <2>1. /\ UNCHANGED <<outbox, callCosts, recording>>
        /\ pc[r] = "catchUpdate" /\ pc'[r] = "reread"
        /\ callStatus' = "FAILED" /\ currentStatus'[r] = "FAILED"
    BY <1>7, StatusFacts DEF CatchUpdate, EnterFinally, GoTo
  <2>2. isValidStatusTransition(callStatus, "FAILED")
    BY <1>7 DEF CatchUpdate, RunOK
  <2>3. callStatus \notin TERMINAL_CALL_STATUSES
    BY <2>2 DEF isValidStatusTransition, CALL_STATUS_TRANSITIONS, TERMINAL_CALL_STATUSES
  <2>4. "COMPLETED" \in TERMINAL_CALL_STATUSES /\ "FAILED" \in TERMINAL_CALL_STATUSES
    BY DEF TERMINAL_CALL_STATUSES
  <2> QED BY <2>1, <2>3, <2>4 DEF OutputsMatchStatus, BilledAtMostOnce
<1> QED BY <1>1, <1>2, <1>3, <1>4, <1>5, <1>6, <1>7

LEMMA FirstBill ==
  ASSUME BilledAtMostOnce, NEW l \in Legs,
         \A k \in Legs : callCosts'[k] = callCosts[k] \/ (k = l /\ callCosts'[k] = 1)
  PROVE  BilledAtMostOnce'
<1>1. ASSUME NEW k \in Legs PROVE callCosts'[k] <= 1
  <2>1. callCosts[k] <= 1 /\ 1 <= 1
    BY DEF BilledAtMostOnce
  <2> QED BY <2>1
<1> QED BY <1>1 DEF BilledAtMostOnce

(* What the finally block sends and bills is what the final status asks    *)
(* for.                                                                    *)
LEMMA SoleWrapUpStep ==
  ASSUME SingleWriterInv, NEW r \in Runs,
         RereadCall(r) \/ RereadEvents(r) \/ ListEndpoints(r)
           \/ (\E e \in Endpoints : CreateOutboxRow(r, e))
           \/ AddDispatchJob(r) \/ EnqueueReturns(r)
           \/ MeterStart(r) \/ (\E l \in Legs : MeterLeg(r, l)) \/ MeterReturns(r)
           \/ FindRecording(r) \/ CreateRecording(r) \/ StoreError(r)
  PROVE  SoleRunOK(r)' /\ OutputsMatchStatus' /\ BilledAtMostOnce'
<1> USE DEF SingleWriterInv, RunsInv, TypeOK, SoleRunOK, LocalStatusIsStored, WrapUpIsFinal,
            LegsUnbilled, Body, WrapUp
<1>1. CASE RereadCall(r) \/ RereadEvents(r) \/ ListEndpoints(r) \/ AddDispatchJob(r) \/ EnqueueReturns(r)
  <2>1. UNCHANGED <<dbVars, currentStatus>>
    BY <1>1 DEF RereadCall, RereadEvents, ListEndpoints, AddDispatchJob, EnqueueReturns, runnerVars
  <2>2. /\ pc[r] \in WrapUp \ {"meterLegs", "record", "createRecording"}
        /\ pc'[r] \in WrapUp \ {"meterLegs", "record", "createRecording"}
    BY <1>1 DEF RereadCall, RereadEvents, ListEndpoints, AddDispatchJob, EnqueueReturns, GoTo
  <2>3. pc'[r] \notin {"reread", "rereadCall"} => finalCall'[r] = callStatus
    BY <1>1 DEF RereadCall, RereadEvents, ListEndpoints, AddDispatchJob, EnqueueReturns, GoTo, finallyVars
  <2>4. OutputsMatchStatus' /\ BilledAtMostOnce'
    BY <2>1 DEF dbVars, OutputsMatchStatus, BilledAtMostOnce
  <2> QED BY <2>1, <2>2, <2>3, <2>4 DEF dbVars
<1>2. CASE \E e \in Endpoints : CreateOutboxRow(r, e)
  <2> PICK e \in Endpoints : CreateOutboxRow(r, e)
    BY <1>2
  <2>1. /\ UNCHANGED <<callStatus, callCosts, recording, currentStatus, finalCall>>
        /\ pc[r] = "create" /\ pc'[r] \in {"create", "queueAdd"}
    BY DEF CreateOutboxRow, GoTo, runnerVars
  <2>2. ASSUME NEW o \in outbox'
        PROVE  callStatus \in TERMINAL_CALL_STATUSES /\ o.eventType = WebhookEventOf(callStatus)
    <3>1. o \in outbox \/ o.eventType = mapCallOutcomeToWebhookPayload(finalCall[r], finalEvents[r]).type
      BY DEF CreateOutboxRow
    <3>2. callStatus \in TERMINAL_CALL_STATUSES /\ finalCall[r] = callStatus
      BY <2>1
    <3> QED BY <3>1, <3>2, PayloadType DEF OutputsMatchStatus
  <2> QED BY <2>1, <2>2 DEF OutputsMatchStatus, BilledAtMostOnce
<1>3. CASE MeterStart(r)
  <2>1. UNCHANGED <<dbVars, currentStatus, finalCall>> /\ pc[r] = "meter" /\ pc'[r] = "meterLegs"
    BY <1>3 DEF MeterStart, GoTo, runnerVars
  <2>2. legs'[r] # {} => callStatus = "COMPLETED" /\ legs'[r] \subseteq Legs
    BY <1>3 DEF MeterStart
  <2> QED BY <2>1, <2>2 DEF dbVars, OutputsMatchStatus, BilledAtMostOnce
<1>4. CASE \E l \in Legs : MeterLeg(r, l)
  <2> PICK l \in Legs : MeterLeg(r, l)
    BY <1>4
  <2>1. /\ UNCHANGED <<callStatus, outbox, recording, currentStatus, finalCall, pc>>
        /\ pc[r] = "meterLegs" /\ l \in legs[r] /\ legs'[r] = legs[r] \ {l}
    BY DEF MeterLeg, runnerVars
  <2>2. callStatus = "COMPLETED" /\ callCosts[l] = 0
    BY <2>1
  <2>3. \A k \in Legs : callCosts'[k] = callCosts[k] \/ (k = l /\ callCosts'[k] = 1)
    BY <2>2 DEF MeterLeg
  <2>4. OutputsMatchStatus' /\ BilledAtMostOnce'
    <3>1. OutputsMatchStatus'
      BY <2>1, <2>2 DEF OutputsMatchStatus
    <3>2. BilledAtMostOnce'
      BY <2>3, FirstBill
    <3> QED BY <3>1, <3>2
  <2> QED BY <2>1, <2>3, <2>4
<1>5. CASE MeterReturns(r) \/ FindRecording(r)
  <2>1. UNCHANGED <<dbVars, currentStatus, finalCall>>
    BY <1>5 DEF MeterReturns, FindRecording, runnerVars, finallyVars
  <2>2. \/ pc[r] = "meterLegs" /\ pc'[r] = "record"
        \/ pc[r] = "record" /\ pc'[r] = "createRecording" /\ callStatus = "COMPLETED"
        \/ pc'[r] = "done"
    BY <1>5 DEF MeterReturns, FindRecording, GoTo, Leave
  <2> QED BY <2>1, <2>2 DEF dbVars, OutputsMatchStatus, BilledAtMostOnce
<1>6. CASE CreateRecording(r)
  <2>1. /\ UNCHANGED <<callStatus, outbox, callCosts>>
        /\ pc[r] = "createRecording" /\ pc'[r] = "done"
    BY <1>6 DEF CreateRecording, Leave
  <2> QED BY <2>1 DEF OutputsMatchStatus, BilledAtMostOnce
<1>7. CASE StoreError(r)
  <2>1. UNCHANGED <<dbVars, currentStatus, finalCall>>
    BY <1>7 DEF StoreError, runnerVars, finallyVars
  <2>2. \/ pc[r] \in {"run", "update"} /\ pc'[r] = "catch"
        \/ /\ pc[r] \in {"catch", "catchUpdate"} /\ pc'[r] = "reread"
           /\ callStatus \in TERMINAL_CALL_STATUSES
        \/ pc[r] \in {"list", "queueAdd", "create"} /\ pc'[r] = "meter"
        \/ pc[r] \in {"meter", "meterLegs"} /\ pc'[r] = "record"
        \/ pc'[r] = "done"
    BY <1>7 DEF StoreError, EnterFinally, GoTo, Leave
  <2> QED BY <2>1, <2>2 DEF dbVars, OutputsMatchStatus, BilledAtMostOnce
<1> QED BY <1>1, <1>2, <1>3, <1>4, <1>5, <1>6, <1>7

LEMMA SingleWriterInvStep ==
  ASSUME SingleWriter
  PROVE  SingleWriterInv /\ [Next]_vars => SingleWriterInv'
<1> SUFFICES ASSUME SingleWriterInv, [Next]_vars PROVE SingleWriterInv'
  OBVIOUS
<1>1. RunsInv'
  BY RunsInvStep DEF SingleWriterInv
<1>2. CASE (\E r \in Runs : Deliver(r) \/ Crash(r)) \/ StalledAfterCrash \/ LockExpires
  BY <1>1, <1>2, SoleQueueStep
<1>3. ASSUME NEW r \in Runs, Progress(r) \/ RunnerThrows(r) \/ StoreError(r)
      PROVE  SingleWriterInv'
  <2>1. SoleRunOK(r)' /\ OutputsMatchStatus' /\ BilledAtMostOnce'
    BY <1>3, SoleRunnerStep, SoleWrapUpStep DEF Progress
  <2>2. /\ Live(r) /\ owner' = owner
        /\ \A q \in Runs \ {r} : pc'[q] = pc[q]
        /\ jobState' = jobState \/ pc'[r] \in {"done", "crashed"}
    BY <1>3, LocalStep DEF SingleWriterInv, RunsInv, Mishap
  <2> QED BY <1>1, <2>1, <2>2, StepOfLiveRun
<1>4. CASE \E r \in Runs : UpdateAckLost(r)
  BY <1>4 DEF UpdateAckLost, SingleWriter
<1>5. CASE UNCHANGED vars
  BY <1>1, <1>5 DEF SingleWriterInv, OneLiveRun, Live, SoleRunOK, LocalStatusIsStored, WrapUpIsFinal,
     LegsUnbilled, OutputsMatchStatus, BilledAtMostOnce, vars, dbVars, queueVars, runnerVars, finallyVars
<1> QED BY <1>2, <1>3, <1>4, <1>5 DEF Next, Mishap

(* No leg of a call is billed twice, however often its job is redelivered. *)
THEOREM NeverBilledTwice ==
  ASSUME SingleWriter
  PROVE  Spec => []BilledAtMostOnce
<1>1. Spec => []SingleWriterInv
  BY InitSingleWriterInv, SingleWriterInvStep, PTL DEF Spec
<1>2. SingleWriterInv => BilledAtMostOnce
  BY DEF SingleWriterInv
<1> QED BY <1>1, <1>2, PTL

-----------------------------------------------------------------------------
(* The refinement: every step is a step of the lifecycle, or stutters.     *)

Issued == {<<o.eventType, o.endpoint>> : o \in outbox}
BilledLegs == {l \in Legs : callCosts[l] > 0}

LEMMA InitRefines == Init => Lifecycle!LifecycleInit
  BY DEF Init, Lifecycle!LifecycleInit

(* The steps that write no row the lifecycle speaks of.                    *)
LEMMA SilentStep ==
  ASSUME UNCHANGED <<callStatus, outbox, callCosts, recording>>
  PROVE  UNCHANGED <<callStatus, Issued, BilledLegs, recording>>
  BY DEF Issued, BilledLegs

LEMMA StatusStep ==
  ASSUME SingleWriterInv, NEW r \in Runs, UpdateStatus(r) \/ CatchUpdate(r)
  PROVE  Lifecycle!Advance
<1> USE DEF SingleWriterInv, RunsInv, SoleRunOK
<1>1. isValidStatusTransition(callStatus, callStatus') /\ callStatus' \in CallStatuses
  <2>1. CASE UpdateStatus(r)
    BY <2>1 DEF UpdateStatus, RunOK, LocalStatusIsStored, Body
  <2>2. CASE CatchUpdate(r)
    BY <2>2, StatusFacts DEF CatchUpdate, RunOK, LocalStatusIsStored, Body
  <2> QED BY <2>1, <2>2
<1>2. UNCHANGED <<outbox, callCosts, recording>>
  BY DEF UpdateStatus, CatchUpdate
<1> QED BY <1>1, <1>2
        DEF Lifecycle!Advance, Lifecycle!isValidStatusTransition, isValidStatusTransition,
            Lifecycle!CALL_STATUS_TRANSITIONS, CALL_STATUS_TRANSITIONS,
            Lifecycle!CallStatuses, CallStatuses

LEMMA OutboxStep ==
  ASSUME SingleWriterInv, NEW r \in Runs, NEW e \in Endpoints, CreateOutboxRow(r, e)
  PROVE  Lifecycle!IssueWebhook(e) \/ UNCHANGED <<callStatus, outbox, callCosts, recording>>
<1> DEFINE type == WebhookEventOf(callStatus)
           payload == mapCallOutcomeToWebhookPayload(finalCall[r], finalEvents[r])
           inserted == ~ \E o \in outbox : /\ o.endpoint = e
                                           /\ o.eventType = payload.type
<1>1. /\ callStatus \in TERMINAL_CALL_STATUSES /\ type \in Subscribed[e]
      /\ payload.type = type
  <2>1. pc[r] = "create" /\ e \in endpoints[r]
    BY DEF CreateOutboxRow
  <2>2. callStatus \in TERMINAL_CALL_STATUSES /\ finalCall[r] = callStatus
    BY <2>1 DEF SingleWriterInv, SoleRunOK, WrapUpIsFinal, WrapUp
  <2>3. type \in Subscribed[e]
    BY <2>1, <2>2 DEF SingleWriterInv, RunsInv, RunOK
  <2> QED BY <2>2, <2>3, PayloadType
<1>2. UNCHANGED <<callStatus, callCosts, recording>>
  BY DEF CreateOutboxRow
<1>3. CASE ~inserted
  BY <1>2, <1>3 DEF CreateOutboxRow
<1>4. CASE inserted
  <2>1. PICK row : /\ row.endpoint = e /\ row.eventType = type
                   /\ outbox' = outbox \cup {row}
    BY <1>1, <1>4 DEF CreateOutboxRow
  <2>2. <<type, e>> \notin Issued /\ Issued' = Issued \cup {<<type, e>>}
    BY <1>1, <1>4, <2>1 DEF Issued
  <2> QED BY <1>1, <1>2, <2>2
          DEF Lifecycle!IssueWebhook, Lifecycle!WebhookEventOf, WebhookEventOf, Issued,
              Lifecycle!TERMINAL_CALL_STATUSES, TERMINAL_CALL_STATUSES, Lifecycle!NoEvent, NoEvent
<1> QED BY <1>3, <1>4

LEMMA LegStep ==
  ASSUME SingleWriterInv, NEW r \in Runs, NEW l \in Legs, MeterLeg(r, l)
  PROVE  Lifecycle!Bill(l) \/ UNCHANGED <<callStatus, outbox, callCosts, recording>>
<1>1. callStatus = "COMPLETED" /\ callCosts[l] = 0
  BY DEF MeterLeg, SingleWriterInv, SoleRunOK, LegsUnbilled
<1>2. UNCHANGED <<callStatus, outbox, recording>>
  BY DEF MeterLeg
<1>3. CASE l \notin Priced
  BY <1>2, <1>3 DEF MeterLeg
<1>4. CASE l \in Priced
  <2>1. callCosts \in [Legs -> Nat] /\ callCosts' = [callCosts EXCEPT ![l] = callCosts[l] + 1]
    BY <1>4 DEF MeterLeg, SingleWriterInv, RunsInv, TypeOK
  <2>2. l \notin BilledLegs /\ BilledLegs' = BilledLegs \cup {l}
    BY <1>1, <2>1 DEF BilledLegs
  <2> QED BY <1>1, <1>2, <2>2 DEF Lifecycle!Bill, BilledLegs
<1> QED BY <1>3, <1>4

LEMMA StepRefines ==
  ASSUME SingleWriter
  PROVE  SingleWriterInv /\ [Next]_vars => [Lifecycle!LifecycleNext]_Lifecycle!lifecycleVars
<1> SUFFICES ASSUME SingleWriterInv, [Next]_vars
             PROVE  Lifecycle!LifecycleNext \/ UNCHANGED Lifecycle!lifecycleVars
  OBVIOUS
<1>1. UNCHANGED <<callStatus, outbox, callCosts, recording>> => UNCHANGED Lifecycle!lifecycleVars
  BY SilentStep DEF Lifecycle!lifecycleVars, Issued, BilledLegs
<1>2. CASE \E r \in Runs : UpdateStatus(r) \/ CatchUpdate(r)
  BY <1>2, StatusStep DEF Lifecycle!LifecycleNext
<1>3. CASE \E r \in Runs, e \in Endpoints : CreateOutboxRow(r, e)
  BY <1>1, <1>3, OutboxStep DEF Lifecycle!LifecycleNext
<1>4. CASE \E r \in Runs, l \in Legs : MeterLeg(r, l)
  BY <1>1, <1>4, LegStep DEF Lifecycle!LifecycleNext
<1>5. CASE \E r \in Runs : CreateRecording(r)
  <2>1. PICK r \in Runs : CreateRecording(r)
    BY <1>5
  <2>2. callStatus = "COMPLETED"
    BY <2>1 DEF CreateRecording, SingleWriterInv, SoleRunOK, LegsUnbilled
  <2>3. UNCHANGED <<callStatus, outbox, callCosts>> /\ recording' = TRUE
    BY <2>1 DEF CreateRecording
  <2>4. recording \in BOOLEAN
    BY DEF SingleWriterInv, RunsInv, TypeOK
  <2>5. CASE recording
    <3>1. recording' = recording
      BY <2>3, <2>4, <2>5
    <3> QED BY <1>1, <2>3, <3>1
  <2>6. CASE ~recording
    <3>1. Lifecycle!Record
      BY <2>2, <2>3, <2>6, SilentStep DEF Lifecycle!Record, Issued, BilledLegs
    <3> QED BY <3>1 DEF Lifecycle!LifecycleNext
  <2> QED BY <2>5, <2>6
<1>6. CASE \E r \in Runs :
             \/ Deliver(r) \/ Crash(r) \/ Load(r) \/ RunnerReturns(r) \/ RunnerThrows(r)
             \/ RereadCall(r) \/ RereadEvents(r) \/ ListEndpoints(r) \/ AddDispatchJob(r)
             \/ EnqueueReturns(r) \/ MeterStart(r) \/ MeterReturns(r) \/ FindRecording(r)
             \/ StoreError(r)
  <2>1. UNCHANGED dbVars
    BY <1>6 DEF Deliver, Crash, Load, RunnerReturns, RunnerThrows, RereadCall, RereadEvents,
       ListEndpoints, AddDispatchJob, EnqueueReturns, MeterStart, MeterReturns, FindRecording,
       StoreError
  <2> QED BY <1>1, <2>1 DEF dbVars
<1>7. CASE \E r \in Runs : AppendEvent(r) \/ CatchAppend(r)
  BY <1>1, <1>7 DEF AppendEvent, CatchAppend
<1>8. CASE StalledAfterCrash \/ LockExpires
  BY <1>1, <1>8 DEF StalledAfterCrash, LockExpires, MoveStalledJob, dbVars
<1>9. CASE \E r \in Runs : UpdateAckLost(r)
  BY <1>9 DEF UpdateAckLost, SingleWriter
<1>10. CASE UNCHANGED vars
  BY <1>1, <1>10 DEF vars, dbVars
<1> QED BY <1>2, <1>3, <1>4, <1>5, <1>6, <1>7, <1>8, <1>9, <1>10 DEF Next, Progress, Mishap

(* With one writer at a time the executor implements the lifecycle: the    *)
(* stored status never leaves the table, and webhooks, costs and recording *)
(* belong to the status the call ended in, whatever crashes and failures   *)
(* cut its runs short.                                                     *)
THEOREM ExecutorImplementsLifecycle ==
  ASSUME SingleWriter
  PROVE  Spec => ImplementsLifecycle
<1>1. Spec => []SingleWriterInv
  BY InitSingleWriterInv, SingleWriterInvStep, PTL DEF Spec
<1>2. Spec => Lifecycle!LifecycleInit /\ [][Lifecycle!LifecycleNext]_Lifecycle!lifecycleVars
  BY <1>1, InitRefines, StepRefines, PTL DEF Spec
<1> QED BY <1>2 DEF ImplementsLifecycle, Lifecycle!LifecycleSpec
-----------------------------------------------------------------------------
(* The event log explains the status.                                      *)

Explains(log, status) == \E i \in 1..Len(log) : Names(log[i].eventType, status)

(* A status that is stored, or about to be, has its event.                 *)
ExplainInv ==
  /\ Explains(events, callStatus)
  /\ \A r \in Runs :
       /\ pc[r] = "update" => Explains(events, plan[r][step[r]].status)
       /\ pc[r] = "catchUpdate" => Explains(events, "FAILED")
       /\ \A i \in 1..Len(plan[r]) : Names(plan[r][i].eventType, plan[r][i].status)

LEMMA LongerLog ==
  ASSUME NEW log \in Seq(CallEvents), NEW e \in CallEvents, NEW status
  PROVE  /\ Explains(log, status) => Explains(Append(log, e), status)
         /\ Names(e.eventType, status) => Explains(Append(log, e), status)
<1>1. /\ Len(Append(log, e)) = Len(log) + 1 /\ Len(log) \in Nat
      /\ \A i \in 1..Len(log) : Append(log, e)[i] = log[i]
      /\ Append(log, e)[Len(log) + 1] = e
  OBVIOUS
<1>2. ASSUME Explains(log, status) PROVE Explains(Append(log, e), status)
  BY <1>1, <1>2 DEF Explains
<1>3. ASSUME Names(e.eventType, status) PROVE Explains(Append(log, e), status)
  BY <1>1, <1>3 DEF Explains
<1> QED
  BY <1>2, <1>3

(* The log only grows.                                                     *)
LogGrows == events' = events \/ \E e \in CallEvents : events' = Append(events, e)

LEMMA StillExplained ==
  ASSUME RunsInv, LogGrows, NEW status, Explains(events, status)
  PROVE  Explains(events', status)
<1>1. events \in Seq(CallEvents)
  BY DEF RunsInv, TypeOK
<1>2. CASE events' = events
  BY <1>2 DEF Explains
<1>3. ASSUME NEW e \in CallEvents, events' = Append(events, e) PROVE Explains(events', status)
  <2>1. Explains(Append(events, e), status)
    BY <1>1, LongerLog
  <2> QED
    BY <1>3, <2>1
<1> QED
  BY <1>2, <1>3 DEF LogGrows

(* A step that stores no status, and leads no run to where it is stored.   *)
LEMMA QuietExplains ==
  ASSUME RunsInv, ExplainInv, LogGrows, callStatus' = callStatus, plan' = plan,
         \A q \in Runs : pc'[q] \in {"update", "catchUpdate"} =>
                           pc'[q] = pc[q] /\ step'[q] = step[q]
  PROVE  ExplainInv'
BY StillExplained DEF ExplainInv

LEMMA RunnerExplains ==
  ASSUME RunsInv, ExplainInv, NEW r \in Runs,
         AppendEvent(r) \/ UpdateStatus(r) \/ CatchAppend(r) \/ CatchUpdate(r) \/ UpdateAckLost(r)
  PROVE  ExplainInv'
<1>1. pc \in [Runs -> Labels] /\ step \in [Runs -> Nat \ {0}] /\ events \in Seq(CallEvents)
  BY DEF RunsInv, TypeOK
<1>2. CASE AppendEvent(r)
  <2> DEFINE t == plan[r][step[r]]
             e == [eventType |-> t.eventType, turn |-> t.turn]
  <2>1. step[r] \in 1..Len(plan[r]) /\ t \in CallTransitions
    BY <1>1, <1>2, NextTransition DEF AppendEvent, RunsInv, TypeOK
  <2>2. e \in CallEvents /\ events' = Append(events, e)
    BY <1>2, <2>1 DEF AppendEvent, LogEvent, CallTransitions, CallEvents
  <2>3. Names(e.eventType, t.status)
    BY <2>1 DEF ExplainInv
  <2>4. Explains(events', t.status)
    BY <1>1, <2>2, <2>3, LongerLog
  <2>5. /\ callStatus' = callStatus /\ plan' = plan
        /\ \A q \in Runs : q # r => pc'[q] = pc[q] /\ step'[q] = step[q]
        /\ pc'[r] \in {"run", "catch"} \/ (pc'[r] = "update" /\ step'[r] = step[r])
    BY <1>1, <1>2 DEF AppendEvent, GoTo
  <2> HIDE DEF t, e
  <2> QED
    BY <2>2, <2>4, <2>5, StillExplained DEF LogGrows, ExplainInv, t
<1>3. CASE UpdateStatus(r)
  BY <1>1, <1>3 DEF UpdateStatus, GoTo, ExplainInv
<1>4. CASE CatchAppend(r)
  <2> DEFINE e == [eventType |-> "call_failed", turn |-> 0]
  <2>1. e \in CallEvents /\ events' = Append(events, e)
    BY <1>4 DEF CatchAppend, LogEvent, CallEvents, EventTypes
  <2>2. Explains(events', "FAILED")
    BY <1>1, <2>1, LongerLog DEF Names
  <2>3. /\ callStatus' = callStatus /\ plan' = plan /\ step' = step
        /\ \A q \in Runs : q # r => pc'[q] = pc[q]
        /\ pc'[r] \in {"catchUpdate", "reread", "done"}
    BY <1>1, <1>4 DEF CatchAppend, EnterFinally, Leave, GoTo, runnerVars
  <2> HIDE DEF e
  <2> QED
    BY <2>1, <2>2, <2>3, StillExplained DEF LogGrows, ExplainInv
<1>5. CASE CatchUpdate(r)
  BY <1>1, <1>5 DEF CatchUpdate, EnterFinally, Leave, GoTo, ExplainInv
<1>6. CASE UpdateAckLost(r)
  BY <1>1, <1>6 DEF UpdateAckLost, EnterFinally, Leave, GoTo, ExplainInv, runnerVars
<1> QED
  BY <1>2, <1>3, <1>4, <1>5, <1>6

LEMMA StepExplains ==
  ASSUME PlansExplain, RunsInv, ExplainInv, [Next]_vars
  PROVE  ExplainInv'
<1>1. pc \in [Runs -> Labels] /\ scenario \in Scenarios
  BY DEF RunsInv, TypeOK
<1>2. ASSUME NEW r \in Runs, Deliver(r) \/ Crash(r) PROVE ExplainInv'
  BY <1>1, <1>2, QuietExplains DEF Deliver, Crash, GoTo, LogGrows, dbVars, runnerVars
<1>3. ASSUME StalledAfterCrash \/ LockExpires \/ UNCHANGED vars PROVE ExplainInv'
  BY <1>3, QuietExplains
  DEF StalledAfterCrash, LockExpires, MoveStalledJob, LogGrows, vars, dbVars, runnerVars
<1>4. ASSUME NEW r \in Runs, Load(r) PROVE ExplainInv'
  <2>1. /\ events' = events /\ callStatus' = callStatus /\ step' = step
        /\ \A q \in Runs : q # r => pc'[q] = pc[q] /\ plan'[q] = plan[q]
        /\ pc'[r] \in {"run", "done"}
    BY <1>1, <1>4 DEF Load, GoTo, Leave, dbVars, RunsInv, TypeOK
  <2>2. plan'[r] = plan[r] \/ plan'[r] \in Plans[scenario]
    BY <1>4 DEF Load, RunsInv, TypeOK
  <2> QED
    BY <1>1, <2>1, <2>2 DEF ExplainInv, PlansExplain
<1>5. ASSUME NEW r \in Runs,
             RunnerReturns(r) \/ RunnerThrows(r) \/ RereadCall(r) \/ RereadEvents(r)
      PROVE  ExplainInv'
  BY <1>1, <1>5, QuietExplains
  DEF RunnerReturns, RunnerThrows, RereadCall, RereadEvents, EnterFinally, Leave, GoTo,
      LogGrows, dbVars, runnerVars
<1>6. ASSUME NEW r \in Runs,
             \/ ListEndpoints(r) \/ (\E e \in Endpoints : CreateOutboxRow(r, e))
             \/ AddDispatchJob(r) \/ EnqueueReturns(r)
      PROVE  ExplainInv'
  BY <1>1, <1>6, QuietExplains
  DEF ListEndpoints, CreateOutboxRow, AddDispatchJob, EnqueueReturns, GoTo, LogGrows, dbVars,
      runnerVars
<1>7. ASSUME NEW r \in Runs, NEW l \in Legs, MeterLeg(r, l) PROVE ExplainInv'
  <2>1. [eventType |-> "cost_unpriced_leg", turn |-> 0] \in CallEvents
    BY DEF CallEvents, EventTypes
  <2> QED
    BY <1>7, <2>1, QuietExplains DEF MeterLeg, LogEvent, LogGrows, runnerVars
<1>8. ASSUME NEW r \in Runs,
             MeterStart(r) \/ MeterReturns(r) \/ FindRecording(r) \/ CreateRecording(r)
      PROVE  ExplainInv'
  BY <1>1, <1>8, QuietExplains
  DEF MeterStart, MeterReturns, FindRecording, CreateRecording, Leave, GoTo, LogGrows, dbVars,
      runnerVars
<1>9. ASSUME NEW r \in Runs, StoreError(r) PROVE ExplainInv'
  BY <1>1, <1>9, QuietExplains
  DEF StoreError, EnterFinally, Leave, GoTo, LogGrows, dbVars, runnerVars
<1> QED
  BY <1>2, <1>3, <1>4, <1>5, <1>6, <1>7, <1>8, <1>9, RunnerExplains DEF Next, Progress, Mishap

(* Whatever runs overlap, fail or lose their acknowledgements, no status   *)
(* is stored whose event is not in the log: given runners that report no   *)
(* status without its event.                                               *)
THEOREM EventLogExplainsStatus ==
  ASSUME PlansExplain
  PROVE  Spec => []EventsExplainStatus
<1>1. Init => RunsInv
  BY InitRunsInv
<1>2. Init => ExplainInv
  <2> SUFFICES ASSUME Init PROVE ExplainInv
    OBVIOUS
  <2>1. callStatus = "QUEUED" /\ Len(events) = 1
    BY DEF Init
  <2>2. Explains(events, callStatus)
    BY <2>1 DEF Explains, Names
  <2> QED
    BY <2>2 DEF Init, ExplainInv
<1>3. RunsInv /\ ExplainInv /\ [Next]_vars => RunsInv' /\ ExplainInv'
  BY RunsInvStep, StepExplains
<1>4. ExplainInv => EventsExplainStatus
  BY DEF ExplainInv, Explains, Names, EventsExplainStatus, HasEvent
<1> QED
  BY <1>1, <1>2, <1>3, <1>4, PTL DEF Spec

-----------------------------------------------------------------------------
(* The transcript of a log, event by event.                                *)

TurnsStep(log, g, n) ==
  IF n = 0 THEN <<>>
  ELSE IF log[n].eventType = "transcript_turn" THEN Append(g[n-1], log[n].turn) ELSE g[n-1]

IsTurnsUpTo(log, k, g) == g = [n \in 0..k |-> TurnsStep(log, g, n)]

LEMMA TurnsAt ==
  ASSUME NEW log, NEW k, NEW g, IsTurnsUpTo(log, k, g), NEW n \in 0..k
  PROVE  g[n] = TurnsStep(log, g, n)
<1>1. g = [i \in 0..k |-> TurnsStep(log, g, i)]
  BY DEF IsTurnsUpTo
<1>2. [i \in 0..k |-> TurnsStep(log, g, i)][n] = TurnsStep(log, g, n)
  OBVIOUS
<1> QED
  BY <1>1, <1>2

LEMMA LeastNumber ==
  ASSUME NEW T \in SUBSET Nat, T # {}
  PROVE  \E m \in T : \A k \in T : m <= k
<1>1. PICK m \in T : \A k \in T : <<k, m>> \notin OpToRel(<, Nat)
  BY NatLessThanWellFounded, WFMin
<1>2. OpToRel(<, Nat) = {ss \in Nat \X Nat : ss[1] < ss[2]}
  BY DEF OpToRel
<1>3. ASSUME NEW k \in T, k < m PROVE FALSE
  <2>1. <<k, m>> \in Nat \X Nat
    OBVIOUS
  <2> QED
    BY <1>1, <1>2, <1>3, <2>1
<1> QED
  BY <1>3

LEMMA TurnsExist ==
  ASSUME NEW log, NEW k \in Nat
  PROVE  \E g : IsTurnsUpTo(log, k, g)
<1> DEFINE Missing == {n \in Nat : \A g : ~IsTurnsUpTo(log, n, g)}
<1>1. SUFFICES ASSUME Missing # {} PROVE FALSE
  OBVIOUS
<1>2. PICK m \in Missing : \A n \in Missing : m <= n
  BY <1>1, LeastNumber
<1>3. CASE m = 0
  <2> DEFINE g == [n \in 0..0 |-> <<>>]
  <2>1. IsTurnsUpTo(log, 0, g)
    BY DEF IsTurnsUpTo, TurnsStep
  <2> QED
    BY <1>3, <2>1
<1>4. CASE m # 0
  <2>1. m - 1 \in Nat /\ m - 1 \notin Missing
    BY <1>2, <1>4
  <2>2. PICK g : IsTurnsUpTo(log, m - 1, g)
    BY <2>1
  <2> DEFINE h == [n \in 0..m |-> IF n = m THEN TurnsStep(log, g, m) ELSE g[n]]
  <2>3. \A n \in 0..(m - 1) : h[n] = g[n] /\ g[n] = TurnsStep(log, g, n)
    BY <2>1, <2>2, TurnsAt
  <2>4. ASSUME NEW n \in 0..m PROVE h[n] = TurnsStep(log, h, n)
    <3>1. n # 0 => n - 1 \in 0..(m - 1) /\ h[n - 1] = g[n - 1]
      BY <2>1, <2>3
    <3>2. TurnsStep(log, h, n) = TurnsStep(log, g, n)
      BY <3>1 DEF TurnsStep
    <3>3. CASE n = m
      BY <3>2, <3>3
    <3>4. CASE n # m
      <4>1. n \in 0..(m - 1)
        BY <3>4, <2>1
      <4> QED
        BY <2>3, <3>2, <4>1
    <3> QED
      BY <3>3, <3>4
  <2>5. IsTurnsUpTo(log, m, h)
    BY <2>4 DEF IsTurnsUpTo
  <2> QED
    BY <1>2, <2>5
<1> QED
  BY <1>3, <1>4

LEMMA TurnsAgree ==
  ASSUME NEW log, NEW more, NEW k \in Nat, NEW l \in Nat, k <= l,
         \A i \in 1..k : more[i] = log[i],
         NEW g, IsTurnsUpTo(log, k, g), NEW h, IsTurnsUpTo(more, l, h)
  PROVE  h[k] = g[k]
<1> DEFINE Different == {n \in 0..k : h[n] # g[n]}
<1>1. SUFFICES ASSUME Different # {} PROVE FALSE
  BY <1>1
<1>2. PICK m \in Different : \A n \in Different : m <= n
  <2>1. Different \in SUBSET Nat
    OBVIOUS
  <2> QED
    BY <1>1, <2>1, LeastNumber
<1>3. g[m] = TurnsStep(log, g, m) /\ h[m] = TurnsStep(more, h, m)
  <2>1. m \in 0..k /\ m \in 0..l
    OBVIOUS
  <2> QED
    BY <2>1, TurnsAt
<1>4. m # 0 => h[m - 1] = g[m - 1] /\ more[m] = log[m]
  BY <1>2
<1> QED
  BY <1>2, <1>3, <1>4 DEF TurnsStep

LEMMA TranscriptOf ==
  ASSUME NEW log
  PROVE  extractTranscript(log) = (CHOOSE g : IsTurnsUpTo(log, Len(log), g))[Len(log)]
BY DEF extractTranscript, IsTurnsUpTo, TurnsStep

LEMMA EmptyTranscript == extractTranscript(<<>>) = <<>>
<1>1. PICK g : g = (CHOOSE f : IsTurnsUpTo(<<>>, 0, f))
  OBVIOUS
<1>2. IsTurnsUpTo(<<>>, 0, g)
  BY <1>1, TurnsExist
<1>3. g[0] = <<>>
  BY <1>2 DEF IsTurnsUpTo, TurnsStep
<1> QED
  BY <1>1, <1>3, TranscriptOf

LEMMA LongerTranscript ==
  ASSUME NEW log \in Seq(CallEvents), NEW e \in CallEvents
  PROVE  extractTranscript(Append(log, e)) =
           IF e.eventType = "transcript_turn" THEN Append(extractTranscript(log), e.turn)
                                              ELSE extractTranscript(log)
<1> DEFINE k == Len(log)
           more == Append(log, e)
<1>1. k \in Nat /\ Len(more) = k + 1 /\ more[k + 1] = e /\ \A i \in 1..k : more[i] = log[i]
  OBVIOUS
<1> HIDE DEF k, more
<1>2. PICK g : g = (CHOOSE f : IsTurnsUpTo(log, k, f))
  OBVIOUS
<1>3. PICK h : h = (CHOOSE f : IsTurnsUpTo(more, k + 1, f))
  OBVIOUS
<1>4. IsTurnsUpTo(log, k, g)
  BY <1>1, <1>2, TurnsExist
<1>5. IsTurnsUpTo(more, k + 1, h)
  <2>1. k + 1 \in Nat
    BY <1>1
  <2> QED
    BY <1>3, <2>1, TurnsExist
<1>6. h[k] = g[k]
  BY <1>1, <1>4, <1>5, TurnsAgree
<1>7. h[k + 1] = TurnsStep(more, h, k + 1)
  <2>1. k + 1 \in 0..(k + 1)
    BY <1>1
  <2> QED
    BY <1>5, <2>1 DEF IsTurnsUpTo
<1>8. k + 1 # 0 /\ (k + 1) - 1 = k
  BY <1>1
<1>9. extractTranscript(log) = g[k] /\ extractTranscript(more) = h[k + 1]
  BY <1>1, <1>2, <1>3, TranscriptOf DEF k
<1> QED
  BY <1>1, <1>6, <1>7, <1>8, <1>9 DEF TurnsStep, more

-----------------------------------------------------------------------------
(* Where a run is in its plan.                                             *)

LEMMA StatusAlongPlan ==
  ASSUME NEW p, NEW i \in Nat \ {0}, NEW st
  PROVE  /\ StatusBefore(p, 1, "QUEUED")
         /\ StatusBefore(p, i, st) /\ p[i].status = NoStatus => StatusBefore(p, i + 1, st)
         /\ p[i].status # NoStatus => StatusBefore(p, i + 1, p[i].status)
<1>1. StatusBefore(p, 1, "QUEUED")
  BY DEF StatusBefore
<1>2. (i + 1) - 1 = i /\ \A j \in 1..i : j \in 1..(i-1) \/ j = i
  OBVIOUS
<1>3. ASSUME StatusBefore(p, i, st), p[i].status = NoStatus PROVE StatusBefore(p, i + 1, st)
  <2>1. CASE st = "QUEUED" /\ \A j \in 1..(i-1) : p[j].status = NoStatus
    BY <1>2, <1>3, <2>1 DEF StatusBefore
  <2>2. ASSUME NEW j \in 1..(i-1), p[j].status = st, st # NoStatus,
               \A k \in (j+1)..(i-1) : p[k].status = NoStatus
        PROVE  StatusBefore(p, i + 1, st)
    <3>1. j \in 1..((i + 1) - 1) /\ \A k \in (j+1)..((i + 1) - 1) : p[k].status = NoStatus
      BY <1>3, <2>2
    <3> QED
      BY <2>2, <3>1 DEF StatusBefore
  <2> QED
    BY <1>3, <2>1, <2>2 DEF StatusBefore
<1>4. ASSUME p[i].status # NoStatus PROVE StatusBefore(p, i + 1, p[i].status)
  <2>1. i \in 1..((i + 1) - 1) /\ \A k \in (i+1)..((i + 1) - 1) : FALSE
    OBVIOUS
  <2> QED
    BY <1>4, <2>1 DEF StatusBefore
<1> QED
  BY <1>1, <1>3, <1>4

LEMMA TurnsAlongPlan ==
  ASSUME NEW p, NEW i \in Nat \ {0}, NEW n
  PROVE  /\ SaidBefore(p, 1, 0)
         /\ SaidBefore(p, i, n) /\ ~IsTurn(p[i]) => SaidBefore(p, i + 1, n)
         /\ IsTurn(p[i]) => SaidBefore(p, i + 1, p[i].turn)
<1>1. SaidBefore(p, 1, 0)
  BY DEF SaidBefore
<1>2. (i + 1) - 1 = i /\ \A j \in 1..i : j \in 1..(i-1) \/ j = i
  OBVIOUS
<1>3. ASSUME SaidBefore(p, i, n), ~IsTurn(p[i]) PROVE SaidBefore(p, i + 1, n)
  <2>1. CASE n = 0 /\ \A j \in 1..(i-1) : ~IsTurn(p[j])
    BY <1>2, <1>3, <2>1 DEF SaidBefore
  <2>2. ASSUME NEW j \in 1..(i-1), IsTurn(p[j]), p[j].turn = n,
               \A k \in (j+1)..(i-1) : ~IsTurn(p[k])
        PROVE  SaidBefore(p, i + 1, n)
    <3>1. j \in 1..((i + 1) - 1) /\ \A k \in (j+1)..((i + 1) - 1) : ~IsTurn(p[k])
      BY <1>3, <2>2
    <3> QED
      BY <2>2, <3>1 DEF SaidBefore
  <2> QED
    BY <1>3, <2>1, <2>2 DEF SaidBefore
<1>4. ASSUME IsTurn(p[i]) PROVE SaidBefore(p, i + 1, p[i].turn)
  <2>1. i \in 1..((i + 1) - 1) /\ \A k \in (i+1)..((i + 1) - 1) : FALSE
    OBVIOUS
  <2> QED
    BY <1>4, <2>1 DEF SaidBefore
<1> QED
  BY <1>1, <1>3, <1>4

(* Only one status, and one number of turns, lies before a transition.     *)
LEMMA OneStatusBefore ==
  ASSUME NEW p, NEW i \in Nat \ {0}, NEW a, StatusBefore(p, i, a), NEW b, StatusBefore(p, i, b)
  PROVE  a = b
<1>1. ASSUME NEW c, StatusBefore(p, i, c), \A j \in 1..(i-1) : p[j].status = NoStatus
      PROVE  c = "QUEUED"
  BY <1>1 DEF StatusBefore
<1>2. CASE \A j \in 1..(i-1) : p[j].status = NoStatus
  BY <1>1, <1>2
<1>3. CASE ~ \A j \in 1..(i-1) : p[j].status = NoStatus
  <2>1. PICK j \in 1..(i-1) : /\ p[j].status = a /\ a # NoStatus
                              /\ \A k \in (j+1)..(i-1) : p[k].status = NoStatus
    BY <1>3 DEF StatusBefore
  <2>2. PICK l \in 1..(i-1) : /\ p[l].status = b /\ b # NoStatus
                              /\ \A k \in (l+1)..(i-1) : p[k].status = NoStatus
    BY <1>3 DEF StatusBefore
  <2>3. ~(j < l) /\ ~(l < j)
    BY <2>1, <2>2
  <2> QED
    BY <2>1, <2>2, <2>3
<1> QED
  BY <1>2, <1>3

LEMMA OneTurnBefore ==
  ASSUME NEW p, NEW i \in Nat \ {0}, NEW a, SaidBefore(p, i, a), NEW b, SaidBefore(p, i, b)
  PROVE  a = b
<1>1. CASE \A j \in 1..(i-1) : ~IsTurn(p[j])
  BY <1>1 DEF SaidBefore
<1>2. CASE ~ \A j \in 1..(i-1) : ~IsTurn(p[j])
  <2>1. PICK j \in 1..(i-1) : /\ IsTurn(p[j]) /\ p[j].turn = a
                              /\ \A k \in (j+1)..(i-1) : ~IsTurn(p[k])
    BY <1>2 DEF SaidBefore
  <2>2. PICK l \in 1..(i-1) : /\ IsTurn(p[l]) /\ p[l].turn = b
                              /\ \A k \in (l+1)..(i-1) : ~IsTurn(p[k])
    BY <1>2 DEF SaidBefore
  <2>3. ~(j < l) /\ ~(l < j)
    BY <2>1, <2>2
  <2> QED
    BY <2>1, <2>2, <2>3
<1> QED
  BY <1>1, <1>2

LEMMA TransitionFacts ==
  /\ \A st \in CallStatuses : ~isValidStatusTransition(st, st)
  /\ \A st, to \in CallStatuses : isValidStatusTransition(st, to) => st \notin TERMINAL_CALL_STATUSES
  /\ \A st \in CallStatuses : isValidStatusTransition(st, "DIALING") <=> st = "QUEUED"
  /\ \A st \in CallStatuses : isValidStatusTransition(st, "RINGING") => st = "DIALING"
  /\ \A st \in CallStatuses : ~isValidStatusTransition(st, "QUEUED")
  /\ "COMPLETED" \in TERMINAL_CALL_STATUSES /\ "QUEUED" \in CallStatuses
BY DEF isValidStatusTransition, CALL_STATUS_TRANSITIONS, CallStatuses, TERMINAL_CALL_STATUSES

-----------------------------------------------------------------------------
(* The plans of the code's runners have two shapes: a call that is         *)
(* answered after f failed trunks and walks k turns, and one that is not.  *)

Dialing   == Transition("call_dialing", "DIALING")
Ringing   == Transition("call_ringing", "RINGING")
Answered  == Transition("call_in_progress", "IN_PROGRESS")
Completed == Transition("call_completed", "COMPLETED")
Dropped   == Transition("call_dropped", "CALL_DROPPED")
Failing   == {Transition("call_failed", st) : st \in {"FAILED", "BUSY", "NO_ANSWER"}}
               \cup {Transition("call_initiation_failure", "FAILED")}

(* After f failed trunks, the plan p has only been dialing.                *)
DialsFor(p, f) ==
  /\ p[1] = Dialing
  /\ \A i \in 2..(f+1) : p[i] = Transition("failover_triggered", NoStatus)

AnsweredPlan(p, f, k, turns) ==
  /\ Len(p) = f + k + 4 /\ DialsFor(p, f)
  /\ p[f+2] = Ringing /\ p[f+3] = Answered
  /\ \A i \in (f+4)..(f+k+3) : p[i] = TranscriptTurn(i - f - 3)
  /\ \/ p[f+k+4] = Completed /\ k = turns
     \/ p[f+k+4] \in {Transition("call_failed", "FAILED"), Dropped}

UnansweredPlan(p, f) ==
  /\ DialsFor(p, f)
  /\ \/ Len(p) = f + 2 /\ p[f+2] \in Failing
     \/ Len(p) = f + 3 /\ p[f+2] = Ringing /\ p[f+3] \in Failing

LEMMA TransitionShape ==
  /\ Dialing.status = "DIALING" /\ ~IsTurn(Dialing)
  /\ Ringing.status = "RINGING" /\ ~IsTurn(Ringing)
  /\ Answered.status = "IN_PROGRESS" /\ ~IsTurn(Answered)
  /\ Completed.status = "COMPLETED" /\ ~IsTurn(Completed)
  /\ Dropped.status = "CALL_DROPPED" /\ ~IsTurn(Dropped)
  /\ \A t \in Failing : t.status \in {"FAILED", "BUSY", "NO_ANSWER"} /\ ~IsTurn(t)
  /\ \A t \in {Transition("failover_triggered", NoStatus)} : t.status = NoStatus /\ ~IsTurn(t)
  /\ \A k : TranscriptTurn(k).status = NoStatus /\ IsTurn(TranscriptTurn(k))
            /\ TranscriptTurn(k).turn = k
  BY DEF Dialing, Ringing, Answered, Completed, Dropped, Failing, Transition, TranscriptTurn,
     IsTurn

LEMMA TransitionNames ==
  \A t \in {Dialing, Ringing, Answered, Completed, Dropped,
            Transition("failover_triggered", NoStatus)} \cup Failing :
    Names(t.eventType, t.status)
  BY DEF Dialing, Ringing, Answered, Completed, Dropped, Failing, Transition, Names, NoStatus

LEMMA TurnNames == \A k : Names(TranscriptTurn(k).eventType, TranscriptTurn(k).status)
  BY DEF TranscriptTurn, Names, NoStatus

(* A status that may follow the only one before i is properly reported.    *)
LEMMA ProperAt ==
  ASSUME NEW p, NEW i \in Nat \ {0}, NEW turns, NEW st, StatusBefore(p, i, st),
         p[i].status # NoStatus => isValidStatusTransition(st, p[i].status),
         ~IsTurn(p[i]), p[i].status = "COMPLETED" => SaidBefore(p, i, turns)
  PROVE  TransitionOK(p, i, turns)
  BY OneStatusBefore DEF TransitionOK

(* While dialing, nothing has been said.                                   *)
LEMMA DialingIsProper ==
  ASSUME NEW f \in Nat, NEW p, DialsFor(p, f), NEW turns
  PROVE  /\ \A i \in 1..(f+1) : TransitionOK(p, i, turns) /\ Names(p[i].eventType, p[i].status)
         /\ StatusBefore(p, f + 2, "DIALING") /\ SaidBefore(p, f + 2, 0)
<1>1. p[1].status = "DIALING" /\ "DIALING" # NoStatus /\ ~IsTurn(p[1])
  BY TransitionShape DEF DialsFor, NoStatus
<1>2. \A i \in 2..(f+1) : p[i].status = NoStatus /\ ~IsTurn(p[i])
  BY TransitionShape DEF DialsFor
<1>3. ASSUME NEW i \in 2..(f+2)
      PROVE  StatusBefore(p, i, "DIALING") /\ SaidBefore(p, i, 0)
  <2>1. 1 \in 1..(i-1) /\ \A k \in 2..(i-1) : k \in 2..(f+1)
    OBVIOUS
  <2>2. \A k \in (1+1)..(i-1) : p[k].status = NoStatus
    BY <1>2, <2>1
  <2>3. \A k \in 1..(i-1) : ~IsTurn(p[k])
    <3>1. \A k \in 1..(i-1) : k = 1 \/ k \in 2..(f+1)
      OBVIOUS
    <3> QED
      BY <1>1, <1>2, <3>1
  <2> QED
    BY <1>1, <2>1, <2>2, <2>3 DEF StatusBefore, SaidBefore
<1>4. ASSUME NEW i \in 1..(f+1)
      PROVE  TransitionOK(p, i, turns) /\ Names(p[i].eventType, p[i].status)
  <2>1. Names(p[i].eventType, p[i].status)
    <3>1. i = 1 \/ i \in 2..(f+1)
      OBVIOUS
    <3> QED
      BY <3>1, TransitionNames DEF DialsFor
  <2>2. CASE i = 1
    <3>1. StatusBefore(p, i, "QUEUED") /\ i \in Nat \ {0}
      BY <2>2 DEF StatusBefore
    <3>2. isValidStatusTransition("QUEUED", "DIALING") /\ "DIALING" # "COMPLETED"
      BY TransitionFacts
    <3> QED
      BY <1>1, <2>1, <2>2, <3>1, <3>2, ProperAt
  <2>3. CASE i # 1
    <3>1. i \in 2..(f+1) /\ i \in 2..(f+2) /\ i \in Nat \ {0} /\ NoStatus # "COMPLETED"
      BY <2>3 DEF NoStatus
    <3> QED
      BY <1>2, <1>3, <2>1, <3>1, ProperAt
  <2> QED
    BY <2>2, <2>3
<1> QED
  BY <1>3, <1>4

LEMMA AnsweredPlanIsProper ==
  ASSUME NEW f \in Nat, NEW k \in Nat, NEW turns, NEW p, AnsweredPlan(p, f, k, turns)
  PROVE  \A i \in 1..Len(p) : TransitionOK(p, i, turns) /\ Names(p[i].eventType, p[i].status)
<1>1. /\ \A i \in 1..(f+1) : TransitionOK(p, i, turns) /\ Names(p[i].eventType, p[i].status)
      /\ StatusBefore(p, f + 2, "DIALING") /\ SaidBefore(p, f + 2, 0)
  BY DialingIsProper DEF AnsweredPlan
<1>2. /\ f + 2 \in Nat \ {0} /\ f + 3 \in Nat \ {0} /\ (f + 2) + 1 = f + 3 /\ (f + 3) + 1 = f + 4
      /\ p[f+2] = Ringing /\ p[f+3] = Answered
      /\ \A i \in (f+4)..(f+k+3) : p[i] = TranscriptTurn(i - f - 3)
  BY DEF AnsweredPlan
<1>3. isValidStatusTransition("DIALING", "RINGING") /\ isValidStatusTransition("RINGING", "IN_PROGRESS")
  BY DEF isValidStatusTransition, CALL_STATUS_TRANSITIONS, CallStatuses
<1>4. /\ TransitionOK(p, f + 2, turns) /\ Names(p[f+2].eventType, p[f+2].status)
      /\ StatusBefore(p, f + 3, "RINGING") /\ SaidBefore(p, f + 3, 0)
  <2>1. TransitionOK(p, f + 2, turns)
    BY <1>1, <1>2, <1>3, TransitionShape, ProperAt
  <2>2. StatusBefore(p, f + 3, "RINGING")
    BY <1>2, TransitionShape, StatusAlongPlan DEF NoStatus
  <2>3. SaidBefore(p, f + 3, 0)
    BY <1>1, <1>2, TransitionShape, TurnsAlongPlan
  <2> QED
    BY <1>2, <2>1, <2>2, <2>3, TransitionNames
<1>5. /\ TransitionOK(p, f + 3, turns) /\ Names(p[f+3].eventType, p[f+3].status)
      /\ StatusBefore(p, f + 4, "IN_PROGRESS") /\ SaidBefore(p, f + 4, 0)
  <2>1. TransitionOK(p, f + 3, turns)
    BY <1>2, <1>3, <1>4, TransitionShape, ProperAt
  <2>2. StatusBefore(p, f + 4, "IN_PROGRESS")
    BY <1>2, TransitionShape, StatusAlongPlan DEF NoStatus
  <2>3. SaidBefore(p, f + 4, 0)
    BY <1>2, <1>4, TransitionShape, TurnsAlongPlan
  <2> QED
    BY <1>2, <2>1, <2>2, <2>3, TransitionNames
<1>6. ASSUME NEW i \in (f+4)..(f+k+4)
      PROVE  StatusBefore(p, i, "IN_PROGRESS") /\ SaidBefore(p, i, i - f - 4)
  <2>1. /\ f + 3 \in 1..(i-1) /\ \A j \in (f + 3 + 1)..(i-1) : j \in (f+4)..(f+k+3)
        /\ i # f + 4 => /\ i - 1 \in 1..(i-1) /\ (i - 1) - f - 3 = i - f - 4
                        /\ \A j \in (i - 1 + 1)..(i - 1) : FALSE
                        /\ i - 1 \in (f+4)..(f+k+3)
        /\ i = f + 4 => i - f - 4 = 0
    OBVIOUS
  <2>2. \A j \in (f + 3 + 1)..(i-1) : p[j].status = NoStatus
    BY <1>2, <2>1, TransitionShape
  <2>3. StatusBefore(p, i, "IN_PROGRESS")
    <3>1. p[f+3].status = "IN_PROGRESS" /\ "IN_PROGRESS" # NoStatus
      BY <1>2, TransitionShape DEF NoStatus
    <3> QED
      BY <2>1, <2>2, <3>1 DEF StatusBefore
  <2>4. SaidBefore(p, i, i - f - 4)
    <3>1. CASE i = f + 4
      BY <1>5, <2>1, <3>1
    <3>2. CASE i # f + 4
      <4>1. p[i-1] = TranscriptTurn((i - 1) - f - 3)
        BY <1>2, <2>1, <3>2
      <4>2. IsTurn(p[i-1]) /\ p[i-1].turn = i - f - 4
        BY <2>1, <3>2, <4>1, TransitionShape
      <4> QED
        BY <2>1, <3>2, <4>2 DEF SaidBefore
    <3> QED
      BY <3>1, <3>2
  <2> QED
    BY <2>3, <2>4
<1>7. ASSUME NEW i \in (f+4)..(f+k+3)
      PROVE  TransitionOK(p, i, turns) /\ Names(p[i].eventType, p[i].status)
  <2>1. /\ p[i] = TranscriptTurn(i - f - 3) /\ i \in (f+4)..(f+k+4)
        /\ i - f - 3 > 0 /\ (i - f - 3) - 1 = i - f - 4
    BY <1>2
  <2>2. /\ p[i].status = NoStatus /\ p[i].turn = i - f - 3
        /\ StatusBefore(p, i, "IN_PROGRESS") /\ SaidBefore(p, i, i - f - 4)
    BY <1>6, <2>1, TransitionShape
  <2>3. NoStatus # "COMPLETED" /\ Names(p[i].eventType, p[i].status)
    BY <2>1, TurnNames DEF NoStatus
  <2> QED
    BY <2>1, <2>2, <2>3 DEF TransitionOK
<1>8. TransitionOK(p, f + k + 4, turns) /\ Names(p[f+k+4].eventType, p[f+k+4].status)
  <2>1. /\ f + k + 4 \in Nat \ {0} /\ f + k + 4 \in (f+4)..(f+k+4) /\ (f + k + 4) - f - 4 = k
    OBVIOUS
  <2>2. StatusBefore(p, f + k + 4, "IN_PROGRESS") /\ SaidBefore(p, f + k + 4, k)
    BY <1>6, <2>1
  <2>3. /\ isValidStatusTransition("IN_PROGRESS", "COMPLETED")
        /\ isValidStatusTransition("IN_PROGRESS", "FAILED")
        /\ isValidStatusTransition("IN_PROGRESS", "CALL_DROPPED")
    BY DEF isValidStatusTransition, CALL_STATUS_TRANSITIONS, CallStatuses
  <2>4. CASE p[f+k+4] = Completed /\ k = turns
    BY <2>1, <2>2, <2>3, <2>4, TransitionShape, TransitionNames, ProperAt
  <2>5. CASE p[f+k+4] = Dropped
    BY <2>1, <2>2, <2>3, <2>5, TransitionShape, TransitionNames, ProperAt
  <2>6. CASE p[f+k+4] = Transition("call_failed", "FAILED")
    <3>1. p[f+k+4] \in Failing /\ p[f+k+4].status = "FAILED"
      BY <2>6 DEF Failing, Transition
    <3> QED
      BY <2>1, <2>2, <2>3, <3>1, TransitionShape, TransitionNames, ProperAt
  <2> QED
    BY <2>4, <2>5, <2>6 DEF AnsweredPlan
<1>9. \A i \in 1..Len(p) : \/ i \in 1..(f+1) \/ i = f + 2 \/ i = f + 3
                           \/ i \in (f+4)..(f+k+3) \/ i = f + k + 4
  BY DEF AnsweredPlan
<1> QED
  BY <1>1, <1>4, <1>5, <1>7, <1>8, <1>9

LEMMA UnansweredPlanIsProper ==
  ASSUME NEW f \in Nat, NEW turns, NEW p, UnansweredPlan(p, f)
  PROVE  \A i \in 1..Len(p) : TransitionOK(p, i, turns) /\ Names(p[i].eventType, p[i].status)
<1>1. /\ \A i \in 1..(f+1) : TransitionOK(p, i, turns) /\ Names(p[i].eventType, p[i].status)
      /\ StatusBefore(p, f + 2, "DIALING") /\ SaidBefore(p, f + 2, 0)
  BY DialingIsProper DEF UnansweredPlan
<1>2. f + 2 \in Nat \ {0} /\ f + 3 \in Nat \ {0} /\ (f + 2) + 1 = f + 3
  OBVIOUS
<1>3. \A st \in {"FAILED", "BUSY", "NO_ANSWER"} :
        /\ isValidStatusTransition("DIALING", st) /\ isValidStatusTransition("RINGING", st)
        /\ st # "COMPLETED"
  BY DEF isValidStatusTransition, CALL_STATUS_TRANSITIONS, CallStatuses
<1>4. CASE Len(p) = f + 2 /\ p[f+2] \in Failing
  <2>1. TransitionOK(p, f + 2, turns) /\ Names(p[f+2].eventType, p[f+2].status)
    BY <1>1, <1>2, <1>3, <1>4, TransitionShape, TransitionNames, ProperAt
  <2>2. \A i \in 1..Len(p) : i \in 1..(f+1) \/ i = f + 2
    BY <1>4
  <2> QED
    BY <1>1, <2>1, <2>2
<1>5. CASE Len(p) = f + 3 /\ p[f+2] = Ringing /\ p[f+3] \in Failing
  <2>1. isValidStatusTransition("DIALING", "RINGING")
    BY DEF isValidStatusTransition, CALL_STATUS_TRANSITIONS, CallStatuses
  <2>2. TransitionOK(p, f + 2, turns) /\ Names(p[f+2].eventType, p[f+2].status)
    BY <1>1, <1>2, <1>5, <2>1, TransitionShape, TransitionNames, ProperAt
  <2>3. StatusBefore(p, f + 3, "RINGING")
    BY <1>2, <1>5, TransitionShape, StatusAlongPlan DEF NoStatus
  <2>4. TransitionOK(p, f + 3, turns) /\ Names(p[f+3].eventType, p[f+3].status)
    BY <1>2, <1>3, <1>5, <2>3, TransitionShape, TransitionNames, ProperAt
  <2>5. \A i \in 1..Len(p) : i \in 1..(f+1) \/ i = f + 2 \/ i = f + 3
    BY <1>5
  <2> QED
    BY <1>1, <2>2, <2>4, <2>5
<1> QED
  BY <1>4, <1>5 DEF UnansweredPlan

LEMMA TransitionTypes ==
  /\ {Dialing, Ringing, Answered, Completed, Dropped,
      Transition("failover_triggered", NoStatus)} \cup Failing \subseteq CallTransitions
  /\ \A k \in Nat : TranscriptTurn(k) \in CallTransitions
  BY DEF Dialing, Ringing, Answered, Completed, Dropped, Failing, Transition, TranscriptTurn,
     CallTransitions, EventTypes, CallStatuses, NoTurn

(* The turns of a conversation and the step that ends it.                  *)
Walk(k, last) == Turns(k) \o <<last>>

EndsWalk(last, k, turns) ==
  \/ last = Completed /\ k = turns
  \/ last \in {Transition("call_failed", "FAILED"), Dropped}

LEMMA WalkShape ==
  ASSUME NEW k \in Nat, NEW turns, NEW last, EndsWalk(last, k, turns)
  PROVE  /\ Walk(k, last) \in Seq(CallTransitions) /\ Len(Walk(k, last)) = k + 1
         /\ \A i \in 1..k : Walk(k, last)[i] = TranscriptTurn(i)
         /\ Walk(k, last)[k+1] = last
         /\ Turns(k) \in Seq(CallTransitions) /\ <<last>> \in Seq(CallTransitions)
<1>1. last \in CallTransitions
  BY TransitionTypes DEF EndsWalk, Failing
<1>2. /\ Turns(k) \in Seq(CallTransitions) /\ Len(Turns(k)) = k
      /\ \A i \in 1..k : Turns(k)[i] = TranscriptTurn(i)
  BY TransitionTypes DEF Turns
<1>3. <<last>> \in Seq(CallTransitions) /\ Len(<<last>>) = 1 /\ <<last>>[1] = last
  BY <1>1
<1>4. /\ Walk(k, last) \in Seq(CallTransitions) /\ Len(Walk(k, last)) = k + 1
      /\ \A i \in 1..(k+1) : Walk(k, last)[i] = IF i <= k THEN Turns(k)[i] ELSE <<last>>[i - k]
  BY <1>2, <1>3, ConcatProperties DEF Walk
<1>5. \A i \in 1..k : i \in 1..(k+1) /\ i <= k
  OBVIOUS
<1>6. k + 1 \in 1..(k+1) /\ ~(k + 1 <= k) /\ (k + 1) - k = 1
  OBVIOUS
<1> QED
  BY <1>2, <1>3, <1>4, <1>5, <1>6

LEMMA WalkIsAnswered ==
  ASSUME NEW f \in Nat, NEW k \in Nat, NEW turns, NEW last, EndsWalk(last, k, turns),
         NEW pre \in Seq(CallTransitions), Len(pre) = f + 3, DialsFor(pre, f),
         pre[f+2] = Ringing, pre[f+3] = Answered
  PROVE  AnsweredPlan(pre \o Walk(k, last), f, k, turns)
<1> DEFINE w == Walk(k, last)
           p == pre \o w
<1>1. /\ w \in Seq(CallTransitions) /\ Len(w) = k + 1
      /\ \A i \in 1..k : w[i] = TranscriptTurn(i)
      /\ w[k+1] = last
  BY WalkShape
<1> HIDE DEF w
<1>2. /\ Len(p) = (f + 3) + (k + 1)
      /\ \A i \in 1..((f + 3) + (k + 1)) : p[i] = IF i <= f + 3 THEN pre[i] ELSE w[i - (f + 3)]
  <2>1. /\ Len(pre \o w) = Len(pre) + Len(w)
        /\ \A i \in 1 .. Len(pre) + Len(w) :
             (pre \o w)[i] = IF i <= Len(pre) THEN pre[i] ELSE w[i - Len(pre)]
    <3>1. w \in Seq(CallTransitions)
      BY <1>1
    <3> QED
      BY <3>1, ConcatProperties
  <2>2. Len(pre) = f + 3 /\ Len(w) = k + 1
    BY <1>1
  <2> QED
    BY <2>1, <2>2
<1> HIDE DEF p
<1>3. Len(p) = f + k + 4 /\ \A i \in 1..(f+3) : p[i] = pre[i]
  BY <1>2
<1>4. DialsFor(p, f) /\ p[f+2] = Ringing /\ p[f+3] = Answered
  BY <1>3 DEF DialsFor
<1>5. ASSUME NEW i \in (f+4)..(f+k+3) PROVE p[i] = TranscriptTurn(i - f - 3)
  <2>1. /\ i \in 1..((f + 3) + (k + 1)) /\ ~(i <= f + 3)
        /\ i - (f + 3) = i - f - 3 /\ i - f - 3 \in 1..k
    OBVIOUS
  <2> QED
    BY <1>1, <1>2, <2>1
<1>6. p[f+k+4] = last
  <2>1. /\ f + k + 4 \in 1..((f + 3) + (k + 1)) /\ ~(f + k + 4 <= f + 3)
        /\ (f + k + 4) - (f + 3) = k + 1
    OBVIOUS
  <2> QED
    BY <1>1, <1>2, <2>1
<1> QED
  BY <1>3, <1>4, <1>5, <1>6 DEF AnsweredPlan, EndsWalk, p, w

(* StubVoiceSession.run, of a call that has been answered.                 *)
LEMMA VoiceSessionWalks ==
  ASSUME NEW s, s.turns \in Nat, NEW v \in VoiceSessionPlans(s, TRUE)
  PROVE  \E k \in Nat : \E last : EndsWalk(last, k, s.turns) /\ v = Walk(k, last)
<1>1. \/ \E last : EndsWalk(last, s.turns, s.turns) /\ v = <<>> \o Turns(s.turns) \o <<last>>
      \/ \E k \in 0..s.turns : \E last : EndsWalk(last, k, s.turns) /\ v = <<>> \o Turns(k) \o <<last>>
  BY DEF VoiceSessionPlans, computeStubFinalStep, EndsWalk, Completed, Dropped
<1>2. PICK k, last : k \in Nat /\ EndsWalk(last, k, s.turns) /\ v = <<>> \o Turns(k) \o <<last>>
  <2>1. CASE \E last : EndsWalk(last, s.turns, s.turns) /\ v = <<>> \o Turns(s.turns) \o <<last>>
    BY <2>1
  <2>2. ASSUME NEW k \in 0..s.turns, NEW last, EndsWalk(last, k, s.turns),
               v = <<>> \o Turns(k) \o <<last>>
        PROVE  \E n \in Nat : \E end : EndsWalk(end, n, s.turns) /\ v = <<>> \o Turns(n) \o <<end>>
    <3>1. k \in Nat
      OBVIOUS
    <3> QED
      BY <2>2, <3>1
  <2> QED
    BY <1>1, <2>1, <2>2
<1>3. <<>> \o Turns(k) = Turns(k)
  BY <1>2, WalkShape, ConcatEmptySeq
<1> QED
  BY <1>2, <1>3 DEF Walk

(* The steps of a stub call before its first turn.                         *)
LEMMA PreTurnSteps ==
  ASSUME NEW outcome
  PROVE  LET pre == computeStubPreTurnSteps(outcome)
         IN  \/ pre = [steps |-> <<Dialing, Ringing, Answered>>, walkTurns |-> TRUE]
             \/ /\ pre.walkTurns = FALSE
                /\ UnansweredPlan(pre.steps, 0)
<1>1. CASE outcome = "trunk_failure"
  <2>1. computeStubPreTurnSteps(outcome) =
          [steps |-> <<Dialing, Transition("call_failed", "FAILED")>>, walkTurns |-> FALSE]
    BY <1>1 DEF computeStubPreTurnSteps, Dialing
  <2> QED
    BY <2>1 DEF UnansweredPlan, DialsFor, Failing
<1>2. CASE outcome = "busy"
  <2>1. computeStubPreTurnSteps(outcome) =
          [steps |-> <<Dialing, Ringing, Transition("call_failed", "BUSY")>>, walkTurns |-> FALSE]
    BY <1>2 DEF computeStubPreTurnSteps, Dialing, Ringing
  <2> QED
    BY <2>1 DEF UnansweredPlan, DialsFor, Failing
<1>3. CASE outcome = "no_answer"
  <2>1. computeStubPreTurnSteps(outcome) =
          [steps |-> <<Dialing, Ringing, Transition("call_failed", "NO_ANSWER")>>, walkTurns |-> FALSE]
    BY <1>3 DEF computeStubPreTurnSteps, Dialing, Ringing
  <2> QED
    BY <2>1 DEF UnansweredPlan, DialsFor, Failing
<1>4. CASE outcome \notin {"trunk_failure", "busy", "no_answer"}
  BY <1>4 DEF computeStubPreTurnSteps, Dialing, Ringing, Answered
<1> QED
  BY <1>1, <1>2, <1>3, <1>4

(* A runner's plan has one of the two shapes.                              *)
Shaped(p, turns) ==
  \/ \E f \in Nat, k \in Nat : AnsweredPlan(p, f, k, turns)
  \/ \E f \in Nat : UnansweredPlan(p, f)

LEMMA StubAndBrowserShapes ==
  ASSUME NEW s, s.turns \in Nat, NEW p \in StubCallRunnerPlans(s) \cup BrowserPlans(s)
  PROVE  Shaped(p, s.turns)
<1> DEFINE pre == computeStubPreTurnSteps(s.outcome)
           early == <<Dialing, Ringing, Answered>>
<1>1. CASE pre.walkTurns = FALSE /\ UnansweredPlan(pre.steps, 0)
  <2>1. p = pre.steps
    BY <1>1 DEF StubCallRunnerPlans, BrowserPlans, VoiceSessionPlans
  <2> QED
    BY <1>1, <2>1 DEF Shaped
<1>2. CASE pre = [steps |-> early, walkTurns |-> TRUE]
  <2>1. pre.steps = early /\ pre.walkTurns = TRUE
    BY <1>2
  <2> HIDE DEF pre, early
  <2>2. PICK k, last :
          k \in Nat /\ EndsWalk(last, k, s.turns) /\ p = early \o Turns(k) \o <<last>>
    <3> DEFINE last == computeStubFinalStep(s.outcome)
    <3>1. EndsWalk(last, s.turns, s.turns)
      BY DEF computeStubFinalStep, EndsWalk, Completed
    <3> HIDE DEF last
    <3>2. CASE p = early \o Turns(s.turns) \o <<last>>
      BY <3>1, <3>2
    <3>3. ASSUME NEW k \in 0..s.turns, p = early \o Turns(k) \o <<Dropped>>
          PROVE  \E n \in Nat : \E end : EndsWalk(end, n, s.turns) /\ p = early \o Turns(n) \o <<end>>
      <4>1. k \in Nat /\ EndsWalk(Dropped, k, s.turns)
        BY DEF EndsWalk
      <4> QED
        BY <3>3, <4>1
    <3>4. p = early \o Turns(s.turns) \o <<last>> \/ \E k \in 0..s.turns : p = early \o Turns(k) \o <<Dropped>>
      <4>1. CASE p \in StubCallRunnerPlans(s)
        BY <2>1, <4>1 DEF StubCallRunnerPlans, pre, last
      <4>2. CASE p \in BrowserPlans(s)
        BY <2>1, <4>2 DEF BrowserPlans, VoiceSessionPlans, pre, last, Dropped
      <4> QED
        BY <4>1, <4>2
    <3> QED
      BY <3>2, <3>3, <3>4
  <2> USE DEF early
  <2>4. /\ early \in Seq(CallTransitions) /\ Len(early) = 0 + 3 /\ DialsFor(early, 0)
        /\ early[0+2] = Ringing /\ early[0+3] = Answered
    BY TransitionTypes DEF DialsFor
  <2> HIDE DEF early
  <2>5. p = early \o Walk(k, last)
    <3>1. Turns(k) \in Seq(CallTransitions) /\ <<last>> \in Seq(CallTransitions)
      BY <2>2, WalkShape
    <3>2. early \in Seq(CallTransitions)
      BY <2>4
    <3>3. early \o Turns(k) \o <<last>> = early \o (Turns(k) \o <<last>>)
      BY <3>1, <3>2, ConcatAssociative
    <3> QED
      BY <2>2, <3>3 DEF Walk
  <2>6. AnsweredPlan(early \o Walk(k, last), 0, k, s.turns)
    <3>1. 0 \in Nat /\ k \in Nat /\ EndsWalk(last, k, s.turns)
      BY <2>2
    <3> QED
      BY <2>4, <3>1, WalkIsAnswered
  <2> QED
    BY <2>2, <2>5, <2>6 DEF Shaped
<1> QED
  BY <1>1, <1>2, PreTurnSteps

(* RealCallRunner.dialSip: f trunks fail, and then come the steps `after`. *)
FailedTrunks(f) == [i \in 1..f |-> Transition("failover_triggered", NoStatus)]

Dial(f, after) == <<Dialing>> \o FailedTrunks(f) \o after

LEMMA DialShape ==
  ASSUME NEW f \in Nat, NEW after \in Seq(CallTransitions)
  PROVE  /\ Dial(f, after) \in Seq(CallTransitions) /\ Len(Dial(f, after)) = f + 1 + Len(after)
         /\ DialsFor(Dial(f, after), f)
         /\ \A i \in 1..Len(after) : Dial(f, after)[f+1+i] = after[i]
<1> DEFINE failed == FailedTrunks(f)
           dial == <<Dialing>> \o failed
           p == Dial(f, after)
<1>1. /\ failed \in Seq(CallTransitions) /\ Len(failed) = f
      /\ \A i \in 1..f : failed[i] = Transition("failover_triggered", NoStatus)
  BY TransitionTypes DEF FailedTrunks
<1>2. <<Dialing>> \in Seq(CallTransitions) /\ Len(<<Dialing>>) = 1 /\ <<Dialing>>[1] = Dialing
  BY TransitionTypes
<1> HIDE DEF failed
<1>3. /\ dial \in Seq(CallTransitions) /\ Len(dial) = 1 + f
      /\ \A i \in 1..(1+f) : dial[i] = IF i <= 1 THEN <<Dialing>>[i] ELSE failed[i-1]
  <2>1. /\ dial \in Seq(CallTransitions) /\ Len(dial) = Len(<<Dialing>>) + Len(failed)
        /\ \A i \in 1..(Len(<<Dialing>>) + Len(failed)) :
             dial[i] = IF i <= Len(<<Dialing>>) THEN <<Dialing>>[i] ELSE failed[i - Len(<<Dialing>>)]
    BY <1>1, <1>2, ConcatProperties
  <2> QED
    BY <1>1, <1>2, <2>1
<1>4. p = dial \o after
  BY DEF Dial, failed
<1> HIDE DEF dial, p
<1>5. /\ p \in Seq(CallTransitions) /\ Len(p) = (1 + f) + Len(after)
      /\ \A i \in 1..((1 + f) + Len(after)) : p[i] = IF i <= 1 + f THEN dial[i] ELSE after[i - (1 + f)]
  <2>1. /\ dial \o after \in Seq(CallTransitions)
        /\ Len(dial \o after) = Len(dial) + Len(after)
        /\ \A i \in 1..(Len(dial) + Len(after)) :
             (dial \o after)[i] = IF i <= Len(dial) THEN dial[i] ELSE after[i - Len(dial)]
    <3>1. dial \in Seq(CallTransitions)
      BY <1>3
    <3> QED
      BY <3>1, ConcatProperties
  <2>2. Len(dial) = 1 + f
    BY <1>3
  <2> QED
    BY <1>4, <2>1, <2>2
<1>6. Len(after) \in Nat
  OBVIOUS
<1>7. p[1] = Dialing
  <2>1. 1 \in 1..((1 + f) + Len(after)) /\ 1 \in 1..(1 + f) /\ 1 <= 1 + f /\ 1 <= 1
    BY <1>6
  <2> QED
    BY <1>2, <1>3, <1>5, <2>1
<1>8. ASSUME NEW i \in 2..(f+1) PROVE p[i] = Transition("failover_triggered", NoStatus)
  <2>1. /\ i \in 1..((1 + f) + Len(after)) /\ i \in 1..(1 + f) /\ i <= 1 + f /\ ~(i <= 1)
        /\ i - 1 \in 1..f
    BY <1>6
  <2> QED
    BY <1>1, <1>3, <1>5, <2>1
<1>9. ASSUME NEW i \in 1..Len(after) PROVE p[f+1+i] = after[i]
  <2>1. /\ f + 1 + i \in 1..((1 + f) + Len(after)) /\ ~(f + 1 + i <= 1 + f)
        /\ (f + 1 + i) - (1 + f) = i
    BY <1>6
  <2> QED
    BY <1>5, <2>1
<1> QED
  BY <1>5, <1>6, <1>7, <1>8, <1>9 DEF DialsFor, p

LEMMA SipDials ==
  ASSUME NEW trunks \in Nat
  PROVE  /\ SipDialPlans(trunks).answered = {Dial(k, <<Ringing, Answered>>) : k \in 0..trunks-1}
         /\ SipDialPlans(trunks).notAnswered =
              {Dial(k, <<Transition("call_failed", st)>>) : k \in 0..trunks-1, st \in {"BUSY", "NO_ANSWER"}}
              \cup {Dial(k, <<Transition("call_initiation_failure", "FAILED")>>) : k \in 0..trunks}
  BY DEF SipDialPlans, Dial, FailedTrunks, Dialing, Ringing, Answered

LEMMA SipShapes ==
  ASSUME NEW s, s.turns \in Nat, NEW trunks \in Nat, NEW p \in SipPlans(s, trunks)
  PROVE  Shaped(p, s.turns)
<1> DEFINE dials == SipDialPlans(trunks)
           voice == VoiceSessionPlans(s, TRUE)
           answered == <<Ringing, Answered>>
<1>0. ASSUME NEW v \in voice
      PROVE  \E k \in Nat : \E last : EndsWalk(last, k, s.turns) /\ v = Walk(k, last)
  BY VoiceSessionWalks
<1>3. p \in dials.notAnswered \/ p \in {d \o v : d \in dials.answered, v \in voice}
  <2>1. SipPlans(s, trunks) =
          dials.notAnswered \cup {d \o v : d \in dials.answered, v \in voice}
    BY DEF SipPlans
  <2> HIDE DEF dials, voice
  <2> QED
    BY <2>1
<1> HIDE DEF voice
<1>1. CASE p \in dials.notAnswered
  <2>1. \/ \E k \in 0..trunks-1, st \in {"BUSY", "NO_ANSWER"} :
             p = Dial(k, <<Transition("call_failed", st)>>)
        \/ \E k \in 0..trunks : p = Dial(k, <<Transition("call_initiation_failure", "FAILED")>>)
    BY <1>1, SipDials
  <2>2. PICK f \in Nat, t \in Failing : p = Dial(f, <<t>>)
    <3>1. ASSUME NEW k \in 0..trunks-1, NEW st \in {"BUSY", "NO_ANSWER"},
                 p = Dial(k, <<Transition("call_failed", st)>>)
          PROVE  \E f \in Nat, t \in Failing : p = Dial(f, <<t>>)
      <4>1. k \in Nat /\ Transition("call_failed", st) \in Failing
        BY DEF Failing
      <4> QED
        BY <3>1, <4>1
    <3>2. ASSUME NEW k \in 0..trunks,
                 p = Dial(k, <<Transition("call_initiation_failure", "FAILED")>>)
          PROVE  \E f \in Nat, t \in Failing : p = Dial(f, <<t>>)
      <4>1. k \in Nat /\ Transition("call_initiation_failure", "FAILED") \in Failing
        BY DEF Failing
      <4> QED
        BY <3>2, <4>1
    <3> QED
      BY <2>1, <3>1, <3>2
  <2>3. <<t>> \in Seq(CallTransitions) /\ Len(<<t>>) = 1 /\ <<t>>[1] = t
    BY TransitionTypes
  <2> DEFINE after == <<t>>
  <2>4. Len(p) = f + 1 + 1 /\ DialsFor(p, f) /\ p[f+1+1] = t
    <3>1. /\ after \in Seq(CallTransitions) /\ Len(after) = 1 /\ after[1] = t /\ 1 \in 1..1
          /\ p = Dial(f, after)
      BY <2>2, <2>3
    <3> HIDE DEF after
    <3>2. /\ Len(p) = f + 1 + Len(after) /\ DialsFor(p, f)
          /\ \A i \in 1..Len(after) : p[f+1+i] = after[i]
      BY <3>1, DialShape
    <3> QED
      BY <3>1, <3>2
  <2>5. UnansweredPlan(p, f)
    <3>1. f + 1 + 1 = f + 2
      OBVIOUS
    <3> QED
      BY <2>4, <3>1 DEF UnansweredPlan
  <2> QED
    BY <2>5 DEF Shaped
<1>2. CASE p \in {d \o v : d \in dials.answered, v \in voice}
  <2>1. PICK d \in dials.answered, v \in voice : p = d \o v
    BY <1>2
  <2>2. PICK f \in 0..trunks-1 : d = Dial(f, answered)
    <3>1. dials.answered = {Dial(k, answered) : k \in 0..trunks-1}
      BY SipDials
    <3> HIDE DEF dials, answered
    <3> QED
      BY <2>1, <3>1
  <2>3. PICK k, last : k \in Nat /\ EndsWalk(last, k, s.turns) /\ v = Walk(k, last)
    BY <1>0, <2>1
  <2>4. /\ answered \in Seq(CallTransitions) /\ Len(answered) = 2
        /\ answered[1] = Ringing /\ answered[2] = Answered
    BY TransitionTypes
  <2> HIDE DEF answered
  <2>5. /\ d \in Seq(CallTransitions) /\ Len(d) = f + 3 /\ DialsFor(d, f)
        /\ d[f+2] = Ringing /\ d[f+3] = Answered
    <3>1. /\ f \in Nat /\ f + 1 + 2 = f + 3 /\ f + 1 + 1 = f + 2
          /\ 1 \in 1..2 /\ 2 \in 1..2
      OBVIOUS
    <3>2. /\ d \in Seq(CallTransitions) /\ Len(d) = f + 1 + 2 /\ DialsFor(d, f)
          /\ \A i \in 1..2 : d[f+1+i] = answered[i]
      <4>1. /\ d \in Seq(CallTransitions) /\ Len(d) = f + 1 + Len(answered) /\ DialsFor(d, f)
            /\ \A i \in 1..Len(answered) : d[f+1+i] = answered[i]
        BY <2>2, <2>4, <3>1, DialShape
      <4> QED
        BY <2>4, <4>1
    <3> QED
      BY <2>4, <3>1, <3>2
  <2>6. AnsweredPlan(p, f, k, s.turns) /\ f \in Nat
    <3>1. f \in Nat
      OBVIOUS
    <3>2. AnsweredPlan(d \o Walk(k, last), f, k, s.turns)
      BY <2>3, <2>5, <3>1, WalkIsAnswered
    <3> QED
      BY <2>1, <2>3, <3>1, <3>2
  <2> QED
    BY <2>3, <2>6 DEF Shaped
<1> QED
  BY <1>1, <1>2, <1>3

(* Each plan of the runners ends with the status the call ends in.         *)
LEMMA LastTransition ==
  ASSUME NEW f \in Nat, NEW k \in Nat, NEW turns, NEW p,
         AnsweredPlan(p, f, k, turns) \/ UnansweredPlan(p, f)
  PROVE  Len(p) \in Nat \ {0} /\ p[Len(p)].status \in TERMINAL_CALL_STATUSES
<1>1. /\ f + k + 4 \in Nat \ {0} /\ f + 2 \in Nat \ {0} /\ f + 3 \in Nat \ {0}
  OBVIOUS
<1>2. /\ Completed.status = "COMPLETED" /\ Dropped.status = "CALL_DROPPED"
      /\ Transition("call_failed", "FAILED").status = "FAILED"
      /\ \A t \in Failing : t.status \in {"FAILED", "BUSY", "NO_ANSWER"}
  BY DEF Completed, Dropped, Failing, Transition
<1>3. {"COMPLETED", "CALL_DROPPED", "FAILED", "BUSY", "NO_ANSWER"} \subseteq TERMINAL_CALL_STATUSES
  BY DEF TERMINAL_CALL_STATUSES
<1>4. CASE AnsweredPlan(p, f, k, turns)
  <2>1. Len(p) = f + k + 4
        /\ p[f+k+4] \in {Completed, Transition("call_failed", "FAILED"), Dropped}
    BY <1>4 DEF AnsweredPlan
  <2> QED
    BY <1>1, <1>2, <1>3, <2>1
<1>5. CASE UnansweredPlan(p, f)
  <2>1. Len(p) \in {f + 2, f + 3} /\ p[Len(p)] \in Failing
    BY <1>5 DEF UnansweredPlan
  <2> QED
    BY <1>1, <1>2, <1>3, <2>1
<1> QED
  BY <1>4, <1>5

LEMMA ShapedEnds ==
  ASSUME NEW turns, NEW p, Shaped(p, turns), NEW st, StatusBefore(p, Len(p) + 1, st)
  PROVE  st \in TERMINAL_CALL_STATUSES
<1>1. Len(p) \in Nat \ {0} /\ p[Len(p)].status \in TERMINAL_CALL_STATUSES
  BY LastTransition DEF Shaped
<1>2. StatusBefore(p, Len(p) + 1, p[Len(p)].status)
  BY <1>1, StatusFacts, StatusAlongPlan
<1>3. Len(p) + 1 \in Nat \ {0}
  BY <1>1
<1> QED
  BY <1>1, <1>2, <1>3, OneStatusBefore

(* Each scenario is run by one of the code's runners.                      *)
RunnersOfTheCode ==
  \A s \in Scenarios :
    /\ s.turns \in Nat
    /\ \E trunks \in Nat :
         Plans[s] \subseteq StubCallRunnerPlans(s) \cup BrowserPlans(s) \cup SipPlans(s, trunks)

(* Whatever the scenario, however many turns it has and however many       *)
(* trunks fail, what the three runners report is legal at every step by    *)
(* the lifecycle table, names the event of each status, and completes only *)
(* after the last turn (stub-call-runner.ts:14-34,                         *)
(* stub-voice-session.ts:66-190, real-call-runner.ts:45-127,               *)
(* call-status.ts:24).  The theorems about the first run, the transcript   *)
(* and the event log assume this of the plans.                             *)
THEOREM RunnersFollowTheTable ==
  ASSUME RunnersOfTheCode
  PROVE  PlansAreProper /\ PlansExplain /\ PlansEndCalls
<1>1. ASSUME NEW s \in Scenarios, NEW p \in Plans[s]
      PROVE  Proper(p, s.turns) /\ \A i \in 1..Len(p) : Names(p[i].eventType, p[i].status)
  <2>1. s.turns \in Nat /\ Shaped(p, s.turns)
    BY StubAndBrowserShapes, SipShapes DEF RunnersOfTheCode
  <2>2. Len(p) > 0 /\ p[1] = Dialing
    BY <2>1 DEF Shaped, AnsweredPlan, UnansweredPlan, DialsFor
  <2>3. \A i \in 1..Len(p) : TransitionOK(p, i, s.turns) /\ Names(p[i].eventType, p[i].status)
    BY <2>1, AnsweredPlanIsProper, UnansweredPlanIsProper DEF Shaped
  <2>4. p # <<>>
    BY <2>2
  <2>5. p[1].status = "DIALING"
    BY <2>2, TransitionShape
  <2> QED
    BY <2>3, <2>4, <2>5 DEF Proper
<1>2. ASSUME NEW s \in Scenarios, NEW p \in Plans[s], NEW st, StatusBefore(p, Len(p) + 1, st)
      PROVE  st \in TERMINAL_CALL_STATUSES
  <2>1. Shaped(p, s.turns)
    BY StubAndBrowserShapes, SipShapes DEF RunnersOfTheCode
  <2> QED
    BY <1>2, <2>1, ShapedEnds
<1> QED
  BY <1>1, <1>2 DEF PlansAreProper, PlansExplain, PlansEndCalls

(* What a step of run r leaves to the other runs.                          *)
LEMMA OwnPlan ==
  ASSUME TypeOK, NEW r \in Runs, Progress(r) \/ Mishap(r)
  PROVE  /\ deliveries' = deliveries /\ scenario' = scenario
         /\ \A q \in Runs \ {r} : /\ step'[q] = step[q] /\ plan'[q] = plan[q]
                                  /\ currentStatus'[q] = currentStatus[q]
                                  /\ finalEvents'[q] = finalEvents[q]
         /\ pc'[r] \notin {"idle", "load"}
<1> USE DEF TypeOK, GoTo, Leave, EnterFinally, Live, queueVars, runnerVars, finallyVars
<1>1. CASE Load(r)
  BY <1>1 DEF Load
<1>2. CASE AppendEvent(r) \/ UpdateStatus(r) \/ RunnerReturns(r) \/ RunnerThrows(r)
  BY <1>2 DEF AppendEvent, UpdateStatus, RunnerReturns, RunnerThrows
<1>3. CASE CatchAppend(r) \/ CatchUpdate(r) \/ RereadCall(r) \/ RereadEvents(r) \/ ListEndpoints(r)
  BY <1>3 DEF CatchAppend, CatchUpdate, RereadCall, RereadEvents, ListEndpoints
<1>4. CASE \E e \in Endpoints : CreateOutboxRow(r, e)
  BY <1>4 DEF CreateOutboxRow
<1>5. CASE AddDispatchJob(r) \/ EnqueueReturns(r) \/ MeterStart(r) \/ MeterReturns(r)
  BY <1>5 DEF AddDispatchJob, EnqueueReturns, MeterStart, MeterReturns
<1>6. CASE \E l \in Legs : MeterLeg(r, l)
  BY <1>6 DEF MeterLeg
<1>7. CASE FindRecording(r) \/ CreateRecording(r) \/ Crash(r)
  BY <1>7 DEF FindRecording, CreateRecording, Crash
<1>8. CASE StoreError(r) \/ UpdateAckLost(r)
  BY <1>8 DEF StoreError, UpdateAckLost
<1> QED
  BY <1>1, <1>2, <1>3, <1>4, <1>5, <1>6, <1>7, <1>8 DEF Progress, Mishap

LEMMA FreshRunsStep ==
  ASSUME TypeOK, FreshRuns, [Next]_vars
  PROVE  FreshRuns'
<1>1. CASE \E r \in Runs : Deliver(r)
  BY <1>1 DEF Deliver, FreshRuns, TypeOK, Runs, runnerVars
<1>2. ASSUME NEW r \in Runs, Progress(r) \/ Mishap(r) PROVE FreshRuns'
  <2>1. pc[r] # "idle" /\ \A q \in Runs \ {r} : pc'[q] = pc[q]
    BY <1>2, LocalStep DEF Live
  <2> QED
    BY <1>2, <2>1, OwnPlan DEF FreshRuns
<1>3. CASE StalledAfterCrash \/ LockExpires \/ UNCHANGED vars
  BY <1>3 DEF StalledAfterCrash, LockExpires, MoveStalledJob, vars, queueVars, runnerVars, FreshRuns
<1> QED
  BY <1>1, <1>2, <1>3 DEF Next

-----------------------------------------------------------------------------
(* The first delivery follows its plan to the end.                         *)

LEMMA FirstRunStep ==
  ASSUME PlansAreProper, RunsInv, FreshRuns, FirstRunInv, [Next]_vars
  PROVE  FirstRunInv'
<1>1. TypeOK /\ \A r \in Runs : RunOK(r)
  BY DEF RunsInv
<1>2. CASE \E r \in Runs : Deliver(r)
  <2>1. PICK r \in Runs : Deliver(r)
    BY <1>2
  <2>2. /\ deliveries' = deliveries + 1 /\ deliveries \in Nat /\ r = deliveries + 1
        /\ callStatus' = callStatus
        /\ pc'[r] = "load" /\ \A q \in Runs \ {r} : pc'[q] = pc[q]
        /\ UNCHANGED <<scenario, plan, step, currentStatus>>
    BY <1>1, <2>1 DEF Deliver, TypeOK, Runs, dbVars, runnerVars
  <2>3. ASSUME deliveries' <= 1 PROVE deliveries = 0 /\ callStatus = "QUEUED"
    BY <2>2, <2>3 DEF FirstRunInv
  <2> SUFFICES ASSUME NEW q \in Runs, deliveries' <= 1
               PROVE  /\ callStatus' = "QUEUED"
                      /\ pc'[q] \in {"run", "update"} =>
                           /\ plan'[q] \in Plans[scenario']
                           /\ StatusBefore(plan'[q], step'[q], currentStatus'[q])
    BY DEF FirstRunInv
  <2>4. pc[q] \in {"run", "update"} =>
          plan[q] \in Plans[scenario] /\ StatusBefore(plan[q], step[q], currentStatus[q])
    BY <2>2, <2>3 DEF FirstRunInv
  <2>5. pc'[q] \in {"run", "update"} => pc'[q] = pc[q]
    BY <2>2
  <2> QED
    BY <2>2, <2>3, <2>4, <2>5
<1>3. CASE StalledAfterCrash \/ LockExpires \/ UNCHANGED vars
  BY <1>3 DEF StalledAfterCrash, LockExpires, MoveStalledJob, vars, dbVars, queueVars, runnerVars,
     FirstRunInv
<1>4. ASSUME NEW r \in Runs, Progress(r) \/ Mishap(r) PROVE FirstRunInv'
  <2>1. /\ pc[r] # "idle" /\ \A q \in Runs \ {r} : pc'[q] = pc[q]
        /\ deliveries' = deliveries /\ scenario' = scenario /\ pc'[r] # "load"
        /\ \A q \in Runs \ {r} : /\ step'[q] = step[q] /\ plan'[q] = plan[q]
                                 /\ currentStatus'[q] = currentStatus[q]
    BY <1>1, <1>4, LocalStep, OwnPlan DEF Live
  <2>2. SUFFICES ASSUME deliveries <= 1
                 PROVE  pc'[r] \in {"run", "update"} =>
                          plan'[r] \in Plans[scenario] /\ StatusBefore(plan'[r], step'[r], currentStatus'[r])
    <3>1. deliveries <= 1 => r = 1 /\ deliveries = 1 /\ \A q \in Runs \ {r} : pc[q] = "idle"
      BY <1>1, <2>1 DEF FreshRuns, TypeOK, Runs
    <3> QED
      BY <2>1, <2>2, <3>1 DEF FirstRunInv
  <2>3. pc[r] \in {"run", "update"} =>
          plan[r] \in Plans[scenario] /\ StatusBefore(plan[r], step[r], currentStatus[r])
    BY <2>2 DEF FirstRunInv
  <2>4. step[r] \in Nat \ {0}
    BY <1>1 DEF TypeOK
  <2>5. CASE Load(r)
    <3>1. callStatus = "QUEUED" /\ step[r] = 1
      BY <2>2, <2>5 DEF Load, FirstRunInv, FreshRuns
    <3>2. pc'[r] = "run" => currentStatus'[r] = callStatus /\ plan'[r] \in Plans[scenario] /\ step' = step
      BY <1>1, <2>5 DEF Load, Leave, TypeOK
    <3>3. pc'[r] # "update"
      BY <1>1, <2>5 DEF Load, Leave, GoTo, TypeOK
    <3>4. StatusBefore(plan'[r], 1, "QUEUED")
      BY DEF StatusBefore
    <3> QED
      BY <3>1, <3>2, <3>3, <3>4
  <2>6. CASE AppendEvent(r)
    <3> DEFINE t == plan[r][step[r]]
    <3>1. /\ pc[r] = "run" /\ step[r] \in 1..Len(plan[r])
          /\ plan' = plan /\ currentStatus' = currentStatus
          /\ \/ t.status \in {NoStatus, currentStatus[r]} /\ step'[r] = step[r] + 1
             \/ t.status \notin {NoStatus, currentStatus[r]} /\ step'[r] = step[r]
      BY <1>1, <2>4, <2>6 DEF AppendEvent, TypeOK
    <3>2. /\ Proper(plan[r], scenario.turns) /\ StatusBefore(plan[r], step[r], currentStatus[r])
          /\ plan[r] \in Plans[scenario]
      BY <1>1, <2>3, <3>1 DEF PlansAreProper, TypeOK
    <3>3. currentStatus[r] \in CallStatuses
      BY <1>1, <3>1 DEF RunOK, Body
    <3>4. t.status # currentStatus[r]
      <4>1. t.status # NoStatus => isValidStatusTransition(currentStatus[r], t.status)
        BY <3>1, <3>2, <3>3 DEF Proper, TransitionOK
      <4> QED
        BY <3>3, <4>1, TransitionFacts, StatusFacts
    <3> HIDE DEF t
    <3> QED
      BY <2>4, <3>1, <3>2, <3>4, StatusAlongPlan DEF t
  <2>7. CASE UpdateStatus(r)
    <3>1. /\ pc[r] = "update" /\ plan' = plan /\ step'[r] = step[r] + 1
          /\ currentStatus'[r] = plan[r][step[r]].status
      BY <1>1, <2>7 DEF UpdateStatus, TypeOK
    <3>2. plan[r][step[r]].status # NoStatus
      BY <1>1, <3>1, StatusFacts DEF RunOK
    <3> QED
      BY <2>3, <2>4, <3>1, <3>2, StatusAlongPlan
  <2>8. CASE ~(Load(r) \/ AppendEvent(r) \/ UpdateStatus(r))
    <3>1. pc'[r] \notin {"run", "update"}
      <4> USE <1>1, <1>4, <2>8 DEF TypeOK, GoTo, Leave, EnterFinally, queueVars
      <4>1. CASE RunnerReturns(r) \/ CatchAppend(r) \/ CatchUpdate(r) \/ RereadCall(r) \/ RereadEvents(r)
        BY <4>1 DEF RunnerReturns, CatchAppend, CatchUpdate, RereadCall, RereadEvents
      <4>2. CASE \/ ListEndpoints(r) \/ AddDispatchJob(r) \/ EnqueueReturns(r)
                 \/ \E e \in Endpoints : CreateOutboxRow(r, e)
        BY <4>2 DEF ListEndpoints, CreateOutboxRow, AddDispatchJob, EnqueueReturns
      <4>3. CASE \/ MeterStart(r) \/ MeterReturns(r) \/ FindRecording(r) \/ CreateRecording(r)
                 \/ \E l \in Legs : MeterLeg(r, l)
        BY <4>3 DEF MeterStart, MeterReturns, MeterLeg, FindRecording, CreateRecording
      <4>4. CASE Crash(r) \/ RunnerThrows(r) \/ StoreError(r) \/ UpdateAckLost(r)
        BY <4>4 DEF Crash, RunnerThrows, StoreError, UpdateAckLost
      <4> QED
        BY <4>1, <4>2, <4>3, <4>4 DEF Progress, Mishap
    <3> QED
      BY <3>1
  <2> QED
    BY <2>5, <2>6, <2>7, <2>8
<1> QED
  BY <1>2, <1>3, <1>4 DEF Next

(* The runners and the lifecycle table agree: the first delivery of a job  *)
(* never meets IllegalTransitionError, whatever store errors, crashes and  *)
(* lost acknowledgements cut it short (call-executor.worker.ts:80-94,      *)
(* call-status.ts:24).  Given that the runners' plans are proper, which is *)
(* RunnersFollowTheTable.                                                  *)
THEOREM FirstRunIsLegal ==
  ASSUME PlansAreProper
  PROVE  Spec => []RunnersAreLegal
<1>1. Init => RunsInv /\ FreshRuns /\ FirstRunInv
  BY InitRunsInv DEF Init, FreshRuns, FirstRunInv
<1>2. RunsInv /\ FreshRuns /\ FirstRunInv /\ [Next]_vars => RunsInv' /\ FreshRuns' /\ FirstRunInv'
  BY RunsInvStep, FreshRunsStep, FirstRunStep DEF RunsInv
<1>3. RunsInv /\ FirstRunInv => RunnersAreLegal
  <2> SUFFICES ASSUME RunsInv, FirstRunInv, NEW r \in Runs,
                      deliveries = 1, pc[r] = "run", step[r] <= Len(plan[r]),
                      plan[r][step[r]].status # NoStatus
               PROVE  isValidStatusTransition(currentStatus[r], plan[r][step[r]].status)
    BY DEF RunnersAreLegal
  <2>1. /\ Proper(plan[r], scenario.turns) /\ StatusBefore(plan[r], step[r], currentStatus[r])
        /\ step[r] \in 1..Len(plan[r])
    <3>1. scenario \in Scenarios /\ plan[r] \in Seq(CallTransitions) /\ step[r] \in Nat \ {0}
      BY DEF RunsInv, TypeOK
    <3>2. plan[r] \in Plans[scenario] /\ StatusBefore(plan[r], step[r], currentStatus[r])
      BY DEF FirstRunInv
    <3> QED
      BY <3>1, <3>2 DEF PlansAreProper
  <2>2. currentStatus[r] \in CallStatuses
    BY DEF RunsInv, RunOK, Body
  <2> QED
    BY <2>1, <2>2 DEF Proper, TransitionOK
<1> QED
  BY <1>1, <1>2, <1>3, PTL DEF Spec

-----------------------------------------------------------------------------
(* The transcript that is sent.                                            *)

LEMMA SaidNext ==
  ASSUME NEW log \in Seq(CallEvents), NEW e \in CallEvents
  PROVE  /\ ~IsTurn(e) => extractTranscript(Append(log, e)) = extractTranscript(log)
         /\ \A n \in Nat : Said(log, n) /\ IsTurn(e) /\ e.turn = n + 1 =>
              Said(Append(log, e), n + 1)
<1>1. extractTranscript(Append(log, e)) =
        IF IsTurn(e) THEN Append(extractTranscript(log), e.turn) ELSE extractTranscript(log)
  BY LongerTranscript DEF IsTurn
<1>2. ASSUME NEW n \in Nat PROVE Append([k \in 1..n |-> k], n + 1) = [k \in 1..(n + 1) |-> k]
  OBVIOUS
<1> QED
  BY <1>1, <1>2 DEF Said

LEMMA SaidLength ==
  ASSUME NEW log, NEW n \in Nat, Said(log, n)
  PROVE  Len(extractTranscript(log)) = n
BY DEF Said

(* A run that is no longer in its plan, and whose events are no turns.     *)
LEMMA SaysNothing ==
  ASSUME TypeOK, TranscriptInv, callStatus' = callStatus, outbox' = outbox, scenario' = scenario,
         finalEvents' = finalEvents,
         events' = events \/ \E e \in CallEvents : ~IsTurn(e) /\ events' = Append(events, e),
         \A q \in Runs : pc'[q] \notin {"run", "update"},
         \A q \in Runs : pc'[q] \in WrapUp \ {"reread", "rereadEvents"} =>
                           pc[q] \in WrapUp \ {"reread", "rereadEvents"}
  PROVE  TranscriptInv'
<1>1. extractTranscript(events') = extractTranscript(events)
  BY SaidNext DEF TypeOK
<1>2. /\ callStatus' \in {"QUEUED", "DIALING", "RINGING"} => Said(events', 0)
      /\ callStatus' = "COMPLETED" => Said(events', scenario'.turns)
  BY <1>1 DEF TranscriptInv, Said
<1>3. \A q \in Runs : TurnsInPlan(q)'
  BY DEF TurnsInPlan
<1>4. \A q \in Runs :
        pc'[q] \in WrapUp \ {"reread", "rereadEvents"} /\ callStatus' = "COMPLETED" =>
          Said(finalEvents'[q], scenario'.turns)
  BY DEF TranscriptInv
<1>5. TranscriptExact'
  BY DEF TranscriptInv, TranscriptExact
<1> QED
  BY <1>2, <1>3, <1>4, <1>5 DEF TranscriptInv

(* As much has been said as the status the call has tells.                 *)
SaidAsStored ==
  /\ callStatus \in {"QUEUED", "DIALING", "RINGING"} => Said(events, 0)
  /\ callStatus = "COMPLETED" => Said(events, scenario.turns)

(* What TurnsInPlan says of a run whose status is the stored one.          *)
LEMMA PlanSoFar ==
  ASSUME NEW r \in Runs, TurnsInPlan(r), pc[r] \in {"run", "update"},
         currentStatus[r] = callStatus
  PROVE  \/ step[r] = 1
         \/ /\ StatusBefore(plan[r], step[r], callStatus)
            /\ SaidBefore(plan[r], step[r], Len(extractTranscript(events)))
            /\ Said(events, Len(extractTranscript(events)))
<1>1. \/ step[r] = 1
      \/ /\ StatusBefore(plan[r], step[r], currentStatus[r])
         /\ SaidBefore(plan[r], step[r], Len(extractTranscript(events)))
         /\ Said(events, Len(extractTranscript(events)))
  BY DEF TurnsInPlan
<1>2. StatusBefore(plan[r], step[r], currentStatus[r]) = StatusBefore(plan[r], step[r], callStatus)
  OBVIOUS
<1> QED
  BY <1>1, <1>2

LEMMA AppendKeepsTranscript ==
  ASSUME PlansAreProper, SingleWriterInv, TranscriptInv, NEW r \in Runs, AppendEvent(r)
  PROVE  TurnsInPlan(r)' /\ SaidAsStored'
<1> DEFINE p == plan[r]
           i == step[r]
           t == p[i]
           e == [eventType |-> t.eventType, turn |-> t.turn]
           n == Len(extractTranscript(events))
<1>1. /\ TypeOK /\ currentStatus[r] = callStatus /\ callStatus \in CallStatuses /\ pc[r] = "run"
      /\ callStatus' = callStatus /\ scenario' = scenario /\ SaidAsStored
  BY DEF AppendEvent, SingleWriterInv, RunsInv, TypeOK, SoleRunOK, LocalStatusIsStored, Body,
     TranscriptInv, SaidAsStored
<1>2. /\ i \in 1..Len(p) /\ i \in Nat \ {0} /\ t \in CallTransitions
      /\ p \in Plans[scenario] /\ Proper(p, scenario.turns)
  BY <1>1, NextTransition DEF AppendEvent, TranscriptInv, TurnsInPlan, PlansAreProper, TypeOK
<1>3. /\ e \in CallEvents /\ events' = Append(events, e) /\ events \in Seq(CallEvents)
      /\ IsTurn(e) <=> IsTurn(t)
      /\ e.turn = t.turn /\ t.turn \in Nat
  BY <1>1, <1>2 DEF AppendEvent, LogEvent, CallTransitions, CallEvents, IsTurn, TypeOK
<1>4. /\ plan' = plan /\ currentStatus' = currentStatus /\ scenario' = scenario
      /\ \/ /\ t.status \in {NoStatus, callStatus} /\ step'[r] = i + 1
         \/ /\ t.status \notin {NoStatus, callStatus} /\ step'[r] = i
  BY <1>1 DEF AppendEvent, TypeOK
<1>5. TransitionOK(p, i, scenario.turns) /\ p[1].status = "DIALING" /\ "DIALING" # NoStatus
  BY <1>2 DEF Proper, NoStatus
<1>6. IsTurn(t) => t.status = NoStatus
  BY <1>5 DEF TransitionOK
<1>7. ~IsTurn(t) => extractTranscript(events') = extractTranscript(events)
  BY <1>3, SaidNext
<1>8. i = 1 \/ (StatusBefore(p, i, callStatus) /\ SaidBefore(p, i, n) /\ Said(events, n))
  <2>1. TurnsInPlan(r)
    BY DEF TranscriptInv
  <2> QED
    BY <1>1, <2>1, PlanSoFar
<1> HIDE DEF e, t, i, p, n
<1>9. CASE i = 1
  <2>1. ~IsTurn(t) /\ t.status = "DIALING"
    BY <1>5, <1>6, <1>9 DEF t
  <2>2. extractTranscript(events') = extractTranscript(events)
    BY <1>7, <2>1
  <2>4. SaidAsStored'
    BY <1>1, <2>2 DEF SaidAsStored, Said
  <2>5. CASE step'[r] = 1
    BY <1>2, <1>4, <2>4, <2>5 DEF TurnsInPlan, p
  <2>6. CASE step'[r] # 1
    <3>1. callStatus = "DIALING" /\ step'[r] = 2
      BY <1>4, <1>5, <1>9, <2>1, <2>6
    <3>2. StatusBefore(p, 2, "DIALING")
      BY <1>5, StatusAlongPlan
    <3>3. SaidBefore(p, 2, 0)
      BY <1>9, <2>1, TurnsAlongPlan DEF t
    <3>4. Said(events', 0) /\ Len(extractTranscript(events')) = 0
      BY <1>1, <2>4, <3>1, SaidLength DEF SaidAsStored
    <3> QED
      BY <1>1, <1>2, <1>4, <2>4, <3>1, <3>2, <3>3, <3>4 DEF TurnsInPlan, p
  <2> QED
    BY <2>5, <2>6
<1>10. CASE i # 1
  <2>1. StatusBefore(p, i, callStatus) /\ SaidBefore(p, i, n) /\ Said(events, n)
    BY <1>8, <1>10
  <2>2. CASE ~IsTurn(t)
    <3>1. extractTranscript(events') = extractTranscript(events)
      BY <1>7, <2>2
    <3>2. SaidAsStored'
      BY <1>1, <3>1 DEF SaidAsStored, Said
    <3>3. Said(events', n) /\ Len(extractTranscript(events')) = n
      BY <2>1, <3>1 DEF Said, n
    <3>4. t.status # callStatus
      <4>1. t.status # NoStatus => isValidStatusTransition(callStatus, t.status)
        BY <1>1, <1>5, <2>1 DEF TransitionOK, t
      <4> QED
        BY <1>1, <4>1, TransitionFacts, StatusFacts
    <3>5. CASE t.status = NoStatus
      <4>1. StatusBefore(p, i + 1, callStatus) /\ SaidBefore(p, i + 1, n) /\ step'[r] = i + 1
        BY <1>2, <1>4, <2>1, <2>2, <3>5, StatusAlongPlan, TurnsAlongPlan DEF t
      <4> QED
        BY <1>1, <1>2, <1>4, <3>2, <3>3, <4>1 DEF TurnsInPlan, p
    <3>6. CASE t.status # NoStatus
      <4>1. step'[r] = i
        BY <1>4, <3>4, <3>6
      <4> QED
        BY <1>1, <1>2, <1>4, <2>1, <3>2, <3>3, <4>1 DEF TurnsInPlan, p
    <3> QED
      BY <3>5, <3>6
  <2>3. CASE IsTurn(t)
    <3>1. /\ t.status = NoStatus /\ t.turn > 0
          /\ StatusBefore(p, i, "IN_PROGRESS") /\ SaidBefore(p, i, t.turn - 1)
      BY <1>5, <2>3 DEF TransitionOK, t
    <3>2. callStatus = "IN_PROGRESS" /\ n = t.turn - 1
      BY <1>2, <2>1, <3>1, OneStatusBefore, OneTurnBefore
    <3>3. n \in Nat /\ n + 1 = t.turn
      BY <1>3, <3>1, <3>2
    <3>4. Said(events', n + 1)
      BY <1>3, <2>1, <2>3, <3>3, SaidNext
    <3>5. Len(extractTranscript(events')) = n + 1
      BY <3>3, <3>4, SaidLength
    <3>6. StatusBefore(p, i + 1, callStatus) /\ SaidBefore(p, i + 1, n + 1) /\ step'[r] = i + 1
      BY <1>2, <1>4, <2>1, <2>3, <3>1, <3>3, StatusAlongPlan, TurnsAlongPlan DEF t
    <3>7. SaidAsStored'
      BY <1>1, <3>2 DEF SaidAsStored
    <3> QED
      BY <1>1, <1>2, <1>4, <3>2, <3>4, <3>5, <3>6, <3>7 DEF TurnsInPlan, p
  <2> QED
    BY <2>2, <2>3
<1> QED
  BY <1>9, <1>10

LEMMA UpdateKeepsTranscript ==
  ASSUME PlansAreProper, SingleWriterInv, TranscriptInv, NEW r \in Runs, UpdateStatus(r)
  PROVE  TurnsInPlan(r)' /\ SaidAsStored'
<1> DEFINE p == plan[r]
           i == step[r]
           to == p[i].status
           n == Len(extractTranscript(events))
<1>1. /\ TypeOK /\ currentStatus[r] = callStatus /\ callStatus \in CallStatuses
      /\ to \in CallStatuses /\ isValidStatusTransition(callStatus, to)
      /\ TurnsInPlan(r) /\ SaidAsStored
  BY DEF UpdateStatus, SingleWriterInv, RunsInv, TypeOK, SoleRunOK, LocalStatusIsStored, Body,
     RunOK, TranscriptInv, SaidAsStored
<1>2. /\ i \in 1..Len(p) /\ i \in Nat \ {0}
      /\ p \in Plans[scenario] /\ Proper(p, scenario.turns)
  <2>1. i \in 1..Len(p) /\ i \in Nat \ {0}
    BY <1>1 DEF UpdateStatus, SingleWriterInv, RunsInv, RunOK, TypeOK
  <2>2. p \in Plans[scenario] /\ scenario \in Scenarios
    BY <1>1 DEF UpdateStatus, TurnsInPlan, TypeOK
  <2> QED
    BY <2>1, <2>2 DEF PlansAreProper
<1>3. /\ callStatus' = to /\ currentStatus'[r] = to /\ step'[r] = i + 1
      /\ UNCHANGED <<events, scenario, plan>>
  BY <1>1 DEF UpdateStatus, TypeOK
<1>4. TransitionOK(p, i, scenario.turns) /\ p[1].status = "DIALING" /\ to # NoStatus
  BY <1>1, <1>2, StatusFacts DEF Proper
<1>5. ~IsTurn(p[i])
  BY <1>4 DEF TransitionOK
<1>6. i = 1 \/ (StatusBefore(p, i, callStatus) /\ SaidBefore(p, i, n) /\ Said(events, n))
  <2>1. pc[r] \in {"run", "update"}
    BY DEF UpdateStatus
  <2> QED
    BY <1>1, <2>1, PlanSoFar
<1>7. StatusBefore(p, i + 1, to)
  BY <1>2, <1>4, StatusAlongPlan
<1> HIDE DEF n, p, i
<1>8. SaidBefore(p, i, n) /\ Said(events, n)
  <2>1. CASE i = 1
    <3>1. callStatus = "QUEUED"
      BY <1>1, <1>4, <2>1, TransitionFacts
    <3>2. Said(events, 0) /\ n = 0
      BY <1>1, <3>1, SaidLength DEF SaidAsStored, n
    <3>3. SaidBefore(p, 1, 0)
      BY DEF SaidBefore
    <3> QED
      BY <2>1, <3>2, <3>3
  <2> QED
    BY <1>6, <2>1
<1>9. SaidBefore(p, i + 1, n)
  BY <1>2, <1>5, <1>8, TurnsAlongPlan
<1>10. TurnsInPlan(r)'
  BY <1>2, <1>3, <1>7, <1>8, <1>9 DEF TurnsInPlan, n, p, i
<1>11. SaidAsStored'
  <2>1. ASSUME to \in {"QUEUED", "DIALING", "RINGING"} PROVE Said(events, 0)
    <3>1. callStatus \in {"QUEUED", "DIALING"}
      BY <1>1, <2>1, TransitionFacts
    <3> QED
      BY <1>1, <3>1 DEF SaidAsStored
  <2>2. ASSUME to = "COMPLETED" PROVE Said(events, scenario.turns)
    <3>1. SaidBefore(p, i, scenario.turns)
      BY <1>4, <2>2 DEF TransitionOK
    <3>2. n = scenario.turns
      BY <1>2, <1>8, <3>1, OneTurnBefore
    <3> QED
      BY <1>8, <3>2
  <2> HIDE DEF to
  <2> QED
    BY <1>3, <2>1, <2>2 DEF SaidAsStored, Said
<1> QED
  BY <1>10, <1>11

LEMMA TranscriptStep ==
  ASSUME PlansAreProper, SingleWriter, SingleWriterInv, FreshRuns, TranscriptInv, [Next]_vars
  PROVE  TranscriptInv'
<1>1. TypeOK /\ OneLiveRun
  BY DEF SingleWriterInv, RunsInv
<1>2. CASE (\E r \in Runs : Deliver(r)) \/ StalledAfterCrash \/ UNCHANGED vars
  <2>1. /\ UNCHANGED <<callStatus, events, outbox, scenario, plan, step, currentStatus, finalEvents>>
        /\ \A q \in Runs : pc'[q] = pc[q] \/ pc'[q] = "load"
    BY <1>1, <1>2 DEF Deliver, StalledAfterCrash, MoveStalledJob, vars, dbVars, queueVars, runnerVars,
       finallyVars, TypeOK
  <2>2. \A q \in Runs : TurnsInPlan(q)'
    BY <2>1 DEF TranscriptInv, TurnsInPlan, Said
  <2> QED
    BY <2>1, <2>2 DEF TranscriptInv, TranscriptExact, WrapUp, Said
<1>3. CASE LockExpires
  BY <1>3 DEF LockExpires, SingleWriter
<1>4. ASSUME NEW r \in Runs, Progress(r) \/ Mishap(r) PROVE TranscriptInv'
  <2>1. /\ Live(r) /\ scenario' = scenario
        /\ \A q \in Runs \ {r} : pc'[q] = pc[q]
    BY <1>1, <1>4, LocalStep, OwnPlan
  <2>2. \A q \in Runs \ {r} : pc'[q] \in {"idle", "done", "crashed"}
    BY <1>1, <2>1 DEF OneLiveRun, Live
  <2>3. ASSUME SaidAsStored', TurnsInPlan(r)', TranscriptExact',
               pc'[r] \in WrapUp \ {"reread", "rereadEvents"} /\ callStatus' = "COMPLETED" =>
                 Said(finalEvents'[r], scenario'.turns)
        PROVE  TranscriptInv'
    <3>1. \A q \in Runs : TurnsInPlan(q)'
      BY <2>2, <2>3 DEF TurnsInPlan
    <3>2. \A q \in Runs :
            pc'[q] \in WrapUp \ {"reread", "rereadEvents"} /\ callStatus' = "COMPLETED" =>
              Said(finalEvents'[q], scenario'.turns)
      BY <2>2, <2>3 DEF WrapUp
    <3> QED
      BY <2>3, <3>1, <3>2 DEF TranscriptInv, SaidAsStored
  <2>4. SaidAsStored /\ TurnsInPlan(r) /\ TranscriptExact
    BY DEF TranscriptInv, SaidAsStored
  <2>5. CASE Load(r)
    <3>1. /\ UNCHANGED <<callStatus, events, outbox, step>> /\ pc[r] = "load"
          /\ pc'[r] = "run" => plan'[r] \in Plans[scenario]
          /\ pc'[r] \in {"run", "done"}
      BY <1>1, <2>5 DEF Load, GoTo, Leave, dbVars, TypeOK
    <3>2. step'[r] = 1
      BY <3>1 DEF FreshRuns
    <3> QED
      BY <2>1, <2>3, <2>4, <3>1, <3>2 DEF SaidAsStored, Said, TurnsInPlan, TranscriptExact, WrapUp
  <2>6. CASE AppendEvent(r)
    <3>1. UNCHANGED <<callStatus, outbox>> /\ pc'[r] \in {"run", "update", "catch"}
      BY <1>1, <2>6 DEF AppendEvent, GoTo, TypeOK
    <3> QED
      BY <2>1, <2>3, <2>4, <2>6, <3>1, AppendKeepsTranscript DEF TranscriptExact, WrapUp
  <2>7. CASE UpdateStatus(r)
    <3>1. UNCHANGED outbox /\ pc'[r] = "run"
      BY <1>1, <2>7 DEF UpdateStatus, GoTo, TypeOK
    <3> QED
      BY <2>1, <2>3, <2>4, <2>7, <3>1, UpdateKeepsTranscript DEF TranscriptExact, WrapUp
  <2>8. CASE CatchUpdate(r)
    <3>1. UNCHANGED outbox /\ pc'[r] \in {"reread", "done"} /\ callStatus' = "FAILED"
      BY <1>1, <2>8 DEF CatchUpdate, EnterFinally, Leave, GoTo, TypeOK
    <3> QED
      BY <2>1, <2>3, <2>4, <3>1 DEF SaidAsStored, TurnsInPlan, TranscriptExact, WrapUp
  <2>9. CASE RereadEvents(r)
    <3>1. /\ UNCHANGED <<callStatus, events, outbox>> /\ finalEvents'[r] = events
          /\ pc'[r] \in {"rereadCall", "list"}
      BY <1>1, <2>9 DEF RereadEvents, GoTo, dbVars, TypeOK
    <3> QED
      BY <2>1, <2>3, <2>4, <3>1 DEF SaidAsStored, Said, TurnsInPlan, TranscriptExact
  <2>10. ASSUME NEW e \in Endpoints, CreateOutboxRow(r, e) PROVE TranscriptInv'
    <3>1. /\ UNCHANGED <<callStatus, events, finalEvents>> /\ pc[r] = "create"
          /\ pc'[r] \in {"create", "queueAdd"}
      BY <1>1, <2>10 DEF CreateOutboxRow, GoTo, TypeOK
    <3>2. finalCall[r] = callStatus
      BY <3>1 DEF SingleWriterInv, SoleRunOK, WrapUpIsFinal, WrapUp
    <3>3. callStatus = "COMPLETED" => Said(finalEvents[r], scenario.turns)
      BY <3>1 DEF TranscriptInv, WrapUp
    <3>4. ASSUME NEW o \in outbox', o.eventType = "post_call_transcription"
          PROVE  o.transcript = [k \in 1..scenario.turns |-> k]
      <4>1. CASE o \in outbox
        BY <2>4, <3>4, <4>1 DEF TranscriptExact
      <4>2. CASE o \notin outbox
        <5> DEFINE payload == mapCallOutcomeToWebhookPayload(finalCall[r], finalEvents[r])
        <5>1. o = [endpoint |-> e, eventType |-> payload.type,
                   reason |-> payload.reason, transcript |-> payload.transcript]
          BY <2>10, <4>2 DEF CreateOutboxRow
        <5>2. WebhookEventOf(callStatus) = "post_call_transcription"
          <6>1. payload.type = WebhookEventOf(callStatus)
            BY <3>2, PayloadType
          <6> HIDE DEF payload
          <6> QED
            BY <3>4, <5>1, <6>1
        <5>3. callStatus = "COMPLETED"
          BY <5>2 DEF WebhookEventOf, NoEvent
        <5>4. payload.transcript = extractTranscript(finalEvents[r])
          BY <3>2, <5>3 DEF mapCallOutcomeToWebhookPayload
        <5> HIDE DEF payload
        <5> QED
          BY <3>3, <5>1, <5>3, <5>4 DEF Said
      <4> QED
        BY <4>1, <4>2
    <3>5. TranscriptExact'
      BY <2>1, <3>4 DEF TranscriptExact
    <3> QED
      BY <2>1, <2>3, <2>4, <3>1, <3>3, <3>5 DEF SaidAsStored, Said, TurnsInPlan
  <2>11. CASE ~(Load(r) \/ AppendEvent(r) \/ UpdateStatus(r) \/ CatchUpdate(r) \/ RereadEvents(r)
                  \/ \E e \in Endpoints : CreateOutboxRow(r, e))
    <3>1. /\ UNCHANGED <<callStatus, outbox, finalEvents>>
          /\ events' = events \/ \E e \in CallEvents : ~IsTurn(e) /\ events' = Append(events, e)
          /\ pc'[r] \notin {"run", "update"}
          /\ pc'[r] \in WrapUp \ {"reread", "rereadEvents"} =>
               pc[r] \in WrapUp \ {"reread", "rereadEvents"}
      <4> USE <1>1 DEF TypeOK, GoTo, Leave, EnterFinally, dbVars, queueVars, finallyVars, WrapUp
      <4>1. CASE CatchAppend(r)
        <5>1. [eventType |-> "call_failed", turn |-> 0] \in CallEvents
              /\ ~IsTurn([eventType |-> "call_failed", turn |-> 0])
          BY DEF CallEvents, EventTypes, IsTurn
        <5> QED
          BY <4>1, <5>1 DEF CatchAppend, LogEvent
      <4>2. CASE RunnerReturns(r) \/ RunnerThrows(r) \/ RereadCall(r)
        BY <4>2 DEF RunnerReturns, RunnerThrows, RereadCall
      <4>3. CASE ListEndpoints(r) \/ AddDispatchJob(r) \/ EnqueueReturns(r)
        BY <4>3 DEF ListEndpoints, AddDispatchJob, EnqueueReturns
      <4>4. CASE MeterStart(r) \/ MeterReturns(r) \/ FindRecording(r) \/ CreateRecording(r)
        BY <4>4 DEF MeterStart, MeterReturns, FindRecording, CreateRecording
      <4>5. CASE \E l \in Legs : MeterLeg(r, l)
        <5>1. [eventType |-> "cost_unpriced_leg", turn |-> 0] \in CallEvents
              /\ ~IsTurn([eventType |-> "cost_unpriced_leg", turn |-> 0])
          BY DEF CallEvents, EventTypes, IsTurn
        <5> QED
          BY <4>5, <5>1 DEF MeterLeg, LogEvent
      <4>6. CASE Crash(r)
        BY <4>6 DEF Crash
      <4>7. CASE StoreError(r)
        BY <4>7 DEF StoreError
      <4>8. CASE UpdateAckLost(r)
        BY <4>8 DEF UpdateAckLost, SingleWriter
      <4> QED
        BY <1>4, <2>11, <4>1, <4>2, <4>3, <4>4, <4>5, <4>6, <4>7, <4>8 DEF Progress, Mishap
    <3>2. \A q \in Runs : pc'[q] \notin {"run", "update"}
      BY <2>2, <3>1
    <3>3. \A q \in Runs : pc'[q] \in WrapUp \ {"reread", "rereadEvents"} =>
                            pc[q] \in WrapUp \ {"reread", "rereadEvents"}
      BY <2>2, <3>1 DEF WrapUp
    <3> QED
      BY <1>1, <2>1, <3>1, <3>2, <3>3, SaysNothing
  <2> QED
    BY <2>5, <2>6, <2>7, <2>8, <2>9, <2>10, <2>11
<1> QED
  BY <1>2, <1>3, <1>4 DEF Next

LEMMA InitTranscriptInv == Init => TranscriptInv
<1> SUFFICES ASSUME Init PROVE TranscriptInv
  OBVIOUS
<1>1. extractTranscript(events) = <<>>
  <2> DEFINE e == [eventType |-> "call_queued", turn |-> 0]
  <2>1. e \in CallEvents /\ ~IsTurn(e) /\ <<>> \in Seq(CallEvents)
    BY DEF CallEvents, EventTypes, IsTurn
  <2>2. events = Append(<<>>, e)
    BY DEF Init
  <2> HIDE DEF e
  <2> QED
    BY <2>1, <2>2, SaidNext, EmptyTranscript
<1>2. Said(events, 0)
  BY <1>1 DEF Said
<1> QED
  BY <1>2 DEF Init, TranscriptInv, TurnsInPlan, TranscriptExact, WrapUp

(* The transcript a customer is sent holds each turn of the conversation   *)
(* once and in order, however often the job is redelivered into the same   *)
(* event log: a run that comes after the first one finds nothing said, or  *)
(* fails at its first transition (call-executor.worker.ts:69-106,          *)
(* transcript-extractor.ts:9).  Given one writer at a time, and plans that *)
(* are proper.                                                             *)
THEOREM TranscriptIsExact ==
  ASSUME PlansAreProper, SingleWriter
  PROVE  Spec => []TranscriptExact
<1>1. Init => SingleWriterInv /\ FreshRuns /\ TranscriptInv
  BY InitSingleWriterInv, InitTranscriptInv DEF Init, FreshRuns
<1>2. SingleWriterInv /\ FreshRuns /\ TranscriptInv /\ [Next]_vars =>
        SingleWriterInv' /\ FreshRuns' /\ TranscriptInv'
  <2>1. SingleWriterInv => TypeOK
    BY DEF SingleWriterInv, RunsInv
  <2> QED
    BY <2>1, SingleWriterInvStep, FreshRunsStep, TranscriptStep
<1>3. TranscriptInv => TranscriptExact
  BY DEF TranscriptInv
<1> QED
  BY <1>1, <1>2, <1>3, PTL DEF Spec

-----------------------------------------------------------------------------
(* The job that ends the call.                                             *)

LEMMA FailedFacts ==
  /\ \A st \in CallStatuses : st \in TERMINAL_CALL_STATUSES \/ isValidStatusTransition(st, "FAILED")
  /\ "FAILED" \in TERMINAL_CALL_STATUSES /\ "COMPLETED" \in TERMINAL_CALL_STATUSES
BY DEF isValidStatusTransition, CALL_STATUS_TRANSITIONS, CallStatuses, TERMINAL_CALL_STATUSES

(* A run that returns with its plan behind it has ended the call.          *)
LEMMA ReturnEndsCall ==
  ASSUME PlansAreProper, PlansEndCalls, TypeOK, NEW r \in Runs, RunOK(r), TurnsInPlan(r),
         RunnerReturns(r), step[r] <= Len(plan[r]) + 1
  PROVE  currentStatus[r] \in TERMINAL_CALL_STATUSES
<1>1. /\ pc[r] = "run" /\ step[r] > Len(plan[r]) /\ scenario \in Scenarios
      /\ plan[r] \in Seq(CallTransitions) /\ step[r] \in Nat
  BY DEF RunnerReturns, TypeOK
<1>2. plan[r] \in Plans[scenario] /\ currentStatus[r] \in CallStatuses
  BY <1>1 DEF TurnsInPlan, RunOK, Body
<1>3. step[r] = Len(plan[r]) + 1 /\ step[r] # 1
  <2>1. plan[r] # <<>>
    BY <1>1, <1>2 DEF PlansAreProper, Proper
  <2> QED
    BY <1>1, <2>1
<1>4. StatusBefore(plan[r], step[r], currentStatus[r])
  BY <1>1, <1>3 DEF TurnsInPlan
<1>5. StatusBefore(plan[r], Len(plan[r]) + 1, currentStatus[r])
  BY <1>3, <1>4
<1> QED
  BY <1>1, <1>2, <1>5 DEF PlansEndCalls

(* Of the live run, and of the status it leaves behind.                    *)
LEMMA LiveRunAccounted ==
  ASSUME PlansAreProper, PlansEndCalls, OnlyRunnerErrors, SingleWriterInv, FreshRuns,
         TranscriptInv, JobAccounted, NEW r \in Runs, Progress(r) \/ Mishap(r)
  PROVE  /\ jobState' = IF pc'[r] = "done" THEN "finished" ELSE "active"
         /\ callStatus \in TERMINAL_CALL_STATUSES => callStatus' \in TERMINAL_CALL_STATUSES
         /\ pc'[r] = "done" => callStatus' \in TERMINAL_CALL_STATUSES
         /\ pc'[r] = "run" => step'[r] <= Len(plan'[r]) + 1
<1>1. /\ TypeOK /\ RunOK(r) /\ SoleRunOK(r) /\ TurnsInPlan(r) /\ Live(r)
      /\ owner = r /\ jobState = "active"
  BY LocalStep DEF SingleWriterInv, RunsInv, OneLiveRun, TranscriptInv
<1> DEFINE Goal == /\ jobState' = IF pc'[r] = "done" THEN "finished" ELSE "active"
                   /\ callStatus \in TERMINAL_CALL_STATUSES => callStatus' \in TERMINAL_CALL_STATUSES
                   /\ pc'[r] = "done" => callStatus' \in TERMINAL_CALL_STATUSES
                   /\ pc'[r] = "run" => step'[r] <= Len(plan'[r]) + 1
<1>2. CASE Load(r)
  <2>1. step'[r] = 1 /\ plan'[r] \in Seq(CallTransitions)
    BY <1>1, <1>2, RunsInvStep DEF Load, FreshRuns, SingleWriterInv, RunsInv, TypeOK, Next, Progress
  <2>2. Len(plan'[r]) \in Nat
    BY <2>1
  <2> QED
    BY <1>1, <1>2, <2>1, <2>2 DEF Load, GoTo, Leave, TypeOK, dbVars
<1>3. CASE AppendEvent(r)
  <2>1. /\ jobState' = jobState /\ callStatus' = callStatus /\ plan' = plan
        /\ pc'[r] \in {"run", "update", "catch"} /\ step[r] <= Len(plan[r])
        /\ step'[r] = step[r] \/ step'[r] = step[r] + 1
    BY <1>1, <1>3 DEF AppendEvent, GoTo, TypeOK
  <2>2. step[r] \in Nat /\ Len(plan[r]) \in Nat
    BY <1>1 DEF TypeOK
  <2> QED
    BY <1>1, <2>1, <2>2
<1>4. CASE UpdateStatus(r)
  <2>1. /\ jobState' = jobState /\ plan' = plan /\ pc'[r] = "run"
        /\ step[r] <= Len(plan[r]) /\ step'[r] = step[r] + 1
        /\ isValidStatusTransition(callStatus, callStatus')
        /\ callStatus \in CallStatuses /\ callStatus' \in CallStatuses
    BY <1>1, <1>4 DEF UpdateStatus, GoTo, TypeOK, RunOK, SoleRunOK, LocalStatusIsStored, Body
  <2>2. step[r] \in Nat /\ Len(plan[r]) \in Nat
    BY <1>1 DEF TypeOK
  <2> QED
    BY <1>1, <2>1, <2>2, TransitionFacts
<1>5. CASE RunnerReturns(r)
  <2>1. currentStatus[r] \in TERMINAL_CALL_STATUSES
    BY <1>1, <1>5, ReturnEndsCall DEF JobAccounted, RunnerReturns
  <2> QED
    BY <1>1, <1>5, <2>1 DEF RunnerReturns, EnterFinally, GoTo, TypeOK, dbVars
<1>6. CASE RunnerThrows(r)
  BY <1>1, <1>6 DEF RunnerThrows, GoTo, TypeOK, dbVars
<1>7. CASE CatchAppend(r)
  <2>1. currentStatus[r] \in CallStatuses /\ callStatus' = callStatus
    BY <1>1, <1>7 DEF CatchAppend, RunOK, Body
  <2>2. pc'[r] \in {"catchUpdate", "reread"} /\ jobState' = jobState
    BY <1>1, <1>7, <2>1, FailedFacts DEF CatchAppend, EnterFinally, GoTo, TypeOK
  <2> QED
    BY <1>1, <2>1, <2>2
<1>8. CASE CatchUpdate(r)
  BY <1>1, <1>8, FailedFacts DEF CatchUpdate, EnterFinally, GoTo, TypeOK
<1>9. CASE pc[r] \in WrapUp /\ ~Crash(r)
  <2>1. callStatus \in TERMINAL_CALL_STATUSES
    BY <1>1, <1>9 DEF SoleRunOK, WrapUpIsFinal
  <2>2. pc'[r] # "run" /\ callStatus' = callStatus
        /\ jobState' = IF pc'[r] = "done" THEN "finished" ELSE "active"
    <3> USE <1>1, <1>9 DEF GoTo, Leave, TypeOK, dbVars, queueVars, WrapUp
    <3>1. CASE RereadCall(r) \/ RereadEvents(r) \/ ListEndpoints(r)
      BY <3>1 DEF RereadCall, RereadEvents, ListEndpoints
    <3>2. CASE \E e \in Endpoints : CreateOutboxRow(r, e)
      BY <3>2 DEF CreateOutboxRow
    <3>3. CASE AddDispatchJob(r) \/ EnqueueReturns(r) \/ MeterStart(r) \/ MeterReturns(r)
      BY <3>3 DEF AddDispatchJob, EnqueueReturns, MeterStart, MeterReturns
    <3>4. CASE \E l \in Legs : MeterLeg(r, l)
      BY <3>4 DEF MeterLeg
    <3>5. CASE FindRecording(r) \/ CreateRecording(r)
      BY <3>5 DEF FindRecording, CreateRecording
    <3>6. ~(Load(r) \/ AppendEvent(r) \/ UpdateStatus(r) \/ RunnerReturns(r) \/ RunnerThrows(r)
              \/ CatchAppend(r) \/ CatchUpdate(r))
      BY DEF Load, AppendEvent, UpdateStatus, RunnerReturns, RunnerThrows, CatchAppend, CatchUpdate
    <3>7. ~StoreError(r) /\ ~UpdateAckLost(r)
      BY DEF StoreError, UpdateAckLost, OnlyRunnerErrors
    <3> QED
      BY <3>1, <3>2, <3>3, <3>4, <3>5, <3>6, <3>7 DEF Progress, Mishap
  <2> QED
    BY <2>1, <2>2
<1>10. CASE Crash(r)
  BY <1>1, <1>10 DEF Crash, GoTo, TypeOK, dbVars
<1>11. ~StoreError(r) /\ ~UpdateAckLost(r)
  BY DEF StoreError, UpdateAckLost, OnlyRunnerErrors
<1>12. pc[r] \notin WrapUp =>
         \/ Load(r) \/ AppendEvent(r) \/ UpdateStatus(r) \/ RunnerReturns(r)
         \/ RunnerThrows(r) \/ CatchAppend(r) \/ CatchUpdate(r) \/ Crash(r)
  BY <1>11 DEF Progress, Mishap, RereadCall, RereadEvents, ListEndpoints, CreateOutboxRow,
     AddDispatchJob, EnqueueReturns, MeterStart, MeterLeg, MeterReturns, FindRecording,
     CreateRecording, WrapUp
<1> QED
  BY <1>2, <1>3, <1>4, <1>5, <1>6, <1>7, <1>8, <1>9, <1>10, <1>12

LEMMA JobAccountedStep ==
  ASSUME PlansAreProper, PlansEndCalls, OnlyRunnerErrors, SingleWriterInv, FreshRuns,
         TranscriptInv, JobAccounted, [Next]_vars
  PROVE  JobAccounted'
<1>1. TypeOK /\ OneLiveRun /\ deliveries \in 0..MaxStalledCount+1 /\ MaxStalledCount \in Nat
  BY StalledAssumption DEF SingleWriterInv, RunsInv, TypeOK
<1>2. ASSUME NEW r \in Runs, Deliver(r) PROVE JobAccounted'
  <2>1. /\ r = deliveries + 1 /\ jobState = "waiting"
        /\ deliveries' = r /\ owner' = r /\ jobState' = "active"
        /\ pc' = [pc EXCEPT ![r] = "load"] /\ UNCHANGED <<callStatus, step, plan>>
    BY <1>2 DEF Deliver, dbVars, runnerVars
  <2>2. ASSUME NEW q \in Runs, q < r PROVE pc'[q] = "crashed"
    <3>1. q < deliveries \/ q = deliveries
      BY <1>1, <2>1, <2>2 DEF Runs
    <3> QED
      BY <1>1, <2>1, <2>2, <3>1 DEF JobAccounted, TypeOK, Runs
  <2>3. \A q \in Runs : /\ pc'[q] = "done" => callStatus' \in TERMINAL_CALL_STATUSES
                        /\ pc'[q] = "run" => step'[q] <= Len(plan'[q]) + 1
    BY <1>1, <2>1 DEF JobAccounted, TypeOK
  <2> QED
    BY <2>1, <2>2, <2>3 DEF JobAccounted
<1>3. CASE StalledAfterCrash
  <2>1. /\ owner \in Runs /\ pc[owner] = "crashed" /\ jobState = "active"
        /\ jobState' = IF deliveries <= MaxStalledCount THEN "waiting" ELSE "finished"
        /\ UNCHANGED <<deliveries, pc, callStatus, step, plan>>
    BY <1>3 DEF StalledAfterCrash, MoveStalledJob, dbVars, runnerVars
  <2>2. owner = deliveries
    BY <2>1 DEF JobAccounted
  <2> QED
    BY <1>1, <2>1, <2>2 DEF JobAccounted
<1>4. CASE LockExpires
  BY <1>4 DEF LockExpires, OnlyRunnerErrors
<1>5. ASSUME NEW r \in Runs, Progress(r) \/ Mishap(r) PROVE JobAccounted'
  <2>1. /\ Live(r) /\ owner' = owner /\ deliveries' = deliveries
        /\ \A q \in Runs \ {r} : pc'[q] = pc[q] /\ step'[q] = step[q] /\ plan'[q] = plan[q]
    BY <1>1, <1>5, LocalStep, OwnPlan
  <2>2. owner = r /\ jobState = "active" /\ deliveries = r
    BY <1>1, <2>1 DEF OneLiveRun, JobAccounted
  <2>3. /\ jobState' = IF pc'[r] = "done" THEN "finished" ELSE "active"
        /\ callStatus \in TERMINAL_CALL_STATUSES => callStatus' \in TERMINAL_CALL_STATUSES
        /\ pc'[r] = "done" => callStatus' \in TERMINAL_CALL_STATUSES
        /\ pc'[r] = "run" => step'[r] <= Len(plan'[r]) + 1
    BY <1>5, LiveRunAccounted
  <2>4. ASSUME NEW q \in Runs
        PROVE  /\ q < deliveries' => pc'[q] = "crashed"
               /\ ~(q = deliveries' /\ jobState' = "waiting")
               /\ pc'[q] = "done" => callStatus' \in TERMINAL_CALL_STATUSES
               /\ pc'[q] = "run" => step'[q] <= Len(plan'[q]) + 1
    <3>1. CASE q = r
      BY <1>1, <2>1, <2>2, <2>3, <3>1
    <3>2. CASE q # r
      BY <2>1, <2>2, <2>3, <3>2 DEF JobAccounted
    <3> QED
      BY <3>1, <3>2
  <2> QED
    BY <2>1, <2>2, <2>3, <2>4 DEF JobAccounted
<1>6. CASE UNCHANGED vars
  BY <1>6 DEF JobAccounted, vars, dbVars, queueVars, runnerVars
<1> QED
  BY <1>2, <1>3, <1>4, <1>5, <1>6 DEF Next

(* A job that is finished leaves no call in DIALING, RINGING or            *)
(* IN_PROGRESS, unless the worker of each of its deliveries died: a run    *)
(* that finds a call half-way fails at its first illegal transition and    *)
(* stores FAILED (call-executor.worker.ts:69-106).  Given that nothing     *)
(* else goes wrong than crashes and exceptions of the runner.              *)
THEOREM FinishedJobEndsTheCall ==
  ASSUME PlansAreProper, PlansEndCalls, OnlyRunnerErrors
  PROVE  Spec => []FinishedJobEnded
<1>1. SingleWriter
  BY DEF SingleWriter, OnlyRunnerErrors
<1> DEFINE Inv == SingleWriterInv /\ FreshRuns /\ TranscriptInv /\ JobAccounted
<1>2. Init => Inv
  <2> SUFFICES ASSUME Init PROVE JobAccounted
    BY InitSingleWriterInv, InitTranscriptInv DEF Init, FreshRuns
  <2> QED
    BY DEF Init, JobAccounted, Runs
<1>3. Inv /\ [Next]_vars => Inv'
  <2>1. SingleWriterInv => TypeOK
    BY DEF SingleWriterInv, RunsInv
  <2> QED
    BY <1>1, <2>1, SingleWriterInvStep, FreshRunsStep, TranscriptStep, JobAccountedStep
<1>4. Inv => FinishedJobEnded
  <2> SUFFICES ASSUME Inv, jobState = "finished", pc[deliveries] = "crashed", deliveries = MaxStalledCount + 1,
                      NEW r \in Runs
               PROVE  pc[r] = "crashed"
    BY DEF JobAccounted, FinishedJobEnded
  <2>1. r < deliveries \/ r = deliveries
    BY StalledAssumption DEF Runs
  <2> QED
    BY <2>1 DEF JobAccounted
<1> QED
  BY <1>2, <1>3, <1>4, PTL DEF Spec

-----------------------------------------------------------------------------
(* What the finally block leaves behind.                                   *)

(* A step of a live run leaves the dead ones dead.                         *)
LEMMA DeathStays ==
  ASSUME TypeOK, NEW r \in Runs, Progress(r) \/ Mishap(r), CrashedInWrapUp
  PROVE  CrashedInWrapUp'
<1>1. PICK q \in Runs : pc[q] = "crashed" /\ currentStatus[q] \in TERMINAL_CALL_STATUSES
  BY DEF CrashedInWrapUp
<1>2. q # r
  BY <1>1, LocalStep DEF Live
<1>3. pc'[q] = pc[q] /\ currentStatus'[q] = currentStatus[q]
  BY <1>1, <1>2, LocalStep, OwnPlan
<1> QED
  BY <1>1, <1>3 DEF CrashedInWrapUp

(* What the finally block has done by the time the live run r leaves it,   *)
(* or by the time it stops.                                                *)
LEMMA WrapUpOfLiveRun ==
  ASSUME OnlyRunnerErrors, SingleWriterInv, WrapUpInv, NEW r \in Runs,
         pc[r] \in WrapUp, Progress(r)
  PROVE  /\ WrapUpSoFar(r)'
         /\ pc'[r] = "done" => WrappedUp'
         /\ \A o \in outbox' : \/ <<o.eventType, o.endpoint>> \in dispatchJobs'
                               \/ pc'[r] = "queueAdd" /\ endpoint'[r] = o.endpoint
<1> DEFINE Goal == /\ WrapUpSoFar(r)'
                   /\ pc'[r] = "done" => WrappedUp'
                   /\ \A o \in outbox' : \/ <<o.eventType, o.endpoint>> \in dispatchJobs'
                                         \/ pc'[r] = "queueAdd" /\ endpoint'[r] = o.endpoint
<1>1. /\ TypeOK /\ RunOK(r) /\ SoleRunOK(r) /\ OutputsMatchStatus /\ JobsMatchRows
      /\ callStatus \in TERMINAL_CALL_STATUSES /\ ~CrashedInWrapUp /\ WrapUpSoFar(r)
      /\ pc[r] \notin {"reread", "rereadCall"} => finalCall[r] = callStatus
  BY DEF SingleWriterInv, RunsInv, SoleRunOK, WrapUpIsFinal, WrapUpInv, Body
<1>2. \A o \in outbox : \/ <<o.eventType, o.endpoint>> \in dispatchJobs
                        \/ pc[r] = "queueAdd" /\ endpoint[r] = o.endpoint
  <2>1. \A q \in Runs : pc[q] = "queueAdd" => q = r
    BY DEF SingleWriterInv, OneLiveRun, Live, WrapUp
  <2> QED
    BY <1>1, <2>1 DEF WrapUpInv, RowsAreQueued
<1> USE DEF TypeOK, GoTo, Leave, dbVars, queueVars
<1>3. CASE RereadCall(r) \/ RereadEvents(r)
  <2>1. /\ UNCHANGED <<dbVars, dispatchJobs>> /\ pc[r] \in {"reread", "rereadCall", "rereadEvents"}
        /\ pc'[r] \in {"rereadCall", "rereadEvents", "list"}
    BY <1>1, <1>3 DEF RereadCall, RereadEvents
  <2> QED
    BY <1>2, <2>1 DEF WrapUpSoFar
<1>4. CASE ListEndpoints(r)
  <2>1. /\ UNCHANGED <<dbVars, dispatchJobs>> /\ pc[r] = "list" /\ pc'[r] = "create"
        /\ endpoints'[r] = {e \in Endpoints : WebhookEventOf(callStatus) \in Subscribed[e]}
    BY <1>1, <1>4 DEF ListEndpoints
  <2>2. \A e \in Endpoints \ endpoints'[r] : Notified(e)'
    BY <2>1 DEF Notified
  <2> QED
    BY <1>2, <2>1, <2>2 DEF WrapUpSoFar
<1>5. ASSUME NEW e \in Endpoints, CreateOutboxRow(r, e) PROVE Goal
  <2> DEFINE event == WebhookEventOf(callStatus)
             payload == mapCallOutcomeToWebhookPayload(finalCall[r], finalEvents[r])
             row == [endpoint |-> e, eventType |-> payload.type,
                     reason |-> payload.reason, transcript |-> payload.transcript]
             inserted == ~ \E o \in outbox : /\ o.endpoint = e
                                             /\ o.eventType = payload.type
  <2>1. /\ pc[r] = "create" /\ e \in endpoints[r]
        /\ UNCHANGED <<callStatus, dispatchJobs, scenario>>
        /\ endpoints'[r] = endpoints[r] \ {e}
    BY <1>1, <1>5 DEF CreateOutboxRow, runnerVars
  <2>2. payload.type = event /\ row.endpoint = e
    BY <1>1, <2>1, PayloadType
  <2>3. \A x \in Endpoints \ endpoints[r] : Notified(x)
    BY <1>1, <2>1 DEF WrapUpSoFar
  <2>4. \A x \in Endpoints : Notified(x)' <=> Notified(x)
    BY <2>1 DEF Notified
  <2>5. CASE inserted
    <3>1. outbox' = outbox \cup {row} /\ pc'[r] = "queueAdd" /\ endpoint'[r] = e
      BY <1>1, <1>5, <2>5 DEF CreateOutboxRow
    <3> HIDE DEF row, payload, inserted
    <3>2. WrapUpSoFar(r)'
      BY <2>1, <2>3, <2>4, <3>1 DEF WrapUpSoFar
    <3> QED
      BY <1>2, <2>1, <2>2, <3>1, <3>2
  <2>6. CASE ~inserted
    <3>1. outbox' = outbox /\ pc'[r] = "create"
      BY <1>1, <1>5, <2>1, <2>6 DEF CreateOutboxRow
    <3>2. PICK o \in outbox : o.endpoint = e /\ o.eventType = event
      BY <2>2, <2>6
    <3>3. Notified(e)
      BY <1>2, <2>1, <3>2 DEF Notified, RowKey
    <3> HIDE DEF row, payload, inserted
    <3>4. WrapUpSoFar(r)'
      BY <2>1, <2>3, <2>4, <3>1, <3>3 DEF WrapUpSoFar
    <3> QED
      BY <1>2, <2>1, <3>1, <3>4
  <2> QED
    BY <2>5, <2>6
<1>6. CASE AddDispatchJob(r)
  <2>1. /\ pc[r] = "queueAdd" /\ pc'[r] = "create" /\ UNCHANGED <<dbVars, endpoints, endpoint, scenario>>
        /\ dispatchJobs' = dispatchJobs \cup {<<WebhookEventOf(callStatus), endpoint[r]>>}
    BY <1>1, <1>6 DEF AddDispatchJob, RowKey, runnerVars, finallyVars
  <2>2. \A o \in outbox : <<o.eventType, o.endpoint>> \in dispatchJobs'
    BY <1>1, <1>2, <2>1 DEF OutputsMatchStatus
  <2>3. \A e \in Endpoints \ endpoints'[r] : Notified(e)'
    BY <1>1, <2>1 DEF WrapUpSoFar, Notified, RowKey
  <2> QED
    BY <2>1, <2>2, <2>3 DEF WrapUpSoFar
<1>7. CASE EnqueueReturns(r) \/ MeterReturns(r)
  <2>1. UNCHANGED <<dbVars, dispatchJobs, scenario>>
    BY <1>7 DEF EnqueueReturns, MeterReturns, runnerVars
  <2>2. \A e \in Endpoints : Notified(e)
    BY <1>1, <1>7 DEF EnqueueReturns, MeterReturns, WrapUpSoFar
  <2>3. \/ pc'[r] = "meter" /\ pc[r] = "create"
        \/ pc'[r] = "record" /\ pc[r] = "meterLegs" /\ legs[r] = {}
    BY <1>1, <1>7 DEF EnqueueReturns, MeterReturns
  <2>4. pc'[r] = "record" => Billed
    BY <1>1, <2>3 DEF WrapUpSoFar, Billed
  <2> QED
    BY <1>2, <2>1, <2>2, <2>3, <2>4 DEF WrapUpSoFar, Notified, Billed
<1>8. CASE MeterStart(r)
  <2>1. /\ UNCHANGED <<dbVars, dispatchJobs, scenario>> /\ pc[r] = "meter" /\ pc'[r] = "meterLegs"
        /\ callStatus = "COMPLETED" /\ scenario.usage => legs'[r] = Legs
    BY <1>1, <1>8 DEF MeterStart, runnerVars
  <2>2. \A e \in Endpoints : Notified(e)
    BY <1>1, <2>1 DEF WrapUpSoFar
  <2> QED
    BY <1>2, <2>1, <2>2, PricedAssumption DEF WrapUpSoFar, Notified
<1>9. ASSUME NEW l \in Legs, MeterLeg(r, l) PROVE Goal
  <2>1. /\ UNCHANGED <<callStatus, outbox, dispatchJobs, scenario, pc>> /\ pc[r] = "meterLegs"
        /\ l \in legs[r] /\ legs'[r] = legs[r] \ {l}
        /\ callCosts' = IF l \in Priced THEN [callCosts EXCEPT ![l] = 1] ELSE callCosts
    <3>1. pc[r] = "meterLegs" /\ l \in legs[r] /\ callCosts[l] + 1 = 1
      BY <1>1, <1>9 DEF MeterLeg, SoleRunOK, LegsUnbilled
    <3>2. /\ UNCHANGED <<callStatus, outbox, dispatchJobs, scenario, pc>>
          /\ l \in legs[r] /\ legs'[r] = legs[r] \ {l}
      BY <1>1, <1>9 DEF MeterLeg, runnerVars
    <3>3. callCosts' = IF l \in Priced THEN [callCosts EXCEPT ![l] = callCosts[l] + 1] ELSE callCosts
      BY <1>9 DEF MeterLeg
    <3> QED
      BY <3>1, <3>2, <3>3
  <2>2. \A e \in Endpoints : Notified(e)
    BY <1>1, <2>1 DEF WrapUpSoFar
  <2>3. \A k \in Legs : callCosts'[k] = IF k = l /\ l \in Priced THEN 1 ELSE callCosts[k]
    <3>1. callCosts \in [Legs -> Nat]
      BY <1>1
    <3> QED
      BY <2>1, <3>1
  <2>4. callStatus = "COMPLETED" /\ scenario.usage => \A k \in Priced \ legs'[r] : callCosts'[k] = 1
    BY <1>1, <2>1, <2>3, PricedAssumption DEF WrapUpSoFar
  <2> QED
    BY <1>2, <2>1, <2>2, <2>4 DEF WrapUpSoFar, Notified
<1>10. CASE FindRecording(r)
  <2>1. /\ UNCHANGED <<dbVars, dispatchJobs, scenario>> /\ pc[r] = "record"
        /\ \/ pc'[r] = "createRecording"
           \/ pc'[r] = "done" /\ ~(callStatus = "COMPLETED" /\ StubRecording /\ ~recording)
    BY <1>1, <1>10 DEF FindRecording, runnerVars
  <2>2. Billed /\ \A e \in Endpoints : Notified(e)
    BY <1>1, <2>1 DEF WrapUpSoFar
  <2> QED
    BY <1>2, <2>1, <2>2 DEF WrapUpSoFar, Notified, Billed, WrappedUp, Recorded
<1>11. CASE CreateRecording(r)
  <2>1. /\ UNCHANGED <<callStatus, outbox, callCosts, dispatchJobs, scenario>>
        /\ pc[r] = "createRecording" /\ pc'[r] = "done" /\ recording' = TRUE
    BY <1>1, <1>11 DEF CreateRecording, runnerVars
  <2>2. Billed /\ \A e \in Endpoints : Notified(e)
    BY <1>1, <2>1 DEF WrapUpSoFar
  <2> QED
    BY <1>2, <2>1, <2>2 DEF WrapUpSoFar, Notified, Billed, WrappedUp, Recorded
<1>12. ~(Load(r) \/ AppendEvent(r) \/ UpdateStatus(r) \/ RunnerReturns(r)
           \/ CatchAppend(r) \/ CatchUpdate(r))
  BY DEF Load, AppendEvent, UpdateStatus, RunnerReturns, CatchAppend, CatchUpdate, WrapUp
<1> QED
  BY <1>3, <1>4, <1>5, <1>6, <1>7, <1>8, <1>9, <1>10, <1>11, <1>12 DEF Progress

(* What a step outside of the finally block leaves alone.                  *)
LEMMA BeforeWrapUp ==
  ASSUME OnlyRunnerErrors, SingleWriterInv, NEW r \in Runs, pc[r] \notin WrapUp,
         Progress(r) \/ RunnerThrows(r)
  PROVE  /\ UNCHANGED <<outbox, callCosts, recording, dispatchJobs, scenario>>
         /\ pc'[r] \in (Body \ WrapUp) \cup {"reread", "done"}
         /\ callStatus \in TERMINAL_CALL_STATUSES => callStatus' = callStatus
         /\ pc[r] = "load" => /\ callStatus' = callStatus
                              /\ callStatus \in TERMINAL_CALL_STATUSES => pc'[r] = "done"
         /\ pc[r] # "load" /\ pc'[r] = "done" => callStatus' \notin TERMINAL_CALL_STATUSES
<1>1. TypeOK /\ RunOK(r) /\ SoleRunOK(r)
  BY DEF SingleWriterInv, RunsInv
<1>2. /\ "reread" \notin Body \ WrapUp /\ "reread" \in WrapUp /\ "load" \notin Body
      /\ Body \ WrapUp = {"run", "update", "catch", "catchUpdate"}
  BY DEF Body, WrapUp
<1>3. pc[r] \in Body => currentStatus[r] = callStatus /\ currentStatus[r] \in CallStatuses
  BY <1>1 DEF SoleRunOK, LocalStatusIsStored, RunOK
<1> USE <1>1, <1>2 DEF TypeOK, GoTo, Leave, EnterFinally, dbVars, queueVars, runnerVars
<1>4. CASE Load(r)
  BY <1>4 DEF Load
<1>5. CASE AppendEvent(r)
  BY <1>5 DEF AppendEvent
<1>6. CASE UpdateStatus(r)
  <2>1. isValidStatusTransition(callStatus, callStatus') /\ callStatus' \in CallStatuses
    BY <1>3, <1>6 DEF UpdateStatus, RunOK, Body
  <2> QED
    BY <1>6, <2>1, TransitionFacts DEF UpdateStatus
<1>7. CASE RunnerReturns(r)
  BY <1>3, <1>7 DEF RunnerReturns
<1>8. CASE RunnerThrows(r)
  BY <1>8 DEF RunnerThrows
<1>9. CASE CatchAppend(r)
  BY <1>3, <1>9 DEF CatchAppend
<1>10. CASE CatchUpdate(r)
  <2>1. isValidStatusTransition(callStatus, "FAILED")
    BY <1>3, <1>10 DEF CatchUpdate, RunOK, Body
  <2> QED
    BY <1>10, <2>1, TransitionFacts, FailedFacts, StatusFacts DEF CatchUpdate
<1>11. \/ Load(r) \/ AppendEvent(r) \/ UpdateStatus(r) \/ RunnerReturns(r)
       \/ RunnerThrows(r) \/ CatchAppend(r) \/ CatchUpdate(r)
  BY DEF Progress, RereadCall, RereadEvents, ListEndpoints, CreateOutboxRow,
     AddDispatchJob, EnqueueReturns, MeterStart, MeterLeg, MeterReturns, FindRecording,
     CreateRecording, WrapUp
<1> QED
  BY <1>4, <1>5, <1>6, <1>7, <1>8, <1>9, <1>10, <1>11

(* What a step of the finally block leaves alone.                          *)
LEMMA WithinWrapUp ==
  ASSUME TypeOK, NEW r \in Runs, pc[r] \in WrapUp, Progress(r)
  PROVE  callStatus' = callStatus /\ pc'[r] \in WrapUp \cup {"done"}
<1> USE DEF TypeOK, GoTo, Leave, dbVars, WrapUp
<1>1. CASE RereadCall(r) \/ RereadEvents(r) \/ ListEndpoints(r)
  BY <1>1 DEF RereadCall, RereadEvents, ListEndpoints
<1>2. CASE \E e \in Endpoints : CreateOutboxRow(r, e)
  BY <1>2 DEF CreateOutboxRow
<1>3. CASE AddDispatchJob(r) \/ EnqueueReturns(r) \/ MeterStart(r) \/ MeterReturns(r)
  BY <1>3 DEF AddDispatchJob, EnqueueReturns, MeterStart, MeterReturns
<1>4. CASE \E l \in Legs : MeterLeg(r, l)
  BY <1>4 DEF MeterLeg
<1>5. CASE FindRecording(r) \/ CreateRecording(r)
  BY <1>5 DEF FindRecording, CreateRecording
<1>6. ~(Load(r) \/ AppendEvent(r) \/ UpdateStatus(r) \/ RunnerReturns(r)
          \/ CatchAppend(r) \/ CatchUpdate(r))
  BY DEF Load, AppendEvent, UpdateStatus, RunnerReturns, CatchAppend, CatchUpdate
<1> QED
  BY <1>1, <1>2, <1>3, <1>4, <1>5, <1>6 DEF Progress

LEMMA WrapUpInvStep ==
  ASSUME OnlyRunnerErrors, SingleWriterInv, FreshRuns, WrapUpInv, [Next]_vars
  PROVE  WrapUpInv'
<1>1. TypeOK /\ OneLiveRun
  BY DEF SingleWriterInv, RunsInv
<1>2. CASE (\E r \in Runs : Deliver(r)) \/ StalledAfterCrash \/ UNCHANGED vars
  <2>1. /\ UNCHANGED <<callStatus, outbox, callCosts, recording, dispatchJobs, scenario,
                       currentStatus, endpoints, endpoint, legs>>
        /\ \A q \in Runs : pc'[q] = pc[q] \/ (pc'[q] = "load" /\ pc[q] = "idle")
    <3>1. ASSUME NEW r \in Runs, Deliver(r) PROVE pc[r] = "idle"
      BY <1>1, <3>1 DEF Deliver, FreshRuns, TypeOK
    <3> QED
      BY <1>1, <1>2, <3>1 DEF Deliver, StalledAfterCrash, MoveStalledJob, vars, dbVars, queueVars,
         runnerVars, finallyVars, TypeOK
  <2>2. \A q \in Runs : /\ pc'[q] = "crashed" <=> pc[q] = "crashed"
                        /\ pc'[q] = "queueAdd" <=> pc[q] = "queueAdd"
                        /\ pc'[q] \in Body <=> pc[q] \in Body
    BY <2>1 DEF Body, WrapUp
  <2>3. CrashedInWrapUp' <=> CrashedInWrapUp
    BY <2>1, <2>2 DEF CrashedInWrapUp
  <2>4. \A q \in Runs : WrapUpSoFar(q)' /\ (pc'[q] \in {"idle", "load"} => currentStatus'[q] = NoStatus)
    BY <2>1 DEF WrapUpInv, WrapUpSoFar, Notified, Billed
  <2>5. RowsAreQueued' /\ (WrappedUp => WrappedUp')
    BY <2>1, <2>2, <2>3 DEF WrapUpInv, RowsAreQueued, WrappedUp, Notified, Billed, Recorded
  <2> QED
    BY <2>1, <2>2, <2>3, <2>4, <2>5 DEF WrapUpInv
<1>3. CASE LockExpires
  BY <1>3 DEF LockExpires, OnlyRunnerErrors
<1>4. ASSUME NEW r \in Runs, Progress(r) \/ Mishap(r) PROVE WrapUpInv'
  <2>1. /\ Live(r) /\ scenario' = scenario /\ pc'[r] \notin {"idle", "load"}
        /\ \A q \in Runs \ {r} : pc'[q] = pc[q] /\ currentStatus'[q] = currentStatus[q]
    BY <1>1, <1>4, LocalStep, OwnPlan
  <2>2. /\ \A q \in Runs \ {r} : pc[q] \in {"idle", "done", "crashed"}
        /\ pc[r] \in Body \cup {"load"} /\ "load" \notin Body
        /\ \A q \in Runs \ {r} : pc[q] \notin Body /\ pc[q] # "queueAdd"
    <3>1. \A q \in Runs \ {r} : pc[q] \in {"idle", "done", "crashed"}
      BY <1>1, <2>1 DEF OneLiveRun, Live
    <3> QED
      BY <1>1, <2>1, <3>1 DEF Live, TypeOK, Labels, Body, WrapUp
  <2>3. SoleRunOK(r) /\ OutputsMatchStatus
    BY DEF SingleWriterInv
  <2>4. ASSUME NEW q \in Runs \ {r}
        PROVE  WrapUpSoFar(q)' /\ (pc'[q] \in {"idle", "load"} => currentStatus'[q] = NoStatus)
    BY <2>1, <2>2 DEF WrapUpInv, WrapUpSoFar
  <2>5. pc'[r] # "crashed" /\ CrashedInWrapUp' => CrashedInWrapUp
    BY <2>1 DEF CrashedInWrapUp
  <2>6. CrashedInWrapUp => CrashedInWrapUp' /\ pc[r] = "load" /\ callStatus \in TERMINAL_CALL_STATUSES
    BY <1>1, <1>4, <2>2, DeathStays DEF WrapUpInv
  <2>7. ASSUME pc[r] \in WrapUp, Progress(r) PROVE WrapUpInv'
    <3>1. callStatus' = callStatus /\ pc'[r] \in WrapUp \cup {"done"}
      BY <1>1, <2>7, WithinWrapUp
    <3>2. ~CrashedInWrapUp' /\ callStatus \in TERMINAL_CALL_STATUSES
      BY <2>2, <2>3, <2>5, <2>6, <2>7, <3>1 DEF SoleRunOK, WrapUpIsFinal, WrapUp
    <3>3. /\ WrapUpSoFar(r)'
          /\ pc'[r] = "done" => WrappedUp'
          /\ \A o \in outbox' : \/ <<o.eventType, o.endpoint>> \in dispatchJobs'
                                \/ pc'[r] = "queueAdd" /\ endpoint'[r] = o.endpoint
      BY <2>7, WrapUpOfLiveRun
    <3>4. RowsAreQueued'
      BY <3>3 DEF RowsAreQueued
    <3>5. pc'[r] \in Body \/ WrappedUp'
      BY <3>1, <3>3 DEF Body
    <3>6. \A q \in Runs : WrapUpSoFar(q)' /\ (pc'[q] \in {"idle", "load"} => currentStatus'[q] = NoStatus)
      BY <2>1, <2>4, <3>3
    <3> QED
      BY <3>2, <3>4, <3>5, <3>6 DEF WrapUpInv
  <2>8. ASSUME pc[r] \notin WrapUp, Progress(r) \/ RunnerThrows(r) PROVE WrapUpInv'
    <3>1. /\ UNCHANGED <<outbox, callCosts, recording, dispatchJobs, scenario>>
          /\ pc'[r] \in (Body \ WrapUp) \cup {"reread", "done"}
          /\ callStatus \in TERMINAL_CALL_STATUSES => callStatus' = callStatus
          /\ pc[r] = "load" => /\ callStatus' = callStatus
                               /\ callStatus \in TERMINAL_CALL_STATUSES => pc'[r] = "done"
          /\ pc[r] # "load" /\ pc'[r] = "done" => callStatus' \notin TERMINAL_CALL_STATUSES
      BY <2>8, BeforeWrapUp
    <3>2. CrashedInWrapUp' <=> CrashedInWrapUp
      BY <2>5, <2>6, <3>1 DEF Body, WrapUp
    <3>3. CrashedInWrapUp => callStatus' \in TERMINAL_CALL_STATUSES /\ \A q \in Runs : pc'[q] \notin Body
      <4>1. ASSUME CrashedInWrapUp PROVE callStatus' \in TERMINAL_CALL_STATUSES /\ pc'[r] = "done"
        BY <2>6, <3>1, <4>1
      <4>2. "done" \notin Body
        BY DEF Body, WrapUp
      <4> QED
        BY <2>1, <2>2, <4>1, <4>2
    <3>4. WrapUpSoFar(r)'
      BY <3>1 DEF WrapUpSoFar, Body, WrapUp
    <3>5. RowsAreQueued'
      <4>1. pc[r] # "queueAdd"
        BY <2>8 DEF WrapUp
      <4> QED
        BY <2>2, <3>1, <3>2, <4>1 DEF WrapUpInv, RowsAreQueued
    <3>6. ASSUME callStatus' \in TERMINAL_CALL_STATUSES, ~CrashedInWrapUp, pc'[r] \notin Body
          PROVE  WrappedUp'
      <4>1. pc[r] = "load" /\ callStatus' = callStatus
        BY <3>1, <3>6 DEF Body, WrapUp
      <4>2. WrappedUp
        BY <2>2, <3>6, <4>1 DEF WrapUpInv
      <4> QED
        BY <3>1, <4>1, <4>2 DEF WrappedUp, Notified, Billed, Recorded
    <3>7. \A q \in Runs : WrapUpSoFar(q)' /\ (pc'[q] \in {"idle", "load"} => currentStatus'[q] = NoStatus)
      BY <2>1, <2>4, <3>4
    <3> QED
      BY <3>2, <3>3, <3>5, <3>6, <3>7 DEF WrapUpInv
  <2>9. CASE Crash(r)
    <3>1. /\ UNCHANGED <<callStatus, outbox, callCosts, recording, dispatchJobs, scenario,
                         currentStatus, endpoints, endpoint, legs>>
          /\ pc'[r] = "crashed"
      BY <1>1, <2>9 DEF Crash, GoTo, dbVars, runnerVars, finallyVars, TypeOK
    <3>2. pc[r] \in Body => currentStatus[r] = callStatus
      BY <2>3 DEF SoleRunOK, LocalStatusIsStored
    <3>3. pc[r] = "load" => currentStatus[r] \notin TERMINAL_CALL_STATUSES
      BY StatusFacts DEF WrapUpInv
    <3>4. "crashed" \notin Body /\ \A q \in Runs : pc'[q] \notin Body
      BY <2>1, <2>2, <3>1 DEF Body, WrapUp
    <3>5. WrapUpSoFar(r)'
      BY <3>1 DEF WrapUpSoFar
    <3>6. CrashedInWrapUp' => callStatus \in TERMINAL_CALL_STATUSES
      BY <2>1, <2>2, <2>6, <3>1, <3>2, <3>3 DEF CrashedInWrapUp
    <3>7. pc[r] \in Body /\ callStatus \in TERMINAL_CALL_STATUSES => CrashedInWrapUp'
      BY <3>1, <3>2 DEF CrashedInWrapUp
    <3>8. RowsAreQueued'
      <4>1. ASSUME NEW o \in outbox, ~CrashedInWrapUp' PROVE <<o.eventType, o.endpoint>> \in dispatchJobs
        <5>1. callStatus \in TERMINAL_CALL_STATUSES
          BY <2>3 DEF OutputsMatchStatus
        <5>2. ~CrashedInWrapUp /\ pc[r] = "load"
          BY <2>2, <2>6, <3>7, <4>1, <5>1
        <5> QED
          BY <2>2, <5>2 DEF WrapUpInv, RowsAreQueued
      <4> QED
        BY <3>1, <4>1 DEF RowsAreQueued
    <3>9. callStatus \in TERMINAL_CALL_STATUSES => CrashedInWrapUp' \/ WrappedUp'
      <4>1. ASSUME callStatus \in TERMINAL_CALL_STATUSES, ~CrashedInWrapUp' PROVE WrappedUp'
        <5>1. WrappedUp
          BY <2>2, <2>6, <3>7, <4>1 DEF WrapUpInv
        <5> QED
          BY <3>1, <5>1 DEF WrappedUp, Notified, Billed, Recorded
      <4> QED
        BY <4>1
    <3>10. \A q \in Runs : WrapUpSoFar(q)' /\ (pc'[q] \in {"idle", "load"} => currentStatus'[q] = NoStatus)
      BY <2>1, <2>4, <3>5
    <3> QED
      BY <3>1, <3>4, <3>6, <3>8, <3>9, <3>10 DEF WrapUpInv
  <2>10. ~StoreError(r) /\ ~UpdateAckLost(r)
    BY DEF StoreError, UpdateAckLost, OnlyRunnerErrors
  <2>11. RunnerThrows(r) => pc[r] \notin WrapUp
    BY DEF RunnerThrows, WrapUp
  <2> QED
    BY <1>4, <2>7, <2>8, <2>9, <2>10, <2>11 DEF Mishap
<1> QED
  BY <1>2, <1>3, <1>4 DEF Next

(* A job that is finished leaves nothing of an ended call undone: every    *)
(* subscribed endpoint has its dispatch job, every priced leg of a         *)
(* completed call with usage is billed once, and the stub recording is     *)
(* stored - unless a worker died after it had stored the final status,     *)
(* whose redelivered job returns at once (call-executor.worker.ts:69,      *)
(* 107-141).  Given that nothing else goes wrong than crashes and          *)
(* exceptions of the runner.                                               *)
THEOREM NothingIsLeftUndone ==
  ASSUME OnlyRunnerErrors
  PROVE  Spec => []EndedCallIsWrappedUp
<1>1. SingleWriter
  BY DEF SingleWriter, OnlyRunnerErrors
<1>2. Init => SingleWriterInv /\ FreshRuns /\ WrapUpInv
  <2> SUFFICES ASSUME Init PROVE WrapUpInv
    BY InitSingleWriterInv DEF Init, FreshRuns
  <2>1. "QUEUED" \notin TERMINAL_CALL_STATUSES
    BY DEF TERMINAL_CALL_STATUSES
  <2> QED
    BY <2>1 DEF Init, WrapUpInv, WrapUpSoFar, RowsAreQueued, CrashedInWrapUp
<1>3. SingleWriterInv /\ FreshRuns /\ WrapUpInv /\ [Next]_vars =>
        SingleWriterInv' /\ FreshRuns' /\ WrapUpInv'
  <2>1. SingleWriterInv => TypeOK
    BY DEF SingleWriterInv, RunsInv
  <2> QED
    BY <1>1, <2>1, SingleWriterInvStep, FreshRunsStep, WrapUpInvStep
<1>4. SingleWriterInv /\ WrapUpInv => EndedCallIsWrappedUp
  <2> SUFFICES ASSUME SingleWriterInv, WrapUpInv, jobState = "finished" PROVE \A r \in Runs : pc[r] \notin Body
    BY DEF WrapUpInv, EndedCallIsWrappedUp
  <2> QED
    BY DEF SingleWriterInv, OneLiveRun, Live, Body, WrapUp
<1> QED
  BY <1>2, <1>3, <1>4, PTL DEF Spec
=============================================================================
