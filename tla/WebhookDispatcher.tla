------------------------- MODULE WebhookDispatcher -------------------------
(***************************************************************************)
(* The webhook-dispatcher worker: processWebhookDispatcherJob for ONE      *)
(* outbox row, run by every delivery BullMQ makes of the row's jobs, and   *)
(* the API's manual replay of the row.  Rows are independent of each other.*)
(*                                                                         *)
(* The row's first job is named after it, a failed attempt adds the job    *)
(* <row>-retry-<n>, a replay <row>-replay-<ms>.  Jobs are kept in Redis    *)
(* when they finish, and adding a job whose id is known does nothing.  A   *)
(* job has one attempt and is redelivered when it stalls, as in            *)
(* CallExecutor.  A delayed job is delivered at any later time.            *)
(***************************************************************************)
EXTENDS Integers, FiniteSets

CONSTANTS
  MaxRetries,       \* WebhookOutbox.maxRetries (10)
  MaxStalledCount,  \* BullMQ: how often a stalled job is put back (1)
  MaxReplays,       \* bound: replays asked for
  MaxCrashes,       \* bound: workers that die while they run a job
  Faults            \* what else may go wrong, of FaultKinds

(* store_error:      a Postgres or Redis call fails without having effect. *)
(* answer_lost:      the endpoint accepts a POST and the worker sees an    *)
(*                   error (a reset connection, a proxy's 502).            *)
(* lock_lost:        a job's lock expires while its processor is running.  *)
(* endpoint_patched: PATCH /v1/webhook-endpoints toggles isEnabled.        *)
(* hasty_replay:     a replay of a row that has not come to rest.          *)
FaultKinds == {"store_error", "answer_lost", "lock_lost", "endpoint_patched",
               "hasty_replay"}

ASSUME RetriesAssumption == MaxRetries \in Nat \ {0}
ASSUME DispatcherBounds == MaxStalledCount \in Nat /\ MaxReplays \in Nat /\ MaxCrashes \in Nat
ASSUME DispatcherFaults == Faults \subseteq FaultKinds

(* The enum has FAILED as well, which no code writes.                      *)
OpenStatuses == {"PENDING", "RETRY_PENDING"}
SettledStatuses == {"DELIVERED", "DEAD"}
WebhookDeliveryStatuses == OpenStatuses \cup SettledStatuses

DispatchJob == <<"dispatch", 0>>

(* Mutation: a retry has the job id of the dispatch, which is taken.       *)
SameJob(n) == DispatchJob

RetryJob(n) == <<"retry", n>>
ReplayJob(k) == <<"replay", k>>

Replays == 1..MaxReplays
Jobs == {DispatchJob} \cup ({"retry"} \X (1..MaxRetries)) \cup ({"replay"} \X Replays)

(* Delivery number n of job j is run <<j, n>> of the processor.            *)
Runs == Jobs \X (1..MaxStalledCount+1)

VARIABLES
  (* Postgres *)
  status,      \* WebhookOutbox.status
  retryCount,  \* WebhookOutbox.retryCount
  isEnabled,   \* WebhookEndpoint.isEnabled
  (* Redis *)
  jobState,    \* each job: "none", "waiting", "active" or "finished"
  deliveries,  \* how many runs of each job have been started
  (* the runs, and the requests of the replay route *)
  pc,
  readCount,   \* outbox.retryCount as the run read it
  replay,      \* each replay request: "idle", "reset", "add" or "done"
  (* what the customer's endpoint saw *)
  sent,        \* the runs that sent a POST
  accepted     \* the runs whose POST it accepted

rowVars == <<status, retryCount>>
queueVars == <<jobState, deliveries>>
endpointVars == <<sent, accepted>>
vars == <<rowVars, isEnabled, queueVars, pc, readCount, replay, endpointVars>>

-----------------------------------------------------------------------------
Init ==
  /\ status = "PENDING"
  /\ retryCount = 0
  /\ isEnabled = TRUE
  /\ jobState = [j \in Jobs |-> IF j = DispatchJob THEN "waiting" ELSE "none"]
  /\ deliveries = [j \in Jobs |-> 0]
  /\ pc = [r \in Runs |-> "idle"]
  /\ readCount = [r \in Runs |-> 0]
  /\ replay = [k \in Replays |-> "idle"]
  /\ sent = {}
  /\ accepted = {}

GoTo(r, label) == pc' = [pc EXCEPT ![r] = label]

(* Queue.add: a job id that is already known is left alone.                *)
AddJob(j) ==
  jobState' = IF jobState[j] = "none"
              THEN [jobState EXCEPT ![j] = "waiting"] ELSE jobState

Current(j) == <<j, deliveries[j]>>
Live(r) == pc[r] \notin {"idle", "done", "crashed"}

-----------------------------------------------------------------------------
(* BullMQ.                                                                 *)

Deliver(j) ==
  /\ jobState[j] = "waiting"
  /\ jobState' = [jobState EXCEPT ![j] = "active"]
  /\ deliveries' = [deliveries EXCEPT ![j] = @ + 1]
  /\ GoTo(<<j, deliveries[j] + 1>>, "find")
  /\ UNCHANGED <<rowVars, isEnabled, readCount, replay, endpointVars>>

MoveStalledJob(j) ==
  /\ jobState' = [jobState EXCEPT ![j] =
                    IF deliveries[j] <= MaxStalledCount THEN "waiting" ELSE "finished"]
  /\ UNCHANGED <<rowVars, isEnabled, deliveries, pc, readCount, replay, endpointVars>>

StalledAfterCrash(j) ==
  /\ jobState[j] = "active" /\ pc[Current(j)] = "crashed"
  /\ MoveStalledJob(j)

LockExpires(j) ==
  /\ "lock_lost" \in Faults
  /\ jobState[j] = "active" /\ Live(Current(j))
  /\ MoveStalledJob(j)

Crash(r) ==
  /\ Live(r)
  /\ Cardinality({q \in Runs : pc[q] = "crashed"}) < MaxCrashes
  /\ GoTo(r, "crashed")
  /\ UNCHANGED <<rowVars, isEnabled, queueVars, readCount, replay, endpointVars>>

(* The processor has returned or thrown: no further attempt of this job.   *)
Finish(r) ==
  /\ pc[r] = "return"
  /\ GoTo(r, "done")
  /\ jobState' = IF jobState[r[1]] = "active" /\ Current(r[1]) = r
                 THEN [jobState EXCEPT ![r[1]] = "finished"] ELSE jobState
  /\ UNCHANGED <<rowVars, isEnabled, deliveries, readCount, replay, endpointVars>>

-----------------------------------------------------------------------------
(* processWebhookDispatcherJob.                                            *)

(* findById: a settled row makes the job a no-op.  (The row always exists: *)
(* it is written before its job is added, and never deleted.)              *)
FindRow(r) ==
  /\ pc[r] = "find"
  /\ readCount' = [readCount EXCEPT ![r] = retryCount]
  /\ GoTo(r, IF status \in SettledStatuses THEN "return" ELSE "endpoint")
  /\ UNCHANGED <<rowVars, isEnabled, queueVars, replay, endpointVars>>

(* findByIdWithSecret: nothing is sent to a disabled endpoint, and nothing *)
(* is written.                                                             *)
FindEndpoint(r) ==
  /\ pc[r] = "endpoint"
  /\ GoTo(r, IF isEnabled THEN "post" ELSE "return")
  /\ UNCHANGED <<rowVars, isEnabled, queueVars, readCount, replay, endpointVars>>

(* Mutation: fetch does not throw on an HTTP error, and nobody looks.      *)
PostAnyAnswer(r) ==
  /\ pc[r] = "post"
  /\ sent' = sent \cup {r}
  /\ accepted' \in {accepted, accepted \cup {r}}
  /\ GoTo(r, "markDelivered")
  /\ UNCHANGED <<rowVars, isEnabled, queueVars, readCount, replay>>

(* The POST: a 2xx answer, or an error status, or no answer at all.        *)
Post(r) ==
  /\ pc[r] = "post"
  /\ sent' = sent \cup {r}
  /\ \/ /\ accepted' = accepted \cup {r}
        /\ GoTo(r, "markDelivered")
     \/ /\ \/ accepted' = accepted
           \/ "answer_lost" \in Faults /\ accepted' = accepted \cup {r}
        /\ GoTo(r, "catch")
  /\ UNCHANGED <<rowVars, isEnabled, queueVars, readCount, replay>>

MarkDelivered(r) ==
  /\ pc[r] = "markDelivered"
  /\ status' = "DELIVERED"
  /\ GoTo(r, "return")
  /\ UNCHANGED <<retryCount, isEnabled, queueVars, readCount, replay, endpointVars>>

(* Mutations: the last attempt is not made; one attempt too many is made.  *)
ExhaustedEarly(r) == readCount[r] + 2 >= MaxRetries
ExhaustedLate(r) == readCount[r] + 1 > MaxRetries

(* attemptsSoFar >= maxRetries, on the count the run has read.             *)
Exhausted(r) == readCount[r] + 1 >= MaxRetries

MarkDead(r) ==
  /\ pc[r] = "catch" /\ Exhausted(r)
  /\ status' = "DEAD"
  /\ GoTo(r, "return")
  /\ UNCHANGED <<retryCount, isEnabled, queueVars, readCount, replay, endpointVars>>

(* One atomic update: the count goes up and the row is RETRY_PENDING, with *)
(* no look at its status.                                                  *)
IncrementRetry(r) ==
  /\ pc[r] = "catch" /\ ~Exhausted(r)
  /\ status' = "RETRY_PENDING"
  /\ retryCount' = retryCount + 1
  /\ GoTo(r, "addRetry")
  /\ UNCHANGED <<isEnabled, queueVars, readCount, replay, endpointVars>>

AddRetry(r) ==
  /\ pc[r] = "addRetry"
  /\ AddJob(RetryJob(readCount[r] + 1))
  /\ GoTo(r, "return")
  /\ UNCHANGED <<rowVars, isEnabled, deliveries, readCount, replay, endpointVars>>

(* A rejected call to Postgres or Redis leaves the processor - except that *)
(* of markDelivered, which counts as a failed delivery.                    *)
StoreError(r) ==
  /\ "store_error" \in Faults
  /\ \/ pc[r] \in {"find", "endpoint", "catch", "addRetry"} /\ GoTo(r, "return")
     \/ pc[r] = "markDelivered" /\ GoTo(r, "catch")
  /\ UNCHANGED <<rowVars, isEnabled, queueVars, readCount, replay, endpointVars>>

-----------------------------------------------------------------------------
(* The API: POST /v1/webhook-outbox/:id/replay, PATCH of the endpoint.     *)

(* The row has settled and no request is about to reopen it.               *)
AtRest == status \in SettledStatuses /\ \A k \in Replays : replay[k] \notin {"reset", "add"}

(* findById; the route accepts a row in any status.                        *)
ReplayFind(k) ==
  /\ replay[k] = "idle"
  /\ AtRest \/ "hasty_replay" \in Faults
  /\ replay' = [replay EXCEPT ![k] = "reset"]
  /\ UNCHANGED <<rowVars, isEnabled, queueVars, pc, readCount, endpointVars>>

(* resetForReplay; retryCount stays as it is.                              *)
ReplayReset(k) ==
  /\ replay[k] = "reset"
  /\ status' = "PENDING"
  /\ replay' = [replay EXCEPT ![k] = "add"]
  /\ UNCHANGED <<retryCount, isEnabled, queueVars, pc, readCount, endpointVars>>

ReplayAdd(k) ==
  /\ replay[k] = "add"
  /\ AddJob(ReplayJob(k))
  /\ replay' = [replay EXCEPT ![k] = "done"]
  /\ UNCHANGED <<rowVars, isEnabled, deliveries, pc, readCount, endpointVars>>

(* The request fails with the row reset and no job added, or before that.  *)
ReplayFails(k) ==
  /\ "store_error" \in Faults
  /\ replay[k] \in {"reset", "add"}
  /\ replay' = [replay EXCEPT ![k] = "done"]
  /\ UNCHANGED <<rowVars, isEnabled, queueVars, pc, readCount, endpointVars>>

PatchEndpoint ==
  /\ "endpoint_patched" \in Faults
  /\ isEnabled' = ~isEnabled
  /\ UNCHANGED <<rowVars, queueVars, pc, readCount, replay, endpointVars>>

-----------------------------------------------------------------------------
Progress(r) ==
  \/ FindRow(r) \/ FindEndpoint(r) \/ Post(r) \/ MarkDelivered(r)
  \/ MarkDead(r) \/ IncrementRetry(r) \/ AddRetry(r) \/ Finish(r)

Next ==
  \/ \E j \in Jobs : Deliver(j) \/ StalledAfterCrash(j) \/ LockExpires(j)
  \/ \E r \in Runs : Progress(r) \/ Crash(r) \/ StoreError(r)
  \/ \E k \in Replays : ReplayFind(k) \/ ReplayReset(k) \/ ReplayAdd(k) \/ ReplayFails(k)
  \/ PatchEndpoint

(* Workers poll the queue and run what they have taken, the stalled-job    *)
(* check runs periodically, and a replay request that was accepted is      *)
(* served.  Node's fetch gives up on a silent endpoint, so a POST ends.    *)
Fairness ==
  /\ \A j \in Jobs : WF_vars(Deliver(j)) /\ WF_vars(StalledAfterCrash(j))
  /\ \A r \in Runs : WF_vars(Progress(r))
  /\ \A k \in Replays : WF_vars(ReplayReset(k) \/ ReplayAdd(k))

Spec == Init /\ [][Next]_vars /\ Fairness

-----------------------------------------------------------------------------
(* Properties.                                                             *)

Labels == {"idle", "find", "endpoint", "post", "markDelivered", "catch",
           "addRetry", "return", "done", "crashed"}

(* The type invariant.                                                     *)
TypeOK ==
  /\ status \in WebhookDeliveryStatuses
  /\ retryCount \in Nat
  /\ isEnabled \in BOOLEAN
  /\ jobState \in [Jobs -> {"none", "waiting", "active", "finished"}]
  /\ deliveries \in [Jobs -> 0..MaxStalledCount+1]
  /\ pc \in [Runs -> Labels]
  /\ readCount \in [Runs -> Nat]
  /\ replay \in [Replays -> {"idle", "reset", "add", "done"}]
  /\ sent \subseteq Runs
  /\ accepted \subseteq sent

(* The row says DELIVERED only if the endpoint has accepted an attempt -   *)
(* whatever crashes, redeliveries, replays and lost answers there were.    *)
DeliveredMeansAccepted == status = "DELIVERED" => accepted # {}

(* A row is given up only after maxRetries attempts have really been made, *)
(* although every run decides on the count it has read, and several runs   *)
(* may be counting at once.                                                *)
DeadMeansExhausted == status = "DEAD" => Cardinality(sent) >= MaxRetries

(* With one chain of jobs at a time the row's owner is never sent more     *)
(* than maxRetries attempts, and one chain per replay.                     *)
AttemptsBounded ==
  Cardinality(sent) <= MaxRetries + Cardinality({k \in Replays : replay[k] # "idle"})

(* With one chain of jobs at a time the dispatcher implements delivery as  *)
(* it is promised: see WebhookDelivery.                                    *)
Pending == {r \in Runs : pc[r] \in {"markDelivered", "catch"}}

Delivery == INSTANCE WebhookDelivery WITH
  Attempts <- Runs, pending <- Pending

ImplementsDelivery == Delivery!DeliverySpec

(* An enabled endpoint's row - new, or just reset by a replay - is         *)
(* eventually delivered or given up.                                       *)
EveryRowSettles == (status = "PENDING") ~> (status \in SettledStatuses)

-----------------------------------------------------------------------------
(* What the code's own words say and the code does not keep: TLC finds     *)
(* each of these violated (README, "What the model shows not to hold").    *)

(* webhook-outbox.repository.ts:79, "safe under concurrent dispatcher      *)
(* retries": only a replay reopens a settled row.                          *)
SettledUntilReplayed ==
  [][(status \in SettledStatuses) => (\E k \in Replays : ReplayReset(k))]_status

-----------------------------------------------------------------------------
(* The inductive invariants of the proofs.                                 *)

(* Each count in retryCount stands for an attempt that has been made and   *)
(* whose run will not be counted again.                                    *)
Counted == sent \ Pending

RunOK(r) ==
  /\ readCount[r] <= retryCount
  /\ pc[r] \in {"idle", "find", "endpoint", "post"} => r \notin sent
  /\ pc[r] \in {"markDelivered", "catch", "addRetry"} => r \in sent
  /\ pc[r] = "markDelivered" => r \in accepted
  /\ pc[r] = "addRetry" => ~Exhausted(r)

(* Deliveries are numbered in order, and never more than Runs has.         *)
DeliveriesOK ==
  /\ \A j \in Jobs : jobState[j] \in {"none", "waiting"} => deliveries[j] <= MaxStalledCount
  /\ \A j \in Jobs : jobState[j] = "active" => deliveries[j] >= 1
  /\ \A j \in Jobs, n \in 1..MaxStalledCount+1 : n > deliveries[j] => pc[<<j, n>>] = "idle"

DispatcherInv ==
  /\ TypeOK
  /\ DeliveriesOK
  /\ \A r \in Runs : RunOK(r)
  /\ Cardinality(Counted) >= retryCount
  /\ DeliveredMeansAccepted
  /\ DeadMeansExhausted

(* Nothing makes two chains of jobs out of one.                            *)
Orderly == MaxCrashes = 0 /\ {"lock_lost", "hasty_replay"} \cap Faults = {}

Waiting == {j \in Jobs : jobState[j] = "waiting"}
Working == {r \in Runs : pc[r] \in {"find", "endpoint", "post", "markDelivered",
                                    "catch", "addRetry"}}
Reopening == {k \in Replays : replay[k] \in {"reset", "add"}}

(* The row has one waiting job, or one run, or one replay request to carry *)
(* it on - or none - and what a run has read of it is still so.            *)
SoleChain ==
  /\ \A j1, j2 \in Waiting : j1 = j2
  /\ \A r1, r2 \in Working : r1 = r2
  /\ \A k1, k2 \in Reopening : k1 = k2
  /\ Waiting = {} \/ Working = {}
  /\ Reopening = {} \/ (Waiting = {} /\ Working = {})
  /\ status \in SettledStatuses => Waiting = {} /\ Working = {}
  /\ \A k \in Replays : replay[k] = "reset" => status \in SettledStatuses
  /\ \A k \in Replays : replay[k] = "add" => status \in OpenStatuses
  /\ \A r \in Working : pc[r] \notin {"find", "addRetry"} => readCount[r] = retryCount
  /\ \A r \in Runs : pc[r] # "crashed"

OrderlyInv == DispatcherInv /\ SoleChain

(* Nor is anything lost: the endpoint stays enabled and no store fails.    *)
Undisturbed == Orderly /\ {"store_error", "endpoint_patched"} \cap Faults = {}

(* What is left of EveryRowSettles when nothing is said of fairness: a row *)
(* that has not settled is never left alone.  A job of its waits, or a run *)
(* works on it, or a replay that has reset it is about to add a job.       *)
OpenRowIsCarried ==
  status \in OpenStatuses =>
    Waiting # {} \/ Working # {} \/ \E k \in Replays : replay[k] = "add"

(* A job that is about to be added has an id that is not known yet.        *)
JobIdsAreNew ==
  /\ \A n \in 1..MaxRetries : jobState[RetryJob(n)] # "none" => n <= retryCount
  /\ \A r \in Runs : pc[r] = "addRetry" =>
       readCount[r] + 1 = retryCount /\ jobState[RetryJob(retryCount)] = "none"
  /\ \A k \in Replays : replay[k] # "done" => jobState[ReplayJob(k)] = "none"

CarriedInv == isEnabled /\ JobIdsAreNew /\ OpenRowIsCarried
=============================================================================
