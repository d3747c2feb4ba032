# Specifications of callplane

These TLA+ modules describe how callplane starts a call, executes it, dials it
over SIP trunks, notifies the customer's webhooks about it and shows it in the
console, and how agents, trunks, prices and endpoints are edited there. TLC
explores small instances of them, TLAPS proves their main safety properties for
every instance. All paths below are relative to the repository.

- [1. The system](#1-the-system)
- [2. The modules and how they correspond to the code](#2-the-modules-and-how-they-correspond-to-the-code)
- [3. What the runs show](#3-what-the-runs-show)
- [4. Fairness](#4-fairness)
- [5. What is proved](#5-what-is-proved)
- [6. What the model shows not to hold](#6-what-the-model-shows-not-to-hold)
- [7. What is left out, and why](#7-what-is-left-out-and-why)
- [8. Plan](#8-plan)

## 1. The system

Callplane is an API (`apps/api`), a worker (`apps/worker`) and a console
(`apps/console`) over Postgres (Prisma, `packages/database`), Redis (BullMQ job
queues and the trunks' counters) and LiveKit (rooms and SIP legs). Logic shared
by API and worker lives in `packages/voice-core`, the wire types and the status
table in `packages/contracts`.

```
 client --POST /v1/calls--> API --row, call_queued, job--> call-executor queue
                                                              |
 console <--SSE snapshots-- API <--reads-- Postgres <--------- worker: executor
    |                                         ^                 |  runner (stub,
    +--replay--> API --reset, job-+           |                 |  browser, SIP)
                                  v           |                 v
                      webhook-dispatcher queue <--outbox row, job
                                  |           |
                                  +--> worker: dispatcher --POST--> customer
```

| Component | State | Operations | What is hard about it |
|---|---|---|---|
| Call initiation (`call-initiation.service.ts`) | `Call` row with a unique `idempotencyKey`, `call_queued` event, job, browser room | one POST: six statements, no transaction | concurrent requests for one number; a request that dies half-way; the job runs before the request has ended |
| Call executor (`call-executor.worker.ts`) | status, `CallEvent` log, outbox rows, costs, recording, jobs | one handler: try (runner and transitions), catch, finally (webhooks, costs, recording) | crash and redelivery at every await; a second run after a lost lock; side effects without transactions or unique keys |
| Runners (`stub-call-runner.ts`, `stub-voice-session.ts`, `real-call-runner.ts`) | none stored | the sequence of transitions they report | a SIP leg that is in progress already; a disconnect or an error after any step |
| Trunk selector and SIP dialing (`trunk-selector.ts`, `real-call-runner.ts`) | one Redis counter per trunk, its TTL | acquire and release scripts, select, dial, fail over | stale counts, release on each of four paths, crash with a slot, TTL |
| Webhook dispatcher (`webhook-dispatcher.worker.ts`) | `WebhookOutbox` row, its jobs | deliver, retry, give up; replay by the API | duplicate deliveries, decisions on a count read before the POST, lost answers, replays at any time |
| Event stream (`call-stream-snapshot.ts`, `routes/calls.ts`) | one loop per connection | tick: five reads, send, decide to stop | reads that are not one snapshot; rows still to come; clients that leave |
| Console call page (`call-detail-client.tsx`) | the shown snapshot, one EventSource | load, receive, reconnect, replay | old streams against new ones, an answer lost, the API restarted |
| Scripted session and playground (`stub-voice-session.ts`, `playground-client.tsx`) | the room, who is in it, the turns said; the page's state, `roomRef`, the transcript | start, join, say a turn, announce the end, disconnect, delete the room | handlers that run between the awaits of another; a room lost at any await; a page that is late |
| Console forms and admin routes (`agent-editor-form.tsx`, the dialogs, the switches, `price-table-editor.tsx`, `routes/*.ts`) | the rows, and what each form shows of them | open, edit, submit, answer; toggle; save a rate; log in | two tabs, a PATCH that omits, optimistic switches, answers lost, a session that has ended |
| Cost meter (`cost-meter.ts`) | none | the legs of a voice mode and their prices | the agent is read when the call has ended |
| Provider sessions and failover (`session-builders.ts`, `failover-resolver.ts`) | none | the providers of a session; the first one of a chain that can be initialised | tables that have to agree with the cost meter's |
| Paged lists (`pagination-query.ts`) | none | clamp, skip and take | rows that come while pages are read |

What makes each of them correct:

- a call's status moves along `CALL_STATUS_TRANSITIONS` only, ends, and stays
  ended; webhooks, costs and the recording belong to the status it ended in;
- no provider leg is billed twice; the transcript sent holds each turn once;
- of the calls an agent makes to one number within the window, one is active;
- no trunk carries more calls than its limit, and lost slots come back;
- DELIVERED means that the endpoint accepted an attempt, DEAD that `maxRetries`
  attempts were made; a row does not stay open for ever;
- the page never goes back in time, and shows the end at last;
- a call is completed only if its whole script was said, and the caller who is
  told of the end has seen all of it; every session ends;
- an agent's columns fit its voice mode, and a call is billed for each provider
  of a mode its agent had; every rate is one that somebody typed, and none is
  lost by an emptied field;
- a form that says it has saved has, one that waits comes back, and what the
  page shows is what is stored.

## 2. The modules and how they correspond to the code

```
 CallStatus  <-- OutcomeMapper <-- CallExecutor --INSTANCE--> CallLifecycle
 CallRunner --------------------+       |
                                MCCallExecutor, CallExecutorProofs
 WebhookDispatcher --INSTANCE--> WebhookDelivery    WebhookDispatcherProofs
 TrunkSlots       MCTrunkSlots                      TrunkSlotsProofs
 CallInitiation   MCCallInitiation                  CallInitiationProofs
 CallStream, Listings                               CallStreamProofs
 AgentConfigs <-- Administration <-- MCConsole --> BrowserCall
      ^            AdministrationProofs            BrowserCallProofs
      +-- VoiceSessions (with its theorems)
```

Each statement of the code that waits for Postgres, Redis, LiveKit, the network
or a timer is a step of its own; what runs between two awaits is part of the
step before or after it. A variable `pc` says at which await a run, a request or
a call is. Definitions called *Mutation* in the comments are not part of the
specifications: they are plausible bugs, kept beside the definition they would
replace, with which TLC must find a property violated.

**CallStatus** (`call-status.ts`): statuses, transition table, terminal statuses.

**CallRunner**: what each runner reports for a scenario. A *plan* is the
sequence of transitions of one run; `StubCallRunnerPlans` has one,
`VoiceSessionPlans` has one for each point at which the room may be
disconnected, `SipDialPlans` one for each way the dial loop can end. That the
runner throws after any prefix of a plan is the executor's `RunnerThrows`.

**OutcomeMapper**: the failure reason and the transcript of a webhook payload.

**CallExecutor**: `processCallExecutorJob` for one call, with BullMQ around it.
Run `r` is delivery number `r` of the job. Actions, in the order of the handler:

| Action | Code in `call-executor.worker.ts` unless said otherwise |
|---|---|
| `Load` | `findBySid`, the return for an ended call, the start of the runner |
| `AppendEvent`, `UpdateStatus` | `onTransition`: the table check and `append`, then `updateStatus` |
| `RunnerReturns`, `RunnerThrows` | the end of the try block |
| `CatchAppend`, `CatchUpdate` | the catch block, when FAILED is legal |
| `RereadCall`, `RereadEvents` | the `Promise.all` of the finally block, in any order |
| `ListEndpoints`, `CreateOutboxRow`, `AddDispatchJob`, `EnqueueReturns` | `webhook-enqueue.ts` |
| `MeterStart`, `MeterLeg`, `MeterReturns` | `meter-call-cost.ts` |
| `FindRecording`, `CreateRecording` | `record-call-stub.ts` |
| `StoreError`, `UpdateAckLost` | a rejected Postgres or Redis call; an update that commits and rejects |
| `Crash`, `StalledAfterCrash`, `LockExpires`, `Deliver` | BullMQ, external |

A job has one attempt: an exception finishes it, only a stall redelivers it, at
most `MaxStalledCount` times. `Crash` is the end of the process as one run sees
it. **CallLifecycle** is the same call without jobs, events and failures.

**WebhookDispatcher**: `processWebhookDispatcherJob` for one outbox row (rows do
not interact), the replay route and the endpoint toggle. Jobs are named as in
the code: the row's own, `retry-n`, `replay-k`; adding a known id does nothing.
`Post` is the HTTP request with its outcomes: accepted, refused, accepted with
the answer lost. Delays are abstracted: a delayed job may be taken at any later
time. A replay job's id is fresh: it holds the millisecond. A row whose
endpoint is disabled stays open, as in the code. **WebhookDelivery** is the
promise: one attempt at a time, only while the row is open.

**TrunkSlots**: the two Lua scripts (`ACQUIRE_SLOT`, `RELEASE_SLOT`, with TTL),
`selectTrunk` (reads of the counts, the filter, attempts in order of weight and
count, ties in any order) and `RealCallRunner.run`/`dialSip` for any number of
calls. `holds` is history: the slot a call really has. The voice session is one
step, `EndSession`.

**CallInitiation**: `initiateCall` for any number of requests. `Owners` is the
unique column. `Age` says that a call has left the idempotency window; when is
nondeterministic, so the clocks do not matter. The executor's run is three steps
here (`StartCall`, `EndCall`, `DeleteRoom`). The key is cleared by the next
request that finds it stale, not when the call ends.

**CallStream**: the SSE loop of the API, one per connection, and the console's
page. `Parts` are the five queries of a snapshot: the call, the deliveries, and
one for events, costs and recording, which are written and read alike. `wire`
is what has been sent and not received. The worker and the dispatcher appear by
what they write. A rejected read is the end of the API's process, because
nothing handles the rejection of `tick()`; while it is away the console's proxy
answers 500, at which an EventSource gives up.

**BrowserCall**: a browser call from "Start call" to its end: the page of the
playground, its LiveKit room and `StubVoiceSession.run`. An attempt to start is
one call, one Room object and one session; the page has one state and one
`roomRef` for all of them, as in the code. Actions of the page are the pieces
of `handleStart` between its awaits (`Start`, `PostAnswered`, `Connected`,
`MicrophoneOn`, `JoinFailed`) and the handlers (`Receive`, `LoseConnection`,
`EndCall`, `Leave`); those of the session are its waits (`JoinRoom`,
`ParticipantConnected` or `NobodyJoined`, `Settled`), `SayTurn`, and the end
(`Announce`, `FinalStep`, `CloseRoom`), with the look at the room before each
(`ReportDropped`). A timer may fire as soon as it runs, so the caller's
`user_spoke`, which only shortens a turn's wait, is the same step.

**AgentConfigs**: pure operators. The editor's form of an agent's row, the body
it sends (a column may be set, null or omitted), the API's validation and
merge, and the legs `meterCallUsage` bills for a row. `Fits` says what a row
with a voice mode has to have.

**Administration**: the forms of the console and the routes they call. A request
is sent, served or refused (`Arrive`), redirected to the login page if the
session is over (`Redirected`), or lost (`LoseRequest`, `LoseAnswer`); then the
handler of its form goes on with the answer. `editors` are the agent editor in
each of `Tabs`; `dialog` is the open dialog of the page, `switches` the toggles of
its table, `rates` the price table's editor with its drafts. Each API route is
one statement, with what the database does to it: a new trunk or endpoint is
inactive, as the columns' default says, because the dialogs do not send it
(`InsertRow`); a rate is rounded to six digits or refused (`UpsertPrice`,
`Rounded`; rates are numbers of ten-millionths, so that there is a digit to
round); an agent that has a call (`called`) cannot be deleted (`DeleteAgent`,
`schema.prisma:298`). `Meter` is the worker, which reads the agent of a completed
call while it is edited, and bills nothing if the call has no usage. The user
works on one `page`, because the pages share nothing.

**VoiceSessions**: pure operators with theorems. The runner a call gets, the
engines a session of each mode is built from (provider, model, voice, language
and key of each leg), the chain of a provider type and `resolveProvider`, the
language context. No worker uses the builders yet.

**Listings**: pure operators. The clamping of `page` and `limit`
as `parseInt` and Zod do it, and the rows a page has.

The MC modules only give values to constants; MCConsole also puts Administration
and BrowserCall side by side, of which the user's page decides which one runs.
The modules `...Proofs` hold the theorems of the others.

## 3. What the runs show

Deadlock is not looked for (`CHECK_DEADLOCK FALSE`): a call that has ended, a
settled row and a page without a stream are the proper ends of these systems.

| Run | Instance | Question |
|---|---|---|
| `executor_crash` | SIP plans, 3 scenarios (one of two turns), 2 endpoints, 2 legs of which one is priced, 2 crashes, 1 redelivery, store and runner errors; 555,000 states | Does the executor implement the lifecycle whatever fails? Is a leg billed twice, or a turn sent twice? |
| `executor_one_run` | every runner, 5 scenarios (SIP calls try one trunk), 1 crash, runner errors; 144,000 states | Does every call end? Is everybody notified and everything billed, unless the worker died in the finally block itself? Do runner and table agree? |
| `executor_overlap` | 2 overlapping runs, updates without acknowledgement; 1,634,000 states | What is left when two runs write at once: the event log explains the status, jobs have rows, one row per endpoint and event |
| `executor_lost_webhook` | 1 crash, no other fault | the counterexample of section 6 |
| `dispatcher_orderly` | 3 attempts, 2 replays, store errors, lost answers, a toggled endpoint; 91,000 states | Does the dispatcher implement WebhookDelivery? Are attempts bounded by `maxRetries` and one per replay? |
| `dispatcher_faults` | 2 attempts, 1 crash, lost locks, lost answers; 411,000 states | Several chains of retries at once: does DELIVERED still mean accepted, and DEAD that `maxRetries` attempts were made? Does every row settle? |
| `slots_capacity` | 2 calls, 2 trunks of 1 slot, 1 crash, rejected status updates; 65,000 states | Is a trunk overbooked? Is the counter exact until a worker dies? Does failing over end? |
| `slots_come_back` | 2 calls, trunks of 2 and 1 slots, all faults; 256,000 states | Does a counter go negative or live for ever? Does every run delete its room? Does all capacity come back? |
| `slots_released_twice` | 3 calls, trunks of 1 slot | the counterexample of section 6 |
| `initiation_race` | 2 requests for one number, 1 from the browser, dying requests, a failing LiveKit; 87,000 states | Is there one active call per number? Is an answer the right call, and an answered call executed? |
| `stream_follows` | 1 endpoint, 1 replay, 1 fault; 111,000 states | Does the page go back, or rest on an unsettled call? Do streams end, and is one that has ended opened again? Does the page show the end? |
| `console` | 2 tabs, 1 agent that is turned from half_cascade to cascade, 2 rows of which one is there, 2 prices, 5 texts, 2 requests, 1 fault of any kind; beside it 2 calls of 2 turns with 1 mishap of any kind; 556,000 states | Do agents fit their mode, are calls billed in one mode of their agent, was every rate typed, is what is saved served and what is shown stored? Does no form hang? Has a completed call said all, and does the page have it all? Does every session end, and no page stay connected to a call that is over? |

Why these bounds are enough to be interesting:

- one redelivery is BullMQ's default (`maxStalledCount` 1), so two runs of an
  executor job are all there are; two crashes hit both of them;
- two endpoints differ in what they subscribe to, two legs in whether they have
  a price: the cases the loops tell apart; the two-turn scenario is the
  shortest whose transcript has an order;
- three dispatcher attempts are a first, a middle and a last one; the race of
  duplicate chains needs two;
- two calls on one-slot trunks already contend and fail over to each other's
  trunk, a slot returned twice needs a third call to take it;
- two requests for one number race for one key, and a third party (the browser)
  has none; what three racing requests do is covered by the proof, which holds
  for any number;
- `GraceTicks` is 10 in the code and 2 here: what counts is a tick before its
  end and one at it; `MaxWire` 1 leaves a sent and an unsent snapshot, and with
  the replay three connections can replace each other.

- two tabs are two editors of one agent, the least that may overwrite each
  other, and two requests are two saves or a save and a model that is added;
  the texts are an empty one, a rate with a digit too many, one so small that it
  is stored as 0, one that the database refuses because rounding makes it too
  large, and a negative one; one fault meets either request; what more tabs and requests do is covered by the proofs;
- two attempts on the playground are a call and the one that replaces it, with
  everything the first one left behind (section 6 has what a third one does);
  two turns have an order and a wait between them.

A run may check several properties, but each of them has a mutation of the code,
named in `PROJECT.json`, by which TLC finds it violated under the same
configuration.

## 4. Fairness

All fairness is weak fairness of steps the code takes by itself; no fault,
crash, request or replay is ever owed.

- *Queues*: a waiting job is taken, and a stalled one is found (BullMQ's workers
  poll, the stalled-job check is periodic). The worker is assumed to be
  restarted by its supervisor.
- *Runs*: a run that has not crashed goes on. Every await ends: database and
  Redis calls resolve or reject, Node's fetch gives up on a silent endpoint,
  dials have a timeout, the conversation is a script.
- *Redis*: a key whose time has come expires.
- *Requests*: a request that has begun goes on unless it dies; calls are
  executed (that is what CallExecutor's `EveryCallEnds` says).
- *Console*: a request is answered or fails, its handler goes on, and the worker
  meters a call that has ended. No button, edit or login is owed.
- *Playground*: what the network and the worker do goes on (`PageStep`,
  `SessionStep`): timers fire, messages arrive, a deleted room disconnects who is
  in it. Nobody owes a start, an end, or leave to use the microphone.
- *Stream*: timers fire, queries return, what was sent arrives, the API's
  process is started again; the call ends and an open row settles. Nothing owes
  outbox rows, costs or a recording: the worker may have died before them.

## 5. What is proved

TLAPS proves the following for every value of the constants that satisfies the
ASSUMEs of the module (bounds are natural numbers, faults are of the named
kinds, `MaxRetries` is positive, limits are natural numbers, ...).

| Module | Theorem | Says | Assumes |
|---|---|---|---|
| CallExecutorProofs | `TypeCorrect` | types | nothing |
| | `JobsAlwaysMatchRows` | no dispatch job without its row, one row per endpoint and event | nothing: overlapping runs included |
| | `NeverBilledTwice` | no leg is billed twice | `SingleWriter` |
| | `EventLogExplainsStatus` | the log has the event of every stored status | `PlansExplain` |
| | `FirstRunIsLegal` | a first delivery never meets `IllegalTransitionError` | `PlansAreProper` |
| | `TranscriptIsExact` | the transcript sent has each turn once and in order | `PlansAreProper`, `SingleWriter` |
| | `FinishedJobEndsTheCall` | a finished job has ended its call, unless all its workers died | `PlansAreProper`, `PlansEndCalls`, `OnlyRunnerErrors` |
| | `NothingIsLeftUndone` | an ended call whose job is finished is notified, billed and recorded, unless a worker died in the finally block | `OnlyRunnerErrors` |
| | `RunnersFollowTheTable` | `PlansAreProper`, `PlansExplain` and `PlansEndCalls`, for any turns and trunks | the plans are those of CallRunner |
| | `ExecutorImplementsLifecycle` | every step is a step of CallLifecycle or a stutter | `SingleWriter` |
| WebhookDispatcherProofs | `TypeCorrect` | types | nothing |
| | `DeliveredRowsWereAccepted`, `DeadRowsWereExhausted` | what DELIVERED and DEAD mean | nothing: all faults |
| | `AttemptsAreBounded` | at most `maxRetries` attempts, and one for each replay | `Orderly` |
| | `OpenRowsAreCarried` | a row that has not settled has a waiting job, a run at work, or a replay about to add a job | `Undisturbed` |
| | `DispatcherImplementsDelivery` | it implements WebhookDelivery | `Orderly` |
| TrunkSlotsProofs | `TypeCorrect`, `CountersExpire` | no negative counter, none without expiry | nothing: all faults |
| | `RoomsDeleted` | every run that ends has deleted its room | nothing: all faults |
| | `CapacityNeverExceeded` | no trunk above its limit | `SlotsReturnedOnce` |
| | `CountersAreExact` | until a worker dies a counter is the number of calls that hold a slot | `SlotsReturnedOnce`, no Redis errors |
| CallInitiationProofs | `TypeCorrect` | types | nothing |
| | `AtMostOneCallPerNumber` | one active call per number | nothing: dying requests included |
| | `ResponsesNameTheCall` | a response names a call of the number asked for, and its own if it made one | nothing |
| AdministrationProofs | `AgentsFitTheirMode` | the columns of an agent fit its mode | nothing: any tabs, edits, requests, faults |
| | `CallsAreBilledWhole` | a completed call with usage is billed in one mode its agent had | nothing |
| | `SavedFormsWereServed` | what was saved was served, or answered by the login page | nothing |
| | `EveryRateWasTyped` | a rate is the initial one, or was typed and rounded | nothing |
| | `QuietPageIsTrue` | with nothing in flight the page shows the stored switches and rates | nothing |
| BrowserCallProofs | `CompletedCallsSaidAll` | a completed call has said its whole script | nothing: any turns, attempts, mishaps |
| | `TheEndComesLast` | a page told of the end was told behind the last turn | nothing |
| | `EndedCallIsShownWhole` | a page told of the end shows each turn once and in order | nothing |
| VoiceSessions | `LegsAreBilled` | a session has the legs its calls are billed for, with two exceptions | the row fits its mode |
| | `ConfiguredProviderServes` | a leg is served by the provider of its column, with two exceptions | the row is valid |
| | `KeysGoToTheirProviders` | an engine has the key of its own provider, or none | the row fits its mode |
| | `ChoicesReachTheirEngines` | a chosen model or voice is what the session is created with, with one exception | the row fits its mode |
| | `FirstWorkingProviderWins`, `SecondaryIsTheLastResort` | the order of failover, and the events it leaves | the order of the chain |
| CallStreamProofs | `StreamTypes` | types | nothing: all faults |
| | `EndedStreamsStayEnded` | a stream is opened for a mount, a fault or a replay only | nothing |
| | `PageOnlyGoesForward` | the page never goes back | nothing |
| | `ClosedStreamIsSettled` | a page whose stream closed itself shows a settled call | nothing |
| | `QueryIsClamped` | page from 1 on, 1 to 100 rows | nothing |
| | `EveryEventIsOnOnePage`, `NewCallsHideNone` | pages are a partition, also while rows come | rows with an order of their own |

The conditions exclude faults that really break the property (section 6):
`SingleWriter` that a job's lock is lost to a slow run or that an update commits
without its acknowledgement, `Orderly` crashes, lost locks and replays of a row
being worked on, `Undisturbed` these, failing stores and disabled endpoints,
`OnlyRunnerErrors` everything but crashes and what the runner throws,
`SlotsReturnedOnce` the faults by which a slot is returned
twice or forgotten in use.
`PlansExplain`, `PlansAreProper` and `PlansEndCalls` say of the runners what the executor relies
on without a check: no status without its event; dialing first, then legal
steps only; the turns one after the other while the call is in progress; no
completion before the last turn; no return before the call has ended.
`RunnersFollowTheTable` discharges all three for
the plans of CallRunner, whatever the number of turns and of trunks that fail,
so that together with it the theorems are about the three runners of the code;
TLC evaluates `PlansExplain` too, an assumption of MCCallExecutor in each of the
executor's runs.

The inductive invariants, and why the properties alone are not inductive:

- **RunsInv** says of every run separately that what it has checked still
  holds where it is used: a run about to store a status has an event for it and
  a legal step from *its own* status; a run about to add a job has created the
  row. It mentions no other run, which is why it survives overlapping runs.
- **SingleWriterInv** adds that only the owner of the job is live and that its
  local status is the stored one; that behind the head of the finally block the
  call has ended, with the status re-read there; and that a leg still to be
  billed has not been billed (`LegsUnbilled`). With this an event log, a status
  and the side effects can only move as CallLifecycle allows.
- **ExplainInv** says that a status which is stored, or which a run is about to
  store, has its event in the log, and that each plan reports them together; the
  log only grows, so no other run can undo it.
- **FirstRunInv** says that while the job has had one delivery its run has the
  status its plan has reached (`StatusBefore`), so that the next transition is
  the one the plan was found legal with. A redelivery may well be illegal: it
  dials a call that is past dialing, and is stopped by the table.
- **TranscriptInv** follows a run through its plan: the turns in the log are
  1 to n, where n is the last turn the plan has reported (`SaidBefore`). A run
  that was redelivered finds a call that is past DIALING, and then fails at its
  first transition before it says a turn, or one in which nothing has been
  said. What is said in a completed call is the whole script, and nothing
  is said after it, so that the log re-read in the finally block has it too.
- **DispatcherInv** counts: each unit of `retryCount` is an attempt that was
  sent and will not be counted again (`Cardinality(Counted) >= retryCount`), and
  a run's copy of the count is never above the stored one. So a run that gives
  up at `readCount + 1 >= MaxRetries` has its own attempt beyond `MaxRetries-1`
  others. The proof uses finite-set cardinality lemmas of the library.
- **JobAccounted** follows the job: every delivery before the current one has
  crashed, and a finished job has a last run that is done, or crashed as its last
  allowed delivery. With it goes where each plan stands (`FirstRunInv`): a run
  that is done returned from its plan, which has ended the call, or went through
  the catch block, which stores FAILED from any status that is not terminal.
- **WrapUpInv** says how far the finally block has come: an endpoint is notified
  or still on the run's list, a leg billed or still to be billed, a row without
  its job is the one in hand. A terminal status is stored only by a run that goes
  on to the finally block, so that one is in it, or has left it, or has died there.
- **CarriedInv** says that the chain of jobs of a row never breaks: adding a job
  whose id Redis knows would do nothing, so the invariant is that the ids still to
  be used are new (`JobIdsAreNew`): known retry jobs are numbered up to
  `retryCount`, and a run about to add one has just raised it.
- **OrderlyInv** adds `SoleChain`: there is one waiting job, or one run, or one
  replay under way, and what the run has read is still so.
- **SlotsInv** says that what a call remembers to have acquired is what it
  holds, at each label, and that every counter covers the calls that hold a slot
  (`Cardinality(Holders(t)) <= count[t]`) and is at most the limit. A leaked
  slot makes the counter larger than the number of holders, never smaller.
- **InitiationInv** says that an active call still has its key, that a key has
  one owner, and that a request clears only the key of a call that is not
  active any more; it cannot become active again.

- **ChainInv** adds to `OrderlyInv` that the attempts sent are in `retryCount`,
  but for the last one of each chain, and a replay starts a chain; the count stays
  below `maxRetries`, because the run that would reach it gives up instead.
- **The exact counters** need no new invariant of the calls: `SlotsInv` knows who
  holds a slot, and the counter and the set of holders change by one together,
  because a script either takes effect and is answered or does neither.
- **AnswersInv** says that a request which adds an event or a job has created its
  call, so that what it answers with later is its own; what a duplicate has found
  under its key has this key, because a call keeps its number.
- **FormsInv** says of every request what its body settles: a body of the editor
  sets or clears each column whose meaning depends on the mode (`Settles`),
  whichever row it meets, so that the merge of any two editors fits the mode of
  the later one. It is about requests, because a form may be closed, and its row
  changed, before the request arrives. Of the call it says that its agent is
  still there and has a mode of `ModesSince`: the one of the start, or that of a
  served save.
- **RatesInv** follows a rate to its source: what is stored, on its way or on the
  page was there at first or was typed for this key, and rounded. A save of a
  rate that was not changed sends what the page shows, which is a stored rate,
  and rounding it again changes nothing (`RoundedOnce`).
- **SwitchesInv** and **EntriesInv** say what a switch or a rate may show while
  requests about it are on their way. A switch waits for one request at a time,
  so the stored value is the shown one, or its opposite from the moment the
  request is served until the refusal or the answer is seen. A rate follows
  its last served save if it was alone, wherever its answer is. A change whose
  answer was lost is known to nobody and is excluded (`Known`), in the property
  as in the invariant.
- **ScriptInv** ties what a session has said to where it is: `turn - 1` at a
  turn, all of it behind the turns; and what the browser has been sent, or has
  received, of the end to a session behind the turns.
- **ShownInv** (BrowserCallProofs) says that what the page shows of its latest
  call are the first turns of it, 1 to a, and that what is on its way to it are
  a + 1 to `said` and perhaps the end; that nobody who is not connected has
  messages; and that a session which did not give up waiting goes on only after
  the page has connected, which it does once (`JoinsOnce`).
- **StreamInv** orders the views of a call: what the page shows is not newer than
  the oldest snapshot on the wire, that not newer than the next, the last not
  newer than what a tick has read of a part, and that not newer than the
  database (`ViewsInOrder`). It needs `OneSource`: of all connections at most
  one is listened to, the last one opened, because the effect's cleanup closes
  its predecessor; and a final snapshot is settled when it is sent and when it
  arrives.

Each proof has one step per action and below it one per conjunct the action can
disturb; facts used several times are lemmas.

Every safety property that a passing run checks, invariants and action
properties alike, is so proved for every value of the constants.

Of four liveness properties the safety core is proved as well: what is true of a
job that is over, whenever it gets there (`FinishedJobEndsTheCall`,
`NothingIsLeftUndone`), and that there is always somebody to carry on
(`OpenRowsAreCarried`). That the job gets there is left to TLC.

Only model-checked, not proved: everything about liveness (fairness and ENABLED
are beyond the prover), that is `NotifiedUnlessCrashed`, `BilledUnlessCrashed`,
`EveryCallEnds`, `EveryRowSettles`, `EveryDialEnds`, `CapacityComesBack`,
`EveryOwnCallEnds`, `EveryStreamEnds`, `EndIsShown`, `OpenRowsAreFollowed`,
`NoFormHangs`, `EverySessionEnds` and `ConnectedPageSeesTheEnd`. The
library's induction theorems take an operator as a parameter, which no installed
backend can instantiate, so no proof cites them. The one recursive function,
`extractTranscript`, is reasoned about without them: `<` is well founded on Nat,
so two solutions of its recursion would differ at a least number of turns, and
there the recursion makes them agree (`LeastNumber`, `TurnsExist`, `TurnsAgree`
in `CallExecutorProofs`). So the recursion has exactly one solution, and one more
event changes the transcript only by the turn it completes.

## 6. What the model shows not to hold

Two runs end, as they should, with a counterexample; the other properties of the
first part of this list are in the modules under "What the code's own words say and the code does not
keep". To see one, put it into the configuration named, with the constants given.

- **A webhook is lost for good** (`executor_lost_webhook`). The worker stores
  the terminal status and dies before the dispatch job is added. The redelivered
  job meets an ended call and returns; nothing else creates the rows
  (`findPending` has no caller). `docs/architecture.md:385`: "Every terminal call
  fires a webhook per enabled `WebhookEndpoint`". `NotifiedUnlessCrashed` shows
  that this is the only way: a crash before the terminal status costs nothing.
- **A slot is returned twice** (`slots_released_twice`). A busy or unanswered
  call releases its slot (`real-call-runner.ts:102`) and then reports; if the
  report rejects, the catch block releases again. The second release is another
  call's slot, and a trunk of one slot carries two calls.
- **Two runs of one job** (`LegalStatusSteps`, ExecutorOverlap): each checks the
  transition against its own copy of the status and writes unconditionally, so
  the stored status moves backwards and leaves a terminal status.
- **A stale reason**: a first run logs `call_initiation_failure` and crashes
  before it stores FAILED, the second one is answered and fails later: the
  webhook says `trunk_unavailable`, because the first event is still in the log.
- **A settled row is reopened** (`SettledUntilReplayed`, DispatcherFaults with
  `Faults = {}`): a worker dies between adding a retry job and finishing its own;
  of the two chains the slower one writes RETRY_PENDING over DELIVERED.
- **A row stays open** (`EveryRowSettles`, DispatcherFaults with `store_error`): one rejected
  `queue.add` leaves the row without a job.
- **A counter expires in use** (`CapacityRespected`, SlotsCapacity with
  `Faults = {"expires_in_use"}`): the TTL runs from when the counter left 0, so a
  trunk busy for 30 minutes on end forgets its calls.
- **A free slot is not found** (`SpareSlotIsFound`, SlotsCapacity with
  `Faults = {}`): trunks that were full when counted are not tried, those that
  are tried may have filled up since.
- **A duplicate gets a 500** (`DuplicatesAreAnswered`, InitiationRace with `Faults = {}`
  and a `key` that is the same for three requests): the loser of the insert race looks for the winner
  after that call has ended and a third request has cleared its key.
- **A room outlives its call** (`NoRoomIsLeft`, InitiationRace): the browser's
  job is added before its room is prepared, and the run may be over by then.
- **The stream's grace period** (`GraceStartsAtTheEnd`, StreamFollows) counts
  the ticks of a call in progress, so a long call has none left when it ends.
- **A stream stops early** (`ClosedPageIsUpToDate`, `NumRows = 2`,
  `GraceTicks = 10`): the first row settled before the second was created.
- **A late page has no stream** (`UnsettledPageIsStreamed`): it is opened between
  the end of the call and the end of its deliveries.
- **An outage ends the live view**: `EndIsShown` without `source = "failed"`. The
  EventSource's reconnection meets a 500 and is not repeated.

Of the console, as the actions of Administration show it:

- **The later editor wins**: two tabs with one agent send all columns of the
  form, so the second save undoes the first one's. `FieldsFitMode` says that the
  result is still whole.
- **What is cleared may stay**: an emptied voice ID or model name is omitted from
  the PATCH (`SentColumns`), and an omitted column is kept (`Updated`).
- **An editor that was left comes back**: its answer navigates the tab, wherever
  that is by then (`AgentAnswered`), and what another editor held there is lost.
- **The login page counts as an answer**: when the session has ended, fetch
  follows the redirect to a 200, so the editor leaves as if it had saved and a
  switch stays as if it had been stored (the second disjunct of
  `SavedMeansServed`).
- **A failed dialog may say nothing**: a body that is not JSON throws before
  `response.ok` is looked at (`new-trunk-dialog.tsx:41`); the dialog comes back
  without an error.
- **A switch may stay wrong** after a request that was rejected without an answer,
  or when another tab has changed the row: router.refresh() does not change a
  switch that is shown (`Refreshed`).
- **Overlapping saves of rates**: `savingId` names one row, so another row's save
  ends its wait, its answer clears the other one's error, and two saves of one
  row may be answered in the other order, after which the page shows the older
  rate, and sends it if that row is saved again; a text typed while its row is
  saved is lost.
- **A small rate makes a leg free**: a rate below 0.0000005 passes the editor's
  check (`price-table-editor.tsx:32`) and the route's, and the column rounds it
  to 0 (`schema.prisma:268`; `docs/cost-model.md:33-36` tells to look at what was
  stored). The page shows the 0 once the save is answered (`RateAnswered`), and
  `RatesWereTyped` allows it: it is what was typed, as the column keeps it.
- **An agent edited during a call** is billed in the mode it has when the call has
  ended (`meter-call-cost.ts:31`), which `BilledInOneMode` allows: it says that it
  is one of the modes the agent had, and all of it. Deleting the agent meanwhile
  is refused by the relation (`schema.prisma:298`), so the worker's return for an
  agent that is not there is not met.
- **A real call is not billed**: without a scenario there is no usage, and
  `meterCallCost` returns without a row or an event (`meter-call-cost.ts:20-22`
  says so). `BilledInOneMode` and `BilledUnlessCrashed` are about calls with usage.
- **Bills and sessions differ** in two cases (`LegsAreBilled`): half_cascade with
  Gemini is billed for a TTS nobody runs (`session-builders.ts:132-140`), and the
  Deepgram STT beside Gemini's realtime model is billed to nobody. `llmProvider`
  has no part in the choice of the LLM, the voice of a half_cascade agent with
  Gemini reaches no engine (`ChoicesReachTheirEngines`), and `s2sProvider` "azure" builds an Azure
  client without both variables that `realtime-agent.ts:12-13` asks for.
- **A partial PATCH** of `voiceMode` by another client of the API may leave
  columns that do not fit: `Settles` is true of the editor's bodies only.
- **A rejected query** in a route without a try block (the GETs, and POST
  /v1/model-options) is an unhandled rejection in Express 4, not the 500 that
  `error-handler.ts:9-11` describes.
- **A long call is shown in part**: the call page asks for the first 100 events
  (`page.tsx:57`), and the page of an ended and settled call has no stream that
  would bring the others.
- **Lists**: one filtered by status may skip a call whose status changes between
  two pages, and rows with the same `createdAt` have no order.

Of the playground, as the actions of BrowserCall show it:

- **"connected" after "ended"**: `handleStart` sets it behind its last await,
  whatever has come in between (`playground-client.tsx:106`). The deletion of the
  room then ends it again (`ConnectedPageSeesTheEnd`), unless the deletion fails,
  or "Start call" had been pressed again after the end, so that the page joins
  with two rooms of which `roomRef` names one.
- **The wrong room is left**: the catch block of one start, and "End call",
  disconnect the room `roomRef` has by then, which may be another start's.
- **Lines of two calls** can mix with three starts: the handlers of an old Room
  write to the one transcript. `WholeTranscript` is about the lines of the latest.
- **Leaving during the POST** leaves a joined room with an open microphone behind:
  the cleanup ran before there was a room.
- **A call may be misreported**: `stub-voice-session.ts:40-42` says that a dropped
  call is "never misreported" as COMPLETED or FAILED. A publication that rejects
  because the room is lost makes the executor report FAILED (`PublishRejects`),
  and a room lost behind the last look at it is COMPLETED (`FinalStep`); all of
  it has been said then (`CompletedMeansSaid`).

## 7. What is left out, and why

- A call row that does not exist: the API inserts it before the job, and
  nothing deletes one. The same for the stream's not-found branch.
- Payloads, signatures, the WAV bytes, the amounts of a bill, log lines, rendering: no property
  is about them. `nextRetryAt` has no reader.
- Lengths of delays and timeouts: any order of events the delays allow, and
  more, is explored.
- The SIP leg and room of a crashed call: LiveKit's own timeouts end them.
  An error of `deleteRoom` is swallowed by the code and not modelled.
- The response's literal status "QUEUED", also for a duplicate.
- FAILED of `WebhookDeliveryStatus`, which no code writes.
- Of an agent: the prompt and the two flags, which the form sends and the API
  stores as they are. The fields of a trunk or an endpoint but its name and its
  switch; the PATCHes of other fields, which no form sends; language profiles,
  which the API only reads.
- Of the console: tables, charts and the component library, which render; the
  proxies that only read; logout, which is one of the ways a session ends.
- Prompts, templates, tools, and the options of the SDK objects but the model,
  voice, language and key; fixed settings such as an API version.
- React's state updates and effect cleanup are one step; the browser's event
  loop makes them so.
- Storage adapters, logging, seed and deployment: I/O without a state the program reads back.

`PROJECT.json` has the list of all components with what is modelled of each, and
the hazards of the code at their lines.

## 8. Plan

Done:

1. CallStatus, CallRunner, OutcomeMapper, CallExecutor; CallLifecycle; proofs.
2. WebhookDispatcher; WebhookDelivery; proofs.
3. TrunkSlots; proofs.
4. CallInitiation; proofs.
5. CallStream, the API's stream and the console's page; proofs.
6. AgentConfigs and Administration, the console's forms over the admin routes
   and the metering; proofs.
7. BrowserCall, the playground with the scripted session; proofs.
8. VoiceSessions and Listings, operators; theorems.

What could follow: the safety cores of the remaining liveness properties as
theorems; an abstract conversation that BrowserCall implements and whose traces
are CallRunner's plans; a composition of initiation, executor and dispatcher, in which one POST leads to
one DELIVERED row or to one of the named losses.
