--------------------------- MODULE CallInitiation ---------------------------
(***************************************************************************)
(* POST /v1/calls: initiateCall, run by concurrent requests, against the   *)
(* unique idempotencyKey column of Call and the call-executor queue.       *)
(*                                                                         *)
(* A request draws a fresh callSid, so a call is named after the request   *)
(* that creates it.  The worker's run of a call is three steps here (see   *)
(* CallExecutor for what they are made of).                                *)
(***************************************************************************)
EXTENDS Naturals, FiniteSets

CONSTANTS
  Requests,
  key,         \* of each request, "<agentId>:<toNumber>"; NoKey if browser
  NoKey,       \* null
  NoCall,
  Faults       \* what else may go wrong, of FaultKinds

(* request_dies: a Postgres or Redis call rejects, or the API process dies,*)
(*               at any point of a request.                                *)
(* room_fails:   LiveKit does not make the browser's room.                 *)
FaultKinds == {"request_dies", "room_fails"}

ASSUME NoCallAssumption == NoCall \notin Requests
ASSUME InitiationFaults == Faults \subseteq FaultKinds

VARIABLES
  (* Postgres *)
  status,          \* of each call; "none" before its row exists
  idempotencyKey,  \* of each call
  old,             \* the calls created IDEMPOTENCY_WINDOW_SECONDS ago or more
  queued,          \* the calls with a call_queued event
  (* Redis *)
  jobs,            \* the calls with a call-executor job
  (* LiveKit *)
  rooms,           \* the browser calls whose room exists
  cleaned,         \* the calls whose run has deleted its room
  (* the requests *)
  pc,
  existing,        \* the call found by the first lookup
  answer           \* the callSid of the response

callVars == <<status, old>>
workVars == <<queued, jobs, cleaned>>
vars == <<callVars, idempotencyKey, workVars, rooms, pc, existing, answer>>

isBrowser(r) == key[r] = NoKey

Init ==
  /\ status = [r \in Requests |-> "none"]
  /\ idempotencyKey = [r \in Requests |-> NoKey]
  /\ old = {} /\ queued = {} /\ jobs = {} /\ rooms = {} /\ cleaned = {}
  /\ pc = [r \in Requests |-> "idle"]
  /\ existing = [r \in Requests |-> NoCall]
  /\ answer = [r \in Requests |-> NoCall]

GoTo(r, label) == pc' = [pc EXCEPT ![r] = label]

Respond(r, c) ==
  /\ answer' = [answer EXCEPT ![r] = c]
  /\ GoTo(r, "answered")

(* The call that has r's key: one at most, the column is unique.           *)
Owners(r) == {c \in Requests : ~isBrowser(r) /\ idempotencyKey[c] = key[r]}

-----------------------------------------------------------------------------
(* The requests.                                                           *)

(* findByName: an unknown agent is a 404.                                  *)
FindAgent(r) ==
  /\ pc[r] = "idle"
  /\ GoTo(r, "find") \/ GoTo(r, "notFound")
  /\ UNCHANGED <<callVars, idempotencyKey, workVars, rooms, existing, answer>>

(* ageMs < window and not terminal.                                        *)
IsRepeated(c) == c \notin old /\ status[c] # "ENDED"

(* findActiveByIdempotencyKey returns the key's call whatever its status   *)
(* and age; the check is made here.                                        *)
FindExisting(r) ==
  /\ pc[r] = "find"
  /\ \/ /\ Owners(r) = {}
        /\ GoTo(r, "create")
        /\ UNCHANGED <<existing, answer>>
     \/ \E c \in Owners(r) :
          /\ existing' = [existing EXCEPT ![r] = c]
          /\ IF IsRepeated(c) THEN Respond(r, c)
             ELSE GoTo(r, "clear") /\ UNCHANGED answer
  /\ UNCHANGED <<callVars, idempotencyKey, workVars, rooms>>

(* clearIdempotencyKey, by callSid.                                        *)
ClearIdempotencyKey(r) ==
  /\ pc[r] = "clear"
  /\ idempotencyKey' = [idempotencyKey EXCEPT ![existing[r]] = NoKey]
  /\ GoTo(r, "create")
  /\ UNCHANGED <<callVars, workVars, rooms, existing, answer>>

(* Mutation: the column has lost its unique index.                         *)
CreateUnchecked(r) ==
  /\ pc[r] = "create"
  /\ status' = [status EXCEPT ![r] = "QUEUED"]
  /\ idempotencyKey' = [idempotencyKey EXCEPT ![r] = key[r]]
  /\ GoTo(r, "event")
  /\ UNCHANGED <<old, workVars, rooms, existing, answer>>

(* The row, or P2002.                                                      *)
Create(r) ==
  /\ pc[r] = "create"
  /\ IF Owners(r) = {}
     THEN /\ status' = [status EXCEPT ![r] = "QUEUED"]
          /\ idempotencyKey' = [idempotencyKey EXCEPT ![r] = key[r]]
          /\ GoTo(r, "event")
     ELSE /\ GoTo(r, "winner")
          /\ UNCHANGED <<status, idempotencyKey>>
  /\ UNCHANGED <<old, workVars, rooms, existing, answer>>

(* Mutation: the loser of the race answers with its own callSid.           *)
FindNoWinner(r) ==
  /\ pc[r] = "winner"
  /\ Respond(r, r)
  /\ UNCHANGED <<callVars, idempotencyKey, workVars, rooms, existing>>

(* The loser of the race looks the key up again, and fails if it is gone.  *)
FindWinner(r) ==
  /\ pc[r] = "winner"
  /\ \/ \E c \in Owners(r) : Respond(r, c)
     \/ Owners(r) = {} /\ GoTo(r, "failed") /\ UNCHANGED answer
  /\ UNCHANGED <<callVars, idempotencyKey, workVars, rooms, existing>>

AppendQueued(r) ==
  /\ pc[r] = "event"
  /\ queued' = queued \cup {r}
  /\ GoTo(r, "enqueue")
  /\ UNCHANGED <<callVars, idempotencyKey, jobs, cleaned, rooms, existing, answer>>

(* Mutation: nothing is enqueued for a browser call.                       *)
EnqueueSip(r) ==
  /\ pc[r] = "enqueue"
  /\ jobs' = IF isBrowser(r) THEN jobs ELSE jobs \cup {r}
  /\ GoTo(r, "room")
  /\ UNCHANGED <<callVars, idempotencyKey, queued, cleaned, rooms, existing, answer>>

Enqueue(r) ==
  /\ pc[r] = "enqueue"
  /\ jobs' = jobs \cup {r}
  /\ GoTo(r, "room")
  /\ UNCHANGED <<callVars, idempotencyKey, queued, cleaned, rooms, existing, answer>>

(* prepareBrowserCallRoom; its errors are swallowed.                       *)
PrepareRoom(r) ==
  /\ pc[r] = "room"
  /\ \/ isBrowser(r) /\ rooms' = rooms \cup {r}
     \/ ~isBrowser(r) /\ UNCHANGED rooms
     \/ "room_fails" \in Faults /\ UNCHANGED rooms
  /\ Respond(r, r)
  /\ UNCHANGED <<callVars, idempotencyKey, workVars, existing>>

(* The error of a store leaves initiateCall as a 500; nothing is undone.   *)
Fail(r) ==
  /\ "request_dies" \in Faults
  /\ pc[r] \notin {"answered", "notFound", "failed"}
  /\ GoTo(r, "failed")
  /\ UNCHANGED <<callVars, idempotencyKey, workVars, rooms, existing, answer>>

-----------------------------------------------------------------------------
(* The worker, and time.                                                   *)

(* The job is delivered and its run creates the room, or finds it created. *)
StartCall(c) ==
  /\ c \in jobs /\ status[c] = "QUEUED"
  /\ status' = [status EXCEPT ![c] = "IN_PROGRESS"]
  /\ rooms' = IF isBrowser(c) THEN rooms \cup {c} ELSE rooms
  /\ UNCHANGED <<old, idempotencyKey, workVars, pc, existing, answer>>

(* A terminal status; the idempotency key stays.                           *)
EndCall(c) ==
  /\ status[c] = "IN_PROGRESS"
  /\ status' = [status EXCEPT ![c] = "ENDED"]
  /\ UNCHANGED <<old, idempotencyKey, workVars, rooms, pc, existing, answer>>

(* The finally block of RealCallRunner.run.                                *)
DeleteRoom(c) ==
  /\ status[c] = "ENDED" /\ c \notin cleaned
  /\ rooms' = rooms \ {c}
  /\ cleaned' = cleaned \cup {c}
  /\ UNCHANGED <<callVars, idempotencyKey, queued, jobs, pc, existing, answer>>

(* IDEMPOTENCY_WINDOW_SECONDS pass.                                        *)
Age(c) ==
  /\ status[c] # "none" /\ c \notin old
  /\ old' = old \cup {c}
  /\ UNCHANGED <<status, idempotencyKey, workVars, rooms, pc, existing, answer>>

-----------------------------------------------------------------------------
Handle(r) ==
  \/ FindExisting(r) \/ ClearIdempotencyKey(r) \/ Create(r) \/ FindWinner(r)
  \/ AppendQueued(r) \/ Enqueue(r) \/ PrepareRoom(r)

Execute(c) == StartCall(c) \/ EndCall(c) \/ DeleteRoom(c)

Next == \E r \in Requests : FindAgent(r) \/ Handle(r) \/ Fail(r) \/ Execute(r) \/ Age(r)

(* A request that has begun is handled; the worker runs what is queued and *)
(* ends it (EveryCallEnds of CallExecutor).                                *)
Fairness == \A r \in Requests : WF_vars(Handle(r)) /\ WF_vars(Execute(r))

Spec == Init /\ [][Next]_vars /\ Fairness

-----------------------------------------------------------------------------
(* Properties.                                                             *)

Statuses == {"none", "QUEUED", "IN_PROGRESS", "ENDED"}
Labels == {"idle", "find", "clear", "create", "winner", "event", "enqueue", "room",
           "answered", "notFound", "failed"}

(* The type invariant.                                                     *)
TypeOK ==
  /\ status \in [Requests -> Statuses]
  /\ idempotencyKey \in [Requests -> {key[r] : r \in Requests} \cup {NoKey}]
  /\ old \subseteq Requests /\ queued \subseteq Requests /\ jobs \subseteq Requests
  /\ rooms \subseteq Requests /\ cleaned \subseteq Requests
  /\ pc \in [Requests -> Labels]
  /\ existing \in [Requests -> Requests \cup {NoCall}]
  /\ answer \in [Requests -> Requests \cup {NoCall}]

Created(c) == status[c] # "none"
Active(c) == status[c] \in {"QUEUED", "IN_PROGRESS"} /\ c \notin old

(* An agent does not call one number twice at a time: of the calls created *)
(* for a number within the window at most one is in progress, although     *)
(* requests look the key up, clear it and create without a transaction.    *)
OneCallPerNumber ==
  \A c, d \in Requests : Active(c) /\ Active(d) /\ key[c] = key[d] /\ ~isBrowser(c) => c = d

(* A response names a call that exists, for the agent and number asked     *)
(* for; a request that created a call answers with no other.               *)
AnswersNameTheCall ==
  \A r \in Requests : pc[r] = "answered" =>
    /\ answer[r] \in Requests /\ Created(answer[r]) /\ key[answer[r]] = key[r]
    /\ Created(r) \/ isBrowser(r) => answer[r] = r

(* A call whose own request was answered is executed to its end.  What a   *)
(* duplicate is answered with may be the call of a request that died       *)
(* before its job was added: that one stays QUEUED.                        *)
EveryOwnCallEnds ==
  \A r \in Requests : (pc[r] = "answered" /\ answer[r] = r) ~> (status[r] = "ENDED")

-----------------------------------------------------------------------------
(* What the code's own words say and the code does not keep: TLC finds     *)
(* each of these violated (README, "What the model shows not to hold").    *)

(* A duplicate is answered with the winner's callSid and not with a 500.   *)
DuplicatesAreAnswered == \A r \in Requests : pc[r] # "failed"

(* The room of a call that is over is gone when its request is answered.   *)
NoRoomIsLeft ==
  \A r \in Requests : pc[r] = "answered" /\ r \in cleaned => r \notin rooms

-----------------------------------------------------------------------------
(* The inductive invariant of the proofs.                                  *)

(* An active call still has its key; a key has one owner.                  *)
KeysOK ==
  /\ \A c \in Requests : Active(c) => idempotencyKey[c] = key[c]
  /\ \A c \in Requests : idempotencyKey[c] # NoKey => idempotencyKey[c] = key[c] /\ Created(c)
  /\ \A c, d \in Requests : idempotencyKey[c] # NoKey /\ idempotencyKey[c] = idempotencyKey[d]
                              => c = d

(* Only a call that is no longer active has its key cleared.               *)
ClearingOK ==
  \A r \in Requests : pc[r] = "clear" =>
    existing[r] \in Requests /\ Created(existing[r]) /\ ~Active(existing[r])

(* A row is created by its request, once.                                  *)
CreatedOK ==
  \A r \in Requests :
    pc[r] \in {"idle", "find", "clear", "create", "winner", "notFound"} => ~Created(r)

InitiationInv == TypeOK /\ KeysOK /\ ClearingOK /\ CreatedOK
=============================================================================
