------------------------ MODULE CallInitiationProofs ------------------------
(***************************************************************************)
(* Theorems about call initiation, for any requests, numbers and faults.   *)
(***************************************************************************)
EXTENDS CallInitiation, TLAPS

LEMMA GoToType ==
  ASSUME TypeOK, NEW r, NEW label \in Labels, GoTo(r, label)
  PROVE  pc' \in [Requests -> Labels]
  BY DEF TypeOK, GoTo

LEMMA RespondType ==
  ASSUME TypeOK, NEW r, NEW c \in Requests, Respond(r, c)
  PROVE  pc' \in [Requests -> Labels] /\ answer' \in [Requests -> Requests \cup {NoCall}]
<1>1. pc' \in [Requests -> Labels]
  BY GoToType DEF Respond, Labels
<1> QED BY <1>1 DEF TypeOK, Respond

(* Every step keeps the types.                                             *)
LEMMA StepType ==
  ASSUME TypeOK, [Next]_vars
  PROVE  TypeOK'
<1> USE DEF callVars, workVars
<1>1. ASSUME NEW r \in Requests, FindAgent(r) \/ Fail(r) PROVE TypeOK'
  <2>1. pc' \in [Requests -> Labels]
    BY <1>1, GoToType DEF FindAgent, Fail, Labels
  <2> QED BY <1>1, <2>1 DEF FindAgent, Fail, TypeOK
<1>2. ASSUME NEW r \in Requests, FindExisting(r) PROVE TypeOK'
  <2>1. CASE Owners(r) = {} /\ GoTo(r, "create") /\ UNCHANGED <<existing, answer>>
    <3>1. pc' \in [Requests -> Labels]
      BY <2>1, GoToType DEF Labels
    <3> QED BY <1>2, <2>1, <3>1 DEF FindExisting, TypeOK
  <2>2. ASSUME NEW c \in Owners(r), existing' = [existing EXCEPT ![r] = c],
               IF IsRepeated(c) THEN Respond(r, c)
               ELSE GoTo(r, "clear") /\ UNCHANGED answer
        PROVE  TypeOK'
    <3>1. c \in Requests
      BY DEF Owners
    <3>2. /\ pc' \in [Requests -> Labels]
          /\ answer' \in [Requests -> Requests \cup {NoCall}]
      <4>1. CASE IsRepeated(c)
        BY <2>2, <3>1, <4>1, RespondType
      <4>2. CASE ~IsRepeated(c)
        BY <2>2, <4>2, GoToType DEF Labels, TypeOK
      <4> QED BY <4>1, <4>2
    <3>3. existing' \in [Requests -> Requests \cup {NoCall}]
      BY <2>2, <3>1 DEF TypeOK
    <3> QED BY <1>2, <3>2, <3>3 DEF FindExisting, TypeOK
  <2> QED BY <1>2, <2>1, <2>2 DEF FindExisting
<1>3. ASSUME NEW r \in Requests, ClearIdempotencyKey(r) PROVE TypeOK'
  <2>1. pc' \in [Requests -> Labels]
    BY <1>3, GoToType DEF ClearIdempotencyKey, Labels
  <2>2. idempotencyKey' \in [Requests -> {key[q] : q \in Requests} \cup {NoKey}]
    BY <1>3 DEF ClearIdempotencyKey, TypeOK
  <2> QED BY <1>3, <2>1, <2>2 DEF ClearIdempotencyKey, TypeOK
<1>4. ASSUME NEW r \in Requests, Create(r) PROVE TypeOK'
  <2>1. pc' \in [Requests -> Labels]
    BY <1>4, GoToType DEF Create, Labels
  <2>2. status' \in [Requests -> Statuses]
    BY <1>4 DEF Create, TypeOK, Statuses
  <2>3. idempotencyKey' \in [Requests -> {key[q] : q \in Requests} \cup {NoKey}]
    BY <1>4 DEF Create, TypeOK
  <2> QED BY <1>4, <2>1, <2>2, <2>3 DEF Create, TypeOK
<1>5. ASSUME NEW r \in Requests, FindWinner(r) PROVE TypeOK'
  <2>1. CASE \E c \in Owners(r) : Respond(r, c)
    <3>1. PICK c \in Requests : Respond(r, c)
      BY <2>1 DEF Owners
    <3>2. /\ pc' \in [Requests -> Labels]
          /\ answer' \in [Requests -> Requests \cup {NoCall}]
      BY <3>1, RespondType
    <3> QED BY <1>5, <3>2 DEF FindWinner, TypeOK
  <2>2. CASE GoTo(r, "failed") /\ UNCHANGED answer
    <3>1. pc' \in [Requests -> Labels]
      BY <2>2, GoToType DEF Labels
    <3> QED BY <1>5, <2>2, <3>1 DEF FindWinner, TypeOK
  <2> QED BY <1>5, <2>1, <2>2 DEF FindWinner
<1>6. ASSUME NEW r \in Requests, AppendQueued(r) \/ Enqueue(r) PROVE TypeOK'
  <2>1. pc' \in [Requests -> Labels]
    BY <1>6, GoToType DEF AppendQueued, Enqueue, Labels
  <2> QED BY <1>6, <2>1 DEF AppendQueued, Enqueue, TypeOK
<1>7. ASSUME NEW r \in Requests, PrepareRoom(r) PROVE TypeOK'
  <2>1. pc' \in [Requests -> Labels] /\ answer' \in [Requests -> Requests \cup {NoCall}]
    BY <1>7, RespondType DEF PrepareRoom
  <2> QED BY <1>7, <2>1 DEF PrepareRoom, TypeOK
<1>8. ASSUME NEW c \in Requests, StartCall(c) \/ EndCall(c) PROVE TypeOK'
  <2>1. status' \in [Requests -> Statuses]
    BY <1>8 DEF StartCall, EndCall, TypeOK, Statuses
  <2> QED BY <1>8, <2>1 DEF StartCall, EndCall, TypeOK
<1>9. ASSUME NEW c \in Requests, DeleteRoom(c) \/ Age(c) PROVE TypeOK'
  BY <1>9 DEF DeleteRoom, Age, TypeOK
<1>10. ASSUME UNCHANGED vars PROVE TypeOK'
  BY <1>10 DEF vars, TypeOK
<1> QED BY <1>1, <1>2, <1>3, <1>4, <1>5, <1>6, <1>7, <1>8, <1>9, <1>10
        DEF Next, Handle, Execute

-----------------------------------------------------------------------------
(* The invariant behind one call per number.                               *)

(* A step that leaves rows and keys alone and starts no clearing.          *)
LEMMA RequestMoves ==
  ASSUME InitiationInv, TypeOK', NEW r \in Requests,
         UNCHANGED <<status, old, idempotencyKey>>,
         \A q \in Requests : q # r => pc'[q] = pc[q] /\ existing'[q] = existing[q],
         pc'[r] = "clear" => existing'[r] \in Requests /\ Created(existing'[r])
                             /\ ~Active(existing'[r]),
         pc'[r] \in {"idle", "find", "clear", "create", "winner", "notFound"}
           => ~Created(r)
  PROVE  InitiationInv'
<1>1. KeysOK'
  BY DEF InitiationInv, KeysOK, Active, Created
<1>2. ClearingOK'
  BY DEF InitiationInv, ClearingOK, Active, Created
<1>3. CreatedOK'
  BY DEF InitiationInv, CreatedOK, Created
<1> QED BY <1>1, <1>2, <1>3 DEF InitiationInv

(* The call that ages, starts or ends.                                     *)
LEMMA CallMoves ==
  ASSUME InitiationInv, TypeOK', NEW c \in Requests,
         UNCHANGED <<idempotencyKey, pc, existing>>,
         \A d \in Requests : (Created(d)' <=> Created(d)) /\ (Active(d)' => Active(d))
  PROVE  InitiationInv'
<1>1. KeysOK'
  BY DEF InitiationInv, KeysOK
<1>2. ClearingOK'
  BY DEF InitiationInv, ClearingOK
<1>3. CreatedOK'
  BY DEF InitiationInv, CreatedOK
<1> QED BY <1>1, <1>2, <1>3 DEF InitiationInv

LEMMA ClearKeepsInv ==
  ASSUME InitiationInv, TypeOK', NEW r \in Requests, ClearIdempotencyKey(r)
  PROVE  InitiationInv'
<1> DEFINE e == existing[r]
<1>1. /\ e \in Requests /\ ~Active(e)
      /\ UNCHANGED <<status, old, existing>>
      /\ idempotencyKey' = [idempotencyKey EXCEPT ![e] = NoKey]
      /\ pc' = [pc EXCEPT ![r] = "create"]
  BY DEF InitiationInv, ClearingOK, ClearIdempotencyKey, GoTo, callVars
<1> /\ idempotencyKey \in [Requests -> {key[q] : q \in Requests} \cup {NoKey}]
    /\ pc \in [Requests -> Labels]
  BY DEF InitiationInv, TypeOK
<1>2. KeysOK'
  BY <1>1 DEF InitiationInv, KeysOK, Active, Created
<1>3. ClearingOK'
  BY <1>1 DEF InitiationInv, ClearingOK, Active, Created
<1>4. CreatedOK'
  <2>1. ~Created(r)
    BY DEF InitiationInv, CreatedOK, ClearIdempotencyKey
  <2> QED BY <1>1, <2>1 DEF InitiationInv, CreatedOK, Created
<1> QED BY <1>2, <1>3, <1>4 DEF InitiationInv

LEMMA CreateKeepsInv ==
  ASSUME InitiationInv, TypeOK', NEW r \in Requests, Create(r)
  PROVE  InitiationInv'
<1> /\ idempotencyKey \in [Requests -> {key[q] : q \in Requests} \cup {NoKey}]
    /\ pc \in [Requests -> Labels] /\ status \in [Requests -> Statuses]
  BY DEF InitiationInv, TypeOK
<1>0. ~Created(r) /\ UNCHANGED <<old, existing>>
  BY DEF InitiationInv, CreatedOK, Create
<1>1. CASE Owners(r) # {}
  <2>1. UNCHANGED <<status, old, idempotencyKey, existing>> /\ pc' = [pc EXCEPT ![r] = "winner"]
    BY <1>1 DEF Create, GoTo
  <2> QED BY <1>0, <2>1, RequestMoves
<1>2. CASE Owners(r) = {}
  <2>1. /\ status' = [status EXCEPT ![r] = "QUEUED"]
        /\ idempotencyKey' = [idempotencyKey EXCEPT ![r] = key[r]]
        /\ pc' = [pc EXCEPT ![r] = "event"]
    BY <1>2 DEF Create, GoTo
  <2>2. \A c \in Requests : key[r] # NoKey => idempotencyKey[c] # key[r]
    BY <1>2 DEF Owners, isBrowser
  <2>3. ASSUME NEW c \in Requests PROVE Active(c)' => idempotencyKey'[c] = key[c]
    <3>1. CASE c = r
      BY <2>1, <3>1
    <3>2. CASE c # r
      BY <1>0, <2>1, <3>2 DEF InitiationInv, KeysOK, Active
    <3> QED BY <3>1, <3>2
  <2>4. ASSUME NEW c \in Requests, idempotencyKey'[c] # NoKey
        PROVE  idempotencyKey'[c] = key[c] /\ Created(c)'
    <3>1. CASE c = r
      BY <2>1, <3>1 DEF Created
    <3>2. CASE c # r
      BY <2>1, <2>4, <3>2 DEF InitiationInv, KeysOK, Created
    <3> QED BY <3>1, <3>2
  <2>5. ASSUME NEW c \in Requests, NEW d \in Requests,
               idempotencyKey'[c] # NoKey, idempotencyKey'[c] = idempotencyKey'[d]
        PROVE  c = d
    <3>1. CASE c # r /\ d # r
      BY <2>1, <2>5, <3>1 DEF InitiationInv, KeysOK
    <3>2. CASE c = r \/ d = r
      BY <2>1, <2>2, <2>5, <3>2
    <3> QED BY <3>1, <3>2
  <2>6. KeysOK'
    BY <2>3, <2>4, <2>5 DEF KeysOK
  <2>7. ClearingOK'
    BY <1>0, <2>1 DEF InitiationInv, ClearingOK, Active, Created
  <2>8. CreatedOK'
    BY <2>1 DEF InitiationInv, CreatedOK, Created
  <2> QED BY <2>6, <2>7, <2>8 DEF InitiationInv
<1> QED BY <1>1, <1>2

LEMMA StepInitiation ==
  ASSUME InitiationInv, [Next]_vars
  PROVE  InitiationInv'
<1>0. TypeOK'
  BY StepType DEF InitiationInv
<1> /\ pc \in [Requests -> Labels] /\ existing \in [Requests -> Requests \cup {NoCall}]
    /\ status \in [Requests -> Statuses]
  BY DEF InitiationInv, TypeOK
<1>1. ASSUME NEW r \in Requests, FindAgent(r) PROVE InitiationInv'
  <2>1. /\ UNCHANGED <<status, old, idempotencyKey, existing>> /\ ~Created(r)
        /\ pc' = [pc EXCEPT ![r] = "find"] \/ pc' = [pc EXCEPT ![r] = "notFound"]
    BY <1>1 DEF FindAgent, GoTo, callVars, InitiationInv, CreatedOK
  <2> QED BY <1>0, <2>1, RequestMoves
<1>2. ASSUME NEW r \in Requests, FindExisting(r) PROVE InitiationInv'
  <2>1. UNCHANGED <<status, old, idempotencyKey>> /\ ~Created(r)
    BY <1>2 DEF FindExisting, callVars, InitiationInv, CreatedOK
  <2>2. CASE GoTo(r, "create") /\ UNCHANGED existing
    BY <1>0, <2>1, <2>2, RequestMoves DEF GoTo
  <2>3. ASSUME NEW c \in Owners(r), existing' = [existing EXCEPT ![r] = c],
               IF IsRepeated(c) THEN Respond(r, c)
               ELSE GoTo(r, "clear") /\ UNCHANGED answer
        PROVE  InitiationInv'
    <3>1. c \in Requests /\ Created(c)
      BY DEF Owners, isBrowser, InitiationInv, KeysOK
    <3>2. CASE IsRepeated(c)
      BY <1>0, <2>1, <2>3, <3>2, RequestMoves DEF Respond, GoTo
    <3>3. CASE ~IsRepeated(c)
      <4>1. ~Active(c)
        BY <3>3 DEF IsRepeated, Active
      <4> QED BY <1>0, <2>1, <2>3, <3>1, <3>3, <4>1, RequestMoves DEF GoTo
    <3> QED BY <3>2, <3>3
  <2> QED BY <1>2, <2>2, <2>3 DEF FindExisting
<1>3. ASSUME NEW r \in Requests,
             FindWinner(r) \/ AppendQueued(r) \/ Enqueue(r) \/ PrepareRoom(r) \/ Fail(r)
      PROVE  InitiationInv'
  <2>1. UNCHANGED <<status, old, idempotencyKey, existing>>
    BY <1>3 DEF FindWinner, AppendQueued, Enqueue, PrepareRoom, Fail, callVars
  <2>2. \E l \in {"answered", "failed", "enqueue", "room"} : pc' = [pc EXCEPT ![r] = l]
    BY <1>3 DEF FindWinner, AppendQueued, Enqueue, PrepareRoom, Fail, GoTo, Respond
  <2> QED BY <1>0, <2>1, <2>2, RequestMoves
<1>4. ASSUME NEW c \in Requests, StartCall(c) \/ EndCall(c) \/ DeleteRoom(c) \/ Age(c)
      PROVE  InitiationInv'
  <2>1. UNCHANGED <<idempotencyKey, pc, existing>>
    BY <1>4 DEF StartCall, EndCall, DeleteRoom, Age
  <2>2. \A d \in Requests : (Created(d)' <=> Created(d)) /\ (Active(d)' => Active(d))
    BY <1>4 DEF StartCall, EndCall, DeleteRoom, Age, Created, Active, callVars
  <2> QED BY <1>0, <2>1, <2>2, CallMoves
<1>5. CASE UNCHANGED vars
  BY <1>0, <1>5 DEF vars, callVars, InitiationInv, KeysOK, ClearingOK, CreatedOK, Active, Created
<1> QED BY <1>0, <1>1, <1>2, <1>3, <1>4, <1>5, ClearKeepsInv, CreateKeepsInv
        DEF Next, Handle, Execute

LEMMA InitInitiation == Init => InitiationInv
  BY DEF Init, InitiationInv, TypeOK, KeysOK, ClearingOK, CreatedOK, Active, Created, Statuses, Labels

(* Every variable of a request and of a call keeps its type.               *)
THEOREM TypeCorrect == Spec => []TypeOK
<1>1. Init => TypeOK
  BY InitInitiation DEF InitiationInv
<1> QED BY <1>1, StepType, PTL DEF Spec

(* Of the calls created for a number within the window at most one is in   *)
(* progress, for any number of concurrent requests, dying ones included.   *)
THEOREM AtMostOneCallPerNumber == Spec => []OneCallPerNumber
<1>1. InitiationInv => OneCallPerNumber
  BY DEF InitiationInv, KeysOK, OneCallPerNumber, isBrowser
<1> QED BY <1>1, InitInitiation, StepInitiation, PTL DEF Spec

-----------------------------------------------------------------------------
(* What the responses name.                                                *)

AnswerOK(r) ==
  /\ pc[r] \in {"event", "enqueue", "room"} => Created(r)
  /\ pc[r] = "answered" =>
       /\ answer[r] \in Requests /\ Created(answer[r]) /\ key[answer[r]] = key[r]
       /\ Created(r) \/ isBrowser(r) => answer[r] = r

AnswersInv == \A r \in Requests : AnswerOK(r)

(* A request that moves leaves the others' answers what they were.         *)
LEMMA RequestAnswers ==
  ASSUME AnswersInv, NEW r \in Requests,
         \A q \in Requests : Created(q) => Created(q)',
         \A q \in Requests \ {r} : /\ pc'[q] = pc[q] /\ answer'[q] = answer[q]
                                   /\ Created(q)' => Created(q),
         AnswerOK(r)'
  PROVE  AnswersInv'
<1>1. ASSUME NEW q \in Requests \ {r} PROVE AnswerOK(q)'
  BY <1>1 DEF AnswersInv, AnswerOK
<1> QED
  BY <1>1 DEF AnswersInv

(* The owner of a key was created for it.                                  *)
LEMMA OwnerIsCreated ==
  ASSUME InitiationInv, NEW r \in Requests, NEW c \in Owners(r)
  PROVE  c \in Requests /\ Created(c) /\ key[c] = key[r] /\ ~isBrowser(r)
BY DEF Owners, isBrowser, InitiationInv, KeysOK

LEMMA StepAnswers ==
  ASSUME InitiationInv, AnswersInv, [Next]_vars
  PROVE  AnswersInv'
<1> /\ pc \in [Requests -> Labels] /\ answer \in [Requests -> Requests \cup {NoCall}]
    /\ status \in [Requests -> Statuses]
  BY DEF InitiationInv, TypeOK
<1> USE DEF GoTo, callVars
<1>1. ASSUME NEW r \in Requests, NEW c \in Owners(r), Respond(r, c), UNCHANGED status,
             pc[r] \in {"find", "winner"}
      PROVE  AnswersInv'
  <2>1. c \in Requests /\ Created(c) /\ key[c] = key[r] /\ ~isBrowser(r) /\ ~Created(r)
    BY <1>1, OwnerIsCreated DEF InitiationInv, CreatedOK
  <2>2. /\ pc' = [pc EXCEPT ![r] = "answered"] /\ answer' = [answer EXCEPT ![r] = c]
        /\ \A q : Created(q)' = Created(q)
    BY <1>1 DEF Respond, Created
  <2>3. pc'[r] = "answered" /\ answer'[r] = c /\ ~Created(r)' /\ Created(c)'
    BY <2>1, <2>2
  <2>4. AnswerOK(r)'
    BY <2>1, <2>3 DEF AnswerOK, isBrowser, Created
  <2> QED
    BY <2>2, <2>4, RequestAnswers
<1>2. ASSUME NEW r \in Requests, UNCHANGED <<status, answer>>,
             \E l \in Labels \ {"answered", "event", "enqueue", "room"} : GoTo(r, l)
      PROVE  AnswersInv'
  <2>1. /\ pc'[r] \in Labels \ {"answered", "event", "enqueue", "room"}
        /\ \A q \in Requests \ {r} : pc'[q] = pc[q]
        /\ \A q : Created(q)' = Created(q)
    BY <1>2 DEF Created
  <2>2. AnswerOK(r)'
    BY <2>1 DEF AnswerOK
  <2> QED
    BY <1>2, <2>1, <2>2, RequestAnswers
<1>3. ASSUME NEW r \in Requests, FindExisting(r) \/ FindWinner(r) PROVE AnswersInv'
  BY <1>1, <1>2, <1>3 DEF FindExisting, FindWinner, Labels
<1>4. ASSUME NEW r \in Requests, FindAgent(r) \/ ClearIdempotencyKey(r) \/ Fail(r)
      PROVE  AnswersInv'
  BY <1>2, <1>4 DEF FindAgent, ClearIdempotencyKey, Fail, Labels
<1>5. ASSUME NEW r \in Requests, Create(r) PROVE AnswersInv'
  <2>1. CASE Owners(r) # {}
    BY <1>2, <1>5, <2>1 DEF Create, Labels
  <2>2. CASE Owners(r) = {}
    <3>1. /\ status' = [status EXCEPT ![r] = "QUEUED"] /\ pc' = [pc EXCEPT ![r] = "event"]
          /\ answer' = answer
      BY <1>5, <2>2 DEF Create
    <3>2. AnswerOK(r)'
      BY <3>1 DEF AnswerOK, Created
    <3>3. \A q \in Requests : Created(q) => Created(q)'
      BY <3>1 DEF Created
    <3>4. \A q \in Requests \ {r} : pc'[q] = pc[q] /\ (Created(q)' => Created(q))
      BY <3>1 DEF Created
    <3> QED
      BY <3>1, <3>2, <3>3, <3>4, RequestAnswers
  <2> QED
    BY <2>1, <2>2
<1>6. ASSUME NEW r \in Requests, AppendQueued(r) \/ Enqueue(r) \/ PrepareRoom(r)
      PROVE  AnswersInv'
  <2>1. Created(r)
    BY <1>6 DEF AppendQueued, Enqueue, PrepareRoom, AnswersInv, AnswerOK
  <2>2. /\ \/ \E l \in {"enqueue", "room"} : pc' = [pc EXCEPT ![r] = l] /\ answer' = answer
           \/ pc' = [pc EXCEPT ![r] = "answered"] /\ answer' = [answer EXCEPT ![r] = r]
        /\ \A q : Created(q)' = Created(q)
    BY <1>6 DEF AppendQueued, Enqueue, PrepareRoom, Respond, Created
  <2>3. AnswerOK(r)'
    BY <2>1, <2>2 DEF AnswerOK, Created
  <2>4. \A q \in Requests \ {r} : pc'[q] = pc[q] /\ answer'[q] = answer[q]
    BY <2>2
  <2> QED
    BY <2>2, <2>3, <2>4, RequestAnswers
<1>7. ASSUME NEW c \in Requests, StartCall(c) \/ EndCall(c) \/ DeleteRoom(c) \/ Age(c)
      PROVE  AnswersInv'
  <2>1. UNCHANGED <<pc, answer>> /\ \A q \in Requests : Created(q)' = Created(q)
    BY <1>7 DEF StartCall, EndCall, DeleteRoom, Age, Created
  <2> QED
    BY <2>1 DEF AnswersInv, AnswerOK
<1>8. CASE UNCHANGED vars
  BY <1>8 DEF vars, AnswersInv, AnswerOK, Created
<1> QED
  BY <1>3, <1>4, <1>5, <1>6, <1>7, <1>8 DEF Next, Handle, Execute

(* A response names a call that was created for the agent and the number   *)
(* asked for, and its own call if the request created one, for any number  *)
(* of concurrent requests, dying ones included.                            *)
THEOREM ResponsesNameTheCall == Spec => []AnswersNameTheCall
<1>1. Init => AnswersInv
  BY DEF Init, AnswersInv, AnswerOK
<1>2. AnswersInv => AnswersNameTheCall
  BY DEF AnswersInv, AnswerOK, AnswersNameTheCall
<1> QED
  BY <1>1, <1>2, InitInitiation, StepInitiation, StepAnswers, PTL DEF Spec
=============================================================================
