----------------------------- MODULE TrunkSlots -----------------------------
(***************************************************************************)
(* Outbound SIP calls competing for the concurrency slots of trunks: the   *)
(* Redis counters of the trunk selector, and RealCallRunner's use of them  *)
(* for every call - select, dial, fail over to the next trunk, hold the    *)
(* slot while the call lasts, and give it back whatever happens.           *)
(*                                                                         *)
(* A call here is one run of RealCallRunner; the redelivered job of a      *)
(* crashed worker is another one.  The voice session is one step.          *)
(***************************************************************************)
EXTENDS Integers, FiniteSets

CONSTANTS
  Calls,
  Trunks,              \* the active trunks, as the worker lists them
  NoTrunk,             \* `undefined`
  maxConcurrentCalls,  \* of each trunk
  weight,              \* of each trunk
  MaxCrashes,          \* bound: workers that die while they run a call
  Faults               \* what else may go wrong, of FaultKinds

(* transition_error: onTransition rejects (a store error, a lost race).    *)
(* declined_error:   so does that which reports a busy or unanswered call. *)
(* redis_error:      a Redis command rejects without having effect.        *)
(* ack_lost:         a script takes effect and rejects all the same.       *)
(* expires_in_use:   a counter's key reaches its TTL while a call holds a  *)
(*                   slot of the trunk: a call of more than 30 minutes, or *)
(*                   a trunk that is never idle for that long.             *)
FaultKinds == {"transition_error", "declined_error", "redis_error", "ack_lost",
               "expires_in_use"}

ASSUME CallsAssumption == IsFiniteSet(Calls)
ASSUME NoTrunkAssumption == NoTrunk \notin Trunks
ASSUME MaxConcurrentAssumption == maxConcurrentCalls \in [Trunks -> Nat]
ASSUME WeightAssumption == weight \in [Trunks -> Int]
ASSUME TrunkCrashesAssumption == MaxCrashes \in Nat
ASSUME TrunkFaultsAssumption == Faults \subseteq FaultKinds

Unread == -1

VARIABLES
  (* Redis: the key callplane:trunk:<id>:active_calls *)
  count,            \* its value, 0 if there is none
  ttl,              \* whether it has an expiry
  (* LiveKit *)
  rooms,            \* the calls whose room exists
  (* RealCallRunner.run and dialSip, for each call *)
  pc,
  candidates,       \* trunks not failed yet
  counts,           \* selectTrunk: the counts read
  untried,          \* selectTrunk: candidates below their limit, not tried yet
  selected,
  acquiredTrunkId,
  isTrunkError,     \* the caught exception is a SipTrunkError
  (* history *)
  holds             \* the trunk whose slot the call has taken and not returned

selectVars == <<candidates, counts, untried>>
dialVars == <<selected, acquiredTrunkId, isTrunkError, holds>>
counterVars == <<count, ttl>>
vars == <<counterVars, rooms, pc, selectVars, dialVars>>

Init ==
  /\ count = [t \in Trunks |-> 0]
  /\ ttl = [t \in Trunks |-> FALSE]
  /\ rooms = {}
  /\ pc = [c \in Calls |-> "idle"]
  /\ candidates = [c \in Calls |-> Trunks]
  /\ counts = [c \in Calls |-> [t \in Trunks |-> Unread]]
  /\ untried = [c \in Calls |-> {}]
  /\ selected = [c \in Calls |-> NoTrunk]
  /\ acquiredTrunkId = [c \in Calls |-> NoTrunk]
  /\ isTrunkError = [c \in Calls |-> FALSE]
  /\ holds = [c \in Calls |-> NoTrunk]

GoTo(c, label) == pc' = [pc EXCEPT ![c] = label]

-----------------------------------------------------------------------------
(* The scripts.  EXPIRE runs only when the counter goes from 0 to 1; SET   *)
(* takes the expiry away, DECR does not.                                   *)

ACQUIRE_SLOT(t) ==
  /\ count[t] < maxConcurrentCalls[t]
  /\ count' = [count EXCEPT ![t] = @ + 1]
  /\ ttl' = [ttl EXCEPT ![t] = @ \/ count[t] = 0]

(* Mutation: a release writes the counter with SET.                        *)
RELEASE_WITH_SET(t) ==
  /\ count' = [count EXCEPT ![t] = IF @ > 0 THEN @ - 1 ELSE 0]
  /\ ttl' = [ttl EXCEPT ![t] = FALSE]

(* Mutation: DECR without the floor.                                       *)
RELEASE_UNFLOORED(t) ==
  /\ count' = [count EXCEPT ![t] = @ - 1]
  /\ ttl' = [ttl EXCEPT ![t] = @ /\ count[t] > 0]

RELEASE_SLOT(t) ==
  /\ count' = [count EXCEPT ![t] = IF @ > 0 THEN @ - 1 ELSE 0]
  /\ ttl' = [ttl EXCEPT ![t] = @ /\ count[t] > 0]

Over(c) == pc[c] \in {"deleteRoom", "done", "crashed"}
Holders(t) == {c \in Calls : holds[c] = t /\ ~Over(c)}

(* The key expires 30 minutes after the counter last left 0.               *)
Expire(t) ==
  /\ ttl[t]
  /\ Holders(t) = {} \/ "expires_in_use" \in Faults
  /\ count' = [count EXCEPT ![t] = 0]
  /\ ttl' = [ttl EXCEPT ![t] = FALSE]
  /\ UNCHANGED <<rooms, pc, selectVars, dialVars>>

-----------------------------------------------------------------------------
(* RealCallRunner.run, and dialSip.                                        *)

CreateRoom(c) ==
  /\ pc[c] = "idle"
  /\ rooms' = rooms \cup {c}
  /\ GoTo(c, "dialing")
  /\ UNCHANGED <<counterVars, selectVars, dialVars>>

(* onTransition: DIALING.                                                  *)
StartDialing(c) ==
  /\ pc[c] = "dialing"
  /\ GoTo(c, "select")
  /\ UNCHANGED <<counterVars, rooms, selectVars, dialVars>>

(* The head of the loop: selectTrunk reads a count for every candidate ... *)
Select(c) ==
  /\ pc[c] = "select"
  /\ GoTo(c, IF candidates[c] = {} THEN "exhausted" ELSE "read")
  /\ counts' = [counts EXCEPT ![c] = [t \in Trunks |-> Unread]]
  /\ UNCHANGED <<counterVars, rooms, candidates, untried, dialVars>>

ReadCount(c, t) ==
  /\ pc[c] = "read"
  /\ t \in candidates[c] /\ counts[c][t] = Unread
  /\ counts' = [counts EXCEPT ![c][t] = count[t]]
  /\ UNCHANGED <<counterVars, rooms, pc, candidates, untried, dialVars>>

(* ... keeps those below their limit ...                                   *)
FilterCandidates(c) ==
  /\ pc[c] = "read"
  /\ \A t \in candidates[c] : counts[c][t] # Unread
  /\ untried' = [untried EXCEPT ![c] =
                   {t \in candidates[c] : counts[c][t] < maxConcurrentCalls[t]}]
  /\ GoTo(c, "acquire")
  /\ UNCHANGED <<counterVars, rooms, candidates, counts, dialVars>>

(* ... and tries to acquire them, the least loaded first and, among equal  *)
(* counts, the one of the highest weight.                                  *)
Before(c, t, u) ==
  \/ counts[c][t] < counts[c][u]
  \/ counts[c][t] = counts[c][u] /\ weight[t] > weight[u]

NextCandidate(c, t) == t \in untried[c] /\ \A u \in untried[c] : ~Before(c, u, t)

(* Mutation: the limit is only checked on the counts that were read.       *)
AcquireUnchecked(c, t) ==
  /\ pc[c] = "acquire" /\ NextCandidate(c, t)
  /\ count' = [count EXCEPT ![t] = @ + 1]
  /\ ttl' = [ttl EXCEPT ![t] = @ \/ count[t] = 0]
  /\ selected' = [selected EXCEPT ![c] = t]
  /\ acquiredTrunkId' = [acquiredTrunkId EXCEPT ![c] = t]
  /\ holds' = [holds EXCEPT ![c] = t]
  /\ GoTo(c, "dial")
  /\ UNCHANGED <<rooms, selectVars, isTrunkError>>

Acquire(c, t) ==
  /\ pc[c] = "acquire" /\ NextCandidate(c, t)
  /\ ACQUIRE_SLOT(t)
  /\ selected' = [selected EXCEPT ![c] = t]
  /\ acquiredTrunkId' = [acquiredTrunkId EXCEPT ![c] = t]
  /\ holds' = [holds EXCEPT ![c] = t]
  /\ GoTo(c, "dial")
  /\ UNCHANGED <<rooms, selectVars, isTrunkError>>

AcquireRefused(c, t) ==
  /\ pc[c] = "acquire" /\ NextCandidate(c, t)
  /\ count[t] >= maxConcurrentCalls[t]
  /\ untried' = [untried EXCEPT ![c] = @ \ {t}]
  /\ UNCHANGED <<counterVars, rooms, pc, candidates, counts, dialVars>>

NoneSelected(c) ==
  /\ pc[c] = "acquire" /\ untried[c] = {}
  /\ GoTo(c, "exhausted")
  /\ UNCHANGED <<counterVars, rooms, selectVars, dialVars>>

(* sipDialer.dialOut: the callee answers, or is busy or does not answer,   *)
(* or the trunk fails.                                                     *)
DialAnswered(c) ==
  /\ pc[c] = "dial"
  /\ GoTo(c, "connect")
  /\ UNCHANGED <<counterVars, rooms, selectVars, dialVars>>

DialDeclined(c) ==
  /\ pc[c] = "dial"
  /\ GoTo(c, "releaseDeclined")
  /\ UNCHANGED <<counterVars, rooms, selectVars, dialVars>>

DialTrunkFailed(c) ==
  /\ pc[c] = "dial"
  /\ isTrunkError' = [isTrunkError EXCEPT ![c] = TRUE]
  /\ GoTo(c, "catch")
  /\ UNCHANGED <<counterVars, rooms, selectVars, selected, acquiredTrunkId, holds>>

(* Mutation: the runner forgets its slot once the call is answered.        *)
ConnectAndForget(c) ==
  /\ pc[c] = "connect"
  /\ acquiredTrunkId' = [acquiredTrunkId EXCEPT ![c] = NoTrunk]
  /\ GoTo(c, "session")
  /\ UNCHANGED <<counterVars, rooms, selectVars, selected, isTrunkError, holds>>

(* onTransition: RINGING, then IN_PROGRESS.                                *)
Connect(c) ==
  /\ pc[c] = "connect"
  /\ GoTo(c, "session")
  /\ UNCHANGED <<counterVars, rooms, selectVars, dialVars>>

(* The voice session returns or throws.                                    *)
EndSession(c) ==
  /\ pc[c] = "session"
  /\ GoTo(c, "finally")
  /\ UNCHANGED <<counterVars, rooms, selectVars, dialVars>>

(* Call c gives trunk t's slot back: its own, if it has one there.         *)
Return(c, t) ==
  /\ RELEASE_SLOT(t)
  /\ holds' = [holds EXCEPT ![c] = IF @ = t THEN NoTrunk ELSE @]

(* A declined call: the slot is released before the outcome is reported.   *)
ReleaseDeclined(c) ==
  /\ pc[c] = "releaseDeclined"
  /\ Return(c, selected[c])
  /\ acquiredTrunkId' = [acquiredTrunkId EXCEPT ![c] = NoTrunk]
  /\ GoTo(c, "declined")
  /\ UNCHANGED <<rooms, selectVars, selected, isTrunkError>>

(* onTransition: BUSY or NO_ANSWER.                                        *)
ReportDeclined(c) ==
  /\ pc[c] = "declined"
  /\ GoTo(c, "finally")
  /\ UNCHANGED <<counterVars, rooms, selectVars, dialVars>>

(* The catch block: the slot is released, and anything but a SipTrunkError *)
(* is thrown on.                                                           *)
CatchRelease(c) ==
  /\ pc[c] = "catch"
  /\ Return(c, selected[c])
  /\ acquiredTrunkId' = [acquiredTrunkId EXCEPT ![c] = NoTrunk]
  /\ GoTo(c, IF isTrunkError[c] THEN "failover" ELSE "finally")
  /\ UNCHANGED <<rooms, selectVars, selected, isTrunkError>>

(* Mutation: the failed trunk stays a candidate.                           *)
FailoverToAny(c) ==
  /\ pc[c] = "failover"
  /\ GoTo(c, "select")
  /\ UNCHANGED <<counterVars, rooms, selectVars, dialVars>>

(* onTransition: failover_triggered.                                       *)
Failover(c) ==
  /\ pc[c] = "failover"
  /\ candidates' = [candidates EXCEPT ![c] = @ \ {selected[c]}]
  /\ GoTo(c, "select")
  /\ UNCHANGED <<counterVars, rooms, counts, untried, dialVars>>

(* onTransition: FAILED, trunk_unavailable.                                *)
ReportExhausted(c) ==
  /\ pc[c] = "exhausted"
  /\ GoTo(c, "finally")
  /\ UNCHANGED <<counterVars, rooms, selectVars, dialVars>>

(* The finally block of run.                                               *)
FinallyRelease(c) ==
  /\ pc[c] = "finally"
  /\ IF acquiredTrunkId[c] # NoTrunk
     THEN Return(c, acquiredTrunkId[c])
     ELSE UNCHANGED <<counterVars, holds>>
  /\ GoTo(c, "deleteRoom")
  /\ UNCHANGED <<rooms, selectVars, selected, acquiredTrunkId, isTrunkError>>

DeleteRoom(c) ==
  /\ pc[c] = "deleteRoom"
  /\ rooms' = rooms \ {c}
  /\ GoTo(c, "done")
  /\ UNCHANGED <<counterVars, selectVars, dialVars>>

-----------------------------------------------------------------------------
(* What goes wrong.                                                        *)

(* A rejected onTransition: inside the try block of dialSip it is caught,  *)
(* elsewhere it leaves dialSip.                                            *)
TransitionError(c) ==
  /\ \/ /\ "transition_error" \in Faults
        /\ pc[c] \in {"dialing", "failover", "exhausted"}
        /\ GoTo(c, "finally")
        /\ UNCHANGED isTrunkError
     \/ /\ \/ "transition_error" \in Faults /\ pc[c] = "connect"
           \/ "declined_error" \in Faults /\ pc[c] = "declined"
        /\ GoTo(c, "catch")
        /\ isTrunkError' = [isTrunkError EXCEPT ![c] = FALSE]
  /\ UNCHANGED <<counterVars, rooms, selectVars, selected, acquiredTrunkId, holds>>

(* Mutation: an error of the final release is not caught.                  *)
AfterRedisErrorThrown(c) ==
  /\ \/ pc[c] \in {"read", "acquire", "catch"} /\ GoTo(c, "finally")
     \/ pc[c] = "releaseDeclined" /\ GoTo(c, "catch")
     \/ pc[c] = "finally" /\ acquiredTrunkId[c] # NoTrunk /\ GoTo(c, "done")
  /\ isTrunkError' = [isTrunkError EXCEPT ![c] = FALSE]
  /\ UNCHANGED <<rooms, selectVars, selected, acquiredTrunkId>>

(* Where a rejected Redis command takes a call.                            *)
AfterRedisError(c) ==
  /\ \/ pc[c] \in {"read", "acquire", "catch"} /\ GoTo(c, "finally")
     \/ pc[c] = "releaseDeclined" /\ GoTo(c, "catch")
     \/ pc[c] = "finally" /\ acquiredTrunkId[c] # NoTrunk /\ GoTo(c, "deleteRoom")
  /\ isTrunkError' = [isTrunkError EXCEPT ![c] = FALSE]
  /\ UNCHANGED <<rooms, selectVars, selected, acquiredTrunkId>>

RedisError(c) ==
  /\ "redis_error" \in Faults
  /\ pc[c] = "acquire" => untried[c] # {}
  /\ AfterRedisError(c)
  /\ UNCHANGED <<counterVars, holds>>

(* The script ran, but its answer is lost.                                 *)
ScriptAckLost(c) ==
  /\ "ack_lost" \in Faults
  /\ \/ /\ pc[c] = "acquire"
        /\ \E t \in Trunks : NextCandidate(c, t) /\ ACQUIRE_SLOT(t)
        /\ UNCHANGED holds
     \/ pc[c] \in {"catch", "releaseDeclined"} /\ Return(c, selected[c])
     \/ pc[c] = "finally" /\ acquiredTrunkId[c] # NoTrunk /\ Return(c, acquiredTrunkId[c])
  /\ AfterRedisError(c)

(* The worker dies, and the call with it; its slot is never released.      *)
Crash(c) ==
  /\ pc[c] \notin {"idle", "done", "crashed"}
  /\ Cardinality({d \in Calls : pc[d] = "crashed"}) < MaxCrashes
  /\ GoTo(c, "crashed")
  /\ UNCHANGED <<counterVars, rooms, selectVars, dialVars>>

-----------------------------------------------------------------------------
Progress(c) ==
  \/ StartDialing(c) \/ Select(c) \/ FilterCandidates(c) \/ NoneSelected(c)
  \/ \E t \in Trunks : ReadCount(c, t) \/ Acquire(c, t) \/ AcquireRefused(c, t)
  \/ DialAnswered(c) \/ DialDeclined(c) \/ DialTrunkFailed(c)
  \/ Connect(c) \/ EndSession(c) \/ ReleaseDeclined(c) \/ ReportDeclined(c)
  \/ CatchRelease(c) \/ Failover(c) \/ ReportExhausted(c)
  \/ FinallyRelease(c) \/ DeleteRoom(c)

Next ==
  \/ \E c \in Calls :
       CreateRoom(c) \/ Progress(c) \/ TransitionError(c) \/ RedisError(c)
       \/ ScriptAckLost(c) \/ Crash(c)
  \/ \E t \in Trunks : Expire(t)

(* A call that has begun goes on: dials and conversations end.  Redis      *)
(* expires a key whose time has come.                                      *)
Fairness ==
  /\ \A c \in Calls : WF_vars(Progress(c))
  /\ \A t \in Trunks : WF_vars(Expire(t))

Spec == Init /\ [][Next]_vars /\ Fairness

-----------------------------------------------------------------------------
(* Properties.                                                             *)

Labels ==
  {"idle", "dialing", "select", "read", "acquire", "dial", "connect", "session",
   "releaseDeclined", "declined", "catch", "failover", "exhausted", "finally",
   "deleteRoom", "done", "crashed"}

(* The type invariant.                                                     *)
TypeOK ==
  /\ count \in [Trunks -> Nat]
  /\ ttl \in [Trunks -> BOOLEAN]
  /\ rooms \subseteq Calls
  /\ pc \in [Calls -> Labels]
  /\ candidates \in [Calls -> SUBSET Trunks]
  /\ counts \in [Calls -> [Trunks -> Nat \cup {Unread}]]
  /\ untried \in [Calls -> SUBSET Trunks]
  /\ selected \in [Calls -> Trunks \cup {NoTrunk}]
  /\ acquiredTrunkId \in [Calls -> Trunks \cup {NoTrunk}]
  /\ isTrunkError \in [Calls -> BOOLEAN]
  /\ holds \in [Calls -> Trunks \cup {NoTrunk}]

(* No trunk carries more calls than its limit, although calls choose on    *)
(* counts that are stale, crash with their slot, and release it in one of  *)
(* three places.                                                           *)
CapacityRespected ==
  \A t \in Trunks : Cardinality(Holders(t)) <= maxConcurrentCalls[t]

(* The safety net: a counter above 0 always has an expiry, so that slots   *)
(* leaked by a crash come back, whatever else has gone wrong.              *)
CountsExpire == \A t \in Trunks : count[t] > 0 => ttl[t]

(* Until a worker dies the counter is exact: no path through the runner    *)
(* leaks a slot or returns one twice.                                      *)
CountIsExact ==
  (\A c \in Calls : pc[c] # "crashed") =>
    \A t \in Trunks : count[t] = Cardinality(Holders(t))

(* Every run ends by asking LiveKit to delete the call's room, whichever   *)
(* of its paths it has taken.                                              *)
RoomsAreDeleted == \A c \in Calls : pc[c] = "done" => c \notin rooms

(* Failing over terminates: a trunk is dialled once per call.              *)
EveryDialEnds == \A c \in Calls : (pc[c] = "dialing") ~> (pc[c] \in {"done", "crashed"})

(* Once the calls are over, all of the trunks' capacity is back.           *)
CapacityComesBack ==
  (\A c \in Calls : pc[c] \in {"done", "crashed"}) ~> (\A t \in Trunks : count[t] = 0)

-----------------------------------------------------------------------------
(* What the code's own words say and the code does not keep: TLC finds     *)
(* each of these violated (README, "What the model shows not to hold").    *)

(* trunk-selector.ts:12, "null if none have capacity": when there are as   *)
(* many slots as calls, a slot is free for each call at any time, and a    *)
(* call whose trunks all work is not told trunk_unavailable.               *)
SpareSlotIsFound ==
  \A c \in Calls : pc[c] = "exhausted" => candidates[c] # Trunks

-----------------------------------------------------------------------------
(* The inductive invariant of the proofs.                                  *)

(* What the runner remembers to have acquired is what it holds.            *)
CallOK(c) ==
  /\ ~Over(c) => acquiredTrunkId[c] = holds[c]
  /\ pc[c] \in {"dial", "connect", "releaseDeclined", "catch"} =>
       selected[c] = holds[c] /\ holds[c] \in Trunks
  /\ pc[c] \in {"idle", "dialing", "select", "read", "acquire", "declined", "failover",
                "exhausted"} => holds[c] = NoTrunk

CountsCover ==
  \A t \in Trunks : /\ Cardinality(Holders(t)) <= count[t]
                    /\ count[t] <= maxConcurrentCalls[t]

(* The faults under which the limits hold: a slot is not returned twice,   *)
(* and a counter is not forgotten while it is in use.                      *)
SlotsReturnedOnce == {"declined_error", "ack_lost", "expires_in_use"} \cap Faults = {}

SlotsInv ==
  /\ TypeOK
  /\ \A c \in Calls : CallOK(c)
  /\ CountsCover
=============================================================================
