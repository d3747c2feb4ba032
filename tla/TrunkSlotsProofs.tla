-------------------------- MODULE TrunkSlotsProofs -------------------------
(***************************************************************************)
(* Theorems about trunk slots, for any calls, trunks, limits and weights.  *)
(***************************************************************************)
EXTENDS TrunkSlots, FiniteSetTheorems, TLAPS

LEMMA InitType == Init => TypeOK
  BY DEF Init, TypeOK, Labels

LEMMA GoToType ==
  ASSUME TypeOK, NEW c, NEW label \in Labels, GoTo(c, label)
  PROVE  pc' \in [Calls -> Labels]
  BY DEF TypeOK, GoTo

LEMMA ExceptBoolean ==
  ASSUME NEW f \in [Trunks -> BOOLEAN], NEW t, NEW P
  PROVE  /\ [f EXCEPT ![t] = f[t] /\ P] \in [Trunks -> BOOLEAN]
         /\ [f EXCEPT ![t] = f[t] \/ P] \in [Trunks -> BOOLEAN]
<1>1. (f[t] /\ P) \in BOOLEAN /\ (f[t] \/ P) \in BOOLEAN
  OBVIOUS
<1> QED BY <1>1

LEMMA ExceptNatural ==
  ASSUME NEW f \in [Trunks -> Nat], NEW t
  PROVE  /\ [f EXCEPT ![t] = f[t] + 1] \in [Trunks -> Nat]
         /\ [f EXCEPT ![t] = IF f[t] > 0 THEN f[t] - 1 ELSE 0] \in [Trunks -> Nat]
<1>1. CASE t \in Trunks
  <2>1. f[t] \in Nat /\ f[t] + 1 \in Nat /\ (IF f[t] > 0 THEN f[t] - 1 ELSE 0) \in Nat
    BY <1>1
  <2> QED BY <1>1, <2>1
<1>2. CASE t \notin Trunks
  BY <1>2
<1> QED BY <1>1, <1>2

LEMMA ReleaseType ==
  ASSUME TypeOK, NEW t, RELEASE_SLOT(t)
  PROVE  count' \in [Trunks -> Nat] /\ ttl' \in [Trunks -> BOOLEAN]
<1>1. count \in [Trunks -> Nat] /\ ttl \in [Trunks -> BOOLEAN]
  BY DEF TypeOK
<1>2. count' \in [Trunks -> Nat]
  BY <1>1, ExceptNatural DEF RELEASE_SLOT
<1>3. ttl' \in [Trunks -> BOOLEAN]
  BY <1>1, ExceptBoolean DEF RELEASE_SLOT
<1> QED BY <1>2, <1>3

LEMMA AcquireType ==
  ASSUME TypeOK, NEW t, ACQUIRE_SLOT(t)
  PROVE  count' \in [Trunks -> Nat] /\ ttl' \in [Trunks -> BOOLEAN]
<1>1. count \in [Trunks -> Nat] /\ ttl \in [Trunks -> BOOLEAN]
  BY DEF TypeOK
<1>2. count' \in [Trunks -> Nat]
  BY <1>1, ExceptNatural DEF ACQUIRE_SLOT
<1>3. ttl' \in [Trunks -> BOOLEAN]
  BY <1>1, ExceptBoolean DEF ACQUIRE_SLOT
<1> QED BY <1>2, <1>3

LEMMA ReturnType ==
  ASSUME TypeOK, NEW c, NEW t, Return(c, t)
  PROVE  /\ count' \in [Trunks -> Nat] /\ ttl' \in [Trunks -> BOOLEAN]
         /\ holds' \in [Calls -> Trunks \cup {NoTrunk}]
<1>1. holds' \in [Calls -> Trunks \cup {NoTrunk}]
  BY DEF TypeOK, Return
<1> QED BY <1>1, ReleaseType DEF Return

LEMMA ForgetType ==
  ASSUME TypeOK, NEW c, NEW t \in Trunks \cup {NoTrunk}
  PROVE  /\ [acquiredTrunkId EXCEPT ![c] = t] \in [Calls -> Trunks \cup {NoTrunk}]
         /\ [selected EXCEPT ![c] = t] \in [Calls -> Trunks \cup {NoTrunk}]
         /\ [holds EXCEPT ![c] = t] \in [Calls -> Trunks \cup {NoTrunk}]
  BY DEF TypeOK

LEMMA StepType ==
  ASSUME TypeOK, [Next]_vars
  PROVE  TypeOK'
<1> USE DEF counterVars, selectVars, dialVars
<1>1. ASSUME NEW c \in Calls, CreateRoom(c) PROVE TypeOK'
  <2>1. pc' \in [Calls -> Labels]
    BY <1>1, GoToType DEF CreateRoom, Labels
  <2> QED BY <1>1, <2>1 DEF CreateRoom, TypeOK
<1>2. ASSUME NEW c \in Calls, \/ StartDialing(c) \/ NoneSelected(c) \/ DialAnswered(c)
                              \/ DialDeclined(c) \/ Connect(c) \/ EndSession(c)
                              \/ ReportDeclined(c) \/ ReportExhausted(c) \/ Crash(c)
      PROVE  TypeOK'
  <2>1. pc' \in [Calls -> Labels]
    BY <1>2, GoToType DEF StartDialing, NoneSelected, DialAnswered, DialDeclined, Connect,
       EndSession, ReportDeclined, ReportExhausted, Crash, Labels
  <2>2. UNCHANGED <<counterVars, rooms, selectVars, dialVars>>
    BY <1>2 DEF StartDialing, NoneSelected, DialAnswered, DialDeclined, Connect,
       EndSession, ReportDeclined, ReportExhausted, Crash
  <2> QED BY <2>1, <2>2 DEF TypeOK
<1>3. ASSUME NEW c \in Calls, Select(c) PROVE TypeOK'
  <2>1. pc' \in [Calls -> Labels]
    BY <1>3, GoToType DEF Select, Labels
  <2>2. counts' \in [Calls -> [Trunks -> Nat \cup {Unread}]]
    BY <1>3 DEF Select, TypeOK, Unread
  <2> QED BY <1>3, <2>1, <2>2 DEF Select, TypeOK
<1>4. ASSUME NEW c \in Calls, NEW t \in Trunks, ReadCount(c, t) PROVE TypeOK'
  BY <1>4 DEF ReadCount, TypeOK
<1>5. ASSUME NEW c \in Calls, FilterCandidates(c) PROVE TypeOK'
  <2>1. pc' \in [Calls -> Labels]
    BY <1>5, GoToType DEF FilterCandidates, Labels
  <2>2. untried' \in [Calls -> SUBSET Trunks]
    <3>1. {t \in candidates[c] : counts[c][t] < maxConcurrentCalls[t]} \in SUBSET Trunks
      BY DEF TypeOK
    <3> QED BY <1>5, <3>1 DEF FilterCandidates, TypeOK
  <2> QED BY <1>5, <2>1, <2>2 DEF FilterCandidates, TypeOK
<1>6. ASSUME NEW c \in Calls, NEW t \in Trunks, Acquire(c, t) PROVE TypeOK'
  <2>1. pc' \in [Calls -> Labels]
    BY <1>6, GoToType DEF Acquire, Labels
  <2>2. count' \in [Trunks -> Nat] /\ ttl' \in [Trunks -> BOOLEAN]
    BY <1>6, AcquireType DEF Acquire
  <2>3. /\ acquiredTrunkId' \in [Calls -> Trunks \cup {NoTrunk}]
        /\ selected' \in [Calls -> Trunks \cup {NoTrunk}]
        /\ holds' \in [Calls -> Trunks \cup {NoTrunk}]
    BY <1>6, ForgetType DEF Acquire
  <2> QED BY <1>6, <2>1, <2>2, <2>3 DEF Acquire, TypeOK
<1>7. ASSUME NEW c \in Calls, NEW t \in Trunks, AcquireRefused(c, t) PROVE TypeOK'
  BY <1>7 DEF AcquireRefused, TypeOK
<1>8. ASSUME NEW c \in Calls, DialTrunkFailed(c) PROVE TypeOK'
  <2>1. pc' \in [Calls -> Labels]
    BY <1>8, GoToType DEF DialTrunkFailed, Labels
  <2> QED BY <1>8, <2>1 DEF DialTrunkFailed, TypeOK
<1>9. ASSUME NEW c \in Calls, Failover(c) PROVE TypeOK'
  <2>1. pc' \in [Calls -> Labels]
    BY <1>9, GoToType DEF Failover, Labels
  <2> QED BY <1>9, <2>1 DEF Failover, TypeOK
<1>10. ASSUME NEW c \in Calls, ReleaseDeclined(c) \/ CatchRelease(c) PROVE TypeOK'
  <2>1. pc' \in [Calls -> Labels]
    BY <1>10, GoToType DEF ReleaseDeclined, CatchRelease, Labels
  <2>2. /\ count' \in [Trunks -> Nat] /\ ttl' \in [Trunks -> BOOLEAN]
        /\ holds' \in [Calls -> Trunks \cup {NoTrunk}]
    BY <1>10, ReturnType DEF ReleaseDeclined, CatchRelease
  <2>3. acquiredTrunkId' \in [Calls -> Trunks \cup {NoTrunk}]
    BY <1>10, ForgetType DEF ReleaseDeclined, CatchRelease
  <2>4. UNCHANGED <<rooms, selectVars, selected, isTrunkError>>
    BY <1>10 DEF ReleaseDeclined, CatchRelease
  <2> QED BY <2>1, <2>2, <2>3, <2>4 DEF TypeOK
<1>11. ASSUME NEW c \in Calls, FinallyRelease(c) PROVE TypeOK'
  <2>1. pc' \in [Calls -> Labels]
    BY <1>11, GoToType DEF FinallyRelease, Labels
  <2>2. /\ count' \in [Trunks -> Nat] /\ ttl' \in [Trunks -> BOOLEAN]
        /\ holds' \in [Calls -> Trunks \cup {NoTrunk}]
    <3>1. CASE acquiredTrunkId[c] # NoTrunk
      BY <1>11, <3>1, ReturnType DEF FinallyRelease
    <3>2. CASE acquiredTrunkId[c] = NoTrunk
      BY <1>11, <3>2 DEF FinallyRelease, TypeOK
    <3> QED BY <3>1, <3>2
  <2> QED BY <1>11, <2>1, <2>2 DEF FinallyRelease, TypeOK
<1>12. ASSUME NEW c \in Calls, DeleteRoom(c) PROVE TypeOK'
  <2>1. pc' \in [Calls -> Labels]
    BY <1>12, GoToType DEF DeleteRoom, Labels
  <2> QED BY <1>12, <2>1 DEF DeleteRoom, TypeOK
<1>13. ASSUME NEW c \in Calls, TransitionError(c) PROVE TypeOK'
  <2>1. pc' \in [Calls -> Labels]
    BY <1>13, GoToType DEF TransitionError, Labels
  <2>2. isTrunkError' \in [Calls -> BOOLEAN]
    BY <1>13 DEF TransitionError, TypeOK
  <2> QED BY <1>13, <2>1, <2>2 DEF TransitionError, TypeOK
<1>14. ASSUME NEW c \in Calls, AfterRedisError(c)
       PROVE  pc' \in [Calls -> Labels] /\ isTrunkError' \in [Calls -> BOOLEAN]
  <2>1. pc' \in [Calls -> Labels]
    BY <1>14, GoToType DEF AfterRedisError, Labels
  <2>2. isTrunkError' \in [Calls -> BOOLEAN]
    BY <1>14 DEF AfterRedisError, TypeOK
  <2> QED BY <2>1, <2>2
<1>15. ASSUME NEW c \in Calls, RedisError(c) PROVE TypeOK'
  BY <1>14, <1>15 DEF RedisError, AfterRedisError, TypeOK
<1>16. ASSUME NEW c \in Calls, ScriptAckLost(c) PROVE TypeOK'
  <2>1. /\ count' \in [Trunks -> Nat] /\ ttl' \in [Trunks -> BOOLEAN]
        /\ holds' \in [Calls -> Trunks \cup {NoTrunk}]
    <3>1. CASE \E t \in Trunks : ACQUIRE_SLOT(t) /\ UNCHANGED holds
      BY <3>1, AcquireType DEF TypeOK
    <3>2. CASE Return(c, selected[c]) \/ Return(c, acquiredTrunkId[c])
      BY <3>2, ReturnType
    <3> QED BY <1>16, <3>1, <3>2 DEF ScriptAckLost
  <2>2. AfterRedisError(c)
    BY <1>16 DEF ScriptAckLost
  <2> QED BY <1>14, <2>1, <2>2 DEF AfterRedisError, TypeOK
<1>17. ASSUME NEW t \in Trunks, Expire(t) PROVE TypeOK'
  BY <1>17 DEF Expire, TypeOK
<1>18. ASSUME UNCHANGED vars PROVE TypeOK'
  BY <1>18 DEF vars, TypeOK
<1> QED BY <1>1, <1>2, <1>3, <1>4, <1>5, <1>6, <1>7, <1>8, <1>9, <1>10, <1>11, <1>12, <1>13,
           <1>15, <1>16, <1>17, <1>18 DEF Next, Progress

(* Every variable keeps its type: TypeOK of TrunkSlots, whatever fails.    *)
THEOREM TypeCorrect == Spec => []TypeOK
  BY InitType, StepType, PTL DEF Spec

-----------------------------------------------------------------------------
(* The expiry of the counters.                                             *)

(* A script that acquires or releases a slot keeps it.                     *)
LEMMA AcquireKeepsExpiry ==
  ASSUME TypeOK, CountsExpire, NEW t \in Trunks, ACQUIRE_SLOT(t)
  PROVE  CountsExpire'
<1> SUFFICES ASSUME NEW u \in Trunks, count'[u] > 0 PROVE ttl'[u]
  BY DEF CountsExpire
<1> count[u] \in Nat /\ count[t] \in Nat
  BY DEF TypeOK
<1>1. CASE u = t
  <2>1. ttl'[u] = (ttl[u] \/ count[u] = 0)
    BY <1>1 DEF TypeOK, ACQUIRE_SLOT
  <2>2. CASE count[u] = 0
    BY <2>1, <2>2
  <2>3. CASE count[u] > 0
    BY <2>1, <2>3 DEF CountsExpire
  <2> QED BY <2>2, <2>3
<1>2. CASE u # t
  BY <1>2 DEF TypeOK, CountsExpire, ACQUIRE_SLOT
<1> QED BY <1>1, <1>2

LEMMA ReleaseKeepsExpiry ==
  ASSUME TypeOK, CountsExpire, NEW t, RELEASE_SLOT(t)
  PROVE  CountsExpire'
<1> SUFFICES ASSUME NEW u \in Trunks, count'[u] > 0 PROVE ttl'[u]
  BY DEF CountsExpire
<1> count[u] \in Nat /\ ttl[u] \in BOOLEAN
  BY DEF TypeOK
<1>1. CASE u = t
  <2>1. count'[u] = IF count[u] > 0 THEN count[u] - 1 ELSE 0
    BY <1>1 DEF TypeOK, RELEASE_SLOT
  <2>2. count[u] > 0
    BY <2>1
  <2>3. ttl'[u] = (ttl[u] /\ count[u] > 0)
    BY <1>1 DEF TypeOK, RELEASE_SLOT
  <2> QED BY <2>2, <2>3 DEF CountsExpire
<1>2. CASE u # t
  BY <1>2 DEF TypeOK, CountsExpire, RELEASE_SLOT
<1> QED BY <1>1, <1>2

LEMMA StepExpire ==
  ASSUME TypeOK, CountsExpire, [Next]_vars
  PROVE  CountsExpire'
<1>1. CASE UNCHANGED counterVars
  BY <1>1 DEF CountsExpire, counterVars
<1>2. ASSUME NEW c \in Calls, NEW t \in Trunks, Acquire(c, t) PROVE CountsExpire'
  BY <1>2, AcquireKeepsExpiry DEF Acquire
<1>3. ASSUME NEW c \in Calls, ReleaseDeclined(c) \/ CatchRelease(c) \/ FinallyRelease(c)
      PROVE  CountsExpire'
  BY <1>1, <1>3, ReleaseKeepsExpiry DEF ReleaseDeclined, CatchRelease, FinallyRelease, Return
<1>4. ASSUME NEW c \in Calls, ScriptAckLost(c) PROVE CountsExpire'
  BY <1>4, AcquireKeepsExpiry, ReleaseKeepsExpiry DEF ScriptAckLost, Return
<1>5. ASSUME NEW t \in Trunks, Expire(t) PROVE CountsExpire'
  BY <1>5 DEF Expire, TypeOK, CountsExpire
<1> QED BY <1>1, <1>2, <1>3, <1>4, <1>5
        DEF Next, Progress, vars, CreateRoom, StartDialing, Select, ReadCount, FilterCandidates,
            AcquireRefused, NoneSelected, DialAnswered, DialDeclined, DialTrunkFailed, Connect,
            EndSession, ReportDeclined, Failover, ReportExhausted, DeleteRoom, TransitionError,
            RedisError, Crash

(* A counter above 0 has an expiry: a leaked slot always comes back,       *)
(* whatever crashes and lost answers have led to it.                       *)
THEOREM CountersExpire == Spec => []CountsExpire
<1>1. Init => CountsExpire
  BY DEF Init, CountsExpire
<1> QED BY <1>1, InitType, StepType, StepExpire, PTL DEF Spec

-----------------------------------------------------------------------------
(* The limits of the trunks.                                               *)

LEMMA HoldersFinite ==
  ASSUME NEW t
  PROVE  IsFiniteSet(Holders(t)) /\ Cardinality(Holders(t)) \in Nat
  BY CallsAssumption, FS_Subset, FS_CardinalityType DEF Holders

(* A call that only moves on, its slot and what it remembers unchanged.    *)
LEMMA MoveKeepsInv ==
  ASSUME SlotsInv, TypeOK', NEW c \in Calls,
         UNCHANGED <<count, selected, acquiredTrunkId, holds>>,
         \A d \in Calls : d # c => pc'[d] = pc[d],
         Over(c) => Over(c)', CallOK(c)'
  PROVE  SlotsInv'
<1>1. ASSUME NEW d \in Calls PROVE CallOK(d)'
  BY <1>1 DEF SlotsInv, CallOK, Over
<1>2. ASSUME NEW t \in Trunks PROVE Cardinality(Holders(t)') <= Cardinality(Holders(t))
  <2>1. Holders(t)' \subseteq Holders(t)
    BY DEF Holders, Over
  <2> QED BY <2>1, HoldersFinite, FS_Subset
<1>3. CountsCover'
  <2> SUFFICES ASSUME NEW t \in Trunks
               PROVE  /\ Cardinality(Holders(t)') <= count[t]
                      /\ count[t] <= maxConcurrentCalls[t]
    BY DEF CountsCover
  <2>1. Cardinality(Holders(t)) <= count[t] /\ count[t] <= maxConcurrentCalls[t]
    BY DEF SlotsInv, CountsCover
  <2>2. Cardinality(Holders(t)') \in Nat
    <3>1. Holders(t)' \subseteq Calls
      BY DEF Holders
    <3> QED BY <3>1, CallsAssumption, FS_Subset, FS_CardinalityType
  <2>3. count[t] \in Nat
    BY DEF SlotsInv, TypeOK
  <2> QED BY <1>2, <2>1, <2>2, <2>3, HoldersFinite
<1> QED BY <1>1, <1>3 DEF SlotsInv

LEMMA MovingSteps ==
  ASSUME SlotsInv, SlotsReturnedOnce, TypeOK', NEW c \in Calls,
         \/ CreateRoom(c) \/ StartDialing(c) \/ Select(c) \/ FilterCandidates(c)
         \/ NoneSelected(c) \/ DialAnswered(c) \/ DialDeclined(c) \/ DialTrunkFailed(c)
         \/ Connect(c) \/ EndSession(c) \/ ReportDeclined(c) \/ Failover(c)
         \/ ReportExhausted(c) \/ DeleteRoom(c) \/ TransitionError(c) \/ RedisError(c)
         \/ Crash(c)
  PROVE  SlotsInv'
<1> pc \in [Calls -> Labels]
  BY DEF SlotsInv, TypeOK
<1>1. UNCHANGED <<count, selected, acquiredTrunkId, holds>>
  BY DEF CreateRoom, StartDialing, Select, FilterCandidates, NoneSelected, DialAnswered,
     DialDeclined, DialTrunkFailed, Connect, EndSession, ReportDeclined, Failover,
     ReportExhausted, DeleteRoom, TransitionError, RedisError, AfterRedisError, Crash,
     counterVars, dialVars
<1>2. \A d \in Calls : d # c => pc'[d] = pc[d]
  BY DEF GoTo, CreateRoom, StartDialing, Select, FilterCandidates, NoneSelected, DialAnswered,
     DialDeclined, DialTrunkFailed, Connect, EndSession, ReportDeclined, Failover,
     ReportExhausted, DeleteRoom, TransitionError, RedisError, AfterRedisError, Crash
<1>3. (Over(c) => Over(c)') /\ CallOK(c)'
  <2>0. CallOK(c)
    BY DEF SlotsInv
  <2>1. CASE \/ CreateRoom(c) \/ StartDialing(c) \/ Select(c) \/ FilterCandidates(c)
             \/ NoneSelected(c)
    BY <1>1, <2>0, <2>1 DEF GoTo, CreateRoom, StartDialing, Select, FilterCandidates,
       NoneSelected, CallOK, Over
  <2>2. CASE DialAnswered(c) \/ DialDeclined(c) \/ DialTrunkFailed(c) \/ Connect(c)
    BY <1>1, <2>0, <2>2 DEF GoTo, DialAnswered, DialDeclined, DialTrunkFailed, Connect,
       CallOK, Over
  <2>3. CASE EndSession(c) \/ ReportDeclined(c) \/ Failover(c) \/ ReportExhausted(c)
    BY <1>1, <2>0, <2>3 DEF GoTo, EndSession, ReportDeclined, Failover, ReportExhausted,
       CallOK, Over
  <2>4. CASE DeleteRoom(c) \/ Crash(c)
    BY <1>1, <2>0, <2>4 DEF GoTo, DeleteRoom, Crash, CallOK, Over
  <2>5. CASE TransitionError(c)
    BY <1>1, <2>0, <2>5 DEF GoTo, TransitionError, SlotsReturnedOnce, CallOK, Over
  <2>6. CASE RedisError(c)
    BY <1>1, <2>0, <2>6 DEF GoTo, RedisError, AfterRedisError, CallOK, Over
  <2> QED BY <2>1, <2>2, <2>3, <2>4, <2>5, <2>6
<1> QED BY <1>1, <1>2, <1>3, MoveKeepsInv

(* A call takes a slot that is free at that moment.                        *)
LEMMA AcquireKeepsInv ==
  ASSUME SlotsInv, TypeOK', NEW c \in Calls, NEW t \in Trunks, Acquire(c, t)
  PROVE  SlotsInv'
<1> USE NoTrunkAssumption
<1> /\ count \in [Trunks -> Nat] /\ pc \in [Calls -> Labels]
    /\ holds \in [Calls -> Trunks \cup {NoTrunk}]
    /\ selected \in [Calls -> Trunks \cup {NoTrunk}]
    /\ acquiredTrunkId \in [Calls -> Trunks \cup {NoTrunk}]
  BY DEF SlotsInv, TypeOK
<1>1. holds[c] = NoTrunk /\ pc[c] = "acquire"
  BY DEF SlotsInv, CallOK, Acquire
<1>2. /\ pc' = [pc EXCEPT ![c] = "dial"] /\ holds' = [holds EXCEPT ![c] = t]
      /\ selected' = [selected EXCEPT ![c] = t]
      /\ acquiredTrunkId' = [acquiredTrunkId EXCEPT ![c] = t]
  BY DEF Acquire, GoTo
<1>3. ASSUME NEW d \in Calls PROVE CallOK(d)'
  <2>1. CASE d = c
    BY <1>2, <2>1 DEF CallOK, Over
  <2>2. CASE d # c
    BY <1>2, <2>2 DEF SlotsInv, CallOK, Over
  <2> QED BY <2>1, <2>2
<1>4. CountsCover'
  <2> SUFFICES ASSUME NEW u \in Trunks
               PROVE  /\ Cardinality(Holders(u)') <= count'[u]
                      /\ count'[u] <= maxConcurrentCalls[u]
    BY DEF CountsCover
  <2>1. Cardinality(Holders(u)) <= count[u] /\ count[u] <= maxConcurrentCalls[u]
    BY DEF SlotsInv, CountsCover
  <2>2. CASE u = t
    <3>1. Holders(u)' = Holders(u) \cup {c} /\ c \notin Holders(u)
      BY <1>1, <1>2, <2>2 DEF Holders, Over
    <3>2. Cardinality(Holders(u)') = Cardinality(Holders(u)) + 1
      BY <3>1, HoldersFinite, FS_AddElement
    <3>3. count'[u] = count[u] + 1 /\ count[u] < maxConcurrentCalls[u]
      BY <2>2 DEF Acquire, ACQUIRE_SLOT
    <3> QED BY <2>1, <3>2, <3>3, HoldersFinite, MaxConcurrentAssumption
  <2>3. CASE u # t
    <3>1. Holders(u)' = Holders(u)
      BY <1>1, <1>2, <2>3 DEF Holders, Over
    <3>2. count'[u] = count[u]
      BY <2>3 DEF Acquire, ACQUIRE_SLOT
    <3> QED BY <2>1, <3>1, <3>2
  <2> QED BY <2>2, <2>3
<1> QED BY <1>3, <1>4 DEF SlotsInv

(* A call gives back the slot it has.                                      *)
LEMMA ReturnKeepsInv ==
  ASSUME SlotsInv, TypeOK', NEW c \in Calls, NEW t \in Trunks,
         ~Over(c), holds[c] = t, Return(c, t),
         \A d \in Calls : d # c => /\ pc'[d] = pc[d]
                                   /\ acquiredTrunkId'[d] = acquiredTrunkId[d],
         UNCHANGED selected, CallOK(c)'
  PROVE  SlotsInv'
<1> USE NoTrunkAssumption
<1> count \in [Trunks -> Nat] /\ holds \in [Calls -> Trunks \cup {NoTrunk}]
  BY DEF SlotsInv, TypeOK
<1>1. holds' = [holds EXCEPT ![c] = NoTrunk]
  BY DEF Return
<1>2. count' = [count EXCEPT ![t] = IF @ > 0 THEN @ - 1 ELSE 0]
  BY DEF Return, RELEASE_SLOT
<1>3. ASSUME NEW d \in Calls PROVE CallOK(d)'
  <2>1. CASE d = c
    BY <2>1
  <2>2. CASE d # c
    BY <1>1, <2>2 DEF SlotsInv, CallOK, Over
  <2> QED BY <2>1, <2>2
<1>4. CountsCover'
  <2> SUFFICES ASSUME NEW u \in Trunks
               PROVE  /\ Cardinality(Holders(u)') <= count'[u]
                      /\ count'[u] <= maxConcurrentCalls[u]
    BY DEF CountsCover
  <2>1. Cardinality(Holders(u)) <= count[u] /\ count[u] <= maxConcurrentCalls[u]
    BY DEF SlotsInv, CountsCover
  <2>2. CASE u = t
    <3>1. Holders(u)' = Holders(u) \ {c} /\ c \in Holders(u)
      BY <1>1, <2>2 DEF Holders, Over
    <3>2. Cardinality(Holders(u)') = Cardinality(Holders(u)) - 1
      BY <3>1, HoldersFinite, FS_RemoveElement
    <3>3. Cardinality(Holders(u)) >= 1
      BY <3>1, HoldersFinite, FS_EmptySet
    <3>4. count'[u] = count[u] - 1
      BY <1>2, <2>1, <2>2, <3>3, HoldersFinite
    <3> QED BY <2>1, <3>2, <3>4, HoldersFinite, MaxConcurrentAssumption
  <2>3. CASE u # t
    <3>1. Holders(u)' = Holders(u)
      BY <1>1, <2>3 DEF Holders, Over
    <3>2. count'[u] = count[u]
      BY <1>2, <2>3
    <3> QED BY <2>1, <3>1, <3>2
  <2> QED BY <2>2, <2>3
<1> QED BY <1>3, <1>4 DEF SlotsInv

LEMMA ReleasingSteps ==
  ASSUME SlotsInv, TypeOK', NEW c \in Calls,
         ReleaseDeclined(c) \/ CatchRelease(c) \/ FinallyRelease(c)
  PROVE  SlotsInv'
<1> USE NoTrunkAssumption
<1> /\ pc \in [Calls -> Labels]
    /\ holds \in [Calls -> Trunks \cup {NoTrunk}]
    /\ acquiredTrunkId \in [Calls -> Trunks \cup {NoTrunk}]
  BY DEF SlotsInv, TypeOK
<1>0. CallOK(c)
  BY DEF SlotsInv
<1>1. CASE ReleaseDeclined(c) \/ CatchRelease(c)
  <2>1. /\ ~Over(c) /\ holds[c] \in Trunks /\ Return(c, holds[c])
        /\ UNCHANGED selected
    BY <1>0, <1>1 DEF ReleaseDeclined, CatchRelease, CallOK, Over
  <2>2. \A d \in Calls : d # c => /\ pc'[d] = pc[d]
                                  /\ acquiredTrunkId'[d] = acquiredTrunkId[d]
    BY <1>1 DEF ReleaseDeclined, CatchRelease, GoTo
  <2>3. holds'[c] = NoTrunk /\ acquiredTrunkId'[c] = NoTrunk
    BY <1>1, <2>1 DEF ReleaseDeclined, CatchRelease, Return
  <2>4. pc'[c] \in {"declined", "failover", "finally"}
    BY <1>1 DEF ReleaseDeclined, CatchRelease, GoTo
  <2>5. CallOK(c)'
    BY <2>3, <2>4 DEF CallOK, Over
  <2> QED BY <2>1, <2>2, <2>5, ReturnKeepsInv
<1>2. CASE FinallyRelease(c)
  <2>1. pc' = [pc EXCEPT ![c] = "deleteRoom"] /\ UNCHANGED <<selected, acquiredTrunkId>>
    BY <1>2 DEF FinallyRelease, GoTo
  <2>2. CallOK(c)'
    BY <2>1 DEF CallOK, Over
  <2>3. ~Over(c) /\ holds[c] = acquiredTrunkId[c]
    BY <1>0, <1>2 DEF FinallyRelease, CallOK, Over
  <2>4. CASE acquiredTrunkId[c] # NoTrunk
    <3>1. Return(c, holds[c]) /\ holds[c] \in Trunks
      BY <1>2, <2>3, <2>4 DEF FinallyRelease
    <3> QED BY <2>1, <2>2, <2>3, <3>1, ReturnKeepsInv
  <2>5. CASE acquiredTrunkId[c] = NoTrunk
    <3>1. UNCHANGED <<count, holds>>
      BY <1>2, <2>5 DEF FinallyRelease, counterVars
    <3> QED BY <2>1, <2>2, <2>3, <3>1, MoveKeepsInv
  <2> QED BY <2>4, <2>5
<1> QED BY <1>1, <1>2

LEMMA ExpireKeepsInv ==
  ASSUME SlotsInv, SlotsReturnedOnce, TypeOK', NEW t \in Trunks, Expire(t)
  PROVE  SlotsInv'
<1>1. \A d \in Calls : CallOK(d)'
  BY DEF SlotsInv, CallOK, Over, Expire, dialVars
<1>2. CountsCover'
  <2> SUFFICES ASSUME NEW u \in Trunks
               PROVE  /\ Cardinality(Holders(u)') <= count'[u]
                      /\ count'[u] <= maxConcurrentCalls[u]
    BY DEF CountsCover
  <2>1. Cardinality(Holders(u)) <= count[u] /\ count[u] <= maxConcurrentCalls[u]
    BY DEF SlotsInv, CountsCover
  <2>2. Holders(u)' = Holders(u)
    BY DEF Holders, Over, Expire, dialVars
  <2>3. CASE u = t
    <3>1. count'[u] = 0
      BY <2>3 DEF Expire, SlotsInv, TypeOK
    <3>2. Holders(u) = {}
      BY <2>3 DEF Expire, SlotsReturnedOnce
    <3> QED BY <2>2, <3>1, <3>2, FS_EmptySet, MaxConcurrentAssumption
  <2>4. CASE u # t
    BY <2>1, <2>2, <2>4 DEF Expire, SlotsInv, TypeOK
  <2> QED BY <2>3, <2>4
<1> QED BY <1>1, <1>2 DEF SlotsInv

LEMMA StepSlots ==
  ASSUME SlotsInv, SlotsReturnedOnce, [Next]_vars
  PROVE  SlotsInv'
<1>0. TypeOK'
  BY StepType DEF SlotsInv
<1>1. ASSUME NEW c \in Calls, NEW t \in Trunks, ReadCount(c, t) \/ AcquireRefused(c, t)
      PROVE  SlotsInv'
  BY <1>0, <1>1 DEF SlotsInv, ReadCount, AcquireRefused, counterVars, dialVars, CallOK, Over,
     CountsCover, Holders
<1>2. ASSUME NEW c \in Calls, ScriptAckLost(c) PROVE FALSE
  BY <1>2 DEF ScriptAckLost, SlotsReturnedOnce
<1>3. ASSUME UNCHANGED vars PROVE SlotsInv'
  BY <1>0, <1>3 DEF SlotsInv, vars, counterVars, dialVars, CallOK, Over, CountsCover, Holders
<1> QED BY <1>0, <1>1, <1>2, <1>3, MovingSteps, AcquireKeepsInv, ReleasingSteps, ExpireKeepsInv
        DEF Next, Progress

LEMMA InitSlots == ASSUME Init PROVE SlotsInv
<1>1. \A c \in Calls : CallOK(c)
  BY DEF Init, CallOK
<1>2. ASSUME NEW t \in Trunks
      PROVE  /\ Cardinality(Holders(t)) <= count[t]
             /\ count[t] <= maxConcurrentCalls[t]
  <2>1. Holders(t) = {}
    BY NoTrunkAssumption DEF Init, Holders
  <2> QED BY <2>1, FS_EmptySet, MaxConcurrentAssumption DEF Init
<1> QED BY <1>1, <1>2, InitType DEF SlotsInv, CountsCover

(* No trunk ever carries more calls than its maxConcurrentCalls, for any   *)
(* number of calls and trunks, crashes, store and Redis errors included,   *)
(* as long as no slot is returned twice and no counter in use expires.     *)
THEOREM CapacityNeverExceeded ==
  ASSUME SlotsReturnedOnce PROVE Spec => []CapacityRespected
<1>1. Init => SlotsInv
  BY InitSlots
<1>2. SlotsInv /\ [Next]_vars => SlotsInv'
  BY StepSlots
<1>3. SlotsInv => CapacityRespected
  <2> SUFFICES ASSUME SlotsInv, NEW t \in Trunks
               PROVE  Cardinality(Holders(t)) <= maxConcurrentCalls[t]
    BY DEF CapacityRespected
  <2> QED BY HoldersFinite, MaxConcurrentAssumption DEF SlotsInv, TypeOK, CountsCover
<1> QED BY <1>1, <1>2, <1>3, PTL DEF Spec

-----------------------------------------------------------------------------
(* The counters are exact.                                                 *)

(* A call takes a free slot, or gives its own back: the holders of the     *)
(* trunk change by this call.                                              *)
LEMMA AcquireIsExact ==
  ASSUME SlotsInv, CountIsExact, NEW c \in Calls, NEW t \in Trunks, Acquire(c, t),
         \A d \in Calls : pc[d] # "crashed"
  PROVE  \A u \in Trunks : count'[u] = Cardinality(Holders(u)')
<1> USE NoTrunkAssumption
<1>1. /\ holds[c] = NoTrunk /\ pc[c] = "acquire"
      /\ pc' = [pc EXCEPT ![c] = "dial"] /\ holds' = [holds EXCEPT ![c] = t]
      /\ count' = [count EXCEPT ![t] = @ + 1]
  BY DEF SlotsInv, CallOK, Acquire, GoTo, ACQUIRE_SLOT
<1>2. /\ pc \in [Calls -> Labels] /\ holds \in [Calls -> Trunks \cup {NoTrunk}]
      /\ count \in [Trunks -> Nat]
  BY DEF SlotsInv, TypeOK
<1> TAKE u \in Trunks
<1>3. count[u] = Cardinality(Holders(u))
  BY DEF CountIsExact
<1>4. CASE u = t
  <2>1. Holders(u)' = Holders(u) \cup {c} /\ c \notin Holders(u)
    BY <1>1, <1>2, <1>4 DEF Holders, Over
  <2>2. Cardinality(Holders(u)') = Cardinality(Holders(u)) + 1
    BY <2>1, HoldersFinite, FS_AddElement
  <2> QED
    BY <1>1, <1>2, <1>3, <1>4, <2>2
<1>5. CASE u # t
  <2>1. Holders(u)' = Holders(u)
    BY <1>1, <1>2, <1>5 DEF Holders, Over
  <2> QED
    BY <1>1, <1>2, <1>3, <1>5, <2>1
<1> QED
  BY <1>4, <1>5

LEMMA ReturnIsExact ==
  ASSUME SlotsInv, CountIsExact, NEW c \in Calls,
         ReleaseDeclined(c) \/ CatchRelease(c) \/ FinallyRelease(c),
         \A d \in Calls : pc[d] # "crashed"
  PROVE  \A u \in Trunks : count'[u] = Cardinality(Holders(u)')
<1> USE NoTrunkAssumption
<1>1. /\ pc \in [Calls -> Labels] /\ holds \in [Calls -> Trunks \cup {NoTrunk}]
      /\ count \in [Trunks -> Nat] /\ CallOK(c)
  BY DEF SlotsInv, TypeOK
<1>2. /\ ~Over(c) /\ (\A d \in Calls : d # c => pc'[d] = pc[d])
      /\ \/ holds[c] \in Trunks /\ Return(c, holds[c])
         \/ holds[c] = NoTrunk /\ UNCHANGED <<count, holds>>
  BY <1>1 DEF ReleaseDeclined, CatchRelease, FinallyRelease, CallOK, Over, GoTo, counterVars
<1> TAKE u \in Trunks
<1>3. count[u] = Cardinality(Holders(u))
  BY DEF CountIsExact
<1>4. CASE holds[c] = u /\ Return(c, u)
  <2>1. holds' = [holds EXCEPT ![c] = NoTrunk]
    BY <1>4 DEF Return
  <2>2. Holders(u)' = Holders(u) \ {c} /\ c \in Holders(u)
    BY <1>1, <1>2, <1>4, <2>1 DEF Holders, Over
  <2>3. /\ Cardinality(Holders(u)') = Cardinality(Holders(u)) - 1
        /\ Cardinality(Holders(u)) > 0
    BY <2>2, HoldersFinite, FS_RemoveElement, FS_EmptySet
  <2>4. count'[u] = IF count[u] > 0 THEN count[u] - 1 ELSE 0
    BY <1>1, <1>4 DEF Return, RELEASE_SLOT
  <2> QED
    BY <1>3, <2>3, <2>4
<1>5. CASE holds[c] # u
  <2>1. Holders(u)' = Holders(u)
    BY <1>1, <1>2, <1>5 DEF Holders, Over, Return
  <2>2. count'[u] = count[u]
    BY <1>1, <1>2, <1>5 DEF Return, RELEASE_SLOT
  <2> QED
    BY <1>3, <2>1, <2>2
<1> QED
  BY <1>2, <1>4, <1>5

LEMMA ExpireIsExact ==
  ASSUME SlotsInv, CountIsExact, SlotsReturnedOnce, NEW t \in Trunks, Expire(t),
         \A d \in Calls : pc[d] # "crashed"
  PROVE  \A u \in Trunks : count'[u] = Cardinality(Holders(u)')
<1> TAKE u \in Trunks
<1>1. Holders(u)' = Holders(u) /\ count[u] = Cardinality(Holders(u)) /\ count[u] \in Nat
  BY DEF Holders, Over, Expire, dialVars, CountIsExact, SlotsInv, TypeOK
<1>2. CASE u = t
  <2>1. count'[u] = 0 /\ Holders(u) = {}
    BY <1>2 DEF Expire, SlotsReturnedOnce, SlotsInv, TypeOK
  <2> QED
    BY <1>1, <2>1, FS_EmptySet
<1>3. CASE u # t
  BY <1>1, <1>3 DEF Expire, SlotsInv, TypeOK
<1> QED
  BY <1>2, <1>3

(* A step that touches no slot ends no call that has one.                  *)
LEMMA MoveIsExact ==
  ASSUME SlotsInv, CountIsExact, "redis_error" \notin Faults,
         \A d \in Calls : pc[d] # "crashed" /\ pc'[d] # "crashed", NEW c \in Calls,
         \/ CreateRoom(c) \/ StartDialing(c) \/ Select(c) \/ FilterCandidates(c)
         \/ NoneSelected(c) \/ DialAnswered(c) \/ DialDeclined(c) \/ DialTrunkFailed(c)
         \/ Connect(c) \/ EndSession(c) \/ ReportDeclined(c) \/ Failover(c)
         \/ ReportExhausted(c) \/ DeleteRoom(c) \/ TransitionError(c)
         \/ RedisError(c) \/ Crash(c)
         \/ (\E t \in Trunks : ReadCount(c, t) \/ AcquireRefused(c, t))
  PROVE  \A u \in Trunks : count'[u] = Cardinality(Holders(u)')
<1>1. UNCHANGED <<count, holds>>
  BY DEF CreateRoom, StartDialing, Select, FilterCandidates, NoneSelected, DialAnswered,
     DialDeclined, DialTrunkFailed, Connect, EndSession, ReportDeclined, Failover,
     ReportExhausted, DeleteRoom, TransitionError, RedisError, Crash, ReadCount,
     AcquireRefused, counterVars, dialVars
<1>2. pc \in [Calls -> Labels]
  BY DEF SlotsInv, TypeOK
<1>3. \A d \in Calls : Over(d)' = Over(d)
  <2>1. ASSUME NEW d \in Calls, d # c PROVE pc'[d] = pc[d]
    <3>1. CASE \E t \in Trunks : ReadCount(c, t) \/ AcquireRefused(c, t)
      BY <3>1 DEF ReadCount, AcquireRefused
    <3>2. ASSUME NEW label, GoTo(c, label) PROVE pc'[d] = pc[d]
      BY <1>2, <2>1, <3>2 DEF GoTo
    <3> QED
      BY <3>1, <3>2 DEF CreateRoom, StartDialing, Select, FilterCandidates, NoneSelected,
         DialAnswered, DialDeclined, DialTrunkFailed, Connect, EndSession, ReportDeclined,
         Failover, ReportExhausted, DeleteRoom, TransitionError, RedisError, Crash
  <2>2. Over(c)' = Over(c)
    BY <1>2 DEF GoTo, Over, CreateRoom, StartDialing, Select, FilterCandidates, NoneSelected,
       DialAnswered, DialDeclined, DialTrunkFailed, Connect, EndSession, ReportDeclined,
       Failover, ReportExhausted, DeleteRoom, TransitionError, RedisError, Crash, ReadCount,
       AcquireRefused
  <2> QED
    BY <2>1, <2>2 DEF Over
<1>4. \A u \in Trunks : Holders(u)' = Holders(u)
  BY <1>1, <1>3 DEF Holders
<1> QED
  BY <1>1, <1>4 DEF CountIsExact

LEMMA StepExact ==
  ASSUME SlotsInv, CountIsExact, SlotsReturnedOnce, "redis_error" \notin Faults, [Next]_vars
  PROVE  CountIsExact'
<1> SUFFICES ASSUME \A d \in Calls : pc'[d] # "crashed"
             PROVE  \A u \in Trunks : count'[u] = Cardinality(Holders(u)')
  BY DEF CountIsExact
<1>1. ASSUME NEW d \in Calls PROVE pc[d] # "crashed"
  <2> SUFFICES ASSUME pc[d] = "crashed" PROVE FALSE
    OBVIOUS
  <2>1. pc \in [Calls -> Labels]
    BY DEF SlotsInv, TypeOK
  <2>2. ASSUME NEW c \in Calls, NEW label, pc[c] # "crashed", GoTo(c, label)
        PROVE  pc'[d] = "crashed"
    BY <2>1, <2>2 DEF GoTo
  <2>3. ASSUME NEW c \in Calls, Progress(c) PROVE pc'[d] = "crashed"
    BY <2>2, <2>3
    DEF Progress, StartDialing, Select, FilterCandidates, NoneSelected, ReadCount, Acquire,
        AcquireRefused, DialAnswered, DialDeclined, DialTrunkFailed, Connect, EndSession,
        ReleaseDeclined, ReportDeclined, CatchRelease, Failover, ReportExhausted,
        FinallyRelease, DeleteRoom
  <2>4. ASSUME NEW c \in Calls,
               \/ CreateRoom(c) \/ TransitionError(c) \/ RedisError(c) \/ ScriptAckLost(c)
               \/ Crash(c)
        PROVE  pc'[d] = "crashed"
    BY <2>2, <2>4
    DEF CreateRoom, TransitionError, RedisError, ScriptAckLost, AfterRedisError, Crash
  <2> QED
    BY <2>3, <2>4 DEF Next, Expire, vars
<1>2. ASSUME NEW c \in Calls, ScriptAckLost(c) PROVE FALSE
  BY <1>2 DEF ScriptAckLost, SlotsReturnedOnce
<1>3. ASSUME UNCHANGED vars PROVE \A u \in Trunks : count'[u] = Cardinality(Holders(u)')
  BY <1>1, <1>3 DEF CountIsExact, vars, counterVars, dialVars, Holders, Over
<1> QED
  BY <1>1, <1>2, <1>3, MoveIsExact, AcquireIsExact, ReturnIsExact, ExpireIsExact
  DEF Next, Progress

(* Until a worker dies the counters are exact, for any number of calls and *)
(* trunks: no path through the runner leaks a slot or returns one twice.   *)
THEOREM CountersAreExact ==
  ASSUME SlotsReturnedOnce, "redis_error" \notin Faults
  PROVE  Spec => []CountIsExact
<1>1. Init => SlotsInv
  BY InitSlots
<1>2. Init => CountIsExact
  <2> SUFFICES ASSUME Init, NEW t \in Trunks PROVE count[t] = Cardinality(Holders(t))
    BY DEF CountIsExact
  <2>1. Holders(t) = {}
    BY NoTrunkAssumption DEF Init, Holders
  <2> QED
    BY <2>1, FS_EmptySet DEF Init
<1>3. SlotsInv /\ CountIsExact /\ [Next]_vars => SlotsInv' /\ CountIsExact'
  BY StepSlots, StepExact
<1> QED
  BY <1>1, <1>2, <1>3, PTL DEF Spec

-----------------------------------------------------------------------------
(* Every run that is done has had its room deleted, whatever failed.       *)
THEOREM RoomsDeleted == Spec => []RoomsAreDeleted
<1>1. Init => RoomsAreDeleted
  BY DEF Init, RoomsAreDeleted
<1>2. ASSUME TypeOK, RoomsAreDeleted, [Next]_vars PROVE RoomsAreDeleted'
  <2>1. pc \in [Calls -> Labels] /\ rooms \subseteq Calls
    BY <1>2 DEF TypeOK
  <2>2. ASSUME NEW c \in Calls, CreateRoom(c) PROVE RoomsAreDeleted'
    BY <1>2, <2>1, <2>2 DEF CreateRoom, GoTo, RoomsAreDeleted
  <2>3. ASSUME NEW c \in Calls, DeleteRoom(c) PROVE RoomsAreDeleted'
    BY <1>2, <2>1, <2>3 DEF DeleteRoom, GoTo, RoomsAreDeleted
  <2>4. ASSUME NEW c \in Calls, NEW label, label # "done", GoTo(c, label), UNCHANGED rooms
        PROVE  RoomsAreDeleted'
    BY <1>2, <2>1, <2>4 DEF GoTo, RoomsAreDeleted
  <2>5. ASSUME UNCHANGED <<rooms, pc>> PROVE RoomsAreDeleted'
    BY <1>2, <2>5 DEF RoomsAreDeleted
  <2>6. ASSUME NEW c \in Calls,
               \/ StartDialing(c) \/ Select(c) \/ FilterCandidates(c) \/ NoneSelected(c)
               \/ (\E t \in Trunks : Acquire(c, t)) \/ DialAnswered(c) \/ DialDeclined(c)
               \/ DialTrunkFailed(c) \/ Connect(c) \/ EndSession(c) \/ ReleaseDeclined(c)
               \/ ReportDeclined(c) \/ CatchRelease(c) \/ Failover(c) \/ ReportExhausted(c)
               \/ FinallyRelease(c) \/ TransitionError(c) \/ Crash(c)
        PROVE  RoomsAreDeleted'
    BY <2>4, <2>6
    DEF StartDialing, Select, FilterCandidates, NoneSelected, Acquire, DialAnswered,
        DialDeclined, DialTrunkFailed, Connect, EndSession, ReleaseDeclined, ReportDeclined,
        CatchRelease, Failover, ReportExhausted, FinallyRelease, TransitionError, Crash
  <2>7. ASSUME NEW c \in Calls, RedisError(c) \/ ScriptAckLost(c) PROVE RoomsAreDeleted'
    BY <2>4, <2>7 DEF RedisError, ScriptAckLost, AfterRedisError
  <2>8. ASSUME (\E c \in Calls, t \in Trunks : ReadCount(c, t) \/ AcquireRefused(c, t))
               \/ (\E t \in Trunks : Expire(t)) \/ UNCHANGED vars
        PROVE  RoomsAreDeleted'
    BY <2>5, <2>8 DEF ReadCount, AcquireRefused, Expire, vars
  <2> QED
    BY <1>2, <2>2, <2>3, <2>6, <2>7, <2>8 DEF Next, Progress
<1> QED
  BY <1>1, <1>2, InitType, StepType, PTL DEF Spec
=============================================================================
