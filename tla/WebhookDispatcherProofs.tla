----------------------- MODULE WebhookDispatcherProofs ---------------------
(***************************************************************************)
(* Theorems about the webhook dispatcher, for any number of retries,       *)
(* replays, redeliveries, crashes and any faults.                          *)
(***************************************************************************)
EXTENDS WebhookDispatcher, FiniteSetTheorems, TLAPS

LEMMA JobFacts ==
  /\ DispatchJob \in Jobs
  /\ \A n \in 1..MaxRetries : RetryJob(n) \in Jobs
  /\ \A k \in Replays : ReplayJob(k) \in Jobs
  /\ \A j \in Jobs, n \in 1..MaxStalledCount+1 : <<j, n>> \in Runs
  /\ \A r \in Runs : /\ r[1] \in Jobs /\ r[2] \in 1..MaxStalledCount+1
                     /\ r = <<r[1], r[2]>>
<1>1. DispatchJob \in Jobs
  BY DEF Jobs
<1>2. \A n \in 1..MaxRetries : RetryJob(n) \in Jobs
  BY DEF Jobs, RetryJob
<1>3. \A k \in Replays : ReplayJob(k) \in Jobs
  BY DEF Jobs, ReplayJob
<1>4. \A j \in Jobs, n \in 1..MaxStalledCount+1 : <<j, n>> \in Runs
  BY DEF Runs
<1>5. \A r \in Runs : /\ r[1] \in Jobs /\ r[2] \in 1..MaxStalledCount+1
                      /\ r = <<r[1], r[2]>>
  BY DEF Runs
<1> QED BY <1>1, <1>2, <1>3, <1>4, <1>5

LEMMA FiniteRuns == IsFiniteSet(Runs)
<1>1. /\ IsFiniteSet(1..MaxRetries) /\ IsFiniteSet(Replays)
      /\ IsFiniteSet(1..MaxStalledCount+1)
  BY FS_Interval, RetriesAssumption, DispatcherBounds DEF Replays
<1>2. IsFiniteSet({"retry"} \X (1..MaxRetries)) /\ IsFiniteSet({"replay"} \X Replays)
  BY <1>1, FS_Product, FS_Singleton
<1>3. IsFiniteSet(Jobs)
  BY <1>2, FS_Singleton, FS_Union DEF Jobs
<1> QED BY <1>1, <1>3, FS_Product DEF Runs

-----------------------------------------------------------------------------
(* Types.                                                                  *)

TypeInv ==
  /\ TypeOK
  /\ \A j \in Jobs : jobState[j] \in {"none", "waiting"} => deliveries[j] <= MaxStalledCount
  /\ \A r \in Runs : pc[r] = "addRetry" => ~Exhausted(r)

LEMMA InitTypeInv == Init => TypeInv
  BY DispatcherBounds, JobFacts
  DEF Init, TypeInv, TypeOK, Labels, WebhookDeliveryStatuses, OpenStatuses, SettledStatuses

LEMMA StepTypeInv ==
  ASSUME TypeInv, [Next]_vars
  PROVE  TypeInv'
<1> USE DispatcherBounds, RetriesAssumption, JobFacts DEF TypeInv, TypeOK
<1>1. ASSUME NEW j \in Jobs, Deliver(j) PROVE TypeInv'
  <2>1. <<j, deliveries[j] + 1>> \in Runs
    BY <1>1 DEF Deliver
  <2> QED BY <1>1, <2>1 DEF Deliver, GoTo, Labels, rowVars, endpointVars, Exhausted
<1>2. ASSUME NEW j \in Jobs, StalledAfterCrash(j) \/ LockExpires(j) PROVE TypeInv'
  BY <1>2 DEF StalledAfterCrash, LockExpires, MoveStalledJob, rowVars, endpointVars, Exhausted
<1>3. ASSUME NEW r \in Runs, Crash(r) \/ StoreError(r) PROVE TypeInv'
  BY <1>3 DEF Crash, StoreError, GoTo, Labels, rowVars, queueVars, endpointVars, Exhausted
<1>4. ASSUME NEW r \in Runs, FindRow(r) PROVE TypeInv'
  BY <1>4 DEF FindRow, GoTo, Labels, rowVars, queueVars, endpointVars, Exhausted
<1>5. ASSUME NEW r \in Runs, FindEndpoint(r) PROVE TypeInv'
  BY <1>5 DEF FindEndpoint, GoTo, Labels, rowVars, queueVars, endpointVars, Exhausted
<1>6. ASSUME NEW r \in Runs, Post(r) PROVE TypeInv'
  BY <1>6 DEF Post, GoTo, Labels, rowVars, queueVars, endpointVars, Exhausted
<1>7. ASSUME NEW r \in Runs, MarkDelivered(r) \/ MarkDead(r) PROVE TypeInv'
  BY <1>7 DEF MarkDelivered, MarkDead, GoTo, Labels, queueVars, endpointVars, Exhausted,
              WebhookDeliveryStatuses, SettledStatuses
<1>8. ASSUME NEW r \in Runs, IncrementRetry(r) PROVE TypeInv'
  BY <1>8 DEF IncrementRetry, GoTo, Labels, queueVars, endpointVars, Exhausted,
              WebhookDeliveryStatuses, OpenStatuses
<1>9. ASSUME NEW r \in Runs, AddRetry(r) PROVE TypeInv'
  <2>1. RetryJob(readCount[r] + 1) \in Jobs
    BY <1>9 DEF AddRetry, Exhausted
  <2> QED BY <1>9, <2>1 DEF AddRetry, AddJob, GoTo, Labels, rowVars, endpointVars, Exhausted
<1>10. ASSUME NEW r \in Runs, Finish(r) PROVE TypeInv'
  BY <1>10 DEF Finish, GoTo, Labels, rowVars, endpointVars, Exhausted
<1>11. ASSUME NEW k \in Replays, ReplayFind(k) \/ ReplayReset(k) \/ ReplayAdd(k) \/ ReplayFails(k)
       PROVE TypeInv'
  <2>1. CASE ReplayAdd(k)
    <3>1. ReplayJob(k) \in Jobs
      OBVIOUS
    <3> QED BY <2>1, <3>1 DEF ReplayAdd, AddJob, rowVars, endpointVars, Exhausted
  <2>2. CASE ~ReplayAdd(k)
    BY <1>11, <2>2 DEF ReplayFind, ReplayReset, ReplayFails, rowVars, queueVars,
                       endpointVars, Exhausted, WebhookDeliveryStatuses, OpenStatuses
  <2> QED BY <2>1, <2>2
<1>12. ASSUME PatchEndpoint PROVE TypeInv'
  BY <1>12 DEF PatchEndpoint, rowVars, queueVars, endpointVars, Exhausted
<1>13. ASSUME UNCHANGED vars PROVE TypeInv'
  BY <1>13 DEF vars, rowVars, queueVars, endpointVars, Exhausted
<1> QED BY <1>1, <1>2, <1>3, <1>4, <1>5, <1>6, <1>7, <1>8, <1>9, <1>10, <1>11, <1>12, <1>13
        DEF Next, Progress

(* Every variable keeps its type: TypeOK of WebhookDispatcher, for any     *)
(* crashes, redeliveries, replays and faults of the dispatcher.            *)
THEOREM TypeCorrect == Spec => []TypeOK
<1>1. TypeInv => TypeOK
  BY DEF TypeInv
<1> QED BY <1>1, InitTypeInv, StepTypeInv, PTL DEF Spec

-----------------------------------------------------------------------------
(* Runs and deliveries.                                                    *)

RunsOK == DeliveriesOK /\ \A r \in Runs : RunOK(r)

LEMMA InitRunsOK == Init => RunsOK
  BY DispatcherBounds, JobFacts DEF Init, RunsOK, DeliveriesOK, RunOK, Exhausted

LEMMA StepRunsOK ==
  ASSUME TypeInv, RunsOK, [Next]_vars
  PROVE  RunsOK'
<1> USE DispatcherBounds, JobFacts DEF TypeInv, TypeOK, RunsOK, DeliveriesOK, RunOK
<1>0. TypeInv'
  BY StepTypeInv
<1>1. ASSUME NEW j \in Jobs, Deliver(j) PROVE RunsOK'
  <2>1. <<j, deliveries[j] + 1>> \in Runs /\ pc[<<j, deliveries[j] + 1>>] = "idle"
    BY <1>1 DEF Deliver
  <2> QED BY <1>1, <2>1 DEF Deliver, GoTo, rowVars, endpointVars, Exhausted
<1>2. ASSUME NEW j \in Jobs, StalledAfterCrash(j) \/ LockExpires(j) PROVE RunsOK'
  BY <1>2 DEF StalledAfterCrash, LockExpires, MoveStalledJob, rowVars, endpointVars, Exhausted
<1>3. ASSUME NEW r \in Runs, Crash(r) PROVE RunsOK'
  BY <1>3 DEF Crash, Live, GoTo, rowVars, queueVars, endpointVars, Exhausted
<1>4. ASSUME NEW r \in Runs, StoreError(r) PROVE RunsOK'
  BY <1>4 DEF StoreError, GoTo, rowVars, queueVars, endpointVars, Exhausted
<1>5. ASSUME NEW r \in Runs, FindRow(r) PROVE RunsOK'
  BY <1>5 DEF FindRow, GoTo, rowVars, queueVars, endpointVars, Exhausted
<1>6. ASSUME NEW r \in Runs, FindEndpoint(r) PROVE RunsOK'
  BY <1>6 DEF FindEndpoint, GoTo, rowVars, queueVars, endpointVars, Exhausted
<1>7. ASSUME NEW r \in Runs, Post(r) PROVE RunsOK'
  BY <1>7 DEF Post, GoTo, rowVars, queueVars, endpointVars, Exhausted
<1>8. ASSUME NEW r \in Runs, MarkDelivered(r) \/ MarkDead(r) PROVE RunsOK'
  BY <1>8 DEF MarkDelivered, MarkDead, GoTo, queueVars, endpointVars, Exhausted
<1>9. ASSUME NEW r \in Runs, IncrementRetry(r) PROVE RunsOK'
  BY <1>9 DEF IncrementRetry, GoTo, queueVars, endpointVars, Exhausted
<1>10. ASSUME NEW r \in Runs, AddRetry(r) PROVE RunsOK'
  <2>1. DeliveriesOK'
    BY <1>0, <1>10 DEF AddRetry, AddJob, GoTo
  <2>2. \A q \in Runs : RunOK(q)'
    BY <1>10 DEF AddRetry, GoTo, rowVars, endpointVars, Exhausted
  <2> QED BY <2>1, <2>2
<1>11. ASSUME NEW r \in Runs, Finish(r) PROVE RunsOK'
  BY <1>11 DEF Finish, GoTo, rowVars, endpointVars, Exhausted
<1>12. ASSUME NEW k \in Replays, ReplayFind(k) \/ ReplayReset(k) \/ ReplayFails(k)
       PROVE RunsOK'
  BY <1>12 DEF ReplayFind, ReplayReset, ReplayFails, rowVars, queueVars, endpointVars, Exhausted
<1>13. ASSUME NEW k \in Replays, ReplayAdd(k) PROVE RunsOK'
  <2>1. DeliveriesOK'
    BY <1>0, <1>13 DEF ReplayAdd, AddJob
  <2>2. \A q \in Runs : RunOK(q)'
    BY <1>13 DEF ReplayAdd, rowVars, endpointVars, Exhausted
  <2> QED BY <2>1, <2>2
<1>14. ASSUME PatchEndpoint \/ UNCHANGED vars PROVE RunsOK'
  BY <1>14 DEF PatchEndpoint, vars, rowVars, queueVars, endpointVars, Exhausted
<1> QED BY <1>1, <1>2, <1>3, <1>4, <1>5, <1>6, <1>7, <1>8, <1>9, <1>10, <1>11, <1>12, <1>13, <1>14
        DEF Next, Progress

-----------------------------------------------------------------------------
(* Counting attempts.                                                      *)

LEMMA CountedIsFinite ==
  ASSUME TypeInv
  PROVE  /\ IsFiniteSet(sent) /\ Cardinality(sent) \in Nat
         /\ IsFiniteSet(Counted) /\ Cardinality(Counted) \in Nat
<1>1. sent \in SUBSET Runs /\ Counted \in SUBSET Runs
  BY DEF TypeInv, TypeOK, Counted
<1> QED BY <1>1, FiniteRuns, FS_Subset, FS_CardinalityType

LEMMA MoreIsNotFewer ==
  ASSUME NEW S, NEW T, IsFiniteSet(T), S \subseteq T
  PROVE  Cardinality(S) <= Cardinality(T)
  BY FS_Subset

(* A run that has posted and is neither delivered nor counted is one       *)
(* attempt more than those counted.                                        *)
LEMMA OneMoreThanCounted ==
  ASSUME TypeInv, NEW r \in Runs, r \in sent, r \in Pending
  PROVE  /\ Cardinality(Counted \cup {r}) = Cardinality(Counted) + 1
         /\ Cardinality(sent) >= Cardinality(Counted) + 1
<1>1. r \notin Counted
  BY DEF Counted
<1>2. Cardinality(Counted \cup {r}) = Cardinality(Counted) + 1
  BY <1>1, CountedIsFinite, FS_AddElement
<1>3. Counted \cup {r} \subseteq sent
  BY DEF Counted
<1> QED BY <1>2, <1>3, CountedIsFinite, MoreIsNotFewer

(* How a step changes the set of counted attempts.                         *)
LEMMA StepCounted ==
  ASSUME TypeInv, RunsOK, [Next]_vars
  PROVE  \/ Counted \subseteq Counted' /\ retryCount' = retryCount
         \/ \E r \in Runs : /\ r \in sent /\ r \in Pending
                            /\ Counted' = Counted \cup {r} /\ retryCount' = retryCount + 1
<1> USE DEF TypeInv, TypeOK, Counted, Pending
<1>1. ASSUME NEW j \in Jobs, Deliver(j)
      PROVE  Counted \subseteq Counted' /\ retryCount' = retryCount
  BY <1>1 DEF Deliver, GoTo, rowVars, endpointVars
<1>2. ASSUME NEW j \in Jobs, StalledAfterCrash(j) \/ LockExpires(j)
      PROVE  Counted \subseteq Counted' /\ retryCount' = retryCount
  BY <1>2 DEF StalledAfterCrash, LockExpires, MoveStalledJob, rowVars, endpointVars
<1>3. ASSUME NEW r \in Runs, Crash(r) \/ FindRow(r) \/ FindEndpoint(r) \/ StoreError(r)
      PROVE  Counted \subseteq Counted' /\ retryCount' = retryCount
  BY <1>3 DEF Crash, StoreError, FindRow, FindEndpoint, GoTo, rowVars, endpointVars
<1>4. ASSUME NEW r \in Runs, Post(r)
      PROVE  Counted \subseteq Counted' /\ retryCount' = retryCount
  BY <1>4 DEF Post, GoTo, rowVars, RunsOK, RunOK
<1>5. ASSUME NEW r \in Runs, MarkDelivered(r) \/ MarkDead(r) \/ AddRetry(r) \/ Finish(r)
      PROVE  Counted \subseteq Counted' /\ retryCount' = retryCount
  BY <1>5 DEF MarkDelivered, MarkDead, AddRetry, Finish, GoTo, rowVars, endpointVars
<1>6. ASSUME NEW r \in Runs, IncrementRetry(r)
      PROVE  /\ r \in sent /\ r \in Pending
             /\ Counted' = Counted \cup {r} /\ retryCount' = retryCount + 1
  BY <1>6 DEF IncrementRetry, GoTo, endpointVars, RunsOK, RunOK
<1>7. ASSUME NEW k \in Replays, ReplayFind(k) \/ ReplayReset(k) \/ ReplayAdd(k) \/ ReplayFails(k)
      PROVE  Counted \subseteq Counted' /\ retryCount' = retryCount
  BY <1>7 DEF ReplayFind, ReplayReset, ReplayAdd, ReplayFails, rowVars, endpointVars
<1>8. ASSUME PatchEndpoint \/ UNCHANGED vars
      PROVE  Counted \subseteq Counted' /\ retryCount' = retryCount
  BY <1>8 DEF PatchEndpoint, vars, rowVars, endpointVars
<1> QED BY <1>1, <1>2, <1>3, <1>4, <1>5, <1>6, <1>7, <1>8 DEF Next, Progress

CountInv == Cardinality(Counted) >= retryCount

LEMMA StepCountInv ==
  ASSUME TypeInv, RunsOK, CountInv, [Next]_vars
  PROVE  CountInv'
<1>1. TypeInv'
  BY StepTypeInv
<1>2. IsFiniteSet(Counted') /\ Cardinality(Counted') \in Nat
  <2>1. Counted' \in SUBSET Runs
    BY <1>1 DEF TypeInv, TypeOK, Counted
  <2> QED BY <2>1, FiniteRuns, FS_Subset, FS_CardinalityType
<1>3. Cardinality(Counted) \in Nat /\ retryCount \in Nat
  BY CountedIsFinite DEF TypeInv, TypeOK
<1>4. CASE Counted \subseteq Counted' /\ retryCount' = retryCount
  BY <1>2, <1>3, <1>4, MoreIsNotFewer DEF CountInv
<1>5. ASSUME NEW r \in Runs, r \in sent, r \in Pending,
             Counted' = Counted \cup {r}, retryCount' = retryCount + 1
      PROVE  CountInv'
  BY <1>3, <1>5, OneMoreThanCounted DEF CountInv
<1> QED BY <1>4, <1>5, StepCounted

-----------------------------------------------------------------------------
(* Settled rows.                                                           *)

(* A step that settles the row has the attempt behind it.                  *)
LEMMA StepSettles ==
  ASSUME TypeInv, RunsOK, [Next]_vars
  PROVE  /\ accepted \subseteq accepted' /\ sent \subseteq sent'
         /\ status' = "DELIVERED" => status = "DELIVERED" \/ accepted # {}
         /\ status' = "DEAD" =>
              \/ status = "DEAD"
              \/ \E r \in Runs : r \in sent /\ r \in Pending /\ Exhausted(r)
<1> DEFINE Goal == /\ accepted \subseteq accepted' /\ sent \subseteq sent'
                   /\ status' = "DELIVERED" => status = "DELIVERED" \/ accepted # {}
                   /\ status' = "DEAD" =>
                        \/ status = "DEAD"
                        \/ \E r \in Runs : r \in sent /\ r \in Pending /\ Exhausted(r)
<1>1. ASSUME NEW j \in Jobs, Deliver(j) \/ StalledAfterCrash(j) \/ LockExpires(j) PROVE Goal
  BY <1>1 DEF Deliver, StalledAfterCrash, LockExpires, MoveStalledJob, rowVars, endpointVars
<1>2. ASSUME NEW r \in Runs,
             \/ Crash(r) \/ StoreError(r) \/ FindRow(r) \/ FindEndpoint(r)
             \/ AddRetry(r) \/ Finish(r)
      PROVE  Goal
  BY <1>2 DEF Crash, StoreError, FindRow, FindEndpoint, AddRetry, Finish, rowVars, endpointVars
<1>3. ASSUME NEW r \in Runs, Post(r) PROVE Goal
  BY <1>3 DEF Post, rowVars
<1>4. ASSUME NEW r \in Runs, MarkDelivered(r) PROVE Goal
  BY <1>4 DEF MarkDelivered, endpointVars, RunsOK, RunOK
<1>5. ASSUME NEW r \in Runs, MarkDead(r) PROVE Goal
  BY <1>5 DEF MarkDead, endpointVars, RunsOK, RunOK, Pending
<1>6. ASSUME NEW r \in Runs, IncrementRetry(r) PROVE Goal
  BY <1>6 DEF IncrementRetry, endpointVars
<1>7. ASSUME NEW k \in Replays, ReplayFind(k) \/ ReplayReset(k) \/ ReplayAdd(k) \/ ReplayFails(k)
      PROVE  Goal
  BY <1>7 DEF ReplayFind, ReplayReset, ReplayAdd, ReplayFails, rowVars, endpointVars
<1>8. ASSUME PatchEndpoint \/ UNCHANGED vars PROVE Goal
  BY <1>8 DEF PatchEndpoint, vars, rowVars, endpointVars
<1> HIDE DEF Goal
<1>9. Goal
  BY <1>1, <1>2, <1>3, <1>4, <1>5, <1>6, <1>7, <1>8 DEF Next, Progress
<1> QED BY <1>9 DEF Goal

LEMMA InitDispatcherInv == Init => DispatcherInv
<1> SUFFICES ASSUME Init PROVE DispatcherInv
  OBVIOUS
<1>1. Counted = {} /\ retryCount = 0 /\ status = "PENDING"
  BY DEF Init, Counted
<1> QED BY <1>1, InitTypeInv, InitRunsOK, FS_EmptySet
        DEF DispatcherInv, TypeInv, RunsOK, DeliveredMeansAccepted, DeadMeansExhausted

LEMMA StepDispatcherInv == DispatcherInv /\ [Next]_vars => DispatcherInv'
<1> SUFFICES ASSUME DispatcherInv, [Next]_vars PROVE DispatcherInv'
  OBVIOUS
<1>1. TypeInv /\ RunsOK /\ CountInv
  BY DEF DispatcherInv, TypeInv, RunsOK, CountInv, DeliveriesOK, RunOK
<1>2. TypeInv' /\ RunsOK' /\ CountInv'
  BY <1>1, StepTypeInv, StepRunsOK, StepCountInv
<1>3. DeliveredMeansAccepted'
  BY <1>1, StepSettles DEF DispatcherInv, DeliveredMeansAccepted
<1>4. DeadMeansExhausted'
  <2>1. Cardinality(sent') \in Nat /\ Cardinality(sent) <= Cardinality(sent')
    <3>1. sent' \in SUBSET Runs /\ sent \subseteq sent'
      BY <1>1, <1>2, StepSettles DEF TypeInv, TypeOK
    <3>2. IsFiniteSet(sent')
      BY <3>1, FiniteRuns, FS_Subset
    <3> QED BY <3>1, <3>2, FS_CardinalityType, MoreIsNotFewer
  <2>2. Cardinality(sent) \in Nat
    BY <1>1, CountedIsFinite
  <2>3. CASE status = "DEAD"
    BY <2>1, <2>2, <2>3, RetriesAssumption DEF DispatcherInv, DeadMeansExhausted
  <2>4. ASSUME NEW r \in Runs, r \in sent, r \in Pending, Exhausted(r)
        PROVE  Cardinality(sent) >= MaxRetries
    <3>1. Cardinality(sent) >= Cardinality(Counted) + 1 /\ Cardinality(Counted) \in Nat
      BY <1>1, <2>4, OneMoreThanCounted, CountedIsFinite
    <3>2. readCount[r] \in Nat /\ retryCount \in Nat /\ readCount[r] <= retryCount
      BY <1>1 DEF TypeInv, TypeOK, RunsOK, RunOK
    <3> QED BY <1>1, <2>2, <2>4, <3>1, <3>2, RetriesAssumption DEF CountInv, Exhausted
  <2> QED BY <1>1, <2>1, <2>2, <2>3, <2>4, StepSettles, RetriesAssumption DEF DeadMeansExhausted
<1> QED BY <1>2, <1>3, <1>4 DEF DispatcherInv, TypeInv, RunsOK, CountInv

(* A row is marked DEAD only when maxRetries attempts have been made,      *)
(* however many runs have been counting on stale reads.                    *)
THEOREM DeadRowsWereExhausted == Spec => []DeadMeansExhausted
<1>1. DispatcherInv => DeadMeansExhausted
  BY DEF DispatcherInv
<1> QED BY <1>1, InitDispatcherInv, StepDispatcherInv, PTL DEF Spec

(* A row is marked DELIVERED only when the endpoint accepted an attempt,   *)
(* whatever crashes, redeliveries and replays happen.                      *)
THEOREM DeliveredRowsWereAccepted == Spec => []DeliveredMeansAccepted
<1>1. DispatcherInv => DeliveredMeansAccepted
  BY DEF DispatcherInv
<1> QED BY <1>1, InitDispatcherInv, StepDispatcherInv, PTL DEF Spec

-----------------------------------------------------------------------------
(* One chain of jobs at a time.                                            *)

LEMMA OrderlyMeans ==
  ASSUME Orderly, NEW r \in Runs, NEW j \in Jobs
  PROVE  ~Crash(r) /\ ~LockExpires(j) /\ "hasty_replay" \notin Faults
<1>1. {q \in Runs : pc[q] = "crashed"} \in SUBSET Runs
  OBVIOUS
<1>2. Cardinality({q \in Runs : pc[q] = "crashed"}) \in Nat
  BY <1>1, FiniteRuns, FS_Subset, FS_CardinalityType
<1>3. ~Crash(r)
  BY <1>2 DEF Crash, Orderly
<1> QED BY <1>3 DEF Orderly, LockExpires

LEMMA InitSoleChain == Init => SoleChain
  BY DEF Init, SoleChain, Waiting, Working, Reopening, SettledStatuses

LEMMA StepSoleChain ==
  ASSUME Orderly, TypeInv, RunsOK, SoleChain, [Next]_vars
  PROVE  SoleChain'
<1> USE DEF TypeInv, TypeOK, SoleChain, Waiting, Working, Reopening,
            SettledStatuses, OpenStatuses
<1>1. ASSUME NEW j \in Jobs, Deliver(j) PROVE SoleChain'
  <2>1. <<j, deliveries[j] + 1>> \in Runs
    BY <1>1, JobFacts, DispatcherBounds DEF Deliver
  <2> QED BY <1>1, <2>1 DEF Deliver, GoTo, rowVars
<1>2. ASSUME NEW j \in Jobs, StalledAfterCrash(j) \/ LockExpires(j) PROVE SoleChain'
  <2>1. ~LockExpires(j)
    BY DEF Orderly, LockExpires
  <2>2. ASSUME jobState[j] = "active" PROVE Current(j) \in Runs
    BY <2>2, JobFacts, DispatcherBounds DEF Current, RunsOK, DeliveriesOK
  <2> QED BY <1>2, <2>1, <2>2 DEF StalledAfterCrash
<1>3. ASSUME NEW r \in Runs, Crash(r) PROVE SoleChain'
  BY <1>3, OrderlyMeans, JobFacts
<1>4. ASSUME NEW r \in Runs, StoreError(r) PROVE SoleChain'
  BY <1>4 DEF StoreError, GoTo, rowVars, queueVars
<1>5. ASSUME NEW r \in Runs, FindRow(r) PROVE SoleChain'
  BY <1>5 DEF FindRow, GoTo, rowVars, queueVars
<1>6. ASSUME NEW r \in Runs, FindEndpoint(r) PROVE SoleChain'
  BY <1>6 DEF FindEndpoint, GoTo, rowVars, queueVars
<1>7. ASSUME NEW r \in Runs, Post(r) PROVE SoleChain'
  BY <1>7 DEF Post, GoTo, rowVars, queueVars
<1>8. ASSUME NEW r \in Runs, MarkDelivered(r) \/ MarkDead(r) PROVE SoleChain'
  BY <1>8 DEF MarkDelivered, MarkDead, GoTo, queueVars
<1>9. ASSUME NEW r \in Runs, IncrementRetry(r) PROVE SoleChain'
  BY <1>9 DEF IncrementRetry, GoTo, queueVars
<1>10. ASSUME NEW r \in Runs, AddRetry(r) PROVE SoleChain'
  BY <1>10 DEF AddRetry, AddJob, GoTo, rowVars
<1>11. ASSUME NEW r \in Runs, Finish(r) PROVE SoleChain'
  BY <1>11 DEF Finish, GoTo, rowVars
<1>12. ASSUME NEW k \in Replays, ReplayFind(k) PROVE SoleChain'
  BY <1>12 DEF ReplayFind, AtRest, Orderly, rowVars, queueVars
<1>13. ASSUME NEW k \in Replays, ReplayReset(k) PROVE SoleChain'
  BY <1>13 DEF ReplayReset, queueVars
<1>14. ASSUME NEW k \in Replays, ReplayAdd(k) PROVE SoleChain'
  BY <1>14 DEF ReplayAdd, AddJob, rowVars
<1>15. ASSUME NEW k \in Replays, ReplayFails(k) PROVE SoleChain'
  BY <1>15 DEF ReplayFails, rowVars, queueVars
<1>16. ASSUME PatchEndpoint \/ UNCHANGED vars PROVE SoleChain'
  BY <1>16 DEF PatchEndpoint, vars, rowVars, queueVars
<1> QED BY <1>1, <1>2, <1>3, <1>4, <1>5, <1>6, <1>7, <1>8, <1>9, <1>10, <1>11, <1>12,
           <1>13, <1>14, <1>15, <1>16 DEF Next, Progress

LEMMA InitOrderlyInv == Init => OrderlyInv
  BY InitDispatcherInv, InitSoleChain DEF OrderlyInv

LEMMA StepOrderlyInv == Orderly /\ OrderlyInv /\ [Next]_vars => OrderlyInv'
<1> SUFFICES ASSUME Orderly, OrderlyInv, [Next]_vars PROVE OrderlyInv'
  OBVIOUS
<1>1. TypeInv /\ RunsOK /\ DispatcherInv /\ SoleChain
  BY DEF OrderlyInv, DispatcherInv, TypeInv, RunsOK, DeliveriesOK, RunOK
<1> QED BY <1>1, StepDispatcherInv, StepSoleChain DEF OrderlyInv

-----------------------------------------------------------------------------
(* Refinement.                                                             *)

LEMMA InitDelivery == Init => Delivery!DeliveryInit
  BY DEF Init, Delivery!DeliveryInit, Pending

LEMMA StepDelivery ==
  ASSUME Orderly, TypeInv, RunsOK, SoleChain, [Next]_vars
  PROVE  [Delivery!DeliveryNext]_(Delivery!dvars)
<1> DEFINE Stutter == UNCHANGED <<status, retryCount, sent, accepted, Pending>>
<1> DEFINE Goal == Delivery!DeliveryNext \/ Stutter
<1>0. SUFFICES Goal
  BY DEF Delivery!dvars
<1> USE DEF TypeInv, TypeOK, Pending
<1>1. ASSUME NEW j \in Jobs, Deliver(j) PROVE Stutter
  <2>1. <<j, deliveries[j] + 1>> \in Runs /\ pc[<<j, deliveries[j] + 1>>] = "idle"
    BY <1>1, JobFacts, DispatcherBounds DEF Deliver, RunsOK, DeliveriesOK
  <2> QED BY <1>1, <2>1 DEF Deliver, GoTo, rowVars, endpointVars
<1>2. ASSUME NEW j \in Jobs, StalledAfterCrash(j) \/ LockExpires(j) PROVE Stutter
  BY <1>2 DEF StalledAfterCrash, LockExpires, MoveStalledJob, rowVars, endpointVars
<1>3. ASSUME NEW r \in Runs, Crash(r) PROVE FALSE
  BY <1>3, OrderlyMeans, JobFacts
<1>4. ASSUME NEW r \in Runs, StoreError(r) PROVE Goal
  <2>1. CASE pc[r] = "catch"
    <3>1. Pending # {} /\ Pending' = {}
      BY <1>4, <2>1 DEF StoreError, GoTo, SoleChain, Working
    <3> QED BY <1>4, <2>1, <3>1 DEF StoreError, rowVars, endpointVars,
                                   Delivery!DeliveryNext, Delivery!Abandon
  <2>2. CASE pc[r] # "catch"
    <3>1. pc[r] = "markDelivered" <=> r \in Pending
      BY <2>2
    <3>2. Pending' = Pending
      BY <1>4, <2>2, <3>1 DEF StoreError, GoTo
    <3> QED BY <1>4, <3>2 DEF StoreError, rowVars, endpointVars
  <2> QED BY <2>1, <2>2
<1>5. ASSUME NEW r \in Runs, FindRow(r) \/ FindEndpoint(r) \/ AddRetry(r) \/ Finish(r)
      PROVE  Stutter
  BY <1>5 DEF FindRow, FindEndpoint, AddRetry, Finish, GoTo, rowVars, endpointVars
<1>6. ASSUME NEW r \in Runs, Post(r) PROVE Delivery!Send(r)
  <2>1. Pending = {} /\ status \notin SettledStatuses /\ r \notin sent
    BY <1>6 DEF Post, SoleChain, Working, RunsOK, RunOK
  <2>2. Pending' = {r}
    BY <1>6, <2>1 DEF Post, GoTo
  <2>3. status \in Delivery!OpenStatuses
    BY <2>1 DEF Delivery!OpenStatuses, WebhookDeliveryStatuses, OpenStatuses
  <2>4. /\ accepted' \in {accepted, accepted \cup {r}} /\ sent' = sent \cup {r}
        /\ UNCHANGED <<status, retryCount>>
    BY <1>6 DEF Post, rowVars
  <2> QED BY <2>1, <2>2, <2>3, <2>4 DEF Delivery!Send
<1>7. ASSUME NEW r \in Runs, r \in Pending PROVE Pending = {r} /\ status \in OpenStatuses
  BY <1>7 DEF SoleChain, Working, WebhookDeliveryStatuses
<1>8. ASSUME NEW r \in Runs, MarkDelivered(r) PROVE Delivery!MarkDelivered
  <2>1. Pending = {r} /\ Pending' = {} /\ status \in OpenStatuses /\ r \in accepted
    BY <1>7, <1>8 DEF MarkDelivered, GoTo, RunsOK, RunOK
  <2> QED BY <1>8, <2>1 DEF MarkDelivered, endpointVars, Delivery!MarkDelivered,
                            Delivery!OpenStatuses, OpenStatuses
<1>9. ASSUME NEW r \in Runs, MarkDead(r) PROVE Delivery!GiveUp
  <2>1. /\ Pending = {r} /\ Pending' = {} /\ status \in OpenStatuses
        /\ readCount[r] = retryCount
    BY <1>7, <1>9 DEF MarkDead, GoTo, SoleChain, Working
  <2> QED BY <1>9, <2>1 DEF MarkDead, Exhausted, endpointVars, Delivery!GiveUp,
                            Delivery!OpenStatuses, OpenStatuses
<1>10. ASSUME NEW r \in Runs, IncrementRetry(r) PROVE Delivery!Retry
  <2>1. /\ Pending = {r} /\ Pending' = {} /\ status \in OpenStatuses
        /\ readCount[r] = retryCount
    BY <1>7, <1>10 DEF IncrementRetry, GoTo, SoleChain, Working
  <2> QED BY <1>10, <2>1, RetriesAssumption
          DEF IncrementRetry, Exhausted, endpointVars, Delivery!Retry,
              Delivery!OpenStatuses, OpenStatuses
<1>11. ASSUME NEW k \in Replays, ReplayReset(k) PROVE Delivery!Replay
  BY <1>11 DEF ReplayReset, SoleChain, endpointVars, Delivery!Replay,
               Delivery!SettledStatuses, SettledStatuses
<1>12. ASSUME NEW k \in Replays, ReplayFind(k) \/ ReplayAdd(k) \/ ReplayFails(k) PROVE Stutter
  BY <1>12 DEF ReplayFind, ReplayAdd, ReplayFails, rowVars, endpointVars
<1>13. ASSUME PatchEndpoint \/ UNCHANGED vars PROVE Stutter
  BY <1>13 DEF PatchEndpoint, vars, rowVars, endpointVars
<1> QED BY <1>1, <1>2, <1>3, <1>4, <1>5, <1>6, <1>8, <1>9, <1>10, <1>11, <1>12, <1>13
        DEF Next, Progress, Delivery!DeliveryNext

(* With no crash, no lost lock and replays of settled rows only, the       *)
(* dispatcher implements the delivery that WebhookDelivery describes.      *)
THEOREM DispatcherImplementsDelivery ==
  ASSUME Orderly
  PROVE  Spec => ImplementsDelivery
<1>1. Init => OrderlyInv /\ Delivery!DeliveryInit
  BY InitOrderlyInv, InitDelivery
<1>2. OrderlyInv /\ [Next]_vars => OrderlyInv'
  BY StepOrderlyInv
<1>3. OrderlyInv /\ [Next]_vars => [Delivery!DeliveryNext]_(Delivery!dvars)
  <2> SUFFICES ASSUME OrderlyInv, [Next]_vars PROVE [Delivery!DeliveryNext]_(Delivery!dvars)
    OBVIOUS
  <2>1. TypeInv /\ RunsOK /\ SoleChain
    BY DEF OrderlyInv, DispatcherInv, TypeInv, RunsOK, DeliveriesOK, RunOK
  <2> QED BY <2>1, StepDelivery
<1> QED BY <1>1, <1>2, <1>3, PTL DEF Spec, ImplementsDelivery, Delivery!DeliverySpec

-----------------------------------------------------------------------------
(* The attempts of one chain of jobs.                                      *)

Started == {k \in Replays : replay[k] # "idle"}

(* The chain of jobs has ended, or its last attempt is not counted yet.    *)
Ended == Pending # {} \/ (Waiting = {} /\ Working = {} /\ Reopening = {})

(* Each attempt is in retryCount, but for the last one of each chain.      *)
ChainInv ==
  /\ retryCount < MaxRetries
  /\ Cardinality(sent) <= retryCount + Cardinality(Started) + 1
  /\ ~Ended => Cardinality(sent) <= retryCount + Cardinality(Started)

LEMMA StartedIsFinite ==
  ASSUME TypeInv
  PROVE  /\ IsFiniteSet(Started) /\ Cardinality(Started) \in Nat
         /\ Cardinality(sent) \in Nat /\ retryCount \in Nat
<1>1. IsFiniteSet(Replays)
  BY FS_Interval, DispatcherBounds DEF Replays
<1>2. Started \subseteq Replays
  BY DEF Started
<1> QED
  BY <1>1, <1>2, FS_Subset, FS_CardinalityType, CountedIsFinite DEF TypeInv, TypeOK

LEMMA InitChainInv == ASSUME Init PROVE ChainInv
<1>1. sent = {} /\ Started = {} /\ retryCount = 0
  BY DEF Init, Started
<1> QED
  BY <1>1, FS_EmptySet, RetriesAssumption DEF ChainInv

(* Most steps send nothing, count nothing, and reopen no chain.            *)
LEMMA QuietKeepsChain ==
  ASSUME TypeInv, TypeInv', ChainInv, UNCHANGED <<sent, retryCount>>, Started \subseteq Started',
         Ended => Ended'
  PROVE  ChainInv'
<1>1. Cardinality(Started) <= Cardinality(Started') /\ Cardinality(Started') \in Nat
  <2>1. Started' \subseteq Replays /\ IsFiniteSet(Replays)
    BY FS_Interval, DispatcherBounds DEF Replays, Started
  <2> QED
    BY <2>1, FS_Subset, FS_CardinalityType, MoreIsNotFewer
<1> QED
  BY <1>1, StartedIsFinite, RetriesAssumption DEF ChainInv

LEMMA PostKeepsChain ==
  ASSUME TypeInv, RunsOK, SoleChain, ChainInv, NEW r \in Runs, Post(r)
  PROVE  ChainInv'
<1>1. sent' = sent \cup {r} /\ r \notin sent /\ UNCHANGED <<retryCount, Started>>
  BY DEF Post, rowVars, RunsOK, RunOK, Started
<1>2. Cardinality(sent') = Cardinality(sent) + 1
  BY <1>1, CountedIsFinite, FS_AddElement
<1>3. ~Ended
  BY DEF Post, Ended, Pending, SoleChain, Working, TypeInv, TypeOK
<1>4. Ended'
  BY DEF Post, GoTo, Ended, Pending, TypeInv, TypeOK
<1> QED
  BY <1>1, <1>2, <1>3, <1>4, StartedIsFinite, RetriesAssumption DEF ChainInv

LEMMA CountKeepsChain ==
  ASSUME TypeInv, RunsOK, SoleChain, ChainInv, NEW r \in Runs, IncrementRetry(r)
  PROVE  ChainInv'
<1>1. retryCount' = retryCount + 1 /\ UNCHANGED <<sent, Started>>
  BY DEF IncrementRetry, endpointVars, Started
<1>2. readCount[r] = retryCount /\ ~Exhausted(r)
  BY DEF IncrementRetry, SoleChain, Working
<1> QED
  BY <1>1, <1>2, StartedIsFinite, RetriesAssumption DEF ChainInv, Exhausted

LEMMA ReplayKeepsChain ==
  ASSUME TypeInv, ChainInv, NEW k \in Replays, ReplayFind(k)
  PROVE  ChainInv'
<1>1. /\ Started' = Started \cup {k} /\ k \notin Started
      /\ UNCHANGED <<sent, retryCount>>
  BY DEF ReplayFind, Started, rowVars, endpointVars, TypeInv, TypeOK
<1>2. Cardinality(Started') = Cardinality(Started) + 1
  BY <1>1, StartedIsFinite, FS_AddElement
<1> QED
  BY <1>1, <1>2, StartedIsFinite, RetriesAssumption DEF ChainInv

LEMMA StepChainInv ==
  ASSUME Orderly, TypeInv, RunsOK, SoleChain, ChainInv, [Next]_vars
  PROVE  ChainInv'
<1> DEFINE Quiet == /\ UNCHANGED <<sent, retryCount>> /\ Started \subseteq Started'
                    /\ Ended => Ended'
<1>0. TypeInv'
  BY StepTypeInv
<1>1. ASSUME NEW j \in Jobs, Deliver(j) PROVE Quiet
  <2>1. ~Ended
    BY <1>1 DEF Deliver, Ended, SoleChain, Waiting, Working, Pending
  <2> QED
    BY <1>1, <2>1 DEF Deliver, Started, rowVars, endpointVars
<1>2. ASSUME NEW j \in Jobs, StalledAfterCrash(j) \/ LockExpires(j) PROVE FALSE
  <2>1. ~LockExpires(j)
    BY DEF Orderly, LockExpires
  <2>2. ASSUME jobState[j] = "active" PROVE Current(j) \in Runs
    BY <2>2, JobFacts, DispatcherBounds DEF Current, RunsOK, DeliveriesOK, TypeInv, TypeOK
  <2> QED
    BY <1>2, <2>1, <2>2 DEF StalledAfterCrash, SoleChain
<1>3. ASSUME NEW r \in Runs, Crash(r) PROVE FALSE
  BY <1>3, OrderlyMeans, JobFacts
<1>4. ASSUME NEW r \in Runs,
             \/ StoreError(r) \/ FindRow(r) \/ FindEndpoint(r) \/ MarkDelivered(r)
             \/ MarkDead(r) \/ AddRetry(r) \/ Finish(r)
      PROVE  UNCHANGED <<sent, retryCount, replay>>
  BY <1>4 DEF StoreError, FindRow, FindEndpoint, MarkDelivered, MarkDead, AddRetry, Finish,
              rowVars, endpointVars
<1>5. ASSUME NEW r \in Runs, FindRow(r) \/ FindEndpoint(r) PROVE Quiet
  <2>1. ~Ended
    BY <1>5 DEF FindRow, FindEndpoint, Ended, SoleChain, Working, Pending
  <2> QED
    BY <1>4, <1>5, <2>1 DEF Started
<1>6. ASSUME NEW r \in Runs, MarkDelivered(r) \/ MarkDead(r) PROVE Quiet
  <2>1. /\ Waiting' = {} /\ Working' = {} /\ Reopening' = {}
    BY <1>6 DEF MarkDelivered, MarkDead, GoTo, SoleChain, Waiting, Working, Reopening,
                queueVars, TypeInv, TypeOK
  <2> QED
    BY <1>4, <1>6, <2>1 DEF Started, Ended
<1>7. ASSUME NEW r \in Runs, StoreError(r) PROVE Quiet
  <2>1. CASE pc[r] = "markDelivered"
    <3>1. r \in Pending'
      BY <1>7, <2>1 DEF StoreError, GoTo, Pending, TypeInv, TypeOK
    <3> QED
      BY <1>4, <1>7, <3>1 DEF Started, Ended
  <2>2. CASE pc[r] # "markDelivered"
    <3>1. Waiting' = {} /\ Working' = {} /\ Reopening' = {}
      BY <1>7, <2>2 DEF StoreError, GoTo, SoleChain, Waiting, Working, Reopening, queueVars,
                        TypeInv, TypeOK
    <3> QED
      BY <1>4, <1>7, <3>1 DEF Started, Ended
  <2> QED
    BY <2>1, <2>2
<1>8. ASSUME NEW r \in Runs, AddRetry(r) PROVE Quiet
  <2>1. ~Ended
    BY <1>8 DEF AddRetry, Ended, SoleChain, Working, Pending
  <2> QED
    BY <1>4, <1>8, <2>1 DEF Started
<1>9. ASSUME NEW r \in Runs, Finish(r) PROVE Quiet
  <2>1. Waiting' = Waiting /\ Working' = Working /\ Reopening' = Reopening /\ Pending' = Pending
    BY <1>9, JobFacts DEF Finish, GoTo, Waiting, Working, Reopening, Pending, TypeInv, TypeOK
  <2> QED
    BY <1>4, <1>9, <2>1 DEF Started, Ended
<1>10. ASSUME NEW k \in Replays, ReplayReset(k) \/ ReplayAdd(k) \/ ReplayFails(k) PROVE Quiet
  <2>1. ~Ended
    BY <1>10 DEF ReplayReset, ReplayAdd, ReplayFails, Ended, SoleChain, Reopening, Working,
                 Pending
  <2>2. UNCHANGED <<sent, retryCount>> /\ Started \subseteq Started'
    BY <1>10 DEF ReplayReset, ReplayAdd, ReplayFails, rowVars, endpointVars, Started, TypeInv,
                 TypeOK
  <2> QED
    BY <2>1, <2>2
<1>11. ASSUME PatchEndpoint \/ UNCHANGED vars PROVE Quiet
  BY <1>11 DEF PatchEndpoint, vars, rowVars, queueVars, endpointVars, Started, Ended, Pending,
               Waiting, Working, Reopening
<1> HIDE DEF Quiet
<1>12. Quiet => ChainInv'
  BY <1>0, QuietKeepsChain DEF Quiet
<1> QED
  BY <1>1, <1>2, <1>3, <1>5, <1>6, <1>7, <1>8, <1>9, <1>10, <1>11, <1>12, PostKeepsChain,
     CountKeepsChain, ReplayKeepsChain
  DEF Next, Progress

(* Without crashes, lost locks and hasty replays an endpoint is sent at    *)
(* most maxRetries attempts of a row, and one more for each replay.        *)
THEOREM AttemptsAreBounded ==
  ASSUME Orderly
  PROVE  Spec => []AttemptsBounded
<1>1. Init => OrderlyInv /\ ChainInv
  BY InitOrderlyInv, InitChainInv
<1>2. OrderlyInv /\ ChainInv /\ [Next]_vars => OrderlyInv' /\ ChainInv'
  <2> SUFFICES ASSUME OrderlyInv, ChainInv, [Next]_vars PROVE OrderlyInv' /\ ChainInv'
    OBVIOUS
  <2>1. TypeInv /\ RunsOK /\ SoleChain
    BY DEF OrderlyInv, DispatcherInv, TypeInv, RunsOK, DeliveriesOK, RunOK
  <2> QED
    BY <2>1, StepOrderlyInv, StepChainInv
<1>3. OrderlyInv /\ ChainInv => AttemptsBounded
  <2> SUFFICES ASSUME OrderlyInv, ChainInv PROVE AttemptsBounded
    OBVIOUS
  <2>1. TypeInv
    BY DEF OrderlyInv, DispatcherInv, TypeInv, DeliveriesOK, RunOK
  <2> QED
    BY <2>1, StartedIsFinite, RetriesAssumption DEF ChainInv, AttemptsBounded, Started
<1> QED
  BY <1>1, <1>2, <1>3, PTL DEF Spec

-----------------------------------------------------------------------------
(* The chain of jobs is never broken.                                      *)

LEMMA JobsDiffer ==
  /\ \A n, m \in 1..MaxRetries : RetryJob(n) = RetryJob(m) => n = m
  /\ \A k, l \in Replays : ReplayJob(k) = ReplayJob(l) => k = l
  /\ \A n \in 1..MaxRetries : \A k \in Replays :
       RetryJob(n) # ReplayJob(k) /\ RetryJob(n) # DispatchJob /\ ReplayJob(k) # DispatchJob
BY DEF RetryJob, ReplayJob, DispatchJob

(* A step that adds no job, counts nothing and takes no run to addRetry.   *)
LEMMA QuietKeepsIds ==
  ASSUME TypeInv, RunsOK, JobIdsAreNew, retryCount' = retryCount,
         \A i \in Jobs : jobState'[i] # "none" => jobState[i] # "none",
         \A r \in Runs : pc'[r] = "addRetry" => pc[r] = "addRetry" /\ readCount'[r] = readCount[r],
         \A k \in Replays : replay'[k] # "done" => replay[k] # "done"
  PROVE  JobIdsAreNew'
<1>1. ASSUME NEW r \in Runs, pc[r] = "addRetry" PROVE retryCount \in 1..MaxRetries
  BY <1>1, RetriesAssumption DEF JobIdsAreNew, RunsOK, RunOK, Exhausted, TypeInv, TypeOK
<1>2. \A n \in 1..MaxRetries : RetryJob(n)' = RetryJob(n) /\ RetryJob(n) \in Jobs
  BY JobFacts DEF RetryJob
<1>3. \A k \in Replays : ReplayJob(k)' = ReplayJob(k) /\ ReplayJob(k) \in Jobs
  BY JobFacts DEF ReplayJob
<1>4. \A n \in 1..MaxRetries : jobState'[RetryJob(n)] # "none" => n <= retryCount'
  BY <1>2 DEF JobIdsAreNew
<1>5. \A r \in Runs : pc'[r] = "addRetry" =>
        readCount'[r] + 1 = retryCount' /\ jobState'[RetryJob(retryCount')] = "none"
  BY <1>1, <1>2 DEF JobIdsAreNew
<1>6. \A k \in Replays : replay'[k] # "done" => jobState'[ReplayJob(k)] = "none"
  BY <1>3 DEF JobIdsAreNew
<1> QED
  BY <1>2, <1>3, <1>4, <1>5, <1>6 DEF JobIdsAreNew, RetryJob, ReplayJob

LEMMA CountKeepsIds ==
  ASSUME TypeInv, RunsOK, SoleChain, JobIdsAreNew, NEW r \in Runs, IncrementRetry(r)
  PROVE  JobIdsAreNew'
<1> USE DEF TypeInv, TypeOK
<1>1. /\ retryCount' = retryCount + 1 /\ readCount[r] = retryCount
      /\ retryCount + 1 \in 1..MaxRetries
  BY RetriesAssumption DEF IncrementRetry, SoleChain, Working, Exhausted
<1>2. /\ UNCHANGED <<jobState, readCount, replay>>
      /\ \A q \in Runs : pc'[q] = "addRetry" => q = r \/ pc[q] = "addRetry"
  BY DEF IncrementRetry, GoTo, queueVars
<1>3. \A q \in Runs : pc[q] # "addRetry"
  BY DEF SoleChain, Working, IncrementRetry
<1>4. jobState[RetryJob(retryCount + 1)] = "none"
  BY <1>1 DEF JobIdsAreNew
<1> QED
  BY <1>1, <1>2, <1>3, <1>4 DEF JobIdsAreNew, RetryJob, ReplayJob

LEMMA AddRetryKeepsIds ==
  ASSUME TypeInv, RunsOK, SoleChain, JobIdsAreNew, NEW r \in Runs, AddRetry(r)
  PROVE  JobIdsAreNew' /\ Waiting' # {}
<1> USE DEF TypeInv, TypeOK
<1>1. /\ readCount[r] + 1 = retryCount /\ retryCount \in 1..MaxRetries
      /\ jobState[RetryJob(retryCount)] = "none" /\ RetryJob(retryCount) \in Jobs
  <2>1. readCount[r] + 1 = retryCount /\ jobState[RetryJob(retryCount)] = "none"
    BY DEF AddRetry, JobIdsAreNew
  <2>2. retryCount \in 1..MaxRetries
    BY <2>1, RetriesAssumption DEF AddRetry, RunsOK, RunOK, Exhausted
  <2> QED
    BY <2>1, <2>2, JobFacts
<1>2. /\ jobState' = [jobState EXCEPT ![RetryJob(retryCount)] = "waiting"]
      /\ UNCHANGED <<retryCount, readCount, replay>>
      /\ pc' = [pc EXCEPT ![r] = "return"]
  BY <1>1 DEF AddRetry, AddJob, GoTo, rowVars
<1>3. Waiting' # {}
  BY <1>1, <1>2 DEF Waiting
<1>4. \A q \in Runs : pc'[q] # "addRetry"
  BY <1>2 DEF AddRetry, SoleChain, Working
<1>5. \A n \in 1..MaxRetries : jobState'[RetryJob(n)] # "none" => n <= retryCount
  <2> SUFFICES ASSUME NEW n \in 1..MaxRetries, n # retryCount, jobState'[RetryJob(n)] # "none"
               PROVE  n <= retryCount
    BY <1>1
  <2>1. RetryJob(n) # RetryJob(retryCount) /\ RetryJob(n) \in Jobs
    BY <1>1, JobsDiffer, JobFacts
  <2>2. jobState[RetryJob(n)] # "none"
    BY <1>2, <2>1
  <2> QED
    BY <2>2 DEF JobIdsAreNew
<1>6. \A k \in Replays : jobState'[ReplayJob(k)] = jobState[ReplayJob(k)]
  BY <1>1, <1>2, JobsDiffer, JobFacts
<1> QED
  BY <1>2, <1>3, <1>4, <1>5, <1>6 DEF JobIdsAreNew, RetryJob, ReplayJob

LEMMA ReplayKeepsIds ==
  ASSUME TypeInv, RunsOK, SoleChain, JobIdsAreNew, NEW k \in Replays, ReplayAdd(k)
  PROVE  JobIdsAreNew' /\ Waiting' # {}
<1> USE DEF TypeInv, TypeOK
<1>1. jobState[ReplayJob(k)] = "none" /\ ReplayJob(k) \in Jobs
  BY JobFacts DEF ReplayAdd, JobIdsAreNew, ReplayJob
<1>2. /\ jobState' = [jobState EXCEPT ![ReplayJob(k)] = "waiting"]
      /\ UNCHANGED <<retryCount, readCount, pc>>
      /\ replay' = [replay EXCEPT ![k] = "done"]
  BY <1>1 DEF ReplayAdd, AddJob, rowVars
<1>3. Waiting' # {}
  BY <1>1, <1>2 DEF Waiting
<1>4. \A q \in Runs : pc[q] # "addRetry"
  BY DEF ReplayAdd, SoleChain, Working, Reopening
<1>5. \A n \in 1..MaxRetries : jobState'[RetryJob(n)] = jobState[RetryJob(n)]
  BY <1>1, <1>2, JobsDiffer, JobFacts
<1>6. \A l \in Replays : l # k => jobState'[ReplayJob(l)] = jobState[ReplayJob(l)]
  BY <1>1, <1>2, JobsDiffer, JobFacts
<1> QED
  BY <1>2, <1>3, <1>4, <1>5, <1>6 DEF JobIdsAreNew, RetryJob, ReplayJob

LEMMA StepCarriedInv ==
  ASSUME Undisturbed, TypeInv, RunsOK, SoleChain, CarriedInv, [Next]_vars
  PROVE  CarriedInv'
<1>0. Orderly /\ "store_error" \notin Faults /\ "endpoint_patched" \notin Faults
  BY DEF Undisturbed
<1> USE DEF TypeInv, TypeOK
<1>1. ASSUME NEW j \in Jobs, Deliver(j) PROVE CarriedInv'
  <2>1. <<j, deliveries[j] + 1>> \in Runs
    BY <1>1, JobFacts, DispatcherBounds DEF Deliver, RunsOK, DeliveriesOK
  <2>2. /\ UNCHANGED <<isEnabled, status, retryCount, readCount, replay>>
        /\ pc' = [pc EXCEPT ![<<j, deliveries[j] + 1>>] = "find"]
        /\ \A i \in Jobs : jobState'[i] # "none" => jobState[i] # "none"
    BY <1>1 DEF Deliver, GoTo, rowVars
  <2>3. JobIdsAreNew'
    <3>1. \A r \in Runs : pc'[r] = "addRetry" => pc[r] = "addRetry" /\ readCount'[r] = readCount[r]
      BY <2>1, <2>2
    <3> QED
      BY <2>2, <3>1, QuietKeepsIds DEF CarriedInv
  <2>4. <<j, deliveries[j] + 1>> \in Working'
    BY <2>1, <2>2 DEF Working
  <2> QED
    BY <2>2, <2>3, <2>4 DEF CarriedInv, OpenRowIsCarried
<1>2. ASSUME NEW j \in Jobs, StalledAfterCrash(j) \/ LockExpires(j) PROVE FALSE
  <2>1. ~LockExpires(j)
    BY <1>0 DEF Orderly, LockExpires
  <2>2. ASSUME jobState[j] = "active" PROVE Current(j) \in Runs
    BY <2>2, JobFacts, DispatcherBounds DEF Current, RunsOK, DeliveriesOK
  <2> QED
    BY <1>2, <2>1, <2>2 DEF StalledAfterCrash, SoleChain
<1>3. ASSUME NEW r \in Runs, Crash(r) PROVE FALSE
  BY <1>0, <1>3, OrderlyMeans, JobFacts
<1>4. ASSUME NEW r \in Runs, StoreError(r) PROVE FALSE
  BY <1>0, <1>4 DEF StoreError
<1>5. ASSUME NEW k \in Replays, ReplayFails(k) PROVE FALSE
  BY <1>0, <1>5 DEF ReplayFails
<1>6. ~PatchEndpoint
  BY <1>0 DEF PatchEndpoint
(* The run stays at work, or it leaves a settled row alone.                *)
<1>7. ASSUME NEW r \in Runs, FindRow(r) \/ FindEndpoint(r) \/ Post(r) PROVE CarriedInv'
  <2>1. /\ UNCHANGED <<isEnabled, status, retryCount, jobState, replay>>
        /\ \A q \in Runs : pc'[q] = "addRetry" => pc[q] = "addRetry" /\ readCount'[q] = readCount[q]
    BY <1>7 DEF FindRow, FindEndpoint, Post, GoTo, rowVars, queueVars
  <2>2. JobIdsAreNew'
    BY <2>1, QuietKeepsIds DEF CarriedInv
  <2>3. status \in SettledStatuses \/ r \in Working'
    BY <1>7 DEF FindRow, FindEndpoint, Post, GoTo, Working, CarriedInv
  <2> QED
    BY <2>1, <2>2, <2>3 DEF CarriedInv, OpenRowIsCarried, OpenStatuses, SettledStatuses
<1>8. ASSUME NEW r \in Runs, MarkDelivered(r) \/ MarkDead(r) PROVE CarriedInv'
  <2>1. /\ UNCHANGED <<isEnabled, retryCount, jobState, replay>> /\ status' \in SettledStatuses
        /\ \A q \in Runs : pc'[q] = "addRetry" => pc[q] = "addRetry" /\ readCount'[q] = readCount[q]
    BY <1>8 DEF MarkDelivered, MarkDead, GoTo, queueVars, SettledStatuses
  <2>2. JobIdsAreNew'
    BY <2>1, QuietKeepsIds DEF CarriedInv
  <2> QED
    BY <2>1, <2>2 DEF CarriedInv, OpenRowIsCarried, OpenStatuses, SettledStatuses
<1>9. ASSUME NEW r \in Runs, IncrementRetry(r) PROVE CarriedInv'
  <2>1. isEnabled' = isEnabled /\ r \in Working'
    BY <1>9 DEF IncrementRetry, GoTo, Working
  <2> QED
    BY <1>9, <2>1, CountKeepsIds DEF CarriedInv, OpenRowIsCarried
<1>10. ASSUME NEW r \in Runs, AddRetry(r) PROVE CarriedInv'
  BY <1>10, AddRetryKeepsIds DEF AddRetry, CarriedInv, OpenRowIsCarried
<1>11. ASSUME NEW r \in Runs, Finish(r) PROVE CarriedInv'
  <2>1. /\ UNCHANGED <<isEnabled, status, retryCount, replay>>
        /\ \A i \in Jobs : jobState'[i] # "none" => jobState[i] # "none"
        /\ \A q \in Runs : pc'[q] = "addRetry" => pc[q] = "addRetry" /\ readCount'[q] = readCount[q]
    BY <1>11, JobFacts DEF Finish, GoTo, rowVars
  <2>2. JobIdsAreNew'
    BY <2>1, QuietKeepsIds DEF CarriedInv
  <2>3. Waiting' = Waiting /\ Working' = Working
    BY <1>11, JobFacts DEF Finish, GoTo, Waiting, Working
  <2> QED
    BY <2>1, <2>2, <2>3 DEF CarriedInv, OpenRowIsCarried
<1>12. ASSUME NEW k \in Replays, ReplayFind(k) \/ ReplayReset(k) PROVE CarriedInv'
  <2>1. /\ UNCHANGED <<isEnabled, retryCount, jobState, pc, readCount>>
        /\ \A l \in Replays : replay'[l] # "done" => replay[l] # "done"
    BY <1>12 DEF ReplayFind, ReplayReset, rowVars, queueVars
  <2>2. JobIdsAreNew'
    BY <2>1, QuietKeepsIds DEF CarriedInv
  <2>3. status' \in SettledStatuses \/ replay'[k] = "add"
    BY <1>0, <1>12 DEF ReplayFind, ReplayReset, rowVars, Orderly, AtRest
  <2> QED
    BY <2>1, <2>2, <2>3 DEF CarriedInv, OpenRowIsCarried, OpenStatuses, SettledStatuses
<1>13. ASSUME NEW k \in Replays, ReplayAdd(k) PROVE CarriedInv'
  BY <1>13, ReplayKeepsIds DEF ReplayAdd, CarriedInv, OpenRowIsCarried
<1>14. CASE UNCHANGED vars
  <2>1. UNCHANGED <<isEnabled, status, retryCount, jobState, pc, readCount, replay>>
    BY <1>14 DEF vars, rowVars, queueVars
  <2>2. JobIdsAreNew'
    BY <2>1, QuietKeepsIds DEF CarriedInv
  <2> QED
    BY <2>1, <2>2 DEF CarriedInv, OpenRowIsCarried, Waiting, Working
<1> QED
  BY <1>1, <1>2, <1>3, <1>4, <1>5, <1>6, <1>7, <1>8, <1>9, <1>10, <1>11, <1>12, <1>13, <1>14
  DEF Next, Progress

(* With no crash, lost lock, hasty replay, disabled endpoint or failing    *)
(* store no row is forgotten: until it is DELIVERED or DEAD a job of its   *)
(* waits, a run is at work on it, or a replay is about to add a job.       *)
THEOREM OpenRowsAreCarried ==
  ASSUME Undisturbed
  PROVE  Spec => []OpenRowIsCarried
<1>0. Orderly
  BY DEF Undisturbed
<1>1. Init => OrderlyInv /\ CarriedInv
  <2> SUFFICES ASSUME Init PROVE CarriedInv
    BY InitOrderlyInv
  <2>1. jobState[DispatchJob] = "waiting" /\ DispatchJob \in Jobs
    BY JobFacts DEF Init
  <2>2. JobIdsAreNew
    <3>1. \A n \in 1..MaxRetries : jobState[RetryJob(n)] = "none"
      BY JobFacts, RetriesAssumption DEF Init, RetryJob, DispatchJob
    <3>2. \A k \in Replays : jobState[ReplayJob(k)] = "none"
      BY JobFacts DEF Init, ReplayJob, DispatchJob
    <3>3. \A r \in Runs : pc[r] # "addRetry"
      BY DEF Init
    <3> QED
      BY <3>1, <3>2, <3>3 DEF JobIdsAreNew
  <2> QED
    BY <2>1, <2>2 DEF Init, CarriedInv, OpenRowIsCarried, Waiting
<1>2. OrderlyInv /\ CarriedInv /\ [Next]_vars => OrderlyInv' /\ CarriedInv'
  <2> SUFFICES ASSUME OrderlyInv, CarriedInv, [Next]_vars PROVE OrderlyInv' /\ CarriedInv'
    OBVIOUS
  <2>1. TypeInv /\ RunsOK /\ SoleChain
    BY DEF OrderlyInv, DispatcherInv, TypeInv, RunsOK, DeliveriesOK, RunOK
  <2> QED
    BY <1>0, <2>1, StepOrderlyInv, StepCarriedInv
<1>3. CarriedInv => OpenRowIsCarried
  BY DEF CarriedInv
<1> QED
  BY <1>1, <1>2, <1>3, PTL DEF Spec
=============================================================================
