---------------------------- MODULE JobQueueProofs ----------------------------
(***************************************************************************)
(* What holds of JobQueue for every number of jobs, workers, requests and  *)
(* retries: its types, as many rows for a run as requests overlap, and,    *)
(* when they do not overlap, exclusive claims, final completion, the retry *)
(* budget and the life cycle.                                              *)
(***************************************************************************)
EXTENDS JobQueueRefinement, FiniteSetTheorems, TLAPS

\* An ORM commit writes either the value it intends or nothing.
LEMMA WrittenIsOneOfTwo ==
  ASSUME NEW current, NEW seen, NEW new
  PROVE  Written(current, seen, new) \in {current, new}
BY DEF Written

-----------------------------------------------------------------------------
(* Types. *)

\* The initial states are well typed.
LEMMA InitTypes == Init => TypeOK
BY MaxAttemptsAssumption, BoundsAssumption
DEF Init, TypeOK, TableTypes, WorkerTypes, CallTypes, IdleWorker, IdleCall, WorkerType,
    CallType, WorkerSteps, CallSteps, Outcomes, Statuses, Claimable, Retryable

\* A request whose locals become the well-typed record `new` keeps CallTypes.
LEMMA CallUpdate ==
  ASSUME CallTypes, NEW c \in Callers, NEW new \in CallType,
         call' = [call EXCEPT ![c] = new],
         new.step \in {"loaded", "publishing"} => new.job \in Jobs,
         new.step = "checked" => new.key \in Keys
  PROVE  CallTypes'
BY DEF CallTypes

\* The same for a worker.
LEMMA WorkerUpdate ==
  ASSUME WorkerTypes, NEW w \in Workers, NEW new \in WorkerType,
         worker' = [worker EXCEPT ![w] = new],
         new.step \notin {"down", "idle"} => new.job \in Jobs
  PROVE  WorkerTypes'
BY DEF WorkerTypes

\* Every step of an API request keeps the types.
LEMMA CallStepTypes ==
  ASSUME TypeOK, NEW c \in Callers, NewCall(c) \/ CallStep(c)
  PROVE  TypeOK'
<1> USE DEF TypeOK, jobRow, bounds
<1>1. IdleCall \in CallType
  BY MaxAttemptsAssumption DEF IdleCall, CallType, CallSteps, Statuses
<1>2. ASSUME NEW k \in Keys, NEW d \in Deliveries \cup {None}, CheckDuplicate(c, k, d)
      PROVE  TypeOK'
  <2> DEFINE new == [IdleCall EXCEPT !.step = "checked", !.key = k, !.delivery = d]
  <2>1. new \in CallType /\ new.step = "checked" /\ new.key = k
    BY <1>1 DEF IdleCall, CallType, CallSteps
  <2>2. call' = [call EXCEPT ![c] = new]
    BY <1>2 DEF CheckDuplicate
  <2> HIDE DEF new
  <2>3. CallTypes'
    BY <2>1, <2>2, CallUpdate
  <2>4. QED
    BY <1>2, <2>3 DEF CheckDuplicate, TableTypes, WorkerTypes
<1>3. ASSUME NEW j \in Jobs, LoadForRetry(c, j)
      PROVE  TypeOK'
  <2> DEFINE new == [IdleCall EXCEPT !.step = "loaded", !.job = j,
                       !.seenStatus = status[j], !.seenAttempts = attempts[j]]
  <2>1. new \in CallType /\ new.step = "loaded" /\ new.job = j
    BY <1>1 DEF IdleCall, CallType, CallSteps, TableTypes
  <2>2. call' = [call EXCEPT ![c] = new]
    BY <1>3 DEF LoadForRetry
  <2> HIDE DEF new
  <2>3. CallTypes'
    BY <2>1, <2>2, CallUpdate
  <2>4. manualRetries' \in 0..MaxManualRetries
    BY <1>3, BoundsAssumption DEF LoadForRetry, TableTypes
  <2>5. QED
    BY <1>3, <2>3, <2>4 DEF LoadForRetry, TableTypes, WorkerTypes
<1>4. ASSUME NEW j \in Jobs, Insert(c, j)
      PROVE  TypeOK'
  <2> DEFINE new == [call[c] EXCEPT !.step = "publishing", !.job = j]
  <2>1. new \in CallType /\ new.step = "publishing" /\ new.job = j
    BY DEF CallTypes, CallType, CallSteps
  <2>2. call' = [call EXCEPT ![c] = new]
    BY <1>4 DEF Insert, CallTypes
  <2> HIDE DEF new
  <2>3. CallTypes'
    BY <2>1, <2>2, CallUpdate
  <2>4. call[c].key \in Keys \cup {None} /\ call[c].delivery \in Deliveries \cup {None}
    BY DEF CallTypes, CallType
  <2>5. TableTypes'
    BY <1>4, <2>4 DEF Insert, TableTypes, Statuses, Claimable
  <2>6. QED
    BY <1>4, <2>3, <2>5 DEF Insert, WorkerTypes
<1>5. CASE InsertRejected(c)
  <2>1. CallTypes'
    BY <1>1, <1>5, CallUpdate DEF InsertRejected, IdleCall
  <2>2. QED
    BY <1>5, <2>1 DEF InsertRejected, TableTypes, WorkerTypes
<1>6. CASE Publish(c)
  <2>1. CallTypes'
    BY <1>1, <1>6, CallUpdate DEF Publish, IdleCall
  <2>2. call[c].job \in Jobs
    BY <1>6 DEF Publish, CallTypes
  <2>3. TableTypes'
    BY <1>6, <2>2 DEF Publish, TableTypes
  <2>4. QED
    BY <1>6, <2>1, <2>3 DEF Publish, WorkerTypes
<1>7. CASE CommitRetry(c)
  <2> DEFINE new == [IdleCall EXCEPT !.step = "publishing", !.job = call[c].job]
  <2>1. call[c].job \in Jobs
    BY <1>7 DEF CommitRetry, CallTypes
  <2>2. new \in CallType /\ new.step = "publishing" /\ new.job \in Jobs
    BY <1>1, <2>1 DEF IdleCall, CallType, CallSteps
  <2>3. call' = [call EXCEPT ![c] = new]
    BY <1>7 DEF CommitRetry
  <2> HIDE DEF new
  <2>4. CallTypes'
    BY <2>2, <2>3, CallUpdate
  <2>5. TableTypes'
    BY <1>7, <2>1, MaxAttemptsAssumption
    DEF CommitRetry, Written, TableTypes, Statuses, Claimable
  <2>6. QED
    BY <1>7, <2>4, <2>5 DEF CommitRetry, WorkerTypes
<1>8. QED
  BY <1>2, <1>3, <1>4, <1>5, <1>6, <1>7 DEF NewCall, CallStep

\* Moving on, finishing and leaving `finally` keep a worker's locals well typed.
LEMMA GotoTypes ==
  ASSUME WorkerTypes, NEW w \in Workers, NEW next \in WorkerSteps,
         worker[w].job \in Jobs, Goto(w, next)
  PROVE  WorkerTypes'
<1> DEFINE new == [worker[w] EXCEPT !.step = next]
<1>1. new \in WorkerType /\ new.job \in Jobs
  BY DEF WorkerTypes, WorkerType
<1>2. worker' = [worker EXCEPT ![w] = new]
  BY DEF Goto, WorkerTypes
<1> HIDE DEF new
<1>3. QED
  BY <1>1, <1>2, WorkerUpdate

LEMMA FinishTypes ==
  ASSUME WorkerTypes, NEW w \in Workers, Finish(w)
  PROVE  WorkerTypes'
<1>1. IdleWorker \in WorkerType /\ IdleWorker.step = "idle"
  BY MaxAttemptsAssumption DEF IdleWorker, WorkerType, WorkerSteps, Outcomes, Statuses
<1>2. QED
  BY <1>1, WorkerUpdate DEF Finish

LEMMA AfterReleaseTypes ==
  ASSUME WorkerTypes, NEW w \in Workers, worker[w].job \in Jobs, AfterRelease(w)
  PROVE  WorkerTypes'
<1> DEFINE new == [worker[w] EXCEPT !.step = "loading", !.token = FALSE]
<1>1. new \in WorkerType /\ new.job \in Jobs
  BY DEF WorkerTypes, WorkerType, WorkerSteps
<1>2. CASE Finish(w)
  BY <1>2, FinishTypes
<1>3. CASE worker' = [worker EXCEPT ![w].step = "loading", ![w].token = FALSE]
  <2>1. worker' = [worker EXCEPT ![w] = new]
    BY <1>3 DEF WorkerTypes
  <2> HIDE DEF new
  <2>2. QED
    BY <1>1, <2>1, WorkerUpdate
<1>4. QED
  BY <1>2, <1>3 DEF AfterRelease

\* A commit of a status writes the intended one or leaves the column alone.
LEMMA CommitStatusTypes ==
  ASSUME TableTypes, NEW w \in Workers, worker[w].job \in Jobs,
         NEW new \in Statuses, CommitStatus(w, new)
  PROVE  status' \in [Jobs -> Statuses]
BY DEF CommitStatus, Written, TableTypes

\* Every step of a running worker keeps the types.
LEMMA WorkerStepTypes ==
  ASSUME TypeOK, NEW w \in Workers, WorkerStep(w)
  PROVE  TypeOK'
<1> USE DEF TypeOK, jobRow, bounds
<1> DEFINE job == worker[w].job
<1>0. worker[w].step \notin {"down", "idle"} => job \in Jobs
  BY DEF WorkerTypes
<1>1. CASE Pop(w)
  <2> DEFINE new == [worker[w] EXCEPT !.step = "popped", !.job = Head(queue)]
  <2>1. Head(queue) \in Jobs /\ Tail(queue) \in Seq(Jobs)
    BY <1>1 DEF Pop, TableTypes
  <2>2. new \in WorkerType /\ new.job \in Jobs
    BY <2>1 DEF WorkerTypes, WorkerType, WorkerSteps
  <2>3. worker' = [worker EXCEPT ![w] = new]
    BY <1>1 DEF Pop, WorkerTypes
  <2> HIDE DEF new
  <2>4. WorkerTypes'
    BY <2>2, <2>3, WorkerUpdate
  <2>5. QED
    BY <1>1, <2>1, <2>4 DEF Pop, TableTypes, CallTypes
<1>2. CASE Claim(w)
  <2>1. WorkerTypes'
    BY <1>0, <1>2, GotoTypes DEF Claim, WorkerSteps
  <2>2. TableTypes'
    BY <1>0, <1>2 DEF Claim, TableTypes, Statuses
  <2>3. QED
    BY <1>2, <2>1, <2>2 DEF Claim, CallTypes
<1>3. CASE ClaimSkipped(w)
  BY <1>3, FinishTypes DEF ClaimSkipped, TableTypes, CallTypes
<1>4. CASE AcquireLock(w)
  <2> DEFINE new == [worker[w] EXCEPT !.step = "handling", !.token = (lock[job] = None)]
  <2>1. new \in WorkerType /\ new.job \in Jobs
    BY <1>0, <1>4 DEF AcquireLock, WorkerTypes, WorkerType, WorkerSteps
  <2>2. worker' = [worker EXCEPT ![w] = new]
    BY <1>4 DEF AcquireLock, WorkerTypes
  <2> HIDE DEF new
  <2>3. WorkerTypes'
    BY <2>1, <2>2, WorkerUpdate
  <2>4. TableTypes'
    BY <1>0, <1>4 DEF AcquireLock, TableTypes
  <2>5. QED
    BY <1>4, <2>3, <2>4 DEF AcquireLock, CallTypes
<1>5. CASE HandlerReturns(w)
  <2> DEFINE new == [worker[w] EXCEPT !.step = "releasing", !.outcome = "returned"]
  <2>1. new \in WorkerType /\ new.job \in Jobs
    BY <1>0, <1>5 DEF HandlerReturns, WorkerTypes, WorkerType, WorkerSteps, Outcomes
  <2>2. worker' = [worker EXCEPT ![w] = new]
    BY <1>5 DEF HandlerReturns, WorkerTypes
  <2> HIDE DEF new
  <2>3. WorkerTypes'
    BY <2>1, <2>2, WorkerUpdate
  <2>4. QED
    BY <1>5, <2>3 DEF HandlerReturns, TableTypes, CallTypes
<1>6. ASSUME NEW kind \in {"temporary", "permanent"}, HandlerRaises(w, kind)
      PROVE  TypeOK'
  <2> DEFINE new == [worker[w] EXCEPT !.step = "loading", !.outcome = kind]
  <2>1. new \in WorkerType /\ new.job \in Jobs
    BY <1>0, <1>6 DEF HandlerRaises, WorkerTypes, WorkerType, WorkerSteps, Outcomes
  <2>2. worker' = [worker EXCEPT ![w] = new]
    BY <1>6 DEF HandlerRaises, WorkerTypes
  <2> HIDE DEF new
  <2>3. WorkerTypes'
    BY <2>1, <2>2, WorkerUpdate
  <2>4. QED
    BY <1>6, <2>3 DEF HandlerRaises, TableTypes, CallTypes
<1>7. CASE LoadRow(w)
  <2> DEFINE new == [worker[w] EXCEPT !.step = "committing", !.seenStatus = status[job],
                                      !.seenAttempts = attempts[job]]
  <2>1. status[job] \in Statuses /\ attempts[job] \in 0..MaxAttempts
    BY <1>0, <1>7 DEF LoadRow, TableTypes
  <2>2. new \in WorkerType /\ new.job \in Jobs
    BY <1>0, <1>7, <2>1 DEF LoadRow, WorkerTypes, WorkerType, WorkerSteps
  <2>3. worker' = [worker EXCEPT ![w] = new]
    BY <1>7 DEF LoadRow, WorkerTypes
  <2> HIDE DEF new
  <2>4. WorkerTypes'
    BY <2>2, <2>3, WorkerUpdate
  <2>5. QED
    BY <1>7, <2>4 DEF LoadRow, TableTypes, CallTypes
<1>8. CASE ScheduleRetry(w)
  <2>1. WorkerTypes'
    BY <1>0, <1>8, GotoTypes DEF ScheduleRetry, WorkerSteps
  <2>2. worker[w].seenAttempts + 1 \in 0..MaxAttempts
    BY <1>8, MaxAttemptsAssumption DEF ScheduleRetry, AttemptsLeft, WorkerTypes, WorkerType
  <2>3. status' \in [Jobs -> Statuses]
    BY <1>0, <1>8, CommitStatusTypes DEF ScheduleRetry, Statuses, Claimable
  <2>4. QED
    BY <1>8, <2>1, <2>2, <2>3 DEF ScheduleRetry, TableTypes, CallTypes
<1>9. CASE GiveUp(w)
  <2>1. WorkerTypes'
    BY <1>0, <1>9, GotoTypes DEF GiveUp, WorkerSteps
  <2>2. status' \in [Jobs -> Statuses]
    BY <1>0, <1>9, CommitStatusTypes DEF GiveUp, Statuses, Retryable
  <2>3. QED
    BY <1>9, <2>1, <2>2 DEF GiveUp, TableTypes, CallTypes
<1>10. CASE Republish(w)
  <2>1. WorkerTypes'
    BY <1>0, <1>10, GotoTypes DEF Republish, WorkerSteps
  <2>2. QED
    BY <1>0, <1>10, <2>1 DEF Republish, TableTypes, CallTypes
<1>11. CASE ReadLock(w)
  <2>1. WorkerTypes'
    BY <1>0, <1>11, GotoTypes, AfterReleaseTypes DEF ReadLock, WorkerSteps
  <2>2. QED
    BY <1>11, <2>1 DEF ReadLock, TableTypes, CallTypes
<1>12. CASE DeleteLock(w)
  <2>1. WorkerTypes'
    BY <1>0, <1>12, AfterReleaseTypes DEF DeleteLock
  <2>2. QED
    BY <1>12, <2>1 DEF DeleteLock, TableTypes, CallTypes
<1>13. CASE Complete(w)
  <2>1. status' \in [Jobs -> Statuses]
    BY <1>0, <1>13, CommitStatusTypes DEF Complete, Statuses
  <2>2. QED
    BY <1>13, <2>1, FinishTypes DEF Complete, TableTypes, CallTypes
<1>14. CASE Restart(w)
  BY <1>14, FinishTypes DEF Restart, TableTypes, CallTypes
<1>15. QED
  BY <1>1, <1>2, <1>3, <1>4, <1>5, <1>6, <1>7, <1>8, <1>9, <1>10, <1>11, <1>12, <1>13,
     <1>14 DEF WorkerStep

\* Crashes, Redis failures and expiring locks keep the types.
LEMMA DisruptionTypes ==
  ASSUME TypeOK, Disruption \/ \E j \in Jobs : ExpireLock(j)
  PROVE  TypeOK'
<1> USE DEF TypeOK, jobRow, bounds
<1>0. Disrupt => disruptions' \in 0..MaxDisruptions
  BY BoundsAssumption DEF Disrupt, TableTypes
<1>1. ASSUME NEW c \in Callers, PublishSwallowed(c)
      PROVE  TypeOK'
  <2>1. IdleCall \in CallType
    BY MaxAttemptsAssumption DEF IdleCall, CallType, CallSteps, Statuses
  <2>2. CallTypes'
    BY <1>1, <2>1, CallUpdate DEF PublishSwallowed, IdleCall
  <2>3. QED
    BY <1>0, <1>1, <2>2 DEF PublishSwallowed, TableTypes, WorkerTypes
<1>2. ASSUME NEW w \in Workers, AcquireRaises(w)
      PROVE  TypeOK'
  BY <1>0, <1>2, FinishTypes DEF AcquireRaises, TableTypes, CallTypes
<1>3. ASSUME NEW w \in Workers, RepublishSwallowed(w)
      PROVE  TypeOK'
  <2>1. worker[w].job \in Jobs
    BY <1>3 DEF RepublishSwallowed, WorkerTypes
  <2>2. WorkerTypes'
    BY <1>3, <2>1, GotoTypes DEF RepublishSwallowed, WorkerSteps
  <2>3. QED
    BY <1>0, <1>3, <2>2 DEF RepublishSwallowed, TableTypes, CallTypes
<1>4. ASSUME NEW w \in Workers, ReleaseRaises(w)
      PROVE  TypeOK'
  BY <1>0, <1>4, FinishTypes DEF ReleaseRaises, TableTypes, CallTypes
<1>5. ASSUME NEW w \in Workers, Crash(w)
      PROVE  TypeOK'
  <2> DEFINE new == [IdleWorker EXCEPT !.step = "down"]
  <2>0. IdleWorker \in WorkerType
    BY MaxAttemptsAssumption DEF IdleWorker, WorkerType, WorkerSteps, Outcomes, Statuses
  <2>1. new \in WorkerType /\ new.step = "down"
    BY <2>0 DEF WorkerType, WorkerSteps
  <2>2. worker' = [worker EXCEPT ![w] = new]
    BY <1>5 DEF Crash
  <2> HIDE DEF new
  <2>3. WorkerTypes'
    BY <2>1, <2>2, WorkerUpdate
  <2>4. QED
    BY <1>0, <1>5, <2>3 DEF Crash, TableTypes, CallTypes
<1>6. ASSUME NEW j \in Jobs, ExpireLock(j)
      PROVE  TypeOK'
  BY <1>6 DEF ExpireLock, TableTypes, WorkerTypes, CallTypes
<1>7. QED
  BY <1>1, <1>2, <1>3, <1>4, <1>5, <1>6 DEF Disruption

\* The table, the queue, the locks and the locals of workers and requests keep
\* their types in every behaviour: in particular jobs.retry never counts past
\* worker_max_attempts, however many requests overlap.
THEOREM TypeCorrect == Spec => []TypeOK
<1>1. ASSUME TypeOK, [Next]_vars
      PROVE  TypeOK'
  <2>1. CASE UNCHANGED vars
    BY <1>1, <2>1 DEF vars, TypeOK, TableTypes, WorkerTypes, CallTypes
  <2>2. CASE Next
    BY <1>1, <2>2, CallStepTypes, WorkerStepTypes, DisruptionTypes DEF Next
  <2>3. QED
    BY <1>1, <2>1, <2>2
<1>2. QED
  BY InitTypes, <1>1, PTL DEF Spec

-----------------------------------------------------------------------------
(* Exclusive claims. *)

\* Whoever executes a job keeps its row RUNNING.
ExecutingIsRunning ==
  \A w \in Workers, j \in Jobs : Executes(w, j) => status[j] = "RUNNING"

\* The row a worker is about to commit to has not changed since it was loaded.
LoadedIsFresh ==
  \A w \in Workers : worker[w].step = "committing" =>
    /\ worker[w].seenStatus = "RUNNING"
    /\ worker[w].seenAttempts = attempts[worker[w].job]

\* Only a failed execution is published again.
RepublishedHasFailed ==
  \A w \in Workers : worker[w].step = "publishing" => worker[w].outcome = "temporary"

\* The row a retry request is about to reset has not changed since it was loaded.
RequestIsFresh ==
  \A c \in Callers : call[c].step = "loaded" =>
    /\ status[call[c].job] \in Retryable
    /\ call[c].seenStatus = status[call[c].job]
    /\ call[c].seenAttempts = attempts[call[c].job]

\* The strengthening of ClaimExclusive that every step preserves.
ExclusiveInv ==
  /\ ClaimExclusive
  /\ ExecutingIsRunning
  /\ LoadedIsFresh
  /\ RepublishedHasFailed
  /\ RequestIsFresh

LEMMA InitExclusive == Init => ExclusiveInv
BY NoneAssumption
DEF Init, ExclusiveInv, ClaimExclusive, ExecutingIsRunning, LoadedIsFresh,
    RepublishedHasFailed, RequestIsFresh, Executes, IdleWorker, IdleCall

\* Requests: an insert and a manual reset touch only rows nobody executes.
LEMMA CallStepExclusive ==
  ASSUME TypeOK, ExclusiveInv, SerialCallers, NEW c \in Callers, NewCall(c) \/ CallStep(c)
  PROVE  ExclusiveInv'
<1> USE DEF TypeOK, ExclusiveInv, jobRow, bounds
<1>1. ASSUME NEW k \in Keys, NEW d \in Deliveries \cup {None}, CheckDuplicate(c, k, d)
      PROVE  ExclusiveInv'
  <2>1. RequestIsFresh'
    BY <1>1 DEF CheckDuplicate, RequestIsFresh, IdleCall, CallTypes
  <2>2. QED
    BY <1>1, <2>1 DEF CheckDuplicate, ClaimExclusive, ExecutingIsRunning, LoadedIsFresh,
                      RepublishedHasFailed, Executes
<1>2. ASSUME NEW j \in Jobs, LoadForRetry(c, j)
      PROVE  ExclusiveInv'
  <2>1. RequestIsFresh'
    BY <1>2 DEF LoadForRetry, RequestIsFresh, IdleCall, CallTypes
  <2>2. QED
    BY <1>2, <2>1 DEF LoadForRetry, ClaimExclusive, ExecutingIsRunning, LoadedIsFresh,
                      RepublishedHasFailed, Executes
<1>3. ASSUME NEW j \in Jobs, Insert(c, j)
      PROVE  ExclusiveInv'
  <2>1. RequestIsFresh'
    BY <1>3 DEF Insert, RequestIsFresh, CallTypes, SerialCallers
  <2>2. ExecutingIsRunning'
    BY <1>3 DEF Insert, ExecutingIsRunning, Executes, TableTypes
  <2>3. QED
    BY <1>3, <2>1, <2>2 DEF Insert, ClaimExclusive, LoadedIsFresh, RepublishedHasFailed,
                            Executes
<1>4. CASE InsertRejected(c)
  <2>1. RequestIsFresh'
    BY <1>4 DEF InsertRejected, RequestIsFresh, IdleCall, CallTypes
  <2>2. QED
    BY <1>4, <2>1 DEF InsertRejected, ClaimExclusive, ExecutingIsRunning, LoadedIsFresh,
                      RepublishedHasFailed, Executes
<1>5. CASE Publish(c)
  <2>1. RequestIsFresh'
    BY <1>5 DEF Publish, RequestIsFresh, IdleCall, CallTypes
  <2>2. QED
    BY <1>5, <2>1 DEF Publish, ClaimExclusive, ExecutingIsRunning, LoadedIsFresh,
                      RepublishedHasFailed, Executes
<1>6. CASE CommitRetry(c)
  <2>1. RequestIsFresh'
    BY <1>6 DEF CommitRetry, RequestIsFresh, IdleCall, CallTypes, SerialCallers
  <2>2. /\ call[c].job \in Jobs
        /\ status[call[c].job] # "RUNNING"
    BY <1>6 DEF CommitRetry, CallTypes, RequestIsFresh, Retryable
  <2>3. ExecutingIsRunning'
    BY <1>6, <2>2 DEF CommitRetry, ExecutingIsRunning, Executes, TableTypes
  <2>4. \A w \in Workers : worker[w].step = "committing" => worker[w].job # call[c].job
    BY <2>2 DEF ExecutingIsRunning, Executes
  <2>5. LoadedIsFresh'
    BY <1>6, <2>4 DEF CommitRetry, LoadedIsFresh, TableTypes, WorkerTypes
  <2>6. QED
    BY <1>6, <2>1, <2>3, <2>5 DEF CommitRetry, ClaimExclusive, RepublishedHasFailed, Executes
<1>7. QED
  BY <1>1, <1>2, <1>3, <1>4, <1>5, <1>6 DEF NewCall, CallStep

\* Only w's locals change, and w takes up no job it was not executing.
OnlyContinues(w) ==
  /\ \A v \in Workers \ {w} : worker'[v] = worker[v]
  /\ \A j \in Jobs : Executes(w, j)' => Executes(w, j)

\* Such a step keeps claims exclusive as long as it does not touch the table.
LEMMA ContinuingKeepsClaims ==
  ASSUME ExclusiveInv, NEW w \in Workers, OnlyContinues(w), UNCHANGED status
  PROVE  ClaimExclusive' /\ ExecutingIsRunning'
<1>1. \A v \in Workers, j \in Jobs : Executes(v, j)' => Executes(v, j)
  BY DEF OnlyContinues, Executes
<1>2. QED
  BY <1>1 DEF ExclusiveInv, ClaimExclusive, ExecutingIsRunning

\* A worker that finishes stops executing, commits nothing and publishes nothing.
LEMMA FinishKeepsInv ==
  ASSUME WorkerTypes, ExclusiveInv, NEW w \in Workers, Finish(w),
         UNCHANGED <<status, attempts, call>>
  PROVE  ExclusiveInv'
<1>1. OnlyContinues(w)
  BY DEF Finish, OnlyContinues, Executes, IdleWorker, WorkerTypes
<1>2. ClaimExclusive' /\ ExecutingIsRunning'
  BY <1>1, ContinuingKeepsClaims
<1>3. LoadedIsFresh' /\ RepublishedHasFailed'
  BY DEF Finish, ExclusiveInv, LoadedIsFresh, RepublishedHasFailed, IdleWorker, WorkerTypes
<1>4. QED
  BY <1>2, <1>3 DEF ExclusiveInv, RequestIsFresh

\* Leaving `finally` keeps the invariant: only a returned handler goes on to commit.
LEMMA AfterReleaseKeepsInv ==
  ASSUME WorkerTypes, ExclusiveInv, NEW w \in Workers, AfterRelease(w),
         worker[w].step \in {"releasing", "deleting"}, UNCHANGED <<status, attempts, call>>
  PROVE  ExclusiveInv'
<1>1. CASE Finish(w)
  BY <1>1, FinishKeepsInv
<1>2. CASE /\ worker[w].outcome = "returned"
           /\ worker' = [worker EXCEPT ![w].step = "loading", ![w].token = FALSE]
  <2>1. OnlyContinues(w)
    BY <1>2 DEF OnlyContinues, Executes, WorkerTypes, WorkerType
  <2>2. ClaimExclusive' /\ ExecutingIsRunning'
    BY <2>1, ContinuingKeepsClaims
  <2>3. LoadedIsFresh' /\ RepublishedHasFailed'
    BY <1>2 DEF ExclusiveInv, LoadedIsFresh, RepublishedHasFailed, WorkerTypes, WorkerType
  <2>4. QED
    BY <2>2, <2>3 DEF ExclusiveInv, RequestIsFresh
<1>3. QED
  BY <1>1, <1>2 DEF AfterRelease

\* Committing an outcome of a fresh RUNNING row sets the row to that outcome and
\* ends w's execution; nobody else was executing it and no request had loaded it.
LEMMA CommitEndsExecution ==
  ASSUME TypeOK, ExclusiveInv, NEW w \in Workers, worker[w].step = "committing",
         NEW new \in Statuses, new # "RUNNING", CommitStatus(w, new)
  PROVE  /\ worker[w].job \in Jobs
         /\ status' = [status EXCEPT ![worker[w].job] = new]
         /\ \A v \in Workers \ {w} : ~ Executes(v, worker[w].job)
         /\ \A c \in Callers : call[c].step = "loaded" => call[c].job # worker[w].job
<1>1. worker[w].job \in Jobs
  BY DEF TypeOK, WorkerTypes
<1>2. Executes(w, worker[w].job) /\ status[worker[w].job] = "RUNNING"
  BY <1>1 DEF Executes, ExclusiveInv, ExecutingIsRunning
<1>3. status' = [status EXCEPT ![worker[w].job] = new]
  BY DEF CommitStatus, Written, ExclusiveInv, LoadedIsFresh
<1>4. \A v \in Workers \ {w} : ~ Executes(v, worker[w].job)
  BY <1>1, <1>2 DEF ExclusiveInv, ClaimExclusive
<1>5. \A c \in Callers : call[c].step = "loaded" => call[c].job # worker[w].job
  BY <1>2 DEF ExclusiveInv, RequestIsFresh, Retryable
<1>6. QED
  BY <1>1, <1>3, <1>4, <1>5

\* Workers: a claim takes a row nobody executes, and the rest only continues.
LEMMA WorkerStepExclusive ==
  ASSUME TypeOK, ExclusiveInv, NEW w \in Workers, WorkerStep(w)
  PROVE  ExclusiveInv'
<1> USE DEF TypeOK, jobRow, bounds
<1> DEFINE job == worker[w].job
<1>0. worker[w].step \notin {"down", "idle"} => job \in Jobs
  BY DEF WorkerTypes
<1>1. CASE Pop(w)
  <2>1. OnlyContinues(w)
    BY <1>1 DEF Pop, OnlyContinues, Executes, WorkerTypes, WorkerType
  <2>2. ClaimExclusive' /\ ExecutingIsRunning'
    BY <1>1, <2>1, ContinuingKeepsClaims DEF Pop
  <2>3. LoadedIsFresh' /\ RepublishedHasFailed'
    BY <1>1 DEF Pop, ExclusiveInv, LoadedIsFresh, RepublishedHasFailed, WorkerTypes, WorkerType
  <2>4. QED
    BY <1>1, <2>2, <2>3 DEF Pop, ExclusiveInv, RequestIsFresh
<1>2. CASE Claim(w)
  <2>1. \A v \in Workers : ~ Executes(v, job)
    BY <1>0, <1>2 DEF Claim, ExclusiveInv, ExecutingIsRunning, Claimable
  <2>2. /\ \A v \in Workers \ {w} : worker'[v] = worker[v]
        /\ worker'[w].job = job /\ worker'[w].step = "claimed"
    BY <1>2 DEF Claim, Goto, WorkerTypes, WorkerType
  <2>3. \A v \in Workers, j \in Jobs :
          Executes(v, j)' => (v = w /\ j = job) \/ (v # w /\ j # job /\ Executes(v, j))
    BY <2>1, <2>2 DEF Executes
  <2>4. status' = [status EXCEPT ![job] = "RUNNING"]
    BY <1>2 DEF Claim
  <2>5. ClaimExclusive' /\ ExecutingIsRunning'
    BY <1>0, <2>3, <2>4 DEF ExclusiveInv, ClaimExclusive, ExecutingIsRunning, TableTypes
  <2>6. LoadedIsFresh' /\ RepublishedHasFailed'
    BY <1>2, <2>2 DEF Claim, ExclusiveInv, LoadedIsFresh, RepublishedHasFailed
  <2>7. \A c \in Callers : call[c].step = "loaded" => call[c].job # job
    BY <1>2 DEF Claim, ExclusiveInv, RequestIsFresh, Claimable, Retryable
  <2>8. RequestIsFresh'
    BY <1>2, <2>4, <2>7 DEF Claim, ExclusiveInv, RequestIsFresh, TableTypes, CallTypes
  <2>9. QED
    BY <2>5, <2>6, <2>8 DEF ExclusiveInv
<1>3. CASE ClaimSkipped(w)
  BY <1>3, FinishKeepsInv DEF ClaimSkipped
<1>4. CASE AcquireLock(w)
  <2>1. OnlyContinues(w)
    BY <1>4 DEF AcquireLock, OnlyContinues, Executes, WorkerTypes, WorkerType
  <2>2. ClaimExclusive' /\ ExecutingIsRunning'
    BY <1>4, <2>1, ContinuingKeepsClaims DEF AcquireLock
  <2>3. LoadedIsFresh' /\ RepublishedHasFailed'
    BY <1>4 DEF AcquireLock, ExclusiveInv, LoadedIsFresh, RepublishedHasFailed, WorkerTypes,
                WorkerType
  <2>4. QED
    BY <1>4, <2>2, <2>3 DEF AcquireLock, ExclusiveInv, RequestIsFresh
<1>5. CASE HandlerReturns(w)
  <2>1. OnlyContinues(w)
    BY <1>5 DEF HandlerReturns, OnlyContinues, Executes, WorkerTypes, WorkerType
  <2>2. ClaimExclusive' /\ ExecutingIsRunning'
    BY <1>5, <2>1, ContinuingKeepsClaims DEF HandlerReturns
  <2>3. LoadedIsFresh' /\ RepublishedHasFailed'
    BY <1>5 DEF HandlerReturns, ExclusiveInv, LoadedIsFresh, RepublishedHasFailed,
                WorkerTypes, WorkerType
  <2>4. QED
    BY <1>5, <2>2, <2>3 DEF HandlerReturns, ExclusiveInv, RequestIsFresh
<1>6. ASSUME NEW kind \in {"temporary", "permanent"}, HandlerRaises(w, kind)
      PROVE  ExclusiveInv'
  <2>1. OnlyContinues(w)
    BY <1>6 DEF HandlerRaises, OnlyContinues, Executes, WorkerTypes, WorkerType
  <2>2. ClaimExclusive' /\ ExecutingIsRunning'
    BY <1>6, <2>1, ContinuingKeepsClaims DEF HandlerRaises
  <2>3. LoadedIsFresh' /\ RepublishedHasFailed'
    BY <1>6 DEF HandlerRaises, ExclusiveInv, LoadedIsFresh, RepublishedHasFailed,
                WorkerTypes, WorkerType
  <2>4. QED
    BY <1>6, <2>2, <2>3 DEF HandlerRaises, ExclusiveInv, RequestIsFresh
<1>7. CASE LoadRow(w)
  <2>1. OnlyContinues(w)
    BY <1>7 DEF LoadRow, OnlyContinues, Executes, WorkerTypes, WorkerType
  <2>2. ClaimExclusive' /\ ExecutingIsRunning'
    BY <1>7, <2>1, ContinuingKeepsClaims DEF LoadRow
  <2>3. status[job] = "RUNNING"
    BY <1>0, <1>7 DEF LoadRow, ExclusiveInv, ExecutingIsRunning, Executes
  <2>4. LoadedIsFresh' /\ RepublishedHasFailed'
    BY <1>7, <2>3 DEF LoadRow, ExclusiveInv, LoadedIsFresh, RepublishedHasFailed,
                      WorkerTypes, WorkerType
  <2>5. QED
    BY <1>7, <2>2, <2>4 DEF LoadRow, ExclusiveInv, RequestIsFresh
<1>8. ASSUME NEW new \in Statuses, new # "RUNNING", worker[w].step = "committing",
             CommitStatus(w, new), UNCHANGED call,
             attempts' = attempts \/ \E n : attempts' = [attempts EXCEPT ![job] = n],
             \/ Finish(w)
             \/ Goto(w, "publishing") /\ worker[w].outcome = "temporary"
             \/ Goto(w, "releasing") /\ worker[w].outcome # "returned"
      PROVE  ExclusiveInv'
  <2>1. /\ job \in Jobs
        /\ status' = [status EXCEPT ![job] = new]
        /\ \A v \in Workers \ {w} : ~ Executes(v, job)
        /\ \A c \in Callers : call[c].step = "loaded" => call[c].job # job
    BY <1>8, CommitEndsExecution
  <2>2. /\ \A v \in Workers \ {w} : worker'[v] = worker[v]
        /\ \A j \in Jobs : ~ Executes(w, j)'
    BY <1>8 DEF Finish, Goto, Executes, IdleWorker, WorkerTypes, WorkerType
  <2>3. \A v \in Workers, j \in Jobs : Executes(v, j)' => j # job /\ Executes(v, j)
    BY <2>1, <2>2 DEF Executes
  <2>4. ClaimExclusive' /\ ExecutingIsRunning'
    BY <2>1, <2>3 DEF ExclusiveInv, ClaimExclusive, ExecutingIsRunning, TableTypes
  <2>5. \A v \in Workers \ {w} : worker[v].step = "committing" => worker[v].job # job
    BY <2>1 DEF Executes
  <2>6. worker'[w].step # "committing"
    BY <1>8 DEF Finish, Goto, IdleWorker, WorkerTypes, WorkerType
  <2>7. LoadedIsFresh'
    <3>1. \A j \in Jobs \ {job} : attempts'[j] = attempts[j]
      BY <1>8 DEF TableTypes
    <3>2. QED
      BY <2>2, <2>5, <2>6, <3>1 DEF ExclusiveInv, LoadedIsFresh, WorkerTypes
  <2>8. RepublishedHasFailed'
    BY <1>8, <2>2 DEF ExclusiveInv, RepublishedHasFailed, Finish, Goto, IdleWorker,
                      WorkerTypes, WorkerType
  <2>9. RequestIsFresh'
    BY <1>8, <2>1 DEF ExclusiveInv, RequestIsFresh, TableTypes, CallTypes
  <2>10. QED
    BY <2>4, <2>7, <2>8, <2>9 DEF ExclusiveInv
<1>9. CASE ScheduleRetry(w)
  <2> DEFINE n == worker[w].seenAttempts + 1
             new == IF n > 1 THEN "RETRYING" ELSE "QUEUED"
  <2>1. new \in Statuses /\ new # "RUNNING"
    BY DEF Statuses, Claimable
  <2>2. /\ worker[w].step = "committing" /\ CommitStatus(w, new) /\ UNCHANGED call
        /\ \E m : attempts' = [attempts EXCEPT ![job] = m]
        /\ Goto(w, "publishing") /\ worker[w].outcome = "temporary"
    BY <1>9 DEF ScheduleRetry, AttemptsLeft
  <2> HIDE DEF new
  <2>3. QED
    BY <1>8, <2>1, <2>2
<1>10. CASE GiveUp(w)
  <2>1. "FAILED_PERMANENT" \in Statuses
    BY DEF Statuses, Retryable
  <2>2. QED
    BY <1>8, <1>10, <2>1 DEF GiveUp
<1>11. CASE Complete(w)
  <2>1. "COMPLETED" \in Statuses
    BY DEF Statuses
  <2>2. QED
    BY <1>8, <1>11, <2>1 DEF Complete
<1>12. CASE Republish(w)
  <2>1. OnlyContinues(w)
    BY <1>12 DEF Republish, Goto, OnlyContinues, Executes, ExclusiveInv,
                 RepublishedHasFailed, WorkerTypes, WorkerType
  <2>2. ClaimExclusive' /\ ExecutingIsRunning'
    BY <1>12, <2>1, ContinuingKeepsClaims DEF Republish
  <2>3. LoadedIsFresh' /\ RepublishedHasFailed'
    BY <1>12 DEF Republish, Goto, ExclusiveInv, LoadedIsFresh, RepublishedHasFailed,
                 WorkerTypes, WorkerType
  <2>4. QED
    BY <1>12, <2>2, <2>3 DEF Republish, ExclusiveInv, RequestIsFresh
<1>13. CASE ReadLock(w)
  <2>1. CASE Goto(w, "deleting")
    <3>1. OnlyContinues(w)
      BY <1>13, <2>1 DEF ReadLock, Goto, OnlyContinues, Executes, WorkerTypes, WorkerType
    <3>2. ClaimExclusive' /\ ExecutingIsRunning'
      BY <1>13, <3>1, ContinuingKeepsClaims DEF ReadLock
    <3>3. LoadedIsFresh' /\ RepublishedHasFailed'
      BY <1>13, <2>1 DEF ReadLock, Goto, ExclusiveInv, LoadedIsFresh, RepublishedHasFailed,
                         WorkerTypes, WorkerType
    <3>4. QED
      BY <1>13, <3>2, <3>3 DEF ReadLock, ExclusiveInv, RequestIsFresh
  <2>2. CASE AfterRelease(w)
    BY <1>13, <2>2, AfterReleaseKeepsInv DEF ReadLock
  <2>3. QED
    BY <1>13, <2>1, <2>2 DEF ReadLock
<1>14. CASE DeleteLock(w)
  BY <1>14, AfterReleaseKeepsInv DEF DeleteLock
<1>15. CASE Restart(w)
  BY <1>15, FinishKeepsInv DEF Restart
<1>16. QED
  BY <1>1, <1>2, <1>3, <1>4, <1>5, <1>6, <1>7, <1>9, <1>10, <1>11, <1>12, <1>13, <1>14,
     <1>15 DEF WorkerStep

\* Disruptions only ever end an execution.
LEMMA DisruptionExclusive ==
  ASSUME TypeOK, ExclusiveInv, Disruption \/ \E j \in Jobs : ExpireLock(j)
  PROVE  ExclusiveInv'
<1> USE DEF TypeOK, jobRow
<1>1. ASSUME NEW c \in Callers, PublishSwallowed(c)
      PROVE  ExclusiveInv'
  <2>1. RequestIsFresh'
    BY <1>1 DEF PublishSwallowed, ExclusiveInv, RequestIsFresh, IdleCall, CallTypes
  <2>2. QED
    BY <1>1, <2>1 DEF PublishSwallowed, ExclusiveInv, ClaimExclusive, ExecutingIsRunning,
                      LoadedIsFresh, RepublishedHasFailed, Executes
<1>2. ASSUME NEW w \in Workers, AcquireRaises(w)
      PROVE  ExclusiveInv'
  BY <1>2, FinishKeepsInv DEF AcquireRaises
<1>3. ASSUME NEW w \in Workers, RepublishSwallowed(w)
      PROVE  ExclusiveInv'
  <2>1. OnlyContinues(w)
    BY <1>3 DEF RepublishSwallowed, Goto, OnlyContinues, Executes, ExclusiveInv,
                RepublishedHasFailed, WorkerTypes, WorkerType
  <2>2. ClaimExclusive' /\ ExecutingIsRunning'
    BY <1>3, <2>1, ContinuingKeepsClaims DEF RepublishSwallowed
  <2>3. LoadedIsFresh' /\ RepublishedHasFailed'
    BY <1>3 DEF RepublishSwallowed, Goto, ExclusiveInv, LoadedIsFresh, RepublishedHasFailed,
                WorkerTypes, WorkerType
  <2>4. QED
    BY <1>3, <2>2, <2>3 DEF RepublishSwallowed, ExclusiveInv, RequestIsFresh
<1>4. ASSUME NEW w \in Workers, ReleaseRaises(w)
      PROVE  ExclusiveInv'
  BY <1>4, FinishKeepsInv DEF ReleaseRaises
<1>5. ASSUME NEW w \in Workers, Crash(w)
      PROVE  ExclusiveInv'
  <2>1. OnlyContinues(w)
    BY <1>5 DEF Crash, OnlyContinues, Executes, IdleWorker, WorkerTypes
  <2>2. ClaimExclusive' /\ ExecutingIsRunning'
    BY <1>5, <2>1, ContinuingKeepsClaims DEF Crash
  <2>3. LoadedIsFresh' /\ RepublishedHasFailed'
    BY <1>5 DEF Crash, ExclusiveInv, LoadedIsFresh, RepublishedHasFailed, IdleWorker, WorkerTypes
  <2>4. QED
    BY <1>5, <2>2, <2>3 DEF Crash, ExclusiveInv, RequestIsFresh
<1>6. ASSUME NEW j \in Jobs, ExpireLock(j)
      PROVE  ExclusiveInv'
  BY <1>6 DEF ExpireLock, ExclusiveInv, ClaimExclusive, ExecutingIsRunning, LoadedIsFresh,
              RepublishedHasFailed, RequestIsFresh, Executes
<1>7. QED
  BY <1>1, <1>2, <1>3, <1>4, <1>5, <1>6 DEF Disruption

\* The invariant holds of every behaviour without overlapping requests.
LEMMA ExclusiveInvariant ==
  ASSUME SerialCallers
  PROVE  Spec => [](TypeOK /\ ExclusiveInv)
<1>1. ASSUME TypeOK, ExclusiveInv, [Next]_vars
      PROVE  ExclusiveInv'
  <2>1. CASE UNCHANGED vars
    BY <1>1, <2>1 DEF vars, ExclusiveInv, ClaimExclusive, ExecutingIsRunning, LoadedIsFresh,
                      RepublishedHasFailed, RequestIsFresh, Executes
  <2>2. CASE Next
    BY <1>1, <2>2, CallStepExclusive, WorkerStepExclusive, DisruptionExclusive DEF Next
  <2>3. QED
    BY <1>1, <2>1, <2>2
<1>2. QED
  BY InitExclusive, TypeCorrect, <1>1, PTL DEF Spec

\* No two workers ever execute the same job, with any number of workers, jobs,
\* crashes, expired locks and Redis failures, as long as API requests do not
\* overlap.  The proof never mentions the lock.
THEOREM ClaimsAreExclusive ==
  ASSUME SerialCallers
  PROVE  Spec => []ClaimExclusive
<1>1. ExclusiveInv => ClaimExclusive
  BY DEF ExclusiveInv
<1>2. QED
  BY ExclusiveInvariant, <1>1, PTL

-----------------------------------------------------------------------------
(* The life of a row. *)

\* A step that writes status, attempts or runs is one of these, and writes just so.
RowInserted(j) ==
  /\ status[j] = "NONE"
  /\ status' = [status EXCEPT ![j] = "QUEUED"]
  /\ UNCHANGED <<attempts, runs>>

RowReset(j) ==
  /\ status[j] \in Retryable
  /\ status' = [status EXCEPT ![j] = "QUEUED"]
  /\ attempts' = [attempts EXCEPT ![j] = 0]
  /\ runs' = [runs EXCEPT ![j] = 0]

RowClaimed(j) ==
  /\ status[j] \in Claimable
  /\ status' = [status EXCEPT ![j] = "RUNNING"]
  /\ runs' = [runs EXCEPT ![j] = @ + 1]
  /\ UNCHANGED attempts

RowRetried(j) ==
  /\ status[j] = "RUNNING"
  /\ attempts[j] < MaxAttempts
  /\ status' = [status EXCEPT ![j] = IF attempts[j] + 1 > 1 THEN "RETRYING" ELSE "QUEUED"]
  /\ attempts' = [attempts EXCEPT ![j] = @ + 1]
  /\ UNCHANGED runs

RowSettled(j) ==
  /\ status[j] = "RUNNING"
  /\ status' = [status EXCEPT ![j] = "COMPLETED"] \/ status' = [status EXCEPT ![j] = "FAILED_PERMANENT"]
  /\ UNCHANGED <<attempts, runs>>

RowStep(j) == RowInserted(j) \/ RowReset(j) \/ RowClaimed(j) \/ RowRetried(j) \/ RowSettled(j)

\* Without overlapping requests every step of the system is at most one such
\* transition of one row: the stale commits an ORM allows do not happen.
LEMMA RowsMoveOneByOne ==
  ASSUME TypeOK, ExclusiveInv, Next
  PROVE  (\E j \in Jobs : RowStep(j)) \/ UNCHANGED <<status, attempts, runs>>
<1> USE DEF TypeOK, ExclusiveInv, jobRow, bounds
<1>1. ASSUME NEW c \in Callers, NewCall(c) \/ InsertRejected(c) \/ Publish(c)
      PROVE  UNCHANGED <<status, attempts, runs>>
  BY <1>1 DEF NewCall, CheckDuplicate, LoadForRetry, InsertRejected, Publish
<1>2. ASSUME NEW c \in Callers, NEW j \in Jobs, Insert(c, j)
      PROVE  RowStep(j)
  BY <1>2 DEF Insert, RowStep, RowInserted
<1>3. ASSUME NEW c \in Callers, CommitRetry(c)
      PROVE  \E j \in Jobs : RowStep(j)
  <2>1. call[c].job \in Jobs
    BY <1>3 DEF CommitRetry, CallTypes
  <2>2. RowReset(call[c].job)
    BY <1>3, <2>1 DEF CommitRetry, Written, RowReset, RequestIsFresh, Retryable, TableTypes
  <2>3. QED
    BY <2>1, <2>2 DEF RowStep
<1>4. ASSUME NEW w \in Workers, Claim(w)
      PROVE  \E j \in Jobs : RowStep(j)
  <2>1. worker[w].job \in Jobs
    BY <1>4 DEF Claim, WorkerTypes
  <2>2. RowClaimed(worker[w].job)
    BY <1>4 DEF Claim, RowClaimed
  <2>3. QED
    BY <2>1, <2>2 DEF RowStep
<1>5. ASSUME NEW w \in Workers, ScheduleRetry(w)
      PROVE  \E j \in Jobs : RowStep(j)
  <2> DEFINE n == worker[w].seenAttempts + 1
             new == IF n > 1 THEN "RETRYING" ELSE "QUEUED"
  <2>1. worker[w].job \in Jobs
    BY <1>5 DEF ScheduleRetry, WorkerTypes
  <2>2. /\ n = attempts[worker[w].job] + 1
        /\ attempts[worker[w].job] < MaxAttempts
    BY <1>5 DEF ScheduleRetry, AttemptsLeft, LoadedIsFresh
  <2>3. new \in Statuses /\ new # "RUNNING"
    BY DEF Statuses, Claimable
  <2>4. CommitStatus(w, new) /\ worker[w].step = "committing"
    BY <1>5 DEF ScheduleRetry
  <2>5. status[worker[w].job] = "RUNNING"
    BY <2>1, <2>4 DEF ExecutingIsRunning, Executes
  <2>6. status' = [status EXCEPT ![worker[w].job] = new]
    <3> HIDE DEF new
    <3>1. QED
      BY <2>3, <2>4, CommitEndsExecution
  <2>7. RowRetried(worker[w].job)
    BY <1>5, <2>1, <2>2, <2>5, <2>6 DEF ScheduleRetry, RowRetried, TableTypes
  <2>8. QED
    BY <2>1, <2>7 DEF RowStep
<1>6. ASSUME NEW w \in Workers, GiveUp(w) \/ Complete(w)
      PROVE  \E j \in Jobs : RowStep(j)
  <2>1. worker[w].job \in Jobs /\ worker[w].step = "committing"
    BY <1>6 DEF GiveUp, Complete, WorkerTypes
  <2>2. status[worker[w].job] = "RUNNING"
    BY <2>1 DEF ExecutingIsRunning, Executes
  <2>3. {"COMPLETED", "FAILED_PERMANENT"} \subseteq Statuses \ {"RUNNING"}
    BY DEF Statuses, Retryable, Claimable
  <2>4. RowSettled(worker[w].job)
    BY <1>6, <2>1, <2>2, <2>3, CommitEndsExecution DEF GiveUp, Complete, RowSettled
  <2>5. QED
    BY <2>1, <2>4 DEF RowStep
<1>7. ASSUME NEW w \in Workers,
             \/ Pop(w) \/ ClaimSkipped(w) \/ AcquireLock(w) \/ HandlerReturns(w)
             \/ \E kind \in {"temporary", "permanent"} : HandlerRaises(w, kind)
             \/ LoadRow(w) \/ Republish(w) \/ ReadLock(w) \/ DeleteLock(w) \/ Restart(w)
      PROVE  UNCHANGED <<status, attempts, runs>>
  BY <1>7 DEF Pop, ClaimSkipped, AcquireLock, HandlerReturns, HandlerRaises, LoadRow,
              Republish, ReadLock, DeleteLock, Restart
<1>8. ASSUME Disruption \/ \E j \in Jobs : ExpireLock(j)
      PROVE  UNCHANGED <<status, attempts, runs>>
  BY <1>8 DEF Disruption, PublishSwallowed, AcquireRaises, RepublishSwallowed,
              ReleaseRaises, Crash, ExpireLock
<1>9. QED
  BY <1>1, <1>2, <1>3, <1>4, <1>5, <1>6, <1>7, <1>8 DEF Next, CallStep, WorkerStep

\* Once a row says COMPLETED it says so for ever, for every number of workers,
\* jobs, crashes and retries, as long as API requests do not overlap.
THEOREM CompletionIsFinal ==
  ASSUME SerialCallers
  PROVE  Spec => CompletedIsFinal
<1>1. ASSUME TypeOK, ExclusiveInv, [Next]_vars
      PROVE  [\A j \in Jobs : status[j] = "COMPLETED" => status'[j] = "COMPLETED"]_vars
  <2>1. CASE UNCHANGED vars
    BY <2>1
  <2>2. CASE Next
    <3>1. CASE UNCHANGED <<status, attempts, runs>>
      BY <3>1
    <3>2. ASSUME NEW j \in Jobs, RowStep(j)
          PROVE  \A i \in Jobs : status[i] = "COMPLETED" => status'[i] = "COMPLETED"
      BY <1>1, <3>2 DEF RowStep, RowInserted, RowReset, RowClaimed, RowRetried, RowSettled,
                        Claimable, Retryable, TypeOK, TableTypes
    <3>3. QED
      BY <1>1, <2>2, <3>1, <3>2, RowsMoveOneByOne
  <2>3. QED
    BY <1>1, <2>1, <2>2
<1>2. QED
  BY ExclusiveInvariant, <1>1, PTL DEF Spec, CompletedIsFinal

\* What jobs.attempts counts: the handler starts of a row, less the current one.
BudgetInv ==
  \A j \in Jobs :
    /\ status[j] \in Claimable \cup {"NONE"} => runs[j] = attempts[j]
    /\ status[j] = "RUNNING" => runs[j] = attempts[j] + 1
    /\ runs[j] <= attempts[j] + 1

\* Between an enqueue or a manual retry and the next one, the handler of a job
\* starts at most worker_max_attempts + 1 times, whatever workers and Redis do.
THEOREM RetriesAreBounded ==
  ASSUME SerialCallers
  PROVE  Spec => []RetryBudget
<1>1. Init => BudgetInv
  BY DEF Init, BudgetInv, Claimable
<1>2. ASSUME TypeOK, ExclusiveInv, BudgetInv, [Next]_vars
      PROVE  BudgetInv'
  <2>1. CASE UNCHANGED <<status, attempts, runs>>
    BY <1>2, <2>1 DEF BudgetInv
  <2>2. ASSUME NEW j \in Jobs, RowStep(j)
        PROVE  BudgetInv'
    <3> USE DEF BudgetInv, TypeOK, TableTypes, Claimable, Retryable
    <3>1. CASE RowInserted(j)
      BY <1>2, <3>1 DEF RowInserted
    <3>2. CASE RowReset(j)
      BY <1>2, <3>2 DEF RowReset
    <3>3. CASE RowClaimed(j)
      BY <1>2, <3>3 DEF RowClaimed
    <3>4. CASE RowRetried(j)
      BY <1>2, <3>4 DEF RowRetried
    <3>5. CASE RowSettled(j)
      BY <1>2, <3>5 DEF RowSettled
    <3>6. QED
      BY <2>2, <3>1, <3>2, <3>3, <3>4, <3>5 DEF RowStep
  <2>3. QED
    BY <1>2, <2>1, <2>2, RowsMoveOneByOne DEF vars
<1>3. TypeOK /\ BudgetInv => RetryBudget
  BY MaxAttemptsAssumption DEF BudgetInv, RetryBudget, TypeOK, TableTypes
<1>4. QED
  BY ExclusiveInvariant, <1>1, <1>2, <1>3, PTL DEF Spec

-----------------------------------------------------------------------------
(* The refinement. *)

\* A worker step that starts and ends no execution leaves the runners alone.
LEMMA SameRunners ==
  ASSUME \A v \in Workers, j \in Jobs : Executes(v, j)' <=> Executes(v, j)
  PROVE  Runners' = Runners
BY DEF Runners

\* A step of w that only moves on within its execution, or outside of one.
LEMMA StutteringWorkerStep ==
  ASSUME TypeOK, NEW w \in Workers,
         \A v \in Workers \ {w} : worker'[v] = worker[v],
         \A j \in Jobs : Executes(w, j)' <=> Executes(w, j)
  PROVE  Runners' = Runners
<1>1. \A v \in Workers, j \in Jobs : Executes(v, j)' <=> Executes(v, j)
  BY DEF Executes
<1>2. QED
  BY <1>1, SameRunners

\* A step of w that ends whatever execution w was in takes w out of the runners.
LEMMA RunnerLeaves ==
  ASSUME TypeOK, ExclusiveInv, NEW w \in Workers, NEW j \in Jobs, Executes(w, j),
         \A v \in Workers \ {w} : worker'[v] = worker[v],
         \A i \in Jobs : ~ Executes(w, i)'
  PROVE  /\ Runners[j] = {w}
         /\ Runners' = [Runners EXCEPT ![j] = {}]
<1>1. \A v \in Workers : Executes(v, j) <=> v = w
  BY DEF ExclusiveInv, ClaimExclusive
<1>2. \A i \in Jobs \ {j} : ~ Executes(w, i)
  BY DEF Executes
<1>3. \A v \in Workers \ {w}, i \in Jobs : Executes(v, i)' <=> Executes(v, i)
  BY DEF Executes
<1>4. \A v \in Workers : ~ Executes(v, j)'
  BY <1>1, <1>3
<1>5. \A i \in Jobs \ {j} : \A v \in Workers : Executes(v, i)' <=> Executes(v, i)
  BY <1>2, <1>3
<1>6. QED
  BY <1>1, <1>4, <1>5 DEF Runners

\* A crash or a Redis failure loses at most the execution of the worker it hits.
LEMMA WorkerLost ==
  ASSUME TypeOK, ExclusiveInv, NEW w \in Workers, UNCHANGED <<status, attempts>>,
         \A v \in Workers \ {w} : worker'[v] = worker[v],
         \A j \in Jobs : ~ Executes(w, j)'
  PROVE  Lifecycle!Next \/ UNCHANGED Lifecycle!vars
<1>1. CASE \E j \in Jobs : Executes(w, j)
  <2>1. PICK j \in Jobs : Executes(w, j)
    BY <1>1
  <2>2. status[j] = "RUNNING"
    BY <2>1 DEF ExclusiveInv, ExecutingIsRunning
  <2>3. Lifecycle!Abandon(j, w)
    BY <2>1, <2>2, RunnerLeaves DEF Lifecycle!Abandon
  <2>4. QED
    BY <2>3 DEF Lifecycle!Next
<1>2. CASE \A j \in Jobs : ~ Executes(w, j)
  <2>1. Runners' = Runners
    BY <1>2, StutteringWorkerStep
  <2>2. QED
    BY <2>1 DEF Lifecycle!vars
<1>3. QED
  BY <1>1, <1>2

\* Every step of the queue is a step of the life cycle or leaves it unchanged.
LEMMA StepsRefine ==
  ASSUME TypeOK, ExclusiveInv, Next
  PROVE  Lifecycle!Next \/ UNCHANGED Lifecycle!vars
<1> USE DEF jobRow, bounds
<1>1. ASSUME NEW c \in Callers, NewCall(c) \/ InsertRejected(c) \/ Publish(c) \/ PublishSwallowed(c)
      PROVE  UNCHANGED Lifecycle!vars
  <2>1. UNCHANGED <<status, attempts, worker>>
    BY <1>1 DEF NewCall, CheckDuplicate, LoadForRetry, InsertRejected, Publish, PublishSwallowed
  <2>2. Runners' = Runners
    BY <2>1, SameRunners DEF Executes
  <2>3. QED
    BY <2>1, <2>2 DEF Lifecycle!vars
<1>2. ASSUME NEW c \in Callers, NEW j \in Jobs, Insert(c, j)
      PROVE  Lifecycle!Next
  <2>1. Runners' = Runners
    BY <1>2, SameRunners DEF Insert, Executes
  <2>2. Lifecycle!Create(j)
    BY <1>2, <2>1 DEF Insert, Lifecycle!Create
  <2>3. QED
    BY <2>2 DEF Lifecycle!Next
<1>3. ASSUME NEW c \in Callers, CommitRetry(c)
      PROVE  Lifecycle!Next
  <2>1. call[c].job \in Jobs
    BY <1>3 DEF CommitRetry, TypeOK, CallTypes
  <2>2. Runners' = Runners
    BY <1>3, SameRunners DEF CommitRetry, Executes
  <2>3. Lifecycle!Reset(call[c].job)
    BY <1>3, <2>1, <2>2
    DEF CommitRetry, Written, Lifecycle!Reset, ExclusiveInv, RequestIsFresh, Retryable,
        TypeOK, TableTypes
  <2>4. QED
    BY <2>1, <2>3 DEF Lifecycle!Next
<1>4. ASSUME NEW w \in Workers, Claim(w)
      PROVE  Lifecycle!Next
  <2> DEFINE job == worker[w].job
  <2>1. job \in Jobs
    BY <1>4 DEF Claim, TypeOK, WorkerTypes
  <2>2. \A v \in Workers : ~ Executes(v, job)
    BY <1>4, <2>1 DEF Claim, ExclusiveInv, ExecutingIsRunning, Claimable
  <2>3. \A i \in Jobs : ~ Executes(w, i)
    BY <1>4 DEF Claim, Executes
  <2>4. /\ \A v \in Workers \ {w} : worker'[v] = worker[v]
        /\ worker'[w].job = job /\ worker'[w].step = "claimed"
    BY <1>4 DEF Claim, Goto, TypeOK, WorkerTypes, WorkerType
  <2>5. \A v \in Workers, i \in Jobs :
          Executes(v, i)' <=> IF i = job THEN v = w ELSE Executes(v, i)
    BY <2>2, <2>3, <2>4 DEF Executes
  <2>6. Runners[job] = {} /\ Runners' = [Runners EXCEPT ![job] = {w}]
    BY <2>1, <2>2, <2>5 DEF Runners
  <2>7. Lifecycle!Start(job, w)
    BY <1>4, <2>6 DEF Claim, Claimable, Lifecycle!Start
  <2>8. QED
    BY <2>1, <2>7 DEF Lifecycle!Next
<1>5. ASSUME NEW w \in Workers, ScheduleRetry(w) \/ GiveUp(w) \/ Complete(w)
      PROVE  Lifecycle!Next
  <2> DEFINE job == worker[w].job
  <2>1. job \in Jobs /\ worker[w].step = "committing"
    BY <1>5 DEF ScheduleRetry, GiveUp, Complete, TypeOK, WorkerTypes
  <2>2. Executes(w, job) /\ status[job] = "RUNNING"
    BY <2>1 DEF Executes, ExclusiveInv, ExecutingIsRunning
  <2>3. /\ \A v \in Workers \ {w} : worker'[v] = worker[v]
        /\ \A i \in Jobs : ~ Executes(w, i)'
    BY <1>5 DEF ScheduleRetry, GiveUp, Complete, AttemptsLeft, Goto, Finish, Executes,
                IdleWorker, TypeOK, WorkerTypes, WorkerType
  <2>4. Runners[job] = {w} /\ Runners' = [Runners EXCEPT ![job] = {}]
    BY <2>1, <2>2, <2>3, RunnerLeaves
  <2>5. {"COMPLETED", "FAILED_PERMANENT", "QUEUED", "RETRYING"} \subseteq Statuses \ {"RUNNING"}
    BY DEF Statuses, Retryable, Claimable
  <2>6. CASE Complete(w)
    <3>1. Lifecycle!Complete(job, w)
      BY <2>1, <2>2, <2>4, <2>5, <2>6, CommitEndsExecution
      DEF Complete, Lifecycle!Complete, Lifecycle!End
    <3>2. QED
      BY <2>1, <3>1 DEF Lifecycle!Next
  <2>7. CASE GiveUp(w)
    <3>1. Lifecycle!Fail(job, w)
      BY <2>1, <2>2, <2>4, <2>5, <2>7, CommitEndsExecution
      DEF GiveUp, Lifecycle!Fail, Lifecycle!End
    <3>2. QED
      BY <2>1, <3>1 DEF Lifecycle!Next
  <2>8. CASE ScheduleRetry(w)
    <3> DEFINE new == IF worker[w].seenAttempts + 1 > 1 THEN "RETRYING" ELSE "QUEUED"
    <3>1. worker[w].seenAttempts = attempts[job] /\ attempts[job] < MaxAttempts
      BY <2>8 DEF ScheduleRetry, AttemptsLeft, ExclusiveInv, LoadedIsFresh
    <3>2. new \in Statuses \ {"RUNNING"} /\ CommitStatus(w, new)
      BY <2>5, <2>8 DEF ScheduleRetry
    <3>3. new = IF attempts[job] = 0 THEN "QUEUED" ELSE "RETRYING"
      BY <2>1, <3>1 DEF TypeOK, TableTypes
    <3>4. status' = [status EXCEPT ![job] = new]
      <4> HIDE DEF new
      <4>1. QED
        BY <2>1, <3>2, CommitEndsExecution
    <3>5. attempts' = [attempts EXCEPT ![job] = @ + 1]
      BY <2>1, <2>8, <3>1 DEF ScheduleRetry, TypeOK, TableTypes
    <3>6. Lifecycle!Retry(job, w)
      BY <2>2, <2>4, <3>1, <3>3, <3>4, <3>5 DEF Lifecycle!Retry, Lifecycle!End
    <3>7. QED
      BY <2>1, <3>6 DEF Lifecycle!Next
  <2>9. QED
    BY <1>5, <2>6, <2>7, <2>8
<1>6. ASSUME NEW w \in Workers,
             \/ Pop(w) \/ ClaimSkipped(w) \/ AcquireLock(w) \/ HandlerReturns(w)
             \/ \E kind \in {"temporary", "permanent"} : HandlerRaises(w, kind)
             \/ LoadRow(w) \/ Republish(w) \/ RepublishSwallowed(w) \/ ReadLock(w)
             \/ DeleteLock(w) \/ Restart(w)
      PROVE  UNCHANGED Lifecycle!vars
  <2>1. UNCHANGED <<status, attempts>> /\ \A v \in Workers \ {w} : worker'[v] = worker[v]
    BY <1>6 DEF Pop, ClaimSkipped, AcquireLock, HandlerReturns, HandlerRaises, LoadRow,
                Republish, RepublishSwallowed, ReadLock, DeleteLock, Restart, AfterRelease,
                Goto, Finish, TypeOK, WorkerTypes
  <2>2. \A j \in Jobs : Executes(w, j)' <=> Executes(w, j)
    <3> USE DEF Executes, TypeOK, WorkerTypes, WorkerType
    <3>1. CASE Pop(w) \/ ClaimSkipped(w) \/ Restart(w)
      BY <3>1 DEF Pop, ClaimSkipped, Restart, Finish, IdleWorker
    <3>2. CASE AcquireLock(w) \/ HandlerReturns(w) \/ LoadRow(w)
      BY <3>2 DEF AcquireLock, HandlerReturns, LoadRow
    <3>3. ASSUME NEW kind \in {"temporary", "permanent"}, HandlerRaises(w, kind)
          PROVE  \A j \in Jobs : Executes(w, j)' <=> Executes(w, j)
      BY <3>3 DEF HandlerRaises
    <3>4. CASE Republish(w) \/ RepublishSwallowed(w)
      BY <3>4 DEF Republish, RepublishSwallowed, Goto, ExclusiveInv, RepublishedHasFailed
    <3>5. CASE ReadLock(w) \/ DeleteLock(w)
      BY <3>5 DEF ReadLock, DeleteLock, AfterRelease, Goto, Finish, IdleWorker
    <3>6. QED
      BY <1>6, <3>1, <3>2, <3>3, <3>4, <3>5
  <2>3. Runners' = Runners
    BY <2>1, <2>2, StutteringWorkerStep
  <2>4. QED
    BY <2>1, <2>3 DEF Lifecycle!vars
<1>7. ASSUME NEW w \in Workers, AcquireRaises(w) \/ ReleaseRaises(w) \/ Crash(w)
      PROVE  Lifecycle!Next \/ UNCHANGED Lifecycle!vars
  <2>1. /\ UNCHANGED <<status, attempts>>
        /\ \A v \in Workers \ {w} : worker'[v] = worker[v]
        /\ \A j \in Jobs : ~ Executes(w, j)'
    BY <1>7 DEF AcquireRaises, ReleaseRaises, Crash, Finish, Executes, IdleWorker, TypeOK,
                WorkerTypes
  <2>2. QED
    BY <2>1, WorkerLost
<1>8. ASSUME NEW j \in Jobs, ExpireLock(j)
      PROVE  UNCHANGED Lifecycle!vars
  <2>1. Runners' = Runners
    BY <1>8, SameRunners DEF ExpireLock, Executes
  <2>2. QED
    BY <1>8, <2>1 DEF ExpireLock, Lifecycle!vars
<1>9. QED
  BY <1>1, <1>2, <1>3, <1>4, <1>5, <1>6, <1>7, <1>8
  DEF Next, CallStep, WorkerStep, Disruption

\* The queue, the locks, the workers and the routes implement the life cycle of a
\* job, for every instance in which API requests do not overlap.
THEOREM QueueImplementsLifecycle ==
  ASSUME SerialCallers
  PROVE  Spec => ImplementsLifecycle
<1>1. Init => Lifecycle!Init
  BY NoneAssumption DEF Init, Lifecycle!Init, Runners, Executes, IdleWorker
<1>2. ASSUME TypeOK, ExclusiveInv, [Next]_vars
      PROVE  [Lifecycle!Next]_(Lifecycle!vars)
  <2>1. CASE UNCHANGED vars
    <3>1. Runners' = Runners
      BY <2>1, SameRunners DEF vars, Executes
    <3>2. QED
      BY <2>1, <3>1 DEF vars, Lifecycle!vars
  <2>2. CASE Next
    BY <1>2, <2>2, StepsRefine
  <2>3. QED
    BY <1>2, <2>1, <2>2
<1>3. QED
  BY ExclusiveInvariant, <1>1, <1>2, PTL DEF Spec, ImplementsLifecycle, Lifecycle!Spec

-----------------------------------------------------------------------------
(* Locks, rows left behind, wake-ups and duplicates. *)

\* A step of a worker leaves the others alone; a request leaves all of them alone.
LEMMA OthersStay ==
  ASSUME TypeOK, NEW w \in Workers, WorkerStep(w)
  PROVE  /\ \A v \in Workers : v # w => worker'[v] = worker[v]
         /\ UNCHANGED <<call, disruptions>>
BY DEF TypeOK, WorkerTypes, WorkerStep, Pop, Claim, ClaimSkipped, AcquireLock, HandlerReturns,
       HandlerRaises, LoadRow, ScheduleRetry, GiveUp, Republish, ReadLock, DeleteLock, Complete,
       Restart, Goto, Finish, AfterRelease, bounds

LEMMA CallsStayOutside ==
  ASSUME NEW c \in Callers, NewCall(c) \/ CallStep(c)
  PROVE  UNCHANGED <<lock, worker, disruptions>>
BY DEF NewCall, CallStep, CheckDuplicate, LoadForRetry, Insert, InsertRejected, Publish,
       CommitRetry, bounds

LEMMA DisruptionIsCounted ==
  ASSUME TypeOK, Disruption
  PROVE  disruptions' # 0
BY DEF Disruption, PublishSwallowed, AcquireRaises, RepublishSwallowed, ReleaseRaises, Crash,
       Disrupt, TypeOK, TableTypes

\* A token is what its worker's release_distributed_lock has not used yet.
TokensFit ==
  \A w \in Workers :
    /\ worker[w].step \in {"down", "idle", "popped", "claimed"} => ~ worker[w].token
    /\ worker[w].step = "deleting" => worker[w].token
    /\ worker[w].step \in {"loading", "committing"} /\ worker[w].outcome = "returned"
         => ~ worker[w].token

LEMMA TokenStep ==
  ASSUME TypeOK, TokensFit, [Next]_vars
  PROVE  TokensFit'
<1>1. CASE UNCHANGED worker
  BY <1>1 DEF TokensFit
<1>2. ASSUME NEW w \in Workers, WorkerStep(w)
      PROVE  TokensFit'
  <2>1. \A v \in Workers : v # w => worker'[v] = worker[v]
    BY <1>2, OthersStay
  <2>2. /\ worker'[w].step \in {"down", "idle", "popped", "claimed"} => ~ worker'[w].token
        /\ worker'[w].step = "deleting" => worker'[w].token
        /\ worker'[w].step \in {"loading", "committing"} /\ worker'[w].outcome = "returned"
             => ~ worker'[w].token
    <3>1. CASE Pop(w) \/ Claim(w) \/ ClaimSkipped(w) \/ AcquireLock(w) \/ Restart(w)
      BY <3>1 DEF TypeOK, WorkerTypes, WorkerType, TokensFit, Pop, Claim, ClaimSkipped, AcquireLock,
                  Restart, Goto, Finish, IdleWorker
    <3>2. CASE HandlerReturns(w) \/ (\E kind \in {"temporary", "permanent"} : HandlerRaises(w, kind))
               \/ LoadRow(w)
      BY <3>2 DEF TypeOK, WorkerTypes, WorkerType, TokensFit, HandlerReturns, HandlerRaises, LoadRow
    <3>3. CASE ScheduleRetry(w) \/ GiveUp(w) \/ Republish(w) \/ Complete(w)
      BY <3>3 DEF TypeOK, WorkerTypes, WorkerType, TokensFit, ScheduleRetry, GiveUp, Republish,
                  Complete, Goto, Finish, IdleWorker
    <3>4. CASE ReadLock(w) \/ DeleteLock(w)
      BY <3>4 DEF TypeOK, WorkerTypes, WorkerType, TokensFit, ReadLock, DeleteLock, AfterRelease,
                  Goto, Finish, IdleWorker
    <3>5. QED
      BY <1>2, <3>1, <3>2, <3>3, <3>4 DEF WorkerStep
  <2>3. QED
    BY <2>1, <2>2 DEF TokensFit
<1>3. ASSUME NEW w \in Workers,
             AcquireRaises(w) \/ RepublishSwallowed(w) \/ ReleaseRaises(w) \/ Crash(w)
      PROVE  TokensFit'
  BY <1>3 DEF AcquireRaises, RepublishSwallowed, ReleaseRaises, Crash, TypeOK, WorkerTypes,
              WorkerType, TokensFit, Goto, Finish, IdleWorker
<1>4. CASE UNCHANGED vars
  BY <1>1, <1>4 DEF vars
<1>5. ASSUME NEW c \in Callers, NewCall(c) \/ CallStep(c) \/ PublishSwallowed(c)
      PROVE  UNCHANGED worker
  BY <1>5, CallsStayOutside DEF PublishSwallowed
<1>6. ASSUME NEW j \in Jobs, ExpireLock(j)
      PROVE  UNCHANGED worker
  BY <1>6 DEF ExpireLock
<1>7. QED
  BY <1>1, <1>2, <1>3, <1>4, <1>5, <1>6 DEF Next, Disruption

\* What happens to the locks when w takes a step.
LEMMA LocksMove ==
  ASSUME TypeOK, NEW w \in Workers, WorkerStep(w)
  PROVE  \/ /\ AcquireLock(w) /\ worker[w].job \in Jobs
            /\ lock' = [lock EXCEPT ![worker[w].job] =
                          IF lock[worker[w].job] = None THEN w ELSE lock[worker[w].job]]
         \/ /\ DeleteLock(w) /\ worker[w].job \in Jobs
            /\ lock' = [lock EXCEPT ![worker[w].job] = None]
         \/ ~ AcquireLock(w) /\ ~ DeleteLock(w) /\ lock' = lock
BY DEF TypeOK, WorkerTypes, WorkerStep, Pop, Claim, ClaimSkipped, AcquireLock, HandlerReturns,
       HandlerRaises, LoadRow, ScheduleRetry, GiveUp, Republish, ReadLock, DeleteLock, Complete,
       Restart

\* A worker gets a token by AcquireLock only, and keeps it with its job.
LEMMA TokensStay ==
  ASSUME TypeOK, TokensFit, NEW w \in Workers, WorkerStep(w), ~ AcquireLock(w),
         worker'[w].token
  PROVE  worker[w].token /\ worker'[w].job = worker[w].job
<1> USE DEF TypeOK, WorkerTypes, WorkerType
<1>1. ~ Pop(w) /\ ~ ClaimSkipped(w) /\ ~ Restart(w) /\ ~ Complete(w) /\ ~ Claim(w)
  BY DEF Pop, Claim, ClaimSkipped, Restart, Complete, Finish, IdleWorker, TokensFit, Goto
<1>2. CASE HandlerReturns(w) \/ (\E kind \in {"temporary", "permanent"} : HandlerRaises(w, kind))
           \/ LoadRow(w)
  BY <1>2 DEF HandlerReturns, HandlerRaises, LoadRow
<1>3. CASE ScheduleRetry(w) \/ GiveUp(w) \/ Republish(w)
  BY <1>3 DEF ScheduleRetry, GiveUp, Republish, Goto
<1>4. CASE ReadLock(w) \/ DeleteLock(w)
  BY <1>4 DEF ReadLock, DeleteLock, AfterRelease, Goto, Finish, IdleWorker
<1>5. QED
  BY <1>1, <1>2, <1>3, <1>4 DEF WorkerStep

LEMMA TokenInvariant == Spec => [](TypeOK /\ TokensFit)
<1>1. Init => TokensFit
  BY DEF Init, TokensFit, IdleWorker
<1>2. QED
  BY TypeCorrect, <1>1, TokenStep, PTL DEF Spec

\* While nothing breaks, a lock is held by a worker between its SET NX and its DEL only:
\* process_job leaves none behind, whichever way the handler ends.
THEOREM LocksAreInUse == Spec => []LockIsInUse
<1>1. Init => LockIsInUse
  BY NoneAssumption DEF Init, LockIsInUse
<1>2. ASSUME TypeOK, TokensFit, LockIsInUse, [Next]_vars
      PROVE  LockIsInUse'
  <2>1. ASSUME NEW w \in Workers, WorkerStep(w)
        PROVE  LockIsInUse'
    <3>1. (\A v \in Workers : v # w => worker'[v] = worker[v]) /\ UNCHANGED disruptions
      BY <1>2, <2>1, OthersStay
    <3> SUFFICES ASSUME disruptions = 0, NEW j \in Jobs, NEW v \in Workers, lock'[j] = v
                 PROVE  /\ worker'[v].job = j /\ worker'[v].token
                        /\ worker'[v].step \notin {"down", "idle", "popped", "claimed"}
      BY <3>1 DEF LockIsInUse
    <3>2. CASE AcquireLock(w)
      <4>1. worker'[w].job = worker[w].job /\ worker'[w].step = "handling"
            /\ worker'[w].token = (lock[worker[w].job] = None)
        BY <1>2, <3>2 DEF AcquireLock, TypeOK, WorkerTypes
      <4>2. lock[j] = v \/ (v = w /\ j = worker[w].job /\ lock[j] = None)
        BY <1>2, <2>1, <3>2, LocksMove, NoneAssumption DEF TypeOK, TableTypes, DeleteLock, AcquireLock
      <4>3. CASE lock[j] = v
        <5>1. v # w
          BY <1>2, <3>2, <4>3 DEF LockIsInUse, AcquireLock
        <5>2. QED
          BY <1>2, <3>1, <4>3, <5>1 DEF LockIsInUse
      <4>4. QED
        BY <4>1, <4>2, <4>3
    <3>3. CASE DeleteLock(w)
      <4>1. lock[j] = v /\ j # worker[w].job
        BY <1>2, <2>1, <3>3, LocksMove, NoneAssumption DEF TypeOK, TableTypes, DeleteLock, AcquireLock
      <4>2. QED
        BY <1>2, <3>1, <4>1 DEF LockIsInUse
    <3>4. CASE ~ AcquireLock(w) /\ ~ DeleteLock(w)
      <4>1. lock[j] = v
        BY <1>2, <2>1, <3>4, LocksMove
      <4>2. /\ worker[v].job = j /\ worker[v].token
            /\ worker[v].step \notin {"down", "idle", "popped", "claimed"}
        BY <1>2, <4>1 DEF LockIsInUse
      <4>3. CASE v = w
        <5>1. ~ Pop(w) /\ ~ Claim(w) /\ ~ ClaimSkipped(w) /\ ~ Restart(w) /\ ~ Complete(w)
          <6>1. ~ Complete(w)
            BY <1>2, <4>2, <4>3 DEF Complete, TokensFit
          <6>2. QED
            BY <4>2, <4>3, <6>1 DEF Pop, Claim, ClaimSkipped, Restart
        <5>2. CASE ReadLock(w)
          BY <1>2, <4>1, <4>2, <4>3, <5>2 DEF ReadLock, Goto, TypeOK, WorkerTypes, WorkerType
        <5>3. CASE HandlerReturns(w) \/ (\E kind \in {"temporary", "permanent"} : HandlerRaises(w, kind))
                   \/ LoadRow(w)
          BY <1>2, <4>2, <4>3, <5>3
            DEF HandlerReturns, HandlerRaises, LoadRow, TypeOK, WorkerTypes, WorkerType
        <5>4. CASE ScheduleRetry(w) \/ GiveUp(w) \/ Republish(w)
          BY <1>2, <4>2, <4>3, <5>4
            DEF ScheduleRetry, GiveUp, Republish, Goto, TypeOK, WorkerTypes, WorkerType
        <5>5. QED
          BY <2>1, <3>4, <5>1, <5>2, <5>3, <5>4 DEF WorkerStep
      <4>4. QED
        BY <3>1, <4>2, <4>3
    <3>5. QED
      BY <3>2, <3>3, <3>4
  <2>2. ASSUME NEW c \in Callers, NewCall(c) \/ CallStep(c)
        PROVE  LockIsInUse'
    BY <1>2, <2>2, CallsStayOutside DEF LockIsInUse
  <2>3. ASSUME NEW j \in Jobs, ExpireLock(j)
        PROVE  LockIsInUse'
    BY <1>2, <2>3, NoneAssumption DEF ExpireLock, bounds, LockIsInUse, TypeOK, TableTypes
  <2>4. CASE Disruption
    BY <1>2, <2>4, DisruptionIsCounted DEF LockIsInUse
  <2>5. CASE UNCHANGED vars
    BY <1>2, <2>5 DEF vars, LockIsInUse
  <2>6. QED
    BY <1>2, <2>1, <2>2, <2>3, <2>4, <2>5 DEF Next
<1>3. QED
  BY TokenInvariant, <1>1, <1>2, PTL DEF Spec

\* While locks do not expire, a worker that was given the lock has it until it releases it,
\* crashes and Redis failures included: the GET before the DEL sees to it.
THEOREM HoldersKeepLocks == Spec => []HolderKeepsLock
<1>1. Init => HolderKeepsLock
  BY DEF Init, HolderKeepsLock, IdleWorker
<1>2. ASSUME TypeOK, TokensFit, HolderKeepsLock, [Next]_vars
      PROVE  HolderKeepsLock'
  <2>1. ASSUME NEW w \in Workers, WorkerStep(w)
        PROVE  HolderKeepsLock'
    <3>1. \A v \in Workers : v # w => worker'[v] = worker[v]
      BY <1>2, <2>1, OthersStay
    <3> SUFFICES ASSUME ~ LocksExpire, NEW v \in Workers, worker'[v].token
                 PROVE  lock'[worker'[v].job] = v
      BY DEF HolderKeepsLock
    <3>2. CASE AcquireLock(w)
      <4>1. /\ worker'[w].job = worker[w].job
            /\ worker'[w].token = (lock[worker[w].job] = None)
        BY <1>2, <3>2 DEF AcquireLock, TypeOK, WorkerTypes
      <4>2. /\ worker[w].job \in Jobs
            /\ lock' = [lock EXCEPT ![worker[w].job] =
                          IF lock[worker[w].job] = None THEN w ELSE lock[worker[w].job]]
        BY <1>2, <2>1, <3>2, LocksMove DEF AcquireLock, DeleteLock
      <4>3. CASE v = w
        BY <1>2, <4>1, <4>2, <4>3 DEF TypeOK, TableTypes
      <4>4. CASE v # w
        <5>1. worker'[v] = worker[v] /\ lock[worker[v].job] = v
          BY <1>2, <3>1, <4>4 DEF HolderKeepsLock
        <5>2. lock'[worker[v].job] = lock[worker[v].job]
          BY <1>2, <4>2, <5>1, NoneAssumption DEF TypeOK, TableTypes
        <5>3. QED
          BY <5>1, <5>2
      <4>5. QED
        BY <4>3, <4>4
    <3>3. CASE DeleteLock(w)
      <4>1. /\ ~ worker'[w].token
            /\ lock' = [lock EXCEPT ![worker[w].job] = None]
            /\ lock[worker[w].job] = w
        BY <1>2, <3>3
          DEF DeleteLock, AfterRelease, Finish, IdleWorker, TypeOK, WorkerTypes, WorkerType, TokensFit,
              HolderKeepsLock
      <4>2. v # w /\ lock[worker[v].job] = v
        BY <1>2, <3>1, <4>1 DEF HolderKeepsLock
      <4>3. QED
        BY <1>2, <3>1, <4>1, <4>2 DEF TypeOK, TableTypes
    <3>4. CASE ~ AcquireLock(w) /\ ~ DeleteLock(w)
      <4>1. lock' = lock
        BY <1>2, <2>1, <3>4, LocksMove
      <4>2. CASE v = w
        <5>1. worker[w].token /\ worker'[w].job = worker[w].job
          BY <1>2, <2>1, <3>4, <4>2, TokensStay
        <5>2. QED
          BY <1>2, <4>1, <4>2, <5>1 DEF HolderKeepsLock
      <4>3. QED
        BY <1>2, <3>1, <4>1, <4>2 DEF HolderKeepsLock
    <3>5. QED
      BY <3>2, <3>3, <3>4
  <2>2. ASSUME NEW c \in Callers, NewCall(c) \/ CallStep(c)
        PROVE  HolderKeepsLock'
    BY <1>2, <2>2, CallsStayOutside DEF HolderKeepsLock
  <2>3. ASSUME NEW w \in Workers,
               AcquireRaises(w) \/ RepublishSwallowed(w) \/ ReleaseRaises(w) \/ Crash(w)
        PROVE  HolderKeepsLock'
    <3>1. lock' = lock
      BY <2>3 DEF AcquireRaises, RepublishSwallowed, ReleaseRaises, Crash
    <3>2. \A v \in Workers : worker'[v].token =>
            worker[v].token /\ worker'[v].job = worker[v].job
      BY <1>2, <2>3 DEF AcquireRaises, RepublishSwallowed, ReleaseRaises, Crash, Goto, Finish,
                        IdleWorker, TypeOK, WorkerTypes, WorkerType
    <3>3. QED
      BY <1>2, <3>1, <3>2 DEF HolderKeepsLock
  <2>4. CASE UNCHANGED vars \/ (\E c \in Callers : PublishSwallowed(c)) \/ \E j \in Jobs : ExpireLock(j)
    BY <1>2, <2>4 DEF vars, PublishSwallowed, ExpireLock, HolderKeepsLock
  <2>5. QED
    BY <1>2, <2>1, <2>2, <2>3, <2>4 DEF Next, Disruption
<1>3. QED
  BY TokenInvariant, <1>1, <1>2, PTL DEF Spec

\* The ids in a list after an append, and after the head was taken.
LEMMA AppendHas ==
  ASSUME NEW s \in Seq(Jobs), NEW j \in Jobs
  PROVE  /\ \E i \in DOMAIN Append(s, j) : Append(s, j)[i] = j
         /\ \A k \in Jobs : (\E i \in DOMAIN s : s[i] = k)
                              => \E i \in DOMAIN Append(s, j) : Append(s, j)[i] = k
<1>1. /\ DOMAIN s = 1 .. Len(s) /\ Len(s) \in Nat
      /\ DOMAIN Append(s, j) = 1 .. Len(s) + 1
      /\ Append(s, j)[Len(s) + 1] = j
      /\ \A i \in 1 .. Len(s) : Append(s, j)[i] = s[i]
  OBVIOUS
<1> DEFINE t == Append(s, j)
<1> HIDE DEF t
<1>2. Len(s) + 1 \in DOMAIN t /\ DOMAIN s \subseteq DOMAIN t
  BY <1>1 DEF t
<1>3. QED
  BY <1>1, <1>2 DEF t

LEMMA TailHas ==
  ASSUME NEW s \in Seq(Jobs), s # <<>>, NEW k \in Jobs, k # Head(s), \E i \in DOMAIN s : s[i] = k
  PROVE  \E i \in DOMAIN Tail(s) : Tail(s)[i] = k
<1>1. /\ DOMAIN s = 1 .. Len(s) /\ Len(s) \in Nat /\ Head(s) = s[1]
      /\ DOMAIN Tail(s) = 1 .. Len(s) - 1
      /\ \A i \in 1 .. Len(s) - 1 : Tail(s)[i] = s[i + 1]
  OBVIOUS
<1>2. PICK i \in 1 .. Len(s) : s[i] = k
  BY <1>1
<1>3. i # 1 /\ i - 1 \in 1 .. Len(s) - 1
  BY <1>1, <1>2
<1>4. Tail(s)[i - 1] = k
  BY <1>1, <1>2, <1>3
<1>5. QED
  BY <1>1, <1>3, <1>4

\* Waiting jobs stay notified by a step of a worker.
LEMMA WorkerNotifies ==
  ASSUME TypeOK, NEW w \in Workers, WorkerStep(w), NEW j \in Jobs, status'[j] \in Claimable,
         status[j] \in Claimable => Notified(j)
  PROVE  Notified(j)'
<1>1. (\A v \in Workers : v # w => worker'[v] = worker[v]) /\ call' = call
  BY OthersStay
<1>2. worker[w].step \in {"down", "idle"} \/ worker[w].job \in Jobs
  BY DEF TypeOK, WorkerTypes
<1>3. queue \in Seq(Jobs)
  BY DEF TypeOK, TableTypes
<1>4. CASE Pop(w)
  <2>1. worker'[w].job = Head(queue) /\ worker'[w].step = "popped"
    BY <1>4 DEF Pop, TypeOK, WorkerTypes, WorkerType
  <2>2. status' = status /\ queue # <<>> /\ queue' = Tail(queue) /\ worker[w].step = "idle"
    BY <1>4 DEF Pop, jobRow
  <2>3. Notified(j)
    BY <2>2
  <2>4. CASE \E i \in DOMAIN queue : queue[i] = j
    BY <1>3, <2>1, <2>2, <2>4, TailHas DEF Notified
  <2>5. CASE ~ \E i \in DOMAIN queue : queue[i] = j
    BY <1>1, <2>2, <2>3, <2>5 DEF Notified
  <2>6. QED
    BY <2>4, <2>5
<1>5. CASE Claim(w)
  <2>1. worker[w].job # j /\ status'[j] = status[j]
    BY <1>2, <1>5 DEF Claim, Claimable, TypeOK, TableTypes
  <2>2. queue' = queue
    BY <1>5 DEF Claim
  <2>3. QED
    BY <1>1, <2>1, <2>2 DEF Notified
<1>6. CASE ClaimSkipped(w)
  <2>1. status' = status /\ queue' = queue /\ worker[w].job # j
    BY <1>6 DEF ClaimSkipped, jobRow
  <2>2. QED
    BY <1>1, <2>1 DEF Notified
<1>7. CASE Republish(w)
  <2>1. status' = status /\ queue' = Append(queue, worker[w].job) /\ worker[w].job \in Jobs
    BY <1>2, <1>7 DEF Republish, jobRow
  <2>2. CASE worker[w].job = j
    BY <1>3, <2>1, <2>2, AppendHas DEF Notified
  <2>3. CASE worker[w].job # j
    BY <1>1, <1>3, <2>1, <2>3, AppendHas DEF Notified
  <2>4. QED
    BY <2>2, <2>3
<1>8. CASE ScheduleRetry(w) \/ GiveUp(w) \/ Complete(w)
  <2>1. queue' = queue /\ worker[w].step = "committing" /\ worker[w].job \in Jobs
    BY <1>2, <1>8 DEF ScheduleRetry, GiveUp, Complete
  <2>2. CASE status'[j] = status[j]
    BY <1>1, <2>1, <2>2 DEF Notified
  <2>3. CASE status'[j] # status[j]
    <3>1. ScheduleRetry(w) /\ worker[w].job = j
      BY <1>8, <2>1, <2>3
        DEF ScheduleRetry, GiveUp, Complete, CommitStatus, Written, Claimable, TypeOK, TableTypes
    <3>2. worker'[w].step = "publishing" /\ worker'[w].job = j
      BY <3>1 DEF ScheduleRetry, Goto, TypeOK, WorkerTypes, WorkerType
    <3>3. QED
      BY <3>2 DEF Notified
  <2>4. QED
    BY <2>2, <2>3
<1>9. CASE AcquireLock(w) \/ HandlerReturns(w) \/ LoadRow(w) \/ ReadLock(w) \/ DeleteLock(w)
           \/ Restart(w) \/ \E kind \in {"temporary", "permanent"} : HandlerRaises(w, kind)
  <2>1. UNCHANGED <<status, queue>> /\ worker[w].step \notin {"popped", "publishing"}
    BY <1>9 DEF AcquireLock, HandlerReturns, LoadRow, ReadLock, DeleteLock, Restart,
                HandlerRaises, jobRow
  <2>2. QED
    BY <1>1, <2>1 DEF Notified
<1>10. QED
  BY <1>4, <1>5, <1>6, <1>7, <1>8, <1>9 DEF WorkerStep

LEMMA CallNotifies ==
  ASSUME TypeOK, NEW c \in Callers, NewCall(c) \/ CallStep(c), NEW j \in Jobs,
         status'[j] \in Claimable, status[j] \in Claimable => Notified(j)
  PROVE  Notified(j)'
<1>1. worker' = worker
  BY CallsStayOutside
<1>2. \A d \in Callers : d # c => call'[d] = call[d]
  BY DEF NewCall, CallStep, CheckDuplicate, LoadForRetry, Insert, InsertRejected, Publish,
         CommitRetry, TypeOK, CallTypes
<1>3. queue \in Seq(Jobs)
  BY DEF TypeOK, TableTypes
<1>4. CASE NewCall(c) \/ InsertRejected(c)
  <2>1. UNCHANGED <<status, queue>> /\ call[c].step # "publishing"
    BY <1>4 DEF NewCall, CheckDuplicate, LoadForRetry, InsertRejected, jobRow
  <2>2. QED
    BY <1>1, <1>2, <2>1 DEF Notified
<1>5. CASE Publish(c)
  <2>1. status' = status /\ queue' = Append(queue, call[c].job) /\ call[c].job \in Jobs
    BY <1>5 DEF Publish, jobRow, TypeOK, CallTypes
  <2>2. CASE call[c].job = j
    BY <1>3, <2>1, <2>2, AppendHas DEF Notified
  <2>3. CASE call[c].job # j
    <3>1. status[j] \in Claimable => Notified(j)
      OBVIOUS
    <3>2. CASE \E i \in DOMAIN queue : queue[i] = j
      BY <1>3, <2>1, <3>2, AppendHas DEF Notified
    <3>3. CASE ~ \E i \in DOMAIN queue : queue[i] = j
      BY <1>1, <1>2, <2>1, <2>3, <3>1, <3>3 DEF Notified
    <3>4. QED
      BY <3>2, <3>3
  <2>4. QED
    BY <2>2, <2>3
<1>6. ASSUME NEW i \in Jobs, Insert(c, i)
      PROVE  Notified(j)'
  <2>1. queue' = queue /\ call[c].step # "publishing" /\ status' = [status EXCEPT ![i] = "QUEUED"]
    BY <1>6 DEF Insert
  <2>2. CASE i = j
    <3>1. call'[c].step = "publishing" /\ call'[c].job = j
      BY <1>6, <2>2 DEF Insert, TypeOK, CallTypes, CallType
    <3>2. QED
      BY <3>1 DEF Notified
  <2>3. CASE i # j
    BY <1>1, <1>2, <2>1, <2>3 DEF Notified, TypeOK, TableTypes
  <2>4. QED
    BY <2>2, <2>3
<1>7. CASE CommitRetry(c)
  <2>1. /\ queue' = queue /\ call[c].step # "publishing"
        /\ call'[c].step = "publishing" /\ call'[c].job = call[c].job
    BY <1>7 DEF CommitRetry, IdleCall, TypeOK, CallTypes
  <2>2. CASE call[c].job = j
    BY <2>1, <2>2 DEF Notified
  <2>3. CASE call[c].job # j
    <3>1. status'[j] = status[j]
      BY <1>7, <2>3 DEF CommitRetry, TypeOK, TableTypes
    <3>2. QED
      BY <1>1, <1>2, <2>1, <3>1 DEF Notified
  <2>4. QED
    BY <2>2, <2>3
<1>8. QED
  BY <1>4, <1>5, <1>6, <1>7 DEF CallStep

\* Without crashes and Redis failures a waiting row always has its id in the list or on its
\* way there, whichever requests and workers overlap: every commit of QUEUED or RETRYING is
\* followed by an RPUSH, and an id is given up only for a row that cannot be claimed.
THEOREM WaitingJobsAreNotified == Spec => []WaitingIsNotified
<1>1. Init => WaitingIsNotified
  BY DEF Init, WaitingIsNotified, Claimable
<1>2. ASSUME TypeOK, WaitingIsNotified, [Next]_vars
      PROVE  WaitingIsNotified'
  <2>1. CASE Disruption
    BY <1>2, <2>1, DisruptionIsCounted DEF WaitingIsNotified
  <2>2. ASSUME NEW w \in Workers, WorkerStep(w)
        PROVE  WaitingIsNotified'
    BY <1>2, <2>2, OthersStay, WorkerNotifies DEF WaitingIsNotified
  <2>3. ASSUME NEW c \in Callers, NewCall(c) \/ CallStep(c)
        PROVE  WaitingIsNotified'
    BY <1>2, <2>3, CallsStayOutside, CallNotifies DEF WaitingIsNotified
  <2>4. CASE UNCHANGED vars \/ \E j \in Jobs : ExpireLock(j)
    BY <1>2, <2>4 DEF vars, ExpireLock, jobRow, bounds, WaitingIsNotified, Notified
  <2>5. QED
    BY <1>2, <2>1, <2>2, <2>3, <2>4 DEF Next
<1>3. QED
  BY TypeCorrect, <1>1, <1>2, PTL DEF Spec

\* A worker that will write to j's row when its execution ends: it has loaded RUNNING, which
\* every end of an execution overwrites, or has not loaded the row yet.
Watches(w, j) ==
  Executes(w, j) /\ (worker[w].step = "committing" => worker[w].seenStatus = "RUNNING")

RunningIsWatched ==
  disruptions = 0 => \A j \in Jobs : status[j] = "RUNNING" => \E w \in Workers : Watches(w, j)

\* Without crashes and Redis failures a row that says RUNNING has a worker on it, whichever
\* requests overlap: process_job leaves the row by a commit, however the handler ends, and a
\* commit that writes nothing, because the row was reset when it was loaded, belongs to a
\* worker whose claim is not the one the row speaks of.
THEOREM RunningJobsAreExecuted == Spec => []RunningIsExecuted
<1>1. Init => RunningIsWatched
  BY DEF Init, RunningIsWatched
<1>2. ASSUME TypeOK, RunningIsWatched, [Next]_vars
      PROVE  RunningIsWatched'
  <2>1. CASE Disruption
    BY <1>2, <2>1, DisruptionIsCounted DEF RunningIsWatched
  <2>2. ASSUME NEW w \in Workers, WorkerStep(w)
        PROVE  RunningIsWatched'
    <3>1. (\A v \in Workers : v # w => worker'[v] = worker[v]) /\ UNCHANGED disruptions
      BY <1>2, <2>2, OthersStay
    <3> SUFFICES ASSUME disruptions = 0, NEW j \in Jobs, status'[j] = "RUNNING"
                 PROVE  \E v \in Workers : Watches(v, j)'
      BY <3>1 DEF RunningIsWatched
    <3>2. worker[w].step \in {"down", "idle"} \/ worker[w].job \in Jobs
      BY <1>2 DEF TypeOK, WorkerTypes
    <3>3. CASE Claim(w)
      <4>1. worker'[w].step = "claimed" /\ worker'[w].job = worker[w].job
        BY <1>2, <3>3 DEF Claim, Goto, TypeOK, WorkerTypes, WorkerType
      <4>2. CASE worker[w].job = j
        BY <4>1, <4>2 DEF Watches, Executes
      <4>3. CASE worker[w].job # j
        <5>1. status[j] = "RUNNING"
          BY <1>2, <3>3, <4>3 DEF Claim, TypeOK, TableTypes
        <5>2. PICK v \in Workers : Watches(v, j)
          BY <1>2, <5>1 DEF RunningIsWatched
        <5>3. QED
          BY <3>1, <4>3, <5>2 DEF Watches, Executes
      <4>4. QED
        BY <4>2, <4>3
    <3>4. CASE ScheduleRetry(w) \/ GiveUp(w) \/ Complete(w)
      <4>1. worker[w].step = "committing" /\ worker[w].job \in Jobs
        BY <1>2, <3>2, <3>4 DEF ScheduleRetry, GiveUp, Complete
      <4>2. /\ status[j] = "RUNNING"
            /\ ~ (worker[w].job = j /\ worker[w].seenStatus = "RUNNING")
        BY <1>2, <3>4, <4>1
          DEF ScheduleRetry, GiveUp, Complete, CommitStatus, Written, TypeOK, TableTypes
      <4>3. PICK v \in Workers : Watches(v, j)
        BY <1>2, <4>2 DEF RunningIsWatched
      <4>4. v # w
        BY <4>1, <4>2, <4>3 DEF Watches, Executes
      <4>5. QED
        BY <3>1, <4>3, <4>4 DEF Watches, Executes
    <3>5. CASE ~ Claim(w) /\ ~ ScheduleRetry(w) /\ ~ GiveUp(w) /\ ~ Complete(w)
      <4>1. status' = status
        BY <2>2, <3>5 DEF WorkerStep, Pop, ClaimSkipped, AcquireLock, HandlerReturns, HandlerRaises,
                          LoadRow, Republish, ReadLock, DeleteLock, Restart, jobRow
      <4>2. PICK v \in Workers : Watches(v, j)
        BY <1>2, <4>1 DEF RunningIsWatched
      <4>3. CASE v # w
        BY <3>1, <4>2, <4>3 DEF Watches, Executes
      <4>4. CASE v = w
        <5>1. ~ Pop(w) /\ ~ ClaimSkipped(w) /\ ~ Republish(w) /\ ~ Restart(w)
          BY <4>2, <4>4 DEF Pop, ClaimSkipped, Republish, Restart, Watches, Executes
        <5>2. CASE AcquireLock(w) \/ HandlerReturns(w) \/ LoadRow(w)
                   \/ \E kind \in {"temporary", "permanent"} : HandlerRaises(w, kind)
          BY <1>2, <4>1, <4>2, <4>4, <5>2
            DEF AcquireLock, HandlerReturns, LoadRow, HandlerRaises, Watches, Executes, TypeOK, WorkerTypes,
                WorkerType
        <5>3. CASE ReadLock(w) \/ DeleteLock(w)
          BY <1>2, <4>2, <4>4, <5>3
            DEF ReadLock, DeleteLock, AfterRelease, Goto, Watches, Executes, TypeOK, WorkerTypes, WorkerType
        <5>4. QED
          BY <2>2, <3>5, <5>1, <5>2, <5>3 DEF WorkerStep
      <4>5. QED
        BY <4>3, <4>4
    <3>6. QED
      BY <3>3, <3>4, <3>5
  <2>3. ASSUME NEW c \in Callers, NewCall(c) \/ CallStep(c)
        PROVE  RunningIsWatched'
    <3>1. UNCHANGED <<worker, disruptions>>
      BY <2>3, CallsStayOutside
    <3>2. \A j \in Jobs : status'[j] = "RUNNING" => status[j] = "RUNNING"
      BY <1>2, <2>3 DEF NewCall, CallStep, CheckDuplicate, LoadForRetry, Insert, InsertRejected,
                        Publish, CommitRetry, Written, jobRow, TypeOK, TableTypes
    <3>3. QED
      BY <1>2, <3>1, <3>2 DEF RunningIsWatched, Watches, Executes
  <2>4. CASE UNCHANGED vars \/ \E j \in Jobs : ExpireLock(j)
    BY <1>2, <2>4 DEF vars, ExpireLock, jobRow, bounds, RunningIsWatched, Watches, Executes
  <2>5. QED
    BY <1>2, <2>1, <2>2, <2>3, <2>4 DEF Next
<1>3. RunningIsWatched => RunningIsExecuted
  BY DEF RunningIsWatched, RunningIsExecuted, Watches
<1>4. QED
  BY TypeCorrect, <1>1, <1>2, <1>3, PTL DEF Spec

-----------------------------------------------------------------------------
(* Deduplication. *)

\* The rows with a key, and the requests between their SELECT for it and their INSERT.
RowsOf(k)  == {j \in Jobs : key[j] = k}
Checked(k) == {c \in Callers : call[c].step = "checked" /\ call[c].key = k}

\* Each request that may still insert leaves room for its row.
RoomForChecked ==
  \A k \in Keys : /\ IsFiniteSet(RowsOf(k))
                  /\ Cardinality(RowsOf(k)) + Cardinality(Checked(k)) <= Cardinality(Callers)

LEMMA SmallerFits ==
  ASSUME NEW n \in Nat, NEW A, NEW I, IsFiniteSet(A), IsFiniteSet(I),
         Cardinality(A) + Cardinality(I) <= n, NEW B \in SUBSET A, NEW J \in SUBSET I
  PROVE  IsFiniteSet(B) /\ Cardinality(B) + Cardinality(J) <= n
<1>1. IsFiniteSet(B) /\ IsFiniteSet(J) /\ Cardinality(B) <= Cardinality(A) /\ Cardinality(J) <= Cardinality(I)
  BY FS_Subset
<1>2. Cardinality(A) \in Nat /\ Cardinality(I) \in Nat /\ Cardinality(B) \in Nat /\ Cardinality(J) \in Nat
  BY <1>1, FS_CardinalityType
<1>3. QED
  BY <1>1, <1>2

LEMMA OneMovesOver ==
  ASSUME NEW n \in Nat, NEW A, NEW I, IsFiniteSet(A), IsFiniteSet(I),
         Cardinality(A) + Cardinality(I) <= n, NEW x, NEW c \in I
  PROVE  IsFiniteSet(A \cup {x}) /\ Cardinality(A \cup {x}) + Cardinality(I \ {c}) <= n
<1>1. /\ IsFiniteSet(A \cup {x}) /\ Cardinality(A \cup {x}) \in {Cardinality(A), Cardinality(A) + 1}
      /\ Cardinality(I \ {c}) = Cardinality(I) - 1
  BY FS_AddElement, FS_RemoveElement
<1>2. Cardinality(A) \in Nat /\ Cardinality(I) \in Nat
  BY FS_CardinalityType
<1>3. QED
  BY <1>1, <1>2

LEMMA CheckedAreCallers ==
  \A k : /\ IsFiniteSet(Checked(k)) /\ Cardinality(Checked(k)) \in Nat
        /\ Cardinality(Checked(k)) <= Cardinality(Callers) /\ Cardinality(Callers) \in Nat
BY CallersAssumption, FS_Subset, FS_CardinalityType DEF Checked

\* An INSERT uses up the room of its request, and a SELECT makes room for its own only when
\* no row has the key.
LEMMA RoomIsKept ==
  ASSUME TypeOK, RoomForChecked, [Next]_vars
  PROVE  RoomForChecked'
<1>0. SUFFICES ASSUME NEW k \in Keys
               PROVE  /\ IsFiniteSet(RowsOf(k)')
                      /\ Cardinality(RowsOf(k)') + Cardinality(Checked(k)') <= Cardinality(Callers)
  BY DEF RoomForChecked
<1> DEFINE A == RowsOf(k)
           I == Checked(k)
<1>1. /\ IsFiniteSet(A) /\ IsFiniteSet(I) /\ Cardinality(Callers) \in Nat
      /\ Cardinality(A) + Cardinality(I) <= Cardinality(Callers)
  BY CheckedAreCallers DEF RoomForChecked
<1>2. SUFFICES \/ A' \subseteq A /\ I' \subseteq I
               \/ \E j, c : c \in I /\ A' = A \cup {j} /\ I' = I \ {c}
               \/ A = {} /\ A' = {}
  <2>1. I' \subseteq Callers
    BY DEF Checked
  <2>2. IsFiniteSet(I') /\ Cardinality(I') \in Nat /\ Cardinality(I') <= Cardinality(Callers)
    BY <2>1, CallersAssumption, FS_Subset, FS_CardinalityType
  <2> HIDE DEF A, I
  <2>3. CASE A' \subseteq A /\ I' \subseteq I
    BY <1>1, <2>3, SmallerFits DEF A, I
  <2>4. CASE \E j, c : c \in I /\ A' = A \cup {j} /\ I' = I \ {c}
    <3>1. PICK j, c : c \in I /\ A' = A \cup {j} /\ I' = I \ {c}
      BY <2>4
    <3>2. IsFiniteSet(A \cup {j}) /\ Cardinality(A \cup {j}) + Cardinality(I \ {c}) <= Cardinality(Callers)
      BY <1>1, <3>1, OneMovesOver
    <3>3. IsFiniteSet(A') /\ Cardinality(A') + Cardinality(I') <= Cardinality(Callers)
      BY <3>1, <3>2
    <3>4. QED
      BY <3>3 DEF A, I
  <2>5. CASE A = {} /\ A' = {}
    <3>1. IsFiniteSet(A') /\ Cardinality(A') = 0
      BY <2>5, FS_EmptySet
    <3>2. QED
      BY <2>2, <3>1 DEF A, I
  <2>6. QED
    BY <1>2, <2>3, <2>4, <2>5
<1>3. ASSUME NEW c \in Callers, NEW j \in Jobs, Insert(c, j)
      PROVE  \/ A' \subseteq A /\ I' \subseteq I
             \/ \E i, d : d \in I /\ A' = A \cup {i} /\ I' = I \ {d}
  <2>1. key' = [key EXCEPT ![j] = call[c].key] /\ key \in [Jobs -> Keys \cup {None}]
    BY <1>3 DEF Insert, TypeOK, TableTypes
  <2>2. /\ call[c].step = "checked" /\ call'[c].step = "publishing"
        /\ \A d \in Callers : d # c => call'[d] = call[d]
    BY <1>3 DEF Insert, TypeOK, CallTypes, CallType
  <2>3. CASE call[c].key = k
    <3>1. A' = A \cup {j} /\ I' = I \ {c} /\ c \in I
      BY <2>1, <2>2, <2>3 DEF RowsOf, Checked
    <3>2. QED
      BY <3>1
  <2>4. CASE call[c].key # k
    BY <2>1, <2>2, <2>4 DEF RowsOf, Checked
  <2>5. QED
    BY <2>3, <2>4
<1>4. ASSUME NEW c \in Callers, NEW k0 \in Keys, NEW d \in Deliveries \cup {None},
             CheckDuplicate(c, k0, d)
      PROVE  (A' \subseteq A /\ I' \subseteq I) \/ (A = {} /\ A' = {})
  <2>1. key' = key /\ \A j \in Jobs : key[j] # k0
    BY <1>4 DEF CheckDuplicate, jobRow
  <2>2. call'[c].key = k0 /\ \A a \in Callers : a # c => call'[a] = call[a]
    BY <1>4 DEF CheckDuplicate, IdleCall, TypeOK, CallTypes
  <2>3. CASE k = k0
    BY <2>1, <2>3 DEF RowsOf
  <2>4. CASE k # k0
    <3>1. c \notin I'
      BY <2>2, <2>4 DEF Checked
    <3>2. I' \subseteq I
      BY <2>2, <3>1 DEF Checked
    <3>3. A' = A
      BY <2>1 DEF RowsOf
    <3>4. QED
      BY <3>2, <3>3
  <2>5. QED
    BY <2>3, <2>4
<1>5. CASE UNCHANGED <<key, call>>
  BY <1>5 DEF RowsOf, Checked
<1>6. ASSUME NEW c \in Callers,
             \/ InsertRejected(c) \/ Publish(c) \/ CommitRetry(c) \/ PublishSwallowed(c)
             \/ \E j \in Jobs : LoadForRetry(c, j)
      PROVE  A' \subseteq A /\ I' \subseteq I
  <2>1. key' = key
    BY <1>6 DEF InsertRejected, Publish, CommitRetry, PublishSwallowed, LoadForRetry, jobRow
  <2>2. call'[c].step # "checked" /\ \A a \in Callers : a # c => call'[a] = call[a]
    <3>1. CASE InsertRejected(c) \/ Publish(c) \/ PublishSwallowed(c)
      BY <3>1 DEF InsertRejected, Publish, PublishSwallowed, IdleCall, TypeOK, CallTypes
    <3>2. CASE CommitRetry(c) \/ \E j \in Jobs : LoadForRetry(c, j)
      BY <3>2 DEF CommitRetry, LoadForRetry, IdleCall, TypeOK, CallTypes
    <3>3. QED
      BY <1>6, <3>1, <3>2
  <2>3. QED
    BY <2>1, <2>2 DEF RowsOf, Checked
<1>7. ASSUME NEW w \in Workers, WorkerStep(w)
      PROVE  UNCHANGED <<key, call>>
  BY <1>7, OthersStay
    DEF WorkerStep, Pop, Claim, ClaimSkipped, AcquireLock, HandlerReturns, HandlerRaises, LoadRow,
        ScheduleRetry, GiveUp, Republish, ReadLock, DeleteLock, Complete, Restart, jobRow
<1>8. CASE UNCHANGED vars \/ (\E j \in Jobs : ExpireLock(j))
           \/ \E w \in Workers : AcquireRaises(w) \/ RepublishSwallowed(w) \/ ReleaseRaises(w)
                                 \/ Crash(w)
  <2>1. UNCHANGED <<key, call>>
    BY <1>8 DEF vars, ExpireLock, AcquireRaises, RepublishSwallowed, ReleaseRaises, Crash, jobRow
  <2>2. QED
    BY <1>5, <2>1
<1>9. QED
  BY <1>3, <1>4, <1>5, <1>6, <1>7, <1>8 DEF Next, NewCall, CallStep, Disruption

\* Deduplication, however requests overlap: what enqueue's SELECT did not find is inserted once
\* per request that looked before, and rows keep their key.
THEOREM DuplicatesBounded == Spec => []DuplicatesAreFew
<1>1. Init => RoomForChecked
  <2> SUFFICES ASSUME Init, NEW k \in Keys
               PROVE  /\ IsFiniteSet(RowsOf(k))
                      /\ Cardinality(RowsOf(k)) + Cardinality(Checked(k)) <= Cardinality(Callers)
    BY DEF RoomForChecked
  <2>1. RowsOf(k) = {} /\ Checked(k) = {}
    BY NoneAssumption DEF Init, RowsOf, Checked, IdleCall
  <2>2. QED
    BY <2>1, CheckedAreCallers, FS_EmptySet
<1>2. TypeOK /\ RoomForChecked /\ [Next]_vars => RoomForChecked'
  BY RoomIsKept
<1>3. RoomForChecked => DuplicatesAreFew
  <2> SUFFICES ASSUME RoomForChecked, NEW k \in Keys
               PROVE  Cardinality(RowsOf(k)) <= Cardinality(Callers)
    BY DEF DuplicatesAreFew, RowsOf
  <2> DEFINE n == Cardinality(RowsOf(k))
  <2>1. n \in Nat /\ n + Cardinality(Checked(k)) <= Cardinality(Callers)
    BY FS_CardinalityType DEF RoomForChecked
  <2> HIDE DEF n
  <2>2. n <= Cardinality(Callers)
    BY <2>1, CheckedAreCallers
  <2>3. QED
    BY <2>2 DEF n
<1>4. QED
  BY TypeCorrect, <1>1, <1>2, <1>3, PTL DEF Spec

=============================================================================
