------------------------------ MODULE ServiceProofs ------------------------------
(***************************************************************************)
(* Theorems about the composition of MCServices and two of its components. *)
(* InlineWorker, for any number of jobs, attempts, manual retries and      *)
(* processes: two processes never execute a job together, and the          *)
(* executions of a job between manual retries are bounded by the number of *)
(* processes, not by worker_max_attempts.  LogDiagnosis, for any lines,    *)
(* logs, limits and answers: what is stored follows from the log.          *)
(***************************************************************************)
EXTENDS MCServices, AccountProofs, InstallationsProofs, MembershipProofs

-----------------------------------------------------------------------------
(* InlineWorker. *)

RowType    == [status : InlineStatuses, attempts : 0 .. MaxAttempts]
WorkerType == [step : {"stopped", "looping", "selected", "executing"}, job : 0 .. MaxJobs]

\* The processes that have selected a job and not yet tried to claim it.
Selectors(j) == {w \in InlineWorkers : worker[w].step = "selected" /\ worker[w].job = j}

\* Who selects or executes has a job, an executed job is RUNNING and has one executor.
ExecutorsOwn ==
  /\ \A w \in InlineWorkers :
       /\ worker[w].step \in {"selected", "executing"} => worker[w].job \in InlineJobs
       /\ worker[w].step = "executing" => row[worker[w].job].status = "RUNNING"
  /\ \A v, w \in InlineWorkers :
       worker[v].step = "executing" /\ worker[w].step = "executing"
         /\ worker[v].job = worker[w].job => v = w

\* How often a job has been executed: as often as it was attempted, and once more when
\* the attempt is under way or was the last.
ExecutionsAreAttempts ==
  \A j \in InlineJobs :
    /\ executions[j] \in Nat
    /\ row[j].status \in {"NONE", "QUEUED", "RETRYING"} => executions[j] <= row[j].attempts
    /\ executions[j] <= row[j].attempts + 1

\* A QUEUED job has failed once at most.  After the second claim nobody selects it any
\* more: each further execution uses up one of those who had selected it.
SelectorsAreSpent ==
  \A j \in InlineJobs :
    /\ row[j].status = "NONE" => row[j].attempts = 0
    /\ row[j].status = "QUEUED" => row[j].attempts <= 1
    /\ row[j].status = "RETRYING" \/ (row[j].status = "RUNNING" /\ row[j].attempts >= 1)
         => executions[j] + Cardinality(Selectors(j)) <= Cardinality(InlineWorkers) + 1
    /\ row[j].status \in {"COMPLETED", "FAILED_PERMANENT"}
         => executions[j] <= Cardinality(InlineWorkers) + 1

InlineInv ==
  /\ row \in [InlineJobs -> RowType]
  /\ worker \in [InlineWorkers -> WorkerType]
  /\ executions \in [InlineJobs -> Nat]
  /\ resets \in 0 .. MaxResets
  /\ ExecutorsOwn
  /\ ExecutionsAreAttempts
  /\ SelectorsAreSpent

-----------------------------------------------------------------------------
(* Counting the processes that have selected a job. *)

LEMMA SelectorsAreFinite ==
  \A j : /\ IsFiniteSet(Selectors(j))
         /\ Cardinality(Selectors(j)) \in Nat
         /\ Cardinality(Selectors(j)) <= Cardinality(InlineWorkers)
<1> SUFFICES ASSUME NEW j
             PROVE  /\ IsFiniteSet(Selectors(j))
                    /\ Cardinality(Selectors(j)) \in Nat
                    /\ Cardinality(Selectors(j)) <= Cardinality(InlineWorkers)
  OBVIOUS
<1>1. Selectors(j) \in SUBSET InlineWorkers
  BY DEF Selectors
<1>2. IsFiniteSet(Selectors(j)) /\ Cardinality(Selectors(j)) <= Cardinality(InlineWorkers)
  BY <1>1, FS_Subset, InlineWorkersAssumption
<1>3. QED
  BY <1>2, FS_CardinalityType

LEMMA WorkersAreCounted == Cardinality(InlineWorkers) \in Nat
BY FS_CardinalityType, InlineWorkersAssumption

\* A process that does not end up having selected a job adds nobody to its selectors, and
\* takes itself away if it had selected it.
LEMMA SelectorLeaves ==
  ASSUME InlineInv, NEW w \in InlineWorkers, NEW to \in WorkerType, to.step # "selected",
         Move(w, to), NEW j \in InlineJobs
  PROVE  Cardinality(Selectors(j)') =
           IF worker[w].step = "selected" /\ worker[w].job = j
           THEN Cardinality(Selectors(j)) - 1 ELSE Cardinality(Selectors(j))
<1>1. Selectors(j)' = Selectors(j) \ {w}
  BY DEF InlineInv, Selectors, Move
<1>2. Cardinality(Selectors(j) \ {w}) = IF w \in Selectors(j)
                                        THEN Cardinality(Selectors(j)) - 1
                                        ELSE Cardinality(Selectors(j))
  BY SelectorsAreFinite, FS_RemoveElement
<1>3. w \in Selectors(j) <=> worker[w].step = "selected" /\ worker[w].job = j
  BY DEF Selectors
<1>4. QED
  BY <1>1, <1>2, <1>3

\* The same for an end of the processes' steps that says nothing of the jobs.
LEMMA SelectorsShrink ==
  ASSUME InlineInv, NEW w \in InlineWorkers, NEW to \in WorkerType, to.step # "selected",
         Move(w, to), NEW j \in InlineJobs
  PROVE  /\ Cardinality(Selectors(j)') \in Nat
         /\ Cardinality(Selectors(j)') <= Cardinality(Selectors(j))
<1>1. Cardinality(Selectors(j)) \in Nat
  BY SelectorsAreFinite
<1>2. Cardinality(Selectors(j)') <= Cardinality(Selectors(j))
  BY SelectorLeaves, <1>1
<1>3. Selectors(j)' = Selectors(j) \ {w}
  BY DEF InlineInv, Selectors, Move
<1>4. Cardinality(Selectors(j) \ {w}) \in Nat
  BY SelectorsAreFinite, FS_RemoveElement, FS_CardinalityType
<1>5. QED
  BY <1>2, <1>3, <1>4

-----------------------------------------------------------------------------
(* The invariant. *)

LEMMA InlineInitial == InlineInit => InlineInv
<1> SUFFICES ASSUME InlineInit
             PROVE  InlineInv
  OBVIOUS
<1>1. row \in [InlineJobs -> RowType] /\ worker \in [InlineWorkers -> WorkerType]
  BY InlineAssumption DEF InlineInit, RowType, WorkerType, InlineStatuses, Stopped
<1>2. executions \in [InlineJobs -> Nat] /\ resets \in 0 .. MaxResets
  BY InlineAssumption DEF InlineInit
<1>3. ExecutorsOwn /\ ExecutionsAreAttempts /\ SelectorsAreSpent
  BY DEF InlineInit, ExecutorsOwn, ExecutionsAreAttempts, SelectorsAreSpent, Stopped
<1>4. QED
  BY <1>1, <1>2, <1>3 DEF InlineInv

\* A process moves on without a job: to the head of the loop, or to its end.
LEMMA RestTypes == Stopped \in WorkerType /\ Looping \in WorkerType
                   /\ Stopped.step = "stopped" /\ Looping.step = "looping"
BY InlineAssumption DEF Stopped, Looping, WorkerType

LEMMA Resting ==
  ASSUME InlineInv, NEW w \in InlineWorkers, NEW to \in {Stopped, Looping}, Move(w, to),
         UNCHANGED <<row, executions, resets>>
  PROVE  InlineInv'
<1>1. to \in WorkerType /\ to.step \notin {"selected", "executing"}
  BY RestTypes
<1>2. worker' \in [InlineWorkers -> WorkerType]
  BY <1>1 DEF InlineInv, Move
<1>3. ExecutorsOwn'
  BY <1>1 DEF InlineInv, Move, ExecutorsOwn
<1>4. ExecutionsAreAttempts'
  BY DEF InlineInv, ExecutionsAreAttempts
<1>5. SelectorsAreSpent'
  <2> SUFFICES ASSUME NEW j \in InlineJobs
               PROVE  row[j].status = "RETRYING" \/ (row[j].status = "RUNNING" /\ row[j].attempts >= 1)
                 => executions[j] + Cardinality(Selectors(j)') <= Cardinality(InlineWorkers) + 1
    BY DEF InlineInv, SelectorsAreSpent
  <2>1. /\ Cardinality(Selectors(j)') \in Nat
        /\ Cardinality(Selectors(j)') <= Cardinality(Selectors(j))
    BY <1>1, SelectorsShrink
  <2>2. executions[j] \in Nat /\ Cardinality(Selectors(j)) \in Nat
    BY SelectorsAreFinite DEF InlineInv
  <2>3. QED
    BY <2>1, <2>2, WorkersAreCounted DEF InlineInv, SelectorsAreSpent
<1>6. QED
  BY <1>2, <1>3, <1>4, <1>5 DEF InlineInv

LEMMA EnqueueKeeps == ASSUME InlineInv, NEW i \in InlineJobs, EnqueueInline(i)
                      PROVE  InlineInv'
<1>1. row[i].status = "NONE" /\ row' = [row EXCEPT ![i].status = "QUEUED"]
  BY DEF EnqueueInline
<1>2. row' \in [InlineJobs -> RowType]
  BY <1>1 DEF InlineInv, RowType, InlineStatuses
<1>3. ExecutorsOwn'
  BY <1>1 DEF EnqueueInline, InlineInv, ExecutorsOwn
<1>4. ExecutionsAreAttempts'
  BY <1>1, <1>2 DEF EnqueueInline, InlineInv, ExecutionsAreAttempts, RowType
<1>5. SelectorsAreSpent'
  BY <1>1, <1>2 DEF EnqueueInline, InlineInv, SelectorsAreSpent, RowType, Selectors
<1>6. QED
  BY <1>2, <1>3, <1>4, <1>5 DEF EnqueueInline, InlineInv

LEMMA ResetKeeps == ASSUME InlineInv, NEW i \in InlineJobs, ResetJob(i)
                    PROVE  InlineInv'
<1> USE DEF ResetJob
<1>1. row' \in [InlineJobs -> RowType] /\ executions' \in [InlineJobs -> Nat]
  BY InlineAssumption DEF InlineInv, RowType, InlineStatuses
<1>2. ExecutorsOwn'
  BY DEF InlineInv, ExecutorsOwn
<1>3. ExecutionsAreAttempts'
  BY <1>1 DEF InlineInv, ExecutionsAreAttempts, RowType
<1>4. SelectorsAreSpent'
  BY <1>1 DEF InlineInv, SelectorsAreSpent, RowType, Selectors
<1>5. resets' \in 0 .. MaxResets
  BY InlineAssumption DEF InlineInv
<1>6. QED
  BY <1>1, <1>2, <1>3, <1>4, <1>5 DEF InlineInv

\* Only a QUEUED job gains a selector.
LEMMA SelectKeeps == ASSUME InlineInv, NEW w \in InlineWorkers, SelectJob(w)
                     PROVE  InlineInv'
<1> DEFINE selected(i) == [step |-> "selected", job |-> i]
<1>1. CASE Move(w, Stopped)
  BY <1>1, Resting DEF SelectJob
<1>2. ASSUME NEW i \in InlineJobs, row[i].status = "QUEUED", Move(w, selected(i))
      PROVE  InlineInv'
  <2>1. selected(i) \in WorkerType
    BY DEF WorkerType, InlineJobs
  <2>2. worker' \in [InlineWorkers -> WorkerType]
    BY <1>2, <2>1 DEF InlineInv, Move
  <2>3. ExecutorsOwn'
    BY <1>2 DEF SelectJob, InlineInv, Move, ExecutorsOwn
  <2>4. ExecutionsAreAttempts'
    BY DEF SelectJob, InlineInv, ExecutionsAreAttempts
  <2>5. \A j \in InlineJobs : j # i => Selectors(j)' = Selectors(j)
    BY <1>2 DEF SelectJob, InlineInv, Move, Selectors
  <2>6. SelectorsAreSpent'
    BY <1>2, <2>5 DEF SelectJob, InlineInv, SelectorsAreSpent
  <2>7. QED
    BY <2>2, <2>3, <2>4, <2>6 DEF SelectJob, InlineInv
<1>3. Move(w, Stopped) \/ \E i \in InlineJobs : row[i].status = "QUEUED" /\ Move(w, selected(i))
  BY DEF SelectJob
<1>4. QED
  BY <1>1, <1>2, <1>3

\* A claim that succeeds finds no executor, and takes the claimant from the selectors.
LEMMA ClaimKeeps == ASSUME InlineInv, NEW w \in InlineWorkers, ClaimInline(w)
                    PROVE  InlineInv'
<1> DEFINE to == [worker[w] EXCEPT !.step = "executing"]
<1>1. CASE ~ Claimed(worker[w].job)
  BY <1>1, Resting DEF ClaimInline
<1>2. ASSUME NEW i \in InlineJobs, i = worker[w].job, Claimed(i)
      PROVE  InlineInv'
  <2>1. /\ worker[w].step = "selected" /\ worker[w].job = i
        /\ row' = [row EXCEPT ![i].status = "RUNNING"]
        /\ executions' = [executions EXCEPT ![i] = @ + 1]
        /\ Move(w, to) /\ resets' = resets
        /\ row[i].status \in {"QUEUED", "RETRYING"}
    BY <1>2 DEF ClaimInline, Claimed, InlineInv, ExecutorsOwn
  <2>2. to \in WorkerType /\ to.step = "executing" /\ to.job = i
    BY <1>2 DEF InlineInv, WorkerType
  <2>3. row' \in [InlineJobs -> RowType] /\ executions' \in [InlineJobs -> Nat]
    BY <2>1 DEF InlineInv, RowType, InlineStatuses
  <2>4. worker' \in [InlineWorkers -> WorkerType]
    BY <2>1, <2>2 DEF InlineInv, Move
  <2>5. \A v \in InlineWorkers : ~ (worker[v].step = "executing" /\ worker[v].job = i)
    BY <2>1 DEF InlineInv, ExecutorsOwn
  <2>6. ExecutorsOwn'
    BY <2>1, <2>2, <2>5 DEF InlineInv, ExecutorsOwn, Move, RowType
  <2>7. ExecutionsAreAttempts'
    BY <2>1, <2>3 DEF InlineInv, ExecutionsAreAttempts, RowType
  <2>8. SelectorsAreSpent'
    <3> HIDE DEF to
    <3>0. \A j \in InlineJobs : Cardinality(Selectors(j)') =
            IF i = j THEN Cardinality(Selectors(j)) - 1 ELSE Cardinality(Selectors(j))
      BY <2>1, <2>2, SelectorLeaves
    <3>1. \A j \in InlineJobs : j # i =>
            /\ row'[j] = row[j] /\ executions'[j] = executions[j]
            /\ Cardinality(Selectors(j)') = Cardinality(Selectors(j))
      BY <2>1, <3>0 DEF InlineInv
    <3>2. /\ row'[i].status = "RUNNING" /\ row'[i].attempts = row[i].attempts
          /\ executions'[i] = executions[i] + 1
          /\ Cardinality(Selectors(i)') = Cardinality(Selectors(i)) - 1
      BY <2>1, <3>0 DEF InlineInv, RowType
    <3>3. /\ Cardinality(Selectors(i)) \in Nat /\ executions[i] \in Nat
          /\ Cardinality(Selectors(i)) <= Cardinality(InlineWorkers)
          /\ row[i].attempts \in Nat
      BY <2>1, SelectorsAreFinite DEF InlineInv, RowType
    <3>4. row[i].status = "QUEUED" => executions[i] <= 1
      BY <2>1, <3>3 DEF InlineInv, SelectorsAreSpent, ExecutionsAreAttempts
    <3>5. row[i].status = "RETRYING" =>
            executions[i] + Cardinality(Selectors(i)) <= Cardinality(InlineWorkers) + 1
      BY <2>1 DEF InlineInv, SelectorsAreSpent
    <3>6. executions'[i] + Cardinality(Selectors(i)') <= Cardinality(InlineWorkers) + 1
      BY <2>1, <3>2, <3>3, <3>4, <3>5, WorkersAreCounted
    <3>7. QED
      BY <3>1, <3>2, <3>6 DEF InlineInv, SelectorsAreSpent
  <2>9. QED
    BY <2>1, <2>3, <2>4, <2>6, <2>7, <2>8 DEF InlineInv
<1>3. worker[w].job \in InlineJobs
  BY DEF ClaimInline, InlineInv, ExecutorsOwn
<1>4. QED
  BY <1>1, <1>2, <1>3

\* An execution ends the job, or counts the attempt; the first one is QUEUED again, the
\* others are RETRYING.
LEMMA EndKeeps ==
  ASSUME InlineInv, NEW w \in InlineWorkers, NEW to \in RowType, EndExecution(w, to),
         \/ /\ to.status \in {"COMPLETED", "FAILED_PERMANENT"}
            /\ to.attempts = row[worker[w].job].attempts
         \/ /\ to.status \in {"QUEUED", "RETRYING"}
            /\ to.attempts = row[worker[w].job].attempts + 1
            /\ to.status = "QUEUED" <=> to.attempts <= 1
  PROVE  InlineInv'
<1> DEFINE i == worker[w].job
<1>1. /\ i \in InlineJobs /\ row[i].status = "RUNNING" /\ worker[w].step = "executing"
      /\ row' = [row EXCEPT ![i] = to] /\ Move(w, Looping)
      /\ executions' = executions /\ resets' = resets
  BY DEF EndExecution, InlineInv, ExecutorsOwn
<1>2. row' \in [InlineJobs -> RowType]
  BY <1>1 DEF InlineInv
<1>3. worker' \in [InlineWorkers -> WorkerType]
  BY <1>1, RestTypes DEF InlineInv, Move
<1>4. ExecutorsOwn'
  BY <1>1, RestTypes DEF InlineInv, Move, ExecutorsOwn
<1>5. row[i].attempts \in Nat /\ executions[i] \in Nat /\ executions[i] <= row[i].attempts + 1
  BY <1>1 DEF InlineInv, RowType, ExecutionsAreAttempts
<1>6. ExecutionsAreAttempts'
  BY <1>1, <1>5 DEF InlineInv, ExecutionsAreAttempts
<1>7. \A j \in InlineJobs : Cardinality(Selectors(j)') = Cardinality(Selectors(j))
  BY <1>1, RestTypes, SelectorLeaves
<1>8. SelectorsAreSpent'
  <2>1. /\ Cardinality(Selectors(i)) \in Nat
        /\ Cardinality(Selectors(i)) <= Cardinality(InlineWorkers)
    BY SelectorsAreFinite
  <2>2. row[i].attempts >= 1 =>
          executions[i] + Cardinality(Selectors(i)) <= Cardinality(InlineWorkers) + 1
    BY <1>1 DEF InlineInv, SelectorsAreSpent
  <2>3. /\ to.status = "QUEUED" => to.attempts <= 1
        /\ to.status = "RETRYING" => row[i].attempts >= 1
    BY <1>5
  <2>4. to.status \in {"COMPLETED", "FAILED_PERMANENT"}
          => executions[i] <= Cardinality(InlineWorkers) + 1
    BY <1>5, <2>1, <2>2, WorkersAreCounted
  <2>5. QED
    BY <1>1, <1>7, <2>2, <2>3, <2>4 DEF InlineInv, SelectorsAreSpent
<1>9. QED
  BY <1>1, <1>2, <1>3, <1>4, <1>6, <1>8 DEF InlineInv

LEMMA SucceedKeeps == ASSUME InlineInv, NEW w \in InlineWorkers, Succeed(w)
                      PROVE  InlineInv'
<1> DEFINE to == [row[worker[w].job] EXCEPT !.status = "COMPLETED"]
<1>1. worker[w].job \in InlineJobs /\ EndExecution(w, to)
  BY DEF Succeed, EndExecution, InlineInv, ExecutorsOwn
<1>2. to \in RowType /\ to.status = "COMPLETED" /\ to.attempts = row[worker[w].job].attempts
  BY <1>1 DEF InlineInv, RowType, InlineStatuses
<1> HIDE DEF to
<1>3. QED
  BY <1>1, <1>2, EndKeeps

LEMMA FailForGoodKeeps == ASSUME InlineInv, NEW w \in InlineWorkers, FailForGood(w)
                          PROVE  InlineInv'
<1> DEFINE to == [row[worker[w].job] EXCEPT !.status = "FAILED_PERMANENT"]
<1>1. worker[w].job \in InlineJobs /\ EndExecution(w, to)
  BY DEF FailForGood, EndExecution, InlineInv, ExecutorsOwn
<1>2. to \in RowType /\ to.status = "FAILED_PERMANENT"
      /\ to.attempts = row[worker[w].job].attempts
  BY <1>1 DEF InlineInv, RowType, InlineStatuses
<1> HIDE DEF to
<1>3. QED
  BY <1>1, <1>2, EndKeeps

LEMMA FailForNowKeeps == ASSUME InlineInv, NEW w \in InlineWorkers, FailForNow(w)
                         PROVE  InlineInv'
<1> DEFINE n  == row[worker[w].job].attempts
           to == IF n >= MaxAttempts THEN [status |-> "FAILED_PERMANENT", attempts |-> n]
                 ELSE [status |-> RetryStatus(n + 1), attempts |-> n + 1]
<1>1. EndExecution(w, to)
  BY DEF FailForNow
<1>2. worker[w].job \in InlineJobs
  BY <1>1 DEF EndExecution, InlineInv, ExecutorsOwn
<1>3. n \in 0 .. MaxAttempts
  BY <1>2 DEF InlineInv, RowType
<1>4. to \in RowType
  BY <1>3, InlineAssumption DEF RowType, InlineStatuses, RetryStatus
<1>5. \/ to.status \in {"COMPLETED", "FAILED_PERMANENT"} /\ to.attempts = n
      \/ /\ to.status \in {"QUEUED", "RETRYING"} /\ to.attempts = n + 1
         /\ to.status = "QUEUED" <=> to.attempts <= 1
  BY <1>3, InlineAssumption DEF RetryStatus
<1> HIDE DEF to
<1>6. QED
  BY <1>1, <1>4, <1>5, EndKeeps

LEMMA InlineStep == InlineInv /\ [InlineNext]_inlineVars => InlineInv'
<1> SUFFICES ASSUME InlineInv, [InlineNext]_inlineVars
             PROVE  InlineInv'
  OBVIOUS
<1>1. ASSUME NEW j \in InlineJobs, EnqueueInline(j) \/ ResetJob(j)
      PROVE  InlineInv'
  BY <1>1, EnqueueKeeps, ResetKeeps
<1>2. ASSUME NEW w \in InlineWorkers, StartInline(w) \/ StopInline(w)
      PROVE  InlineInv'
  BY <1>2, Resting DEF StartInline, StopInline
<1>3. ASSUME NEW w \in InlineWorkers, SelectJob(w) \/ ClaimInline(w)
      PROVE  InlineInv'
  BY <1>3, SelectKeeps, ClaimKeeps
<1>4. ASSUME NEW w \in InlineWorkers, Succeed(w) \/ FailForGood(w) \/ FailForNow(w)
      PROVE  InlineInv'
  BY <1>4, SucceedKeeps, FailForGoodKeeps, FailForNowKeeps
<1>5. CASE UNCHANGED inlineVars
  <2>1. \A j : Selectors(j)' = Selectors(j)
    BY <1>5 DEF inlineVars, Selectors
  <2>2. QED
    BY <1>5, <2>1 DEF inlineVars, InlineInv, ExecutorsOwn, ExecutionsAreAttempts,
                      SelectorsAreSpent
<1>6. QED
  BY <1>1, <1>2, <1>3, <1>4, <1>5 DEF InlineNext

-----------------------------------------------------------------------------
(* What it implies. *)

LEMMA InlineBounded == InlineInv => InlineRunsAreBounded
<1> SUFFICES ASSUME InlineInv, NEW j \in InlineJobs
             PROVE  /\ Cardinality(Executing(j)) <= 1
                    /\ executions[j] <= Cardinality(InlineWorkers) + 1
  BY DEF InlineRunsAreBounded
<1>1. Cardinality(Executing(j)) <= 1
  <2>1. Executing(j) = {} \/ \E w : Executing(j) = {w}
    BY DEF InlineInv, ExecutorsOwn, Executing
  <2>2. Cardinality(Executing(j)) = 0 \/ Cardinality(Executing(j)) = 1
    <3>1. CASE Executing(j) = {}
      BY <3>1, FS_EmptySet
    <3>2. ASSUME NEW w, Executing(j) = {w}
          PROVE  Cardinality(Executing(j)) = 1
      BY <3>2, FS_Singleton, Zenon
    <3>3. QED
      BY <2>1, <3>1, <3>2
  <2>3. QED
    BY <2>2
<1>2. executions[j] <= Cardinality(InlineWorkers) + 1
  <2>1. executions[j] \in Nat /\ row[j] \in RowType /\ Cardinality(Selectors(j)) \in Nat
    BY SelectorsAreFinite DEF InlineInv
  <2>2. executions[j] <= row[j].attempts + 1 /\ row[j].attempts \in Nat
    BY <2>1 DEF InlineInv, ExecutionsAreAttempts, RowType
  <2>3. CASE row[j].status \in {"NONE", "QUEUED"}
    BY <2>1, <2>2, <2>3, WorkersAreCounted
      DEF InlineInv, SelectorsAreSpent, ExecutionsAreAttempts
  <2>4. CASE row[j].status = "RUNNING" /\ row[j].attempts = 0
    BY <2>1, <2>2, <2>4, WorkersAreCounted
  <2>5. CASE row[j].status = "RETRYING" \/ (row[j].status = "RUNNING" /\ row[j].attempts >= 1)
    BY <2>1, <2>5, WorkersAreCounted DEF InlineInv, SelectorsAreSpent
  <2>6. CASE row[j].status \in {"COMPLETED", "FAILED_PERMANENT"}
    BY <2>6 DEF InlineInv, SelectorsAreSpent
  <2>7. QED
    BY <2>1, <2>2, <2>3, <2>4, <2>5, <2>6 DEF RowType, InlineStatuses
<1>3. QED
  BY <1>1, <1>2

LEMMA InlineTyped == InlineInv => InlineTypeOK
<1> SUFFICES ASSUME InlineInv
             PROVE  InlineTypeOK
  OBVIOUS
<1>1. ASSUME NEW j \in InlineJobs
      PROVE  executions[j] \in 0 .. MaxAttempts + 1
  BY InlineAssumption DEF InlineInv, ExecutionsAreAttempts, RowType
<1>2. executions \in [InlineJobs -> 0 .. MaxAttempts + 1]
  BY <1>1 DEF InlineInv
<1>3. QED
  BY <1>2 DEF InlineInv, InlineTypeOK, RowType, WorkerType

\* A job is executed once per attempt at most, and attempts end at worker_max_attempts.
THEOREM InlineTypeCorrect == InlineSpec => []InlineTypeOK
<1>1. QED
  BY InlineInitial, InlineStep, InlineTyped, PTL DEF InlineSpec

\* Inline workers never execute a job together, whatever was selected by whom and whoever
\* died; and run_once, which passes over RETRYING, executes a job twice between manual
\* retries, with one execution more for each further process (run_once, _claim, retry).
THEOREM InlineRunsBounded == InlineSpec => []InlineRunsAreBounded
<1>1. QED
  BY InlineInitial, InlineStep, InlineBounded, PTL DEF InlineSpec

-----------------------------------------------------------------------------
(* LogDiagnosis: numbers and loops. *)

\* Min finds the least number of a set of numbers.
LEMMA LeastNumber ==
  ASSUME NEW S \in SUBSET Nat, S # {}
  PROVE  /\ Min(S) \in S
         /\ \A n \in S : Min(S) <= n
<1>1. PICK m \in S : \A n \in S : <<n, m>> \notin OpToRel(<, Nat)
  BY WFMin, NatLessThanWellFounded, Zenon
<1>2. \A n \in S : ~ (n < m)
  BY <1>1, Zenon DEF OpToRel
<1>3. \A n \in S : m <= n
  BY <1>2
<1>4. QED
  BY <1>3 DEF Min

\* A set of numbers up to m has a greatest one.
LEMMA GreatestNumber ==
  ASSUME NEW m \in Nat, NEW S \in SUBSET (0 .. m), S # {}
  PROVE  /\ Max(S) \in S
         /\ \A n \in S : n <= Max(S)
<1> DEFINE T == {m - n : n \in S}
<1>1. T \in SUBSET Nat /\ T # {}
  <2>1. \A n \in S : m - n \in Nat
    OBVIOUS
  <2>2. QED
    BY <2>1
<1>2. Min(T) \in T /\ \A k \in T : Min(T) <= k
  BY <1>1, LeastNumber
<1>3. PICK n \in S : Min(T) = m - n
  BY <1>2
<1>4. \A k \in S : m - n <= m - k
  BY <1>2, <1>3
<1>5. \A k \in S : n >= k
  BY <1>4
<1>6. QED
  BY <1>5 DEF Max

\* Induction up to a number, about a set.
LEMMA CountingUp ==
  ASSUME NEW m \in Nat, NEW S, 0 \in S, \A n \in Nat : n < m /\ n \in S => n + 1 \in S
  PROVE  \A n \in 0 .. m : n \in S
<1> DEFINE Missing == {n \in 0 .. m : n \notin S}
<1>1. SUFFICES ASSUME Missing # {} PROVE FALSE
  OBVIOUS
<1>2. Missing \in SUBSET Nat
  OBVIOUS
<1>3. Min(Missing) \in Missing /\ \A n \in Missing : Min(Missing) <= n
  BY <1>1, <1>2, LeastNumber
<1> DEFINE l == Min(Missing)
<1> HIDE DEF l
<1>4. l \in 0 .. m /\ l \notin S /\ \A n \in Missing : l <= n
  BY <1>3 DEF l
<1>5. l # 0 /\ l - 1 \in Nat /\ l - 1 < m /\ l - 1 \notin Missing
  BY <1>4
<1>6. l - 1 \in S
  BY <1>4, <1>5
<1>7. (l - 1) + 1 \in S
  BY <1>5, <1>6
<1>8. QED
  BY <1>4, <1>7

-----------------------------------------------------------------------------
(* The loops of process_log. *)

\* The loop over the lines is a function: its value after n lines is CollapseLine of its value
\* before the last of them.
LEMMA CollapsingUnfolds ==
  ASSUME NEW log, Len(log) \in Nat
  PROVE  /\ Collapsing(log)[0] = <<>>
         /\ \A n \in 1 .. Len(log) :
              Collapsing(log)[n] = CollapseLine(Collapsing(log)[n - 1], log[n])
<1> DEFINE Body(g, n) == IF n = 0 THEN <<>> ELSE CollapseLine(g[n - 1], log[n])
           S == {m \in 0 .. Len(log) : \E g : g = [n \in 0 .. m |-> Body(g, n)]}
<1>1. 0 \in S
  <2> DEFINE g == [n \in 0 .. 0 |-> <<>>]
  <2>1. g = [n \in 0 .. 0 |-> Body(g, n)]
    OBVIOUS
  <2> HIDE DEF g
  <2>2. QED
    BY <2>1
<1>2. ASSUME NEW m \in Nat, m < Len(log), m \in S
      PROVE  m + 1 \in S
  <2>1. PICK g : g = [n \in 0 .. m |-> Body(g, n)]
    BY <1>2
  <2> DEFINE h == [n \in 0 .. m + 1 |-> IF n <= m THEN g[n] ELSE CollapseLine(g[m], log[m + 1])]
  <2>2. ASSUME NEW n \in 0 .. m + 1
        PROVE  h[n] = Body(h, n)
    <3>1. CASE n <= m
      <4>1. h[n] = g[n] /\ n \in 0 .. m
        BY <3>1
      <4>2. g[n] = Body(g, n)
        BY <2>1, <4>1
      <4>3. n # 0 => g[n - 1] = h[n - 1]
        BY <3>1
      <4>4. QED
        BY <4>1, <4>2, <4>3
    <3>2. CASE n = m + 1
      <4>1. h[n] = CollapseLine(g[m], log[m + 1]) /\ h[m] = g[m] /\ n - 1 = m /\ n # 0
        BY <3>2
      <4>2. QED
        BY <3>2, <4>1
    <3>3. QED
      BY <3>1, <3>2
  <2>3. h = [n \in 0 .. m + 1 |-> h[n]]
    OBVIOUS
  <2> HIDE DEF h
  <2>4. h = [n \in 0 .. m + 1 |-> Body(h, n)]
    BY <2>2, <2>3
  <2>5. QED
    BY <1>2, <2>4
<1>3. Len(log) \in S
  <2> HIDE DEF S
  <2>1. \A n \in 0 .. Len(log) : n \in S
    BY <1>1, <1>2, CountingUp
  <2>2. QED
    BY <2>1
<1>4. \E g : g = [n \in 0 .. Len(log) |-> Body(g, n)]
  BY <1>3
<1>5. Collapsing(log) = [n \in 0 .. Len(log) |-> Body(Collapsing(log), n)]
  BY <1>4, Zenon DEF Collapsing
<1>6. QED
  BY <1>5

LEMMA CollectingUnfolds ==
  ASSUME NEW lines, Len(lines) \in Nat
  PROVE  /\ Collecting(lines)[0] = <<>>
         /\ \A n \in 1 .. Len(lines) :
              Collecting(lines)[n] = CollectLine(Collecting(lines)[n - 1], lines[n])
<1> DEFINE Body(g, n) == IF n = 0 THEN <<>> ELSE CollectLine(g[n - 1], lines[n])
           S == {m \in 0 .. Len(lines) : \E g : g = [n \in 0 .. m |-> Body(g, n)]}
<1>1. 0 \in S
  <2> DEFINE g == [n \in 0 .. 0 |-> <<>>]
  <2>1. g = [n \in 0 .. 0 |-> Body(g, n)]
    OBVIOUS
  <2> HIDE DEF g
  <2>2. QED
    BY <2>1
<1>2. ASSUME NEW m \in Nat, m < Len(lines), m \in S
      PROVE  m + 1 \in S
  <2>1. PICK g : g = [n \in 0 .. m |-> Body(g, n)]
    BY <1>2
  <2> DEFINE h == [n \in 0 .. m + 1 |-> IF n <= m THEN g[n] ELSE CollectLine(g[m], lines[m + 1])]
  <2>2. ASSUME NEW n \in 0 .. m + 1
        PROVE  h[n] = Body(h, n)
    <3>1. CASE n <= m
      <4>1. h[n] = g[n] /\ n \in 0 .. m
        BY <3>1
      <4>2. g[n] = Body(g, n)
        BY <2>1, <4>1
      <4>3. n # 0 => g[n - 1] = h[n - 1]
        BY <3>1
      <4>4. QED
        BY <4>1, <4>2, <4>3
    <3>2. CASE n = m + 1
      <4>1. h[n] = CollectLine(g[m], lines[m + 1]) /\ h[m] = g[m] /\ n - 1 = m /\ n # 0
        BY <3>2
      <4>2. QED
        BY <3>2, <4>1
    <3>3. QED
      BY <3>1, <3>2
  <2>3. h = [n \in 0 .. m + 1 |-> h[n]]
    OBVIOUS
  <2> HIDE DEF h
  <2>4. h = [n \in 0 .. m + 1 |-> Body(h, n)]
    BY <2>2, <2>3
  <2>5. QED
    BY <1>2, <2>4
<1>3. Len(lines) \in S
  <2> HIDE DEF S
  <2>1. \A n \in 0 .. Len(lines) : n \in S
    BY <1>1, <1>2, CountingUp
  <2>2. QED
    BY <2>1
<1>4. \E g : g = [n \in 0 .. Len(lines) |-> Body(g, n)]
  BY <1>3
<1>5. Collecting(lines) = [n \in 0 .. Len(lines) |-> Body(Collecting(lines), n)]
  BY <1>4, Zenon DEF Collecting
<1>6. QED
  BY <1>5

\* The lines of a sequence up to the n-th.
UpTo(log, n) == {log[i] : i \in 1 .. n}

\* Collapsing drops no line but blank ones, and never begins with one.
LEMMA CollapseKeepsLines ==
  ASSUME NEW log \in Seq(LogLines)
  PROVE  /\ Collapse(log) \in Seq(LogLines)
         /\ ToSet(Collapse(log)) \subseteq ToSet(log)
         /\ \A x \in ToSet(log) : ~ Is(x, "blank") => x \in ToSet(Collapse(log))
         /\ Collapse(log) # <<>> => ~ Is(Collapse(log)[1], "blank")
<1> DEFINE Kept(k, n) ==
             /\ k \in Seq(LogLines)
             /\ ToSet(k) \subseteq UpTo(log, n)
             /\ \A x \in UpTo(log, n) : ~ Is(x, "blank") => x \in ToSet(k)
             /\ k # <<>> => ~ Is(k[1], "blank")
           S == {n \in 0 .. Len(log) : Kept(Collapsing(log)[n], n)}
<1>t. Len(log) \in Nat /\ DOMAIN log = 1 .. Len(log) /\ \A i \in 1 .. Len(log) : log[i] \in LogLines
  BY LenProperties, ElementOfSeq
<1>u. /\ Collapsing(log)[0] = <<>>
      /\ \A n \in 1 .. Len(log) : Collapsing(log)[n] = CollapseLine(Collapsing(log)[n - 1], log[n])
  BY <1>t, CollapsingUnfolds
<1>1. 0 \in S
  <2>1. <<>> \in Seq(LogLines) /\ ToSet(<<>>) = {} /\ UpTo(log, 0) = {}
    BY EmptySeq DEF ToSet, UpTo
  <2>2. Kept(Collapsing(log)[0], 0)
    BY <1>u, <2>1
  <2> HIDE DEF Kept
  <2>3. QED
    BY <1>t, <2>2
<1>2. ASSUME NEW n \in Nat, n < Len(log), n \in S
      PROVE  n + 1 \in S
  <2> DEFINE k == Collapsing(log)[n]
             x == log[n + 1]
  <2>1. /\ k \in Seq(LogLines)
        /\ ToSet(k) \subseteq UpTo(log, n)
        /\ \A y \in UpTo(log, n) : ~ Is(y, "blank") => y \in ToSet(k)
        /\ k # <<>> => ~ Is(k[1], "blank")
    BY <1>2
  <2>2. x \in LogLines /\ Collapsing(log)[n + 1] = CollapseLine(k, x)
    BY <1>t, <1>u, <1>2
  <2>3. UpTo(log, n + 1) = UpTo(log, n) \cup {x}
    BY <1>2 DEF UpTo
  <2>k. Len(k) \in Nat /\ DOMAIN k = 1 .. Len(k) /\ (k # <<>> => Len(k) \in 1 .. Len(k))
    BY <2>1, LenProperties, EmptySeq
  <2> HIDE DEF k, x
  <2>4. CASE k = <<>> /\ Is(x, "blank")
    <3>1. Collapsing(log)[n + 1] = k
      BY <2>2, <2>4 DEF CollapseLine
    <3>2. Kept(k, n + 1)
      BY <2>1, <2>3, <2>4
    <3>3. QED
      BY <1>t, <1>2, <3>1, <3>2
  <2>5. CASE k # <<>> /\ Last(k) = x
    <3>1. Collapsing(log)[n + 1] = k
      BY <2>2, <2>5 DEF CollapseLine
    <3>2. x \in ToSet(k)
      BY <2>k, <2>5 DEF Last, ToSet
    <3>3. Kept(k, n + 1)
      BY <2>1, <2>3, <3>2
    <3>4. QED
      BY <1>t, <1>2, <3>1, <3>3
  <2>6. CASE ~ (k = <<>> /\ Is(x, "blank")) /\ ~ (k # <<>> /\ Last(k) = x)
    <3> DEFINE l == Append(k, x)
    <3>1. Collapsing(log)[n + 1] = l
      BY <2>2, <2>6 DEF CollapseLine
    <3>2. /\ l \in Seq(LogLines) /\ Len(l) = Len(k) + 1 /\ \A i \in 1 .. Len(k) : l[i] = k[i]
          /\ l[Len(k) + 1] = x
      BY <2>1, <2>2, AppendProperties
    <3>3. DOMAIN l = 1 .. Len(k) + 1
      BY <3>2, LenProperties
    <3> HIDE DEF l
    <3>4. ToSet(l) = ToSet(k) \cup {x}
      BY <2>k, <3>2, <3>3 DEF ToSet
    <3>5. ~ Is(l[1], "blank")
      <4>1. CASE k = <<>>
        <5>1. Len(k) = 0
          BY <4>1, EmptySeq
        <5>2. QED
          BY <2>6, <3>2, <4>1, <5>1
      <4>2. CASE k # <<>>
        BY <2>1, <2>k, <3>2, <4>2
      <4>3. QED
        BY <4>1, <4>2
    <3>6. Kept(l, n + 1)
      BY <2>1, <2>3, <3>2, <3>4, <3>5
    <3>7. QED
      BY <1>t, <1>2, <3>1, <3>6
  <2>7. QED
    BY <2>4, <2>5, <2>6
<1>3. Len(log) \in S
  <2> HIDE DEF S
  <2>1. \A n \in 0 .. Len(log) : n \in S
    BY <1>t, <1>1, <1>2, CountingUp
  <2>2. QED
    BY <1>t, <2>1
<1>4. UpTo(log, Len(log)) = ToSet(log)
  BY <1>t DEF UpTo, ToSet
<1>5. QED
  BY <1>3, <1>4 DEF Collapse

\* A sequence that has no element twice.
Distinct(s) == \A i, j \in 1 .. Len(s) : s[i] = s[j] => i = j

LEMMA CollectingFinds ==
  ASSUME NEW lines \in Seq(LogLines)
  PROVE  /\ Collecting(lines)[Len(lines)] \in Seq(LogLines)
         /\ ToSet(Collecting(lines)[Len(lines)]) = Diagnostic(lines)
         /\ Distinct(Collecting(lines)[Len(lines)])
<1> DEFINE Found(s, n) ==
             /\ s \in Seq(LogLines)
             /\ ToSet(s) = {x \in UpTo(lines, n) : Is(x, "diagnostic")}
             /\ Distinct(s)
           S == {n \in 0 .. Len(lines) : Found(Collecting(lines)[n], n)}
<1>t. /\ Len(lines) \in Nat /\ DOMAIN lines = 1 .. Len(lines)
      /\ \A i \in 1 .. Len(lines) : lines[i] \in LogLines
  BY LenProperties, ElementOfSeq
<1>u. /\ Collecting(lines)[0] = <<>>
      /\ \A n \in 1 .. Len(lines) :
           Collecting(lines)[n] = CollectLine(Collecting(lines)[n - 1], lines[n])
  BY <1>t, CollectingUnfolds
<1>1. 0 \in S
  <2>1. <<>> \in Seq(LogLines) /\ ToSet(<<>>) = {} /\ UpTo(lines, 0) = {} /\ Distinct(<<>>)
    BY EmptySeq DEF ToSet, UpTo, Distinct
  <2>2. Found(Collecting(lines)[0], 0)
    BY <1>u, <2>1
  <2> HIDE DEF Found
  <2>3. QED
    BY <1>t, <2>2
<1>2. ASSUME NEW n \in Nat, n < Len(lines), n \in S
      PROVE  n + 1 \in S
  <2> DEFINE s == Collecting(lines)[n]
             x == lines[n + 1]
  <2>1. s \in Seq(LogLines) /\ ToSet(s) = {y \in UpTo(lines, n) : Is(y, "diagnostic")} /\ Distinct(s)
    BY <1>2
  <2>2. x \in LogLines /\ Collecting(lines)[n + 1] = CollectLine(s, x)
    BY <1>t, <1>u, <1>2
  <2>3. UpTo(lines, n + 1) = UpTo(lines, n) \cup {x}
    BY <1>2 DEF UpTo
  <2>k. Len(s) \in Nat /\ DOMAIN s = 1 .. Len(s)
    BY <2>1, LenProperties
  <2> HIDE DEF s, x
  <2>4. Contains(s, x) <=> x \in ToSet(s)
    BY <2>k DEF Contains, ToSet
  <2>5. CASE ~ Is(x, "diagnostic") \/ Contains(s, x)
    <3>1. Collecting(lines)[n + 1] = s
      BY <2>2, <2>5 DEF CollectLine
    <3>2. Found(s, n + 1)
      BY <2>1, <2>3, <2>4, <2>5
    <3>3. QED
      BY <1>t, <1>2, <3>1, <3>2
  <2>6. CASE Is(x, "diagnostic") /\ ~ Contains(s, x)
    <3> DEFINE l == Append(s, x)
    <3>1. Collecting(lines)[n + 1] = l
      BY <2>2, <2>6 DEF CollectLine
    <3>2. /\ l \in Seq(LogLines) /\ Len(l) = Len(s) + 1 /\ \A i \in 1 .. Len(s) : l[i] = s[i]
          /\ l[Len(s) + 1] = x
      BY <2>1, <2>2, AppendProperties
    <3>3. DOMAIN l = 1 .. Len(s) + 1
      BY <3>2, LenProperties
    <3> HIDE DEF l
    <3>4. ToSet(l) = ToSet(s) \cup {x}
      BY <2>k, <3>2, <3>3 DEF ToSet
    <3>5. Distinct(l)
      <4> SUFFICES ASSUME NEW i \in 1 .. Len(s) + 1, NEW j \in 1 .. Len(s) + 1, l[i] = l[j]
                   PROVE  i = j
        BY <3>2 DEF Distinct
      <4>1. \A h \in 1 .. Len(s) : s[h] # x
        BY <2>6 DEF Contains
      <4>2. QED
        BY <2>1, <2>k, <3>2, <4>1 DEF Distinct
    <3>6. Found(l, n + 1)
      BY <2>1, <2>3, <2>6, <3>2, <3>4, <3>5
    <3>7. QED
      BY <1>t, <1>2, <3>1, <3>6
  <2>7. QED
    BY <2>5, <2>6
<1>3. Len(lines) \in S
  <2> HIDE DEF S
  <2>1. \A n \in 0 .. Len(lines) : n \in S
    BY <1>t, <1>1, <1>2, CountingUp
  <2>2. QED
    BY <1>t, <2>1
<1>4. UpTo(lines, Len(lines)) = ToSet(lines)
  BY <1>t DEF UpTo, ToSet
<1>5. QED
  BY <1>3, <1>4 DEF Diagnostic

\* In a sequence without repetitions, positions count what they hold.
LEMMA PositionsCount ==
  ASSUME NEW s \in Seq(LogLines), Distinct(s), NEW A
  PROVE  /\ IsFiniteSet(ToSet(s)) /\ IsFiniteSet({i \in DOMAIN s : s[i] \in A})
         /\ Cardinality({i \in DOMAIN s : s[i] \in A}) = Cardinality(ToSet(s) \cap A)
<1> DEFINE P == {i \in DOMAIN s : s[i] \in A}
           f == [i \in P |-> s[i]]
<1>1. Len(s) \in Nat /\ DOMAIN s = 1 .. Len(s)
  BY LenProperties
<1>2. IsFiniteSet(DOMAIN s)
  BY <1>1, FS_Interval
<1>3. IsFiniteSet(P)
  BY <1>2, FS_Subset
<1>4. f \in Bijection(P, ToSet(s) \cap A)
  <2>1. f \in [P -> ToSet(s) \cap A]
    BY DEF ToSet
  <2>2. \A i, j \in P : f[i] = f[j] => i = j
    BY <1>1 DEF Distinct
  <2>3. \A x \in ToSet(s) \cap A : \E i \in P : f[i] = x
    BY DEF ToSet
  <2> HIDE DEF f, P
  <2>4. QED
    BY <2>1, <2>2, <2>3 DEF Bijection, Injection, Surjection, IsInjective
<1>5. Cardinality(ToSet(s) \cap A) = Cardinality(P)
  BY <1>3, <1>4, FS_Bijection DEF ExistsBijection
<1>6. IsFiniteSet(ToSet(s))
  <2> DEFINE g == [i \in DOMAIN s |-> s[i]]
  <2>1. g \in Surjection(DOMAIN s, ToSet(s))
    <3>1. g \in [DOMAIN s -> ToSet(s)]
      BY DEF ToSet
    <3>2. \A x \in ToSet(s) : \E i \in DOMAIN s : g[i] = x
      BY DEF ToSet
    <3> HIDE DEF g
    <3>3. QED
      BY <3>1, <3>2 DEF Surjection
  <2>2. QED
    BY <1>2, <2>1, FS_Surjection
<1>7. QED
  BY <1>3, <1>5, <1>6

\* The first lines of a sequence.
LEMMA AtMostBounds ==
  ASSUME NEW a \in Nat, NEW b \in Nat
  PROVE  AtMost(a, b) \in Nat /\ AtMost(a, b) <= a /\ AtMost(a, b) <= b /\ (a <= b => AtMost(a, b) = a)
BY DEF AtMost

LEMMA FirstOnes ==
  ASSUME NEW s \in Seq(LogLines), NEW m \in Nat, m <= Len(s)
  PROVE  /\ SubSeq(s, 1, m) \in Seq(LogLines) /\ Len(SubSeq(s, 1, m)) = m
         /\ \A i \in 1 .. m : i \in 1 .. Len(s) /\ SubSeq(s, 1, m)[i] = s[i]
<1>1. Len(s) \in Nat
  BY LenProperties
<1>2. 1 \in Int /\ m \in Int
  OBVIOUS
<1>3. ASSUME NEW i \in 1 .. m
      PROVE  i \in 1 .. Len(s) /\ i \in 1 .. m - 1 + 1 /\ 1 + i - 1 = i
  BY <1>1
<1>4. ASSUME NEW i \in 1 .. m
      PROVE  s[i] \in LogLines
  BY <1>3, ElementOfSeq
<1>5. /\ SubSeq(s, 1, m) \in Seq(LogLines)
      /\ Len(SubSeq(s, 1, m)) = IF 1 <= m THEN m - 1 + 1 ELSE 0
      /\ \A i \in 1 .. m - 1 + 1 : SubSeq(s, 1, m)[i] = s[1 + i - 1]
  BY <1>2, <1>4, SubSeqProperties
<1>6. Len(SubSeq(s, 1, m)) = m
  BY <1>5
<1>7. ASSUME NEW i \in 1 .. m
      PROVE  SubSeq(s, 1, m)[i] = s[i]
  <2>1. SubSeq(s, 1, m)[i] = s[1 + i - 1]
    BY <1>3, <1>5
  <2>2. QED
    BY <1>3, <2>1
<1>8. QED
  BY <1>3, <1>5, <1>6, <1>7

LEMMA FirstLines ==
  ASSUME NEW s \in Seq(LogLines), NEW most \in Nat
  PROVE  LET f == SubSeq(s, 1, AtMost(Len(s), most)) IN
         /\ f \in Seq(LogLines) /\ Len(f) = AtMost(Len(s), most) /\ Len(f) <= most
         /\ \A i \in 1 .. Len(f) : i \in 1 .. Len(s) /\ f[i] = s[i]
         /\ ToSet(f) \subseteq ToSet(s)
         /\ Len(s) <= most => ToSet(f) = ToSet(s)
<1> DEFINE m == AtMost(Len(s), most)
           f == SubSeq(s, 1, m)
<1>1. Len(s) \in Nat /\ DOMAIN s = 1 .. Len(s)
  BY LenProperties
<1>2. m \in Nat /\ m <= Len(s) /\ m <= most /\ (Len(s) <= most => m = Len(s))
  BY <1>1, AtMostBounds
<1> HIDE DEF m
<1>3. f \in Seq(LogLines) /\ Len(f) = m /\ \A i \in 1 .. m : i \in 1 .. Len(s) /\ f[i] = s[i]
  BY <1>2, FirstOnes
<1> HIDE DEF f
<1>4. DOMAIN f = 1 .. m
  BY <1>3, LenProperties
<1>5. ToSet(f) \subseteq ToSet(s)
  BY <1>1, <1>3, <1>4 DEF ToSet
<1>6. ASSUME Len(s) <= most
      PROVE  ToSet(f) = ToSet(s)
  <2>1. DOMAIN f = DOMAIN s
    BY <1>1, <1>2, <1>4, <1>6
  <2>2. QED
    BY <1>1, <1>3, <1>4, <2>1 DEF ToSet
<1>7. QED
  BY <1>2, <1>3, <1>5, <1>6 DEF f, m

LEMMA SizesAreNumbers == MaxLog \in Nat /\ MaxEvidence \in Nat /\ MaxExcerpt \in Nat \ {0}
BY LogSizesAssumption

LEMMA QuotesAreANumber == MaxQuoted \in Nat \ {0}
BY LogSizesAssumption

\* The evidence is the diagnostic lines of the log, each once, if the limit cuts none off.
LEMMA EvidenceIsDiagnostic ==
  ASSUME NEW log \in Seq(LogLines)
  PROVE  /\ Evidence(log) \in Seq(LogLines) /\ Distinct(Evidence(log))
         /\ ToSet(Evidence(log)) \subseteq Diagnostic(log)
         /\ Cardinality(Diagnostic(log)) <= MaxEvidence => ToSet(Evidence(log)) = Diagnostic(log)
<1> DEFINE found == Collecting(Collapse(log))[Len(Collapse(log))]
<1>1. /\ found \in Seq(LogLines) /\ ToSet(found) = Diagnostic(Collapse(log)) /\ Distinct(found)
  BY CollapseKeepsLines, CollectingFinds
<1>2. Diagnostic(Collapse(log)) = Diagnostic(log)
  <2>1. ToSet(log) \subseteq LogLines
    BY LenProperties, ElementOfSeq DEF ToSet
  <2>2. \A x \in ToSet(log) : Is(x, "diagnostic") => ~ Is(x, "blank")
    BY <2>1, LogLinesAssumption DEF Is
  <2>3. QED
    BY <2>2, CollapseKeepsLines DEF Diagnostic
<1>3. Evidence(log) = SubSeq(found, 1, AtMost(Len(found), MaxEvidence))
  BY DEF Evidence
<1> HIDE DEF found
<1>4. /\ Evidence(log) \in Seq(LogLines)
      /\ \A i \in 1 .. Len(Evidence(log)) : i \in 1 .. Len(found) /\ Evidence(log)[i] = found[i]
      /\ ToSet(Evidence(log)) \subseteq ToSet(found)
      /\ Len(found) <= MaxEvidence => ToSet(Evidence(log)) = ToSet(found)
  BY <1>1, <1>3, SizesAreNumbers, FirstLines
<1>5. Distinct(Evidence(log))
  BY <1>1, <1>4 DEF Distinct
<1>6. Len(found) = Cardinality(ToSet(found))
  <2>1. DOMAIN found = 1 .. Len(found) /\ Len(found) \in Nat
        /\ \A i \in 1 .. Len(found) : found[i] \in LogLines
    BY <1>1, LenProperties, ElementOfSeq
  <2>2. Cardinality({i \in DOMAIN found : found[i] \in LogLines})
          = Cardinality(ToSet(found) \cap LogLines)
    BY <1>1, PositionsCount
  <2>3. {i \in DOMAIN found : found[i] \in LogLines} = 1 .. Len(found)
    BY <2>1
  <2>4. ToSet(found) \cap LogLines = ToSet(found)
    BY <2>1 DEF ToSet
  <2>5. Cardinality(1 .. Len(found)) = Len(found)
    <3>1. Len(found) \in Nat
      BY <2>1
    <3>2. \A n \in Nat : Cardinality(1 .. n) = n
      BY FS_Interval
    <3>3. QED
      BY <3>1, <3>2
  <2>6. QED
    BY <2>2, <2>3, <2>4, <2>5
<1>7. QED
  BY <1>1, <1>2, <1>4, <1>5, <1>6

\* The excerpt shows lines of the log; of a log that is not blank it shows a line that is not.
LEMMA ExcerptShows ==
  ASSUME NEW log \in Seq(LogLines)
  PROVE  /\ Excerpt(log) \in Seq(LogLines) /\ ToSet(Excerpt(log)) \subseteq ToSet(log)
         /\ Collapse(log) # <<>> => \E x \in ToSet(Excerpt(log)) : ~ Is(x, "blank")
<1> DEFINE c == Collapse(log)
           e == Excerpt(log)
<1>1. c \in Seq(LogLines) /\ ToSet(c) \subseteq ToSet(log) /\ (c # <<>> => ~ Is(c[1], "blank"))
  BY CollapseKeepsLines
<1>2. e = SubSeq(c, 1, AtMost(Len(c), MaxExcerpt))
  BY DEF Excerpt
<1>3. /\ e \in Seq(LogLines) /\ Len(e) = AtMost(Len(c), MaxExcerpt)
      /\ \A i \in 1 .. Len(e) : i \in 1 .. Len(c) /\ e[i] = c[i]
      /\ ToSet(e) \subseteq ToSet(c)
  BY <1>1, <1>2, SizesAreNumbers, FirstLines
<1> HIDE DEF c, e
<1>4. ASSUME c # <<>>
      PROVE  \E x \in ToSet(e) : ~ Is(x, "blank")
  <2>1. Len(c) \in Nat \ {0}
    BY <1>1, <1>4, EmptySeq
  <2>2. 1 \in 1 .. Len(e)
    BY <1>3, <2>1, SizesAreNumbers DEF AtMost
  <2>3. DOMAIN e = 1 .. Len(e)
    BY <1>3, LenProperties
  <2>4. e[1] \in ToSet(e) /\ e[1] = c[1]
    BY <1>3, <2>2, <2>3 DEF ToSet
  <2>5. QED
    BY <1>1, <1>4, <2>4
<1>5. QED
  BY <1>1, <1>3, <1>4 DEF c, e

-----------------------------------------------------------------------------
(* The rules. *)

LEMMA RulesAre ==
  /\ DOMAIN Rules = 1 .. 10
  /\ \A k \in 1 .. 10 : /\ Rules[k].category # "UNKNOWN"
                        /\ Rules[k].confidence \in 82 .. 92
BY DEF Rules

LEMMA HitsAreNumbers ==
  ASSUME NEW evidence \in Seq(LogLines)
  PROVE  \A c : /\ Hits(evidence, c) \in Nat /\ Hits(evidence, c) <= Len(evidence)
                /\ Hits(evidence, c) # 0 <=> \E x \in ToSet(evidence) : c \in x.rules
<1> SUFFICES ASSUME NEW c
             PROVE  /\ Hits(evidence, c) \in Nat /\ Hits(evidence, c) <= Len(evidence)
                    /\ Hits(evidence, c) # 0 <=> \E x \in ToSet(evidence) : c \in x.rules
  OBVIOUS
<1> DEFINE P == {i \in DOMAIN evidence : c \in evidence[i].rules}
<1>1. Len(evidence) \in Nat /\ DOMAIN evidence = 1 .. Len(evidence)
  BY LenProperties
<1>2. IsFiniteSet(DOMAIN evidence) /\ Cardinality(DOMAIN evidence) = Len(evidence)
  BY <1>1, FS_Interval
<1>3. IsFiniteSet(P) /\ Cardinality(P) <= Len(evidence)
  BY <1>2, FS_Subset
<1>4. Cardinality(P) \in Nat /\ (Cardinality(P) = 0 <=> P = {})
  BY <1>3, FS_CardinalityType, FS_EmptySet
<1>5. P # {} <=> \E x \in ToSet(evidence) : c \in x.rules
  BY DEF ToSet
<1>6. QED
  BY <1>3, <1>4, <1>5 DEF Hits

\* max finds the first rule of the greatest score.
LEMMA BestIsBest ==
  ASSUME NEW evidence \in Seq(LogLines)
  PROVE  /\ Best(evidence) \in 1 .. 10
         /\ \A k \in 1 .. 10 : Score(evidence, k) <= Score(evidence, Best(evidence))
<1> DEFINE top == Len(evidence) * 92
           Scores == {Score(evidence, k) : k \in 1 .. 10}
<1>1. \A k \in 1 .. 10 : Score(evidence, k) \in 0 .. top
  <2> SUFFICES ASSUME NEW k \in 1 .. 10
               PROVE  Score(evidence, k) \in 0 .. top
    OBVIOUS
  <2> DEFINE h == Hits(evidence, Rules[k].category)
             c == Rules[k].confidence
  <2>1. h \in Nat /\ h <= Len(evidence) /\ Len(evidence) \in Nat /\ c \in 82 .. 92
    BY HitsAreNumbers, RulesAre, LenProperties
  <2>2. Score(evidence, k) = h * c
    BY DEF Score
  <2> HIDE DEF h, c
  <2>3. h * c <= h * 92 /\ h * 92 <= Len(evidence) * 92 /\ h * c >= 0 /\ h * c \in Int
    BY <2>1
  <2>4. QED
    BY <2>1, <2>2, <2>3
<1>2. top \in Nat
  BY LenProperties
<1>3. Max(Scores) \in Scores /\ \A n \in Scores : n <= Max(Scores)
  <2>1. Scores \in SUBSET (0 .. top) /\ Scores # {}
    BY <1>1
  <2> HIDE DEF Scores, top
  <2>2. QED
    BY <1>2, <2>1, GreatestNumber
<1> DEFINE First == {k \in 1 .. 10 : Score(evidence, k) = Max(Scores)}
<1>4. Min(First) \in First /\ \A k \in First : Min(First) <= k
  <2>1. First \in SUBSET Nat
    OBVIOUS
  <2>2. First # {}
    BY <1>3
  <2> HIDE DEF First
  <2>3. QED
    BY <2>1, <2>2, LeastNumber
<1> DEFINE b == Min(First)
           IsBest(k) == /\ \A l \in 1 .. 10 : Score(evidence, l) <= Score(evidence, k)
                        /\ \A l \in 1 .. k - 1 : Score(evidence, l) < Score(evidence, k)
<1> HIDE DEF b
<1>5. b \in 1 .. 10 /\ Score(evidence, b) = Max(Scores) /\ \A k \in First : b <= k
  BY <1>4 DEF b
<1>6. \A l \in 1 .. 10 : Score(evidence, l) <= Score(evidence, b)
  BY <1>3, <1>5
<1>7. \A l \in 1 .. b - 1 : Score(evidence, l) < Score(evidence, b)
  <2> SUFFICES ASSUME NEW l \in 1 .. b - 1
               PROVE  Score(evidence, l) < Score(evidence, b)
    OBVIOUS
  <2>1. l \in 1 .. 10 /\ ~ (b <= l)
    BY <1>5
  <2>2. Score(evidence, l) # Score(evidence, b)
    BY <1>5, <2>1
  <2>3. Score(evidence, l) <= Score(evidence, b)
    BY <1>6, <2>1
  <2>4. Score(evidence, l) \in Int /\ Score(evidence, b) \in Int
    <3>1. ASSUME NEW k \in 1 .. 10
          PROVE  Score(evidence, k) \in Int
      <4>1. Score(evidence, k) \in 0 .. top
        BY <1>1
      <4> HIDE DEF top
      <4>2. QED
        BY <1>2, <4>1
    <3>2. QED
      BY <1>5, <2>1, <3>1
  <2>5. QED
    BY <2>2, <2>3, <2>4
<1>8. Best(evidence) \in 1 .. 10 /\ IsBest(Best(evidence))
  <2>1. b \in 1 .. 10 /\ IsBest(b)
    BY <1>5, <1>6, <1>7
  <2>2. Best(evidence) = CHOOSE k \in 1 .. 10 : IsBest(k)
    BY RulesAre, Zenon DEF Best
  <2> HIDE DEF IsBest
  <2>3. QED
    BY <2>1, <2>2
<1>9. QED
  BY <1>8

-----------------------------------------------------------------------------
(* What is shown, and the invariant. *)

\* Everything a result quotes has a line of the log in it, and the step is from the log.
Grounded(d, log) ==
  /\ \A q \in d.evidence : /\ q.line \in ToSet(log)
                           /\ q.more => q.line \in Diagnostic(log) /\ d.provider = "GROQ"
  /\ d.step = "Unknown" \/ \E x \in ToSet(log) : x.name = d.step

Recognized(log) == \E k \in DOMAIN Rules : Weight(log, k) > 0

\* A rule of the greatest weight decides, or the provider with confidence.
Justified(d, log) ==
  Cardinality(Diagnostic(log)) <= MaxEvidence =>
    IF Recognized(log)
    THEN /\ d.provider = "RULE_BASED"
         /\ \E k \in DOMAIN Rules :
              /\ d.category = Rules[k].category
              /\ \A l \in DOMAIN Rules : Weight(log, l) <= Weight(log, k)
    ELSE d.category # "UNKNOWN" =>
           /\ d.provider = "GROQ" /\ d.confidence >= 35
           /\ \E x \in ToSet(log) : Is(x, "meaningful")

\* What an analysis knows in each of its phases.
DiagnosisInv ==
  LET p == diagnosis.phase
      log == diagnosis.log
      evidence == diagnosis.evidence IN
  /\ DiagnosisTypeOK
  /\ p # "waiting" => evidence = Evidence(log)
  /\ p \notin {"waiting", "processed"} => diagnosis.rule = RuleAnalyze(Excerpt(log), evidence)
  /\ p \in {"asking", "answered"} => ShouldAllowAI(diagnosis.rule, Excerpt(log), evidence)
  /\ p = "answered" => /\ Grounded(diagnosis.answer, log) /\ diagnosis.answer.provider = "GROQ"
                       /\ \A q \in diagnosis.answer.evidence : ~ Is(q.line, "blank")
  /\ p \in {"decided", "stored"} => Grounded(diagnosis.stored, log) /\ Justified(diagnosis.stored, log)

LEMMA FollowingIs ==
  DiagnosisFollowsTheLog <=> (diagnosis.phase = "stored" =>
    Grounded(diagnosis.stored, diagnosis.log) /\ Justified(diagnosis.stored, diagnosis.log))
BY DEF DiagnosisFollowsTheLog, Grounded, Justified, Recognized

\* While the limit cuts nothing off, a rule has as many hits as the log has diagnostic lines
\* it recognizes.
LEMMA HitsAreLines ==
  ASSUME NEW log \in Seq(LogLines), Cardinality(Diagnostic(log)) <= MaxEvidence, NEW c
  PROVE  Hits(Evidence(log), c) = Cardinality({x \in Diagnostic(log) : c \in x.rules})
<1> DEFINE e == Evidence(log)
           A == {x \in LogLines : c \in x.rules}
<1>1. e \in Seq(LogLines) /\ Distinct(e) /\ ToSet(e) = Diagnostic(log)
  BY EvidenceIsDiagnostic
<1>2. /\ DOMAIN e = 1 .. Len(e) /\ \A i \in 1 .. Len(e) : e[i] \in LogLines
  BY <1>1, LenProperties, ElementOfSeq
<1>3. Cardinality({i \in DOMAIN e : e[i] \in A}) = Cardinality(ToSet(e) \cap A)
  <2> HIDE DEF e, A
  <2>1. QED
    BY <1>1, PositionsCount
<1>4. {i \in DOMAIN e : e[i] \in A} = {i \in DOMAIN e : c \in e[i].rules}
  <2> HIDE DEF e
  <2>1. QED
    BY <1>2
<1>5. ToSet(e) \cap A = {x \in Diagnostic(log) : c \in x.rules}
  <2>1. ToSet(e) \subseteq LogLines
    BY <1>2 DEF ToSet
  <2> HIDE DEF e
  <2>2. QED
    BY <1>1, <2>1
<1>6. QED
  BY <1>3, <1>4, <1>5 DEF Hits

\* As long as the limit cuts nothing off, the score of a rule is its weight.
LEMMA ScoreIsWeight ==
  ASSUME NEW log \in Seq(LogLines), Cardinality(Diagnostic(log)) <= MaxEvidence,
         NEW k \in 1 .. 10
  PROVE  Score(Evidence(log), k) = Weight(log, k)
BY HitsAreLines DEF Score, Weight

\* The step a diagnosis names is the name of a line.
LEMMA FailedStepIsALine ==
  ASSUME NEW log \in Seq(LogLines), NEW evidence \in Seq(LogLines)
  PROVE  \/ FailedStep(log, evidence) = "Unknown"
         \/ \E x \in ToSet(log) \cup ToSet(evidence) : x.name = FailedStep(log, evidence)
<1>1. /\ Len(log) \in Nat /\ DOMAIN log = 1 .. Len(log)
      /\ Len(evidence) \in Nat /\ DOMAIN evidence = 1 .. Len(evidence)
  BY LenProperties
<1>2. ASSUME NEW S \in SUBSET DOMAIN log, S # {}
      PROVE  Max(S) \in S
  <2>1. S \in SUBSET (0 .. Len(log))
    BY <1>1
  <2>2. QED
    BY <1>1, <1>2, <2>1, GreatestNumber
<1>3. FailedRun(log) \subseteq DOMAIN log
  <2> DEFINE runs == Where(log, "run")
             before == {i \in runs : \E f \in Where(log, "failure") :
                                 i < f /\ \A g \in Where(log, "failure") : f <= g}
  <2>1. runs \subseteq DOMAIN log /\ before \subseteq DOMAIN log
    BY DEF Where
  <2>2. QED
    BY <1>2, <2>1 DEF FailedRun
<1>4. CASE FailedRun(log) # {}
  <2>1. (CHOOSE i \in FailedRun(log) : TRUE) \in DOMAIN log
    BY <1>3, <1>4
  <2>2. QED
    BY <1>4, <2>1 DEF FailedStep, ToSet
<1>5. CASE FailedRun(log) = {} /\ Where(evidence, "step") # {}
  <2>1. Where(evidence, "step") \in SUBSET Nat
    BY <1>1 DEF Where
  <2>2. Min(Where(evidence, "step")) \in Where(evidence, "step")
    BY <1>5, <2>1, LeastNumber
  <2>3. Min(Where(evidence, "step")) \in DOMAIN evidence
    BY <2>2 DEF Where
  <2>4. QED
    BY <1>5, <2>3 DEF FailedStep, ToSet
<1>6. CASE FailedRun(log) = {} /\ Where(evidence, "step") = {}
  BY <1>6 DEF FailedStep
<1>7. QED
  BY <1>4, <1>5, <1>6

\* A rule with a hit has a weight, and the other way round.
LEMMA RecognizedIfHit ==
  ASSUME NEW log \in Seq(LogLines), Cardinality(Diagnostic(log)) <= MaxEvidence
  PROVE  Recognized(log) <=> Hits(Evidence(log), Rules[Best(Evidence(log))].category) # 0
<1> DEFINE e == Evidence(log)
           b == Best(e)
           h == Hits(e, Rules[b].category)
<1>1. e \in Seq(LogLines)
  BY EvidenceIsDiagnostic
<1>2. b \in 1 .. 10 /\ \A k \in 1 .. 10 : Score(e, k) <= Score(e, b)
  BY <1>1, BestIsBest
<1>3. \A k \in 1 .. 10 : Score(e, k) = Weight(log, k)
  BY ScoreIsWeight
<1>4. h \in Nat /\ Rules[b].confidence \in 82 .. 92 /\ Score(e, b) = h * Rules[b].confidence
  BY <1>1, <1>2, HitsAreNumbers, RulesAre DEF Score
<1>5. \A k \in 1 .. 10 : Score(e, k) \in Int
  <2>1. \A k \in 1 .. 10 : Hits(e, Rules[k].category) \in Nat /\ Rules[k].confidence \in 82 .. 92
    BY <1>1, HitsAreNumbers, RulesAre
  <2> SUFFICES ASSUME NEW k \in 1 .. 10
               PROVE  Score(e, k) \in Int
    OBVIOUS
  <2>2. \A p \in Nat, q \in 82 .. 92 : p * q \in Int
    OBVIOUS
  <2>3. QED
    BY <2>1, <2>2 DEF Score
<1> HIDE DEF e, b, h
<1>6. Score(e, b) > 0 <=> h # 0
  <2> DEFINE c == Rules[b].confidence
  <2>1. c \in 82 .. 92 /\ Score(e, b) = h * c
    BY <1>4
  <2> HIDE DEF c
  <2>2. \A p \in Nat, q \in 82 .. 92 : p * q > 0 <=> p # 0
    OBVIOUS
  <2>3. QED
    BY <1>4, <2>1, <2>2
<1>7. Recognized(log) <=> \E k \in 1 .. 10 : Score(e, k) > 0
  BY <1>3, RulesAre DEF Recognized
<1>8. (\E k \in 1 .. 10 : Score(e, k) > 0) <=> Score(e, b) > 0
  <2>1. ASSUME NEW k \in 1 .. 10, Score(e, k) > 0
        PROVE  Score(e, b) > 0
    <3>1. \A p, q \in Int : p > 0 /\ p <= q => q > 0
      OBVIOUS
    <3>2. QED
      BY <1>2, <1>5, <2>1, <3>1
  <2>2. QED
    BY <1>2, <2>1
<1>9. QED
  BY <1>6, <1>7, <1>8 DEF e, b, h

\* What the rules quote are lines of the evidence, and all of them if they are few.
LEMMA QuotedLines ==
  ASSUME NEW evidence \in Seq(LogLines), NEW S \in SUBSET DOMAIN evidence
  PROVE  /\ QuoteLines(evidence, S) \subseteq Quotations
         /\ \A q \in QuoteLines(evidence, S) : q.line \in ToSet(evidence) /\ q.more = FALSE
         /\ Cardinality(S) <= MaxQuoted
              => QuoteLines(evidence, S) = {Verbatim(evidence[i]) : i \in S}
<1>1. Len(evidence) \in Nat /\ DOMAIN evidence = 1 .. Len(evidence)
      /\ \A i \in DOMAIN evidence : evidence[i] \in LogLines
  BY LenProperties, ElementOfSeq
<1>2. Foremost(S) \subseteq S
  BY DEF Foremost
<1>3. ASSUME NEW i \in S
      PROVE  /\ Verbatim(evidence[i]) \in Quotations /\ Verbatim(evidence[i]).more = FALSE
             /\ Verbatim(evidence[i]).line \in ToSet(evidence)
  BY <1>1 DEF Verbatim, Quotations, ToSet
<1>4. ASSUME Cardinality(S) <= MaxQuoted
      PROVE  Foremost(S) = S
  <2>1. IsFiniteSet(S)
    <3>1. IsFiniteSet(DOMAIN evidence)
      BY <1>1, FS_Interval
    <3>2. QED
      BY <3>1, FS_Subset
  <2>2. ASSUME NEW i \in S
        PROVE  Cardinality({j \in S : j <= i}) <= MaxQuoted
    <3> DEFINE below == {j \in S : j <= i}
    <3>1. below \subseteq S
      OBVIOUS
    <3> HIDE DEF below
    <3>2. IsFiniteSet(below) /\ Cardinality(below) <= Cardinality(S)
      BY <2>1, <3>1, FS_Subset
    <3>3. Cardinality(below) \in Nat /\ Cardinality(S) \in Nat
      BY <2>1, <3>2, FS_CardinalityType
    <3>4. Cardinality(below) <= MaxQuoted
      BY <1>4, <3>2, <3>3, QuotesAreANumber
    <3>5. QED
      BY <3>4 DEF below
  <2>3. QED
    BY <2>2 DEF Foremost
<1>5. QED
  BY <1>2, <1>3, <1>4 DEF QuoteLines

\* What the rules say: always grounded in the log, and justified by it.
LEMMA RulesFollow ==
  ASSUME NEW log \in Seq(LogLines)
  PROVE  LET r == RuleAnalyze(Excerpt(log), Evidence(log)) IN
         /\ r \in ResultType
         /\ Grounded(r, log)
         /\ Justified(r, log)
         /\ r.category = "UNKNOWN" /\ Cardinality(Diagnostic(log)) <= MaxEvidence => ~ Recognized(log)
<1> DEFINE x == Excerpt(log)
           e == Evidence(log)
           r == RuleAnalyze(x, e)
           k == Best(e)
           n == Hits(e, Rules[k].category)
           s == FailedStep(x, e)
           hit == {i \in DOMAIN e : Rules[k].category \in e[i].rules}
<1>1. /\ x \in Seq(LogLines) /\ ToSet(x) \subseteq ToSet(log)
      /\ e \in Seq(LogLines) /\ ToSet(e) \subseteq ToSet(log) /\ ToSet(log) \subseteq LogLines
  <2>1. ToSet(log) \subseteq LogLines
    BY LenProperties, ElementOfSeq DEF ToSet
  <2>2. QED
    BY <2>1, ExcerptShows, EvidenceIsDiagnostic DEF Diagnostic
<1>2. s = "Unknown" \/ \E y \in ToSet(log) : y.name = s
  BY <1>1, FailedStepIsALine
<1>3. s \in Steps
  BY <1>1, <1>2 DEF Steps
<1>4. k \in 1 .. 10 /\ n \in Nat /\ Rules[k].confidence \in 82 .. 92 /\ Rules[k].category # "UNKNOWN"
  BY <1>1, BestIsBest, HitsAreNumbers, RulesAre
<1>5. Rules[k].category \in Categories
  BY <1>4, RulesAre DEF Categories, RuleCategories
<1>6. "UNKNOWN" \in Categories
  BY DEF Categories
<1>7. Cardinality(Diagnostic(log)) <= MaxEvidence => (Recognized(log) <=> n # 0)
  BY RecognizedIfHit
<1>8. Cardinality(Diagnostic(log)) <= MaxEvidence => \A l \in DOMAIN Rules : Weight(log, l) <= Weight(log, k)
  BY <1>1, <1>4, BestIsBest, ScoreIsWeight, RulesAre
<1>9. r = IF n = 0 THEN [Unknown EXCEPT !.step = s, !.evidence = QuoteLines(e, DOMAIN e)]
          ELSE [category   |-> Rules[k].category,
                confidence |-> AtMost(Rules[k].confidence + AtMost(n, 6), 99),
                severity   |-> Severity(Rules[k].category, Rules[k].confidence),
                evidence   |-> QuoteLines(e, hit),
                step       |-> s,
                provider   |-> "RULE_BASED"]
  BY DEF RuleAnalyze
<1>q. ASSUME NEW S \in SUBSET DOMAIN e
      PROVE  /\ QuoteLines(e, S) \subseteq Quotations
             /\ \A q \in QuoteLines(e, S) : q.line \in ToSet(log) /\ q.more = FALSE
  <2> HIDE DEF e
  <2>1. QED
    BY <1>1, QuotedLines
<1>h. hit \in SUBSET DOMAIN e /\ DOMAIN e \in SUBSET DOMAIN e
  OBVIOUS
<1> HIDE DEF n, s, r, x, e, k, hit
<1>10. CASE n = 0
  <2> DEFINE quoted == QuoteLines(e, DOMAIN e)
  <2>1. r = [category |-> "UNKNOWN", confidence |-> 25, severity |-> "LOW", evidence |-> quoted,
             step |-> s, provider |-> "RULE_BASED"]
    BY <1>9, <1>10 DEF Unknown
  <2>2. quoted \subseteq Quotations /\ \A q \in quoted : q.line \in ToSet(log) /\ q.more = FALSE
    BY <1>h, <1>q
  <2> HIDE DEF quoted
  <2>3. r \in ResultType
    BY <1>3, <1>6, <2>1, <2>2 DEF ResultType
  <2>4. Grounded(r, log)
    BY <1>2, <2>1, <2>2 DEF Grounded
  <2>5. Justified(r, log)
    BY <1>7, <1>10, <2>1 DEF Justified
  <2>6. QED
    BY <1>7, <1>10, <2>3, <2>4, <2>5 DEF r, x, e
<1>11. CASE n # 0
  <2> DEFINE t == Rules[k]
             quoted == QuoteLines(e, hit)
  <2>1. r = [category   |-> t.category,
             confidence |-> AtMost(t.confidence + AtMost(n, 6), 99),
             severity   |-> Severity(t.category, t.confidence),
             evidence   |-> quoted,
             step       |-> s,
             provider   |-> "RULE_BASED"]
    BY <1>9, <1>11
  <2>2. AtMost(t.confidence + AtMost(n, 6), 99) \in 0 .. 100
    <3>1. AtMost(n, 6) \in 0 .. 6
      BY <1>4 DEF AtMost
    <3>2. \A a \in 82 .. 92, c \in 0 .. 6 : AtMost(a + c, 99) \in 0 .. 100
      BY DEF AtMost
    <3>3. QED
      BY <1>4, <3>1, <3>2
  <2>3. Severity(t.category, t.confidence) \in {"LOW", "MEDIUM", "HIGH", "CRITICAL", "any"}
    BY DEF Severity
  <2>4. t.category \in Categories /\ t.category # "UNKNOWN"
    BY <1>4, <1>5
  <2>5. Cardinality(Diagnostic(log)) <= MaxEvidence =>
          \E l \in DOMAIN Rules : /\ t.category = Rules[l].category
                                  /\ \A h \in DOMAIN Rules : Weight(log, h) <= Weight(log, l)
    BY <1>4, <1>8, RulesAre
  <2>6. quoted \subseteq Quotations /\ \A q \in quoted : q.line \in ToSet(log) /\ q.more = FALSE
    BY <1>h, <1>q
  <2> HIDE DEF t, quoted
  <2>7. r \in ResultType
    BY <1>3, <2>1, <2>2, <2>3, <2>4, <2>6 DEF ResultType
  <2>8. Grounded(r, log)
    BY <1>2, <2>1, <2>6 DEF Grounded
  <2>9. r.provider = "RULE_BASED" /\ r.category = t.category
    BY <2>1
  <2>10. Justified(r, log)
    BY <1>7, <1>11, <2>5, <2>9 DEF Justified
  <2>11. QED
    BY <2>4, <2>8, <2>9, <2>10, <2>7 DEF r, x, e
<1>12. QED
  BY <1>10, <1>11

-----------------------------------------------------------------------------
(* The invariant of an analysis. *)

LEMMA DiagnosisInitial ==
  DiagnosisInit => DiagnosisInv
<1>1. Unknown \in ResultType /\ NoAnswer \in ResultType
  BY DEF Unknown, NoAnswer, ResultType, Categories, Steps
<1>2. <<>> \in Seq(LogLines)
  BY EmptySeq
<1> HIDE DEF NoAnswer
<1>3. QED
  BY <1>1, <1>2 DEF DiagnosisInit, DiagnosisInv, DiagnosisTypeOK

LEMMA ReceiveKeeps ==
  ASSUME DiagnosisInv, NEW log \in Seq(LogLines), Receive(log)
  PROVE  DiagnosisInv'
<1>1. diagnosis' = [diagnosis EXCEPT !.phase = "processed", !.log = log, !.evidence = Evidence(log)]
  BY DEF Receive
<1>2. Evidence(log) \in Seq(LogLines)
  BY EvidenceIsDiagnostic
<1>3. DiagnosisTypeOK'
  BY <1>1, <1>2 DEF DiagnosisInv, DiagnosisTypeOK
<1>4. diagnosis'.phase = "processed" /\ diagnosis'.evidence = Evidence(diagnosis'.log)
  BY <1>1 DEF DiagnosisInv, DiagnosisTypeOK
<1>5. QED
  BY <1>3, <1>4 DEF DiagnosisInv

LEMMA ClassifyKeeps ==
  ASSUME DiagnosisInv, Classify
  PROVE  DiagnosisInv'
<1> DEFINE log == diagnosis.log
           r == RuleAnalyze(Excerpt(log), diagnosis.evidence)
<1>1. diagnosis.phase = "processed" /\ diagnosis' = [diagnosis EXCEPT !.phase = "classified", !.rule = r]
  BY DEF Classify
<1>2. log \in Seq(LogLines) /\ diagnosis.evidence = Evidence(log)
  BY <1>1 DEF DiagnosisInv, DiagnosisTypeOK
<1>3. r \in ResultType
  BY <1>2, RulesFollow
<1> HIDE DEF r
<1>4. DiagnosisTypeOK'
  BY <1>1, <1>3 DEF DiagnosisInv, DiagnosisTypeOK
<1>5. /\ diagnosis'.phase = "classified" /\ diagnosis'.rule = r /\ diagnosis'.log = log
      /\ diagnosis'.evidence = diagnosis.evidence
  BY <1>1 DEF DiagnosisInv, DiagnosisTypeOK
<1>6. QED
  BY <1>2, <1>4, <1>5 DEF DiagnosisInv, r

\* The rules decide: AI is not asked, or the provider fails.
LEMMA RulesDecide ==
  ASSUME DiagnosisInv, diagnosis.phase \in {"classified", "asking", "answered"},
         diagnosis' = [diagnosis EXCEPT !.phase = "decided", !.stored = diagnosis.rule]
  PROVE  DiagnosisInv'
<1> DEFINE log == diagnosis.log
           r == diagnosis.rule
<1>1. log \in Seq(LogLines) /\ r \in ResultType
  BY DEF DiagnosisInv, DiagnosisTypeOK
<1>2. diagnosis.evidence = Evidence(log) /\ r = RuleAnalyze(Excerpt(log), Evidence(log))
  BY DEF DiagnosisInv
<1>3. Grounded(r, log) /\ Justified(r, log)
  BY <1>1, <1>2, RulesFollow
<1>4. DiagnosisTypeOK'
  BY <1>1 DEF DiagnosisInv, DiagnosisTypeOK
<1>5. /\ diagnosis'.phase = "decided" /\ diagnosis'.rule = r /\ diagnosis'.log = log
      /\ diagnosis'.evidence = diagnosis.evidence /\ diagnosis'.stored = r
  BY DEF DiagnosisInv, DiagnosisTypeOK
<1> HIDE DEF log, r
<1>6. QED
  BY <1>2, <1>3, <1>4, <1>5 DEF DiagnosisInv

LEMMA AskProviderKeeps ==
  ASSUME DiagnosisInv, AskProvider
  PROVE  DiagnosisInv'
<1>1. /\ diagnosis.phase = "classified"
      /\ ShouldAllowAI(diagnosis.rule, Excerpt(diagnosis.log), diagnosis.evidence)
      /\ diagnosis' = [diagnosis EXCEPT !.phase = "asking"]
  BY DEF AskProvider
<1>2. DiagnosisTypeOK'
  BY <1>1 DEF DiagnosisInv, DiagnosisTypeOK
<1>3. /\ diagnosis'.phase = "asking" /\ diagnosis'.rule = diagnosis.rule
      /\ diagnosis'.log = diagnosis.log /\ diagnosis'.evidence = diagnosis.evidence
  BY <1>1 DEF DiagnosisInv, DiagnosisTypeOK
<1>4. QED
  BY <1>1, <1>2, <1>3 DEF DiagnosisInv

\* SafeAIResult leaves nothing without a line of the log in it.
LEMMA SafeIsGrounded ==
  ASSUME NEW log \in Seq(LogLines), NEW c \in Categories, NEW n \in 0 .. 100,
         NEW m \in Nat, NEW offered \in [1 .. m -> Quotations], NEW step
  PROVE  LET a == SafeAIResult(c, n, offered, step, Excerpt(log), Evidence(log)) IN
         /\ a \in ResultType /\ Grounded(a, log) /\ a.provider = "GROQ"
         /\ \A q \in a.evidence : ~ Is(q.line, "blank")
<1> DEFINE e == Excerpt(log)
           v == Evidence(log)
           allowed == AllowedEvidence(offered, e, v)
           s == IF \E x \in LogLines : x.name = step /\ EvidenceSupported(Verbatim(x), e, v)
                THEN step ELSE "Unknown"
           a == SafeAIResult(c, n, offered, step, e, v)
<1>1. a = [category |-> c, confidence |-> n, severity |-> "any",
           evidence |-> allowed, step |-> s, provider |-> "GROQ"]
  BY Zenon DEF SafeAIResult
<1>2. \A q : EvidenceSupported(q, e, v) =>
               /\ q.line \in ToSet(log) /\ ~ Is(q.line, "blank")
               /\ q.more => q.line \in Diagnostic(log)
  BY ExcerptShows, EvidenceIsDiagnostic DEF EvidenceSupported, Diagnostic
<1>3. \A q \in allowed : q \in Quotations /\ EvidenceSupported(q, e, v)
  <2> DEFINE S == {i \in DOMAIN offered : EvidenceSupported(offered[i], e, v)}
  <2>1. Foremost(S) \subseteq S
    BY DEF Foremost
  <2>2. allowed = {offered[i] : i \in Foremost(S)}
    BY DEF AllowedEvidence
  <2> HIDE DEF allowed, e, v
  <2>3. \A i \in S : offered[i] \in Quotations /\ EvidenceSupported(offered[i], e, v)
    OBVIOUS
  <2> HIDE DEF S
  <2>4. QED
    BY <2>1, <2>2, <2>3
<1>4. s \in Steps /\ (s = "Unknown" \/ \E x \in ToSet(log) : x.name = s)
  <2>1. CASE \E x \in LogLines : x.name = step /\ EvidenceSupported(Verbatim(x), e, v)
    <3>1. PICK x \in LogLines : x.name = step /\ EvidenceSupported(Verbatim(x), e, v)
      BY <2>1
    <3>2. Verbatim(x).line = x
      BY DEF Verbatim
    <3>3. x \in ToSet(log)
      BY <1>2, <3>1, <3>2
    <3>4. s = step
      BY <2>1
    <3>5. QED
      BY <3>1, <3>3, <3>4 DEF Steps
  <2>2. CASE ~ \E x \in LogLines : x.name = step /\ EvidenceSupported(Verbatim(x), e, v)
    BY <2>2 DEF Steps
  <2>3. QED
    BY <2>1, <2>2
<1>5. \A q \in allowed : /\ q \in Quotations /\ q.line \in ToSet(log) /\ ~ Is(q.line, "blank")
                         /\ q.more => q.line \in Diagnostic(log)
  BY <1>2, <1>3
<1> HIDE DEF allowed, s, a
<1>6. a \in ResultType
  BY <1>1, <1>4, <1>5 DEF ResultType
<1>7. Grounded(a, log)
  BY <1>1, <1>4, <1>5 DEF Grounded
<1>8. a.provider = "GROQ" /\ \A q \in a.evidence : ~ Is(q.line, "blank")
  BY <1>1, <1>5
<1>9. QED
  BY <1>6, <1>7, <1>8 DEF a

LEMMA ProviderAnswersKeeps ==
  ASSUME DiagnosisInv, NEW c \in AnswerCategories, NEW n \in AnswerConfidences,
         NEW m \in Nat, NEW offered \in [1 .. m -> Quotations], NEW step,
         ProviderAnswers(c, n, offered, step)
  PROVE  DiagnosisInv'
<1> DEFINE log == diagnosis.log
           a == SafeAIResult(c, n, offered, step, Excerpt(log), diagnosis.evidence)
<1>1. /\ diagnosis.phase = "asking"
      /\ diagnosis' = [diagnosis EXCEPT !.phase = "answered", !.answer = a]
  BY DEF ProviderAnswers
<1>2. log \in Seq(LogLines) /\ diagnosis.evidence = Evidence(log)
  BY <1>1 DEF DiagnosisInv, DiagnosisTypeOK
<1>3. c \in Categories /\ n \in 0 .. 100
  BY AnswersAssumption
<1>4. /\ a \in ResultType /\ Grounded(a, log) /\ a.provider = "GROQ"
      /\ \A q \in a.evidence : ~ Is(q.line, "blank")
  <2>1. a = SafeAIResult(c, n, offered, step, Excerpt(log), Evidence(log))
    BY <1>2
  <2> HIDE DEF a, log
  <2>2. QED
    BY <1>2, <1>3, <2>1, SafeIsGrounded
<1> HIDE DEF a
<1>5. DiagnosisTypeOK'
  BY <1>1, <1>4 DEF DiagnosisInv, DiagnosisTypeOK
<1>6. /\ diagnosis'.phase = "answered" /\ diagnosis'.rule = diagnosis.rule /\ diagnosis'.answer = a
      /\ diagnosis'.log = log /\ diagnosis'.evidence = diagnosis.evidence
  BY <1>1 DEF DiagnosisInv, DiagnosisTypeOK
<1>7. diagnosis.rule = RuleAnalyze(Excerpt(log), diagnosis.evidence)
      /\ ShouldAllowAI(diagnosis.rule, Excerpt(log), diagnosis.evidence)
  BY <1>1 DEF DiagnosisInv
<1> HIDE DEF log
<1>8. QED
  BY <1>2, <1>4, <1>5, <1>6, <1>7 DEF DiagnosisInv

LEMMA NotBelow == \A n \in 0 .. 100 : ~ (n < 35) => n >= 35
OBVIOUS

\* An answer that passes the checks is justified: what has a category has confidence, and
\* something in the log to speak of.
LEMMA SupportedIsJustified ==
  ASSUME NEW log \in Seq(LogLines), NEW a \in ResultType, NEW rule,
         rule = RuleAnalyze(Excerpt(log), Evidence(log)), rule.category = "UNKNOWN",
         ShouldAllowAI(rule, Excerpt(log), Evidence(log)),
         IsSupportedAIResult(a, Excerpt(log), Evidence(log), rule),
         Grounded(a, log), a.provider = "GROQ", \A q \in a.evidence : ~ Is(q.line, "blank")
  PROVE  Justified(a, log)
<1>1. SUFFICES ASSUME Cardinality(Diagnostic(log)) <= MaxEvidence, a.category # "UNKNOWN"
               PROVE  ~ Recognized(log) /\ a.confidence >= 35 /\ \E x \in ToSet(log) : Is(x, "meaningful")
  <2>1. Cardinality(Diagnostic(log)) <= MaxEvidence => ~ Recognized(log)
    BY RulesFollow
  <2>2. QED
    BY <2>1 DEF Justified
<1>2. ~ Recognized(log)
  BY <1>1, RulesFollow
<1>3. a.confidence >= 35
  <2>1. a.confidence \in 0 .. 100
    BY DEF ResultType
  <2>2. ~ (a.confidence < 35)
    BY <1>1 DEF IsSupportedAIResult
  <2>3. QED
    BY <2>1, <2>2, NotBelow
<1>4. ToSet(Excerpt(log)) \subseteq ToSet(log) /\ ToSet(Evidence(log)) \subseteq ToSet(log)
  BY ExcerptShows, EvidenceIsDiagnostic DEF Diagnostic
<1>5. Meaningful(Excerpt(log), Evidence(log))
  <2>1. CASE a.evidence # {}
    <3>1. PICK x \in ToSet(log) : ~ Is(x, "blank")
      <4>1. PICK q \in a.evidence : q.line \in ToSet(log)
        BY <2>1 DEF Grounded
      <4>2. QED
        BY <4>1
    <3>2. x \in ToSet(Collapse(log))
      BY <3>1, CollapseKeepsLines
    <3>3. Collapse(log) # <<>>
      BY <3>2, EmptySeq DEF ToSet
    <3>4. \E y \in ToSet(Excerpt(log)) : ~ Is(y, "blank")
      BY <3>3, ExcerptShows
    <3>5. QED
      BY <3>4 DEF ShouldAllowAI
  <2>2. CASE a.evidence = {}
    BY <1>1, <2>2 DEF IsSupportedAIResult
  <2>3. QED
    BY <2>1, <2>2
<1>6. \E x \in ToSet(log) : Is(x, "meaningful")
  BY <1>4, <1>5 DEF Meaningful
<1>7. QED
  BY <1>2, <1>3, <1>6

LEMMA DecideKeeps ==
  ASSUME DiagnosisInv, Decide
  PROVE  DiagnosisInv'
<1> DEFINE log == diagnosis.log
           a == diagnosis.answer
           rule == diagnosis.rule
           Counts == IsSupportedAIResult(a, Excerpt(log), diagnosis.evidence, rule)
                     /\ rule.category = "UNKNOWN"
<1>1. diagnosis.phase = "answered"
      /\ diagnosis' = [diagnosis EXCEPT !.phase = "decided", !.stored = IF Counts THEN a ELSE rule]
  BY DEF Decide
<1>2. CASE ~ Counts
  <2>1. diagnosis' = [diagnosis EXCEPT !.phase = "decided", !.stored = diagnosis.rule]
    BY <1>1, <1>2
  <2>2. QED
    BY <1>1, <2>1, RulesDecide
<1>3. CASE Counts
  <2>1. log \in Seq(LogLines) /\ a \in ResultType
    BY DEF DiagnosisInv, DiagnosisTypeOK
  <2>2. /\ diagnosis.evidence = Evidence(log) /\ rule = RuleAnalyze(Excerpt(log), Evidence(log))
        /\ ShouldAllowAI(rule, Excerpt(log), Evidence(log))
        /\ Grounded(a, log) /\ a.provider = "GROQ" /\ \A q \in a.evidence : ~ Is(q.line, "blank")
    BY <1>1 DEF DiagnosisInv
  <2>3. rule.category = "UNKNOWN" /\ IsSupportedAIResult(a, Excerpt(log), Evidence(log), rule)
    BY <1>3, <2>2
  <2>4. diagnosis' = [diagnosis EXCEPT !.phase = "decided", !.stored = a]
    BY <1>1, <1>3
  <2>5. DiagnosisTypeOK'
    BY <2>4 DEF DiagnosisInv, DiagnosisTypeOK
  <2>6. /\ diagnosis'.phase = "decided" /\ diagnosis'.rule = rule /\ diagnosis'.log = log
        /\ diagnosis'.evidence = diagnosis.evidence /\ diagnosis'.stored = a
    BY <2>4 DEF DiagnosisInv, DiagnosisTypeOK
  <2> HIDE DEF log, a, rule, Counts
  <2>7. Justified(a, log)
    BY <2>1, <2>2, <2>3, SupportedIsJustified
  <2>8. QED
    BY <2>2, <2>5, <2>6, <2>7 DEF DiagnosisInv
<1>4. QED
  BY <1>2, <1>3

LEMMA PersistKeeps ==
  ASSUME DiagnosisInv, Persist
  PROVE  DiagnosisInv'
<1> DEFINE log == diagnosis.log
           d == diagnosis.stored
           found == FailedStep(Collapse(log), diagnosis.evidence)
           kept == IF found = "Unknown" THEN d.step ELSE found
           e == [d EXCEPT !.step = kept]
<1>1. diagnosis.phase = "decided" /\ diagnosis' = [diagnosis EXCEPT !.phase = "stored", !.stored = e]
  BY DEF Persist, DiagnosisInv, DiagnosisTypeOK, ResultType
<1>2. log \in Seq(LogLines) /\ d \in ResultType /\ ToSet(log) \subseteq LogLines
  <2>1. log \in Seq(LogLines) /\ d \in ResultType
    BY DEF DiagnosisInv, DiagnosisTypeOK
  <2> HIDE DEF log
  <2>2. ToSet(log) \subseteq LogLines
    BY <2>1, LenProperties, ElementOfSeq DEF ToSet
  <2>3. QED
    BY <2>1, <2>2
<1>3. /\ diagnosis.evidence = Evidence(log) /\ diagnosis.rule = RuleAnalyze(Excerpt(log), Evidence(log))
      /\ Grounded(d, log) /\ Justified(d, log)
  BY <1>1 DEF DiagnosisInv
<1>4. found = "Unknown" \/ \E x \in ToSet(log) : x.name = found
  <2>1. /\ Collapse(log) \in Seq(LogLines) /\ ToSet(Collapse(log)) \subseteq ToSet(log)
        /\ Evidence(log) \in Seq(LogLines) /\ ToSet(Evidence(log)) \subseteq ToSet(log)
    BY <1>2, CollapseKeepsLines, EvidenceIsDiagnostic DEF Diagnostic
  <2>2. QED
    BY <1>3, <2>1, FailedStepIsALine
<1> HIDE DEF found
<1>5. kept \in Steps /\ (kept = "Unknown" \/ \E x \in ToSet(log) : x.name = kept)
  <2>1. d.step \in Steps /\ (d.step = "Unknown" \/ \E x \in ToSet(log) : x.name = d.step)
    BY <1>2, <1>3 DEF Grounded, ResultType
  <2> HIDE DEF d, log
  <2>2. QED
    BY <1>2, <1>4, <2>1 DEF Steps
<1> HIDE DEF kept
<1>6. /\ e \in ResultType /\ e.evidence = d.evidence /\ e.category = d.category
      /\ e.provider = d.provider /\ e.confidence = d.confidence /\ e.step = kept
  BY <1>2, <1>5 DEF ResultType
<1> HIDE DEF e
<1>7. Grounded(e, log) /\ Justified(e, log)
  BY <1>3, <1>5, <1>6 DEF Grounded, Justified
<1>8. DiagnosisTypeOK'
  BY <1>1, <1>6 DEF DiagnosisInv, DiagnosisTypeOK
<1>9. /\ diagnosis'.phase = "stored" /\ diagnosis'.rule = diagnosis.rule /\ diagnosis'.log = log
      /\ diagnosis'.evidence = diagnosis.evidence /\ diagnosis'.stored = e
  BY <1>1 DEF DiagnosisInv, DiagnosisTypeOK
<1> HIDE DEF log
<1>10. QED
  BY <1>3, <1>7, <1>8, <1>9 DEF DiagnosisInv

LEMMA DiagnosisInductive ==
  DiagnosisInv /\ [DiagnosisNext]_diagnosis => DiagnosisInv'
<1> SUFFICES ASSUME DiagnosisInv, [DiagnosisNext]_diagnosis
             PROVE  DiagnosisInv'
  OBVIOUS
<1>1. ASSUME NEW n \in 1 .. MaxLog, NEW log \in [1 .. n -> LogLines], Receive(log)
      PROVE  DiagnosisInv'
  <2>1. log \in Seq(LogLines)
    BY SeqDef
  <2>2. QED
    BY <1>1, <2>1, ReceiveKeeps
<1>2. CASE Classify
  BY <1>2, ClassifyKeeps
<1>3. CASE SkipAI
  BY <1>3, RulesDecide DEF SkipAI
<1>4. CASE AskProvider
  BY <1>4, AskProviderKeeps
<1>5. CASE ProviderFails
  BY <1>5, RulesDecide DEF ProviderFails
<1>6. CASE Decide
  BY <1>6, DecideKeeps
<1>7. CASE Persist
  BY <1>7, PersistKeeps
<1>8. ASSUME NEW c \in AnswerCategories, NEW n \in AnswerConfidences, NEW step \in Steps,
             NEW m \in 0 .. MaxAnswer, NEW offered \in [1 .. m -> Quotations],
             ProviderAnswers(c, n, offered, step)
      PROVE  DiagnosisInv'
  <2>1. m \in Nat
    OBVIOUS
  <2>2. QED
    BY <1>8, <2>1, ProviderAnswersKeeps
<1>9. CASE UNCHANGED diagnosis
  BY <1>9 DEF DiagnosisInv, DiagnosisTypeOK
<1>10. QED
  BY <1>1, <1>2, <1>3, <1>4, <1>5, <1>6, <1>7, <1>8, <1>9 DEF DiagnosisNext

\* Every analysis has its type in every reachable state, whatever the log and the answer.
THEOREM DiagnosisTypeCorrect ==
  DiagnosisSpec => []DiagnosisTypeOK
<1>1. DiagnosisInv => DiagnosisTypeOK
  BY DEF DiagnosisInv
<1>2. QED
  BY DiagnosisInitial, DiagnosisInductive, <1>1, PTL DEF DiagnosisSpec

\* What is stored follows from the log.
THEOREM DiagnosisCorrect ==
  DiagnosisSpec => []DiagnosisFollowsTheLog
<1>1. DiagnosisInv => DiagnosisFollowsTheLog
  BY FollowingIs DEF DiagnosisInv
<1>2. QED
  BY DiagnosisInitial, DiagnosisInductive, <1>1, PTL DEF DiagnosisSpec

\* The positions of the lines a rule recognizes.
HitsOf(evidence, c) == {i \in DOMAIN evidence : c \in evidence[i].rules}

\* Of a log with few diagnostic lines all are quoted.
LEMMA FewAreQuoted ==
  ASSUME NEW log \in Seq(LogLines), Cardinality(Diagnostic(log)) <= MaxQuoted, NEW c
  PROVE  LET e == Evidence(log) IN
         /\ QuoteLines(e, HitsOf(e, c)) = {Verbatim(x) : x \in {y \in ToSet(e) : c \in y.rules}}
         /\ QuoteLines(e, DOMAIN e) = {Verbatim(x) : x \in ToSet(e)}
<1> DEFINE e == Evidence(log)
<1>1. e \in Seq(LogLines) /\ Distinct(e) /\ ToSet(e) \subseteq Diagnostic(log)
  BY EvidenceIsDiagnostic
<1>2. IsFiniteSet(Diagnostic(log))
  <2>1. Len(log) \in Nat /\ DOMAIN log = 1 .. Len(log)
    BY LenProperties
  <2>2. IsFiniteSet(ToSet(log))
    <3> DEFINE g == [i \in DOMAIN log |-> log[i]]
    <3>1. IsFiniteSet(DOMAIN log)
      BY <2>1, FS_Interval
    <3>2. g \in [DOMAIN log -> ToSet(log)] /\ \A x \in ToSet(log) : \E i \in DOMAIN log : g[i] = x
      BY DEF ToSet
    <3> HIDE DEF g
    <3>3. g \in Surjection(DOMAIN log, ToSet(log))
      BY <3>2 DEF Surjection
    <3>4. QED
      BY <3>1, <3>3, FS_Surjection
  <2>3. QED
    BY <2>2, FS_Subset DEF Diagnostic
<1> HIDE DEF e
<1>3. /\ IsFiniteSet(DOMAIN e) /\ Cardinality(DOMAIN e) <= MaxQuoted
  <2>1. /\ DOMAIN e = 1 .. Len(e) /\ Len(e) \in Nat /\ \A i \in DOMAIN e : e[i] \in LogLines
    BY <1>1, LenProperties, ElementOfSeq
  <2>2. /\ IsFiniteSet({i \in DOMAIN e : e[i] \in LogLines})
        /\ Cardinality({i \in DOMAIN e : e[i] \in LogLines}) = Cardinality(ToSet(e) \cap LogLines)
    BY <1>1, PositionsCount
  <2>3. {i \in DOMAIN e : e[i] \in LogLines} = DOMAIN e
    BY <2>1
  <2>4. /\ IsFiniteSet(ToSet(e) \cap LogLines)
        /\ Cardinality(ToSet(e) \cap LogLines) <= Cardinality(Diagnostic(log))
    BY <1>1, <1>2, FS_Subset
  <2>5. Cardinality(ToSet(e) \cap LogLines) \in Nat /\ Cardinality(Diagnostic(log)) \in Nat
    BY <1>2, <2>4, FS_CardinalityType
  <2>6. QED
    BY <2>2, <2>3, <2>4, <2>5, QuotesAreANumber
<1>4. ASSUME NEW S \in SUBSET DOMAIN e
      PROVE  QuoteLines(e, S) = {Verbatim(e[i]) : i \in S}
  <2>1. IsFiniteSet(S) /\ Cardinality(S) <= Cardinality(DOMAIN e)
    BY <1>3, FS_Subset
  <2>2. Cardinality(S) \in Nat /\ Cardinality(DOMAIN e) \in Nat
    BY <1>3, <2>1, FS_CardinalityType
  <2>3. Cardinality(S) <= MaxQuoted
    BY <1>3, <2>1, <2>2, QuotesAreANumber
  <2>4. QED
    BY <1>1, <2>3, QuotedLines
<1>5. QuoteLines(e, HitsOf(e, c)) = {Verbatim(x) : x \in {y \in ToSet(e) : c \in y.rules}}
  <2>1. HitsOf(e, c) \in SUBSET DOMAIN e
    BY DEF HitsOf
  <2>2. QuoteLines(e, HitsOf(e, c)) = {Verbatim(e[i]) : i \in HitsOf(e, c)}
    BY <1>4, <2>1
  <2>3. {Verbatim(e[i]) : i \in HitsOf(e, c)} = {Verbatim(x) : x \in {y \in ToSet(e) : c \in y.rules}}
    BY DEF HitsOf, ToSet
  <2>4. QED
    BY <2>2, <2>3
<1>6. QuoteLines(e, DOMAIN e) = {Verbatim(x) : x \in ToSet(e)}
  <2>1. QuoteLines(e, DOMAIN e) = {Verbatim(e[i]) : i \in DOMAIN e}
    BY <1>4
  <2>2. {Verbatim(e[i]) : i \in DOMAIN e} = {Verbatim(x) : x \in ToSet(e)}
    BY DEF ToSet
  <2>3. QED
    BY <2>1, <2>2
<1>7. QED
  BY <1>5, <1>6 DEF e

\* Noise changes nothing (process_log and analyze): two logs with the same diagnostic lines,
\* in whatever order, however often repeated and whatever else is between them, get the same
\* category, confidence and severity of the rules; and they quote the same evidence unless
\* there are more lines than a diagnosis quotes: then the order decides which are kept.  The
\* step may differ.
THEOREM OrderAndRepetitionDoNotMatter ==
  ASSUME NEW log1 \in Seq(LogLines), NEW log2 \in Seq(LogLines),
         Diagnostic(log1) = Diagnostic(log2), Cardinality(Diagnostic(log1)) <= MaxEvidence
  PROVE  LET r1 == RuleAnalyze(Excerpt(log1), Evidence(log1))
             r2 == RuleAnalyze(Excerpt(log2), Evidence(log2)) IN
         /\ r1.category = r2.category /\ r1.confidence = r2.confidence
         /\ r1.severity = r2.severity
         /\ Cardinality(Diagnostic(log1)) <= MaxQuoted => r1.evidence = r2.evidence
<1> DEFINE e1 == Evidence(log1)
           e2 == Evidence(log2)
           s1 == FailedStep(Excerpt(log1), e1)
           s2 == FailedStep(Excerpt(log2), e2)
           r1 == RuleAnalyze(Excerpt(log1), e1)
           r2 == RuleAnalyze(Excerpt(log2), e2)
<1>1. ToSet(e1) = ToSet(e2)
  BY EvidenceIsDiagnostic
<1>2. \A c : Hits(e1, c) = Hits(e2, c)
  BY HitsAreLines
<1>q. ASSUME Cardinality(Diagnostic(log1)) <= MaxQuoted, NEW c
      PROVE  QuoteLines(e1, HitsOf(e1, c)) = QuoteLines(e2, HitsOf(e2, c))
             /\ QuoteLines(e1, DOMAIN e1) = QuoteLines(e2, DOMAIN e2)
  <2>1. /\ QuoteLines(e1, HitsOf(e1, c)) = {Verbatim(x) : x \in {y \in ToSet(e1) : c \in y.rules}}
        /\ QuoteLines(e1, DOMAIN e1) = {Verbatim(x) : x \in ToSet(e1)}
    BY <1>q, FewAreQuoted
  <2>2. /\ QuoteLines(e2, HitsOf(e2, c)) = {Verbatim(x) : x \in {y \in ToSet(e2) : c \in y.rules}}
        /\ QuoteLines(e2, DOMAIN e2) = {Verbatim(x) : x \in ToSet(e2)}
    BY <1>q, FewAreQuoted
  <2> HIDE DEF e1, e2
  <2>3. QED
    BY <1>1, <2>1, <2>2
<1> HIDE DEF e1, e2
<1>3. \A k : Score(e1, k) = Score(e2, k)
  BY <1>2 DEF Score
<1>4. Best(e1) = Best(e2)
  <2> DEFINE First(e, k) == /\ \A l \in DOMAIN Rules : Score(e, l) <= Score(e, k)
                            /\ \A l \in 1 .. k - 1 : Score(e, l) < Score(e, k)
  <2>1. \A k : First(e1, k) <=> First(e2, k)
    BY <1>3
  <2>2. /\ Best(e1) = CHOOSE k \in DOMAIN Rules : First(e1, k)
        /\ Best(e2) = CHOOSE k \in DOMAIN Rules : First(e2, k)
    BY DEF Best
  <2> HIDE DEF First
  <2>3. QED
    BY <2>1, <2>2
<1> DEFINE k == Best(e1)
           n == Hits(e1, Rules[k].category)
           result(s, quoted) ==
             [category   |-> Rules[k].category,
              confidence |-> AtMost(Rules[k].confidence + AtMost(n, 6), 99),
              severity   |-> Severity(Rules[k].category, Rules[k].confidence),
              evidence   |-> quoted,
              step       |-> s,
              provider   |-> "RULE_BASED"]
           nothing(s, quoted) == [Unknown EXCEPT !.step = s, !.evidence = quoted]
           all1 == QuoteLines(e1, DOMAIN e1)
           all2 == QuoteLines(e2, DOMAIN e2)
           hit1 == QuoteLines(e1, HitsOf(e1, Rules[k].category))
           hit2 == QuoteLines(e2, HitsOf(e2, Rules[k].category))
<1>5. n = Hits(e2, Rules[k].category)
  BY <1>2
<1>6. \/ r1 = nothing(s1, all1) /\ r2 = nothing(s2, all2)
      \/ r1 = result(s1, hit1) /\ r2 = result(s2, hit2)
  <2>1. CASE n = 0
    BY <1>4, <1>5, <2>1 DEF RuleAnalyze
  <2>2. CASE n # 0
    BY <1>4, <1>5, <2>2 DEF RuleAnalyze, HitsOf
  <2>3. QED
    BY <2>1, <2>2
<1> DEFINE few == Cardinality(Diagnostic(log1)) <= MaxQuoted
<1>7. few => all1 = all2 /\ hit1 = hit2
  BY <1>q
<1>8. /\ r1.category = r2.category /\ r1.confidence = r2.confidence
      /\ r1.severity = r2.severity /\ (few => r1.evidence = r2.evidence)
  <2> HIDE DEF s1, s2, k, n, all1, all2, hit1, hit2, few, r1, r2
  <2>1. CASE r1 = nothing(s1, all1) /\ r2 = nothing(s2, all2)
    BY <1>7, <2>1 DEF Unknown
  <2>2. CASE r1 = result(s1, hit1) /\ r2 = result(s2, hit2)
    BY <1>7, <2>2
  <2> HIDE DEF nothing, result
  <2>3. QED
    BY <1>6, <2>1, <2>2
<1>9. QED
  BY <1>8 DEF e1, e2

-----------------------------------------------------------------------------
(* The components beside each other. *)

\* A behaviour of the composition is one of every component: the others rest in each step.
LEMMA ComponentsOfSpec ==
  Spec => /\ SessionSpec /\ LoginSpec /\ InstallSpec /\ MemberSpec
          /\ AccessSpec /\ InlineSpec /\ DiagnosisSpec
<1>1. Init => /\ SessionInit /\ LoginInit /\ InstallInit /\ MemberInit
              /\ AccessInit /\ InlineInit /\ DiagnosisInit
  BY DEF Init
<1>2. [Next]_<<focus, sessionVars, loginVars, installVars, memberVars, accessVars, inlineVars, diagnosis>>
        => /\ [SessionNext]_sessionVars /\ [LoginNext]_loginVars /\ [InstallNext]_installVars
           /\ [MemberNext]_memberVars /\ [AccessNext]_accessVars /\ [InlineNext]_inlineVars
           /\ [DiagnosisNext]_diagnosis
  BY DEF Next
<1>3. QED
  BY <1>1, <1>2, PTL
     DEF Spec, SessionSpec, LoginSpec, InstallSpec, MemberSpec, AccessSpec, InlineSpec, DiagnosisSpec

\* Every variable of every component has its type, whoever else is at work.
THEOREM ServicesTypeCorrect == Spec => []TypeOK
<1>1. SUFFICES Spec => /\ []SessionTypeOK /\ []LoginTypeOK /\ []InstallTypeOK /\ []MemberTypeOK
                      /\ []AccessTypeOK /\ []InlineTypeOK /\ []DiagnosisTypeOK
  BY PTL DEF TypeOK
<1>2. QED
  BY ComponentsOfSpec, SessionTypeCorrect, LoginTypeCorrect, InstallTypeCorrect,
     MembershipTypes, AccessTypeCorrect, InlineTypeCorrect, DiagnosisTypeCorrect, PTL

\* What holds of a component holds of the backend that runs them beside each other: none of
\* the others writes its state.
THEOREM ServicesCorrect ==
  Spec => /\ [](ReuseNeedsOverlap /\ SessionIsKept /\ DeactivationHolds /\ TokensStayInside)
          /\ [](OpenInvitationsAreFew /\ RateIsBounded /\ InlineRunsAreBounded)
          /\ []DiagnosisFollowsTheLog
          /\ LinkIsKept
<1>1. QED
  BY ComponentsOfSpec, TokensAreReusedInOverlapOnly, SessionsAreKept, DeactivationIsKept,
     TokensInside, OpenInvitationsBounded, AccessRateBounded, InlineRunsBounded,
     DiagnosisCorrect, LinksAreKept, PTL

=============================================================================
